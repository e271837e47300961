---------------------------- MODULE MCSttClient ----------------------------
(***************************************************************************)
(* The STT client, model-checked: a queue of two chunks sheds, a session   *)
(* comes and goes several times, and the backoff reaches its maximum.      *)
(***************************************************************************)
EXTENDS SttClient, WsFrame, SttMessage

(***************************************************************************)
(* However the bytes of the server are cut up on their way, the worker     *)
(* reads the same where it reads (run_upgrade, pump_rx), never waits for   *)
(* bytes it has no room for, has room for what it sends, and takes a       *)
(* message for what the server meant by it (handle_text_message).          *)
(***************************************************************************)
WireSound ==
  /\ w = "upgrade" => AnswersDecided
  /\ w \in {"starting", "pump"} => FramesDecided
  /\ w \in {"start", "pump", "send", "close"} => PayloadsFit
  /\ w \in {"start", "pump"} => MessagesUnderstood
=============================================================================
