------------------------------ MODULE SttServer ------------------------------
(***************************************************************************)
(* The STT server (app.py) with its one recogniser (nemotron.py).  The     *)
(* event loop interleaves the handlers of any number of clients at their   *)
(* awaits; recognition runs in a thread that its handler awaits.  Only one *)
(* session may use the recogniser, whose settings are global.              *)
(*                                                                         *)
(* A session has its settings, the samples received, fed to the recogniser *)
(* and left over, and the adapter that makes caption lines of the          *)
(* hypotheses; said and sent are histories of the words, kept until the    *)
(* recogniser goes back on one.                                            *)
(*                                                                         *)
(* A ping and an unexpected message are answered and change nothing.       *)
(***************************************************************************)
EXTENDS TranscriptAdapter

CONSTANTS
  Stream,           \* clients of /stt/stream
  Upload,           \* clients of /stt/offline
  Latency,          \* the settings a session may ask for
  Chunks,           \* the numbers of samples in a message
  FRAME,            \* frame_samples
  MaxSamples,       \* bound: the samples of a session
  MaxWords          \* bound: the words of a session

ASSUME ServerAssumption ==
  /\ "half" \notin Latency
  /\ FRAME \in Nat \ {0} /\ Chunks \subseteq Nat
  /\ MaxSamples \in Nat /\ MaxWords \in Nat

VARIABLES
  status,           \* BackendState._status
  active,           \* SingleSessionManager._active
  pc,               \* where the handler of each client is
  model,            \* the recogniser: config, the settings in force, and the stream that opened it last
  session           \* the NemotronSession of each stream

vars == <<status, active, pc, model, session>>

Half == "half"
NoSession == [opened |-> FALSE]

NewSession(latency) ==
  [config |-> latency, opened |-> FALSE, received |-> 0, fed |-> 0, rest |-> 0,
   finished |-> FALSE, adapter |-> NewAdapter, said |-> <<>>, sent |-> <<>>, tracked |-> TRUE]

Init ==
  /\ status \in {"loading", "ready"}
  /\ active = FALSE
  /\ pc = [c \in Stream \cup Upload |-> "away"]
  /\ \E l \in Latency : model = [config |-> l, applied |-> l, open |-> {}]
  /\ session = [c \in Stream |-> NoSession]

Goto(c, place) == pc' = [pc EXCEPT ![c] = place]

-----------------------------------------------------------------------------
(***************************************************************************)
(* run_loader: the model is loaded, warmed up, and ready; or it failed,    *)
(* for good.                                                               *)
(***************************************************************************)
Load ==
  /\ \/ status = "loading" /\ status' \in {"warming_up", "failed"}
     \/ status = "warming_up" /\ status' \in {"ready", "failed"}
  /\ UNCHANGED <<active, pc, model, session>>

(***************************************************************************)
(* SingleSessionManager.                                                   *)
(***************************************************************************)
MutTryAcquire == active' = TRUE
TryAcquire == ~active /\ active' = TRUE
Release == active' = FALSE

-----------------------------------------------------------------------------
(***************************************************************************)
(* stt_stream.  A client that finds the recogniser not ready or taken is   *)
(* told so and may come back.                                              *)
(***************************************************************************)
Connect(c) ==
  /\ pc[c] = "away" /\ status = "ready"
  /\ TryAcquire
  /\ Goto(c, "starting")
  /\ UNCHANGED <<status, model, session>>

Refuse(c) ==
  /\ pc[c] = "away" /\ (status # "ready" \/ active)
  /\ UNCHANGED vars

(***************************************************************************)
(* configure_streaming: new settings are recorded first and then put in    *)
(* force, step by step; a step that fails leaves them half in force.       *)
(***************************************************************************)
Configure(latency) == model' = [model EXCEPT !.config = latency, !.applied = latency]
ConfigureFails(latency) == model' = [model EXCEPT !.config = latency, !.applied = Half]
SameSettings(latency) == latency = model.config
Prepare(latency) == IF SameSettings(latency) THEN UNCHANGED model ELSE Configure(latency)

Start(c, latency) ==
  /\ pc[c] = "starting"
  /\ Prepare(latency)
  /\ session' = [session EXCEPT ![c] = NewSession(latency)]
  /\ Goto(c, "serving")
  /\ UNCHANGED <<status, active>>

(***************************************************************************)
(* The settings fail, or build_session does with the settings in force.    *)
(***************************************************************************)
StartFails(c, latency) ==
  /\ pc[c] = "starting"
  /\ \/ ~SameSettings(latency) /\ ConfigureFails(latency)
     \/ Prepare(latency)
  /\ Goto(c, "closing")
  /\ UNCHANGED <<status, active, session>>

(***************************************************************************)
(* A session_start that is refused, a message that cannot be decoded, a    *)
(* client that is gone before or while it is answered.                     *)
(***************************************************************************)
Leave(c) ==
  /\ pc[c] \in {"starting", "serving", "answering"}
  /\ Goto(c, "closing")
  /\ UNCHANGED <<status, active, model, session>>

(***************************************************************************)
(* NemotronSession.open, at the first message: the pipeline is opened and  *)
(* the options of the stream are built; either may fail, the second with   *)
(* the pipeline open and the session not knowing it.                       *)
(***************************************************************************)
EngineOpen(c) == IF session[c].opened THEN UNCHANGED model
                 ELSE model' = [model EXCEPT !.open = {c}]

EngineOpenFails(c) ==
  /\ pc[c] = "serving" /\ ~session[c].opened
  /\ EngineOpen(c) \/ UNCHANGED model
  /\ Goto(c, "closing")
  /\ UNCHANGED <<status, active, session>>

(***************************************************************************)
(* Audio goes to the thread: push_float32 joins it to the rest of the last *)
(* message.                                                                *)
(***************************************************************************)

Push(c, n) ==
  /\ pc[c] = "serving" /\ session[c].received + n <= MaxSamples
  /\ EngineOpen(c)
  /\ session' = [session EXCEPT ![c].opened = TRUE, ![c].received = @ + n, ![c].rest = @ + n]
  /\ Goto(c, "stepping")
  /\ UNCHANGED <<status, active>>

End(c) ==
  /\ pc[c] = "serving"
  /\ EngineOpen(c)
  /\ session' = [session EXCEPT ![c].opened = TRUE, ![c].finished = TRUE]
  /\ Goto(c, "flushing")
  /\ UNCHANGED <<status, active>>

(***************************************************************************)
(* What the recogniser may make of a frame: nothing, the utterance so far, *)
(* one word more, or its end; or another utterance altogether.             *)
(***************************************************************************)
Heard(s) ==
  LET utt == s.adapter.utt
      more == IF Len(s.said) < MaxWords THEN {<<w>> : w \in Word} ELSE {}
  IN  {[final |-> <<>>, partial |-> <<>>, new |-> <<>>]}
        \cup {[final |-> <<>>, partial |-> utt \o w, new |-> w] : w \in more \cup {<<>>}}
        \cup {[final |-> utt \o w, partial |-> <<>>, new |-> w] : w \in more \cup {<<>>}}
        \cup {[final |-> utt, partial |-> w, new |-> w] : w \in more}

Revised == [final : Hypotheses(2), partial : Hypotheses(1)]

(***************************************************************************)
(* The session after a frame of n samples: ingest.  At the last frame,     *)
(* force_final follows.                                                    *)
(***************************************************************************)
Recognised(s, n, out, tracked) ==
  LET r == Ingest(s.adapter, out.final, out.partial, s.fed, s.fed + n)
      t == IF s.finished THEN ForceFinal(r, s.fed + n) ELSE r
  IN  [s EXCEPT !.fed = @ + n, !.rest = @ - n, !.tracked = tracked, !.adapter = t.adapter,
                !.said = IF tracked THEN @ \o out.new ELSE <<>>,
                !.sent = IF tracked THEN @ \o FlattenSeq(t.finals) ELSE <<>>]

Recognises(c, n, after) ==
  \/ /\ session[c].tracked
     /\ \E out \in Heard(session[c]) :
          session' = [session EXCEPT ![c] = [Recognised(@, n, out, TRUE) EXCEPT !.opened = after]]
  \/ \E out \in Revised :
       session' = [session EXCEPT ![c] = [Recognised(@, n, out, FALSE) EXCEPT !.opened = after]]

(***************************************************************************)
(* _run_step in the thread: full frames, one by one; then the events go    *)
(* out.  flush: what is left, padded, is the last frame, and the engine is *)
(* closed.                                                                 *)
(***************************************************************************)
Step(c) ==
  /\ pc[c] = "stepping"
  /\ IF session[c].rest >= FRAME
     THEN Recognises(c, FRAME, TRUE) /\ UNCHANGED pc
     ELSE Goto(c, "answering") /\ UNCHANGED session
  /\ UNCHANGED <<status, active, model>>

Answer(c) ==
  /\ pc[c] = "answering"
  /\ Goto(c, "serving")
  /\ UNCHANGED <<status, active, model, session>>

Flush(c) ==
  /\ pc[c] = "flushing"
  /\ Recognises(c, session[c].rest, FALSE)
  /\ model' = [model EXCEPT !.open = {}]
  /\ Goto(c, "closing")
  /\ UNCHANGED <<status, active>>

(***************************************************************************)
(* A frame fails, or the close after the last one: the session is over,    *)
(* and what was recognised is not sent.                                    *)
(***************************************************************************)
StepFails(c) ==
  /\ pc[c] \in {"stepping", "flushing"}
  /\ Goto(c, "closing")
  /\ UNCHANGED <<status, active, model, session>>

(***************************************************************************)
(* session.close: the pipeline is closed if the session knows it is open.  *)
(* A close that fails is caught, and leaves it open.                       *)
(***************************************************************************)
Close(c) == \/ session[c].opened /\ model' = [model EXCEPT !.open = {}]
            \/ UNCHANGED model

MutFinish(c) ==
  /\ pc[c] = "closing"
  /\ Close(c)
  /\ session' = [session EXCEPT ![c] = NoSession]
  /\ IF session[c] = NoSession THEN UNCHANGED active ELSE Release
  /\ Goto(c, "away")
  /\ UNCHANGED status

(***************************************************************************)
(* The end of every session, however it came about: the engine is closed,  *)
(* and whether it could be or not, the recogniser is free.                 *)
(***************************************************************************)
Finish(c) ==
  /\ pc[c] = "closing"
  /\ Close(c)
  /\ session' = [session EXCEPT ![c] = NoSession]
  /\ Release
  /\ Goto(c, "away")
  /\ UNCHANGED status

-----------------------------------------------------------------------------
(***************************************************************************)
(* stt_offline: the same recogniser, in a thread, without a session.       *)
(***************************************************************************)
Transcribe(c) ==
  /\ pc[c] = "away" /\ status = "ready"
  /\ TryAcquire
  /\ Goto(c, "transcribing")
  /\ UNCHANGED <<status, model, session>>

Transcribed(c) ==
  /\ pc[c] = "transcribing"
  /\ Release
  /\ Goto(c, "away")
  /\ UNCHANGED <<status, model, session>>

-----------------------------------------------------------------------------
Serve(c) == Step(c) \/ Answer(c) \/ Flush(c) \/ StepFails(c) \/ Finish(c)

Next ==
  \/ Load
  \/ \E c \in Stream :
       \/ Connect(c) \/ Leave(c) \/ EngineOpenFails(c) \/ End(c) \/ Serve(c)
       \/ \E l \in Latency : Start(c, l) \/ StartFails(c, l)
       \/ \E n \in Chunks : Push(c, n)
  \/ \E c \in Upload : Transcribe(c) \/ Transcribed(c)
  \/ \E c \in Stream \cup Upload : Refuse(c)

(***************************************************************************)
(* The event loop and its threads go on; a client leaves in the end.       *)
(***************************************************************************)
Fairness ==
  /\ \A c \in Stream : WF_vars(Serve(c)) /\ SF_vars(Leave(c))
  /\ \A c \in Upload : WF_vars(Transcribed(c))

Spec == Init /\ [][Next]_vars /\ Fairness

-----------------------------------------------------------------------------
(***************************************************************************)
(* The recogniser has one user at a time: it is taken exactly while one    *)
(* handler is between its acquisition and its end; the settings recorded   *)
(* are those of the session that is served; and a session that takes the   *)
(* pipeline for open was the last to open it, with no close since, though  *)
(* opens and closes may fail and leave it open for nobody.                 *)
(***************************************************************************)
Users == {c \in Stream \cup Upload : pc[c] # "away"}
Serving == {"serving", "stepping", "flushing", "answering"}

ModelExclusive ==
  /\ Cardinality(Users) = (IF active THEN 1 ELSE 0)
  /\ \A c \in Stream :
       /\ pc[c] \in Serving => session[c].config = model.config
       /\ session[c].opened => model.open = {c}

(***************************************************************************)
(* nemotron.py:1160-1162: "Apply the complete endpointing configuration    *)
(* here so every value reported in session_ready is actually active."      *)
(***************************************************************************)
SettingsActive ==
  \A c \in Stream : pc[c] \in Serving => model.applied = session[c].config

(***************************************************************************)
(* Every sample is fed once, and every word of a recogniser that goes back *)
(* on none is sent once, in order, in lines that fit; in a revision, no    *)
(* word that the alignment keeps changes from sent to unsent or back (a    *)
(* word it does not keep may be sent again, or never).  No line starts     *)
(* after the sample clock, so the firmware can refuse the times of a final *)
(* only when the recogniser itself ends it before the line before it was   *)
(* sent.                                                                   *)
(***************************************************************************)
TranscriptWhole ==
  /\ \A c \in Stream : session[c] # NoSession =>
       LET s == session[c]
       IN  /\ s.received = s.fed + s.rest
           /\ pc[c] \in {"serving", "answering"} => s.rest < FRAME
           /\ s.adapter.promoted \in 0..Len(s.adapter.utt)
           /\ s.adapter.start <= s.fed
           /\ s.tracked => s.said = s.sent \o Pending(s.adapter)
           /\ (s.adapter.flushed /\ s.tracked) => s.said = s.sent
  /\ active => BoundaryPreserved /\ LinesWhole

(***************************************************************************)
(* Whatever fails, and wherever the client leaves, the recogniser is free  *)
(* again for the next client.                                              *)
(***************************************************************************)
Freed == active ~> ~active
=============================================================================
