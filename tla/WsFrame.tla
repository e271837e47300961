------------------------------ MODULE WsFrame ------------------------------
(***************************************************************************)
(* WebSocket framing (stt_ws_frame.c): what the decoder answers for the    *)
(* first bytes of a frame, what the encoder needs, and the answer to the   *)
(* upgrade.  A frame is the fields of its header; its bytes are counted.   *)
(***************************************************************************)
EXTENDS Integers, SequencesExt

CONTROL_MAX == 125         \* WS_CONTROL_MAX
RX_MAX_PAYLOAD == 8192     \* STT_WS_RX_MAX_PAYLOAD
RX_BUFFER == RX_MAX_PAYLOAD + 64
AUDIO_MAX == 20 + 2048     \* the header of a chunk and its samples
TX_MAX == 14 + AUDIO_MAX   \* STT_WS_TX_MAX

PING == 9
PONG == 10
IsControl(op) == op >= 8

(***************************************************************************)
(* A frame as it arrives: form is the width of its length field, which a   *)
(* server may choose wider than it needs, and huge the top bit of a 64-bit *)
(* length.                                                                 *)
(***************************************************************************)
FrameHeader(form) == 2 + (CASE form = 7 -> 0 [] form = 16 -> 2 [] form = 64 -> 8)

FrameSize(f) == FrameHeader(f.form) + f.len

MutForbidden(f) == f.huge \/ (IsControl(f.op) /\ ~f.fin)

Forbidden(f) == f.huge \/ (IsControl(f.op) /\ (f.len > CONTROL_MAX \/ ~f.fin))

(***************************************************************************)
(* stt_ws_frame_decode, given the first size bytes of f.                   *)
(***************************************************************************)
Verdict(f, size) ==
  IF size < 2 THEN "EAGAIN"
  ELSE IF f.rsv \/ f.mask THEN "EPROTO"
  ELSE IF size < FrameHeader(f.form) THEN "EAGAIN"
  ELSE IF Forbidden(f) THEN "EPROTO"
  ELSE IF f.len > RX_MAX_PAYLOAD THEN "EMSGSIZE"
  ELSE IF size < FrameSize(f) THEN "EAGAIN"
  ELSE "OK"

(***************************************************************************)
(* stt_ws_frame_encode: whether a payload can be sent, header and mask     *)
(* included.                                                               *)
(***************************************************************************)
LengthForm(len) == IF len > 65535 THEN 64 ELSE IF len > CONTROL_MAX THEN 16 ELSE 7

Encodes(op, len) ==
  /\ IsControl(op) => len <= CONTROL_MAX
  /\ FrameHeader(LengthForm(len)) + 4 + len <= TX_MAX

(***************************************************************************)
(* stt_ws_handshake_validate_response, given the first lines of the        *)
(* answer: a status, headers, an empty line, and then frames, whose bytes  *)
(* may look like a header.  A line is "101", "accept" with the value the   *)
(* client expects, "refused" with another one, "other" or "".              *)
(***************************************************************************)
HeaderEnd(lines) == SelectInSeq(lines, LAMBDA l : l = "")

AcceptMatches(header) ==
  LET first == SelectInSeq(header, LAMBDA l : l \in {"accept", "refused"})
  IN first > 0 /\ header[first] = "accept"

Answer(lines) ==
  LET header == SubSeq(lines, 1, HeaderEnd(lines))
  IN IF HeaderEnd(lines) = 0 THEN "EAGAIN"
     ELSE IF header[1] = "101" /\ AcceptMatches(header) THEN "OK" ELSE "EPROTO"

-----------------------------------------------------------------------------
(***************************************************************************)
(* The frames and the answers looked at: every form, the lengths at each   *)
(* of the codec's limits.                                                  *)
(***************************************************************************)
Lengths == {0, 1, 125, 126, 127, 2048, 8191, 8192, 8193, 65535, 65536}

Frames ==
  {f \in [op : {0, 1, 2, 8, PING, PONG}, fin : BOOLEAN, rsv : BOOLEAN, mask : BOOLEAN,
          form : {7, 16, 64}, len : Lengths, huge : BOOLEAN] :
     /\ f.form = 7 => f.len <= 125
     /\ f.form = 16 => f.len <= 65535
     /\ f.huge => f.form = 64}

Sizes(f) == {n \in {0, 1, 2, 3, 4, 9, 10, RX_BUFFER} \cup
                   ((FrameSize(f) - 1)..(FrameSize(f) + 1)) : n \in 0..RX_BUFFER}

Answers == UNION {[1..n -> {"101", "accept", "refused", "other", ""}] : n \in 1..4}

(***************************************************************************)
(* What is decided for the first bytes holds for more of them; and a full  *)
(* receive buffer is always decided: pump_rx never waits for bytes it has  *)
(* no room for.                                                            *)
(***************************************************************************)
FramesDecided ==
  \A f \in Frames :
    /\ \A m, n \in Sizes(f) :
         (m <= n /\ Verdict(f, m) # "EAGAIN") => Verdict(f, n) = Verdict(f, m)
    /\ Verdict(f, RX_BUFFER) # "EAGAIN"

(***************************************************************************)
(* Nothing that follows the header block decides about the upgrade.        *)
(***************************************************************************)
AnswersDecided ==
  \A a \in Answers : \A n \in 1..Len(a) :
    LET first == SubSeq(a, 1, n)
    IN  Answer(first) # "EAGAIN" => Answer(a) = Answer(first)

(***************************************************************************)
(* Every ping that is taken can be answered, and every payload the client  *)
(* itself sends fits its buffer.                                           *)
(***************************************************************************)
PayloadsFit ==
  /\ \A f \in Frames : (Verdict(f, RX_BUFFER) = "OK" /\ f.op = PING) => Encodes(PONG, f.len)
  /\ Encodes(2, AUDIO_MAX) /\ Encodes(1, 511) /\ Encodes(8, 0)
=============================================================================
