----------------------------- MODULE SttMessage -----------------------------
(***************************************************************************)
(* The JSON messages of a session, as the firmware writes and reads them   *)
(* (stt_session_json.c, stt_transcript_parse.c, stt_json.c) and as the     *)
(* server does (protocol.py, NemotronConfig).  A message is the sequence   *)
(* of its fields; a value is a string, a number, a boolean, or an object   *)
(* or array of some depth.  Times are counted in units of 1.024 s.         *)
(***************************************************************************)
EXTENDS Integers, SequencesExt

MAX_DEPTH == 4              \* STT_JSON_MAX_DEPTH
TIME_MAX == 4194303         \* UINT32_MAX ms
PROTOCOL_VERSION == 1
FORMAT_S16_LE == 1

Text(t) == [is |-> "string", text |-> t]
Number(n) == [is |-> "number", n |-> n]
Truth(b) == [is |-> "boolean", b |-> b]
Nested(depth) == [is |-> "nested", depth |-> depth]
Field(key, value) == [key |-> key, value |-> value]

Keys(m) == {m[i].key : i \in DOMAIN m}
Get(m, key) == m[SelectLastInSeq(m, LAMBDA f : f.key = key)].value

-----------------------------------------------------------------------------
(***************************************************************************)
(* stt_json.c: a non-empty string, a number without sign, a boolean, for   *)
(* which 0 and 1 may stand, and any value that is only passed over.        *)
(***************************************************************************)
IsText(v) == v.is = "string" /\ v.text # ""
IsCount(v) == v.is = "number" /\ v.n >= 0
IsTruth(v) == v.is = "boolean" \/ (v.is = "number" /\ v.n \in {0, 1})
IsTrue(v) == IF v.is = "boolean" THEN v.b ELSE v.n = 1
Skippable(v) == v.is = "nested" => v.depth <= MAX_DEPTH

(***************************************************************************)
(* stt_transcript_parse_line.  No field it knows may come twice; the type  *)
(* may say whether the line is final, and must then agree with is_final.   *)
(***************************************************************************)
Known == {"seq", "is_final", "type", "start_sec", "end_sec", "text"}

Reads(f) ==
  CASE f.key = "seq" -> IsCount(f.value)
    [] f.key = "is_final" -> IsTruth(f.value)
    [] f.key = "type" -> IsText(f.value) /\ f.value.text \in {"final", "partial", "transcript"}
    [] f.key \in {"start_sec", "end_sec"} -> f.value.is = "number"
    [] f.key = "text" -> IsText(f.value)
    [] OTHER -> Skippable(f.value)

TypeMarks(m) == "type" \in Keys(m) /\ Get(m, "type").text \in {"final", "partial"}

IsFinal(m) ==
  IF "is_final" \in Keys(m) THEN IsTrue(Get(m, "is_final")) ELSE Get(m, "type").text = "final"

Parses(m) ==
  /\ \A i \in DOMAIN m : Reads(m[i])
  /\ \A i, j \in DOMAIN m : (i # j /\ m[i].key \in Known) => m[i].key # m[j].key
  /\ {"seq", "start_sec", "end_sec", "text"} \subseteq Keys(m)
  /\ "is_final" \in Keys(m) \/ TypeMarks(m)
  /\ TypeMarks(m) => (IsFinal(m) <=> Get(m, "type").text = "final")
  /\ 0 <= Get(m, "start_sec").n /\ Get(m, "start_sec").n <= Get(m, "end_sec").n
  /\ Get(m, "end_sec").n <= TIME_MAX

(***************************************************************************)
(* stt_session_json_message_type, stt_session_json_parse_ready and         *)
(* stt_session_json_parse_error.                                           *)
(***************************************************************************)
MessageTypes == {"session_ready", "transcript", "session_summary", "error", "pong"}

TypeField(f) == IF f.key = "type" THEN IsText(f.value) ELSE Skippable(f.value)

MessageType(m) ==
  IF /\ "type" \in Keys(m) /\ \A i \in DOMAIN m : TypeField(m[i])
     /\ Get(m, "type").text \in MessageTypes
  THEN Get(m, "type").text ELSE "unknown"

ReadyField(f) ==
  /\ f.key \in {"version", "sample_rate_hz"} => IsCount(f.value)
  /\ f.key = "run_engine" => f.value.is = "string"

ParsesReady(m) ==
  /\ MessageType(m) = "session_ready" /\ \A i \in DOMAIN m : ReadyField(m[i])
  /\ "version" \in Keys(m) /\ Get(m, "version").n = PROTOCOL_VERSION

ErrorField(f) ==
  /\ f.key = "message" => f.value.is = "string"
  /\ f.key = "busy" => IsTruth(f.value)

ParsesError(m) == MessageType(m) = "error" /\ \A i \in DOMAIN m : ErrorField(m[i])

(***************************************************************************)
(* stt_session_json_build_start: what is asked of the server; a zero or an *)
(* empty language is not mentioned.  A language is "", a "locale", another *)
(* "tag" that is safe to write, or "unsafe".                               *)
(***************************************************************************)
Overrides(s) ==
  {o \in {<<"target_lang", s.lang>>} : s.lang # ""} \cup
  {o \in {<<"latency_ms", s.latency>>, <<"stop_history_eou_ms", s.history>>,
          <<"residue_tokens_at_end", s.residue>>} : o[2] # 0}

BuildsStart(s) ==
  /\ s.rate # 0 /\ s.channels = 1 /\ s.format = FORMAT_S16_LE /\ s.bytes # 0
  /\ s.lang # "unsafe"

BuildStart(s) ==
  [type |-> "session_start", version |-> PROTOCOL_VERSION, rate |-> s.rate,
   channels |-> s.channels, format |-> s.format, bytes |-> s.bytes, overrides |-> Overrides(s)]

-----------------------------------------------------------------------------
(***************************************************************************)
(* The server's side: validate_session_start and NemotronConfig.           *)
(***************************************************************************)
Published == {80, 160, 320, 560, 1120}

ValidStart(m) ==
  /\ m.type = "session_start" /\ m.version = PROTOCOL_VERSION /\ m.rate > 0
  /\ m.channels = 1 /\ m.format = FORMAT_S16_LE /\ m.bytes > 0

ValidOverrides(overrides) ==
  \A o \in overrides :
    \/ o[1] = "target_lang" /\ o[2] = "locale"
    \/ o[1] = "latency_ms" /\ o[2] \in Published
    \/ o[1] \in {"stop_history_eou_ms", "residue_tokens_at_end"} /\ o[2] >= 0

(***************************************************************************)
(* What the server writes: TranscriptAdapter._emit and what app.py adds,   *)
(* session_ready_message, and the answer to a client it has no room for.   *)
(***************************************************************************)
TranscriptMessage(seq, final, start, end, text) ==
  <<Field("type", Text("transcript")), Field("seq", Number(seq)), Field("is_final", Truth(final)),
    Field("start_sec", Number(start)), Field("end_sec", Number(end)), Field("text", Text(text)),
    Field("full_text", Text(text)), Field("att_context_size", Nested(1)),
    Field("eou", Truth(final)), Field("server_sent_monotonic", Number(end))>>

ReadyMessage(rate) ==
  <<Field("type", Text("session_ready")), Field("version", Number(PROTOCOL_VERSION)),
    Field("sample_rate_hz", Number(rate)), Field("run_engine", Text("nemotron")),
    Field("run_config", Nested(2))>>

BusyMessage ==
  <<Field("type", Text("error")), Field("message", Text("busy")), Field("busy", Truth(TRUE))>>

-----------------------------------------------------------------------------
(***************************************************************************)
(* The two sides understand each other: the firmware takes every message   *)
(* of the server for what it is, from wherever in the message its fields   *)
(* are read; the server takes every opening the firmware writes, and       *)
(* refuses its settings only for a language that is no locale or a latency *)
(* that is not published, for which the firmware has no check.             *)
(***************************************************************************)
Rotate(m, n) == SubSeq(m, n + 1, Len(m)) \o SubSeq(m, 1, n)

Lang == {"", "locale", "tag", "unsafe"}

Starts ==
  [rate : {0, 48000}, channels : {1, 2}, format : {0, 1}, bytes : {0, 1920}, lang : Lang,
   latency : {0, 320, 560, 600}, history : {0, 600}, residue : {0, 2}]

TakenForTranscript(m, final, start, end) ==
  /\ MessageType(m) = "transcript"
  /\ Parses(m) <=> (start <= end /\ end <= TIME_MAX)
  /\ IsFinal(m) <=> final
  /\ ~Parses(m \o Rotate(m, 9)) /\ ~Parses(Tail(m) \o <<Field("text", Text(""))>>)

TakenForStart(s) ==
  /\ ValidStart(BuildStart(s))
  /\ ValidOverrides(BuildStart(s).overrides) <=>
       (s.lang \in {"", "locale"} /\ s.latency \in Published \cup {0})

MessagesUnderstood ==
  /\ \A final \in BOOLEAN, start, end \in {0, 1, TIME_MAX, TIME_MAX + 1}, n \in 0..9 :
       TakenForTranscript(Rotate(TranscriptMessage(0, final, start, end, "x"), n), final, start, end)
  /\ \A n \in 0..4 : ParsesReady(Rotate(ReadyMessage(48000), n))
  /\ \A n \in 0..2 : ParsesError(Rotate(BusyMessage, n)) /\ ~Parses(Rotate(BusyMessage, n))
  /\ \A s \in Starts : BuildsStart(s) => TakenForStart(s)
=============================================================================
