-------------------------- MODULE SttClientProofs --------------------------
(***************************************************************************)
(* Proofs about the STT client: what it and the server write, each reads   *)
(* as it is meant, whatever it says; and for every queue depth, every      *)
(* backoff, with TLS or without, the connection is owned, no chunk is lost *)
(* uncounted, and every session carries the feed the server relies on.     *)
(***************************************************************************)
EXTENDS MCSttClient, RecursionFacts, TLAPS

-----------------------------------------------------------------------------
(***************************************************************************)
(* Any frame a header can describe.                                        *)
(***************************************************************************)
Frame ==
  [op : Nat, fin : BOOLEAN, rsv : BOOLEAN, mask : BOOLEAN, form : {7, 16, 64}, len : Nat, huge : BOOLEAN]

LEMMA HeaderIs ==
  ASSUME NEW f \in Frame
  PROVE  FrameHeader(f.form) \in {2, 4, 10} /\ FrameSize(f) = FrameHeader(f.form) + f.len /\ f.len \in Nat
<1>1. f.form \in {7, 16, 64} /\ f.len \in Nat BY DEF Frame
<1>2. FrameHeader(f.form) \in {2, 4, 10} BY <1>1 DEF FrameHeader
<1> QED BY <1>1, <1>2 DEF FrameSize

(***************************************************************************)
(* Bytes that have decided a frame still decide it when more arrive; a     *)
(* full buffer always decides; and a ping that is taken can be answered    *)
(* (stt_ws_frame_decode, pump_rx, handle_ping).                            *)
(***************************************************************************)
THEOREM EveryFrameIsDecided ==
  ASSUME NEW f \in Frame
  PROVE  /\ \A m, n \in Nat : (m <= n /\ Verdict(f, m) # "EAGAIN") => Verdict(f, n) = Verdict(f, m)
         /\ Verdict(f, RX_BUFFER) # "EAGAIN"
         /\ (Verdict(f, RX_BUFFER) = "OK" /\ f.op = PING) => Encodes(PONG, f.len)
<1> DEFINE h == FrameHeader(f.form)
           s == FrameSize(f)
<1>1. h \in {2, 4, 10} /\ s = h + f.len /\ f.len \in Nat BY HeaderIs
<1> HIDE DEF h, s
<1>2. ASSUME NEW m \in Nat, NEW n \in Nat, m <= n, Verdict(f, m) # "EAGAIN"
      PROVE  Verdict(f, n) = Verdict(f, m)
  <2>1. n < 2 => m < 2 BY <1>2
  <2>2. n < h => m < h BY <1>1, <1>2
  <2>3. n < s => m < s BY <1>1, <1>2
  <2> QED BY <1>2, <2>1, <2>2, <2>3, Zenon DEF Verdict, h, s
<1>3. Verdict(f, RX_BUFFER) # "EAGAIN"
  <2>1. ~(RX_BUFFER < 2) /\ ~(RX_BUFFER < h) BY <1>1 DEF RX_BUFFER, RX_MAX_PAYLOAD
  <2>2. ~(f.len > RX_MAX_PAYLOAD) => ~(RX_BUFFER < s) BY <1>1 DEF RX_BUFFER, RX_MAX_PAYLOAD
  <2> QED BY <2>1, <2>2 DEF Verdict, h, s
<1>4. ASSUME Verdict(f, RX_BUFFER) = "OK", f.op = PING PROVE Encodes(PONG, f.len)
  <2>1. ~Forbidden(f) BY <1>4 DEF Verdict
  <2>2. f.len <= 125 BY <1>1, <1>4, <2>1 DEF Forbidden, IsControl, PING, CONTROL_MAX
  <2>3. LengthForm(f.len) = 7 BY <1>1, <2>2 DEF LengthForm, CONTROL_MAX
  <2>4. FrameHeader(7) = 2 BY DEF FrameHeader
  <2> QED BY <1>1, <2>2, <2>3, <2>4 DEF Encodes, CONTROL_MAX, TX_MAX, AUDIO_MAX
<1> QED BY <1>2, <1>3, <1>4

LEMMA OwnPayloadsFit == Encodes(2, AUDIO_MAX) /\ Encodes(1, 511) /\ Encodes(8, 0)
<1>1. FrameHeader(7) = 2 /\ FrameHeader(16) = 4 BY DEF FrameHeader
<1>2. LengthForm(AUDIO_MAX) = 16 /\ LengthForm(511) = 16 /\ LengthForm(0) = 7
  BY DEF LengthForm, AUDIO_MAX, CONTROL_MAX
<1> QED BY <1>1, <1>2 DEF Encodes, IsControl, AUDIO_MAX, CONTROL_MAX, TX_MAX

-----------------------------------------------------------------------------
(***************************************************************************)
(* The place of the first element that is k.                               *)
(***************************************************************************)
FirstOf(lines, k) == SelectInSeq(lines, LAMBDA l : l = k)

IsFirst(lines, k, at) ==
  /\ at \in 0..Len(lines)
  /\ at = 0 => \A i \in 1..Len(lines) : lines[i] # k
  /\ at # 0 => lines[at] = k /\ \A i \in 1..Len(lines) : lines[i] = k => at <= i

LEMMA FirstIs ==
  ASSUME NEW Token, NEW lines \in Seq(Token), NEW k
  PROVE  IsFirst(lines, k, FirstOf(lines, k))
<1> DEFINE I == {i \in 1..Len(lines) : lines[i] = k}
<1>1. FirstOf(lines, k) = IF I # {} THEN Min(I) ELSE 0 BY DEF FirstOf, SelectInSeq
<1>2. Len(lines) \in Nat OBVIOUS
<1>3. CASE I = {}
  <2>1. FirstOf(lines, k) = 0 BY <1>1, <1>3
  <2>2. \A i \in 1..Len(lines) : lines[i] # k BY <1>3
  <2> QED BY <1>2, <2>1, <2>2 DEF IsFirst
<1>4. CASE I # {}
  <2>1. I \subseteq Int /\ \A x \in I : 1 <= x BY <1>2
  <2>2. Min(I) \in I /\ \A x \in I : Min(I) <= x
    <3> DEFINE b == 1
    <3>1. b \in Int /\ \A x \in I : b <= x BY <2>1
    <3> HIDE DEF I, b
    <3> QED BY <1>4, <2>1, <3>1, SmallestIs
  <2>3. FirstOf(lines, k) = Min(I) BY <1>1, <1>4
  <2>4. /\ FirstOf(lines, k) \in 1..Len(lines) /\ lines[FirstOf(lines, k)] = k
        /\ \A i \in 1..Len(lines) : lines[i] = k => FirstOf(lines, k) <= i
    BY <2>2, <2>3
  <2> QED BY <1>2, <2>4 DEF IsFirst
<1> QED BY <1>3, <1>4

(***************************************************************************)
(* Nothing that follows the first such element moves it.                   *)
(***************************************************************************)
LEMMA FirstStays ==
  ASSUME NEW Token, NEW a \in Seq(Token), NEW n \in 1..Len(a), NEW k, FirstOf(SubSeq(a, 1, n), k) # 0
  PROVE  /\ FirstOf(a, k) = FirstOf(SubSeq(a, 1, n), k)
         /\ SubSeq(a, 1, FirstOf(a, k)) = SubSeq(SubSeq(a, 1, n), 1, FirstOf(a, k))
<1> DEFINE b == SubSeq(a, 1, n)
           e == FirstOf(b, k)
           d == FirstOf(a, k)
<1>1. b \in Seq(Token) /\ Len(b) = n /\ n \in Nat /\ n <= Len(a) /\ Len(a) \in Nat /\ \A i \in 1..n : b[i] = a[i] OBVIOUS
<1>2. e # 0 OBVIOUS
<1> HIDE DEF b
<1>3. IsFirst(b, k, e) /\ IsFirst(a, k, d) BY <1>1, FirstIs
<1> HIDE DEF e, d
<1>4. e \in 1..n /\ b[e] = k /\ \A i \in 1..n : b[i] = k => e <= i BY <1>1, <1>2, <1>3 DEF IsFirst
<1>5. /\ d \in 0..Len(a) /\ (d = 0 => \A i \in 1..Len(a) : a[i] # k)
      /\ d # 0 => a[d] = k /\ \A i \in 1..Len(a) : a[i] = k => d <= i
  BY <1>3 DEF IsFirst
<1>6. e \in 1..Len(a) /\ a[e] = k BY <1>1, <1>4
<1>7. d = e
  <2>1. d # 0 /\ d <= e BY <1>5, <1>6
  <2>2. d \in 1..n /\ a[d] = k BY <1>1, <1>4, <1>5, <2>1
  <2>3. b[d] = k BY <1>1, <2>2
  <2>4. e <= d BY <1>4, <2>2, <2>3
  <2> QED BY <1>4, <2>1, <2>2, <2>4
<1>8. SubSeq(a, 1, e) = SubSeq(b, 1, e)
  <2> DEFINE x == SubSeq(a, 1, e)
             y == SubSeq(b, 1, e)
  <2>1. x \in Seq(Token) /\ Len(x) = e /\ \A i \in 1..e : x[i] = a[i] BY <1>1, <1>4
  <2>2. y \in Seq(Token) /\ Len(y) = e /\ \A i \in 1..e : y[i] = b[i] BY <1>1, <1>4
  <2>3. \A i \in 1..e : a[i] = b[i] BY <1>1, <1>4
  <2> HIDE DEF x, y
  <2> QED BY <2>1, <2>2, <2>3, SeqEqual
<1> QED BY <1>7, <1>8 DEF b, e, d

(***************************************************************************)
(* Nothing that follows the header block decides about the upgrade,        *)
(* whatever the server sends (stt_ws_handshake_validate_response).         *)
(***************************************************************************)
THEOREM EveryAnswerIsDecided ==
  ASSUME NEW Token, NEW a \in Seq(Token), NEW n \in 1..Len(a), Answer(SubSeq(a, 1, n)) # "EAGAIN"
  PROVE  Answer(a) = Answer(SubSeq(a, 1, n))
<1> DEFINE b == SubSeq(a, 1, n)
           blank == ""
<1>1. HeaderEnd(b) = FirstOf(b, blank) /\ HeaderEnd(a) = FirstOf(a, blank) BY Zenon DEF HeaderEnd, FirstOf
<1>2. HeaderEnd(b) # 0 BY Zenon DEF Answer
<1> HIDE DEF blank
<1>3. /\ FirstOf(a, blank) = FirstOf(b, blank)
      /\ SubSeq(a, 1, FirstOf(a, blank)) = SubSeq(b, 1, FirstOf(a, blank))
  BY <1>1, <1>2, FirstStays
<1> HIDE DEF b
<1>4. HeaderEnd(a) = HeaderEnd(b) /\ SubSeq(a, 1, HeaderEnd(a)) = SubSeq(b, 1, HeaderEnd(b))
  BY <1>1, <1>3, Zenon
<1>5. Answer(a) = Answer(b) BY <1>4, Zenon DEF Answer
<1> QED BY <1>5 DEF b

-----------------------------------------------------------------------------
(***************************************************************************)
(* A message that has every field of S once, in any order.                 *)
(***************************************************************************)
Lists(m, S) ==
  /\ m \in Seq(S)
  /\ \A f \in S : \E i \in 1..Len(m) : m[i] = f
  /\ \A i, j \in 1..Len(m) : i # j => m[i].key # m[j].key

(***************************************************************************)
(* Each value is read from its own field, wherever that is.                *)
(***************************************************************************)
LEMMA ReadsField ==
  ASSUME NEW S, NEW m, Lists(m, S), NEW f \in S
  PROVE  Get(m, f.key) = f.value /\ f.key \in Keys(m)
<1> DEFINE k == f.key
           I == {i \in 1..Len(m) : m[i].key = k}
<1>1. m \in Seq(S) /\ Len(m) \in Nat /\ DOMAIN m = 1..Len(m) BY DEF Lists
<1>2. PICK i \in 1..Len(m) : m[i] = f BY DEF Lists
<1>3. I = {i} BY <1>1, <1>2 DEF Lists
<1>4. Max(I) = i
  <2>1. I # {} /\ I \subseteq Int /\ \A x \in I : x <= i BY <1>1, <1>2, <1>3
  <2>2. i \in Int BY <1>1
  <2> HIDE DEF I
  <2>3. Max(I) \in I BY <2>1, <2>2, LargestIs
  <2> QED BY <1>3, <2>3
<1>5. SelectLastInSeq(m, LAMBDA g : g.key = k) = i
  <2>1. SelectLastInSeq(m, LAMBDA g : g.key = k) = IF I # {} THEN Max(I) ELSE 0 BY DEF SelectLastInSeq
  <2> QED BY <1>3, <1>4, <2>1
<1>6. Get(m, k) = m[i].value BY <1>5, Zenon DEF Get
<1> QED BY <1>1, <1>2, <1>6 DEF Keys

(***************************************************************************)
(* A message read from another field on has the same fields.               *)
(***************************************************************************)
LEMMA RotateLists ==
  ASSUME NEW S, NEW m, Lists(m, S), NEW n \in 0..Len(m)
  PROVE  Lists(Rotate(m, n), S) /\ Len(Rotate(m, n)) = Len(m)
<1> DEFINE x == SubSeq(m, n + 1, Len(m))
           y == SubSeq(m, 1, n)
           r == x \o y
           L == Len(m)
<1>1. m \in Seq(S) /\ L \in Nat /\ n \in Nat /\ n <= L BY DEF Lists
<1>2. x \in Seq(S) /\ Len(x) = L - n /\ \A i \in 1..(L - n) : x[i] = m[i + n] BY <1>1
<1>3. y \in Seq(S) /\ Len(y) = n /\ \A i \in 1..n : y[i] = m[i] BY <1>1
<1> HIDE DEF x, y
<1>4. /\ r \in Seq(S) /\ Len(r) = L
      /\ \A i \in 1..L : r[i] = IF i <= L - n THEN x[i] ELSE y[i - (L - n)]
  <2>1. /\ r \in Seq(S) /\ Len(r) = Len(x) + Len(y)
        /\ \A i \in 1..(Len(x) + Len(y)) : r[i] = IF i <= Len(x) THEN x[i] ELSE y[i - Len(x)]
    BY <1>2, <1>3, ConcatProperties
  <2>2. Len(x) = L - n /\ Len(x) + Len(y) = L BY <1>1, <1>2, <1>3
  <2> QED BY <2>1, <2>2
<1> HIDE DEF r, L
<1>5. \A i \in 1..L : r[i] = IF i <= L - n THEN m[i + n] ELSE m[i - (L - n)]
  BY <1>1, <1>2, <1>3, <1>4
<1> DEFINE from(i) == IF i <= L - n THEN i + n ELSE i - (L - n)
<1>6. \A i \in 1..L : from(i) \in 1..L /\ r[i] = m[from(i)] BY <1>1, <1>5
<1>7. \A i, j \in 1..L : i # j => from(i) # from(j) BY <1>1
<1>8. \A i \in 1..L : \E j \in 1..L : from(j) = i
  <2> TAKE i \in 1..L
  <2>1. CASE i <= n
    <3>1. i + (L - n) \in 1..L /\ from(i + (L - n)) = i BY <1>1, <2>1
    <3> QED BY <3>1
  <2>2. CASE i > n
    <3>1. i - n \in 1..L /\ from(i - n) = i BY <1>1, <2>2
    <3> QED BY <3>1
  <2> QED BY <1>1, <2>1, <2>2
<1> HIDE DEF from
<1>9. Lists(r, S)
  <2>1. \A i, j \in 1..L : i # j => m[i].key # m[j].key BY DEF Lists, L
  <2>2. \A f \in S : \E i \in 1..L : m[i] = f BY DEF Lists, L
  <2>3. \A i, j \in 1..Len(r) : i # j => r[i].key # r[j].key
    <3> SUFFICES ASSUME NEW i \in 1..L, NEW j \in 1..L, i # j PROVE r[i].key # r[j].key
      BY <1>4
    <3>1. from(i) # from(j) /\ from(i) \in 1..L /\ from(j) \in 1..L BY <1>6, <1>7
    <3>2. m[from(i)].key # m[from(j)].key BY <2>1, <3>1
    <3>3. r[i] = m[from(i)] /\ r[j] = m[from(j)] BY <1>6
    <3> QED BY <3>2, <3>3, Zenon
  <2>4. \A f \in S : \E i \in 1..Len(r) : r[i] = f
    <3> TAKE f \in S
    <3>1. PICK i \in 1..L : m[i] = f BY <2>2
    <3>2. PICK j \in 1..L : from(j) = i BY <1>8
    <3>3. r[j] = m[from(j)] BY <1>6
    <3> QED BY <1>4, <3>1, <3>2, <3>3, Zenon
  <2> QED BY <1>4, <2>3, <2>4 DEF Lists
<1> QED BY <1>4, <1>9 DEF Rotate, r, x, y, L

-----------------------------------------------------------------------------
(***************************************************************************)
(* What is known of a value's text, its number and its truth.              *)
(***************************************************************************)
Written(t) == t # ""

LEMMA TextIs ==
  ASSUME NEW t, Written(t)
  PROVE  IsText(Text(t)) /\ Text(t).text = t /\ Text(t).is = "string" /\ Skippable(Text(t))
<1> DEFINE v == Text(t)
<1>1. v.is = "string" /\ v.text = t BY DEF Text
<1>2. "string" # "nested" OBVIOUS
<1> HIDE DEF v
<1>3. IsText(v) BY <1>1, Zenon DEF IsText, Written
<1>4. Skippable(v) BY <1>1, <1>2, Zenon DEF Skippable
<1> QED BY <1>1, <1>3, <1>4 DEF v

LEMMA NumberIs ==
  ASSUME NEW n
  PROVE  Number(n).is = "number" /\ Number(n).n = n /\ Skippable(Number(n))
BY DEF Number, Skippable

LEMMA TruthIs ==
  ASSUME NEW b
  PROVE  Truth(b).is = "boolean" /\ Truth(b).b = b /\ Skippable(Truth(b)) /\ IsTruth(Truth(b))
BY DEF Truth, Skippable, IsTruth

LEMMA NestedIs ==
  ASSUME NEW depth \in 0..MAX_DEPTH
  PROVE  Skippable(Nested(depth))
BY DEF Nested, Skippable

LEMMA FieldParts ==
  ASSUME NEW k, NEW v
  PROVE  Field(k, v).key = k /\ Field(k, v).value = v
BY DEF Field

-----------------------------------------------------------------------------
(***************************************************************************)
(* The fields of a transcript.                                             *)
(***************************************************************************)
TranscriptFields(seq, final, start, end, text) ==
  {Field("type", Text("transcript")), Field("seq", Number(seq)), Field("is_final", Truth(final)),
   Field("start_sec", Number(start)), Field("end_sec", Number(end)), Field("text", Text(text)),
   Field("full_text", Text(text)), Field("att_context_size", Nested(1)),
   Field("eou", Truth(final)), Field("server_sent_monotonic", Number(end))}

LEMMA TranscriptLists ==
  ASSUME NEW seq, NEW final, NEW start, NEW end, NEW text
  PROVE  /\ Lists(TranscriptMessage(seq, final, start, end, text),
                  TranscriptFields(seq, final, start, end, text))
         /\ Len(TranscriptMessage(seq, final, start, end, text)) = 10
<1> DEFINE S == TranscriptFields(seq, final, start, end, text)
           m == TranscriptMessage(seq, final, start, end, text)
           keys == <<"type", "seq", "is_final", "start_sec", "end_sec", "text", "full_text",
                     "att_context_size", "eou", "server_sent_monotonic">>
<1> DEFINE a1 == Field("type", Text("transcript"))
           a2 == Field("seq", Number(seq))
           a3 == Field("is_final", Truth(final))
           a4 == Field("start_sec", Number(start))
           a5 == Field("end_sec", Number(end))
           a6 == Field("text", Text(text))
           a7 == Field("full_text", Text(text))
           a8 == Field("att_context_size", Nested(1))
           a9 == Field("eou", Truth(final))
           a10 == Field("server_sent_monotonic", Number(end))
<1>1. S = {a1, a2, a3, a4, a5, a6, a7, a8, a9, a10} BY DEF TranscriptFields
<1>2. m = <<a1, a2, a3, a4, a5, a6, a7, a8, a9, a10>> BY DEF TranscriptMessage
<1>3. /\ a1.key = "type" /\ a2.key = "seq" /\ a3.key = "is_final" /\ a4.key = "start_sec"
      /\ a5.key = "end_sec" /\ a6.key = "text" /\ a7.key = "full_text"
      /\ a8.key = "att_context_size" /\ a9.key = "eou" /\ a10.key = "server_sent_monotonic"
  BY FieldParts
<1> HIDE DEF S, m, a1, a2, a3, a4, a5, a6, a7, a8, a9, a10
<1>4. m \in Seq(S) /\ Len(m) = 10 BY <1>1, <1>2
<1>5. /\ m[1] = a1 /\ m[2] = a2 /\ m[3] = a3 /\ m[4] = a4 /\ m[5] = a5
      /\ m[6] = a6 /\ m[7] = a7 /\ m[8] = a8 /\ m[9] = a9 /\ m[10] = a10
  BY <1>2
<1>6. \A f \in S : \E i \in 1..10 : m[i] = f BY <1>1, <1>5
<1>7. \A i \in 1..10 : m[i].key = keys[i] BY <1>3, <1>5
<1>8. \A i, j \in 1..10 : i # j => keys[i] # keys[j] OBVIOUS
<1> HIDE DEF keys
<1>9. \A i, j \in 1..10 : i # j => m[i].key # m[j].key BY <1>7, <1>8
<1>10. Lists(m, S) BY <1>4, <1>6, <1>9 DEF Lists
<1> QED BY <1>4, <1>10 DEF m, S

(***************************************************************************)
(* Whatever a transcript says, and in whatever order its fields are        *)
(* written, the firmware takes it for a transcript, accepts it exactly     *)
(* when its times can be, and sees whether it is final                     *)
(* (stt_session_json_message_type, stt_transcript_parse_line).             *)
(***************************************************************************)
THEOREM TranscriptIsUnderstood ==
  ASSUME NEW seq \in Nat, NEW final \in BOOLEAN, NEW start \in Int, NEW end \in Int,
         NEW text, Written(text), NEW m, Lists(m, TranscriptFields(seq, final, start, end, text))
  PROVE  /\ MessageType(m) = "transcript"
         /\ Parses(m) <=> (0 <= start /\ start <= end /\ end <= TIME_MAX)
         /\ IsFinal(m) <=> final
<1> DEFINE S == TranscriptFields(seq, final, start, end, text)
           D == 1..Len(m)
           a1 == Field("type", Text("transcript"))
           a2 == Field("seq", Number(seq))
           a3 == Field("is_final", Truth(final))
           a4 == Field("start_sec", Number(start))
           a5 == Field("end_sec", Number(end))
           a6 == Field("text", Text(text))
           a7 == Field("full_text", Text(text))
           a8 == Field("att_context_size", Nested(1))
           a9 == Field("eou", Truth(final))
           a10 == Field("server_sent_monotonic", Number(end))
<1>1. S = {a1, a2, a3, a4, a5, a6, a7, a8, a9, a10} BY DEF TranscriptFields
<1>2. /\ a1.key = "type" /\ a2.key = "seq" /\ a3.key = "is_final" /\ a4.key = "start_sec"
      /\ a5.key = "end_sec" /\ a6.key = "text" /\ a7.key = "full_text"
      /\ a8.key = "att_context_size" /\ a9.key = "eou" /\ a10.key = "server_sent_monotonic"
  BY FieldParts
<1>3. /\ a1.value = Text("transcript") /\ a2.value = Number(seq) /\ a3.value = Truth(final)
      /\ a4.value = Number(start) /\ a5.value = Number(end) /\ a6.value = Text(text)
      /\ a7.value = Text(text) /\ a8.value = Nested(1) /\ a9.value = Truth(final)
      /\ a10.value = Number(end)
  BY FieldParts
<1>4. Written("transcript") BY Zenon DEF Written
<1>5. IsText(Text("transcript")) /\ Text("transcript").text = "transcript" BY <1>4, TextIs
<1>6. IsText(Text(text)) /\ Skippable(Text(text)) BY TextIs
<1>7. \A n : Number(n).is = "number" /\ Number(n).n = n /\ Skippable(Number(n)) BY NumberIs
<1>8. \A b : Truth(b).is = "boolean" /\ Truth(b).b = b /\ Skippable(Truth(b)) /\ IsTruth(Truth(b))
  BY TruthIs
<1>9. Skippable(Nested(1)) BY NestedIs DEF MAX_DEPTH
<1>11. \A i, j \in D : i # j => m[i].key # m[j].key BY DEF Lists
<1> HIDE DEF S, a1, a2, a3, a4, a5, a6, a7, a8, a9, a10
<1>10. DOMAIN m = D /\ \A i \in D : m[i] \in S
  <2>1. m \in Seq(S) BY DEF Lists, S
  <2> QED BY <2>1
<1>19. Lists(m, S) BY DEF S
<1>20. \A f \in S : Get(m, f.key) = f.value /\ f.key \in Keys(m) BY <1>19, ReadsField
<1>12. /\ Get(m, "type") = Text("transcript") /\ "type" \in Keys(m)
       /\ Get(m, "is_final") = Truth(final) /\ "is_final" \in Keys(m)
       /\ Get(m, "start_sec") = Number(start) /\ "start_sec" \in Keys(m)
       /\ Get(m, "end_sec") = Number(end) /\ "end_sec" \in Keys(m)
       /\ "seq" \in Keys(m) /\ "text" \in Keys(m)
  BY <1>1, <1>2, <1>3, <1>20
<1>13. MessageType(m) = "transcript"
  <2>1. \A f \in S : TypeField(f)
    <3>1. TypeField(a1) BY <1>2, <1>3, <1>5 DEF TypeField
    <3>2. TypeField(a2) /\ TypeField(a3) /\ TypeField(a4) /\ TypeField(a5)
      BY <1>2, <1>3, <1>7, <1>8 DEF TypeField
    <3>3. TypeField(a6) /\ TypeField(a7) BY <1>2, <1>3, <1>6 DEF TypeField
    <3>4. TypeField(a8) /\ TypeField(a9) /\ TypeField(a10) BY <1>2, <1>3, <1>7, <1>8, <1>9 DEF TypeField
    <3> QED BY <1>1, <3>1, <3>2, <3>3, <3>4
  <2>2. \A i \in DOMAIN m : TypeField(m[i]) BY <1>10, <2>1
  <2> QED BY <1>5, <1>12, <2>2 DEF MessageType, MessageTypes
<1>14. \A i \in DOMAIN m : Reads(m[i])
  <2>1. Reads(a1) BY <1>2, <1>3, <1>5 DEF Reads
  <2>2. Reads(a2)
    <3>1. IsCount(Number(seq)) BY <1>7 DEF IsCount
    <3> QED BY <1>2, <1>3, <3>1 DEF Reads
  <2>3. Reads(a3) BY <1>2, <1>3, <1>8 DEF Reads
  <2>4. Reads(a4) /\ Reads(a5) BY <1>2, <1>3, <1>7 DEF Reads
  <2>5. Reads(a6) BY <1>2, <1>3, <1>6 DEF Reads
  <2>6. Reads(a7) BY <1>2, <1>3, <1>6 DEF Reads
  <2>7. Reads(a8) BY <1>2, <1>3, <1>9 DEF Reads
  <2>8. Reads(a9) BY <1>2, <1>3, <1>8 DEF Reads
  <2>9. Reads(a10) BY <1>2, <1>3, <1>7 DEF Reads
  <2> QED BY <1>1, <1>10, <2>1, <2>2, <2>3, <2>4, <2>5, <2>6, <2>7, <2>8, <2>9
<1>15. ~TypeMarks(m) BY <1>5, <1>12 DEF TypeMarks
<1>16. IsFinal(m) <=> final
  <2>1. IsFinal(m) <=> IsTrue(Truth(final)) BY <1>12 DEF IsFinal
  <2> QED BY <1>8, <2>1 DEF IsTrue
<1>17. Get(m, "start_sec").n = start /\ Get(m, "end_sec").n = end BY <1>7, <1>12
<1>18. Parses(m) <=> (0 <= start /\ start <= end /\ end <= TIME_MAX)
  <2>1. {"seq", "start_sec", "end_sec", "text"} \subseteq Keys(m) BY <1>12
  <2>2. \A i, j \in DOMAIN m : (i # j /\ m[i].key \in Known) => m[i].key # m[j].key BY <1>10, <1>11
  <2> QED BY <1>12, <1>14, <1>15, <1>17, <2>1, <2>2, Zenon DEF Parses
<1> QED BY <1>13, <1>16, <1>18

(***************************************************************************)
(* A line that gives a field of a transcript twice, or that has a field    *)
(* that cannot be read, is refused as a whole.                             *)
(***************************************************************************)
LEMMA DoubtfulIsRefused ==
  ASSUME NEW m, NEW i \in DOMAIN m
  PROVE  /\ ~Reads(m[i]) => ~Parses(m)
         /\ \A j \in DOMAIN m : (i # j /\ m[i].key \in Known /\ m[j].key = m[i].key) => ~Parses(m)
BY Zenon DEF Parses

(***************************************************************************)
(* The answer to a session that starts, and the one to a client there is   *)
(* no room for, in any order of their fields                               *)
(* (stt_session_json_parse_ready, stt_session_json_parse_error).           *)
(***************************************************************************)
ReadyFields(rate) ==
  {Field("type", Text("session_ready")), Field("version", Number(PROTOCOL_VERSION)),
   Field("sample_rate_hz", Number(rate)), Field("run_engine", Text("nemotron")),
   Field("run_config", Nested(2))}

BusyFields ==
  {Field("type", Text("error")), Field("message", Text("busy")), Field("busy", Truth(TRUE))}

LEMMA ReadyLists ==
  ASSUME NEW rate
  PROVE  Lists(ReadyMessage(rate), ReadyFields(rate)) /\ Len(ReadyMessage(rate)) = 5
<1> DEFINE S == ReadyFields(rate)
           m == ReadyMessage(rate)
           keys == <<"type", "version", "sample_rate_hz", "run_engine", "run_config">>
           a1 == Field("type", Text("session_ready"))
           a2 == Field("version", Number(PROTOCOL_VERSION))
           a3 == Field("sample_rate_hz", Number(rate))
           a4 == Field("run_engine", Text("nemotron"))
           a5 == Field("run_config", Nested(2))
<1>1. S = {a1, a2, a3, a4, a5} BY DEF ReadyFields
<1>2. m = <<a1, a2, a3, a4, a5>> BY DEF ReadyMessage
<1>3. /\ a1.key = "type" /\ a2.key = "version" /\ a3.key = "sample_rate_hz"
      /\ a4.key = "run_engine" /\ a5.key = "run_config"
  BY FieldParts
<1> HIDE DEF S, m, a1, a2, a3, a4, a5
<1>4. m \in Seq(S) /\ Len(m) = 5 BY <1>1, <1>2
<1>5. m[1] = a1 /\ m[2] = a2 /\ m[3] = a3 /\ m[4] = a4 /\ m[5] = a5 BY <1>2
<1>6. \A f \in S : \E i \in 1..5 : m[i] = f BY <1>1, <1>5
<1>7. \A i \in 1..5 : m[i].key = keys[i] BY <1>3, <1>5
<1>8. \A i, j \in 1..5 : i # j => keys[i] # keys[j] OBVIOUS
<1> HIDE DEF keys
<1>9. \A i, j \in 1..5 : i # j => m[i].key # m[j].key BY <1>7, <1>8
<1>10. Lists(m, S) BY <1>4, <1>6, <1>9 DEF Lists
<1> QED BY <1>4, <1>10 DEF m, S

LEMMA BusyLists == Lists(BusyMessage, BusyFields) /\ Len(BusyMessage) = 3
<1> DEFINE S == BusyFields
           m == BusyMessage
           keys == <<"type", "message", "busy">>
           a1 == Field("type", Text("error"))
           a2 == Field("message", Text("busy"))
           a3 == Field("busy", Truth(TRUE))
<1>1. S = {a1, a2, a3} BY DEF BusyFields
<1>2. m = <<a1, a2, a3>> BY DEF BusyMessage
<1>3. a1.key = "type" /\ a2.key = "message" /\ a3.key = "busy" BY FieldParts
<1> HIDE DEF S, m, a1, a2, a3
<1>4. m \in Seq(S) /\ Len(m) = 3 BY <1>1, <1>2
<1>5. m[1] = a1 /\ m[2] = a2 /\ m[3] = a3 BY <1>2
<1>6. \A f \in S : \E i \in 1..3 : m[i] = f BY <1>1, <1>5
<1>7. \A i \in 1..3 : m[i].key = keys[i] BY <1>3, <1>5
<1>8. \A i, j \in 1..3 : i # j => keys[i] # keys[j] OBVIOUS
<1> HIDE DEF keys
<1>9. \A i, j \in 1..3 : i # j => m[i].key # m[j].key BY <1>7, <1>8
<1>10. Lists(m, S) BY <1>4, <1>6, <1>9 DEF Lists
<1> QED BY <1>4, <1>10 DEF m, S

THEOREM ReadyIsUnderstood ==
  ASSUME NEW rate \in Nat, NEW m, Lists(m, ReadyFields(rate))
  PROVE  ParsesReady(m)
<1> DEFINE S == ReadyFields(rate)
           a1 == Field("type", Text("session_ready"))
           a2 == Field("version", Number(PROTOCOL_VERSION))
           a3 == Field("sample_rate_hz", Number(rate))
           a4 == Field("run_engine", Text("nemotron"))
           a5 == Field("run_config", Nested(2))
<1>1. S = {a1, a2, a3, a4, a5} BY DEF ReadyFields
<1>2. /\ a1.key = "type" /\ a2.key = "version" /\ a3.key = "sample_rate_hz"
      /\ a4.key = "run_engine" /\ a5.key = "run_config"
  BY FieldParts
<1>3. /\ a1.value = Text("session_ready") /\ a2.value = Number(PROTOCOL_VERSION)
      /\ a3.value = Number(rate) /\ a4.value = Text("nemotron") /\ a5.value = Nested(2)
  BY FieldParts
<1>4. Written("session_ready") /\ Written("nemotron") BY Zenon DEF Written
<1>5. /\ IsText(Text("session_ready")) /\ Text("session_ready").text = "session_ready"
      /\ Text("nemotron").is = "string" /\ Skippable(Text("nemotron"))
  BY <1>4, TextIs
<1>6. \A n : Number(n).is = "number" /\ Number(n).n = n /\ Skippable(Number(n)) BY NumberIs
<1>7. Skippable(Nested(2)) BY NestedIs DEF MAX_DEPTH
<1>8. DOMAIN m = 1..Len(m) /\ \A i \in 1..Len(m) : m[i] \in S BY DEF Lists
<1> HIDE DEF S, a1, a2, a3, a4, a5
<1>19. Lists(m, S) BY DEF S
<1>20. \A f \in S : Get(m, f.key) = f.value /\ f.key \in Keys(m) BY <1>19, ReadsField
<1>9. /\ Get(m, "type") = Text("session_ready") /\ "type" \in Keys(m)
      /\ Get(m, "version") = Number(PROTOCOL_VERSION) /\ "version" \in Keys(m)
  BY <1>1, <1>2, <1>3, <1>20
<1>10. \A f \in S : TypeField(f)
  <2>1. TypeField(a1) BY <1>2, <1>3, <1>5 DEF TypeField
  <2>2. TypeField(a2) /\ TypeField(a3) BY <1>2, <1>3, <1>6 DEF TypeField
  <2>3. TypeField(a4) /\ TypeField(a5) BY <1>2, <1>3, <1>5, <1>7 DEF TypeField
  <2> QED BY <1>1, <2>1, <2>2, <2>3
<1>11. \A f \in S : ReadyField(f)
  <2>1. IsCount(Number(rate)) /\ IsCount(Number(PROTOCOL_VERSION)) BY <1>6 DEF IsCount, PROTOCOL_VERSION
  <2>2. ReadyField(a1) /\ ReadyField(a5) BY <1>2 DEF ReadyField
  <2>3. ReadyField(a2) /\ ReadyField(a3) BY <1>2, <1>3, <2>1 DEF ReadyField
  <2>4. ReadyField(a4) BY <1>2, <1>3, <1>5 DEF ReadyField
  <2> QED BY <1>1, <2>2, <2>3, <2>4
<1>12. \A i \in DOMAIN m : TypeField(m[i]) /\ ReadyField(m[i]) BY <1>8, <1>10, <1>11
<1>13. MessageType(m) = "session_ready" BY <1>5, <1>9, <1>12 DEF MessageType, MessageTypes
<1>14. Get(m, "version").n = PROTOCOL_VERSION BY <1>6, <1>9
<1> QED BY <1>9, <1>12, <1>13, <1>14, Zenon DEF ParsesReady

THEOREM BusyIsUnderstood ==
  ASSUME NEW m, Lists(m, BusyFields)
  PROVE  ParsesError(m) /\ ~Parses(m)
<1> DEFINE S == BusyFields
           a1 == Field("type", Text("error"))
           a2 == Field("message", Text("busy"))
           a3 == Field("busy", Truth(TRUE))
<1>1. S = {a1, a2, a3} BY DEF BusyFields
<1>2. a1.key = "type" /\ a2.key = "message" /\ a3.key = "busy" BY FieldParts
<1>3. a1.value = Text("error") /\ a2.value = Text("busy") /\ a3.value = Truth(TRUE) BY FieldParts
<1>4. Written("error") /\ Written("busy") BY Zenon DEF Written
<1>5. /\ IsText(Text("error")) /\ Text("error").text = "error"
      /\ Text("busy").is = "string" /\ Skippable(Text("busy"))
  BY <1>4, TextIs
<1>6. Skippable(Truth(TRUE)) /\ IsTruth(Truth(TRUE)) BY TruthIs
<1>7. DOMAIN m = 1..Len(m) /\ \A i \in 1..Len(m) : m[i] \in S BY DEF Lists
<1> HIDE DEF S, a1, a2, a3
<1>19. Lists(m, S) BY DEF S
<1>20. \A f \in S : Get(m, f.key) = f.value /\ f.key \in Keys(m) BY <1>19, ReadsField
<1>8. Get(m, "type") = Text("error") /\ "type" \in Keys(m) BY <1>1, <1>2, <1>3, <1>20
<1>9. \A f \in S : TypeField(f)
  <2>1. TypeField(a1) BY <1>2, <1>3, <1>5 DEF TypeField
  <2>2. TypeField(a2) /\ TypeField(a3) BY <1>2, <1>3, <1>5, <1>6 DEF TypeField
  <2> QED BY <1>1, <2>1, <2>2
<1>10. \A f \in S : ErrorField(f)
  <2>1. ErrorField(a1) BY <1>2 DEF ErrorField
  <2>2. ErrorField(a2) BY <1>2, <1>3, <1>5 DEF ErrorField
  <2>3. ErrorField(a3) BY <1>2, <1>3, <1>6 DEF ErrorField
  <2> QED BY <1>1, <2>1, <2>2, <2>3
<1>11. \A i \in DOMAIN m : TypeField(m[i]) /\ ErrorField(m[i]) BY <1>7, <1>9, <1>10
<1>12. MessageType(m) = "error" BY <1>5, <1>8, <1>11 DEF MessageType, MessageTypes
<1>13. "seq" \notin Keys(m) BY <1>1, <1>2, <1>7 DEF Keys
<1>14. ~Parses(m) BY <1>13 DEF Parses
<1> QED BY <1>11, <1>12, <1>14, Zenon DEF ParsesError

-----------------------------------------------------------------------------
(***************************************************************************)
(* Settings the console can give a session.                                *)
(***************************************************************************)
Setting(s) ==
  /\ s.rate \in Nat /\ s.bytes \in Nat /\ s.latency \in Nat /\ s.history \in Nat /\ s.residue \in Nat
  /\ s.lang \in Lang

Mentions(s, none) ==
  {o \in {<<"target_lang", s.lang>>} : s.lang # none} \cup
  {o \in {<<"latency_ms", s.latency>>, <<"stop_history_eou_ms", s.history>>,
          <<"residue_tokens_at_end", s.residue>>} : o[2] # 0}

(***************************************************************************)
(* The server takes every opening the firmware writes; its settings it     *)
(* refuses exactly for a language that is no locale or a latency that is   *)
(* not published (stt_session_json_build_start, validate_session_start,    *)
(* NemotronConfig).                                                        *)
(***************************************************************************)
THEOREM StartIsUnderstood ==
  ASSUME NEW s, Setting(s), BuildsStart(s)
  PROVE  TakenForStart(s)
<1> DEFINE none == ""
           O == BuildStart(s).overrides
           L == <<"target_lang", s.lang>>
           T == <<"latency_ms", s.latency>>
           H == <<"stop_history_eou_ms", s.history>>
           R == <<"residue_tokens_at_end", s.residue>>
           fits(o) == \/ o[1] = "target_lang" /\ o[2] = "locale"
                      \/ o[1] = "latency_ms" /\ o[2] \in Published
                      \/ o[1] \in {"stop_history_eou_ms", "residue_tokens_at_end"} /\ o[2] >= 0
<1>1. O = Mentions(s, none)
  <2>1. O = Overrides(s) BY DEF BuildStart
  <2>2. Overrides(s) = Mentions(s, none) BY Zenon DEF Overrides, Mentions
  <2> QED BY <2>1, <2>2, Zenon
<1>2. s.lang \in {none, "locale", "tag", "unsafe"} BY Zenon DEF Setting, Lang
<1>3. "locale" # none BY Zenon
<1>4. s.rate \in Nat /\ s.bytes \in Nat /\ s.latency \in Nat /\ s.history \in Nat /\ s.residue \in Nat
  BY Zenon DEF Setting
<1> HIDE DEF none
<1>5. \A o : o \in O <=> \/ o = L /\ s.lang # none
                         \/ o = T /\ s.latency # 0
                         \/ o = H /\ s.history # 0
                         \/ o = R /\ s.residue # 0
  BY <1>1 DEF Mentions
<1>6. ValidStart(BuildStart(s))
  <2>1. s.rate # 0 /\ s.channels = 1 /\ s.format = FORMAT_S16_LE /\ s.bytes # 0 BY Zenon DEF BuildsStart
  <2>2. BuildStart(s).type = "session_start" /\ BuildStart(s).version = PROTOCOL_VERSION
        /\ BuildStart(s).rate = s.rate /\ BuildStart(s).channels = s.channels
        /\ BuildStart(s).format = s.format /\ BuildStart(s).bytes = s.bytes
    BY DEF BuildStart
  <2>3. s.rate > 0 /\ s.bytes > 0 BY <1>4, <2>1
  <2> QED BY <2>1, <2>2, <2>3 DEF ValidStart
<1>7. fits(L) <=> s.lang = "locale" OBVIOUS
<1>8. fits(T) <=> s.latency \in Published OBVIOUS
<1>9. fits(H) /\ fits(R) BY <1>4
<1>10. ValidOverrides(O) <=> \A o \in O : fits(o) BY Zenon DEF ValidOverrides
<1> HIDE DEF O, L, T, H, R, fits
<1>11. ValidOverrides(O) <=> ((s.lang # none => s.lang = "locale") /\ (s.latency # 0 => s.latency \in Published))
  BY <1>5, <1>7, <1>8, <1>9, <1>10
<1>12. ValidOverrides(O) <=> (s.lang \in {none, "locale"} /\ s.latency \in Published \cup {0})
  BY <1>11
<1>13. s.lang \in {none, "locale"} <=> s.lang \in {"", "locale"} BY Zenon DEF none
<1>14. ValidOverrides(O) <=> (s.lang \in {"", "locale"} /\ s.latency \in Published \cup {0})
  BY <1>12, <1>13, Zenon
<1> QED BY <1>6, <1>14, Zenon DEF O, TakenForStart

-----------------------------------------------------------------------------
(***************************************************************************)
(* The messages, frames and answers the run looks at are among these.      *)
(***************************************************************************)
LEMMA MessagesAre == MessagesUnderstood
<1>1. ASSUME NEW final \in BOOLEAN, NEW start \in {0, 1, TIME_MAX, TIME_MAX + 1},
             NEW end \in {0, 1, TIME_MAX, TIME_MAX + 1}, NEW n \in 0..9, NEW m,
             m = Rotate(TranscriptMessage(0, final, start, end, "x"), n)
      PROVE  TakenForTranscript(m, final, start, end)
  <2> DEFINE text == "x"
             t == TranscriptMessage(0, final, start, end, text)
             S == TranscriptFields(0, final, start, end, text)
             r == Rotate(m, 9)
             blank == Field("text", Text(""))
  <2>1. Written(text) BY Zenon DEF Written
  <2>2. start \in Nat /\ end \in Nat /\ 0 \in Nat BY DEF TIME_MAX
  <2>3. m = Rotate(t, n) BY <1>1
  <2>4. Field("seq", Number(0)) \in S BY DEF TranscriptFields
  <2>5. ~Reads(blank)
    <3> DEFINE v == Text("")
    <3>1. ~IsText(v) BY Zenon DEF IsText, Text
    <3>2. blank.key = "text" /\ blank.value = v BY FieldParts
    <3> HIDE DEF v, blank
    <3> QED BY <3>1, <3>2 DEF Reads
  <2> HIDE DEF text, t, S, blank
  <2>6. Lists(t, S) /\ Len(t) = 10 BY TranscriptLists DEF t, S
  <2>15. n \in 0..Len(t) BY <2>6
  <2>7. Lists(m, S) /\ Len(m) = 10 BY <2>3, <2>6, <2>15, RotateLists
  <2>8. 9 \in 0..Len(m) BY <2>7
  <2>9. Lists(r, S) BY <2>7, <2>8, RotateLists
  <2>10. /\ MessageType(m) = "transcript"
         /\ Parses(m) <=> (0 <= start /\ start <= end /\ end <= TIME_MAX)
         /\ IsFinal(m) <=> final
    BY <2>1, <2>2, <2>7, TranscriptIsUnderstood DEF S
  <2>11. Parses(m) <=> (start <= end /\ end <= TIME_MAX) BY <2>2, <2>10
  <2> HIDE DEF r
  <2>12. m \in Seq(S) /\ r \in Seq(S) BY <2>7, <2>9 DEF Lists
  <2>13. ~Parses(m \o r)
    <3> DEFINE f == Field("seq", Number(0))
    <3>1. f \in S /\ f.key = "seq" BY <2>4, FieldParts
    <3> HIDE DEF f
    <3>2. PICK i \in 1..Len(m) : m[i] = f BY <2>7, <3>1 DEF Lists
    <3>3. PICK j \in 1..Len(r) : r[j] = f BY <2>9, <3>1 DEF Lists
    <3> DEFINE q == m \o r
               k == Len(m) + j
    <3>4. Len(m) \in Nat /\ Len(r) \in Nat BY <2>12
    <3>5. i \in DOMAIN q /\ q[i] = f BY <2>12, <3>2, <3>4
    <3>6. k \in DOMAIN q /\ q[k] = f BY <2>12, <3>3, <3>4
    <3>7. i # k BY <3>2, <3>3, <3>4
    <3> HIDE DEF q, k
    <3>8. ~Parses(q) BY <3>1, <3>5, <3>6, <3>7, DoubtfulIsRefused DEF Known
    <3> QED BY <3>8 DEF q
  <2>14. ~Parses(Tail(m) \o <<blank>>)
    <3> DEFINE y == Tail(m)
               U == S \cup {blank}
               q == Append(y, blank)
    <3>1. y \in Seq(S) /\ Len(y) = 9
      <4>1. m # <<>> BY <2>7
      <4>2. Tail(m) \in Seq(S) /\ Len(Tail(m)) = Len(m) - 1 BY <2>12, <4>1, HeadTailProperties
      <4> QED BY <2>7, <4>2
    <3> HIDE DEF y
    <3>2. S \subseteq U /\ blank \in U OBVIOUS
    <3>3. y \in Seq(U)
      <4> HIDE DEF U
      <4> QED BY <3>1, <3>2
    <3> HIDE DEF U
    <3>4. q = y \o <<blank>> BY <3>2, <3>3, AppendIsConcat
    <3>5. q \in Seq(U) /\ Len(q) = 10 /\ q[10] = blank
      <4>1. q \in Seq(U) /\ Len(q) = Len(y) + 1 /\ q[Len(y) + 1] = blank BY <3>2, <3>3, AppendProperties
      <4> QED BY <3>1, <4>1
    <3> HIDE DEF q
    <3>6. 10 \in DOMAIN q BY <3>5
    <3>7. ~Parses(q) BY <2>5, <3>5, <3>6, DoubtfulIsRefused
    <3> QED BY <3>4, <3>7 DEF y
  <2> QED BY <2>10, <2>11, <2>13, <2>14, Zenon DEF r, blank, TakenForTranscript
<1>2. ASSUME NEW n \in 0..4 PROVE ParsesReady(Rotate(ReadyMessage(48000), n))
  <2>1. Lists(ReadyMessage(48000), ReadyFields(48000)) /\ Len(ReadyMessage(48000)) = 5 BY ReadyLists
  <2>2. n \in 0..Len(ReadyMessage(48000)) BY <2>1
  <2>3. Lists(Rotate(ReadyMessage(48000), n), ReadyFields(48000)) BY <2>1, <2>2, RotateLists
  <2> QED BY <2>3, ReadyIsUnderstood
<1>3. ASSUME NEW n \in 0..2 PROVE ParsesError(Rotate(BusyMessage, n)) /\ ~Parses(Rotate(BusyMessage, n))
  <2>1. n \in 0..Len(BusyMessage) BY BusyLists
  <2>2. Lists(Rotate(BusyMessage, n), BusyFields) BY <2>1, BusyLists, RotateLists
  <2> QED BY <2>2, BusyIsUnderstood
<1>4. \A s \in Starts : Setting(s)
  <2> TAKE s \in Starts
  <2>1. /\ s.rate \in {0, 48000} /\ s.bytes \in {0, 1920} /\ s.latency \in {0, 320, 560, 600}
        /\ s.history \in {0, 600} /\ s.residue \in {0, 2} /\ s.lang \in Lang
    BY DEF Starts
  <2> QED BY <2>1 DEF Setting
<1>5. \A s \in Starts : BuildsStart(s) => TakenForStart(s) BY <1>4, StartIsUnderstood
<1>6. \A final \in BOOLEAN, start, end \in {0, 1, TIME_MAX, TIME_MAX + 1}, n \in 0..9 :
        TakenForTranscript(Rotate(TranscriptMessage(0, final, start, end, "x"), n), final, start, end)
  BY <1>1, Zenon
<1>7. \A n \in 0..4 : ParsesReady(Rotate(ReadyMessage(48000), n)) BY <1>2
<1>8. \A n \in 0..2 : ParsesError(Rotate(BusyMessage, n)) /\ ~Parses(Rotate(BusyMessage, n)) BY <1>3
<1> QED BY <1>5, <1>6, <1>7, <1>8 DEF MessagesUnderstood

LEMMA FramesAre == FramesDecided /\ PayloadsFit
<1>1. ASSUME NEW f \in Frames PROVE f \in Frame /\ Sizes(f) \subseteq Nat
  <2>1. Lengths \subseteq Nat BY DEF Lengths
  <2>2. {0, 1, 2, 8, PING, PONG} \subseteq Nat BY DEF PING, PONG
  <2> DEFINE Ops == {0, 1, 2, 8, PING, PONG}
             Forms == {7, 16, 64}
  <2>3. f \in [op : Ops, fin : BOOLEAN, rsv : BOOLEAN, mask : BOOLEAN, form : Forms, len : Lengths,
               huge : BOOLEAN]
    BY DEF Frames
  <2> HIDE DEF Ops
  <2>4. f \in Frame BY <2>1, <2>2, <2>3 DEF Frame, Ops
  <2>5. Sizes(f) \subseteq 0..RX_BUFFER BY DEF Sizes
  <2>6. 0..RX_BUFFER \subseteq Nat OBVIOUS
  <2> QED BY <2>4, <2>5, <2>6
<1>2. FramesDecided
  <2> SUFFICES ASSUME NEW f \in Frames
               PROVE  /\ \A m, n \in Sizes(f) :
                           (m <= n /\ Verdict(f, m) # "EAGAIN") => Verdict(f, n) = Verdict(f, m)
                      /\ Verdict(f, RX_BUFFER) # "EAGAIN"
    BY DEF FramesDecided
  <2>1. f \in Frame /\ Sizes(f) \subseteq Nat BY <1>1
  <2>2. /\ \A m, n \in Nat : (m <= n /\ Verdict(f, m) # "EAGAIN") => Verdict(f, n) = Verdict(f, m)
        /\ Verdict(f, RX_BUFFER) # "EAGAIN"
    BY <2>1, EveryFrameIsDecided
  <2> QED BY <2>1, <2>2
<1>3. \A f \in Frames : (Verdict(f, RX_BUFFER) = "OK" /\ f.op = PING) => Encodes(PONG, f.len)
  BY <1>1, EveryFrameIsDecided
<1>4. PayloadsFit BY <1>3, OwnPayloadsFit DEF PayloadsFit
<1> QED BY <1>2, <1>4

LEMMA AnswersAre == AnswersDecided
<1> DEFINE Token == {"101", "accept", "refused", "other", ""}
<1>1. Answers = UNION {[1..k -> Token] : k \in 1..4} BY Zenon DEF Answers
<1> HIDE DEF Token
<1>2. ASSUME NEW a \in Answers, NEW n \in 1..Len(a), Answer(SubSeq(a, 1, n)) # "EAGAIN"
      PROVE  Answer(a) = Answer(SubSeq(a, 1, n))
  <2>1. PICK k \in 1..4 : a \in [1..k -> Token] BY <1>1
  <2>2. a \in Seq(Token) BY <2>1
  <2> QED BY <1>2, <2>2, EveryAnswerIsDecided
<1> QED BY <1>2, Zenon DEF AnswersDecided

(***************************************************************************)
(* Wherever the worker reads or writes, and however the bytes are cut up:  *)
(* what it decides early it decides rightly, a full buffer never makes it  *)
(* wait, what it sends fits, and the two sides understand each other.      *)
(***************************************************************************)
THEOREM WireIsSound == Spec => []WireSound
<1>1. WireSound BY FramesAre, AnswersAre, MessagesAre DEF WireSound
<1> QED BY <1>1, PTL

-----------------------------------------------------------------------------
USE TxAssumption, TlsAssumption, BackoffAssumption
  DEF TxAssumption, TlsAssumption, BackoffAssumption

(***************************************************************************)
(* A failure of the attempt, whatever the stage.                           *)
(***************************************************************************)
Failed == ConnectFails \/ ContextFails \/ HandshakeFails

(***************************************************************************)
(* A failure of the session.                                               *)
(***************************************************************************)
Abandoned == UpgradeFails \/ StartFails \/ StartTimesOut \/ PumpFails \/ IdleTimeout

-----------------------------------------------------------------------------
(***************************************************************************)
(* The queue keeps its type.                                               *)
(***************************************************************************)
LEMMA SlotInRange == ASSUME NEW a \in Nat PROVE a % TxDepth \in TxSlot
BY DEF TxSlot

LEMMA PushTypes ==
  ASSUME TxTypeOK, NEW c \in Chunk, TxPush(c) PROVE TxTypeOK'
<1> USE DEF TxTypeOK, TxNext
<1>1. qhead + 1 \in Nat /\ qhead + qcount \in Nat /\ qhead \in Nat
  BY DEF TxSlot
<1>2. (qhead + 1) % TxDepth \in TxSlot /\ (qhead + qcount) % TxDepth \in TxSlot
  BY <1>1, SlotInRange
<1>3. CASE TxShed(c) BY <1>2, <1>3 DEF TxShed
<1>4. CASE TxStore(c)
  <2>1. slots' \in [TxSlot -> Chunk] BY <1>2, <1>4 DEF TxStore
  <2>2. qcount' \in 0..TxDepth BY <1>4 DEF TxStore
  <2> QED BY <2>1, <2>2, <1>4 DEF TxStore
<1> QED BY <1>3, <1>4 DEF TxPush

LEMMA PopTypes == ASSUME TxTypeOK, TxPop PROVE TxTypeOK' /\ TxHead \in Chunk
<1>1. qhead + 1 \in Nat BY DEF TxTypeOK, TxSlot
<1>2. (qhead + 1) % TxDepth \in TxSlot BY <1>1, SlotInRange
<1>3. slots[qhead] \in Chunk BY DEF TxTypeOK
<1>4. TxHead \in Chunk BY <1>3 DEF TxTypeOK, TxHead, Chunk
<1> QED BY <1>2, <1>4 DEF TxTypeOK, TxPop, TxNext

LEMMA DiscardTypes == ASSUME TxTypeOK, TxDiscard PROVE TxTypeOK'
BY DEF TxTypeOK, TxDiscard, TxSlot

LEMMA BackoffTypes ==
  ASSUME backoff \in 0..BackoffMax, EnterBackoff
  PROVE backoff' \in 0..BackoffMax /\ state' = "backoff" /\ due' = FALSE
BY DEF EnterBackoff

(***************************************************************************)
(* Every variable keeps its type.                                          *)
(***************************************************************************)
LEMMA InitTypes == Init => TypeOK
<1> SUFFICES ASSUME Init PROVE TypeOK
  OBVIOUS
<1>1. TxTypeOK
  <2>1. [id |-> 0, rep |-> 0] \in Chunk BY DEF Chunk
  <2>2. slots \in [TxSlot -> Chunk] BY <2>1 DEF Init, TxInit
  <2>3. 0 \in TxSlot /\ 0 \in 0..TxDepth BY DEF TxSlot
  <2> QED BY <2>2, <2>3 DEF Init, TxInit, TxTypeOK
<1>2. TlsTypeOK BY DEF Init, TlsInit, TlsTypeOK
<1>3. backoff \in 0..BackoffMax BY DEF Init
<1> QED BY <1>1, <1>2, <1>3 DEF Init, TypeOK, WPoints, States

LEMMA QuietTypes ==
  ASSUME TypeOK,
         StartWorker \/ RequestStop \/ FinishStop \/ AlreadyReady \/ StartSent \/ SessionReady
         \/ PumpIdle \/ PopNothing \/ Wait \/ Due \/ PollEvents \/ Attempt \/ Upkeep
  PROVE TypeOK'
<1> USE DEF TypeOK, TxTypeOK, TlsTypeOK, WPoints, States, link, audio, cap, txq, tls, Round
<1>1. CASE StartWorker
  <2>1. stop' \in BOOLEAN BY <1>1 DEF StartWorker
  <2> QED BY <2>1, <1>1 DEF StartWorker
<1>2. CASE RequestStop BY <1>2 DEF RequestStop
<1>3. CASE FinishStop BY <1>3 DEF FinishStop
<1>4. CASE AlreadyReady BY <1>4 DEF AlreadyReady
<1>5. CASE StartSent BY <1>5 DEF StartSent
<1>6. CASE SessionReady BY <1>6 DEF SessionReady
<1>7. CASE PumpIdle BY <1>7 DEF PumpIdle
<1>8. CASE PopNothing BY <1>8 DEF PopNothing
<1>9. CASE Wait BY <1>9 DEF Wait
<1>10. CASE Due BY <1>10 DEF Due
<1>11. CASE PollEvents
  <2>1. ring' \in BOOLEAN BY <1>11 DEF PollEvents
  <2> QED BY <2>1, <1>11 DEF PollEvents
<1>12. CASE Attempt BY <1>12 DEF Attempt
<1>13. CASE Upkeep BY <1>13 DEF Upkeep
<1> QED BY <1>1, <1>2, <1>3, <1>4, <1>5, <1>6, <1>7, <1>8, <1>9, <1>10, <1>11, <1>12, <1>13

LEMMA FailedTypes ==
  ASSUME TypeOK, ServiceFailed
  PROVE w' \in WPoints /\ hand' \in [id : Nat, rep : Nat, seq : {-1}] \cup {NoChunk} /\ lost' \in Nat
BY DEF TypeOK, ServiceFailed, WPoints, Round

LEMMA ConnectTypes ==
  ASSUME TypeOK,
         NotDue \/ WaitClock \/ Connected \/ Failed \/ ContextBuilt \/ Open \/ Cancel \/ Upgrade
  PROVE TypeOK'
<1> USE DEF TypeOK, TxTypeOK, link, cap, txq
<1>1. CASE NotDue BY <1>1, FailedTypes DEF NotDue, TlsTypeOK, tls
<1>2. CASE WaitClock BY <1>2, FailedTypes DEF WaitClock, TlsTypeOK, tls, States
<1>3. CASE Connected
  BY <1>3 DEF Connected, TlsTypeOK, TlsConnect, WPoints, audio
<1>4. CASE Failed
  <2>1. TlsTypeOK' BY <1>4
    DEF Failed, ConnectFails, ContextFails, HandshakeFails, TlsTypeOK, tls,
        TlsConnectFails, TlsContextFails, TlsHandshakeFails, TlsRelease
  <2>2. GiveUp BY <1>4 DEF Failed, ConnectFails, ContextFails, HandshakeFails
  <2> QED BY <2>1, <2>2, FailedTypes, BackoffTypes DEF GiveUp, States
<1>5. CASE ContextBuilt
  BY <1>5 DEF ContextBuilt, TlsTypeOK, TlsContext, WPoints, audio
<1>6. CASE Open
  BY <1>6 DEF Open, Proceed, TlsTypeOK, TlsOpened, TlsHandshake, TlsConnect, WPoints, States
<1>7. CASE Cancel
  <2>1. TlsTypeOK' BY <1>7 DEF Cancel, TlsClose, TlsRelease, TlsTypeOK, tls
  <2> QED BY <2>1, <1>7, FailedTypes DEF Cancel, States
<1>8. CASE Upgrade
  BY <1>8 DEF Upgrade, Proceed, TlsTypeOK, tls, WPoints, States
<1> QED BY <1>1, <1>2, <1>3, <1>4, <1>5, <1>6, <1>7, <1>8

LEMMA DropTypes ==
  ASSUME TypeOK, DropSession
  PROVE /\ TxTypeOK' /\ TlsTypeOK' /\ state' \in States /\ conn' \in BOOLEAN
        /\ due' \in BOOLEAN /\ backoff' \in 0..BackoffMax
        /\ msg' \in {"none", "partial", "overflow"} /\ ring' \in BOOLEAN
        /\ last' \in [id : Nat, rep : Nat, seq : Nat] \cup {NoChunk}
<1>1. TlsTypeOK' BY DEF TypeOK, DropSession, TlsClose, TlsRelease, TlsTypeOK, tls
<1>2. TxTypeOK' BY DiscardTypes DEF TypeOK, DropSession
<1> QED BY <1>1, <1>2, BackoffTypes DEF TypeOK, DropSession, States

LEMMA SessionTypes ==
  ASSUME TypeOK,
         MessagePart \/ MessageTooLong \/ Transcript \/ Ready \/ OtherMessage \/ Abandoned
         \/ SendFails \/ Close
  PROVE TypeOK'
<1> USE DEF TypeOK
<1>1. CASE MessagePart BY <1>1 DEF MessagePart, TxTypeOK, TlsTypeOK, audio, cap, txq, tls
<1>2. CASE MessageTooLong BY <1>2 DEF MessageTooLong, TxTypeOK, TlsTypeOK, audio, cap, txq, tls
<1>3. CASE Transcript BY <1>3 DEF Transcript, TxTypeOK, TlsTypeOK, audio, cap, txq, tls
<1>4. CASE Ready
  <2>1. TxTypeOK' BY <1>4, DiscardTypes DEF Ready
  <2> QED BY <2>1, <1>4 DEF Ready, TlsTypeOK, cap, tls, States
<1>5. CASE OtherMessage BY <1>5 DEF OtherMessage, TxTypeOK, TlsTypeOK, audio, cap, txq, tls
<1>6. CASE Abandoned
  <2>1. DropSession /\ ServiceFailed /\ UNCHANGED <<stop, audioSeq, sent, base, cap>>
    BY <1>6 DEF Abandoned, Abandon, UpgradeFails, StartFails, StartTimesOut, PumpFails, IdleTimeout
  <2> QED BY <2>1, DropTypes, FailedTypes DEF cap
<1>7. CASE SendFails BY <1>7, DropTypes DEF SendFails, cap, WPoints, Round
<1>8. CASE Close
  <2>1. TlsTypeOK' BY <1>8 DEF Close, TlsClose, TlsRelease, TlsTypeOK, tls
  <2> QED BY <2>1, <1>8 DEF Close, TxTypeOK, cap, txq, WPoints, States
<1> QED BY <1>1, <1>2, <1>3, <1>4, <1>5, <1>6, <1>7, <1>8

LEMMA AudioTypes ==
  ASSUME TypeOK, w = "send" => hand # NoChunk, Capture \/ Begin \/ Pop \/ Send
  PROVE TypeOK'
<1> USE DEF TypeOK, TlsTypeOK, link, cap, tls
<1>1. CASE Capture
  <2>1. TxTypeOK'
    <3>1. [id |-> captured, rep |-> refused] \in Chunk BY DEF Chunk
    <3> QED BY <1>1, <3>1, PushTypes DEF Capture, txq, TxTypeOK
  <2>2. refused' \in Nat /\ captured' \in Nat BY <1>1 DEF Capture
  <2> QED BY <1>1, <2>1, <2>2 DEF Capture, audio
<1>2. CASE Begin BY <1>2 DEF Begin, TxOpen, TxTypeOK, audio, WPoints, Round
<1>3. CASE Pop
  <2>1. TxTypeOK' /\ TxHead \in Chunk BY <1>3, PopTypes DEF Pop
  <2>2. hand' \in [id : Nat, rep : Nat, seq : {-1}] BY <2>1, <1>3 DEF Pop, Chunk
  <2> QED BY <1>3, <2>1, <2>2 DEF Pop, WPoints
<1>4. CASE Send
  <2>1. hand \in [id : Nat, rep : Nat, seq : {-1}] BY <1>4 DEF Send
  <2>2. last' \in [id : Nat, rep : Nat, seq : Nat] BY <2>1, <1>4 DEF Send
  <2> QED BY <1>4, <2>2 DEF Send, TxTypeOK, txq, WPoints, Round
<1> QED BY <1>1, <1>2, <1>3, <1>4

-----------------------------------------------------------------------------
(***************************************************************************)
(* The state of the connection at each point of the worker's loop.         *)
(***************************************************************************)
Places ==
  /\ w = "none" => ~stop
  /\ w \in {"close", "done", "joined"} => stop
  /\ w \in {"none", "born", "service", "wait", "close", "done", "joined"} =>
       state \notin {"handshaking", "starting"}
  /\ w \in {"none", "born", "done", "joined"} => state # "ready"
  /\ w \in {"open", "context", "handshake"} => state = "connecting"
  /\ w \in {"context", "handshake"} => UseTls
  /\ w = "upgrade" => state = "handshaking"
  /\ w = "start" => state = "starting"
  /\ w = "starting" => state \in {"starting", "ready"}
  /\ w \in {"pump", "upkeep", "pop", "send"} => state = "ready"

Stages ==
  /\ w = "context" => held = {"fd"}
  /\ w = "handshake" => held = {"fd", "ctx"}

(***************************************************************************)
(* A chunk in hand goes on to be sent, unless the session ends first.      *)
(***************************************************************************)
HandHeld ==
  /\ hand # NoChunk => w \in {"service", "open", "context", "handshake", "upgrade", "start",
                              "starting", "pump", "upkeep", "send"}
  /\ hand # NoChunk => state = "ready"
  /\ w = "send" => hand # NoChunk

Connection == Places /\ Stages /\ ConnectionOwned /\ HandHeld

(***************************************************************************)
(* Nothing open is owned well.                                             *)
(***************************************************************************)
Nothing ==
  /\ conn = FALSE /\ inUse = FALSE /\ held = {}
  /\ state \notin {"handshaking", "starting", "ready"} /\ w \notin {"context", "handshake"}

LEMMA NothingOwned ==
  ASSUME Nothing, ~stop => msg = "none" /\ ~ring PROVE ConnectionOwned
BY DEF Nothing, ConnectionOwned

LEMMA NothingLeft ==
  ASSUME Nothing', ~stop' => msg' = "none" /\ ~ring' PROVE ConnectionOwned'
BY DEF Nothing, ConnectionOwned

LEMMA InitConnection == Init => Connection
<1> SUFFICES ASSUME Init PROVE Connection
  OBVIOUS
<1>1. Places /\ Stages BY DEF Init, TlsInit, Places, Stages
<1>2. ConnectionOwned BY NothingOwned DEF Nothing, Init, TlsInit
<1>3. HandHeld BY DEF Init, HandHeld
<1> QED BY <1>1, <1>2, <1>3 DEF Connection

LEMMA QuietConnection ==
  ASSUME TypeOK, Connection,
         Capture \/ StartWorker \/ RequestStop \/ FinishStop \/ Begin \/ Due \/ PollEvents
         \/ PumpIdle \/ Upkeep \/ Pop \/ PopNothing \/ Wait \/ Send
  PROVE Connection'
<1> USE DEF Connection, Places, Stages, ConnectionOwned, HandHeld, TypeOK, TlsTypeOK,
            link, audio, cap, tls, Round, States, WPoints, TlsWhole
<1>1. CASE Capture BY <1>1 DEF Capture
<1>2. CASE StartWorker BY <1>2 DEF StartWorker
<1>3. CASE RequestStop BY <1>3 DEF RequestStop
<1>4. CASE FinishStop BY <1>4 DEF FinishStop
<1>5. CASE Begin BY <1>5 DEF Begin
<1>6. CASE Due BY <1>6 DEF Due
<1>7. CASE PollEvents BY <1>7 DEF PollEvents
<1>8. CASE PumpIdle BY <1>8 DEF PumpIdle
<1>9. CASE Upkeep BY <1>9 DEF Upkeep
<1>10. CASE Pop BY <1>10 DEF Pop
<1>11. CASE PopNothing BY <1>11 DEF PopNothing
<1>12. CASE Wait BY <1>12 DEF Wait
<1>13. CASE Send BY <1>13 DEF Send
<1> QED BY <1>1, <1>2, <1>3, <1>4, <1>5, <1>6, <1>7, <1>8, <1>9, <1>10, <1>11, <1>12, <1>13

LEMMA ConnectConnection ==
  ASSUME TypeOK, Connection,
         AlreadyReady \/ NotDue \/ WaitClock \/ Attempt \/ Connected \/ Failed \/ ContextBuilt
         \/ Open \/ Cancel \/ Upgrade \/ StartSent \/ SessionReady
  PROVE Connection'
<1> USE DEF Connection, Places, Stages, ConnectionOwned, HandHeld, TypeOK, TlsTypeOK,
            link, audio, cap, tls, Round, States, WPoints, TlsWhole
<1>1. CASE AlreadyReady BY <1>1 DEF AlreadyReady
<1>2. CASE NotDue BY <1>2 DEF NotDue, ServiceFailed
<1>3. CASE WaitClock BY <1>3 DEF WaitClock, ServiceFailed
<1>4. CASE Attempt BY <1>4 DEF Attempt
<1>5. CASE Connected BY <1>5 DEF Connected, TlsConnect
<1>6. CASE ContextBuilt BY <1>6 DEF ContextBuilt, TlsContext
<1>7. CASE Failed
  <2>1. inUse' = FALSE /\ held' = {} BY <1>7
    DEF Failed, ConnectFails, ContextFails, HandshakeFails,
        TlsConnectFails, TlsContextFails, TlsHandshakeFails, TlsRelease
  <2>2. GiveUp /\ w \in {"open", "context", "handshake"}
    BY <1>7 DEF Failed, ConnectFails, ContextFails, HandshakeFails
  <2>3. state' = "backoff" BY <2>2 DEF GiveUp, EnterBackoff
  <2>4. Nothing' BY <2>1, <2>2, <2>3 DEF GiveUp, ServiceFailed, Nothing
  <2>5. ~stop' => msg' = "none" /\ ~ring' BY <2>2 DEF GiveUp
  <2> HIDE DEF ConnectionOwned
  <2>6. ConnectionOwned' BY <2>4, <2>5, NothingLeft
  <2> QED BY <2>2, <2>3, <2>6 DEF GiveUp, ServiceFailed
<1>8. CASE Open BY <1>8 DEF Open, Proceed, TlsOpened, TlsHandshake, TlsConnect
<1>9. CASE Cancel
  <2>1. inUse' = FALSE /\ held' = {} BY <1>9 DEF Cancel, TlsClose, TlsRelease
  <2>2. Nothing' /\ stop' BY <2>1, <1>9 DEF Cancel, ServiceFailed, Nothing
  <2> HIDE DEF ConnectionOwned
  <2>3. ConnectionOwned' BY <2>2, NothingLeft
  <2> QED BY <2>3, <1>9 DEF Cancel, ServiceFailed
<1>10. CASE Upgrade BY <1>10 DEF Upgrade, Proceed
<1>11. CASE StartSent BY <1>11 DEF StartSent
<1>12. CASE SessionReady BY <1>12 DEF SessionReady
<1> QED BY <1>1, <1>2, <1>3, <1>4, <1>5, <1>6, <1>7, <1>8, <1>9, <1>10, <1>11, <1>12

LEMMA Dropped ==
  ASSUME TypeOK, Connection, DropSession
  PROVE /\ conn' = FALSE /\ inUse' = FALSE /\ held' = {} /\ state' = "backoff"
        /\ msg' = "none" /\ ring' = FALSE
<1>1. inUse' = FALSE /\ held' = {}
  BY DEF DropSession, TlsClose, TlsRelease, Connection, ConnectionOwned, tls
<1> QED BY <1>1 DEF DropSession, EnterBackoff

LEMMA SessionConnection ==
  ASSUME TypeOK, Connection,
         MessagePart \/ MessageTooLong \/ Transcript \/ Ready \/ OtherMessage \/ Abandoned
         \/ SendFails \/ Close
  PROVE Connection'
<1> USE DEF Connection, Places, Stages, ConnectionOwned, HandHeld, TypeOK, TlsTypeOK,
            link, audio, cap, tls, Round, States, WPoints, TlsWhole
<1>1. CASE MessagePart BY <1>1 DEF MessagePart, Fragment
<1>2. CASE MessageTooLong BY <1>2 DEF MessageTooLong, Fragment
<1>3. CASE Transcript BY <1>3 DEF Transcript, Complete, Fragment
<1>4. CASE Ready BY <1>4 DEF Ready, Complete, Fragment
<1>5. CASE OtherMessage BY <1>5 DEF OtherMessage, Complete, Fragment
<1>6. CASE Abandoned
  <2>1. DropSession /\ ServiceFailed /\ UNCHANGED stop
        /\ w \in {"upgrade", "start", "starting", "pump", "upkeep"}
    BY <1>6 DEF Abandoned, Abandon, UpgradeFails, StartFails, StartTimesOut, PumpFails, IdleTimeout
  <2>2. Nothing' /\ msg' = "none" /\ ring' = FALSE BY <2>1, Dropped DEF ServiceFailed, Nothing
  <2>3. ConnectionOwned' BY <2>2, NothingLeft
  <2> QED BY <2>1, <2>3, Dropped DEF ServiceFailed
<1>7. CASE SendFails
  <2>1. Nothing' /\ msg' = "none" /\ ring' = FALSE BY <1>7, Dropped DEF SendFails, Nothing
  <2>2. ConnectionOwned' BY <2>1, NothingLeft
  <2> QED BY <1>7, <2>2, Dropped DEF SendFails
<1>8. CASE Close
  <2>1. inUse' = FALSE /\ held' = {} BY <1>8 DEF Close, TlsClose, TlsRelease
  <2>2. conn' = FALSE /\ state' = "idle" /\ w' = "done" BY <1>8 DEF Close
  <2>3. Nothing' /\ stop' BY <2>1, <2>2, <1>8 DEF Close, Nothing
  <2>4. Places' /\ Stages' BY <2>1, <2>2, <1>8 DEF Close
  <2>5. HandHeld' BY <2>1, <2>2, <1>8 DEF Close
  <2> HIDE DEF ConnectionOwned
  <2>6. ConnectionOwned' BY <2>3, NothingLeft
  <2> QED BY <2>4, <2>5, <2>6
<1> QED BY <1>1, <1>2, <1>3, <1>4, <1>5, <1>6, <1>7, <1>8

-----------------------------------------------------------------------------
(***************************************************************************)
(* The queue holds consecutive chunks, up to the last one captured.        *)
(***************************************************************************)
QueueInOrder ==
  /\ ~qopen => qcount = 0
  /\ \A k \in 0..(qcount - 1) :
       slots[(qhead + k) % TxDepth] = [id |-> captured - qcount + k, rep |-> refused]

LEMMA Wraps ==
  ASSUME NEW a \in Int, 0 <= a, a < 2 * TxDepth
  PROVE  a % TxDepth = IF a < TxDepth THEN a ELSE a - TxDepth
<1>1. CASE a < TxDepth BY <1>1
<1>2. CASE a >= TxDepth
  <2>1. a - TxDepth \in 0..(TxDepth - 1) BY <1>2
  <2>2. a = TxDepth * 1 + (a - TxDepth) OBVIOUS
  <2> QED BY <2>1, <2>2, <1>2
<1> QED BY <1>1, <1>2

LEMMA PlaceIs ==
  ASSUME NEW h \in TxSlot, NEW k \in 0..TxDepth
  PROVE  /\ (h + k) % TxDepth \in TxSlot
         /\ (h + k) % TxDepth = IF h + k < TxDepth THEN h + k ELSE h + k - TxDepth
<1>1. h \in Int /\ k \in Int /\ 0 <= h /\ h < TxDepth /\ 0 <= k /\ k <= TxDepth BY DEF TxSlot
<1>2. h + k \in Nat /\ h + k < 2 * TxDepth BY <1>1
<1>3. (h + k) % TxDepth \in TxSlot BY <1>2, SlotInRange
<1>4. h + k \in Int /\ 0 <= h + k BY <1>2
<1>5. PICK a \in Int : a = h + k BY <1>4
<1>6. 0 <= a /\ a < 2 * TxDepth BY <1>2, <1>4, <1>5
<1>7. a % TxDepth = IF a < TxDepth THEN a ELSE a - TxDepth BY <1>6, Wraps
<1>8. CASE a < TxDepth BY <1>1, <1>3, <1>5, <1>7, <1>8
<1>9. CASE ~(a < TxDepth) BY <1>1, <1>3, <1>5, <1>7, <1>9
<1> QED BY <1>8, <1>9

LEMMA PlacesDiffer ==
  ASSUME NEW h \in TxSlot, NEW k \in 0..(TxDepth - 1), NEW j \in 0..(TxDepth - 1), k # j
  PROVE  (h + k) % TxDepth # (h + j) % TxDepth
<1>1. /\ (h + k) % TxDepth = IF h + k < TxDepth THEN h + k ELSE h + k - TxDepth
      /\ (h + j) % TxDepth = IF h + j < TxDepth THEN h + j ELSE h + j - TxDepth
  BY PlaceIs
<1>2. h \in 0..(TxDepth - 1) BY DEF TxSlot
<1> HIDE TxAssumption
<1>3. TxDepth \in Int BY TxAssumption DEF TxAssumption
<1> QED BY <1>1, <1>2, <1>3

LEMMA NextPlace ==
  ASSUME NEW h \in TxSlot, NEW k \in 0..(TxDepth - 1)
  PROVE  (TxNext(h) + k) % TxDepth = (h + (k + 1)) % TxDepth
<1>1. /\ TxNext(h) \in TxSlot
      /\ TxNext(h) = IF h + 1 < TxDepth THEN h + 1 ELSE h + 1 - TxDepth
  BY PlaceIs DEF TxNext
<1>2. (TxNext(h) + k) % TxDepth
      = IF TxNext(h) + k < TxDepth THEN TxNext(h) + k ELSE TxNext(h) + k - TxDepth
  BY <1>1, PlaceIs
<1>3. (h + (k + 1)) % TxDepth
      = IF h + (k + 1) < TxDepth THEN h + (k + 1) ELSE h + (k + 1) - TxDepth
  BY PlaceIs
<1> QED BY <1>1, <1>2, <1>3 DEF TxSlot

LEMMA FirstPlace == ASSUME NEW h \in TxSlot PROVE (h + 0) % TxDepth = h
<1>1. 0 \in 0..TxDepth /\ h + 0 < TxDepth /\ h + 0 = h BY DEF TxSlot
<1>2. (h + 0) % TxDepth = IF h + 0 < TxDepth THEN h + 0 ELSE h + 0 - TxDepth BY <1>1, PlaceIs
<1> QED BY <1>1, <1>2

LEMMA ShedInOrder ==
  ASSUME slots \in [TxSlot -> Chunk], qhead \in TxSlot, captured \in Nat,
         QueueInOrder, TxShed([id |-> captured, rep |-> refused]),
         captured' = captured + 1, UNCHANGED refused
  PROVE  QueueInOrder'
<1> SUFFICES ASSUME NEW k \in 0..(TxDepth - 1)
             PROVE  slots'[(qhead' + k) % TxDepth]
                    = [id |-> captured' - TxDepth + k, rep |-> refused]
  BY DEF QueueInOrder, TxShed
<1>1. (qhead' + k) % TxDepth = (qhead + (k + 1)) % TxDepth BY NextPlace DEF TxShed
<1>2. slots' = [slots EXCEPT ![qhead] = [id |-> captured, rep |-> refused]] BY DEF TxShed
<1>3. CASE k = TxDepth - 1
  <2>1. (qhead + TxDepth) % TxDepth = qhead BY PlaceIs DEF TxSlot
  <2>2. k + 1 = TxDepth /\ captured' - TxDepth + k = captured BY <1>3
  <2> QED BY <2>1, <2>2, <1>1, <1>2
<1>4. CASE k + 1 \in 0..(TxDepth - 1)
  <2>1. (qhead + (k + 1)) % TxDepth \in TxSlot BY PlaceIs
  <2>2. (qhead + (k + 1)) % TxDepth # qhead
    <3>1. k + 1 # 0 /\ 0 \in 0..(TxDepth - 1) OBVIOUS
    <3> QED BY <1>4, <3>1, PlacesDiffer, FirstPlace
  <2>3. slots[(qhead + (k + 1)) % TxDepth]
        = [id |-> captured - TxDepth + (k + 1), rep |-> refused]
    BY <1>4 DEF QueueInOrder, TxShed
  <2>4. captured' - TxDepth + k = captured - TxDepth + (k + 1) OBVIOUS
  <2> QED BY <1>1, <1>2, <2>1, <2>2, <2>3, <2>4
<1> QED BY <1>3, <1>4

LEMMA StoreInOrder ==
  ASSUME slots \in [TxSlot -> Chunk], qhead \in TxSlot, qcount \in Nat, captured \in Nat,
         QueueInOrder, TxStore([id |-> captured, rep |-> refused]),
         captured' = captured + 1, UNCHANGED refused
  PROVE  QueueInOrder'
<1>1. qcount \in 0..(TxDepth - 1) /\ qcount' = qcount + 1 /\ qhead' = qhead /\ qopen' BY DEF TxStore
<1> SUFFICES ASSUME NEW k \in 0..qcount
             PROVE  slots'[(qhead + k) % TxDepth]
                    = [id |-> captured - qcount + k, rep |-> refused]
  <2>1. captured' - qcount' = captured - qcount /\ qcount' - 1 = qcount BY <1>1
  <2> QED BY <1>1, <2>1 DEF QueueInOrder
<1>2. slots' = [slots EXCEPT ![(qhead + qcount) % TxDepth] = [id |-> captured, rep |-> refused]]
  BY DEF TxStore
<1>3. (qhead + k) % TxDepth \in TxSlot BY <1>1, PlaceIs
<1>4. CASE k = qcount BY <1>2, <1>3, <1>4
<1>5. CASE k \in 0..(qcount - 1)
  <2>1. (qhead + k) % TxDepth # (qhead + qcount) % TxDepth BY <1>1, <1>5, PlacesDiffer
  <2>2. slots[(qhead + k) % TxDepth] = [id |-> captured - qcount + k, rep |-> refused]
    BY <1>5 DEF QueueInOrder
  <2> QED BY <1>2, <1>3, <2>1, <2>2
<1> QED BY <1>1, <1>4, <1>5

LEMMA PopInOrder ==
  ASSUME qhead \in TxSlot, qcount \in 0..TxDepth, captured \in Nat, qlost \in Nat,
         QueueInOrder, TxPop, UNCHANGED cap
  PROVE  /\ QueueInOrder'
         /\ TxHead = [id |-> captured - qcount, rep |-> refused + qlost]
<1>1. TxHead = [id |-> captured - qcount, rep |-> refused + qlost]
  <2>1. 0 \in 0..(qcount - 1) BY DEF TxPop
  <2>2. slots[qhead] = [id |-> captured - qcount + 0, rep |-> refused]
    BY <2>1, FirstPlace DEF QueueInOrder
  <2> QED BY <2>2 DEF TxHead
<1>2. QueueInOrder'
  <2> SUFFICES ASSUME NEW k \in 0..(qcount - 2)
               PROVE  slots[(qhead' + k) % TxDepth]
                      = [id |-> captured - qcount + (k + 1), rep |-> refused]
    <3>1. captured - qcount' = captured - qcount + 1 /\ qcount' - 1 = qcount - 2 BY DEF TxPop
    <3>2. \A k \in 0..(qcount - 2) :
            captured - qcount' + k = captured - qcount + (k + 1)
      BY <3>1
    <3>3. qopen' = qopen /\ (~qopen => qcount = 0) /\ qcount > 0 BY DEF TxPop, QueueInOrder
    <3>4. captured' = captured /\ refused' = refused /\ slots' = slots BY DEF TxPop, cap
    <3> QED BY <3>1, <3>2, <3>3, <3>4 DEF QueueInOrder
  <2>1. k \in 0..(TxDepth - 1) /\ k + 1 \in 0..(qcount - 1) OBVIOUS
  <2>2. (qhead' + k) % TxDepth = (qhead + (k + 1)) % TxDepth BY <2>1, NextPlace DEF TxPop
  <2> QED BY <2>1, <2>2 DEF QueueInOrder
<1> QED BY <1>1, <1>2

LEMMA DiscardInOrder == ASSUME TxDiscard PROVE QueueInOrder'
BY DEF TxDiscard, QueueInOrder

LEMMA QuietInOrder ==
  ASSUME QueueInOrder, UNCHANGED <<slots, qhead, qcount, cap>>, qopen => qopen'
  PROVE  QueueInOrder'
BY DEF QueueInOrder, cap

-----------------------------------------------------------------------------
(***************************************************************************)
(* What the session has carried: its chunks were captured since it was     *)
(* ready, and what a chunk reports as dropped is what its number leaves    *)
(* over once those sent and those lost by the client are taken away.       *)
(***************************************************************************)
FeedInOrder ==
  /\ base \in 0..captured
  /\ state = "ready" => base + qcount <= captured
  /\ hand # NoChunk =>
       /\ base <= hand.id /\ hand.id < captured - qcount
       /\ hand.rep = hand.id - (sent + lost)
  /\ last # NoChunk =>
       /\ state = "ready"
       /\ last.rep = last.id - (sent + lost - 1)
       /\ last.seq + 1 = audioSeq
       /\ last.id < captured - qcount
       /\ hand # NoChunk => last.id < hand.id
  /\ last = NoChunk /\ state = "ready" => audioSeq = 0

AudioInv == AudioAccounted /\ QueueInOrder /\ FeedInOrder

(***************************************************************************)
(* A step that leaves the audio alone and the session as it is.            *)
(***************************************************************************)
LEMMA AudioAlone ==
  ASSUME AudioInv, UNCHANGED <<audio, cap, slots, qhead, qcount, qlost>>, qopen => qopen',
         (state' = "ready") <=> (state = "ready")
  PROVE  AudioInv'
<1>1. QueueInOrder' BY QuietInOrder DEF AudioInv, cap
<1>2. AudioAccounted' BY DEF AudioInv, AudioAccounted, InHand, audio, cap
<1>3. FeedInOrder' BY DEF AudioInv, FeedInOrder, audio, cap
<1> QED BY <1>1, <1>2, <1>3 DEF AudioInv

(***************************************************************************)
(* A session that is gone takes its queue and the chunk in hand with it.   *)
(***************************************************************************)
LEMMA AudioDropped ==
  ASSUME TypeOK, AudioInv, DropSession,
         ServiceFailed \/ (hand # NoChunk /\ hand' = NoChunk /\ lost' = lost + 1),
         UNCHANGED <<audioSeq, sent, base, cap>>
  PROVE  AudioInv'
<1>1. QueueInOrder' BY DiscardInOrder DEF DropSession
<1>2. hand' = NoChunk /\ last' = NoChunk /\ state' = "backoff" /\ lost' = lost + InHand
      /\ qcount' = 0 /\ qlost' = qlost + qcount
  BY DEF DropSession, EnterBackoff, TxDiscard, ServiceFailed, InHand, TypeOK
<1>3. AudioAccounted'
  BY <1>2 DEF AudioInv, AudioAccounted, InHand, cap, TypeOK, TxTypeOK
<1>4. FeedInOrder' BY <1>2 DEF AudioInv, FeedInOrder, cap
<1> QED BY <1>1, <1>3, <1>4 DEF AudioInv

LEMMA InitAudio == Init => AudioInv
<1> SUFFICES ASSUME Init PROVE AudioInv
  OBVIOUS
<1>1. QueueInOrder BY DEF Init, TxInit, QueueInOrder
<1>2. AudioAccounted BY DEF Init, TxInit, AudioAccounted, InHand
<1>3. FeedInOrder BY DEF Init, FeedInOrder
<1> QED BY <1>1, <1>2, <1>3 DEF AudioInv

LEMMA QuietAudio ==
  ASSUME TypeOK, Connection, AudioInv,
         StartWorker \/ RequestStop \/ FinishStop \/ Begin \/ Due \/ PollEvents \/ PumpIdle
         \/ Upkeep \/ PopNothing \/ Wait \/ AlreadyReady \/ NotDue \/ WaitClock \/ Attempt
         \/ Connected \/ Failed \/ ContextBuilt \/ Open \/ Cancel \/ Upgrade \/ StartSent
         \/ SessionReady \/ MessagePart \/ MessageTooLong \/ Transcript \/ OtherMessage
  PROVE  AudioInv'
<1>1. UNCHANGED <<audio, cap, slots, qhead, qcount, qlost>> /\ (qopen => qopen')
      /\ ((state' = "ready") <=> (state = "ready"))
  <2> USE DEF link, audio, cap, txq
  <2>1. CASE StartWorker \/ RequestStop \/ FinishStop \/ AlreadyReady \/ StartSent \/ SessionReady
             \/ PumpIdle \/ PopNothing \/ Wait \/ Upkeep \/ Due \/ PollEvents
    BY <2>1 DEF StartWorker, RequestStop, FinishStop, AlreadyReady, StartSent, SessionReady,
                PumpIdle, PopNothing, Wait, Upkeep, Due, PollEvents
  <2>2. CASE Begin BY <2>2 DEF Begin, TxOpen
  <2>3. CASE NotDue \/ WaitClock
    BY <2>3 DEF NotDue, WaitClock, ServiceFailed, Connection, HandHeld
  <2>4. CASE Attempt \/ Connected \/ ContextBuilt
    BY <2>4 DEF Attempt, Connected, ContextBuilt, Connection, Places
  <2>5. CASE Failed
    <3>1. GiveUp /\ UNCHANGED txq /\ state = "connecting"
      BY <2>5 DEF Failed, ConnectFails, ContextFails, HandshakeFails, GiveUp, Connection, Places
    <3> QED BY <3>1 DEF GiveUp, EnterBackoff, ServiceFailed, Connection, HandHeld
  <2>6. CASE Open \/ Upgrade
    BY <2>6 DEF Open, Upgrade, Proceed, Connection, Places
  <2>7. CASE Cancel
    <3>1. state \in {"connecting", "handshaking"} BY <2>7 DEF Cancel, Connection, Places
    <3> QED BY <3>1, <2>7 DEF Cancel, ServiceFailed, Connection, HandHeld
  <2>8. CASE MessagePart \/ MessageTooLong \/ Transcript \/ OtherMessage
    BY <2>8 DEF MessagePart, MessageTooLong, Transcript, OtherMessage
  <2> QED BY <2>1, <2>2, <2>3, <2>4, <2>5, <2>6, <2>7, <2>8
<1> QED BY <1>1, AudioAlone

LEMMA SessionAudio ==
  ASSUME TypeOK, Connection, AudioInv, Ready \/ Abandoned \/ SendFails \/ Close
  PROVE  AudioInv'
<1>1. CASE Ready
  <2>1. QueueInOrder' BY <1>1, DiscardInOrder DEF Ready
  <2>2. hand = NoChunk /\ last = NoChunk
    BY <1>1 DEF Ready, AudioInv, FeedInOrder, Connection, HandHeld
  <2>3. AudioAccounted' BY <1>1, <2>2
    DEF Ready, TxDiscard, AudioInv, AudioAccounted, InHand, cap, TypeOK, TxTypeOK
  <2>4. FeedInOrder' BY <1>1, <2>2 DEF Ready, TxDiscard, FeedInOrder, cap, TypeOK
  <2> QED BY <2>1, <2>3, <2>4 DEF AudioInv
<1>2. CASE Abandoned
  <2>1. DropSession /\ ServiceFailed /\ UNCHANGED <<audioSeq, sent, base, cap>>
    BY <1>2 DEF Abandoned, Abandon, UpgradeFails, StartFails, StartTimesOut, PumpFails, IdleTimeout
  <2> QED BY <2>1, AudioDropped
<1>3. CASE SendFails BY <1>3, AudioDropped DEF SendFails, Connection, HandHeld
<1>4. CASE Close
  <2>1. QueueInOrder' BY <1>4, QuietInOrder DEF Close, AudioInv, txq
  <2>2. AudioAccounted' BY <1>4 DEF Close, AudioInv, AudioAccounted, InHand, cap, txq
  <2>3. FeedInOrder' BY <1>4 DEF Close, AudioInv, FeedInOrder, cap, txq
  <2> QED BY <2>1, <2>2, <2>3 DEF AudioInv
<1> QED BY <1>1, <1>2, <1>3, <1>4

LEMMA ChunkAudio ==
  ASSUME TypeOK, Connection, AudioInv, Capture \/ Pop \/ Send
  PROVE  AudioInv'
<1> USE DEF TypeOK, TxTypeOK
<1>1. CASE Capture
  <2>1. CASE ~qopen /\ refused' = refused + 1 /\ UNCHANGED txq
    <3>1. qcount = 0 BY <2>1 DEF AudioInv, QueueInOrder
    <3>2. QueueInOrder' BY <3>1, <2>1 DEF QueueInOrder, txq
    <3>3. AudioAccounted' BY <1>1, <2>1 DEF Capture, AudioInv, AudioAccounted, InHand, audio, txq
    <3>4. FeedInOrder' BY <1>1, <2>1 DEF Capture, AudioInv, FeedInOrder, audio, link, txq
    <3> QED BY <3>2, <3>3, <3>4 DEF AudioInv
  <2>2. CASE TxPush([id |-> captured, rep |-> refused]) /\ UNCHANGED refused
    <3>1. QueueInOrder'
      BY <1>1, <2>2, ShedInOrder, StoreInOrder DEF Capture, TxPush, AudioInv
    <3>2. \/ qcount' = qcount + 1 /\ qlost' = qlost
          \/ qcount' = qcount /\ qlost' = qlost + 1
      BY <2>2 DEF TxPush, TxShed, TxStore
    <3>3. AudioAccounted' BY <1>1, <2>2, <3>2 DEF Capture, AudioInv, AudioAccounted, InHand, audio
    <3>4. FeedInOrder' BY <1>1, <2>2, <3>2 DEF Capture, AudioInv, FeedInOrder, audio, link
    <3> QED BY <3>1, <3>3, <3>4 DEF AudioInv
  <2> QED BY <1>1, <2>1, <2>2 DEF Capture
<1>2. CASE Pop
  <2>1. QueueInOrder' /\ TxHead = [id |-> captured - qcount, rep |-> refused + qlost]
    BY <1>2, PopInOrder DEF Pop, AudioInv
  <2>2. hand = NoChunk /\ state = "ready" BY <1>2 DEF Pop, Connection, HandHeld, Places
  <2>3. hand'.id = captured - qcount /\ hand'.rep = refused + qlost /\ hand'.seq = -1
    BY <1>2, <2>1 DEF Pop
  <2>4. qcount \in Nat /\ qcount > 0 /\ qcount' = qcount - 1 /\ qlost' = qlost BY <1>2 DEF Pop, TxPop
  <2>5. captured - qcount = refused + sent + lost + qlost
    BY <2>2, <2>4 DEF AudioInv, AudioAccounted, InHand
  <2>6. hand' # NoChunk BY <2>3, <2>5 DEF NoChunk
  <2>7. AudioAccounted' BY <1>2, <2>2, <2>4, <2>5, <2>6 DEF Pop, AudioAccounted, InHand, cap
  <2>8. FeedInOrder' BY <1>2, <2>2, <2>3, <2>4, <2>5 DEF Pop, AudioInv, FeedInOrder, cap, link
  <2> QED BY <2>1, <2>7, <2>8 DEF AudioInv
<1>3. CASE Send
  <2>1. hand # NoChunk /\ state = "ready" BY <1>3 DEF Send, Connection, HandHeld, Places
  <2>2. last'.id = hand.id /\ last'.rep = hand.rep /\ last'.seq = audioSeq BY <1>3, <2>1 DEF Send
  <2>3. last' # NoChunk BY <2>2, <2>1 DEF NoChunk
  <2>4. QueueInOrder' BY <1>3, QuietInOrder DEF Send, AudioInv, txq
  <2>5. AudioAccounted' BY <1>3, <2>1 DEF Send, AudioInv, AudioAccounted, InHand, cap, txq
  <2>6. FeedInOrder' BY <1>3, <2>1, <2>2, <2>3 DEF Send, AudioInv, FeedInOrder, cap, txq, link
  <2> QED BY <2>4, <2>5, <2>6 DEF AudioInv
<1> QED BY <1>1, <1>2, <1>3

-----------------------------------------------------------------------------
(***************************************************************************)
(* The whole invariant.                                                    *)
(***************************************************************************)
CInv == TypeOK /\ Connection /\ AudioInv

LEMMA NextKeeps == ASSUME CInv, [Next]_vars PROVE CInv'
<1> USE DEF CInv
<1> DEFINE Quiet == StartWorker \/ RequestStop \/ FinishStop \/ Begin \/ Due \/ PollEvents \/ PumpIdle
                    \/ Upkeep \/ PopNothing \/ Wait
           Connects == AlreadyReady \/ NotDue \/ WaitClock \/ Attempt \/ Connected \/ Failed
                       \/ ContextBuilt \/ Open \/ Cancel \/ Upgrade \/ StartSent \/ SessionReady
           TakesIn == MessagePart \/ MessageTooLong \/ Transcript \/ OtherMessage
           Ends == Ready \/ Abandoned \/ SendFails \/ Close
           Chunks == Capture \/ Pop \/ Send
<1>1. CASE Quiet
  <2>1. TypeOK' BY <1>1, QuietTypes, AudioTypes DEF Connection, HandHeld
  <2>2. Connection' BY <1>1, QuietConnection
  <2>3. AudioInv' BY <1>1, QuietAudio
  <2> QED BY <2>1, <2>2, <2>3
<1>2. CASE Connects
  <2>1. TypeOK' BY <1>2, QuietTypes, ConnectTypes
  <2>2. Connection' BY <1>2, ConnectConnection
  <2>3. AudioInv' BY <1>2, QuietAudio
  <2> QED BY <2>1, <2>2, <2>3
<1>3. CASE TakesIn
  <2>1. TypeOK' BY <1>3, SessionTypes
  <2>2. Connection' BY <1>3, SessionConnection
  <2>3. AudioInv' BY <1>3, QuietAudio
  <2> QED BY <2>1, <2>2, <2>3
<1>4. CASE Ends
  <2>1. TypeOK' BY <1>4, SessionTypes
  <2>2. Connection' BY <1>4, SessionConnection
  <2>3. AudioInv' BY <1>4, SessionAudio
  <2> QED BY <2>1, <2>2, <2>3
<1>5. CASE Chunks
  <2>1. TypeOK' BY <1>5, AudioTypes DEF Connection, HandHeld
  <2>2. Connection' BY <1>5, QuietConnection
  <2>3. AudioInv' BY <1>5, ChunkAudio
  <2> QED BY <2>1, <2>2, <2>3
<1>6. CASE UNCHANGED vars
  <2> USE <1>6 DEF vars, link, audio, cap, txq, tls
  <2>1. TypeOK' BY DEF TypeOK, TxTypeOK, TlsTypeOK
  <2>2. Connection' BY DEF Connection, Places, Stages, ConnectionOwned, HandHeld
  <2>3. AudioInv' BY AudioAlone
  <2> QED BY <2>1, <2>2, <2>3
<1>7. Quiet \/ Connects \/ TakesIn \/ Ends \/ Chunks \/ UNCHANGED vars
  BY DEF Next, Progress, Connect, Receive, Serve, Failed, Abandoned
<1> QED BY <1>1, <1>2, <1>3, <1>4, <1>5, <1>6, <1>7

THEOREM InvariantHolds == Spec => []CInv
<1>1. Init => CInv BY InitTypes, InitConnection, InitAudio DEF CInv
<1>2. CInv /\ [Next]_vars => CInv' BY NextKeeps
<1> QED BY <1>1, <1>2, PTL DEF Spec

(***************************************************************************)
(* However an attempt or a session ends, nothing of its connection stays   *)
(* open, and no half message or transcript is left for the next.           *)
(***************************************************************************)
THEOREM ConnectionIsOwned == Spec => []ConnectionOwned
<1>1. CInv => ConnectionOwned BY DEF CInv, Connection
<1> QED BY <1>1, InvariantHolds, PTL

(***************************************************************************)
(* No chunk of audio is lost without being counted, whatever is shed,      *)
(* discarded or dropped, and at whatever depth of the queue.               *)
(***************************************************************************)
THEOREM AudioIsAccounted == Spec => []AudioAccounted
<1>1. CInv => AudioAccounted BY DEF CInv, AudioInv
<1> QED BY <1>1, InvariantHolds, PTL

-----------------------------------------------------------------------------
(***************************************************************************)
(* Every step of the client is a step of the feed, or none.                *)
(***************************************************************************)
FNext == Feed!FCapture \/ Feed!FReady \/ Feed!FFirst \/ Feed!FNext \/ Feed!FEnd

LEMMA StepFeeds == ASSUME CInv, [Next]_vars PROVE [FNext]_(Feed!fvars)
<1> USE DEF Feed!fvars
<1>1. CASE Capture BY <1>1 DEF Capture, audio, FNext, Feed!FCapture
<1>2. CASE Ready
  <2>1. last = NoChunk BY <1>2 DEF Ready, CInv, AudioInv, FeedInOrder
  <2> QED BY <1>2, <2>1 DEF Ready, cap, FNext, Feed!FReady, NoChunk, Feed!NoChunk
<1>3. CASE Send
  <2>1. /\ hand # NoChunk /\ state = "ready" /\ base <= hand.id /\ hand.id < captured - qcount
        /\ hand.rep = hand.id - (sent + lost)
    BY <1>3 DEF Send, CInv, Connection, Places, HandHeld, AudioInv, FeedInOrder
  <2>2. hand \in [id : Nat, rep : Nat, seq : {-1}] BY <2>1 DEF CInv, TypeOK
  <2>3. last' = [id |-> hand.id, rep |-> hand.rep, seq |-> audioSeq] BY <1>3, <2>2 DEF Send
  <2>4. /\ sent \in Nat /\ lost \in Nat /\ captured \in Nat /\ qcount \in Nat /\ audioSeq \in Nat
        /\ base \in Nat
    BY DEF CInv, TypeOK, TxTypeOK
  <2>5. hand.id \in base..(captured - 1) /\ hand.rep \in 0..captured BY <2>1, <2>2, <2>4
  <2>6. UNCHANGED <<captured, base>> BY <1>3 DEF Send, cap
  <2>7. CASE last = NoChunk
    <3>1. audioSeq = 0 BY <2>1, <2>7 DEF CInv, AudioInv, FeedInOrder
    <3>2. Feed!FFirst BY <2>3, <2>5, <2>6, <2>7, <3>1 DEF Feed!FFirst, NoChunk, Feed!NoChunk
    <3> QED BY <3>2 DEF FNext
  <2>8. CASE last # NoChunk
    <3>1. /\ last.rep = last.id - (sent + lost - 1) /\ last.seq + 1 = audioSeq
          /\ last.id < hand.id
      BY <2>1, <2>8 DEF CInv, AudioInv, FeedInOrder
    <3>2. last \in [id : Nat, rep : Nat, seq : Nat] BY <2>8 DEF CInv, TypeOK
    <3>3. hand.rep = last.rep + hand.id - last.id - 1 BY <2>1, <2>2, <2>4, <3>1, <3>2
    <3>4. hand.id \in (last.id + 1)..(captured - 1) BY <2>5, <3>1, <3>2, <2>4
    <3>5. last' = [id |-> hand.id, rep |-> last.rep + hand.id - last.id - 1, seq |-> last.seq + 1]
      BY <2>3, <3>1, <3>3
    <3>6. Feed!FNext BY <2>6, <2>8, <3>4, <3>5 DEF Feed!FNext, NoChunk, Feed!NoChunk
    <3> QED BY <3>6 DEF FNext
  <2> QED BY <2>7, <2>8
<1>4. CASE Abandoned \/ SendFails \/ Close
  <2>1. last' = NoChunk /\ UNCHANGED <<captured, base>>
    BY <1>4 DEF Abandoned, Abandon, UpgradeFails, StartFails, StartTimesOut, PumpFails, IdleTimeout,
                SendFails, Close, DropSession, cap
  <2> QED BY <2>1 DEF FNext, Feed!FEnd, NoChunk, Feed!NoChunk
<1>5. CASE ~(Capture \/ Ready \/ Send \/ Abandoned \/ SendFails \/ Close)
  <2>1. UNCHANGED <<captured, base, last>>
    <3> USE <1>5 DEF audio, cap, vars
    <3>1. CASE UNCHANGED vars BY <3>1
    <3>2. CASE StartWorker \/ RequestStop \/ FinishStop \/ Begin \/ Due \/ PollEvents \/ PumpIdle
               \/ Upkeep \/ PopNothing \/ Wait \/ Pop
      BY <3>2 DEF StartWorker, RequestStop, FinishStop, Begin, Due, PollEvents, PumpIdle,
                  Upkeep, PopNothing, Wait, Pop
    <3>3. CASE AlreadyReady \/ NotDue \/ WaitClock \/ Attempt \/ Connected \/ Failed
               \/ ContextBuilt \/ Open \/ Cancel \/ Upgrade \/ StartSent \/ SessionReady
      BY <3>3 DEF AlreadyReady, NotDue, WaitClock, Attempt, Connected, Failed, ConnectFails,
                  ContextFails, HandshakeFails, GiveUp, ContextBuilt, Open, Cancel, Upgrade,
                  StartSent, SessionReady
    <3>4. CASE MessagePart \/ MessageTooLong \/ Transcript \/ OtherMessage
      BY <3>4 DEF MessagePart, MessageTooLong, Transcript, OtherMessage
    <3>5. [Next]_vars => UNCHANGED vars \/ Next OBVIOUS
    <3> QED BY <3>1, <3>2, <3>3, <3>4, <3>5
          DEF Next, Progress, Connect, Receive, Serve, Failed, Abandoned
  <2> QED BY <2>1
<1> QED BY <1>1, <1>2, <1>3, <1>4, <1>5

(***************************************************************************)
(* The queue, the sheds, the discards and the reconnects give each session *)
(* the feed the server relies on: captured after it was ready, in order,   *)
(* numbered without a gap, its reports of loss exact.                      *)
(***************************************************************************)
THEOREM FeedIsImplemented == Spec => ImplementsFeed
<1>1. Init => Feed!FInit BY DEF Init, Feed!FInit, NoChunk, Feed!NoChunk
<1>2. CInv /\ [Next]_vars => [FNext]_(Feed!fvars) BY StepFeeds
<1> QED BY <1>1, <1>2, InvariantHolds, PTL DEF Spec, ImplementsFeed, Feed!FSpec, FNext
=============================================================================
