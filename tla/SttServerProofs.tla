-------------------------- MODULE SttServerProofs --------------------------
(***************************************************************************)
(* Proofs about SttServer and TranscriptAdapter: for any number of         *)
(* clients, whatever they do and whatever fails, the recogniser has one    *)
(* user at a time; and for utterances of any length, every word of a       *)
(* recogniser that goes back on none is sent once.                         *)
(***************************************************************************)
EXTENDS SttServer, RecursionFacts, FiniteSetTheorems, TLAPS

Client == Stream \cup Upload

(***************************************************************************)
(* The recogniser is taken exactly while one handler is between its        *)
(* acquisition and its end.                                                *)
(***************************************************************************)
OneUser ==
  IF active THEN \E u \in Client : Users = {u} ELSE Users = {}

(***************************************************************************)
(* A session that takes the pipeline for open was the last to open it.     *)
(***************************************************************************)
OpenKnown ==
  \A c \in Stream :
     /\ "opened" \in DOMAIN session[c]
     /\ session[c].opened => model.open = {c} /\ pc[c] \in Serving \cup {"closing"}

(***************************************************************************)
(* A session that is served has the settings recorded, and has opened the  *)
(* pipeline before its audio goes to the thread.                           *)
(***************************************************************************)
Told ==
  \A c \in Stream : pc[c] \in Serving =>
     /\ session[c].config = model.config
     /\ pc[c] = "stepping" => session[c].opened
     /\ {"config", "opened"} \subseteq DOMAIN session[c]

ServerTypes ==
  /\ active \in BOOLEAN
  /\ DOMAIN pc = Client /\ pc = [c \in Client |-> pc[c]]
  /\ DOMAIN session = Stream
  /\ model \in [config : Latency, applied : Latency \cup {Half}, open : SUBSET Stream]

NInv == ServerTypes /\ OneUser /\ OpenKnown /\ Told

LEMMA InitServer == Init => NInv
<1> SUFFICES ASSUME Init PROVE NInv
  OBVIOUS
<1>1. ServerTypes
  <2>1. PICK l \in Latency : model = [config |-> l, applied |-> l, open |-> {}] BY DEF Init
  <2> QED BY <2>1 DEF Init, ServerTypes, Client
<1>2. OneUser BY DEF Init, OneUser, Users, Client
<1>3. OpenKnown BY DEF Init, OpenKnown, NoSession
<1>4. Told BY DEF Init, Told, Serving
<1> QED BY <1>1, <1>2, <1>3, <1>4 DEF NInv

(***************************************************************************)
(* What a handler's move makes of the users.                               *)
(***************************************************************************)
LEMMA Moved ==
  ASSUME ServerTypes, NEW c \in Client, NEW place, Goto(c, place)
  PROVE  /\ pc'[c] = place /\ \A d \in Client \ {c} : pc'[d] = pc[d]
         /\ DOMAIN pc' = Client /\ pc' = [d \in Client |-> pc'[d]]
BY DEF ServerTypes, Goto

LEMMA Stays ==
  ASSUME ServerTypes, OneUser, NEW c \in Client, NEW place, Goto(c, place), UNCHANGED active,
         place # "away", pc[c] # "away"
  PROVE  OneUser'
<1>1. Users' = Users BY Moved DEF Users, Client
<1> QED BY <1>1 DEF OneUser

LEMMA Arrives ==
  ASSUME ServerTypes, OneUser, NEW c \in Client, NEW place, Goto(c, place), TryAcquire, place # "away"
  PROVE  OneUser'
<1>1. Users = {} BY DEF OneUser, TryAcquire
<1>2. Users' = {c} BY <1>1, Moved DEF Users, Client
<1> QED BY <1>2 DEF OneUser, TryAcquire

LEMMA Departs ==
  ASSUME ServerTypes, OneUser, NEW c \in Client, Goto(c, "away"), Release, pc[c] # "away"
  PROVE  OneUser'
<1>1. c \in Users BY DEF Users, Client
<1>2. Users = {c} BY <1>1 DEF OneUser
<1>3. Users' = {} BY <1>2, Moved DEF Users, Client
<1> QED BY <1>3 DEF OneUser, Release

(***************************************************************************)
(* While a client has the recogniser, nobody else has anything of it.      *)
(***************************************************************************)
LEMMA Alone ==
  ASSUME NInv, NEW c \in Client, pc[c] # "away"
  PROVE  /\ \A d \in Client \ {c} : pc[d] = "away"
         /\ \A d \in Stream \ {c} : ~session[d].opened /\ "opened" \in DOMAIN session[d]
<1>1. c \in Users BY DEF Users, Client
<1>2. Users = {c} BY <1>1 DEF NInv, OneUser
<1>3. \A d \in Client \ {c} : pc[d] = "away" BY <1>2 DEF Users, Client
<1>4. \A d \in Stream \ {c} : pc[d] = "away" BY <1>3 DEF Client
<1>5. \A d \in Stream \ {c} : ~session[d].opened /\ "opened" \in DOMAIN session[d]
  BY <1>4 DEF NInv, OpenKnown, Serving
<1> QED BY <1>3, <1>5

(***************************************************************************)
(* Where the client that has the recogniser goes, and what it does to its  *)
(* own session and the pipeline, decides for all.                          *)
(***************************************************************************)
LEMMA Decides ==
  ASSUME NInv, NEW c \in Stream, pc[c] # "away", DOMAIN pc' = Client,
         \A d \in Client \ {c} : pc'[d] = pc[d],
         \A d \in Stream \ {c} : session'[d] = session[d],
         "opened" \in DOMAIN session'[c],
         session'[c].opened => model'.open = {c} /\ pc'[c] \in Serving \cup {"closing"},
         pc'[c] \in Serving =>
            session'[c].config = model'.config /\ {"config", "opened"} \subseteq DOMAIN session'[c],
         pc'[c] = "stepping" => session'[c].opened
  PROVE  OpenKnown' /\ Told'
<1>1. c \in Client BY DEF Client
<1>2. /\ \A d \in Stream \ {c} : pc'[d] = "away"
      /\ \A d \in Stream \ {c} : ~session'[d].opened /\ "opened" \in DOMAIN session'[d]
  BY <1>1, Alone DEF Client
<1>3. OpenKnown' BY <1>2 DEF OpenKnown
<1>4. Told' BY <1>2 DEF Told, Serving
<1> QED BY <1>3, <1>4

(***************************************************************************)
(* A move that leaves the sessions, the settings and the pipeline alone.   *)
(***************************************************************************)
LEMMA OnlyMoves ==
  ASSUME NInv, NEW c \in Client, NEW place, Goto(c, place), UNCHANGED <<session, model>>,
         active' \in BOOLEAN, place \in Serving => pc[c] \in Serving,
         place # "stepping",
         place \in Serving \cup {"closing"} \/ pc[c] \notin Serving \cup {"closing"}
  PROVE  ServerTypes' /\ OpenKnown' /\ Told'
<1>1. ServerTypes' BY Moved DEF NInv, ServerTypes
<1>2. OpenKnown' BY Moved DEF NInv, OpenKnown, Client
<1>3. Told' BY Moved DEF NInv, Told, Client
<1> QED BY <1>1, <1>2, <1>3

(***************************************************************************)
(* A frame changes the settings of no session and the others not at all.   *)
(***************************************************************************)
LEMMA FrameKeeps ==
  ASSUME ServerTypes, Told, NEW c \in Stream, pc[c] \in Serving,
         NEW n, NEW after \in BOOLEAN, Recognises(c, n, after)
  PROVE  /\ session'[c].config = session[c].config /\ session'[c].opened = after
         /\ {"config", "opened"} \subseteq DOMAIN session'[c]
         /\ DOMAIN session' = Stream /\ \A d \in Stream \ {c} : session'[d] = session[d]
<1>1. PICK out, tracked :
        session' = [session EXCEPT ![c] = [Recognised(@, n, out, tracked) EXCEPT !.opened = after]]
  BY DEF Recognises
<1>2. {"config", "opened"} \subseteq DOMAIN session[c] BY DEF Told
<1> DEFINE r == Recognised(session[c], n, out, tracked)
<1>3. DOMAIN r = DOMAIN session[c] /\ r.config = session[c].config BY <1>2 DEF Recognised
<1>4. session' = [session EXCEPT ![c] = [r EXCEPT !.opened = after]] BY <1>1
<1> HIDE DEF r
<1> QED BY <1>2, <1>3, <1>4 DEF ServerTypes

(***************************************************************************)
(* What opening and closing the pipeline, and the settings, make of the    *)
(* recogniser.                                                             *)
(***************************************************************************)
LEMMA Opens ==
  ASSUME NInv, NEW c \in Stream, EngineOpen(c)
  PROVE  /\ model'.config = model.config /\ model'.open = {c}
         /\ model' \in [config : Latency, applied : Latency \cup {Half}, open : SUBSET Stream]
<1>1. CASE session[c].opened BY <1>1 DEF EngineOpen, NInv, ServerTypes, OpenKnown
<1>2. CASE ~session[c].opened BY <1>2 DEF EngineOpen, NInv, ServerTypes
<1> QED BY <1>1, <1>2

LEMMA Closes ==
  ASSUME NInv, NEW c \in Stream, Close(c)
  PROVE  model' \in [config : Latency, applied : Latency \cup {Half}, open : SUBSET Stream]
BY DEF Close, NInv, ServerTypes

LEMMA Prepares ==
  ASSUME NInv, NEW l \in Latency, Prepare(l)
  PROVE  /\ model'.config = l
         /\ model' \in [config : Latency, applied : Latency \cup {Half}, open : SUBSET Stream]
BY DEF Prepare, SameSettings, Configure, NInv, ServerTypes

LEMMA StreamSteps ==
  ASSUME NInv, NEW c \in Stream,
         \/ Connect(c) \/ Leave(c) \/ EngineOpenFails(c) \/ End(c) \/ Serve(c)
         \/ \E l \in Latency : Start(c, l) \/ StartFails(c, l)
         \/ \E n \in Chunks : Push(c, n)
  PROVE  NInv'
<1>0. c \in Client /\ ServerTypes /\ OneUser /\ OpenKnown /\ Told BY DEF Client, NInv
<1>00. active \in BOOLEAN /\ DOMAIN session = Stream BY <1>0 DEF ServerTypes
<1>1. CASE Connect(c)
  <2>1. OneUser' BY <1>0, <1>1, Arrives DEF Connect
  <2>2. ServerTypes' /\ OpenKnown' /\ Told'
    BY <1>0, <1>1, OnlyMoves DEF Connect, TryAcquire, Serving
  <2> QED BY <2>1, <2>2 DEF NInv
<1>2. CASE Leave(c)
  <2>1. OneUser' BY <1>0, <1>2, Stays DEF Leave
  <2>2. ServerTypes' /\ OpenKnown' /\ Told'
    BY <1>0, <1>00, <1>2, OnlyMoves DEF Leave, Serving
  <2> QED BY <2>1, <2>2 DEF NInv
<1>3. CASE End(c) \/ \E n \in Chunks : Push(c, n)
  <2>1. PICK place \in {"flushing", "stepping"} : Goto(c, place)
    BY <1>3 DEF End, Push
  <2>2. pc[c] = "serving" /\ EngineOpen(c) /\ UNCHANGED active BY <1>3 DEF End, Push
  <2>3. OneUser' BY <1>0, <2>1, <2>2, Stays
  <2>4. /\ session'[c].opened /\ session'[c].config = session[c].config
        /\ {"config", "opened"} \subseteq DOMAIN session'[c]
        /\ DOMAIN session' = Stream /\ \A d \in Stream \ {c} : session'[d] = session[d]
    <3>1. DOMAIN session = Stream /\ {"config", "opened"} \subseteq DOMAIN session[c]
      BY <1>0, <2>2 DEF ServerTypes, Told, Serving
    <3>2. CASE End(c) BY <3>1, <3>2 DEF End
    <3>3. CASE \E n \in Chunks : Push(c, n)
      <4>1. PICK n \in Chunks : Push(c, n) BY <3>3
      <4> QED BY <3>1, <4>1 DEF Push
    <3> QED BY <1>3, <3>2, <3>3
  <2>5. ServerTypes' BY <1>0, <2>1, <2>2, <2>4, Moved, Opens DEF ServerTypes
  <2>6. /\ pc'[c] = place /\ DOMAIN pc' = Client
        /\ \A d \in Client \ {c} : pc'[d] = pc[d]
    BY <1>0, <2>1, Moved
  <2>7. model'.open = {c} /\ session'[c].config = model'.config
    BY <1>0, <2>2, <2>4, Opens DEF Told, Serving
  <2>8. OpenKnown' /\ Told' BY <2>1, <2>2, <2>4, <2>6, <2>7, Decides DEF Serving
  <2> QED BY <2>3, <2>5, <2>8 DEF NInv
<1>4. CASE \E l \in Latency : Start(c, l)
  <2>1. PICK l \in Latency : Start(c, l) BY <1>4
  <2>2. pc[c] = "starting" /\ Goto(c, "serving") /\ UNCHANGED active /\ Prepare(l)
    BY <2>1 DEF Start
  <2>3. OneUser' BY <1>0, <2>2, Stays
  <2>4. /\ session'[c] = NewSession(l)
        /\ DOMAIN session' = Stream /\ \A d \in Stream \ {c} : session'[d] = session[d]
    BY <1>0, <2>1 DEF Start, ServerTypes
  <2>5. /\ session'[c].config = l /\ ~session'[c].opened
        /\ {"config", "opened"} \subseteq DOMAIN session'[c]
    BY <2>4 DEF NewSession
  <2>6. ServerTypes' BY <1>0, <2>2, <2>4, Moved, Prepares DEF ServerTypes
  <2>7. /\ pc'[c] = "serving" /\ DOMAIN pc' = Client
        /\ \A d \in Client \ {c} : pc'[d] = pc[d]
    BY <1>0, <2>2, Moved
  <2>8. session'[c].config = model'.config BY <2>2, <2>5, Prepares
  <2>9. OpenKnown' /\ Told' BY <2>2, <2>4, <2>5, <2>7, <2>8, Decides
  <2> QED BY <2>3, <2>6, <2>9 DEF NInv
<1>5. CASE EngineOpenFails(c) \/ \E l \in Latency : StartFails(c, l)
  <2>1. /\ pc[c] \in {"serving", "starting"} /\ Goto(c, "closing") /\ UNCHANGED <<active, session>>
        /\ ~session[c].opened
        /\ model' \in [config : Latency, applied : Latency \cup {Half}, open : SUBSET Stream]
    <3>1. CASE EngineOpenFails(c)
      <4>1. model \in [config : Latency, applied : Latency \cup {Half}, open : SUBSET Stream]
        BY <1>0 DEF ServerTypes
      <4>2. EngineOpen(c) \/ UNCHANGED model BY <3>1 DEF EngineOpenFails
      <4>3. model' \in [config : Latency, applied : Latency \cup {Half}, open : SUBSET Stream]
        BY <4>1, <4>2, Opens
      <4> QED BY <3>1, <4>3 DEF EngineOpenFails
    <3>2. CASE \E l \in Latency : StartFails(c, l)
      <4>1. PICK l \in Latency : StartFails(c, l) BY <3>2
      <4>2. CASE ConfigureFails(l)
        BY <1>0, <4>1, <4>2 DEF StartFails, ConfigureFails, ServerTypes, OpenKnown, Serving
      <4>3. CASE Prepare(l)
        BY <1>0, <4>1, <4>3, Prepares DEF StartFails, OpenKnown, Serving
      <4> QED BY <4>1, <4>2, <4>3 DEF StartFails
    <3> QED BY <1>5, <3>1, <3>2
  <2>2. OneUser' BY <1>0, <2>1, Stays
  <2>3. ServerTypes' BY <1>0, <2>1, Moved DEF ServerTypes
  <2>4. /\ pc'[c] = "closing" /\ DOMAIN pc' = Client
        /\ \A d \in Client \ {c} : pc'[d] = pc[d]
    BY <1>0, <2>1, Moved
  <2>5. "opened" \in DOMAIN session'[c] /\ ~session'[c].opened
        /\ \A d \in Stream \ {c} : session'[d] = session[d]
    BY <1>0, <2>1 DEF OpenKnown
  <2>6. OpenKnown' /\ Told' BY <2>1, <2>4, <2>5, Decides DEF Serving
  <2> QED BY <2>2, <2>3, <2>6 DEF NInv
<1>6. CASE Step(c)
  <2>1. pc[c] = "stepping" /\ UNCHANGED <<active, model>> BY <1>6 DEF Step
  <2>2. CASE Recognises(c, FRAME, TRUE) /\ UNCHANGED pc
    <3>1. /\ session'[c].config = session[c].config /\ session'[c].opened
          /\ {"config", "opened"} \subseteq DOMAIN session'[c]
          /\ DOMAIN session' = Stream /\ \A d \in Stream \ {c} : session'[d] = session[d]
      BY <1>0, <2>1, <2>2, FrameKeeps DEF Serving
    <3>2. ServerTypes' BY <1>0, <2>1, <2>2, <3>1 DEF ServerTypes
    <3>3. OneUser'
      <4>1. UNCHANGED <<pc, active>> BY <2>1, <2>2
      <4> QED BY <1>0, <4>1 DEF OneUser, Users
    <3>4. model.open = {c} /\ session[c].config = model.config
      BY <1>0, <2>1 DEF Told, OpenKnown, Serving
    <3>5. OpenKnown' /\ Told'
      BY <1>0, <2>1, <2>2, <3>1, <3>4, Decides DEF Serving, ServerTypes
    <3> QED BY <3>2, <3>3, <3>5 DEF NInv
  <2>3. CASE Goto(c, "answering") /\ UNCHANGED session
    <3>1. OneUser' BY <1>0, <2>1, <2>3, Stays
    <3>2. ServerTypes' /\ OpenKnown' /\ Told' BY <1>0, <1>00, <2>1, <2>3, OnlyMoves DEF Serving
    <3> QED BY <3>1, <3>2 DEF NInv
  <2> QED BY <1>6, <2>2, <2>3 DEF Step
<1>7. CASE Answer(c)
  <2>1. OneUser' BY <1>0, <1>7, Stays DEF Answer
  <2>2. ServerTypes' /\ OpenKnown' /\ Told' BY <1>0, <1>00, <1>7, OnlyMoves DEF Answer, Serving
  <2> QED BY <2>1, <2>2 DEF NInv
<1>8. CASE StepFails(c)
  <2>1. OneUser' BY <1>0, <1>8, Stays DEF StepFails
  <2>2. ServerTypes' /\ OpenKnown' /\ Told'
    BY <1>0, <1>00, <1>8, OnlyMoves DEF StepFails, Serving
  <2> QED BY <2>1, <2>2 DEF NInv
<1>9. CASE Flush(c)
  <2>1. pc[c] = "flushing" /\ Goto(c, "closing") /\ UNCHANGED active BY <1>9 DEF Flush
  <2>2. /\ DOMAIN session' = Stream /\ \A d \in Stream \ {c} : session'[d] = session[d]
        /\ "opened" \in DOMAIN session'[c] /\ session'[c].opened = FALSE
    BY <1>0, <1>9, <2>1, FrameKeeps DEF Flush, Serving
  <2>3. model' \in [config : Latency, applied : Latency \cup {Half}, open : SUBSET Stream]
    BY <1>0, <1>9 DEF Flush, ServerTypes
  <2>4. OneUser' BY <1>0, <2>1, Stays
  <2>5. ServerTypes' BY <1>0, <2>1, <2>2, <2>3, Moved DEF ServerTypes
  <2>6. /\ pc'[c] = "closing" /\ DOMAIN pc' = Client
        /\ \A d \in Client \ {c} : pc'[d] = pc[d]
    BY <1>0, <2>1, Moved
  <2>7. OpenKnown' /\ Told' BY <2>1, <2>2, <2>6, Decides DEF Serving
  <2> QED BY <2>4, <2>5, <2>7 DEF NInv
<1>10. CASE Finish(c)
  <2>1. pc[c] = "closing" /\ Goto(c, "away") /\ Release /\ Close(c) BY <1>10 DEF Finish
  <2>2. OneUser' BY <1>0, <2>1, Departs
  <2>3. /\ DOMAIN session' = Stream /\ \A d \in Stream \ {c} : session'[d] = session[d]
        /\ "opened" \in DOMAIN session'[c] /\ session'[c].opened = FALSE
    BY <1>0, <1>10 DEF Finish, ServerTypes, NoSession
  <2>4. ServerTypes' BY <1>0, <2>1, <2>3, Moved, Closes DEF ServerTypes, Release
  <2>5. /\ pc'[c] = "away" /\ DOMAIN pc' = Client
        /\ \A d \in Client \ {c} : pc'[d] = pc[d]
    BY <1>0, <2>1, Moved
  <2>6. OpenKnown' /\ Told' BY <2>1, <2>3, <2>5, Decides DEF Serving
  <2> QED BY <2>2, <2>4, <2>6 DEF NInv
<1> QED BY <1>1, <1>2, <1>3, <1>4, <1>5, <1>6, <1>7, <1>8, <1>9, <1>10 DEF Serve

LEMMA UploadSteps ==
  ASSUME NInv, NEW c \in Upload, Transcribe(c) \/ Transcribed(c)
  PROVE  NInv'
<1>0. c \in Client /\ ServerTypes /\ OneUser BY DEF Client, NInv
<1>1. CASE Transcribe(c)
  <2>1. OneUser' BY <1>0, <1>1, Arrives DEF Transcribe
  <2>2. ServerTypes' /\ OpenKnown' /\ Told'
    BY <1>0, <1>1, OnlyMoves DEF Transcribe, TryAcquire, Serving
  <2> QED BY <2>1, <2>2 DEF NInv
<1>2. CASE Transcribed(c)
  <2>1. OneUser' BY <1>0, <1>2, Departs DEF Transcribed
  <2>2. ServerTypes' /\ OpenKnown' /\ Told'
    BY <1>0, <1>2, OnlyMoves DEF Transcribed, Release, Serving
  <2> QED BY <2>1, <2>2 DEF NInv
<1> QED BY <1>1, <1>2

LEMMA NextKeeps == NInv /\ [Next]_vars => NInv'
<1> SUFFICES ASSUME NInv, [Next]_vars PROVE NInv'
  OBVIOUS
<1>1. CASE Load \/ (\E c \in Stream \cup Upload : Refuse(c)) \/ UNCHANGED vars
  <2>1. UNCHANGED <<active, pc, model, session>> BY <1>1 DEF Load, Refuse, vars
  <2> QED BY <2>1 DEF NInv, ServerTypes, OneUser, Users, OpenKnown, Told
<1>2. CASE \E c \in Stream :
        \/ Connect(c) \/ Leave(c) \/ EngineOpenFails(c) \/ End(c) \/ Serve(c)
        \/ \E l \in Latency : Start(c, l) \/ StartFails(c, l)
        \/ \E n \in Chunks : Push(c, n)
  BY <1>2, StreamSteps
<1>3. CASE \E c \in Upload : Transcribe(c) \/ Transcribed(c)
  BY <1>3, UploadSteps
<1> QED BY <1>1, <1>2, <1>3 DEF Next

LEMMA NInvIsExclusive == NInv => ModelExclusive
<1> SUFFICES ASSUME NInv PROVE ModelExclusive
  OBVIOUS
<1> USE DEF NInv
<1>1. Cardinality(Users) = (IF active THEN 1 ELSE 0)
  <2>1. CASE active BY <2>1, FS_Singleton DEF OneUser
  <2>2. CASE ~active BY <2>2, FS_EmptySet DEF OneUser
  <2> QED BY <2>1, <2>2 DEF ServerTypes
<1>2. \A c \in Stream :
         /\ pc[c] \in Serving => session[c].config = model.config
         /\ session[c].opened => model.open = {c}
  BY DEF Told, OpenKnown
<1> QED BY <1>1, <1>2 DEF ModelExclusive

(***************************************************************************)
(* The recogniser has one user at a time; the settings recorded are those  *)
(* of the session that is served; and a session that takes the pipeline    *)
(* for open was the last to open it, with no close since                   *)
(* (SingleSessionManager and stt_stream in app.py, configure_streaming,    *)
(* open and close in nemotron.py): for every number of clients, however    *)
(* they come and leave, whether settings, opens, frames and closes fail or *)
(* not.  Whether the settings recorded are in force is another question,   *)
(* which SettingsActive asks and the code does not always answer with yes. *)
(***************************************************************************)
THEOREM RecogniserIsExclusive == Spec => []ModelExclusive
<1>1. Spec => []NInv BY InitServer, NextKeeps, PTL DEF Spec
<1> QED BY <1>1, NInvIsExclusive, PTL

-----------------------------------------------------------------------------
(***************************************************************************)
(* The width of a line is an integer, and that of no words is -1 (there is *)
(* no space before the first).                                             *)
(***************************************************************************)
LEMMA CharsIs ==
  ASSUME NEW w \in Seq(Word)
  PROVE  Chars(w) \in Int /\ (w = <<>> => Chars(w) = -1)
<1> DEFINE S == SUBSET DOMAIN w
           one(s) == CHOOSE x \in s : TRUE
           rank == [s \in S |-> Cardinality(s)]
           rest == [s \in S |-> s \ {one(s)}]
           base == [s \in S |-> -1]
           step == [s \in S |-> [a \in Int |-> [b \in Int |-> a + Width[w[one(s)]] + 1]]]
           body(f) == [s \in S |-> IF s = {} THEN -1 ELSE f[s \ {one(s)}] + Width[w[one(s)]] + 1]
           iter == CHOOSE f : f = body(f)
<1>1. DOMAIN w = 1..Len(w) /\ Len(w) \in Nat /\ \A i \in DOMAIN w : w[i] \in Word OBVIOUS
<1>2. IsFiniteSet(DOMAIN w) BY <1>1, FS_Interval
<1>3. \A s \in S : /\ IsFiniteSet(s) /\ Cardinality(s) \in Nat
                   /\ s # {} => one(s) \in s /\ Cardinality(s \ {one(s)}) < Cardinality(s)
  <2> TAKE s \in S
  <2>1. IsFiniteSet(s) /\ Cardinality(s) \in Nat BY <1>2, FS_Subset, FS_CardinalityType
  <2>2. s # {} => one(s) \in s OBVIOUS
  <2>3. s # {} => Cardinality(s \ {one(s)}) = Cardinality(s) - 1
    BY <2>1, <2>2, FS_RemoveElement
  <2> QED BY <2>1, <2>2, <2>3
<1>4. rank \in [S -> Nat] BY <1>3
<1>5. rest \in [S -> S] OBVIOUS
<1>6. \A s \in S : s \in {{}} => base[s] \in Int OBVIOUS
<1>7. \A s \in S : s \notin {{}} => rank[rest[s]] < rank[s]
  <2> TAKE s \in S
  <2>1. rank[s] = Cardinality(s) /\ rank[rest[s]] = Cardinality(s \ {one(s)}) OBVIOUS
  <2> HIDE DEF rank, rest, one
  <2> QED BY <1>3, <2>1
<1>8. \A s \in S : s # {} => Width[w[one(s)]] \in Int BY <1>1, <1>3, WordAssumption
<1>9. \A s \in S : s \notin {{}} => \A a, b \in Int : step[s][a][b] \in Int
  <2> SUFFICES ASSUME NEW s \in S, s # {}, NEW a \in Int, NEW b \in Int PROVE step[s][a][b] \in Int
    OBVIOUS
  <2>1. step[s][a][b] = a + Width[w[one(s)]] + 1 OBVIOUS
  <2> QED BY <1>8, <2>1
<1>10. \E f : Unfolds(f, S, Int, {{}}, base, step, rest, rest)
  <2> HIDE DEF S, rank, rest, base, step
  <2> QED BY <1>4, <1>5, <1>6, <1>7, <1>9, Recursion
<1>11. PICK f : Unfolds(f, S, Int, {{}}, base, step, rest, rest) BY <1>10
<1>12. f \in [S -> Int] BY <1>11 DEF Unfolds
<1>13. \A s \in S : f[s] = IF s = {} THEN -1 ELSE f[s \ {one(s)}] + Width[w[one(s)]] + 1
  <2> TAKE s \in S
  <2>1. CASE s = {} BY <1>11, <2>1 DEF Unfolds
  <2>2. CASE s # {}
    <3>1. f[s] = step[s][f[rest[s]]][f[rest[s]]] BY <1>11, <2>2 DEF Unfolds
    <3>2. rest[s] = s \ {one(s)} /\ rest[s] \in S OBVIOUS
    <3>3. f[rest[s]] \in Int BY <1>12, <3>2
    <3>4. step[s][f[rest[s]]][f[rest[s]]] = f[rest[s]] + Width[w[one(s)]] + 1 BY <3>3
    <3> QED BY <2>2, <3>1, <3>2, <3>4
  <2> QED BY <2>1, <2>2
<1>14. f = body(f) BY <1>12, <1>13
<1>15. iter = body(iter) BY <1>14
<1>16. Chars(w) = iter[DOMAIN w] BY DEF Chars, FoldSeq, FoldFunction, FoldFunctionOnSet, MapThenFoldSet
<1> HIDE DEF iter
<1>17. iter[{}] = -1 BY <1>15
<1>18. \A s \in S : iter[s] \in Int
  <2> DEFINE T == {n \in Nat : \E s \in S : iter[s] \notin Int /\ n = Cardinality(s)}
  <2> SUFFICES ASSUME NEW u \in S, iter[u] \notin Int PROVE FALSE
    OBVIOUS
  <2>1. Cardinality(u) \in T BY <1>3
  <2>2. PICK m \in T : \A n \in T : m <= n BY <2>1, LeastNumber
  <2>3. PICK s \in S : iter[s] \notin Int /\ m = Cardinality(s) OBVIOUS
  <2>4. s # {}
    <3>1. s = {} => iter[s] = -1 BY <1>17
    <3>2. -1 \in Int OBVIOUS
    <3> QED BY <2>3, <3>1, <3>2, Zenon
  <2>5. s \ {one(s)} \in S /\ Cardinality(s \ {one(s)}) < m BY <1>3, <2>3, <2>4
  <2>6. Cardinality(s \ {one(s)}) \in Nat /\ m \in Nat BY <1>3, <2>5
  <2>7. iter[s \ {one(s)}] \in Int
    <3> SUFFICES ASSUME iter[s \ {one(s)}] \notin Int PROVE FALSE
      OBVIOUS
    <3>1. Cardinality(s \ {one(s)}) \in T BY <2>5, <2>6
    <3>2. m <= Cardinality(s \ {one(s)}) BY <2>2, <3>1
    <3> HIDE DEF T, one
    <3> QED BY <2>5, <2>6, <3>2
  <2>8. iter[s] = iter[s \ {one(s)}] + Width[w[one(s)]] + 1 BY <1>15, <2>4
  <2> QED BY <1>8, <2>3, <2>4, <2>7, <2>8
<1> QED BY <1>1, <1>16, <1>17, <1>18

-----------------------------------------------------------------------------
(* The lines of a hypothesis (take_line_words, _rollup). *)

(***************************************************************************)
(* Sequences of lines.                                                     *)
(***************************************************************************)
Lined == Seq(Seq(Word))

(***************************************************************************)
(* A line that fits the display, unless it is one word.                    *)
(***************************************************************************)
Fits(line) == Chars(line) <= LINE_MAX \/ Len(line) = 1

(***************************************************************************)
(* The tests of the loop of _rollup: words that do not fit a line, words   *)
(* that make a line, how many of them do, and the words after those.       *)
(***************************************************************************)
Wide(w) == Chars(w) > LINE_MAX
Full(w, close) == Wide(w) \/ (Sentence(w) /\ ~close)
Cut(w) == IF Wide(w) THEN TakeLineWords(w) ELSE Len(w)
Cutting(w) == SubSeq(w, Cut(w) + 1, Len(w))

(***************************************************************************)
(* take_line_words takes at least one word, and more only if they fit.     *)
(***************************************************************************)
LEMMA TakeLineWordsIs ==
  ASSUME NEW w \in Seq(Word), w # <<>>
  PROVE  /\ TakeLineWords(w) \in 1..Len(w)
         /\ TakeLineWords(w) = 1 \/ Chars(SubSeq(w, 1, TakeLineWords(w))) <= LINE_MAX
<1> DEFINE T == {1} \cup {n \in 1..Len(w) : Chars(SubSeq(w, 1, n)) <= LINE_MAX}
<1>1. Len(w) \in Nat /\ Len(w) >= 1 OBVIOUS
<1>2. T \subseteq Int /\ T # {} /\ \A x \in T : x <= Len(w) BY <1>1
<1>3. Max(T) \in T
  <2> DEFINE b == Len(w)
  <2>1. b \in Int /\ T \subseteq Int /\ T # {} /\ \A x \in T : x <= b BY <1>1, <1>2
  <2> HIDE DEF T, b
  <2> QED BY <2>1, LargestIs
<1>4. TakeLineWords(w) = Max(T) BY DEF TakeLineWords
<1>5. \A x \in T : x \in 1..Len(w) /\ (x = 1 \/ Chars(SubSeq(w, 1, x)) <= LINE_MAX) BY <1>1
<1> HIDE DEF T
<1> QED BY <1>3, <1>4, <1>5

(***************************************************************************)
(* A line that is finished has a word, fits, and leaves fewer words.       *)
(***************************************************************************)
LEMMA CutIs ==
  ASSUME NEW w \in Seq(Word), NEW close \in BOOLEAN, Full(w, close)
  PROVE  /\ w # <<>> /\ Cut(w) \in 1..Len(w) /\ Fits(SubSeq(w, 1, Cut(w)))
         /\ SubSeq(w, 1, Cut(w)) \in Seq(Word) /\ Len(SubSeq(w, 1, Cut(w))) = Cut(w)
         /\ Cutting(w) \in Seq(Word) /\ Len(Cutting(w)) = Len(w) - Cut(w)
<1>1. Chars(w) \in Int /\ LINE_MAX \in Int /\ -1 <= LINE_MAX BY CharsIs DEF LINE_MAX
<1>2. w # <<>>
  <2> SUFFICES ASSUME w = <<>> PROVE FALSE
    OBVIOUS
  <2>1. Chars(w) = -1 BY CharsIs
  <2> QED BY <1>1, <2>1 DEF Full, Wide, Sentence
<1>3. Len(w) \in Nat /\ Len(w) >= 1 BY <1>2
<1>4. Cut(w) \in 1..Len(w) BY <1>2, <1>3, TakeLineWordsIs DEF Cut
<1>5. SubSeq(w, 1, Cut(w)) \in Seq(Word) /\ Len(SubSeq(w, 1, Cut(w))) = Cut(w) BY <1>4
<1>6. Fits(SubSeq(w, 1, Cut(w)))
  <2>1. CASE Wide(w) BY <1>2, <1>5, <2>1, TakeLineWordsIs DEF Cut, Fits
  <2>2. CASE ~Wide(w)
    <3>1. SubSeq(w, 1, Cut(w)) = w BY <2>2, SubSeqFull DEF Cut
    <3>2. Chars(w) <= LINE_MAX BY <1>1, <2>2 DEF Wide
    <3> QED BY <3>1, <3>2 DEF Fits
  <2> QED BY <2>1, <2>2
<1>7. Cutting(w) \in Seq(Word) /\ Len(Cutting(w)) = Len(w) - Cut(w)
  <2> DEFINE n == Cut(w)
  <2>1. n \in 1..Len(w) BY <1>4
  <2> HIDE DEF n
  <2>2. SubSeq(w, n + 1, Len(w)) \in Seq(Word) /\ Len(SubSeq(w, n + 1, Len(w))) = Len(w) - n BY <1>3, <2>1
  <2> QED BY <2>2 DEF Cutting, n
<1> QED BY <1>2, <1>4, <1>5, <1>6, <1>7

(***************************************************************************)
(* The loop of _rollup, unfolded once.                                     *)
(***************************************************************************)
LEMMA LinesUnfold ==
  ASSUME NEW close \in BOOLEAN
  PROVE  \A w \in Seq(Word) :
           Lines(w, close) = IF Full(w, close) THEN <<SubSeq(w, 1, Cut(w))>> \o Lines(Cutting(w), close)
                             ELSE <<>>
<1> DEFINE S == Seq(Word)
           stop == {w \in S : ~Full(w, close)}
           rank == [w \in S |-> Len(w)]
           next == [w \in S |-> IF w \in stop THEN w ELSE Cutting(w)]
           base == [w \in S |-> <<>>]
           step == [w \in S |-> [a \in Lined |-> [b \in Lined |-> <<SubSeq(w, 1, Cut(w))>> \o a]]]
           body(f) == [w \in S |->
             IF Full(w, close) THEN <<SubSeq(w, 1, Cut(w))>> \o f[Cutting(w)] ELSE <<>>]
           lines == CHOOSE f : f = body(f)
<1>1. rank \in [S -> Nat] OBVIOUS
<1>2. \A w \in S : w \notin stop => Cutting(w) \in S /\ Len(Cutting(w)) < Len(w)
  <2> SUFFICES ASSUME NEW w \in S, Full(w, close) PROVE Cutting(w) \in S /\ Len(Cutting(w)) < Len(w)
    OBVIOUS
  <2>1. Cut(w) \in 1..Len(w) /\ Cutting(w) \in Seq(Word) /\ Len(Cutting(w)) = Len(w) - Cut(w) BY CutIs
  <2>2. Len(w) \in Nat OBVIOUS
  <2> QED BY <2>1, <2>2
<1>3. next \in [S -> S] BY <1>2
<1>4. \A w \in S : w \in stop => base[w] \in Lined BY DEF Lined
<1>5. \A w \in S : w \notin stop => rank[next[w]] < rank[w]
  <2> SUFFICES ASSUME NEW w \in S, w \notin stop PROVE rank[next[w]] < rank[w]
    OBVIOUS
  <2>1. rank[w] = Len(w) /\ next[w] = Cutting(w) OBVIOUS
  <2>2. Cutting(w) \in S /\ Len(Cutting(w)) < Len(w) BY <1>2
  <2>3. rank[Cutting(w)] = Len(Cutting(w)) BY <2>2
  <2> QED BY <2>1, <2>2, <2>3
<1>6. \A w \in S : w \notin stop => \A a, b \in Lined :
         step[w][a][b] = <<SubSeq(w, 1, Cut(w))>> \o a /\ step[w][a][b] \in Lined
  <2> SUFFICES ASSUME NEW w \in S, Full(w, close), NEW a \in Lined, NEW b \in Lined
               PROVE step[w][a][b] = <<SubSeq(w, 1, Cut(w))>> \o a /\ step[w][a][b] \in Lined
    OBVIOUS
  <2>1. step[w][a][b] = <<SubSeq(w, 1, Cut(w))>> \o a OBVIOUS
  <2>2. SubSeq(w, 1, Cut(w)) \in Seq(Word) BY CutIs
  <2> HIDE DEF step
  <2> QED BY <2>1, <2>2 DEF Lined
<1>7. \E f : Unfolds(f, S, Lined, stop, base, step, next, next)
  <2>1. \A w \in S : w \notin stop => \A a, b \in Lined : step[w][a][b] \in Lined BY <1>6
  <2> HIDE DEF S, stop, rank, next, base, step
  <2> QED BY <1>1, <1>3, <1>4, <1>5, <2>1, Recursion
<1>8. PICK f : Unfolds(f, S, Lined, stop, base, step, next, next) BY <1>7
<1>9. f \in [S -> Lined] BY <1>8 DEF Unfolds
<1>10. \A w \in S :
         f[w] = IF Full(w, close) THEN <<SubSeq(w, 1, Cut(w))>> \o f[Cutting(w)] ELSE <<>>
  <2> TAKE w \in S
  <2>1. CASE ~Full(w, close) BY <1>8, <2>1 DEF Unfolds
  <2>2. CASE Full(w, close)
    <3>1. f[w] = step[w][f[next[w]]][f[next[w]]] BY <1>8, <2>2 DEF Unfolds
    <3>2. next[w] = Cutting(w) /\ Cutting(w) \in S BY <1>2, <2>2
    <3>3. f[Cutting(w)] \in Lined BY <1>9, <3>2
    <3>4. w \notin stop BY <2>2
    <3> HIDE DEF step, next, S
    <3>5. step[w][f[Cutting(w)]][f[Cutting(w)]] = <<SubSeq(w, 1, Cut(w))>> \o f[Cutting(w)]
      BY <1>6, <3>3, <3>4
    <3> QED BY <2>2, <3>1, <3>2, <3>5
  <2> QED BY <2>1, <2>2
<1>11. f = body(f) BY <1>9, <1>10
<1>12. lines = body(lines) BY <1>11
<1>13. \A w : Lines(w, close) = lines[w] BY DEF Lines, Full, Wide, Cut, Cutting
<1> HIDE DEF lines
<1>14. \A w \in S :
         lines[w] = IF Full(w, close) THEN <<SubSeq(w, 1, Cut(w))>> \o lines[Cutting(w)] ELSE <<>>
  BY <1>12
<1> QED BY <1>13, <1>14

(***************************************************************************)
(* Cutting words off and then cutting the rest is cutting once.            *)
(***************************************************************************)
LEMMA CutAgain ==
  ASSUME NEW S, NEW w \in Seq(S), NEW c \in 0..Len(w), NEW m \in 0..(Len(w) - c)
  PROVE  /\ SubSeq(w, 1, c) \o SubSeq(SubSeq(w, c + 1, Len(w)), 1, m) = SubSeq(w, 1, c + m)
         /\ SubSeq(SubSeq(w, c + 1, Len(w)), m + 1, Len(w) - c) = SubSeq(w, c + m + 1, Len(w))
<1> DEFINE v == SubSeq(w, c + 1, Len(w))
<1>1. Len(w) \in Nat /\ c \in Nat /\ c <= Len(w) /\ m \in Nat /\ c + m <= Len(w) /\ c + m \in Nat OBVIOUS
<1>2. v \in Seq(S) /\ Len(v) = Len(w) - c /\ \A i \in 1..(Len(w) - c) : v[i] = w[c + i] BY <1>1
<1> HIDE DEF v
<1>3. SubSeq(w, 1, c) \o SubSeq(v, 1, m) = SubSeq(w, 1, c + m)
  <2>1. SubSeq(w, 1, c) \in Seq(S) /\ Len(SubSeq(w, 1, c)) = c
        /\ \A i \in 1..c : SubSeq(w, 1, c)[i] = w[i] BY <1>1
  <2>2. SubSeq(v, 1, m) \in Seq(S) /\ Len(SubSeq(v, 1, m)) = m
        /\ \A i \in 1..m : SubSeq(v, 1, m)[i] = w[c + i] BY <1>1, <1>2
  <2>3. SubSeq(w, 1, c + m) \in Seq(S) /\ Len(SubSeq(w, 1, c + m)) = c + m
        /\ \A i \in 1..(c + m) : SubSeq(w, 1, c + m)[i] = w[i] BY <1>1
  <2> DEFINE a == SubSeq(w, 1, c)
             b == SubSeq(v, 1, m)
             e == SubSeq(w, 1, c + m)
  <2> HIDE DEF a, b, e
  <2>4. a \o b \in Seq(S) /\ Len(a \o b) = Len(e) /\ e \in Seq(S) BY <1>1, <2>1, <2>2, <2>3 DEF a, b, e
  <2>5. \A i \in 1..Len(a \o b) : (a \o b)[i] = e[i]
    <3> TAKE i \in 1..Len(a \o b)
    <3>1. i \in 1..(c + m) BY <2>3, <2>4 DEF e
    <3>2. e[i] = w[i] BY <2>3, <3>1 DEF e
    <3>3. CASE i <= c
      <4>1. (a \o b)[i] = a[i] BY <1>1, <2>1, <2>2, <3>1, <3>3 DEF a, b
      <4>2. a[i] = w[i] BY <1>1, <2>1, <3>1, <3>3 DEF a
      <4> QED BY <3>2, <4>1, <4>2
    <3>4. CASE i > c
      <4>1. (a \o b)[i] = b[i - c] BY <1>1, <2>1, <2>2, <3>1, <3>4 DEF a, b
      <4>2. i - c \in 1..m BY <1>1, <3>1, <3>4
      <4>3. b[i - c] = w[c + (i - c)] BY <2>2, <4>2 DEF b
      <4>4. c + (i - c) = i BY <1>1, <3>1
      <4> QED BY <3>2, <4>1, <4>3, <4>4
    <3> QED BY <1>1, <3>1, <3>3, <3>4
  <2>6. a \o b = e BY <2>4, <2>5, SeqEqual
  <2> QED BY <2>6 DEF a, b, e
<1>4. SubSeq(v, m + 1, Len(w) - c) = SubSeq(w, c + m + 1, Len(w))
  <2> DEFINE n == Len(w) - c - m
             a == SubSeq(v, m + 1, Len(w) - c)
             b == SubSeq(w, c + m + 1, Len(w))
  <2>1. n \in Nat BY <1>1
  <2>2. a \in Seq(S) /\ Len(a) = n /\ \A i \in 1..n : a[i] = v[m + i] BY <1>1, <1>2
  <2>3. b \in Seq(S) /\ Len(b) = n /\ \A i \in 1..n : b[i] = w[c + m + i]
    <3> DEFINE k == c + m
    <3>1. k \in Nat /\ k <= Len(w) /\ Len(w) \in Nat /\ n = Len(w) - k BY <1>1
    <3> HIDE DEF k
    <3>2. /\ SubSeq(w, k + 1, Len(w)) \in Seq(S) /\ Len(SubSeq(w, k + 1, Len(w))) = Len(w) - k
          /\ \A i \in 1..(Len(w) - k) : SubSeq(w, k + 1, Len(w))[i] = w[k + i]
      BY <3>1, SMTT(20)
    <3> QED BY <3>1, <3>2 DEF k
  <2>4. \A i \in 1..n : m + i \in 1..(Len(w) - c) /\ c + (m + i) = c + m + i BY <1>1
  <2>5. \A i \in 1..n : v[m + i] = w[c + m + i] BY <1>2, <2>4
  <2> HIDE DEF a, b, n
  <2>6. a = b BY <2>1, <2>2, <2>3, <2>5, SeqEqual
  <2> QED BY <2>6 DEF a, b
<1> QED BY <1>3, <1>4 DEF v

(***************************************************************************)
(* The lines made of some words are their first words in order, each line  *)
(* fits, and so do the words left over.                                    *)
(***************************************************************************)
LinesAre(w, close) ==
  LET L == Lines(w, close)
      n == Len(FlattenSeq(L))
  IN  /\ L \in Lined
      /\ n \in 0..Len(w) /\ FlattenSeq(L) = SubSeq(w, 1, n)
      /\ \A i \in 1..Len(L) : Fits(L[i])
      /\ Chars(SubSeq(w, n + 1, Len(w))) <= LINE_MAX

(***************************************************************************)
(* So it is for every sequence of words, by induction on its length.       *)
(***************************************************************************)
LEMMA LinesLaw ==
  ASSUME NEW close \in BOOLEAN, NEW word \in Seq(Word)
  PROVE  LinesAre(word, close)
<1> DEFINE T == {k \in Nat : \E w \in Seq(Word) : Len(w) = k /\ ~LinesAre(w, close)}
<1> SUFFICES ASSUME ~LinesAre(word, close) PROVE FALSE
  OBVIOUS
<1>1. Len(word) \in T OBVIOUS
<1>2. PICK k \in T : \A j \in T : k <= j BY <1>1, LeastNumber
<1>3. PICK w \in Seq(Word) : Len(w) = k /\ ~LinesAre(w, close) OBVIOUS
<1>4. \A v \in Seq(Word) : Len(v) < Len(w) => LinesAre(v, close)
  <2> SUFFICES ASSUME NEW v \in Seq(Word), Len(v) < Len(w), ~LinesAre(v, close) PROVE FALSE
    OBVIOUS
  <2>1. Len(v) \in T OBVIOUS
  <2>2. k <= Len(v) /\ Len(v) \in Nat /\ k \in Nat BY <1>2, <2>1
  <2> QED BY <1>3, <2>2
<1> HIDE DEF T
<1> DEFINE L == Lines(w, close)
<1>5. L = IF Full(w, close) THEN <<SubSeq(w, 1, Cut(w))>> \o Lines(Cutting(w), close) ELSE <<>>
  BY LinesUnfold
<1>6. Len(w) \in Nat /\ Chars(w) \in Int /\ LINE_MAX \in Int BY CharsIs DEF LINE_MAX
<1>7. CASE ~Full(w, close)
  <2>1. L = <<>> BY <1>5, <1>7
  <2>2. FlattenSeq(<<>>) = <<>>
    <3>1. <<>> \in Seq(Seq(Word)) OBVIOUS
    <3> QED BY <3>1, FlattenType
  <2> DEFINE n == Len(FlattenSeq(L))
  <2>3. n = 0 /\ FlattenSeq(L) = SubSeq(w, 1, n)
    <3>1. SubSeq(w, 1, 0) = <<>> BY SubSeqEmpty
    <3>2. FlattenSeq(L) = <<>> BY <2>1, <2>2
    <3> HIDE DEF L
    <3> QED BY <3>1, <3>2
  <2>4. SubSeq(w, n + 1, Len(w)) = w BY <2>3, SubSeqFull
  <2>5. Chars(w) <= LINE_MAX BY <1>6, <1>7 DEF Full, Wide
  <2>6. L \in Lined /\ \A i \in 1..Len(L) : Fits(L[i]) BY <2>1 DEF Lined
  <2>7. n \in 0..Len(w) BY <1>6, <2>3
  <2>8. Chars(SubSeq(w, n + 1, Len(w))) <= LINE_MAX BY <2>4, <2>5
  <2> QED BY <1>3, <2>3, <2>6, <2>7, <2>8, Zenon DEF LinesAre
<1>8. CASE Full(w, close)
  <2> DEFINE l == SubSeq(w, 1, Cut(w))
             v == Cutting(w)
             M == Lines(v, close)
             m == Len(FlattenSeq(M))
             c == Cut(w)
  <2>1. /\ c \in 1..Len(w) /\ Fits(l) /\ l \in Seq(Word) /\ Len(l) = c
        /\ v \in Seq(Word) /\ Len(v) = Len(w) - c BY <1>8, CutIs
  <2>2. Len(v) < Len(w) BY <1>6, <2>1
  <2>3. LinesAre(v, close) BY <1>4, <2>1, <2>2
  <2>4. /\ M \in Lined /\ m \in 0..Len(v) /\ FlattenSeq(M) = SubSeq(v, 1, m)
        /\ \A i \in 1..Len(M) : Fits(M[i])
        /\ Chars(SubSeq(v, m + 1, Len(v))) <= LINE_MAX BY <2>3 DEF LinesAre
  <2>5. L = <<l>> \o M BY <1>5, <1>8
  <2>6. v = SubSeq(w, c + 1, Len(w)) BY DEF Cutting
  <2> HIDE DEF L, l, v, M, c
  <2>7. L \in Lined /\ \A i \in 1..Len(L) : Fits(L[i])
    <3>1. <<l>> \in Seq(Seq(Word)) /\ M \in Seq(Seq(Word)) BY <2>1, <2>4 DEF Lined
    <3>2. Len(L) = 1 + Len(M) /\ L \in Seq(Seq(Word)) /\ Len(M) \in Nat BY <2>5, <3>1
    <3>3. \A i \in 1..Len(L) : L[i] = IF i = 1 THEN l ELSE M[i - 1] BY <2>5, <3>1, <3>2
    <3>4. \A i \in 1..Len(L) : i # 1 => i - 1 \in 1..Len(M) BY <3>2
    <3> QED BY <2>1, <2>4, <3>2, <3>3, <3>4 DEF Lined
  <2>8. FlattenSeq(L) = SubSeq(w, 1, c + m)
    <3>1. <<l>> \in Seq(Seq(Word)) /\ M \in Seq(Seq(Word)) BY <2>1, <2>4 DEF Lined
    <3>2. FlattenSeq(L) = FlattenSeq(<<l>>) \o FlattenSeq(M) BY <2>5, <3>1, FlattenConcat
    <3>3. FlattenSeq(<<l>>) = l BY <2>1, FlattenOne
    <3>4. SubSeq(w, 1, c) \o SubSeq(v, 1, m) = SubSeq(w, 1, c + m)
      <4>1. w \in Seq(Word) /\ c \in 0..Len(w) /\ m \in 0..(Len(w) - c) BY <1>6, <2>1, <2>4
      <4>2. SubSeq(w, 1, c) \o SubSeq(SubSeq(w, c + 1, Len(w)), 1, m) = SubSeq(w, 1, c + m)
        BY <4>1, CutAgain
      <4> QED BY <2>6, <4>2
    <3>5. l = SubSeq(w, 1, c) BY DEF l, c
    <3> QED BY <2>4, <3>2, <3>3, <3>4, <3>5
  <2>9. c + m \in 0..Len(w) /\ c \in 0..Len(w) /\ m \in 0..(Len(w) - c) BY <1>6, <2>1, <2>4
  <2>10. Len(FlattenSeq(L)) = c + m BY <1>6, <2>8, <2>9
  <2>11. SubSeq(v, m + 1, Len(v)) = SubSeq(w, c + m + 1, Len(w)) BY <2>1, <2>6, <2>9, CutAgain
  <2> QED BY <1>3, <2>4, <2>7, <2>8, <2>9, <2>10, <2>11 DEF LinesAre, L
<1> QED BY <1>7, <1>8

(***************************************************************************)
(* The states of the adapter.                                              *)
(***************************************************************************)
Adapter ==
  [utt : Seq(Word), promoted : Nat, start : Nat \cup {NoTime}, shown : Seq(Word), flushed : BOOLEAN]

(***************************************************************************)
(* An adapter that has promoted only words it has.                         *)
(***************************************************************************)
Kept(a) == a \in Adapter /\ a.promoted <= Len(a.utt)

(***************************************************************************)
(* What _rollup promises: the words it finishes and the words it leaves    *)
(* are the words that were pending, in order.                              *)
(***************************************************************************)
RollsUp(a, close, end, r) ==
  /\ Kept(r.adapter) /\ r.adapter.utt = a.utt /\ r.adapter.flushed = a.flushed
  /\ r.adapter.start \in {a.start, end}
  /\ r.finals \in Lined
  /\ FlattenSeq(r.finals) \o Pending(r.adapter) = Pending(a)
  /\ close => Pending(r.adapter) = <<>>
  /\ \A i \in 1..Len(r.finals) : Fits(r.finals[i])
  /\ Fits(Pending(r.adapter))
  /\ a.shown = <<>> => r.partial = Pending(r.adapter)

(***************************************************************************)
(* A sequence is its two parts.                                            *)
(***************************************************************************)
LEMMA TwoParts ==
  ASSUME NEW S, NEW s \in Seq(S), NEW k \in 0..Len(s)
  PROVE  SubSeq(s, 1, k) \o SubSeq(s, k + 1, Len(s)) = s
<1>1. 1 \in 1..(Len(s) + 1) /\ k \in (1 - 1)..Len(s) /\ Len(s) \in k..Len(s) OBVIOUS
<1>2. SubSeq(s, 1, k) \o SubSeq(s, k + 1, Len(s)) = SubSeq(s, 1, Len(s)) BY <1>1, ConcatAdjacentSubSeq
<1> QED BY <1>2, SubSeqFull

(***************************************************************************)
(* The hypotheses looked at are sequences of words.                        *)
(***************************************************************************)
LEMMA HypothesesAre ==
  ASSUME NEW n \in Nat, NEW h \in Hypotheses(n)
  PROVE  h \in Seq(Word) /\ Len(h) <= n
<1>1. PICK k \in 0..n : h \in [1..k -> Word] BY DEF Hypotheses
<1>2. k \in Nat OBVIOUS
<1> QED BY <1>1, <1>2

(***************************************************************************)
(* The pending words are the words after the promoted ones.                *)
(***************************************************************************)
LEMMA PendingIs ==
  ASSUME NEW a, Kept(a)
  PROVE  /\ Pending(a) \in Seq(Word) /\ Len(Pending(a)) = Len(a.utt) - a.promoted
         /\ Len(a.utt) \in Nat /\ a.promoted \in 0..Len(a.utt)
<1>1. a.utt \in Seq(Word) /\ a.promoted \in Nat /\ a.promoted <= Len(a.utt) BY DEF Kept, Adapter
<1> DEFINE u == a.utt
           n == a.promoted
<1>2. Len(u) \in Nat /\ n \in 0..Len(u) BY <1>1
<1>3. u \in Seq(Word) BY <1>1
<1> HIDE DEF u, n
<1>4. SubSeq(u, n + 1, Len(u)) \in Seq(Word) /\ Len(SubSeq(u, n + 1, Len(u))) = Len(u) - n
  BY <1>2, <1>3
<1> QED BY <1>2, <1>4 DEF Pending, u, n

(***************************************************************************)
(* A new adapter.                                                          *)
(***************************************************************************)
LEMMA NewAdapterIs ==
  /\ NewAdapter \in Adapter /\ NewAdapter.utt = <<>> /\ NewAdapter.promoted = 0
  /\ NewAdapter.start = NoTime /\ NewAdapter.shown = <<>> /\ ~NewAdapter.flushed
<1>1. <<>> \in Seq(Word) OBVIOUS
<1> QED BY <1>1 DEF NewAdapter, Adapter

(***************************************************************************)
(* No words fit.                                                           *)
(***************************************************************************)
LEMMA NothingFits == Fits(<<>>)
<1>1. <<>> \in Seq(Word) OBVIOUS
<1>2. Chars(<<>>) = -1 BY <1>1, CharsIs
<1> QED BY <1>2 DEF Fits, LINE_MAX

(***************************************************************************)
(* _rollup keeps its promise.                                              *)
(***************************************************************************)
LEMMA RollupIs ==
  ASSUME NEW a, Kept(a), NEW close \in BOOLEAN, NEW end \in Nat
  PROVE  RollsUp(a, close, end, Rollup(a, close, end))
<1> DEFINE P == Pending(a)
           L == Lines(P, close)
           n == Len(FlattenSeq(L))
           N == Len(a.utt)
           pr == a.promoted
           rest == SubSeq(a.utt, pr + n + 1, N)
           r == Rollup(a, close, end)
<1>1. P \in Seq(Word) /\ Len(P) = N - pr /\ N \in Nat /\ pr \in 0..N BY PendingIs
<1>2. P = SubSeq(a.utt, pr + 1, N) BY DEF Pending
<1>3. LinesAre(P, close) BY <1>1, LinesLaw
<1>4. /\ L \in Lined /\ n \in 0..Len(P) /\ FlattenSeq(L) = SubSeq(P, 1, n)
      /\ \A i \in 1..Len(L) : Fits(L[i])
      /\ Chars(SubSeq(P, n + 1, Len(P))) <= LINE_MAX
  BY <1>3 DEF LinesAre
<1>5. a \in Adapter /\ a.utt \in Seq(Word) /\ a.promoted \in Nat BY DEF Kept, Adapter
<1>6. r = Rolled(a, L, rest, close, end) BY DEF Rollup, Split
<1> HIDE DEF r, L, n
<1>7. n \in 0..(N - pr) /\ n \in Nat BY <1>1, <1>4
<1>8. SubSeq(P, n + 1, Len(P)) = rest
  <2> HIDE DEF P, N, pr, rest
  <2>1. \A m \in 0..(Len(a.utt) - pr) :
          SubSeq(SubSeq(a.utt, pr + 1, Len(a.utt)), m + 1, Len(a.utt) - pr) = SubSeq(a.utt, pr + m + 1, Len(a.utt))
    BY <1>1, <1>5, CutAgain DEF N
  <2> QED BY <1>1, <1>2, <1>7, <2>1 DEF N, rest
<1>9. FlattenSeq(L) \o rest = P
  <2> HIDE DEF P
  <2>1. n \in 0..Len(P) /\ Len(P) \in Nat BY <1>1, <1>4
  <2>2. SubSeq(P, 1, n) \o SubSeq(P, n + 1, Len(P)) = P BY <1>1, <2>1, TwoParts
  <2> QED BY <1>4, <1>8, <2>2
<1>10. rest \in Seq(Word) /\ Len(rest) = N - pr - n /\ Chars(rest) <= LINE_MAX
  <2> HIDE DEF P, rest
  <2>1. SubSeq(P, n + 1, Len(P)) \in Seq(Word) /\ Len(SubSeq(P, n + 1, Len(P))) = Len(P) - n
    BY <1>1, <1>4
  <2> QED BY <1>1, <1>4, <1>7, <1>8, <2>1
<1>11. FlattenSeq(L) \in Seq(Word) BY <1>4, FlattenType DEF Lined
<1> HIDE DEF P, N, pr
<1>12. CASE rest # <<>> /\ close
  <2>1. r = [adapter |-> [a EXCEPT !.promoted = Len(a.utt), !.start = IF L = <<>> THEN a.start ELSE end, !.shown = <<>>],
             finals |-> Append(L, rest), partial |-> <<>>]
    BY <1>6, <1>12 DEF Rolled
  <2> HIDE DEF rest
  <2>2. /\ r.adapter.utt = a.utt /\ r.adapter.flushed = a.flushed /\ r.adapter.promoted = Len(a.utt)
        /\ r.adapter.start \in {a.start, end} /\ r.finals = Append(L, rest) /\ r.partial = <<>>
    BY <1>5, <2>1 DEF Adapter
  <2>21. r.adapter \in Adapter
    <3>1. Len(a.utt) \in Nat /\ <<>> \in Seq(Word) BY <1>1 DEF N
    <3> QED BY <1>5, <2>1, <3>1 DEF Adapter
  <2>3. Pending(r.adapter) = <<>>
    <3>1. Len(a.utt) \in Nat BY <1>1 DEF N
    <3>2. SubSeq(a.utt, Len(a.utt) + 1, Len(a.utt)) = <<>> BY <3>1, SubSeqEmpty
    <3> QED BY <2>2, <3>2 DEF Pending
  <2>4. FlattenSeq(r.finals) = FlattenSeq(L) \o rest BY <1>4, <1>10, <2>2, FlattenAppend DEF Lined
  <2>5. FlattenSeq(r.finals) \o Pending(r.adapter) = Pending(a)
    <3>1. P \o <<>> = P BY <1>1, ConcatEmptySeq
    <3> QED BY <1>9, <2>3, <2>4, <3>1 DEF P
  <2>6. r.finals \in Lined /\ \A i \in 1..Len(r.finals) : Fits(r.finals[i])
    <3>1. Fits(rest) BY <1>10 DEF Fits
    <3>2. L \in Seq(Seq(Word)) BY <1>4 DEF Lined
    <3> QED BY <1>4, <1>10, <2>2, <3>1, <3>2, AppendProperties DEF Lined
  <2>7. Kept(r.adapter) BY <1>1, <2>2, <2>21 DEF Kept, N
  <2> QED BY <2>2, <2>3, <2>5, <2>6, <2>7, NothingFits DEF RollsUp, r
<1>13. CASE ~(rest # <<>> /\ close)
  <2> DEFINE shown == IF L = <<>> THEN a.shown ELSE <<>>
  <2>1. r = [adapter |-> [a EXCEPT !.promoted = Len(a.utt) - Len(rest), !.start = IF L = <<>> THEN a.start ELSE end,
                                   !.shown = IF rest = <<>> THEN shown ELSE rest],
             finals |-> L, partial |-> IF rest = shown THEN <<>> ELSE rest]
    BY <1>6, <1>13 DEF Rolled
  <2>2. shown \in Seq(Word) /\ (a.shown = <<>> => shown = <<>>) BY <1>5 DEF Adapter
  <2> DEFINE q == Len(a.utt) - Len(rest)
  <2> HIDE DEF rest, shown
  <2>3. q = pr + n /\ q \in Nat /\ q <= Len(a.utt)
    <3>1. q = N - Len(rest) /\ Len(a.utt) = N BY DEF N
    <3> HIDE DEF q
    <3> QED BY <1>1, <1>7, <1>10, <3>1
  <2> HIDE DEF q
  <2>4. /\ r.adapter.utt = a.utt /\ r.adapter.flushed = a.flushed /\ r.adapter.promoted = q
        /\ r.adapter.start \in {a.start, end} /\ r.finals = L
        /\ r.partial = IF rest = shown THEN <<>> ELSE rest
    BY <1>5, <2>1 DEF Adapter, q
  <2>5. r.adapter \in Adapter
    BY <1>5, <1>10, <2>1, <2>2, <2>3 DEF Adapter, q
  <2>6. Pending(r.adapter) = rest BY <2>3, <2>4 DEF Pending, rest, N
  <2>7. Kept(r.adapter) BY <2>3, <2>4, <2>5 DEF Kept
  <2>8. Fits(rest) BY <1>10 DEF Fits
  <2>9. FlattenSeq(r.finals) \o Pending(r.adapter) = Pending(a) BY <1>9, <2>4, <2>6 DEF P
  <2>10. a.shown = <<>> => r.partial = rest BY <2>2, <2>4
  <2>11. r.finals \in Lined /\ \A i \in 1..Len(r.finals) : Fits(r.finals[i]) BY <1>4, <2>4
  <2> QED BY <1>13, <2>4, <2>6, <2>7, <2>8, <2>9, <2>10, <2>11 DEF RollsUp, r
<1> QED BY <1>12, <1>13

(***************************************************************************)
(* What _rollup sends of a hypothesis is its unsent words in order, in     *)
(* lines that fit unless they are one word (_rollup and take_line_words of *)
(* nemotron.py), whatever the words, their widths and the ends of          *)
(* sentences.                                                              *)
(***************************************************************************)
THEOREM LinesAreWhole == LinesWhole
<1> SUFFICES ASSUME NEW utt \in Hypotheses(4), NEW promoted \in 0..Len(utt), NEW close \in BOOLEAN
             PROVE LET a == [NewAdapter EXCEPT !.utt = utt, !.promoted = promoted]
                       r == Rollup(a, close, 0)
                   IN  /\ FlattenSeq(r.finals) \o r.partial = Pending(a)
                       /\ Pending(r.adapter) = r.partial
                       /\ \A l \in ToSet(r.finals) \cup {r.partial} : Chars(l) <= LINE_MAX \/ Len(l) = 1
  BY Zenon DEF LinesWhole
<1> DEFINE a == [NewAdapter EXCEPT !.utt = utt, !.promoted = promoted]
           r == Rollup(a, close, 0)
<1>1. utt \in Seq(Word) BY HypothesesAre
<1>2. Len(utt) \in Nat /\ promoted \in Nat /\ promoted <= Len(utt) BY <1>1
<1>3. a \in Adapter BY <1>1, <1>2, NewAdapterIs DEF Adapter
<1>31. a.shown = <<>> /\ a.utt = utt /\ a.promoted = promoted BY DEF NewAdapter
<1> HIDE DEF a
<1>4. Kept(a) /\ a.shown = <<>> BY <1>2, <1>3, <1>31 DEF Kept
<1>5. 0 \in Nat OBVIOUS
<1>6. RollsUp(a, close, 0, r) BY <1>4, <1>5, RollupIs
<1> HIDE DEF r
<1>7. Fits(r.partial) /\ r.partial = Pending(r.adapter) BY <1>4, <1>6 DEF RollsUp
<1>8. FlattenSeq(r.finals) \o r.partial = Pending(a) BY <1>6, <1>7 DEF RollsUp
<1>9. \A l \in ToSet(r.finals) : Fits(l)
  <2>1. r.finals \in Seq(Seq(Word)) /\ \A i \in 1..Len(r.finals) : Fits(r.finals[i]) BY <1>6 DEF RollsUp, Lined
  <2> TAKE l \in ToSet(r.finals)
  <2>2. PICK i \in DOMAIN r.finals : l = r.finals[i] BY DEF ToSet
  <2>3. i \in 1..Len(r.finals) BY <2>1, <2>2
  <2> QED BY <2>1, <2>2, <2>3
<1>10. \A l \in ToSet(r.finals) \cup {r.partial} : Chars(l) <= LINE_MAX \/ Len(l) = 1 BY <1>7, <1>9 DEF Fits
<1> QED BY <1>7, <1>8, <1>10, Zenon DEF a, r

-----------------------------------------------------------------------------
(* The alignment of two hypotheses (difflib.SequenceMatcher). *)

(***************************************************************************)
(* The positions of words that correspond.                                 *)
(***************************************************************************)
PAIRS == Int \X Int

(***************************************************************************)
(* A block of the alignment lies within the two hypotheses, and may be     *)
(* empty.                                                                  *)
(***************************************************************************)
LEMMA BlockIs ==
  ASSUME NEW p \in Seq(Word), NEW q \in Seq(Word), NEW b \in Blocks(p, q)
  PROVE  /\ b.i0 \in Int /\ b.i1 \in Int /\ b.j0 \in Int /\ b.j1 \in Int
         /\ 1 <= b.i0 /\ b.i0 <= Len(p) + 1 /\ 0 <= b.i1 /\ b.i1 <= Len(p)
         /\ 1 <= b.j0 /\ b.j0 <= Len(q) + 1 /\ 0 <= b.j1 /\ b.j1 <= Len(q)
         /\ Len(p) \in Nat /\ Len(q) \in Nat
<1>1. Len(p) \in Nat /\ Len(q) \in Nat OBVIOUS
<1> QED BY <1>1 DEF Blocks

(***************************************************************************)
(* A common run lies within its block.                                     *)
(***************************************************************************)
LEMMA RunIs ==
  ASSUME NEW p \in Seq(Word), NEW q \in Seq(Word), NEW b \in Blocks(p, q), NEW r \in Runs(p, q, b)
  PROVE  /\ r[1] \in Int /\ r[2] \in Int /\ r[3] \in Int /\ r = <<r[1], r[2], r[3]>>
         /\ b.i0 <= r[1] /\ b.j0 <= r[2] /\ 1 <= r[3] /\ r[3] <= Len(p)
         /\ r[1] + r[3] <= b.i1 + 1 /\ r[2] + r[3] <= b.j1 + 1
<1>1. /\ b.i0 \in Int /\ b.i1 \in Int /\ b.j0 \in Int /\ b.j1 \in Int /\ Len(p) \in Nat BY BlockIs
<1> DEFINE i0 == b.i0
           i1 == b.i1
           j0 == b.j0
           j1 == b.j1
<1>2. r \in (i0..i1) \X (j0..j1) \X (1..Len(p)) /\ r[1] + r[3] <= i1 + 1 /\ r[2] + r[3] <= j1 + 1
  BY DEF Runs
<1> HIDE DEF i0, i1, j0, j1
<1>3. r[1] \in i0..i1 /\ r[2] \in j0..j1 /\ r[3] \in 1..Len(p) /\ r = <<r[1], r[2], r[3]>> BY <1>2
<1>4. i0 \in Int /\ i1 \in Int /\ j0 \in Int /\ j1 \in Int BY <1>1 DEF i0, i1, j0, j1
<1>5. /\ r[1] \in Int /\ r[2] \in Int /\ r[3] \in Int
      /\ i0 <= r[1] /\ j0 <= r[2] /\ 1 <= r[3] /\ r[3] <= Len(p) BY <1>1, <1>3, <1>4
<1> QED BY <1>2, <1>3, <1>5 DEF i0, i1, j0, j1

(***************************************************************************)
(* The blocks to both sides of a run.                                      *)
(***************************************************************************)
LEMMA SidesAre ==
  ASSUME NEW p \in Seq(Word), NEW q \in Seq(Word), NEW b \in Blocks(p, q), NEW r \in Runs(p, q, b)
  PROVE  /\ Left(b, r) \in Blocks(p, q) /\ Right(b, r) \in Blocks(p, q)
         /\ Left(b, r).i0 = b.i0 /\ Left(b, r).i1 = r[1] - 1
         /\ Left(b, r).j0 = b.j0 /\ Left(b, r).j1 = r[2] - 1
         /\ Right(b, r).i0 = r[1] + r[3] /\ Right(b, r).i1 = b.i1
         /\ Right(b, r).j0 = r[2] + r[3] /\ Right(b, r).j1 = b.j1
<1>1. r[1] - 1 \in 0..Len(p) /\ r[2] - 1 \in 0..Len(q)
      /\ r[1] + r[3] \in 1..(Len(p) + 1) /\ r[2] + r[3] \in 1..(Len(q) + 1)
  <2> DEFINE a == r[1]
             c == r[2]
             n == r[3]
             lp == Len(p)
             lq == Len(q)
             i0 == b.i0
             i1 == b.i1
             j0 == b.j0
             j1 == b.j1
  <2>1. /\ a \in Int /\ c \in Int /\ n \in Int /\ 1 <= n /\ i0 <= a /\ j0 <= c
        /\ a + n <= i1 + 1 /\ c + n <= j1 + 1 BY RunIs
  <2>2. /\ i0 \in Int /\ i1 \in Int /\ j0 \in Int /\ j1 \in Int /\ lp \in Int /\ lq \in Int
        /\ 1 <= i0 /\ i1 <= lp /\ 1 <= j0 /\ j1 <= lq BY BlockIs
  <2> HIDE DEF a, c, n, lp, lq, i0, i1, j0, j1
  <2>3. a - 1 \in 0..lp /\ c - 1 \in 0..lq /\ a + n \in 1..(lp + 1) /\ c + n \in 1..(lq + 1) BY <2>1, <2>2
  <2> QED BY <2>3 DEF a, c, n, lp, lq
<1>2. Left(b, r).i0 = b.i0 /\ Left(b, r).i1 = r[1] - 1 /\ Left(b, r).j0 = b.j0 /\ Left(b, r).j1 = r[2] - 1
  BY DEF Left, Blocks
<1>3. Right(b, r).i0 = r[1] + r[3] /\ Right(b, r).i1 = b.i1 /\ Right(b, r).j0 = r[2] + r[3] /\ Right(b, r).j1 = b.j1
  BY DEF Right, Blocks
<1>7. Left(b, r) \in Blocks(p, q) BY <1>1 DEF Blocks, Left
<1>8. Right(b, r) \in Blocks(p, q) BY <1>1 DEF Blocks, Right
<1> QED BY <1>2, <1>3, <1>7, <1>8

(***************************************************************************)
(* The longest common run, the first such, is one.                         *)
(***************************************************************************)
LEMMA FirstIs ==
  ASSUME NEW p \in Seq(Word), NEW q \in Seq(Word), NEW b \in Blocks(p, q),
         NEW r \in First(Runs(p, q, b)), NEW s \in First(Runs(p, q, b))
  PROVE  r = s
<1>1. r \in Runs(p, q, b) /\ s \in Runs(p, q, b) BY DEF First
<1>2. Before(r, s) /\ Before(s, r) BY <1>1 DEF First
<1>3. r[1] \in Int /\ r[2] \in Int /\ r[3] \in Int /\ r = <<r[1], r[2], r[3]>> BY <1>1, RunIs
<1>4. s[1] \in Int /\ s[2] \in Int /\ s[3] \in Int /\ s = <<s[1], s[2], s[3]>> BY <1>1, RunIs
<1>5. r[3] = s[3] BY <1>2, <1>3, <1>4 DEF Before
<1>6. r[1] = s[1] BY <1>2, <1>3, <1>4, <1>5 DEF Before
<1>7. r[2] = s[2] BY <1>2, <1>3, <1>4, <1>5, <1>6 DEF Before
<1> QED BY <1>3, <1>4, <1>5, <1>6, <1>7

(***************************************************************************)
(* The pairs of a run.                                                     *)
(***************************************************************************)
LEMMA AlignedIs ==
  ASSUME NEW p \in Seq(Word), NEW q \in Seq(Word), NEW b \in Blocks(p, q), NEW r \in Runs(p, q, b)
  PROVE  /\ Aligned(r) \subseteq PAIRS
         /\ \A m \in Aligned(r) : r[1] <= m[1] /\ m[1] < r[1] + r[3] /\ m[2] = m[1] + (r[2] - r[1])
<1>1. r[1] \in Int /\ r[2] \in Int /\ r[3] \in Int BY RunIs
<1> SUFFICES ASSUME NEW m \in Aligned(r)
             PROVE  m \in PAIRS /\ r[1] <= m[1] /\ m[1] < r[1] + r[3] /\ m[2] = m[1] + (r[2] - r[1])
  OBVIOUS
<1>2. PICK k \in 0..(r[3] - 1) : m = <<r[1] + k, r[2] + k>> BY DEF Aligned
<1> DEFINE a == r[1]
           c == r[2]
           n == r[3]
<1>3. a \in Int /\ c \in Int /\ n \in Int /\ m = <<a + k, c + k>> /\ k \in 0..(n - 1) BY <1>1, <1>2
<1> HIDE DEF a, c, n
<1>4. k \in Int /\ 0 <= k /\ k < n BY <1>3
<1>5. m \in PAIRS /\ a <= m[1] /\ m[1] < a + n /\ m[2] = m[1] + (c - a) BY <1>3, <1>4 DEF PAIRS
<1> QED BY <1>5 DEF a, c, n

(***************************************************************************)
(* What the alignment of difflib computes, one block at a time.            *)
(***************************************************************************)
MatchedBy(M, p, q) ==
  /\ M \in [Blocks(p, q) -> SUBSET PAIRS]
  /\ Matches(p, q) = M[[i0 |-> 1, i1 |-> Len(p), j0 |-> 1, j1 |-> Len(q)]]
  /\ \A b \in Blocks(p, q) :
       /\ First(Runs(p, q, b)) = {} => M[b] = {}
       /\ \A r \in First(Runs(p, q, b)) : M[b] = Aligned(r) \cup M[Left(b, r)] \cup M[Right(b, r)]

(***************************************************************************)
(* The alignment has such a computation: the blocks to both sides of a run *)
(* are smaller.                                                            *)
(***************************************************************************)
LEMMA MatchIs ==
  ASSUME NEW p \in Seq(Word), NEW q \in Seq(Word)
  PROVE  \E M : MatchedBy(M, p, q)
<1> DEFINE S == Blocks(p, q)
           R == SUBSET PAIRS
           first(b) == First(Runs(p, q, b))
           pick(b) == CHOOSE r \in first(b) : TRUE
           stop == {b \in S : first(b) = {}}
           rank == [b \in S |-> b.i1 + (Len(p) + 1 - b.i0)]
           left == [b \in S |-> IF b \in stop THEN b ELSE Left(b, pick(b))]
           right == [b \in S |-> IF b \in stop THEN b ELSE Right(b, pick(b))]
           base == [b \in S |-> {}]
           step == [b \in S |-> [x \in R |-> [y \in R |-> Aligned(pick(b)) \cup x \cup y]]]
           body(f) == [b \in S |->
             UNION {Aligned(r) \cup f[Left(b, r)] \cup f[Right(b, r)] : r \in first(b)}]
           match == CHOOSE f : f = body(f)
<1>1. \A b \in S : b.i1 + (Len(p) + 1 - b.i0) \in Nat
  <2> TAKE b \in S
  <2> QED BY BlockIs
<1>2. rank \in [S -> Nat] BY <1>1
<1>3. \A b \in S : b \notin stop => pick(b) \in first(b) /\ pick(b) \in Runs(p, q, b)
  BY DEF First
<1>4. \A b \in S : b \notin stop =>
         /\ Left(b, pick(b)) \in S /\ Right(b, pick(b)) \in S
         /\ rank[Left(b, pick(b))] < rank[b] /\ rank[Right(b, pick(b))] < rank[b]
  <2> SUFFICES ASSUME NEW b \in S, b \notin stop
               PROVE /\ Left(b, pick(b)) \in S /\ Right(b, pick(b)) \in S
                     /\ rank[Left(b, pick(b))] < rank[b] /\ rank[Right(b, pick(b))] < rank[b]
    OBVIOUS
  <2> DEFINE r == pick(b)
  <2>1. r \in Runs(p, q, b) BY <1>3
  <2> HIDE DEF r
  <2>2. /\ Left(b, r) \in S /\ Left(b, r).i0 = b.i0 /\ Left(b, r).i1 = r[1] - 1
        /\ Right(b, r) \in S /\ Right(b, r).i0 = r[1] + r[3] /\ Right(b, r).i1 = b.i1
    BY <2>1, SidesAre
  <2>3. /\ rank[b] = b.i1 + (Len(p) + 1 - b.i0)
        /\ rank[Left(b, r)] = r[1] - 1 + (Len(p) + 1 - b.i0)
        /\ rank[Right(b, r)] = b.i1 + (Len(p) + 1 - (r[1] + r[3]))
    BY <2>2
  <2>4. /\ r[1] \in Int /\ r[3] \in Int /\ b.i0 <= r[1] /\ 1 <= r[3] /\ r[1] + r[3] <= b.i1 + 1
    BY <2>1, RunIs
  <2>5. b.i0 \in Int /\ b.i1 \in Int /\ Len(p) \in Int BY BlockIs
  <2> HIDE DEF S, rank, stop
  <2>6. rank[Left(b, r)] < rank[b] /\ rank[Right(b, r)] < rank[b]
    <3> DEFINE a == r[1]
               n == r[3]
               i0 == b.i0
               i1 == b.i1
               lp == Len(p)
               x == rank[b]
               y == rank[Left(b, r)]
               z == rank[Right(b, r)]
    <3>1. /\ x = i1 + (lp + 1 - i0) /\ y = a - 1 + (lp + 1 - i0) /\ z = i1 + (lp + 1 - (a + n))
          /\ a \in Int /\ n \in Int /\ i0 \in Int /\ i1 \in Int /\ lp \in Int
          /\ i0 <= a /\ 1 <= n /\ a + n <= i1 + 1
      BY <2>3, <2>4, <2>5
    <3> HIDE DEF a, n, i0, i1, lp, x, y, z
    <3>2. y < x /\ z < x BY <3>1
    <3> QED BY <3>2 DEF x, y, z
  <2> QED BY <2>2, <2>6 DEF r
<1>5. left \in [S -> S] /\ right \in [S -> S] BY <1>4
<1>6. \A b \in S : b \notin stop => rank[left[b]] < rank[b] /\ rank[right[b]] < rank[b]
  <2> SUFFICES ASSUME NEW b \in S, b \notin stop PROVE rank[left[b]] < rank[b] /\ rank[right[b]] < rank[b]
    OBVIOUS
  <2>1. left[b] = Left(b, pick(b)) /\ right[b] = Right(b, pick(b)) OBVIOUS
  <2> HIDE DEF left, right, rank, pick, stop
  <2> QED BY <1>4, <2>1
<1>7. \A b \in S : b \in stop => base[b] \in R OBVIOUS
<1>8. \A b \in S : b \notin stop => \A x, y \in R :
         step[b][x][y] = Aligned(pick(b)) \cup x \cup y /\ step[b][x][y] \in R
  <2> SUFFICES ASSUME NEW b \in S, b \notin stop, NEW x \in R, NEW y \in R
               PROVE step[b][x][y] = Aligned(pick(b)) \cup x \cup y /\ step[b][x][y] \in R
    OBVIOUS
  <2>1. step[b][x][y] = Aligned(pick(b)) \cup x \cup y OBVIOUS
  <2>2. Aligned(pick(b)) \subseteq PAIRS BY <1>3, AlignedIs
  <2> HIDE DEF step, pick
  <2> QED BY <2>1, <2>2
<1>9. \E f : Unfolds(f, S, R, stop, base, step, left, right)
  <2>1. \A b \in S : b \notin stop => \A x, y \in R : step[b][x][y] \in R BY <1>8
  <2> HIDE DEF S, R, stop, rank, left, right, base, step
  <2> QED BY <1>2, <1>5, <1>6, <1>7, <2>1, Recursion
<1>10. PICK f : Unfolds(f, S, R, stop, base, step, left, right) BY <1>9
<1>11. f \in [S -> R] BY <1>10 DEF Unfolds
<1>12. \A b \in S : b \in stop => f[b] = {} BY <1>10 DEF Unfolds
<1>13. \A b \in S : b \notin stop =>
          f[b] = Aligned(pick(b)) \cup f[Left(b, pick(b))] \cup f[Right(b, pick(b))]
  <2> SUFFICES ASSUME NEW b \in S, b \notin stop
               PROVE f[b] = Aligned(pick(b)) \cup f[Left(b, pick(b))] \cup f[Right(b, pick(b))]
    OBVIOUS
  <2>1. f[b] = step[b][f[left[b]]][f[right[b]]] BY <1>10 DEF Unfolds
  <2>2. left[b] = Left(b, pick(b)) /\ right[b] = Right(b, pick(b)) OBVIOUS
  <2>3. Left(b, pick(b)) \in S /\ Right(b, pick(b)) \in S BY <1>4
  <2> HIDE DEF S, R, stop, rank, left, right, base, step, pick
  <2>4. f[Left(b, pick(b))] \in R /\ f[Right(b, pick(b))] \in R BY <1>11, <2>3
  <2> QED BY <1>8, <2>1, <2>2, <2>4
<1>14. \A b \in S : \A r \in first(b) : b \notin stop /\ r = pick(b)
  <2> TAKE b \in S
  <2> TAKE r \in first(b)
  <2>1. b \notin stop OBVIOUS
  <2>2. pick(b) \in first(b) BY <1>3, <2>1
  <2> HIDE DEF pick
  <2> QED BY <2>1, <2>2, FirstIs
<1> HIDE DEF pick
<1>15. \A b \in S : f[b] = UNION {Aligned(r) \cup f[Left(b, r)] \cup f[Right(b, r)] : r \in first(b)}
  <2> TAKE b \in S
  <2> DEFINE U == UNION {Aligned(r) \cup f[Left(b, r)] \cup f[Right(b, r)] : r \in first(b)}
  <2>1. CASE b \in stop
    <3>1. first(b) = {} BY <2>1
    <3>2. U = {} BY <3>1
    <3> QED BY <1>12, <2>1, <3>2
  <2>2. CASE b \notin stop
    <3>1. first(b) = {pick(b)} BY <1>3, <1>14, <2>2
    <3>2. U = Aligned(pick(b)) \cup f[Left(b, pick(b))] \cup f[Right(b, pick(b))] BY <3>1
    <3> QED BY <1>13, <2>2, <3>2
  <2> QED BY <2>1, <2>2
<1>16. f = body(f) BY <1>11, <1>15
<1>17. match = body(match) BY <1>16
<1>18. Matches(p, q) = match[[i0 |-> 1, i1 |-> Len(p), j0 |-> 1, j1 |-> Len(q)]] BY DEF Matches
<1> HIDE DEF match
<1>19. \A b \in S : match[b] = UNION {Aligned(r) \cup match[Left(b, r)] \cup match[Right(b, r)] : r \in first(b)}
  BY <1>17
<1>20. \A b \in S : /\ first(b) = {} => match[b] = {}
                    /\ \A r \in first(b) : match[b] = Aligned(r) \cup match[Left(b, r)] \cup match[Right(b, r)]
  <2> TAKE b \in S
  <2>1. CASE first(b) = {}
    <3>1. match[b] = UNION {Aligned(r) \cup match[Left(b, r)] \cup match[Right(b, r)] : r \in {}} BY <1>19, <2>1
    <3> QED BY <2>1, <3>1
  <2>2. ASSUME NEW r \in first(b) PROVE match[b] = Aligned(r) \cup match[Left(b, r)] \cup match[Right(b, r)]
    <3>1. first(b) = {r}
      <4> HIDE DEF S, stop, first
      <4> QED BY <1>14, <2>2
    <3> QED BY <1>19, <3>1
  <2> QED BY <2>1, <2>2
<1>21. \A b \in S : match[b] = f[b]
  <2> DEFINE T == {n \in Nat : \E b \in S : rank[b] = n /\ match[b] # f[b]}
  <2> SUFFICES ASSUME NEW d \in S, match[d] # f[d] PROVE FALSE
    OBVIOUS
  <2>1. rank[d] \in T BY <1>2
  <2>2. PICK n \in T : \A k \in T : n <= k BY <2>1, LeastNumber
  <2>3. PICK b \in S : rank[b] = n /\ match[b] # f[b] OBVIOUS
  <2>4. \A e \in S : rank[e] < rank[b] => match[e] = f[e]
    <3> SUFFICES ASSUME NEW e \in S, rank[e] < rank[b], match[e] # f[e] PROVE FALSE
      OBVIOUS
    <3>1. rank[e] \in T /\ rank[e] \in Nat /\ rank[b] \in Nat BY <1>2
    <3>2. n <= rank[e] BY <2>2, <3>1
    <3> HIDE DEF T, rank
    <3> QED BY <2>3, <3>1, <3>2
  <2> HIDE DEF T
  <2>5. CASE b \in stop BY <1>12, <1>20, <2>3, <2>5
  <2>6. CASE b \notin stop
    <3>1. pick(b) \in first(b) BY <1>3, <2>6
    <3>2. match[b] = Aligned(pick(b)) \cup match[Left(b, pick(b))] \cup match[Right(b, pick(b))] BY <1>20, <3>1
    <3>3. match[Left(b, pick(b))] = f[Left(b, pick(b))] /\ match[Right(b, pick(b))] = f[Right(b, pick(b))]
      BY <1>4, <2>4, <2>6
    <3> QED BY <1>13, <2>3, <2>6, <3>2, <3>3
  <2> QED BY <2>5, <2>6
<1>22. match = [b \in S |-> match[b]] BY <1>17
<1>23. match \in [S -> R] BY <1>11, <1>21, <1>22
<1>24. MatchedBy(match, p, q) BY <1>18, <1>20, <1>23 DEF MatchedBy
<1> QED BY <1>24

(***************************************************************************)
(* Pairs in the same order on both sides.                                  *)
(***************************************************************************)
Ordered(X) == \A m, n \in X : (m[1] < n[1]) <=> (m[2] < n[2])

(***************************************************************************)
(* Pairs that lie within a block.                                          *)
(***************************************************************************)
Within(X, b) ==
  \A m \in X : b.i0 <= m[1] /\ m[1] <= b.i1 /\ b.j0 <= m[2] /\ m[2] <= b.j1

(***************************************************************************)
(* The blocks to both sides of a run are smaller.                          *)
(***************************************************************************)
LEMMA SidesRank ==
  ASSUME NEW p \in Seq(Word), NEW q \in Seq(Word), NEW b \in Blocks(p, q), NEW r \in Runs(p, q, b)
  PROVE  /\ b.i1 + (Len(p) + 1 - b.i0) \in Nat
         /\ Left(b, r).i1 + (Len(p) + 1 - Left(b, r).i0) \in Nat
         /\ Right(b, r).i1 + (Len(p) + 1 - Right(b, r).i0) \in Nat
         /\ Left(b, r).i1 + (Len(p) + 1 - Left(b, r).i0) < b.i1 + (Len(p) + 1 - b.i0)
         /\ Right(b, r).i1 + (Len(p) + 1 - Right(b, r).i0) < b.i1 + (Len(p) + 1 - b.i0)
<1> DEFINE a == r[1]
           n == r[3]
           i0 == b.i0
           i1 == b.i1
           lp == Len(p)
<1>1. /\ a \in Int /\ n \in Int /\ i0 \in Int /\ i1 \in Int /\ lp \in Int
      /\ i0 <= a /\ 1 <= n /\ a + n <= i1 + 1 /\ 1 <= i0 /\ i1 <= lp /\ 0 <= i1 /\ i0 <= lp + 1
  BY RunIs, BlockIs
<1> DEFINE L == Left(b, r)
           R == Right(b, r)
<1>2. L.i0 = i0 /\ L.i1 = a - 1 /\ R.i0 = a + n /\ R.i1 = i1 BY SidesAre
<1> HIDE DEF a, n, i0, i1, lp, L, R
<1>3. /\ i1 + (lp + 1 - i0) \in Nat
      /\ (a - 1) + (lp + 1 - i0) \in Nat
      /\ i1 + (lp + 1 - (a + n)) \in Nat
      /\ (a - 1) + (lp + 1 - i0) < i1 + (lp + 1 - i0)
      /\ i1 + (lp + 1 - (a + n)) < i1 + (lp + 1 - i0)
  BY <1>1
<1>4. /\ i1 + (lp + 1 - i0) \in Nat
      /\ L.i1 + (lp + 1 - L.i0) \in Nat
      /\ R.i1 + (lp + 1 - R.i0) \in Nat
      /\ L.i1 + (lp + 1 - L.i0) < i1 + (lp + 1 - i0)
      /\ R.i1 + (lp + 1 - R.i0) < i1 + (lp + 1 - i0)
  BY <1>2, <1>3
<1> QED BY <1>4 DEF i0, i1, lp, L, R

(***************************************************************************)
(* A run, ordered pairs before it and ordered pairs after it are ordered.  *)
(***************************************************************************)
LEMMA ThreePartsOrdered ==
  ASSUME NEW a \in Int, NEW c \in Int, NEW k \in Int, k >= 1,
         NEW A \in SUBSET PAIRS, NEW L \in SUBSET PAIRS, NEW R \in SUBSET PAIRS,
         \A m \in A : a <= m[1] /\ m[1] < a + k /\ m[2] = m[1] + (c - a),
         \A m \in L : m[1] < a /\ m[2] < c,
         \A m \in R : m[1] >= a + k /\ m[2] >= c + k,
         Ordered(L), Ordered(R)
  PROVE  Ordered(A \cup L \cup R)
<1> SUFFICES ASSUME NEW m \in A \cup L \cup R, NEW n \in A \cup L \cup R
             PROVE  (m[1] < n[1]) <=> (m[2] < n[2])
  BY DEF Ordered
<1>1. m[1] \in Int /\ m[2] \in Int /\ n[1] \in Int /\ n[2] \in Int BY DEF PAIRS
<1>2. CASE m \in L /\ n \in L BY <1>2 DEF Ordered
<1>3. CASE m \in R /\ n \in R BY <1>3 DEF Ordered
<1> DEFINE m1 == m[1]
           m2 == m[2]
           n1 == n[1]
           n2 == n[2]
<1>4. CASE ~(m \in L /\ n \in L) /\ ~(m \in R /\ n \in R)
  <2>1. \/ a <= m1 /\ m1 < a + k /\ m2 = m1 + (c - a)
        \/ m \in L /\ m1 < a /\ m2 < c
        \/ m \in R /\ m1 >= a + k /\ m2 >= c + k
    OBVIOUS
  <2>2. \/ a <= n1 /\ n1 < a + k /\ n2 = n1 + (c - a)
        \/ n \in L /\ n1 < a /\ n2 < c
        \/ n \in R /\ n1 >= a + k /\ n2 >= c + k
    OBVIOUS
  <2> HIDE DEF m1, m2, n1, n2
  <2>3. m1 \in Int /\ m2 \in Int /\ n1 \in Int /\ n2 \in Int BY <1>1 DEF m1, m2, n1, n2
  <2>4. (m1 < n1) <=> (m2 < n2) BY <1>4, <2>1, <2>2, <2>3
  <2> QED BY <2>4 DEF m1, m2, n1, n2
<1> QED BY <1>2, <1>3, <1>4

(***************************************************************************)
(* The pairs of every block are ordered and lie within it, by induction on *)
(* the size of the block.                                                  *)
(***************************************************************************)
LEMMA MatchOrdered ==
  ASSUME NEW p \in Seq(Word), NEW q \in Seq(Word), NEW M, MatchedBy(M, p, q)
  PROVE  \A b \in Blocks(p, q) : M[b] \subseteq PAIRS /\ Within(M[b], b) /\ Ordered(M[b])
<1> DEFINE S == Blocks(p, q)
           rank(b) == b.i1 + (Len(p) + 1 - b.i0)
           Good(b) == M[b] \subseteq PAIRS /\ Within(M[b], b) /\ Ordered(M[b])
           T == {n \in Nat : \E b \in S : rank(b) = n /\ ~Good(b)}
<1> SUFFICES ASSUME NEW d \in S, ~Good(d) PROVE FALSE
  OBVIOUS
<1>1. \A b \in S : M[b] \subseteq PAIRS BY DEF MatchedBy
<1>2. \A b \in S : M[b] # {} => \E r \in First(Runs(p, q, b)) : r \in Runs(p, q, b)
  BY DEF MatchedBy, First
<1>3. \A b \in S : ~Good(b) => \E r \in First(Runs(p, q, b)) : r \in Runs(p, q, b)
  <2> TAKE b \in S
  <2>1. M[b] = {} => Good(b) BY DEF Within, Ordered
  <2> QED BY <1>2, <2>1
<1>4. rank(d) \in T BY <1>3, SidesRank
<1>5. PICK n \in T : \A k \in T : n <= k BY <1>4, LeastNumber
<1>6. PICK b \in S : rank(b) = n /\ ~Good(b) OBVIOUS
<1>7. PICK r \in First(Runs(p, q, b)) : r \in Runs(p, q, b) BY <1>3, <1>6
<1> DEFINE L == Left(b, r)
           R == Right(b, r)
<1>8. L \in S /\ R \in S BY <1>7, SidesAre
<1>9. rank(L) \in Nat /\ rank(R) \in Nat /\ rank(b) \in Nat /\ rank(L) < rank(b) /\ rank(R) < rank(b)
  BY <1>7, SidesRank
<1> HIDE DEF rank
<1>10. \A e \in S : rank(e) \in Nat /\ rank(e) < rank(b) => Good(e)
  <2> SUFFICES ASSUME NEW e \in S, rank(e) \in Nat, rank(e) < rank(b), ~Good(e) PROVE FALSE
    OBVIOUS
  <2>1. rank(e) \in T OBVIOUS
  <2>2. n <= rank(e) BY <1>5, <2>1
  <2> HIDE DEF T, Good
  <2> QED BY <1>6, <1>9, <2>2
<1>11. Good(L) /\ Good(R) BY <1>8, <1>9, <1>10
<1>12. M[b] = Aligned(r) \cup M[L] \cup M[R] BY DEF MatchedBy
<1>13. /\ L.i0 = b.i0 /\ L.i1 = r[1] - 1 /\ L.j0 = b.j0 /\ L.j1 = r[2] - 1
       /\ R.i0 = r[1] + r[3] /\ R.i1 = b.i1 /\ R.j0 = r[2] + r[3] /\ R.j1 = b.j1
  BY <1>7, SidesAre
<1>14. /\ r[1] \in Int /\ r[2] \in Int /\ r[3] \in Int
       /\ b.i0 <= r[1] /\ b.j0 <= r[2] /\ 1 <= r[3]
       /\ r[1] + r[3] <= b.i1 + 1 /\ r[2] + r[3] <= b.j1 + 1 BY <1>7, RunIs
<1>15. b.i0 \in Int /\ b.i1 \in Int /\ b.j0 \in Int /\ b.j1 \in Int BY BlockIs
<1>16. /\ Aligned(r) \subseteq PAIRS
       /\ \A m \in Aligned(r) : r[1] <= m[1] /\ m[1] < r[1] + r[3] /\ m[2] = m[1] + (r[2] - r[1])
  BY <1>7, AlignedIs
<1> DEFINE a == r[1]
           c == r[2]
           k == r[3]
           i0 == b.i0
           i1 == b.i1
           j0 == b.j0
           j1 == b.j1
           A == Aligned(r)
           ML == M[L]
           MR == M[R]
<1>17. /\ a \in Int /\ c \in Int /\ k \in Int /\ i0 \in Int /\ i1 \in Int /\ j0 \in Int /\ j1 \in Int
       /\ i0 <= a /\ j0 <= c /\ 1 <= k /\ a + k <= i1 + 1 /\ c + k <= j1 + 1
  BY <1>14, <1>15
<1>18. /\ A \subseteq PAIRS /\ ML \subseteq PAIRS /\ MR \subseteq PAIRS /\ Ordered(ML) /\ Ordered(MR)
       /\ \A m \in A : a <= m[1] /\ m[1] < a + k /\ m[2] = m[1] + (c - a)
       /\ \A m \in ML : i0 <= m[1] /\ m[1] <= a - 1 /\ j0 <= m[2] /\ m[2] <= c - 1
       /\ \A m \in MR : a + k <= m[1] /\ m[1] <= i1 /\ c + k <= m[2] /\ m[2] <= j1
  BY <1>11, <1>13, <1>16 DEF Within
<1>19. M[b] = A \cup ML \cup MR BY <1>12
<1> HIDE DEF a, c, k, i0, i1, j0, j1, A, ML, MR, L, R
<1>20. \A m \in PAIRS : m[1] \in Int /\ m[2] \in Int BY DEF PAIRS
<1>21. \A m \in A \cup ML \cup MR : m[1] \in Int /\ m[2] \in Int BY <1>18, <1>20
<1>22. \A m \in A \cup ML \cup MR : i0 <= m[1] /\ m[1] <= i1 /\ j0 <= m[2] /\ m[2] <= j1
  <2> TAKE m \in A \cup ML \cup MR
  <2> DEFINE m1 == m[1]
             m2 == m[2]
  <2>1. m1 \in Int /\ m2 \in Int BY <1>21
  <2>2. \/ a <= m1 /\ m1 < a + k /\ m2 = m1 + (c - a)
        \/ i0 <= m1 /\ m1 <= a - 1 /\ j0 <= m2 /\ m2 <= c - 1
        \/ a + k <= m1 /\ m1 <= i1 /\ c + k <= m2 /\ m2 <= j1
    BY <1>18
  <2> HIDE DEF m1, m2
  <2>3. i0 <= m1 /\ m1 <= i1 /\ j0 <= m2 /\ m2 <= j1 BY <1>17, <2>1, <2>2
  <2> QED BY <2>3 DEF m1, m2
<1>23. Within(M[b], b) BY <1>19, <1>22 DEF Within, i0, i1, j0, j1
<1>24. \A m \in ML : m[1] < a /\ m[2] < c
  <2> TAKE m \in ML
  <2> DEFINE m1 == m[1]
             m2 == m[2]
  <2>1. m1 \in Int /\ m2 \in Int /\ m1 <= a - 1 /\ m2 <= c - 1 BY <1>18, <1>21
  <2> HIDE DEF m1, m2
  <2>2. m1 < a /\ m2 < c BY <1>17, <2>1
  <2> QED BY <2>2 DEF m1, m2
<1>25. \A m \in MR : m[1] >= a + k /\ m[2] >= c + k BY <1>17, <1>18, <1>21
<1>26. Ordered(A \cup ML \cup MR) BY <1>17, <1>18, <1>24, <1>25, ThreePartsOrdered
<1> QED BY <1>1, <1>6, <1>19, <1>23, <1>26

(***************************************************************************)
(* Words that correspond stand in the same order in both hypotheses.       *)
(***************************************************************************)
LEMMA MatchesAre ==
  ASSUME NEW p \in Seq(Word), NEW q \in Seq(Word)
  PROVE  /\ Matches(p, q) \subseteq PAIRS /\ Ordered(Matches(p, q))
         /\ \A m \in Matches(p, q) : 1 <= m[1] /\ m[1] <= Len(p) /\ 1 <= m[2] /\ m[2] <= Len(q)
<1> DEFINE b == [i0 |-> 1, i1 |-> Len(p), j0 |-> 1, j1 |-> Len(q)]
<1>1. Len(p) \in Nat /\ Len(q) \in Nat OBVIOUS
<1>2. b \in Blocks(p, q) BY <1>1 DEF Blocks
<1>3. b.i0 = 1 /\ b.i1 = Len(p) /\ b.j0 = 1 /\ b.j1 = Len(q) OBVIOUS
<1>4. PICK M : MatchedBy(M, p, q) BY MatchIs
<1>5. Matches(p, q) = M[b] BY <1>4 DEF MatchedBy
<1> HIDE DEF b
<1>6. M[b] \subseteq PAIRS /\ Within(M[b], b) /\ Ordered(M[b]) BY <1>2, <1>4, MatchOrdered
<1> QED BY <1>3, <1>5, <1>6 DEF Within

-----------------------------------------------------------------------------
(* The boundary across a revision (map_committed_word_boundary). *)

(***************************************************************************)
(* A share of a passage, rounded up, is within the passage.                *)
(***************************************************************************)
LEMMA ShareIs ==
  ASSUME NEW a \in Nat, NEW d \in Nat, NEW t \in Nat, 0 < a, a < d
  PROVE  (a * t + d - 1) \div d \in 0..t
<1> DEFINE k == (a * t + d - 1) \div d
<1>1. a * t \in Nat /\ a * t <= (d - 1) * t OBVIOUS
<1>2. a * t + d - 1 \in Nat /\ a * t + d - 1 < (t + 1) * d BY <1>1
<1>3. k \in Int /\ k * d <= a * t + d - 1 /\ a * t + d - 1 < (k + 1) * d BY <1>2
<1> HIDE DEF k
<1>4. k <= t
  <2> SUFFICES ASSUME t + 1 <= k PROVE FALSE
    BY <1>3
  <2>1. (t + 1) * d <= k * d BY <1>3
  <2> QED BY <1>2, <1>3, <2>1
<1>5. 0 <= k
  <2> SUFFICES ASSUME k + 1 <= 0 PROVE FALSE
    BY <1>3
  <2>1. (k + 1) * d <= 0 BY <1>3
  <2> QED BY <1>2, <1>3, <2>1
<1> QED BY <1>3, <1>4, <1>5 DEF k

(***************************************************************************)
(* A boundary with exactly the partners of the words before c before it.   *)
(***************************************************************************)
Keeps(boundary, p, q, c) ==
  /\ boundary \in 0..Len(q)
  /\ \A m \in Matches(p, q) : m[1] <= c <=> m[2] <= boundary

(***************************************************************************)
(* map_committed_word_boundary gives such a boundary, whichever of its     *)
(* cases applies.                                                          *)
(***************************************************************************)
LEMMA BoundaryIs ==
  ASSUME NEW p \in Seq(Word), NEW q \in Seq(Word), NEW c \in 1..Len(p)
  PROVE  Keeps(MapBoundary(p, q, c), p, q, c)
<1> DEFINE X == Matches(p, q)
           bf == {m \in X : m[1] < c}
           af == {m \in X : m[1] > c}
           S0 == {0} \cup {m[1] : m \in bf}
           T0 == {0} \cup {m[2] : m \in bf}
           S1 == {Len(p)} \cup {m[1] - 1 : m \in af}
           T1 == {Len(q)} \cup {m[2] - 1 : m \in af}
           s0 == Max(S0)
           t0 == Max(T0)
           s1 == Min(S1)
           t1 == Min(T1)
           B == MapBoundary(p, q, c)
           lp == Len(p)
           lq == Len(q)
<1>1. /\ X \subseteq PAIRS /\ Ordered(X)
      /\ \A m \in X : 1 <= m[1] /\ m[1] <= lp /\ 1 <= m[2] /\ m[2] <= lq
  BY MatchesAre
<1>2. B = IF \E m \in X : m[1] = c THEN (CHOOSE m \in X : m[1] = c)[2]
          ELSE IF c = s1 THEN t1
          ELSE t0 + ((c - s0) * (t1 - t0) + (s1 - s0) - 1) \div (s1 - s0)
  <2>1. c # 0 OBVIOUS
  <2> QED BY <2>1 DEF MapBoundary
<1>3. lp \in Nat /\ lq \in Nat /\ c \in Int /\ 1 <= c /\ c <= lp OBVIOUS
<1>4. \A m \in X : m[1] \in Int /\ m[2] \in Int BY <1>1 DEF PAIRS
<1> SUFFICES B \in 0..lq /\ \A m \in X : m[1] <= c <=> m[2] <= B
  BY DEF Keeps
<1> HIDE DEF X, B, lp, lq
<1>5. CASE \E m \in X : m[1] = c
  <2> DEFINE n == CHOOSE m \in X : m[1] = c
  <2>1. n \in X /\ n[1] = c BY <1>5
  <2>2. B = n[2] BY <1>2, <1>5
  <2> HIDE DEF n
  <2>3. B \in 0..lq BY <1>1, <1>3, <1>4, <2>1, <2>2
  <2>4. \A m \in X : m[1] <= c <=> m[2] <= B
    <3> TAKE m \in X
    <3>1. (n[1] < m[1]) <=> (n[2] < m[2]) BY <1>1, <2>1 DEF Ordered
    <3> QED BY <1>3, <1>4, <2>1, <2>2, <3>1
  <2> QED BY <2>3, <2>4
<1>6. CASE ~\E m \in X : m[1] = c
  <2>1. \A m \in X : m \in bf \/ m \in af
    <3> TAKE m \in X
    <3>1. m[1] # c /\ m[1] \in Int BY <1>4, <1>6
    <3> QED BY <1>3, <3>1
  <2>2. S0 \subseteq Int /\ S0 # {} /\ T0 \subseteq Int /\ T0 # {} BY <1>4
  <2>3. S1 \subseteq Int /\ S1 # {} /\ T1 \subseteq Int /\ T1 # {} BY <1>3, <1>4 DEF lp, lq
  <2>4. \A x \in S0 : x <= lp BY <1>1, <1>3
  <2>5. \A x \in T0 : x <= lq BY <1>1, <1>3
  <2>6. \A x \in S1 : 0 <= x
    <3>1. \A m \in af : 0 <= m[1] - 1 BY <1>1, <1>4
    <3> QED BY <1>3, <3>1 DEF lp
  <2>7. \A x \in T1 : 0 <= x
    <3>1. \A m \in af : 0 <= m[2] - 1 BY <1>1, <1>4
    <3> QED BY <1>3, <3>1 DEF lq
  <2>8. lp \in Int /\ lq \in Int /\ 0 \in Int BY <1>3
  <2>9. s0 \in S0 /\ (\A x \in S0 : x <= s0)
    <3> HIDE DEF S0
    <3> QED BY <2>2, <2>4, <2>8, LargestIs
  <2>10. t0 \in T0 /\ (\A x \in T0 : x <= t0)
    <3> HIDE DEF T0
    <3> QED BY <2>2, <2>5, <2>8, LargestIs
  <2>11. s1 \in S1 /\ (\A x \in S1 : s1 <= x)
    <3> HIDE DEF S1
    <3> QED BY <2>3, <2>6, <2>8, SmallestIs
  <2>12. t1 \in T1 /\ (\A x \in T1 : t1 <= x)
    <3> HIDE DEF T1
    <3> QED BY <2>3, <2>7, <2>8, SmallestIs
  <2>13. /\ s0 \in Int /\ t0 \in Int /\ s1 \in Int /\ t1 \in Int
    BY <2>2, <2>3, <2>9, <2>10, <2>11, <2>12
  <2>14. 0 <= s0 /\ 0 <= t0 /\ s1 <= lp /\ t1 <= lq BY <2>9, <2>10, <2>11, <2>12 DEF lp, lq
  <2> HIDE DEF s0, t0, s1, t1
  <2>15. 0 <= t1 BY <2>7, <2>12
  <2>16. t0 <= lq BY <2>5, <2>10
  <2>17. s0 < c
    <3>1. \A x \in S0 : x < c BY <1>3
    <3> QED BY <2>9, <3>1
  <2>18. c <= s1
    <3>1. \A m \in af : c <= m[1] - 1 BY <1>3, <1>4
    <3>2. \A x \in S1 : c <= x BY <1>3, <3>1 DEF lp
    <3> QED BY <2>11, <3>2
  <2>19. \A m \in bf : m[2] <= t0 /\ m[2] <= lq BY <1>1, <2>10
  <2>20. \A m \in af : t1 <= m[2] - 1 BY <2>12
  <2>21. \A m \in bf : \A n \in af : m[2] <= n[2] - 1
    <3> SUFFICES ASSUME NEW m \in bf, NEW n \in af PROVE m[2] <= n[2] - 1
      OBVIOUS
    <3>1. m \in X /\ n \in X /\ m[1] < c /\ c < n[1] BY <1>3, <1>4
    <3>2. m[1] \in Int /\ m[2] \in Int /\ n[1] \in Int /\ n[2] \in Int BY <1>4, <3>1
    <3>3. (m[1] < n[1]) <=> (m[2] < n[2]) BY <1>1, <3>1 DEF Ordered
    <3> QED BY <1>3, <3>1, <3>2, <3>3
  <2>22. t0 <= t1
    <3>1. \A n \in af : 0 <= n[2] - 1 BY <1>1, <1>4
    <3>2. \A x \in T0 : \A y \in T1 : x <= y BY <1>1, <1>3, <2>19, <2>21, <3>1 DEF lq
    <3> QED BY <2>10, <2>12, <3>2
  <2>23. B \in t0..t1
    <3>1. CASE c = s1
      <4>1. B = t1 BY <1>2, <1>6, <3>1
      <4> QED BY <2>13, <2>22, <4>1
    <3>2. CASE c # s1
      <4> DEFINE a == c - s0
                 d == s1 - s0
                 t == t1 - t0
                 k == (a * t + d - 1) \div d
      <4>1. a \in Nat /\ d \in Nat /\ t \in Nat /\ 0 < a /\ a < d
        BY <1>3, <2>13, <2>17, <2>18, <2>22, <3>2
      <4>2. B = t0 + k BY <1>2, <1>6, <3>2
      <4>3. k \in 0..t
        <5> HIDE DEF a, d, t
        <5> QED BY <4>1, ShareIs
      <4> HIDE DEF k
      <4> QED BY <2>13, <4>2, <4>3
    <3> QED BY <3>1, <3>2
  <2>24. B \in Int /\ t0 <= B /\ B <= t1 BY <2>13, <2>23
  <2>25. B \in 0..lq BY <1>3, <2>13, <2>14, <2>24
  <2>26. \A m \in X : m[1] <= c <=> m[2] <= B
    <3> TAKE m \in X
    <3>1. m[1] \in Int /\ m[2] \in Int BY <1>4
    <3>2. CASE m \in bf
      <4>1. m[1] < c /\ m[2] <= t0 BY <2>19, <3>2
      <4> QED BY <1>3, <2>13, <2>24, <3>1, <4>1
    <3>3. CASE m \in af
      <4>1. m[1] > c /\ t1 <= m[2] - 1 BY <2>20, <3>3
      <4> QED BY <1>3, <2>13, <2>24, <3>1, <4>1
    <3> QED BY <2>1, <3>2, <3>3
  <2> QED BY <2>25, <2>26
<1> QED BY <1>5, <1>6

(***************************************************************************)
(* A revision moves no word that its alignment keeps across the boundary   *)
(* (map_committed_word_boundary of nemotron.py), whatever the recogniser   *)
(* makes of the utterance: a kept word that was sent is not sent again and *)
(* a kept word that was not is not lost.                                   *)
(***************************************************************************)
THEOREM BoundaryIsPreserved == BoundaryPreserved
<1> SUFFICES ASSUME NEW p \in Hypotheses(3), NEW q \in Hypotheses(3), NEW c \in 1..Len(p)
             PROVE LET boundary == MapBoundary(p, q, c)
                   IN  /\ boundary \in 0..Len(q)
                       /\ \A m \in Matches(p, q) : m[1] <= c <=> m[2] <= boundary
  BY Zenon DEF BoundaryPreserved
<1>1. p \in Seq(Word) /\ q \in Seq(Word) BY HypothesesAre
<1>2. Keeps(MapBoundary(p, q, c), p, q, c) BY <1>1, BoundaryIs
<1> QED BY <1>2, Zenon DEF Keeps

(***************************************************************************)
(* When a hypothesis only grows, the alignment pairs every word with       *)
(* itself: the longest common run is all of it.                            *)
(***************************************************************************)
LEMMA ExtensionMatches ==
  ASSUME NEW p \in Seq(Word), NEW w \in Seq(Word), NEW c \in 1..Len(p)
  PROVE  <<c, c>> \in Matches(p, p \o w)
<1> DEFINE q == p \o w
           b == [i0 |-> 1, i1 |-> Len(p), j0 |-> 1, j1 |-> Len(q)]
           r == <<1, 1, Len(p)>>
<1>1. /\ Len(p) \in Nat /\ 1 <= Len(p) /\ q \in Seq(Word) /\ Len(q) \in Nat /\ Len(p) <= Len(q)
      /\ \A i \in 1..Len(p) : q[i] = p[i]
  OBVIOUS
<1> HIDE DEF q
<1>2. b \in Blocks(p, q) BY <1>1 DEF Blocks
<1>3. b.i0 = 1 /\ b.i1 = Len(p) /\ b.j0 = 1 /\ b.j1 = Len(q) OBVIOUS
<1> HIDE DEF b
<1>4. r \in Runs(p, q, b)
  <2> DEFINE n == Len(p)
             l == Len(q)
  <2>1. n \in Nat /\ l \in Nat /\ 1 <= n /\ n <= l BY <1>1
  <2>2. \A k \in 0..(n - 1) : p[1 + k] = q[1 + k]
    <3> TAKE k \in 0..(n - 1)
    <3>1. 1 + k \in 1..Len(p) BY <2>1
    <3> QED BY <1>1, <3>1
  <2> HIDE DEF n, l
  <2>3. <<1, 1, n>> \in (1..n) \X (1..l) \X (1..n) /\ 1 + n <= n + 1 /\ 1 + n <= l + 1 BY <2>1
  <2>4. <<1, 1, n>> \in {s \in (b.i0..b.i1) \X (b.j0..b.j1) \X (1..Len(p)) :
           /\ s[1] + s[3] <= b.i1 + 1 /\ s[2] + s[3] <= b.j1 + 1
           /\ \A k \in 0..(s[3] - 1) : p[s[1] + k] = q[s[2] + k]}
    BY <1>3, <2>2, <2>3 DEF n, l
  <2> QED BY <2>4 DEF Runs, n
<1>5. \A s \in Runs(p, q, b) : Before(r, s)
  <2> TAKE s \in Runs(p, q, b)
  <2> DEFINE s1 == s[1]
             s2 == s[2]
             s3 == s[3]
             n == Len(p)
  <2>1. /\ s1 \in Int /\ s2 \in Int /\ s3 \in Int /\ n \in Int
        /\ 1 <= s1 /\ 1 <= s2 /\ s3 <= n /\ s1 + s3 <= n + 1
    <3>1. /\ s[1] \in Int /\ s[2] \in Int /\ s[3] \in Int /\ b.i0 <= s[1] /\ b.j0 <= s[2]
          /\ s[3] <= Len(p) /\ s[1] + s[3] <= b.i1 + 1
      BY <1>1, <1>2, RunIs
    <3> QED BY <1>1, <1>2, <1>3, <3>1
  <2>2. r[1] = 1 /\ r[2] = 1 /\ r[3] = n OBVIOUS
  <2> HIDE DEF s1, s2, s3, n, r
  <2>3. n > s3 \/ (n = s3 /\ (1 < s1 \/ (1 = s1 /\ 1 <= s2))) BY <2>1
  <2> QED BY <2>2, <2>3 DEF Before, s1, s2, s3
<1>6. r \in First(Runs(p, q, b)) BY <1>4, <1>5 DEF First
<1>7. PICK M : MatchedBy(M, p, q) BY <1>1, MatchIs
<1>8. Matches(p, q) = M[b] BY <1>7 DEF MatchedBy, b
<1>9. M[b] = Aligned(r) \cup M[Left(b, r)] \cup M[Right(b, r)] BY <1>2, <1>6, <1>7 DEF MatchedBy
<1>10. <<c, c>> \in Aligned(r)
  <2> DEFINE k == c - 1
  <2>1. k \in 0..(Len(p) - 1) /\ 1 + k = c BY <1>1
  <2> HIDE DEF k
  <2>2. <<1 + k, 1 + k>> \in Aligned(r) BY <2>1 DEF Aligned
  <2> QED BY <2>1, <2>2
<1> QED BY <1>8, <1>9, <1>10 DEF q

(***************************************************************************)
(* So the boundary stays where it is.                                      *)
(***************************************************************************)
LEMMA ExtensionKeeps ==
  ASSUME NEW p \in Seq(Word), NEW w \in Seq(Word), NEW c \in 0..Len(p)
  PROVE  MapBoundary(p, p \o w, c) = c
<1>1. CASE c = 0 BY <1>1 DEF MapBoundary
<1>2. CASE c # 0
  <2> DEFINE X == Matches(p, p \o w)
             n == CHOOSE m \in X : m[1] = c
             e == <<c, c>>
  <2>1. c \in 1..Len(p) /\ c \in Int BY <1>2
  <2>2. e \in X BY <2>1, ExtensionMatches
  <2>3. e[1] = c /\ e[2] = c OBVIOUS
  <2>4. n \in X /\ n[1] = c BY <2>2, <2>3
  <2>5. p \o w \in Seq(Word) OBVIOUS
  <2>6. X \subseteq PAIRS /\ Ordered(X) BY <2>5, MatchesAre
  <2>7. MapBoundary(p, p \o w, c) = n[2]
    <3>1. \E m \in X : m[1] = c BY <2>4
    <3> QED BY <1>2, <3>1 DEF MapBoundary
  <2>8. n[1] \in Int /\ n[2] \in Int BY <2>4, <2>6 DEF PAIRS
  <2> HIDE DEF X, n, e
  <2>9. (e[1] < n[1] <=> e[2] < n[2]) /\ (n[1] < e[1] <=> n[2] < e[2]) BY <2>2, <2>4, <2>6 DEF Ordered
  <2>10. ~(c < n[2]) /\ ~(n[2] < c) BY <2>1, <2>3, <2>4, <2>9
  <2>11. n[2] = c BY <2>1, <2>8, <2>10
  <2> QED BY <2>7, <2>11
<1> QED BY <1>1, <1>2

(***************************************************************************)
(* The boundary lies within the revised hypothesis.                        *)
(***************************************************************************)
LEMMA RevisionInRange ==
  ASSUME NEW p \in Seq(Word), NEW q \in Seq(Word), NEW c \in 0..Len(p)
  PROVE  MapBoundary(p, q, c) \in 0..Len(q)
<1>1. Len(p) \in Nat /\ Len(q) \in Nat OBVIOUS
<1>2. CASE c = 0
  <2>1. MapBoundary(p, q, c) = 0 BY <1>2 DEF MapBoundary
  <2> QED BY <1>1, <2>1
<1>3. CASE c # 0
  <2>1. c \in 1..Len(p) BY <1>1, <1>3
  <2> QED BY <2>1, BoundaryIs DEF Keeps
<1> QED BY <1>2, <1>3

-----------------------------------------------------------------------------
(* The adapter (ingest, force_final). *)

(***************************************************************************)
(* What a revision leaves of the adapter.                                  *)
(***************************************************************************)
LEMMA ReviseIs ==
  ASSUME NEW a, Kept(a), NEW words \in Seq(Word), NEW from \in Nat
  PROVE  LET v == Revise(a, words, from)
         IN  /\ Kept(v) /\ v.utt = words /\ v.flushed = a.flushed
             /\ v.promoted = MapBoundary(a.utt, words, a.promoted)
             /\ v.start \in {a.start, from}
<1> DEFINE v == Revise(a, words, from)
           k == MapBoundary(a.utt, words, a.promoted)
<1>1. a \in Adapter /\ a.utt \in Seq(Word) /\ a.promoted \in 0..Len(a.utt) BY PendingIs DEF Kept, Adapter
<1>2. k \in 0..Len(words) BY <1>1, RevisionInRange
<1>3. k \in Nat /\ k <= Len(words)
  <2>1. Len(words) \in Nat OBVIOUS
  <2> HIDE DEF k
  <2> QED BY <1>2, <2>1
<1>4. v = [a EXCEPT !.utt = words, !.promoted = k, !.start = IF a.start = NoTime THEN from ELSE a.start]
  BY DEF Revise
<1> HIDE DEF v, k
<1>5. v.utt = words /\ v.flushed = a.flushed /\ v.promoted = k /\ v.start \in {a.start, from}
  BY <1>1, <1>4 DEF Adapter
<1>6. v \in Adapter BY <1>1, <1>3, <1>4 DEF Adapter
<1>7. Kept(v) BY <1>3, <1>5, <1>6 DEF Kept
<1> QED BY <1>5, <1>7 DEF v, k

(***************************************************************************)
(* Words that are added are pending, after those that were.                *)
(***************************************************************************)
LEMMA ExtendedPending ==
  ASSUME NEW a, Kept(a), NEW w \in Seq(Word), NEW v, Kept(v), v.utt = a.utt \o w, v.promoted = a.promoted
  PROVE  Pending(v) = Pending(a) \o w
<1> DEFINE u == a.utt
           n == a.promoted
<1>1. u \in Seq(Word) /\ n \in 0..Len(u) /\ Len(u) \in Nat BY PendingIs DEF Kept, Adapter
<1>2. Pending(v) = SubSeq(u \o w, n + 1, Len(u \o w)) /\ Pending(a) = SubSeq(u, n + 1, Len(u)) BY DEF Pending
<1> HIDE DEF u, n
<1> DEFINE x == SubSeq(u \o w, n + 1, Len(u \o w))
           y == SubSeq(u, n + 1, Len(u))
<1>3. Len(u \o w) = Len(u) + Len(w) /\ u \o w \in Seq(Word) /\ Len(w) \in Nat /\ n \in Nat /\ n <= Len(u) BY <1>1
<1>4. x \in Seq(Word) /\ Len(x) = Len(u) + Len(w) - n BY <1>1, <1>3
<1>5. y \in Seq(Word) /\ Len(y) = Len(u) - n BY <1>1, <1>3
<1>6. \A i \in 1..Len(x) : x[i] = (u \o w)[n + i] BY <1>1, <1>3, <1>4
<1>7. \A i \in 1..Len(y) : y[i] = u[n + i] BY <1>1, <1>3, <1>5
<1> HIDE DEF x, y
<1>8. y \o w \in Seq(Word) /\ Len(y \o w) = Len(y) + Len(w) BY <1>5, ConcatProperties
<1>9. Len(x) = Len(y \o w) BY <1>1, <1>3, <1>4, <1>5, <1>8
<1>10. \A i \in 1..Len(x) : x[i] = (y \o w)[i]
  <2> TAKE i \in 1..Len(x)
  <2>1. i \in Int /\ 1 <= i /\ i <= Len(u) + Len(w) - n BY <1>1, <1>3, <1>4
  <2>2. CASE i <= Len(u) - n
    <3>1. (u \o w)[n + i] = u[n + i] BY <1>1, <1>3, <2>1, <2>2
    <3>2. (y \o w)[i] = y[i] BY <1>1, <1>3, <1>5, <2>1, <2>2
    <3>3. i \in 1..Len(y) BY <1>1, <1>3, <1>5, <2>1, <2>2
    <3> QED BY <1>6, <1>7, <3>1, <3>2, <3>3
  <2>3. CASE i > Len(u) - n
    <3>1. (u \o w)[n + i] = w[n + i - Len(u)]
      <4>1. n + i \in Int /\ n + i > Len(u) /\ n + i <= Len(u) + Len(w) BY <1>1, <1>3, <2>1, <2>3
      <4> QED BY <1>1, <1>3, <4>1, SMTT(20)
    <3>2. (y \o w)[i] = w[i - Len(y)]
      <4>1. i > Len(y) /\ i <= Len(y) + Len(w) BY <1>1, <1>3, <1>5, <2>1, <2>3
      <4> QED BY <1>3, <1>5, <2>1, <4>1, SMTT(20)
    <3>3. n + i - Len(u) = i - Len(y) BY <1>1, <1>3, <1>5, <2>1
    <3> QED BY <1>6, <3>1, <3>2, <3>3
  <2>4. i <= Len(u) - n \/ i > Len(u) - n BY <1>1, <1>3, <2>1
  <2> QED BY <2>2, <2>3, <2>4, Zenon
<1>11. x = y \o w BY <1>4, <1>8, <1>9, <1>10, SeqEqual
<1> QED BY <1>2, <1>11 DEF x, y

(***************************************************************************)
(* A hypothesis that only grows adds its new words to the pending ones.    *)
(***************************************************************************)
LEMMA ReviseExtends ==
  ASSUME NEW a, Kept(a), NEW w \in Seq(Word), NEW from \in Nat
  PROVE  Pending(Revise(a, a.utt \o w, from)) = Pending(a) \o w
<1>1. a.utt \in Seq(Word) /\ a.promoted \in 0..Len(a.utt) BY PendingIs DEF Kept, Adapter
<1>2. a.utt \o w \in Seq(Word) BY <1>1
<1> DEFINE v == Revise(a, a.utt \o w, from)
<1>3. Kept(v) /\ v.utt = a.utt \o w /\ v.promoted = MapBoundary(a.utt, a.utt \o w, a.promoted)
  BY <1>2, ReviseIs
<1>4. v.promoted = a.promoted BY <1>1, <1>3, ExtensionKeeps
<1> HIDE DEF v
<1>5. Pending(v) = Pending(a) \o w BY <1>3, <1>4, ExtendedPending
<1> QED BY <1>5 DEF v

(***************************************************************************)
(* The adapter after an utterance has no words.                            *)
(***************************************************************************)
LEMMA ResetIs ==
  ASSUME NEW a, Kept(a)
  PROVE  /\ Kept(ResetUtterance(a)) /\ ResetUtterance(a).utt = <<>> /\ Pending(ResetUtterance(a)) = <<>>
         /\ ResetUtterance(a).flushed = a.flushed /\ ResetUtterance(a).start = NoTime
<1> DEFINE v == ResetUtterance(a)
<1>1. a.flushed \in BOOLEAN BY DEF Kept, Adapter
<1>2. v = [NewAdapter EXCEPT !.flushed = a.flushed] BY DEF ResetUtterance
<1> HIDE DEF v
<1>3. v \in Adapter /\ v.utt = <<>> /\ v.promoted = 0 /\ v.start = NoTime /\ v.flushed = a.flushed
  BY <1>1, <1>2, NewAdapterIs DEF Adapter
<1>4. Len(<<>>) = 0 OBVIOUS
<1>5. Kept(v) BY <1>3, <1>4 DEF Kept
<1>6. Pending(v) = <<>>
  <2>1. Pending(v) \in Seq(Word) /\ Len(Pending(v)) = 0 BY <1>3, <1>4, <1>5, PendingIs
  <2> QED BY <2>1
<1> QED BY <1>3, <1>5, <1>6 DEF v

(***************************************************************************)
(* A step of the adapter, with the lines it finished, that ends at a time. *)
(***************************************************************************)
Gives(r, flushed, to) ==
  Kept(r.adapter) /\ r.finals \in Lined /\ r.adapter.flushed = flushed /\ r.adapter.start <= to

(***************************************************************************)
(* The words of a step: those it finished and those it keeps.              *)
(***************************************************************************)
Said(r) == FlattenSeq(r.finals) \o Pending(r.adapter)

(***************************************************************************)
(* A line starts at none of the later times.                               *)
(***************************************************************************)
LEMMA StartsBy ==
  ASSUME NEW a, Kept(a), NEW from \in Nat, NEW to \in Nat, a.start <= from, from <= to,
         NEW b, b.start \in {a.start, from, to, NoTime}
  PROVE  b.start <= to
<1>1. a.start \in Int BY DEF Kept, Adapter, NoTime
<1>2. NoTime <= to /\ NoTime \in Int BY DEF NoTime
<1> QED BY <1>1, <1>2

(***************************************************************************)
(* When no utterance ended, nothing is finished.                           *)
(***************************************************************************)
LEMMA NothingClosed ==
  ASSUME NEW a, Kept(a), NEW from, NEW to
  PROVE  /\ Closed(a, <<>>, from, to).adapter = a
         /\ Said(Closed(a, <<>>, from, to)) = Pending(a)
<1> DEFINE r == Closed(a, <<>>, from, to)
<1>1. r.adapter = a /\ r.finals = <<>> BY DEF Closed
<1>2. <<>> \in Seq(Seq(Word)) /\ Pending(a) \in Seq(Word) BY PendingIs
<1>3. FlattenSeq(<<>>) = <<>> BY <1>2, FlattenType
<1>4. <<>> \o Pending(a) = Pending(a) BY <1>2, ConcatEmptySeq
<1> HIDE DEF r
<1>5. Said(r) = Pending(a) BY <1>1, <1>3, <1>4, Zenon DEF Said
<1> QED BY <1>1, <1>5 DEF r

(***************************************************************************)
(* ingest, the final text of an utterance that ended.                      *)
(***************************************************************************)
LEMMA ClosedIs ==
  ASSUME NEW a, Kept(a), NEW final \in Seq(Word), NEW from \in Nat, NEW to \in Nat,
         a.start <= from, from <= to
  PROVE  /\ Gives(Closed(a, final, from, to), a.flushed, from)
         /\ final # <<>> => Closed(a, final, from, to).adapter.utt = <<>>
         /\ final # <<>> => Said(Closed(a, final, from, to)) = Pending(Revise(a, final, from))
<1> DEFINE r == Closed(a, final, from, to)
<1>1. CASE final = <<>>
  <2>1. r.adapter = a /\ r.finals = <<>> BY <1>1 DEF Closed
  <2>2. <<>> \in Seq(Seq(Word)) OBVIOUS
  <2> HIDE DEF r
  <2>6. Gives(r, a.flushed, from) BY <2>1, <2>2 DEF Gives, Lined
  <2> QED BY <1>1, <2>6 DEF r
<1>2. CASE final # <<>>
  <2> DEFINE v == Revise(a, final, from)
             up == Rollup(v, TRUE, to)
  <2>1. r.adapter = ResetUtterance(a) /\ r.finals = up.finals BY <1>2 DEF Closed
  <2>2. Kept(v) BY ReviseIs
  <2> HIDE DEF r, v
  <2>3. RollsUp(v, TRUE, to, up) BY <2>2, RollupIs
  <2> HIDE DEF up
  <2>4. up.finals \in Lined /\ FlattenSeq(up.finals) \o Pending(up.adapter) = Pending(v)
        /\ Pending(up.adapter) = <<>> BY <2>3 DEF RollsUp
  <2>5. Pending(r.adapter) = <<>> /\ Kept(r.adapter) /\ r.adapter.utt = <<>>
        /\ r.adapter.flushed = a.flushed /\ r.adapter.start = NoTime BY <2>1, ResetIs
  <2>6. Said(r) = Pending(v) BY <2>1, <2>4, <2>5 DEF Said
  <2>7. NoTime <= from BY DEF NoTime
  <2>8. Gives(r, a.flushed, from) BY <2>1, <2>4, <2>5, <2>7 DEF Gives
  <2> QED BY <1>2, <2>5, <2>6, <2>8 DEF r, v
<1> QED BY <1>1, <1>2

(***************************************************************************)
(* ingest, the text of the utterance in progress.                          *)
(***************************************************************************)
LEMMA OpenedIs ==
  ASSUME NEW r, NEW flushed, NEW partial \in Seq(Word), NEW from \in Nat, NEW to \in Nat,
         Gives(r, flushed, from), from <= to
  PROVE  Gives(Opened(r, partial, from, to), flushed, to)
<1> DEFINE o == Opened(r, partial, from, to)
           a == r.adapter
<1>0. Kept(a) /\ a.start <= from /\ r.finals \in Lined /\ a.flushed = flushed BY DEF Gives
<1>1. CASE partial = <<>>
  <2>1. o = r BY <1>1 DEF Opened
  <2>2. a.start <= to BY <1>0, StartsBy
  <2> HIDE DEF o
  <2>3. Gives(r, flushed, to) BY <1>0, <2>2 DEF Gives
  <2> QED BY <2>1, <2>3 DEF o
<1>2. CASE partial # <<>>
  <2> DEFINE v == Revise(a, partial, from)
             up == Rollup(v, FALSE, to)
  <2>1. o.adapter = up.adapter /\ o.finals = r.finals \o up.finals BY <1>2 DEF Opened
  <2>2. Kept(v) /\ v.flushed = a.flushed /\ v.start \in {a.start, from} BY <1>0, ReviseIs
  <2> HIDE DEF o, v, a
  <2>3. RollsUp(v, FALSE, to, up) BY <2>2, RollupIs
  <2> HIDE DEF up
  <2>4. /\ Kept(up.adapter) /\ up.adapter.flushed = v.flushed /\ up.adapter.start \in {v.start, to}
        /\ up.finals \in Lined /\ FlattenSeq(up.finals) \o Pending(up.adapter) = Pending(v)
    BY <2>3 DEF RollsUp
  <2>5. up.adapter.start \in {a.start, from, to, NoTime} BY <2>2, <2>4
  <2>6. up.adapter.start <= to BY <1>0, <2>5, StartsBy
  <2>7. r.finals \in Seq(Seq(Word)) /\ up.finals \in Seq(Seq(Word)) BY <1>0, <2>4 DEF Lined
  <2>8. r.finals \o up.finals \in Lined BY <2>7 DEF Lined
  <2>9. Gives(o, flushed, to) BY <1>0, <2>1, <2>2, <2>4, <2>6, <2>8 DEF Gives
  <2> QED BY <2>9 DEF o
<1> QED BY <1>1, <1>2

(***************************************************************************)
(* The words of that step.                                                 *)
(***************************************************************************)
LEMMA OpenedSays ==
  ASSUME NEW r, NEW flushed, NEW partial \in Seq(Word), NEW from \in Nat, NEW to \in Nat,
         Gives(r, flushed, from), from <= to
  PROVE  /\ partial = <<>> => Said(Opened(r, partial, from, to)) = Said(r)
         /\ partial # <<>> => Said(Opened(r, partial, from, to))
                                = FlattenSeq(r.finals) \o Pending(Revise(r.adapter, partial, from))
<1> DEFINE o == Opened(r, partial, from, to)
           a == r.adapter
<1>0. Kept(a) /\ r.finals \in Lined BY DEF Gives
<1>1. CASE partial = <<>> BY <1>1 DEF Opened
<1>2. CASE partial # <<>>
  <2> DEFINE v == Revise(a, partial, from)
             up == Rollup(v, FALSE, to)
  <2>1. o.adapter = up.adapter /\ o.finals = r.finals \o up.finals BY <1>2 DEF Opened
  <2>2. Kept(v) BY <1>0, ReviseIs
  <2> HIDE DEF o, v, a
  <2>3. RollsUp(v, FALSE, to, up) BY <2>2, RollupIs
  <2> HIDE DEF up
  <2>4. Kept(up.adapter) /\ up.finals \in Lined /\ FlattenSeq(up.finals) \o Pending(up.adapter) = Pending(v)
    BY <2>3 DEF RollsUp
  <2>7. r.finals \in Seq(Seq(Word)) /\ up.finals \in Seq(Seq(Word)) BY <1>0, <2>4 DEF Lined
  <2>10. FlattenSeq(o.finals) = FlattenSeq(r.finals) \o FlattenSeq(up.finals) BY <2>1, <2>7, FlattenConcat
  <2> DEFINE x == FlattenSeq(r.finals)
             y == FlattenSeq(up.finals)
             z == Pending(up.adapter)
  <2>11. x \in Seq(Word) /\ y \in Seq(Word) /\ z \in Seq(Word) BY <2>4, <2>7, FlattenType, PendingIs
  <2>12. Said(o) = (x \o y) \o z BY <2>1, <2>10 DEF Said
  <2>13. y \o z = Pending(v) BY <2>4
  <2> HIDE DEF x, y, z
  <2>14. (x \o y) \o z = x \o (y \o z) BY <2>11, Associative, SMTT(20)
  <2>15. Said(o) = x \o Pending(v) BY <2>12, <2>13, <2>14
  <2> QED BY <1>2, <2>15 DEF o, v, x, a
<1> QED BY <1>1, <1>2

(***************************************************************************)
(* ingest leaves an adapter that has promoted only words it has, and no    *)
(* line that starts after the sample clock, whatever the hypothesis.       *)
(***************************************************************************)
LEMMA IngestIs ==
  ASSUME NEW a, Kept(a), NEW final \in Seq(Word), NEW partial \in Seq(Word),
         NEW from \in Nat, NEW to \in Nat, a.start <= from, from <= to
  PROVE  Gives(Ingest(a, final, partial, from, to), a.flushed, to)
<1> DEFINE r == Closed(a, final, from, to)
<1>1. Gives(r, a.flushed, from) BY ClosedIs
<1>2. Ingest(a, final, partial, from, to) = Opened(r, partial, from, to) BY DEF Ingest
<1> HIDE DEF r
<1>3. Gives(Opened(r, partial, from, to), a.flushed, to) BY <1>1, OpenedIs
<1> QED BY <1>2, <1>3

(***************************************************************************)
(* A hypothesis in progress that goes on from the words the adapter has    *)
(* adds its new words, once.                                               *)
(***************************************************************************)
LEMMA OpenedExtends ==
  ASSUME NEW r, NEW flushed, NEW w \in Seq(Word), NEW from \in Nat, NEW to \in Nat,
         Gives(r, flushed, from), from <= to
  PROVE  Said(Opened(r, r.adapter.utt \o w, from, to)) = Said(r) \o w
<1> DEFINE a == r.adapter
           partial == a.utt \o w
           o == Opened(r, partial, from, to)
<1>1. Kept(a) /\ r.finals \in Lined BY DEF Gives
<1>2. a.utt \in Seq(Word) BY <1>1 DEF Kept, Adapter
<1>3. partial \in Seq(Word) BY <1>2
<1> DEFINE x == FlattenSeq(r.finals)
           y == Pending(a)
<1>4. x \in Seq(Word) /\ y \in Seq(Word) /\ Said(r) = x \o y BY <1>1, FlattenType, PendingIs DEF Lined, Said
<1>31. /\ partial = <<>> => Said(o) = Said(r)
       /\ partial # <<>> => Said(o) = x \o Pending(Revise(a, partial, from))
  <2> HIDE DEF partial
  <2> QED BY <1>3, OpenedSays
<1>5. CASE partial = <<>>
  <2>1. Said(o) = Said(r) BY <1>31, <1>5
  <2>2. w = <<>> BY <1>2, <1>5, ConcatEqualIffEmpty
  <2>3. x \o y \in Seq(Word)
    <3> HIDE DEF x, y
    <3> QED BY <1>4
  <2>4. Said(r) \o <<>> = Said(r)
    <3> HIDE DEF x, y
    <3> QED BY <1>4, <2>3, ConcatEmptySeq
  <2> QED BY <2>1, <2>2, <2>4
<1>6. CASE partial # <<>>
  <2>1. Said(o) = x \o Pending(Revise(a, partial, from)) BY <1>31, <1>6
  <2>2. Pending(Revise(a, partial, from)) = y \o w BY <1>1, ReviseExtends
  <2>3. Said(o) = x \o (y \o w) BY <2>1, <2>2
  <2> HIDE DEF x, y, o
  <2>4. x \o (y \o w) = (x \o y) \o w BY <1>4, Associative
  <2> QED BY <1>4, <2>3, <2>4 DEF o, partial
<1> QED BY <1>5, <1>6

(***************************************************************************)
(* So does the final text.                                                 *)
(***************************************************************************)
LEMMA ClosedExtends ==
  ASSUME NEW a, Kept(a), NEW w \in Seq(Word), NEW from \in Nat, NEW to \in Nat,
         a.start <= from, from <= to
  PROVE  LET r == Closed(a, a.utt \o w, from, to)
         IN  Gives(r, a.flushed, from) /\ r.adapter.utt = <<>> /\ Said(r) = Pending(a) \o w
<1> DEFINE final == a.utt \o w
           r == Closed(a, final, from, to)
<1>1. a.utt \in Seq(Word) BY DEF Kept, Adapter
<1>2. final \in Seq(Word) BY <1>1
<1>3. Gives(r, a.flushed, from) BY <1>2, ClosedIs
<1>31. final # <<>> => r.adapter.utt = <<>> /\ Said(r) = Pending(Revise(a, final, from))
  <2> HIDE DEF final
  <2> QED BY <1>2, ClosedIs
<1>4. CASE final = <<>>
  <2>1. a.utt = <<>> /\ w = <<>> BY <1>1, <1>4, ConcatEqualIffEmpty
  <2>2. r.adapter = a /\ Said(r) = Pending(a)
    <3> HIDE DEF final
    <3> QED BY <1>4, NothingClosed
  <2>3. Pending(a) \o <<>> = Pending(a) BY PendingIs, ConcatEmptySeq
  <2> HIDE DEF r
  <2>4. r.adapter.utt = <<>> /\ Said(r) = Pending(a) \o w BY <2>1, <2>2, <2>3
  <2> QED BY <1>3, <2>4 DEF r
<1>5. CASE final # <<>>
  <2>1. r.adapter.utt = <<>> /\ Said(r) = Pending(Revise(a, final, from)) BY <1>31, <1>5
  <2>2. Pending(Revise(a, final, from)) = Pending(a) \o w BY ReviseExtends
  <2> HIDE DEF r
  <2> QED BY <1>3, <2>1, <2>2 DEF r
<1> QED BY <1>4, <1>5

(***************************************************************************)
(* A recogniser that goes back on no word: nothing, the utterance so far   *)
(* with new words, in progress or final, or its end and the next one.      *)
(***************************************************************************)
HeardOf(a, final, partial, new) ==
  \/ final = <<>> /\ partial = <<>> /\ new = <<>>
  \/ final = <<>> /\ partial = a.utt \o new
  \/ final = a.utt \o new /\ partial = <<>>
  \/ final = a.utt /\ partial = new

(***************************************************************************)
(* Of such a recogniser, ingest sends or keeps the words pending and the   *)
(* new ones, each once and in order.                                       *)
(***************************************************************************)
LEMMA IngestHeard ==
  ASSUME NEW a, Kept(a), NEW final, NEW partial, NEW new \in Seq(Word), HeardOf(a, final, partial, new),
         NEW from \in Nat, NEW to \in Nat, a.start <= from, from <= to
  PROVE  /\ final \in Seq(Word) /\ partial \in Seq(Word)
         /\ Said(Ingest(a, final, partial, from, to)) = Pending(a) \o new
<1> DEFINE r == Closed(a, final, from, to)
           o == Opened(r, partial, from, to)
<1>1. Ingest(a, final, partial, from, to) = o BY DEF Ingest
<1>2. a.utt \in Seq(Word) /\ Pending(a) \in Seq(Word) /\ <<>> \in Seq(Word) BY PendingIs DEF Kept, Adapter
<1>3. a.utt \o <<>> = a.utt /\ Pending(a) \o <<>> = Pending(a) /\ <<>> \o new = new BY <1>2, ConcatEmptySeq
<1>4. a.utt \o new \in Seq(Word) BY <1>2
<1>5. final \in Seq(Word) /\ partial \in Seq(Word) BY <1>2, <1>4 DEF HeardOf
<1>6. Gives(r, a.flushed, from) BY <1>5, ClosedIs
<1>61. partial = <<>> => Said(o) = Said(r)
  <2> HIDE DEF r
  <2>1. ASSUME partial = <<>> PROVE o = r BY <2>1 DEF Opened
  <2> HIDE DEF o
  <2> QED BY <2>1
<1>7. CASE final = <<>>
  <2>1. r.adapter = a /\ Said(r) = Pending(a) BY <1>7, NothingClosed
  <2>2. CASE partial = a.utt \o new
    <3>1. partial = r.adapter.utt \o new BY <2>1, <2>2
    <3> HIDE DEF r
    <3>2. Said(Opened(r, r.adapter.utt \o new, from, to)) = Said(r) \o new BY <1>6, OpenedExtends
    <3>3. Said(o) = Pending(a) \o new BY <2>1, <3>1, <3>2
    <3> QED BY <1>1, <1>5, <3>3
  <2>3. CASE partial = <<>> /\ new = <<>>
    <3> HIDE DEF r
    <3>1. Said(o) = Said(r) BY <1>61, <2>3
    <3> QED BY <1>1, <1>3, <1>5, <2>1, <2>3, <3>1
  <2>4. \/ partial = <<>> /\ new = <<>>
        \/ partial = a.utt \o new
    <3>1. CASE final = a.utt \o new /\ partial = <<>>
      <4>0. a.utt \o new = <<>> BY <1>7, <3>1
      <4>1. new = <<>> BY <1>2, <4>0, ConcatEqualIffEmpty
      <4> QED BY <3>1, <4>1
    <3>2. CASE final = a.utt /\ partial = new
      <4>1. a.utt \o new = new BY <1>3, <1>7, <3>2
      <4> QED BY <3>2, <4>1
    <3> QED BY <3>1, <3>2 DEF HeardOf
  <2> QED BY <2>2, <2>3, <2>4
<1>8. CASE final # <<>>
  <2>1. CASE final = a.utt \o new /\ partial = <<>>
    <3>1. Said(r) = Pending(a) \o new BY <2>1, ClosedExtends
    <3> HIDE DEF r
    <3>2. Said(o) = Said(r) BY <1>61, <2>1
    <3> QED BY <1>1, <1>5, <3>1, <3>2
  <2>2. CASE final = a.utt /\ partial = new
    <3>1. final = a.utt \o <<>> BY <1>3, <2>2
    <3>2. r.adapter.utt = <<>> /\ Said(r) = Pending(a) \o <<>> BY <1>2, <3>1, ClosedExtends
    <3>3. partial = r.adapter.utt \o new BY <1>3, <2>2, <3>2
    <3> HIDE DEF r
    <3>4. Said(Opened(r, r.adapter.utt \o new, from, to)) = Said(r) \o new BY <1>6, OpenedExtends
    <3>5. Said(o) = Pending(a) \o new BY <1>3, <3>2, <3>3, <3>4
    <3> QED BY <1>1, <1>5, <3>5
  <2> QED BY <1>8, <2>1, <2>2 DEF HeardOf
<1> QED BY <1>7, <1>8

(***************************************************************************)
(* force_final finishes the words pending and adds none.                   *)
(***************************************************************************)
LEMMA ForceFinalIs ==
  ASSUME NEW r, NEW flushed, NEW end \in Nat, Gives(r, flushed, end)
  PROVE  LET t == ForceFinal(r, end)
         IN  /\ Gives(t, TRUE, end) /\ Said(t) = Said(r)
             /\ ~flushed => Pending(t.adapter) = <<>>
<1> DEFINE a == r.adapter
           f == [a EXCEPT !.flushed = TRUE]
           t == ForceFinal(r, end)
<1>1. Kept(a) /\ a.start <= end /\ r.finals \in Lined /\ a.flushed = flushed /\ a \in Adapter BY DEF Gives, Kept
<1>2. f \in Adapter /\ f.utt = a.utt /\ f.promoted = a.promoted /\ f.start = a.start /\ f.flushed = TRUE
  BY <1>1 DEF Adapter
<1> HIDE DEF a
<1>3. Kept(f) /\ Pending(f) = Pending(a) BY <1>1, <1>2 DEF Kept, Pending
<1>4. CASE a.flushed \/ Pending(f) = <<>>
  <2>1. t = [r EXCEPT !.adapter = f] BY <1>4 DEF ForceFinal, a
  <2>2. t.finals = r.finals /\ t.adapter = f
    BY <2>1
  <2> HIDE DEF t, f
  <2>3. Gives(t, TRUE, end) BY <1>1, <1>2, <1>3, <2>2 DEF Gives
  <2>4. Said(t) = Said(r) BY <1>3, <2>2 DEF Said, a
  <2>5. ~flushed => Pending(t.adapter) = <<>> BY <1>1, <1>4, <2>2
  <2> QED BY <2>3, <2>4, <2>5 DEF t
<1>5. CASE ~(a.flushed \/ Pending(f) = <<>>)
  <2> DEFINE up == Rollup(f, TRUE, end)
  <2>1. t.adapter = ResetUtterance(f) /\ t.finals = r.finals \o up.finals BY <1>5 DEF ForceFinal, a
  <2> HIDE DEF t, f
  <2>2. RollsUp(f, TRUE, end, up) BY <1>3, RollupIs
  <2> HIDE DEF up
  <2>3. up.finals \in Lined /\ FlattenSeq(up.finals) \o Pending(up.adapter) = Pending(f)
        /\ Pending(up.adapter) = <<>> BY <2>2 DEF RollsUp
  <2>4. /\ Kept(t.adapter) /\ Pending(t.adapter) = <<>> /\ t.adapter.flushed = TRUE /\ t.adapter.start = NoTime
    BY <1>2, <1>3, <2>1, ResetIs
  <2>5. NoTime <= end BY DEF NoTime
  <2>6. r.finals \in Seq(Seq(Word)) /\ up.finals \in Seq(Seq(Word)) BY <1>1, <2>3 DEF Lined
  <2>7. t.finals \in Lined BY <2>1, <2>6 DEF Lined
  <2>8. Gives(t, TRUE, end) BY <2>4, <2>5, <2>7 DEF Gives
  <2> DEFINE x == FlattenSeq(r.finals)
             y == FlattenSeq(up.finals)
  <2>9. FlattenSeq(t.finals) = x \o y BY <2>1, <2>6, FlattenConcat
  <2>10. x \in Seq(Word) /\ y \in Seq(Word) BY <2>6, FlattenType
  <2>11. Pending(f) = y \o <<>> BY <2>3
  <2>12. Said(t) = (x \o y) \o <<>> BY <2>4, <2>9 DEF Said
  <2>13. Said(r) = x \o Pending(f) BY <1>3 DEF Said, a
  <2> HIDE DEF x, y
  <2>14. (x \o y) \o <<>> = x \o (y \o <<>>)
    <3>1. <<>> \in Seq(Word) OBVIOUS
    <3> QED BY <2>10, <3>1, Associative
  <2>15. Said(t) = Said(r) BY <2>11, <2>12, <2>13, <2>14
  <2> QED BY <2>4, <2>8, <2>15 DEF t
<1> QED BY <1>4, <1>5

-----------------------------------------------------------------------------
(* The sessions. *)

(***************************************************************************)
(* The states of a session.                                                *)
(***************************************************************************)
Session ==
  [config : Latency, opened : BOOLEAN, received : Nat, fed : Nat, rest : Nat, finished : BOOLEAN,
   adapter : Adapter, said : Seq(Word), sent : Seq(Word), tracked : BOOLEAN]

(***************************************************************************)
(* A session in which every sample is fed or left over and, until the      *)
(* recogniser goes back on a word, every word is sent or pending.          *)
(***************************************************************************)
Sound(s) ==
  /\ s \in Session
  /\ s.received = s.fed + s.rest
  /\ Kept(s.adapter) /\ s.adapter.start <= s.fed
  /\ s.tracked => s.said = s.sent \o Pending(s.adapter)
  /\ s.adapter.flushed => Pending(s.adapter) = <<>>

(***************************************************************************)
(* Heard is such a recogniser.                                             *)
(***************************************************************************)
LEMMA HeardIs ==
  ASSUME NEW s, s.adapter.utt \in Seq(Word), NEW out \in Heard(s)
  PROVE  HeardOf(s.adapter, out.final, out.partial, out.new) /\ out.new \in Seq(Word)
<1> DEFINE utt == s.adapter.utt
           more == IF Len(s.said) < MaxWords THEN {<<w>> : w \in Word} ELSE {}
<1>1. \A w \in more \cup {<<>>} : w \in Seq(Word)
  <2>1. \A w \in Word : <<w>> \in Seq(Word) OBVIOUS
  <2>2. <<>> \in Seq(Word) OBVIOUS
  <2>3. \A v \in more \cup {<<>>} : v = <<>> \/ \E w \in Word : v = <<w>> BY Zenon
  <2> HIDE DEF more
  <2> QED BY <2>1, <2>2, <2>3
<1>2. \/ out = [final |-> <<>>, partial |-> <<>>, new |-> <<>>]
      \/ \E w \in more \cup {<<>>} : out = [final |-> <<>>, partial |-> utt \o w, new |-> w]
      \/ \E w \in more \cup {<<>>} : out = [final |-> utt \o w, partial |-> <<>>, new |-> w]
      \/ \E w \in more : out = [final |-> utt, partial |-> w, new |-> w]
  BY Zenon DEF Heard
<1> HIDE DEF more
<1>3. CASE out = [final |-> <<>>, partial |-> <<>>, new |-> <<>>] BY <1>3 DEF HeardOf
<1>4. CASE \E w \in more \cup {<<>>} : out = [final |-> <<>>, partial |-> utt \o w, new |-> w]
  <2>1. PICK w \in more \cup {<<>>} : out = [final |-> <<>>, partial |-> utt \o w, new |-> w] BY <1>4
  <2> QED BY <1>1, <2>1 DEF HeardOf
<1>5. CASE \E w \in more \cup {<<>>} : out = [final |-> utt \o w, partial |-> <<>>, new |-> w]
  <2>1. PICK w \in more \cup {<<>>} : out = [final |-> utt \o w, partial |-> <<>>, new |-> w] BY <1>5
  <2> QED BY <1>1, <2>1 DEF HeardOf
<1>6. CASE \E w \in more : out = [final |-> utt, partial |-> w, new |-> w]
  <2>1. PICK w \in more : out = [final |-> utt, partial |-> w, new |-> w] BY <1>6
  <2> QED BY <1>1, <2>1 DEF HeardOf
<1> QED BY <1>2, <1>3, <1>4, <1>5, <1>6

(***************************************************************************)
(* What the adapter has finished and what it keeps, after a frame.         *)
(***************************************************************************)
Frame(s, n, t) ==
  /\ Kept(t.adapter) /\ t.adapter.start <= s.fed + n /\ t.finals \in Lined
  /\ t.adapter.flushed <=> s.finished
  /\ s.finished => Pending(t.adapter) = <<>>

(***************************************************************************)
(* The adapter's step for a frame: ingest and, at the last frame,          *)
(* force_final.                                                            *)
(***************************************************************************)
Output(s, n, out) ==
  LET r == Ingest(s.adapter, out.final, out.partial, s.fed, s.fed + n)
  IN  IF s.finished THEN ForceFinal(r, s.fed + n) ELSE r

(***************************************************************************)
(* That step adds no word to those of ingest, and at the last frame leaves *)
(* none pending.                                                           *)
(***************************************************************************)
LEMMA OutputIs ==
  ASSUME NEW s, Sound(s), ~s.adapter.flushed, NEW n \in Nat, NEW out,
         out.final \in Seq(Word), out.partial \in Seq(Word)
  PROVE  /\ Frame(s, n, Output(s, n, out))
         /\ Said(Output(s, n, out)) = Said(Ingest(s.adapter, out.final, out.partial, s.fed, s.fed + n))
<1> DEFINE a == s.adapter
           to == s.fed + n
           r == Ingest(a, out.final, out.partial, s.fed, to)
           o == Output(s, n, out)
<1>1. s.fed \in Nat /\ s.finished \in BOOLEAN /\ Kept(a) /\ a.start <= s.fed /\ a.flushed = FALSE
  BY DEF Sound, Session, Kept, Adapter
<1>2. to \in Nat /\ s.fed <= to BY <1>1
<1>3. o = IF s.finished THEN ForceFinal(r, to) ELSE r BY DEF Output
<1> HIDE DEF to, a
<1>4. Gives(r, a.flushed, to) BY <1>1, <1>2, IngestIs
<1>5. Gives(r, FALSE, to) BY <1>1, <1>4
<1> HIDE DEF r, o
<1>6. CASE s.finished
  <2>1. o = ForceFinal(r, to) BY <1>3, <1>6
  <2>2. Gives(o, TRUE, to) /\ Said(o) = Said(r) /\ Pending(o.adapter) = <<>>
    BY <1>2, <1>5, <2>1, ForceFinalIs
  <2>3. Frame(s, n, o) BY <1>6, <2>2 DEF Frame, Gives, to
  <2> QED BY <2>2, <2>3 DEF o, r, a, to
<1>7. CASE ~s.finished
  <2>1. o = r BY <1>3, <1>7
  <2>2. Frame(s, n, o) BY <1>5, <1>7, <2>1 DEF Frame, Gives, to
  <2> QED BY <2>1, <2>2 DEF o, r, a, to
<1> QED BY <1>1, <1>6, <1>7

(***************************************************************************)
(* A session after a frame of n samples.                                   *)
(***************************************************************************)
Fed(s, n, u) ==
  /\ Sound(u) /\ u.rest = s.rest - n /\ u.finished = s.finished
  /\ ~s.finished => ~u.adapter.flushed

(***************************************************************************)
(* A frame, whatever the recogniser makes of it, keeps the session sound.  *)
(***************************************************************************)
LEMMA RecognisedIs ==
  ASSUME NEW s, Sound(s), ~s.adapter.flushed, NEW n \in 0..s.rest, NEW out, NEW tracked,
         \/ s.tracked /\ out \in Heard(s) /\ tracked = TRUE
         \/ out \in Revised /\ tracked = FALSE
  PROVE  Fed(s, n, Recognised(s, n, out, tracked))
<1> DEFINE u == Recognised(s, n, out, tracked)
           t == Output(s, n, out)
           a == s.adapter
<1>0. s \in Session /\ Kept(a) /\ a.utt \in Seq(Word) /\ s.received = s.fed + s.rest
  BY DEF Sound, Session, Kept, Adapter
<1>1. s.fed \in Nat /\ s.rest \in Nat /\ s.received \in Nat /\ n \in Nat /\ n <= s.rest /\ s.finished \in BOOLEAN
      /\ s.said \in Seq(Word) /\ s.sent \in Seq(Word)
  BY <1>0 DEF Session
<1>2. out.final \in Seq(Word) /\ out.partial \in Seq(Word)
  <2>1. CASE s.tracked /\ out \in Heard(s)
    <3>1. HeardOf(a, out.final, out.partial, out.new) /\ out.new \in Seq(Word) BY <1>0, <2>1, HeardIs
    <3>2. <<>> \in Seq(Word) /\ a.utt \o out.new \in Seq(Word) BY <1>0, <3>1
    <3> QED BY <1>0, <3>1, <3>2 DEF HeardOf
  <2>2. CASE out \in Revised
    <3>1. out.final \in Hypotheses(2) /\ out.partial \in Hypotheses(1) BY <2>2 DEF Revised
    <3> QED BY <3>1, HypothesesAre
  <2> QED BY <2>1, <2>2
<1>3. Frame(s, n, t) /\ Said(t) = Said(Ingest(a, out.final, out.partial, s.fed, s.fed + n))
  BY <1>1, <1>2, OutputIs
<1>4. u = [s EXCEPT !.fed = @ + n, !.rest = @ - n, !.tracked = tracked, !.adapter = t.adapter,
                    !.said = IF tracked THEN @ \o out.new ELSE <<>>,
                    !.sent = IF tracked THEN @ \o FlattenSeq(t.finals) ELSE <<>>]
  BY DEF Recognised, Output
<1>5. Kept(t.adapter) /\ t.adapter \in Adapter /\ t.finals \in Seq(Seq(Word)) BY <1>3 DEF Frame, Kept, Lined
<1> DEFINE x == FlattenSeq(t.finals)
           z == Pending(t.adapter)
<1>6. x \in Seq(Word) /\ z \in Seq(Word) /\ Said(t) = x \o z BY <1>5, FlattenType, PendingIs DEF Said
<1> HIDE DEF u, t, a, x
<1>61. u.fed = s.fed + n /\ u.rest = s.rest - n /\ u.tracked = tracked /\ u.adapter = t.adapter
       /\ u.received = s.received /\ u.finished = s.finished
  BY <1>0, <1>4 DEF Session
<1>62. ASSUME u.said \in Seq(Word), u.sent \in Seq(Word), tracked \in BOOLEAN PROVE u \in Session
  <2>1. s.fed + n \in Nat /\ s.rest - n \in Nat BY <1>1
  <2> DEFINE f == s.fed + n
             g == s.rest - n
             v == u.said
             x1 == u.sent
  <2>2. u = [s EXCEPT !.fed = f, !.rest = g, !.tracked = tracked, !.adapter = t.adapter, !.said = v, !.sent = x1]
    BY <1>0, <1>4 DEF Session
  <2>3. f \in Nat /\ g \in Nat /\ v \in Seq(Word) /\ x1 \in Seq(Word) BY <1>62, <2>1
  <2> HIDE DEF f, g, v, x1
  <2> QED BY <1>0, <1>5, <1>62, <2>2, <2>3 DEF Session
<1>7. CASE s.tracked /\ out \in Heard(s) /\ tracked = TRUE
  <2>1. HeardOf(a, out.final, out.partial, out.new) /\ out.new \in Seq(Word) BY <1>0, <1>7, HeardIs DEF a
  <2>2. s.fed <= s.fed + n /\ s.fed + n \in Nat /\ a.start <= s.fed BY <1>1 DEF Sound, a
  <2>3. Said(Ingest(a, out.final, out.partial, s.fed, s.fed + n)) = Pending(a) \o out.new
    <3> DEFINE to == s.fed + n
    <3>1. to \in Nat /\ s.fed <= to BY <2>2
    <3> HIDE DEF to
    <3> DEFINE final == out.final
               partial == out.partial
               new == out.new
               from == s.fed
    <3>2. /\ Kept(a) /\ new \in Seq(Word) /\ HeardOf(a, final, partial, new)
          /\ from \in Nat /\ a.start <= from /\ from <= to
      BY <1>0, <1>1, <2>1, <2>2, <3>1
    <3> HIDE DEF final, partial, new, from
    <3>3. Said(Ingest(a, final, partial, from, to)) = Pending(a) \o new
      BY <3>1, <3>2, IngestHeard
    <3> QED BY <3>3 DEF to, from, final, partial, new
  <2> DEFINE new == out.new
             y == Pending(a)
             sent == s.sent
  <2>4. x \o z = y \o new BY <1>3, <1>6, <2>3
  <2>5. s.said = sent \o y BY <1>7 DEF Sound, a
  <2>6. u.said = (sent \o y) \o new /\ u.sent = sent \o x /\ u.adapter = t.adapter
    BY <1>0, <1>4, <1>7, <2>5 DEF Session, x
  <2>7. y \in Seq(Word) /\ new \in Seq(Word) /\ sent \in Seq(Word) BY <1>0, <1>1, <2>1, PendingIs
  <2> HIDE DEF y, new, sent, z
  <2>8. (sent \o y) \o new = sent \o (y \o new) BY <2>7, Associative, SMTT(20)
  <2>9. (sent \o x) \o z = sent \o (x \o z) BY <1>6, <2>7, Associative, SMTT(20)
  <2>10. u.said = u.sent \o z BY <2>4, <2>6, <2>8, <2>9
  <2>11. u.said \in Seq(Word) /\ u.sent \in Seq(Word) BY <1>6, <2>6, <2>7
  <2>12. u \in Session BY <1>62, <1>7, <2>11
  <2>13. u.received = u.fed + u.rest /\ u.rest = s.rest - n /\ u.finished = s.finished /\ u.fed = s.fed + n
    BY <1>0, <1>1, <1>61
  <2> QED BY <1>3, <1>5, <2>6, <2>10, <2>12, <2>13 DEF Fed, Sound, Frame, u, z
<1>8. CASE out \in Revised /\ tracked = FALSE
  <2>1. <<>> \in Seq(Word) OBVIOUS
  <2>11. u.said = <<>> /\ u.sent = <<>> BY <1>0, <1>4, <1>8 DEF Session
  <2>2. u \in Session BY <1>62, <1>8, <2>1, <2>11
  <2>3. u.received = u.fed + u.rest /\ u.rest = s.rest - n /\ u.finished = s.finished /\ u.fed = s.fed + n
        /\ u.tracked = FALSE /\ u.adapter = t.adapter
    BY <1>0, <1>1, <1>8, <1>61
  <2> QED BY <1>3, <1>5, <2>2, <2>3 DEF Fed, Sound, Frame, u
<1> QED BY <1>7, <1>8

(***************************************************************************)
(* What a stream's place says of its session: less than a frame is left    *)
(* over while it waits for a message, and the adapter is flushed only by   *)
(* the last frame.                                                         *)
(***************************************************************************)
Busy(c) ==
  /\ pc[c] \in Serving \cup {"closing"}
  /\ pc[c] \in {"serving", "answering"} => session[c].rest < FRAME
  /\ pc[c] \in Serving => ~session[c].adapter.flushed /\ (session[c].finished <=> pc[c] = "flushing")

(***************************************************************************)
(* A stream has no session or a sound one.                                 *)
(***************************************************************************)
StreamWhole(c) ==
  \/ session[c] = NoSession /\ pc[c] \notin Serving
  \/ Sound(session[c]) /\ Busy(c)

(***************************************************************************)
(* The inductive invariant, with NInv.                                     *)
(***************************************************************************)
Whole == \A c \in Stream : StreamWhole(c)

(***************************************************************************)
(* A stream's step does nothing to the others.                             *)
(***************************************************************************)
LEMMA Others ==
  ASSUME Whole, NEW c \in Stream, StreamWhole(c)',
         \A d \in Stream \ {c} : session'[d] = session[d] /\ pc'[d] = pc[d]
  PROVE  Whole'
BY DEF Whole, StreamWhole, Busy

(***************************************************************************)
(* Opening or closing the engine.                                          *)
(***************************************************************************)
LEMMA OpenedSound ==
  ASSUME NEW s, Sound(s), NEW b \in BOOLEAN
  PROVE  LET u == [s EXCEPT !.opened = b]
         IN  /\ Sound(u) /\ u.rest = s.rest /\ u.adapter = s.adapter /\ u.finished = s.finished
<1> DEFINE u == [s EXCEPT !.opened = b]
<1>1. s \in Session BY DEF Sound
<1>2. /\ u.rest = s.rest /\ u.adapter = s.adapter /\ u.finished = s.finished /\ u.received = s.received
      /\ u.fed = s.fed /\ u.tracked = s.tracked /\ u.said = s.said /\ u.sent = s.sent
  BY <1>1 DEF Session
<1>3. u \in Session BY <1>1 DEF Session
<1> HIDE DEF u
<1>4. Sound(u) BY <1>2, <1>3 DEF Sound
<1> QED BY <1>2, <1>4 DEF u

(***************************************************************************)
(* A new session.                                                          *)
(***************************************************************************)
LEMMA NewIsSound ==
  ASSUME NEW l \in Latency
  PROVE  /\ Sound(NewSession(l)) /\ NewSession(l).rest = 0 /\ ~NewSession(l).finished
         /\ ~NewSession(l).adapter.flushed
<1> DEFINE s == NewSession(l)
<1>1. <<>> \in Seq(Word) /\ NewAdapter \in Adapter BY NewAdapterIs
<1>2. s \in Session BY <1>1 DEF NewSession, Session
<1>3. /\ s.rest = 0 /\ s.finished = FALSE /\ s.adapter = NewAdapter /\ s.received = 0 /\ s.fed = 0
      /\ s.said = <<>> /\ s.sent = <<>>
  BY DEF NewSession
<1> HIDE DEF s
<1>4. Kept(NewAdapter) /\ NoTime <= 0 BY NewAdapterIs DEF Kept, NoTime
<1>5. Pending(NewAdapter) = <<>>
  <2>1. Len(Pending(NewAdapter)) = 0 /\ Pending(NewAdapter) \in Seq(Word)
    BY <1>4, PendingIs, NewAdapterIs
  <2> QED BY <2>1
<1>6. <<>> \o <<>> = <<>> BY <1>1, ConcatEmptySeq
<1>7. Sound(s) BY <1>2, <1>3, <1>4, <1>5, <1>6, NewAdapterIs DEF Sound
<1> QED BY <1>3, <1>7, NewAdapterIs DEF s

(***************************************************************************)
(* push_float32 joins the samples of a message to the rest.                *)
(***************************************************************************)
LEMMA PushedSound ==
  ASSUME NEW s, Sound(s), NEW n \in Nat
  PROVE  LET u == [s EXCEPT !.opened = TRUE, !.received = @ + n, !.rest = @ + n]
         IN  Sound(u) /\ u.adapter = s.adapter /\ u.finished = s.finished
<1> DEFINE u == [s EXCEPT !.opened = TRUE, !.received = @ + n, !.rest = @ + n]
<1>1. s \in Session /\ s.received = s.fed + s.rest BY DEF Sound
<1>2. s.received \in Nat /\ s.fed \in Nat /\ s.rest \in Nat BY <1>1 DEF Session
<1>3. /\ u.rest = s.rest + n /\ u.adapter = s.adapter /\ u.finished = s.finished /\ u.received = s.received + n
      /\ u.fed = s.fed /\ u.tracked = s.tracked /\ u.said = s.said /\ u.sent = s.sent
  BY <1>1 DEF Session
<1>4. u \in Session
  <2> DEFINE f == s.received + n
             g == s.rest + n
  <2>1. f \in Nat /\ g \in Nat BY <1>2
  <2>2. u = [s EXCEPT !.opened = TRUE, !.received = f, !.rest = g] OBVIOUS
  <2> HIDE DEF f, g
  <2> QED BY <1>1, <2>1, <2>2 DEF Session
<1> HIDE DEF u
<1>5. u.received = u.fed + u.rest BY <1>1, <1>2, <1>3
<1>6. Sound(u) BY <1>3, <1>4, <1>5 DEF Sound
<1> QED BY <1>3, <1>6 DEF u

(***************************************************************************)
(* The end of the audio.                                                   *)
(***************************************************************************)
LEMMA EndedSound ==
  ASSUME NEW s, Sound(s)
  PROVE  LET u == [s EXCEPT !.opened = TRUE, !.finished = TRUE]
         IN  Sound(u) /\ u.adapter = s.adapter /\ u.finished
<1> DEFINE u == [s EXCEPT !.opened = TRUE, !.finished = TRUE]
<1>1. s \in Session BY DEF Sound
<1>2. /\ u.rest = s.rest /\ u.adapter = s.adapter /\ u.finished = TRUE /\ u.received = s.received
      /\ u.fed = s.fed /\ u.tracked = s.tracked /\ u.said = s.said /\ u.sent = s.sent
  BY <1>1 DEF Session
<1>3. u \in Session BY <1>1 DEF Session
<1> HIDE DEF u
<1>4. Sound(u) BY <1>2, <1>3 DEF Sound
<1> QED BY <1>2, <1>4 DEF u

(***************************************************************************)
(* A frame of a stream that is served.                                     *)
(***************************************************************************)
LEMMA FrameSound ==
  ASSUME NEW c \in Stream, Sound(session[c]), ~session[c].adapter.flushed, DOMAIN session = Stream,
         NEW n \in 0..session[c].rest, NEW after \in BOOLEAN, Recognises(c, n, after)
  PROVE  /\ Sound(session'[c]) /\ session'[c].rest = session[c].rest - n
         /\ session'[c].finished = session[c].finished
         /\ ~session[c].finished => ~session'[c].adapter.flushed
         /\ \A d \in Stream \ {c} : session'[d] = session[d]
<1>1. PICK out, tracked :
        /\ session' = [session EXCEPT ![c] = [Recognised(@, n, out, tracked) EXCEPT !.opened = after]]
        /\ \/ session[c].tracked /\ out \in Heard(session[c]) /\ tracked = TRUE
           \/ out \in Revised /\ tracked = FALSE
  BY DEF Recognises
<1> DEFINE s == session[c]
           u == Recognised(s, n, out, tracked)
           v == [u EXCEPT !.opened = after]
<1>2. session' = [session EXCEPT ![c] = v] BY <1>1
<1>3. Fed(s, n, u) BY <1>1, RecognisedIs
<1> HIDE DEF u
<1>4. Sound(v) /\ v.rest = u.rest /\ v.adapter = u.adapter /\ v.finished = u.finished
  BY <1>3, OpenedSound DEF Fed
<1> HIDE DEF v
<1>5. session'[c] = v BY <1>2
<1> QED BY <1>2, <1>3, <1>4, <1>5 DEF Fed

(***************************************************************************)
(* At first there is no session.                                           *)
(***************************************************************************)
LEMMA InitWhole == Init => Whole
BY DEF Init, Whole, StreamWhole, Serving

(***************************************************************************)
(* A move of a stream that leaves its session alone.                       *)
(***************************************************************************)
LEMMA MovedWhole ==
  ASSUME ServerTypes, Whole, NEW c \in Stream, NEW place, Goto(c, place), UNCHANGED session,
         place \in Serving => pc[c] \in Serving,
         place \in Serving \cup {"closing"} \/ session[c] = NoSession,
         place \in {"serving", "answering"} => session[c].rest < FRAME,
         (place = "flushing" <=> pc[c] = "flushing") \/ place \notin Serving
  PROVE  Whole'
<1>1. c \in Client BY DEF Client
<1>2. pc'[c] = place /\ \A d \in Stream \ {c} : session'[d] = session[d] /\ pc'[d] = pc[d]
  BY <1>1, Moved DEF Client
<1>3. StreamWhole(c) BY DEF Whole
<1>4. session'[c] = session[c] OBVIOUS
<1>5. StreamWhole(c)'
  <2>1. CASE session[c] = NoSession /\ pc[c] \notin Serving BY <1>2, <1>4, <2>1 DEF StreamWhole
  <2>2. CASE Sound(session[c]) /\ Busy(c) /\ place \in Serving \cup {"closing"}
    BY <1>2, <1>4, <2>2 DEF StreamWhole, Busy, Serving
  <2>3. CASE session[c] = NoSession /\ place \notin Serving BY <1>2, <1>4, <2>3 DEF StreamWhole
  <2> QED BY <1>3, <2>1, <2>2, <2>3 DEF StreamWhole
<1> QED BY <1>2, <1>5, Others

(***************************************************************************)
(* Every step of a stream keeps the transcripts whole.                     *)
(***************************************************************************)
LEMMA StreamKeepsWhole ==
  ASSUME NInv, Whole, NEW c \in Stream,
         \/ Connect(c) \/ Leave(c) \/ EngineOpenFails(c) \/ End(c) \/ Serve(c)
         \/ \E l \in Latency : Start(c, l) \/ StartFails(c, l)
         \/ \E n \in Chunks : Push(c, n)
  PROVE  Whole'
<1>0. ServerTypes /\ c \in Client /\ StreamWhole(c) /\ DOMAIN session = Stream
  BY DEF NInv, Client, Whole, ServerTypes
<1>01. pc[c] \in {"serving", "stepping", "flushing", "answering"} => Sound(session[c]) /\ Busy(c)
  BY <1>0 DEF StreamWhole, Serving
<1>02. pc[c] \in {"away", "starting"} => session[c] = NoSession
  BY <1>0 DEF StreamWhole, Busy, Serving
<1>1. CASE Connect(c)
  BY <1>0, <1>02, <1>1, MovedWhole DEF Connect, Serving
<1>2. CASE Leave(c)
  BY <1>0, <1>2, MovedWhole DEF Leave, Serving
<1>12. CASE EngineOpenFails(c)
  BY <1>0, <1>12, MovedWhole DEF EngineOpenFails, Serving
<1>3. CASE End(c)
  <2> DEFINE s == session[c]
             u == [s EXCEPT !.opened = TRUE, !.finished = TRUE]
  <2>1. pc[c] = "serving" /\ Goto(c, "flushing") /\ session' = [session EXCEPT ![c] = u]
    BY <1>3 DEF End
  <2>2. Sound(u) /\ u.adapter = s.adapter /\ u.finished /\ ~s.adapter.flushed
    BY <1>01, <2>1, EndedSound DEF Busy, Serving
  <2> HIDE DEF u
  <2>3. session'[c] = u /\ pc'[c] = "flushing"
        /\ \A d \in Stream \ {c} : session'[d] = session[d] /\ pc'[d] = pc[d]
    BY <1>0, <2>1, Moved DEF Client
  <2>4. StreamWhole(c)' BY <2>2, <2>3 DEF StreamWhole, Busy, Serving
  <2> QED BY <2>3, <2>4, Others
<1>4. CASE \E n \in Chunks : Push(c, n)
  <2>1. PICK n \in Chunks : Push(c, n) BY <1>4
  <2> DEFINE s == session[c]
             u == [s EXCEPT !.opened = TRUE, !.received = @ + n, !.rest = @ + n]
  <2>2. pc[c] = "serving" /\ Goto(c, "stepping") /\ session' = [session EXCEPT ![c] = u]
    BY <2>1 DEF Push
  <2>3. Sound(u) /\ u.adapter = s.adapter /\ u.finished = s.finished
    <3>1. n \in Nat BY ServerAssumption
    <3> QED BY <1>01, <2>2, <3>1, PushedSound
  <2>4. ~s.adapter.flushed /\ ~s.finished BY <1>01, <2>2 DEF Busy, Serving
  <2> HIDE DEF u
  <2>5. session'[c] = u /\ pc'[c] = "stepping"
        /\ \A d \in Stream \ {c} : session'[d] = session[d] /\ pc'[d] = pc[d]
    BY <1>0, <2>2, Moved DEF Client
  <2>6. StreamWhole(c)' BY <2>3, <2>4, <2>5 DEF StreamWhole, Busy, Serving
  <2> QED BY <2>5, <2>6, Others
<1>5. CASE \E l \in Latency : Start(c, l)
  <2>1. PICK l \in Latency : Start(c, l) BY <1>5
  <2>2. Goto(c, "serving") /\ session' = [session EXCEPT ![c] = NewSession(l)] BY <2>1 DEF Start
  <2>3. session'[c] = NewSession(l) /\ pc'[c] = "serving"
        /\ \A d \in Stream \ {c} : session'[d] = session[d] /\ pc'[d] = pc[d]
    BY <1>0, <2>2, Moved DEF Client
  <2>4. 0 < FRAME BY ServerAssumption
  <2>5. StreamWhole(c)' BY <2>3, <2>4, NewIsSound DEF StreamWhole, Busy, Serving
  <2> QED BY <2>3, <2>5, Others
<1>6. CASE \E l \in Latency : StartFails(c, l)
  <2>1. PICK l \in Latency : StartFails(c, l) BY <1>6
  <2> QED BY <1>0, <2>1, MovedWhole DEF StartFails, Serving
<1>7. CASE Step(c)
  <2>1. pc[c] = "stepping" /\ Sound(session[c]) /\ ~session[c].adapter.flushed /\ ~session[c].finished
    BY <1>01, <1>7 DEF Step, Busy, Serving
  <2>2. CASE session[c].rest >= FRAME
    <3>1. Recognises(c, FRAME, TRUE) /\ UNCHANGED pc BY <1>7, <2>2 DEF Step
    <3>2. FRAME \in 0..session[c].rest
      <4>1. session[c].rest \in Nat BY <2>1 DEF Sound, Session
      <4> QED BY <2>2, <4>1, ServerAssumption
    <3>3. /\ Sound(session'[c]) /\ session'[c].finished = session[c].finished
          /\ ~session[c].finished => ~session'[c].adapter.flushed
          /\ \A d \in Stream \ {c} : session'[d] = session[d]
      BY <1>0, <2>1, <3>1, <3>2, FrameSound
    <3>4. StreamWhole(c)' BY <2>1, <3>1, <3>3 DEF StreamWhole, Busy, Serving
    <3> QED BY <3>1, <3>3, <3>4, Others
  <2>3. CASE ~(session[c].rest >= FRAME)
    <3>1. Goto(c, "answering") /\ UNCHANGED session BY <1>7, <2>3 DEF Step
    <3>2. session[c].rest < FRAME
      <4>1. session[c].rest \in Nat BY <2>1 DEF Sound, Session
      <4> QED BY <2>3, <4>1, ServerAssumption
    <3> QED BY <1>0, <2>1, <3>1, <3>2, MovedWhole DEF Serving
  <2> QED BY <2>2, <2>3
<1>8. CASE Answer(c)
  <2>1. session[c].rest < FRAME BY <1>01, <1>8 DEF Answer, Busy
  <2> QED BY <1>0, <1>8, <2>1, MovedWhole DEF Answer, Serving
<1>9. CASE StepFails(c)
  BY <1>0, <1>9, MovedWhole DEF StepFails, Serving
<1>10. CASE Flush(c)
  <2>1. pc[c] = "flushing" /\ Sound(session[c]) /\ ~session[c].adapter.flushed
    BY <1>01, <1>10 DEF Flush, Busy, Serving
  <2>2. Recognises(c, session[c].rest, FALSE) /\ Goto(c, "closing") BY <1>10 DEF Flush
  <2>3. session[c].rest \in 0..session[c].rest
    <3>1. session[c].rest \in Nat BY <2>1 DEF Sound, Session
    <3> QED BY <3>1
  <2>4. Sound(session'[c]) /\ \A d \in Stream \ {c} : session'[d] = session[d]
    BY <1>0, <2>1, <2>2, <2>3, FrameSound
  <2>5. pc'[c] = "closing" /\ \A d \in Stream \ {c} : pc'[d] = pc[d]
    BY <1>0, <2>2, Moved DEF Client
  <2>6. StreamWhole(c)' BY <2>4, <2>5 DEF StreamWhole, Busy, Serving
  <2> QED BY <2>4, <2>5, <2>6, Others
<1>11. CASE Finish(c)
  <2>1. Goto(c, "away") /\ session' = [session EXCEPT ![c] = NoSession] BY <1>11 DEF Finish
  <2>2. session'[c] = NoSession /\ pc'[c] = "away"
        /\ \A d \in Stream \ {c} : session'[d] = session[d] /\ pc'[d] = pc[d]
    BY <1>0, <2>1, Moved DEF Client
  <2>3. StreamWhole(c)' BY <2>2 DEF StreamWhole, Serving
  <2> QED BY <2>2, <2>3, Others
<1> QED BY <1>1, <1>2, <1>3, <1>4, <1>5, <1>6, <1>7, <1>8, <1>9, <1>10, <1>11, <1>12
   DEF Serve

(***************************************************************************)
(* An upload has nothing to do with the sessions.                          *)
(***************************************************************************)
LEMMA UploadKeepsWhole ==
  ASSUME NInv, Whole, NEW c \in Upload, Transcribe(c) \/ Transcribed(c)
  PROVE  Whole'
<1>1. PICK place \in {"transcribing", "away"} : Goto(c, place) BY DEF Transcribe, Transcribed
<1>2. UNCHANGED session /\ pc[c] \in {"away", "transcribing"} BY DEF Transcribe, Transcribed
<1>3. ServerTypes /\ c \in Client BY DEF NInv, Client
<1>4. pc'[c] = place /\ \A d \in Stream \ {c} : pc'[d] = pc[d] BY <1>1, <1>3, Moved DEF Client
<1> QED BY <1>2, <1>4 DEF Whole, StreamWhole, Busy, Serving

(***************************************************************************)
(* Every step does.                                                        *)
(***************************************************************************)
LEMMA NextWhole == NInv /\ Whole /\ [Next]_vars => Whole'
<1> SUFFICES ASSUME NInv, Whole, [Next]_vars PROVE Whole'
  OBVIOUS
<1>1. CASE Load \/ (\E c \in Stream \cup Upload : Refuse(c)) \/ UNCHANGED vars
  <2>1. UNCHANGED <<pc, session>> BY <1>1 DEF Load, Refuse, vars
  <2> QED BY <2>1 DEF Whole, StreamWhole, Busy
<1>2. CASE \E c \in Stream :
        \/ Connect(c) \/ Leave(c) \/ EngineOpenFails(c) \/ End(c) \/ Serve(c)
        \/ \E l \in Latency : Start(c, l) \/ StartFails(c, l)
        \/ \E n \in Chunks : Push(c, n)
  BY <1>2, StreamKeepsWhole
<1>3. CASE \E c \in Upload : Transcribe(c) \/ Transcribed(c)
  BY <1>3, UploadKeepsWhole
<1> QED BY <1>1, <1>2, <1>3 DEF Next

(***************************************************************************)
(* The invariant is what TranscriptWhole says.                             *)
(***************************************************************************)
LEMMA WholeIsWhole == Whole => TranscriptWhole
<1> SUFFICES ASSUME Whole PROVE TranscriptWhole
  OBVIOUS
<1>1. ASSUME NEW c \in Stream, session[c] # NoSession
      PROVE  LET s == session[c]
             IN  /\ s.received = s.fed + s.rest
                 /\ pc[c] \in {"serving", "answering"} => s.rest < FRAME
                 /\ s.adapter.promoted \in 0..Len(s.adapter.utt)
                 /\ s.adapter.start <= s.fed
                 /\ s.tracked => s.said = s.sent \o Pending(s.adapter)
                 /\ (s.adapter.flushed /\ s.tracked) => s.said = s.sent
  <2> DEFINE s == session[c]
  <2>1. Sound(s) /\ Busy(c) BY <1>1 DEF Whole, StreamWhole
  <2>2. s.adapter.promoted \in 0..Len(s.adapter.utt) BY <2>1, PendingIs DEF Sound
  <2>3. s.sent \in Seq(Word) BY <2>1 DEF Sound, Session
  <2>4. s.sent \o <<>> = s.sent BY <2>3, ConcatEmptySeq
  <2>5. (s.adapter.flushed /\ s.tracked) => s.said = s.sent BY <2>1, <2>4 DEF Sound
  <2> QED BY <2>1, <2>2, <2>5 DEF Sound, Busy
<1> QED BY <1>1, BoundaryIsPreserved, LinesAreWhole DEF TranscriptWhole

(***************************************************************************)
(* Every sample is fed once; every word of a recogniser that goes back on  *)
(* none is sent once and in order; a revision moves no word its alignment  *)
(* keeps across the boundary; no line starts after the sample clock        *)
(* (NemotronSession and TranscriptAdapter): for any number of streams,     *)
(* messages of any size and utterances of any length, wherever a client    *)
(* leaves or a step fails.                                                 *)
(***************************************************************************)
THEOREM TranscriptIsWhole == Spec => []TranscriptWhole
<1>1. Spec => []NInv BY InitServer, NextKeeps, PTL DEF Spec
<1>2. Spec => []Whole BY <1>1, InitWhole, NextWhole, PTL DEF Spec
<1> QED BY <1>2, WholeIsWhole, PTL
=============================================================================
