--------------------------- MODULE LifecycleProofs ---------------------------
(***************************************************************************)
(* Proofs about Lifecycle, for every queue length, set of modes and bound: *)
(* the register mapping is counted right, what a component acknowledged    *)
(* stays true, a shutdown that is not forced is clean, and every step is a *)
(* step of Coordinator; and, for queues with room for what can wait in     *)
(* them (RoomyQueues), that no failure goes unreported and QP never        *)
(* asserts.                                                                *)
(***************************************************************************)
EXTENDS Lifecycle, FiniteSetTheorems, TLAPS

(***************************************************************************)
(* The inductive invariant.  Allowed is what may wait in a queue: a        *)
(* COMPONENT_READY only from a component, a SYSTEM_STOPPED only from one   *)
(* that is stopped, a SYSTEM_STOP only while SystemAO is stopping.  It     *)
(* only grows, so events that were right when posted are right when they   *)
(* are handled.                                                            *)
(***************************************************************************)
Allowed == {e \in Event : /\ e.sig = "READY" => e.src \in Comp
                          /\ e.sig = "STOPPED" => e.src \in Quiet
                          /\ e.sig = "STOP" => sysState = "stopping"}

QueuesOver(q, S) == /\ q \in [AO -> Seq(S)]
                    /\ \A a \in AO : Len(q[a]) <= QueueLen[a] + 1

QueueOK == QueuesOver(queue, Allowed)

OtherTypes ==
  /\ proc \in {"running", "halted", "asserted"}
  /\ sysState \in {"init", "run", "stopping"}
  /\ readyMask \subseteq Comp /\ stoppedMask \subseteq Comp
  /\ subtitleInit \in BOOLEAN /\ timedOut \in BOOLEAN
  /\ ao \in [Comp -> {"idle", "up", "error", "stopping", "stopped"}]
  /\ running \in [Comp -> BOOLEAN]
  /\ armed \subseteq Timer
  /\ worker \in [Threaded -> {"none", "live", "done", "joined"}]
  /\ stopReq \in [Threaded -> BOOLEAN]
  /\ fatal \in BOOLEAN /\ activeClient \in BOOLEAN /\ sinkBound \in BOOLEAN
  /\ stream \in Mode \cup {NoMode} /\ subtitleDim \in Mode \cup {NoMode}
  /\ readyPosted \in BOOLEAN
  /\ sigPending \in BOOLEAN /\ sigPosted \in BOOLEAN

Refs == /\ refcount = (IF running["video"] THEN 1 ELSE 0)
                      + (IF running["subtitle"] THEN 1 ELSE 0)
        /\ mapped = (refcount > 0)

ResourceOK(c) ==
  /\ ao[c] \in {"idle", "stopped"} => ~running[c]
  /\ c \in armed => running[c]
  /\ (c \in Threaded /\ ~running[c]) => worker[c] \in {"none", "joined"}
  /\ ao[c] = "stopping" => sysState = "stopping"
Resources == \A c \in Comp : ResourceOK(c)

Ending ==
  /\ stoppedMask \subseteq Quiet
  /\ sysState = "stopping" => "init" \notin armed
  /\ proc = "running" => ~timedOut
  /\ (proc = "halted" /\ ~timedOut) =>
        stoppedMask = Comp /\ "shutdown" \notin armed /\ sysState = "stopping"

IInv == QueueOK /\ OtherTypes /\ Refs /\ Resources /\ Ending

-----------------------------------------------------------------------------
(***************************************************************************)
(* The queue operators keep any set S of admissible events and the         *)
(* capacity: a post never makes a queue longer than QP allows.             *)
(***************************************************************************)
LEMMA PostXKeeps ==
  ASSUME NEW S, NEW q, QueuesOver(q, S), NEW a \in AO, NEW e \in S, NEW margin \in Nat
  PROVE  QueuesOver(PostX(q, a, e, margin), S)
<1>1. CASE Free(q, a) > margin
  <2>1. Append(q[a], e) \in Seq(S) /\ Len(Append(q[a], e)) = Len(q[a]) + 1
    BY DEF QueuesOver
  <2>2. Len(q[a]) + 1 <= QueueLen[a] + 1
    BY <1>1, QueueLenAssumption DEF Free, QueuesOver
  <2> QED BY <1>1, <2>1, <2>2 DEF PostX, QueuesOver
<1>2. CASE ~(Free(q, a) > margin)
  BY <1>2 DEF PostX
<1> QED BY <1>1, <1>2

(***************************************************************************)
(* Taking the oldest event leaves admissible queues, and it was            *)
(* admissible.                                                             *)
(***************************************************************************)
LEMMA PoppedKeeps ==
  ASSUME NEW S, QueuesOver(queue, S), NEW a \in AO, queue[a] # <<>>
  PROVE  /\ QueuesOver(Popped(a), S)
         /\ Current(a) \in S
<1>1. queue[a] \in Seq(S)
  BY DEF QueuesOver
<1>2. Tail(queue[a]) \in Seq(S) /\ Len(Tail(queue[a])) = Len(queue[a]) - 1
  BY <1>1
<1>3. Head(queue[a]) \in S
  BY <1>1
<1>4. Len(queue[a]) - 1 <= QueueLen[a] + 1
  BY <1>1, QueueLenAssumption DEF QueuesOver
<1> QED BY <1>2, <1>3, <1>4 DEF QueuesOver, Popped, Current

(***************************************************************************)
(* SYSTEM_STOP reaches every component that has room for it.               *)
(***************************************************************************)
LEMMA BroadcastKeeps ==
  ASSUME NEW S, NEW q, QueuesOver(q, S), Evt("STOP", "system") \in S
  PROVE  QueuesOver(BroadcastStop(q), S)
<1> DEFINE stop(a) == PostX(q, a, Evt("STOP", "system"), 0)
<1>1. \A a \in AO : QueuesOver(stop(a), S)
  BY PostXKeeps
<1>2. \A a \in AO : stop(a)[a] \in Seq(S) /\ Len(stop(a)[a]) <= QueueLen[a] + 1
  BY <1>1 DEF QueuesOver
<1> QED BY <1>2 DEF BroadcastStop, QueuesOver, AO

(***************************************************************************)
(* Queues of admissible events stay so when more becomes admissible.       *)
(***************************************************************************)
LEMMA QueuesMonotone ==
  ASSUME NEW S, NEW T, S \subseteq T, NEW q, QueuesOver(q, S)
  PROVE  QueuesOver(q, T)
<1>1. \A s \in Seq(S) : s \in Seq(T)
  OBVIOUS
<1> QED BY <1>1 DEF QueuesOver

(***************************************************************************)
(* Events are built with the signal and source they are given.             *)
(***************************************************************************)
LEMMA EventTypes ==
  /\ \A sig \in Signal, src \in AO :
        Evt(sig, src) \in Event /\ Evt(sig, src).sig = sig /\ Evt(sig, src).src = src
  /\ \A sig \in Signal, src \in AO, dim \in Mode \cup {NoMode} :
        /\ DimEvt(sig, src, dim) \in Event
        /\ DimEvt(sig, src, dim).sig = sig /\ DimEvt(sig, src, dim).src = src
  BY DEF Evt, DimEvt, Event

(***************************************************************************)
(* The inductive invariant gives the type invariant.                       *)
(***************************************************************************)
LEMMA TypesFollow == IInv => TypeOK
<1>1. Allowed \subseteq Event
  BY DEF Allowed
<1>2. IInv => QueuesOver(queue, Event)
  BY <1>1, QueuesMonotone DEF IInv, QueueOK
<1>3. IInv => refcount \in Nat /\ mapped \in BOOLEAN
  BY DEF IInv, Refs
<1> QED BY <1>2, <1>3 DEF IInv, OtherTypes, TypeOK, QueuesOver

-----------------------------------------------------------------------------
(***************************************************************************)
(* What a step may add to the queues.  Growing says that Quiet only grows  *)
(* and that stopping is for good, which makes Allowed grow.                *)
(***************************************************************************)
Growing == /\ Quiet \subseteq Quiet'
           /\ sysState = "stopping" => sysState' = "stopping"

(***************************************************************************)
(* An event that was admissible when posted stays admissible.              *)
(***************************************************************************)
LEMMA AllowedGrows == Growing => Allowed \subseteq Allowed'
  BY DEF Growing, Allowed

(***************************************************************************)
(* Which events a step may post.                                           *)
(***************************************************************************)
LEMMA Admissible ==
  /\ \A sig \in Signal \ {"READY", "STOP", "STOPPED"}, src \in AO, dim \in Mode \cup {NoMode} :
        Evt(sig, src) \in Allowed' /\ DimEvt(sig, src, dim) \in Allowed'
  /\ \A c \in Comp, dim \in Mode \cup {NoMode} : DimEvt("READY", c, dim) \in Allowed'
  /\ \A c \in Quiet' : Evt("STOPPED", c) \in Allowed'
  /\ sysState' = "stopping" => Evt("STOP", "system") \in Allowed'
<1>1. Quiet' \subseteq AO /\ Comp \subseteq AO
  BY DEF Quiet, AO
<1>2. "READY" \in Signal /\ "STOP" \in Signal /\ "STOPPED" \in Signal /\ "system" \in AO
  BY DEF Signal, AO
<1> QED BY <1>1, <1>2, EventTypes DEF Allowed

(***************************************************************************)
(* A handler that posts nothing keeps the queues admissible.               *)
(***************************************************************************)
LEMMA QueueConsume ==
  ASSUME QueueOK, Growing, NEW a \in AO, Turn(a), Consume(a)
  PROVE  QueueOK'
<1>1. QueuesOver(Popped(a), Allowed)
  BY PoppedKeeps DEF QueueOK, Turn
<1> QED BY <1>1, AllowedGrows, QueuesMonotone DEF QueueOK, Consume

(***************************************************************************)
(* So does one that posts an admissible event, with any margin             *)
(* (QACTIVE_POST_X).                                                       *)
(***************************************************************************)
LEMMA QueuePost ==
  ASSUME QueueOK, Growing, NEW a \in AO, Turn(a), NEW b \in AO, NEW e \in Allowed',
         NEW margin \in Nat, queue' = PostX(Popped(a), b, e, margin)
  PROVE  QueueOK'
<1>1. QueuesOver(Popped(a), Allowed)
  BY PoppedKeeps DEF QueueOK, Turn
<1>2. QueuesOver(Popped(a), Allowed')
  BY <1>1, AllowedGrows, QueuesMonotone
<1>3. QueuesOver(queue', Allowed')
  BY <1>2, PostXKeeps
<1> QED BY <1>3 DEF QueueOK

(***************************************************************************)
(* post_ready of the four services.                                        *)
(***************************************************************************)
LEMMA QueueReady ==
  ASSUME QueueOK, Growing, NEW c \in Comp, Turn(c), NEW dim \in Mode \cup {NoMode},
         ReportReady(c, dim)
  PROVE  QueueOK'
<1>1. c \in AO /\ "system" \in AO
  BY DEF AO
<1> QED BY <1>1, QueuePost, Admissible DEF ReportReady, CONTROL_MARGIN

(***************************************************************************)
(* post_error of the four services.                                        *)
(***************************************************************************)
LEMMA QueueError ==
  ASSUME QueueOK, Growing, NEW c \in Comp, Turn(c), ReportError(c)
  PROVE  QueueOK'
<1>1. c \in AO /\ "system" \in AO
  BY DEF AO
<1>2. "ERROR" \in Signal \ {"READY", "STOP", "STOPPED"}
  BY DEF Signal
<1> QED BY <1>1, <1>2, QueuePost, Admissible DEF ReportError, ERROR_MARGIN

(***************************************************************************)
(* post_stopped: SYSTEM_STOPPED is admissible because the component is     *)
(* stopped now.                                                            *)
(***************************************************************************)
LEMMA QueueStopped ==
  ASSUME QueueOK, Growing, NEW c \in Comp, Turn(c), ReportStopped(c), ao'[c] = "stopped"
  PROVE  QueueOK'
<1>1. c \in AO /\ "system" \in AO /\ c \in Quiet'
  BY DEF AO, Quiet
<1> QED BY <1>1, QueuePost, Admissible DEF ReportStopped, CONTROL_MARGIN

(***************************************************************************)
(* A handler of component c leaves the other components alone.             *)
(***************************************************************************)
Local(c) ==
  \A d \in Comp \ {c} :
     /\ ao'[d] = ao[d] /\ running'[d] = running[d]
     /\ d \in armed' => d \in armed
     /\ d \in Threaded => worker'[d] = worker[d]

(***************************************************************************)
(* A local handler only has its own component to answer for.               *)
(***************************************************************************)
LEMMA LocalKeeps ==
  ASSUME Resources, Growing, NEW c \in Comp, Local(c), ResourceOK(c)'
  PROVE  Resources'
BY DEF Resources, ResourceOK, Local, Growing

(***************************************************************************)
(* A time event that expires keeps the queues admissible, also when QP     *)
(* asserts.                                                                *)
(***************************************************************************)
LEMMA QueueTimeEvent ==
  ASSUME QueueOK, Growing, NEW a \in AO, NEW e \in Allowed', TimeEventPost(a, e)
  PROVE  QueueOK'
<1>1. QueuesOver(queue, Allowed')
  BY AllowedGrows, QueuesMonotone DEF QueueOK
<1>2. CASE Free(queue, a) > 0
  <2>1. queue' = PostX(queue, a, e, 0)
    BY <1>2 DEF TimeEventPost, PostX
  <2> QED BY <1>1, <2>1, PostXKeeps DEF QueueOK
<1>3. CASE ~(Free(queue, a) > 0)
  BY <1>1, <1>3 DEF TimeEventPost, QueueOK
<1> QED BY <1>2, <1>3

-----------------------------------------------------------------------------
(***************************************************************************)
(* Each component's handlers preserve the invariant.                       *)
(***************************************************************************)
LEMMA VideoSteps ==
  ASSUME IInv, DispatchVideo
  PROVE  IInv'
<1> USE DEF IInv, OtherTypes, Comp, Threaded, Enter, sysVars, aoVars, workerVars, videoVars,
            sigVars
<1>1. CASE VideoInit
  <2> USE <1>1 DEF VideoInit
  <2>1. Growing
    BY DEF Growing, Quiet
  <2>2. QueueOK'
    BY <2>1, QueueConsume, QueueError DEF Dispatch, AO
  <2>3. OtherTypes'
    <3>1. ao' \in [Comp -> {"idle", "up", "error", "stopping", "stopped"}]
      OBVIOUS
    <3>2. running' \in [Comp -> BOOLEAN]
      <4>1. running \in [Comp -> BOOLEAN]
        OBVIOUS
      <4>2. running' = [running EXCEPT !["video"] = TRUE] \/ running' = running
        OBVIOUS
      <4> QED BY ONLY <4>1, <4>2
    <3>3. armed' \subseteq Timer
      BY DEF Timer, Polled
    <3>4. stream' \in Mode \cup {NoMode}
      OBVIOUS
    <3>6. readyPosted' \in BOOLEAN
      OBVIOUS
    <3>7. UNCHANGED <<proc, sysVars, workerVars, sigVars, subtitleDim>>
      OBVIOUS
    <3> QED BY <3>1, <3>2, <3>3, <3>4, <3>6, <3>7
  <2>4. Refs'
    <3>1. ~running["video"] /\ refcount \in Nat
      BY DEF Refs, Resources, ResourceOK
    <3>2. CASE Acquire /\ running' = [running EXCEPT !["video"] = TRUE]
      <4>1. refcount' > 0 /\ mapped' = TRUE
        BY <3>1, <3>2 DEF Acquire
      <4>2. refcount' = (IF running'["video"] THEN 1 ELSE 0)
                        + (IF running'["subtitle"] THEN 1 ELSE 0)
        BY <3>1, <3>2 DEF Acquire, Refs
      <4> QED BY <4>1, <4>2 DEF Refs
    <3>3. CASE UNCHANGED <<refcount, mapped, running>>
      BY <3>3 DEF Refs
    <3> QED BY <3>2, <3>3 DEF HwUnchanged
  <2>5. Resources'
    <3>1. Local("video")
      BY DEF Local
    <3>2. ResourceOK("video")'
      BY DEF Resources, ResourceOK, Timer, Polled
    <3> QED BY <3>1, <3>2, <2>1, LocalKeeps
  <2>6. Ending'
    BY DEF Ending, Quiet, Turn, Dispatch
  <2> QED BY <2>2, <2>3, <2>4, <2>5, <2>6
<1>2. CASE VideoStreams
  <2> USE <1>2 DEF VideoStreams
  <2>1. Growing
    BY DEF Growing, Quiet
  <2>2. QueueOK'
    BY <2>1, QueueConsume, QueueReady DEF Dispatch, AO
  <2>3. OtherTypes'
    BY DEF Timer, Polled
  <2>4. Refs'
    <3>1. Refs
      OBVIOUS
    <3>2. UNCHANGED <<refcount, mapped, running>>
      BY DEF HwUnchanged
    <3> QED BY ONLY <3>1, <3>2 DEF Refs
  <2>5. Resources'
    <3>1. Resources
      OBVIOUS
    <3>2. UNCHANGED <<sysState, ao, running, armed, worker>>
      OBVIOUS
    <3> QED BY ONLY <3>1, <3>2 DEF Resources, ResourceOK
  <2>6. Ending'
    BY DEF Ending, Quiet, Turn, Dispatch
  <2> QED BY <2>2, <2>3, <2>4, <2>5, <2>6
<1>3. CASE VideoSignalLost
  <2> USE <1>3 DEF VideoSignalLost
  <2>1. Growing
    BY DEF Growing, Quiet
  <2>2. QueueOK'
    BY <2>1, QueueConsume DEF Dispatch, AO
  <2>3. OtherTypes'
    <3>1. OtherTypes /\ stream' = NoMode /\ readyPosted' = FALSE
      OBVIOUS
    <3>2. UNCHANGED <<proc, sysVars, aoVars, workerVars, sigVars, subtitleDim>>
      OBVIOUS
    <3>3. /\ UNCHANGED <<sysState, readyMask, stoppedMask, subtitleInit, timedOut, ao, running, armed>>
          /\ UNCHANGED <<worker, stopReq, fatal, activeClient, sinkBound, sigPending, sigPosted>>
      BY ONLY <3>2 DEF sysVars, aoVars, workerVars, sigVars
    <3>4. /\ proc' \in {"running", "halted", "asserted"} /\ sysState' \in {"init", "run", "stopping"}
          /\ readyMask' \subseteq Comp /\ stoppedMask' \subseteq Comp
          /\ subtitleInit' \in BOOLEAN /\ timedOut' \in BOOLEAN
      BY ONLY <3>1, <3>2, <3>3 DEF OtherTypes
    <3>5. /\ ao' \in [Comp -> {"idle", "up", "error", "stopping", "stopped"}]
          /\ running' \in [Comp -> BOOLEAN] /\ armed' \subseteq Timer
          /\ worker' \in [Threaded -> {"none", "live", "done", "joined"}]
          /\ stopReq' \in [Threaded -> BOOLEAN]
      BY ONLY <3>1, <3>2, <3>3 DEF OtherTypes
    <3>6. /\ fatal' \in BOOLEAN /\ activeClient' \in BOOLEAN /\ sinkBound' \in BOOLEAN
          /\ stream' \in Mode \cup {NoMode} /\ subtitleDim' \in Mode \cup {NoMode}
          /\ readyPosted' \in BOOLEAN
          /\ sigPending' \in BOOLEAN /\ sigPosted' \in BOOLEAN
      BY ONLY <3>1, <3>2, <3>3 DEF OtherTypes
    <3> QED BY ONLY <3>4, <3>5, <3>6 DEF OtherTypes
  <2>4. Refs'
    <3>1. Refs
      OBVIOUS
    <3>2. UNCHANGED <<refcount, mapped, running>>
      BY DEF HwUnchanged
    <3> QED BY ONLY <3>1, <3>2 DEF Refs
  <2>5. Resources'
    <3>1. Resources
      OBVIOUS
    <3>2. UNCHANGED <<sysState, ao, running, armed, worker>>
      OBVIOUS
    <3> QED BY ONLY <3>1, <3>2 DEF Resources, ResourceOK
  <2>6. Ending'
    BY DEF Ending, Quiet, Turn, Dispatch
  <2> QED BY <2>2, <2>3, <2>4, <2>5, <2>6
<1>4. CASE VideoQuietPoll
  <2> USE <1>4 DEF VideoQuietPoll
  <2>1. Growing
    BY DEF Growing, Quiet
  <2>2. QueueOK'
    BY <2>1, QueueConsume DEF Dispatch, AO
  <2>3. OtherTypes'
    BY DEF Timer, Polled
  <2>4. Refs'
    BY DEF Refs, HwUnchanged, Acquire, Release
  <2>5. Resources'
    BY DEF Resources, ResourceOK, Polled
  <2>6. Ending'
    BY DEF Ending, Quiet, Turn, Dispatch
  <2> QED BY <2>2, <2>3, <2>4, <2>5, <2>6
<1>5. CASE VideoPollFails
  <2> USE <1>5 DEF VideoPollFails, VideoQuiesce
  <2>1. Growing
    BY DEF Growing, Quiet
  <2>2. QueueOK'
    BY <2>1, QueueError DEF Dispatch, AO
  <2>3. OtherTypes'
    <3>1. ao' \in [Comp -> {"idle", "up", "error", "stopping", "stopped"}]
      OBVIOUS
    <3>2. running' \in [Comp -> BOOLEAN]
      OBVIOUS
    <3>3. armed' \subseteq Timer
      BY DEF Timer, Polled
    <3>4. stream' \in Mode \cup {NoMode}
      OBVIOUS
    <3>6. readyPosted' \in BOOLEAN
      OBVIOUS
    <3>7. UNCHANGED <<proc, sysVars, workerVars, sigVars, subtitleDim>>
      OBVIOUS
    <3> QED BY <3>1, <3>2, <3>3, <3>4, <3>6, <3>7
  <2>4. Refs'
    BY DEF Refs, HwUnchanged, Acquire, Release
  <2>5. Resources'
    <3>1. Local("video")
      BY DEF Local
    <3>2. ResourceOK("video")'
      BY DEF Resources, ResourceOK, Timer, Polled
    <3> QED BY <3>1, <3>2, <2>1, LocalKeeps
  <2>6. Ending'
    BY DEF Ending, Quiet, Turn, Dispatch
  <2> QED BY <2>2, <2>3, <2>4, <2>5, <2>6
<1>6. CASE VideoStop
  <2> USE <1>6 DEF VideoStop, VideoQuiesce
  <2>1. Growing
    BY DEF Growing, Quiet
  <2>2. QueueOK'
    BY <2>1, QueueStopped DEF Dispatch, AO
  <2>3. OtherTypes'
    <3>1. ao' \in [Comp -> {"idle", "up", "error", "stopping", "stopped"}]
      OBVIOUS
    <3>2. running' \in [Comp -> BOOLEAN]
      OBVIOUS
    <3>3. armed' \subseteq Timer
      BY DEF Timer, Polled
    <3>4. stream' \in Mode \cup {NoMode}
      OBVIOUS
    <3>6. readyPosted' \in BOOLEAN
      OBVIOUS
    <3>7. UNCHANGED <<proc, sysVars, workerVars, sigVars, subtitleDim>>
      OBVIOUS
    <3> QED BY <3>1, <3>2, <3>3, <3>4, <3>6, <3>7
  <2>4. Refs'
    BY DEF Refs, HwUnchanged, Acquire, Release
  <2>5. Resources'
    <3>1. Local("video")
      BY DEF Local
    <3>2. ResourceOK("video")'
      BY DEF Resources, ResourceOK, Timer, Polled
    <3> QED BY <3>1, <3>2, <2>1, LocalKeeps
  <2>6. Ending'
    BY DEF Ending, Quiet, Turn, Dispatch
  <2> QED BY <2>2, <2>3, <2>4, <2>5, <2>6
<1> QED BY <1>1, <1>2, <1>3, <1>4, <1>5, <1>6 DEF DispatchVideo

(***************************************************************************)
(* The handlers of SubtitleAO.                                             *)
(***************************************************************************)
LEMMA SubtitleSteps ==
  ASSUME IInv, DispatchSubtitle
  PROVE  IInv'
<1> USE DEF IInv, OtherTypes, Comp, Threaded, Enter, sysVars, aoVars, workerVars, videoVars,
            sigVars
<1>1. CASE SubtitleInit
  <2> USE <1>1 DEF SubtitleInit
  <2>1. Growing
    BY DEF Growing, Quiet
  <2>1a. Current("subtitle").dim \in Mode \cup {NoMode}
    BY PoppedKeeps DEF QueueOK, Turn, Dispatch, AO, Allowed, Event
  <2>2. QueueOK'
    BY <2>1, <2>1a, QueueReady, QueueError DEF Dispatch, AO
  <2>3. OtherTypes'
    <3>1. ao' \in [Comp -> {"idle", "up", "error", "stopping", "stopped"}]
      OBVIOUS
    <3>2. running' \in [Comp -> BOOLEAN]
      OBVIOUS
    <3>3. subtitleDim' \in Mode \cup {NoMode}
      BY <2>1a
    <3>4. UNCHANGED <<proc, sysVars, armed, workerVars, videoVars, sigVars>>
      OBVIOUS
    <3> QED BY <3>1, <3>2, <3>3, <3>4
  <2>4. Refs'
    <3>1. ~running["subtitle"] /\ refcount \in Nat
      BY DEF Refs, Resources, ResourceOK
    <3>2. CASE Acquire /\ running' = [running EXCEPT !["subtitle"] = TRUE]
      <4>1. refcount' > 0 /\ mapped' = TRUE
        BY <3>1, <3>2 DEF Acquire
      <4>2. refcount' = (IF running'["video"] THEN 1 ELSE 0)
                        + (IF running'["subtitle"] THEN 1 ELSE 0)
        BY <3>1, <3>2 DEF Acquire, Refs
      <4> QED BY <4>1, <4>2 DEF Refs
    <3>3. CASE UNCHANGED <<refcount, mapped, running>>
      BY <3>3 DEF Refs
    <3> QED BY <3>2, <3>3 DEF HwUnchanged
  <2>5. Resources'
    <3>1. Local("subtitle")
      BY DEF Local
    <3>2. ResourceOK("subtitle")'
      BY DEF Resources, ResourceOK, Timer, Polled
    <3> QED BY <3>1, <3>2, <2>1, LocalKeeps
  <2>6. Ending'
    BY DEF Ending, Quiet, Turn, Dispatch
  <2> QED BY <2>2, <2>3, <2>4, <2>5, <2>6
<1>2. CASE SubtitleServe
  <2> USE <1>2 DEF SubtitleServe, SubtitleQuiesce
  <2>1. Growing
    BY DEF Growing, Quiet
  <2>1a. Current("subtitle").dim \in Mode \cup {NoMode}
    BY PoppedKeeps DEF QueueOK, Turn, Dispatch, AO, Allowed, Event
  <2>2. QueueOK'
    BY <2>1, <2>1a, QueueConsume, QueueError DEF Dispatch, AO
  <2>3. OtherTypes'
    <3>1. ao' \in [Comp -> {"idle", "up", "error", "stopping", "stopped"}]
      OBVIOUS
    <3>2. running' \in [Comp -> BOOLEAN]
      OBVIOUS
    <3>3. subtitleDim' \in Mode \cup {NoMode}
      BY <2>1a
    <3>4. UNCHANGED <<proc, sysVars, armed, workerVars, videoVars, sigVars>>
      OBVIOUS
    <3> QED BY <3>1, <3>2, <3>3, <3>4
  <2>4. Refs'
    BY DEF Refs, HwUnchanged, Acquire, Release
  <2>5. Resources'
    <3>1. Local("subtitle")
      BY DEF Local
    <3>2. ResourceOK("subtitle")'
      BY DEF Resources, ResourceOK, Timer, Polled
    <3> QED BY <3>1, <3>2, <2>1, LocalKeeps
  <2>6. Ending'
    BY DEF Ending, Quiet, Turn, Dispatch
  <2> QED BY <2>2, <2>3, <2>4, <2>5, <2>6
<1>3. CASE SubtitleStop
  <2> USE <1>3 DEF SubtitleStop, SubtitleQuiesce
  <2>1. Growing
    BY DEF Growing, Quiet
  <2>2. QueueOK'
    BY <2>1, QueueStopped DEF Dispatch, AO
  <2>3. OtherTypes'
    <3>1. ao' \in [Comp -> {"idle", "up", "error", "stopping", "stopped"}]
      OBVIOUS
    <3>2. running' \in [Comp -> BOOLEAN]
      OBVIOUS
    <3>3. subtitleDim' \in Mode \cup {NoMode}
      OBVIOUS
    <3>4. UNCHANGED <<proc, sysVars, armed, workerVars, videoVars, sigVars>>
      OBVIOUS
    <3> QED BY <3>1, <3>2, <3>3, <3>4
  <2>4. Refs'
    BY DEF Refs, HwUnchanged, Acquire, Release
  <2>5. Resources'
    <3>1. Local("subtitle")
      BY DEF Local
    <3>2. ResourceOK("subtitle")'
      BY DEF Resources, ResourceOK, Timer, Polled
    <3> QED BY <3>1, <3>2, <2>1, LocalKeeps
  <2>6. Ending'
    BY DEF Ending, Quiet, Turn, Dispatch
  <2> QED BY <2>2, <2>3, <2>4, <2>5, <2>6
<1> QED BY <1>1, <1>2, <1>3 DEF DispatchSubtitle

(***************************************************************************)
(* Initialisation and polling of USBAudioAO and SttAO.                     *)
(***************************************************************************)
LEMMA UsbSttSteps ==
  ASSUME IInv, DispatchUsb \/ DispatchStt
  PROVE  IInv'
<1> USE DEF IInv, OtherTypes, Comp, Threaded, Enter, sysVars, aoVars, workerVars, videoVars,
            sigVars
<1>1. CASE UsbInit
  <2> USE <1>1 DEF UsbInit
  <2>1. Growing
    BY DEF Growing, Quiet
  <2>2. QueueOK'
    BY <2>1, QueueReady, QueueError DEF Dispatch, AO
  <2>3. OtherTypes'
    <3>1. ao' \in [Comp -> {"idle", "up", "error", "stopping", "stopped"}]
      OBVIOUS
    <3>2. running' \in [Comp -> BOOLEAN]
      <4>1. running \in [Comp -> BOOLEAN]
        OBVIOUS
      <4>2. running' = [running EXCEPT !["usb"] = TRUE] \/ running' = running
        OBVIOUS
      <4> QED BY ONLY <4>1, <4>2
    <3>3. armed' \subseteq Timer
      BY DEF Timer, Polled
    <3>4. worker' \in [Threaded -> {"none", "live", "done", "joined"}]
      OBVIOUS
    <3>5. sinkBound' \in BOOLEAN
      OBVIOUS
    <3>6. UNCHANGED <<proc, sysVars, stopReq, fatal, activeClient, videoVars, sigVars, subtitleDim>>
      OBVIOUS
    <3> QED BY <3>1, <3>2, <3>3, <3>4, <3>5, <3>6
  <2>4. Refs'
    BY DEF Refs, HwUnchanged, Acquire, Release
  <2>5. Resources'
    <3>1. Local("usb")
      BY DEF Local
    <3>2. ResourceOK("usb")'
      BY DEF Resources, ResourceOK, Timer, Polled
    <3> QED BY <3>1, <3>2, <2>1, LocalKeeps
  <2>6. Ending'
    BY DEF Ending, Quiet, Turn, Dispatch
  <2> QED BY <2>2, <2>3, <2>4, <2>5, <2>6
<1>2. CASE SttInit
  <2> USE <1>2 DEF SttInit
  <2>1. Growing
    BY DEF Growing, Quiet
  <2>2. QueueOK'
    BY <2>1, QueueReady, QueueError DEF Dispatch, AO
  <2>3. OtherTypes'
    <3>1. ao' \in [Comp -> {"idle", "up", "error", "stopping", "stopped"}]
      OBVIOUS
    <3>2. running' \in [Comp -> BOOLEAN]
      <4>1. running \in [Comp -> BOOLEAN]
        OBVIOUS
      <4>2. running' = [running EXCEPT !["stt"] = TRUE] \/ running' = running
        OBVIOUS
      <4> QED BY ONLY <4>1, <4>2
    <3>3. armed' \subseteq Timer
      BY DEF Timer, Polled
    <3>4. worker' \in [Threaded -> {"none", "live", "done", "joined"}]
      OBVIOUS
    <3>5. activeClient' \in BOOLEAN
      OBVIOUS
    <3>6. UNCHANGED <<proc, sysVars, stopReq, fatal, sinkBound, videoVars, sigVars, subtitleDim>>
      OBVIOUS
    <3> QED BY <3>1, <3>2, <3>3, <3>4, <3>5, <3>6
  <2>4. Refs'
    BY DEF Refs, HwUnchanged, Acquire, Release
  <2>5. Resources'
    <3>1. Local("stt")
      BY DEF Local
    <3>2. ResourceOK("stt")'
      BY DEF Resources, ResourceOK, Timer, Polled
    <3> QED BY <3>1, <3>2, <2>1, LocalKeeps
  <2>6. Ending'
    BY DEF Ending, Quiet, Turn, Dispatch
  <2> QED BY <2>2, <2>3, <2>4, <2>5, <2>6
<1>3. CASE UsbPoll
  <2> USE <1>3 DEF UsbPoll, BeginStop
  <2>1. Growing
    BY DEF Growing, Quiet
  <2>2. QueueOK'
    BY <2>1, QueueConsume, QueueError DEF Dispatch, AO
  <2>3. OtherTypes'
    <3>1. ao' \in [Comp -> {"idle", "up", "error", "stopping", "stopped"}]
      OBVIOUS
    <3>2. stopReq' \in [Threaded -> BOOLEAN]
      OBVIOUS
    <3>3. UNCHANGED <<proc, sysVars, running, armed, worker, fatal, activeClient,
                      sinkBound, videoVars, sigVars, subtitleDim>>
      OBVIOUS
    <3> QED BY <3>1, <3>2, <3>3
  <2>4. Refs'
    BY DEF Refs, HwUnchanged, Acquire, Release
  <2>5. Resources'
    <3>1. Local("usb")
      BY DEF Local
    <3>2. ResourceOK("usb")'
      BY DEF Resources, ResourceOK, Timer, Polled
    <3> QED BY <3>1, <3>2, <2>1, LocalKeeps
  <2>6. Ending'
    BY DEF Ending, Quiet, Turn, Dispatch
  <2> QED BY <2>2, <2>3, <2>4, <2>5, <2>6
<1>4. CASE SttPoll
  <2> USE <1>4 DEF SttPoll
  <2>1. Growing
    BY DEF Growing, Quiet
  <2>2. QueueOK'
    BY <2>1, QueueConsume, QueuePost, Admissible DEF Dispatch, AO, Signal
  <2>3. OtherTypes'
    <3>1. ao' \in [Comp -> {"idle", "up", "error", "stopping", "stopped"}]
      OBVIOUS
    <3>2. armed' \subseteq Timer
      BY DEF Timer, Polled
    <3>3. UNCHANGED <<proc, sysVars, running, workerVars, videoVars, sigVars, subtitleDim>>
      OBVIOUS
    <3> QED BY <3>1, <3>2, <3>3
  <2>4. Refs'
    BY DEF Refs, HwUnchanged, Acquire, Release
  <2>5. Resources'
    <3>1. Local("stt")
      BY DEF Local
    <3>2. ResourceOK("stt")'
      BY DEF Resources, ResourceOK, Timer, Polled
    <3> QED BY <3>1, <3>2, <2>1, LocalKeeps
  <2>6. Ending'
    BY DEF Ending, Quiet, Turn, Dispatch
  <2> QED BY <2>2, <2>3, <2>4, <2>5, <2>6
<1> QED BY <1>1, <1>2, <1>3, <1>4 DEF DispatchUsb, DispatchStt

(***************************************************************************)
(* SYSTEM_STOP and the wait for the worker thread.                         *)
(***************************************************************************)
LEMMA ThreadedSteps ==
  ASSUME IInv, NEW c \in Threaded, DispatchThreaded(c)
  PROVE  IInv'
<1> USE DEF IInv, OtherTypes, Comp, Threaded, Enter, sysVars, aoVars, workerVars, videoVars,
            sigVars
<1>1. c \in Comp /\ c \in AO
  BY DEF AO
<1>2. CASE ThreadedStop(c)
  <2> USE <1>2 DEF ThreadedStop, BeginStop
  <2>1. stopReq' \in [Threaded -> BOOLEAN]
    OBVIOUS
  <2>2. CASE /\ StopComplete(c)
             /\ CompleteStop(c) /\ ReportStopped(c) /\ Enter(c, "stopped")
    <3> USE <2>2 DEF CompleteStop
    <3>1. Growing
      BY <1>1 DEF Growing, Quiet
    <3>2. QueueOK'
      BY <1>1, <3>1, QueueStopped DEF Dispatch
    <3>3. OtherTypes'
      <4>1. ao' \in [Comp -> {"idle", "up", "error", "stopping", "stopped"}]
        OBVIOUS
      <4>2. running' \in [Comp -> BOOLEAN]
        OBVIOUS
      <4>3. worker' \in [Threaded -> {"none", "live", "done", "joined"}]
        OBVIOUS
      <4>4. armed' \subseteq Timer
        BY DEF Timer, Polled
      <4>5. UNCHANGED <<proc, sysVars, fatal, activeClient, sinkBound, videoVars, sigVars,
                        subtitleDim>>
        OBVIOUS
      <4> QED BY <2>1, <4>1, <4>2, <4>3, <4>4, <4>5
    <3>4. Refs'
      BY DEF Refs, HwUnchanged
    <3>5. Resources'
      <4>1. Local(c)
        BY DEF Local
      <4>2. ResourceOK(c)'
        BY <1>1 DEF Resources, ResourceOK
      <4> QED BY <1>1, <4>1, <4>2, <3>1, LocalKeeps
    <3>6. Ending'
      BY DEF Ending, Quiet, Turn, Dispatch
    <3> QED BY <3>2, <3>3, <3>4, <3>5, <3>6
  <2>3. CASE /\ Consume(c) /\ Enter(c, "stopping") /\ UNCHANGED <<armed, running, worker>>
    <3> USE <2>3
    <3>1. Growing
      BY <1>1 DEF Growing, Quiet
    <3>2. QueueOK'
      BY <1>1, <3>1, QueueConsume DEF Dispatch
    <3>3. OtherTypes'
      <4>1. ao' \in [Comp -> {"idle", "up", "error", "stopping", "stopped"}]
        OBVIOUS
      <4>2. UNCHANGED <<proc, sysVars, running, worker, armed, fatal, activeClient, sinkBound,
                        videoVars, sigVars, subtitleDim>>
        OBVIOUS
      <4> QED BY <2>1, <4>1, <4>2
    <3>4. Refs'
      BY DEF Refs, HwUnchanged
    <3>5. Resources'
      <4>1. Current(c) \in Allowed
        BY <1>1, PoppedKeeps DEF QueueOK, Dispatch, Turn
      <4>2. sysState' = "stopping"
        BY <4>1 DEF Dispatch, Allowed
      <4>3. Local(c)
        BY DEF Local
      <4>4. ResourceOK(c)'
        BY <1>1, <4>2 DEF Resources, ResourceOK
      <4> QED BY <1>1, <4>3, <4>4, <3>1, LocalKeeps
    <3>6. Ending'
      BY DEF Ending, Quiet, Turn, Dispatch
    <3> QED BY <3>2, <3>3, <3>4, <3>5, <3>6
  <2> QED BY <2>2, <2>3
<1>3. CASE ThreadedStopPoll(c)
  <2> USE <1>3 DEF ThreadedStopPoll
  <2>2. CASE /\ StopComplete(c)
             /\ CompleteStop(c) /\ ReportStopped(c) /\ Enter(c, "stopped")
    <3> USE <2>2 DEF CompleteStop
    <3>1. Growing
      BY <1>1 DEF Growing, Quiet
    <3>2. QueueOK'
      BY <1>1, <3>1, QueueStopped DEF Dispatch
    <3>3. OtherTypes'
      <4>1. ao' \in [Comp -> {"idle", "up", "error", "stopping", "stopped"}]
        OBVIOUS
      <4>2. running' \in [Comp -> BOOLEAN]
        OBVIOUS
      <4>3. worker' \in [Threaded -> {"none", "live", "done", "joined"}]
        OBVIOUS
      <4>4. armed' \subseteq Timer
        BY DEF Timer, Polled
      <4>5. UNCHANGED <<proc, sysVars, stopReq, fatal, activeClient, sinkBound, videoVars,
                        sigVars, subtitleDim>>
        OBVIOUS
      <4> QED BY <4>1, <4>2, <4>3, <4>4, <4>5
    <3>4. Refs'
      BY DEF Refs, HwUnchanged
    <3>5. Resources'
      <4>1. Local(c)
        BY DEF Local
      <4>2. ResourceOK(c)'
        BY <1>1 DEF Resources, ResourceOK
      <4> QED BY <1>1, <4>1, <4>2, <3>1, LocalKeeps
    <3>6. Ending'
      BY DEF Ending, Quiet, Turn, Dispatch
    <3> QED BY <3>2, <3>3, <3>4, <3>5, <3>6
  <2>3. CASE Consume(c) /\ UNCHANGED <<ao, armed, running, worker>>
    <3> USE <2>3
    <3>1. Growing
      BY DEF Growing, Quiet
    <3>2. QueueOK'
      BY <1>1, <3>1, QueueConsume DEF Dispatch
    <3>3. OtherTypes' /\ Resources'
      BY DEF Resources, ResourceOK
    <3>4. Refs'
      BY DEF Refs, HwUnchanged
    <3>5. Ending'
      BY DEF Ending, Quiet
    <3> QED BY <3>2, <3>3, <3>4, <3>5
  <2> QED BY <2>2, <2>3
<1> QED BY <1>2, <1>3 DEF DispatchThreaded

(***************************************************************************)
(* The worker threads change only their own flags.                         *)
(***************************************************************************)
LEMMA WorkerSteps ==
  ASSUME IInv, CaptureFails \/ \E c \in Threaded : WorkerExits(c)
  PROVE  IInv'
<1> USE DEF IInv, OtherTypes, Comp, Threaded, sysVars, aoVars, workerVars, videoVars, sigVars
<1>1. CASE CaptureFails
  <2> USE <1>1 DEF CaptureFails
  <2>1. Growing /\ queue' = queue
    BY DEF Growing, Quiet
  <2>2. QueueOK'
    BY <2>1, AllowedGrows, QueuesMonotone DEF QueueOK
  <2>3. OtherTypes' /\ Resources'
    BY DEF Resources, ResourceOK
  <2>4. Refs' /\ Ending'
    BY DEF Refs, HwUnchanged, Ending, Quiet
  <2> QED BY <2>2, <2>3, <2>4
<1>2. ASSUME NEW c \in Threaded, WorkerExits(c) PROVE IInv'
  <2> USE <1>2 DEF WorkerExits
  <2>1. Growing /\ queue' = queue
    BY DEF Growing, Quiet
  <2>2. QueueOK'
    BY <2>1, AllowedGrows, QueuesMonotone DEF QueueOK
  <2>3. OtherTypes' /\ Resources'
    BY DEF Resources, ResourceOK
  <2>4. Refs' /\ Ending'
    BY DEF Refs, HwUnchanged, Ending, Quiet
  <2> QED BY <2>2, <2>3, <2>4
<1> QED BY <1>1, <1>2

(***************************************************************************)
(* Entering the stopping state, from any queues that are admissible.       *)
(***************************************************************************)
LEMMA StoppingEntered ==
  ASSUME IInv, sysState # "stopping", proc = "running",
         NEW q, QueuesOver(q, Allowed), EnterStopping(q),
         HwUnchanged, UNCHANGED <<ao, running, worker, timedOut, proc>>
  PROVE  /\ QueueOK' /\ Refs' /\ Resources' /\ Ending'
         /\ sysState' = "stopping" /\ stoppedMask' = {} /\ armed' \subseteq Timer
<1> USE DEF IInv, OtherTypes, EnterStopping
<1>1. Growing
  BY DEF Growing, Quiet
<1>2. QueuesOver(q, Allowed')
  BY <1>1, AllowedGrows, QueuesMonotone
<1>3. QueueOK'
  BY <1>2, BroadcastKeeps, Admissible DEF QueueOK
<1>4. Refs' /\ armed' \subseteq Timer
  BY DEF Refs, HwUnchanged, Timer
<1>5. Resources'
  BY DEF Resources, ResourceOK, Comp
<1>6. Ending'
  BY DEF Ending
<1> QED BY <1>3, <1>4, <1>5, <1>6

(***************************************************************************)
(* The handlers of SystemAO: its last acknowledgement is the one that      *)
(* needs Allowed.                                                          *)
(***************************************************************************)
LEMMA SystemSteps ==
  ASSUME IInv, DispatchSystem
  PROVE  IInv'
<1> USE DEF sysVars, aoVars, workerVars, videoVars, sigVars
<1>1. "system" \in AO /\ "subtitle" \in AO
  BY DEF AO, Comp
<1>2. Turn("system")
  BY DEF DispatchSystem, SystemReady, SystemFailFast, SystemStopped, SystemTimeout, Dispatch
<1>3. QueuesOver(Popped("system"), Allowed) /\ Current("system") \in Allowed
  BY <1>1, <1>2, PoppedKeeps DEF IInv, QueueOK, Turn
<1>4. proc = "running"
  BY <1>2 DEF Turn
<1>5. CASE SystemFailFast
  <2> USE <1>5 DEF SystemFailFast
  <2>1. sysState # "stopping"
    OBVIOUS
  <2>2. /\ QueueOK' /\ Refs' /\ Resources' /\ Ending'
        /\ sysState' = "stopping" /\ stoppedMask' = {} /\ armed' \subseteq Timer
    BY <1>3, <1>4, <2>1, StoppingEntered
  <2>3. OtherTypes'
    BY <2>2 DEF IInv, OtherTypes
  <2> QED BY <2>2, <2>3 DEF IInv
<1>6. CASE SystemStopped
  <2> USE <1>6 DEF SystemStopped, IInv, OtherTypes
  <2>1. Growing
    BY DEF Growing, Quiet
  <2>2. QueueOK'
    BY <1>1, <1>2, <2>1, QueueConsume
  <2>3. Current("system").src \in Quiet /\ Quiet \subseteq Comp
    BY <1>3 DEF Dispatch, Allowed, Quiet
  <2>4. OtherTypes'
    <3>1. stoppedMask' \subseteq Comp
      BY <2>3
    <3>2. proc' \in {"running", "halted", "asserted"}
      OBVIOUS
    <3>3. armed' \subseteq Timer
      OBVIOUS
    <3> QED BY <3>1, <3>2, <3>3
  <2>5. Refs'
    BY DEF Refs, HwUnchanged
  <2>6. Resources'
    BY DEF Resources, ResourceOK
  <2>7. Ending'
    <3>1. stoppedMask' \subseteq Quiet'
      BY <2>3 DEF Ending, Quiet
    <3>2. "init" \notin armed'
      BY DEF Ending
    <3>3. timedOut' = FALSE /\ sysState' = "stopping"
      BY <1>4 DEF Ending
    <3>4. proc' = "halted" => stoppedMask' = Comp /\ "shutdown" \notin armed'
      BY <1>4, <2>3 DEF StopExpected
    <3> QED BY <3>1, <3>2, <3>3, <3>4 DEF Ending
  <2> QED BY <2>2, <2>4, <2>5, <2>6, <2>7
<1>7. CASE SystemTimeout
  <2> USE <1>7 DEF SystemTimeout, IInv, OtherTypes
  <2>1. Growing
    BY DEF Growing, Quiet
  <2>2. QueueOK'
    BY <1>1, <1>2, <2>1, QueueConsume
  <2>3. OtherTypes' /\ Resources'
    BY DEF Resources, ResourceOK
  <2>4. Refs' /\ Ending'
    BY DEF Refs, HwUnchanged, Ending, Quiet
  <2> QED BY <2>2, <2>3, <2>4
<1>8. CASE SystemReady
  <2> DEFINE e       == Current("system")
             invalid == e.src = "video" /\ e.dim = NoMode
             request == e.src = "video" /\ e.dim # NoMode /\ ~subtitleInit
             q0      == Popped("system")
             q1      == IF request
                        THEN PostX(q0, "subtitle", DimEvt("INIT", "subtitle", e.dim),
                                   CONTROL_MARGIN)
                        ELSE q0
             posted  == request /\ q1 # q0
             ready   == IF invalid THEN readyMask ELSE readyMask \cup {e.src}
  <2>0. Growing /\ UNCHANGED <<Quiet>>
    BY <1>8 DEF SystemReady, EnterStopping, Growing, Quiet
  <2>1. e \in Event
    BY <1>3 DEF Allowed
  <2>2. QueuesOver(q1, Allowed)
    <3>1. DimEvt("INIT", "subtitle", e.dim) \in Allowed
      BY <1>1, <2>1, EventTypes DEF Allowed, Signal, Event
    <3>2. QueuesOver(PostX(q0, "subtitle", DimEvt("INIT", "subtitle", e.dim),
                           CONTROL_MARGIN), Allowed)
      BY <1>1, <1>3, <3>1, PostXKeeps DEF CONTROL_MARGIN
    <3> QED BY <1>3, <3>2
  <2> HIDE DEF q1
  <2>3. /\ readyMask' = ready
        /\ subtitleInit' = (subtitleInit \/ posted)
        /\ sysState = "init" /\ e.sig = "READY"
        /\ HwUnchanged
        /\ UNCHANGED <<proc, timedOut, ao, running, workerVars, videoVars, sigVars,
                       subtitleDim>>
        /\ \/ /\ sysState' = "run" /\ queue' = q1
              /\ armed' = armed \ {"init"}
              /\ UNCHANGED stoppedMask
           \/ EnterStopping(q1)
           \/ /\ queue' = q1 /\ UNCHANGED <<sysState, stoppedMask, armed>>
    BY <1>8 DEF SystemReady, Dispatch, q1
  <2> HIDE DEF e, ready, posted
  <2>4. subtitleInit' \in BOOLEAN
    BY <2>3
  <2>4a. readyMask' \subseteq Comp
    BY <1>3, <2>3 DEF IInv, OtherTypes, Allowed, e, ready
  <2>5. CASE EnterStopping(q1)
    <3>1. /\ QueueOK' /\ Refs' /\ Resources' /\ Ending'
          /\ sysState' = "stopping" /\ stoppedMask' = {} /\ armed' \subseteq Timer
      BY <1>4, <2>2, <2>3, <2>5, StoppingEntered
    <3>2. OtherTypes'
      BY <2>3, <2>4, <2>4a, <3>1 DEF IInv, OtherTypes
    <3> QED BY <3>1, <3>2 DEF IInv
  <2>6. CASE /\ queue' = q1 /\ sysState' \in {"init", "run"}
             /\ armed' \subseteq armed /\ UNCHANGED stoppedMask
    <3>1. QueueOK'
      BY <2>0, <2>2, <2>6, AllowedGrows, QueuesMonotone DEF QueueOK
    <3>2. OtherTypes'
      BY <2>3, <2>4, <2>4a, <2>6 DEF IInv, OtherTypes
    <3>3. Refs'
      BY <2>3 DEF IInv, Refs, HwUnchanged
    <3>4. Resources'
      BY <2>3, <2>6 DEF IInv, Resources, ResourceOK
    <3>5. Ending'
      BY <1>4, <2>3, <2>6 DEF IInv, Ending, Quiet
    <3> QED BY <3>1, <3>2, <3>3, <3>4, <3>5 DEF IInv
  <2> QED BY <2>3, <2>5, <2>6
<1> QED BY <1>5, <1>6, <1>7, <1>8 DEF DispatchSystem

(***************************************************************************)
(* Consuming an event that nobody acts on, the ticker and the signal.      *)
(***************************************************************************)
LEMMA OtherSteps ==
  ASSUME IInv, (\E a \in AO : Ignore(a)) \/ Tick \/ SignalArrives \/ UNCHANGED vars
  PROVE  IInv'
<1> USE DEF sysVars, aoVars, workerVars, videoVars, sigVars, HwUnchanged
<1>1. ASSUME NEW a \in AO, Ignore(a) PROVE IInv'
  <2> USE <1>1 DEF Ignore, IInv, OtherTypes
  <2>1. Growing
    BY DEF Growing, Quiet
  <2>2. QueueOK'
    BY <2>1, QueueConsume
  <2>3. OtherTypes' /\ Resources'
    BY DEF Resources, ResourceOK
  <2>4. Refs' /\ Ending'
    BY DEF Refs, Ending, Quiet
  <2> QED BY <2>2, <2>3, <2>4
<1>2. ASSUME NEW c \in Polled, TickPoll(c) PROVE IInv'
  <2> USE <1>2 DEF TickPoll, IInv, OtherTypes
  <2>1. Growing
    BY DEF Growing, Quiet
  <2>2. c \in AO /\ Evt("POLL", c) \in Allowed'
    BY Admissible DEF Polled, AO, Comp, Signal, Evt
  <2>3. QueueOK'
    BY <2>1, <2>2, QueueTimeEvent
  <2>4. proc' \in {"running", "asserted"} /\ proc = "running"
    BY DEF TimeEventPost
  <2>5. OtherTypes' /\ Resources'
    BY <2>4 DEF Resources, ResourceOK
  <2>6. Refs' /\ Ending'
    BY <2>4 DEF Refs, Ending, Quiet
  <2> QED BY <2>3, <2>5, <2>6
<1>3. CASE TickInit
  <2> USE <1>3 DEF TickInit, IInv, OtherTypes
  <2>1. Growing
    BY DEF Growing, Quiet
  <2>2. "system" \in AO /\ Evt("INIT_TIMEOUT", "system") \in Allowed'
    BY Admissible DEF AO, Signal
  <2>3. QueueOK'
    BY <2>1, <2>2, QueueTimeEvent
  <2>4. proc' \in {"running", "asserted"} /\ proc = "running"
    BY DEF TimeEventPost
  <2>5. OtherTypes' /\ Resources'
    BY <2>4 DEF Resources, ResourceOK
  <2>6. Refs' /\ Ending'
    BY <2>4 DEF Refs, Ending, Quiet
  <2> QED BY <2>3, <2>5, <2>6
<1>4. CASE TickShutdown
  <2> USE <1>4 DEF TickShutdown, IInv, OtherTypes
  <2>1. Growing
    BY DEF Growing, Quiet
  <2>2. "system" \in AO /\ Evt("SHUTDOWN_TIMEOUT", "system") \in Allowed'
    BY Admissible DEF AO, Signal
  <2>3. QueueOK'
    BY <2>1, <2>2, QueueTimeEvent
  <2>4. proc' \in {"running", "asserted"} /\ proc = "running"
    BY DEF TimeEventPost
  <2>5. OtherTypes' /\ Resources'
    BY <2>4 DEF Resources, ResourceOK
  <2>6. Refs' /\ Ending'
    BY <2>4 DEF Refs, Ending, Quiet
  <2> QED BY <2>3, <2>5, <2>6
<1>5. CASE TickSignal
  <2> USE <1>5 DEF TickSignal, IInv, OtherTypes
  <2>1. Growing
    BY DEF Growing, Quiet
  <2>2. "system" \in AO /\ Evt("SHUTDOWN", "system") \in Allowed'
    BY Admissible DEF AO, Signal
  <2>3. QueuesOver(queue, Allowed')
    BY <2>1, AllowedGrows, QueuesMonotone DEF QueueOK
  <2>4. QueueOK'
    BY <2>2, <2>3, PostXKeeps DEF QueueOK
  <2>5. OtherTypes' /\ Resources'
    BY DEF Resources, ResourceOK
  <2>6. Refs' /\ Ending'
    BY DEF Refs, Ending, Quiet
  <2> QED BY <2>4, <2>5, <2>6
<1>6. CASE SignalArrives
  <2> USE <1>6 DEF SignalArrives, IInv, OtherTypes
  <2>1. Growing /\ queue' = queue
    BY DEF Growing, Quiet
  <2>2. QueueOK'
    BY <2>1, AllowedGrows, QueuesMonotone DEF QueueOK
  <2>3. OtherTypes'
    OBVIOUS
  <2>4. Resources'
    BY DEF Resources, ResourceOK
  <2>5. Refs'
    <3>1. refcount' = refcount /\ mapped' = mapped /\ running' = running
      BY DEF hwVars
    <3> QED BY <3>1 DEF Refs
  <2>6. Ending'
    BY DEF Ending, Quiet
  <2> QED BY <2>2, <2>3, <2>4, <2>5, <2>6
<1>7. CASE UNCHANGED vars
  <2> USE <1>7 DEF vars, IInv, OtherTypes
  <2>1. Growing /\ queue' = queue
    BY DEF Growing, Quiet
  <2>2. QueueOK'
    BY <2>1, AllowedGrows, QueuesMonotone DEF QueueOK
  <2>3. OtherTypes'
    OBVIOUS
  <2>4. Resources'
    BY DEF Resources, ResourceOK
  <2>5. Refs'
    <3>1. refcount' = refcount /\ mapped' = mapped /\ running' = running
      BY DEF hwVars
    <3> QED BY <3>1 DEF Refs
  <2>6. Ending'
    BY DEF Ending, Quiet
  <2> QED BY <2>2, <2>3, <2>4, <2>5, <2>6
<1> QED BY <1>1, <1>2, <1>3, <1>4, <1>5, <1>6, <1>7 DEF Tick

(***************************************************************************)
(* The state after app_init.                                               *)
(***************************************************************************)
LEMMA Initially == Init => IInv
<1> SUFFICES ASSUME Init PROVE IInv
  OBVIOUS
<1> USE DEF Init
<1>1. QueueOK
  <2>1. \A a \in Polled : Evt("INIT", a) \in Allowed
    BY EventTypes DEF Polled, AO, Comp, Signal, Allowed
  <2>2. \A a \in Polled : <<Evt("INIT", a)>> \in Seq(Allowed)
    BY <2>1
  <2>3. <<>> \in Seq(Allowed)
    OBVIOUS
  <2>4. \A a \in AO : Len(queue[a]) <= QueueLen[a] + 1
    BY QueueLenAssumption
  <2> QED BY <2>2, <2>3, <2>4 DEF QueueOK, QueuesOver
<1>2. OtherTypes
  BY DEF OtherTypes, Comp, Timer
<1>3. Refs
  <2>1. refcount = 0 /\ ~mapped
    BY DEF HwInit
  <2>2. ~running["video"] /\ ~running["subtitle"]
    BY DEF Comp
  <2>3. ~(refcount > 0)
    BY <2>1
  <2>4. mapped = (refcount > 0)
    <3>1. mapped = FALSE
      BY DEF HwInit
    <3> HIDE DEF Init
    <3>2. (refcount > 0) = FALSE
      BY <2>3
    <3> QED BY <3>1, <3>2
  <2> HIDE DEF Init
  <2> QED BY <2>1, <2>2, <2>4 DEF Refs
<1>4. Resources /\ Ending
  BY DEF Resources, ResourceOK, Ending, Comp, Threaded
<1> QED BY <1>1, <1>2, <1>3, <1>4 DEF IInv

(***************************************************************************)
(* Every step preserves the invariant.                                     *)
(***************************************************************************)
LEMMA Inductive == IInv /\ [Next]_vars => IInv'
BY VideoSteps, SubtitleSteps, UsbSttSteps, ThreadedSteps, WorkerSteps, SystemSteps, OtherSteps
   DEF Next

(***************************************************************************)
(* Hence it always holds.                                                  *)
(***************************************************************************)
LEMMA Invariance == Spec => []IInv
BY Initially, Inductive, PTL DEF Spec

-----------------------------------------------------------------------------
(***************************************************************************)
(* Types and the capacity of QP's queues, for all queue lengths and modes. *)
(***************************************************************************)
THEOREM TypeCorrect == Spec => []TypeOK
BY Invariance, TypesFollow, PTL

(***************************************************************************)
(* An acknowledged component has let go of timer, hardware and thread.     *)
(***************************************************************************)
THEOREM StoppedStaysQuiet == Spec => []StoppedIsQuiet
<1>1. IInv => StoppedIsQuiet
  BY DEF IInv, Resources, ResourceOK, StoppedIsQuiet
<1> QED BY <1>1, Invariance, PTL

(***************************************************************************)
(* A shutdown that ends without its timeout ends clean.                    *)
(***************************************************************************)
THEOREM EndsClean == Spec => []CleanExit
<1>1. ASSUME IInv, proc = "halted", ~timedOut
      PROVE  /\ \A c \in Comp : ao[c] = "stopped"
             /\ armed = {} /\ refcount = 0 /\ ~mapped
             /\ \A c \in Threaded : worker[c] # "live"
  <2>1. \A c \in Comp : ao[c] = "stopped"
    BY <1>1 DEF IInv, Ending, Quiet
  <2>2. \A c \in Comp : ~running[c] /\ c \notin armed
    BY <1>1, <2>1 DEF IInv, Resources, ResourceOK
  <2>3. armed = {}
    BY <1>1, <2>2 DEF IInv, Ending, OtherTypes, Timer, Polled, Comp
  <2>4. refcount = 0 /\ ~mapped
    <3>1. ~running["video"] /\ ~running["subtitle"]
      BY <2>2 DEF Comp
    <3>2. refcount = 0
      BY <1>1, <3>1 DEF IInv, Refs
    <3>3. mapped = (refcount > 0)
      BY <1>1 DEF IInv, Refs
    <3>4. ~(refcount > 0)
      BY <3>2
    <3> QED BY <3>2, <3>3, <3>4
  <2>5. \A c \in Threaded : worker[c] # "live"
    BY <1>1, <2>2 DEF IInv, Resources, ResourceOK, Threaded, Comp
  <2> QED BY <2>1, <2>3, <2>4, <2>5
<1>2. IInv => CleanExit
  BY <1>1 DEF CleanExit
<1> QED BY <1>2, Invariance, PTL

(***************************************************************************)
(* The register mapping is counted right.                                  *)
(***************************************************************************)
THEOREM PlatformCounted == Spec => []PlatformRefs
<1>1. ASSUME IInv PROVE refcount = Cardinality(Holders)
  <2>1. Holders = (IF running["video"] THEN {"video"} ELSE {})
                  \cup (IF running["subtitle"] THEN {"subtitle"} ELSE {})
    BY DEF Holders
  <2>2. Cardinality({}) = 0 /\ Cardinality({"video"}) = 1 /\ Cardinality({"subtitle"}) = 1
    BY FS_EmptySet, FS_Singleton
  <2>3. Cardinality({"video", "subtitle"}) = 2
    <3>1. IsFiniteSet({"video"}) /\ "subtitle" \notin {"video"}
      BY FS_Singleton
    <3>2. {"video", "subtitle"} = {"video"} \cup {"subtitle"}
      OBVIOUS
    <3> QED BY <2>2, <3>1, <3>2, FS_AddElement
  <2>4. refcount = (IF running["video"] THEN 1 ELSE 0)
                   + (IF running["subtitle"] THEN 1 ELSE 0)
    BY <1>1 DEF IInv, Refs
  <2>5. CASE running["video"] /\ running["subtitle"]
    <3>1. Holders = {"video", "subtitle"}
      BY <2>1, <2>5
    <3> QED BY <2>3, <2>4, <2>5, <3>1
  <2>6. CASE ~(running["video"] /\ running["subtitle"])
    BY <2>1, <2>2, <2>4, <2>6
  <2> QED BY <2>5, <2>6
<1>2. ASSUME IInv PROVE mapped = (refcount > 0)
  BY <1>2 DEF IInv, Refs
<1>3. IInv => PlatformRefs
  BY <1>1, <1>2 DEF PlatformRefs
<1> QED BY <1>3, Invariance, PTL

(***************************************************************************)
(* The QV thread never joins a live thread.                                *)
(***************************************************************************)
THEOREM NeverBlocks == Spec => JoinNeverBlocks
<1>1. ASSUME IInv, [Next]_vars, NEW c \in Threaded, worker[c] = "live"
      PROVE  worker'[c] # "joined"
  <2> USE <1>1 DEF IInv, OtherTypes
  <2>1. running[c]
    BY DEF Resources, ResourceOK, Threaded, Comp
  <2>2. ASSUME NEW d \in Threaded, DispatchThreaded(d) PROVE worker'[c] # "joined"
    <3>1. CASE StopComplete(d) /\ CompleteStop(d)
      <4>1. running[d] => worker[d] # "live"
        BY <3>1 DEF StopComplete
      <4>2. c # d
        BY <2>1, <4>1
      <4> QED BY <3>1, <4>2 DEF CompleteStop
    <3>2. CASE UNCHANGED worker
      BY <3>2
    <3> QED BY <2>2, <3>1, <3>2 DEF DispatchThreaded, ThreadedStop, ThreadedStopPoll
  <2>3. ASSUME NEW d \in Threaded, WorkerExits(d) PROVE worker'[c] # "joined"
    BY <2>3 DEF WorkerExits
  <2>4. CASE DispatchUsb
    BY <2>4 DEF DispatchUsb, UsbInit, UsbPoll
  <2>5. CASE DispatchStt
    BY <2>5 DEF DispatchStt, SttInit, SttPoll, workerVars
  <2>6. CASE UNCHANGED worker
    BY <2>6
  <2>7. CASE DispatchSystem
    BY <2>6, <2>7 DEF DispatchSystem, SystemReady, SystemFailFast, SystemStopped,
                      SystemTimeout, workerVars
  <2>8. CASE DispatchVideo
    BY <2>6, <2>8 DEF DispatchVideo, VideoInit, VideoStreams, VideoSignalLost,
                      VideoQuietPoll, VideoPollFails, VideoStop, workerVars
  <2>9. CASE DispatchSubtitle
    BY <2>6, <2>9 DEF DispatchSubtitle, SubtitleInit, SubtitleServe, SubtitleStop, workerVars
  <2>10. CASE CaptureFails \/ SignalArrives \/ Tick \/ \E a \in AO : Ignore(a)
    BY <2>6, <2>10 DEF CaptureFails, SignalArrives, Tick, TickInit, TickShutdown, TickSignal,
                       TickPoll, Ignore, workerVars
  <2>11. CASE UNCHANGED vars
    BY <2>6, <2>11 DEF vars, workerVars
  <2> QED BY <2>2, <2>3, <2>4, <2>5, <2>7, <2>8, <2>9, <2>10, <2>11 DEF Next
<1>2. IInv /\ [Next]_vars => [\A c \in Threaded : worker[c] = "live" => worker'[c] # "joined"]_vars
  BY <1>1
<1> QED BY <1>2, Invariance, PTL DEF Spec, JoinNeverBlocks

-----------------------------------------------------------------------------
(***************************************************************************)
(* The firmware implements Coordinator.                                    *)
(***************************************************************************)
LEMMA PhaseIs ==
  ASSUME OtherTypes
  PROVE  /\ proc = "running" /\ sysState = "init" => Phase = "starting"
         /\ proc = "running" /\ sysState = "run" => Phase = "serving"
         /\ proc = "running" /\ sysState = "stopping" => Phase = "stopping"
         /\ proc = "halted" /\ timedOut => Phase = "forced"
         /\ proc = "halted" /\ ~timedOut => Phase = "done"
         /\ proc = "asserted" => Phase = "crashed"
BY DEF OtherTypes, Phase

(***************************************************************************)
(* Most steps are invisible to the coordinator.                            *)
(***************************************************************************)
LEMMA Invisible ==
  ASSUME UNCHANGED <<proc, sysState, timedOut, readyMask>>, Quiet' = Quiet
  PROVE  UNCHANGED Coord!cvars
BY DEF Phase, Coord!cvars

(***************************************************************************)
(* Reaching the stopped state while stopping is the step GoQuiet.          *)
(***************************************************************************)
LEMMA Quietens ==
  ASSUME IInv, NEW c \in Comp, proc = "running", sysState = "stopping",
         UNCHANGED <<proc, sysVars>>, ao' = [ao EXCEPT ![c] = "stopped"]
  PROVE  Coord!GoQuiet(c)
<1>1. UNCHANGED <<Phase, readyMask>> /\ Phase = "stopping"
  BY PhaseIs DEF Phase, sysVars, IInv
<1>2. Quiet' = Quiet \cup {c}
  BY DEF Quiet, IInv, OtherTypes
<1> QED BY <1>1, <1>2 DEF Coord!GoQuiet

(***************************************************************************)
(* A time event that meets a full queue is the step Crash.                 *)
(***************************************************************************)
LEMMA Crashes ==
  ASSUME IInv, proc = "running", proc' \in {"running", "asserted"}, UNCHANGED <<sysVars, ao>>
  PROVE  Coord!Crash \/ UNCHANGED Coord!cvars
<1>1. Quiet' = Quiet /\ UNCHANGED <<sysState, timedOut, readyMask>>
  BY DEF Quiet, sysVars
<1>2. CASE proc' = "running"
  BY <1>1, <1>2, Invisible
<1>3. CASE proc' = "asserted"
  <2>1. Phase \in {"starting", "serving", "stopping"}
    BY PhaseIs DEF IInv, OtherTypes
  <2>2. Phase' = "crashed"
    BY <1>3 DEF Phase
  <2> QED BY <1>1, <2>1, <2>2 DEF Coord!Crash
<1> QED BY <1>2, <1>3

(***************************************************************************)
(* SYSTEM_STOP is handled, and a thread waited for, only while stopping.   *)
(***************************************************************************)
LEMMA StopMeansStopping ==
  ASSUME IInv, NEW c \in Comp, Dispatch(c, "STOP")
  PROVE  sysState = "stopping"
<1>1. Current(c) \in Allowed
  BY PoppedKeeps DEF IInv, QueueOK, Dispatch, Turn, AO
<1> QED BY <1>1 DEF Dispatch, Allowed

(***************************************************************************)
(* The handlers of the components go quiet or do not show.                 *)
(***************************************************************************)
LEMMA ComponentsRefine ==
  ASSUME IInv,
         \/ DispatchVideo \/ DispatchSubtitle \/ DispatchUsb \/ DispatchStt
         \/ \E c \in Threaded : DispatchThreaded(c)
  PROVE  (\E c \in Comp : Coord!GoQuiet(c)) \/ UNCHANGED Coord!cvars
<1> DEFINE goal == (\E c \in Comp : Coord!GoQuiet(c)) \/ UNCHANGED Coord!cvars
<1> USE DEF sysVars
<1>1. CASE VideoStop
  <2>1. sysState = "stopping" /\ proc = "running"
    BY <1>1, StopMeansStopping DEF VideoStop, Comp, Dispatch, Turn
  <2>2. Coord!GoQuiet("video")
    BY <1>1, <2>1, Quietens DEF VideoStop, Enter, Comp
  <2> QED BY <2>2 DEF Comp
<1>2. CASE SubtitleStop
  <2>1. sysState = "stopping" /\ proc = "running"
    BY <1>2, StopMeansStopping DEF SubtitleStop, Comp, Dispatch, Turn
  <2>2. Coord!GoQuiet("subtitle")
    BY <1>2, <2>1, Quietens DEF SubtitleStop, Enter, Comp
  <2> QED BY <2>2 DEF Comp
<1>3. ASSUME NEW c \in Threaded, DispatchThreaded(c) PROVE goal
  <2>1. c \in Comp /\ proc = "running"
    BY <1>3 DEF Threaded, Comp, DispatchThreaded, ThreadedStop, ThreadedStopPoll, Dispatch, Turn
  <2>2. sysState = "stopping"
    <3>1. CASE ThreadedStop(c)
      BY <2>1, <3>1, StopMeansStopping DEF ThreadedStop
    <3>2. CASE ThreadedStopPoll(c)
      BY <2>1, <3>2 DEF ThreadedStopPoll, IInv, Resources, ResourceOK
    <3> QED BY <1>3, <3>1, <3>2 DEF DispatchThreaded
  <2>3. UNCHANGED <<proc, sysVars>>
    BY <1>3 DEF DispatchThreaded, ThreadedStop, ThreadedStopPoll
  <2>4. CASE Enter(c, "stopped")
    BY <2>1, <2>2, <2>3, <2>4, Quietens DEF Enter
  <2>5. CASE (Enter(c, "stopping") /\ ao[c] # "stopped") \/ UNCHANGED ao
    <3>1. Quiet' = Quiet
      BY <2>5 DEF Quiet, Enter, IInv, OtherTypes
    <3> QED BY <2>3, <3>1, Invisible
  <2>6. Enter(c, "stopped") \/ (Enter(c, "stopping") /\ ao[c] # "stopped") \/ UNCHANGED ao
    BY <1>3 DEF DispatchThreaded, ThreadedStop, ThreadedStopPoll
  <2> QED BY <2>4, <2>5, <2>6
<1>4. ASSUME UNCHANGED <<proc, sysVars>>, NEW c \in Comp, NEW s \in {"up", "error"},
             (Enter(c, s) /\ ao[c] # "stopped") \/ UNCHANGED ao
      PROVE  UNCHANGED Coord!cvars
  <2>1. Quiet' = Quiet
    BY <1>4 DEF Quiet, Enter, IInv, OtherTypes
  <2> QED BY <1>4, <2>1, Invisible
<1>5. CASE DispatchVideo /\ ~VideoStop
  <2>1. /\ UNCHANGED <<proc, sysVars>>
        /\ \/ (Enter("video", "up") \/ Enter("video", "error")) /\ ao["video"] # "stopped"
           \/ UNCHANGED ao
    BY <1>5 DEF DispatchVideo, VideoInit, VideoStreams, VideoSignalLost, VideoQuietPoll,
                VideoPollFails, aoVars
  <2> QED BY <1>4, <2>1 DEF Comp
<1>6. CASE DispatchSubtitle /\ ~SubtitleStop
  <2>1. /\ UNCHANGED <<proc, sysVars>>
        /\ \/ (Enter("subtitle", "up") \/ Enter("subtitle", "error")) /\ ao["subtitle"] # "stopped"
           \/ UNCHANGED ao
    BY <1>6 DEF DispatchSubtitle, SubtitleInit, SubtitleServe
  <2> QED BY <1>4, <2>1 DEF Comp
<1>7. CASE DispatchUsb
  <2>1. /\ UNCHANGED <<proc, sysVars>>
        /\ \/ (Enter("usb", "up") \/ Enter("usb", "error")) /\ ao["usb"] # "stopped"
           \/ UNCHANGED ao
    BY <1>7 DEF DispatchUsb, UsbInit, UsbPoll
  <2> QED BY <1>4, <2>1 DEF Comp
<1>8. CASE DispatchStt
  <2>1. /\ UNCHANGED <<proc, sysVars>>
        /\ \/ (Enter("stt", "up") \/ Enter("stt", "error")) /\ ao["stt"] # "stopped"
           \/ UNCHANGED ao
    BY <1>8 DEF DispatchStt, SttInit, SttPoll, aoVars
  <2> QED BY <1>4, <2>1 DEF Comp
<1> QED BY <1>1, <1>2, <1>3, <1>5, <1>6, <1>7, <1>8

(***************************************************************************)
(* The handlers of SystemAO report, begin the stop, finish or give up.     *)
(***************************************************************************)
LEMMA SystemRefines ==
  ASSUME IInv, IInv', DispatchSystem
  PROVE  Coord!CNext \/ UNCHANGED Coord!cvars
<1> USE DEF sysVars
<1>1. proc = "running"
  BY DEF DispatchSystem, SystemReady, SystemFailFast, SystemStopped, SystemTimeout, Dispatch, Turn
<1>2. ao' = ao /\ Quiet' = Quiet
  BY DEF DispatchSystem, SystemReady, SystemFailFast, SystemStopped, SystemTimeout, aoVars, Quiet
<1>3. CASE SystemFailFast
  <2>1. Phase \in {"starting", "serving"}
    BY <1>1, <1>3, PhaseIs DEF SystemFailFast, IInv
  <2>2. Phase' = "stopping"
    BY <1>1, <1>3 DEF SystemFailFast, EnterStopping, Phase
  <2>3. readyMask' = readyMask /\ readyMask \subseteq Comp
    BY <1>3 DEF SystemFailFast, IInv, OtherTypes
  <2> QED BY <1>2, <2>1, <2>2, <2>3 DEF Coord!BeginStop, Coord!CNext
<1>4. CASE SystemStopped
  <2>1. UNCHANGED <<sysState, timedOut, readyMask>> /\ sysState = "stopping"
    BY <1>4 DEF SystemStopped
  <2>2. CASE UNCHANGED proc
    BY <1>2, <2>1, <2>2, Invisible
  <2>3. CASE proc' = "halted"
    <3>1. Phase = "stopping" /\ Phase' = "done" /\ ~timedOut
      BY <1>1, <2>1, <2>3, PhaseIs DEF IInv, Ending, Phase
    <3>2. Quiet = Comp
      BY <1>2, <2>1, <2>3, <3>1 DEF IInv, Ending, Quiet
    <3> QED BY <1>2, <2>1, <3>1, <3>2 DEF Coord!Finish, Coord!CNext
  <2> QED BY <1>4, <2>2, <2>3 DEF SystemStopped
<1>5. CASE SystemTimeout
  <2>1. Phase = "stopping" /\ Phase' = "forced" /\ readyMask' = readyMask
    BY <1>1, <1>5, PhaseIs DEF SystemTimeout, Dispatch, IInv, Phase
  <2> QED BY <1>2, <2>1 DEF Coord!GiveUp, Coord!CNext
<1>6. CASE SystemReady
  <2> DEFINE e       == Current("system")
             invalid == e.src = "video" /\ e.dim = NoMode
             ready   == IF invalid THEN readyMask ELSE readyMask \cup {e.src}
  <2>1. e \in Allowed /\ e.sig = "READY"
    BY <1>6, PoppedKeeps DEF SystemReady, Dispatch, Turn, AO, IInv, QueueOK
  <2>2. e.src \in Comp
    BY <2>1 DEF Allowed
  <2>3. /\ readyMask' = ready
        /\ sysState = "init" /\ UNCHANGED <<proc, timedOut>>
        /\ \/ sysState' = "run" /\ Comp \subseteq ready
           \/ sysState' = "stopping"
           \/ sysState' = sysState /\ ~invalid /\ ~(Comp \subseteq ready)
    BY <1>6 DEF SystemReady, Dispatch, EnterStopping, InitExpected
  <2>4. Phase = "starting" /\ readyMask \subseteq Comp /\ readyMask' \subseteq Comp
    BY <1>1, <2>3, PhaseIs DEF IInv, OtherTypes
  <2> HIDE DEF e
  <2>5. readyMask \subseteq ready
    OBVIOUS
  <2>6. CASE sysState' = "stopping"
    <3>1. Phase' = "stopping"
      BY <1>1, <2>3, <2>6 DEF Phase
    <3> QED BY <1>2, <2>3, <2>4, <2>5, <3>1 DEF Coord!BeginStop, Coord!CNext
  <2>7. CASE sysState' = "run" /\ Comp \subseteq ready
    <3>1. Phase' = "serving"
      BY <1>1, <2>3, <2>7 DEF Phase
    <3>2. readyMask' = Comp
      BY <2>3, <2>4, <2>7
    <3>3. readyMask' = readyMask \cup {e.src}
      BY <2>2, <2>3, <2>4, <3>2
    <3> QED BY <1>2, <2>2, <2>4, <3>1, <3>2, <3>3 DEF Coord!Report, Coord!CNext
  <2>8. CASE sysState' = sysState /\ ~invalid /\ ~(Comp \subseteq ready)
    <3>1. Phase' = "starting"
      BY <1>1, <2>3, <2>8 DEF Phase
    <3>2. readyMask' # Comp /\ readyMask' = readyMask \cup {e.src}
      BY <2>3, <2>8
    <3> QED BY <1>2, <2>2, <2>4, <3>1, <3>2 DEF Coord!Report, Coord!CNext
  <2> QED BY <2>3, <2>6, <2>7, <2>8
<1> QED BY <1>3, <1>4, <1>5, <1>6 DEF DispatchSystem

(***************************************************************************)
(* Every behaviour of the firmware is one of the coordinated start and     *)
(* stop that Coordinator describes.                                        *)
(***************************************************************************)
THEOREM Refinement == Spec => ImplementsCoordinator
<1>1. Init => Coord!CInit
  BY DEF Init, Coord!CInit, Phase, Quiet, Comp
<1>2. ASSUME IInv, IInv', [Next]_vars PROVE [Coord!CNext]_Coord!cvars
  <2>1. CASE DispatchSystem
    BY <1>2, <2>1, SystemRefines
  <2>2. CASE \/ DispatchVideo \/ DispatchSubtitle \/ DispatchUsb \/ DispatchStt
             \/ \E c \in Threaded : DispatchThreaded(c)
    BY <1>2, <2>2, ComponentsRefine DEF Coord!CNext
  <2>3. CASE Tick
    <3>1. proc = "running" /\ proc' \in {"running", "asserted"} /\ UNCHANGED <<sysVars, ao>>
      BY <2>3 DEF Tick, TickInit, TickShutdown, TickSignal, TickPoll, TimeEventPost, aoVars
    <3> QED BY <1>2, <3>1, Crashes DEF Coord!CNext
  <2>4. CASE \/ CaptureFails \/ SignalArrives \/ UNCHANGED vars
             \/ (\E c \in Threaded : WorkerExits(c)) \/ \E a \in AO : Ignore(a)
    <3>1. UNCHANGED <<proc, sysVars, ao>>
      BY <2>4 DEF CaptureFails, SignalArrives, WorkerExits, Ignore, vars, aoVars
    <3>2. Quiet' = Quiet
      BY <3>1 DEF Quiet
    <3> QED BY <3>1, <3>2, Invisible DEF sysVars
  <2> QED BY <1>2, <2>1, <2>2, <2>3, <2>4 DEF Next
<1> QED BY <1>1, <1>2, Invariance, PTL DEF Spec, ImplementsCoordinator, Coord!CSpec

-----------------------------------------------------------------------------
(***************************************************************************)
(* Which signals wait in a queue, and what a post and a handler change of  *)
(* it.                                                                     *)
(***************************************************************************)
Has(s, sig) == \E i \in 1..Len(s) : s[i].sig = sig

LEMMA HasAppend ==
  ASSUME NEW s \in Seq(Event), NEW e \in Event, NEW sig
  PROVE  Has(Append(s, e), sig) <=> Has(s, sig) \/ e.sig = sig
<1>1. Len(Append(s, e)) = Len(s) + 1 /\ Len(s) \in Nat OBVIOUS
<1>2. \A i \in 1..Len(s) : Append(s, e)[i] = s[i] OBVIOUS
<1>3. Append(s, e)[Len(s) + 1] = e OBVIOUS
<1>4. ASSUME Has(s, sig) PROVE Has(Append(s, e), sig)
  <2>1. PICK i \in 1..Len(s) : s[i].sig = sig BY <1>4 DEF Has
  <2>2. i \in 1..(Len(s) + 1) /\ Append(s, e)[i].sig = sig BY <1>1, <1>2, <2>1
  <2> QED BY <1>1, <2>2 DEF Has
<1>5. ASSUME e.sig = sig PROVE Has(Append(s, e), sig)
  <2>1. Len(s) + 1 \in 1..(Len(s) + 1) BY <1>1
  <2> QED BY <1>1, <1>3, <1>5, <2>1 DEF Has
<1>6. ASSUME Has(Append(s, e), sig), e.sig # sig PROVE Has(s, sig)
  <2>1. PICK i \in 1..(Len(s) + 1) : Append(s, e)[i].sig = sig BY <1>1, <1>6 DEF Has
  <2>2. i # Len(s) + 1 BY <1>3, <1>6, <2>1
  <2>3. i \in 1..Len(s) BY <1>1, <2>1, <2>2
  <2> QED BY <1>2, <2>1, <2>3 DEF Has
<1> QED BY <1>4, <1>5, <1>6

LEMMA HasTail ==
  ASSUME NEW s \in Seq(Event), s # <<>>, NEW sig
  PROVE  Has(s, sig) <=> Head(s).sig = sig \/ Has(Tail(s), sig)
<1>1. Len(Tail(s)) = Len(s) - 1 /\ Len(s) \in Nat \ {0} OBVIOUS
<1>2. \A i \in 1..(Len(s) - 1) : Tail(s)[i] = s[i + 1] OBVIOUS
<1>3. Head(s) = s[1] /\ 1 \in 1..Len(s) BY <1>1
<1>4. ASSUME Has(Tail(s), sig) PROVE Has(s, sig)
  <2>1. PICK i \in 1..(Len(s) - 1) : Tail(s)[i].sig = sig BY <1>1, <1>4 DEF Has
  <2>2. i + 1 \in 1..Len(s) /\ s[i + 1].sig = sig BY <1>1, <1>2, <2>1
  <2> QED BY <2>2 DEF Has
<1>5. ASSUME Has(s, sig), Head(s).sig # sig PROVE Has(Tail(s), sig)
  <2>1. PICK i \in 1..Len(s) : s[i].sig = sig BY <1>5 DEF Has
  <2>2. i # 1 BY <1>3, <1>5, <2>1
  <2>3. i - 1 \in 1..(Len(s) - 1) /\ (i - 1) + 1 = i BY <1>1, <2>1, <2>2
  <2>4. Tail(s)[i - 1].sig = sig BY <1>2, <2>1, <2>3
  <2> QED BY <1>1, <2>3, <2>4 DEF Has
<1> QED BY <1>3, <1>4, <1>5 DEF Has

LEMMA HasPosted ==
  ASSUME NEW q \in [AO -> Seq(Event)], NEW b \in AO, NEW e \in Event, NEW margin \in Nat, NEW sig,
         NEW a \in AO
  PROVE  /\ PostX(q, b, e, margin) \in [AO -> Seq(Event)]
         /\ Has(q[a], sig) => Has(PostX(q, b, e, margin)[a], sig)
         /\ Has(PostX(q, b, e, margin)[a], sig) => Has(q[a], sig) \/ (a = b /\ e.sig = sig)
<1>1. Append(q[b], e) \in Seq(Event) OBVIOUS
<1>2. CASE a = b BY <1>1, <1>2, HasAppend DEF PostX
<1>3. CASE a # b BY <1>1, <1>3 DEF PostX
<1> QED BY <1>2, <1>3

LEMMA HasPopped ==
  ASSUME queue \in [AO -> Seq(Event)], NEW b \in AO, queue[b] # <<>>, NEW sig, NEW a \in AO
  PROVE  /\ Popped(b) \in [AO -> Seq(Event)]
         /\ Has(Popped(b)[a], sig) => Has(queue[a], sig)
         /\ Has(queue[a], sig) /\ (a # b \/ Current(b).sig # sig) => Has(Popped(b)[a], sig)
<1>1. Tail(queue[b]) \in Seq(Event) OBVIOUS
<1>2. CASE a = b BY <1>1, <1>2, HasTail DEF Popped, Current
<1>3. CASE a # b BY <1>1, <1>3 DEF Popped
<1> QED BY <1>2, <1>3

(***************************************************************************)
(* A handler of a component takes its event and posts at most one more,    *)
(* which is no request to initialise.                                      *)
(***************************************************************************)
Handles(c) ==
  /\ Turn(c)
  /\ \/ queue' = Popped(c)
     \/ \E b \in AO, e \in Event, margin \in Nat :
          e.sig # "INIT" /\ queue' = PostX(Popped(c), b, e, margin)

(***************************************************************************)
(* A step that loses no timeout of SystemAO and asks no component to       *)
(* initialise.                                                             *)
(***************************************************************************)
Harmless ==
  /\ Has(queue["system"], "SHUTDOWN_TIMEOUT") => Has(queue'["system"], "SHUTDOWN_TIMEOUT")
  /\ \A c \in Comp : Has(queue'[c], "INIT") => Has(queue[c], "INIT")

LEMMA HandlesHarmless ==
  ASSUME TypeOK, NEW c \in Comp, Handles(c) PROVE Harmless
<1>1. queue \in [AO -> Seq(Event)] /\ queue[c] # <<>> /\ c \in AO /\ c # "system" /\ "system" \in AO
  BY DEF TypeOK, Handles, Turn, AO, Comp
<1>2. /\ Popped(c) \in [AO -> Seq(Event)]
      /\ Has(queue["system"], "SHUTDOWN_TIMEOUT") => Has(Popped(c)["system"], "SHUTDOWN_TIMEOUT")
      /\ \A d \in Comp : Has(Popped(c)[d], "INIT") => Has(queue[d], "INIT")
  BY <1>1, HasPopped DEF AO
<1>3. CASE queue' = Popped(c) BY <1>2, <1>3 DEF Harmless
<1>4. ASSUME NEW b \in AO, NEW e \in Event, NEW margin \in Nat,
             e.sig # "INIT", queue' = PostX(Popped(c), b, e, margin)
      PROVE  Harmless
  <2>1. Has(Popped(c)["system"], "SHUTDOWN_TIMEOUT") => Has(queue'["system"], "SHUTDOWN_TIMEOUT")
    BY <1>1, <1>2, <1>4, HasPosted
  <2>2. \A d \in Comp : Has(queue'[d], "INIT") => Has(Popped(c)[d], "INIT")
    BY <1>2, <1>4, HasPosted DEF AO
  <2> QED BY <1>2, <2>1, <2>2 DEF Harmless
<1> QED BY <1>3, <1>4 DEF Handles

LEMMA ReportsHandle ==
  ASSUME NEW c \in Comp, Turn(c), NEW dim \in Mode \cup {NoMode},
         ReportReady(c, dim) \/ ReportError(c) \/ ReportStopped(c) \/ Consume(c)
  PROVE  Handles(c)
<1>1. /\ DimEvt("READY", c, dim) \in Event /\ DimEvt("READY", c, dim).sig # "INIT"
      /\ Evt("ERROR", c) \in Event /\ Evt("ERROR", c).sig # "INIT"
      /\ Evt("STOPPED", c) \in Event /\ Evt("STOPPED", c).sig # "INIT"
  BY EventTypes DEF Signal, AO
<1>2. "system" \in AO /\ CONTROL_MARGIN \in Nat /\ ERROR_MARGIN \in Nat
  BY DEF AO, CONTROL_MARGIN, ERROR_MARGIN
<1> QED BY <1>1, <1>2 DEF Handles, ReportReady, ReportError, ReportStopped, Consume

LEMMA ComponentsHandle ==
  /\ DispatchVideo => Handles("video")
  /\ DispatchSubtitle /\ IInv => Handles("subtitle")
  /\ DispatchUsb => Handles("usb")
  /\ DispatchStt => Handles("stt")
  /\ \A c \in Threaded : DispatchThreaded(c) => Handles(c)
<1> USE DEF Dispatch
<1>1. ASSUME DispatchVideo PROVE Handles("video")
  <2>1. /\ Turn("video")
        /\ \E dim \in Mode \cup {NoMode} :
             ReportReady("video", dim) \/ ReportError("video") \/ ReportStopped("video") \/ Consume("video")
    BY <1>1 DEF DispatchVideo, VideoInit, VideoStreams, VideoSignalLost, VideoQuietPoll,
                VideoPollFails, VideoStop
  <2> QED BY <2>1, ReportsHandle DEF Comp
<1>2. ASSUME DispatchSubtitle, IInv PROVE Handles("subtitle")
  <2>1. Current("subtitle") \in Event
    <3>1. Turn("subtitle")
      BY <1>2 DEF DispatchSubtitle, SubtitleInit, SubtitleServe, SubtitleStop
    <3>2. Current("subtitle") \in Allowed
      BY <1>2, <3>1, PoppedKeeps DEF Turn, AO, Comp, IInv, QueueOK
    <3> QED BY <3>2 DEF Allowed
  <2>2. Current("subtitle").dim \in Mode \cup {NoMode} BY <2>1 DEF Event
  <2>3. /\ Turn("subtitle")
        /\ \E dim \in Mode \cup {NoMode} :
             \/ ReportReady("subtitle", dim) \/ ReportError("subtitle")
             \/ ReportStopped("subtitle") \/ Consume("subtitle")
    BY <1>2, <2>2 DEF DispatchSubtitle, SubtitleInit, SubtitleServe, SubtitleStop
  <2> QED BY <2>3, ReportsHandle DEF Comp
<1>3. ASSUME DispatchUsb PROVE Handles("usb")
  <2>1. Turn("usb") /\ (ReportReady("usb", NoMode) \/ ReportError("usb") \/ Consume("usb"))
    BY <1>3 DEF DispatchUsb, UsbInit, UsbPoll
  <2> QED BY <2>1, ReportsHandle DEF Comp
<1>4. ASSUME DispatchStt PROVE Handles("stt")
  <2>1. CASE ReportReady("stt", NoMode) \/ ReportError("stt") \/ Consume("stt")
    BY <1>4, <2>1, ReportsHandle DEF DispatchStt, SttInit, SttPoll, Comp
  <2>2. CASE \E margin \in {1, 4} :
               queue' = PostX(Popped("stt"), "subtitle", Evt("TEXT", "stt"), margin)
    <3>1. Evt("TEXT", "stt") \in Event /\ Evt("TEXT", "stt").sig # "INIT" /\ "subtitle" \in AO
      <4>1. "TEXT" \in Signal /\ "stt" \in AO /\ "subtitle" \in AO BY DEF Signal, AO, Comp
      <4>2. Evt("TEXT", "stt") \in Event /\ Evt("TEXT", "stt").sig = "TEXT" BY <4>1, EventTypes
      <4> QED BY <4>1, <4>2
    <3>2. Turn("stt") BY <1>4 DEF DispatchStt, SttInit, SttPoll
    <3> QED BY <2>2, <3>1, <3>2 DEF Handles
  <2> QED BY <1>4, <2>1, <2>2 DEF DispatchStt, SttInit, SttPoll
<1>5. ASSUME NEW c \in Threaded, DispatchThreaded(c) PROVE Handles(c)
  <2>1. Turn(c) /\ (ReportStopped(c) \/ Consume(c)) /\ c \in Comp
    BY <1>5 DEF DispatchThreaded, ThreadedStop, ThreadedStopPoll, Threaded, Comp
  <2> QED BY <2>1, ReportsHandle
<1> QED BY <1>1, <1>2, <1>3, <1>4, <1>5

(***************************************************************************)
(* What makes a stop certain: SystemAO's timeout is armed or waiting, a    *)
(* component that waits for its thread has asked it and keeps its timer,   *)
(* as every component with a thread does while it runs, and nobody is      *)
(* asked to initialise any more.                                           *)
(***************************************************************************)
ThreadsArmed == \A c \in Threaded : running[c] => c \in armed

NoneAsked == sysState = "stopping" => \A c \in Comp : ~Has(queue[c], "INIT")

WInv == EndIsScheduled /\ StoppingIsWatched /\ ThreadsArmed /\ NoneAsked

(***************************************************************************)
(* A harmless step keeps the schedule, as long as the timers of SystemAO   *)
(* are left alone.                                                         *)
(***************************************************************************)
LEMMA HarmlessKeeps ==
  ASSUME WInv, Harmless, sysState' = sysState, proc' = "running" => proc = "running",
         "shutdown" \in armed => "shutdown" \in armed'
  PROVE  EndIsScheduled' /\ NoneAsked'
BY DEF WInv, Harmless, EndIsScheduled, NoneAsked, Pending, Has

LEMMA StillHarmless == ASSUME UNCHANGED queue PROVE Harmless
BY DEF Harmless

(***************************************************************************)
(* The components' handlers.                                               *)
(***************************************************************************)
LEMMA VideoWatched == ASSUME IInv, WInv, DispatchVideo PROVE WInv'
<1>1. Harmless BY HandlesHarmless, ComponentsHandle, TypesFollow DEF Comp
<1>2. /\ UNCHANGED <<proc, sysVars, workerVars>>
      /\ \A c \in Threaded : ao'[c] = ao[c] /\ running'[c] = running[c]
      /\ armed \ {"video"} \subseteq armed'
  BY DEF DispatchVideo, VideoInit, VideoStreams, VideoSignalLost, VideoQuietPoll, VideoPollFails,
         VideoStop, VideoQuiesce, Enter, aoVars, IInv, OtherTypes, Comp, Threaded
<1>3. EndIsScheduled' /\ NoneAsked' BY <1>1, <1>2, HarmlessKeeps DEF sysVars
<1>4. StoppingIsWatched' /\ ThreadsArmed'
  BY <1>2 DEF WInv, StoppingIsWatched, ThreadsArmed, workerVars, Threaded
<1> QED BY <1>3, <1>4 DEF WInv

LEMMA SubtitleWatched == ASSUME IInv, WInv, DispatchSubtitle PROVE WInv'
<1>1. Harmless BY HandlesHarmless, ComponentsHandle, TypesFollow DEF Comp
<1>2. /\ UNCHANGED <<proc, sysVars, workerVars, armed>>
      /\ \A c \in Threaded : ao'[c] = ao[c] /\ running'[c] = running[c]
  BY DEF DispatchSubtitle, SubtitleInit, SubtitleServe, SubtitleStop, SubtitleQuiesce, Enter,
         IInv, OtherTypes, Comp, Threaded
<1>3. EndIsScheduled' /\ NoneAsked' BY <1>1, <1>2, HarmlessKeeps DEF sysVars
<1>4. StoppingIsWatched' /\ ThreadsArmed'
  BY <1>2 DEF WInv, StoppingIsWatched, ThreadsArmed, workerVars
<1> QED BY <1>3, <1>4 DEF WInv

LEMMA UsbSttWatched == ASSUME IInv, WInv, DispatchUsb \/ DispatchStt PROVE WInv'
<1>1. Harmless BY HandlesHarmless, ComponentsHandle, TypesFollow DEF Comp
<1>2. UNCHANGED <<proc, sysVars>> /\ armed \subseteq armed'
  BY DEF DispatchUsb, UsbInit, UsbPoll, DispatchStt, SttInit, SttPoll, aoVars
<1>3. EndIsScheduled' /\ NoneAsked' BY <1>1, <1>2, HarmlessKeeps DEF sysVars
<1>4. /\ ao \in [Comp -> {"idle", "up", "error", "stopping", "stopped"}]
      /\ running \in [Comp -> BOOLEAN] /\ stopReq \in [Threaded -> BOOLEAN]
  BY DEF IInv, OtherTypes
<1>5. StoppingIsWatched' /\ ThreadsArmed'
  <2> USE DEF WInv, StoppingIsWatched, ThreadsArmed, Enter, Threaded, Comp, aoVars, workerVars
  <2>1. CASE UsbInit BY <1>4, <2>1 DEF UsbInit
  <2>2. CASE UsbPoll BY <1>4, <2>2 DEF UsbPoll, BeginStop
  <2>3. CASE SttInit BY <1>4, <2>3 DEF SttInit
  <2>4. CASE SttPoll BY <1>4, <2>4 DEF SttPoll
  <2> QED BY <2>1, <2>2, <2>3, <2>4 DEF DispatchUsb, DispatchStt
<1> QED BY <1>3, <1>5 DEF WInv

LEMMA ThreadedWatched ==
  ASSUME IInv, WInv, NEW c \in Threaded, DispatchThreaded(c) PROVE WInv'
<1>1. Harmless BY HandlesHarmless, ComponentsHandle, TypesFollow DEF Comp, Threaded
<1>2. UNCHANGED <<proc, sysVars>> /\ armed \ {c} \subseteq armed' /\ c # "shutdown"
  BY DEF DispatchThreaded, ThreadedStop, ThreadedStopPoll, CompleteStop, Threaded
<1>3. EndIsScheduled' /\ NoneAsked' BY <1>1, <1>2, HarmlessKeeps DEF sysVars
<1>4. /\ ao \in [Comp -> {"idle", "up", "error", "stopping", "stopped"}]
      /\ running \in [Comp -> BOOLEAN] /\ stopReq \in [Threaded -> BOOLEAN] /\ c \in Comp
  BY DEF IInv, OtherTypes, Comp, Threaded
<1>5. StoppingIsWatched' /\ ThreadsArmed'
  <2> USE <1>4 DEF WInv, StoppingIsWatched, ThreadsArmed
  <2>1. CASE CompleteStop(c) /\ Enter(c, "stopped") /\ (BeginStop(c) \/ UNCHANGED stopReq)
    <3>1. ~running'[c] /\ ao'[c] # "stopping" BY <2>1 DEF CompleteStop, Enter
    <3>2. \A d \in Threaded \ {c} :
            /\ running'[d] = running[d] /\ ao'[d] = ao[d] /\ stopReq'[d] = stopReq[d]
            /\ d \in armed => d \in armed'
      BY <2>1 DEF CompleteStop, Enter, BeginStop, Threaded, Comp
    <3> QED BY <3>1, <3>2
  <2>2. CASE ThreadedStop(c) /\ ~StopComplete(c)
    <3>1. running[c] /\ stopReq'[c] BY <2>2 DEF ThreadedStop, BeginStop, StopComplete
    <3>2. UNCHANGED <<armed, running>> BY <2>2 DEF ThreadedStop
    <3>3. \A d \in Threaded \ {c} : ao'[d] = ao[d] /\ stopReq'[d] = stopReq[d]
      BY <2>2 DEF ThreadedStop, Enter, BeginStop, Threaded, Comp
    <3> QED BY <3>1, <3>2, <3>3
  <2>3. CASE ThreadedStopPoll(c) /\ ~StopComplete(c) BY <2>3 DEF ThreadedStopPoll
  <2> QED BY <2>1, <2>2, <2>3 DEF DispatchThreaded, ThreadedStop, ThreadedStopPoll
<1> QED BY <1>3, <1>5 DEF WInv

-----------------------------------------------------------------------------
(***************************************************************************)
(* SystemAO runs only when no component has an event waiting, so a stop    *)
(* finds no request to initialise.                                         *)
(***************************************************************************)
LEMMA ComponentsIdle == ASSUME Turn("system"), NEW c \in Comp PROVE queue[c] = <<>>
BY DEF Turn, AO, Comp, Prio

LEMMA StopWatched ==
  ASSUME IInv, WInv, Turn("system"), EnterStopping(Popped("system")), UNCHANGED <<ao, running, stopReq>>
  PROVE  WInv'
<1>1. \A c \in Comp : queue'[c] = PostX(Popped("system"), c, Evt("STOP", "system"), 0)[c]
  BY DEF EnterStopping, BroadcastStop, AO
<1>2. queue \in [AO -> Seq(Event)] /\ Evt("STOP", "system") \in Event
      /\ Evt("STOP", "system").sig = "STOP" /\ "system" \in AO /\ queue["system"] # <<>>
  BY TypesFollow, EventTypes DEF TypeOK, AO, Signal, Turn
<1>3. \A c \in Comp : ~Has(queue'[c], "INIT")
  <2> SUFFICES ASSUME NEW c \in Comp PROVE ~Has(queue'[c], "INIT")
    OBVIOUS
  <2>1. ~Has(queue[c], "INIT") BY ComponentsIdle DEF Has
  <2>2. c \in AO BY DEF AO
  <2>3. Popped("system") \in [AO -> Seq(Event)] /\ ~Has(Popped("system")[c], "INIT")
    BY <1>2, <2>1, <2>2, HasPopped
  <2>4. Has(PostX(Popped("system"), c, Evt("STOP", "system"), 0)[c], "INIT")
          => Has(Popped("system")[c], "INIT") \/ Evt("STOP", "system").sig = "INIT"
    BY <1>2, <2>2, <2>3, HasPosted
  <2> QED BY <1>1, <1>2, <2>3, <2>4
<1>4. EndIsScheduled' /\ NoneAsked' BY <1>3 DEF EnterStopping, EndIsScheduled, NoneAsked
<1>5. StoppingIsWatched' /\ ThreadsArmed'
  BY DEF EnterStopping, WInv, StoppingIsWatched, ThreadsArmed, Threaded
<1> QED BY <1>4, <1>5 DEF WInv

LEMMA SystemWatched == ASSUME IInv, WInv, DispatchSystem PROVE WInv'
<1>1. CASE SystemFailFast BY <1>1, StopWatched DEF SystemFailFast, workerVars
<1>2. CASE SystemTimeout
  <2>1. proc' # "running" /\ sysState = "stopping" /\ UNCHANGED <<sysState, aoVars, workerVars>>
    BY <1>2 DEF SystemTimeout
  <2>2. \A c \in Comp : ~Has(queue'[c], "INIT")
    BY <1>2, <2>1 DEF SystemTimeout, Consume, Popped, WInv, NoneAsked, AO, Comp, IInv, QueueOK, QueuesOver
  <2> QED BY <2>1, <2>2
        DEF WInv, EndIsScheduled, NoneAsked, StoppingIsWatched, ThreadsArmed, aoVars, workerVars
<1>3. CASE SystemStopped
  <2>1. /\ sysState = "stopping" /\ UNCHANGED <<sysState, ao, running, workerVars>>
        /\ queue' = Popped("system") /\ Turn("system") /\ Current("system").sig = "STOPPED"
        /\ armed \ {"shutdown"} \subseteq armed'
        /\ proc' = "running" => armed' = armed
    BY <1>3 DEF SystemStopped, Consume, Dispatch
  <2>2. Harmless
    <3>1. queue \in [AO -> Seq(Event)] /\ "system" \in AO /\ queue["system"] # <<>>
      BY <2>1, TypesFollow DEF TypeOK, AO, Turn
    <3> QED BY <2>1, <3>1, HasPopped DEF Harmless, AO
  <2>3. EndIsScheduled' /\ NoneAsked'
    <3>1. NoneAsked' BY <2>1, <2>2 DEF WInv, Harmless, NoneAsked
    <3>2. proc = "running" BY <2>1 DEF Turn
    <3>3. EndIsScheduled' BY <2>1, <2>2, <3>2 DEF WInv, Harmless, EndIsScheduled, Pending, Has
    <3> QED BY <3>1, <3>3
  <2>4. StoppingIsWatched' /\ ThreadsArmed'
    BY <2>1 DEF WInv, StoppingIsWatched, ThreadsArmed, Threaded, workerVars
  <2> QED BY <2>3, <2>4 DEF WInv
<1>4. CASE SystemReady
  <2>1. /\ Turn("system") /\ UNCHANGED <<ao, running, workerVars>>
        /\ sysState = "init"
        /\ \/ EnterStopping(Popped("system"))
           \/ sysState' # "stopping" /\ armed \ {"init"} \subseteq armed'
    <3> DEFINE e       == Current("system")
               request == e.src = "video" /\ e.dim # NoMode /\ ~subtitleInit
               q0      == Popped("system")
               q1      == IF request
                          THEN PostX(q0, "subtitle", DimEvt("INIT", "subtitle", e.dim), CONTROL_MARGIN)
                          ELSE q0
    <3>1. ASSUME (e.src = "video" /\ e.dim = NoMode) \/ (request /\ ~(request /\ q1 # q0)) PROVE q1 = q0
      BY <3>1
    <3>2. \/ sysState' = "run" /\ armed' = armed \ {"init"}
          \/ EnterStopping(q1) /\ q1 = q0
          \/ sysState' = sysState /\ armed' = armed
      BY <1>4, <3>1 DEF SystemReady
    <3> HIDE DEF q1
    <3> QED BY <1>4, <3>2 DEF SystemReady, Dispatch
  <2>2. CASE EnterStopping(Popped("system")) BY <2>1, <2>2, StopWatched DEF workerVars
  <2>3. CASE sysState' # "stopping" /\ armed \ {"init"} \subseteq armed'
    BY <2>1, <2>3
      DEF WInv, EndIsScheduled, NoneAsked, StoppingIsWatched, ThreadsArmed, Threaded, workerVars
  <2> QED BY <2>1, <2>2, <2>3
<1> QED BY <1>1, <1>2, <1>3, <1>4 DEF DispatchSystem

(***************************************************************************)
(* The ticker, the signal handler and the threads.                         *)
(***************************************************************************)
LEMMA TickHarmless ==
  ASSUME TypeOK, NEW a \in AO, NEW e \in Event, e.sig # "INIT", TimeEventPost(a, e)
  PROVE  /\ Harmless
         /\ proc' = "running" => Has(queue'[a], e.sig)
<1>1. queue \in [AO -> Seq(Event)] /\ "system" \in AO BY DEF TypeOK, AO
<1>2. CASE Free(queue, a) > 0
  <2>1. queue' = PostX(queue, a, e, 0) BY <1>2 DEF TimeEventPost, PostX
  <2>2. queue' = [queue EXCEPT ![a] = Append(@, e)] BY <1>2 DEF TimeEventPost
  <2>3. Harmless BY <1>1, <2>1, HasPosted DEF Harmless, AO
  <2>4. Has(queue'[a], e.sig) BY <1>1, <2>2, HasAppend
  <2> QED BY <2>3, <2>4
<1>3. CASE ~(Free(queue, a) > 0) BY <1>3 DEF TimeEventPost, Harmless
<1> QED BY <1>2, <1>3

LEMMA TickWatched == ASSUME IInv, WInv, Tick PROVE WInv'
<1> USE TypesFollow
<1>1. ASSUME UNCHANGED <<sysVars, aoVars, workerVars>>, Harmless, proc = "running" PROVE WInv'
  <2>1. EndIsScheduled' /\ NoneAsked' BY <1>1, HarmlessKeeps DEF sysVars, aoVars
  <2> QED BY <1>1, <2>1 DEF WInv, StoppingIsWatched, ThreadsArmed, aoVars, workerVars
<1>2. ASSUME NEW c \in Polled, TickPoll(c) PROVE WInv'
  <2>1. c \in AO /\ "POLL" \in Signal BY DEF Polled, AO, Comp, Signal
  <2>2. Evt("POLL", c) \in Event /\ Evt("POLL", c).sig # "INIT" BY <2>1, EventTypes
  <2> QED BY <1>1, <1>2, <2>1, <2>2, TickHarmless DEF TickPoll
<1>3. CASE TickInit
  <2>1. "system" \in AO /\ "INIT_TIMEOUT" \in Signal BY DEF AO, Signal
  <2>2. Evt("INIT_TIMEOUT", "system") \in Event /\ Evt("INIT_TIMEOUT", "system").sig # "INIT"
    BY <2>1, EventTypes
  <2> QED BY <1>1, <1>3, <2>1, <2>2, TickHarmless DEF TickInit
<1>4. CASE TickSignal
  <2>1. "system" \in AO /\ "SHUTDOWN" \in Signal BY DEF AO, Signal
  <2>2. Evt("SHUTDOWN", "system") \in Event /\ Evt("SHUTDOWN", "system").sig # "INIT"
    BY <2>1, EventTypes
  <2>3. queue \in [AO -> Seq(Event)] BY DEF TypeOK
  <2>4. Harmless BY <1>4, <2>1, <2>2, <2>3, HasPosted DEF TickSignal, Harmless, AO
  <2> QED BY <1>1, <1>4, <2>4 DEF TickSignal
<1>5. CASE TickShutdown
  <2>1. "system" \in AO /\ "SHUTDOWN_TIMEOUT" \in Signal BY DEF AO, Signal
  <2>2. Evt("SHUTDOWN_TIMEOUT", "system") \in Event
        /\ Evt("SHUTDOWN_TIMEOUT", "system").sig = "SHUTDOWN_TIMEOUT"
    BY <2>1, EventTypes
  <2>3. Harmless /\ (proc' = "running" => Has(queue'["system"], "SHUTDOWN_TIMEOUT"))
    BY <1>5, <2>1, <2>2, TickHarmless DEF TickShutdown
  <2>4. EndIsScheduled' BY <2>3 DEF EndIsScheduled, Pending, Has
  <2>5. NoneAsked' BY <1>5, <2>3 DEF TickShutdown, sysVars, WInv, Harmless, NoneAsked
  <2>6. StoppingIsWatched' /\ ThreadsArmed'
    BY <1>5 DEF TickShutdown, WInv, StoppingIsWatched, ThreadsArmed, Threaded, workerVars
  <2> QED BY <2>4, <2>5, <2>6 DEF WInv
<1> QED BY <1>2, <1>3, <1>4, <1>5 DEF Tick

LEMMA OthersWatched ==
  ASSUME IInv, WInv,
         \/ CaptureFails \/ SignalArrives \/ UNCHANGED vars
         \/ (\E c \in Threaded : WorkerExits(c)) \/ \E a \in AO : Ignore(a)
  PROVE  WInv'
<1>1. ASSUME UNCHANGED <<proc, sysVars, aoVars>>, Harmless,
             \A c \in Threaded : stopReq[c] => stopReq'[c]
      PROVE  WInv'
  <2>1. EndIsScheduled' /\ NoneAsked' BY <1>1, HarmlessKeeps DEF sysVars, aoVars
  <2> QED BY <1>1, <2>1 DEF WInv, StoppingIsWatched, ThreadsArmed, aoVars
<1>2. CASE CaptureFails
  <2>1. \A c \in Threaded : stopReq[c] => stopReq'[c]
    BY <1>2 DEF CaptureFails, IInv, OtherTypes
  <2> QED BY <1>1, <1>2, <2>1, StillHarmless DEF CaptureFails
<1>3. CASE SignalArrives \/ UNCHANGED vars \/ \E c \in Threaded : WorkerExits(c)
  BY <1>1, <1>3, StillHarmless DEF SignalArrives, vars, WorkerExits, workerVars
<1>4. ASSUME NEW a \in AO, Ignore(a) PROVE WInv'
  <2>1. Turn(a) /\ Current(a).sig \notin Accepts(a) /\ queue' = Popped(a)
        /\ UNCHANGED <<proc, sysVars, aoVars, stopReq>>
    BY <1>4 DEF Ignore, Consume, workerVars
  <2>2. queue \in [AO -> Seq(Event)] /\ queue[a] # <<>> BY <2>1, TypesFollow DEF TypeOK, Turn
  <2>3. CASE a # "system" \/ Current(a).sig # "SHUTDOWN_TIMEOUT"
    <3>1. Harmless BY <2>1, <2>2, <2>3, HasPopped DEF Harmless, AO
    <3> QED BY <1>1, <2>1, <3>1
  <2>4. CASE a = "system" /\ Current(a).sig = "SHUTDOWN_TIMEOUT"
    <3>1. sysState # "stopping" BY <2>1, <2>4 DEF Accepts
    <3> QED BY <2>1, <3>1
          DEF WInv, EndIsScheduled, NoneAsked, StoppingIsWatched, ThreadsArmed, sysVars, aoVars
  <2> QED BY <2>3, <2>4
<1> QED BY <1>2, <1>3, <1>4

LEMMA Watching == Spec => []WInv
<1>1. Init => WInv
  BY DEF Init, WInv, EndIsScheduled, StoppingIsWatched, ThreadsArmed, NoneAsked, Threaded, Comp
<1>2. ASSUME IInv, WInv, [Next]_vars PROVE WInv'
  BY <1>2, VideoWatched, SubtitleWatched, UsbSttWatched, ThreadedWatched, SystemWatched, TickWatched,
     OthersWatched DEF Next
<1> QED BY <1>1, <1>2, Invariance, PTL DEF Spec

(***************************************************************************)
(* No stop is left to chance, whatever the lengths of the queues.          *)
(***************************************************************************)
THEOREM StopsAreWatched == Spec => []StopIsWatched
<1>1. WInv => StopIsWatched BY DEF WInv, StopIsWatched
<1> QED BY <1>1, Watching, PTL

(***************************************************************************)
(* Once SystemAO is stopping, nothing starts.                              *)
(***************************************************************************)
THEOREM NothingStartsLate == Spec => NoLateStart
<1>1. ASSUME IInv, WInv, [Next]_vars, sysState = "stopping", NEW c \in Comp, running'[c]
      PROVE  running[c]
  <2>1. running \in [Comp -> BOOLEAN] BY <1>1 DEF IInv, OtherTypes
  <2>2. \A d \in Comp : ~Dispatch(d, "INIT")
    <3> SUFFICES ASSUME NEW d \in Comp, Dispatch(d, "INIT") PROVE FALSE
      OBVIOUS
    <3>1. queue[d] \in Seq(Event) /\ queue[d] # <<>> /\ Head(queue[d]).sig = "INIT"
      BY <1>1, TypesFollow DEF Dispatch, Turn, Current, TypeOK, AO
    <3>2. Has(queue[d], "INIT") BY <3>1, HasTail
    <3> QED BY <1>1, <3>2 DEF WInv, NoneAsked
  <2>3. ~VideoInit /\ ~UsbInit /\ ~SttInit /\ ~SubtitleInit
    BY <2>2 DEF VideoInit, UsbInit, SttInit, SubtitleInit, Comp
  <2>4. CASE DispatchVideo
    BY <1>1, <2>1, <2>3, <2>4 DEF DispatchVideo, VideoStreams, VideoSignalLost, VideoQuietPoll,
      VideoPollFails, VideoStop, VideoQuiesce, aoVars
  <2>5. CASE DispatchSubtitle
    BY <1>1, <2>1, <2>3, <2>5 DEF DispatchSubtitle, SubtitleServe, SubtitleStop, SubtitleQuiesce
  <2>6. CASE DispatchUsb \/ DispatchStt
    BY <1>1, <2>3, <2>6 DEF DispatchUsb, DispatchStt, UsbPoll, SttPoll, aoVars
  <2>7. CASE \E d \in Threaded : DispatchThreaded(d) \/ WorkerExits(d)
    BY <1>1, <2>1, <2>7
      DEF DispatchThreaded, ThreadedStop, ThreadedStopPoll, CompleteStop, WorkerExits, aoVars
  <2>8. CASE DispatchSystem
    BY <1>1, <2>8 DEF DispatchSystem, SystemReady, SystemFailFast, SystemStopped, SystemTimeout, aoVars
  <2>9. CASE CaptureFails \/ (\E a \in AO : Ignore(a)) \/ Tick \/ SignalArrives \/ UNCHANGED vars
    BY <1>1, <2>9 DEF CaptureFails, Ignore, Tick, TickInit, TickShutdown, TickSignal, TickPoll,
      SignalArrives, vars, aoVars
  <2> QED BY <1>1, <2>4, <2>5, <2>6, <2>7, <2>8, <2>9 DEF Next
<1>2. IInv /\ WInv /\ [Next]_vars =>
        [sysState = "stopping" => \A c \in Comp : running'[c] => running[c]]_vars
  BY <1>1
<1> QED BY <1>2, Invariance, Watching, PTL DEF Spec, NoLateStart

-----------------------------------------------------------------------------
(***************************************************************************)
(* The sink: SttAO outranks USBAudioAO and its request to initialise is    *)
(* there from the start, so STT has come up, or failed, before the sink is *)
(* made.                                                                   *)
(***************************************************************************)
SttFirst ==
  /\ ao["stt"] = "idle" => queue["stt"] # <<>> /\ Head(queue["stt"]).sig = "INIT"
  /\ ao["stt"] \in {"up", "stopping"} => activeClient
  /\ ao["stt"] = "error" => ~running["stt"]
  /\ running["usb"] => ao["stt"] # "idle"

KInv == SttFirst /\ SinkBound

(***************************************************************************)
(* The first event of a queue stays first when another queue is served.    *)
(***************************************************************************)
LEMMA HeadStays ==
  ASSUME NEW q \in [AO -> Seq(Event)], NEW a \in AO, q[a] # <<>>, NEW b \in AO, NEW e \in Event,
         NEW margin \in Nat
  PROVE  PostX(q, b, e, margin)[a] # <<>> /\ Head(PostX(q, b, e, margin)[a]) = Head(q[a])
<1>1. Append(q[a], e) # <<>> /\ Head(Append(q[a], e)) = Head(q[a]) OBVIOUS
<1>2. CASE a = b BY <1>1, <1>2 DEF PostX
<1>3. CASE a # b BY <1>3 DEF PostX
<1> QED BY <1>2, <1>3

(***************************************************************************)
(* When any other active object runs, STT has nothing waiting.             *)
(***************************************************************************)
LEMMA SttOutranks ==
  ASSUME KInv, NEW a \in AO \ {"stt"}, Turn(a) PROVE ao["stt"] # "idle"
<1>1. queue["stt"] = <<>> BY DEF Turn, AO, Comp, Prio
<1> QED BY <1>1 DEF KInv, SttFirst

LEMMA SinkDispatch ==
  ASSUME IInv, KInv,
         DispatchSystem \/ DispatchVideo \/ DispatchSubtitle \/ DispatchUsb \/ DispatchThreaded("usb")
  PROVE  KInv'
<1>1. ao["stt"] # "idle"
  <2>1. Turn("system") \/ Turn("video") \/ Turn("subtitle") \/ Turn("usb")
    BY DEF DispatchSystem, SystemReady, SystemFailFast, SystemStopped, SystemTimeout,
           DispatchVideo, VideoInit, VideoStreams, VideoSignalLost, VideoQuietPoll, VideoPollFails,
           VideoStop, DispatchSubtitle, SubtitleInit, SubtitleServe, SubtitleStop,
           DispatchUsb, UsbInit, UsbPoll, DispatchThreaded, ThreadedStop, ThreadedStopPoll, Dispatch
  <2> QED BY <2>1, SttOutranks DEF AO, Comp
<1>2. /\ ao \in [Comp -> {"idle", "up", "error", "stopping", "stopped"}] /\ running \in [Comp -> BOOLEAN]
  BY DEF IInv, OtherTypes
<1>3. /\ ao'["stt"] = ao["stt"] /\ running'["stt"] = running["stt"] /\ activeClient' = activeClient
      /\ running'["usb"] => (running["usb"] /\ sinkBound' = sinkBound) \/ sinkBound' = activeClient
  <2> USE <1>2 DEF aoVars, workerVars, Enter, Comp
  <2>1. CASE DispatchSystem
    BY <2>1 DEF DispatchSystem, SystemReady, SystemFailFast, SystemStopped, SystemTimeout
  <2>2. CASE DispatchVideo
    BY <2>2 DEF DispatchVideo, VideoInit, VideoStreams, VideoSignalLost, VideoQuietPoll,
                VideoPollFails, VideoStop, VideoQuiesce
  <2>3. CASE DispatchSubtitle
    BY <2>3 DEF DispatchSubtitle, SubtitleInit, SubtitleServe, SubtitleStop, SubtitleQuiesce
  <2>4. CASE DispatchUsb BY <2>4 DEF DispatchUsb, UsbInit, UsbPoll
  <2>5. CASE DispatchThreaded("usb")
    BY <2>5 DEF DispatchThreaded, ThreadedStop, ThreadedStopPoll, CompleteStop
  <2> QED BY <2>1, <2>2, <2>3, <2>4, <2>5
<1> QED BY <1>1, <1>3 DEF KInv, SttFirst, SinkBound

LEMMA SinkStt ==
  ASSUME IInv, KInv, DispatchStt \/ DispatchThreaded("stt")
  PROVE  KInv'
<1>1. /\ ao \in [Comp -> {"idle", "up", "error", "stopping", "stopped"}] /\ running \in [Comp -> BOOLEAN]
      /\ ao["stt"] = "idle" => ~running["stt"]
  BY DEF IInv, OtherTypes, Resources, ResourceOK, Comp
<1> USE <1>1 DEF aoVars, workerVars, Enter, Comp
<1>2. CASE SttInit
  <2>1. ao'["stt"] \in {"up", "error"} /\ (ao'["stt"] = "up" => activeClient')
        /\ (ao'["stt"] = "error" => ~running'["stt"]) /\ ~running'["usb"]
    BY <1>2 DEF SttInit, KInv, SttFirst
  <2> QED BY <2>1 DEF KInv, SttFirst, SinkBound
<1>3. CASE SttPoll BY <1>3 DEF SttPoll, KInv, SttFirst, SinkBound
<1>4. CASE DispatchThreaded("stt")
  <2>1. /\ ao'["stt"] \in {"stopping", "stopped"}
        /\ ao'["stt"] = "stopping" => ao["stt"] \in {"up", "stopping"}
    BY <1>4 DEF DispatchThreaded, ThreadedStop, ThreadedStopPoll, StopComplete, KInv, SttFirst
  <2>2. running'["usb"] = running["usb"] /\ UNCHANGED <<activeClient, sinkBound>>
    BY <1>4 DEF DispatchThreaded, ThreadedStop, ThreadedStopPoll, CompleteStop
  <2> QED BY <2>1, <2>2 DEF KInv, SttFirst, SinkBound
<1> QED BY <1>2, <1>3, <1>4 DEF DispatchStt

LEMMA SinkOthers ==
  ASSUME IInv, KInv,
         \/ CaptureFails \/ SignalArrives \/ UNCHANGED vars \/ Tick
         \/ (\E c \in Threaded : WorkerExits(c)) \/ \E a \in AO : Ignore(a)
  PROVE  KInv'
<1> USE TypesFollow
<1>1. ASSUME UNCHANGED <<ao, running, activeClient, sinkBound>>,
             ao["stt"] = "idle" => queue'["stt"] # <<>> /\ Head(queue'["stt"]) = Head(queue["stt"])
      PROVE  KInv'
  BY <1>1 DEF KInv, SttFirst, SinkBound
<1>2. CASE CaptureFails \/ SignalArrives \/ UNCHANGED vars \/ \E c \in Threaded : WorkerExits(c)
  BY <1>1, <1>2 DEF CaptureFails, SignalArrives, vars, WorkerExits, aoVars, workerVars, KInv, SttFirst
<1>3. ASSUME NEW a \in AO, Ignore(a) PROVE KInv'
  <2>1. ao["stt"] # "idle"
    <3>1. CASE a = "stt"
      BY <1>3, <3>1 DEF Ignore, Accepts, Current, KInv, SttFirst
    <3>2. CASE a # "stt" BY <1>3, <3>2, SttOutranks DEF Ignore
    <3> QED BY <3>1, <3>2
  <2> QED BY <1>1, <1>3, <2>1 DEF Ignore, aoVars, workerVars
<1>4. CASE Tick
  <2>1. UNCHANGED <<ao, running, activeClient, sinkBound>>
    BY <1>4 DEF Tick, TickInit, TickShutdown, TickSignal, TickPoll, aoVars, workerVars
  <2>2. queue' = queue \/ \E b \in AO, e \in Event : queue' = PostX(queue, b, e, 0)
    <3>1. ASSUME NEW b \in AO, NEW sig \in Signal, NEW src \in AO, TimeEventPost(b, Evt(sig, src))
          PROVE  queue' = queue \/ queue' = PostX(queue, b, Evt(sig, src), 0)
      BY <3>1 DEF TimeEventPost, PostX
    <3>2. \A sig \in Signal, src \in AO : Evt(sig, src) \in Event BY EventTypes
    <3>3. /\ "system" \in AO /\ Polled \subseteq AO
          /\ {"POLL", "INIT_TIMEOUT", "SHUTDOWN_TIMEOUT", "SHUTDOWN"} \subseteq Signal
      BY DEF AO, Comp, Polled, Signal
    <3>4. CASE TickInit BY <3>1, <3>2, <3>3, <3>4 DEF TickInit
    <3>5. CASE TickShutdown BY <3>1, <3>2, <3>3, <3>5 DEF TickShutdown
    <3>6. CASE TickSignal BY <3>2, <3>3, <3>6 DEF TickSignal
    <3>7. ASSUME NEW c \in Polled, TickPoll(c)
          PROVE  queue' = queue \/ \E b \in AO, e \in Event : queue' = PostX(queue, b, e, 0)
      BY <3>1, <3>2, <3>3, <3>7 DEF TickPoll
    <3> QED BY <1>4, <3>4, <3>5, <3>6, <3>7 DEF Tick
  <2>3. ao["stt"] = "idle" => queue'["stt"] # <<>> /\ Head(queue'["stt"]) = Head(queue["stt"])
    <3>1. queue \in [AO -> Seq(Event)] /\ "stt" \in AO BY DEF TypeOK, AO, Comp
    <3>2. ao["stt"] = "idle" => queue["stt"] # <<>> BY DEF KInv, SttFirst
    <3>3. ASSUME NEW b \in AO, NEW e \in Event, queue' = PostX(queue, b, e, 0), queue["stt"] # <<>>
          PROVE  queue'["stt"] # <<>> /\ Head(queue'["stt"]) = Head(queue["stt"])
      BY <3>1, <3>3, HeadStays
    <3> QED BY <2>2, <3>2, <3>3
  <2> QED BY <1>1, <2>1, <2>3
<1> QED BY <1>2, <1>3, <1>4

(***************************************************************************)
(* The capture sink is bound to the STT client whenever STT came up,       *)
(* although both were told to initialise at once.                          *)
(***************************************************************************)
THEOREM SinkIsBound == Spec => []SinkBound
<1>1. Init => KInv
  <2> SUFFICES ASSUME Init PROVE KInv
    OBVIOUS
  <2>1. queue["stt"] = <<Evt("INIT", "stt")>> BY DEF Init, AO, Comp, Polled
  <2>2. queue["stt"] # <<>> /\ Head(queue["stt"]).sig = "INIT" BY <2>1 DEF Evt
  <2> QED BY <2>2 DEF Init, KInv, SttFirst, SinkBound, Comp
<1>2. ASSUME IInv, KInv, [Next]_vars PROVE KInv'
  <2>1. CASE \E c \in Threaded : DispatchThreaded(c) BY <1>2, <2>1, SinkDispatch, SinkStt DEF Threaded
  <2> QED BY <1>2, <2>1, SinkDispatch, SinkStt, SinkOthers DEF Next
<1>3. KInv => SinkBound BY DEF KInv
<1> QED BY <1>1, <1>2, <1>3, Invariance, PTL DEF Spec

-----------------------------------------------------------------------------
(***************************************************************************)
(* How many events of a queue carry a signal, and what a post and a        *)
(* handler change of it.                                                   *)
(***************************************************************************)
Marks(s, K)  == {i \in 1..Len(s) : s[i] \in K}
Number(s, K) == Cardinality(Marks(s, K))

LEMMA OneToOne ==
  ASSUME NEW S, NEW T, IsFiniteSet(T), NEW f, f \in [S -> T],
         \A x \in S, y \in S : f[x] = f[y] => x = y
  PROVE  IsFiniteSet(S) /\ Cardinality(S) <= Cardinality(T)
<1>1. f \in Injection(S, T)
  BY DEF Injection, IsInjective
<1> QED BY <1>1, FS_Injection

LEMMA NumberType ==
  ASSUME NEW s \in Seq(Event), NEW K
  PROVE  IsFiniteSet(Marks(s, K)) /\ Number(s, K) \in Nat
<1>1. Len(s) \in Nat
  OBVIOUS
<1>2. IsFiniteSet(1..Len(s)) /\ Marks(s, K) \in SUBSET (1..Len(s))
  BY <1>1, FS_Interval DEF Marks
<1>3. IsFiniteSet(Marks(s, K))
  BY <1>2, FS_Subset
<1> QED BY <1>3, FS_CardinalityType DEF Number

LEMMA NumberAppend ==
  ASSUME NEW s \in Seq(Event), NEW e \in Event, NEW K
  PROVE  Number(Append(s, e), K) = Number(s, K) + (IF e \in K THEN 1 ELSE 0)
<1> DEFINE n == Len(s)
           t == Append(s, e)
<1>1. n \in Nat /\ Len(t) = n + 1 /\ t[n + 1] = e /\ \A i \in 1..n : t[i] = s[i]
  OBVIOUS
<1>2. IsFiniteSet(Marks(s, K)) /\ Number(s, K) \in Nat /\ n + 1 \notin Marks(s, K)
  <2>1. n + 1 \notin Marks(s, K)
    BY <1>1 DEF Marks
  <2> QED BY <2>1, NumberType
<1> HIDE DEF t, n
<1>3. CASE e \in K
  <2>1. Marks(t, K) = Marks(s, K) \cup {n + 1}
    BY <1>1, <1>3 DEF Marks, n
  <2> QED BY <1>2, <1>3, <2>1, FS_AddElement DEF Number, t
<1>4. CASE e \notin K
  <2>1. Marks(t, K) = Marks(s, K)
    BY <1>1, <1>4 DEF Marks, n
  <2> QED BY <1>2, <1>4, <2>1 DEF Number, t
<1> QED BY <1>3, <1>4

LEMMA NumberTail ==
  ASSUME NEW s \in Seq(Event), s # <<>>, NEW K
  PROVE  Number(Tail(s), K) = Number(s, K) - (IF Head(s) \in K THEN 1 ELSE 0)
<1> DEFINE n == Len(s)
           t == Tail(s)
           S == Marks(s, K) \ {1}
           T == Marks(t, K)
<1>1. n \in Nat \ {0} /\ t \in Seq(Event) /\ Len(t) = n - 1 /\ Head(s) = s[1]
      /\ \A i \in 1..(n - 1) : t[i] = s[i + 1]
  OBVIOUS
<1>2. IsFiniteSet(Marks(s, K)) /\ IsFiniteSet(T) /\ Number(s, K) \in Nat /\ Cardinality(T) \in Nat
  BY <1>1, NumberType DEF Number
<1> HIDE DEF t, n
<1>3. ASSUME NEW i \in S PROVE i - 1 \in T /\ i \in Int
  <2>1. i \in 1..n /\ i # 1 /\ s[i] \in K
    BY DEF Marks, n
  <2>2. i - 1 \in 1..(n - 1) /\ (i - 1) + 1 = i
    BY <1>1, <2>1
  <2>3. t[i - 1] = s[i]
    BY <1>1, <2>2
  <2> QED BY <1>1, <2>1, <2>2, <2>3 DEF Marks
<1>4. ASSUME NEW i \in T PROVE i + 1 \in S /\ i \in Int
  <2>1. i \in 1..(n - 1) /\ t[i] \in K
    BY <1>1 DEF Marks
  <2>2. i + 1 \in 1..n /\ i + 1 # 1 /\ s[i + 1] \in K
    BY <1>1, <2>1
  <2> QED BY <2>1, <2>2 DEF Marks, n
<1>5. IsFiniteSet(S) /\ Cardinality(S) \in Nat
      /\ Cardinality(S) = IF 1 \in Marks(s, K) THEN Number(s, K) - 1 ELSE Number(s, K)
  BY <1>2, FS_RemoveElement, FS_CardinalityType DEF Number
<1>6. 1 \in Marks(s, K) <=> Head(s) \in K
  BY <1>1 DEF Marks, n
<1> HIDE DEF S, T
<1>7. Cardinality(S) <= Cardinality(T)
  <2> DEFINE f == [i \in S |-> i - 1]
  <2>1. f \in [S -> T] /\ \A x \in S, y \in S : f[x] = f[y] => x = y
    BY <1>3
  <2> HIDE DEF f
  <2> QED BY <1>2, <2>1, OneToOne
<1>8. Cardinality(T) <= Cardinality(S)
  <2> DEFINE f == [i \in T |-> i + 1]
  <2>1. f \in [T -> S] /\ \A x \in T, y \in T : f[x] = f[y] => x = y
    BY <1>4
  <2> HIDE DEF f
  <2> QED BY <1>5, <2>1, OneToOne
<1>9. Cardinality(T) = Cardinality(S)
  BY <1>2, <1>5, <1>7, <1>8
<1>10. Number(Tail(s), K) = Cardinality(T)
  BY DEF Number, T, t
<1> QED BY <1>2, <1>5, <1>6, <1>9, <1>10

(***************************************************************************)
(* The same for a post and for taking an event, over all the queues.       *)
(***************************************************************************)
LEMMA PostedWhere ==
  ASSUME NEW q \in [AO -> Seq(Event)], NEW b \in AO, NEW e \in Event, NEW margin \in Nat
  PROVE  /\ PostX(q, b, e, margin) \in [AO -> Seq(Event)]
         /\ \A a \in AO : a # b => PostX(q, b, e, margin)[a] = q[a]
         /\ Free(q, b) > margin => PostX(q, b, e, margin)[b] = Append(q[b], e)
         /\ ~(Free(q, b) > margin) => PostX(q, b, e, margin) = q
<1>1. Append(q[b], e) \in Seq(Event)
  OBVIOUS
<1> QED BY <1>1 DEF PostX

LEMMA NumberPosted ==
  ASSUME NEW q \in [AO -> Seq(Event)], NEW b \in AO, NEW e \in Event, NEW margin \in Nat,
         NEW K
  PROVE  /\ e \notin K => Number(PostX(q, b, e, margin)[b], K) = Number(q[b], K)
         /\ Free(q, b) > margin /\ e \in K =>
              Number(PostX(q, b, e, margin)[b], K) = Number(q[b], K) + 1
<1>1. Number(Append(q[b], e), K) = Number(q[b], K) + (IF e \in K THEN 1 ELSE 0)
  BY NumberAppend
<1>2. Number(q[b], K) \in Nat
  BY NumberType
<1>3. /\ Free(q, b) > margin => PostX(q, b, e, margin)[b] = Append(q[b], e)
      /\ ~(Free(q, b) > margin) => PostX(q, b, e, margin) = q
  BY PostedWhere
<1>4. CASE Free(q, b) > margin
  <2> DEFINE x == Number(PostX(q, b, e, margin)[b], K)
             y == Number(q[b], K)
  <2>1. x = Number(Append(q[b], e), K)
    BY <1>3, <1>4, Zenon
  <2>2. x = y + (IF e \in K THEN 1 ELSE 0) /\ y \in Nat
    BY <1>1, <1>2, <2>1
  <2> HIDE DEF x, y
  <2>3. (e \notin K => x = y) /\ (e \in K => x = y + 1)
    BY <2>2
  <2> QED BY <1>4, <2>3 DEF x, y
<1>5. CASE ~(Free(q, b) > margin)
  BY <1>3, <1>5
<1> QED BY <1>4, <1>5

LEMMA PoppedWhere ==
  ASSUME queue \in [AO -> Seq(Event)], NEW b \in AO, queue[b] # <<>>
  PROVE  /\ Popped(b) \in [AO -> Seq(Event)] /\ Current(b) \in Event
         /\ \A a \in AO : a # b => Popped(b)[a] = queue[a]
         /\ Popped(b)[b] = Tail(queue[b]) /\ Len(Popped(b)[b]) = Len(queue[b]) - 1
<1>1. Tail(queue[b]) \in Seq(Event) /\ Len(Tail(queue[b])) = Len(queue[b]) - 1 /\ Head(queue[b]) \in Event
  OBVIOUS
<1> QED BY <1>1 DEF Popped, Current

LEMMA NumberPopped ==
  ASSUME queue \in [AO -> Seq(Event)], NEW b \in AO, queue[b] # <<>>, NEW K
  PROVE  Number(Popped(b)[b], K)
           = Number(queue[b], K) - (IF Current(b) \in K THEN 1 ELSE 0)
<1>1. Number(Tail(queue[b]), K) = Number(queue[b], K) - (IF Head(queue[b]) \in K THEN 1 ELSE 0)
  BY NumberTail
<1> QED BY <1>1, PoppedWhere DEF Current

(***************************************************************************)
(* The events of one signal, and the announcements of video modes.         *)
(***************************************************************************)
Carrying(sig)  == {e \in Event : e.sig = sig}
Count(s, sig)  == Number(s, Carrying(sig))
Announcement   == {e \in Event : e.sig = "READY" /\ e.src = "video"}
Waiting        == Number(queue["system"], Announcement)

LEMMA CountType ==
  ASSUME NEW s \in Seq(Event), NEW sig
  PROVE  Count(s, sig) \in Nat
BY NumberType DEF Count

LEMMA CountAppend ==
  ASSUME NEW s \in Seq(Event), NEW e \in Event, NEW sig
  PROVE  Count(Append(s, e), sig) = Count(s, sig) + (IF e.sig = sig THEN 1 ELSE 0)
<1>1. Number(Append(s, e), Carrying(sig))
        = Number(s, Carrying(sig)) + (IF e \in Carrying(sig) THEN 1 ELSE 0)
  BY NumberAppend
<1>2. e \in Carrying(sig) <=> e.sig = sig
  BY DEF Carrying
<1> QED BY <1>1, <1>2 DEF Count

LEMMA CountPosted ==
  ASSUME NEW q \in [AO -> Seq(Event)], NEW b \in AO, NEW e \in Event, NEW margin \in Nat,
         NEW sig
  PROVE  e.sig # sig => Count(PostX(q, b, e, margin)[b], sig) = Count(q[b], sig)
<1>1. e \in Carrying(sig) <=> e.sig = sig
  BY DEF Carrying
<1> QED BY <1>1, NumberPosted DEF Count

LEMMA CountPopped ==
  ASSUME queue \in [AO -> Seq(Event)], NEW b \in AO, queue[b] # <<>>, NEW sig
  PROVE  Count(Popped(b)[b], sig)
           = Count(queue[b], sig) - (IF Current(b).sig = sig THEN 1 ELSE 0)
<1>1. Number(Popped(b)[b], Carrying(sig))
        = Number(queue[b], Carrying(sig)) - (IF Current(b) \in Carrying(sig) THEN 1 ELSE 0)
  BY NumberPopped
<1>2. Current(b) \in Carrying(sig) <=> Current(b).sig = sig
  BY PoppedWhere DEF Carrying
<1> QED BY <1>1, <1>2 DEF Count

(***************************************************************************)
(* What the model's guards count is what is counted here.                  *)
(***************************************************************************)
LEMMA Counted ==
  ASSUME queue \in [AO -> Seq(Event)]
  PROVE  /\ \A a \in AO : \A sig : Backlog(a, sig) = Count(queue[a], sig)
         /\ Announced = Waiting
<1>1. \A a \in AO : \A i \in 1..Len(queue[a]) : queue[a][i] \in Event
  OBVIOUS
<1>2. ASSUME NEW a \in AO, NEW sig
      PROVE  {i \in 1..Len(queue[a]) : queue[a][i].sig = sig} = Marks(queue[a], Carrying(sig))
  BY <1>1 DEF Marks, Carrying
<1>3. "system" \in AO
  BY DEF AO
<1>4. {i \in 1..Len(queue["system"]) :
         queue["system"][i].sig = "READY" /\ queue["system"][i].src = "video"}
        = Marks(queue["system"], Announcement)
  BY <1>1, <1>3 DEF Marks, Announcement
<1> QED BY <1>2, <1>4 DEF Backlog, Announced, Count, Number, Waiting

(***************************************************************************)
(* A report that waits: what a post and a handler change of it.            *)
(***************************************************************************)
Told(s, sig, src) == \E i \in 1..Len(s) : s[i].sig = sig /\ s[i].src = src

LEMMA ToldAppend ==
  ASSUME NEW s \in Seq(Event), NEW e \in Event, NEW sig, NEW src
  PROVE  Told(Append(s, e), sig, src) <=> Told(s, sig, src) \/ (e.sig = sig /\ e.src = src)
<1> DEFINE n == Len(s)
           t == Append(s, e)
<1>1. n \in Nat /\ Len(t) = n + 1 /\ t[n + 1] = e /\ \A i \in 1..n : t[i] = s[i]
  OBVIOUS
<1> HIDE DEF t, n
<1>2. ASSUME Told(s, sig, src) PROVE Told(t, sig, src)
  <2>1. PICK i \in 1..n : s[i].sig = sig /\ s[i].src = src
    BY <1>2 DEF Told, n
  <2>2. i \in 1..(n + 1) /\ t[i] = s[i]
    BY <1>1
  <2> QED BY <1>1, <2>1, <2>2 DEF Told
<1>3. ASSUME e.sig = sig, e.src = src PROVE Told(t, sig, src)
  <2>1. n + 1 \in 1..(n + 1)
    BY <1>1
  <2> QED BY <1>1, <1>3, <2>1 DEF Told
<1>4. ASSUME Told(t, sig, src), ~(e.sig = sig /\ e.src = src) PROVE Told(s, sig, src)
  <2>1. PICK i \in 1..(n + 1) : t[i].sig = sig /\ t[i].src = src
    BY <1>1, <1>4 DEF Told
  <2>2. i # n + 1
    BY <1>1, <1>4, <2>1
  <2>3. i \in 1..n
    BY <1>1, <2>1, <2>2
  <2> QED BY <1>1, <2>1, <2>3 DEF Told, n
<1> QED BY <1>2, <1>3, <1>4 DEF t

LEMMA ToldTail ==
  ASSUME NEW s \in Seq(Event), s # <<>>, NEW sig, NEW src
  PROVE  Told(s, sig, src) <=> (Head(s).sig = sig /\ Head(s).src = src) \/ Told(Tail(s), sig, src)
<1> DEFINE n == Len(s)
           t == Tail(s)
<1>1. n \in Nat \ {0} /\ Len(t) = n - 1 /\ Head(s) = s[1]
      /\ \A i \in 1..(n - 1) : t[i] = s[i + 1]
  OBVIOUS
<1> HIDE DEF t, n
<1>2. ASSUME Told(t, sig, src) PROVE Told(s, sig, src)
  <2>1. PICK i \in 1..(n - 1) : t[i].sig = sig /\ t[i].src = src
    BY <1>1, <1>2 DEF Told
  <2>2. i + 1 \in 1..n /\ s[i + 1] = t[i]
    BY <1>1
  <2> QED BY <2>1, <2>2 DEF Told, n
<1>3. ASSUME Head(s).sig = sig, Head(s).src = src PROVE Told(s, sig, src)
  <2>1. 1 \in 1..n
    BY <1>1
  <2> QED BY <1>1, <1>3, <2>1 DEF Told, n
<1>4. ASSUME Told(s, sig, src), ~(Head(s).sig = sig /\ Head(s).src = src) PROVE Told(t, sig, src)
  <2>1. PICK i \in 1..n : s[i].sig = sig /\ s[i].src = src
    BY <1>4 DEF Told, n
  <2>2. i # 1
    BY <1>1, <1>4, <2>1
  <2>3. i - 1 \in 1..(n - 1) /\ (i - 1) + 1 = i
    BY <1>1, <2>1, <2>2
  <2>4. t[i - 1] = s[i]
    BY <1>1, <2>3
  <2> QED BY <1>1, <2>1, <2>3, <2>4 DEF Told
<1> QED BY <1>2, <1>3, <1>4 DEF t

-----------------------------------------------------------------------------
(***************************************************************************)
(* Queues with room for all that may wait in them: SystemAO's for the      *)
(* announcements of the source, the diagnostics, and five more; a polled   *)
(* component's for its polls and one request.                              *)
(***************************************************************************)
RoomyQueues ==
  /\ QueueLen["system"] >= MaxAnnounced + TickBacklog + 5
  /\ \A c \in Polled : QueueLen[c] > TickBacklog

(***************************************************************************)
(* What may still be sent to SystemAO before it stops the system, beside   *)
(* the announcements of the source: by the signal handler its event, by a  *)
(* component the reports of the states it has not reached; SubtitleAO,     *)
(* before it is asked to initialise, what the handled reports of the two   *)
(* workers have made room for.                                             *)
(***************************************************************************)
WorkerReady(c) == IF c \in readyMask THEN 1 ELSE 0
SubtitleCredit == IF ao["subtitle"] = "idle"
                  THEN (IF subtitleInit THEN 2 ELSE WorkerReady("usb") + WorkerReady("stt"))
                  ELSE IF ao["subtitle"] = "up" THEN 1 ELSE 0
UsbCredit      == IF ao["usb"] = "idle" THEN 2 ELSE IF ao["usb"] = "up" THEN 1 ELSE 0
SttCredit      == IF ao["stt"] = "idle" THEN 1 ELSE 0
VideoCredit    == IF ao["video"] \in {"idle", "up"} THEN 1 ELSE 0
SignalCredit   == IF sigPosted THEN 0 ELSE 1
Credit         == SubtitleCredit + UsbCredit + SttCredit + VideoCredit + SignalCredit

Backlogs == /\ Count(queue["system"], "INIT_TIMEOUT") <= TickBacklog
            /\ \A c \in Polled : Count(queue[c], "POLL") <= TickBacklog

PolledRoom ==
  \A c \in Polled : Len(queue[c]) + (IF sysState = "stopping" THEN 0 ELSE 1)
                       <= Count(queue[c], "POLL") + 2

SystemRoom ==
  /\ sysState # "stopping" =>
       /\ Waiting <= MaxAnnounced
       /\ Len(queue["system"]) + Credit <= Count(queue["system"], "INIT_TIMEOUT") + Waiting + 5
  /\ "shutdown" \in armed =>
       sysState = "stopping" /\ Len(queue["system"]) + SignalCredit <= QueueLen["system"]

(***************************************************************************)
(* SYSTEM_STOP finds the queues of the components empty: a component that  *)
(* is up handles it before anything else.                                  *)
(***************************************************************************)
StopNext ==
  sysState = "stopping" =>
    \A c \in Comp : ao[c] = "up" => queue[c] # <<>> /\ Head(queue[c]).sig = "STOP"

(***************************************************************************)
(* While the system is not stopping a component is idle, up or in its      *)
(* error state; an error is on its way to SystemAO, and whoever reported   *)
(* ready is idle no more.                                                  *)
(***************************************************************************)
Reported ==
  sysState # "stopping" =>
    /\ \A c \in Comp :
         /\ ao[c] \in {"idle", "up", "error"}
         /\ ao[c] = "error" => Told(queue["system"], "ERROR", c)
         /\ c \in readyMask \/ Told(queue["system"], "READY", c) => ao[c] # "idle"
    /\ sysState = "run" => readyMask = Comp

SubtitleAsked ==
  sysState # "stopping" /\ ~subtitleInit =>
    ao["subtitle"] = "idle" /\ ~Has(queue["subtitle"], "INIT")

(***************************************************************************)
(* The first announcement waits behind the reports of the two workers:     *)
(* their active objects outrank VideoAO and are asked to initialise first. *)
(***************************************************************************)
Answer(e, c) == e.src = c /\ e.sig \in {"READY", "ERROR"}
Ahead(s, M, c) ==
  \A i \in 1..Len(s) : s[i] \in Announcement => c \in M \/ \E j \in 1..(i - 1) : Answer(s[j], c)

WorkerFirst(c) ==
  /\ ao[c] = "idle" => queue[c] # <<>> /\ Head(queue[c]).sig = "INIT" /\ ao["video"] = "idle"
  /\ ao[c] = "up" => c \in readyMask \/ Told(queue["system"], "READY", c)
  /\ Ahead(queue["system"], readyMask, c)
WorkersFirst == sysState # "stopping" => \A c \in Threaded : WorkerFirst(c)

FInv == /\ proc # "asserted"
        /\ Backlogs /\ PolledRoom /\ SystemRoom
        /\ StopNext /\ Reported /\ SubtitleAsked /\ WorkersFirst

LEMMA AheadAppend ==
  ASSUME NEW s \in Seq(Event), NEW e \in Event, NEW M, NEW c, Ahead(s, M, c),
         e \in Announcement => c \in M \/ Told(s, "READY", c) \/ Told(s, "ERROR", c)
  PROVE  Ahead(Append(s, e), M, c)
<1> DEFINE n == Len(s)
           t == Append(s, e)
<1>1. n \in Nat /\ Len(t) = n + 1 /\ t[n + 1] = e /\ \A i \in 1..n : t[i] = s[i]
  OBVIOUS
<1> HIDE DEF t, n
<1>2. ASSUME NEW i \in 1..n, t[i] \in Announcement, c \notin M
      PROVE  \E j \in 1..(i - 1) : Answer(t[j], c)
  <2>1. PICK j \in 1..(i - 1) : Answer(s[j], c)
    BY <1>1, <1>2 DEF Ahead, n
  <2>2. j \in 1..n
    BY <1>1, <2>1
  <2> QED BY <1>1, <2>1, <2>2
<1>3. ASSUME e \in Announcement, c \notin M
      PROVE  \E j \in 1..((n + 1) - 1) : Answer(t[j], c)
  <2>1. PICK j \in 1..n : Answer(s[j], c)
    BY <1>3 DEF Told, Answer, n
  <2>2. j \in 1..((n + 1) - 1) /\ t[j] = s[j]
    BY <1>1, <2>1
  <2> QED BY <2>1, <2>2
<1>4. \A i \in 1..(n + 1) : i \in 1..n \/ i = n + 1
  BY <1>1
<1>5. Ahead(t, M, c)
  BY <1>1, <1>2, <1>3, <1>4 DEF Ahead
<1> QED BY <1>5 DEF t

LEMMA AheadTail ==
  ASSUME NEW s \in Seq(Event), s # <<>>, NEW M, NEW N, M \subseteq N, NEW c, Ahead(s, M, c),
         Answer(Head(s), c) => c \in N
  PROVE  Ahead(Tail(s), N, c)
<1> DEFINE n == Len(s)
           t == Tail(s)
<1>1. n \in Nat \ {0} /\ Len(t) = n - 1 /\ Head(s) = s[1]
      /\ \A i \in 1..(n - 1) : t[i] = s[i + 1]
  OBVIOUS
<1> HIDE DEF t, n
<1>2. ASSUME NEW i \in 1..(n - 1), t[i] \in Announcement, c \notin N
      PROVE  \E j \in 1..(i - 1) : Answer(t[j], c)
  <2>1. i + 1 \in 1..n /\ s[i + 1] \in Announcement /\ c \notin M
    BY <1>1, <1>2
  <2>2. PICK j \in 1..((i + 1) - 1) : Answer(s[j], c)
    BY <2>1 DEF Ahead, n
  <2>3. j # 1
    BY <1>1, <1>2, <2>2
  <2>4. j - 1 \in 1..(i - 1) /\ j - 1 \in 1..(n - 1) /\ (j - 1) + 1 = j
    BY <1>1, <1>2, <2>2, <2>3
  <2>5. t[j - 1] = s[j]
    BY <1>1, <2>4
  <2> QED BY <2>2, <2>4, <2>5
<1>3. Ahead(t, N, c)
  BY <1>1, <1>2 DEF Ahead
<1> QED BY <1>3 DEF t

LEMMA AheadHead ==
  ASSUME NEW s \in Seq(Event), s # <<>>, NEW M, NEW c, Ahead(s, M, c), Head(s) \in Announcement
  PROVE  c \in M
<1>1. 1 \in 1..Len(s) /\ Head(s) = s[1]
  OBVIOUS
<1>2. c \in M \/ \E j \in 1..(1 - 1) : Answer(s[j], c)
  BY <1>1 DEF Ahead
<1>3. 1..(1 - 1) = {}
  OBVIOUS
<1> QED BY <1>2, <1>3

(***************************************************************************)
(* What waits is counted by kind.                                          *)
(***************************************************************************)
LEMMA WaitingType == ASSUME queue \in [AO -> Seq(Event)] PROVE Waiting \in Nat
BY NumberType DEF Waiting, AO

-----------------------------------------------------------------------------
(***************************************************************************)
(* What a component's handler leaves of the queues: its own is an event    *)
(* shorter, a polled one gets nothing, and what waits elsewhere stays.     *)
(***************************************************************************)
Posts(c) ==
  \/ queue' = Popped(c)
  \/ \E b \in {"subtitle", "system"}, e \in Event, margin \in Nat :
       /\ e.sig \notin {"INIT_TIMEOUT", "POLL", "INIT"}
       /\ queue' = PostX(Popped(c), b, e, margin)

LEMMA Names ==
  /\ Comp \subseteq AO /\ Polled \subseteq Comp /\ Threaded \subseteq Polled
  /\ "system" \in AO /\ "subtitle" \in Comp
  /\ "system" \notin Comp /\ "subtitle" \notin Polled
  /\ AO = Comp \cup {"system"} /\ Comp = Polled \cup {"subtitle"}
BY DEF AO, Comp, Polled, Threaded

LEMMA ServedOwn ==
  ASSUME queue \in [AO -> Seq(Event)], NEW c \in Comp, queue[c] # <<>>, Posts(c)
  PROVE  /\ queue' \in [AO -> Seq(Event)]
         /\ \A a \in Polled \ {c} : queue'[a] = queue[a]
         /\ c \in Polled => /\ Len(queue'[c]) = Len(queue[c]) - 1
                            /\ Count(queue'[c], "POLL")
                                 = Count(queue[c], "POLL") - (IF Current(c).sig = "POLL" THEN 1 ELSE 0)
         /\ Count(queue'["system"], "INIT_TIMEOUT") = Count(queue["system"], "INIT_TIMEOUT")
<1>0. c \in AO /\ "system" \in AO /\ "subtitle" \in AO /\ c # "system" /\ Polled \subseteq AO
      /\ "system" \notin Polled /\ "subtitle" \notin Polled
  BY DEF AO, Comp, Polled
<1>1. /\ Popped(c) \in [AO -> Seq(Event)]
      /\ \A a \in AO \ {c} : Popped(c)[a] = queue[a]
      /\ Len(Popped(c)[c]) = Len(queue[c]) - 1
      /\ Count(Popped(c)[c], "POLL")
           = Count(queue[c], "POLL") - (IF Current(c).sig = "POLL" THEN 1 ELSE 0)
  BY <1>0, PoppedWhere, CountPopped
<1>2. CASE queue' = Popped(c)
  BY <1>0, <1>1, <1>2
<1>3. ASSUME NEW b \in {"subtitle", "system"}, NEW e \in Event, NEW margin \in Nat,
             e.sig \notin {"INIT_TIMEOUT", "POLL"}, queue' = PostX(Popped(c), b, e, margin)
      PROVE  /\ queue' \in [AO -> Seq(Event)]
             /\ \A a \in AO \ {b} : queue'[a] = Popped(c)[a]
             /\ Count(queue'["system"], "INIT_TIMEOUT") = Count(Popped(c)["system"], "INIT_TIMEOUT")
  <2>0. b \in AO
    BY <1>0
  <2>1. /\ PostX(Popped(c), b, e, margin) \in [AO -> Seq(Event)]
        /\ \A a \in AO : a # b => PostX(Popped(c), b, e, margin)[a] = Popped(c)[a]
    BY <1>1, <2>0, PostedWhere
  <2>5. Count(queue'[b], "INIT_TIMEOUT") = Count(Popped(c)[b], "INIT_TIMEOUT")
    <3>1. e.sig # "INIT_TIMEOUT"
      BY <1>3
    <3>2. Count(PostX(Popped(c), b, e, margin)[b], "INIT_TIMEOUT") = Count(Popped(c)[b], "INIT_TIMEOUT")
      BY <1>1, <2>0, <3>1, CountPosted
    <3> QED BY <1>3, <3>2
  <2> QED BY <1>0, <1>3, <2>1, <2>5
<1> QED BY <1>0, <1>1, <1>2, <1>3 DEF Posts

LEMMA ServedHeads ==
  ASSUME queue \in [AO -> Seq(Event)], NEW c \in Comp, queue[c] # <<>>, Posts(c),
         NEW a \in AO \ {c}, queue[a] # <<>>
  PROVE  queue'[a] # <<>> /\ Head(queue'[a]) = Head(queue[a])
<1>0. c \in AO /\ "system" \in AO /\ "subtitle" \in AO
  BY DEF AO, Comp
<1>1. Popped(c) \in [AO -> Seq(Event)] /\ Popped(c)[a] = queue[a]
  BY <1>0, PoppedWhere
<1>2. CASE queue' = Popped(c)
  BY <1>1, <1>2
<1>3. ASSUME NEW b \in {"subtitle", "system"}, NEW e \in Event, NEW margin \in Nat,
             queue' = PostX(Popped(c), b, e, margin)
      PROVE  queue'[a] # <<>> /\ Head(queue'[a]) = Head(queue[a])
  <2>1. b \in AO
    BY <1>0
  <2>2. PostX(Popped(c), b, e, margin)[a] # <<>> /\ Head(PostX(Popped(c), b, e, margin)[a]) = Head(Popped(c)[a])
    BY <1>1, <2>1, HeadStays
  <2> QED BY <1>1, <1>3, <2>2
<1> QED BY <1>2, <1>3 DEF Posts

LEMMA ServedTold ==
  ASSUME queue \in [AO -> Seq(Event)], NEW c \in Comp, queue[c] # <<>>, Posts(c),
         NEW sig, NEW src, Told(queue["system"], sig, src)
  PROVE  Told(queue'["system"], sig, src)
<1>1. Popped(c) \in [AO -> Seq(Event)] /\ Popped(c)["system"] = queue["system"]
  BY Names, PoppedWhere
<1>2. ASSUME NEW b \in {"subtitle", "system"}, NEW e \in Event, NEW margin \in Nat,
             queue' = PostX(Popped(c), b, e, margin)
      PROVE  Told(queue'["system"], sig, src)
  <2>1. queue'["system"] = queue["system"] \/ queue'["system"] = Append(queue["system"], e)
    BY <1>1, <1>2, Names DEF PostX
  <2>2. queue["system"] \in Seq(Event)
    BY Names
  <2>3. Told(Append(queue["system"], e), sig, src)
    BY <2>2, ToldAppend
  <2> QED BY <2>1, <2>3
<1> QED BY <1>1, <1>2 DEF Posts

(***************************************************************************)
(* The queue of SystemAO after a report of component c.                    *)
(***************************************************************************)
LEMMA ReportArrives ==
  ASSUME queue \in [AO -> Seq(Event)], NEW c \in Comp, queue[c] # <<>>,
         NEW e \in Event, NEW margin \in Nat, queue' = PostX(Popped(c), "system", e, margin)
  PROVE  /\ Free(queue, "system") > margin =>
               /\ Len(queue'["system"]) = Len(queue["system"]) + 1
               /\ Told(queue'["system"], e.sig, e.src)
         /\ ~(Free(queue, "system") > margin) => queue'["system"] = queue["system"]
         /\ \A sig, src : Told(queue'["system"], sig, src) =>
               Told(queue["system"], sig, src) \/ (sig = e.sig /\ src = e.src)
<1>1. Popped(c) \in [AO -> Seq(Event)] /\ Popped(c)["system"] = queue["system"]
      /\ queue["system"] \in Seq(Event)
  BY Names, PoppedWhere
<1>2. Free(Popped(c), "system") = Free(queue, "system")
  BY <1>1 DEF Free
<1>3. /\ Free(queue, "system") > margin => queue'["system"] = Append(queue["system"], e)
      /\ ~(Free(queue, "system") > margin) => queue'["system"] = queue["system"]
  BY <1>1, <1>2, Names DEF PostX
<1>4. Len(Append(queue["system"], e)) = Len(queue["system"]) + 1
  BY <1>1
<1>5. Told(Append(queue["system"], e), e.sig, e.src)
  BY <1>1, ToldAppend
<1>6. \A sig, src : Told(Append(queue["system"], e), sig, src) =>
               Told(queue["system"], sig, src) \/ (sig = e.sig /\ src = e.src)
  BY <1>1, ToldAppend
<1> QED BY <1>3, <1>4, <1>5, <1>6

-----------------------------------------------------------------------------
(***************************************************************************)
(* What a handler of a component does: it keeps its state, waits for its   *)
(* thread, comes up, starts a stream, fails, ends, or passes a text on.    *)
(***************************************************************************)
Keeps(c) == /\ queue' = Popped(c) /\ ao'[c] = ao[c]
            /\ ao[c] = "up" => Current(c).sig # "STOP"
            /\ ao[c] = "idle" => Current(c).sig # "INIT"
Waits(c) == /\ queue' = Popped(c) /\ ao'[c] = "stopping"
            /\ Current(c).sig = "STOP"
Rises(c) == /\ Current(c).sig = "INIT" /\ ao[c] = "idle" /\ ao'[c] = "up"
            /\ \/ c = "video" /\ queue' = Popped(c)
               \/ c # "video" /\ \E dim \in Mode \cup {NoMode} : ReportReady(c, dim)
Streams(c) == /\ c = "video" /\ ao[c] = "up" /\ ao'[c] = "up" /\ Current(c).sig # "STOP"
              /\ Waiting < MaxAnnounced
              /\ \/ queue' = Popped(c)
                 \/ \E dim \in Mode \cup {NoMode} : ReportReady(c, dim)
Fails(c) == /\ ao'[c] = "error" /\ ReportError(c)
            /\ \/ Current(c).sig = "INIT" /\ ao[c] = "idle"
               \/ c # "stt" /\ Current(c).sig # "STOP" /\ ao[c] = "up"
Ends(c) == /\ ao'[c] = "stopped" /\ ReportStopped(c)
           /\ Current(c).sig = "STOP" \/ ao[c] = "stopping"
Texts(c) == /\ c = "stt" /\ ao[c] = "up" /\ ao'[c] = "up" /\ Current(c).sig # "STOP"
            /\ \E margin \in {1, 4} :
                 queue' = PostX(Popped(c), "subtitle", Evt("TEXT", "stt"), margin)

Sends(c) ==
  /\ Turn(c)
  /\ UNCHANGED <<proc, sysState, readyMask, subtitleInit, sigPosted>>
  /\ \A d \in Comp \ {c} : ao'[d] = ao[d]
  /\ "shutdown" \in armed' => "shutdown" \in armed
  /\ Keeps(c) \/ Waits(c) \/ Rises(c) \/ Streams(c) \/ Fails(c) \/ Ends(c) \/ Texts(c)

LEMMA VideoSends == IInv /\ DispatchVideo => Sends("video")
<1> SUFFICES ASSUME IInv, DispatchVideo PROVE Sends("video")
  OBVIOUS
<1>1. /\ ao \in [Comp -> {"idle", "up", "error", "stopping", "stopped"}] /\ "video" \in Comp
  BY DEF IInv, OtherTypes, Comp
<1> USE <1>1 DEF Dispatch, Enter, sysVars, aoVars, sigVars, workerVars, videoVars
<1>2. CASE VideoInit
  <2>1. CASE ao'["video"] = "up"
    BY <1>2, <2>1 DEF VideoInit, Sends, Rises, Consume
  <2>2. CASE ao'["video"] = "error"
    BY <1>2, <2>2 DEF VideoInit, Sends, Fails
  <2> QED BY <1>2, <2>1, <2>2 DEF VideoInit
<1>3. CASE VideoStreams
  <2>1. \E m \in Mode : queue' = Popped("video") \/ ReportReady("video", m)
    BY <1>3 DEF VideoStreams, Consume
  <2>2. Waiting < MaxAnnounced
    BY <1>3, TypesFollow, Counted DEF VideoStreams, TypeOK
  <2>3. Streams("video")
    BY <1>3, <2>1, <2>2 DEF VideoStreams, Streams
  <2> QED BY <1>3, <2>3 DEF VideoStreams, Sends
<1>4. CASE VideoSignalLost \/ VideoQuietPoll
  BY <1>4 DEF VideoSignalLost, VideoQuietPoll, Sends, Keeps, Consume
<1>5. CASE VideoPollFails
  BY <1>5 DEF VideoPollFails, VideoQuiesce, Sends, Fails
<1>6. CASE VideoStop
  BY <1>6 DEF VideoStop, VideoQuiesce, Sends, Ends
<1> QED BY <1>2, <1>3, <1>4, <1>5, <1>6 DEF DispatchVideo

LEMMA SubtitleSends == IInv /\ DispatchSubtitle => Sends("subtitle")
<1> SUFFICES ASSUME IInv, DispatchSubtitle PROVE Sends("subtitle")
  OBVIOUS
<1>1. /\ ao \in [Comp -> {"idle", "up", "error", "stopping", "stopped"}] /\ "subtitle" \in Comp
  BY DEF IInv, OtherTypes, Comp
<1>2. Turn("subtitle")
  BY DEF DispatchSubtitle, SubtitleInit, SubtitleServe, SubtitleStop, Dispatch
<1>3. Current("subtitle").dim \in Mode \cup {NoMode}
  <2>1. Current("subtitle") \in Event
    BY <1>2, TypesFollow, PoppedWhere DEF Turn, AO, Comp, TypeOK
  <2> QED BY <2>1 DEF Event
<1> USE <1>1 DEF Dispatch, Enter, sysVars, sigVars, workerVars, videoVars
<1>4. CASE SubtitleInit
  <2>1. CASE ao'["subtitle"] = "up"
    BY <1>3, <1>4, <2>1 DEF SubtitleInit, Sends, Rises
  <2>2. CASE ao'["subtitle"] = "error"
    BY <1>4, <2>2 DEF SubtitleInit, Sends, Fails
  <2> QED BY <1>4, <2>1, <2>2 DEF SubtitleInit
<1>5. CASE SubtitleServe
  <2>1. CASE queue' = Popped("subtitle") /\ ao' = ao
    BY <1>5, <2>1 DEF SubtitleServe, Sends, Keeps
  <2>2. CASE ReportError("subtitle") /\ ao'["subtitle"] = "error"
    BY <1>5, <2>2 DEF SubtitleServe, Sends, Fails
  <2> QED BY <1>5, <2>1, <2>2 DEF SubtitleServe, Consume
<1>6. CASE SubtitleStop
  BY <1>6 DEF SubtitleStop, Sends, Ends
<1> QED BY <1>4, <1>5, <1>6 DEF DispatchSubtitle

LEMMA UsbSttSends ==
  /\ IInv /\ DispatchUsb => Sends("usb")
  /\ IInv /\ DispatchStt => Sends("stt")
<1> USE DEF Dispatch, Enter, sysVars, aoVars, sigVars, workerVars, videoVars
<1>1. ASSUME IInv, DispatchUsb PROVE Sends("usb")
  <2>1. /\ ao \in [Comp -> {"idle", "up", "error", "stopping", "stopped"}] /\ "usb" \in Comp
    BY <1>1 DEF IInv, OtherTypes, Comp
  <2>2. CASE UsbInit
    <3>1. CASE ao'["usb"] = "up"
      BY <2>1, <2>2, <3>1 DEF UsbInit, Sends, Rises
    <3>2. CASE ao'["usb"] = "error"
      BY <2>1, <2>2, <3>2 DEF UsbInit, Sends, Fails
    <3> QED BY <2>1, <2>2, <3>1, <3>2 DEF UsbInit
  <2>3. CASE UsbPoll
    <3>1. CASE fatal
      BY <2>1, <2>3, <3>1 DEF UsbPoll, Sends, Fails
    <3>2. CASE ~fatal
      BY <2>1, <2>3, <3>2 DEF UsbPoll, Sends, Keeps, Consume
    <3> QED BY <3>1, <3>2
  <2> QED BY <1>1, <2>2, <2>3 DEF DispatchUsb
<1>2. ASSUME IInv, DispatchStt PROVE Sends("stt")
  <2>1. /\ ao \in [Comp -> {"idle", "up", "error", "stopping", "stopped"}] /\ "stt" \in Comp
    BY <1>2 DEF IInv, OtherTypes, Comp
  <2>2. CASE SttInit
    <3>1. CASE ao'["stt"] = "up"
      BY <2>1, <2>2, <3>1 DEF SttInit, Sends, Rises
    <3>2. CASE ao'["stt"] = "error"
      BY <2>1, <2>2, <3>2 DEF SttInit, Sends, Fails
    <3> QED BY <2>1, <2>2, <3>1, <3>2 DEF SttInit
  <2>3. CASE SttPoll
    <3>1. CASE queue' = Popped("stt")
      BY <2>1, <2>3, <3>1 DEF SttPoll, Sends, Keeps
    <3>2. CASE \E margin \in {1, 4} :
                 queue' = PostX(Popped("stt"), "subtitle", Evt("TEXT", "stt"), margin)
      BY <2>1, <2>3, <3>2 DEF SttPoll, Sends, Texts
    <3> QED BY <2>3, <3>1, <3>2 DEF SttPoll, Consume
  <2> QED BY <1>2, <2>2, <2>3 DEF DispatchStt
<1> QED BY <1>1, <1>2

LEMMA ThreadedSends == ASSUME IInv, NEW c \in Threaded, DispatchThreaded(c) PROVE Sends(c)
<1>1. /\ ao \in [Comp -> {"idle", "up", "error", "stopping", "stopped"}] /\ c \in Comp
      /\ c # "shutdown"
  BY DEF IInv, OtherTypes, Comp, Threaded
<1> USE <1>1 DEF Dispatch, Enter, sysVars, sigVars, workerVars, videoVars
<1>2. CASE ThreadedStop(c)
  <2>1. CASE StopComplete(c)
    BY <1>2, <2>1 DEF ThreadedStop, Sends, Ends, CompleteStop
  <2>2. CASE ~StopComplete(c)
    BY <1>2, <2>2 DEF ThreadedStop, Sends, Waits, Consume
  <2> QED BY <2>1, <2>2
<1>3. CASE ThreadedStopPoll(c)
  <2>1. CASE StopComplete(c)
    BY <1>3, <2>1 DEF ThreadedStopPoll, Sends, Ends, CompleteStop
  <2>2. CASE ~StopComplete(c)
    BY <1>3, <2>2 DEF ThreadedStopPoll, Sends, Keeps, Consume
  <2> QED BY <2>1, <2>2
<1> QED BY <1>2, <1>3 DEF DispatchThreaded

(***************************************************************************)
(* What a component sends is an event of its own, to SystemAO or           *)
(* SubtitleAO.                                                             *)
(***************************************************************************)
LEMMA SendsPosts == ASSUME NEW c \in Comp, Sends(c) PROVE Posts(c) /\ Handles(c)
<1>1. Posts(c)
  <2> DEFINE Post(e, b, margin) == e \in Event /\ e.sig \notin {"INIT_TIMEOUT", "POLL", "INIT"}
                                /\ b \in {"subtitle", "system"} /\ margin \in Nat
                                /\ queue' = PostX(Popped(c), b, e, margin)
  <2>0. c \in AO /\ "stt" \in AO /\ {"READY", "ERROR", "STOPPED", "TEXT"} \subseteq Signal
    BY DEF AO, Comp, Signal
  <2>1. ASSUME NEW dim \in Mode \cup {NoMode}, ReportReady(c, dim)
        PROVE  Post(DimEvt("READY", c, dim), "system", CONTROL_MARGIN)
    BY <2>0, <2>1, EventTypes DEF ReportReady, CONTROL_MARGIN
  <2>2. ReportError(c) => Post(Evt("ERROR", c), "system", ERROR_MARGIN)
    BY <2>0, EventTypes DEF ReportError, ERROR_MARGIN
  <2>3. ReportStopped(c) => Post(Evt("STOPPED", c), "system", CONTROL_MARGIN)
    BY <2>0, EventTypes DEF ReportStopped, CONTROL_MARGIN
  <2>4. ASSUME NEW margin \in {1, 4}, queue' = PostX(Popped(c), "subtitle", Evt("TEXT", "stt"), margin)
        PROVE  Post(Evt("TEXT", "stt"), "subtitle", margin)
    BY <2>0, <2>4, EventTypes
  <2>5. ASSUME NEW e, NEW b, NEW margin, Post(e, b, margin) PROVE Posts(c)
    BY <2>5 DEF Posts
  <2>6. \/ queue' = Popped(c)
        \/ \E dim \in Mode \cup {NoMode} : ReportReady(c, dim)
        \/ ReportError(c) \/ ReportStopped(c)
        \/ \E margin \in {1, 4} : queue' = PostX(Popped(c), "subtitle", Evt("TEXT", "stt"), margin)
    BY DEF Sends, Keeps, Waits, Rises, Streams, Fails, Ends, Texts
  <2> HIDE DEF Post
  <2>7. queue' = Popped(c) => Posts(c)
    BY DEF Posts
  <2> QED BY <2>1, <2>2, <2>3, <2>4, <2>5, <2>6, <2>7
<1>2. Turn(c) /\ {"subtitle", "system"} \subseteq AO
  BY Names DEF Sends
<1> QED BY <1>1, <1>2 DEF Posts, Handles

(***************************************************************************)
(* What is known of a queue when its component runs.                       *)
(***************************************************************************)
LEMMA ServedHere ==
  ASSUME IInv, NEW c \in Comp, Turn(c)
  PROVE  /\ queue \in [AO -> Seq(Event)] /\ queue[c] # <<>>
         /\ Current(c).sig = "STOP" => sysState = "stopping"
         /\ Current(c).sig = "INIT" => Has(queue[c], "INIT")
<1>1. queue \in [AO -> Seq(Event)] /\ queue[c] # <<>> /\ c \in AO
  BY TypesFollow, Names DEF TypeOK, Turn
<1>2. Current(c) \in Allowed
  BY <1>1, PoppedKeeps DEF IInv, QueueOK
<1>3. Current(c).sig = "INIT" => Has(queue[c], "INIT")
  BY <1>1, HasTail DEF Current
<1> QED BY <1>1, <1>2, <1>3 DEF Allowed

(***************************************************************************)
(* While the system is not stopping, each report uses up a credit of its   *)
(* sender.                                                                 *)
(***************************************************************************)
LEMMA SumOfFive ==
  ASSUME NEW a \in Nat, NEW b \in Nat, NEW c \in Nat, NEW d \in Nat, NEW e \in Nat
  PROVE  a + b + c + d + e \in Nat /\ e <= a + b + c + d + e
  OBVIOUS

LEMMA SumGrows ==
  ASSUME NEW a \in Int, NEW a1 \in Int, NEW b \in Int, NEW c \in Int, NEW d \in Int, NEW e \in Int,
         NEW v \in Int, a1 <= a + v
  PROVE  a1 + b + c + d + e <= a + b + c + d + e + v
  OBVIOUS

LEMMA OneLess ==
  ASSUME NEW a \in Nat, NEW b \in Nat, NEW l \in Nat, NEW q \in Nat, b + 1 <= a, l + a <= q
  PROVE  b <= a /\ l + 1 <= q
  OBVIOUS

(***************************************************************************)
(* The account of one step: k and l the queue's length after and before,   *)
(* w1 and w the waiting announcements, c1 and c the credit.                *)
(***************************************************************************)
Account(k, l, w1, w, c1, c) ==
  \/ k = l /\ w1 = w /\ c1 <= c
  \/ k = l + 1 /\ w1 = w /\ c1 + 1 <= c
  \/ k = l + 1 /\ w1 = w + 1 /\ c1 = c /\ w < MaxAnnounced
Balanced(k, l, w1, w, c1, c) ==
  w1 <= MaxAnnounced /\ w1 \in Nat /\ k \in Nat /\ k + c1 + w <= l + c + w1

LEMMA AccountBalances ==
  ASSUME NEW k, NEW l \in Nat, NEW w1, NEW w \in Nat, NEW c1 \in Nat, NEW c \in Nat,
         w <= MaxAnnounced, MaxAnnounced \in Nat, Account(k, l, w1, w, c1, c)
  PROVE  Balanced(k, l, w1, w, c1, c)
  BY DEF Account, Balanced

LEMMA AccountRoom ==
  ASSUME NEW k \in Nat, NEW l \in Nat, NEW n \in Nat, NEW w1 \in Nat, NEW w \in Nat,
         NEW c1 \in Nat, NEW c \in Nat, k + c1 + w <= l + c + w1, l + c <= n + w + 5
  PROVE  k + c1 <= n + w1 + 5
  OBVIOUS

(***************************************************************************)
(* The same when SystemAO takes its next event: v is 1 for an announcement.*)
(***************************************************************************)
LEMMA AccountServed ==
  ASSUME NEW l \in Nat, NEW n \in Nat, NEW w \in Nat, NEW w1, NEW c1 \in Nat, NEW c \in Nat,
         NEW v \in {0, 1}, MaxAnnounced \in Nat, w <= MaxAnnounced,
         l + c <= n + w + 5, w1 = w - v, c1 <= c + (1 - v)
  PROVE  w1 <= MaxAnnounced /\ l - 1 + c1 <= n + w1 + 5
  OBVIOUS

LEMMA CreditType ==
  /\ Credit \in Nat /\ SignalCredit \in Nat /\ SignalCredit <= Credit
  /\ Credit' \in Nat
<1> USE DEF SubtitleCredit, WorkerReady, UsbCredit, SttCredit, VideoCredit, SignalCredit
<1>1. /\ SubtitleCredit \in Nat /\ UsbCredit \in Nat /\ SttCredit \in Nat /\ VideoCredit \in Nat
      /\ SignalCredit \in Nat
  OBVIOUS
<1>2. /\ SubtitleCredit' \in Nat /\ UsbCredit' \in Nat /\ SttCredit' \in Nat /\ VideoCredit' \in Nat
      /\ SignalCredit' \in Nat
  OBVIOUS
<1> HIDE DEF SubtitleCredit, UsbCredit, SttCredit, VideoCredit, SignalCredit
<1>3. /\ SubtitleCredit + UsbCredit + SttCredit + VideoCredit + SignalCredit \in Nat
      /\ SignalCredit <= SubtitleCredit + UsbCredit + SttCredit + VideoCredit + SignalCredit
      /\ SubtitleCredit' + UsbCredit' + SttCredit' + VideoCredit' + SignalCredit' \in Nat
  BY <1>1, <1>2, SumOfFive, Zenon
<1> QED BY <1>1, <1>3, Zenon DEF Credit

LEMMA CreditSpent ==
  ASSUME IInv, FInv, sysState # "stopping", NEW c \in Comp, Sends(c)
  PROVE  /\ Keeps(c) \/ Rises(c) \/ Streams(c) \/ Fails(c) \/ Texts(c)
         /\ Keeps(c) \/ Texts(c) \/ Streams(c) \/ (Rises(c) /\ c = "video") => Credit' = Credit
         /\ Fails(c) \/ (Rises(c) /\ c # "video") => Credit' + 1 <= Credit
         /\ Rises(c) /\ c \in Threaded => Credit >= 2
<1>1. Current(c).sig # "STOP" /\ (Current(c).sig = "INIT" => Has(queue[c], "INIT"))
  BY ServedHere DEF Sends
<1>2. ao[c] # "stopping"
  BY DEF FInv, Reported
<1>3. Keeps(c) \/ Rises(c) \/ Streams(c) \/ Fails(c) \/ Texts(c)
  BY <1>1, <1>2 DEF Sends, Waits, Ends
<1>4. c \in Threaded /\ ao[c] = "idle" => ao["video"] = "idle"
  BY DEF FInv, WorkersFirst, WorkerFirst
<1>5. /\ subtitleInit' = subtitleInit /\ sigPosted' = sigPosted /\ readyMask' = readyMask
      /\ \A d \in Comp \ {c} : ao'[d] = ao[d]
  BY DEF Sends
<1>6. c = "subtitle" /\ Current(c).sig = "INIT" => subtitleInit
  BY <1>1 DEF FInv, SubtitleAsked
<1> USE DEF Credit, SubtitleCredit, WorkerReady, UsbCredit, SttCredit, VideoCredit, SignalCredit, Comp
<1>7. Keeps(c) \/ Texts(c) \/ Streams(c) \/ (Rises(c) /\ c = "video") => Credit' = Credit
  BY <1>5 DEF Keeps, Texts, Rises, Streams
<1>9. Fails(c) => Credit' + 1 <= Credit
  <2>1. CASE c = "video"
    BY <1>5, <2>1 DEF Fails
  <2>2. CASE c = "usb"
    BY <1>5, <2>2 DEF Fails
  <2>3. CASE c = "stt"
    BY <1>5, <2>3 DEF Fails
  <2>4. CASE c = "subtitle"
    BY <1>5, <1>6, <2>4 DEF Fails
  <2> QED BY <2>1, <2>2, <2>3, <2>4
<1>10. Rises(c) /\ c # "video" => Credit' + 1 <= Credit
  <2>2. CASE c = "usb"
    BY <1>5, <2>2 DEF Rises
  <2>3. CASE c = "stt"
    BY <1>5, <2>3 DEF Rises
  <2>4. CASE c = "subtitle"
    BY <1>5, <1>6, <2>4 DEF Rises
  <2> QED BY <2>2, <2>3, <2>4
<1>11. Rises(c) /\ c \in Threaded => Credit >= 2
  BY <1>4 DEF Rises, Threaded
<1> QED BY <1>3, <1>7, <1>9, <1>10, <1>11

(***************************************************************************)
(* Sums of lengths and credits.                                            *)
(***************************************************************************)
LEMMA Remainder == ASSUME NEW m \in Nat, NEW n \in Nat, n <= m PROVE m - n \in Nat
OBVIOUS

LEMMA OneForOne ==
  ASSUME NEW l \in Nat, NEW m \in Nat, NEW n \in Nat, n + 1 <= m, NEW k, k = l + 1 \/ k = l
  PROVE  k + n <= l + m
OBVIOUS

LEMMA OneMore ==
  ASSUME NEW a \in Int, NEW b \in Int, NEW c \in Int, NEW d \in Int, NEW r \in Int,
         NEW x \in Int, NEW y \in Int, y <= x + 1
  PROVE  /\ y + a + b + c + d + r <= x + a + b + c + d + r + 1
         /\ y + a + b + c + d + r \in Int /\ x + a + b + c + d + r \in Int
OBVIOUS

LEMMA RoomMade ==
  ASSUME NEW l \in Int, NEW k \in Int, k = l - 1, NEW d \in Int, NEW m \in Int, d <= m + 1
  PROVE  k + d <= l + m
OBVIOUS

LEMMA NoMore ==
  ASSUME NEW k \in Int, NEW d \in Int, NEW l \in Int, NEW m \in Int, NEW n \in Int, NEW x \in Int,
         k + d <= l + m, l + m <= n + x + 5
  PROVE  k + d <= n + x + 5
OBVIOUS

LEMMA RoomForTwo ==
  ASSUME NEW l \in Nat, NEW m \in Nat, NEW n \in Nat, n + 1 <= m, NEW q \in Nat, l + m <= q
  PROVE  q + 1 - l > 1
OBVIOUS

(***************************************************************************)
(* SystemAO's queue has room for what may still be sent to it.             *)
(***************************************************************************)
LEMMA RoomLeft ==
  ASSUME IInv, FInv, RoomyQueues, sysState # "stopping"
  PROVE  /\ Len(queue["system"]) \in Nat /\ QueueLen["system"] \in Nat
         /\ Len(queue["system"]) + Credit <= QueueLen["system"]
<1>1. queue["system"] \in Seq(Event) /\ QueueLen["system"] \in Nat /\ Waiting \in Nat
  BY TypesFollow, QueueLenAssumption, Names, WaitingType DEF TypeOK
<1>2. Count(queue["system"], "INIT_TIMEOUT") \in Nat
  BY <1>1, CountType
<1>3. /\ Count(queue["system"], "INIT_TIMEOUT") <= TickBacklog /\ Waiting <= MaxAnnounced
      /\ Len(queue["system"]) + Credit <= Count(queue["system"], "INIT_TIMEOUT") + Waiting + 5
  BY DEF FInv, Backlogs, SystemRoom
<1>4. Credit \in Nat /\ MaxAnnounced \in Nat /\ TickBacklog \in Nat
      /\ QueueLen["system"] >= MaxAnnounced + TickBacklog + 5
  BY CreditType, BoundsAssumption DEF RoomyQueues
<1> DEFINE n == Count(queue["system"], "INIT_TIMEOUT")
           l == Len(queue["system"])
<1>5. l \in Nat
  BY <1>1
<1>6. l + Credit <= QueueLen["system"]
  <2> HIDE DEF n, l
  <2>1. n \in Nat /\ n <= TickBacklog /\ l + Credit <= n + Waiting + 5
    BY <1>2, <1>3 DEF n, l
  <2> QED BY <1>1, <1>3, <1>4, <1>5, <2>1
<1> QED BY <1>1, <1>5, <1>6

(***************************************************************************)
(* What a component's handler changes of SystemAO's queue before the stop: *)
(* nothing; or it gets a report, or an announcement, that there is room    *)
(* for.                                                                    *)
(***************************************************************************)
Silent(c)       == /\ queue'["system"] = queue["system"] /\ Credit' <= Credit
                   /\ ~Fails(c) /\ (Rises(c) => c \notin Threaded)
Reports(c, e)   == /\ queue'["system"] = Append(queue["system"], e)
                   /\ e \notin Announcement /\ e.src = c /\ Credit' + 1 <= Credit
                   /\ (Fails(c) /\ e.sig = "ERROR") \/ (Rises(c) /\ ~Fails(c) /\ e.sig = "READY")
Announces(c, e) == /\ queue'["system"] = Append(queue["system"], e)
                   /\ e \in Announcement /\ c = "video" /\ Credit' = Credit
                   /\ Streams(c) /\ ~Fails(c) /\ ~Rises(c)

LEMMA SentBefore ==
  ASSUME IInv, FInv, RoomyQueues, sysState # "stopping", NEW c \in Comp, Sends(c)
  PROVE  Silent(c) \/ \E e \in Event : Reports(c, e) \/ Announces(c, e)
<1>1. queue \in [AO -> Seq(Event)] /\ queue[c] # <<>> /\ c \in AO
  BY ServedHere, Names DEF Sends
<1>2. Popped(c)["system"] = queue["system"] /\ Popped(c) \in [AO -> Seq(Event)]
  BY <1>1, Names, PoppedWhere
<1>3. /\ Len(queue["system"]) \in Nat /\ QueueLen["system"] \in Nat
      /\ Len(queue["system"]) + Credit <= QueueLen["system"]
      /\ Credit \in Nat /\ Credit' \in Nat
  BY RoomLeft, CreditType
<1>4. /\ Keeps(c) \/ Rises(c) \/ Streams(c) \/ Fails(c) \/ Texts(c)
      /\ Keeps(c) \/ Texts(c) \/ Streams(c) \/ (Rises(c) /\ c = "video") => Credit' = Credit
      /\ Fails(c) \/ (Rises(c) /\ c # "video") => Credit' + 1 <= Credit
      /\ Rises(c) /\ c \in Threaded => Credit >= 2
  BY CreditSpent
<1>5. /\ Fails(c) => ao'[c] = "error"
      /\ Keeps(c) => ao'[c] = ao[c] /\ (ao[c] = "idle" => Current(c).sig # "INIT")
      /\ Rises(c) => ao'[c] = "up" /\ ao[c] = "idle" /\ Current(c).sig = "INIT"
      /\ Streams(c) => ao'[c] = "up" /\ ao[c] = "up" /\ c = "video"
      /\ Texts(c) => ao'[c] = "up" /\ ao[c] = "up"
      /\ ao[c] \in {"idle", "up", "error"}
  BY DEF Fails, Keeps, Rises, Streams, Texts, FInv, Reported
<1>6. ASSUME NEW e \in Event, NEW margin \in Nat, queue' = PostX(Popped(c), "system", e, margin)
      PROVE  /\ Len(queue["system"]) + margin <= QueueLen["system"] =>
                   queue'["system"] = Append(queue["system"], e)
             /\ queue'["system"] = queue["system"] \/ queue'["system"] = Append(queue["system"], e)
  <2>1. /\ Free(Popped(c), "system") > margin => queue'["system"] = Append(queue["system"], e)
        /\ ~(Free(Popped(c), "system") > margin) => queue'["system"] = queue["system"]
    BY <1>2, <1>6, Names DEF PostX
  <2>2. Len(queue["system"]) + margin <= QueueLen["system"] => Free(Popped(c), "system") > margin
    BY <1>2, <1>3 DEF Free
  <2> QED BY <2>1, <2>2
<1>7. ASSUME NEW dim \in Mode \cup {NoMode}
      PROVE  LET e == DimEvt("READY", c, dim)
             IN  e \in Event /\ e.sig = "READY" /\ e.src = c /\ (e \in Announcement <=> c = "video")
  BY <1>1, EventTypes DEF Signal, Announcement
<1>8. CASE Fails(c)
  <2> DEFINE e == Evt("ERROR", c)
  <2>1. e \in Event /\ e.src = c /\ e.sig = "ERROR" /\ e \notin Announcement
    BY <1>1, EventTypes DEF Signal, Announcement
  <2>2. queue' = PostX(Popped(c), "system", e, ERROR_MARGIN) /\ ERROR_MARGIN = 1
    BY <1>8 DEF Fails, ReportError, ERROR_MARGIN
  <2> HIDE DEF e
  <2>3. Len(queue["system"]) + 1 <= QueueLen["system"]
    <3>1. Credit' + 1 <= Credit
      BY <1>4, <1>8, Zenon
    <3> QED BY <1>3, <3>1, OneLess, Zenon
  <2>4. queue'["system"] = Append(queue["system"], e)
    BY <1>6, <2>1, <2>2, <2>3
  <2>5. Reports(c, e)
    BY <1>4, <1>8, <2>1, <2>4 DEF Reports
  <2> QED BY <2>1, <2>5
<1>9. CASE Rises(c) /\ c # "video"
  <2>1. PICK dim \in Mode \cup {NoMode} : ReportReady(c, dim)
    BY <1>9 DEF Rises
  <2> DEFINE e == DimEvt("READY", c, dim)
  <2>2. e \in Event /\ e.sig = "READY" /\ e.src = c /\ e \notin Announcement
    BY <1>7, <1>9
  <2>3. queue' = PostX(Popped(c), "system", e, CONTROL_MARGIN) /\ CONTROL_MARGIN = 2
    BY <2>1 DEF ReportReady, CONTROL_MARGIN
  <2> HIDE DEF e
  <2>4. CASE queue'["system"] = Append(queue["system"], e)
    <3>1. Reports(c, e)
      BY <1>4, <1>5, <1>9, <2>2, <2>4 DEF Reports
    <3> QED BY <2>2, <3>1
  <2>5. CASE queue'["system"] = queue["system"] /\ c \notin Threaded
    <3>1. Credit' <= Credit
      <4>1. Credit' + 1 <= Credit
        BY <1>4, <1>9, Zenon
      <4> QED BY <1>3, <4>1, OneLess, Zenon
    <3>2. ~Fails(c)
      BY <1>5, <1>9, Zenon
    <3>3. Silent(c)
      BY <2>5, <3>1, <3>2, Zenon DEF Silent
    <3> QED BY <3>3
  <2>6. c \in Threaded => queue'["system"] = Append(queue["system"], e)
    <3>1. c \in Threaded => Len(queue["system"]) + 2 <= QueueLen["system"]
      BY <1>3, <1>4, <1>9
    <3> QED BY <1>6, <2>2, <2>3, <3>1
  <2>7. queue'["system"] = queue["system"] \/ queue'["system"] = Append(queue["system"], e)
    BY <1>6, <2>2, <2>3
  <2> QED BY <2>4, <2>5, <2>6, <2>7
<1>10. /\ Keeps(c) \/ Texts(c) => queue'["system"] = queue["system"]
       /\ Rises(c) /\ c = "video" => queue'["system"] = queue["system"]
       /\ Streams(c) => queue'["system"] = queue["system"] \/ \E dim \in Mode \cup {NoMode} : ReportReady(c, dim)
  <2>1. \A e \in Event, margin \in Nat : PostX(Popped(c), "subtitle", e, margin)["system"] = queue["system"]
    BY <1>2, Names DEF PostX
  <2>2. Evt("TEXT", "stt") \in Event
    BY EventTypes DEF AO, Comp, Signal
  <2> QED BY <1>2, <2>1, <2>2 DEF Keeps, Texts, Rises, Streams
<1>11. CASE (Keeps(c) \/ Texts(c) \/ (Rises(c) /\ c = "video")) /\ ~Fails(c)
  <2>1. Rises(c) => c \notin Threaded
    BY <1>5, <1>11 DEF Threaded
  <2> QED BY <1>3, <1>4, <1>10, <1>11, <2>1 DEF Silent
<1>12. CASE Streams(c)
  <2>1. ~Fails(c) /\ ~Rises(c) /\ c = "video"
    BY <1>5, <1>12
  <2>2. CASE queue'["system"] = queue["system"]
    BY <1>3, <1>4, <1>12, <2>1, <2>2 DEF Silent
  <2>3. ASSUME NEW dim \in Mode \cup {NoMode}, ReportReady(c, dim), queue'["system"] # queue["system"]
        PROVE  \E e \in Event : Announces(c, e)
    <3> DEFINE e == DimEvt("READY", c, dim)
    <3>1. e \in Event /\ e \in Announcement
      BY <1>7, <2>1
    <3>2. queue' = PostX(Popped(c), "system", e, CONTROL_MARGIN) /\ CONTROL_MARGIN \in Nat
      BY <2>3 DEF ReportReady, CONTROL_MARGIN
    <3> HIDE DEF e
    <3>3. queue'["system"] = Append(queue["system"], e)
      BY <1>6, <2>3, <3>1, <3>2
    <3>4. Announces(c, e)
      BY <1>4, <1>12, <2>1, <3>1, <3>3 DEF Announces
    <3> QED BY <3>1, <3>4
  <2> QED BY <1>10, <1>12, <2>2, <2>3
<1> QED BY <1>4, <1>8, <1>9, <1>11, <1>12

(***************************************************************************)
(* A component's handler keeps the invariant: first its own queue, then    *)
(* SystemAO's before and during the stop.                                  *)
(***************************************************************************)
LEMMA SendsOwn ==
  ASSUME IInv, FInv, NEW c \in Comp, Sends(c)
  PROVE  Backlogs' /\ PolledRoom'
<1>1. queue \in [AO -> Seq(Event)] /\ queue[c] # <<>> /\ Posts(c) /\ sysState' = sysState
  BY ServedHere, SendsPosts DEF Sends
<1>2. /\ \A a \in Polled \ {c} : queue'[a] = queue[a]
      /\ c \in Polled => /\ Len(queue'[c]) = Len(queue[c]) - 1
                         /\ Count(queue'[c], "POLL")
                              = Count(queue[c], "POLL") - (IF Current(c).sig = "POLL" THEN 1 ELSE 0)
      /\ Count(queue'["system"], "INIT_TIMEOUT") = Count(queue["system"], "INIT_TIMEOUT")
  BY <1>1, ServedOwn
<1>3. Backlogs /\ PolledRoom
  BY DEF FInv
<1>4. ASSUME NEW a \in Polled
      PROVE  /\ Count(queue'[a], "POLL") <= TickBacklog
             /\ Len(queue'[a]) + (IF sysState' = "stopping" THEN 0 ELSE 1) <= Count(queue'[a], "POLL") + 2
  <2>1. Len(queue[a]) \in Nat /\ Count(queue[a], "POLL") \in Nat
    BY <1>1, CountType, Names
  <2> DEFINE n == Count(queue[a], "POLL")
             l == Len(queue[a])
             m == Count(queue'[a], "POLL")
             k == Len(queue'[a])
             r == IF sysState = "stopping" THEN 0 ELSE 1
  <2>2. n <= TickBacklog /\ l + r <= n + 2
    BY <1>3 DEF Backlogs, PolledRoom
  <2>3. CASE a # c
    BY <1>1, <1>2, <2>2, <2>3
  <2>4. CASE a = c
    <3>1. k = l - 1 /\ (m = n \/ m = n - 1)
      BY <1>2, <2>1, <2>4
    <3>2. TickBacklog \in Nat /\ r \in {0, 1}
      BY BoundsAssumption
    <3> HIDE DEF n, l, m, k, r
    <3>3. l \in Nat /\ n \in Nat
      BY <2>1 DEF l, n
    <3>4. m <= TickBacklog /\ k + r <= m + 2
      BY <2>2, <3>1, <3>2, <3>3
    <3> QED BY <1>1, <3>4 DEF m, k, r
  <2> QED BY <2>3, <2>4
<1> QED BY <1>2, <1>3, <1>4 DEF Backlogs, PolledRoom

LEMMA SendsBefore ==
  ASSUME IInv, FInv, RoomyQueues, sysState # "stopping", NEW c \in Comp, Sends(c)
  PROVE  FInv'
<1>1. queue \in [AO -> Seq(Event)] /\ queue[c] # <<>> /\ Posts(c) /\ Handles(c)
      /\ UNCHANGED <<proc, sysState, readyMask, subtitleInit>>
      /\ (\A d \in Comp \ {c} : ao'[d] = ao[d])
      /\ ("shutdown" \in armed' => "shutdown" \in armed)
      /\ ao \in [Comp -> {"idle", "up", "error", "stopping", "stopped"}]
  BY ServedHere, SendsPosts DEF Sends, IInv, OtherTypes
<1>2. Keeps(c) \/ Rises(c) \/ Streams(c) \/ Fails(c) \/ Texts(c)
  BY CreditSpent
<1>3. Silent(c) \/ \E e \in Event : Reports(c, e) \/ Announces(c, e)
  BY SentBefore
<1>4. queue["system"] \in Seq(Event) /\ queue' \in [AO -> Seq(Event)]
  BY <1>1, Names, ServedOwn
<1>5. SystemRoom'
  <2>1. Count(queue'["system"], "INIT_TIMEOUT") = Count(queue["system"], "INIT_TIMEOUT")
    BY <1>1, ServedOwn
  <2>2. /\ Len(queue["system"]) + Credit <= Count(queue["system"], "INIT_TIMEOUT") + Waiting + 5
        /\ Waiting <= MaxAnnounced /\ "shutdown" \notin armed
    BY DEF FInv, SystemRoom
  <2>3. /\ Len(queue["system"]) \in Nat /\ Count(queue["system"], "INIT_TIMEOUT") \in Nat
        /\ Waiting \in Nat /\ Credit \in Nat /\ Credit' \in Nat /\ MaxAnnounced \in Nat
    BY <1>1, <1>4, CountType, WaitingType, CreditType, BoundsAssumption
  <2> DEFINE k == Len(queue'["system"])
             l == Len(queue["system"])
             n == Count(queue["system"], "INIT_TIMEOUT")
  <2>4. /\ Waiting' <= MaxAnnounced /\ Waiting' \in Nat
        /\ k \in Nat /\ k + Credit' + Waiting <= l + Credit + Waiting'
    <3>0. ASSUME Account(k, l, Waiting', Waiting, Credit', Credit)
          PROVE  Balanced(k, l, Waiting', Waiting, Credit', Credit)
      BY <2>2, <2>3, <3>0, AccountBalances, Zenon
    <3>1. CASE Silent(c)
      <4>1. k = l /\ Waiting' = Waiting /\ Credit' <= Credit
        BY <3>1 DEF Silent, Waiting
      <4> HIDE DEF k, l, n
      <4>2. Account(k, l, Waiting', Waiting, Credit', Credit)
        BY <4>1, Zenon DEF Account
      <4> QED BY <3>0, <4>2, Zenon DEF Balanced
    <3>2. ASSUME NEW e \in Event, queue'["system"] = Append(queue["system"], e)
          PROVE  /\ k = l + 1 /\ l \in Nat
                 /\ e \notin Announcement => Waiting' = Waiting
                 /\ e \in Announcement => Waiting' = Waiting + 1
      <4>1. Number(Append(queue["system"], e), Announcement)
              = Number(queue["system"], Announcement) + (IF e \in Announcement THEN 1 ELSE 0)
        BY <1>4, NumberAppend
      <4>2. Waiting' = Waiting + (IF e \in Announcement THEN 1 ELSE 0)
        BY <3>2, <4>1 DEF Waiting
      <4>3. k = l + 1 /\ l \in Nat
        BY <1>4, <3>2
      <4> HIDE DEF k, l
      <4> QED BY <2>3, <4>2, <4>3
    <3>3. ASSUME NEW e \in Event, Reports(c, e)
          PROVE  /\ Waiting' <= MaxAnnounced /\ Waiting' \in Nat
                 /\ k \in Nat /\ k + Credit' + Waiting <= l + Credit + Waiting'
      <4>1. k = l + 1 /\ l \in Nat /\ Waiting' = Waiting /\ Credit' + 1 <= Credit
        BY <3>2, <3>3 DEF Reports
      <4> HIDE DEF k, l, n
      <4>2. Account(k, l, Waiting', Waiting, Credit', Credit)
        BY <4>1, Zenon DEF Account
      <4> QED BY <3>0, <4>2, Zenon DEF Balanced
    <3>4. ASSUME NEW e \in Event, Announces(c, e)
          PROVE  /\ Waiting' <= MaxAnnounced /\ Waiting' \in Nat
                 /\ k \in Nat /\ k + Credit' + Waiting <= l + Credit + Waiting'
      <4>1. k = l + 1 /\ l \in Nat /\ Waiting' = Waiting + 1 /\ Credit' = Credit
        BY <3>2, <3>4 DEF Announces
      <4>2. Waiting < MaxAnnounced
        BY <3>4 DEF Announces, Streams
      <4> HIDE DEF k, l, n
      <4>3. Account(k, l, Waiting', Waiting, Credit', Credit)
        BY <4>1, <4>2, Zenon DEF Account
      <4> QED BY <3>0, <4>3, Zenon DEF Balanced
    <3> QED BY <1>3, <3>1, <3>3, <3>4
  <2>5. k + Credit' <= n + Waiting' + 5
    <3>1. l + Credit <= n + Waiting + 5 /\ l \in Nat /\ n \in Nat
      BY <2>2, <2>3
    <3> HIDE DEF k, l, n
    <3> QED BY <2>3, <2>4, <3>1, AccountRoom, Zenon
  <2>6. sysState' # "stopping" =>
          /\ Waiting' <= MaxAnnounced
          /\ Len(queue'["system"]) + Credit' <= Count(queue'["system"], "INIT_TIMEOUT") + Waiting' + 5
    BY <2>1, <2>4, <2>5
  <2>7. "shutdown" \notin armed'
    BY <1>1, <2>2
  <2> QED BY <2>6, <2>7 DEF SystemRoom
<1>6. /\ ao'[c] = ao[c] \/ (ao'[c] = "up" /\ ao[c] = "up") \/ (ao'[c] = "up" /\ Rises(c))
           \/ (ao'[c] = "error" /\ Fails(c))
      /\ ao'[c] = "idle" => Current(c).sig # "INIT"
  <2>1. CASE Keeps(c)
    BY <2>1 DEF Keeps
  <2>2. CASE Rises(c) \/ Streams(c) \/ Fails(c) \/ Texts(c)
    BY <2>2 DEF Rises, Streams, Fails, Texts
  <2> QED BY <1>2, <2>1, <2>2
<1>7. /\ Fails(c) => Told(queue'["system"], "ERROR", c)
      /\ Rises(c) /\ c \in Threaded => Told(queue'["system"], "READY", c) \/ Fails(c)
      /\ \A d \in Comp : Told(queue'["system"], "READY", d) =>
            Told(queue["system"], "READY", d) \/ (d = c /\ ao'[c] = "up")
  <2>1. CASE Silent(c)
    BY <2>1 DEF Silent
  <2>2. ASSUME NEW e \in Event, Reports(c, e) \/ Announces(c, e)
        PROVE  /\ Fails(c) => Told(queue'["system"], "ERROR", c)
               /\ Rises(c) /\ c \in Threaded => Told(queue'["system"], "READY", c) \/ Fails(c)
               /\ \A d \in Comp : Told(queue'["system"], "READY", d) =>
                     Told(queue["system"], "READY", d) \/ (d = c /\ ao'[c] = "up")
    <3>1. /\ queue'["system"] = Append(queue["system"], e) /\ e.src = c
          /\ Fails(c) => e.sig = "ERROR"
          /\ Rises(c) /\ ~Fails(c) => e.sig = "READY"
          /\ e.sig = "READY" => Rises(c) \/ Streams(c)
      BY <2>2 DEF Reports, Announces, Announcement
    <3>2. \A sig, src : Told(queue'["system"], sig, src) <=>
             Told(queue["system"], sig, src) \/ (e.sig = sig /\ e.src = src)
      BY <1>4, <3>1, ToldAppend
    <3>3. Rises(c) \/ Streams(c) => ao'[c] = "up"
      BY DEF Rises, Streams
    <3> QED BY <3>1, <3>2, <3>3
  <2> QED BY <1>3, <2>1, <2>2
<1>8. Reported'
  <2>1. ASSUME NEW d \in Comp
        PROVE  /\ ao'[d] \in {"idle", "up", "error"}
               /\ ao'[d] = "error" => Told(queue'["system"], "ERROR", d)
               /\ d \in readyMask' \/ Told(queue'["system"], "READY", d) => ao'[d] # "idle"
    <3>1. /\ ao[d] \in {"idle", "up", "error"}
          /\ ao[d] = "error" => Told(queue["system"], "ERROR", d)
          /\ d \in readyMask \/ Told(queue["system"], "READY", d) => ao[d] # "idle"
      BY DEF FInv, Reported
    <3>2. Told(queue["system"], "ERROR", d) => Told(queue'["system"], "ERROR", d)
      BY <1>1, ServedTold
    <3>3. ao'[d] = ao[d] \/ ao'[d] = "up" \/ (ao'[d] = "error" /\ d = c /\ Fails(c))
      BY <1>1, <1>6
    <3>4. Told(queue'["system"], "READY", d) => Told(queue["system"], "READY", d) \/ ao'[d] = "up"
      BY <1>7
    <3> QED BY <1>1, <1>7, <3>1, <3>2, <3>3, <3>4
  <2>2. sysState' = "run" => readyMask' = Comp
    BY <1>1 DEF FInv, Reported
  <2> QED BY <2>1, <2>2 DEF Reported
<1>9. SubtitleAsked'
  <2> SUFFICES ASSUME ~subtitleInit
               PROVE  ao'["subtitle"] = "idle" /\ ~Has(queue'["subtitle"], "INIT")
    BY <1>1 DEF SubtitleAsked
  <2>1. ao["subtitle"] = "idle" /\ ~Has(queue["subtitle"], "INIT")
    BY DEF FInv, SubtitleAsked
  <2>2. ~Has(queue'["subtitle"], "INIT")
    BY <1>1, <2>1, HandlesHarmless, TypesFollow, Names DEF Harmless
  <2>3. CASE c = "subtitle"
    <3>1. Current(c).sig # "INIT"
      BY <2>1, <2>3, ServedHere DEF Sends
    <3>2. Keeps(c)
      BY <1>2, <2>1, <2>3, <3>1 DEF Rises, Streams, Fails, Texts
    <3> QED BY <2>1, <2>2, <2>3, <3>2, Zenon DEF Keeps
  <2>4. CASE c # "subtitle"
    BY <1>1, <2>1, <2>2, <2>4, Names
  <2> QED BY <2>3, <2>4
<1>10. WorkersFirst'
  <2> SUFFICES ASSUME NEW d \in Threaded PROVE WorkerFirst(d)'
    BY DEF WorkersFirst
  <2>1. WorkerFirst(d) /\ d \in Comp /\ d \in AO
    BY Names DEF FInv, WorkersFirst
  <2>2. c = "video" => ao[d] # "idle"
    <3>1. c = "video" => queue[d] = <<>>
      BY DEF Sends, Turn, Prio, AO, Comp, Threaded
    <3> QED BY <2>1, <3>1 DEF WorkerFirst
  <2>3. ao'[d] = "idle" => queue'[d] # <<>> /\ Head(queue'[d]).sig = "INIT" /\ ao'["video"] = "idle"
    <3> SUFFICES ASSUME ao'[d] = "idle"
                 PROVE  queue'[d] # <<>> /\ Head(queue'[d]).sig = "INIT" /\ ao'["video"] = "idle"
      OBVIOUS
    <3>1. ao[d] = "idle"
      BY <1>1, <1>6, <2>1
    <3>2. queue[d] # <<>> /\ Head(queue[d]).sig = "INIT" /\ ao["video"] = "idle"
      BY <2>1, <3>1 DEF WorkerFirst
    <3>3. d # c
      BY <1>6, <3>2 DEF Current
    <3>4. queue'[d] # <<>> /\ Head(queue'[d]) = Head(queue[d])
      BY <1>1, <2>1, <3>2, <3>3, ServedHeads
    <3>5. ao'["video"] = ao["video"]
      BY <1>1, <2>2, <3>1 DEF Comp
    <3> QED BY <3>2, <3>4, <3>5
  <2>4. ao'[d] = "up" => d \in readyMask' \/ Told(queue'["system"], "READY", d)
    <3> SUFFICES ASSUME ao'[d] = "up"
                 PROVE  d \in readyMask' \/ Told(queue'["system"], "READY", d)
      OBVIOUS
    <3>1. CASE ao[d] = "up"
      <4>1. Told(queue["system"], "READY", d) => Told(queue'["system"], "READY", d)
        BY <1>1, ServedTold
      <4> QED BY <1>1, <2>1, <3>1, <4>1 DEF WorkerFirst
    <3>2. CASE ao[d] # "up"
      <4>1. d = c /\ Rises(c)
        BY <1>1, <1>6, <2>1, <3>2
      <4>2. ~Fails(c)
        BY <4>1 DEF Fails
      <4> QED BY <1>7, <4>1, <4>2
    <3> QED BY <3>1, <3>2
  <2>5. Ahead(queue'["system"], readyMask, d)
    <3>0. Ahead(queue["system"], readyMask, d)
      BY <2>1 DEF WorkerFirst
    <3>1. CASE Silent(c)
      BY <3>0, <3>1 DEF Silent
    <3>2. ASSUME NEW e \in Event, Reports(c, e) PROVE Ahead(queue'["system"], readyMask, d)
      <4>1. queue'["system"] = Append(queue["system"], e) /\ e \notin Announcement
        BY <3>2 DEF Reports
      <4>2. Ahead(Append(queue["system"], e), readyMask, d)
        BY <1>4, <3>0, <4>1, AheadAppend
      <4> QED BY <4>1, <4>2
    <3>3. ASSUME NEW e \in Event, Announces(c, e) PROVE Ahead(queue'["system"], readyMask, d)
      <4>1. queue'["system"] = Append(queue["system"], e) /\ c = "video"
        BY <3>3 DEF Announces
      <4>2. ao[d] \in {"up", "error"} /\ (ao[d] = "error" => Told(queue["system"], "ERROR", d))
        BY <2>1, <2>2, <4>1 DEF FInv, Reported
      <4>3. d \in readyMask \/ Told(queue["system"], "READY", d) \/ Told(queue["system"], "ERROR", d)
        BY <2>1, <4>2 DEF WorkerFirst
      <4>4. Ahead(Append(queue["system"], e), readyMask, d)
        BY <1>4, <3>0, <4>3, AheadAppend
      <4> QED BY <4>1, <4>4
    <3> QED BY <1>3, <3>1, <3>2, <3>3
  <2>6. readyMask' = readyMask
    BY <1>1
  <2> QED BY <2>3, <2>4, <2>5, <2>6 DEF WorkerFirst
<1>11. proc' # "asserted" /\ StopNext'
  BY <1>1 DEF FInv, StopNext
<1> QED BY <1>5, <1>8, <1>9, <1>10, <1>11, SendsOwn DEF FInv

LEMMA SendsStopping ==
  ASSUME IInv, WInv, FInv, sysState = "stopping", NEW c \in Comp, Sends(c)
  PROVE  FInv'
<1>1. queue \in [AO -> Seq(Event)] /\ queue[c] # <<>> /\ Posts(c)
      /\ UNCHANGED <<proc, sysState, sigPosted>>
      /\ (\A d \in Comp \ {c} : ao'[d] = ao[d])
      /\ ("shutdown" \in armed' => "shutdown" \in armed)
      /\ ao \in [Comp -> {"idle", "up", "error", "stopping", "stopped"}]
  BY ServedHere, SendsPosts DEF Sends, IInv, OtherTypes
<1>2. Current(c).sig # "INIT" /\ (ao[c] = "up" => Current(c).sig = "STOP")
  BY ServedHere DEF Sends, WInv, NoneAsked, FInv, StopNext, Current
<1>3. (Keeps(c) /\ ao[c] # "up") \/ Waits(c) \/ Ends(c)
  BY <1>2 DEF Sends, Keeps, Waits, Rises, Streams, Fails, Ends, Texts
<1>4. StopNext'
  <2> SUFFICES ASSUME NEW d \in Comp, ao'[d] = "up"
               PROVE  queue'[d] # <<>> /\ Head(queue'[d]).sig = "STOP"
    BY DEF StopNext
  <2>1. d # c /\ ao[d] = "up"
    BY <1>1, <1>3 DEF Keeps, Waits, Ends
  <2>2. queue[d] # <<>> /\ Head(queue[d]).sig = "STOP"
    BY <2>1 DEF FInv, StopNext
  <2>3. queue'[d] # <<>> /\ Head(queue'[d]) = Head(queue[d])
    BY <1>1, <2>1, <2>2, ServedHeads, Names
  <2> QED BY <2>2, <2>3
<1>5. SystemRoom'
  <2> SUFFICES ASSUME "shutdown" \in armed'
               PROVE  Len(queue'["system"]) + SignalCredit' <= QueueLen["system"]
    BY <1>1 DEF SystemRoom
  <2>1. Len(queue["system"]) + SignalCredit <= QueueLen["system"] /\ SignalCredit' = SignalCredit
    BY <1>1 DEF FInv, SystemRoom, SignalCredit
  <2>2. CASE queue' = Popped(c)
    <3>1. Popped(c)["system"] = queue["system"]
      BY <1>1, PoppedWhere, Names
    <3> QED BY <2>1, <2>2, <3>1
  <2>3. CASE ReportStopped(c)
    <3>1. Evt("STOPPED", c) \in Event /\ CONTROL_MARGIN = 2
      BY Names, EventTypes DEF Signal, CONTROL_MARGIN
    <3>2. /\ Free(queue, "system") > 2 => Len(queue'["system"]) = Len(queue["system"]) + 1
          /\ ~(Free(queue, "system") > 2) => queue'["system"] = queue["system"]
      BY <1>1, <2>3, <3>1, ReportArrives DEF ReportStopped
    <3>3. Len(queue["system"]) \in Nat /\ QueueLen["system"] \in Nat /\ SignalCredit \in {0, 1}
      BY <1>1, Names, QueueLenAssumption DEF SignalCredit
    <3>4. CASE Free(queue, "system") > 2
      <4>1. QueueLen["system"] + 1 - Len(queue["system"]) > 2
        BY <3>4 DEF Free
      <4>2. Len(queue'["system"]) = Len(queue["system"]) + 1
        BY <3>2, <3>4
      <4> QED BY <2>1, <3>3, <4>1, <4>2
    <3>5. CASE ~(Free(queue, "system") > 2)
      BY <2>1, <3>2, <3>5
    <3> QED BY <3>4, <3>5
  <2> QED BY <1>3, <2>2, <2>3 DEF Keeps, Waits, Ends
<1>6. proc' # "asserted" /\ Reported' /\ SubtitleAsked' /\ WorkersFirst'
  BY <1>1, <1>3 DEF FInv, Reported, SubtitleAsked, WorkersFirst
<1> QED BY <1>4, <1>5, <1>6, SendsOwn DEF FInv

LEMMA ComponentsFast ==
  ASSUME IInv, WInv, FInv, RoomyQueues,
         \/ DispatchVideo \/ DispatchSubtitle \/ DispatchUsb \/ DispatchStt
         \/ \E c \in Threaded : DispatchThreaded(c)
  PROVE  FInv'
<1>1. \E c \in Comp : Sends(c)
  BY VideoSends, SubtitleSends, UsbSttSends, ThreadedSends DEF Comp, Threaded
<1> QED BY <1>1, SendsBefore, SendsStopping

-----------------------------------------------------------------------------
(***************************************************************************)
(* SystemAO runs when no component has anything waiting, so the stop it    *)
(* sends is the first event of each of them.                               *)
(***************************************************************************)
LEMMA StopArrives ==
  ASSUME IInv, Turn("system"), EnterStopping(Popped("system")), NEW c \in Comp
  PROVE  /\ queue'[c] # <<>> /\ Head(queue'[c]).sig = "STOP"
         /\ Len(queue'[c]) = 1 /\ Count(queue'[c], "POLL") = 0
<1> DEFINE stop == Evt("STOP", "system")
<1>1. queue[c] = <<>> /\ queue["system"] # <<>> /\ c \in AO /\ c # "system"
  BY ComponentsIdle, Names DEF Turn
<1>2. queue \in [AO -> Seq(Event)] /\ stop \in Event /\ stop.sig = "STOP"
  BY TypesFollow, EventTypes, Names DEF TypeOK, Signal
<1>3. Popped("system")[c] = <<>> /\ Popped("system") \in [AO -> Seq(Event)]
  BY <1>1, <1>2, PoppedWhere, Names
<1>4. Free(Popped("system"), c) > 0
  <2>1. QueueLen[c] \in Nat \ {0}
    BY <1>1, QueueLenAssumption
  <2> QED BY <1>3, <2>1 DEF Free
<1>5. queue'[c] = PostX(Popped("system"), c, stop, 0)[c]
  BY <1>1 DEF EnterStopping, BroadcastStop
<1>6. queue'[c] = Append(<<>>, stop)
  BY <1>1, <1>3, <1>4, <1>5 DEF PostX
<1> HIDE DEF stop
<1>7. <<>> \in Seq(Event) /\ Count(<<>>, "POLL") = 0
  <2>1. Marks(<<>>, Carrying("POLL")) = {}
    BY DEF Marks
  <2> QED BY <2>1, FS_EmptySet DEF Count, Number
<1>8. Count(queue'[c], "POLL") = 0
  <2>1. Count(Append(<<>>, stop), "POLL") = Count(<<>>, "POLL") + (IF stop.sig = "POLL" THEN 1 ELSE 0)
    BY <1>2, <1>7, CountAppend
  <2> QED BY <1>2, <1>6, <1>7, <2>1
<1> QED BY <1>2, <1>6, <1>8

LEMMA StopFast ==
  ASSUME IInv, FInv, RoomyQueues, Turn("system"), sysState # "stopping",
         EnterStopping(Popped("system")), UNCHANGED <<proc, sigPosted>>
  PROVE  FInv'
<1>1. /\ queue'["system"] = Popped("system")["system"] /\ sysState' = "stopping"
      /\ queue \in [AO -> Seq(Event)] /\ queue["system"] # <<>>
  BY TypesFollow, Names DEF TypeOK, Turn, EnterStopping, BroadcastStop
<1>2. Len(queue'["system"]) = Len(queue["system"]) - 1
  BY <1>1, PoppedWhere, Names
<1>3. Backlogs' /\ PolledRoom'
  <2> DEFINE n == Count(queue["system"], "INIT_TIMEOUT")
             m == Count(queue'["system"], "INIT_TIMEOUT")
  <2>1. m = n - (IF Current("system").sig = "INIT_TIMEOUT" THEN 1 ELSE 0)
    BY <1>1, CountPopped, Names
  <2>2. n <= TickBacklog /\ n \in Nat
    BY <1>1, CountType, Names DEF FInv, Backlogs
  <2>3. TickBacklog \in Nat
    BY BoundsAssumption
  <2>4. m <= TickBacklog
    <3> HIDE DEF n, m
    <3> QED BY <2>1, <2>2, <2>3
  <2>5. \A c \in Polled : Len(queue'[c]) = 1 /\ Count(queue'[c], "POLL") = 0
    BY StopArrives, Names
  <2>6. 0 <= TickBacklog /\ 1 + 0 <= 0 + 2
    BY <2>3
  <2>7. PolledRoom'
    BY <1>1, <2>5, <2>6 DEF PolledRoom
  <2>8. Backlogs'
    BY <2>4, <2>5, <2>6 DEF Backlogs
  <2> QED BY <2>7, <2>8
<1>4. SystemRoom'
  <2>1. Len(queue["system"]) \in Nat /\ QueueLen["system"] \in Nat
        /\ Len(queue["system"]) + Credit <= QueueLen["system"]
    BY RoomLeft
  <2>2. Credit \in Nat /\ SignalCredit \in Nat /\ SignalCredit <= Credit
    BY CreditType
  <2>3. SignalCredit' = SignalCredit
    BY DEF SignalCredit
  <2>4. Len(queue'["system"]) + SignalCredit' <= QueueLen["system"]
    BY <1>2, <2>1, <2>2, <2>3
  <2> QED BY <1>1, <2>4 DEF SystemRoom
<1>5. StopNext'
  BY StopArrives DEF StopNext
<1>6. proc' # "asserted" /\ Reported' /\ SubtitleAsked' /\ WorkersFirst'
  BY <1>1 DEF FInv, Reported, SubtitleAsked, WorkersFirst
<1> QED BY <1>3, <1>4, <1>5, <1>6 DEF FInv

(***************************************************************************)
(* on_component_ready: it stops the system, or notes who is ready; when it *)
(* asks SubtitleAO to initialise, the report it handled makes room for     *)
(* what SubtitleAO may answer.                                             *)
(***************************************************************************)
LEMMA ReadyCases ==
  ASSUME IInv, SystemReady
  PROVE  /\ Turn("system") /\ Current("system").sig = "READY" /\ Current("system").src \in Comp
         /\ sysState = "init" /\ UNCHANGED <<proc, ao, sigPosted>>
         /\ \/ EnterStopping(Popped("system"))
            \/ /\ sysState' # "stopping" /\ ("shutdown" \in armed' => "shutdown" \in armed)
               /\ readyMask' \subseteq readyMask \cup {Current("system").src}
               /\ readyMask \subseteq readyMask'
               /\ Current("system").src # "video" => Current("system").src \in readyMask'
               /\ sysState' = "run" => readyMask' = Comp
               /\ \/ queue' = Popped("system") /\ subtitleInit' = subtitleInit
                  \/ /\ subtitleInit' /\ Current("system").src = "video"
                     /\ \E e \in Event : /\ e.sig = "INIT"
                                         /\ queue' = PostX(Popped("system"), "subtitle", e, CONTROL_MARGIN)
<1> DEFINE e       == Current("system")
           invalid == e.src = "video" /\ e.dim = NoMode
           request == e.src = "video" /\ e.dim # NoMode /\ ~subtitleInit
           q0      == Popped("system")
           q1      == IF request
                      THEN PostX(q0, "subtitle", DimEvt("INIT", "subtitle", e.dim), CONTROL_MARGIN)
                      ELSE q0
           posted  == request /\ q1 # q0
           ready   == IF invalid THEN readyMask ELSE readyMask \cup {e.src}
<1>1. /\ Turn("system") /\ e.sig = "READY" /\ sysState = "init"
      /\ UNCHANGED <<proc, ao, sigPosted>>
  BY DEF SystemReady, Dispatch, videoVars, sigVars
<1>2. e \in Allowed
  BY <1>1, PoppedKeeps, Names DEF IInv, QueueOK, Turn
<1>3. e.src \in Comp /\ e \in Event
  BY <1>1, <1>2 DEF Allowed
<1>4. DimEvt("INIT", "subtitle", e.dim) \in Event /\ DimEvt("INIT", "subtitle", e.dim).sig = "INIT"
  BY <1>3, EventTypes, Names DEF Event, Signal
<1>5. /\ readyMask' = ready
      /\ subtitleInit' = (subtitleInit \/ posted)
      /\ \/ sysState' = "run" /\ Comp \subseteq ready /\ queue' = q1 /\ armed' = armed \ {"init"}
         \/ (invalid \/ (request /\ ~posted)) /\ EnterStopping(q1)
         \/ queue' = q1 /\ sysState' = sysState /\ armed' = armed
  BY DEF SystemReady, InitExpected
<1>6. \/ queue' = q1 /\ sysState' # "stopping" /\ (sysState' = "run" => Comp \subseteq ready)
         /\ ("shutdown" \in armed' => "shutdown" \in armed)
      \/ EnterStopping(q0)
  <2>1. invalid \/ (request /\ ~posted) => q1 = q0
    OBVIOUS
  <2> HIDE DEF q1, posted, invalid, request, ready, q0, e
  <2> QED BY <1>1, <1>5, <2>1
<1>7. /\ readyMask' \subseteq readyMask \cup {e.src} /\ readyMask \subseteq readyMask'
      /\ e.src # "video" => e.src \in readyMask'
      /\ sysState' = "run" /\ Comp \subseteq ready => readyMask' = Comp
  BY <1>3, <1>5 DEF IInv, OtherTypes
<1>8. ASSUME queue' = q1
      PROVE  \/ queue' = q0 /\ subtitleInit' = subtitleInit
             \/ /\ subtitleInit' /\ e.src = "video"
                /\ \E x \in Event : x.sig = "INIT" /\ queue' = PostX(q0, "subtitle", x, CONTROL_MARGIN)
  <2>1. CASE posted
    BY <1>4, <1>5, <1>8, <2>1
  <2>2. CASE ~posted
    <3>1. q1 = q0
      BY <2>2
    <3>2. subtitleInit' = subtitleInit
      BY <1>5, <2>2 DEF IInv, OtherTypes
    <3> QED BY <1>8, <3>1, <3>2
  <2> QED BY <2>1, <2>2
<1> HIDE DEF q1, ready, q0, e
<1>9. CASE EnterStopping(q0)
  BY <1>1, <1>3, <1>9 DEF e, q0
<1>10. CASE queue' = q1 /\ sysState' # "stopping" /\ (sysState' = "run" => Comp \subseteq ready)
         /\ ("shutdown" \in armed' => "shutdown" \in armed)
  BY <1>1, <1>3, <1>7, <1>8, <1>10 DEF e, q0
<1> QED BY <1>6, <1>9, <1>10

LEMMA ReadyFast == ASSUME IInv, FInv, RoomyQueues, SystemReady PROVE FInv'
<1>1. /\ Turn("system") /\ Current("system").sig = "READY" /\ Current("system").src \in Comp
      /\ sysState = "init" /\ UNCHANGED <<proc, ao, sigPosted>>
      /\ queue \in [AO -> Seq(Event)] /\ queue["system"] # <<>>
  BY ReadyCases, TypesFollow DEF TypeOK, Turn
<1>2. CASE EnterStopping(Popped("system"))
  BY <1>1, <1>2, StopFast
<1> DEFINE asks == \E e \in Event : /\ e.sig = "INIT"
                                    /\ queue' = PostX(Popped("system"), "subtitle", e, CONTROL_MARGIN)
           src == Current("system").src
<1>3. CASE /\ sysState' # "stopping" /\ ("shutdown" \in armed' => "shutdown" \in armed)
           /\ readyMask' \subseteq readyMask \cup {src} /\ readyMask \subseteq readyMask'
           /\ (src # "video" => src \in readyMask') /\ (sysState' = "run" => readyMask' = Comp)
           /\ \/ queue' = Popped("system") /\ subtitleInit' = subtitleInit
              \/ subtitleInit' /\ src = "video" /\ asks
  <2>1. /\ \A a \in AO \ {"subtitle", "system"} : queue'[a] = queue[a]
        /\ queue'["system"] = Tail(queue["system"])
        /\ ~subtitleInit' => queue'["subtitle"] = queue["subtitle"] /\ ~subtitleInit
    <3>1. Popped("system") \in [AO -> Seq(Event)] /\ Popped("system")["system"] = Tail(queue["system"])
          /\ \A a \in AO : a # "system" => Popped("system")[a] = queue[a]
      BY <1>1, PoppedWhere, Names
    <3>2. ASSUME NEW e \in Event, queue' = PostX(Popped("system"), "subtitle", e, CONTROL_MARGIN), NEW a \in AO \ {"subtitle"}
          PROVE  queue'[a] = Popped("system")[a]
      BY <3>1, <3>2 DEF PostX
    <3>3. \A a \in AO \ {"subtitle"} : queue'[a] = Popped("system")[a]
      BY <1>3, <3>2
    <3> QED BY <1>3, <3>1, <3>3, Names
  <2>2. Len(queue'["system"]) = Len(queue["system"]) - 1 /\ Len(queue["system"]) \in Nat
        /\ Count(queue'["system"], "INIT_TIMEOUT") = Count(queue["system"], "INIT_TIMEOUT")
    <3>1. Count(Popped("system")["system"], "INIT_TIMEOUT")
            = Count(queue["system"], "INIT_TIMEOUT") - (IF Current("system").sig = "INIT_TIMEOUT" THEN 1 ELSE 0)
      BY <1>1, CountPopped, Names
    <3>2. Len(Popped("system")["system"]) = Len(queue["system"]) - 1
          /\ Popped("system")["system"] = Tail(queue["system"])
      BY <1>1, PoppedWhere, Names
    <3>3. Count(queue["system"], "INIT_TIMEOUT") \in Nat
      BY <1>1, CountType, Names
    <3>4. queue'["system"] = Popped("system")["system"] /\ Current("system").sig # "INIT_TIMEOUT"
      BY <1>1, <2>1, <3>2
    <3>5. Count(queue'["system"], "INIT_TIMEOUT") = Count(queue["system"], "INIT_TIMEOUT")
      BY <3>1, <3>3, <3>4
    <3>6. Len(queue["system"]) \in Nat
      BY <1>1, Names
    <3> QED BY <3>2, <3>4, <3>5, <3>6
  <2>3. Backlogs' /\ PolledRoom'
    <3>1. \A c \in Polled : queue'[c] = queue[c]
      BY <2>1, Names
    <3>2. (sysState' = "stopping" <=> sysState = "stopping") /\ Backlogs /\ PolledRoom
      BY <1>1, <1>3 DEF FInv
    <3> QED BY <2>2, <3>1, <3>2 DEF Backlogs, PolledRoom
  <2>4. SystemRoom'
    <3>1. "shutdown" \notin armed'
      BY <1>1, <1>3 DEF FInv, SystemRoom
    <3>2. /\ Waiting <= MaxAnnounced
          /\ Len(queue["system"]) + Credit <= Count(queue["system"], "INIT_TIMEOUT") + Waiting + 5
      BY <1>1 DEF FInv, SystemRoom
    <3>3. /\ queue["system"] \in Seq(Event) /\ Head(queue["system"]) \in Event
          /\ (Head(queue["system"]) \in Announcement <=> src = "video")
      BY <1>1, Names, PoppedWhere DEF Current, Announcement
    <3>4. Waiting' = Waiting - (IF src = "video" THEN 1 ELSE 0)
      <4>1. Number(Tail(queue["system"]), Announcement)
              = Number(queue["system"], Announcement)
                  - (IF Head(queue["system"]) \in Announcement THEN 1 ELSE 0)
        BY <1>1, <3>3, NumberTail
      <4> QED BY <2>1, <3>3, <4>1 DEF Waiting
    <3>5. src = "video" => "usb" \in readyMask /\ "stt" \in readyMask
      <4>1. \A c \in Threaded : Ahead(queue["system"], readyMask, c)
        BY <1>1 DEF FInv, WorkersFirst, WorkerFirst
      <4>2. src = "video" => \A c \in Threaded : c \in readyMask
        BY <1>1, <3>3, <4>1, AheadHead
      <4> QED BY <4>2 DEF Threaded
    <3>6. Credit' <= Credit + (IF src = "video" THEN 0 ELSE 1)
      <4>1. UsbCredit' = UsbCredit /\ SttCredit' = SttCredit /\ VideoCredit' = VideoCredit
            /\ SignalCredit' = SignalCredit
        BY <1>1 DEF UsbCredit, SttCredit, VideoCredit, SignalCredit
      <4>2. SubtitleCredit' <= SubtitleCredit + (IF src = "video" THEN 0 ELSE 1)
        <5>1. CASE src = "video"
          BY <1>1, <1>3, <3>5, <5>1 DEF SubtitleCredit, WorkerReady
        <5>2. CASE src # "video"
          <6>1. subtitleInit' = subtitleInit
            BY <1>3, <5>2
          <6>2. "usb" \in readyMask' => "usb" \in readyMask \/ src = "usb"
            BY <1>3
          <6>3. "stt" \in readyMask' => "stt" \in readyMask \/ src = "stt"
            BY <1>3
          <6>4. ao' = ao
            BY <1>1
          <6> HIDE DEF src
          <6> QED BY <5>2, <6>1, <6>2, <6>3, <6>4 DEF SubtitleCredit, WorkerReady
        <5> QED BY <5>1, <5>2
      <4>3. /\ SubtitleCredit \in Int /\ SubtitleCredit' \in Int /\ UsbCredit \in Int /\ SttCredit \in Int
            /\ VideoCredit \in Int /\ SignalCredit \in Int
        BY DEF SubtitleCredit, WorkerReady, UsbCredit, SttCredit, VideoCredit, SignalCredit
      <4> HIDE DEF src, SubtitleCredit, UsbCredit, SttCredit, VideoCredit, SignalCredit
      <4>4. (IF src = "video" THEN 0 ELSE 1) \in Int
        OBVIOUS
      <4>5. SubtitleCredit' + UsbCredit + SttCredit + VideoCredit + SignalCredit
              <= SubtitleCredit + UsbCredit + SttCredit + VideoCredit + SignalCredit
                  + (IF src = "video" THEN 0 ELSE 1)
        BY <4>2, <4>3, <4>4, SumGrows, Zenon
      <4> QED BY <4>1, <4>5, Zenon DEF Credit
    <3>7. /\ Credit \in Nat /\ Credit' \in Nat /\ Waiting \in Nat /\ MaxAnnounced \in Nat
          /\ Count(queue["system"], "INIT_TIMEOUT") \in Nat
      BY <1>1, <3>3, CreditType, WaitingType, CountType, BoundsAssumption
    <3> DEFINE k == Len(queue'["system"])
               l == Len(queue["system"])
               n == Count(queue["system"], "INIT_TIMEOUT")
               v == IF src = "video" THEN 1 ELSE 0
    <3>8. /\ k = l - 1 /\ l \in Nat /\ n \in Nat /\ l + Credit <= n + Waiting + 5
          /\ Waiting' = Waiting - v /\ Credit' <= Credit + (1 - v) /\ v \in {0, 1}
      BY <2>2, <3>2, <3>4, <3>6, <3>7
    <3> HIDE DEF k, l, n, v
    <3>9. Waiting' <= MaxAnnounced /\ k + Credit' <= n + Waiting' + 5
      <4>1. Waiting' <= MaxAnnounced /\ l - 1 + Credit' <= n + Waiting' + 5
        BY <3>2, <3>7, <3>8, AccountServed, Zenon
      <4> QED BY <3>8, <4>1, Zenon
    <3> QED BY <1>3, <2>2, <3>1, <3>9 DEF SystemRoom, k, n
  <2>5. Reported'
    <3>1. ASSUME NEW d \in Comp
          PROVE  /\ ao[d] \in {"idle", "up", "error"}
                 /\ ao[d] = "error" => Told(queue'["system"], "ERROR", d)
                 /\ d \in readyMask' \/ Told(queue'["system"], "READY", d) => ao[d] # "idle"
      <4>1. /\ ao[d] \in {"idle", "up", "error"}
            /\ ao[d] = "error" => Told(queue["system"], "ERROR", d)
            /\ d \in readyMask \/ Told(queue["system"], "READY", d) => ao[d] # "idle"
        BY <1>1 DEF FInv, Reported
      <4>2. queue["system"] \in Seq(Event) /\ Head(queue["system"]).sig = "READY" /\ Head(queue["system"]).src = src
        BY <1>1, Names DEF Current
      <4>3. Told(queue["system"], "ERROR", d) => Told(queue'["system"], "ERROR", d)
        <5>1. Told(queue["system"], "ERROR", d) <=>
                (Head(queue["system"]).sig = "ERROR" /\ Head(queue["system"]).src = d)
                  \/ Told(Tail(queue["system"]), "ERROR", d)
          BY <1>1, <4>2, ToldTail
        <5> QED BY <2>1, <4>2, <5>1
      <4>4. Told(queue["system"], "READY", d) <=> d = src \/ Told(queue'["system"], "READY", d)
        <5>1. Told(queue["system"], "READY", d) <=>
                (Head(queue["system"]).sig = "READY" /\ Head(queue["system"]).src = d)
                  \/ Told(Tail(queue["system"]), "READY", d)
          BY <1>1, <4>2, ToldTail
        <5> QED BY <2>1, <4>2, <5>1
      <4> HIDE DEF src
      <4> QED BY <1>3, <4>1, <4>3, <4>4
    <3> QED BY <1>1, <1>3, <3>1 DEF Reported
  <2>6. SubtitleAsked'
    BY <1>1, <1>3, <2>1 DEF FInv, SubtitleAsked
  <2>7. proc' # "asserted" /\ StopNext'
    BY <1>1, <1>3 DEF FInv, StopNext
  <2>8. WorkersFirst'
    <3> SUFFICES ASSUME NEW d \in Threaded PROVE WorkerFirst(d)'
      BY DEF WorkersFirst
    <3>1. WorkerFirst(d) /\ d \in AO /\ d # "video" /\ queue'[d] = queue[d] /\ ao' = ao
      BY <1>1, <2>1, Names DEF FInv, WorkersFirst, Threaded
    <3>2. queue["system"] \in Seq(Event) /\ Head(queue["system"]).src = src
      BY <1>1, Names DEF Current
    <3>3. src = d => d \in readyMask'
      BY <1>3, <3>1
    <3>4. readyMask \subseteq readyMask'
      BY <1>3
    <3> HIDE DEF src
    <3>5. Ahead(queue'["system"], readyMask', d)
      <4>1. Ahead(Tail(queue["system"]), readyMask', d)
        BY <1>1, <3>1, <3>2, <3>3, <3>4, AheadTail DEF WorkerFirst, Answer
      <4> QED BY <2>1, <4>1
    <3>6. ao[d] = "up" => d \in readyMask' \/ Told(queue'["system"], "READY", d)
      <4>1. Told(queue["system"], "READY", d) =>
              Head(queue["system"]).src = d \/ Told(Tail(queue["system"]), "READY", d)
        BY <1>1, <3>2, ToldTail
      <4> QED BY <2>1, <3>1, <3>2, <3>3, <3>4, <4>1 DEF WorkerFirst
    <3> QED BY <3>1, <3>5, <3>6 DEF WorkerFirst
  <2> QED BY <2>3, <2>4, <2>5, <2>6, <2>7, <2>8 DEF FInv
<1> HIDE DEF asks, src
<1>4. \/ EnterStopping(Popped("system"))
      \/ /\ sysState' # "stopping" /\ ("shutdown" \in armed' => "shutdown" \in armed)
         /\ readyMask' \subseteq readyMask \cup {src} /\ readyMask \subseteq readyMask'
         /\ (src # "video" => src \in readyMask') /\ (sysState' = "run" => readyMask' = Comp)
         /\ \/ queue' = Popped("system") /\ subtitleInit' = subtitleInit
            \/ subtitleInit' /\ src = "video" /\ asks
  BY ReadyCases DEF asks, src
<1> QED BY <1>2, <1>3, <1>4

(***************************************************************************)
(* SystemAO drops an event, or handles one that only the stop awaits.      *)
(***************************************************************************)
LEMMA DropFast ==
  ASSUME IInv, FInv, queue["system"] # <<>>, queue' = Popped("system"),
         sysState # "stopping" => /\ Current("system").sig # "ERROR"
                                  /\ Current("system").sig = "READY" => readyMask = Comp,
         UNCHANGED <<sysState, readyMask, subtitleInit, ao, sigPosted>>,
         proc' # "asserted", "shutdown" \in armed' => "shutdown" \in armed
  PROVE  FInv'
<1>1. queue \in [AO -> Seq(Event)]
  BY TypesFollow DEF TypeOK
<1>2. /\ queue'["system"] = Tail(queue["system"]) /\ Len(queue'["system"]) = Len(queue["system"]) - 1
      /\ \A a \in Comp : queue'[a] = queue[a]
  <2>1. /\ Popped("system")["system"] = Tail(queue["system"])
        /\ Len(Popped("system")["system"]) = Len(queue["system"]) - 1
        /\ \A a \in AO : a # "system" => Popped("system")[a] = queue[a]
    BY <1>1, PoppedWhere, Names
  <2> QED BY <2>1, Names
<1> DEFINE n == Count(queue["system"], "INIT_TIMEOUT")
           m == Count(queue'["system"], "INIT_TIMEOUT")
           l == Len(queue["system"])
           k == Len(queue'["system"])
<1>3. (m = n \/ m = n - 1) /\ n \in Int /\ m \in Int
  <2>1. m = n - (IF Current("system").sig = "INIT_TIMEOUT" THEN 1 ELSE 0)
    BY <1>1, CountPopped, Names
  <2>2. n \in Nat
    BY <1>1, CountType, Names
  <2> HIDE DEF n, m
  <2> QED BY <2>1, <2>2
<1>4. k = l - 1 /\ l \in Int /\ k \in Int
  BY <1>1, <1>2, Names
<1>5. Backlogs' /\ PolledRoom'
  <2>1. n <= TickBacklog /\ TickBacklog \in Int
    BY BoundsAssumption DEF FInv, Backlogs
  <2>2. m <= TickBacklog
    <3> HIDE DEF n, m
    <3> QED BY <1>3, <2>1
  <2> QED BY <1>2, <2>2, Names DEF FInv, Backlogs, PolledRoom
<1>6. SystemRoom'
  <2>1. /\ Credit' = Credit /\ SignalCredit' = SignalCredit
        /\ Credit \in Int /\ SignalCredit \in Int
        /\ MaxAnnounced \in Int /\ QueueLen["system"] \in Int /\ Waiting \in Nat
    <3>1. Credit' = Credit /\ SignalCredit' = SignalCredit
      BY DEF Credit, SubtitleCredit, WorkerReady, UsbCredit, SttCredit, VideoCredit, SignalCredit
    <3>2. Credit \in Int /\ SignalCredit \in Int
      BY CreditType
    <3> QED BY <1>1, <3>1, <3>2, WaitingType, BoundsAssumption, QueueLenAssumption, Names
  <2>2. sysState # "stopping" => Waiting <= MaxAnnounced /\ l + Credit <= n + Waiting + 5
    BY DEF FInv, SystemRoom
  <2>3. "shutdown" \in armed => sysState = "stopping" /\ l + SignalCredit <= QueueLen["system"]
    BY DEF FInv, SystemRoom
  <2>4. /\ Waiting' = Waiting - (IF Current("system") \in Announcement THEN 1 ELSE 0)
        /\ m = n - (IF Current("system").sig = "INIT_TIMEOUT" THEN 1 ELSE 0)
        /\ ~(Current("system") \in Announcement /\ Current("system").sig = "INIT_TIMEOUT")
    <3>1. Number(Popped("system")["system"], Announcement)
            = Number(queue["system"], Announcement)
                - (IF Current("system") \in Announcement THEN 1 ELSE 0)
      BY <1>1, NumberPopped, Names
    <3>2. m = n - (IF Current("system").sig = "INIT_TIMEOUT" THEN 1 ELSE 0)
      BY <1>1, CountPopped, Names
    <3>3. ~(Current("system") \in Announcement /\ Current("system").sig = "INIT_TIMEOUT")
      BY DEF Announcement
    <3> QED BY <3>1, <3>2, <3>3 DEF Waiting
  <2>5. sysState' # "stopping" => Waiting' <= MaxAnnounced /\ k + Credit' <= m + Waiting' + 5
    <3> DEFINE an == IF Current("system") \in Announcement THEN 1 ELSE 0
               it == IF Current("system").sig = "INIT_TIMEOUT" THEN 1 ELSE 0
    <3>1. Waiting' = Waiting - an /\ m = n - it /\ an \in Nat /\ it \in Nat /\ an + it <= 1
      BY <2>4
    <3> HIDE DEF n, m, l, k, an, it
    <3> QED BY <1>3, <1>4, <2>1, <2>2, <3>1
  <2>6. "shutdown" \in armed' => sysState' = "stopping" /\ k + SignalCredit' <= QueueLen["system"]
    <3> HIDE DEF n, m, l, k
    <3> QED BY <1>4, <2>1, <2>3
  <2> QED BY <2>5, <2>6 DEF SystemRoom
<1>7. Reported'
  <2> SUFFICES ASSUME sysState # "stopping"
               PROVE  Reported'
    BY DEF Reported
  <2>1. ASSUME NEW d \in Comp
        PROVE  /\ ao[d] \in {"idle", "up", "error"}
               /\ ao[d] = "error" => Told(queue'["system"], "ERROR", d)
               /\ d \in readyMask \/ Told(queue'["system"], "READY", d) => ao[d] # "idle"
    <3>1. /\ ao[d] \in {"idle", "up", "error"}
          /\ ao[d] = "error" => Told(queue["system"], "ERROR", d)
          /\ d \in readyMask \/ Told(queue["system"], "READY", d) => ao[d] # "idle"
      BY DEF FInv, Reported
    <3>2. queue["system"] \in Seq(Event) /\ Head(queue["system"]).sig # "ERROR"
      BY <1>1, Names DEF Current
    <3>3. Told(queue["system"], "ERROR", d) => Told(Tail(queue["system"]), "ERROR", d)
      BY <3>2, ToldTail
    <3>4. Told(Tail(queue["system"]), "READY", d) => Told(queue["system"], "READY", d)
      BY <3>2, ToldTail
    <3> QED BY <1>2, <3>1, <3>3, <3>4
  <2>2. sysState = "run" => readyMask = Comp
    BY DEF FInv, Reported
  <2> QED BY <2>1, <2>2 DEF Reported
<1>8. SubtitleAsked' /\ StopNext'
  BY <1>2, Names DEF FInv, SubtitleAsked, StopNext
<1>9. WorkersFirst'
  <2> SUFFICES ASSUME sysState # "stopping", NEW d \in Threaded PROVE WorkerFirst(d)'
    BY DEF WorkersFirst
  <2>1. WorkerFirst(d) /\ d \in Comp /\ queue'[d] = queue[d]
    BY <1>2, Names DEF FInv, WorkersFirst
  <2>2. /\ queue["system"] \in Seq(Event)
        /\ Head(queue["system"]).sig # "ERROR"
        /\ Head(queue["system"]).sig = "READY" => d \in readyMask
    BY <1>1, <2>1, Names DEF Current
  <2>3. Ahead(Tail(queue["system"]), readyMask, d)
    BY <2>1, <2>2, AheadTail DEF WorkerFirst, Answer
  <2>4. ao[d] = "up" => d \in readyMask \/ Told(Tail(queue["system"]), "READY", d)
    <3>1. Told(queue["system"], "READY", d) =>
            Head(queue["system"]).sig = "READY" \/ Told(Tail(queue["system"]), "READY", d)
      BY <2>2, ToldTail
    <3> QED BY <2>1, <2>2, <3>1 DEF WorkerFirst
  <2> QED BY <1>2, <2>1, <2>3, <2>4 DEF WorkerFirst
<1> QED BY <1>5, <1>6, <1>7, <1>8, <1>9 DEF FInv

LEMMA SystemFast ==
  ASSUME IInv, FInv, RoomyQueues, DispatchSystem PROVE FInv'
<1>1. CASE SystemReady
  BY <1>1, ReadyFast
<1>2. CASE SystemFailFast
  BY <1>2, StopFast DEF SystemFailFast, videoVars, sigVars
<1>3. CASE SystemStopped
  <2>1. /\ queue["system"] # <<>> /\ queue' = Popped("system") /\ sysState = "stopping"
        /\ UNCHANGED <<sysState, readyMask, subtitleInit, ao, sigPosted>>
        /\ proc' # "asserted" /\ ("shutdown" \in armed' => "shutdown" \in armed)
    BY <1>3 DEF SystemStopped, Dispatch, Turn, Consume, videoVars, sigVars
  <2> QED BY <2>1, DropFast
<1>4. CASE SystemTimeout
  <2>1. /\ queue["system"] # <<>> /\ queue' = Popped("system") /\ sysState = "stopping"
        /\ UNCHANGED <<sysState, readyMask, subtitleInit, ao, armed, sigPosted>>
        /\ proc' # "asserted"
    BY <1>4 DEF SystemTimeout, Dispatch, Turn, Consume, videoVars, sigVars, aoVars
  <2> QED BY <2>1, DropFast
<1> QED BY <1>1, <1>2, <1>3, <1>4 DEF DispatchSystem

LEMMA IgnoreFast ==
  ASSUME IInv, WInv, FInv, RoomyQueues, NEW a \in AO, Ignore(a) PROVE FInv'
<1>1. /\ Turn(a) /\ Current(a).sig \notin Accepts(a) /\ queue' = Popped(a)
      /\ UNCHANGED <<proc, sysState, readyMask, subtitleInit, ao, armed, sigPosted>>
  BY DEF Ignore, Consume, sysVars, aoVars, videoVars, sigVars
<1>2. CASE a = "system"
  <2>1. sysState # "stopping" => /\ Current("system").sig # "ERROR"
                                 /\ Current("system").sig = "READY" => readyMask = Comp
    <3>1. sysState = "run" => readyMask = Comp
      BY DEF FInv, Reported
    <3> QED BY <1>1, <1>2, <3>1 DEF Accepts, IInv, OtherTypes
  <2> QED BY <1>1, <1>2, <2>1, DropFast DEF Turn, FInv
<1>3. CASE a \in Comp
  <2>1. /\ ao[a] = "up" => Current(a).sig # "STOP"
        /\ ao[a] = "idle" => Current(a).sig # "INIT"
    BY <1>1, <1>3, Names DEF Accepts
  <2>2. Sends(a)
    BY <1>1, <1>3, <2>1 DEF Sends, Keeps
  <2> QED BY <1>3, <2>2, SendsBefore, SendsStopping
<1> QED BY <1>2, <1>3, Names

-----------------------------------------------------------------------------
(***************************************************************************)
(* A time event finds room, so QP does not assert.                         *)
(***************************************************************************)
LEMMA TickArrives ==
  ASSUME queue \in [AO -> Seq(Event)], NEW a \in AO, NEW e \in Event,
         Len(queue[a]) <= QueueLen[a], queue' = PostX(queue, a, e, 0)
  PROVE  /\ \A b \in AO : b # a => queue'[b] = queue[b]
         /\ queue'[a] = Append(queue[a], e)
         /\ Len(queue'[a]) = Len(queue[a]) + 1
<1>1. Len(queue[a]) \in Nat /\ QueueLen[a] \in Nat /\ queue[a] \in Seq(Event)
  BY QueueLenAssumption
<1>2. Free(queue, a) > 0
  BY <1>1 DEF Free
<1>3. Len(Append(queue[a], e)) = Len(queue[a]) + 1
  BY <1>1
<1> QED BY <1>2, <1>3 DEF PostX

LEMMA TimePosts ==
  ASSUME queue \in [AO -> Seq(Event)], NEW a \in AO, NEW e \in Event,
         Len(queue[a]) <= QueueLen[a], TimeEventPost(a, e)
  PROVE  queue' = PostX(queue, a, e, 0) /\ proc' = proc
<1>1. Len(queue[a]) \in Nat /\ QueueLen[a] \in Nat
  BY QueueLenAssumption
<1>2. Free(queue, a) > 0
  BY <1>1 DEF Free
<1> QED BY <1>2 DEF TimeEventPost, PostX

LEMMA PollFast ==
  ASSUME IInv, FInv, RoomyQueues, NEW c \in Polled, TickPoll(c) PROVE FInv'
<1>1. /\ UNCHANGED <<sysState, readyMask, subtitleInit, ao, armed, sigPosted>>
      /\ Count(queue[c], "POLL") < TickBacklog /\ TimeEventPost(c, Evt("POLL", c))
  <2>1. Backlog(c, "POLL") = Count(queue[c], "POLL")
    BY TypesFollow, Counted, Names DEF TypeOK
  <2> QED BY <2>1 DEF TickPoll, sysVars, aoVars, videoVars, sigVars
<1>2. queue \in [AO -> Seq(Event)] /\ c \in AO /\ c \in Comp /\ c # "system" /\ c # "subtitle"
      /\ Evt("POLL", c) \in Event /\ Evt("POLL", c).sig = "POLL"
  BY TypesFollow, Names, EventTypes DEF TypeOK, Signal
<1> DEFINE n == Count(queue[c], "POLL")
           l == Len(queue[c])
           r == IF sysState = "stopping" THEN 0 ELSE 1
<1>3. n \in Nat /\ l \in Nat /\ r \in {0, 1} /\ TickBacklog \in Nat /\ QueueLen[c] \in Nat
      /\ l + r <= n + 2 /\ n < TickBacklog /\ QueueLen[c] > TickBacklog
  <2>1. n \in Nat /\ l \in Nat
    BY <1>2, CountType
  <2>2. l + r <= n + 2
    BY DEF FInv, PolledRoom
  <2>3. QueueLen[c] > TickBacklog
    BY DEF RoomyQueues
  <2> QED BY <1>1, <1>2, <2>1, <2>2, <2>3, BoundsAssumption, QueueLenAssumption
<1>4. l <= QueueLen[c] /\ n + 1 <= TickBacklog /\ (l + 1) + r <= (n + 1) + 2
  <2> HIDE DEF n, l, r
  <2> QED BY <1>3
<1>5. queue' = PostX(queue, c, Evt("POLL", c), 0) /\ proc' = proc
  BY <1>1, <1>2, <1>4, TimePosts
<1>6. /\ \A b \in AO : b # c => queue'[b] = queue[b]
      /\ Len(queue'[c]) = l + 1
  BY <1>2, <1>4, <1>5, TickArrives
<1>7. Count(queue'[c], "POLL") = n + 1
  <2>1. queue'[c] = Append(queue[c], Evt("POLL", c))
    BY <1>2, <1>4, <1>5, TickArrives
  <2>2. Count(Append(queue[c], Evt("POLL", c)), "POLL")
          = Count(queue[c], "POLL") + (IF Evt("POLL", c).sig = "POLL" THEN 1 ELSE 0)
    BY <1>2, CountAppend
  <2> QED BY <1>2, <2>1, <2>2
<1>8. queue'["system"] = queue["system"] /\ queue'["subtitle"] = queue["subtitle"]
  BY <1>2, <1>6, Names
<1>9. Backlogs' /\ PolledRoom'
  <2>1. \A b \in Polled : b # c => queue'[b] = queue[b]
    BY <1>6, Names
  <2>2. Count(queue'[c], "POLL") <= TickBacklog
    BY <1>4, <1>7
  <2>3. Len(queue'[c]) + (IF sysState' = "stopping" THEN 0 ELSE 1) <= Count(queue'[c], "POLL") + 2
    BY <1>1, <1>4, <1>6, <1>7
  <2> HIDE DEF n, l, r
  <2>4. Backlogs'
    BY <1>8, <2>1, <2>2 DEF FInv, Backlogs
  <2>5. PolledRoom'
    BY <1>1, <2>1, <2>3 DEF FInv, PolledRoom
  <2> QED BY <2>4, <2>5
<1> HIDE DEF n, l, r
<1>10. StopNext'
  <2> SUFFICES ASSUME sysState = "stopping", NEW d \in Comp, ao[d] = "up"
               PROVE  queue'[d] # <<>> /\ Head(queue'[d]).sig = "STOP"
    BY <1>1 DEF StopNext
  <2>1. queue[d] # <<>> /\ Head(queue[d]).sig = "STOP" /\ d \in AO
    BY Names DEF FInv, StopNext
  <2>2. queue'[d] # <<>> /\ Head(queue'[d]) = Head(queue[d])
    BY <1>2, <1>5, <2>1, HeadStays
  <2> QED BY <2>1, <2>2
<1>11. SystemRoom' /\ Reported' /\ SubtitleAsked'
  BY <1>1, <1>8 DEF FInv, SystemRoom, Waiting, Reported, SubtitleAsked, Credit, SubtitleCredit,
                    WorkerReady, UsbCredit, SttCredit, VideoCredit, SignalCredit
<1>12. WorkersFirst'
  <2> SUFFICES ASSUME sysState # "stopping", NEW d \in Threaded PROVE WorkerFirst(d)'
    BY <1>1 DEF WorkersFirst
  <2>1. WorkerFirst(d) /\ d \in AO
    BY Names DEF FInv, WorkersFirst
  <2>2. queue[d] # <<>> => queue'[d] # <<>> /\ Head(queue'[d]) = Head(queue[d])
    BY <1>2, <1>5, <2>1, HeadStays
  <2> QED BY <1>1, <1>8, <2>1, <2>2 DEF WorkerFirst
<1> QED BY <1>1, <1>5, <1>9, <1>10, <1>11, <1>12 DEF FInv

(***************************************************************************)
(* The time events and the signal that SystemAO gets.                      *)
(***************************************************************************)
LEMMA SystemTickFast ==
  ASSUME IInv, FInv, RoomyQueues, NEW e \in Event, e.sig \notin {"ERROR", "READY"},
         queue' = PostX(queue, "system", e, 0), Len(queue["system"]) <= QueueLen["system"],
         UNCHANGED <<sysState, readyMask, subtitleInit, ao>>,
         proc' # "asserted", "shutdown" \in armed' => "shutdown" \in armed,
         \/ /\ e.sig = "INIT_TIMEOUT" /\ Count(queue["system"], "INIT_TIMEOUT") < TickBacklog
            /\ sysState # "stopping" /\ sigPosted' = sigPosted
         \/ e.sig = "SHUTDOWN_TIMEOUT" /\ "shutdown" \in armed /\ "shutdown" \notin armed'
            /\ sigPosted' = sigPosted
         \/ e.sig = "SHUTDOWN" /\ ~sigPosted /\ sigPosted'
  PROVE  FInv'
<1>1. queue \in [AO -> Seq(Event)] /\ queue["system"] \in Seq(Event)
  BY TypesFollow, Names DEF TypeOK
<1> DEFINE n == Count(queue["system"], "INIT_TIMEOUT")
           m == Count(queue'["system"], "INIT_TIMEOUT")
           l == Len(queue["system"])
           k == Len(queue'["system"])
<1>2. /\ \A c \in Comp : queue'[c] = queue[c]
      /\ queue'["system"] = Append(queue["system"], e)
      /\ k = l + 1
  <2>1. /\ \A a \in AO : a # "system" => queue'[a] = queue[a]
        /\ queue'["system"] = Append(queue["system"], e)
        /\ k = l + 1
    BY <1>1, TickArrives, Names
  <2> QED BY <2>1, Names
<1>3. m = n + (IF e.sig = "INIT_TIMEOUT" THEN 1 ELSE 0) /\ n \in Nat /\ l \in Nat /\ m \in Int
  <2>1. Count(Append(queue["system"], e), "INIT_TIMEOUT") = n + (IF e.sig = "INIT_TIMEOUT" THEN 1 ELSE 0)
    BY <1>1, CountAppend
  <2>2. n \in Nat /\ l \in Nat
    BY <1>1, CountType
  <2>3. m = n + (IF e.sig = "INIT_TIMEOUT" THEN 1 ELSE 0)
    BY <1>2, <2>1
  <2> HIDE DEF n, m, l
  <2> QED BY <2>2, <2>3
<1>4. n <= TickBacklog /\ TickBacklog \in Nat
  BY BoundsAssumption DEF FInv, Backlogs
<1>5. Backlogs' /\ PolledRoom'
  <2>1. m <= TickBacklog
    <3> HIDE DEF n, m
    <3>1. n < TickBacklog \/ e.sig # "INIT_TIMEOUT"
      BY DEF n
    <3> QED BY <1>3, <1>4, <3>1
  <2> QED BY <1>2, <2>1, Names DEF FInv, Backlogs, PolledRoom
<1>6. SystemRoom'
  <2>1. /\ Credit \in Int /\ SignalCredit \in {0, 1} /\ MaxAnnounced \in Int
        /\ QueueLen["system"] \in Int /\ Waiting \in Int
    BY <1>1, CreditType, WaitingType, BoundsAssumption, QueueLenAssumption, Names DEF SignalCredit
  <2>2. sysState # "stopping" => Waiting <= MaxAnnounced /\ l + Credit <= n + Waiting + 5
    BY DEF FInv, SystemRoom
  <2>7. Waiting' = Waiting
    <3>1. Number(Append(queue["system"], e), Announcement)
            = Number(queue["system"], Announcement) + (IF e \in Announcement THEN 1 ELSE 0)
      BY <1>1, NumberAppend
    <3>2. e \notin Announcement
      BY DEF Announcement
    <3>3. Number(queue["system"], Announcement) \in Nat
      BY <1>1, NumberType, Zenon
    <3>4. Number(queue'["system"], Announcement) = Number(queue["system"], Announcement)
      <4>1. queue'["system"] = Append(queue["system"], e)
        BY <1>2, Zenon
      <4>2. Number(Append(queue["system"], e), Announcement)
              = Number(queue["system"], Announcement) + 0
        BY <3>1, <3>2, Zenon
      <4>3. \A a \in Nat : a + 0 = a
        OBVIOUS
      <4>4. Number(Append(queue["system"], e), Announcement)
              = Number(queue["system"], Announcement)
        BY <3>3, <4>2, <4>3, Zenon
      <4> QED BY <4>1, <4>4, Zenon
    <3> QED BY <3>4, Zenon DEF Waiting
  <2>3. "shutdown" \in armed => sysState = "stopping" /\ l + SignalCredit <= QueueLen["system"]
    BY DEF FInv, SystemRoom
  <2>4. \/ e.sig = "INIT_TIMEOUT" /\ sysState # "stopping" /\ m = n + 1
           /\ Credit' = Credit /\ SignalCredit' = SignalCredit
        \/ "shutdown" \in armed /\ "shutdown" \notin armed' /\ sysState = "stopping"
        \/ m = n /\ Credit' = Credit - 1 /\ SignalCredit' = SignalCredit - 1
    <3>1. SubtitleCredit' = SubtitleCredit /\ UsbCredit' = UsbCredit /\ SttCredit' = SttCredit
          /\ VideoCredit' = VideoCredit
      BY DEF SubtitleCredit, WorkerReady, UsbCredit, SttCredit, VideoCredit
    <3>2. sigPosted' = sigPosted => Credit' = Credit /\ SignalCredit' = SignalCredit
      BY <3>1 DEF Credit, SignalCredit
    <3>3. ~sigPosted /\ sigPosted' => Credit' = Credit - 1 /\ SignalCredit' = SignalCredit - 1
      <4> SUFFICES ASSUME ~sigPosted, sigPosted'
                   PROVE  Credit' = Credit - 1 /\ SignalCredit' = SignalCredit - 1
        OBVIOUS
      <4>1. SignalCredit' = 0 /\ SignalCredit = 1
        BY DEF SignalCredit
      <4>2. SubtitleCredit \in Int /\ UsbCredit \in Int /\ SttCredit \in Int /\ VideoCredit \in Int
        BY DEF SubtitleCredit, WorkerReady, UsbCredit, SttCredit, VideoCredit
      <4> QED BY <3>1, <4>1, <4>2 DEF Credit
    <3>4. e.sig = "INIT_TIMEOUT" => m = n + 1
      BY <1>3
    <3>5. e.sig # "INIT_TIMEOUT" => m = n
      BY <1>3
    <3> HIDE DEF n, m
    <3> QED BY <2>3, <3>2, <3>3, <3>4, <3>5 DEF n
  <2>5. sysState' # "stopping" => Waiting' <= MaxAnnounced /\ k + Credit' <= m + Waiting' + 5
    <3>1. n \in Int /\ l \in Int
      BY <1>3
    <3> HIDE DEF n, m, l, k
    <3> QED BY <1>2, <2>1, <2>2, <2>4, <2>7, <3>1
  <2>6. "shutdown" \in armed' => sysState' = "stopping" /\ k + SignalCredit' <= QueueLen["system"]
    <3>1. l \in Int
      BY <1>3
    <3> HIDE DEF n, m, l, k
    <3> QED BY <1>2, <2>1, <2>3, <2>4, <3>1
  <2> QED BY <2>5, <2>6 DEF SystemRoom
<1>7. Reported'
  <2>1. ASSUME NEW d \in Comp, sysState # "stopping"
        PROVE  /\ ao[d] \in {"idle", "up", "error"}
               /\ ao[d] = "error" => Told(queue'["system"], "ERROR", d)
               /\ d \in readyMask \/ Told(queue'["system"], "READY", d) => ao[d] # "idle"
    <3>1. /\ ao[d] \in {"idle", "up", "error"}
          /\ ao[d] = "error" => Told(queue["system"], "ERROR", d)
          /\ d \in readyMask \/ Told(queue["system"], "READY", d) => ao[d] # "idle"
      BY <2>1 DEF FInv, Reported
    <3>2. Told(Append(queue["system"], e), "ERROR", d) <=> Told(queue["system"], "ERROR", d)
      BY <1>1, ToldAppend
    <3>3. Told(Append(queue["system"], e), "READY", d) <=> Told(queue["system"], "READY", d)
      BY <1>1, ToldAppend
    <3> QED BY <1>2, <3>1, <3>2, <3>3
  <2>2. sysState = "run" => readyMask = Comp
    BY DEF FInv, Reported
  <2> QED BY <2>1, <2>2 DEF Reported
<1>8. SubtitleAsked' /\ StopNext'
  BY <1>2, Names DEF FInv, SubtitleAsked, StopNext
<1>9. WorkersFirst'
  <2> SUFFICES ASSUME sysState # "stopping", NEW d \in Threaded PROVE WorkerFirst(d)'
    BY DEF WorkersFirst
  <2>1. WorkerFirst(d) /\ queue'[d] = queue[d] /\ e \notin Announcement
    BY <1>2, Names DEF FInv, WorkersFirst, Announcement
  <2>2. Ahead(Append(queue["system"], e), readyMask, d)
    BY <1>1, <2>1, AheadAppend DEF WorkerFirst
  <2>3. Told(Append(queue["system"], e), "READY", d) <=> Told(queue["system"], "READY", d)
    BY <1>1, ToldAppend
  <2> QED BY <1>2, <2>1, <2>2, <2>3 DEF WorkerFirst
<1> QED BY <1>5, <1>6, <1>7, <1>8, <1>9 DEF FInv

LEMMA TickFast == ASSUME IInv, FInv, RoomyQueues, Tick PROVE FInv'
<1>1. /\ queue \in [AO -> Seq(Event)] /\ "system" \in AO /\ proc # "asserted"
      /\ sysState # "stopping" => Len(queue["system"]) <= QueueLen["system"]
      /\ "shutdown" \in armed => Len(queue["system"]) <= QueueLen["system"]
  <2>1. queue \in [AO -> Seq(Event)] /\ "system" \in AO /\ proc # "asserted"
    BY TypesFollow, Names DEF TypeOK, FInv
  <2>2. Len(queue["system"]) \in Nat /\ QueueLen["system"] \in Nat
    BY <2>1, QueueLenAssumption
  <2>3. sysState # "stopping" => Len(queue["system"]) <= QueueLen["system"]
    BY <2>2, RoomLeft, CreditType DEF FInv
  <2>4. "shutdown" \in armed => Len(queue["system"]) <= QueueLen["system"]
    <3>1. SignalCredit \in Nat
      BY DEF SignalCredit
    <3>2. "shutdown" \in armed => Len(queue["system"]) + SignalCredit <= QueueLen["system"]
      BY DEF FInv, SystemRoom
    <3> QED BY <2>2, <3>1, <3>2
  <2> QED BY <2>1, <2>3, <2>4
<1>2. {"INIT_TIMEOUT", "SHUTDOWN_TIMEOUT", "SHUTDOWN"} \subseteq Signal
  BY DEF Signal
<1>3. CASE TickInit
  <2> DEFINE e == Evt("INIT_TIMEOUT", "system")
  <2>1. /\ UNCHANGED <<sysState, readyMask, subtitleInit, ao, armed, sigPosted>>
        /\ Count(queue["system"], "INIT_TIMEOUT") < TickBacklog /\ TimeEventPost("system", e)
        /\ sysState # "stopping"
    <3>1. Backlog("system", "INIT_TIMEOUT") = Count(queue["system"], "INIT_TIMEOUT")
      BY <1>1, Counted
    <3> QED BY <1>3, <3>1 DEF TickInit, sysVars, aoVars, videoVars, sigVars, IInv, Ending
  <2>2. e \in Event /\ e.sig = "INIT_TIMEOUT"
    BY <1>1, <1>2, EventTypes
  <2> HIDE DEF e
  <2>3. queue' = PostX(queue, "system", e, 0) /\ proc' = proc
    BY <1>1, <2>1, <2>2, TimePosts
  <2> QED BY <1>1, <2>1, <2>2, <2>3, SystemTickFast
<1>4. CASE TickShutdown
  <2> DEFINE e == Evt("SHUTDOWN_TIMEOUT", "system")
  <2>1. /\ UNCHANGED <<sysState, readyMask, subtitleInit, ao, sigPosted>>
        /\ TimeEventPost("system", e) /\ "shutdown" \in armed /\ "shutdown" \notin armed'
    BY <1>4 DEF TickShutdown, sysVars, videoVars, sigVars
  <2>2. e \in Event /\ e.sig = "SHUTDOWN_TIMEOUT"
    BY <1>1, <1>2, EventTypes
  <2> HIDE DEF e
  <2>3. queue' = PostX(queue, "system", e, 0) /\ proc' = proc
    BY <1>1, <2>1, <2>2, TimePosts
  <2> QED BY <1>1, <2>1, <2>2, <2>3, SystemTickFast
<1>5. CASE TickSignal
  <2> DEFINE e == Evt("SHUTDOWN", "system")
  <2>1. /\ UNCHANGED <<proc, sysState, readyMask, subtitleInit, ao, armed>>
        /\ ~sigPosted /\ sigPosted' /\ queue' = PostX(queue, "system", e, 0)
    BY <1>5 DEF TickSignal, sysVars, aoVars, videoVars
  <2>2. e \in Event /\ e.sig = "SHUTDOWN"
    BY <1>1, <1>2, EventTypes
  <2> HIDE DEF e
  <2>3. CASE Len(queue["system"]) <= QueueLen["system"]
    BY <1>1, <2>1, <2>2, <2>3, SystemTickFast
  <2>4. CASE ~(Len(queue["system"]) <= QueueLen["system"])
    <3>1. sysState = "stopping" /\ "shutdown" \notin armed
      BY <1>1, <2>4
    <3>2. queue' = queue
      <4>1. Len(queue["system"]) \in Nat /\ QueueLen["system"] \in Nat
        BY <1>1, QueueLenAssumption
      <4>2. ~(Free(queue, "system") > 0)
        BY <2>4, <4>1 DEF Free
      <4> QED BY <2>1, <4>2 DEF PostX
    <3> QED BY <2>1, <3>1, <3>2
          DEF FInv, Backlogs, PolledRoom, SystemRoom, StopNext, Reported, SubtitleAsked,
              WorkersFirst
  <2> QED BY <2>3, <2>4
<1>6. CASE \E c \in Polled : TickPoll(c)
  BY <1>6, PollFast
<1> QED BY <1>3, <1>4, <1>5, <1>6 DEF Tick

LEMMA OthersFast ==
  ASSUME IInv, FInv,
         CaptureFails \/ SignalArrives \/ UNCHANGED vars \/ \E c \in Threaded : WorkerExits(c)
  PROVE  FInv'
<1>1. UNCHANGED <<queue, proc, sysState, readyMask, subtitleInit, ao, armed, sigPosted>>
  BY DEF CaptureFails, SignalArrives, WorkerExits, vars, sysVars, aoVars, videoVars, sigVars
<1> QED BY <1>1 DEF FInv, Backlogs, PolledRoom, SystemRoom, Waiting, StopNext, Reported, SubtitleAsked,
                    WorkersFirst, WorkerFirst, Credit, SubtitleCredit, WorkerReady, UsbCredit,
                    SttCredit, VideoCredit, SignalCredit

LEMMA FastInitially == Init => FInv
<1> SUFFICES ASSUME Init PROVE FInv
  OBVIOUS
<1> DEFINE ask(c) == Evt("INIT", c)
<1>1. \A c \in Comp : ask(c) \in Event /\ ask(c).sig = "INIT"
  BY EventTypes, Names DEF Signal
<1>2. /\ <<>> \in Seq(Event) /\ Len(<<>>) = 0 /\ \A sig : Count(<<>>, sig) = 0
      /\ Number(<<>>, Announcement) = 0
  <2>1. ASSUME NEW K PROVE Number(<<>>, K) = 0
    <3>1. Marks(<<>>, K) = {}
      BY DEF Marks
    <3> QED BY <3>1, FS_EmptySet, Zenon DEF Number
  <2>2. <<>> \in Seq(Event) /\ Len(<<>>) = 0
    OBVIOUS
  <2> QED BY <2>1, <2>2, Zenon DEF Count
<1> HIDE DEF ask
<1>3. ASSUME NEW c \in Polled
      PROVE  Len(queue[c]) = 1 /\ Count(queue[c], "POLL") = 0
  <2>1. queue[c] = <<ask(c)>> /\ c \in Comp
    BY Names DEF Init, ask
  <2>2. <<ask(c)>> = Append(<<>>, ask(c)) /\ Len(<<ask(c)>>) = 1
    OBVIOUS
  <2>3. Count(Append(<<>>, ask(c)), "POLL")
          = Count(<<>>, "POLL") + (IF ask(c).sig = "POLL" THEN 1 ELSE 0)
    BY <1>1, <1>2, <2>1, CountAppend
  <2> QED BY <1>1, <1>2, <2>1, <2>2, <2>3
<1>4. queue["system"] = <<>> /\ queue["subtitle"] = <<>>
  BY Names DEF Init
<1>5. Backlogs
  BY <1>2, <1>3, <1>4, BoundsAssumption DEF Backlogs
<1>6. PolledRoom
  <2>1. 1 + 1 <= 0 + 2
    OBVIOUS
  <2> QED BY <1>3, <2>1 DEF PolledRoom, Init
<1>7. SystemRoom
  <2>1. Credit <= 5 /\ Credit \in Nat
    BY Names
       DEF Init, Credit, SubtitleCredit, WorkerReady, UsbCredit, SttCredit, VideoCredit, SignalCredit, Comp
  <2>2. Len(queue["system"]) = 0 /\ Count(queue["system"], "INIT_TIMEOUT") = 0
    BY <1>2, <1>4
  <2>3. Waiting = 0 /\ 0 <= MaxAnnounced /\ 0 + Credit <= 0 + 0 + 5
    BY <1>2, <1>4, <2>1, BoundsAssumption DEF Waiting
  <2>4. "shutdown" \notin armed
    BY DEF Init
  <2> QED BY <2>2, <2>3, <2>4 DEF SystemRoom
<1>8. \A sig, src : ~Told(queue["system"], sig, src)
  BY <1>4 DEF Told
<1>9. Reported /\ SubtitleAsked
  BY <1>4, <1>8, Names DEF Reported, SubtitleAsked, Has, Init
<1>10. WorkersFirst
  <2> SUFFICES ASSUME NEW c \in Threaded PROVE WorkerFirst(c)
    BY DEF WorkersFirst
  <2>1. queue[c] = <<ask(c)>> /\ c \in Comp
    BY Names DEF Init, ask
  <2>2. queue[c] # <<>> /\ Head(queue[c]).sig = "INIT"
    BY <1>1, <2>1
  <2>3. ao[c] = "idle" /\ ao["video"] = "idle"
    BY <2>1 DEF Init, Comp
  <2>4. Ahead(queue["system"], readyMask, c)
    BY <1>4 DEF Ahead
  <2> QED BY <2>2, <2>3, <2>4 DEF WorkerFirst
<1> QED BY <1>5, <1>6, <1>7, <1>9, <1>10 DEF FInv, StopNext, Init

LEMMA Fast == ASSUME RoomyQueues PROVE Spec => []FInv
<1>1. ASSUME IInv, WInv, FInv, [Next]_vars PROVE FInv'
  BY <1>1, ComponentsFast, SystemFast, IgnoreFast, TickFast, OthersFast DEF Next
<1>2. IInv /\ WInv /\ FInv /\ [Next]_vars => FInv'
  BY <1>1
<1> QED BY <1>2, FastInitially, Invariance, Watching, PTL DEF Spec

(***************************************************************************)
(* Fail-fast: with queues that have room for what the components can have  *)
(* to say, no component is served before it is ready or after it failed.   *)
(***************************************************************************)
THEOREM FailsFast == ASSUME RoomyQueues PROVE Spec => []FailFast
<1>1. ASSUME FInv PROVE FailFast
  <2>1. ErrorIsReported
    BY <1>1 DEF FInv, Reported, Told, ErrorIsReported, PendingFrom
  <2>2. RunMeansUp
    <3> SUFFICES ASSUME sysState = "run", NEW c \in Comp
                 PROVE  ao[c] = "up" \/ PendingFrom("system", "ERROR", c)
      BY DEF RunMeansUp
    <3>1. ao[c] \in {"up", "error"} /\ (ao[c] = "error" => Told(queue["system"], "ERROR", c))
      BY <1>1 DEF FInv, Reported
    <3> QED BY <3>1 DEF Told, PendingFrom
  <2> QED BY <2>1, <2>2 DEF FailFast
<1> QED BY <1>1, Fast, PTL

(***************************************************************************)
(* With such queues no poll, diagnostic or shutdown timeout ever meets a   *)
(* full one, and QP never asserts.                                         *)
(***************************************************************************)
THEOREM NeverOverflows == ASSUME RoomyQueues PROVE Spec => []NoQueueOverflow
<1>1. FInv => NoQueueOverflow
  BY DEF FInv, NoQueueOverflow
<1> QED BY <1>1, Fast, PTL
=============================================================================
