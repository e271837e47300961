---------------------------- MODULE VideoProofs ----------------------------
(***************************************************************************)
(* The passthrough for every set of modes, every timeout and every clock   *)
(* width: the invariants of VideoPipeline, the refinement of               *)
(* PassthroughSource, and the clock and raster of every mode of the table. *)
(***************************************************************************)
EXTENDS MCVideoPipeline, TLAPS

(***************************************************************************)
(* The pipeline only leaves "uninitialized" while VideoAO is up; a mode is *)
(* reported exactly when it streams; the detector is only marked started  *)
(* in the states that started it.                                          *)
(***************************************************************************)
Phases ==
  /\ ao # "up" <=> pipe.state = "uninitialized"
  /\ pipe.state # "error"
  /\ readyPosted <=> pipe.state = "streaming"
  /\ pipe.state = "waiting" => ~pipe.detector

VInv == TypeOK /\ TransportMatches /\ Phases /\ WaitIsMeasured

-----------------------------------------------------------------------------
(***************************************************************************)
(* The clock stays within its width.                                       *)
(***************************************************************************)
LEMMA ClockWraps ==
  ASSUME NEW t \in 0..ClockMod-1
  PROVE  (t + 1) % ClockMod = IF t + 1 = ClockMod THEN 0 ELSE t + 1
  BY ClockAssumption

(***************************************************************************)
(* The unsigned subtraction, spelled out.                                  *)
(***************************************************************************)
LEMMA ElapsedIs ==
  ASSUME NEW t \in 0..ClockMod-1, NEW s \in 0..ClockMod-1
  PROVE  (t + ClockMod - s) % ClockMod = IF t >= s THEN t - s ELSE t + ClockMod - s
  BY ClockAssumption
(***************************************************************************)
(* What the helpers return: a stopped transport, a running one, and a      *)
(* zeroed structure.                                                       *)
(***************************************************************************)
LEMMA StopResult ==
  ASSUME NEW p \in Pipe
  PROVE  /\ StopTransport(p) \in Pipe
         /\ StopTransport(p).state = p.state
         /\ StopTransport(p).active = NoTiming /\ ~StopTransport(p).detector
         /\ StopTransport(p).clk = NoTiming /\ StopTransport(p).gen = NoTiming
         /\ StopTransport(p).mm2s = NoTiming /\ StopTransport(p).s2mm = NoTiming
  BY DEF StopTransport, OutputStop, InputStop, Pipe

(***************************************************************************)
(* The zeroed structure.                                                   *)
(***************************************************************************)
LEMMA ZeroedType == Zeroed \in Pipe
  BY ClockAssumption DEF Zeroed, Pipe, States

(***************************************************************************)
(* Whatever a start left running, cleanup leaves nothing.                  *)
(***************************************************************************)
LEMMA CleanupResult ==
  ASSUME NEW p \in Pipe
  PROVE  Cleanup(p) = Zeroed
<1>1. StopTransport(p).clk = NoTiming /\ StopTransport(p).gen = NoTiming
  BY StopResult
<1>2. Zeroed \in Pipe /\ Zeroed.clk = NoTiming /\ Zeroed.gen = NoTiming
  BY ZeroedType DEF Zeroed
<1>3. \A r \in Pipe : (r.clk = NoTiming /\ r.gen = NoTiming) =>
                      [r EXCEPT !.clk = NoTiming, !.gen = NoTiming] = r
  BY DEF Pipe
<1> QED BY <1>1, <1>2, <1>3 DEF Cleanup

(***************************************************************************)
(* A start that fails leaves a structure cleanup can take.                 *)
(***************************************************************************)
LEMMA StartFailedType ==
  ASSUME NEW p \in Pipe, NEW m \in Supported, NEW q \in StartFailed(p, m)
  PROVE  q \in Pipe
<1> USE DEF Pipe, States
<1>1. p.active \in Supported \cup {NoTiming}
  OBVIOUS
<1>2. OutputStarted(p, m) \in Pipe
  BY DEF OutputStarted
<1>3. OutputStop(OutputStarted(p, m)) \in Pipe
  BY <1>2 DEF OutputStop
<1>4. OutputFailed(p, m) \subseteq Pipe
  <2>1. [p EXCEPT !.clk = m] \in Pipe
    OBVIOUS
  <2>2. [p EXCEPT !.clk = m, !.gen = m] \in Pipe
    OBVIOUS
  <2>3. [p EXCEPT !.clk = m, !.gen = m, !.mm2s = m] \in Pipe
    OBVIOUS
  <2> HIDE DEF Pipe
  <2> QED BY <2>1, <2>2, <2>3 DEF OutputFailed
<1>5. \A t \in {NoTiming, m} : [OutputStop(OutputStarted(p, m)) EXCEPT !.s2mm = t] \in Pipe
  BY <1>3
<1> QED BY <1>4, <1>5 DEF StartFailed

(***************************************************************************)
(* A started transport runs every part with the mode.                      *)
(***************************************************************************)
LEMMA StartedResult ==
  ASSUME NEW p \in Pipe, NEW m \in Supported
  PROVE  /\ Started(p, m) \in Pipe
         /\ Started(p, m).state = "streaming" /\ Started(p, m).active = m
         /\ Started(p, m).clk = m /\ Started(p, m).gen = m
         /\ Started(p, m).mm2s = m /\ Started(p, m).s2mm = m
  BY DEF Started, OutputStarted, Pipe, States

-----------------------------------------------------------------------------
(***************************************************************************)
(* Initially nothing runs.                                                 *)
(***************************************************************************)
LEMMA VideoInitially == Init => VInv
<1> SUFFICES ASSUME Init PROVE VInv
  OBVIOUS
<1>1. TypeOK
  <2>1. now \in 0..ClockMod-1
    BY ClockAssumption DEF Init
  <2> QED BY <2>1, ZeroedType DEF Init, TypeOK
<1>2. TransportMatches
  BY DEF Init, TransportMatches, Zeroed
<1>3. Phases
  BY DEF Init, Phases, Zeroed
<1>4. WaitIsMeasured
  BY DEF Init, WaitIsMeasured, Zeroed
<1> QED BY <1>1, <1>2, <1>3, <1>4 DEF VInv

(***************************************************************************)
(* Every poll keeps the clock in range.                                    *)
(***************************************************************************)
LEMMA PollClock ==
  ASSUME TypeOK, Poll
  PROVE  now' \in 0..ClockMod-1
  BY ClockWraps, ClockAssumption DEF TypeOK, Poll

(***************************************************************************)
(* Every step keeps the invariant.                                         *)
(***************************************************************************)
LEMMA VideoStep == VInv /\ [Next]_vars => VInv'
<1> SUFFICES ASSUME VInv, [Next]_vars PROVE VInv'
  OBVIOUS
<1> USE DEF VInv
<1>0. pipe \in Pipe /\ NoTiming \notin Supported
  BY TimingAssumption DEF TypeOK
<1>1. CASE ComponentInit
  <2>1. CASE pipe' = [Zeroed EXCEPT !.state = "waiting"] /\ ao' = "up" /\ now' = 0 /\ readyPosted' = FALSE
    <3>1. pipe' \in Pipe
      BY <2>1, ZeroedType DEF Pipe, States
    <3>2. TypeOK'
      <4>1. now' \in 0..ClockMod-1
        BY <2>1, ClockAssumption
      <4> QED BY <1>1, <2>1, <3>1, <4>1 DEF ComponentInit, TypeOK
    <3>3. TransportMatches' /\ Phases' /\ WaitIsMeasured'
      BY <2>1 DEF TransportMatches, Phases, WaitIsMeasured, Zeroed
    <3> QED BY <3>2, <3>3
  <2>2. CASE ao' = "error" /\ UNCHANGED <<pipe, now, readyPosted>>
    BY <1>1, <2>2 DEF ComponentInit, TypeOK, TransportMatches, Phases, WaitIsMeasured
  <2> QED BY <1>1, <2>1, <2>2 DEF ComponentInit
<1>2. CASE PollIdle
  <2>1. UNCHANGED pipe
    BY <1>2 DEF PollIdle, PollUnchanged
  <2>2. TypeOK'
    BY <1>2, <2>1, PollClock DEF PollIdle, TypeOK, PollAcquiring, Poll, PollUnchanged
  <2>3. TransportMatches'
    BY <1>2, <2>1, <1>0 DEF PollIdle, TransportMatches, PollAcquiring, Poll, PollUnchanged
  <2>4. Phases'
    BY <1>2, <2>1 DEF PollIdle, Phases, PollAcquiring, Poll, PollUnchanged
  <2>5. WaitIsMeasured'
    BY <1>2, <2>1 DEF PollIdle, WaitIsMeasured, PollAcquiring, Poll, PollUnchanged
  <2> QED BY <2>2, <2>3, <2>4, <2>5
<1>3. CASE PollSignalLost
  <2>1. /\ pipe' \in Pipe /\ pipe'.state = "waiting"
        /\ pipe'.active = NoTiming /\ ~pipe'.detector
        /\ pipe'.clk = NoTiming /\ pipe'.gen = NoTiming
        /\ pipe'.mm2s = NoTiming /\ pipe'.s2mm = NoTiming
    BY <1>3, <1>0, StopResult DEF PollSignalLost, Pipe, States
  <2>2. TypeOK'
    BY <1>3, <2>1, PollClock DEF PollSignalLost, TypeOK, Poll
  <2>3. TransportMatches'
    BY <1>3, <2>1, <1>0 DEF PollSignalLost, TransportMatches, Poll
  <2>4. Phases'
    BY <1>3, <2>1 DEF PollSignalLost, Phases, Poll
  <2>5. WaitIsMeasured'
    BY <1>3, <2>1 DEF PollSignalLost, WaitIsMeasured, Poll
  <2> QED BY <2>2, <2>3, <2>4, <2>5
<1>4. CASE PollResolutionChange
  <2>1. /\ pipe' \in Pipe /\ pipe'.state = "acquiring"
        /\ pipe'.active = NoTiming /\ ~pipe'.detector
        /\ pipe'.clk = NoTiming /\ pipe'.gen = NoTiming
        /\ pipe'.mm2s = NoTiming /\ pipe'.s2mm = NoTiming
    BY <1>4, <1>0, StopResult DEF PollResolutionChange, Pipe, States
  <2>2. TypeOK'
    BY <1>4, <2>1, PollClock DEF PollResolutionChange, TypeOK, Poll
  <2>3. TransportMatches'
    BY <1>4, <2>1, <1>0 DEF PollResolutionChange, TransportMatches, Poll
  <2>4. Phases'
    BY <1>4, <2>1 DEF PollResolutionChange, Phases, Poll
  <2>5. WaitIsMeasured'
    BY <1>4, <2>1 DEF PollResolutionChange, WaitIsMeasured, Poll
  <2> QED BY <2>2, <2>3, <2>4, <2>5
<1>5. CASE PollStartDetector
  <2>1. /\ pipe' \in Pipe /\ pipe'.state = "acquiring"
        /\ UNCHANGED <<pipe.active, pipe.clk, pipe.gen, pipe.mm2s, pipe.s2mm>>
    BY <1>5, <1>0, PollClock, ClockAssumption DEF PollStartDetector, Pipe, States, PollAcquiring
  <2>2. TypeOK'
    BY <1>5, <2>1, PollClock DEF PollStartDetector, TypeOK, PollAcquiring, Poll
  <2>3. TransportMatches'
    BY <1>5, <2>1, <1>0 DEF PollStartDetector, TransportMatches, PollAcquiring, Poll
  <2>4. Phases'
    BY <1>5, <2>1 DEF PollStartDetector, Phases, PollAcquiring, Poll
  <2>5. WaitIsMeasured'
    <3>1. pipe'.detector /\ pipe'.startedAt = now' /\ waited' = 0 /\ now' \in 0..ClockMod-1
      BY <1>5, <1>0, PollClock DEF PollStartDetector, Pipe, Phases
    <3>2. Elapsed(pipe', now') = 0
      BY <3>1, ElapsedIs DEF Elapsed
    <3> QED BY <3>1, <3>2, ClockAssumption DEF WaitIsMeasured
  <2> QED BY <2>2, <2>3, <2>4, <2>5
<1>6. CASE PollNoTiming
  <2>1. UNCHANGED pipe
    BY <1>6 DEF PollNoTiming, PollUnchanged
  <2>2. TypeOK'
    BY <1>6, <2>1, PollClock DEF PollNoTiming, TypeOK, PollAcquiring, Poll, PollUnchanged
  <2>3. TransportMatches'
    BY <1>6, <2>1, <1>0 DEF PollNoTiming, TransportMatches, PollAcquiring, Poll, PollUnchanged
  <2>4. Phases'
    BY <1>6, <2>1 DEF PollNoTiming, Phases, PollAcquiring, Poll, PollUnchanged
  <2>5. WaitIsMeasured'
    <3> SUFFICES ASSUME pipe.state = "acquiring", pipe.detector
                 PROVE  Elapsed(pipe, now') = waited + 1 /\ waited + 1 < Timeout
      BY <1>6, <2>1 DEF WaitIsMeasured, PollNoTiming
    <3>1. now \in 0..ClockMod-1 /\ pipe.startedAt \in 0..ClockMod-1 /\ waited \in Nat
      BY <1>0 DEF TypeOK, Pipe
    <3>2. now' = IF now + 1 = ClockMod THEN 0 ELSE now + 1
      BY <1>6, <3>1, ClockWraps DEF PollNoTiming, PollAcquiring, Poll
    <3>3. Elapsed(pipe, now) = waited /\ waited < Timeout /\ Elapsed(pipe, now') < Timeout
      BY <1>6 DEF WaitIsMeasured, PollNoTiming
    <3>4. Elapsed(pipe, now) = IF now >= pipe.startedAt THEN now - pipe.startedAt
                               ELSE now + ClockMod - pipe.startedAt
      BY <3>1, ElapsedIs DEF Elapsed
    <3>5. Elapsed(pipe, now') = IF now' >= pipe.startedAt THEN now' - pipe.startedAt
                                ELSE now' + ClockMod - pipe.startedAt
      BY <1>6, <3>1, ElapsedIs, PollClock DEF Elapsed, PollNoTiming, PollAcquiring
    <3> QED BY <3>1, <3>2, <3>3, <3>4, <3>5, ClockAssumption
  <2> QED BY <2>2, <2>3, <2>4, <2>5
<1>7. CASE PollTimingTimeout
  <2>1. /\ pipe' \in Pipe /\ pipe'.state = "waiting" /\ ~pipe'.detector
        /\ UNCHANGED <<pipe.active, pipe.clk, pipe.gen, pipe.mm2s, pipe.s2mm>>
    <3>1. 0 \in 0..ClockMod-1
      BY ClockAssumption
    <3> QED BY <1>7, <1>0, <3>1 DEF PollTimingTimeout, Pipe, States
  <2>2. TypeOK'
    BY <1>7, <2>1, PollClock DEF PollTimingTimeout, TypeOK, PollAcquiring, Poll
  <2>3. TransportMatches'
    BY <1>7, <2>1, <1>0 DEF PollTimingTimeout, TransportMatches, PollAcquiring, Poll
  <2>4. Phases'
    BY <1>7, <2>1 DEF PollTimingTimeout, Phases, PollAcquiring, Poll
  <2>5. WaitIsMeasured'
    BY <1>7, <2>1 DEF PollTimingTimeout, WaitIsMeasured, PollAcquiring, Poll
  <2> QED BY <2>2, <2>3, <2>4, <2>5
<1>8. CASE PollUnsupported
  <2>1. /\ pipe' \in Pipe /\ pipe'.state = "unsupported"
        /\ UNCHANGED <<pipe.active, pipe.clk, pipe.gen, pipe.mm2s, pipe.s2mm>>
    BY <1>8, <1>0, PollClock, ClockAssumption DEF PollUnsupported, Pipe, States, PollAcquiring
  <2>2. TypeOK'
    BY <1>8, <2>1, PollClock DEF PollUnsupported, TypeOK, PollAcquiring, Poll
  <2>3. TransportMatches'
    BY <1>8, <2>1, <1>0 DEF PollUnsupported, TransportMatches, PollAcquiring, Poll
  <2>4. Phases'
    BY <1>8, <2>1 DEF PollUnsupported, Phases, PollAcquiring, Poll
  <2>5. WaitIsMeasured'
    BY <1>8, <2>1 DEF PollUnsupported, WaitIsMeasured, PollAcquiring, Poll
  <2> QED BY <2>2, <2>3, <2>4, <2>5
<1>9. CASE PollStarts
  <2>1. PICK m \in Supported : PollAcquiring(m) /\ pipe' = Started(pipe, m)
                                /\ (IF readyPosted THEN UNCHANGED <<announced, refused>>
                                    ELSE PostReady(m))
    BY <1>9 DEF PollStarts
  <2>2. TypeOK'
    BY <1>9, <2>1, PollClock, StartedResult, <1>0 DEF PollStarts, PostReady, TypeOK, PollAcquiring, Poll
  <2>3. TransportMatches'
    BY <1>9, <2>1, StartedResult, <1>0, <1>0 DEF PollStarts, TransportMatches, PollAcquiring, Poll
  <2>4. Phases'
    BY <1>9, <2>1, StartedResult, <1>0 DEF PollStarts, Phases, PollAcquiring, Poll
  <2>5. WaitIsMeasured'
    BY <1>9, <2>1, StartedResult, <1>0 DEF PollStarts, WaitIsMeasured, PollAcquiring, Poll
  <2> QED BY <2>2, <2>3, <2>4, <2>5
<1>10. CASE PollFails
  <2>1. pipe' = Zeroed
    BY <1>10, <1>0, StartFailedType, CleanupResult DEF PollFails
  <2>6. Poll /\ ao' = "error" /\ readyPosted' = FALSE /\ waited' = 0 /\ UNCHANGED <<announced, refused>>
    BY <1>10 DEF PollFails, PollAcquiring
  <2>2. TypeOK'
    BY <2>1, <2>6, PollClock, ZeroedType DEF TypeOK, Poll
  <2>3. TransportMatches'
    BY <1>10, <2>1, ZeroedType, <1>0 DEF PollFails, TransportMatches, Zeroed
  <2>4. Phases'
    BY <1>10, <2>1, ZeroedType DEF PollFails, Phases, Zeroed
  <2>5. WaitIsMeasured'
    BY <1>10, <2>1, ZeroedType DEF PollFails, WaitIsMeasured, Zeroed
  <2> QED BY <2>2, <2>3, <2>4, <2>5
<1>11. CASE Stop
  <2>1. CASE ao = "up"
    <3>1. pipe' = Zeroed /\ ao' = "stopped" /\ readyPosted' = FALSE
      BY <1>11, <1>0, <2>1, CleanupResult DEF Stop
    <3>2. TypeOK'
      BY <1>11, <3>1, ZeroedType DEF Stop, TypeOK
    <3>3. TransportMatches' /\ Phases' /\ WaitIsMeasured'
      BY <3>1 DEF TransportMatches, Phases, WaitIsMeasured, Zeroed
    <3> QED BY <3>2, <3>3
  <2>2. CASE ao # "up"
    <3>1. UNCHANGED <<pipe, now, readyPosted>> /\ ao' = "stopped"
      BY <1>11, <2>2 DEF Stop
    <3>2. TypeOK'
      BY <1>11, <3>1 DEF Stop, TypeOK
    <3>3. TransportMatches' /\ Phases' /\ WaitIsMeasured'
      BY <2>2, <3>1 DEF TransportMatches, Phases, WaitIsMeasured
    <3> QED BY <3>2, <3>3
  <2> QED BY <2>1, <2>2
<1>12. CASE SourceChanges
  <2>1. UNCHANGED pipe
    BY <1>12 DEF SourceChanges, PollUnchanged
  <2>2. TypeOK'
    BY <1>12, <2>1 DEF SourceChanges, TypeOK, PollAcquiring, Poll, PollUnchanged
  <2>3. TransportMatches'
    BY <1>12, <2>1, <1>0 DEF SourceChanges, TransportMatches, PollAcquiring, Poll, PollUnchanged
  <2>4. Phases'
    BY <1>12, <2>1 DEF SourceChanges, Phases, PollAcquiring, Poll, PollUnchanged
  <2>5. WaitIsMeasured'
    BY <1>12, <2>1 DEF SourceChanges, WaitIsMeasured, PollAcquiring, Poll, PollUnchanged
  <2> QED BY <2>2, <2>3, <2>4, <2>5
<1>13. CASE UNCHANGED vars
  BY <1>13 DEF vars, TypeOK, TransportMatches, Phases, WaitIsMeasured
<1> QED BY <1>1, <1>2, <1>3, <1>4, <1>5, <1>6, <1>7, <1>8, <1>9, <1>10, <1>11, <1>12, <1>13 DEF Next, VideoPoll

-----------------------------------------------------------------------------
(***************************************************************************)
(* Every reachable state satisfies the invariant.                          *)
(***************************************************************************)
THEOREM VideoInvariant == Spec => []VInv
<1>1. Init => VInv
  BY VideoInitially
<1>2. VInv /\ [Next]_vars => VInv'
  BY VideoStep
<1> QED BY <1>1, <1>2, PTL DEF Spec

(***************************************************************************)
(* Clock, generator, display and capture run together with one mode or not *)
(* at all, whatever the source does and wherever a start fails.            *)
(***************************************************************************)
THEOREM TransportConsistent == Spec => []TransportMatches
<1>1. VInv => TransportMatches
  BY DEF VInv
<1> QED BY <1>1, VideoInvariant, PTL

(***************************************************************************)
(* The wait for timing is measured right across the clock's wrap and is    *)
(* bounded by the timeout, for every timeout below the clock's range.      *)
(***************************************************************************)
THEOREM WaitMeasured == Spec => []WaitIsMeasured
<1>1. VInv => WaitIsMeasured
  BY DEF VInv
<1> QED BY <1>1, VideoInvariant, PTL

-----------------------------------------------------------------------------
(***************************************************************************)
(* The passthrough starts as the abstract source does.                     *)
(***************************************************************************)
LEMMA SourceInit == Init => Source!SInit
  BY DEF Init, Zeroed, Source!SInit

(***************************************************************************)
(* A step is a show, a blank, an end, or nothing SystemAO can see.         *)
(***************************************************************************)
LEMMA SourceStep == VInv /\ [Next]_vars => [Source!SNext]_(Source!svars)
<1> SUFFICES ASSUME VInv, [Next]_vars
             PROVE  Source!SNext \/ UNCHANGED Source!svars
  BY DEF Source!svars
<1>0. pipe \in Pipe /\ pipe.active \in Supported \cup {NoTiming}
  BY DEF VInv, TypeOK, Pipe
<1> DEFINE ended == ao \in {"error", "stopped"}
           Still == pipe'.active = pipe.active /\ UNCHANGED <<announced, refused, ended>>
<1>A. Still => UNCHANGED Source!svars
  BY DEF Source!svars
<1>B. ASSUME pipe.active # NoTiming, pipe'.active = NoTiming, UNCHANGED <<announced, refused, ended>>
      PROVE  Source!SNext
  BY <1>B DEF Source!SNext, Source!Blank
<1>C. ASSUME ~ended, ended', pipe'.active = NoTiming, UNCHANGED <<announced, refused>>
      PROVE  Source!SNext
  BY <1>C DEF Source!SNext, Source!End
<1>1. CASE ComponentInit
  <2>1. pipe.active = NoTiming /\ pipe'.active = NoTiming /\ UNCHANGED <<announced, refused>> /\ ~ended
    BY <1>1 DEF ComponentInit, VInv, TransportMatches, Phases, Zeroed
  <2>2. CASE ended'
    BY <2>1, <2>2, <1>C
  <2>3. CASE ~ended'
    BY <2>1, <2>3, <1>A
  <2> QED BY <2>2, <2>3
<1>2. CASE PollSignalLost \/ PollResolutionChange
  <2>1. pipe'.active = NoTiming /\ UNCHANGED <<announced, refused, ended>>
    BY <1>2, <1>0, StopResult DEF PollSignalLost, PollResolutionChange, Pipe
  <2> QED BY <2>1, <1>A, <1>B
<1>3. CASE PollStarts
  <2>1. PICK m \in Supported : PollAcquiring(m) /\ pipe' = Started(pipe, m)
                                /\ (IF readyPosted THEN UNCHANGED <<announced, refused>>
                                    ELSE PostReady(m))
    BY <1>3 DEF PollStarts
  <2>2. pipe.active = NoTiming /\ ~readyPosted /\ ~ended /\ UNCHANGED ended
    BY <1>3, <2>1 DEF VInv, TransportMatches, Phases, PollStarts, PollAcquiring, Poll
  <2>3. pipe'.active = m /\ PostReady(m)
    BY <1>0, <2>1, <2>2, StartedResult
  <2>4. Source!Show(m)
    BY <2>2, <2>3 DEF Source!Show, Source!Report, PostReady
  <2> QED BY <2>4 DEF Source!SNext
<1>4. CASE PollFails
  <2>1. pipe' = Zeroed
    BY <1>4, <1>0, StartFailedType, CleanupResult DEF PollFails
  <2>2. ~ended /\ ended' /\ UNCHANGED <<announced, refused>>
    BY <1>4 DEF PollFails, PollAcquiring, Poll
  <2> QED BY <2>1, <2>2, <1>C DEF Zeroed
<1>5. CASE Stop
  <2>1. pipe'.active = NoTiming /\ UNCHANGED <<announced, refused>> /\ ended'
    BY <1>5, <1>0, CleanupResult DEF Stop, Zeroed, VInv, TransportMatches, Phases
  <2>2. CASE ~ended
    BY <2>1, <2>2, <1>C
  <2>3. CASE ended
    <3>1. pipe.active = NoTiming
      BY <2>3 DEF VInv, TransportMatches, Phases
    <3> QED BY <2>1, <2>3, <3>1, <1>A
  <2> QED BY <2>2, <2>3
<1>6. CASE PollIdle \/ PollNoTiming \/ SourceChanges \/ UNCHANGED vars
  <2>1. Still
    BY <1>6 DEF PollIdle, PollNoTiming, PollUnchanged, SourceChanges, vars
  <2> QED BY <2>1, <1>A
<1>7. CASE PollStartDetector \/ PollTimingTimeout \/ PollUnsupported
  <2>1. Still
    BY <1>7, <1>0 DEF PollStartDetector, PollTimingTimeout, PollUnsupported, PollAcquiring,
                      Poll, Pipe
  <2> QED BY <2>1, <1>A
<1> QED BY <1>1, <1>2, <1>3, <1>4, <1>5, <1>6, <1>7 DEF Next, VideoPoll

(***************************************************************************)
(* The passthrough implements what SystemAO relies on: no picture without  *)
(* an announcement of its mode, no change of mode under a picture, none    *)
(* after the end.                                                          *)
(***************************************************************************)
THEOREM SourceRefinement == Spec => ImplementsSource
<1>1. Init => Source!SInit
  BY SourceInit
<1>2. VInv /\ [Next]_vars => [Source!SNext]_(Source!svars)
  BY SourceStep
<1> QED BY <1>1, <1>2, VideoInvariant, PTL DEF Spec, ImplementsSource, Source!SSpec

-----------------------------------------------------------------------------
(***************************************************************************)
(* A quotient lies where its dividend does.                                *)
(***************************************************************************)
LEMMA Quotient ==
  ASSUME NEW x \in Nat, NEW y \in Nat, y > 0, NEW lo \in Nat, NEW hi \in Nat, lo * y <= x, x <= hi * y
  PROVE  x \div y \in Nat /\ lo <= x \div y /\ x \div y <= hi
<1> DEFINE q == x \div y
<1>1. q \in Nat /\ y * q <= x /\ x < y * q + y OBVIOUS
<1> HIDE DEF q
<1>2. lo <= q
  <2> SUFFICES ASSUME q + 1 <= lo PROVE FALSE
    BY <1>1
  <2>1. (q + 1) * y <= lo * y BY <1>1
  <2> QED BY <1>1, <2>1
<1>3. q <= hi
  <2> SUFFICES ASSUME hi + 1 <= q PROVE FALSE
    BY <1>1
  <2>1. (hi + 1) * y <= q * y BY <1>1
  <2> QED BY <1>1, <2>1
<1> QED BY <1>1, <1>2, <1>3 DEF q

(***************************************************************************)
(* A counter register divides by what it was programmed for.               *)
(***************************************************************************)
LEMMA CounterIs ==
  ASSUME NEW n \in 1..128
  PROVE  Counter(ClkDivider(n)) = n
<1> DEFINE r == ClkDivider(n)
           high == (n \div 2) % 64
           low == (n - n \div 2) % 64
<1>1. CASE n = 1
  <2>1. r.nocount = TRUE BY <1>1 DEF ClkDivider
  <2> QED BY <1>1, <2>1 DEF Counter
<1>2. CASE n # 1
  <2>1. r.nocount = FALSE /\ r.high = high /\ r.low = low BY <1>2 DEF ClkDivider
  <2>2. high = (IF n = 128 THEN 0 ELSE n \div 2) BY <1>2
  <2>3. low = (IF n >= 127 THEN 0 ELSE n - n \div 2) BY <1>2
  <2>4. (IF high = 0 THEN 64 ELSE high) + (IF low = 0 THEN 64 ELSE low) = n BY <1>2, <2>2, <2>3
  <2> HIDE DEF r, high, low
  <2>5. Counter(r) = (IF high = 0 THEN 64 ELSE high) + (IF low = 0 THEN 64 ELSE low) BY <2>1 DEF Counter
  <2> QED BY <2>4, <2>5 DEF r
<1> QED BY <1>1, <1>2

(***************************************************************************)
(* A pick whose oscillator is in range and whose fields fit its registers. *)
(***************************************************************************)
Pick(p) ==
  /\ p.div \in 1..10 /\ p.fb \in 6..64 /\ p.out \in 1..11
  /\ 6 * p.div <= p.fb /\ p.fb <= 12 * p.div

(***************************************************************************)
(* A candidate has an output divider of at most eleven.                    *)
(***************************************************************************)
LEMMA CandidateIs ==
  ASSUME NEW f \in 100..600, NEW p \in Candidates(f), p.out > 0
  PROVE  Pick(p)
<1>1. PICK d \in 1..10 : \E b \in (6 * d)..(IF 12 * d > 64 THEN 64 ELSE 12 * d) :
         p = [div |-> d, fb |-> b, out |-> (2 * REFERENCE * b + 5 * f * d) \div (10 * f * d)]
  BY DEF Candidates
<1>2. PICK b \in (6 * d)..(IF 12 * d > 64 THEN 64 ELSE 12 * d) :
         p = [div |-> d, fb |-> b, out |-> (2 * REFERENCE * b + 5 * f * d) \div (10 * f * d)]
  BY <1>1
<1> DEFINE x == 2 * REFERENCE * b + 5 * f * d
           y == 10 * f * d
<1>3. p.div = d /\ p.fb = b /\ p.out = x \div y BY <1>2
<1>4. b \in Nat /\ 6 * d <= b /\ b <= 12 * d /\ b <= 64 /\ d >= 1 OBVIOUS
<1>5. f * d \in Nat /\ 100 * d <= f * d /\ f * d > 0 BY <1>4
<1>6. x = 800 * b + 5 * (f * d) /\ y = 10 * (f * d) BY <1>4 DEF REFERENCE
<1>7. x \in Nat /\ y \in Nat /\ y > 0 /\ 0 * y <= x /\ x <= 11 * y BY <1>4, <1>5, <1>6
<1> HIDE DEF x, y
<1>8. x \div y \in Nat /\ x \div y <= 11 BY <1>7, Quotient
<1> QED BY <1>3, <1>4, <1>8 DEF Pick

(***************************************************************************)
(* The candidate for dividers d and b, and what the search ensures of it:  *)
(* no pick p that it leaves is further from f.                             *)
(***************************************************************************)
Candidate(f, d, b, out) ==
  /\ f \in 100..600 /\ d \in 1..10 /\ b \in (6 * d)..(12 * d) /\ b <= 64
  /\ out \in Nat \ {0} /\ out = (2 * REFERENCE * b + 5 * f * d) \div (10 * f * d)

AsNear(p, f, d, b, out) ==
  Abs(400 * p.fb - 5 * f * (p.div * p.out)) * (d * out)
    <= Abs(400 * b - 5 * f * (d * out)) * (p.div * p.out)

(***************************************************************************)
(* No candidate is nearer than a pick the search leaves.                   *)
(***************************************************************************)
LEMMA BestIs ==
  ASSUME NEW f, NEW d, NEW b, NEW out, Candidate(f, d, b, out), NEW p \in BestPicks(f)
  PROVE  Pick(p) /\ AsNear(p, f, d, b, out)
<1>0. /\ f \in 100..600 /\ d \in 1..10 /\ b \in (6 * d)..(12 * d) /\ b <= 64
      /\ out \in Nat \ {0} /\ out = (2 * REFERENCE * b + 5 * f * d) \div (10 * f * d)
  BY DEF Candidate
<1> DEFINE q == [div |-> d, fb |-> b, out |-> out]
<1>1. q \in Candidates(f)
  <2>1. b \in (6 * d)..(IF 12 * d > 64 THEN 64 ELSE 12 * d) BY <1>0
  <2> DEFINE row(k) == {[div |-> k, fb |-> c, out |-> (2 * REFERENCE * c + 5 * f * k) \div (10 * f * k)] :
                          c \in (6 * k)..(IF 12 * k > 64 THEN 64 ELSE 12 * k)}
  <2>2. q \in row(d) BY <1>0, <2>1
  <2>3. Candidates(f) = UNION {row(k) : k \in 1..10} BY DEF Candidates
  <2> HIDE DEF row
  <2> QED BY <1>0, <2>2, <2>3
<1>2. q.out > 0 /\ q.div = d /\ q.fb = b /\ q.out = out BY <1>0
<1> HIDE DEF q
<1>3. p \in Candidates(f) /\ p.out > 0 /\ ~Nearer(q, p, f) BY <1>1, <1>2 DEF BestPicks
<1>4. Pick(p) BY <1>0, <1>3, CandidateIs
<1> DEFINE E == Abs(400 * p.fb - 5 * f * (p.div * p.out))
           F == Abs(400 * b - 5 * f * (d * out))
<1>5. Abs(REFERENCE * p.fb - 5 * f * p.div * p.out) = E BY <1>0, <1>4 DEF Pick, REFERENCE
<1>6. Abs(REFERENCE * q.fb - 5 * f * q.div * q.out) = F
  <2>1. 5 * f * d * out = 5 * f * (d * out) /\ REFERENCE * b = 400 * b BY <1>0 DEF REFERENCE
  <2>2. Abs(REFERENCE * q.fb - 5 * f * q.div * q.out) = Abs(REFERENCE * b - 5 * f * d * out)
    BY <1>2, Zenon
  <2> QED BY <2>1, <2>2, Zenon DEF F
<1>7. ~(F * (p.div * p.out) < E * (d * out)) BY <1>2, <1>3, <1>5, <1>6, Zenon DEF Nearer
<1>9. p.div * p.out \in Nat /\ d * out \in Nat BY <1>0, <1>4 DEF Pick
<1>8. E \in Nat /\ F \in Nat
  <2> DEFINE k == p.div * p.out
             l == d * out
  <2>1. k \in Nat /\ l \in Nat /\ p.fb \in Nat BY <1>0, <1>4, <1>9 DEF Pick
  <2> HIDE DEF k, l
  <2>2. 400 * p.fb - 5 * f * k \in Int /\ 400 * b - 5 * f * l \in Int BY <1>0, <2>1
  <2>3. \A n \in Int : Abs(n) \in Nat BY DEF Abs
  <2> QED BY <2>2, <2>3 DEF k, l
<1> HIDE DEF E, F
<1>10. E * (d * out) <= F * (p.div * p.out) BY <1>7, <1>8, <1>9
<1> QED BY <1>4, <1>10 DEF E, F, AsNear

(***************************************************************************)
(* A pick that is near enough: the clock manager can be programmed for it  *)
(* and runs it, and the clock comes out as near.                           *)
(***************************************************************************)
Near(p, f, s) ==
  /\ Pick(p) /\ f \in 100..600 /\ s \in {0, 10}
  /\ Abs(400 * p.fb - 5 * f * (p.div * p.out)) * 7 <= s * (p.div * p.out)

Clocked(p, f, s) ==
  /\ Accepts(p, f) /\ Encodable(p)
  /\ REFERENCE * p.fb >= 2400 * p.div /\ REFERENCE * p.fb <= 4800 * p.div
  /\ PixelClock(p) \in Nat
  /\ 250 * f - 8 * s <= PixelClock(p) /\ PixelClock(p) <= 250 * f + 8 * s

(***************************************************************************)
(* The clock of a pick that is near enough comes out near enough.          *)
(***************************************************************************)
LEMMA ClockIs ==
  ASSUME NEW f, NEW p, NEW s, Near(p, f, s)
  PROVE  Clocked(p, f, s)
<1>0. /\ f \in 100..600 /\ s \in {0, 10}
      /\ Abs(400 * p.fb - 5 * f * (p.div * p.out)) * 7 <= s * (p.div * p.out)
  BY DEF Near
<1> DEFINE k == p.div * p.out
           g == f * k
           x == 400 * p.fb - 5 * g
<1>1. /\ p.div \in 1..10 /\ p.fb \in 6..64 /\ p.out \in 1..11
      /\ 6 * p.div <= p.fb /\ p.fb <= 12 * p.div
  BY DEF Pick, Near
<1>2. k \in Nat /\ k >= 1 BY <1>1
<1>3. 5 * f * p.div * p.out = 5 * g /\ 5 * f * k = 5 * g BY <1>0, <1>1
<1>4. 5 * p.div * p.out = 5 * k BY <1>1
<1> HIDE DEF k
<1>5. g \in Nat /\ 100 * k <= g /\ x \in Int BY <1>0, <1>1, <1>2
<1>6. Abs(x) * 7 <= s * k BY <1>0, <1>3 DEF k
<1>7. 7 * x <= s * k /\ -(7 * x) <= s * k
  <2>1. s * k \in Int BY <1>0, <1>2
  <2> HIDE DEF x
  <2> QED BY <1>0, <1>5, <1>6, <2>1 DEF Abs
<1>8. (s * k = 0 /\ s = 0) \/ (s * k = 10 * k /\ s = 10)
  <2>1. CASE s = 0 BY <1>0, <1>2, <2>1
  <2>2. CASE s = 10 BY <2>2
  <2> QED BY <1>0, <2>1, <2>2
<1> HIDE DEF g
<1>9. Accepts(p, f)
  <2>1. REFERENCE * p.fb - 5 * f * p.div * p.out = x BY <1>3 DEF REFERENCE
  <2>2. Abs(x) <= 200 * k
    <3> HIDE DEF x
    <3> QED BY <1>0, <1>2, <1>5, <1>7, <1>8 DEF Abs
  <2>3. 5 * MAX_ERROR * (p.div * p.out) = 200 * k BY <1>1 DEF MAX_ERROR, k
  <2> QED BY <2>1, <2>2, <2>3, Zenon DEF Accepts
<1>10. Encodable(p) /\ REFERENCE * p.fb >= 2400 * p.div /\ REFERENCE * p.fb <= 4800 * p.div
  BY <1>1 DEF Encodable, REFERENCE
<1>11. PixelClock(p) = (100000 * p.fb) \div (5 * k)
  <2>1. Counter(ClkDivider(p.fb)) = p.fb /\ Counter(ClkDivider(p.div)) = p.div
        /\ Counter(ClkDivider(p.out)) = p.out
    BY <1>1, CounterIs
  <2>2. PixelClock(p) = (100000 * p.fb) \div (5 * p.div * p.out)
    <3> DEFINE a == Counter(ClkDivider(p.fb))
               b == Counter(ClkDivider(p.div))
               c == Counter(ClkDivider(p.out))
    <3>1. PixelClock(p) = (100000 * a) \div (5 * b * c) BY DEF PixelClock
    <3>2. a = p.fb /\ b = p.div /\ c = p.out BY <2>1
    <3> HIDE DEF a, b, c
    <3> QED BY <3>1, <3>2
  <2> QED BY <1>4, <2>2
<1> DEFINE y == 5 * k
           n == 100000 * p.fb
           lo == 250 * f - 8 * s
           hi == 250 * f + 8 * s
<1>12. n \in Nat /\ y \in Nat /\ y > 0 /\ lo \in Nat /\ hi \in Nat BY <1>0, <1>1, <1>2
<1>13. lo * y = 1250 * g - 40 * (s * k) /\ hi * y = 1250 * g + 40 * (s * k)
  BY <1>0, <1>2 DEF g
<1>14. n = 250 * x + 1250 * g BY <1>0, <1>1, <1>5
<1>15. lo * y <= n /\ n <= hi * y
  <2> HIDE DEF lo, hi, y, n, x
  <2> QED BY <1>0, <1>2, <1>5, <1>7, <1>8, <1>13, <1>14
<1> HIDE DEF n, y, lo, hi
<1>16. n \div y \in Nat /\ lo <= n \div y /\ n \div y <= hi BY <1>12, <1>15, Quotient
<1> QED BY <1>9, <1>10, <1>11, <1>16 DEF n, y, lo, hi, Clocked

(***************************************************************************)
(* The raster of a mode whose sync lies between its picture and its end,   *)
(* and what the detector makes of it.                                      *)
(***************************************************************************)
Proper(a) ==
  /\ a.active \in Nat \ {0} /\ a.start \in Nat /\ a.end \in Nat /\ a.max \in Nat /\ a.pol \in {0, 1}
  /\ a.active < a.start /\ a.start < a.end /\ a.end <= a.max /\ a.max <= 8190

(***************************************************************************)
(* The registers hold the raster, and a source that sends it is found by   *)
(* its dimensions.                                                         *)
(***************************************************************************)
LEMMA RasterIs ==
  ASSUME NEW t, Proper(t.h), Proper(t.v)
  PROVE  /\ Generates(Raster(t))
         /\ RasterLength(Generator(t.h)) = t.h.max + 1 /\ RasterLength(Generator(t.v)) = t.v.max + 1
         /\ Detected(SetGenerator(ConvTiming2Signal(Raster(t)))) = Find(t.h.active, t.v.active)
<1> DEFINE r == Raster(t)
           h == Generator(t.h)
           v == Generator(t.v)
           s == ConvTiming2Signal(r)
           z == SetGenerator(s)
           g == SetGeneratorTiming(r)
<1>1. r.h = h /\ r.v = v BY DEF Raster
<1>2. /\ h.active = t.h.active /\ h.front = t.h.start - t.h.active /\ h.sync = t.h.end - t.h.start
      /\ h.back = t.h.max - t.h.end + 1 /\ h.pol = t.h.pol
      /\ v.active = t.v.active /\ v.front = t.v.start - t.v.active /\ v.sync = t.v.end - t.v.start
      /\ v.back = t.v.max - t.v.end + 1 /\ v.pol = t.v.pol
  BY DEF Generator
<1> HIDE DEF r, h, v
<1>3. /\ t.h.active \in Nat /\ t.h.start \in Nat /\ t.h.end \in Nat /\ t.h.max \in Nat
      /\ 0 < t.h.active /\ t.h.active < t.h.start /\ t.h.start < t.h.end /\ t.h.end <= t.h.max
      /\ t.h.max <= 8190
  BY DEF Proper
<1>4. /\ t.v.active \in Nat /\ t.v.start \in Nat /\ t.v.end \in Nat /\ t.v.max \in Nat
      /\ 0 < t.v.active /\ t.v.active < t.v.start /\ t.v.start < t.v.end /\ t.v.end <= t.v.max
      /\ t.v.max <= 8190
  BY DEF Proper
<1>5. /\ s.hFront = h.active /\ s.hSync = h.active + h.front /\ s.hBack = h.active + h.front + h.sync
      /\ s.hTotal = h.active + h.front + h.sync + h.back
      /\ s.vFront = v.active /\ s.vSync = v.active + v.front - 1
      /\ s.vBack = v.active + v.front - 1 + v.sync
      /\ s.vTotal = v.active + v.front - 1 + v.sync + v.back + 1
  BY <1>1 DEF ConvTiming2Signal
<1> HIDE DEF s
<1>6. /\ s.hFront = t.h.active /\ s.hSync = t.h.start /\ s.hBack = t.h.end /\ s.hTotal = t.h.max + 1
      /\ s.vFront = t.v.active /\ s.vSync = t.v.start - 1 /\ s.vBack = t.v.end - 1
      /\ s.vTotal = t.v.max + 1
  BY <1>2, <1>3, <1>4, <1>5
<1>7. /\ z.hsize = Field(s.hTotal) /\ z.vsize.low = Field(s.vTotal)
      /\ z.asize.low = Field(s.hFront) /\ z.asize.high = Field(s.vFront)
      /\ z.hsync.low = Field(s.hSync) /\ z.hsync.high = Field(s.hBack)
      /\ z.vsync.low = Field(s.vSync) /\ z.vsync.high = Field(s.vBack)
  BY DEF SetGenerator, Pair
<1>8. g.size = z /\ g.offset.sync.low = Field(s.hSync) /\ g.polarity = SetPolarity(r)
  BY DEF SetGeneratorTiming, SetHoriOffset, Pair, s, z
<1> HIDE DEF z, g
<1>9. /\ z.hsize = t.h.max + 1 /\ z.vsize.low = t.v.max + 1
      /\ z.asize.low = t.h.active /\ z.asize.high = t.v.active
      /\ z.hsync.low = t.h.start /\ z.hsync.high = t.h.end
      /\ z.vsync.low = t.v.start - 1 /\ z.vsync.high = t.v.end - 1
      /\ g.offset.sync.low = t.h.start
  <2>1. /\ Field(t.h.max + 1) = t.h.max + 1 /\ Field(t.h.active) = t.h.active
        /\ Field(t.h.start) = t.h.start /\ Field(t.h.end) = t.h.end
    BY <1>3 DEF Field
  <2>2. /\ Field(t.v.max + 1) = t.v.max + 1 /\ Field(t.v.active) = t.v.active
        /\ Field(t.v.start - 1) = t.v.start - 1 /\ Field(t.v.end - 1) = t.v.end - 1
    BY <1>4 DEF Field
  <2> QED BY <1>6, <1>7, <1>8, <2>1, <2>2, Zenon
<1>10. RasterLength(h) = t.h.max + 1 /\ RasterLength(v) = t.v.max + 1
  BY <1>2, <1>3, <1>4 DEF RasterLength
<1>11. ("vsync" \in g.polarity) <=> (r.v.pol = 1)
  BY <1>8 DEF SetPolarity
<1>12. \A before \in SUBSET {"RU", "SOURCES", "GE", "SW", "DE"} :
         GeneratorStarted(Configured(GeneratorStopped(before))) \ {"DE"} = {"RU", "SOURCES", "GE", "SW"}
  BY DEF GeneratorStarted, Configured, GeneratorStopped
<1>13. Generates(r)
  <2>1. z.hsize = RasterLength(r.h) /\ z.vsize.low = RasterLength(r.v) BY <1>1, <1>9, <1>10
  <2>2. r.h.active = z.asize.low /\ z.asize.low < z.hsync.low
        /\ z.hsync.low < z.hsync.high /\ z.hsync.high < z.hsize
    BY <1>1, <1>2, <1>3, <1>9
  <2>3. r.v.active = z.asize.high /\ z.asize.high <= z.vsync.low
        /\ z.vsync.low < z.vsync.high /\ z.vsync.high < z.vsize.low
    BY <1>1, <1>2, <1>4, <1>9
  <2>4. g.offset.sync.low = z.hsync.low BY <1>9
  <2>5. SetGeneratorTiming(r).size = z /\ SetGeneratorTiming(r) = g BY <1>8 DEF g
  <2> QED BY <1>11, <1>12, <2>1, <2>2, <2>3, <2>4, <2>5, Zenon DEF Generates
<1>14. Detected(z) = Find(t.h.active, t.v.active)
  <2>1. GetDetectorTiming(z).h.active = z.asize.low /\ GetDetectorTiming(z).v.active = z.asize.high
    BY DEF GetDetectorTiming, GetDetector, ConvSignal2Timing
  <2> QED BY <1>3, <1>4, <1>9, <2>1 DEF Detected
<1> QED BY <1>10, <1>13, <1>14 DEF r, h, v, s, z


-----------------------------------------------------------------------------
(***************************************************************************)
(* The table.                                                              *)
(***************************************************************************)
LEMMA Modes ==
  /\ DOMAIN ModeTable = {"640x480", "800x600", "1280x720", "1280x1024", "1920x1080"}
  /\ ModeTable["640x480"] = Timing(100, Axis(640, 656, 752, 799, 0), Axis(480, 490, 492, 524, 0))
  /\ ModeTable["800x600"] = Timing(160, Axis(800, 840, 968, 1055, 1), Axis(600, 601, 605, 627, 1))
  /\ ModeTable["1280x720"] = Timing(297, Axis(1280, 1390, 1430, 1649, 1), Axis(720, 725, 730, 749, 1))
  /\ ModeTable["1280x1024"]
       = Timing(432, Axis(1280, 1328, 1440, 1687, 1), Axis(1024, 1025, 1028, 1065, 1))
  /\ ModeTable["1920x1080"]
       = Timing(594, Axis(1920, 2008, 2052, 2199, 1), Axis(1080, 1084, 1089, 1124, 1))
BY DEF ModeTable

(***************************************************************************)
(* The fields of an axis.                                                  *)
(***************************************************************************)
LEMMA AxisIs ==
  ASSUME NEW a, NEW b, NEW c, NEW d, NEW e
  PROVE  /\ Axis(a, b, c, d, e).active = a /\ Axis(a, b, c, d, e).start = b /\ Axis(a, b, c, d, e).end = c
         /\ Axis(a, b, c, d, e).max = d /\ Axis(a, b, c, d, e).pol = e
BY DEF Axis

(***************************************************************************)
(* The fields of a mode.                                                   *)
(***************************************************************************)
LEMMA TimingIs ==
  ASSUME NEW c, NEW h, NEW v
  PROVE  Timing(c, h, v).clock = c /\ Timing(c, h, v).h = h /\ Timing(c, h, v).v = v
BY DEF Timing

(***************************************************************************)
(* The size of a mode is no other mode's.                                  *)
(***************************************************************************)
LEMMA SizeIsOwn ==
  ASSUME NEW m \in DOMAIN ModeTable
  PROVE  Find(ModeTable[m].h.active, ModeTable[m].v.active) = {m}
<1> DEFINE w(k) == ModeTable[k].h.active
           h(k) == ModeTable[k].v.active
<1>1. /\ w("640x480") = 640 /\ w("800x600") = 800 /\ w("1280x720") = 1280 /\ w("1280x1024") = 1280
      /\ w("1920x1080") = 1920 /\ h("1280x720") = 720 /\ h("1280x1024") = 1024
  BY Modes, AxisIs, TimingIs
<1> HIDE DEF w, h
<1>2. \A k \in DOMAIN ModeTable : (w(k) = w(m) /\ h(k) = h(m)) => k = m
  BY <1>1, Modes
<1>3. Find(w(m), h(m)) = {m} BY <1>2 DEF Find, w, h
<1> QED BY <1>3 DEF w, h

(***************************************************************************)
(* Axes in order, and a clock within s of f that gives the raster about    *)
(* 60 frames a second.                                                     *)
(***************************************************************************)
Sixty(f, s, h, v, area) ==
  /\ Proper(h) /\ Proper(v) /\ f \in 100..600 /\ s \in {0, 10} /\ 1600 * s <= 250 * f
  /\ area \in Nat /\ area > 0 /\ area = (h.max + 1) * (v.max + 1)
  /\ 594 * area <= (250 * f - 8 * s) * 10000 /\ (250 * f + 8 * s) * 10000 <= 606 * area

(***************************************************************************)
(* Every pick the search may leave is near enough.                         *)
(***************************************************************************)
Picked(f, s) == \A p \in BestPicks(f) : Near(p, f, s)

(***************************************************************************)
(* A mode is displayable if its sync is in place, the search's picks are   *)
(* near enough, and its clock and raster make about 60 frames a second.    *)
(***************************************************************************)
LEMMA DisplayableIs ==
  ASSUME NEW m, NEW t, t = ModeTable[m], NEW f, t.clock = f, NEW s, Picked(f, s),
         NEW area, Sixty(f, s, t.h, t.v, area), Find(t.h.active, t.v.active) = {m}
  PROVE  Displayable(m)
<1>0. /\ Proper(t.h) /\ Proper(t.v) /\ f \in 100..600 /\ s \in {0, 10} /\ 1600 * s <= 250 * f
      /\ area \in Nat /\ area > 0 /\ area = (t.h.max + 1) * (t.v.max + 1)
      /\ 594 * area <= (250 * f - 8 * s) * 10000 /\ (250 * f + 8 * s) * 10000 <= 606 * area
  BY DEF Sixty
<1>1. /\ Generates(Raster(t)) /\ Detected(SetGenerator(ConvTiming2Signal(Raster(t)))) = {m}
      /\ RasterLength(Generator(t.h)) = t.h.max + 1 /\ RasterLength(Generator(t.v)) = t.v.max + 1
  <2>1. /\ Generates(Raster(t))
        /\ Detected(SetGenerator(ConvTiming2Signal(Raster(t)))) = Find(t.h.active, t.v.active)
        /\ RasterLength(Generator(t.h)) = t.h.max + 1 /\ RasterLength(Generator(t.v)) = t.v.max + 1
    <3>1. ASSUME NEW k, Proper(k.h), Proper(k.v)
          PROVE  /\ Generates(Raster(k))
                 /\ Detected(SetGenerator(ConvTiming2Signal(Raster(k)))) = Find(k.h.active, k.v.active)
                 /\ RasterLength(Generator(k.h)) = k.h.max + 1
                 /\ RasterLength(Generator(k.v)) = k.v.max + 1
      BY <3>1, RasterIs
    <3>2. Proper(t.h) /\ Proper(t.v) BY <1>0
    <3> QED BY <3>1, <3>2
  <2> QED BY <2>1
<1>2. ASSUME NEW p \in BestPicks(f)
      PROVE  /\ Accepts(p, f) /\ Encodable(p)
             /\ REFERENCE * p.fb >= 2400 * p.div /\ REFERENCE * p.fb <= 4800 * p.div
             /\ Abs(PixelClock(p) - 250 * f) * 200 <= 250 * f
             /\ Refresh(t, p) \in 594..606
  <2>0. Clocked(p, f, s) BY ClockIs DEF Picked
  <2>1. /\ Accepts(p, f) /\ Encodable(p)
        /\ REFERENCE * p.fb >= 2400 * p.div /\ REFERENCE * p.fb <= 4800 * p.div
        /\ PixelClock(p) \in Nat
        /\ 250 * f - 8 * s <= PixelClock(p) /\ PixelClock(p) <= 250 * f + 8 * s
    BY <2>0 DEF Clocked
  <2> DEFINE c == PixelClock(p)
  <2>2. Abs(PixelClock(p) - 250 * f) * 200 <= 250 * f BY <1>0, <2>1 DEF Abs
  <2>3. Refresh(t, p) = (c * 10000) \div area BY <1>0, <1>1 DEF Refresh
  <2>4. (c * 10000) \div area \in 594..606
    <3> HIDE DEF c
    <3>1. c \in Nat /\ 250 * f - 8 * s <= c /\ c <= 250 * f + 8 * s BY <2>1 DEF c
    <3> DEFINE n == c * 10000
               lo == 594
               hi == 606
    <3>2. n \in Nat /\ lo \in Nat /\ hi \in Nat /\ lo * area <= n /\ n <= hi * area BY <1>0, <3>1
    <3> HIDE DEF n, lo, hi
    <3>3. n \div area \in Nat /\ lo <= n \div area /\ n \div area <= hi BY <1>0, <3>2, Quotient
    <3> QED BY <3>3 DEF n, lo, hi
  <2>5. Refresh(t, p) \in 594..606 BY <2>3, <2>4
  <2> HIDE DEF c
  <2> QED BY <2>1, <2>2, <2>5
<1>3. \A p \in BestPicks(t.clock) :
        /\ Accepts(p, t.clock) /\ Encodable(p)
        /\ REFERENCE * p.fb >= 2400 * p.div /\ REFERENCE * p.fb <= 4800 * p.div
        /\ Abs(PixelClock(p) - 250 * t.clock) * 200 <= 250 * t.clock
        /\ Refresh(t, p) \in 594..606
  BY <1>2
<1> QED BY <1>1, <1>3 DEF Displayable

(***************************************************************************)
(* If a candidate is near enough, so is every pick the search leaves.      *)
(***************************************************************************)
LEMMA NearEnough ==
  ASSUME NEW f, NEW d, NEW b, NEW out, NEW s, Candidate(f, d, b, out), s \in {0, 10},
         Abs(400 * b - 5 * f * (d * out)) * 7 <= s * (d * out)
  PROVE  Picked(f, s)
<1>0. f \in 100..600 /\ d \in 1..10 /\ b \in (6 * d)..(12 * d) /\ out \in Nat \ {0} BY DEF Candidate
<1> SUFFICES ASSUME NEW p \in BestPicks(f) PROVE Near(p, f, s)
  BY DEF Picked
<1> DEFINE k == p.div * p.out
           l == d * out
           E == Abs(400 * p.fb - 5 * f * k)
           F == Abs(400 * b - 5 * f * l)
<1>1. Pick(p) /\ E * l <= F * k
  <2>1. Pick(p) /\ AsNear(p, f, d, b, out) BY BestIs
  <2> QED BY <2>1, Zenon DEF E, F, k, l, AsNear
<1>2. k \in Nat /\ k >= 1 /\ l \in Nat /\ l >= 1 BY <1>0, <1>1 DEF Pick
<1>3. E \in Nat /\ F \in Nat
  <2> HIDE DEF k, l
  <2>1. p.fb \in Nat BY <1>1 DEF Pick
  <2>2. 400 * p.fb - 5 * f * k \in Int /\ 400 * b - 5 * f * l \in Int BY <1>0, <1>2, <2>1
  <2>3. \A n \in Int : Abs(n) \in Nat BY DEF Abs
  <2> QED BY <2>2, <2>3
<1>4. F * 7 <= s * l OBVIOUS
<1> HIDE DEF E, F, k, l
<1>5. E * 7 <= s * k
  <2>1. (E * l) * 7 <= (F * k) * 7 BY <1>1, <1>2, <1>3
  <2>2. (F * 7) * k <= (s * l) * k BY <1>2, <1>3, <1>4
  <2>3. (E * 7) * l <= (s * k) * l BY <1>2, <1>3, <2>1, <2>2
  <2> SUFFICES ASSUME s * k + 1 <= E * 7 PROVE FALSE
    BY <1>2, <1>3
  <2>4. (s * k + 1) * l <= (E * 7) * l BY <1>2, <1>3
  <2>5. (s * k + 1) * l = (s * k) * l + l BY <1>2
  <2> QED BY <1>2, <1>3, <2>3, <2>4, <2>5
<1> QED BY <1>0, <1>1, <1>5 DEF E, k, Near

(***************************************************************************)
(* The search reaches three of the clocks, and the two others within half  *)
(* a thousandth.                                                           *)
(***************************************************************************)
LEMMA PicksAre ==
  /\ Picked(100, 0) /\ Picked(160, 0) /\ Picked(432, 0) /\ Picked(297, 10) /\ Picked(594, 10)
<1>1. Picked(100, 0)
  <2> DEFINE f == 100
             d == 1
             b == 10
             out == 8
             s == 0
  <2>1. /\ Candidate(f, d, b, out) /\ s \in {0, 10}
        /\ Abs(400 * b - 5 * f * (d * out)) * 7 <= s * (d * out)
    BY DEF Candidate, REFERENCE, Abs
  <2> HIDE DEF f, d, b, out, s
  <2>2. Picked(f, s) BY <2>1, NearEnough
  <2> QED BY <2>2 DEF f, s
<1>2. Picked(160, 0)
  <2> DEFINE f == 160
             d == 1
             b == 6
             out == 3
             s == 0
  <2>1. /\ Candidate(f, d, b, out) /\ s \in {0, 10}
        /\ Abs(400 * b - 5 * f * (d * out)) * 7 <= s * (d * out)
    BY DEF Candidate, REFERENCE, Abs
  <2> HIDE DEF f, d, b, out, s
  <2>2. Picked(f, s) BY <2>1, NearEnough
  <2> QED BY <2>2 DEF f, s
<1>3. Picked(432, 0)
  <2> DEFINE f == 432
             d == 5
             b == 54
             out == 2
             s == 0
  <2>1. /\ Candidate(f, d, b, out) /\ s \in {0, 10}
        /\ Abs(400 * b - 5 * f * (d * out)) * 7 <= s * (d * out)
    BY DEF Candidate, REFERENCE, Abs
  <2> HIDE DEF f, d, b, out, s
  <2>2. Picked(f, s) BY <2>1, NearEnough
  <2> QED BY <2>2 DEF f, s
<1>4. Picked(297, 10)
  <2> DEFINE f == 297
             d == 7
             b == 52
             out == 2
             s == 10
  <2>1. /\ Candidate(f, d, b, out) /\ s \in {0, 10}
        /\ Abs(400 * b - 5 * f * (d * out)) * 7 <= s * (d * out)
    BY DEF Candidate, REFERENCE, Abs
  <2> HIDE DEF f, d, b, out, s
  <2>2. Picked(f, s) BY <2>1, NearEnough
  <2> QED BY <2>2 DEF f, s
<1>5. Picked(594, 10)
  <2> DEFINE f == 594
             d == 7
             b == 52
             out == 1
             s == 10
  <2>1. /\ Candidate(f, d, b, out) /\ s \in {0, 10}
        /\ Abs(400 * b - 5 * f * (d * out)) * 7 <= s * (d * out)
    BY DEF Candidate, REFERENCE, Abs
  <2> HIDE DEF f, d, b, out, s
  <2>2. Picked(f, s) BY <2>1, NearEnough
  <2> QED BY <2>2 DEF f, s
<1> QED BY <1>1, <1>2, <1>3, <1>4, <1>5

(***************************************************************************)
(* A mode of the table whose axes are in order and whose clock the search  *)
(* reaches is displayable.                                                 *)
(***************************************************************************)
LEMMA ModeIsDisplayable ==
  ASSUME NEW m \in DOMAIN ModeTable, NEW f, NEW s, NEW h, NEW v, NEW area,
         ModeTable[m] = Timing(f, h, v), Picked(f, s), Sixty(f, s, h, v, area)
  PROVE  Displayable(m)
<1> DEFINE t == ModeTable[m]
<1>1. t.clock = f /\ t.h = h /\ t.v = v BY TimingIs
<1>2. Find(t.h.active, t.v.active) = {m} BY SizeIsOwn, Zenon
<1>3. t = ModeTable[m] OBVIOUS
<1> HIDE DEF t
<1>4. Sixty(f, s, t.h, t.v, area) BY <1>1
<1> QED BY <1>1, <1>2, <1>3, <1>4, DisplayableIs

(***************************************************************************)
(* Every mode of the table of video_modes.c is displayable.                *)
(***************************************************************************)
THEOREM ModesAreDisplayable ==
  ASSUME NEW m \in DOMAIN ModeTable
  PROVE  Displayable(m)
<1>1. Displayable("640x480")
  <2> DEFINE m0 == "640x480"
             f == 100
             s == 0
             h == Axis(640, 656, 752, 799, 0)
             v == Axis(480, 490, 492, 524, 0)
             area == 420000
  <2>1. m0 \in DOMAIN ModeTable /\ ModeTable[m0] = Timing(f, h, v) BY Modes
  <2>2. Proper(h) /\ Proper(v) /\ h.max = 799 /\ v.max = 524 BY AxisIs DEF Proper
  <2>3. Picked(f, s) BY PicksAre
  <2> HIDE DEF m0, h, v
  <2>4. /\ f \in 100..600 /\ s \in {0, 10} /\ 1600 * s <= 250 * f
        /\ area \in Nat /\ area = (h.max + 1) * (v.max + 1) /\ area > 0
        /\ 594 * area <= (250 * f - 8 * s) * 10000 /\ (250 * f + 8 * s) * 10000 <= 606 * area
    BY <2>2
  <2> HIDE DEF f, s, area
  <2>5. Sixty(f, s, h, v, area) BY <2>2, <2>4 DEF Sixty
  <2>6. Displayable(m0) BY <2>1, <2>3, <2>5, ModeIsDisplayable
  <2> QED BY <2>6, Zenon DEF m0
<1>2. Displayable("800x600")
  <2> DEFINE m0 == "800x600"
             f == 160
             s == 0
             h == Axis(800, 840, 968, 1055, 1)
             v == Axis(600, 601, 605, 627, 1)
             area == 663168
  <2>1. m0 \in DOMAIN ModeTable /\ ModeTable[m0] = Timing(f, h, v) BY Modes
  <2>2. Proper(h) /\ Proper(v) /\ h.max = 1055 /\ v.max = 627 BY AxisIs DEF Proper
  <2>3. Picked(f, s) BY PicksAre
  <2> HIDE DEF m0, h, v
  <2>4. /\ f \in 100..600 /\ s \in {0, 10} /\ 1600 * s <= 250 * f
        /\ area \in Nat /\ area = (h.max + 1) * (v.max + 1) /\ area > 0
        /\ 594 * area <= (250 * f - 8 * s) * 10000 /\ (250 * f + 8 * s) * 10000 <= 606 * area
    BY <2>2
  <2> HIDE DEF f, s, area
  <2>5. Sixty(f, s, h, v, area) BY <2>2, <2>4 DEF Sixty
  <2>6. Displayable(m0) BY <2>1, <2>3, <2>5, ModeIsDisplayable
  <2> QED BY <2>6, Zenon DEF m0
<1>3. Displayable("1280x720")
  <2> DEFINE m0 == "1280x720"
             f == 297
             s == 10
             h == Axis(1280, 1390, 1430, 1649, 1)
             v == Axis(720, 725, 730, 749, 1)
             area == 1237500
  <2>1. m0 \in DOMAIN ModeTable /\ ModeTable[m0] = Timing(f, h, v) BY Modes
  <2>2. Proper(h) /\ Proper(v) /\ h.max = 1649 /\ v.max = 749 BY AxisIs DEF Proper
  <2>3. Picked(f, s) BY PicksAre
  <2> HIDE DEF m0, h, v
  <2>4. /\ f \in 100..600 /\ s \in {0, 10} /\ 1600 * s <= 250 * f
        /\ area \in Nat /\ area = (h.max + 1) * (v.max + 1) /\ area > 0
        /\ 594 * area <= (250 * f - 8 * s) * 10000 /\ (250 * f + 8 * s) * 10000 <= 606 * area
    BY <2>2
  <2> HIDE DEF f, s, area
  <2>5. Sixty(f, s, h, v, area) BY <2>2, <2>4 DEF Sixty
  <2>6. Displayable(m0) BY <2>1, <2>3, <2>5, ModeIsDisplayable
  <2> QED BY <2>6, Zenon DEF m0
<1>4. Displayable("1280x1024")
  <2> DEFINE m0 == "1280x1024"
             f == 432
             s == 0
             h == Axis(1280, 1328, 1440, 1687, 1)
             v == Axis(1024, 1025, 1028, 1065, 1)
             area == 1799408
  <2>1. m0 \in DOMAIN ModeTable /\ ModeTable[m0] = Timing(f, h, v) BY Modes
  <2>2. Proper(h) /\ Proper(v) /\ h.max = 1687 /\ v.max = 1065 BY AxisIs DEF Proper
  <2>3. Picked(f, s) BY PicksAre
  <2> HIDE DEF m0, h, v
  <2>4. /\ f \in 100..600 /\ s \in {0, 10} /\ 1600 * s <= 250 * f
        /\ area \in Nat /\ area = (h.max + 1) * (v.max + 1) /\ area > 0
        /\ 594 * area <= (250 * f - 8 * s) * 10000 /\ (250 * f + 8 * s) * 10000 <= 606 * area
    BY <2>2
  <2> HIDE DEF f, s, area
  <2>5. Sixty(f, s, h, v, area) BY <2>2, <2>4 DEF Sixty
  <2>6. Displayable(m0) BY <2>1, <2>3, <2>5, ModeIsDisplayable
  <2> QED BY <2>6, Zenon DEF m0
<1>5. Displayable("1920x1080")
  <2> DEFINE m0 == "1920x1080"
             f == 594
             s == 10
             h == Axis(1920, 2008, 2052, 2199, 1)
             v == Axis(1080, 1084, 1089, 1124, 1)
             area == 2475000
  <2>1. m0 \in DOMAIN ModeTable /\ ModeTable[m0] = Timing(f, h, v) BY Modes
  <2>2. Proper(h) /\ Proper(v) /\ h.max = 2199 /\ v.max = 1124 BY AxisIs DEF Proper
  <2>3. Picked(f, s) BY PicksAre
  <2> HIDE DEF m0, h, v
  <2>4. /\ f \in 100..600 /\ s \in {0, 10} /\ 1600 * s <= 250 * f
        /\ area \in Nat /\ area = (h.max + 1) * (v.max + 1) /\ area > 0
        /\ 594 * area <= (250 * f - 8 * s) * 10000 /\ (250 * f + 8 * s) * 10000 <= 606 * area
    BY <2>2
  <2> HIDE DEF f, s, area
  <2>5. Sixty(f, s, h, v, area) BY <2>2, <2>4 DEF Sixty
  <2>6. Displayable(m0) BY <2>1, <2>3, <2>5, ModeIsDisplayable
  <2> QED BY <2>6, Zenon DEF m0
<1> QED BY <1>1, <1>2, <1>3, <1>4, <1>5, Modes

(***************************************************************************)
(* Whatever the source sends and wherever a start fails, the output runs   *)
(* in a mode a display can show.                                           *)
(***************************************************************************)
THEOREM OutputIsAlwaysDisplayable ==
  ASSUME Supported \subseteq DOMAIN ModeTable
  PROVE  Spec => []OutputIsDisplayable
<1>1. VInv => OutputIsDisplayable
  <2> SUFFICES ASSUME VInv PROVE OutputIsDisplayable
    OBVIOUS
  <2>1. pipe.gen \in Supported \cup {NoTiming} /\ pipe.clk \in Supported \cup {NoTiming}
    BY DEF VInv, TypeOK, Pipe
  <2>2. ASSUME pipe.gen # NoTiming
        PROVE  Find(ModeTable[pipe.gen].h.active, ModeTable[pipe.gen].v.active) = {pipe.gen}
    BY <2>1, <2>2, SizeIsOwn
  <2>3. ASSUME pipe.clk # NoTiming PROVE Displayable(pipe.clk)
    BY <2>1, <2>3, ModesAreDisplayable
  <2> QED BY <2>2, <2>3 DEF OutputIsDisplayable
<1> QED BY <1>1, VideoInvariant, PTL
=============================================================================
