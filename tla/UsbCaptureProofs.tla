-------------------------- MODULE UsbCaptureProofs --------------------------
(***************************************************************************)
(* Proofs about UsbCapture: whatever the device does, for every chunk size *)
(* and every number of recoveries, the device is released once nobody uses *)
(* it, and a stop is never reported as a fault.                            *)
(***************************************************************************)
EXTENDS UsbCapture, TLAPS

(***************************************************************************)
(* The thread lives from its creation to its join, and is done when it has *)
(* left its loop.                                                          *)
(***************************************************************************)
ThreadLives ==
  /\ qv \in {"start", "opened", "configured", "failed"} => t = "none"
  /\ (qv = "joined") <=> (t = "joined")
  /\ done => t \in {"ended", "joined"}

(***************************************************************************)
(* Only a stop drops the stream, after its flag, so the error of a dropped *)
(* stream leads out of the loop; and the thread decides upon the error of  *)
(* a read.                                                                 *)
(***************************************************************************)
DroppedByStop ==
  /\ qv \in {"flagged", "waiting", "joined"} => abort
  /\ pcm = "dropped" \/ err = "EBADFD" => abort
  /\ err = "EBADFD" => t \in {"decide", "exit", "ended", "joined"}
  /\ t = "decide" => err # "none"

UInv == TypeOK /\ DeviceReleased /\ ThreadLives /\ DroppedByStop

LEMMA UInit == Init => UInv
<1> SUFFICES ASSUME Init PROVE UInv
  OBVIOUS
<1>1. frames \in 0..ChunkFrames /\ recoveries \in 0..MaxRecoveries
  BY CaptureAssumption DEF CaptureAssumption, Init
<1>2. TypeOK BY <1>1 DEF Init, TypeOK, Errors
<1>3. DeviceReleased /\ ThreadLives /\ DroppedByStop
  BY DEF Init, DeviceReleased, ThreadLives, DroppedByStop
<1> QED BY <1>2, <1>3 DEF UInv

-----------------------------------------------------------------------------
(***************************************************************************)
(* The event loop: starting and stopping.                                  *)
(***************************************************************************)
LEMMA EventLoopKeeps ==
  ASSUME UInv, Starting \/ Stopping \/ RequestStop PROVE UInv'
<1> USE CaptureAssumption DEF CaptureAssumption, UInv, TypeOK, DeviceReleased, ThreadLives, DroppedByStop, Errors, chunk, stream, counts
<1>1. CASE Open BY <1>1 DEF Open, StartStage
<1>2. CASE Configure BY <1>2 DEF Configure, StartStage
<1>3. CASE CreateThread BY <1>3 DEF CreateThread, StartStage
<1>4. CASE OpenFails BY <1>4 DEF OpenFails, StartStage
<1>5. CASE ConfigureFails BY <1>5 DEF ConfigureFails, StartStage
<1>6. CASE CreateFails BY <1>6 DEF CreateFails, StartStage
<1>7. CASE Abort BY <1>7 DEF Abort
<1>8. CASE Drop BY <1>8 DEF Drop, Dropped
<1>9. CASE FinishStop BY <1>9 DEF FinishStop
<1>10. CASE RequestStop BY <1>10 DEF RequestStop
<1> QED BY <1>1, <1>2, <1>3, <1>4, <1>5, <1>6, <1>7, <1>8, <1>9, <1>10 DEF Starting, Stopping

(***************************************************************************)
(* The capture thread, and the device.                                     *)
(***************************************************************************)
LEMMA ThreadKeeps ==
  ASSUME UInv, Thread \/ Device PROVE UInv'
<1> USE CaptureAssumption DEF CaptureAssumption, UInv, TypeOK, DeviceReleased, ThreadLives, DroppedByStop, Errors, chunk, stream, counts
<1>1. CASE Loop BY <1>1 DEF Loop
<1>2. CASE Check BY <1>2 DEF Check
<1>3. CASE Read BY <1>3 DEF Read, Readable
<1>4. CASE ReadFails BY <1>4 DEF ReadFails, ReadError, Readable
<1>5. CASE Decide
  <2>1. CASE abort /\ t' = "exit" /\ UNCHANGED <<recoveries, stream>>
    BY <1>5, <2>1 DEF Decide
  <2>2. CASE ~abort /\ ~Transient /\ Fail /\ UNCHANGED recoveries
    BY <1>5, <2>2 DEF Decide, Fail
  <2>3. CASE ~abort /\ Transient /\ t' = "recover" /\ recoveries' = recoveries + 1 /\ UNCHANGED stream
    BY <1>5, <2>3 DEF Decide, Transient
  <2> QED BY <1>5, <2>1, <2>2, <2>3 DEF Decide
<1>6. CASE Resume BY <1>6 DEF Resume
<1>7. CASE Prepare BY <1>7 DEF Prepare
<1>8. CASE CannotRecover BY <1>8 DEF CannotRecover, Fail
<1>9. CASE Submit BY <1>9 DEF Submit
<1>12. CASE ClockFails BY <1>12 DEF ClockFails, Fail
<1>10. CASE Exit BY <1>10 DEF Exit
<1>11. CASE Device BY <1>11 DEF Device
<1> QED BY <1>1, <1>2, <1>3, <1>4, <1>5, <1>6, <1>7, <1>8, <1>9, <1>10, <1>11, <1>12 DEF Thread

LEMMA Invariant == Spec => []UInv
<1>1. UInv /\ [Next]_vars => UInv'
  <2> SUFFICES ASSUME UInv, [Next]_vars PROVE UInv'
    OBVIOUS
  <2>1. CASE Starting \/ Stopping \/ RequestStop BY <2>1, EventLoopKeeps
  <2>2. CASE Thread \/ Device BY <2>2, ThreadKeeps
  <2>3. CASE UNCHANGED vars
    BY <2>3 DEF vars, chunk, stream, counts, UInv, TypeOK, DeviceReleased, ThreadLives, DroppedByStop
  <2> QED BY <2>1, <2>2, <2>3 DEF Next
<1> QED BY UInit, <1>1, PTL DEF Spec

(***************************************************************************)
(* usb_audio_stream_start and _finish_stop: the device is open exactly     *)
(* while the start is under way or the thread may use it.                  *)
(***************************************************************************)
THEOREM DeviceIsReleased == Spec => []DeviceReleased
BY Invariant, PTL DEF UInv

-----------------------------------------------------------------------------
(***************************************************************************)
(* usb_audio_capture_recovery_decision: what makes the thread report a     *)
(* fault is never the drop of a stop, and no read is given up early.       *)
(***************************************************************************)
Real == /\ err # "EBADFD"
        /\ t = "decide" => ~abort /\ (err = "ENODEV" \/ recoveries = MaxRecoveries)

LEMMA FaultIsReal == UInv /\ [Next]_vars => (~fatal /\ fatal' => Real)
<1> SUFFICES ASSUME UInv, [Next]_vars, ~fatal, fatal' PROVE Real
  OBVIOUS
<1>1. Decide \/ CannotRecover \/ ClockFails
  BY DEF Next, Thread, Starting, Stopping, Device, Loop, Check, Read, ReadFails, Resume, Prepare, Submit, Exit,
         Open, Configure, CreateThread, OpenFails, ConfigureFails, CreateFails, StartStage, Abort, Drop,
         FinishStop, RequestStop, vars, chunk, stream, counts
<1>2. CASE Decide
  <2>1. ~abort /\ ~Transient /\ t = "decide"
    BY <1>2 DEF Decide, Fail, stream
  <2>2. err \in {"ENODEV", "empty", "EPIPE", "ESTRPIPE"}
    BY <2>1 DEF UInv, DroppedByStop, TypeOK, Errors
  <2>3. recoveries < MaxRecoveries \/ recoveries = MaxRecoveries
    BY CaptureAssumption DEF CaptureAssumption, UInv, TypeOK
  <2> QED BY <2>1, <2>2, <2>3 DEF Transient, Real
<1>3. CASE CannotRecover \/ ClockFails
  <2>1. t \in {"recover", "submit"}
    BY <1>3 DEF CannotRecover, ClockFails
  <2> QED BY <2>1 DEF UInv, DroppedByStop, Real
<1> QED BY <1>1, <1>2, <1>3

(***************************************************************************)
(* A stop that finds the thread anywhere is not taken for a fault.         *)
(***************************************************************************)
THEOREM StopIsNoFault == Spec => FaultsAreReal
<1>1. UInv /\ [Next]_vars => [~fatal /\ fatal' => Real]_vars
  BY FaultIsReal
<1> QED BY Invariant, <1>1, PTL DEF Spec, FaultsAreReal, Real
=============================================================================
