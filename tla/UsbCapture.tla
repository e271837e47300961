----------------------------- MODULE UsbCapture -----------------------------
(***************************************************************************)
(* The USB audio capture: the capture thread (usb_audio_stream.c) reads    *)
(* one chunk after another from ALSA (usb_audio_capture.c), recovers from  *)
(* overruns and suspends, and hands each chunk to the sink; the QV thread  *)
(* (USBAudioAO) opens the device in stages, starts the thread, asks it to  *)
(* stop while it may be anywhere, then joins it.                           *)
(***************************************************************************)
EXTENDS Integers

CONSTANTS ChunkFrames,    \* config.samples_per_chunk
          MaxRecoveries,  \* USB_AUDIO_CAPTURE_MAX_RECOVERIES
          MaxChunks       \* bound: chunks captured

ASSUME CaptureAssumption == ChunkFrames \in Nat \ {0} /\ MaxRecoveries \in Nat

VARIABLES
  t,                      \* where the capture thread is
  pcm,                    \* the ALSA device
  err,                    \* what the last read returned
  frames, recoveries,     \* frames_done, recoveries of the chunk
  abort,                  \* capture.abort_requested
  stopReq, fatal, done,   \* stream.stop_requested, fatal_error, worker_done
  qv,                     \* the QV thread: how far its start or its stop is
  sequence, dropped       \* next_sequence, total_dropped

chunk  == <<frames, recoveries>>
stream == <<stopReq, fatal, done>>
counts == <<sequence, dropped>>
vars   == <<t, pcm, err, chunk, abort, stream, qv, counts>>

Errors == {"none", "empty", "EPIPE", "ESTRPIPE", "EBADFD", "ENODEV"}

Init ==
  /\ t = "none" /\ pcm = "closed" /\ err = "none"
  /\ frames = 0 /\ recoveries = 0
  /\ abort = FALSE /\ stopReq = FALSE /\ fatal = FALSE /\ done = FALSE
  /\ qv = "start"
  /\ sequence = 0 /\ dropped = 0

-----------------------------------------------------------------------------
(***************************************************************************)
(* usb_audio_stream_start, by its stages: usb_audio_capture_init opens the *)
(* device and configures it, and the thread is created.  The first stage   *)
(* that fails gives back what the earlier ones took.                       *)
(***************************************************************************)
StartStage(from, to) ==
  /\ qv = from /\ qv' = to
  /\ UNCHANGED <<err, chunk, abort, stream, counts>>

Open == StartStage("start", "opened") /\ pcm' = "prepared" /\ UNCHANGED t

Configure ==
  /\ pcm = "prepared" /\ StartStage("opened", "configured")
  /\ UNCHANGED <<t, pcm>>

CreateThread == StartStage("configured", "idle") /\ t' = "loop" /\ UNCHANGED pcm

OpenFails == StartStage("start", "failed") /\ UNCHANGED <<t, pcm>>
ConfigureFails == StartStage("opened", "failed") /\ pcm' = "closed" /\ UNCHANGED t

MutCreateFails == StartStage("configured", "failed") /\ UNCHANGED <<t, pcm>>

CreateFails == StartStage("configured", "failed") /\ pcm' = "closed" /\ UNCHANGED t

-----------------------------------------------------------------------------
(***************************************************************************)
(* The device, as the driver uses it: it overruns, is suspended by the     *)
(* power management and is unplugged.                                      *)
(***************************************************************************)
Device ==
  /\ \/ pcm = "running" /\ pcm' \in {"xrun", "suspended"}
     \/ pcm \notin {"gone", "closed"} /\ pcm' = "gone"
  /\ UNCHANGED <<t, err, chunk, abort, stream, qv, counts>>

(***************************************************************************)
(* What snd_pcm_readi answers in each state of the device: one that runs,  *)
(* or that the read starts, gives frames, or none.                         *)
(***************************************************************************)
Readable == {"prepared", "running"}

ReadError ==
  CASE pcm \in Readable -> "empty"
    [] pcm = "xrun"      -> "EPIPE"
    [] pcm = "suspended" -> "ESTRPIPE"
    [] pcm = "dropped"   -> "EBADFD"
    [] pcm = "gone"      -> "ENODEV"

-----------------------------------------------------------------------------
(***************************************************************************)
(* capture_thread_main and usb_audio_capture_read_chunk, by steps.         *)
(***************************************************************************)
Loop ==
  /\ t = "loop"
  /\ t' = IF stopReq THEN "exit" ELSE "check"
  /\ frames' = 0 /\ recoveries' = 0 /\ err' = "none"
  /\ UNCHANGED <<pcm, abort, stream, qv, counts>>

(***************************************************************************)
(* The chunk is whole, or the read was aborted: a requested stop, no       *)
(* fault.                                                                  *)
(***************************************************************************)
Check ==
  /\ t = "check"
  /\ t' = IF frames = ChunkFrames THEN "submit" ELSE IF abort THEN "exit" ELSE "read"
  /\ UNCHANGED <<pcm, err, chunk, abort, stream, qv, counts>>

Read ==
  /\ t = "read" /\ pcm \in Readable /\ pcm' = "running"
  /\ \E got \in 1..(ChunkFrames - frames) : frames' = frames + got
  /\ t' = "check"
  /\ UNCHANGED <<err, recoveries, abort, stream, qv, counts>>

ReadFails ==
  /\ t = "read" /\ err' = ReadError /\ t' = "decide"
  /\ UNCHANGED <<pcm, chunk, abort, stream, qv, counts>>

(***************************************************************************)
(* usb_audio_capture_recovery_decision: a stop outranks any recovery; only *)
(* an overrun, a suspend or an empty read are transient, and not for ever. *)
(***************************************************************************)
Transient == err \in {"EPIPE", "ESTRPIPE", "empty"} /\ recoveries < MaxRecoveries

MutFail == fatal' = TRUE /\ stopReq' = TRUE /\ t' = "ended" /\ UNCHANGED done

(***************************************************************************)
(* stream_set_fatal_error, and out of the loop.                            *)
(***************************************************************************)
Fail == fatal' = TRUE /\ stopReq' = TRUE /\ t' = "exit" /\ UNCHANGED done

Decide ==
  /\ t = "decide"
  /\ \/ abort /\ t' = "exit" /\ UNCHANGED <<recoveries, stream>>
     \/ ~abort /\ ~Transient /\ Fail /\ UNCHANGED recoveries
     \/ ~abort /\ Transient /\ t' = "recover" /\ recoveries' = recoveries + 1
        /\ UNCHANGED stream
  /\ UNCHANGED <<pcm, err, frames, abort, qv, counts>>

(***************************************************************************)
(* recover_pcm: snd_pcm_resume, again and again while it answers -EAGAIN;  *)
(* when it fails, and after an overrun, snd_pcm_prepare, which may fail    *)
(* too, on any device.  An empty read it does not know: the capture fails. *)
(***************************************************************************)
Resume ==
  /\ t = "recover" /\ err = "ESTRPIPE" /\ pcm = "suspended"
  /\ pcm' = "running" /\ t' = "check"
  /\ UNCHANGED <<err, chunk, abort, stream, qv, counts>>

Prepare ==
  /\ t = "recover" /\ err \in {"EPIPE", "ESTRPIPE"} /\ pcm # "gone"
  /\ pcm' = "prepared" /\ t' = "check"
  /\ UNCHANGED <<err, chunk, abort, stream, qv, counts>>

CannotRecover ==
  /\ t = "recover" /\ Fail
  /\ UNCHANGED <<pcm, err, chunk, abort, qv, counts>>

(***************************************************************************)
(* The whole chunk is metered, stamped with the monotonic clock, numbered  *)
(* and given to the sink, which may refuse it.  A clock that cannot be     *)
(* read ends the capture before the chunk has a number.                    *)
(***************************************************************************)
Submit ==
  /\ t = "submit" /\ t' = "loop"
  /\ stopReq \/ sequence < MaxChunks
  /\ sequence' = sequence + 1
  /\ dropped' \in {dropped, dropped + 1}
  /\ UNCHANGED <<pcm, err, chunk, abort, stream, qv>>

ClockFails ==
  /\ t = "submit" /\ Fail
  /\ UNCHANGED <<pcm, err, chunk, abort, qv, counts>>

Exit ==
  /\ t = "exit" /\ done' = TRUE /\ t' = "ended"
  /\ UNCHANGED <<pcm, err, chunk, abort, stopReq, fatal, qv, counts>>

-----------------------------------------------------------------------------
(***************************************************************************)
(* usb_audio_stream_request_stop: the request, the abort flag, and then    *)
(* snd_pcm_drop, which ends a read that waits.                             *)
(***************************************************************************)
RequestStop ==
  /\ qv = "idle" /\ stopReq' = TRUE /\ qv' = "asked"
  /\ UNCHANGED <<t, pcm, err, chunk, abort, fatal, done, counts>>

Dropped == IF pcm = "gone" THEN "gone" ELSE "dropped"

MutAbort ==
  /\ qv = "asked" /\ pcm' = Dropped /\ qv' = "flagged"
  /\ UNCHANGED <<t, err, chunk, abort, stream, counts>>

Abort ==
  /\ qv = "asked" /\ abort' = TRUE /\ qv' = "flagged"
  /\ UNCHANGED <<t, pcm, err, chunk, stream, counts>>

Drop ==
  /\ qv = "flagged" /\ pcm' = Dropped /\ qv' = "waiting"
  /\ UNCHANGED <<t, err, chunk, abort, stream, counts>>

(***************************************************************************)
(* usb_audio_stream_finish_stop, once _stop_complete holds: the join, then *)
(* usb_audio_capture_cleanup.                                              *)
(***************************************************************************)
FinishStop ==
  /\ qv = "waiting" /\ done
  /\ qv' = "joined" /\ t' = "joined" /\ pcm' = "closed"
  /\ UNCHANGED <<err, chunk, abort, stream, counts>>

Thread == Loop \/ Check \/ Read \/ ReadFails \/ Decide \/ Resume \/ Prepare
          \/ CannotRecover \/ Submit \/ ClockFails \/ Exit
Starting == Open \/ Configure \/ CreateThread \/ OpenFails \/ ConfigureFails \/ CreateFails
Stopping == Abort \/ Drop \/ FinishStop

Next == Thread \/ Starting \/ Stopping \/ RequestStop \/ Device

(***************************************************************************)
(* The thread and the stop are scheduled; a read of a running device, and  *)
(* a resume, answer some time.  Nobody has to ask for a stop.              *)
(***************************************************************************)
Spec == Init /\ [][Next]_vars /\ WF_vars(Thread) /\ WF_vars(Stopping)

-----------------------------------------------------------------------------
TypeOK ==
  /\ t \in {"none", "loop", "check", "read", "decide", "recover", "submit", "exit", "ended", "joined"}
  /\ pcm \in {"closed", "prepared", "running", "xrun", "suspended", "dropped", "gone"} /\ err \in Errors
  /\ frames \in 0..ChunkFrames /\ recoveries \in 0..MaxRecoveries
  /\ abort \in BOOLEAN /\ stopReq \in BOOLEAN /\ fatal \in BOOLEAN /\ done \in BOOLEAN
  /\ qv \in {"start", "opened", "configured", "failed", "idle", "asked", "flagged", "waiting", "joined"}
  /\ sequence \in Nat /\ dropped \in Nat

(***************************************************************************)
(* A stop, wherever it finds the thread, is never taken for a fault ("A    *)
(* requested stop, not a fault"): the error with which a read answers the  *)
(* stop's snd_pcm_drop is never reported, nor any error of a read that     *)
(* fails after the flag.  And no read is given up early: only the loss of  *)
(* the device, or a transient error after the last of its recoveries.      *)
(* What recover_pcm fails to recover, and a clock that cannot be read, are *)
(* faults at any time.                                                     *)
(***************************************************************************)
FaultsAreReal ==
  [][~fatal /\ fatal' =>
       /\ err # "EBADFD"
       /\ t = "decide" => ~abort /\ (err = "ENODEV" \/ recoveries = MaxRecoveries)]_vars

(***************************************************************************)
(* A stop, and a fault, end the thread whatever state the device is in     *)
(* ("this cannot outlive a stop request").                                 *)
(***************************************************************************)
CaptureEnds == stopReq ~> done

(***************************************************************************)
(* The device is open exactly while the start is under way or a thread may *)
(* use it: every stage that fails, and the stop, give it back, and not     *)
(* before the thread has left it.                                          *)
(***************************************************************************)
DeviceReleased ==
  /\ (pcm = "closed") = (qv \in {"start", "failed", "joined"})
  /\ t \notin {"none", "ended", "joined"} => qv \in {"idle", "asked", "flagged", "waiting"}
=============================================================================
