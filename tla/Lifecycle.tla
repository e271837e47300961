------------------------------ MODULE Lifecycle ------------------------------
(***************************************************************************)
(* Coordinated start-up, operation and fail-fast shutdown of the firmware: *)
(* SystemAO and the four service active objects it coordinates, the two    *)
(* worker threads (ALSA capture, STT network), the QP time events, the     *)
(* signal flag and the shared register mapping.                            *)
(*                                                                         *)
(* A handler runs to completion on the one QV thread, so each branch of a  *)
(* handler is one action; worker threads, the ticker and the signal        *)
(* handler interleave between handlers.                                    *)
(*                                                                         *)
(* Bounds: MaxAnnounced (announcements of the source that wait for         *)
(* SystemAO at a time; how often it comes and goes is not bounded), Behind *)
(* (how many events may wait for SystemAO when its 5 s diagnostic timer    *)
(* expires), TickBacklog (events of one time event waiting in a queue: 1   *)
(* says the QV thread never falls a whole period behind), MaxText (caption *)
(* events waiting for SubtitleAO), BusyTicks (whether a periodic timer may *)
(* expire while events are waiting, or only when the QV thread is idle).   *)
(***************************************************************************)
EXTENDS QvKernel, HwPlatform

CONSTANTS MaxAnnounced, Behind, TickBacklog, MaxText, BusyTicks

ASSUME BoundsAssumption == /\ MaxAnnounced \in Nat /\ Behind \subseteq Nat
                           /\ TickBacklog \in Nat \ {0}
                           /\ MaxText \in Nat
                           /\ BusyTicks \in BOOLEAN

VARIABLES
  sysState,       \* SystemAO: "init" | "run" | "stopping"
  readyMask,      \* ready_mask, as the set of its bits
  stoppedMask,    \* stopped_mask
  subtitleInit,   \* subtitle_init_requested
  timedOut,       \* history: the shutdown timeout ended the program
  ao,             \* state of each component's state machine
  running,        \* me->running; platform_ready (subtitle); client # NULL (stt)
  armed,          \* the armed time events
  worker,         \* the thread of usb and stt
  stopReq,        \* stop_requested of the thread
  fatal,          \* fatal_error of the capture thread
  activeClient,   \* g_active_client is set
  sinkBound,      \* the capture sink's ctx is a client
  stream,         \* mode the video pipeline streams, or NoMode
  readyPosted,    \* VideoAO's ready_posted
  subtitleDim,    \* dimensions the subtitle pipeline is configured for
  sigPending,     \* shutdown_signal_pending
  sigPosted       \* shutdown_event_posted

sysVars    == <<sysState, readyMask, stoppedMask, subtitleInit, timedOut>>
aoVars     == <<ao, running, armed>>
workerVars == <<worker, stopReq, fatal, activeClient, sinkBound>>
videoVars  == <<stream, readyPosted>>
hwVars     == <<refcount, mapped>>
sigVars    == <<sigPending, sigPosted>>
vars == <<queue, proc, sysVars, aoVars, workerVars, videoVars, hwVars, sigVars,
          subtitleDim>>

Threaded == {"usb", "stt"}        \* components that own a worker thread
Polled   == {"video", "usb", "stt"} \* components with a periodic poll timer
Timer    == Polled \cup {"init", "shutdown"}

(***************************************************************************)
(* Signals each state acts on.  Everything else reaches QHsm_top (or an    *)
(* empty case) and is dropped.                                             *)
(***************************************************************************)
Accepts(a) ==
    IF a = "system"
    THEN CASE sysState = "init"     -> {"READY", "ERROR", "SHUTDOWN"}
           [] sysState = "run"      -> {"ERROR", "SHUTDOWN"}
           [] sysState = "stopping" -> {"STOPPED", "SHUTDOWN_TIMEOUT"}
    ELSE CASE ao[a] = "idle"     -> {"INIT", "STOP"}
           [] ao[a] = "up"       ->
                  {"STOP"} \cup (IF a = "subtitle" THEN {"TEXT", "READY"}
                                               ELSE {"POLL"})
           [] ao[a] = "error"    -> {"STOP"}
           [] ao[a] = "stopping" -> {"POLL"}
           [] ao[a] = "stopped"  -> {}

(***************************************************************************)
(* app_init: the services' queues exist before SystemAO starts, last; its  *)
(* initial transition enters system_ao_init, which arms the diagnostic     *)
(* timer and posts COMPONENT_INIT to video, usb-audio and stt (empty       *)
(* queues: the posts cannot fail).  The event loop starts after that.      *)
(***************************************************************************)
Init ==
  /\ queue = [a \in AO |-> IF a \in Polled THEN <<Evt("INIT", a)>> ELSE <<>>]
  /\ proc = "running"
  /\ HwInit
  /\ sysState = "init"
  /\ readyMask = {}
  /\ stoppedMask = {}
  /\ subtitleInit = FALSE
  /\ timedOut = FALSE
  /\ ao = [c \in Comp |-> "idle"]
  /\ running = [c \in Comp |-> FALSE]
  /\ armed = {"init"}
  /\ worker = [c \in Threaded |-> "none"]
  /\ stopReq = [c \in Threaded |-> FALSE]
  /\ fatal = FALSE
  /\ activeClient = FALSE
  /\ sinkBound = FALSE
  /\ stream = NoMode
  /\ readyPosted = FALSE
  /\ subtitleDim = NoMode
  /\ sigPending = FALSE
  /\ sigPosted = FALSE

MutReportError(c) ==
    queue' = IF running[c] THEN PostX(Popped(c), "system", Evt("ERROR", c), ERROR_MARGIN)
             ELSE Popped(c)

(***************************************************************************)
(* post_ready, post_error, post_stopped of the four services: an event to  *)
(* SystemAO that a short queue refuses.  The caller's event is gone.       *)
(***************************************************************************)
ReportReady(c, dim) ==
    queue' = PostX(Popped(c), "system", DimEvt("READY", c, dim), CONTROL_MARGIN)
ReportError(c)   == queue' = PostX(Popped(c), "system", Evt("ERROR", c), ERROR_MARGIN)
ReportStopped(c) == queue' = PostX(Popped(c), "system", Evt("STOPPED", c), CONTROL_MARGIN)
Consume(a)       == queue' = Popped(a)

Backlog(a, sig)  == Cardinality({i \in 1..Len(queue[a]) : queue[a][i].sig = sig})
Announced        == Cardinality({i \in 1..Len(queue["system"]) :
                       /\ queue["system"][i].sig = "READY" /\ queue["system"][i].src = "video"})

Enter(c, s) == ao' = [ao EXCEPT ![c] = s]

(***************************************************************************)
(*                              VideoAO                                    *)
(***************************************************************************)

(***************************************************************************)
(* on_component_init.  A failing init has released what it acquired; the   *)
(* error path finds running = 0 and only reports.                          *)
(***************************************************************************)
VideoInit ==
  /\ Dispatch("video", "INIT") /\ ao["video"] = "idle"
  /\ \/ /\ Enter("video", "up")
        /\ running' = [running EXCEPT !["video"] = TRUE]
        /\ armed' = armed \cup {"video"}
        /\ Acquire
        /\ readyPosted' = FALSE
        /\ Consume("video")
     \/ /\ Enter("video", "error")
        /\ ReportError("video")
        /\ HwUnchanged
        /\ UNCHANGED <<running, armed, readyPosted>>
  /\ UNCHANGED <<proc, sysVars, workerVars, stream, sigVars, subtitleDim>>

(***************************************************************************)
(* on_video_poll when the pipeline starts streaming: announce the mode to  *)
(* SystemAO, once per lock.  ready_posted is set whether or not the post   *)
(* succeeds.  (Each lock takes several polls, between which SystemAO runs  *)
(* unless the handlers above it keep the QV thread busy all the time; so   *)
(* few announcements wait at a time.)                                      *)
(***************************************************************************)
VideoStreams ==
  /\ Dispatch("video", "POLL") /\ ao["video"] = "up"
  /\ stream = NoMode
  /\ Announced < MaxAnnounced
  /\ \E m \in Mode :
       /\ stream' = m
       /\ IF readyPosted THEN Consume("video") ELSE ReportReady("video", m)
  /\ readyPosted' = TRUE
  /\ HwUnchanged
  /\ UNCHANGED <<proc, sysVars, aoVars, workerVars, sigVars, subtitleDim>>

(***************************************************************************)
(* on_video_poll: lock or resolution lost (POLL_SIGNAL_LOST).              *)
(***************************************************************************)
VideoSignalLost ==
  /\ Dispatch("video", "POLL") /\ ao["video"] = "up"
  /\ stream # NoMode
  /\ stream' = NoMode
  /\ readyPosted' = FALSE
  /\ Consume("video")
  /\ HwUnchanged
  /\ UNCHANGED <<proc, sysVars, aoVars, workerVars, sigVars, subtitleDim>>

(***************************************************************************)
(* on_video_poll: nothing to report this period.                           *)
(***************************************************************************)
VideoQuietPoll ==
  /\ Dispatch("video", "POLL") /\ ao["video"] = "up"
  /\ Consume("video")
  /\ HwUnchanged
  /\ UNCHANGED <<proc, sysVars, aoVars, workerVars, videoVars, sigVars, subtitleDim>>

MutVideoQuiesce ==
  /\ running' = [running EXCEPT !["video"] = FALSE]
  /\ armed' = armed \ {"video"}
  /\ stream' = NoMode
  /\ readyPosted' = FALSE
  /\ Release

(***************************************************************************)
(* quiesce: stop the timer, clean the pipeline up, release the platform;   *)
(* nothing when not running.                                               *)
(***************************************************************************)
VideoQuiesce ==
  /\ running' = [running EXCEPT !["video"] = FALSE]
  /\ IF running["video"]
     THEN /\ armed' = armed \ {"video"}
          /\ stream' = NoMode
          /\ readyPosted' = FALSE
          /\ Release
     ELSE UNCHANGED <<armed, stream, readyPosted>> /\ HwUnchanged

VideoPollFails ==
  /\ Dispatch("video", "POLL") /\ ao["video"] = "up"
  /\ VideoQuiesce
  /\ ReportError("video")
  /\ Enter("video", "error")
  /\ UNCHANGED <<proc, sysVars, workerVars, sigVars, subtitleDim>>

VideoStop ==
  /\ Dispatch("video", "STOP") /\ ao["video"] \in {"idle", "up", "error"}
  /\ VideoQuiesce
  /\ ReportStopped("video")
  /\ Enter("video", "stopped")
  /\ UNCHANGED <<proc, sysVars, workerVars, sigVars, subtitleDim>>

(***************************************************************************)
(*             Components with a worker thread: usb and stt                *)
(***************************************************************************)

MutStopComplete(c) == ~running[c] \/ stopReq[c]

(***************************************************************************)
(* usb_audio_stream_stop_complete, stt_ws_client_stop_complete: nothing    *)
(* was started, or the thread has published that it is leaving.            *)
(***************************************************************************)
StopComplete(c) == ~running[c] \/ worker[c] # "live"

MutBeginStop(c) == UNCHANGED stopReq

(***************************************************************************)
(* begin_stop: only a request; the thread notices it by itself.            *)
(***************************************************************************)
BeginStop(c) == stopReq' = [stopReq EXCEPT ![c] = @ \/ running[c]]

MutCompleteStop(c) ==
  /\ running' = [running EXCEPT ![c] = FALSE]
  /\ worker' = [worker EXCEPT ![c] = IF running[c] THEN "joined" ELSE @]
  /\ UNCHANGED armed

(***************************************************************************)
(* complete_stop: disarm the poll timer and join the thread if there is    *)
(* one.  Callers have checked StopComplete, so the join returns at once.   *)
(***************************************************************************)
CompleteStop(c) ==
  /\ armed' = armed \ {c}
  /\ running' = [running EXCEPT ![c] = FALSE]
  /\ worker' = [worker EXCEPT ![c] = IF running[c] THEN "joined" ELSE @]

(***************************************************************************)
(* USBAudioAO's on_component_init: the sink captures whatever client STT   *)
(* has registered by now; then the capture thread is started.              *)
(***************************************************************************)
UsbInit ==
  /\ Dispatch("usb", "INIT") /\ ao["usb"] = "idle"
  /\ sinkBound' = activeClient
  /\ \/ /\ Enter("usb", "up")
        /\ running' = [running EXCEPT !["usb"] = TRUE]
        /\ worker' = [worker EXCEPT !["usb"] = "live"]
        /\ armed' = armed \cup {"usb"}
        /\ ReportReady("usb", NoMode)
     \/ /\ Enter("usb", "error")
        /\ ReportError("usb")
        /\ UNCHANGED <<running, worker, armed>>
  /\ HwUnchanged
  /\ UNCHANGED <<proc, sysVars, stopReq, fatal, activeClient, videoVars, sigVars,
                 subtitleDim>>

(***************************************************************************)
(* SttAO's on_component_init fails before the client is registered         *)
(* (configuration, URL, mutexes), or after it (no network thread), or not. *)
(* A failed start leaves the client registered but not owned.              *)
(***************************************************************************)
SttInit ==
  /\ Dispatch("stt", "INIT") /\ ao["stt"] = "idle"
  /\ \/ /\ Enter("stt", "up")
        /\ activeClient' = TRUE
        /\ running' = [running EXCEPT !["stt"] = TRUE]
        /\ worker' = [worker EXCEPT !["stt"] = "live"]
        /\ armed' = armed \cup {"stt"}
        /\ ReportReady("stt", NoMode)
     \/ /\ Enter("stt", "error")
        /\ UNCHANGED activeClient \/ activeClient' = TRUE
        /\ ReportError("stt")
        /\ UNCHANGED <<running, worker, armed>>
  /\ HwUnchanged
  /\ UNCHANGED <<proc, sysVars, stopReq, fatal, sinkBound, videoVars, sigVars,
                 subtitleDim>>

(***************************************************************************)
(* usb_audio_ao_ready's health poll.  A fatal capture error stops the      *)
(* thread and is reported, but the thread is not joined here.              *)
(***************************************************************************)
UsbPoll ==
  /\ Dispatch("usb", "POLL") /\ ao["usb"] = "up"
  /\ IF fatal
     THEN BeginStop("usb") /\ ReportError("usb") /\ Enter("usb", "error")
     ELSE Consume("usb") /\ UNCHANGED <<stopReq, ao>>
  /\ HwUnchanged
  /\ UNCHANGED <<proc, sysVars, running, armed, worker, fatal, activeClient, sinkBound,
                 videoVars, sigVars, subtitleDim>>

(***************************************************************************)
(* stt_ao_ready's poll: forward a transcript to SubtitleAO, a final one    *)
(* with margin 1 or a partial one with margin 4, or find none.  (The poll  *)
(* of a live client does not fail.)                                        *)
(***************************************************************************)
SttPoll ==
  /\ Dispatch("stt", "POLL") /\ ao["stt"] = "up"
  /\ \/ Consume("stt")
     \/ /\ Backlog("subtitle", "TEXT") < MaxText
        /\ \E margin \in {1, 4} :
             queue' = PostX(Popped("stt"), "subtitle", Evt("TEXT", "stt"), margin)
  /\ HwUnchanged
  /\ UNCHANGED <<proc, sysVars, aoVars, workerVars, videoVars, sigVars, subtitleDim>>

(***************************************************************************)
(* SYSTEM_STOP (leave_running; stt_ao_top): request the stop, finish now   *)
(* if the thread is already gone, else wait for it in the stopping state.  *)
(***************************************************************************)
ThreadedStop(c) ==
  /\ Dispatch(c, "STOP") /\ ao[c] \in {"idle", "up", "error"}
  /\ BeginStop(c)
  /\ IF StopComplete(c)
     THEN CompleteStop(c) /\ ReportStopped(c) /\ Enter(c, "stopped")
     ELSE Consume(c) /\ Enter(c, "stopping") /\ UNCHANGED <<armed, running, worker>>
  /\ HwUnchanged
  /\ UNCHANGED <<proc, sysVars, fatal, activeClient, sinkBound, videoVars, sigVars,
                 subtitleDim>>

(***************************************************************************)
(* The stopping state reuses the poll timer to see the thread leave.       *)
(***************************************************************************)
ThreadedStopPoll(c) ==
  /\ Dispatch(c, "POLL") /\ ao[c] = "stopping"
  /\ IF StopComplete(c)
     THEN CompleteStop(c) /\ ReportStopped(c) /\ Enter(c, "stopped")
     ELSE Consume(c) /\ UNCHANGED <<ao, armed, running, worker>>
  /\ HwUnchanged
  /\ UNCHANGED <<proc, sysVars, stopReq, fatal, activeClient, sinkBound, videoVars,
                 sigVars, subtitleDim>>

(***************************************************************************)
(* The threads.  Both loops test stop_requested between bounded waits and  *)
(* publish worker_done last; a capture failure sets fatal_error and        *)
(* stop_requested in one critical section before that.  Once the event     *)
(* loop has ended, main returns and the process takes its threads along.   *)
(***************************************************************************)
CaptureFails ==
  /\ proc = "running" /\ worker["usb"] = "live" /\ ~stopReq["usb"]
  /\ fatal' = TRUE
  /\ stopReq' = [stopReq EXCEPT !["usb"] = TRUE]
  /\ HwUnchanged
  /\ UNCHANGED <<queue, proc, sysVars, aoVars, worker, activeClient, sinkBound,
                 videoVars, sigVars, subtitleDim>>

WorkerExits(c) ==
  /\ proc = "running" /\ worker[c] = "live" /\ stopReq[c]
  /\ worker' = [worker EXCEPT ![c] = "done"]
  /\ HwUnchanged
  /\ UNCHANGED <<queue, proc, sysVars, aoVars, stopReq, fatal, activeClient, sinkBound,
                 videoVars, sigVars, subtitleDim>>

(***************************************************************************)
(*                             SubtitleAO                                  *)
(***************************************************************************)

(***************************************************************************)
(* on_component_init with the dimensions SystemAO sent; without dimensions *)
(* it fails with -EINVAL.                                                  *)
(***************************************************************************)
SubtitleInit ==
  /\ Dispatch("subtitle", "INIT") /\ ao["subtitle"] = "idle"
  /\ LET dim == Current("subtitle").dim
     IN  \/ /\ dim # NoMode
            /\ Enter("subtitle", "up")
            /\ running' = [running EXCEPT !["subtitle"] = TRUE]
            /\ subtitleDim' = dim
            /\ Acquire
            /\ ReportReady("subtitle", dim)
         \/ /\ Enter("subtitle", "error")
            /\ ReportError("subtitle")
            /\ HwUnchanged
            /\ UNCHANGED <<running, subtitleDim>>
  /\ UNCHANGED <<proc, sysVars, armed, workerVars, videoVars, sigVars>>

(***************************************************************************)
(* quiesce: disable the overlay and release the platform if acquired.      *)
(***************************************************************************)
SubtitleQuiesce ==
  /\ running' = [running EXCEPT !["subtitle"] = FALSE]
  /\ subtitleDim' = NoMode
  /\ IF running["subtitle"] THEN Release ELSE HwUnchanged

(***************************************************************************)
(* subtitle_ao_ready.  SUBTITLE_TEXT_SIG renders a caption and             *)
(* COMPONENT_READY_SIG from video moves the bar to new dimensions (nobody  *)
(* in the program posts one to SubtitleAO); either may fail, which is      *)
(* fatal to the component.  Caption state and timers are the subject of    *)
(* module Captions.                                                        *)
(***************************************************************************)
SubtitleServe ==
  /\ Turn("subtitle") /\ ao["subtitle"] = "up"
  /\ LET e      == Current("subtitle")
         resize == e.sig = "READY" /\ e.src = "video" /\ e.dim # NoMode
     IN  /\ e.sig \in {"TEXT", "READY"}
         /\ \/ /\ Consume("subtitle")
               /\ subtitleDim' = IF resize THEN e.dim ELSE subtitleDim
               /\ HwUnchanged
               /\ UNCHANGED <<ao, running>>
            \/ /\ e.sig = "TEXT" \/ resize
               /\ SubtitleQuiesce
               /\ ReportError("subtitle")
               /\ Enter("subtitle", "error")
  /\ UNCHANGED <<proc, sysVars, armed, workerVars, videoVars, sigVars>>

SubtitleStop ==
  /\ Dispatch("subtitle", "STOP") /\ ao["subtitle"] \in {"idle", "up", "error"}
  /\ SubtitleQuiesce
  /\ ReportStopped("subtitle")
  /\ Enter("subtitle", "stopped")
  /\ UNCHANGED <<proc, sysVars, armed, workerVars, videoVars, sigVars>>

(***************************************************************************)
(*                              SystemAO                                   *)
(***************************************************************************)

MutInitExpected == Comp \ {"subtitle"}
MutStopExpected == Comp \ {"stt"}

(***************************************************************************)
(* SYSTEM_INIT_EXPECTED_MASK and SYSTEM_STOP_EXPECTED_MASK.                *)
(***************************************************************************)
InitExpected == Comp
StopExpected == Comp

(***************************************************************************)
(* Leaving init disarms its timer; entering stopping forgets old           *)
(* acknowledgements, posts SYSTEM_STOP to everyone without a margin and    *)
(* arms the one-shot shutdown timeout.                                     *)
(***************************************************************************)
BroadcastStop(q) ==
    [a \in AO |-> IF a \in Comp THEN PostX(q, a, Evt("STOP", "system"), 0)[a] ELSE q[a]]

MutEnterStopping(q) ==
  /\ sysState' = "stopping"
  /\ stoppedMask' = {}
  /\ queue' = BroadcastStop(q)
  /\ armed' = armed \ {"init"}

EnterStopping(q) ==
  /\ sysState' = "stopping"
  /\ stoppedMask' = {}
  /\ queue' = BroadcastStop(q)
  /\ armed' = (armed \ {"init"}) \cup {"shutdown"}

(***************************************************************************)
(* on_component_ready.  The first video report asks SubtitleAO to          *)
(* initialise with its dimensions; a later one is ignored.  A report       *)
(* without dimensions, or an INIT that cannot be posted, is an error       *)
(* unless every component is ready all the same.                           *)
(***************************************************************************)
SystemReady ==
  /\ Dispatch("system", "READY") /\ sysState = "init"
  /\ LET e       == Current("system")
         invalid == e.src = "video" /\ e.dim = NoMode
         request == e.src = "video" /\ e.dim # NoMode /\ ~subtitleInit
         q0      == Popped("system")
         q1      == IF request
                    THEN PostX(q0, "subtitle", DimEvt("INIT", "subtitle", e.dim),
                               CONTROL_MARGIN)
                    ELSE q0
         posted  == request /\ q1 # q0
         ready   == IF invalid THEN readyMask ELSE readyMask \cup {e.src}
     IN  /\ readyMask' = ready
         /\ subtitleInit' = (subtitleInit \/ posted)
         /\ CASE InitExpected \subseteq ready ->
                   /\ sysState' = "run"
                   /\ queue' = q1
                   /\ armed' = armed \ {"init"}
                   /\ UNCHANGED stoppedMask
              [] ~(InitExpected \subseteq ready) /\ (invalid \/ (request /\ ~posted)) -> EnterStopping(q1)
              [] OTHER ->
                   /\ queue' = q1
                   /\ UNCHANGED <<sysState, stoppedMask, armed>>
  /\ HwUnchanged
  /\ UNCHANGED <<proc, timedOut, ao, running, workerVars, videoVars, sigVars, subtitleDim>>

MutSystemFailFast ==
  /\ Turn("system") /\ Current("system").sig \in {"ERROR", "SHUTDOWN"}
  /\ sysState = "run"
  /\ EnterStopping(Popped("system"))
  /\ HwUnchanged
  /\ UNCHANGED <<proc, readyMask, subtitleInit, timedOut, ao, running, workerVars,
                 videoVars, sigVars, subtitleDim>>

(***************************************************************************)
(* system_ao_active: a component error or a requested shutdown stops the   *)
(* whole system.                                                           *)
(***************************************************************************)
SystemFailFast ==
  /\ Turn("system") /\ Current("system").sig \in {"ERROR", "SHUTDOWN"}
  /\ sysState \in {"init", "run"}
  /\ EnterStopping(Popped("system"))
  /\ HwUnchanged
  /\ UNCHANGED <<proc, readyMask, subtitleInit, timedOut, ao, running, workerVars,
                 videoVars, sigVars, subtitleDim>>

(***************************************************************************)
(* system_ao_stopping: count an acknowledgement; the last one ends the     *)
(* event loop (QF_stop).                                                   *)
(***************************************************************************)
SystemStopped ==
  /\ Dispatch("system", "STOPPED") /\ sysState = "stopping"
  /\ stoppedMask' = stoppedMask \cup {Current("system").src}
  /\ Consume("system")
  /\ IF StopExpected \subseteq stoppedMask'
     THEN proc' = "halted" /\ armed' = armed \ {"shutdown"}
     ELSE UNCHANGED <<proc, armed>>
  /\ HwUnchanged
  /\ UNCHANGED <<sysState, readyMask, subtitleInit, timedOut, ao, running, workerVars,
                 videoVars, sigVars, subtitleDim>>

SystemTimeout ==
  /\ Dispatch("system", "SHUTDOWN_TIMEOUT") /\ sysState = "stopping"
  /\ Consume("system")
  /\ proc' = "halted"
  /\ timedOut' = TRUE
  /\ HwUnchanged
  /\ UNCHANGED <<sysState, readyMask, stoppedMask, subtitleInit, aoVars, workerVars,
                 videoVars, sigVars, subtitleDim>>

(***************************************************************************)
(* An event its state does not act on is consumed.                         *)
(***************************************************************************)
Ignore(a) ==
  /\ Turn(a) /\ Current(a).sig \notin Accepts(a)
  /\ Consume(a)
  /\ HwUnchanged
  /\ UNCHANGED <<proc, sysVars, aoVars, workerVars, videoVars, sigVars, subtitleDim>>

(***************************************************************************)
(*                   Ticker thread and signal handler                      *)
(***************************************************************************)

(***************************************************************************)
(* QTIMEEVT_TICK_X: an armed time event expires.  The poll and diagnostic  *)
(* timers are periodic and stay armed; the shutdown timeout is one-shot.   *)
(***************************************************************************)
MayTick == BusyTicks \/ \A a \in AO : queue[a] = <<>>

TickPoll(c) ==
  /\ proc = "running" /\ c \in armed /\ MayTick
  /\ Backlog(c, "POLL") < TickBacklog
  /\ TimeEventPost(c, Evt("POLL", c))
  /\ HwUnchanged
  /\ UNCHANGED <<sysVars, aoVars, workerVars, videoVars, sigVars, subtitleDim>>

TickInit ==
  /\ proc = "running" /\ "init" \in armed /\ MayTick
  /\ Len(queue["system"]) \in Behind
  /\ Backlog("system", "INIT_TIMEOUT") < TickBacklog
  /\ TimeEventPost("system", Evt("INIT_TIMEOUT", "system"))
  /\ HwUnchanged
  /\ UNCHANGED <<sysVars, aoVars, workerVars, videoVars, sigVars, subtitleDim>>

TickShutdown ==
  /\ proc = "running" /\ "shutdown" \in armed
  /\ armed' = armed \ {"shutdown"}
  /\ TimeEventPost("system", Evt("SHUTDOWN_TIMEOUT", "system"))
  /\ HwUnchanged
  /\ UNCHANGED <<sysVars, ao, running, workerVars, videoVars, sigVars, subtitleDim>>

(***************************************************************************)
(* SIGINT or SIGTERM sets a flag; QF_onClockTick turns it into one         *)
(* SYSTEM_SHUTDOWN event, which it marks posted even if the post fails.    *)
(***************************************************************************)
SignalArrives ==
  /\ proc = "running" /\ ~sigPending
  /\ sigPending' = TRUE
  /\ HwUnchanged
  /\ UNCHANGED <<queue, proc, sysVars, aoVars, workerVars, videoVars, sigPosted,
                 subtitleDim>>

MutTickSignal ==
  /\ proc = "running" /\ sigPending
  /\ queue' = PostX(queue, "system", Evt("SHUTDOWN", "system"), 0)
  /\ HwUnchanged
  /\ UNCHANGED <<proc, sysVars, aoVars, workerVars, videoVars, sigVars, subtitleDim>>

TickSignal ==
  /\ proc = "running" /\ sigPending /\ ~sigPosted
  /\ sigPosted' = TRUE
  /\ queue' = PostX(queue, "system", Evt("SHUTDOWN", "system"), 0)
  /\ HwUnchanged
  /\ UNCHANGED <<proc, sysVars, aoVars, workerVars, videoVars, sigPending, subtitleDim>>

-----------------------------------------------------------------------------
DispatchSystem == SystemReady \/ SystemFailFast \/ SystemStopped \/ SystemTimeout
DispatchVideo  == \/ VideoInit \/ VideoStreams \/ VideoSignalLost \/ VideoQuietPoll
                  \/ VideoPollFails \/ VideoStop
DispatchSubtitle == SubtitleInit \/ SubtitleServe \/ SubtitleStop
DispatchUsb    == UsbInit \/ UsbPoll
DispatchStt    == SttInit \/ SttPoll
DispatchThreaded(c) == ThreadedStop(c) \/ ThreadedStopPoll(c)

Tick == TickInit \/ TickShutdown \/ TickSignal \/ \E c \in Polled : TickPoll(c)

Next ==
  \/ DispatchSystem \/ DispatchVideo \/ DispatchSubtitle \/ DispatchUsb \/ DispatchStt
  \/ \E c \in Threaded : DispatchThreaded(c) \/ WorkerExits(c)
  \/ CaptureFails
  \/ \E a \in AO : Ignore(a)
  \/ Tick
  \/ SignalArrives

Spec == Init /\ [][Next]_vars

(***************************************************************************)
(* Fairness: the event loop keeps dispatching, the ticker thread keeps     *)
(* ticking and a thread asked to stop leaves its loop.  Nothing is assumed *)
(* of the source, the network, the capture device or the user.  With       *)
(* BusyTicks = FALSE handlers finish before the next poll is due, which is *)
(* what app.c's rate-monotonic priorities count on.                        *)
(***************************************************************************)
QvLoop == \/ DispatchSystem \/ DispatchVideo \/ DispatchSubtitle \/ DispatchUsb
          \/ DispatchStt
          \/ \E c \in Threaded : DispatchThreaded(c)
          \/ \E a \in AO : Ignore(a)

Fairness ==
  /\ WF_vars(QvLoop)
  /\ WF_vars(TickShutdown) /\ WF_vars(TickSignal)
  /\ \A c \in Polled : SF_vars(TickPoll(c))
  /\ \A c \in Threaded : WF_vars(WorkerExits(c))

FairSpec == Spec /\ Fairness

-----------------------------------------------------------------------------
(***************************************************************************)
(* The variables keep to their types; queues never exceed QP's capacity.   *)
(***************************************************************************)
TypeOK ==
  /\ queue \in [AO -> Seq(Event)]
  /\ \A a \in AO : Len(queue[a]) <= QueueLen[a] + 1
  /\ proc \in {"running", "halted", "asserted"}
  /\ refcount \in Nat /\ mapped \in BOOLEAN
  /\ sysState \in {"init", "run", "stopping"}
  /\ readyMask \subseteq Comp /\ stoppedMask \subseteq Comp
  /\ subtitleInit \in BOOLEAN /\ timedOut \in BOOLEAN
  /\ ao \in [Comp -> {"idle", "up", "error", "stopping", "stopped"}]
  /\ running \in [Comp -> BOOLEAN]
  /\ armed \subseteq Timer
  /\ worker \in [Threaded -> {"none", "live", "done", "joined"}]
  /\ stopReq \in [Threaded -> BOOLEAN]
  /\ fatal \in BOOLEAN /\ activeClient \in BOOLEAN /\ sinkBound \in BOOLEAN
  /\ stream \in Mode \cup {NoMode} /\ subtitleDim \in Mode \cup {NoMode}
  /\ readyPosted \in BOOLEAN
  /\ sigPending \in BOOLEAN /\ sigPosted \in BOOLEAN

(***************************************************************************)
(* The mapping is live exactly while some service uses it, and its count   *)
(* is the number of users: an error, a stop, or both never release it      *)
(* twice and never leave a reference behind (hw_platform.c, the idempotent *)
(* quiesce of VideoAO and SubtitleAO).                                     *)
(***************************************************************************)
Holders == {c \in {"video", "subtitle"} : running[c]}
PlatformRefs == refcount = Cardinality(Holders) /\ mapped = (refcount > 0)

(***************************************************************************)
(* A component that has reached its stopped state has really let go: no    *)
(* poll timer, no resource, no live thread.                                *)
(***************************************************************************)
StoppedIsQuiet ==
  \A c \in Comp : ao[c] = "stopped" =>
     /\ ~running[c] /\ c \notin armed
     /\ c \in Threaded => worker[c] \in {"none", "joined"}

(***************************************************************************)
(* A shutdown that did not time out ends with all four components stopped, *)
(* every time event disarmed, the registers unmapped and no thread live:   *)
(* an acknowledgement SystemAO counted is still true when the loop ends.   *)
(***************************************************************************)
CleanExit ==
  (proc = "halted" /\ ~timedOut) =>
     /\ \A c \in Comp : ao[c] = "stopped"
     /\ armed = {} /\ refcount = 0 /\ ~mapped
     /\ \A c \in Threaded : worker[c] # "live"

ErrorIsReported ==
  (proc = "running" /\ sysState # "stopping") =>
     \A c \in Comp : ao[c] = "error" => PendingFrom("system", "ERROR", c)

RunMeansUp ==
  (proc = "running" /\ sysState = "run") =>
     \A c \in Comp : ao[c] = "up" \/ PendingFrom("system", "ERROR", c)

(***************************************************************************)
(* Fail-fast: while the system is not stopping, a component in its error   *)
(* state has its COMPONENT_ERROR waiting for SystemAO; in the run state    *)
(* every component is up, or has failed since and its error is on its way: *)
(* no component is served before it is ready or after it failed.           *)
(***************************************************************************)
FailFast == ErrorIsReported /\ RunMeansUp

(***************************************************************************)
(* The capture sink is created once, when USB audio initialises; it is     *)
(* bound to the STT client whenever STT came up, although both were told   *)
(* to initialise at once.  It rests on the priorities in app.c.            *)
(***************************************************************************)
SinkBound ==
  (running["usb"] /\ ao["stt"] \in {"up", "stopping"}) => sinkBound

EndIsScheduled ==
  (proc = "running" /\ sysState = "stopping") =>
     "shutdown" \in armed \/ Pending("system", "SHUTDOWN_TIMEOUT")

StoppingIsWatched ==
  \A c \in Threaded : ao[c] = "stopping" => c \in armed /\ stopReq[c]

(***************************************************************************)
(* No stop is left to chance.  While SystemAO is stopping, its timeout is  *)
(* armed or already waiting in its queue; and a component that waits for   *)
(* its thread has asked it to stop and has a timer left to notice that it  *)
(* did (USBAudioAO.c: "The poll timer stays armed so usb_audio_ao_stopping *)
(* can observe completion").                                               *)
(***************************************************************************)
StopIsWatched == EndIsScheduled /\ StoppingIsWatched

(***************************************************************************)
(* With the queue lengths of app.c the poll timers, the diagnostic timer   *)
(* and the shutdown timeout never meet a full queue (QP would assert and   *)
(* the process would die).  The caption timers of SubtitleAO are not here. *)
(***************************************************************************)
NoQueueOverflow == proc # "asserted"

(***************************************************************************)
(* Once SystemAO is stopping, nothing starts: no component acquires its    *)
(* resources behind the SYSTEM_STOP it is about to handle.                 *)
(***************************************************************************)
NoLateStart ==
  [][sysState = "stopping" => \A c \in Comp : running'[c] => running[c]]_vars

(***************************************************************************)
(* The QV thread never joins a live thread, which would block every active *)
(* object ("a QP/C handler must not join the capture thread").             *)
(***************************************************************************)
JoinNeverBlocks ==
  [][\A c \in Threaded : worker[c] = "live" => worker'[c] # "joined"]_vars

(***************************************************************************)
(* The design that SystemAO's promise is: Coordinator.                     *)
(***************************************************************************)
Phase == CASE proc = "asserted" -> "crashed"
           [] proc = "halted" /\ timedOut  -> "forced"
           [] proc = "halted" /\ ~timedOut -> "done"
           [] proc = "running" /\ sysState = "init"     -> "starting"
           [] proc = "running" /\ sysState = "run"      -> "serving"
           [] proc = "running" /\ sysState = "stopping" -> "stopping"
Quiet == {c \in Comp : ao[c] = "stopped"}

Coord == INSTANCE Coordinator WITH Member <- Comp, phase <- Phase,
                                   ready <- readyMask, quiet <- Quiet

(***************************************************************************)
(* Every step of the firmware is a step of the coordinated start and stop. *)
(***************************************************************************)
ImplementsCoordinator == Coord!CSpec

(***************************************************************************)
(* And the stop it began comes to an end.                                  *)
(***************************************************************************)
ImplementsFairCoordinator == Coord!CFairSpec

(***************************************************************************)
(* A signal, once raised, ends the program, whatever the components and    *)
(* threads are doing.                                                      *)
(***************************************************************************)
SignalEndsProgram == sigPending ~> proc # "running"

(***************************************************************************)
(* Fail-fast: a component in its error state ends the program.             *)
(***************************************************************************)
ErrorEndsProgram == (\E c \in Comp : ao[c] = "error") ~> proc # "running"

(***************************************************************************)
(* ARCH-02: "A source resolution change (or unplug -> replug at a          *)
(* different resolution) re-centres the caption box without a restart."    *)
(* While the source streams a mode and the system runs, the subtitle       *)
(* pipeline comes to be configured for that mode.                          *)
(***************************************************************************)
OverlayFollowsSource ==
  \A m \in Mode :
     (stream = m /\ sysState = "run") ~>
        (subtitleDim = m \/ stream # m \/ sysState # "run" \/ proc # "running")
=============================================================================
