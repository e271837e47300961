--------------------------- MODULE VideoPipeline ---------------------------
(***************************************************************************)
(* The HDMI passthrough of VideoAO: the pipeline state machine stepped by  *)
(* every VIDEO_POLL (video_pipeline.c), the input and output halves it     *)
(* starts and stops (video_io.c), and the announcement of the mode to      *)
(* SystemAO (VideoAO.c).  The source is free: it locks, unlocks and        *)
(* changes its timing between any two polls.                               *)
(*                                                                         *)
(* Time is counted in poll periods (100 ms).  ClockMod stands for the wrap *)
(* of the 32-bit millisecond counter.                                      *)
(***************************************************************************)
EXTENDS Naturals

CONSTANTS Supported,    \* timings in the mode table that fit the framebuffer
          Unsupported,  \* every other timing
          NoTiming,     \* the detector reports none (-ENODATA); no mode
          Timeout,      \* VIDEO_PIPELINE_TIMING_TIMEOUT_MS, in polls
          ClockMod      \* values of now_ms, in polls

ASSUME TimingAssumption == /\ NoTiming \notin Supported \cup Unsupported
                           /\ Supported \cap Unsupported = {}
ASSUME ClockAssumption == /\ Timeout \in Nat \ {0}
                          /\ ClockMod \in Nat /\ ClockMod > Timeout

VARIABLES
  ao,           \* VideoAO: "idle" | "up" | "error" | "stopped"
  pipe,         \* video_pipeline_t and the hardware behind it
  now,          \* now_ms
  readyPosted,  \* ready_posted
  announced,    \* mode of the last COMPONENT_READY that reached SystemAO's queue
  refused,      \* history: the announcement of the last picture did not
  locked,       \* environment: the input lock bit
  timing,       \* environment: what the timing detector reports
  waited        \* history: polls since the detector was started

vars == <<ao, pipe, now, readyPosted, announced, refused, locked, timing, waited>>

Timings == Supported \cup Unsupported \cup {NoTiming}
States  == {"uninitialized", "waiting", "acquiring", "streaming", "unsupported", "error"}

(***************************************************************************)
(* clk, gen, mm2s and s2mm are the pixel clock, the timing generator and   *)
(* the two DMA channels: the mode each runs with, or NoTiming when it is   *)
(* stopped.                                                                *)
(***************************************************************************)
Pipe == [state : States, detector : BOOLEAN, startedAt : 0..ClockMod-1,
         active : Supported \cup {NoTiming}, outRunning : BOOLEAN,
         clk : Supported \cup {NoTiming}, gen : Supported \cup {NoTiming},
         mm2s : Supported \cup {NoTiming}, s2mm : Supported \cup {NoTiming}]

Zeroed == [state |-> "uninitialized", detector |-> FALSE, startedAt |-> 0,
           active |-> NoTiming, outRunning |-> FALSE,
           clk |-> NoTiming, gen |-> NoTiming, mm2s |-> NoTiming, s2mm |-> NoTiming]

Init ==
  /\ ao = "idle" /\ pipe = Zeroed /\ now = 0
  /\ readyPosted = FALSE /\ announced = NoTiming /\ refused = FALSE
  /\ locked \in BOOLEAN /\ timing \in Timings
  /\ waited = 0

-----------------------------------------------------------------------------
(***************************************************************************)
(* The two halves.  input_stop and output_stop act on the hardware         *)
(* whatever the running flags say, so a half-started side is stopped too.  *)
(***************************************************************************)
InputStop(p) == [p EXCEPT !.s2mm = NoTiming, !.detector = FALSE]

MutOutputStop(p) ==
  IF p.outRunning
  THEN [p EXCEPT !.clk = NoTiming, !.gen = NoTiming, !.mm2s = NoTiming, !.outRunning = FALSE]
  ELSE p

OutputStop(p) ==
  [p EXCEPT !.clk = NoTiming, !.gen = NoTiming, !.mm2s = NoTiming, !.outRunning = FALSE]

StopTransport(p) == [OutputStop(InputStop(p)) EXCEPT !.active = NoTiming]

(***************************************************************************)
(* video_output_start: clock, generator, display channel.  What a failure  *)
(* of one of its steps leaves behind, and what success does.               *)
(***************************************************************************)
OutputStarted(p, m) ==
  [p EXCEPT !.clk = m, !.gen = m, !.mm2s = m, !.outRunning = TRUE]
OutputFailed(p, m) ==
  {p, [p EXCEPT !.clk = m], [p EXCEPT !.clk = m, !.gen = m],
   [p EXCEPT !.clk = m, !.gen = m, !.mm2s = m]}

(***************************************************************************)
(* start_passthrough: display first, then capture; a failing capture stops *)
(* the display again.                                                      *)
(***************************************************************************)
Started(p, m) ==
  [OutputStarted(p, m) EXCEPT !.s2mm = m, !.active = m, !.state = "streaming"]
StartFailed(p, m) ==
  {[q EXCEPT !.state = "error"] :
     q \in OutputFailed(p, m)
          \cup {[OutputStop(OutputStarted(p, m)) EXCEPT !.s2mm = t] : t \in {NoTiming, m}}}

(***************************************************************************)
(* video_pipeline_cleanup: stop what runs, close the DMA device, release   *)
(* the platform, zero the structure (the hardware keeps its own state).    *)
(***************************************************************************)
Cleanup(p) ==
  LET q == StopTransport(p)
  IN  [Zeroed EXCEPT !.clk = q.clk, !.gen = q.gen]

MutElapsed(p, t) == IF t >= p.startedAt THEN t - p.startedAt ELSE 0

(***************************************************************************)
(* video_input_detector_elapsed_ms: unsigned subtraction; 0 when the       *)
(* detector is not marked started.                                         *)
(***************************************************************************)
Elapsed(p, t) ==
  IF p.detector THEN (t + ClockMod - p.startedAt) % ClockMod ELSE 0

-----------------------------------------------------------------------------
(***************************************************************************)
(* on_component_init: the pipeline initialises or has cleaned up after     *)
(* itself.                                                                 *)
(***************************************************************************)
ComponentInit ==
  /\ ao = "idle"
  /\ \/ /\ ao' = "up" /\ pipe' = [Zeroed EXCEPT !.state = "waiting"]
        /\ now' = 0 /\ readyPosted' = FALSE
     \/ ao' = "error" /\ UNCHANGED <<pipe, now, readyPosted>>
  /\ UNCHANGED <<announced, refused, locked, timing, waited>>

MutPoll == ao = "up" /\ now' = now + 1 /\ UNCHANGED <<locked, timing>>

(***************************************************************************)
(* on_video_poll: the clock advances, then the pipeline makes one step.    *)
(***************************************************************************)
Poll == ao = "up" /\ now' = (now + 1) % ClockMod /\ UNCHANGED <<locked, timing>>

PollUnchanged == UNCHANGED <<ao, pipe, readyPosted, announced, refused>>

(***************************************************************************)
(* Nothing to do: no signal while waiting for one, the same timing (or     *)
(* none) while streaming, a timing already found unsupported.              *)
(***************************************************************************)
PollIdle ==
  /\ Poll
  /\ \/ ~locked /\ pipe.state = "waiting"
     \/ locked /\ pipe.state = "streaming" /\ timing \in {NoTiming, pipe.active}
     \/ locked /\ pipe.state = "unsupported"
  /\ PollUnchanged /\ UNCHANGED waited

MutPollSignalLost ==
  /\ Poll /\ ~locked /\ pipe.state # "waiting"
  /\ pipe' = [StopTransport(pipe) EXCEPT !.state = "waiting"]
  /\ waited' = 0
  /\ UNCHANGED <<ao, announced, refused, readyPosted>>

PollSignalLost ==
  /\ Poll /\ ~locked /\ pipe.state # "waiting"
  /\ pipe' = [StopTransport(pipe) EXCEPT !.state = "waiting"]
  /\ readyPosted' = FALSE
  /\ waited' = 0
  /\ UNCHANGED <<ao, announced, refused>>

(***************************************************************************)
(* A new timing without loss of lock: back to acquiring, with the detector *)
(* no longer marked started.                                               *)
(***************************************************************************)
PollResolutionChange ==
  /\ Poll /\ locked /\ pipe.state = "streaming"
  /\ timing \notin {NoTiming, pipe.active}
  /\ pipe' = [StopTransport(pipe) EXCEPT !.state = "acquiring"]
  /\ readyPosted' = FALSE
  /\ waited' = 0
  /\ UNCHANGED <<ao, announced, refused>>

(***************************************************************************)
(* Waiting for a signal, and it is there: start the detector.              *)
(***************************************************************************)
PollStartDetector ==
  /\ Poll /\ locked /\ pipe.state = "waiting"
  /\ pipe' = IF pipe.detector THEN [pipe EXCEPT !.state = "acquiring"]
             ELSE [pipe EXCEPT !.state = "acquiring", !.detector = TRUE,
                               !.startedAt = now']
  /\ waited' = 0
  /\ UNCHANGED <<ao, readyPosted, announced, refused>>

MutPollAcquiring(t) ==
  Poll /\ locked /\ pipe.state = "acquiring" /\ pipe.detector /\ timing = t

(***************************************************************************)
(* ACQUIRING_TIMING reads the detector, whether or not it is marked        *)
(* started.                                                                *)
(***************************************************************************)
PollAcquiring(t) ==
  Poll /\ locked /\ pipe.state = "acquiring" /\ timing = t

PollNoTiming ==
  /\ PollAcquiring(NoTiming)
  /\ Elapsed(pipe, now') < Timeout
  /\ waited' = IF pipe.detector THEN waited + 1 ELSE 0
  /\ PollUnchanged

(***************************************************************************)
(* video_input_reset_detector: the next poll starts it again.              *)
(***************************************************************************)
PollTimingTimeout ==
  /\ PollAcquiring(NoTiming)
  /\ Elapsed(pipe, now') >= Timeout
  /\ pipe' = [pipe EXCEPT !.state = "waiting", !.detector = FALSE, !.startedAt = 0]
  /\ waited' = 0
  /\ UNCHANGED <<ao, readyPosted, announced, refused>>

PollUnsupported ==
  /\ \E t \in Unsupported : PollAcquiring(t)
  /\ pipe' = [pipe EXCEPT !.state = "unsupported"]
  /\ waited' = 0
  /\ UNCHANGED <<ao, readyPosted, announced, refused>>

(***************************************************************************)
(* post_ready: the event may not be allocated or not fit in SystemAO's     *)
(* queue; the report is then lost, and ready_posted is already set.        *)
(***************************************************************************)
PostReady(m) == \/ announced' = m /\ refused' = FALSE
                \/ UNCHANGED announced /\ refused' = TRUE

(***************************************************************************)
(* start_passthrough succeeds; on_video_poll reports the mode unless it    *)
(* has tried to for this lock.                                             *)
(***************************************************************************)
PollStarts ==
  /\ \E m \in Supported :
       /\ PollAcquiring(m)
       /\ pipe' = Started(pipe, m)
       /\ IF readyPosted THEN UNCHANGED <<announced, refused>> ELSE PostReady(m)
  /\ readyPosted' = TRUE
  /\ waited' = 0
  /\ UNCHANGED ao

(***************************************************************************)
(* start_passthrough fails; enter_error cleans the pipeline up.            *)
(***************************************************************************)
PollFails ==
  /\ \E m \in Supported :
       /\ PollAcquiring(m)
       /\ \E q \in StartFailed(pipe, m) : pipe' = Cleanup(q)
  /\ ao' = "error" /\ readyPosted' = FALSE
  /\ waited' = 0
  /\ UNCHANGED <<announced, refused>>

(***************************************************************************)
(* SYSTEM_STOP: quiesce, which only acts while running.                    *)
(***************************************************************************)
Stop ==
  /\ ao \in {"idle", "up", "error"}
  /\ ao' = "stopped"
  /\ pipe' = IF ao = "up" THEN Cleanup(pipe) ELSE pipe
  /\ readyPosted' = IF ao = "up" THEN FALSE ELSE readyPosted
  /\ waited' = 0
  /\ UNCHANGED <<now, announced, refused, locked, timing>>

SourceChanges ==
  /\ locked' \in BOOLEAN /\ timing' \in Timings
  /\ UNCHANGED <<ao, pipe, now, readyPosted, announced, refused, waited>>

VideoPoll == \/ PollIdle \/ PollSignalLost \/ PollResolutionChange \/ PollStartDetector
             \/ PollNoTiming \/ PollTimingTimeout \/ PollUnsupported \/ PollStarts
             \/ PollFails

Next == ComponentInit \/ VideoPoll \/ Stop \/ SourceChanges

Spec == Init /\ [][Next]_vars

(***************************************************************************)
(* The poll timer is periodic: polls keep coming while VideoAO is up.      *)
(***************************************************************************)
FairSpec == Spec /\ WF_vars(VideoPoll)

-----------------------------------------------------------------------------
TypeOK ==
  /\ ao \in {"idle", "up", "error", "stopped"}
  /\ pipe \in Pipe
  /\ now \in 0..ClockMod-1
  /\ readyPosted \in BOOLEAN
  /\ announced \in Supported \cup {NoTiming} /\ refused \in BOOLEAN
  /\ locked \in BOOLEAN /\ timing \in Timings
  /\ waited \in Nat

(***************************************************************************)
(* While streaming, clock, generator, display and capture all run with the *)
(* active mode; otherwise nothing runs: not after a lost signal, a changed *)
(* resolution, a stop, or a start that failed half-way.                    *)
(***************************************************************************)
TransportMatches ==
  LET m == IF pipe.state = "streaming" THEN pipe.active ELSE NoTiming
  IN  /\ pipe.clk = m /\ pipe.gen = m /\ pipe.mm2s = m /\ pipe.s2mm = m
      /\ pipe.state = "streaming" <=> pipe.active # NoTiming

(***************************************************************************)
(* The wait for timing is measured right across the wrap of the clock, and *)
(* once the detector is started it never lasts longer than the timeout     *)
(* (video_input_detector_elapsed_ms).                                      *)
(***************************************************************************)
WaitIsMeasured ==
  (pipe.state = "acquiring" /\ pipe.detector) =>
     Elapsed(pipe, now) = waited /\ waited < Timeout

(***************************************************************************)
(* Each picture, after any sequence of losses and changes, is either       *)
(* announced with its own mode or known to have been refused: VideoAO      *)
(* never skips the report of a new picture because of an earlier one       *)
(* (ready_posted).                                                         *)
(***************************************************************************)
Source == INSTANCE PassthroughSource
            WITH Shown <- Supported, None <- NoTiming, shown <- pipe.active,
                 ended <- ao \in {"error", "stopped"}
ImplementsSource == Source!SSpec

(***************************************************************************)
(* A steady source in a supported mode is passed through in the end,       *)
(* unless an earlier timing was found unsupported and the lock has not     *)
(* dropped since.                                                          *)
(***************************************************************************)
SteadySourceIsShown ==
  \A m \in Supported :
     <>[](ao = "up" /\ locked /\ timing = m) =>
        (<>[](pipe.active = m) \/ <>[](pipe.state = "unsupported"))

(***************************************************************************)
(* video_pipeline.c:231-233: "If the detector stalls past the timeout,     *)
(* restart it so an absent/flaky source cannot strand ACQUIRING_TIMING     *)
(* forever."                                                               *)
(***************************************************************************)
NeverStranded == pipe.state = "acquiring" ~> pipe.state # "acquiring"
=============================================================================
