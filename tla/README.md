# Formal model of the subtitle-overlay firmware

This directory holds TLA+ models of the firmware in `src/` of the repository: a
Zynq board that passes an HDMI picture through, captures the programme's sound over
USB, streams it to a speech-recognition server over a WebSocket and draws the
transcripts that come back over the picture. TLC checks the models on small
instances; TLAPS proves their main invariants for every value of the constants.
Paths below are relative to the repository root; `svc/`, `hal/`, `app/` and
`bsp/` are short for `src/svc/` and so on.

Contents: [the system](#the-system) · [modules](#modules) · [runs](#runs) ·
[bounds](#bounds) · [fairness](#fairness) · [proofs](#proofs) ·
[disagreements found](#disagreements-found) · [assumptions](#assumptions) ·
[not modelled](#not-modelled) · [plan](#plan)

To repeat a run or a proof:

    tlc -workers 2 -config LifecycleSafety.cfg MCLifecycle
    tlapm LifecycleProofs.tla

## The system

Five QP/C *active objects* share **one** thread, the QV event loop
(`bsp/qpc_port/qf_port.c`): it dispatches the oldest event of the
highest-priority active object that has one, runs the handler to completion, and looks
again. Three other kinds of actor interleave with the handlers: the ticker thread
(10 ms; QP time events and the signal flag), two worker threads (USB capture, STT
network), and the POSIX signal handler. The world outside is the HDMI source, the sound
device, the user and the STT server.

    HDMI source -> VideoAO --COMPONENT_READY(dimensions)--> SystemAO --COMPONENT_INIT--> SubtitleAO
    sound card  -> capture thread -> audio sink -> audio txq -> STT worker <-> server <-> recogniser
    STT worker  -> transcript ring -> SttAO (poll) --SUBTITLE_TEXT--> SubtitleAO -> overlay
    every AO    --READY / ERROR / STOPPED--> SystemAO --SYSTEM_STOP--> every AO

### Inventory

For each component: the state it keeps, its operations, what is hard about it, and
what makes it correct.

**SystemAO** (`svc/system/SystemAO.c`). *State:* which components reported ready, which
acknowledged the stop, whether SubtitleAO has been asked to initialise; hierarchical
state init / run / stopping; a diagnostic and a 16 s shutdown timer. *Operations:*
component ready, component error, shutdown request, stopped, timeouts. *Hard:* all
reports go through one 8-element queue by posts that may be refused and are
never retried; errors, acknowledgements and the timeout race. *Correct when:* it serves
only after all four components are up; the first error or a signal starts the stop;
nothing starts during a stop; the stop ends, cleanly unless given up.

**QP kernel port and application** (`bsp/qpc_port`, `app/app.c`). *State:* queues,
priorities, time events, `shutdown_signal_pending` and `_posted`. *Hard:* a periodic
timer posts without margin and asserts on a full queue; initialisation order rests on
priorities alone. *Correct when:* no time event meets a full queue while handlers keep up;
a signal is turned into exactly one event.

**Memory-mapped platform** (`bsp/platform/linux/hw_platform.c`). *State:* a reference count and the
mapping, shared by VideoAO and SubtitleAO. *Hard:* both tear down on error and again on
stop. *Correct when:* mapped exactly while someone uses it.

**VideoAO, video pipeline and video I/O** (`svc/video_pipeline`). *State:* the pipeline's
six states, the timing detector and when it was started, the active mode; capture,
clock, generator and display hardware; `ready_posted`. *Operations:* initialise, poll
(every 100 ms), stop. *Hard:* lock and timing are separate reads of a source that
changes at any moment; starting takes several calls of which any may fail;
the wait for timing is measured on a wrapping 32-bit clock. *Correct when:* the hardware
runs with one mode or not at all; every picture has been announced with its mode, unless the one
announcement was refused; a steady supported source is shown; no wait is forever.

**SubtitleAO and caption pipeline** (`svc/subtitle_pipeline`). *State:* the previous
finished line and the current text, two one-shot timers, the overlay. *Operations:*
initialise, text, clear, expire, (re)configure, stop. *Hard:* rearming a timer does not recall
the event it has posted; a rendering that fails has already changed half of the state.
*Correct when:* the overlay shows the slots; every line has a way off the screen;
silence blanks the screen.

**Caption rasteriser and HAL** (`subtitle_text_renderer.c`, `hal/subtitle_bram`,
`hal/subtitle_overlay`). *State:* a shadow of the BRAM; the overlay's registers. *Hard:* lines are
wrapped by their advance but drawn and sized by their ink; a stale shadow suppresses a needed
write; the box must stay inside the display. *Correct when:* no letter is lost and no line
touches another; BRAM equals what was last drawn; the box is on screen.

**Video modes, clock and timing generator** (`video_modes.c`, `hal/video_dynclk`, `hal/video_vtc`,
the vendor's `xvtc.c`). *State:* registers. *Hard:* a search over real numbers for a clock's dividers,
several encodings of the same timing, off by one from each other. *Correct when:* what is
programmed is the mode of the table at 60 Hz, within the limits of the clock manager.

**SttAO and transcript ring** (`svc/stt/SttAO.c`, `stt_event_ring.c`). *State:* a circular
buffer of transcripts, the session generation, the last sequence number, counters.
*Operations:* push and session end (STT worker), batch drain (SttAO's poll).
*Hard:* the batch is copied under the lock and checked later, one event at a time, under the
lock again, with sessions ending in between; a full ring sheds an event from its middle
across the wrap. *Correct when:* it is a bounded FIFO queue that sheds finished sentences
last; nothing stale, repeated or out of order gets through; every transcript is counted.

**STT WebSocket client** (`stt_ws_client.c`), with framing (`stt_ws_frame.c`), JSON, TLS.
*State:* connection state, backoff, session generation, receive buffer, stop flags.
*Hard:* backoff, stop request and queue wait interleave; a session's end must invalidate
transcripts and audio. *Correct when:* at most one session is live, backoff is bounded
and reset only by a ready session, a stop always ends the worker.

**Audio transmit queue** (`stt_audio_txq.c`, `stt_audio_sink.c`). *State:* a bounded queue
of chunks that drops its oldest. *Hard:* producer, consumer and session end on
three threads. *Correct when:* audio is sent in order, in its session, and every chunk
is counted.

**USBAudioAO, audio stream, capture, gain** (`svc/usb_audio`, `hal/usb_audio`). *State:*
the capture thread's life (`stop_requested`, `worker_done`, `fatal_error`), recovery
attempts, gain. *Hard:* the event loop must never join a live thread; recovery
against a stop. *Correct when:* a fatal error ends the program, a stop ends the thread.

**STT server** (`server/runtime`). The other end, Python around a speech model: one event loop
whose handlers interleave at their awaits, and threads for recognition. *State:* whether the model
is loaded, who has the one recogniser, the recogniser's settings; per session the samples received
and an adapter that makes caption lines of hypotheses. *Hard:* a session may end at any await; settings are
global; the recogniser revises words that have been sent. *Correct when:* one session at a time uses the
recogniser, which always becomes free again; every sample is heard and every word sent once, in
lines the display has room for.

**Others:** configuration parsing, logging, offline evaluation, scripts. See
[not modelled](#not-modelled).

`PROJECT.json` lists the hazards at the lines where they bite, each with the properties
that watch it.

## Modules

| Module | Models | State and actions |
|---|---|---|
| `QvKernel` | the QV loop, priorities, queues, posts with margins, time-event posts | `queue[a]`, `proc`; `Turn(a)` is the loop's choice, `PostX` the refusing post, `TimeEventPost` the asserting one |
| `HwPlatform` | `hw_platform.c` | `refcount`, `mapped`; `Acquire`, `Release` |
| `Lifecycle` | SystemAO, the life cycle of the four services, both threads' lives, timers, the signal | extends the two above. One action per branch of a handler; `WorkerExits`, `CaptureFails`, `Tick…` and `SignalArrives` interleave between handlers |
| `Coordinator` | *abstract:* what SystemAO promises | `phase`, `ready`, `quiet` |
| `VideoPipeline` | the passthrough: `video_pipeline.c`, `video_io.c`, VideoAO's poll | `pipe` is `video_pipeline_t` and the hardware; every exit of `video_pipeline_poll` is an action `Poll…`; `SourceChanges` is the environment |
| `PassthroughSource` | *abstract:* what SystemAO may rely on | a picture, the announced mode or its refusal, the end |
| `Captions` | SubtitleAO and `subtitle_pipeline.c`: slots, timers, queue, overlay | one action per handler and outcome; `Tick` counts both timers down and posts |
| `CaptionScreen` | *abstract:* what a viewer sees | two lines |
| `EventRing` | `stt_event_ring.c`, and SttAO's poll of it | one action per critical section: `Push`, `Invalidate`, `Take` (the copy), `DropStale` / `Reject` / `Accept` (the checks), `Forward` |
| `EventQueue` | *abstract:* a bounded queue that sheds | a sequence and a session |
| `VideoClock`, `VtcRegisters` | `video_modes.c`, `video_dynclk.c`; `video_vtc.c` with the part of `xvtc.c` it uses | operators: the mode table, the search for dividers and its encoding, rasters to registers and back |
| `CaptionLayout` | text to picture: sanitising, wrapping, measuring, drawing | operators on texts as sequences of kinds of glyph, each with its metrics from the font |
| `CaptionHal` | picture to display: `subtitle_pipeline.c`, the BRAM and overlay HALs, their registers | operators on the pipeline's record, the mask in memory and its shadow |
| `SttClient` | `stt_ws_client.c`: the worker, SttAO's calls and the capture thread's | `w` is where the worker is; every stage of a connection, every exit of `pump_rx` and `service` is an action |
| `AudioTxq`, `NetTls` | `stt_audio_txq.c`; `net_tls.c` | the bounded queue; the one static connection, opened and released in stages. `SttClient` extends both |
| `AudioFeed` | *abstract:* the audio the server relies on | what was captured, what a session may carry, what it carried last |
| `WsFrame`, `SttMessage` | `stt_ws_frame.c`; the JSON of both sides | operators: what is decided of a frame when only some of its bytes are there; which messages are written and how each is taken |
| `UsbCapture` | `usb_audio_stream.c`, `usb_audio_capture.c` and the device | `t` is where the capture thread is, `pcm` the ALSA stream; the event loop's start and stop in stages |
| `SttServer` | `app.py` and the session of `nemotron.py` | `pc[c]`: the await each client's handler is at; `model`: the recogniser and its settings |
| `TranscriptAdapter` | the adapter of `nemotron.py` | operators: aligning two hypotheses, mapping a boundary across a revision, finishing lines |
| `MC…` | the TLC instance of each | constants |
| `…Proofs` | the theorems | |

How they divide the system: `Lifecycle` composes all components at the grain of life
cycle and messages; `VideoPipeline`, `Captions`, `EventRing`, `SttClient` and `UsbCapture` each
open one component up, and `SttServer` is the other end of `SttClient`'s connection. Pure algorithms are
operators, and the MC module of the component that calls them asks of its states what
they compute: no clock is programmed that a display cannot show, no caption
is shown that was not drawn whole, no frame is read but as it was meant.
In `Lifecycle` a video poll either starts streaming, loses the signal, fails or does
nothing, which is what `PassthroughSource` allows and `VideoPipeline` is proved to
implement. In the same way a text is just served or fatal there, and `Captions` says
what serving it does; the capture and network threads just work, fail and end there, and
`UsbCapture` and `SttClient` show that they end when asked. What `SttClient` sends is what
`AudioFeed` allows, which `SttServer` takes as its chunks. (These seams are matched by hand: the variables are
named differently on both sides.)

Definitions named `Mut…` are deliberately wrong variants of the definition they stand
before: a dropped guard, a missing reset, an off-by-one. Nothing uses them.
`PROJECT.json` ("mutants") pairs each with a property that fails when it
replaces the right one, so every property is known to notice some mistake.

### Mapping to the code

`PROJECT.json` ("map") gives the source lines of every definition. Conventions: an
early return is a conjunct of the guard (or the negation of one in the sibling action);
a handler's helper calls that change state are part of its action; a post that the code
lets fail silently is `PostX`; a return code that comes from hardware or the operating
system is a disjunction. Signals a state does not handle are consumed by `Ignore`,
as `QHsm_top` does.

## Runs

| Run | What it shows |
|---|---|
| `lifecycle_safety` | With the queue lengths of `app.c`, a source that comes and goes without end, and polls that expire even while the loop is busy: **PlatformRefs** (mapping live exactly while used, released once per use), **StoppedIsQuiet** (an acknowledged stop is a true one), **CleanExit** (a shutdown that did not time out leaves nothing running), **FailFast** (a failed component's error is waiting for SystemAO, and a running SystemAO means that all are up), **SinkBound** (the capture sink is bound to the STT client whenever there is one, which rests on priorities), **StopIsWatched** (the shutdown timeout can always still fire; who waits for a thread has asked it and will look again), **NoQueueOverflow** (no poll, diagnostic or shutdown timeout meets a full queue), **NoLateStart** (nothing starts behind a stop), **JoinNeverBlocks** (the event loop never joins a live thread), **ImplementsCoordinator** |
| `lifecycle_live` | With queues of three, so that reports to SystemAO are refused: **TypeOK** (capacity is never exceeded), **SignalEndsProgram**, **ErrorEndsProgram**: whatever threads and components do; **ImplementsFairCoordinator**: a begun stop ends |
| `video_safety` | **OutputIsDisplayable** (what the hardware runs with is the mode of the table, its clock within the clock manager's limits and at 60 Hz by the generator's registers), **TransportMatches** (one mode or none, after every half-failed start too), **WaitIsMeasured** (the wait for timing is right across the clock's wrap and bounded), **ImplementsSource** (every picture's mode is announced once, or its announcement refused; no mode changes under a picture), **SteadySourceIsShown** (liveness) |
| `captions_safety` | **CaptionDrawn** (texts are wrapped without loss, drawn inside their box, on the display, and nothing of an earlier caption stays), **OverlayMatches** (the overlay shows the slots), **LinesAge** (every line has its timer running or its event posted; no timer outlives the captions), **ImplementsScreen**, **SilenceBlanks** (liveness) |
| `ring_safety` | **AllAccounted** (every transcript is waiting, delivered or in exactly one loss counter), **AcceptedInOrder** (accepted only in its own session and after all it follows), **FinalsShedLast**, **ImplementsQueue** (the circular buffer, shedding across the wrap included, is a queue) |
| `stt_client` | Every failure of the network at every point: **AudioAccounted** (a chunk is queued, in hand, sent or in exactly one loss counter), **ConnectionOwned** (nothing stays open after a failure; a session that is gone leaves nothing to the next), **WireSound** (frames and messages are decided the same however their bytes arrive, and mean what the server meant), **StopEnds**, **Retries**, **ImplementsFeed** (each session carries the audio the server relies on) |
| `usb_capture` | **DeviceReleased** (through every failure of the start and every stop), **FaultsAreReal** (neither the error nor the failing read a stop causes is reported as a fault, wherever it finds the thread, and no read is given up before its last recovery unless the device is gone or its clock or recovery fails), **CaptureEnds** |
| `stt_server` | **ModelExclusive** (one user at a time; the settings recorded are those of the session served; a session that takes the pipeline for open was the last to open it, whatever opens and closes fail), **TranscriptWhole** (no sample is lost, no word of a recogniser that goes back on none is lost or sent twice; a revision moves no word its alignment keeps across the boundary), **Freed** (the recogniser is always freed); and no deadlock |
| `resolution_change`, `video_stranded`, `caption_stale`, `stt_settings` | each a statement of the repository's documentation that the code does not keep: see below |

`CHECK_DEADLOCK FALSE` everywhere but in `stt_server`: the program is meant to end, and in the
other models the environment may fall silent or have nothing more to send. That nothing hangs
on the way is what the liveness properties, `StopIsWatched` and `LinesAge` say.

## Bounds

| Constant | Value | Why it is enough |
|---|---|---|
| `QueueLen` | 16/8 as in `app.c`, or 3 | the real lengths; 3 makes every margin refuse |
| `MaxAnnounced` | 2 | announcements of the source that wait for SystemAO at a time; how often the source comes and goes is not bounded. Two is the most that SystemAO's queue of 8 has room for beside everything else: with 3 `FailFast` fails, with 5 `NoQueueOverflow` (see [observations](#observations)) |
| `Behind` | {0, 7, 8, 9} or {0} | lengths of SystemAO's queue at which its diagnostic timer is looked at: an empty queue, and one full or nearly so. The code allows any; the run takes the extremes, where room is short, and the theorems hold for every set |
| `Mode` | one or two modes | two to tell a stale dimension from a fresh one; the safety properties do not compare modes |
| `TickBacklog` | 1 | polls of one timer waiting at once: the event loop never falls a whole period behind |
| `MaxText` | 1 | texts waiting for SubtitleAO; the caption model has two |
| `BusyTicks` | TRUE (safety), FALSE (liveness) | with TRUE a poll may expire between any two handlers |
| `Timeout`, `ClockMod` | 3 and 5 polls | the 2 s timeout is shorter than the clock's range but not by much, so waits cross the wrap |
| `Supported`, `Unsupported` | the five modes of the table, and one other | every change of mode, and to and from an unsupported one |
| `MaxTexts`, `ClearMs`, `HoldMs` | 2; {0, 30}; {0, 20} ms | zero ticks, and two timers of different length that overlap in both orders |
| `Depth`, `MaxPerPoll` | 3 and 2 (code: 8 and 4) | a victim at the front, in the middle and at the end; batches smaller than the ring; several wraps |
| `Seqs`, `MaxReceived`, `MaxSessions` | {0, 1}, 6, 2 | late and repeated numbers, a number that restarts in the next session, a full ring twice over |
| `TxDepth`, `MaxChunks` | 2 (code: 16), 4 | the queue sheds, and a chunk in hand outlives its session |
| `BackoffMin`, `BackoffMax` | 2, 5 | the doubling that passes its maximum |
| `ChunkFrames`, `MaxRecoveries` | 3, 2 | a chunk read in parts, recovered up to the limit and once more |
| `Stream`, `Upload`, `Latency` | 2, 1, 2 | a refused client, a change of settings, settings half in force |
| `FRAME`, `Chunks`, `MaxSamples` | 2, {0, 1, 3}, 7 | empty messages, rests, several frames of a message, a padded last frame |
| `Word`, `MaxWords` | 3, 4 | two words just fill a line, one ends a sentence, one is wider than a line; hypotheses of up to three words are aligned with each other exhaustively |
| frames, messages, texts | the values at each limit | lengths 0, 125, 126, 65535, the buffer and one more; every rotation of a message's fields; words that just fit, just do not, overhang, or have no letter |

The counters of `EventRing` and the histories `waited` and `silence` are bounded by guards
on the environment's actions or saturate; no action of the code is bounded.

## Fairness

* `WF(QvLoop)`: the loop dispatches while events wait (`QF_run`).
* `WF(TickShutdown)`, `WF(TickSignal)`, `WF(Tick)` in `Captions`: the ticker is a
  thread of its own that sleeps and ticks.
* `SF(TickPoll(c))`: a periodic timer that is due again and again is posted. Strong,
  because with `BusyTicks = FALSE` a poll is only enabled when the loop is idle.
  `BusyTicks = FALSE` says handlers finish within the poll period, what the
  rate-monotonic priorities in `app.c` count on: a ticker that floods the
  high-priority queues would starve SystemAO.
* `WF(WorkerExits(c))`: a thread that was asked to stop leaves its loop. Both loops test the
  flag between waits bounded by a timeout.
* `WF(VideoPoll)`: the 100 ms poll timer stays armed while VideoAO is up.
* `WF(Progress)`, `WF(Due)` in `SttClient`: the worker runs, and time passes for its backoff. One
  assumption hides here: a call of `pump_rx` ends, so the server does not send without end.
* `WF(Thread)`, `WF(Stopping)` in `UsbCapture`: the thread and the event loop run, and a
  read of a running device, or of a dropped one, returns.
* `WF(Serve(c))`, `WF(Transcribed(c))` in `SttServer`: the event loop and its threads go on.
  `SF(Leave(c))`: every client leaves in the end. Nothing in the server makes it (it has no timeout
  of its own), so a client that stays and is silent keeps all others out; `Freed` shows that
  this is the only way.

Nothing is assumed of the source, the sound device, the network or the user.
`EventRing` states no fairness: its properties are all safety.

## Proofs

Each `…Proofs` module follows the same plan: an inductive invariant, one lemma per group of
actions that preserves it, the temporal theorem, then what follows from it.

* **`LifecycleProofs`**, for every choice of queue lengths, modes and bounds.
  `IInv` is the conjunction of `QueueOK` (queues hold only *allowed* events and respect
  their capacity: a READY comes from a component, a STOPPED only from a component that
  is stopped, a STOP waits only once SystemAO is stopping), `OtherTypes`, `Refs` (the
  reference count by its two holders), `Resources` (per component: what each state of
  its machine may hold) and `Ending` (what has been acknowledged is true, and what
  ended the loop). `CleanExit` is not inductive by itself: it needs that an
  acknowledgement *still in a queue* is already true, which is why `Allowed` is
  part of the invariant. Theorems: `TypeCorrect`, `StoppedStaysQuiet`, `EndsClean`,
  `PlatformCounted`, `NeverBlocks`, and `Refinement` (the firmware implements
  `Coordinator`).
  `WInv` adds what a stop depends on: its timeout is armed or waiting, a live thread has a timer that looks
  for its end, and while SystemAO is stopping no request to initialise waits in any queue. It rests on
  `Harmless` steps, which take nothing from SystemAO's queue and ask nobody to initialise.
  Theorems: `StopsAreWatched`, `NothingStartsLate`. `KInv` adds the priorities' effect (`SttFirst`): until
  SttAO has initialised, its request heads its queue, so the lower USBAudioAO cannot have run. Theorem:
  `SinkIsBound`. These three hold for every queue length, the refusing ones included.
  `FInv` is a budget for SystemAO's queue. While the system is not stopping, its length plus
  everything components may still send (`Credit`: a component one or two reports according to its state,
  video its error, the signal one) exceeds the diagnostics and the announcements of the source that wait
  in it by at most five. Every report spends the credit of its sender, an announcement counts while it waits
  and no longer, and every event handled makes room.
  So an error finds more than the one free place its margin asks for, and waits until it is handled
  (`Reported`); a polled component's queue holds its polls and at most two events more (`PolledRoom`).
  When the stop begins, priorities have emptied the components' queues, so SYSTEM_STOP is
  first in each (`StopNext`) and nothing is announced behind it.
  Theorems: `FailsFast` and `NeverOverflows`, for queues with `RoomyQueues`:
  SystemAO's takes `MaxAnnounced + TickBacklog + 5` events, a polled component's more than `TickBacklog`.
  The lengths of `app.c` (8 and 16) satisfy it for two announcements that wait at a time, of however many in
  the program's life, and one diagnostic, with equality for SystemAO's. The hypothesis is needed and
  tight: see [observations](#observations).
* **`VideoProofs`**, for every set of timings, timeout and clock range.
  `VInv` adds `Phases` (the pipeline is initialised exactly while VideoAO is up, a mode
  counts as announced or its announcement as refused exactly while it streams, and the detector is not marked started while
  waiting for a signal). Theorems: `TransportConsistent`,
  `WaitMeasured` (modular arithmetic on the clock), `SourceRefinement`.
  Of the mode table and the clock: a counter register divides by what it was programmed for (`CounterIs`), no
  candidate is nearer than a pick that the search leaves (`BestIs`), and a pick that is near enough can be
  programmed and runs as near (`ClockIs`, `NearEnough`). So one candidate per mode is enough to bound every pick
  (`PicksAre`). A raster whose sync is in order is what the registers hold and what the detector reads back
  (`RasterIs`). Theorems: `ModesAreDisplayable`, and
  `OutputIsAlwaysDisplayable` for modes that are in the table.
* **`CaptionsProofs`** holds the captions' proofs, from texts to the screen. Of the slots and timers, for
  every set of texts and of configured timeouts, zero included: `CapInv` adds only that slots are empty before
  initialisation, and the lemmas on queues say when a pending event stays pending. Theorems: `OverlayShowsSlots`,
  `NoLineIsForgotten`, `ScreenRefinement`.
  Of the letters, for texts of any characters and length: `EveryTextIsWrapped`, by following what a text's
  letters become in each recursion (`SplitsWhole`, `CutsWhole`, `PlacesWhole`: what is still to be placed and
  what has been, together, are the letters of the text), where a cut always leaves a line that fits its
  hyphen and a shorter word (`CutIs`). Of the ink: a line's ink lies between 32 rows above its baseline and 5
  below, begins no further left than its first letter's and ends no further right than its last one's
  (`InkStays`); from this `LinesAreDrawn` (lines of 41 rows cannot touch, three need at most 140, and only a
  line that overhangs is wider than the mask) and `CaptionsAreDrawn`. Of a glyph's size these proofs use only the
  inequalities of `GlyphIs`, which all 111 glyphs of `subtitle_font.c` satisfy, so nothing rests on the choice
  of twelve.
  Of the hardware, for a mask of any words, any display and captions of any size:
  `PixelOrder` (the packing of a row puts each pixel at its place in its word), `ComesUpBlank` (an initialised
  pipeline shows nothing, whatever the mask held), `CaptionShownAlone` (what is shown after a write is the new
  caption at its place, and not a word of an earlier one). `EveryCaptionIsDrawn` puts them together.
* **`RecursionFacts`** is what these proofs and `SttServerProofs` share: least elements, `Max` and `Min` of
  bounded sets, and `Recursion` and `Descent`: a function that is given by recursion exists if its arguments
  fall in rank, and what holds where it stops and is handed up holds everywhere. The library's own
  theorems on recursion take operators, which the provers cannot instantiate; these take functions and sets.
* **`EventRingProofs`**, for every depth, batch size, numbering and number of sessions.
  `RInv` adds `Remembers`: what the ring compares with is the last transcript accepted in
  this session, and no transcript of a later session was ever accepted. Theorems: `RingTypes`,
  `NothingUncounted`, `OrderKept`. `RingIsQueue` (the ring implements `EventQueue`) reads the circular buffer as
  the sequence of its occupied slots; that the search for a victim finds the same one in both needs the
  least element of a set, which well-foundedness of the naturals gives (`LeastNumber`), and that a shift
  across the wrap removes just that one needs the slots of different positions to differ (`AtInjective`).
  `SentencesShedLast` follows from what the victim is.
* **`SttClientProofs`**, for every queue depth, every backoff, with TLS or without.
  `CInv` adds `Connection` (what each stage of an attempt holds open, and where in a session the worker may
  have a chunk in hand) and `AudioInv` (the queue holds consecutive chunks, a chunk that is sent was captured
  since its session was ready, and what it reports as dropped is its number less the chunks sent or lost before it). Theorems: `InvariantHolds`,
  `ConnectionIsOwned`, `AudioIsAccounted`, and `FeedIsImplemented` (the client implements `AudioFeed`; one
  lemma per action says which step of the feed it is).
  Of frames, answers and messages, for any that can be described: `EveryFrameIsDecided`,
  `EveryAnswerIsDecided` (a first empty line stays first), and `TranscriptIsUnderstood`, `ReadyIsUnderstood`,
  `BusyIsUnderstood`, `StartIsUnderstood` for any contents and any order of the fields (`Lists`), which TLC
  tries only from each place on. `WireIsSound` puts them together.
* **`UsbCaptureProofs`**, for every chunk size and recovery limit. `UInv` adds when the thread lives,
  and that only a stop drops the stream, after its flag is set. Theorems: `DeviceIsReleased`, `StopIsNoFault`.
* **`SttServerProofs`**, for any number of clients, settings and message sizes. `NInv` says that the
  recogniser is taken exactly while one client is not away (`OneUser`), that a session which takes the pipeline
  for open was the last to open it (`OpenKnown`), and that a session served has the settings recorded (`Told`);
  one lemma (`Decides`) says that only the client that has the recogniser matters. Nothing follows about the
  pipeline of a session that failed: an open or a close that fails leaves it open for nobody. Theorem:
  `RecogniserIsExclusive`.
  `Whole` says of every session that it is `Sound`: its samples are fed or left over, and its words, until the
  recogniser goes back on one, are sent or pending; and that the adapter is flushed only by the last frame
  (`Busy`). That a frame keeps a session sound (`RecognisedIs`) is a fact about data, of utterances of any
  length, and needs three laws of the adapter, each an induction the provers can do because it is over numbers:
  the lines made of some words are their first words in order, and each fits (`LinesLaw`, on the length);
  the pairs of an alignment stand in the same order on both sides (`MatchOrdered`, on the size of the block);
  and the alignment of a hypothesis with one that only adds words pairs every word with itself
  (`ExtensionMatches`). The recursive functions of the model exist because their arguments fall in rank
  (`Recursion`, which takes functions where the library's theorems take operators). `HeardOf` is what a
  recogniser does that goes back on nothing; of it `IngestHeard` and `ForceFinalIs` say that the words finished
  and the words kept are the words pending and the new ones, once each and in order.
  Theorems: `TranscriptIsWhole`, and the laws `LinesAreWhole` and `BoundaryIsPreserved`.

The proofs rest on the named assumptions on the constants (`QueueLenAssumption`,
`ModeAssumption`, `BoundsAssumption`, `TimingAssumption`, `ClockAssumption`,
`TextAssumption`, `ConfigAssumption`, `RingAssumption`, `TxAssumption`, `TlsAssumption`,
`BackoffAssumption`, `CaptureAssumption`, `ServerAssumption`, `WordAssumption`), which TLC evaluates in every
run of the module, and on nothing else.

**Only model-checked:** liveness (`SignalEndsProgram`, `ErrorEndsProgram`,
`ImplementsFairCoordinator`, `SteadySourceIsShown`, `SilenceBlanks`, `StopEnds`, `Retries`,
`CaptureEnds`, `Freed`), which, like `ENABLED`, is beyond the prover. Every invariant of a passing run, and every
property of its steps that says nothing of fairness, is a theorem. No module declares a RECURSIVE operator; recursion is by functions and folds.

## Disagreements found

Each has a run that ends in a counterexample; `PROJECT.json` quotes both sides.

* **resolution_change.** `ARCH-02` says a change of the source's resolution re-centres
  the captions. VideoAO does announce the new dimensions, but SystemAO ignores a second
  report (`SystemAO.c:235`) and in its run state handles none, so SubtitleAO never hears
  of them and its own handler for it is unreachable.
* **video_stranded.** `video_pipeline.c:231` promises a detector that stalls is
  restarted after the timeout. After a change of resolution without loss of lock the
  detector is not marked started, so its elapsed time stays 0 and
  the timeout never comes.
* **caption_stale.** The inactivity timeout is meant for when "no new subtitle text arrives for this
  long" (`SubtitleAO.c:36`). If the ticker posts the event while a text is waiting in front of it, the text is
  rendered and rearms the timer, and then the event that was already posted erases it, although it
  has been on the screen for no time at all. The run counts silence from the last text *rendered*, so it is this
  order that it shows, not an old caption cleared just before a new text.
* **stt_settings.** `configure_streaming` promises that "every value reported in `session_ready` is actually
  active" (`nemotron.py:1160`). It records new settings before it puts them in force. If an initialiser fails,
  the session ends, and the next one with the same settings finds nothing to do and is told
  they are active.

Three more statements are not what the code does; their models contain the behaviour, and no run is devoted
to them:

* A comment says the caption timeouts are clamped to a sane minimum (`SubtitleAO.c:253`). They are not: a
  configured timeout below 10 ms becomes zero ticks, which fails an assertion of QP at the first text
  (`HoldAsserts`, `ClearAsserts` in `Captions`; `captions_safety` reaches both).
* `usb_audio_capture.c:303` calls an empty read transient. `usb_audio_capture_recovery_decision` does say so,
  but `recover_pcm`, given no error to recover from, returns `-EIO`, which is fatal. In `UsbCapture`
  an empty read goes to `"recover"`, where only `CannotRecover` is enabled for it.
* `nemotron.py:344` says that after a revision "only text that was not previously displayed can be emitted".
  For words the alignment keeps that is `BoundaryPreserved`. But a passage that repeats itself may
  be aligned otherwise than the eye would: of "a b a b c", two words sent, revised to "a b c", the
  alignment keeps the second "a b", and both words are sent again.

## Observations

Met while modelling.

* *Captions.* A line that fills its width and begins with a letter whose ink starts before the pen (a j), or
  ends in one whose ink overhangs its advance (an accented i), makes a box of 1056 pixels, wider than the mask.
  It is refused, which SubtitleAO takes for an error, which ends the program. `CaptionDrawn` names those lines
  and shows they are the only ones refused on a display as wide as the mask. So is a box wider than the display (any line beyond 640 pixels at
  640x480), and a text with nothing but spaces and unsupported characters.
* *Life cycle.* SystemAO's queue of eight has room for two announcements of the source beside all else that may
  wait in it. With three, VideoAO's COMPONENT_ERROR, which asks for a place more, may be refused; the failure
  then goes unnoticed until something else ends the program (`MaxAnnounced` 3 in `lifecycle_safety` violates
  `FailFast`). With five the queue may be full when the diagnostic timer is due, and QP asserts
  (`NoQueueOverflow`). A lock takes several polls of 100 ms, so three announcements wait only if the higher
  priorities keep SystemAO from running for that long; the model does not measure time, so this is an assumption.
* *Life cycle.* VideoAO marks a lock as announced before it allocates and posts the announcement. If either
  fails, the mode is not announced until the lock is lost (`refused` in `VideoPipeline`).
* *Captions.* Rounding the box up to words of 32 pixels leaves up to 31 pixels more on the right
  than on the left.
* *Server and firmware.* A final line takes its end from the recogniser and its start from the
  sample clock at the roll-up before it (`nemotron.py:616-623`, `522`). When a line is full, the word
  that no longer fits starts the next one, with the time of the roll-up as its start; if the speaker
  stops there, the recogniser ends the utterance where that word ended, which is earlier. The firmware
  refuses a transcript that ends before it starts (`stt_transcript_parse.c:249`), and the word
  stays a partial, which the next one replaces. `TranscriptWhole` shows that no line starts after the sample
  clock, `WireSound` that a final which ends before it starts is refused; that none is lost is not claimed.
* *Server.* An `open` that fails after the pipeline was opened, or a `close` that fails, leaves the pipeline open
  with no session that knows it; the next session opens it again (`EngineOpenFails`, `Close`).
* *Server.* Words added inside a replaced passage may not be sent.
* *Server and firmware.* The firmware accepts any latency up to 10 s and any language tag;
  the server only five latencies and locales. Anything else is refused at every
  connection, and retried for ever (`MessagesUnderstood` says exactly which).
* *Client.* A backoff is reset by `session_ready`, before any audio was sent; during a backoff with
  audio queued the worker does not sleep; the report of dropped chunks does not count one that was
  in hand when its session ended; a ping written in part is ignored; `stop_requested` is read without
  its lock.
* *Capture.* A chunk may be spliced across an overrun, which is not counted.
* *Dead code.* The shadow of the BRAM is moot because every caption clears the whole mask first; a text
  slot of 127 bytes reaches neither the limit of 512 code points nor that of 32 lines; the
  detector's back porch is read one line longer than it was programmed, and unused.

## Assumptions

* A handler is atomic with respect to other handlers (one thread); what threads share with
  it is read under a mutex, and each such critical section is one action.
* Stopping a DMA channel and disabling clock or generator take effect; their return codes are
  ignored by the code as well.
* `Captions` has no capacity for SubtitleAO's queue (16): a timer posts at most one event
  per rearming and texts are bounded by SttAO's margins. `NoQueueOverflow` of `Lifecycle` is about the polls and
  SystemAO's timers; that SubtitleAO's two caption timers find room is not shown.
* Handlers take less than a tick where `BusyTicks` is FALSE.
* `SubtitleServe` contains the reconfiguration on COMPONENT_READY although no code posts that
  event to SubtitleAO; the run for resolution_change relies on its absence. `Captions` leaves it out.
* In `EventRing`, `on_transcript`'s second parse of a transcript does not fail, because the
  push has parsed the same text.
* Fatal paths of the kernel end the process at once (`Q_onError`).
* In `SttClient` a frame is sent or received whole or the call fails; the server says
  `session_ready` at most once in a session (`app.py:416`). `stop_requested` has the value it has when read.
* In `SttServer` the recogniser is free: after any frame it may have heard nothing, a word more, the
  end of an utterance, or something else altogether; after the last, `said` and `sent` are no longer compared.
* `CaptionLayout` knows twelve glyphs: the widest, the tallest and the deepest, those that overhang on
  either side, the blank and the ones substituted for others.

## Not modelled

* Characters: JSON escapes, UTF-8 within a word, base64, SHA-1, masking, URLs, configuration
  files, logging, number parsing; the bits of the glyphs. Where a property depends on one it is modelled
  by what it does.
* Sockets, ioctls, register reads and writes are I/O with a result, which is a nondeterministic outcome.
* The automatic gain (`usb_audio_agc.c`): floating point without control.
* The rest of the vendor's `bsp/vtc_v7_2`, which the firmware does not call (interlaced modes, interrupts,
  frame sync); `linux/hdmi_vdma_client`, a command-line test client; evaluation and build scripts.
* The server's `bridge.py` and `transport.py` (used for evaluation without a board), resampling, and what an
  offline transcription says. The speech model is external: its outputs are free.
* Reconfiguration of SubtitleAO on COMPONENT_READY, which nothing sends.

## Plan

Done: life cycle, video, captions, transcript ring, network client, capture, both ends' messages, server,
and the pure algorithms they call. All their safety is proved. Left, in this order:

1. Composition of `SttClient` with `EventRing` beyond the session's end they share by hand, and
   of `SttClient` with `SttServer` through `AudioFeed`, on an instance small enough for both.
2. The automatic gain with its arithmetic bounded, against a reference.
