------------------------------ MODULE Captions ------------------------------
(***************************************************************************)
(* SubtitleAO's captions: the two text slots, the two QP one-shot timers   *)
(* that age them, SubtitleAO's event queue and the overlay                 *)
(* (SubtitleAO.c, subtitle_pipeline.c).  The ticker thread decrements the  *)
(* timers and posts their events while texts arrive from SttAO; rearming a *)
(* timer does not recall the event it has already posted.                  *)
(*                                                                         *)
(* Time is counted in QF ticks of 10 ms.                                   *)
(***************************************************************************)
EXTENDS Integers, Sequences, FiniteSets

CONSTANTS Finals, Partials,  \* texts SttAO forwards
          None,
          ClearMs, HoldMs,   \* configured timeouts to consider, in milliseconds
          MaxTexts           \* bound: texts waiting in the queue

Text   == Finals \cup Partials
Signal == {"INIT", "STOP", "CLEAR", "EXPIRE"}

ASSUME TextAssumption == /\ Finals \cap Partials = {}
                         /\ None \notin Text
                         /\ Signal \cap Text = {}
ASSUME ConfigAssumption == ClearMs \subseteq Nat /\ HoldMs \subseteq Nat

VARIABLES
  ao,           \* "idle" | "ready" | "error" | "stopped" | "asserted"
  previous, current,        \* previous_final and current_text; None: not shown
  top, bottom,              \* the overlay's two lines; None: blank or disabled
  clearTimer, expireTimer,  \* ticks to go; 0: disarmed
  clearTicks, holdTicks,    \* clear_timeout_ticks, previous_hold_ticks
  queue,                    \* SubtitleAO's events
  sent,                     \* environment: what SystemAO has posted
  speaking,                 \* environment: more texts may come
  silence                   \* history: ticks since a text was rendered, up to clearTicks

slots   == <<previous, current>>
overlay == <<top, bottom>>
timers  == <<clearTimer, expireTimer>>
config  == <<clearTicks, holdTicks>>
env     == <<sent, speaking, silence>>
vars    == <<ao, slots, overlay, timers, config, queue, env>>

(***************************************************************************)
(* Milliseconds to ticks; nothing is clamped.                              *)
(***************************************************************************)
MsToTicks(ms) == (ms \div 1000) * 100 + ((ms % 1000) * 100) \div 1000

Init ==
  /\ ao = "idle"
  /\ previous = None /\ current = None /\ top = None /\ bottom = None
  /\ clearTimer = 0 /\ expireTimer = 0
  /\ clearTicks \in {MsToTicks(ms) : ms \in ClearMs}
  /\ holdTicks \in {MsToTicks(ms) : ms \in HoldMs}
  /\ queue = <<>> /\ sent = {}
  /\ speaking = TRUE /\ silence = 0

-----------------------------------------------------------------------------
(***************************************************************************)
(* SttAO forwards a text; SystemAO asks to initialise and to stop; at some *)
(* point nobody speaks any more.                                           *)
(***************************************************************************)
Waiting == {i \in DOMAIN queue : queue[i] \in Text}

PostText(c) ==
  /\ ao # "asserted" /\ speaking /\ Cardinality(Waiting) < MaxTexts
  /\ queue' = Append(queue, c)
  /\ UNCHANGED <<ao, slots, overlay, timers, config, sent, speaking, silence>>

SystemPosts(s) ==
  /\ ao # "asserted" /\ s \in {"INIT", "STOP"} \ sent
  /\ queue' = Append(queue, s) /\ sent' = sent \cup {s}
  /\ UNCHANGED <<ao, slots, overlay, timers, config, speaking, silence>>

Silence ==
  /\ speaking /\ speaking' = FALSE
  /\ UNCHANGED <<ao, slots, overlay, timers, config, queue, sent, silence>>

(***************************************************************************)
(* One clock tick: a timer that runs out posts its event, in either order  *)
(* when both do.                                                           *)
(***************************************************************************)
Fired == (IF clearTimer = 1 THEN {"CLEAR"} ELSE {}) \cup
         (IF expireTimer = 1 THEN {"EXPIRE"} ELSE {})

Posts == {s \in {<<>>, <<"CLEAR">>, <<"EXPIRE">>, <<"CLEAR", "EXPIRE">>, <<"EXPIRE", "CLEAR">>} :
            {s[i] : i \in DOMAIN s} = Fired}

CountDown(t) == IF t > 0 THEN t - 1 ELSE 0

Tick ==
  /\ ao # "asserted"
  /\ clearTimer' = CountDown(clearTimer) /\ expireTimer' = CountDown(expireTimer)
  /\ \E s \in Posts : queue' = queue \o s
  /\ silence' = IF silence < clearTicks THEN silence + 1 ELSE silence
  /\ UNCHANGED <<ao, slots, overlay, config, sent, speaking>>

-----------------------------------------------------------------------------
Take(s) == /\ queue # <<>> /\ Head(queue) = s /\ queue' = Tail(queue)
           /\ UNCHANGED <<config, sent, speaking>>
Dispatch(s) == Take(s) /\ UNCHANGED silence

Show(t, b) == top' = t /\ bottom' = b

(***************************************************************************)
(* QTimeEvt_disarm.                                                        *)
(***************************************************************************)
Disarm(t) == t' = 0

(***************************************************************************)
(* quiesce: disarm both timers and release the overlay, which disables it. *)
(* The slots keep their text.                                              *)
(***************************************************************************)
Quiesce == Disarm(clearTimer) /\ Disarm(expireTimer) /\ Show(None, None) /\ UNCHANGED slots

Fail == ao' = "error" /\ Quiesce

(***************************************************************************)
(* COMPONENT_INIT: the overlay comes up blank and disabled, or not at all. *)
(***************************************************************************)
ComponentInit ==
  /\ Dispatch("INIT") /\ ao = "idle"
  /\ \/ ao' = "ready" /\ Show(None, None) /\ UNCHANGED <<slots, timers>>
     \/ Fail

MutPromoted == IF current # None THEN current ELSE previous

(***************************************************************************)
(* promote_current_to_previous, which only a final text earns.             *)
(***************************************************************************)
Promoted == IF current \in Finals THEN current ELSE previous

MutRearmed == expireTimer

(***************************************************************************)
(* The previous line's timer is rearmed by every promotion.                *)
(***************************************************************************)
Rearmed == IF current \in Finals THEN holdTicks ELSE expireTimer

MutRestarted(c) == IF c \in Finals THEN clearTicks ELSE clearTimer

(***************************************************************************)
(* The inactivity timer is restarted by every text.                        *)
(***************************************************************************)
Restarted(c) == clearTicks

(***************************************************************************)
(* SUBTITLE_TEXT: promote a finished current text, take the new one,       *)
(* render both and restart the inactivity timer.  QP asserts that a timer  *)
(* is armed with at least one tick.                                        *)
(***************************************************************************)
TextRendered ==
  /\ ao = "ready"
  /\ current \in Finals => holdTicks > 0
  /\ clearTicks > 0
  /\ \E c \in Text : /\ Take(c) /\ current' = c /\ Show(Promoted, c)
                     /\ clearTimer' = Restarted(c)
  /\ previous' = Promoted /\ expireTimer' = Rearmed
  /\ silence' = 0
  /\ UNCHANGED ao

TextFails ==
  /\ ao = "ready"
  /\ current \in Finals => holdTicks > 0
  /\ \E c \in Text : Dispatch(c) /\ current' = c
  /\ previous' = Promoted
  /\ ao' = "error"
  /\ Disarm(clearTimer) /\ Disarm(expireTimer) /\ Show(None, None)

HoldAsserts ==
  /\ ao = "ready" /\ current \in Finals /\ holdTicks = 0
  /\ \E c \in Text : Dispatch(c)
  /\ previous' = current /\ UNCHANGED current
  /\ ao' = "asserted"
  /\ UNCHANGED <<overlay, timers>>

ClearAsserts ==
  /\ ao = "ready" /\ clearTicks = 0
  /\ current \in Finals => holdTicks > 0
  /\ \E c \in Text : Dispatch(c) /\ current' = c /\ Show(Promoted, c)
  /\ previous' = Promoted /\ expireTimer' = Rearmed
  /\ ao' = "asserted"
  /\ UNCHANGED clearTimer

MutClear ==
  /\ Dispatch("CLEAR") /\ ao = "ready"
  /\ current' = None /\ UNCHANGED previous
  /\ Disarm(expireTimer) /\ Show(None, None)
  /\ UNCHANGED <<ao, clearTimer>>

(***************************************************************************)
(* SUBTITLE_CLEAR: reset the slots and blank the overlay.  (Its failures   *)
(* are only logged; on an initialised overlay it has none.)                *)
(***************************************************************************)
Clear ==
  /\ Dispatch("CLEAR") /\ ao = "ready"
  /\ previous' = None /\ current' = None
  /\ Disarm(expireTimer) /\ Show(None, None)
  /\ UNCHANGED <<ao, clearTimer>>

MutExpire ==
  /\ Dispatch("EXPIRE") /\ ao = "ready"
  /\ previous' = None
  /\ UNCHANGED <<ao, current, overlay, timers>>

(***************************************************************************)
(* SUBTITLE_PREVIOUS_EXPIRE: drop the previous line and render again.      *)
(***************************************************************************)
Expire ==
  /\ Dispatch("EXPIRE") /\ ao = "ready"
  /\ previous' = None /\ UNCHANGED current
  /\ \/ Show(None, current) /\ UNCHANGED <<ao, timers>>
     \/ ao' = "error" /\ Disarm(clearTimer) /\ Disarm(expireTimer) /\ Show(None, None)

(***************************************************************************)
(* SYSTEM_STOP, in every state but stopped.                                *)
(***************************************************************************)
Stop == Dispatch("STOP") /\ ao \in {"idle", "ready", "error"} /\ ao' = "stopped" /\ Quiesce

(***************************************************************************)
(* What no state handles reaches QHsm_top and is dropped.                  *)
(***************************************************************************)
Handled(s) == \/ s = "INIT" /\ ao = "idle"
              \/ s = "STOP" /\ ao \in {"idle", "ready", "error"}
              \/ s \in Text \cup {"CLEAR", "EXPIRE"} /\ ao = "ready"

Ignore ==
  /\ ao # "asserted"
  /\ \E s \in Signal \cup Text : ~Handled(s) /\ Dispatch(s)
  /\ UNCHANGED <<ao, slots, overlay, timers>>

QvLoop == \/ ComponentInit \/ TextRendered \/ TextFails \/ HoldAsserts \/ ClearAsserts
          \/ Clear \/ Expire \/ Stop \/ Ignore

Next == \/ \E c \in Text : PostText(c)
        \/ \E s \in {"INIT", "STOP"} : SystemPosts(s)
        \/ Silence \/ Tick \/ QvLoop

Spec == Init /\ [][Next]_vars

(***************************************************************************)
(* The ticker thread keeps ticking and the event loop keeps dispatching.   *)
(***************************************************************************)
FairSpec == Spec /\ WF_vars(Tick) /\ WF_vars(QvLoop)

-----------------------------------------------------------------------------
Pending(s) == \E i \in DOMAIN queue : queue[i] = s

TypeOK ==
  /\ ao \in {"idle", "ready", "error", "stopped", "asserted"}
  /\ previous \in Finals \cup {None} /\ current \in Text \cup {None}
  /\ top \in Finals \cup {None} /\ bottom \in Text \cup {None}
  /\ clearTimer \in 0..clearTicks /\ expireTimer \in 0..holdTicks
  /\ clearTicks \in Nat /\ holdTicks \in Nat
  /\ queue \in Seq(Signal \cup Text) /\ sent \subseteq {"INIT", "STOP"}
  /\ speaking \in BOOLEAN /\ silence \in 0..clearTicks

(***************************************************************************)
(* The overlay shows what the slots hold while captions are served, and    *)
(* nothing before or after (render_current_state, clear_subtitle, quiesce).*)
(***************************************************************************)
OverlayMatches ==
  /\ ao = "ready" => top = previous /\ bottom = current
  /\ ao \in {"idle", "error", "stopped"} => top = None /\ bottom = None

(***************************************************************************)
(* No line is left without a way off the screen: its timer runs, or has    *)
(* posted its event.  No timer outlives the captions.                      *)
(***************************************************************************)
LinesAge ==
  /\ ao = "ready" => /\ current # None => clearTimer > 0 \/ Pending("CLEAR")
                     /\ previous # None => expireTimer > 0 \/ Pending("EXPIRE")
  /\ ao \in {"idle", "error", "stopped"} => clearTimer = 0 /\ expireTimer = 0

(***************************************************************************)
(* What the viewer sees: newest text below, the finished one it follows    *)
(* above, whatever the order of texts, expiries and clears.                *)
(***************************************************************************)
Screen == INSTANCE CaptionScreen
ImplementsScreen == Screen!CSpec

(***************************************************************************)
(* When nobody speaks any more the screen is blanked in the end            *)
(* (SubtitleAO's inactivity timeout).                                      *)
(***************************************************************************)
SilenceBlanks == ~speaking ~> (top = None /\ bottom = None) \/ ao = "asserted"

(***************************************************************************)
(* SubtitleAO.c:36-37: "clear the overlay and reset broadcast slots when   *)
(* no new subtitle text arrives for this long".  The time is counted from  *)
(* the last text rendered, as the inactivity timer does: a CLEAR that the  *)
(* timer had posted before that text may not erase it.                     *)
(***************************************************************************)
OnlyStaleCleared == [][Clear /\ bottom # None => silence >= clearTicks]_vars
=============================================================================
