------------------------------ MODULE QvKernel ------------------------------
(***************************************************************************)
(* The part of the QP/C framework the application leans on: one thread     *)
(* (the QV kernel of qf_port.c) that takes the oldest event of the highest *)
(* priority active object whose queue is not empty, runs the handler to    *)
(* completion, and only then looks again.  Queues are bounded; a post with *)
(* a margin fails without side effect when the queue is short, a post by   *)
(* a time event asserts.                                                   *)
(*                                                                         *)
(* Variables                                                               *)
(*   queue[a]  the events posted to active object a, oldest first          *)
(*   proc      "running" | "halted" (QF_stop) | "asserted" (Q_onError)     *)
(***************************************************************************)
EXTENDS Naturals, Sequences, FiniteSets

CONSTANTS QueueLen,  \* QueueLen[a]: elements of a's ring buffer (app.c)
          Mode,      \* video modes a source can be locked to
          NoMode     \* "no dimensions" (width = height = 0)

VARIABLES queue, proc

Comp == {"video", "usb", "subtitle", "stt"}
AO   == Comp \cup {"system"}

(***************************************************************************)
(* A QP queue of length n holds n + 1 events: the ring plus frontEvt.      *)
(***************************************************************************)
ASSUME QueueLenAssumption == QueueLen \in [AO -> Nat \ {0}]
ASSUME ModeAssumption == NoMode \notin Mode

(***************************************************************************)
(* Definitions named Mut... are deliberately wrong variants of the         *)
(* definition that follows them.  Nothing uses them; each shows that some  *)
(* property notices the mistake (PROJECT.json, "mutants").                 *)
(***************************************************************************)
MutPrio == [a \in AO |-> CASE a = "system" -> 1 [] a = "subtitle" -> 2
                           [] a = "video" -> 3 [] a = "stt" -> 4 [] a = "usb" -> 5]

Prio == [a \in AO |-> CASE a = "system"   -> 1
                        [] a = "subtitle" -> 2
                        [] a = "video"    -> 3
                        [] a = "usb"      -> 4
                        [] a = "stt"      -> 5]

CONTROL_MARGIN == 2   \* APP_CONTROL_EVENT_MARGIN
ERROR_MARGIN   == 1   \* APP_ERROR_EVENT_MARGIN

Signal == {"INIT", "READY", "ERROR", "STOP", "STOPPED", "SHUTDOWN", "TEXT",
           "POLL", "INIT_TIMEOUT", "SHUTDOWN_TIMEOUT"}
Event  == [sig : Signal, src : AO, dim : Mode \cup {NoMode}]

Evt(sig, src) == [sig |-> sig, src |-> src, dim |-> NoMode]
DimEvt(sig, src, dim) == [sig |-> sig, src |-> src, dim |-> dim]

Free(q, a) == QueueLen[a] + 1 - Len(q[a])

MutPostX(q, a, e, margin) == [q EXCEPT ![a] = Append(@, e)]

(***************************************************************************)
(* QACTIVE_POST_X: the new contents of all queues.  A refused post leaves  *)
(* them as they were; the callers log it at most.                          *)
(***************************************************************************)
PostX(q, a, e, margin) ==
    IF Free(q, a) > margin THEN [q EXCEPT ![a] = Append(@, e)] ELSE q

MutTurn(a) == proc = "running" /\ queue[a] # <<>>

(***************************************************************************)
(* QF_run: the next handler to run is the one of the highest priority      *)
(* active object that has an event, and that event leaves its queue first. *)
(***************************************************************************)
Turn(a) == /\ proc = "running"
           /\ queue[a] # <<>>
           /\ \A b \in AO : Prio[b] > Prio[a] => queue[b] = <<>>

Current(a) == Head(queue[a])
Popped(a)  == [queue EXCEPT ![a] = Tail(@)]

Dispatch(a, sig) == Turn(a) /\ Current(a).sig = sig

(***************************************************************************)
(* The ticker thread: an expired time event is posted without a margin.    *)
(* When the queue is full QP asserts and the process exits.                *)
(***************************************************************************)
TimeEventPost(a, e) ==
    IF Free(queue, a) > 0
    THEN queue' = [queue EXCEPT ![a] = Append(@, e)] /\ UNCHANGED proc
    ELSE proc' = "asserted" /\ UNCHANGED queue

Pending(a, sig) == \E i \in 1..Len(queue[a]) : queue[a][i].sig = sig
PendingFrom(a, sig, src) ==
    \E i \in 1..Len(queue[a]) : queue[a][i].sig = sig /\ queue[a][i].src = src
=============================================================================
