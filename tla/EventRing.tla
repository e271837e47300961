----------------------------- MODULE EventRing -----------------------------
(***************************************************************************)
(* The transcript event ring (stt_event_ring.c) between the STT network    *)
(* worker, which pushes transcripts and ends sessions, and SttAO's poll    *)
(* (stt_ws_client_poll_events, SttAO.c on_poll), which copies a batch out  *)
(* under the lock, checks it event by event under the lock again and       *)
(* forwards what passed.  One action is one critical section.              *)
(***************************************************************************)
EXTENDS Integers, Sequences, FiniteSets

CONSTANTS Depth,       \* STT_EVENT_RING_DEPTH
          MaxPerPoll,  \* STT_AO_MAX_EVENTS_PER_POLL
          Seqs,        \* sequence numbers the server sends
          MaxReceived, \* bound: transcripts received
          MaxSessions  \* bound: sessions ended

ASSUME RingAssumption == /\ Depth \in Nat \ {0} /\ MaxPerPoll \in Nat \ {0}
                         /\ Seqs \subseteq Nat /\ 0 \in Seqs

VARIABLES
  ring, head, count,                \* the circular buffer
  gen,                              \* session_generation
  lastGen, lastSeq,                 \* last_event_generation; NoSeq: none yet
  dropped, rejected, received,      \* the ring's counters
  pending,                          \* drain's local batch, not yet checked
  accepted,                         \* events of the poll, not yet forwarded
  forwarded, refused,               \* SttAO's deliveries
  newest                            \* history: the last transcript accepted

buf   == <<ring, head, count>>
seen  == <<lastGen, lastSeq>>
poll  == <<pending, accepted, newest>>
deliv == <<forwarded, refused>>
vars  == <<buf, gen, seen, dropped, rejected, received, poll, deliv>>

NoSeq == -1
Slot  == 0..(Depth - 1)
Entry == [final : BOOLEAN, seq : Seqs, gen : Nat]
Blank == [final |-> FALSE, seq |-> 0, gen |-> 0]

Init ==
  /\ ring = [s \in Slot |-> Blank] /\ head = 0 /\ count = 0
  /\ gen = 0 /\ lastGen = 0 /\ lastSeq = NoSeq
  /\ dropped = 0 /\ rejected = 0 /\ received = 0
  /\ pending = <<>> /\ accepted = <<>>
  /\ forwarded = 0 /\ refused = 0
  /\ newest = [seq |-> NoSeq, gen |-> 0]

-----------------------------------------------------------------------------
Next1(s) == (s + 1) % Depth
Prev1(s) == (s + Depth - 1) % Depth
At(i)    == (head + i) % Depth      \* the slot of the i-th event, from 0

Unfinished == {i \in 0..(Depth - 1) : ~ring[At(i)].final}

MutVictim == 0

(***************************************************************************)
(* The event a full ring sheds: the oldest unfinished one, else the oldest.*)
(***************************************************************************)
Victim == IF Unfinished = {} THEN 0
          ELSE CHOOSE i \in Unfinished : \A j \in Unfinished : i <= j

MutShifted(v) ==
  [s \in Slot |-> IF \E i \in 1..(v - 1) : s = At(i) THEN ring[Prev1(s)] ELSE ring[s]]

(***************************************************************************)
(* Everything older than the victim moves up by one slot, over it.         *)
(***************************************************************************)
Shifted(v) ==
  [s \in Slot |-> IF \E i \in 1..v : s = At(i) THEN ring[Prev1(s)] ELSE ring[s]]

(***************************************************************************)
(* Where the next event goes: head and count are updated by shedding.      *)
(***************************************************************************)
Store(r, h, c, e) ==
  /\ ring' = [r EXCEPT ![(h + c) % Depth] = e]
  /\ head' = h
  /\ count' = c + 1

MutPushFull(e) ==
  /\ count = Depth
  /\ Store(Shifted(Victim), Next1(head), count - 1, e)
  /\ UNCHANGED dropped

PushFull(e) ==
  /\ count = Depth
  /\ Store(Shifted(Victim), Next1(head), count - 1, e)
  /\ dropped' = dropped + 1

PushRoom(e) ==
  /\ count < Depth
  /\ Store(ring, head, count, e)
  /\ UNCHANGED dropped

(***************************************************************************)
(* stt_event_ring_push.                                                    *)
(***************************************************************************)
Push ==
  /\ received < MaxReceived
  /\ \E final \in BOOLEAN, seq \in Seqs :
       LET e == [final |-> final, seq |-> seq, gen |-> gen] IN PushFull(e) \/ PushRoom(e)
  /\ received' = received + 1
  /\ UNCHANGED <<gen, seen, rejected, poll, deliv>>

(***************************************************************************)
(* stt_event_ring_invalidate_session, by drop_session.                     *)
(***************************************************************************)
Invalidate ==
  /\ gen < MaxSessions
  /\ gen' = gen + 1 /\ lastGen' = gen + 1 /\ lastSeq' = NoSeq
  /\ dropped' = dropped + count
  /\ head' = 0 /\ count' = 0
  /\ UNCHANGED <<ring, rejected, received, poll, deliv>>

-----------------------------------------------------------------------------
Smaller(a, b) == IF a < b THEN a ELSE b
Batch == Smaller(Smaller(count, MaxPerPoll), Depth)

MutTake ==
  /\ pending = <<>> /\ accepted = <<>> /\ count > 0
  /\ pending' = [i \in 1..Batch |-> ring[At(i - 1)]]
  /\ head' = head + Batch
  /\ count' = count - Batch
  /\ UNCHANGED <<ring, gen, seen, dropped, rejected, received, accepted, newest, deliv>>

(***************************************************************************)
(* stt_event_ring_drain: the batch is copied under the lock ...            *)
(***************************************************************************)
Take ==
  /\ pending = <<>> /\ accepted = <<>> /\ count > 0
  /\ pending' = [i \in 1..Batch |-> ring[At(i - 1)]]
  /\ head' = (head + Batch) % Depth
  /\ count' = count - Batch
  /\ UNCHANGED <<ring, gen, seen, dropped, rejected, received, accepted, newest, deliv>>

(***************************************************************************)
(* ... and each event of it checked under the lock again: dropped if its   *)
(* session has ended meanwhile, ...                                        *)
(***************************************************************************)
DropStale ==
  /\ pending # <<>> /\ Head(pending).gen # gen
  /\ dropped' = dropped + 1
  /\ pending' = Tail(pending)
  /\ UNCHANGED <<buf, gen, seen, rejected, received, accepted, newest, deliv>>

Seen(e) == IF lastGen = e.gen THEN lastSeq ELSE NoSeq

(***************************************************************************)
(* ... rejected if it does not follow the last one, ...                    *)
(***************************************************************************)
Reject ==
  /\ pending # <<>> /\ Head(pending).gen = gen
  /\ Head(pending).seq <= Seen(Head(pending))
  /\ lastGen' = Head(pending).gen /\ lastSeq' = Seen(Head(pending))
  /\ rejected' = rejected + 1
  /\ pending' = Tail(pending)
  /\ UNCHANGED <<buf, gen, dropped, received, accepted, newest, deliv>>

MutAccept ==
  /\ pending # <<>> /\ Head(pending).seq > lastSeq
  /\ lastGen' = Head(pending).gen /\ lastSeq' = Head(pending).seq
  /\ newest' = [seq |-> Head(pending).seq, gen |-> Head(pending).gen]
  /\ accepted' = Append(accepted, Head(pending))
  /\ pending' = Tail(pending)
  /\ UNCHANGED <<buf, gen, dropped, rejected, received, deliv>>

(***************************************************************************)
(* ... and accepted otherwise.                                             *)
(***************************************************************************)
Accept ==
  /\ pending # <<>> /\ Head(pending).gen = gen
  /\ Head(pending).seq > Seen(Head(pending))
  /\ lastGen' = Head(pending).gen /\ lastSeq' = Head(pending).seq
  /\ newest' = [seq |-> Head(pending).seq, gen |-> Head(pending).gen]
  /\ accepted' = Append(accepted, Head(pending))
  /\ pending' = Tail(pending)
  /\ UNCHANGED <<buf, gen, dropped, rejected, received, deliv>>

(***************************************************************************)
(* on_transcript, after the whole batch is checked: posted to SubtitleAO,  *)
(* or refused for want of an event or of room in its queue.                *)
(***************************************************************************)
Forward ==
  /\ pending = <<>> /\ accepted # <<>>
  /\ accepted' = Tail(accepted)
  /\ \/ forwarded' = forwarded + 1 /\ UNCHANGED refused
     \/ refused' = refused + 1 /\ UNCHANGED forwarded
  /\ UNCHANGED <<buf, gen, seen, dropped, rejected, received, pending, newest>>

SttPoll == Take \/ DropStale \/ Reject \/ Accept \/ Forward

Next == Push \/ Invalidate \/ SttPoll

Spec == Init /\ [][Next]_vars

-----------------------------------------------------------------------------
TypeOK ==
  /\ ring \in [Slot -> Entry] /\ head \in Slot /\ count \in 0..Depth
  /\ gen \in Nat /\ lastGen \in Nat /\ lastSeq \in Seqs \cup {NoSeq}
  /\ dropped \in Nat /\ rejected \in Nat /\ received \in Nat
  /\ pending \in Seq(Entry) /\ accepted \in Seq(Entry)
  /\ forwarded \in Nat /\ refused \in Nat
  /\ newest \in [seq : Seqs \cup {NoSeq}, gen : Nat]

(***************************************************************************)
(* Every transcript received is waiting, delivered, or in one counter of   *)
(* losses (events_dropped_ring, events_rejected_old_seq, the deliveries).  *)
(***************************************************************************)
AllAccounted ==
  received = count + Len(pending) + Len(accepted) + dropped + rejected + forwarded + refused

(***************************************************************************)
(* What is accepted belongs to the session of the moment and follows, by   *)
(* session and sequence number, all that was accepted before               *)
(* (stt_event_ring_drain, stt_event_ring_invalidate_session).              *)
(***************************************************************************)
AcceptedInOrder ==
  [][newest' # newest => /\ newest'.gen = gen
                         /\ \/ newest'.gen > newest.gen
                            \/ newest'.gen = newest.gen /\ newest'.seq > newest.seq]_vars

Finals == {i \in 0..(count - 1) : ring[At(i)].final}

(***************************************************************************)
(* A finished sentence is shed only by a ring full of finished sentences.  *)
(***************************************************************************)
FinalsShedLast == [][Push /\ Cardinality(Finals') < Cardinality(Finals) => Finals = Slot]_vars

(***************************************************************************)
(* The circular buffer is the queue SttAO relies on.                       *)
(***************************************************************************)
Queue == INSTANCE EventQueue WITH
           buffer <- [i \in 1..count |-> ring[At(i - 1)]], session <- gen
ImplementsQueue == Queue!QSpec
=============================================================================
