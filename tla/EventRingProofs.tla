-------------------------- MODULE EventRingProofs --------------------------
(***************************************************************************)
(* The event ring for every depth, batch size and set of sequence numbers: *)
(* types, the accounting of every transcript, the order of those accepted, *)
(* what a full ring sheds, and the queue the circular buffer stands for.   *)
(***************************************************************************)
EXTENDS EventRing, FiniteSetTheorems, SequenceTheorems, TLAPS

(***************************************************************************)
(* What the reader remembers is the last transcript it accepted, or        *)
(* nothing in a session that has had none.                                 *)
(***************************************************************************)
Remembers ==
  /\ lastGen = gen
  /\ newest.gen <= gen
  /\ newest.gen = gen => newest.seq = lastSeq

RInv == TypeOK /\ AllAccounted /\ Remembers

-----------------------------------------------------------------------------
(***************************************************************************)
(* Arithmetic of the circular buffer stays within it.                      *)
(***************************************************************************)
LEMMA InRing == ASSUME NEW n \in Int PROVE n % Depth \in Slot
BY RingAssumption DEF Slot

(***************************************************************************)
(* What the types say of the numbers involved.                             *)
(***************************************************************************)
LEMMA Numbers ==
  ASSUME TypeOK
  PROVE  /\ count \in Nat /\ head \in Nat /\ count <= Depth /\ Depth \in Nat /\ Depth > 0
         /\ received \in Nat /\ dropped \in Nat /\ rejected \in Nat
         /\ forwarded \in Nat /\ refused \in Nat
         /\ Len(pending) \in Nat /\ Len(accepted) \in Nat
<1>1. count \in 0..Depth /\ head \in 0..(Depth - 1) /\ Depth \in Nat \ {0}
  BY RingAssumption DEF TypeOK, Slot
<1>2. /\ received \in Nat /\ dropped \in Nat /\ rejected \in Nat
      /\ forwarded \in Nat /\ refused \in Nat
      /\ pending \in Seq(Entry) /\ accepted \in Seq(Entry)
  BY DEF TypeOK
<1> QED BY <1>1, <1>2

(***************************************************************************)
(* Shedding moves events, it does not invent any.                          *)
(***************************************************************************)
LEMMA ShiftedType == ASSUME TypeOK, NEW v PROVE Shifted(v) \in [Slot -> Entry]
<1>1. ASSUME NEW s \in Slot PROVE Prev1(s) \in Slot
  <2>1. s + Depth - 1 \in Int
    BY RingAssumption DEF Slot
  <2> QED BY <2>1, InRing DEF Prev1
<1> QED BY <1>1 DEF TypeOK, Shifted

(***************************************************************************)
(* Storing an event keeps the ring's type.                                 *)
(***************************************************************************)
LEMMA StoreType ==
  ASSUME NEW r \in [Slot -> Entry], NEW h \in Slot, NEW c \in 0..(Depth - 1), NEW e \in Entry,
         Store(r, h, c, e)
  PROVE  ring' \in [Slot -> Entry] /\ head' \in Slot /\ count' \in 0..Depth /\ count' = c + 1
<1>1. (h + c) % Depth \in Slot
  <2>1. h + c \in Int
    BY RingAssumption DEF Slot
  <2> QED BY <2>1, InRing
<1> QED BY <1>1, RingAssumption DEF Store

(***************************************************************************)
(* Initially.                                                              *)
(***************************************************************************)
LEMMA RingInitially == Init => RInv
<1> SUFFICES ASSUME Init PROVE RInv
  OBVIOUS
<1>1. Blank \in Entry
  BY RingAssumption DEF Blank, Entry
<1>2. TypeOK
  BY <1>1, RingAssumption DEF Init, TypeOK, Slot
<1>3. AllAccounted /\ Remembers
  BY DEF Init, AllAccounted, Remembers
<1> QED BY <1>2, <1>3 DEF RInv

(***************************************************************************)
(* A push keeps the invariant.                                             *)
(***************************************************************************)
LEMMA PushKeeps == ASSUME RInv, Push PROVE RInv'
<1>0. TypeOK /\ AllAccounted /\ Remembers
  BY DEF RInv
<1>1. PICK final \in BOOLEAN, seq \in Seqs :
        \/ PushFull([final |-> final, seq |-> seq, gen |-> gen])
        \/ PushRoom([final |-> final, seq |-> seq, gen |-> gen])
  BY DEF Push
<1> DEFINE e == [final |-> final, seq |-> seq, gen |-> gen]
<1>2. e \in Entry
  BY <1>0 DEF Entry, TypeOK
<1>3. /\ ring' \in [Slot -> Entry] /\ head' \in Slot /\ count' \in 0..Depth
      /\ dropped' \in Nat
      /\ \/ count' = count /\ dropped' = dropped + 1
         \/ count' = count + 1 /\ dropped' = dropped
  <2>1. CASE PushFull(e)
    <3>1. Next1(head) \in Slot
      BY <1>0, Numbers, InRing DEF Next1
    <3>2. count - 1 \in 0..(Depth - 1)
      BY <2>1, RingAssumption DEF PushFull
    <3>3. Store(Shifted(Victim), Next1(head), count - 1, e)
      BY <2>1 DEF PushFull
    <3>4. Shifted(Victim) \in [Slot -> Entry]
      BY <1>0, ShiftedType
    <3>5. /\ ring' \in [Slot -> Entry] /\ head' \in Slot /\ count' \in 0..Depth
          /\ count' = count - 1 + 1
      BY <1>2, <3>1, <3>2, <3>3, <3>4, StoreType
    <3> QED BY <1>0, <2>1, <3>5 DEF PushFull, TypeOK
  <2>2. CASE PushRoom(e)
    <3>1. count \in 0..(Depth - 1) /\ Store(ring, head, count, e)
      BY <1>0, <2>2, Numbers DEF PushRoom
    <3>2. ring \in [Slot -> Entry] /\ head \in Slot
      BY <1>0 DEF TypeOK
    <3>3. /\ ring' \in [Slot -> Entry] /\ head' \in Slot /\ count' \in 0..Depth
          /\ count' = count + 1
      BY <1>2, <3>1, <3>2, StoreType
    <3> QED BY <1>0, <2>2, <3>3 DEF PushRoom, TypeOK
  <2> QED BY <1>1, <2>1, <2>2
<1>4. received' = received + 1 /\ UNCHANGED <<gen, seen, rejected, poll, deliv>>
  BY DEF Push
<1>5. TypeOK'
  BY <1>0, <1>3, <1>4 DEF TypeOK, seen, poll, deliv
<1>6. AllAccounted'
  <2>1. UNCHANGED <<rejected, pending, accepted, forwarded, refused>>
    BY <1>4 DEF poll, deliv
  <2>2. \/ count' = count /\ dropped' = dropped + 1
        \/ count' = count + 1 /\ dropped' = dropped
    BY <1>3
  <2>3. received = count + Len(pending) + Len(accepted) + dropped + rejected + forwarded + refused
    BY <1>0 DEF AllAccounted
  <2>4. /\ count \in Nat /\ Len(pending) \in Nat /\ Len(accepted) \in Nat /\ dropped \in Nat
        /\ rejected \in Nat /\ forwarded \in Nat /\ refused \in Nat
    BY <1>0, Numbers
  <2>5. received + 1 = count' + Len(pending) + Len(accepted) + dropped' + rejected + forwarded + refused
    BY ONLY <2>2, <2>3, <2>4
  <2> QED BY <1>4, <2>1, <2>5 DEF AllAccounted
<1>7. Remembers'
  BY <1>0, <1>4 DEF Remembers, seen, poll
<1> QED BY <1>5, <1>6, <1>7 DEF RInv

(***************************************************************************)
(* Ending a session keeps the invariant.                                   *)
(***************************************************************************)
LEMMA InvalidateKeeps == ASSUME RInv, Invalidate PROVE RInv'
<1>0. TypeOK /\ AllAccounted /\ Remembers
  BY DEF RInv
<1>1. /\ gen' = gen + 1 /\ lastGen' = gen + 1 /\ lastSeq' = NoSeq
      /\ dropped' = dropped + count /\ head' = 0 /\ count' = 0
      /\ UNCHANGED <<ring, rejected, received, poll, deliv>>
  BY DEF Invalidate
<1>2. TypeOK'
  BY <1>0, <1>1, RingAssumption DEF TypeOK, Slot, poll, deliv
<1>3. AllAccounted'
  <2>1. UNCHANGED <<received, rejected, pending, accepted, forwarded, refused>>
    BY <1>1 DEF poll, deliv
  <2>2. received = count + Len(pending) + Len(accepted) + dropped + rejected + forwarded + refused
    BY <1>0 DEF AllAccounted
  <2>3. received = 0 + Len(pending) + Len(accepted) + (dropped + count) + rejected + forwarded + refused
    BY ONLY <1>0, <2>2, Numbers
  <2> QED BY <1>1, <2>1, <2>3 DEF AllAccounted
<1>4. Remembers'
  BY <1>0, <1>1 DEF Remembers, TypeOK, poll
<1> QED BY <1>2, <1>3, <1>4 DEF RInv

(***************************************************************************)
(* Copying a batch out of the ring keeps the invariant.                    *)
(***************************************************************************)
LEMMA TakeKeeps == ASSUME RInv, Take PROVE RInv'
<1>0. TypeOK /\ AllAccounted /\ Remembers
  BY DEF RInv
<1>1. /\ pending = <<>> /\ pending' = [i \in 1..Batch |-> ring[At(i - 1)]]
      /\ head' = (head + Batch) % Depth /\ count' = count - Batch
      /\ UNCHANGED <<ring, gen, seen, dropped, rejected, received, accepted, newest, deliv>>
  BY DEF Take
<1>2. Batch \in 0..count
  BY <1>0, RingAssumption DEF Batch, Smaller, TypeOK
<1>3. Batch \in Nat /\ count - Batch \in 0..Depth
  BY <1>0, <1>2, Numbers
<1>4. head' \in Slot
  BY <1>0, <1>1, <1>3, InRing DEF TypeOK, Slot
<1>5. ASSUME NEW i \in 1..Batch PROVE ring[At(i - 1)] \in Entry
  <2>1. head + (i - 1) \in Int
    BY <1>0, <1>3 DEF TypeOK, Slot
  <2>2. At(i - 1) \in Slot
    BY <2>1, InRing DEF At
  <2> QED BY <1>0, <2>2 DEF TypeOK
<1>6. pending' \in Seq(Entry) /\ Len(pending') = Batch
  BY <1>1, <1>3, <1>5
<1>7. TypeOK'
  BY <1>0, <1>1, <1>3, <1>4, <1>6 DEF TypeOK, seen, deliv
<1>8. AllAccounted'
  <2>1. Len(pending) = 0 /\ count' + Len(pending') = count
    BY <1>0, <1>1, <1>2, <1>6 DEF TypeOK
  <2>2. Len(accepted) \in Nat
    BY <1>0 DEF TypeOK
  <2> QED BY <1>0, <1>1, <2>1, <2>2, <1>3, <1>6, Numbers DEF AllAccounted, deliv
<1>9. Remembers'
  BY <1>0, <1>1 DEF Remembers, seen
<1> QED BY <1>7, <1>8, <1>9 DEF RInv

(***************************************************************************)
(* Each outcome of the check of one event keeps the invariant.             *)
(***************************************************************************)
LEMMA CheckKeeps == ASSUME RInv, DropStale \/ Reject \/ Accept PROVE RInv'
<1>0. TypeOK /\ AllAccounted /\ Remembers
  BY DEF RInv
<1>1. /\ pending # <<>> /\ pending' = Tail(pending)
      /\ UNCHANGED <<buf, gen, received, deliv>>
  BY DEF DropStale, Reject, Accept
<1>2. /\ Head(pending) \in Entry /\ pending' \in Seq(Entry)
      /\ Len(pending) = Len(pending') + 1 /\ Len(pending') \in Nat
  BY <1>0, <1>1 DEF TypeOK
<1>3. accepted \in Seq(Entry) /\ Len(accepted) \in Nat
  BY <1>0 DEF TypeOK
<1>4. Head(pending).seq \in Seqs /\ Head(pending).gen \in Nat
  BY <1>2 DEF Entry
<1>8. /\ count \in Nat /\ Len(accepted) \in Nat /\ dropped \in Nat
      /\ rejected \in Nat /\ forwarded \in Nat /\ refused \in Nat
  BY <1>0, Numbers
<1>9. received = count + Len(pending) + Len(accepted) + dropped + rejected + forwarded + refused
  BY <1>0 DEF AllAccounted
<1>5. CASE DropStale
  <2>1. dropped' = dropped + 1 /\ UNCHANGED <<seen, rejected, accepted, newest>>
    BY <1>5 DEF DropStale
  <2>2. TypeOK'
    BY <1>0, <1>1, <1>2, <2>1 DEF TypeOK, buf, seen, deliv
  <2>3. AllAccounted'
    <3>1. UNCHANGED <<count, received, rejected, accepted, forwarded, refused>>
      BY <1>1, <2>1 DEF buf, deliv
    <3>2. received = count + Len(pending') + Len(accepted) + (dropped + 1) + rejected + forwarded + refused
      BY ONLY <1>2, <1>8, <1>9
    <3> QED BY <2>1, <3>1, <3>2 DEF AllAccounted
  <2>4. Remembers'
    BY <1>0, <1>1, <2>1 DEF Remembers, seen
  <2> QED BY <2>2, <2>3, <2>4 DEF RInv
<1>6. CASE Reject
  <2>1. /\ lastGen' = lastGen /\ lastSeq' = lastSeq /\ rejected' = rejected + 1
        /\ UNCHANGED <<dropped, accepted, newest>>
    BY <1>0, <1>6 DEF Reject, Seen, Remembers
  <2>2. TypeOK'
    BY <1>0, <1>1, <1>2, <2>1 DEF TypeOK, buf, deliv
  <2>3. AllAccounted'
    <3>1. UNCHANGED <<count, received, dropped, accepted, forwarded, refused>>
      BY <1>1, <2>1 DEF buf, deliv
    <3>2. received = count + Len(pending') + Len(accepted) + dropped + (rejected + 1) + forwarded + refused
      BY ONLY <1>2, <1>8, <1>9
    <3> QED BY <2>1, <3>1, <3>2 DEF AllAccounted
  <2>4. Remembers'
    BY <1>0, <1>1, <2>1 DEF Remembers
  <2> QED BY <2>2, <2>3, <2>4 DEF RInv
<1>7. CASE Accept
  <2>1. /\ Head(pending).gen = gen
        /\ lastGen' = gen /\ lastSeq' = Head(pending).seq
        /\ newest' = [seq |-> Head(pending).seq, gen |-> gen]
        /\ accepted' = Append(accepted, Head(pending))
        /\ UNCHANGED <<dropped, rejected>>
    BY <1>7 DEF Accept
  <2>2. accepted' \in Seq(Entry) /\ Len(accepted') = Len(accepted) + 1
    BY <1>2, <1>3, <2>1
  <2>3. TypeOK'
    BY <1>0, <1>1, <1>2, <1>4, <2>1, <2>2 DEF TypeOK, buf, deliv
  <2>4. AllAccounted'
    <3>1. UNCHANGED <<count, received, dropped, rejected, forwarded, refused>>
      BY <1>1, <2>1 DEF buf, deliv
    <3>2. received = count + Len(pending') + Len(accepted') + dropped + rejected + forwarded + refused
      BY ONLY <1>2, <1>8, <1>9, <2>2
    <3> QED BY <3>1, <3>2 DEF AllAccounted
  <2>5. Remembers'
    BY <1>0, <1>1, <2>1 DEF Remembers, TypeOK
  <2> QED BY <2>3, <2>4, <2>5 DEF RInv
<1> QED BY <1>5, <1>6, <1>7

(***************************************************************************)
(* Forwarding keeps the invariant.                                         *)
(***************************************************************************)
LEMMA ForwardKeeps == ASSUME RInv, Forward PROVE RInv'
<1>0. TypeOK /\ AllAccounted /\ Remembers
  BY DEF RInv
<1>1. /\ accepted # <<>> /\ accepted' = Tail(accepted)
      /\ UNCHANGED <<buf, gen, seen, dropped, rejected, received, pending, newest>>
  BY DEF Forward
<1>2. /\ accepted' \in Seq(Entry) /\ Len(accepted) = Len(accepted') + 1 /\ Len(accepted') \in Nat
      /\ Len(pending) \in Nat
  BY <1>0, <1>1 DEF TypeOK
<1>3. \/ forwarded' = forwarded + 1 /\ refused' = refused
      \/ forwarded' = forwarded /\ refused' = refused + 1
  BY <1>0, Numbers DEF Forward
<1>4. TypeOK'
  BY <1>0, <1>1, <1>2, <1>3 DEF TypeOK, buf, seen
<1>5. AllAccounted'
  <2>1. UNCHANGED <<count, received, dropped, rejected, pending>>
    BY <1>1 DEF buf
  <2>2. received = count + Len(pending) + Len(accepted) + dropped + rejected + forwarded + refused
    BY <1>0 DEF AllAccounted
  <2>3. /\ count \in Nat /\ Len(pending) \in Nat /\ Len(accepted) \in Nat /\ dropped \in Nat
        /\ rejected \in Nat /\ forwarded \in Nat /\ refused \in Nat
    BY <1>0, Numbers
  <2>4. received = count + Len(pending) + Len(accepted') + dropped + rejected + forwarded' + refused'
    BY ONLY <1>2, <1>3, <2>2, <2>3
  <2> QED BY <2>1, <2>4 DEF AllAccounted
<1>6. Remembers'
  BY <1>0, <1>1 DEF Remembers, seen
<1> QED BY <1>4, <1>5, <1>6 DEF RInv

(***************************************************************************)
(* Every step keeps the invariant.                                         *)
(***************************************************************************)
LEMMA RingStep == RInv /\ [Next]_vars => RInv'
<1> SUFFICES ASSUME RInv, [Next]_vars PROVE RInv'
  OBVIOUS
<1>1. CASE UNCHANGED vars
  BY <1>1 DEF RInv, TypeOK, AllAccounted, Remembers, vars, buf, seen, poll, deliv
<1> QED BY <1>1, PushKeeps, InvalidateKeeps, TakeKeeps, CheckKeeps, ForwardKeeps DEF Next, SttPoll

(***************************************************************************)
(* The invariant holds whatever the depth, batch and numbering.            *)
(***************************************************************************)
THEOREM RingInvariant == Spec => []RInv
BY RingInitially, RingStep, PTL DEF Spec

(***************************************************************************)
(* The circular buffer never leaves its bounds.                            *)
(***************************************************************************)
THEOREM RingTypes == Spec => []TypeOK
<1>1. RInv => TypeOK
  BY DEF RInv
<1> QED BY <1>1, RingInvariant, PTL

(***************************************************************************)
(* No transcript is lost uncounted, whatever the worker does between the   *)
(* copy of a batch, its check and its delivery.                            *)
(***************************************************************************)
THEOREM NothingUncounted == Spec => []AllAccounted
<1>1. RInv => AllAccounted
  BY DEF RInv
<1> QED BY <1>1, RingInvariant, PTL

(***************************************************************************)
(* A transcript is accepted in its own session only, and after all those   *)
(* it follows.                                                             *)
(***************************************************************************)
THEOREM OrderKept == Spec => AcceptedInOrder
<1>1. RInv /\ [Next]_vars =>
        [newest' # newest => /\ newest'.gen = gen
                             /\ \/ newest'.gen > newest.gen
                                \/ newest'.gen = newest.gen /\ newest'.seq > newest.seq]_vars
  <2> SUFFICES ASSUME RInv, [Next]_vars, newest' # newest
               PROVE  /\ newest'.gen = gen
                      /\ \/ newest'.gen > newest.gen
                         \/ newest'.gen = newest.gen /\ newest'.seq > newest.seq
    OBVIOUS
  <2>1. Accept
    BY DEF Next, SttPoll, Push, Invalidate, Take, DropStale, Reject, Forward, vars, poll
  <2>2. /\ newest' = [seq |-> Head(pending).seq, gen |-> gen]
        /\ Head(pending).seq > lastSeq
    BY <2>1 DEF Accept, Seen, RInv, Remembers
  <2>3. newest.gen \in Nat /\ gen \in Nat /\ newest.gen <= gen
        /\ (newest.gen = gen => newest.seq = lastSeq)
    BY DEF RInv, TypeOK, Remembers
  <2> QED BY <2>2, <2>3
<1> QED BY <1>1, RingInvariant, PTL DEF Spec, AcceptedInOrder

-----------------------------------------------------------------------------
(***************************************************************************)
(* Every set of numbers has a least one: the oldest unfinished event of a  *)
(* ring that has any.                                                      *)
(***************************************************************************)
LEMMA LeastNumber ==
  ASSUME NEW T, T \subseteq Nat, T # {}
  PROVE  \E x \in T : \A y \in T : x <= y
<1>1. IsWellFoundedOn(OpToRel(<, Nat), Nat)
  BY NatLessThanWellFounded, Zenon
<1>2. PICK x \in T : \A y \in T : ~ (<<y, x>> \in OpToRel(<, Nat))
  BY <1>1, WFMin, Zenon
<1>3. \A y \in T : y < x => <<y, x>> \in OpToRel(<, Nat)
  BY Zenon DEF OpToRel
<1>4. ASSUME NEW y \in T PROVE x <= y
  <2>1. x \in Nat /\ y \in Nat /\ ~ (y < x)
    BY <1>2, <1>3
  <2> QED BY <2>1
<1> QED BY <1>4

(***************************************************************************)
(* The victim is the first unfinished event, or the first of all.          *)
(***************************************************************************)
LEMMA VictimIsFirst ==
  /\ Victim \in Nat /\ Victim < Depth
  /\ Unfinished = {} => Victim = 0
  /\ Unfinished # {} => Victim \in Unfinished /\ \A j \in Unfinished : Victim <= j
<1>1. Unfinished \subseteq Nat /\ \A i \in Unfinished : i < Depth
  BY RingAssumption DEF Unfinished
<1>2. CASE Unfinished = {}
  BY <1>2, RingAssumption DEF Victim
<1>3. CASE Unfinished # {}
  <2>1. \E i \in Unfinished : \A j \in Unfinished : i <= j
    BY <1>1, <1>3, LeastNumber
  <2>2. Victim \in Unfinished /\ \A j \in Unfinished : Victim <= j
    BY <1>3, <2>1 DEF Victim
  <2> QED BY <1>1, <1>3, <2>2
<1> QED BY <1>2, <1>3

(***************************************************************************)
(* Walking round the ring: at most one lap ahead of head.                  *)
(***************************************************************************)
LEMMA ModLap ==
  ASSUME NEW d \in Nat \ {0}, NEW a \in Nat, NEW b \in Nat, a < d, b <= d
  PROVE  (a + b) % d = IF a + b < d THEN a + b ELSE a + b - d
<1>1. CASE a + b < d
  <2>1. (a + b) % d = a + b
    BY <1>1
  <2> QED BY <1>1, <2>1
<1>2. CASE d <= a + b
  <2>1. (a + b) % d = a + b - d
    BY <1>2
  <2>2. ~ (a + b < d)
    BY <1>2
  <2> QED BY <2>1, <2>2
<1> QED BY <1>1, <1>2

LEMMA Lap ==
  ASSUME NEW a \in Nat, NEW b \in Nat, a < Depth, b <= Depth
  PROVE  (a + b) % Depth = IF a + b < Depth THEN a + b ELSE a + b - Depth
<1>1. Depth \in Nat \ {0}
  BY RingAssumption
<1> QED BY <1>1, ModLap

LEMMA AtIs ==
  ASSUME TypeOK, NEW i \in Nat, i <= Depth
  PROVE  /\ At(i) = IF head + i < Depth THEN head + i ELSE head + i - Depth
         /\ At(i) \in Slot
<1>1. head \in Nat /\ head < Depth /\ Depth \in Nat
  BY RingAssumption DEF TypeOK, Slot
<1>2. At(i) = IF head + i < Depth THEN head + i ELSE head + i - Depth
  BY <1>1, Lap DEF At
<1> QED BY <1>1, <1>2 DEF Slot

LEMMA AtInjective ==
  ASSUME TypeOK, NEW i \in Nat, NEW j \in Nat, i < Depth, j < Depth, At(i) = At(j)
  PROVE  i = j
<1>1. head \in Nat /\ head < Depth /\ Depth \in Nat
  BY RingAssumption DEF TypeOK, Slot
<1> DEFINE x == At(i)
           y == At(j)
<1>2. /\ x = IF head + i < Depth THEN head + i ELSE head + i - Depth
      /\ y = IF head + j < Depth THEN head + j ELSE head + j - Depth
  BY <1>1, AtIs
<1>3. x = y
  OBVIOUS
<1> HIDE DEF x, y
<1> QED BY <1>1, <1>2, <1>3

LEMMA AtPrevious ==
  ASSUME TypeOK, NEW i \in Nat, 0 < i, i < Depth
  PROVE  Prev1(At(i)) = At(i - 1)
<1>1. head \in Nat /\ head < Depth /\ Depth \in Nat /\ i - 1 \in Nat /\ i - 1 <= Depth
  BY RingAssumption DEF TypeOK, Slot
<1> DEFINE x == At(i)
           y == At(i - 1)
           k == Depth - 1
           z == (x + k) % Depth
<1>2. /\ x = IF head + i < Depth THEN head + i ELSE head + i - Depth
      /\ y = IF head + (i - 1) < Depth THEN head + (i - 1) ELSE head + (i - 1) - Depth
  BY <1>1, AtIs
<1> HIDE DEF x, y
<1>3. x \in Nat /\ x < Depth /\ k \in Nat /\ k <= Depth /\ x + Depth - 1 = x + k
  BY <1>1, <1>2
<1> HIDE DEF k
<1>4. z = IF x + k < Depth THEN x + k ELSE x + k - Depth
  BY <1>3, Lap
<1>5. Prev1(At(i)) = z
  BY <1>3 DEF Prev1, x
<1> HIDE DEF z
<1>6. k = Depth - 1
  BY DEF k
<1>7. z = y
  BY <1>1, <1>2, <1>4, <1>6
<1> QED BY <1>5, <1>7 DEF y

LEMMA ShiftedAt ==
  ASSUME TypeOK, NEW v \in Nat, v < Depth, NEW i \in Nat, i < Depth
  PROVE  Shifted(v)[At(i)] = IF 0 < i /\ i <= v THEN ring[At(i - 1)] ELSE ring[At(i)]
<1>0. Depth \in Nat
  BY RingAssumption
<1>1. At(i) \in Slot
  BY <1>0, AtIs
<1>2. (\E j \in 1..v : At(i) = At(j)) <=> (0 < i /\ i <= v)
  <2>1. ASSUME NEW j \in 1..v, At(i) = At(j) PROVE 0 < i /\ i <= v
    <3>1. j \in Nat /\ 0 < j /\ j <= v /\ j < Depth
      BY <1>0, <2>1
    <3>2. i = j
      BY <2>1, <3>1, AtInjective
    <3> QED BY <3>1, <3>2
  <2>2. ASSUME 0 < i, i <= v PROVE \E j \in 1..v : At(i) = At(j)
    <3>1. i \in 1..v
      BY <2>2
    <3> QED BY <3>1
  <2> QED BY <2>1, <2>2
<1>3. Shifted(v)[At(i)] = IF 0 < i /\ i <= v THEN ring[Prev1(At(i))] ELSE ring[At(i)]
  BY <1>1, <1>2 DEF Shifted
<1> QED BY <1>3, AtPrevious

(***************************************************************************)
(* Pushing into a full ring, event by event: those before the victim keep  *)
(* their place, those after it move up, and the new one is last.           *)
(***************************************************************************)
LEMMA FullPush ==
  ASSUME TypeOK, NEW e \in Entry, PushFull(e)
  PROVE  /\ count = Depth /\ count' = Depth
         /\ \A i \in 0..(Depth - 1) :
              ring[At(i)]' = IF i = Depth - 1 THEN e
                             ELSE IF i < Victim THEN ring[At(i)] ELSE ring[At(i + 1)]
<1>0. head \in Nat /\ head < Depth /\ Depth \in Nat /\ Depth > 0 /\ count = Depth
  BY RingAssumption DEF TypeOK, Slot, PushFull
<1> DEFINE v == Victim
           last == (Next1(head) + (count - 1)) % Depth
<1>1. v \in Nat /\ v < Depth
  BY VictimIsFirst
<1> HIDE DEF v
<1>2. /\ ring' = [Shifted(v) EXCEPT ![last] = e]
      /\ head' = Next1(head) /\ count' = count - 1 + 1
  BY DEF PushFull, Store, v
<1>3. head' = (IF head + 1 < Depth THEN head + 1 ELSE head + 1 - Depth) /\ head' \in Slot
  BY <1>0, <1>2, Lap DEF Next1, Slot
<1>4. last = head
  <2>1. last = (head' + (Depth - 1)) % Depth
    BY <1>0, <1>2
  <2>2. head' \in Nat /\ head' < Depth /\ Depth - 1 \in Nat /\ Depth - 1 <= Depth
    BY <1>0, <1>3 DEF Slot
  <2> HIDE DEF last
  <2>3. last = IF head' + (Depth - 1) < Depth THEN head' + (Depth - 1) ELSE head' + (Depth - 1) - Depth
    BY <2>1, <2>2, Lap
  <2> QED BY <1>0, <1>3, <2>3
<1> HIDE DEF last
<1>5. count' = Depth
  BY <1>0, <1>2
<1>6. Shifted(v) \in [Slot -> Entry]
  BY ShiftedType
<1>7. ASSUME NEW i \in 0..(Depth - 1)
      PROVE  ring[At(i)]' = IF i = Depth - 1 THEN e
                            ELSE IF i < v THEN ring[At(i)] ELSE ring[At(i + 1)]
  <2>0. i \in Nat /\ i < Depth /\ i + 1 \in Nat /\ i + 1 <= Depth
    BY <1>0
  <2> DEFINE a == (head' + i) % Depth
  <2>1. ring[At(i)]' = ring'[a]
    BY DEF At
  <2>2. a = IF head' + i < Depth THEN head' + i ELSE head' + i - Depth
    <3>1. head' \in Nat /\ head' < Depth
      BY <1>0, <1>3 DEF Slot
    <3>2. i <= Depth
      BY <1>0, <2>0
    <3> QED BY <2>0, <3>1, <3>2, Lap
  <2> HIDE DEF a
  <2>3. CASE i = Depth - 1
    <3>1. a = head
      BY <1>0, <1>3, <2>0, <2>2, <2>3 DEF Slot
    <3>2. ring'[head] = e
      BY <1>0, <1>2, <1>4, <1>6 DEF TypeOK, Slot
    <3> QED BY <2>1, <2>3, <3>1, <3>2
  <2>4. CASE i # Depth - 1
    <3>1. i + 1 < Depth
      BY <1>0, <2>0, <2>4
    <3>2. At(i + 1) = IF head + (i + 1) < Depth THEN head + (i + 1) ELSE head + (i + 1) - Depth
      BY <2>0, AtIs
    <3>3. a = At(i + 1)
      BY <1>0, <1>3, <2>0, <2>2, <3>1, <3>2
    <3>4. a # head
      BY <1>0, <2>0, <3>1, <3>2, <3>3
    <3>5. a \in Slot
      BY <2>0, <3>3, AtIs
    <3>6. ring'[a] = Shifted(v)[a]
      BY <1>2, <1>4, <1>6, <3>4, <3>5
    <3>7. Shifted(v)[At(i + 1)] = IF 0 < i + 1 /\ i + 1 <= v THEN ring[At(i + 1 - 1)] ELSE ring[At(i + 1)]
      BY <1>1, <2>0, <3>1, ShiftedAt
    <3>8. i + 1 - 1 = i /\ 0 < i + 1 /\ (i + 1 <= v <=> i < v)
      BY <1>1, <2>0
    <3> QED BY <2>1, <2>4, <3>3, <3>6, <3>7, <3>8
  <2> QED BY <2>3, <2>4
<1> QED BY <1>0, <1>5, <1>7 DEF v

(***************************************************************************)
(* Pushing into a ring with room.                                          *)
(***************************************************************************)
LEMMA RoomPush ==
  ASSUME TypeOK, NEW e \in Entry, PushRoom(e)
  PROVE  /\ count \in Nat /\ count < Depth /\ count' = count + 1
         /\ \A i \in 0..count : ring[At(i)]' = IF i = count THEN e ELSE ring[At(i)]
<1>0. head \in Nat /\ head < Depth /\ Depth \in Nat /\ count \in Nat /\ count < Depth
  BY Numbers, RingAssumption DEF TypeOK, Slot, PushRoom
<1>1. ring' = [ring EXCEPT ![At(count)] = e] /\ head' = head /\ count' = count + 1
  BY DEF PushRoom, Store, At
<1>2. ASSUME NEW i \in 0..count PROVE ring[At(i)]' = IF i = count THEN e ELSE ring[At(i)]
  <2>1. i \in Nat /\ i < Depth
    BY <1>0
  <2>2. ring[At(i)]' = ring'[At(i)]
    BY <1>1 DEF At
  <2>3. At(i) \in Slot /\ At(count) \in Slot
    BY <1>0, <2>1, AtIs
  <2>4. At(i) = At(count) => i = count
    BY <1>0, <2>1, AtInjective
  <2> QED BY <1>1, <2>2, <2>3, <2>4 DEF TypeOK
<1> QED BY <1>0, <1>1, <1>2

-----------------------------------------------------------------------------
(***************************************************************************)
(* The queue the circular buffer stands for.                               *)
(***************************************************************************)
Buffer == [i \in 1..count |-> ring[At(i - 1)]]

(***************************************************************************)
(* It holds the waiting events, oldest first.                              *)
(***************************************************************************)
LEMMA BufferNow ==
  ASSUME TypeOK
  PROVE  /\ Buffer \in Seq(Entry) /\ Len(Buffer) = count
         /\ \A i \in 1..count : Buffer[i] = ring[At(i - 1)]
<1>1. count \in Nat /\ head \in Nat
  BY RingAssumption DEF TypeOK, Slot
<1>2. ASSUME NEW i \in 1..count PROVE ring[At(i - 1)] \in Entry
  <2>1. At(i - 1) \in Slot
    BY <1>1, InRing DEF At
  <2> QED BY <2>1 DEF TypeOK
<1>3. Buffer \in [1..count -> Entry]
  BY <1>2 DEF Buffer
<1>4. Buffer \in Seq(Entry) /\ Len(Buffer) = count
  BY <1>1, <1>3
<1>5. \A i \in 1..count : Buffer[i] = ring[At(i - 1)]
  BY DEF Buffer
<1> QED BY <1>4, <1>5

LEMMA BufferNext ==
  ASSUME TypeOK'
  PROVE  /\ Buffer' \in Seq(Entry) /\ Len(Buffer') = count'
         /\ \A i \in 1..count' : Buffer'[i] = ring[At(i - 1)]'
<1>1. count' \in Nat /\ head' \in Nat
  BY RingAssumption DEF TypeOK, Slot
<1>2. ASSUME NEW i \in 1..count' PROVE ring[At(i - 1)]' \in Entry
  <2>1. At(i - 1)' \in Slot
    BY <1>1, InRing DEF At
  <2> QED BY <2>1 DEF TypeOK
<1>3. Buffer' \in [1..count' -> Entry]
  BY <1>2 DEF Buffer
<1>4. Buffer' \in Seq(Entry) /\ Len(Buffer') = count'
  BY <1>1, <1>3
<1>5. \A i \in 1..count' : Buffer'[i] = ring[At(i - 1)]'
  BY DEF Buffer
<1> QED BY <1>4, <1>5

(***************************************************************************)
(* Removing one element from a sequence.                                   *)
(***************************************************************************)
LEMMA Removed ==
  ASSUME NEW S, NEW s \in Seq(S), NEW k \in 1..Len(s)
  PROVE  /\ Queue!RemoveAt(s, k) \in Seq(S)
         /\ Len(Queue!RemoveAt(s, k)) = Len(s) - 1
         /\ \A i \in 1..(Len(s) - 1) :
              Queue!RemoveAt(s, k)[i] = IF i < k THEN s[i] ELSE s[i + 1]
<1> DEFINE n == Len(s)
           a == SubSeq(s, 1, k - 1)
           b == SubSeq(s, k + 1, n)
<1>0. n \in Nat /\ k \in Nat /\ 1 <= k /\ k <= n /\ \A i \in 1..n : s[i] \in S
  OBVIOUS
<1>1. Queue!RemoveAt(s, k) = a \o b
  BY DEF Queue!RemoveAt
<1>2. a \in Seq(S) /\ Len(a) = k - 1 /\ \A i \in 1..(k - 1) : a[i] = s[i]
  <2>1. \A i \in 1..(k - 1) : s[i] \in S
    BY <1>0
  <2>2. /\ a \in Seq(S)
        /\ Len(a) = IF 1 <= k - 1 THEN (k - 1) - 1 + 1 ELSE 0
        /\ \A i \in 1..((k - 1) - 1 + 1) : a[i] = s[1 + i - 1]
    BY <1>0, <2>1, SubSeqProperties
  <2> HIDE DEF a
  <2> QED BY <1>0, <2>2
<1>3. b \in Seq(S) /\ Len(b) = n - k /\ \A i \in 1..(n - k) : b[i] = s[k + i]
  <2>1. \A i \in (k + 1)..n : s[i] \in S
    BY <1>0
  <2>2. /\ b \in Seq(S)
        /\ Len(b) = IF k + 1 <= n THEN n - (k + 1) + 1 ELSE 0
        /\ \A i \in 1..(n - (k + 1) + 1) : b[i] = s[k + 1 + i - 1]
    BY <1>0, <2>1, SubSeqProperties
  <2> HIDE DEF b
  <2> QED BY <1>0, <2>2
<1> HIDE DEF a, b, n
<1>4. /\ a \o b \in Seq(S) /\ Len(a \o b) = n - 1
      /\ \A i \in 1..(n - 1) : (a \o b)[i] = IF i <= k - 1 THEN a[i] ELSE b[i - (k - 1)]
  <2>1. /\ a \o b \in Seq(S) /\ Len(a \o b) = Len(a) + Len(b)
        /\ \A i \in 1..(Len(a) + Len(b)) : (a \o b)[i] = IF i <= Len(a) THEN a[i] ELSE b[i - Len(a)]
    BY <1>2, <1>3, ConcatProperties
  <2>2. Len(a) + Len(b) = n - 1
    BY <1>0, <1>2, <1>3
  <2> QED BY <1>2, <2>1, <2>2
<1>5. ASSUME NEW i \in 1..(n - 1) PROVE (a \o b)[i] = IF i < k THEN s[i] ELSE s[i + 1]
  <2>1. CASE i < k
    BY <1>0, <1>2, <1>4, <2>1
  <2>2. CASE k <= i
    <3>1. i - (k - 1) \in 1..(n - k) /\ k + (i - (k - 1)) = i + 1
      BY <1>0, <2>2
    <3>2. b[i - (k - 1)] = s[i + 1]
      BY <1>3, <3>1
    <3>3. ~ (i <= k - 1) /\ ~ (i < k)
      BY <1>0, <2>2
    <3> QED BY <1>4, <3>2, <3>3
  <2>3. i < k \/ k <= i
    BY <1>0
  <2> QED BY <2>1, <2>2, <2>3, Zenon
<1> QED BY <1>1, <1>4, <1>5 DEF n

(***************************************************************************)
(* A full ring and its queue shed the same event.                          *)
(***************************************************************************)
LEMMA SameVictim ==
  ASSUME TypeOK, count = Depth
  PROVE  Queue!QShed = Victim + 1
<1>0. Depth \in Nat /\ Depth > 0 /\ count \in Nat
  BY Numbers
<1>1. Queue!QUnfinished = {i \in 1..Depth : i - 1 \in Unfinished}
  <2>1. DOMAIN Buffer = 1..Depth
    BY DEF Buffer
  <2>2. ASSUME NEW i \in 1..Depth
        PROVE  ~Buffer[i].final <=> i - 1 \in Unfinished
    <3>1. i - 1 \in 0..(Depth - 1)
      BY <1>0
    <3>2. Buffer[i] = ring[At(i - 1)]
      BY <1>0, BufferNow
    <3> QED BY <3>1, <3>2 DEF Unfinished
  <2>3. Queue!QUnfinished = {i \in DOMAIN Buffer : ~Buffer[i].final}
    BY DEF Queue!QUnfinished, Buffer
  <2> QED BY <2>1, <2>2, <2>3
<1>2. Unfinished \subseteq 0..(Depth - 1)
  BY DEF Unfinished
<1>3. CASE Unfinished = {}
  BY <1>1, <1>3, VictimIsFirst DEF Queue!QShed
<1>4. CASE Unfinished # {}
  <2> DEFINE v == Victim
             q == Queue!QUnfinished
             Least(i) == \A j \in q : i <= j
  <2>1. v \in Nat /\ v \in Unfinished /\ \A j \in Unfinished : v <= j
    BY <1>4, VictimIsFirst
  <2> HIDE DEF v, q
  <2>2. v + 1 \in q
    <3>1. v + 1 \in 1..Depth /\ (v + 1) - 1 = v
      BY <1>0, <1>2, <2>1
    <3> QED BY <1>1, <2>1, <3>1 DEF q
  <2>3. ASSUME NEW j \in q PROVE v + 1 <= j
    <3>1. j \in 1..Depth /\ j - 1 \in Unfinished
      BY <1>1 DEF q
    <3>2. v <= j - 1
      BY <2>1, <3>1
    <3> QED BY <1>0, <2>1, <3>1, <3>2
  <2>4. q \subseteq Nat
    BY <1>0, <1>1 DEF q
  <2>5. ASSUME NEW i \in q, \A j \in q : i <= j PROVE i = v + 1
    <3>1. i <= v + 1 /\ v + 1 <= i /\ i \in Nat
      BY <2>2, <2>3, <2>4, <2>5
    <3> QED BY <2>1, <3>1
  <2>6. Queue!QShed = CHOOSE i \in q : \A j \in q : i <= j
    BY <2>2 DEF Queue!QShed, q
  <2>7. (CHOOSE i \in q : \A j \in q : i <= j) = v + 1
    BY <2>2, <2>3, <2>5
  <2> QED BY <2>6, <2>7 DEF v
<1> QED BY <1>3, <1>4

(***************************************************************************)
(* Two queues of as many events, the same one by one, are the same queue.  *)
(***************************************************************************)
LEMMA SameQueue ==
  ASSUME NEW s \in Seq(Entry), NEW q \in Seq(Entry), Len(s) = Len(q),
         \A i \in 1..Len(q) : s[i] = q[i]
  PROVE  s = q
BY SeqEqual

(***************************************************************************)
(* Each critical section does to the buffer what it does to the queue.     *)
(***************************************************************************)
LEMMA PushIsReceive == TypeOK /\ TypeOK' /\ Push => Queue!QNext
<1> SUFFICES ASSUME TypeOK, TypeOK', Push PROVE Queue!QNext
  OBVIOUS
<1>1. PICK final \in BOOLEAN, seq \in Seqs :
        LET e == [final |-> final, seq |-> seq, gen |-> gen] IN PushFull(e) \/ PushRoom(e)
  BY DEF Push
<1> DEFINE e == [final |-> final, seq |-> seq, gen |-> gen]
           old == IF Len(Buffer) < Depth THEN Buffer ELSE Queue!RemoveAt(Buffer, Queue!QShed)
<1>2. e \in Entry /\ (PushFull(e) \/ PushRoom(e)) /\ gen' = gen
  BY <1>1 DEF Entry, TypeOK, Push
<1>3. Buffer' = Append(old, e) => Queue!QNext
  BY <1>2 DEF Queue!QNext, Queue!QReceive, Buffer
<1>4. /\ Buffer \in Seq(Entry) /\ Len(Buffer) = count
      /\ \A i \in 1..count : Buffer[i] = ring[At(i - 1)]
  BY BufferNow
<1>5. /\ Buffer' \in Seq(Entry) /\ Len(Buffer') = count'
      /\ \A i \in 1..count' : Buffer'[i] = ring[At(i - 1)]'
  BY BufferNext
<1>6. count \in Nat /\ Depth \in Nat /\ Depth > 0
  BY Numbers
<1> HIDE DEF e, old
<1>7. ASSUME old \in Seq(Entry), count' = Len(old) + 1,
             \A i \in 1..Len(old) : ring[At(i - 1)]' = old[i],
             \A i \in Nat : i = Len(old) => ring[At(i)]' = e
      PROVE  Queue!QNext
  <2>1. /\ Append(old, e) \in Seq(Entry) /\ Len(Append(old, e)) = Len(old) + 1
        /\ \A i \in 1..Len(old) : Append(old, e)[i] = old[i]
        /\ Append(old, e)[Len(old) + 1] = e
    BY <1>2, <1>7, AppendProperties
  <2>2. Len(old) \in Nat
    BY <1>7
  <2>3. ASSUME NEW i \in 1..(Len(old) + 1) PROVE Buffer'[i] = Append(old, e)[i]
    <3>1. Buffer'[i] = ring[At(i - 1)]'
      BY <1>5, <1>7
    <3>2. CASE i = Len(old) + 1
      <4>1. i - 1 = Len(old) /\ i - 1 \in Nat
        BY <2>2, <3>2
      <4>2. ring[At(i - 1)]' = e
        BY <1>7, <4>1
      <4> QED BY <2>1, <3>1, <3>2, <4>2
    <3>3. CASE i \in 1..Len(old)
      BY <1>7, <2>1, <3>1, <3>3
    <3> QED BY <2>2, <3>2, <3>3
  <2>4. Buffer' = Append(old, e)
    BY <1>5, <1>7, <2>1, <2>3, SameQueue
  <2> QED BY <1>3, <2>4
<1>8. CASE PushRoom(e)
  <2>1. /\ count \in Nat /\ count < Depth /\ count' = count + 1
        /\ \A i \in 0..count : ring[At(i)]' = IF i = count THEN e ELSE ring[At(i)]
    BY <1>2, <1>8, RoomPush
  <2>2. old = Buffer
    BY <1>4, <2>1 DEF old
  <2>3. ASSUME NEW i \in 1..Len(old) PROVE ring[At(i - 1)]' = old[i]
    <3>1. i - 1 \in 0..count /\ i - 1 # count /\ i \in 1..count
      BY <1>4, <2>1, <2>2
    <3> QED BY <1>4, <2>1, <2>2, <3>1
  <2>4. \A i \in Nat : i = Len(old) => ring[At(i)]' = e
    BY <1>4, <2>1, <2>2
  <2> QED BY <1>4, <1>7, <2>1, <2>2, <2>3, <2>4
<1>9. CASE PushFull(e)
  <2>1. /\ count = Depth /\ count' = Depth
        /\ \A i \in 0..(Depth - 1) :
              ring[At(i)]' = IF i = Depth - 1 THEN e
                             ELSE IF i < Victim THEN ring[At(i)] ELSE ring[At(i + 1)]
    BY <1>2, <1>9, FullPush
  <2> DEFINE v == Victim
  <2>2. Queue!QShed = v + 1 /\ v \in Nat /\ v < Depth
    BY <2>1, SameVictim, VictimIsFirst
  <2> HIDE DEF v
  <2>3. v + 1 \in 1..Len(Buffer)
    BY <1>4, <1>6, <2>1, <2>2
  <2>4. old = Queue!RemoveAt(Buffer, v + 1)
    BY <1>4, <1>6, <2>1, <2>2 DEF old
  <2>5. /\ old \in Seq(Entry) /\ Len(old) = Depth - 1
        /\ \A i \in 1..(Depth - 1) : old[i] = IF i < v + 1 THEN Buffer[i] ELSE Buffer[i + 1]
    BY <1>4, <2>1, <2>3, <2>4, Removed
  <2>6. ASSUME NEW i \in 1..Len(old) PROVE ring[At(i - 1)]' = old[i]
    <3>1. /\ i - 1 \in 0..(Depth - 1) /\ i - 1 # Depth - 1 /\ i \in 1..Depth
          /\ i + 1 \in 1..Depth /\ i + 1 - 1 = i - 1 + 1 /\ i \in 1..(Depth - 1)
          /\ (i - 1 < v <=> i < v + 1)
      BY <1>6, <2>2, <2>5
    <3>2. ring[At(i - 1)]' = IF i - 1 < v THEN ring[At(i - 1)] ELSE ring[At(i - 1 + 1)]
      BY <2>1, <3>1 DEF v
    <3>3. Buffer[i] = ring[At(i - 1)] /\ Buffer[i + 1] = ring[At(i - 1 + 1)]
      BY <1>4, <2>1, <3>1
    <3> QED BY <2>5, <3>1, <3>2, <3>3
  <2>7. \A i \in Nat : i = Len(old) => ring[At(i)]' = e
    BY <1>6, <2>1, <2>5
  <2>8. count' = Len(old) + 1
    BY <1>6, <2>1, <2>5
  <2> QED BY <1>7, <2>5, <2>6, <2>7, <2>8
<1> QED BY <1>2, <1>8, <1>9

LEMMA Advanced ==
  ASSUME TypeOK, NEW n \in Nat, NEW j \in Nat, n + j < Depth, n <= Depth,
         head' = (head + n) % Depth
  PROVE  At(j)' = At(n + j)
<1>1. head \in Nat /\ head < Depth /\ Depth \in Nat /\ j <= Depth /\ n + j \in Nat /\ n + j <= Depth
  BY RingAssumption DEF TypeOK, Slot
<1>2. head' = (IF head + n < Depth THEN head + n ELSE head + n - Depth)
  BY <1>1, Lap
<1>3. head' \in Nat /\ head' < Depth
  BY <1>1, <1>2
<1> DEFINE x == At(j)'
           y == At(n + j)
<1>4. x = IF head' + j < Depth THEN head' + j ELSE head' + j - Depth
  BY <1>1, <1>3, Lap DEF At
<1>5. y = IF head + (n + j) < Depth THEN head + (n + j) ELSE head + (n + j) - Depth
  BY <1>1, AtIs
<1> HIDE DEF x, y
<1>6. x = y
  BY <1>1, <1>2, <1>4, <1>5
<1> QED BY <1>6 DEF x, y

LEMMA TakeIsTake == TypeOK /\ TypeOK' /\ Take => Queue!QNext
<1> SUFFICES ASSUME TypeOK, TypeOK', Take PROVE Queue!QNext
  OBVIOUS
<1> DEFINE n == Batch
           rest == SubSeq(Buffer, n + 1, Len(Buffer))
<1>1. /\ count \in Nat /\ head \in Nat /\ Depth \in Nat \ {0} /\ MaxPerPoll \in Nat \ {0}
      /\ head < Depth /\ count <= Depth
  BY RingAssumption DEF TypeOK, Slot
<1>2. n \in 1..MaxPerPoll /\ n <= count
  BY <1>1 DEF Take, Batch, Smaller
<1>3. head' = (head + n) % Depth /\ count' = count - n /\ ring' = ring /\ gen' = gen
  BY DEF Take
<1>4. /\ Buffer \in Seq(Entry) /\ Len(Buffer) = count
      /\ \A i \in 1..count : Buffer[i] = ring[At(i - 1)]
  BY BufferNow
<1>5. /\ Buffer' \in Seq(Entry) /\ Len(Buffer') = count'
      /\ \A i \in 1..count' : Buffer'[i] = ring[At(i - 1)]'
  BY BufferNext
<1>6. n <= Len(Buffer) /\ Buffer' = rest => Queue!QNext
  BY <1>2, <1>3 DEF Queue!QNext, Queue!QTake, Buffer
<1> HIDE DEF n
<1>7. /\ rest \in Seq(Entry) /\ Len(rest) = count - n
      /\ \A i \in 1..(count - n) : rest[i] = Buffer[n + i]
  <2>1. \A i \in (n + 1)..count : Buffer[i] \in Entry
    BY <1>2, <1>4
  <2>2. /\ rest \in Seq(Entry)
        /\ Len(rest) = IF n + 1 <= count THEN count - (n + 1) + 1 ELSE 0
        /\ \A i \in 1..(count - (n + 1) + 1) : rest[i] = Buffer[n + 1 + i - 1]
    BY <1>1, <1>2, <1>4, <2>1, SubSeqProperties
  <2> HIDE DEF rest
  <2> QED BY <1>1, <1>2, <2>2
<1>8. ASSUME NEW i \in 1..count' PROVE Buffer'[i] = rest[i]
  <2>1. i \in Nat /\ i - 1 \in Nat /\ i - 1 < Depth /\ i <= count - n /\ n + i \in 1..count
        /\ n + (i - 1) \in Nat /\ n + (i - 1) < Depth
    BY <1>1, <1>2, <1>3
  <2>2. At(i - 1)' = At(n + (i - 1))
    BY <1>1, <1>2, <1>3, <2>1, Advanced
  <2>3. ring[At(i - 1)]' = ring[At(n + (i - 1))]
    BY <1>3, <2>2
  <2>4. n + i - 1 = n + (i - 1)
    BY <1>2, <2>1
  <2>5. Buffer[n + i] = ring[At(n + (i - 1))]
    <3> DEFINE m == n + i
    <3>1. m \in 1..count /\ m - 1 = n + (i - 1)
      BY <1>1, <1>2, <2>1
    <3> HIDE DEF m
    <3>2. Buffer[m] = ring[At(m - 1)]
      BY <1>4, <3>1
    <3>3. At(m - 1) = At(n + (i - 1))
      BY <3>1, Zenon
    <3> QED BY <3>2, <3>3 DEF m
  <2>6. i \in 1..(count - n)
    BY <1>3
  <2> QED BY <1>5, <1>7, <2>3, <2>5, <2>6
<1>9. Buffer' = rest
  BY <1>3, <1>5, <1>7, <1>8, SameQueue
<1> QED BY <1>2, <1>4, <1>6, <1>9

LEMMA InvalidateIsEnd == TypeOK' /\ Invalidate => Queue!QNext
<1> SUFFICES ASSUME TypeOK', Invalidate PROVE Queue!QNext
  OBVIOUS
<1>1. count' = 0 /\ gen' = gen + 1
  BY DEF Invalidate
<1>2. Buffer' = <<>>
  BY <1>1, BufferNext
<1> QED BY <1>1, <1>2 DEF Queue!QNext, Queue!QEnd, Buffer

LEMMA QueueInit == Init => Queue!QInit
<1> SUFFICES ASSUME Init PROVE Queue!QInit
  OBVIOUS
<1>1. TypeOK /\ count = 0 /\ gen = 0
  BY RingInitially DEF Init, RInv
<1>2. Buffer = <<>>
  BY <1>1, BufferNow
<1> QED BY <1>1, <1>2 DEF Queue!QInit, Buffer

LEMMA QueueStep == RInv /\ [Next]_vars => [Queue!QNext]_(Queue!qvars)
<1> SUFFICES ASSUME RInv, [Next]_vars PROVE [Queue!QNext]_(Queue!qvars)
  OBVIOUS
<1>1. TypeOK /\ TypeOK'
  BY RingStep DEF RInv
<1>2. CASE Push
  BY <1>1, <1>2, PushIsReceive
<1>3. CASE Invalidate
  BY <1>1, <1>3, InvalidateIsEnd
<1>4. CASE Take
  BY <1>1, <1>4, TakeIsTake
<1>5. CASE UNCHANGED <<ring, head, count, gen>>
  BY <1>5 DEF Queue!qvars, At
<1>6. CASE DropStale \/ Reject \/ Accept \/ Forward \/ UNCHANGED vars
  BY <1>5, <1>6 DEF DropStale, Reject, Accept, Forward, vars, buf
<1> QED BY <1>2, <1>3, <1>4, <1>6 DEF Next, SttPoll

(***************************************************************************)
(* Whatever its depth, the circular buffer is the queue SttAO relies on:   *)
(* first in first out, shedding the oldest unfinished transcript when      *)
(* full, empty when a session has ended.                                   *)
(***************************************************************************)
THEOREM RingIsQueue == Spec => ImplementsQueue
BY QueueInit, QueueStep, RingInvariant, PTL DEF Spec, ImplementsQueue, Queue!QSpec

-----------------------------------------------------------------------------
(***************************************************************************)
(* With as many numbers in one set as in another, one to one.              *)
(***************************************************************************)
LEMMA OneToOne ==
  ASSUME NEW S, NEW T, IsFiniteSet(T), NEW f, f \in [S -> T],
         \A x \in S, y \in S : f[x] = f[y] => x = y
  PROVE  IsFiniteSet(S) /\ Cardinality(S) <= Cardinality(T)
<1>1. f \in Injection(S, T)
  BY DEF Injection, IsInjective
<1> QED BY <1>1, FS_Injection

(***************************************************************************)
(* A push keeps every finished transcript, in a ring with room or with an  *)
(* unfinished one to shed.                                                 *)
(***************************************************************************)
LEMMA FinalsKept ==
  ASSUME TypeOK, TypeOK', NEW e \in Entry, PushFull(e) \/ PushRoom(e),
         Cardinality(Finals') < Cardinality(Finals)
  PROVE  Finals = Slot
<1>1. count \in Nat /\ Depth \in Nat /\ Depth > 0 /\ count <= Depth
  BY Numbers
<1>2. count' \in Nat
  BY DEF TypeOK
<1>3. Finals \subseteq 0..(count - 1) /\ Finals' \subseteq 0..(count' - 1)
  BY DEF Finals
<1>4. IsFiniteSet(0..(count' - 1))
  BY <1>2, FS_Interval
<1>5. IsFiniteSet(Finals')
  BY <1>3, <1>4, FS_Subset
<1>6. ASSUME NEW f, f \in [Finals -> Finals'],
             \A x \in Finals, y \in Finals : f[x] = f[y] => x = y
      PROVE  FALSE
  <2>1. IsFiniteSet(Finals) /\ Cardinality(Finals) <= Cardinality(Finals')
    BY <1>5, <1>6, OneToOne
  <2>2. Cardinality(Finals) \in Nat /\ Cardinality(Finals') \in Nat
    BY <1>5, <2>1, FS_CardinalityType
  <2> QED BY <2>1, <2>2
<1>7. CASE PushRoom(e)
  <2>1. /\ count < Depth /\ count' = count + 1
        /\ \A i \in 0..count : ring[At(i)]' = IF i = count THEN e ELSE ring[At(i)]
    BY <1>7, RoomPush
  <2>2. ASSUME NEW i \in Finals PROVE i \in Finals'
    <3>1. i \in 0..(count - 1) /\ ring[At(i)].final
      BY <2>2 DEF Finals
    <3>2. i \in 0..count /\ i # count /\ i \in 0..(count' - 1)
      BY <1>1, <2>1, <3>1
    <3>3. ring[At(i)]' = ring[At(i)]
      BY <2>1, <3>2
    <3> QED BY <3>1, <3>2, <3>3 DEF Finals
  <2> DEFINE f == [i \in Finals |-> i]
  <2>3. f \in [Finals -> Finals'] /\ \A x \in Finals, y \in Finals : f[x] = f[y] => x = y
    BY <2>2
  <2> QED BY <1>6, <2>3
<1>8. CASE PushFull(e)
  <2>1. /\ count = Depth /\ count' = Depth
        /\ \A i \in 0..(Depth - 1) :
              ring[At(i)]' = IF i = Depth - 1 THEN e
                             ELSE IF i < Victim THEN ring[At(i)] ELSE ring[At(i + 1)]
    BY <1>8, FullPush
  <2>2. CASE Unfinished = {}
    BY <1>1, <2>1, <2>2 DEF Unfinished, Finals, Slot
  <2>3. CASE Unfinished # {}
    <3> DEFINE v == Victim
               f == [i \in Finals |-> IF i < v THEN i ELSE i - 1]
    <3>1. v \in Nat /\ v < Depth /\ v \in Unfinished
      BY <2>3, VictimIsFirst
    <3>2. v \notin Finals
      BY <3>1 DEF Finals, Unfinished
    <3>3. \A i \in 0..(Depth - 1) :
              ring[At(i)]' = IF i = Depth - 1 THEN e
                             ELSE IF i < v THEN ring[At(i)] ELSE ring[At(i + 1)]
      BY <2>1
    <3> HIDE DEF v
    <3>4. ASSUME NEW i \in Finals PROVE f[i] \in Finals'
      <4>1. i \in Nat /\ i < Depth /\ ring[At(i)].final /\ i # v
        BY <1>1, <2>1, <3>2, <3>4 DEF Finals
      <4>2. CASE i < v
        <5>1. i \in 0..(Depth - 1) /\ i # Depth - 1
          BY <1>1, <3>1, <4>1, <4>2
        <5>2. ring[At(i)]' = ring[At(i)]
          BY <3>3, <4>2, <5>1
        <5>3. i \in Finals'
          BY <2>1, <4>1, <5>1, <5>2 DEF Finals
        <5> QED BY <4>2, <5>3
      <4>3. CASE v < i
        <5> DEFINE k == i - 1
        <5>1. k \in 0..(Depth - 1) /\ k # Depth - 1 /\ ~ (k < v) /\ k + 1 = i
          BY <1>1, <3>1, <4>1, <4>3
        <5> HIDE DEF k
        <5>2. ring[At(k)]' = ring[At(k + 1)]
          BY <3>3, <5>1
        <5>3. k \in Finals'
          BY <2>1, <4>1, <5>1, <5>2 DEF Finals
        <5>4. ~ (i < v)
          BY <3>1, <4>1, <4>3
        <5> QED BY <5>3, <5>4 DEF k
      <4> QED BY <3>1, <4>1, <4>2, <4>3
    <3>5. ASSUME NEW x \in Finals, NEW y \in Finals, f[x] = f[y] PROVE x = y
      <4>1. x \in Nat /\ y \in Nat /\ x # v /\ y # v
        BY <1>1, <1>3, <3>2
      <4>2. (IF x < v THEN x ELSE x - 1) = (IF y < v THEN y ELSE y - 1)
        BY <3>5
      <4> QED BY <3>1, <4>1, <4>2
    <3>6. f \in [Finals -> Finals']
      BY <3>4
    <3> QED BY <1>6, <3>5, <3>6
  <2> QED BY <2>2, <2>3
<1> QED BY <1>7, <1>8

(***************************************************************************)
(* No finished sentence is shed while there is an unfinished one, at any   *)
(* depth.                                                                  *)
(***************************************************************************)
THEOREM SentencesShedLast == Spec => FinalsShedLast
<1>1. RInv /\ [Next]_vars =>
        [Push /\ Cardinality(Finals') < Cardinality(Finals) => Finals = Slot]_vars
  <2> SUFFICES ASSUME RInv, [Next]_vars, Push, Cardinality(Finals') < Cardinality(Finals)
               PROVE  Finals = Slot
    OBVIOUS
  <2>1. TypeOK /\ TypeOK'
    BY RingStep DEF RInv
  <2>2. \E e \in Entry : PushFull(e) \/ PushRoom(e)
    BY <2>1 DEF Push, Entry, TypeOK
  <2> QED BY <2>1, <2>2, FinalsKept
<1> QED BY <1>1, RingInvariant, PTL DEF Spec, FinalsShedLast
=============================================================================
