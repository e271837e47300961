---------------------------- MODULE EventQueue ----------------------------
(***************************************************************************)
(* What SttAO relies on: a bounded first-in first-out queue of transcripts *)
(* that, when full, sheds the oldest unfinished one, or the oldest of all  *)
(* when every one is finished, and forgets everything when a session ends. *)
(***************************************************************************)
EXTENDS Naturals, SequencesExt

CONSTANTS Depth, MaxPerPoll, Seqs

VARIABLES buffer, session

qvars == <<buffer, session>>

QInit == buffer = <<>> /\ session = 0

QUnfinished == {i \in DOMAIN buffer : ~buffer[i].final}

QShed == IF QUnfinished = {} THEN 1
         ELSE CHOOSE i \in QUnfinished : \A j \in QUnfinished : i <= j

QReceive ==
  /\ \E final \in BOOLEAN, seq \in Seqs :
       LET e == [final |-> final, seq |-> seq, gen |-> session] IN
       buffer' = Append(IF Len(buffer) < Depth THEN buffer ELSE RemoveAt(buffer, QShed), e)
  /\ UNCHANGED session

QTake ==
  /\ \E n \in 1..MaxPerPoll : n <= Len(buffer) /\ buffer' = SubSeq(buffer, n + 1, Len(buffer))
  /\ UNCHANGED session

QEnd == buffer' = <<>> /\ session' = session + 1

QNext == QReceive \/ QTake \/ QEnd

QSpec == QInit /\ [][QNext]_qvars
=============================================================================
