----------------------------- MODULE AudioFeed -----------------------------
(***************************************************************************)
(* What the server relies on: a session carries audio captured after it    *)
(* was ready, in capture order, numbered from 0 without a gap, and the     *)
(* difference of two drop reports is the number of chunks missing between. *)
(***************************************************************************)
EXTENDS Integers

VARIABLES captured, \* chunks captured so far
          base,     \* the first chunk the session may carry
          last      \* the last one it carried; NoChunk: none yet

fvars == <<captured, base, last>>

NoChunk == [id |-> -1, rep |-> 0, seq |-> -1]

FInit == captured = 0 /\ base = 0 /\ last = NoChunk

FCapture == captured' = captured + 1 /\ UNCHANGED <<base, last>>

FReady == base' = captured /\ last = NoChunk /\ UNCHANGED <<captured, last>>

FFirst ==
  /\ last = NoChunk
  /\ \E id \in base..(captured - 1), rep \in 0..captured :
       last' = [id |-> id, rep |-> rep, seq |-> 0]
  /\ UNCHANGED <<captured, base>>

FNext ==
  /\ last # NoChunk
  /\ \E id \in (last.id + 1)..(captured - 1) :
       last' = [id |-> id, rep |-> last.rep + id - last.id - 1, seq |-> last.seq + 1]
  /\ UNCHANGED <<captured, base>>

FEnd == last' = NoChunk /\ UNCHANGED <<captured, base>>

FSpec == FInit /\ [][FCapture \/ FReady \/ FFirst \/ FNext \/ FEnd]_fvars
=============================================================================
