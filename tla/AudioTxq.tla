------------------------------ MODULE AudioTxq ------------------------------
(***************************************************************************)
(* The audio transmit queue (stt_audio_txq.c): the capture thread pushes,  *)
(* the STT network worker pops and discards, each under the queue's lock.  *)
(* A full queue sheds its oldest chunk.                                    *)
(***************************************************************************)
EXTENDS Integers

CONSTANT TxDepth  \* STT_AUDIO_TXQ_DEPTH

ASSUME TxAssumption == TxDepth \in Nat \ {0}

VARIABLES
  slots, qhead, qcount,  \* the circular buffer
  qopen,                 \* worker_started
  qlost                  \* dropped_total, and chunks_dropped_tx, always equal

txq == <<slots, qhead, qcount, qopen, qlost>>

(***************************************************************************)
(* A chunk: its number in the capture, and what it reports as dropped.     *)
(***************************************************************************)
Chunk == [id : Nat, rep : Nat]
TxSlot == 0..(TxDepth - 1)

TxInit ==
  /\ slots = [s \in TxSlot |-> [id |-> 0, rep |-> 0]]
  /\ qhead = 0 /\ qcount = 0 /\ qopen = FALSE /\ qlost = 0

TxNext(s) == (s + 1) % TxDepth

(***************************************************************************)
(* stt_audio_txq_worker_started.                                           *)
(***************************************************************************)
TxOpen == qopen' = TRUE /\ UNCHANGED <<slots, qhead, qcount, qlost>>

MutTxShed(c) ==
  /\ qopen /\ qcount = TxDepth
  /\ slots' = [slots EXCEPT ![qhead] = c]
  /\ qhead' = TxNext(qhead)
  /\ UNCHANGED <<qcount, qopen, qlost>>

(***************************************************************************)
(* stt_audio_txq_push: with every slot taken, the oldest chunk makes room. *)
(***************************************************************************)
TxShed(c) ==
  /\ qopen /\ qcount = TxDepth
  /\ slots' = [slots EXCEPT ![qhead] = c]
  /\ qhead' = TxNext(qhead)
  /\ qlost' = qlost + 1
  /\ UNCHANGED <<qcount, qopen>>

TxStore(c) ==
  /\ qopen /\ qcount < TxDepth
  /\ slots' = [slots EXCEPT ![(qhead + qcount) % TxDepth] = c]
  /\ qcount' = qcount + 1
  /\ UNCHANGED <<qhead, qopen, qlost>>

TxPush(c) == TxShed(c) \/ TxStore(c)

(***************************************************************************)
(* stt_audio_txq_pop: the oldest chunk, which now also reports every chunk *)
(* this queue has dropped.                                                 *)
(***************************************************************************)
TxHead == [slots[qhead] EXCEPT !.rep = @ + qlost]

TxPop ==
  /\ qcount > 0
  /\ qhead' = TxNext(qhead)
  /\ qcount' = qcount - 1
  /\ UNCHANGED <<slots, qopen, qlost>>

(***************************************************************************)
(* stt_audio_txq_discard_all.                                              *)
(***************************************************************************)
TxDiscard ==
  /\ qlost' = qlost + qcount
  /\ qhead' = 0 /\ qcount' = 0
  /\ UNCHANGED <<slots, qopen>>

TxTypeOK ==
  /\ slots \in [TxSlot -> Chunk] /\ qhead \in TxSlot /\ qcount \in 0..TxDepth
  /\ qopen \in BOOLEAN /\ qlost \in Nat
=============================================================================
