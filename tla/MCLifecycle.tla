---------------------------- MODULE MCLifecycle ----------------------------
(***************************************************************************)
(* Lifecycle with the queue lengths of app.c, and with queues so short     *)
(* that reports to SystemAO are refused.                                   *)
(***************************************************************************)
EXTENDS Lifecycle

MCQueueLen      == [a \in AO |-> IF a \in {"subtitle", "video"} THEN 16 ELSE 8]
MCShortQueueLen == [a \in AO |-> 3]
=============================================================================
