---------------------------- MODULE Coordinator ----------------------------
(***************************************************************************)
(* What SystemAO promises, without queues, timers or threads: the program  *)
(* serves only once every member has reported ready; once it starts to     *)
(* stop it never serves again; members go quiet for good, and only while   *)
(* stopping; it ends by itself either with every member quiet or because   *)
(* waiting for them was given up (or the framework asserted).              *)
(***************************************************************************)
EXTENDS FiniteSets

CONSTANT Member

VARIABLES phase, ready, quiet

cvars == <<phase, ready, quiet>>

CInit == phase = "starting" /\ ready = {} /\ quiet = {}

Report(m) ==
  /\ phase = "starting"
  /\ ready' = ready \cup {m}
  /\ phase' = IF ready' = Member THEN "serving" ELSE phase
  /\ UNCHANGED quiet

BeginStop ==
  /\ phase \in {"starting", "serving"}
  /\ phase' = "stopping"
  /\ ready \subseteq ready' /\ ready' \subseteq Member
  /\ UNCHANGED quiet

GoQuiet(m) ==
  /\ phase = "stopping"
  /\ quiet' = quiet \cup {m}
  /\ UNCHANGED <<phase, ready>>

Finish  == phase = "stopping" /\ quiet = Member /\ phase' = "done" /\ UNCHANGED <<ready, quiet>>
GiveUp  == phase = "stopping" /\ phase' = "forced" /\ UNCHANGED <<ready, quiet>>
Crash   == /\ phase \in {"starting", "serving", "stopping"}
           /\ phase' = "crashed"
           /\ UNCHANGED <<ready, quiet>>

CNext == \/ \E m \in Member : Report(m) \/ GoQuiet(m)
         \/ BeginStop \/ Finish \/ GiveUp \/ Crash

CSpec == CInit /\ [][CNext]_cvars
End == phase = "stopping" /\ (Finish \/ GiveUp \/ Crash)
CFairSpec == CSpec /\ WF_cvars(End)
=============================================================================
