-------------------------- MODULE P2PoolSupervisor --------------------------
(***************************************************************************)
(* What the supervisor promises, as spec section 3 (SupervisorState) and   *)
(* section 4.3 state it: Stopped -> Running -> Restarting -> {Running,     *)
(* Failed}, Stop from any state but Stopped, and Failed left only by a     *)
(* fresh Start.  Restarting is transient: it always resolves.  The detailed *)
(* model P2PoolProcessManager implements this specification under the     *)
(* mapping SupervisorPhase defined there.                                  *)
(***************************************************************************)

VARIABLE phase

Phases == {"stopped", "running", "restarting", "failed"}

Init == phase = "stopped"

(* Start(): a stopped or failed supervisor spawns the worker and runs.     *)
Start == phase \in {"stopped", "failed"} /\ phase' = "running"

(* Stop(): cancels monitoring from any state other than Stopped.           *)
Stop == phase # "stopped" /\ phase' = "stopped"

(* A tick finds the worker dead or failing its probes.                     *)
Fail == phase = "running" /\ phase' = "restarting"

(* The respawn succeeded.                                                  *)
Recover == phase = "restarting" /\ phase' = "running"

(* Attempts exhausted, or the respawn failed.                              *)
GiveUp == phase = "restarting" /\ phase' = "failed"

Next == Start \/ Stop \/ Fail \/ Recover \/ GiveUp

Spec == Init /\ [][Next]_phase

(* Restarting resolves: the monitor runs on, so it does not stay there.    *)
FairSpec == Spec /\ WF_phase(Recover \/ GiveUp)

TypeOK == phase \in Phases

=============================================================================
