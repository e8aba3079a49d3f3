---- MODULE LocalPool ----
(***************************************************************************)
(* Scheduler, epochs and agents on one database.                           *)
(***************************************************************************)
EXTENDS WorkerPool, AgentAccounts

vars == <<procVars, bookTables, poolVars, agentVars>>

Init == ProcInit /\ BookInit /\ PoolInit /\ AgentInit

PoolMoves == \E p \in Procs : PoolStep(p) /\ UNCHANGED agentVars
AgentMoves == \E p \in Procs : AgentStep(p) /\ UNCHANGED poolVars
Killed == \E p \in Procs : Kill(p) /\ UNCHANGED <<bookTables, poolVars, agentVars>>

Next == PoolMoves \/ AgentMoves \/ Killed

Spec == Init /\ [][Next]_vars

----

(***************************************************************************)
(* A receipt is paid once by the scheduler and credited once to an agent,  *)
(* whichever processes race for it; and the scheduler pays a job id once   *)
(* while processes take turns and none is killed (the marker of a paid job *)
(* is a commit after the payout).                                          *)
(***************************************************************************)
PaidOnce ==
  \A i, k \in DOMAIN payouts :
    LET e == payouts[i]
        f == payouts[k]
    IN  i # k /\ e.basis = f.basis /\ e.basis # "pplns" =>
          /\ e.source # f.source
          /\ inTurn /\ crashes = 0 /\ e.basis = "tokens" =>
               receipts[e.source].job # receipts[f.source].job

====
