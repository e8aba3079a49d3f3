---- MODULE Processes ----
(***************************************************************************)
(* Programs on one SQLite file: each is a process that takes a step per    *)
(* SELECT and per commit, and that may be killed between two of them.      *)
(* They run side by side, or in turn: then an operation ends before the    *)
(* next one begins.                                                        *)
(***************************************************************************)
EXTENDS Integers

CONSTANTS
  Procs,        \* processes
  MaxOps,       \* bound: operations begun
  MaxCrashes    \* bound: processes killed in the middle of an operation

ASSUME ProcessesAssumption == MaxOps \in Nat /\ MaxCrashes \in Nat

VARIABLES
  work,     \* where each process is in its operation, with what it read
  inTurn,
  ops, crashes

procVars == <<work, inTurn, ops, crashes>>

Idle == [at |-> "idle"]
Idling == \A p \in Procs : work[p] = Idle

ProcInit ==
  /\ work = [p \in Procs |-> Idle]
  /\ inTurn \in BOOLEAN
  /\ ops = 0 /\ crashes = 0

(* A process begins an operation and goes to where the operation reads.    *)
Begins(p, there) ==
  /\ ops < MaxOps
  /\ work[p] = Idle
  /\ inTurn => Idling
  /\ work' = [work EXCEPT ![p] = there]
  /\ ops' = ops + 1
  /\ UNCHANGED <<inTurn, crashes>>

(* It goes on, or ends when there is Idle.                                 *)
Goes(p, there) ==
  /\ work' = [work EXCEPT ![p] = there]
  /\ UNCHANGED <<inTurn, ops, crashes>>

Kill(p) ==
  /\ crashes < MaxCrashes
  /\ work[p] # Idle
  /\ work' = [work EXCEPT ![p] = Idle]
  /\ crashes' = crashes + 1
  /\ UNCHANGED <<inTurn, ops>>

====
