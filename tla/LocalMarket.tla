---- MODULE LocalMarket ----
(***************************************************************************)
(* The marketplace on one machine: the command "market.py --route-jobs"    *)
(* assigns queued jobs to workers, and the daemon of each worker           *)
(* (worker_daemon.WorkerDaemon) runs the jobs assigned to it, has a        *)
(* committee look at the result and settles or refunds the escrow itself.  *)
(* Router and daemons are processes of their own on one SQLite file.       *)
(*                                                                         *)
(* A step is one commit, with the reads before it; ledger calls are those  *)
(* of EscrowAccounts.  The jobs have been submitted and their escrows      *)
(* committed before (ClusterController has the submission).  Committees    *)
(* are enabled, as in config.demo.yaml.                                    *)
(***************************************************************************)
EXTENDS Integers, FiniteSets, Verdicts

CONSTANTS
  NJobs,        \* jobs, numbered in the order of created_at
  Workers,      \* the workers, each with a daemon
  Price,        \* the escrow amount of a job
  Input, Expected,  \* tokens of a job: input_tokens, expected_output_tokens
  Counts,       \* how many tokens an answer may have
  FeePerMille,
  Quorum,       \* committees.quorum_threshold
  Regimes,      \* how the processes are used: see below
  MaxCrashes    \* bound: times a process stops in the middle of a round

Jobs == 1..NJobs

(* In a regime, processes work at the same time or one after the other,    *)
(* some jobs have an expires_at, and some workers serve the model of the   *)
(* jobs and have the GPU they ask for.  submit-job writes no expires_at;   *)
(* jobs that expire while several processes work are not modelled.         *)
ASSUME MarketAssumption ==
  /\ NJobs \in Nat /\ Price \in Nat /\ FeePerMille \in 0..1000
  /\ Input \in Nat /\ Expected \in Nat /\ Counts \subseteq Nat
  /\ Quorum \in Nat \ {0} /\ MaxCrashes \in Nat /\ "router" \notin Workers
  /\ Regimes \subseteq [together : BOOLEAN, expiring : SUBSET Jobs, serves : SUBSET Workers]
  /\ \A r \in Regimes : r.together => r.expiring = {}

Customer == "customer"
Router == "router"
Procs == Workers \cup {Router}

(* What a receipt may claim: estimated_qi_owed.                            *)
Figures == {Estimate(result, Input) : result \in Outcomes(Expected, Counts)}

VARIABLES
  account, escrow, payable, treasury, op, deposited, paidOut, unbacked,  \* the ledger
  regime,
  job,       \* customer_jobs: status and assigned_worker_id
  audit,     \* routing_audit_logs: the last decision on each job
  due,       \* the jobs whose expires_at has passed
  online,    \* worker_registry: the workers that have registered
  load,      \* worker_registry.current_jobs
  payouts,   \* payout_events: how many for each job
  paid,      \* inference_jobs
  at,        \* where each process is in its round
  crashes

Ledger == INSTANCE EscrowAccounts WITH
  Customers <- {Customer},
  Owner <- [j \in Jobs |-> Customer],
  Crashable <- {},
  Amounts <- Figures \cup {Price},
  Disputes <- BOOLEAN,
  MaxDeposit <- NJobs * Price,
  MaxVolume <- (NJobs + MaxCrashes) * Price

ledgerVars == <<account, escrow, payable, treasury, op, deposited, paidOut, unbacked>>
workerVars == <<online, load>>
payVars == <<payouts, paid>>
jobVars == <<job, audit>>
vars == <<ledgerVars, regime, jobVars, due, workerVars, payVars, at, crashes>>

Idle == [pc |-> "idle"]
NoWorker == "none"
Undecided == "undecided"

Init ==
  /\ account = [c \in {Customer} |-> [available |-> 0, escrowed |-> NJobs * Price,
                                      spent |-> 0, refunded |-> 0]]
  /\ escrow = [j \in Jobs |-> [Ledger!NoRow EXCEPT !.amount = Price, !.status = "escrowed"]]
  /\ payable = [w \in Workers |-> 0]
  /\ treasury = [fees |-> 0, payouts |-> 0, refunds |-> 0, disputed |-> 0, settled |-> 0]
  /\ op = [p \in Procs |-> Ledger!Idle]
  /\ deposited = [c \in {Customer} |-> NJobs * Price]
  /\ paidOut = [j \in Jobs |-> 0] /\ unbacked = [j \in Jobs |-> 0]
  /\ regime \in Regimes
  /\ job = [j \in Jobs |-> [status |-> "queued", worker |-> NoWorker]]
  /\ audit = [j \in Jobs |-> Undecided]
  /\ due = {}
  /\ online = {}
  /\ load = [w \in Workers |-> 0]
  /\ payouts = [j \in Jobs |-> 0]
  /\ paid = {}
  /\ at = [p \in Procs |-> Idle]
  /\ crashes = 0

Goto(p, label) == at' = [at EXCEPT ![p].pc = label]
Return(p) == at' = [at EXCEPT ![p] = Idle]

Oldest(jobs, j) == j \in jobs /\ \A i \in jobs : j <= i

Mine(p) == at[p].job

SetStatus(j, status) == job' = [job EXCEPT ![j].status = status] /\ UNCHANGED audit

(* A process begins a round when it finds the others at rest, unless they  *)
(* work together.                                                          *)
MayBegin(p) ==
  /\ at[p] = Idle
  /\ regime.together \/ \A q \in Procs : at[q] = Idle

PassExpiry(j) ==
  /\ j \in regime.expiring \ due
  /\ due' = due \cup {j}
  /\ UNCHANGED <<ledgerVars, regime, jobVars, workerVars, payVars, at, crashes>>

----
\* expire_stale_customer_jobs, first thing in every round

\* Mutant: completed jobs are scanned for expiry, too.
ScanClosed(p) ==
  /\ at[p].pc = "scan"
  /\ at' = [at EXCEPT ![p] = [pc |-> "expire", rows |->
                {j \in due : job[j].status \in {"queued", "routed", "running", "completed"}}]]
  /\ UNCHANGED <<ledgerVars, regime, jobVars, due, workerVars, payVars, crashes>>

Scan(p) ==
  /\ at[p].pc = "scan"
  /\ at' = [at EXCEPT ![p] = [pc |-> "expire", rows |->
                {j \in due : job[j].status \in {"queued", "routed", "running"}}]]
  /\ UNCHANGED <<ledgerVars, regime, jobVars, due, workerVars, payVars, crashes>>

(* The UPDATE of the job's status is committed by the refund: with the     *)
(* funds, or with record_refund if the row was closed already.             *)
ExpireJob(p) ==
  /\ \/ /\ at[p].pc = "expire"
        /\ \E j \in at[p].rows :
             /\ Oldest(at[p].rows, j)
             /\ Ledger!BeginRefund(p, j, FALSE)
             /\ at' = [at EXCEPT ![p] = [pc |-> "expiring", rows |-> @.rows \ {j}, job |-> j]]
        /\ UNCHANGED jobVars
     \/ /\ at[p].pc = "expiring"
        /\ Ledger!CheckRefund(p) \/ Ledger!MarkRefund(p)
        /\ UNCHANGED <<jobVars, at>>
     \/ /\ at[p].pc = "expiring"
        /\ Ledger!CommitFunds(p)
        /\ SetStatus(Mine(p), "expired")
        /\ UNCHANGED at
     \/ /\ at[p].pc = "expiring"
        /\ Ledger!RecordRefund(p)
        /\ SetStatus(Mine(p), "expired")
        /\ Goto(p, "expire")
  /\ UNCHANGED <<regime, due, workerVars, payVars, crashes>>

----
\* The router: _route_jobs

BeginRoute ==
  /\ MayBegin(Router)
  /\ at' = [at EXCEPT ![Router] = [pc |-> "scan"]]
  /\ UNCHANGED <<ledgerVars, regime, jobVars, due, workerVars, payVars, crashes>>

(* list_online_workers, once for all jobs: the loads that are compared     *)
(* with max_concurrent_jobs (one, as in config.marketplace.yaml) are those *)
(* of this moment; list_queued_jobs.                                       *)
ListQueued ==
  /\ at[Router].pc = "expire" /\ at[Router].rows = {}
  /\ at' = [at EXCEPT ![Router] = [pc |-> "route",
                                   free |-> {w \in online \cap regime.serves : load[w] = 0},
                                   jobs |-> {j \in Jobs : job[j].status = "queued"}]]
  /\ UNCHANGED <<ledgerVars, regime, jobVars, due, workerVars, payVars, crashes>>

(* route_inference_job: a job that has expired since the scan, or that     *)
(* nobody can take, is turned down; the score picks one of the others.     *)
Choices(j) ==
  IF j \in due \/ at[Router].free = {} THEN {NoWorker} ELSE at[Router].free

(* insert_routing_audit_log *)
LogDecision(j, choice) == audit' = [audit EXCEPT ![j] = choice]

(* route_and_audit_inference_job: the decision is logged first.            *)
DecideRoute ==
  /\ at[Router].pc = "route"
  /\ \E j \in at[Router].jobs :
       /\ Oldest(at[Router].jobs, j)
       /\ \E choice \in Choices(j) :
            /\ LogDecision(j, choice)
            /\ at' = [at EXCEPT ![Router] = [pc |-> "assign", free |-> @.free, jobs |-> @.jobs,
                                             job |-> j, choice |-> choice]]
  /\ UNCHANGED <<ledgerVars, regime, job, due, workerVars, payVars, crashes>>

(* assign_customer_job                                                     *)
AssignJob(j, w) == job' = [job EXCEPT ![j] = [status |-> "routed", worker |-> w]]

(* A job no worker is chosen for is rejected; its escrow is not looked at. *)
RouteJob ==
  /\ at[Router].pc = "assign"
  /\ LET j == at[Router].job
         choice == at[Router].choice
     IN  /\ IF choice = NoWorker
            THEN job' = [job EXCEPT ![j] = [status |-> "rejected", worker |-> NoWorker]]
            ELSE AssignJob(j, choice)
         /\ at' = [at EXCEPT ![Router] = [pc |-> "route", free |-> @.free, jobs |-> @.jobs \ {j}]]
  /\ UNCHANGED <<ledgerVars, regime, audit, due, workerVars, payVars, crashes>>

EndRoute ==
  /\ at[Router].pc = "route" /\ at[Router].jobs = {}
  /\ Return(Router)
  /\ UNCHANGED <<ledgerVars, regime, jobVars, due, workerVars, payVars, crashes>>

----
\* A daemon: WorkerDaemon.run_once

(* register_local_worker writes current_jobs = 0.                          *)
BeginRound(w) ==
  /\ MayBegin(w)
  /\ online' = online \cup {w}
  /\ load' = [load EXCEPT ![w] = 0]
  /\ at' = [at EXCEPT ![w] = [pc |-> "scan"]]
  /\ UNCHANGED <<ledgerVars, regime, jobVars, due, payVars, crashes>>

\* Mutant: the worker a job is assigned to is not compared.
AssignedToAny(w) == {j \in Jobs : job[j].status = "routed"}

(* list_assigned_jobs *)
Assigned(w) == {j \in Jobs : job[j].status = "routed" /\ job[j].worker = w}

FindJob(w) ==
  /\ at[w].pc = "expire" /\ at[w].rows = {}
  /\ IF Assigned(w) = {}
     THEN Return(w)
     ELSE \E j \in Assigned(w) :
            Oldest(Assigned(w), j) /\ at' = [at EXCEPT ![w] = [pc |-> "take", job |-> j]]
  /\ UNCHANGED <<ledgerVars, regime, jobVars, due, workerVars, payVars, crashes>>

TakeJob(w) ==
  /\ at[w].pc = "take"
  /\ SetStatus(Mine(w), "running")
  /\ Goto(w, "load")
  /\ UNCHANGED <<ledgerVars, regime, due, workerVars, payVars, crashes>>

(* increment_worker_load *)
CountJob(w) ==
  /\ at[w].pc = "load"
  /\ load' = [load EXCEPT ![w] = @ + 1]
  /\ Goto(w, "run")
  /\ UNCHANGED <<ledgerVars, regime, jobVars, due, online, payVars, crashes>>

(* aggregate_committee_votes: too few votes for either side are a dispute. *)
Aggregate(votes) ==
  LET Count(vote) == Cardinality({v \in DOMAIN votes : votes[v] = vote})
  IN  IF Count("accepted") >= Quorum THEN "accepted"
      ELSE IF Count("rejected") >= Quorum THEN "rejected" ELSE "disputed"

(* The committee votes, drawn from the other workers that are online.      *)
Committee(w) == {Aggregate(votes) : votes \in [online \ {w} -> {"accepted", "rejected"}]}

(* The job runs, and the receipt is stored with its verdict.  Work that    *)
(* runtime, challenge and receipt let pass goes to the committee.  If the  *)
(* runtime raises, only the finally clause is executed: the job remains    *)
(* running, and its escrow held.                                           *)
RunJob(w) ==
  /\ at[w].pc = "run"
  /\ \E result \in Outcomes(Expected, Counts) :
       \/ result.raised /\ Goto(w, "unload")
       \/ /\ ~result.raised
          /\ \E watts \in {0, 1}, challenge \in Challenges(result) :
               LET receipt == ReceiptOf(result, Input, watts)
                   reason == Reason(result, receipt, challenge, Expected)
               IN  \E verdict \in IF reason = None THEN Committee(w) ELSE {reason} :
                     at' = [at EXCEPT ![w] =
                              [pc |-> IF verdict = "accepted" THEN "settle" ELSE "refund",
                               job |-> Mine(w),
                               qi |-> IF verdict = "accepted" THEN receipt.qi ELSE 0,
                               disputed |-> verdict = "disputed"]]
  /\ UNCHANGED <<ledgerVars, regime, jobVars, due, workerVars, payVars, crashes>>

(* settle_job_escrow, record_settlement *)
SettleJob(w) ==
  /\ \/ /\ at[w].pc = "settle"
        /\ Ledger!BeginSettle(w, Mine(w), w, at[w].qi)
        /\ Goto(w, "settling")
     \/ /\ at[w].pc = "settling"
        /\ Ledger!CheckSettle(w) \/ Ledger!CommitSettle(w)
        /\ UNCHANGED at
     \/ /\ at[w].pc = "settling"
        /\ Ledger!RecordSettlement(w)
        /\ Goto(w, "payout")
  /\ UNCHANGED <<regime, jobVars, due, workerVars, payVars, crashes>>

InsertPayout(w) ==
  /\ at[w].pc = "payout"
  /\ payouts' = [payouts EXCEPT ![Mine(w)] = @ + 1]
  /\ Goto(w, "paid")
  /\ UNCHANGED <<ledgerVars, regime, jobVars, due, workerVars, paid, crashes>>

RecordPaid(w) ==
  /\ at[w].pc = "paid"
  /\ paid' = paid \cup {Mine(w)}
  /\ Goto(w, "complete")
  /\ UNCHANGED <<ledgerVars, regime, jobVars, due, workerVars, payouts, crashes>>

(* refund_job_escrow, record_refund *)
RefundJob(w) ==
  /\ \/ /\ at[w].pc = "refund"
        /\ Ledger!BeginRefund(w, Mine(w), at[w].disputed)
        /\ Goto(w, "refunding")
     \/ /\ at[w].pc = "refunding"
        /\ Ledger!CheckRefund(w) \/ Ledger!CommitFunds(w) \/ Ledger!MarkRefund(w)
        /\ UNCHANGED at
     \/ /\ at[w].pc = "refunding"
        /\ Ledger!RecordRefund(w)
        /\ Goto(w, "fail")
  /\ UNCHANGED <<regime, jobVars, due, workerVars, payVars, crashes>>

\* Mutant: the job is marked as failed before its escrow is refunded.
CloseJobFirst(w) ==
  /\ at[w].pc \in {"complete", "refund", "fail"}
  /\ SetStatus(Mine(w), IF at[w].pc = "complete" THEN "completed" ELSE "failed")
  /\ Goto(w, IF at[w].pc = "refund" THEN "refund" ELSE "unload")
  /\ UNCHANGED <<ledgerVars, regime, due, workerVars, payVars, crashes>>

CloseJob(w) ==
  /\ at[w].pc \in {"complete", "fail"}
  /\ SetStatus(Mine(w), IF at[w].pc = "complete" THEN "completed" ELSE "failed")
  /\ Goto(w, "unload")
  /\ UNCHANGED <<ledgerVars, regime, due, workerVars, payVars, crashes>>

(* decrement_worker_load, in the finally clause *)
EndRound(w) ==
  /\ at[w].pc = "unload"
  /\ load' = [load EXCEPT ![w] = IF @ > 0 THEN @ - 1 ELSE 0]
  /\ Return(w)
  /\ UNCHANGED <<ledgerVars, regime, jobVars, due, online, payVars, crashes>>

----

(* A ledger call has raised: the daemon's finally clause counts the job    *)
(* off, and the process ends.  What expire_stale_customer_jobs wrote since *)
(* its last commit is rolled back.                                         *)
Raise(p) ==
  /\ op[p] = Ledger!Idle
  /\ \/ /\ at[p].pc \in {"settling", "refunding"}
        /\ Goto(p, "unload")
     \/ /\ at[p].pc = "expiring"
        /\ Return(p)
  /\ UNCHANGED <<ledgerVars, regime, jobVars, due, workerVars, payVars, crashes>>

(* A process is killed; what it has not committed is rolled back.          *)
Crash(p) ==
  /\ at[p] # Idle /\ crashes < MaxCrashes
  /\ Return(p)
  /\ op' = [op EXCEPT ![p] = Ledger!Idle]
  /\ crashes' = crashes + 1
  /\ UNCHANGED <<account, escrow, payable, treasury, deposited, paidOut, unbacked,
                 regime, jobVars, due, workerVars, payVars>>

Daemon(w) ==
  \/ BeginRound(w) \/ FindJob(w) \/ TakeJob(w) \/ CountJob(w) \/ RunJob(w)
  \/ SettleJob(w) \/ InsertPayout(w) \/ RecordPaid(w) \/ RefundJob(w)
  \/ CloseJob(w) \/ EndRound(w)

Next ==
  \/ BeginRoute \/ ListQueued \/ DecideRoute \/ RouteJob \/ EndRoute
  \/ \E w \in Workers : Daemon(w)
  \/ \E p \in Procs : Scan(p) \/ ExpireJob(p) \/ Raise(p) \/ Crash(p)
  \/ \E j \in Jobs : PassExpiry(j)

Spec == Init /\ [][Next]_vars

----
\* Properties

Statuses == {"queued", "routed", "running", "completed", "failed", "rejected", "expired"}

(* Every table keeps its type.  The load of a worker is zero or one even   *)
(* when its daemon was killed with a job in hand.                          *)
TypeOK ==
  /\ Ledger!TypeOK
  /\ regime \in Regimes
  /\ job \in [Jobs -> [status : Statuses, worker : Workers \cup {NoWorker}]]
  /\ due \subseteq Jobs /\ online \subseteq Workers /\ paid \subseteq Jobs
  /\ load \in [Workers -> 0..1]
  /\ audit \in [Jobs -> Workers \cup {NoWorker, Undecided}]
  /\ payouts \in [Jobs -> Nat]

(* What a daemon is about to settle or refund is its own: assigned to it,  *)
(* running, counted once as its load, with the escrow untouched, and in no *)
(* other process's hands.  Were it not so, settle_job_escrow would raise   *)
(* and stop the daemon, or race another settlement or refund of the row.   *)
SettlesItsOwn ==
  \A w \in Workers : at[w].pc \in {"settle", "refund"} =>
    /\ job[Mine(w)] = [status |-> "running", worker |-> w]
    /\ load[w] = 1
    /\ escrow[Mine(w)].status = "escrowed"
    /\ \A v \in Workers \ {w} : "job" \in DOMAIN at[v] => at[v].job # Mine(w)

(* "Failed, ... expired, or disputed work refunds escrow to the customer   *)
(* and does not increase worker payable balance" (legacy/README.md:383): a *)
(* job is marked as completed only after it is settled, paid and recorded  *)
(* once, and as failed only after its funds have gone back, wherever a     *)
(* process is killed; and it is where the log of the router says.  (A job  *)
(* whose daemon is killed after the settlement remains running; it may     *)
(* expire, although the worker has been paid.)                             *)
ClosedAsRecorded ==
  \A j \in Jobs :
    /\ job[j].status = "completed" =>
         escrow[j].status = "settled" /\ j \in paid /\ payouts[j] = 1
    /\ job[j].status = "failed" => escrow[j].status \in {"refunded", "disputed"}
    /\ job[j].status \in {"failed", "rejected"} => payouts[j] = 0 /\ paidOut[j] = 0
    /\ job[j].status = "expired" => paidOut[j] = 0 \/ crashes > 0
    /\ job[j].status \notin {"queued", "expired"} => audit[j] = job[j].worker

(* lifecycle.VALID_TRANSITIONS, which only update_customer_job_status and  *)
(* mark_customer_job_failure look up: assignment and expiry write the      *)
(* status of a job as they find it, and follow the table all the same.     *)
LifecycleFollowed ==
  [][\A j \in Jobs : job'[j].status # job[j].status =>
       <<job[j].status, job'[j].status>> \in
         {<<"queued", "routed">>, <<"queued", "rejected">>, <<"queued", "expired">>,
          <<"routed", "running">>, <<"routed", "expired">>, <<"routed", "failed">>,
          <<"running", "completed">>, <<"running", "failed">>, <<"running", "expired">>}]_vars

====
