---- MODULE ClusterController ----
(***************************************************************************)
(* The LAN cluster: a controller leases queued jobs to workers, verifies   *)
(* the receipts they send back and settles or refunds the escrow of each   *)
(* job (legacy/controller.py and the job and worker tables of              *)
(* legacy/db.py), while the customer's command line submits jobs           *)
(* (legacy/market.py) from a process of its own.                           *)
(*                                                                         *)
(* A step is one commit of a handler, with the reads before it; the ledger *)
(* calls are those of EscrowAccounts, step by step.  The controller runs   *)
(* one handler at a time: its SQLite connection may be used from the       *)
(* thread that opened it only.  A handler that raises, or a process that   *)
(* dies, leaves behind the commits it has made.                            *)
(*                                                                         *)
(* Time is abstract: a lease lapses at some point (Lapse).  A worker makes *)
(* one receipt for a lease; it may reach the controller late, more than    *)
(* once, out of order, or never.                                           *)
(***************************************************************************)
EXTENDS Integers, FiniteSets, Sequences, Functions

CONSTANTS
  NJobs,        \* bound: jobs submitted, numbered in that order
  Workers,
  MaxLoad,      \* max_concurrent_jobs of every worker
  Price,        \* the escrow amount of a job
  Figures,      \* what a receipt may claim: estimated_qi_owed
  Verdicts,     \* what verify_inference_receipt may answer
  FeePerMille,
  MaxVolume,    \* bound: see EscrowAccounts
  MaxLapses,    \* bound: leases that run out
  MaxCrashes,   \* bound: times the controller or the command line stops
  MaxRestarts,  \* bound: times a worker drops what it is doing
  SlowWorkers,  \* whether a lease may run out while its worker has the job
  LateReceipts  \* whether a receipt may arrive after its lease ran out

ASSUME ClusterAssumption ==
  /\ NJobs \in Nat /\ MaxLoad \in Nat \ {0} /\ Price \in Nat
  /\ Figures \subseteq Nat
  /\ Verdicts \subseteq BOOLEAN /\ SlowWorkers \in BOOLEAN /\ LateReceipts \in BOOLEAN
  /\ FeePerMille \in 0..1000 /\ MaxVolume \in Nat
  /\ MaxLapses \in Nat /\ MaxCrashes \in Nat /\ MaxRestarts \in Nat

Jobs == 1..NJobs
Leases == 1..(NJobs + MaxLapses)

Customer == "customer"

VARIABLES
  account, escrow, payable, treasury, op, deposited, paidOut, unbacked,  \* the ledger
  job,         \* customer_jobs: status and lease_id of each job
  leases,      \* history: the job and the worker of every lease granted
  lapsed,      \* the leases whose lease_expires_at has passed
  load,        \* worker_registry.current_jobs
  receipts,    \* receipts stored, by lease
  payouts,     \* payout_events: how many there are for the receipt of a lease
  paid,        \* inference_jobs: the jobs recorded as paid
  ctl,         \* where the controller is in its current handler
  cli,         \* where the command line is, and the last job it submitted
  asking,      \* the workers that have registered and are asking for jobs
  busy,        \* the leases a worker holds, executes or awaits an answer for
  sent,        \* the receipts sent so far
  crashes, restarts

Ledger == INSTANCE EscrowAccounts WITH
  Customers <- {Customer},
  Owner <- [j \in Jobs |-> Customer],
  Procs <- {"controller", "cli"},
  Crashable <- {"controller", "cli"},
  Amounts <- Figures \cup {Price},
  Disputes <- {FALSE},
  MaxDeposit <- NJobs * Price

ledgerVars == <<account, escrow, payable, treasury, op, deposited, paidOut, unbacked>>
jobVars == <<job, leases, lapsed, load>>
payVars == <<receipts, payouts, paid>>
workerVars == <<asking, busy, sent>>
faults == <<crashes, restarts>>
vars == <<ledgerVars, jobVars, payVars, workerVars, ctl, cli, faults>>

Idle == [pc |-> "idle"]

NoLease == 0

Init ==
  /\ Ledger!Init
  /\ job = [j \in Jobs |-> [status |-> "none", lease |-> NoLease]]
  /\ leases = <<>>
  /\ lapsed = {}
  /\ load = [w \in Workers |-> 0]
  /\ receipts = {}
  /\ payouts = [l \in Leases |-> 0]
  /\ paid = {}
  /\ ctl = Idle
  /\ cli = [pc |-> "idle", job |-> 0]
  /\ asking = {}
  /\ busy = {}
  /\ sent = {}
  /\ crashes = 0 /\ restarts = 0

LeasesOf(w) == {l \in busy : leases[l].worker = w}

Loaded(w, n) == [load EXCEPT ![w] = n]

Unloaded(w) == Loaded(w, IF load[w] > 0 THEN load[w] - 1 ELSE 0)

(* The handler ends; the worker whose receipt it was gets its answer.      *)
Answer(lease) == ctl' = Idle /\ busy' = busy \ {lease}

----
\* The command line: submit-job, four commits

CliDeposit ==
  /\ cli.pc = "idle" /\ cli.job < NJobs
  /\ Ledger!Deposit(Customer, Price)
  /\ cli' = [pc |-> "insert", job |-> cli.job + 1]
  /\ UNCHANGED <<jobVars, payVars, workerVars, ctl, faults>>

CliInsert ==
  /\ cli.pc = "insert"
  /\ job' = [job EXCEPT ![cli.job].status = "queued"]
  /\ cli' = [cli EXCEPT !.pc = "escrow"]
  /\ UNCHANGED <<ledgerVars, leases, lapsed, load, payVars, workerVars, ctl, faults>>

CliEscrow ==
  /\ \/ /\ cli.pc = "escrow"
        /\ Ledger!BeginEscrow("cli", cli.job, Price)
        /\ cli' = [cli EXCEPT !.pc = "commit"]
     \/ /\ cli.pc = "commit"
        /\ Ledger!CommitEscrow("cli")
        /\ cli' = [cli EXCEPT !.pc = "idle"]
  /\ UNCHANGED <<jobVars, payVars, workerVars, ctl, faults>>

CliCrash ==
  /\ cli.pc # "idle" /\ crashes < MaxCrashes
  /\ cli' = [cli EXCEPT !.pc = "idle"]
  /\ op' = [op EXCEPT !["cli"] = Ledger!Idle]
  /\ crashes' = crashes + 1
  /\ UNCHANGED <<account, escrow, payable, treasury, deposited, paidOut, unbacked,
                 jobVars, payVars, workerVars, ctl, restarts>>

----
\* Workers (worker_daemon.ClusterWorkerClient)

(* register_capability, at the start of every round of a worker that has   *)
(* nothing in hand: handle_capability and register_worker set the worker's *)
(* current_jobs to what its configuration says, zero.                      *)
Register(w) ==
  /\ ctl = Idle
  /\ w \notin asking /\ LeasesOf(w) = {}
  /\ asking' = asking \cup {w}
  /\ load' = Loaded(w, 0)
  /\ UNCHANGED <<ledgerVars, job, leases, lapsed, payVars, busy, sent, ctl, cli, faults>>

(* submit_receipt: what the controller gets.                               *)
Submission(l, valid, qi) == [lease |-> l, valid |-> valid, qi |-> qi]

(* A job is executed when the worker has all the jobs of the round.        *)
SendReceipt(l, valid, qi) ==
  /\ l \in busy
  /\ \A r \in sent : r.lease # l
  /\ sent' = sent \cup {Submission(l, valid, qi)}
  /\ asking' = asking \ {leases[l].worker}
  /\ UNCHANGED <<ledgerVars, jobVars, payVars, busy, ctl, cli, faults>>

(* The worker's process ends, or its request times out: it holds no job    *)
(* any more, but a receipt it has sent is still under way.                 *)
Restart(w) ==
  /\ LeasesOf(w) # {} /\ restarts < MaxRestarts
  /\ busy' = busy \ LeasesOf(w)
  /\ asking' = asking \ {w}
  /\ restarts' = restarts + 1
  /\ UNCHANGED <<ledgerVars, jobVars, payVars, sent, ctl, cli, crashes>>

\* Mutant: completed jobs are scanned for expired leases, too.
ActiveOrCompleted == {j \in Jobs : job[j].status \in {"routed", "running", "completed"}}

(* The jobs that expire_job_leases looks at; the lease of any other job    *)
(* matters to no check.                                                    *)
Active == {j \in Jobs : job[j].status \in {"routed", "running"}}

Lapse(l) ==
  /\ Cardinality(lapsed) < MaxLapses
  /\ l \in {job[j].lease : j \in Active} \ lapsed
  /\ (l \in busy \/ (ctl.pc = "load" /\ ctl.lease = l)) => SlowWorkers
  /\ lapsed' = lapsed \cup {l}
  /\ UNCHANGED <<ledgerVars, job, leases, load, payVars, workerVars, ctl, cli, faults>>

----
\* expire_job_leases, at the start of handle_next_job and for a late receipt

(* For each row: the load of its worker is lowered and committed, then the *)
(* row is updated; that update is committed with the next row's load, or   *)
(* at the end.  ctl.pending is the row whose update is not yet committed.  *)
Expire(next) ==
  ctl' = [pc |-> "expire", pending |-> {}, next |-> next,
          rows |-> {j \in Active : job[j].lease \in lapsed}]

Requeue(rows) ==
  [j \in Jobs |-> IF j \in rows THEN [status |-> "queued", lease |-> NoLease] ELSE job[j]]

\* Mutant: the load of the worker is not lowered.
ExpireRowOnly(j) ==
  /\ ctl.pc = "expire" /\ j \in ctl.rows
  /\ job' = Requeue(ctl.pending)
  /\ ctl' = [ctl EXCEPT !.rows = @ \ {j}, !.pending = {j}]
  /\ UNCHANGED <<ledgerVars, leases, lapsed, load, payVars, workerVars, cli, faults>>

ExpireRow(j) ==
  /\ ctl.pc = "expire" /\ j \in ctl.rows
  /\ load' = Unloaded(leases[job[j].lease].worker)
  /\ job' = Requeue(ctl.pending)
  /\ ctl' = [ctl EXCEPT !.rows = @ \ {j}, !.pending = {j}]
  /\ UNCHANGED <<ledgerVars, leases, lapsed, payVars, workerVars, cli, faults>>

\* Mutant: the last row is not committed.
ExpireEndUncommitted ==
  /\ ctl.pc = "expire" /\ ctl.rows = {}
  /\ ctl' = ctl.next
  /\ UNCHANGED <<ledgerVars, jobVars, payVars, workerVars, cli, faults>>

ExpireEnd ==
  /\ ctl.pc = "expire" /\ ctl.rows = {}
  /\ job' = Requeue(ctl.pending)
  /\ ctl' = ctl.next
  /\ UNCHANGED <<ledgerVars, leases, lapsed, load, payVars, workerVars, cli, faults>>

----
\* handle_next_job

NextJob(w) ==
  /\ ctl = Idle
  /\ w \in asking /\ Cardinality(LeasesOf(w)) < MaxLoad
  /\ Expire([pc |-> "route", worker |-> w])
  /\ UNCHANGED <<ledgerVars, jobVars, payVars, workerVars, cli, faults>>

(* route_inference_job offers the oldest queued job to this worker, unless *)
(* its load has reached the limit; lease_customer_job.                     *)
Lease(j) ==
  /\ ctl.pc = "route"
  /\ job[j].status = "queued" /\ \A i \in 1..(j - 1) : job[i].status # "queued"
  /\ load[ctl.worker] < MaxLoad
  /\ leases' = Append(leases, [job |-> j, worker |-> ctl.worker])
  /\ job' = [job EXCEPT ![j] = [status |-> "routed", lease |-> Len(leases')]]
  /\ ctl' = [pc |-> "load", worker |-> ctl.worker, lease |-> Len(leases')]
  /\ UNCHANGED <<ledgerVars, lapsed, load, payVars, workerVars, cli, faults>>

NoJob ==
  /\ ctl.pc = "route"
  /\ \/ \A j \in Jobs : job[j].status # "queued"
     \/ load[ctl.worker] >= MaxLoad
  /\ asking' = asking \ {ctl.worker}
  /\ ctl' = Idle
  /\ UNCHANGED <<ledgerVars, jobVars, payVars, busy, sent, cli, faults>>

(* increment_worker_load, a commit of its own; the worker gets the job.    *)
CountJob ==
  /\ ctl.pc = "load"
  /\ load' = Loaded(ctl.worker, load[ctl.worker] + 1)
  /\ busy' = busy \cup {ctl.lease}
  /\ ctl' = Idle
  /\ UNCHANGED <<ledgerVars, job, leases, lapsed, payVars, asking, sent, cli, faults>>

----
\* handle_receipt

\* Mutant: only a receipt that is paid already is turned away.
PaidBefore(r) == payouts[r.lease] > 0

(* receipt_already_settled: there is a payout event for the receipt.       *)
AlreadySettled(r) == payouts[r.lease] > 0

(* stale_receipt_detected: the job has failed, or its escrow went back.    *)
Stale(j) == job[j].status = "failed" \/ escrow[j].status \in {"refunded", "disputed"}

(* The checks that turn a receipt away before its lease is looked at:      *)
(* DUPLICATE_RECEIPT, STALE_RECEIPT, DUPLICATE_JOB, INVALID_LEASE.         *)
TurnedAway(r) ==
  LET j == leases[r.lease].job
  IN  AlreadySettled(r) \/ Stale(j) \/ j \in paid \/ job[j].lease # r.lease

(* LEASE_EXPIRED: it is the job's lease, not the receipt's, that is        *)
(* compared with the clock.                                                *)
LeaseExpired(r) == job[leases[r.lease].job].lease \in lapsed

RejectReceipt(r) ==
  /\ ctl = Idle
  /\ \/ TurnedAway(r)
     \/ ~LeaseExpired(r) /\ r.lease \in receipts   \* insert_receipt raises
  /\ Answer(r.lease)
  /\ UNCHANGED <<ledgerVars, jobVars, payVars, asking, sent, cli, faults>>

LateReceipt(r) ==
  /\ ctl = Idle /\ LateReceipts
  /\ ~TurnedAway(r) /\ LeaseExpired(r)
  /\ Expire([pc |-> "refund", rcpt |-> r])
  /\ UNCHANGED <<ledgerVars, jobVars, payVars, workerVars, cli, faults>>

(* The receipt is verified and stored.                                     *)
StoreReceipt(r) ==
  /\ ctl = Idle
  /\ ~TurnedAway(r) /\ ~LeaseExpired(r) /\ r.lease \notin receipts
  /\ receipts' = receipts \cup {r.lease}
  /\ ctl' = [pc |-> "run", rcpt |-> r]
  /\ UNCHANGED <<ledgerVars, jobVars, payouts, paid, workerVars, cli, faults>>

CurrentJob == leases[ctl.rcpt.lease].job
CurrentWorker == leases[ctl.rcpt.lease].worker
Goto(label) == ctl' = [ctl EXCEPT !.pc = label]

RunJob ==
  /\ ctl.pc = "run"
  /\ job' = [job EXCEPT ![CurrentJob].status = IF @ = "routed" THEN "running" ELSE @]
  /\ Goto(IF ctl.rcpt.valid THEN "settle" ELSE "fail")
  /\ UNCHANGED <<ledgerVars, leases, lapsed, load, payVars, workerVars, cli, faults>>

(* settle_job_escrow and record_settlement.  A balance that is too low     *)
(* makes the settlement raise and ends the handler.                        *)
SettleJob ==
  /\ \/ /\ ctl.pc = "settle"
        /\ Ledger!BeginSettle("controller", CurrentJob, CurrentWorker, ctl.rcpt.qi)
        /\ Goto("settling") /\ UNCHANGED busy
     \/ /\ ctl.pc = "settling"
        /\ Ledger!CheckSettle("controller")
        /\ IF op'["controller"] = Ledger!Idle THEN Answer(ctl.rcpt.lease)
                                              ELSE UNCHANGED <<ctl, busy>>
     \/ /\ ctl.pc = "settling"
        /\ Ledger!CommitSettle("controller") \/ Ledger!CreditUnescrowed("controller")
        /\ UNCHANGED <<ctl, busy>>
     \/ /\ ctl.pc = "settling"
        /\ Ledger!RecordSettlement("controller")
        /\ Goto("payout") /\ UNCHANGED busy
  /\ UNCHANGED <<jobVars, payVars, asking, sent, cli, faults>>

\* Mutant: the job is not recorded as paid.
InsertPayoutOnly ==
  /\ ctl.pc = "payout"
  /\ payouts' = [payouts EXCEPT ![ctl.rcpt.lease] = @ + 1]
  /\ Goto("complete")
  /\ UNCHANGED <<ledgerVars, jobVars, receipts, paid, workerVars, cli, faults>>

(* insert_payout_event, then record_inference_job_paid                     *)
InsertPayout ==
  /\ ctl.pc = "payout"
  /\ payouts' = [payouts EXCEPT ![ctl.rcpt.lease] = @ + 1]
  /\ Goto("paid")
  /\ UNCHANGED <<ledgerVars, jobVars, receipts, paid, workerVars, cli, faults>>

RecordPaid ==
  /\ ctl.pc = "paid"
  /\ paid' = paid \cup {CurrentJob}
  /\ Goto("complete")
  /\ UNCHANGED <<ledgerVars, jobVars, receipts, payouts, workerVars, cli, faults>>

CompleteJob ==
  /\ ctl.pc = "complete"
  /\ job' = [job EXCEPT ![CurrentJob].status = "completed"]
  /\ Goto("unload")
  /\ UNCHANGED <<ledgerVars, leases, lapsed, load, payVars, workerVars, cli, faults>>

\* Mutant: the escrow of a failed job is not refunded.
FailJobKeepEscrow ==
  /\ ctl.pc = "fail"
  /\ job' = [job EXCEPT ![CurrentJob].status = "failed"]
  /\ Goto("unload")
  /\ UNCHANGED <<ledgerVars, leases, lapsed, load, payVars, workerVars, cli, faults>>

(* mark_customer_job_failure, for a receipt that did not verify            *)
FailJob ==
  /\ ctl.pc = "fail"
  /\ job' = [job EXCEPT ![CurrentJob].status = "failed"]
  /\ Goto("unloadfailed")
  /\ UNCHANGED <<ledgerVars, leases, lapsed, load, payVars, workerVars, cli, faults>>

(* decrement_worker_load: the last commit of an accepted receipt, and the  *)
(* one before the refund of a rejected one                                 *)
UnloadWorker ==
  /\ ctl.pc \in {"unload", "unloadfailed"}
  /\ load' = Unloaded(CurrentWorker)
  /\ IF ctl.pc = "unload" THEN Answer(ctl.rcpt.lease) ELSE Goto("refund") /\ UNCHANGED busy
  /\ UNCHANGED <<ledgerVars, job, leases, lapsed, payVars, asking, sent, cli, faults>>

(* refund_job_escrow and record_refund; a job without escrow has nothing   *)
(* to refund.                                                              *)
RefundJob ==
  /\ \/ /\ ctl.pc = "refund"
        /\ escrow[CurrentJob].status = "absent"
        /\ Answer(ctl.rcpt.lease) /\ UNCHANGED ledgerVars
     \/ /\ ctl.pc = "refund"
        /\ Ledger!BeginRefund("controller", CurrentJob, FALSE)
        /\ Goto("refunding") /\ UNCHANGED busy
     \/ /\ ctl.pc = "refunding"
        /\ \/ Ledger!CheckRefund("controller")
           \/ Ledger!CommitFunds("controller")
           \/ Ledger!MarkRefund("controller")
           \/ Ledger!RecordRefund("controller")
        /\ IF op'["controller"] = Ledger!Idle THEN Answer(ctl.rcpt.lease)
                                              ELSE UNCHANGED <<ctl, busy>>
  /\ UNCHANGED <<jobVars, payVars, asking, sent, cli, faults>>

----

(* The controller stops in the middle of a handler, and the request fails: *)
(* a worker that was asking for jobs drops those it has got so far.        *)
Crash ==
  /\ ctl # Idle /\ crashes < MaxCrashes
  /\ LET handler == IF ctl.pc = "expire" THEN ctl.next ELSE ctl
     IN  IF "rcpt" \in DOMAIN handler
         THEN busy' = busy \ {handler.rcpt.lease} /\ UNCHANGED asking
         ELSE busy' = busy \ LeasesOf(handler.worker) /\ asking' = asking \ {handler.worker}
  /\ ctl' = Idle
  /\ op' = [op EXCEPT !["controller"] = Ledger!Idle]
  /\ crashes' = crashes + 1
  /\ UNCHANGED <<account, escrow, payable, treasury, deposited, paidOut, unbacked,
                 jobVars, payVars, sent, cli, restarts>>

----

Cli == CliDeposit \/ CliInsert \/ CliEscrow

Handler ==
  \/ \E j \in Jobs : ExpireRow(j) \/ Lease(j)
  \/ ExpireEnd \/ NoJob \/ CountJob
  \/ RunJob \/ SettleJob \/ InsertPayout \/ RecordPaid \/ CompleteJob
  \/ FailJob \/ UnloadWorker \/ RefundJob

HandleReceipt(r) == RejectReceipt(r) \/ LateReceipt(r) \/ StoreReceipt(r)

Send(l) == \E valid \in Verdicts, qi \in Figures : SendReceipt(l, valid, qi)

Next ==
  \/ Cli \/ CliCrash
  \/ Handler \/ Crash
  \/ \E w \in Workers : Register(w) \/ NextJob(w) \/ Restart(w)
  \/ \E l \in Leases : Send(l) \/ Lapse(l)
  \/ \E r \in sent : HandleReceipt(r)

Spec == Init /\ [][Next]_vars

(* Every process that can go on does, a lease runs out if nothing ends it  *)
(* before, and a request a worker keeps making is served at last: the      *)
(* controller answers one at a time, so it is not always ready to take the *)
(* next.                                                                   *)
Fairness ==
  /\ WF_vars(Cli) /\ WF_vars(Handler)
  /\ \A w \in Workers : WF_vars(Register(w)) /\ SF_vars(NextJob(w))
  /\ \A l \in Leases :
       /\ WF_vars(Send(l)) /\ WF_vars(Lapse(l))
       /\ SF_vars(\E r \in sent : r.lease = l /\ HandleReceipt(r))

FairSpec == Spec /\ Fairness

----
\* Safety

ActiveOf(w) == {j \in Active : leases[job[j].lease].worker = w}

PayoutsOf(j) == {l \in 1..Len(leases) : leases[l].job = j /\ payouts[l] > 0}

(* Between handlers the load of a worker counts no job that it has not     *)
(* out, through lapses, late and repeated receipts: a count that stays too *)
(* high makes the router skip a free worker.  (It may be too low, since a  *)
(* registration resets it while jobs are leased, and too high when the     *)
(* controller has stopped in a handler.)                                   *)
NoPhantomLoad ==
  ctl = Idle /\ crashes = 0 => \A w \in Workers : load[w] <= Cardinality(ActiveOf(w))

----
\* The checks of accounting_checks.py

(* _customer_escrow_reconciles                                             *)
EscrowReconciles ==
  account[Customer].escrowed =
    SumFunctionOnSet([j \in Jobs |-> escrow[j].amount],
                     {j \in Jobs : escrow[j].status = "escrowed"})

(* _treasury_reconciles, its fees: those of the settled rows.              *)
FeesReconcile ==
  treasury.fees =
    SumFunctionOnSet([j \in Jobs |-> escrow[j].fee], {j \in Jobs : escrow[j].status = "settled"})

(* _duplicate_payout_sources                                               *)
NoDuplicatePayout == \A l \in Leases : payouts[l] <= 1

(* _stale_receipts_not_settled                                             *)
NoStalePayout ==
  \A l \in receipts : job[leases[l].job].status = "failed" => payouts[l] = 0

----

(* "Duplicate receipts remain idempotent and do not double-pay"            *)
(* (legacy/README.md:387): wherever the controller, the command line and   *)
(* the workers stop, a receipt has at most one payout event and the escrow *)
(* of a job pays once; if the controller and the command line do not stop, *)
(* a job has one payout event over all its leases.                         *)
OnePayout ==
  /\ NoDuplicatePayout
  /\ Ledger!PaidOncePerJob
  /\ crashes = 0 => \A j \in Jobs : Cardinality(PayoutsOf(j)) <= 1

(* Between handlers a settled escrow, the payout event, the paid record    *)
(* and the completed job go together, for a job the customer funded, and a *)
(* refunded one was paid to nobody.                                        *)
SettledMeansRecorded ==
  \A j \in Jobs :
    /\ escrow[j].status = "settled" =>
         j \in paid /\ job[j].status = "completed" /\ Cardinality(PayoutsOf(j)) = 1
    /\ escrow[j].status = "refunded" => PayoutsOf(j) = {} /\ paidOut[j] = 0

(* Until the controller or the command line stops in the middle, the jobs, *)
(* the receipts' payouts, the escrows and the treasury agree between       *)
(* handlers, and these checks of accounting_checks.py pass, through late,  *)
(* repeated and lost receipts and workers that drop their jobs.            *)
BooksAgree ==
  crashes = 0 =>
    /\ NoStalePayout
    /\ ctl = Idle => SettledMeansRecorded /\ FeesReconcile /\ EscrowReconciles

(* A completed or failed job is never queued, leased or failed again.      *)
ClosedJobsStay ==
  [][\A j \in Jobs : job[j].status \in {"completed", "failed"} => job'[j] = job[j]]_vars

----
\* Liveness

(* "Expired leases are requeued so disappeared workers do not permanently  *)
(* lock jobs": a job is completed or failed in the end though workers drop *)
(* the jobs they hold, unless a receipt after its lease had it refunded.   *)
JobsTerminate ==
  \A j \in Jobs :
    job[j].status = "queued"
      ~> job[j].status \in {"completed", "failed"} \/ escrow[j].status = "refunded"

(* The escrow of every funded job is settled or refunded in the end, late  *)
(* receipts, lapsed leases and the reset of the load notwithstanding.      *)
FundedJobsClose ==
  \A j \in Jobs :
    job[j].status = "queued" /\ escrow[j].status = "escrowed"
      ~> escrow[j].status \in {"settled", "refunded"}

====
