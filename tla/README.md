# A TLA+ model of QiCompute

Modules, model-checking configurations and proofs for the parts of QiCompute
that keep state: the marketplace with its ledger, controller, daemons,
scheduler and agents (`legacy/`), the settlement ledger of claim 4
(`claim4_settlement.py`), the crossover daemon with its feeds and its report
(`tools/crossover-daemon/`), and the pipeline from public data to a report
(`fetch_data.py`, `reproduce.py`, `benchmark.py`). Paths below are relative to
`src/`. `PROJECT.json` lists every component, run, mutant, source line,
finding, hazard and theorem.

    tlc -config EscrowFaults.cfg MCEscrowAccounts         # any run below
    tlapm EscrowAccountsProofs.tla                        # any *Proofs module

## The system

The repository has three parts.

* The **root** is a research toolkit: scripts that fetch data and test seven
  claims about an energy-backed unit. What they keep is files: the cache of
  `fetch_data.py`, `results/`, the rows of `benchmark.py`, and the SQLite
  ledger in which claim 4 escrows and settles jobs.
* **`tools/crossover-daemon/`** decides every minute whether a GPU mines or
  serves inference, and stops and starts the processes.
* **`legacy/`** is a local inference marketplace. Customers submit jobs and
  fund them; a controller leases jobs to workers on the LAN, verifies the
  receipts that they send back and settles or refunds the escrow. All state is
  in one SQLite file, which the command lines and the controller open at the
  same time.

| Component (source) | State | Operations | Talks to | What is hard | What makes it correct |
| --- | --- | --- | --- | --- | --- |
| Escrow ledger (`accounts.py`, `treasury.py`) | customer balances, escrow rows, worker payables, treasury totals | deposit, escrow, settle, refund, record | called by command lines, controller, local daemon, cleanup | reads outside the write transaction, several processes, two-commit refund, tolerance, rounding | money is conserved, each escrow closes once, figures reconcile |
| Accounting checks (`accounting_checks.py`) | none | seven queries | reads the ledger | say what must hold, run rarely | they hold whenever nobody is in the middle of a call |
| Controller (`controller.py`) | none of its own | capability, heartbeat, next job, receipt, challenge result | workers by HTTP; all tables | up to eight commits per receipt, repeated and late receipts, expiry inside other handlers | one payout per job, tables agree, no job or escrow is stuck |
| Job, lease and worker tables (`db.py`, `lifecycle.py`) | status, lease, retry count of a job; load of a worker | insert, lease, expire, fail, complete; load up and down | controller, command line | counters kept by increments and resets | the load counts the leased jobs |
| Cluster worker client (`worker_daemon.py`) | jobs in hand | register, ask, execute, send receipt | controller | restarts, timeouts, parallel jobs of a round | as above, seen from the other side |
| Local worker daemon (`worker_daemon.py`, `registry.py`, `runtime.py`, `runners.py`) | none | take an assigned job, run, verify by challenge and committee, settle | ledger, committees, epochs | disputes, raising runtimes, kills with a job in hand | it settles only what is its own; a disputed job is refunded and unpaid |
| Command line (`market.py`) and abuse limits (`abuse.py`) | rate-limit events | submit, route, expire | ledger, job table | check then act; four commits per submission | a routed job is funded; limits hold |
| Router, retries (`router.py`, `retry.py`) | routing log | filter and score workers, decide on a retry | controller, command line | filters in order, rows read once, averages beside verdicts | an overloaded or unfit worker gets nothing; a failure as such never helps |
| Verification, challenges, committees (`verifier.py`, `challenges.py`, `committees.py`) | challenges, committees, votes | verify, select, vote, decide | daemons, scheduler | order and number of votes, few verifiers | accepted work had its quorum of others |
| Reputation (`reputation.py`) | counts, averages, score in the registry | judge, decay | daemons, router | read, then write; registration meanwhile | counts follow verdicts |
| Enrollment, transport (`enrollment.py`, `transport.py`) | enrollments, nonces | enroll, activate, revoke, sign, accept a nonce | controller | repeated, delayed and concurrent requests | a request is handled once, in time |
| Scheduler (`scheduler.py`, `epochs.py`) | receipts, shares, rounds, epochs, payouts, balances | run a job file, mine, split a block, finalize | pool, agents | several commits per operation, processes side by side | balances are the payouts, shares are paid once, totals hold |
| Agents (`agents.py`) | agent balances, escrows, credits | mine, reserve, spend, refund, earn | payouts of the pool | a second escrow scheme, reads outside the transaction | balances are conserved, a receipt is credited once |
| Claim 4 (`claim4_settlement.py`) | accounts, jobs | open, quote, record, settle | its own command line, `reproduce.py` | two processes on one file, rounding | micro-Qi are conserved, a job settles once |
| Crossover daemon (`daemon.py`) | mode, streak, last switch, two processes, decision log | price, evaluate, switch, log, probe | feeds, GPU, report | hysteresis across failures and restarts, start failures, kills that leave processes behind | switches are earned and spaced, a daemon runs one process at a time |
| Revenue report (`report.py`) | none | integrate the log per day | the daemon's log | gaps, unpriced rows | credit only for priced hours that were run |
| Data fetching (`fetch_data.py`) | cached series | fetch, resume | claims | kills, resumption, files written in pairs | no day is lost or counted twice |
| Claims, reproduction (`claim*.py`, `reproduce.py`) | `results/`, `settlement.db` | run the claims, assemble the report | cache, index | what earlier runs left, failures, kills | a section is of this run or listed |
| Benchmark, index (`benchmark.py`, `telemetry.py`, `qi_index.py`) | `measurements.db` | sample, drive, average, store, quote | claim 2, dashboard | threads that share lists, dead sampler | no figure above a measurement; the index is measured |

Simulations, pricing, energy models, dashboards and release tools under
`legacy/`, and the statistics inside the claims, are sequential computations
over their inputs.

## Modules

| Module | Models | Depends on |
| --- | --- | --- |
| `EscrowContract` | what the ledger promises: every escrow is opened once and closed once, atomically | |
| `EscrowAccounts` | `accounts.py` and `treasury.py`, one step per SELECT and commit | `EscrowContract` (refinement) |
| `ClusterController` | controller, job, lease and worker tables, worker clients, `submit-job` | `EscrowAccounts` (instance) |
| `Runtime`, `Verdicts` | what a runtime reports, the receipt made of it, its verification and challenge | |
| `LocalMarket` | `route-jobs`, the local worker daemons, expiry of jobs, committee results | `EscrowAccounts` (instance), `Verdicts` |
| `SettlementLedger` | `claim4_settlement.py` | |
| `CrossoverDaemon` | engine, processes and loop of `daemon.py` | |
| `RevenueReport` | `gather_economics`, the table of decisions, the probe, `report.py` | `CrossoverDaemon` |
| `DataCache` | `fetch_data.py` | |
| `ResearchPipeline` | `reproduce.py`, what the claims read and write | `DataCache` |
| `Benchmark` | `benchmark.py`, `telemetry.py`, the figure of `qi_index.py` | |
| `Processes` | operations of several steps, side by side or in turn, and kills | |
| `PayoutBook` | receipts, payout events, balances, paid jobs | `Processes` |
| `WorkerPool` | `scheduler.py`, `epochs.py` | `PayoutBook` |
| `AgentAccounts` | `agents.py` | `PayoutBook` |
| `LocalPool` | both on one file | `WorkerPool`, `AgentAccounts` |
| `Reputation` | a worker's record and score | |
| `Verification` | committees, verdicts, the record's updates | `Processes`, `Reputation`, `Verdicts` |
| `Enrollment` | requests, nonces, enrollments, registrations | `Verification` |
| `WorkerTrust` | daemons, controller and operator on one file | `Enrollment` |
| `SumLemmas` | facts about the sums of the models | |
| `EscrowAccountsProofs` | theorems: for any processes, then for one | `EscrowAccounts` |
| `ClusterControllerProofs` | theorems, with those of the ledger carried over | `ClusterController`, `EscrowAccountsProofs` (instance) |
| `LocalMarketProofs` | theorems, with those of the ledger carried over | `LocalMarket`, `EscrowAccountsProofs` (instance) |
| `CrossoverProofs` | theorems of the daemon, and that the reported daemon has them, too | `RevenueReport` |
| `ResearchProofs` | theorems of the pipeline, and of the ledger and the measurement of two of its claims | `ResearchPipeline`, `SettlementLedger`, `Benchmark` |
| `LocalPoolProofs` | theorems | `LocalPool` |
| `WorkerTrustProofs` | theorems | `WorkerTrust` |
| `MC...` | constants for TLC | the module of that name |

### EscrowAccounts

`account`, `escrow`, `payable` and `treasury` are the tables; a row that does
not exist has status `absent`. Amounts are integers in units of 1e-12 Qi, to
which the code rounds, so that the tolerance `1e-12` of the balance checks is
`Tol = 1`. The code's floats are exact in these units as long as totals stay
below 2^53 of them; accumulated floating-point error is not modelled.

Python's `sqlite3` begins a transaction with the first INSERT or UPDATE, not
with `with db.conn`. What a call reads before that is read outside the
transaction. `op[p]` is the call process `p` is in, with the values it has
read; `BeginSettle`, `CheckSettle`, `CommitSettle`, `RecordSettlement` are the
steps of one settlement, and `Crash(p)` may end the call between any two of
them. A refund has one step more, because `refund_escrow` commits inside the
transaction of its caller. `deposited`, `paidOut` and `unbacked` are history
variables that no action reads, except `unbacked` in the bound on
settlements.

`ImplementsContract` maps the tables to `EscrowContract`: the deal of a job is
closed at the commit that moves the money, which for a refund is the first of
its two commits (`Phase`).

### ClusterController

A step is one commit of a handler and the reads before it. `ctl` is where the
controller is in its handler and `cli` where the command line is in
`submit-job`; the ledger is an instance of `EscrowAccounts` with these two as
its processes, and every ledger step of a handler is a step of that instance.
The controller serves one request at a time, since its SQLite connection may be
used from one thread only.

* `Register`, `NextJob`, `SendReceipt` and `Restart` are what a worker client
  does; `asking` are the workers in the middle of a round, `busy` the leases
  they hold.
* `sent` is the set of receipts under way. None is ever removed: a receipt may
  be handled at any later time, in any order, again, or never.
* `lapsed` replaces the clock. `Lapse` may end any lease of an active job;
  `SlowWorkers` allows it while the worker still executes, `LateReceipts`
  allows the controller to get a receipt after that.
* `Expire`, `ExpireRow`, `ExpireEnd` are `expire_job_leases`. The row update
  of one iteration is committed by the load update of the next, hence
  `ctl.pending`.
* `TurnedAway`, `LeaseExpired`, `StoreReceipt`, ..., `UnloadWorker` follow
  `handle_receipt` line by line. `Verdicts` stands for the verifier.

A registration is one step here; its headers, events and the registry row are
`Enrollment`. Left out: reputation, the counter of rejected Qi, and routing
filters other than the load limit. None is read by a guard of what is modelled.
`CliDeposit` is a submission that passed the limits of `abuse.py`; one that a
limit turns away writes nothing that the model has.

### LocalMarket

The other way to run jobs: no controller, but a router (`market.py
--route-jobs`) that assigns queued jobs and a daemon per worker that runs,
settles and refunds them, each a process with the database open. `at[p]` is
where process `p` is in its round, with the rows it has read: `ListQueued`
keeps the free workers of one moment for all jobs, and `Scan` the jobs to
expire. `RunJob` draws what the chosen runtime reports (`Run`), makes the
receipt of it (`ReceiptOf`), verifies it and its challenge (`Verdicts`) and asks
a committee of the other workers (`Aggregate`); `SettleJob`, `InsertPayout`, `RecordPaid`,
`RefundJob`, `CloseJob`, `EndRound` are the commits that follow, with the
ledger's steps from the instance. `ExpireJob` writes a job's status in the
transaction that the refund commits. `Raise` is a ledger call that raises, and
`Crash` a process that is killed.

`Regimes` are the ways the processes are used: side by side, with jobs that
never expire (`submit-job` writes no `expires_at`), or one after the other with
jobs that may. Both at once, a job that expires while its daemon settles it, is
the race of two ledger calls that the table below describes for
`PaidOncePerJob`. Every worker has room for one job.

### SettlementLedger

`balance` and `job` are the tables, `call[p]` the method a process is in.
`quote_and_escrow` and `settle` read first and write in one transaction;
`record_served` is one UPDATE with its guard in the WHERE clause. Amounts are
integers as in the code.

### CrossoverDaemon

`mode`, `streak` and `lastSwitch` are the engine's fields. A cycle starts with
a decision (`FeedFailure`, `IncumbentHolds`, `ChallengerWaits`, `Switch`: the
four ways through `evaluate`), then stops one process, starts the other, logs
and sleeps. `Raise` is an exception of start or of the database, which ends in
`StopAll` like every regular end; `Die` is a process that ends by itself. `Kill`
is SIGKILL or the end of memory at any step: `finally` is not run, and the
processes that `Popen` started go on as `orphans`, which no later launch knows
of, until they end (`OrphanDies`). A SIGTERM is `Quit`: it is noticed at the end
of a cycle.
`decisions` records what the engine decided and on which offer; nothing but the
bound `MaxCycles` reads it. `kills` is a history variable, too. The gathering of
prices is an offer, or a feed failure whatever the offer. An exception before
the first cycle (`miner.start()` at line 575 is outside the `try`) leaves nothing
running and amounts to a longer time down.

### RevenueReport

The daemon with what it reads and what is read of it. A cycle draws what the
feeds deliver (`Readings`, `NoValue` for a feed that fails), prices both modes
(`Nets`, in the code's integer arithmetic) and is then a cycle of
`CrossoverDaemon`. `rows` is the table of decisions: `LogRow` appends the last
decision, so that a decision whose row is never written is missing there.
`daily_revenue` is `report.py`'s loop as sums over the counted rows.

### DataCache and ResearchPipeline

`file[n]` is a cache file: absent, whole with a series, or torn by a kill
inside the write. `fetch` is where `fetch_data.py` is in its datasets, `chain`
the head. A feed's series is replaced; a scan samples back from the head by
`Stride` until it meets a day it has, or `Cap` samples (`Grid`, `Sampled`,
`Extended`), and some scans write two files one after the other (`ScanWrites`).
`ResearchPipeline` runs the claims on the cache: what each requires, may read
and writes is its record in `Script` (`Claim1` to `Claim7`, `QiIndex`);
`result[f]` is the run that wrote a file and the data it rests on.
`WriteReport` takes every file there is.

### LocalPool

`work[p]` is the operation of process `p` with what it has read; `Begins` and
`Kill` bound the operations and the kills, and `inTurn` records whether
operations have overlapped so far. The tables are sequences of rows in the
order of their inserts. `WorkerPool` has the scheduler's cycle (a job file or
mining), `distribute_block_reward` and the epochs; `AgentAccounts` the agents;
each SELECT and each commit is a step. Verification comes as a verdict. The
hash of a receipt is `redacted`: it covers the job, but fields like "prompt" are
taken out of the metadata when the receipt is stored, so that the stored row of
such a job (`sensitive`) fails `HashVerifies`, and `finalize_epoch` drops it.

### WorkerTrust

`Enrollment`: `sent` are requests of remote workers, stamped with the
controller's own clock (one ahead of it is not modelled), which may arrive at any
later time, again, or never; `Receive` is `verify_headers` up to the stored
nonce, after which the handler is a step of its own. `Verification`: a daemon's
verdict through challenge and committee, vote by vote. `Reputation`: the record
as the read and the write of `update_worker_reputation`, decay, and the score
that the router computes of it, in 240ths of a point. Each receipt has a duration
and an energy of its own; the two running averages are kept as sums over the
receipts that were judged, so that they are exact where the code has floats.

### Benchmark

Main, sampler and reader are three threads on lists. `DivideWatts`,
`SumReadings` and `DivideHashrate` are steps of their own, because a thread
that is still alive may append between the two reads of a list that an average
makes. `EndMiner` terminates the miner, which may print until it does end.
Figures are whole numbers and quotients are rounded down, where the code has
floats; `BenchmarkAssumption` asks for units so small that this never makes
nothing of something measured (a sample of two units at least, rates of
`MaxRequests` or more, and no more tokens per second than a joule has parts).

## Runs

| Run | Configuration | What it shows |
| --- | --- | --- |
| `escrow_faults` | `EscrowFaults` | one process that may stop anywhere: customer funds are conserved, settlements split exactly, balances stay within the tolerance, workers get what the rows say, closed rows are final |
| `escrow_reconciles` | `EscrowReconciles` | one process without stops: escrow totals reconcile in every state, and the ledger implements `EscrowContract` |
| `cluster_faults` | `ClusterFaults` | two jobs, two workers, late, repeated and lost receipts, a worker that drops its job, one stop of controller or command line: one payout event per receipt, and an escrow pays once; without the stop also one per job, tables that agree between handlers, and no worker that is counted a job it has not; ended jobs stay |
| `cluster_liveness` | `ClusterLiveness` | a worker drops its job, receipts come late or fail: every job and every funded escrow ends |
| `local_market` | `LocalMarket` | router and two daemons, every runtime and verdict, killed anywhere: a daemon settles or refunds a job only while it is assigned to it and its escrow untouched; completed means settled, paid and recorded once, failed means refunded, and the routing log says where; statuses follow `VALID_TRANSITIONS`, also where the code does not look it up |
| `settlement` | `SettlementFaults` | one process that may stop: micro-Qi conserved, no overdraft, pay is the share served |
| `crossover` | `Crossover` | switches are earned, wait for the dwell time and not longer, do not flap; a daemon runs one process at a time, that of the mode, and leaves one at most when it is killed; the report credits switching only with hours that were priced, given to inference and run |
| `research` | `Research` | fetches and reproductions, killed anywhere: resumed scans neither lose nor recount a day, of two files of a scan the first is never behind, and what an earlier run left in the report is listed as incomplete |
| `local_pool` | `LocalPool` | two processes, killed anywhere: balances are the payouts; a block pays the workers of its round in proportion, once; a finalized epoch's totals are, and stay, what it paid for receipts that verify; agents' money is conserved; no receipt is paid or credited twice |
| `worker_trust` | `WorkerTrust` | a request is handled once and in time; accepted work had its quorum of other workers; counts match verdicts; a worker that only failed scores below a newcomer, and a verdict moves the score the other way only by way of an average |
| `benchmark` | `Benchmark` | no average exceeds what was measured, and the index quotes the last run that measured something |

One run ends in a counterexample:

| Run | Statement | What happens |
| --- | --- | --- |
| `research_synthetic` | real-data mode never substitutes synthetic data (`reproduce.py:6`) | after a `--sample` run, a real run whose fetch fails assembles its report from the files of the sample, and `settlement.db` keeps the job that the sample priced |

### Where the documents and the code differ

Met while modelling; the models follow the code.

| Document | Code |
| --- | --- |
| expired leases are requeued so that workers do not lock jobs (`legacy/ARCHITECTURE.md:179`) | a late receipt requeues the job and refunds its escrow at once (`legacy/controller.py:112`); receipts of later leases are all rejected as stale. `JobsTerminate` excepts these jobs |
| the checks reconcile refunds and payables (`legacy/README.md:416`) | the unused part of a settled escrow never reaches the treasury's refunds (`legacy/controller.py:141`); a job that is settled before its escrow is committed counts in the payables and in no row |
| rejected work refunds escrow (`legacy/README.md:383`) | `route-jobs` rejects a job that no worker can take and leaves its escrow held (`legacy/market.py:172`) |
| "Auto-switches one GPU between" mining and inference (`tools/crossover-daemon/README.md:3`) | a daemon that is killed leaves its process running, and the next launch starts a miner beside it (`tools/crossover-daemon/daemon.py:353`, `:575`), once more for every kill. `ProcessMatchesMode` allows one process for each kill |
| epochs "batch verified payout events", and finalizing one summarizes receipt count and settled totals (`legacy/README.md:883`) | the hash of a receipt covers the job, its stored metadata has no "prompt", "output" and the like (`legacy/db.py:489`): a paid receipt of such a job fails `verify_receipt_hash` (`legacy/epochs.py:44`) and is in no total. The documented job file has a prompt (`legacy/README.md:590`). `SummariesHold` is about the others |
| gaps longer than `max_gap_seconds` contribute nothing (`tools/crossover-daemon/report.py:25`) | they contribute `max_gap_seconds` (line 32). `HoursWereRun` allows that much for each restart |

### Where a property needs its configuration

Some properties hold only because their configuration leaves something out, or
say so themselves (`inTurn`, `crashes = 0`). Changing what is named gives the
counterexample:

| Property | Change | What happens | Source |
| --- | --- | --- | --- |
| `EscrowReconciles` | `Crashable = {controller}` | a stop between the two commits of a refund leaves a row escrowed without its funds; it can be refunded again out of another job's escrow | `legacy/accounts.py:265` |
| `PaidOncePerJob`, `ClosedIsFinal` | a second process in `Procs` | one process settles a job while another refunds it: neither looks at the status when it writes, so the row ends as refunded and the worker paid | `legacy/accounts.py:205` |
| `OverdraftWithinTolerance` | a second process in `Procs` | both check the balance before either writes | `legacy/accounts.py:83` |
| `OnePayout` | one payout per job with a stop | the controller stops between payout event and paid record, the job is leased again and its second receipt gets a payout event, too (the escrow pays once nevertheless) | `legacy/controller.py:163` |
| `BooksAgree` | with a stop | the handler's remaining commits are lost | `legacy/controller.py:134` |
| `MoneyConserved` | a second process in `Procs` | both read the job before either settles it, and the worker is paid twice | `claim4_settlement.py:195` |
| `RoundsPayTheirShares` | side by side | two settlements of different blocks select the same shares and both pay them; a kill after the round leaves its workers unpaid, since the block now counts as settled | `legacy/scheduler.py:258`, `:269` |
| `PaidOnce`, per job id | side by side, or with a kill | two processes take the same job file; a kill between payout and mark lets the id be paid again | `legacy/scheduler.py:108` |
| `SummariesHold` | side by side | a payout that read the epoch as active joins it after it is finalized; two active epochs may be created | `legacy/epochs.py:31` |
| `AgentFundsConserved` | side by side | a spend and a refund of one escrow both pass the check that precedes their transactions | `legacy/agents.py:178` |
| `RoutingFollowsRecord` | without the exception for averages (`NoBetter`) | a failure costs 3 points and up to 20 by the failure share, a better average of latency earns up to 20: a quick failure after slow receipts can raise the score, a slow success lower it | `legacy/reputation.py:47` |
| `RoutingFollowsRecord` | without its conditions on a first receipt | its speed and thrift take the place of neutral values: a failure raises the score of a worker whose reputation has decayed to nothing, a slow first success lowers it | `legacy/router.py:106` |
| `RecordMatchesVerdicts` | side by side | the later write of a record undoes the earlier one | `legacy/reputation.py:20` |

### What else the models show

Facts that no property states, because the code intends nothing else, or
nothing at all.

* **Cluster and market.** A worker's load may be too low, since registration
  writes the worker's own zero over the controller's count (`legacy/db.py:984`).
  A job may be leased between its insertion and its escrow
  (`legacy/market.py:97`). A local daemon that is killed after a settlement
  leaves its job running, and if the job then expires it is marked as expired
  although its worker was paid (`legacy/db.py:1261`).
* **Runtimes.** The subprocess and simulated runtimes report the job's expected
  tokens whatever was printed. A runtime that raises leaves its job running
  with the escrow held and ends the daemon (`legacy/worker_daemon.py:199`). A
  short but honest answer of Ollama fails a challenge.
* **Scheduler.** A job with a "prompt" is paid, but its receipt is in no epoch's
  totals (`legacy/db.py:489`). `verify_inference_receipt` does not look at whether the command
  succeeded, so that the verdict on a failed command is "accepted". A
  response hash that a job file does not give is the expected one, so that its
  challenge passes. `total_failed_jobs` of an epoch counts no failed challenge:
  such a receipt has no payout to join on. `credit_agent_for_verified_worker_job`
  pays a receipt also when the scheduler paid it.
* **Trust.** Failure codes are upper case, so that the penalty of 5 for
  verification failures is never taken (`legacy/reputation.py:39`); they cost 3.
  Decay subtracts the same days on each call. Creating an enrollment sets an
  active or revoked one to pending; registration in development mode makes a
  revoked worker active again. Nonces are never pruned. Suspicion of committees,
  `QUORUM_NOT_REACHED` and challenge results are recorded and read by nothing.
* **Research.** Two samples on one date end a scan before it has reached the
  days it has. A scan resumes where its newest day is and never goes further
  back. Nothing writes `soap_ws`, so that claim 7 never runs; nothing reads
  `twp_ws`; claim 5 reads a `qi_usd` under another name than it is cached.
  A torn JSON file raises outside the `try` of the loop (`fetch_data.py:450`),
  so that the datasets after it are not fetched. The difficulty history of an
  explorer replaces a scanned one.
* **Crossover.** What a killed daemon has started nobody stops; a launch starts a
  miner beside it (`daemon.py:575`). The dwell time is forgotten when the daemon
  is launched again (`daemon.py:149`), and a process that dies is not started again until the
  mode changes twice (`daemon.py:507`).
* **Benchmark.** A killed run leaves its miner running (`benchmark.py:394`).
  `measured` means that there were rates, also when no power was sampled; such
  rows have 0 joules per token and are not `Usable`. A fallback wattage counts
  as measured. An average whose list grows between its two reads is too low.

### Bounds

Two jobs are the fewest that share a customer's balance, so that one job's
escrow can make up for another's. Two workers let a job have a second lease
while the first worker still sends receipts; the liveness run has one worker,
which is leased the job again that it dropped. One lapse, one stop and one
restart each already reach the hazards listed in `PROJECT.json`; more of them
only repeat a situation whose variables have returned to values they had
before. Amounts 2 and 3 differ by the tolerance and round differently under a
fee of 40 percent; an amount of 0 is a receipt for nothing. `MaxDeposit`,
`MaxVolume` (the treasury volume after which no settlement or refund begins),
`NJobs`, `MaxLapses`, `MaxCrashes`, `MaxRestarts`, `MaxCycles`, `MaxRuns`,
`MaxStarts`, `MaxFetches`, `MaxOps`, `MaxCommittees`, `MaxSent`, `MaxClock`,
`MaxRequests`, `MaxSamples` and `MaxReadings` appear in guards only
(`MaxRequests` also in `BenchmarkAssumption`). In `LocalMarket` a committee has
at most one member, so that a `Quorum` of 1 gives all three results: accepted,
rejected, and disputed when nobody else is online.

* `Crossover`: two launches of five cycles; the prices make mining win, tie, or
  lose by the floor, so that a switch there and back, with a feed failure or a
  restart or a kill between, fits.
* `Research`: four blocks on three days, two of them on one, with a block
  without a time; two fetches are a scan, whole or killed, and its resumption.
  Two runs of `reproduce.py` leave files for each other. The run has claim 4 only,
  with its two files; that the other claims' files are listed rests on the
  theorem `StaleAlwaysListed`, which holds for any claims.
* `LocalPool`: four operations of two processes suffice for two settlements and
  the shares they compete for, or a payout while an epoch is created and
  finalized. Two job files with one id, of which one has a prompt, two blocks, a
  closed agent and its successor.
* `WorkerTrust`: a committee of two from three workers with two operators, a
  quorum of both or, with fewer online, out of reach; one request that may
  arrive twice, also a second too late; three operations, of which at most two
  are verdicts (`MaxCommittees`). Receipts take 1 or 9000 milliseconds, worth
  20 and 2 points of speed, above and below the neutral 5, so that an average
  may outweigh a verdict in either direction. 192 days of decay leave two
  points of a new worker's reputation, twice as many nothing.
* `Benchmark`: three readings with a window of two, two samples that differ, two
  requests of which one may yield nothing, and two runs, so that a useless one
  follows a good one.

`SYMMETRY` is used for the two workers in safety runs; nothing but names tells
them apart. `CHECK_DEADLOCK FALSE` is set everywhere: all bounds exhausted, a
model stops, as the system does when there are no more jobs.

### Fairness

Only `ClusterController` has liveness properties.

* Weak fairness of the command line and of the current handler: a process that
  is not stopped goes on to its next statement.
* Weak fairness of registration, of sending a receipt and of a lease's lapse:
  the client loops, a job's execution has an end, and time passes.
* Strong fairness of a worker's request for a job and of the handling of a
  receipt: the client waits for its answer and the server accepts connections
  in turn, but between two of them it may be busy, so that the step is not
  continuously enabled.

`JobsTerminate` excepts a job whose escrow went back: a late receipt leaves it
queued, and it stays so, since every receipt
for it is rejected. In `ClusterLiveness` a lease lapses only if its worker has
dropped it (`SlowWorkers = FALSE`), so that the bound on lapses never withholds
one that is needed; the receipt of the dropped lease may still come, before or
after the lapse. The controller does not stop in that run: after a stop between
the paid record and the completion the job is requeued and every further
receipt rejected, and after one between the failure and the refund nobody
refunds the escrow.

## Proofs

`tlapm` checks every leaf with Z3, Zenon and LS4. The theorems hold for all
values of the constants that satisfy the named assumptions of the modules
(`LedgerAssumption`, `ClusterAssumption`, `SettlementAssumption`,
`CrossoverAssumption`, ...), which state what the code's configuration checks
or its types allow; hypotheses beyond them are in the theorems and listed here.

* `SumLemmas`: a sum over a finite set takes any of its elements off, does not
  depend on the order, adds up key by key, and so on. The library states
  induction with operators as parameters, which the provers cannot instantiate;
  here induction is derived from the existence of least elements, over sets
  instead of predicates.
* `EscrowAccountsProofs`, for any number of processes and stops: `TypeOK`,
  `CustomerFundsConserved` (each UPDATE moves an amount between two balances),
  `CallsMatchRows`, and from it `SettlementSplit`. `CallsMatchRows` is the
  inductive part: a row's amount does not change once it exists, thus a
  settlement computed from an old read still splits the amount in the row.
  Under `OneProcess` also `OverdraftWithinTolerance`,
  `PaidOncePerJob` and `ClosedIsFinal`. The strengthening is
  `ChecksStillHold`: with nobody else writing, what a call has checked is still
  true when it commits. With finitely many jobs, `Crashable = {}` and
  `NoDisputes` also `EscrowReconciles`; with the last two `ImplementsContract`.
  None of them holds without these hypotheses (table above).
* `ClusterControllerProofs`, without hypotheses. `Tables` is the inductive
  invariant of the tables: every lease but the last of a job has lapsed, so that
  there are at most `NJobs + MaxLapses` of them; what a handler has in hand is
  still as it was read (nobody but the controller writes jobs that are leased);
  a lease has at most one payout event, and none before its receipt is
  accepted. It gives `TypeCorrect` and `ClosedJobsStay`. `LoadInv`
  adds the load of each worker: never more than its active jobs, but for those
  that the handler is about to add or subtract (`Due`, `Uncounted`, `Lowered`),
  which is `NoPhantomLoad`. `UsesLedger` shows that every step is one of
  `EscrowAccounts` with controller and command line as its processes, so that
  the ledger's theorems carry over (`LedgerOK`). `CallsInv` says that the
  ledger call in progress is the one the handler is in; `RecordInv` relates
  payout event, paid record, completed job and escrow of each job through every
  commit of a receipt; `SumsInv` says what treasury and balances lack while a
  handler is between two commits. From them `OnePayout` and `BooksAgree`.
* `LocalMarketProofs`, without hypotheses, for any workers, jobs, runtimes and
  kills. `MarketInv` is the inductive invariant, with one part per process and
  one per job. `TurnsInv` says how processes are used (`Regimes`), and with it
  that no two of them have the same job in hand (`OneHolder`): side by side, a
  job is touched by the router while it is queued and then by the daemon it is
  assigned to. So what a process has read of its job still holds when it writes
  (`Hands`, `Routes`, `Expires`), and its ledger call is the one that its place
  in the round calls for (`Calls`); `JobOK` relates the status of a job to
  escrow, payout, paid record and log. Every step is one of `EscrowAccounts`
  (`UsesLedger`); jobs are escrowed from the start, so the ledger's `Init` does
  not hold, and its theorems are carried over step by step (`TypeStep`,
  `FundsStep`, `SplitStep`) to give `FundsHold`. From the invariant
  `SettlesItsOwn`, `ClosedAsRecorded` and `LifecycleFollowed`.
* `CrossoverProofs`: `TypeOK`, `EarnedSwitches`, `DwellRespected`,
  `PromptSwitches`, `ProcessMatchesMode` (`ProcessInv`: a daemon's own processes
  are at most one at each place in the cycle, and a kill hands that one to the
  orphans), and `NeverFlaps` if the margin floor
  is positive. The inductive invariant (`HysteresisInv`) ties the two variables
  of the engine to the log: the streak counts decisions at the end of the log
  that the challenger won (`StreakWon`), and `lastSwitch` is not before any
  switch of the run (`LastSwitchKnown`); `PromptInv` states the converse of
  both. `RevenueReport` takes only steps of `CrossoverDaemon`
  (`ReportRefinesDaemon`), for any feeds, configuration and sleeps, so that all
  of this holds of every reported run. The report's own figures,
  `AdvantageIsPriced` and `HoursWereRun`, rest on `RowsInv`: rows are decisions
  in their order, and an unpriced one is for mining. `HoursInv` compares the
  seconds so far with the uptimes of the launches and the gaps between them.
* `LocalPoolProofs`. For any processes and kills: `TypeOK`, and
  `BalancesMatchEvents`, since payout event and balance are written in one
  transaction. `PaidOnce` (`PaymentsOnce`) for receipts likewise and for job
  ids while processes take turns. While they do, only one operation is under
  way (`OneAtATime`), so that what it has read still holds (`Alone`); from this
  `AgentFundsConserved` (`FundsInv`, with what is taken but not yet booked),
  `SummariesHold` (`SummariesInv`; with `PaymentsOnce`, a receipt is stored
  before it is paid, so that whether it fails its hash is settled by then) and
  `RoundsPayTheirShares` (`RoundsInv`: the
  shares of a round are paid up to where the settlement is).
* `WorkerTrustProofs`. `TypeOK` and `AcceptedByQuorum` (`CommitteesInv`: an
  operation counts in memory the votes that are in the table) for any processes
  and kills. `HandledOnce` (`NoncesInv`) for one controller process, which is
  what one SQLite connection allows. `RecordMatchesVerdicts` for finitely many
  processes (`RecordInv`: each process that has judged and not yet written
  accounts for one verdict). `RoutingFollowsRecord`, for any durations and
  energies: its first part for any processes and kills, since a worker without a
  success has at most 47 points of reputation left (`Earned`, in the type of a
  row), so that the best averages do not make up for a failure share of 20; the
  others by the arithmetic of averages, of the failure share and of the points
  (`CurrentRows`: the row in hand is the one in the table).

* `ResearchProofs`. Of the pipeline, without hypotheses: a scan takes only days it lacks,
  writes the first file of its pair first, and raises if either is torn, so
  that what is still to be written contains what is there, and the second file
  nothing that the first lacks (`WritesInv`). From this `PairsAgree` and
  `SamplesAreKept`, for any chain, order of fetches and stops. `StaleIsListed`
  rests on `BeingWritten` (the files that a claim has still to write, and only
  these, may be of an earlier run) and `TurnsTaken` (each claim that had its
  turn is listed, or its files are of this run).
  Of `SettlementLedger`: its types for any processes; under `OneProcess`
  `NoOverdraft`, `PaidAsServed` and `SettledIsFinal` by `SettlesWhatItRead`,
  and, with finitely many jobs, `MoneyConserved`. `PaidAsServed` rests on a
  lemma on the rounded share. Of `Benchmark`, for any figures that
  `BenchmarkAssumption` allows: `NeverOverstated`, since what the first read of
  a list has seen is part of what the second one measures (`KeptRead`), and an
  average over at least as many terms is at most one of them
  (`AverageIsReached`); and `IndexIsMeasured`, by `RowsMeasured`: a stored run
  has joules per token just if it measured something.

Model-checked only: liveness under fairness, which the installed provers cannot
do (`JobsTerminate`, `FundedJobsClose`). Every other property of a passing run
is a theorem, under the hypotheses given above where there are any.

What proofs found that runs had not: without its conditions on a first receipt
`RoutingFollowsRecord` is false for reputations that decay to nothing, which 40
days of decay never reached (the run has decays of 192 days); two branches of
`Pay` in `WorkerPool` overlapped, and TLC always took the first; and
`ClusterAssumption` and `MarketAssumption` have to say that `fee_per_mille` is
a share.

## Not modelled

* **Abuse limits** (`abuse.py`): a submission that a limit turns away writes
  nothing that the models have, and what the limits count nothing else reads.
* **The statistics of the claims**, simulations, pricing and energy models:
  sequential floating-point computations without state that outlives a call.
  What the claims read, whether they fail and what they leave is modelled.
* **Privacy, envelopes, formats**: data that the models carry and do not look
  at. Hashes and signatures are right unless the code can make them wrong.
* **Reports, dashboards, release tools**: read-only.
* **HTTP servers and SQLite**: external. One statement is atomic; a connection
  belongs to one thread, and a second one would raise
  (`legacy/controller.py:243` serves each request in a thread of its own, on a
  connection opened in another: the models have one request at a time).
