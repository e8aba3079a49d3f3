---- MODULE ClusterControllerProofs ----
(***************************************************************************)
(* Theorems about ClusterController: any number of jobs, workers, lapses,  *)
(* restarts and stops, and any price, figures and load limit.              *)
(***************************************************************************)
EXTENDS ClusterController, SumLemmas

(* The ledger of the controller and the command line, with its theorems.   *)
LP == INSTANCE EscrowAccountsProofs WITH
  Customers <- {Customer},
  Owner <- [j \in Jobs |-> Customer],
  Procs <- {"controller", "cli"},
  Crashable <- {"controller", "cli"},
  Amounts <- Figures \cup {Price},
  Disputes <- {FALSE},
  MaxDeposit <- NJobs * Price

\* Types

LeaseRow == [job : Jobs, worker : Workers]
Receipt == [lease : Nat, valid : Verdicts, qi : Figures]
JobRow == [status : {"none", "queued", "routed", "running", "completed", "failed"}, lease : Nat]

(* The controller's steps on a receipt: before it is paid, those after     *)
(* that, and those of a receipt that is not paid.                          *)
Paying == {"run", "settle", "settling", "payout"}
Closing == {"paid", "complete"}
Handling == Paying \cup Closing \cup {"fail"}
Steps == Handling \cup {"unload", "unloadfailed", "refund", "refunding"}

Routing == [pc : {"route"}, worker : Workers]
Counting == [pc : {"load"}, worker : Workers, lease : Nat]
Receiving == [pc : Steps, rcpt : Receipt]
Refusing == [pc : {"refund"}, rcpt : Receipt]
Expiring == [pc : {"expire"}, pending : SUBSET Jobs, rows : SUBSET Jobs,
    next : Routing \cup Refusing]
Handlers == {Idle} \cup Routing \cup Counting \cup Receiving \cup Expiring

TypeOK ==
  /\ job \in [Jobs -> JobRow]
  /\ leases \in Seq(LeaseRow)
  /\ lapsed \subseteq DOMAIN leases
  /\ load \in [Workers -> Nat]
  /\ receipts \subseteq Nat
  /\ payouts \in [Leases -> Nat]
  /\ paid \subseteq Jobs
  /\ ctl \in Handlers
  /\ cli \in [pc : {"idle", "insert", "escrow", "commit"}, job : 0..NJobs]
  /\ cli.pc # "idle" => cli.job # 0
  /\ asking \subseteq Workers /\ busy \subseteq DOMAIN leases
  /\ sent \subseteq {r \in Receipt : r.lease \in DOMAIN leases}
  /\ crashes \in Nat /\ restarts \in Nat

----
\* Jobs and leases

Submitted(j) == j < cli.job \/ (j = cli.job /\ cli.pc # "insert")

(* A job has a lease that was granted for it, or none; every lease but the *)
(* last of a job has lapsed.                                               *)
JobsInv ==
  /\ \A j \in Jobs :
       /\ ~Submitted(j) => job[j].status = "none"
       /\ job[j].status \in {"none", "queued"} => job[j].lease = NoLease
       /\ job[j].status \in {"routed", "running"} => job[j].lease # NoLease
       /\ job[j].lease # NoLease =>
            job[j].lease \in DOMAIN leases /\ leases[job[j].lease].job = j
  /\ \A l \in DOMAIN leases : l \in lapsed \/ job[leases[l].job].lease = l
  /\ Cardinality(lapsed) <= MaxLapses

Held(r) ==
  LET j == leases[r.lease].job IN job[j].status \in {"routed", "running"} /\ job[j].lease = r.lease

(* What the controller has in hand is still as it was read.                *)
HandlerInv ==
  /\ ctl.pc = "expire" =>
       /\ ctl.rows \cap ctl.pending = {}
       /\ \A j \in ctl.rows \cup ctl.pending : j \in Active /\ job[j].lease \in lapsed
       /\ ctl.next.pc = "refund" => ctl.next.rcpt.lease \in DOMAIN leases
  /\ ctl.pc = "load" => ctl.lease \in DOMAIN leases /\ leases[ctl.lease].worker = ctl.worker
  /\ ctl.pc \in Steps => ctl.rcpt.lease \in DOMAIN leases
  /\ ctl.pc \in Handling => Held(ctl.rcpt)

----
\* Payouts

PayInv ==
  /\ \A l \in Leases : payouts[l] <= 1 /\ (payouts[l] > 0 => l \in DOMAIN leases)
  /\ ctl.pc \in Paying => payouts[ctl.rcpt.lease] = 0 /\ CurrentJob \notin paid
  /\ ctl.pc = "fail" => CurrentJob \notin paid
  /\ ctl.pc = "complete" => CurrentJob \in paid
  /\ \A j \in Jobs : job[j].status = "completed" => j \in paid

(* While nobody has stopped, a job that was paid for is known to be.       *)
PaidInv ==
  crashes = 0 =>
    /\ \A l \in DOMAIN leases :
         payouts[l] > 0 => leases[l].job \in paid \/ (ctl.pc = "paid" /\ ctl.rcpt.lease = l)
    /\ \A l, k \in DOMAIN leases :
         payouts[l] > 0 /\ payouts[k] > 0 /\ leases[l].job = leases[k].job => l = k

----
\* Load

(* The job whose row is still active though its worker's load is lowered.  *)
Lowered == IF ctl.pc = "expire" THEN ctl.pending ELSE {}

(* A worker's load to be lowered, or raised, before the handler ends.      *)
Due(w) == IF ctl.pc \in {"unload", "unloadfailed"} /\ CurrentWorker = w THEN 1 ELSE 0
Uncounted(w) == IF ctl.pc = "load" /\ ctl.worker = w THEN 1 ELSE 0

LoadInv ==
  crashes = 0 => \A w \in Workers :
    load[w] + Uncounted(w) <= Cardinality(ActiveOf(w) \ Lowered) + Due(w)

----
\* What the controller has in hand

LEMMA CtlByPc ==
  ASSUME NEW o \in Handlers
  PROVE  /\ o = Idle <=> o.pc = "idle"
         /\ o.pc = "route" => o \in Routing
         /\ o.pc = "load" => o \in Counting
         /\ o.pc = "expire" => o \in Expiring
         /\ o.pc \in Steps => o \in Receiving
         /\ o.pc \in {"idle", "route", "load", "expire"} \cup Steps
  BY DEF Handlers, Idle, Routing, Counting, Receiving, Refusing, Expiring, Steps, Handling, Paying,
         Closing

LEMMA IdleIsHandler == Idle \in Handlers /\ Idle.pc = "idle"
  BY DEF Handlers, Idle

(* A handler goes on to its next step, with the same receipt.              *)
LEMMA GoesOn ==
  ASSUME ctl \in Receiving, NEW label \in Steps, Goto(label)
  PROVE  /\ ctl' \in Receiving /\ ctl' \in Handlers
         /\ ctl'.pc = label /\ ctl'.rcpt = ctl.rcpt
  BY DEF Goto, Receiving, Handlers

LEMMA NextCases ==
  ASSUME Next
  PROVE  \/ CliDeposit \/ CliInsert \/ CliEscrow \/ CliCrash
         \/ \E j \in Jobs : ExpireRow(j) \/ Lease(j)
         \/ ExpireEnd \/ NoJob \/ CountJob \/ RunJob \/ SettleJob \/ InsertPayout \/ RecordPaid
         \/ CompleteJob \/ FailJob \/ UnloadWorker \/ RefundJob \/ Crash
         \/ \E w \in Workers : Register(w) \/ NextJob(w) \/ Restart(w)
         \/ \E l \in Leases : Lapse(l) \/ \E v \in Verdicts, qi \in Figures : SendReceipt(l, v, qi)
         \/ \E r \in sent : RejectReceipt(r) \/ LateReceipt(r) \/ StoreReceipt(r)
  BY DEF Next, Cli, Handler, HandleReceipt, Send

(* A row of the table of leases that is in use.                            *)
LEMMA LeaseTyped ==
  ASSUME TypeOK, NEW l \in DOMAIN leases
  PROVE  leases[l].job \in Jobs /\ leases[l].worker \in Workers /\ l \in Nat \ {0}
<1>1. leases \in Seq(LeaseRow)
  BY DEF TypeOK
<1>2. leases[l] \in LeaseRow /\ l \in 1..Len(leases) /\ Len(leases) \in Nat
  BY <1>1
<1>3. QED
  BY <1>2 DEF LeaseRow

LEMMA AppendLease ==
  ASSUME TypeOK, NEW row \in LeaseRow, leases' = Append(leases, row)
  PROVE  /\ leases' \in Seq(LeaseRow) /\ Len(leases') = Len(leases) + 1
         /\ Len(leases) \in Nat /\ DOMAIN leases = 1..Len(leases)
         /\ DOMAIN leases' = DOMAIN leases \cup {Len(leases')}
         /\ Len(leases') \notin DOMAIN leases
         /\ leases'[Len(leases')] = row
         /\ \A l \in DOMAIN leases : leases'[l] = leases[l]
<1>1. leases \in Seq(LeaseRow) /\ Len(leases) \in Nat /\ DOMAIN leases = 1..Len(leases)
  BY DEF TypeOK
<1>2. leases' \in Seq(LeaseRow) /\ Len(leases') = Len(leases) + 1
  BY <1>1
<1>3. DOMAIN leases' = 1..(Len(leases) + 1)
  BY <1>2
<1>4. leases'[Len(leases')] = row /\ \A l \in 1..Len(leases) : leases'[l] = leases[l]
  BY <1>1, <1>2
<1>5. QED
  BY <1>1, <1>2, <1>3, <1>4

----
\* What the steps of a settlement and a refund do outside the ledger

(* The handler ends and the worker has its answer, or goes on.             *)
Answers == ctl' = Idle /\ busy' = busy \ {ctl.rcpt.lease}
Continues(label) == ctl' \in Receiving /\ ctl'.pc = label /\ ctl'.rcpt = ctl.rcpt /\ busy' = busy

LEMMA SettleOutside ==
  ASSUME TypeOK, SettleJob
  PROVE  /\ ctl \in Receiving /\ ctl.pc \in {"settle", "settling"}
         /\ UNCHANGED <<jobVars, payVars, asking, sent, cli, faults>>
         /\ \/ ctl.pc = "settling" /\ Answers
            \/ Continues("settling")
            \/ ctl.pc = "settling" /\ Continues("payout")
<1>1. ctl.pc \in {"settle", "settling"} /\ UNCHANGED <<jobVars, payVars, asking, sent, cli, faults>>
  BY DEF SettleJob
<1>2. ctl \in Receiving
  BY <1>1, CtlByPc DEF TypeOK, Steps, Handling, Paying
<1>3. {"settling", "payout"} \subseteq Steps
  BY DEF Steps, Handling, Paying
<1>4. \/ ctl.pc = "settling" /\ Answer(ctl.rcpt.lease)
      \/ Goto("settling") /\ UNCHANGED busy
      \/ ctl.pc = "settling" /\ UNCHANGED <<ctl, busy>>
      \/ ctl.pc = "settling" /\ Goto("payout") /\ UNCHANGED busy
  BY DEF SettleJob
<1>5. QED
  BY <1>1, <1>2, <1>3, <1>4, GoesOn DEF Answers, Continues, Answer

LEMMA RefundOutside ==
  ASSUME TypeOK, RefundJob
  PROVE  /\ ctl \in Receiving /\ ctl.pc \in {"refund", "refunding"}
         /\ UNCHANGED <<jobVars, payVars, asking, sent, cli, faults>>
         /\ Answers \/ Continues("refunding")
<1>1. ctl.pc \in {"refund", "refunding"} /\ UNCHANGED <<jobVars, payVars, asking, sent, cli,
          faults>>
  BY DEF RefundJob
<1>2. ctl \in Receiving
  BY <1>1, CtlByPc DEF TypeOK, Steps
<1>3. "refunding" \in Steps
  BY DEF Steps
<1>4. \/ Answer(ctl.rcpt.lease)
      \/ Goto("refunding") /\ UNCHANGED busy
      \/ ctl.pc = "refunding" /\ UNCHANGED <<ctl, busy>>
  BY DEF RefundJob
<1>5. QED
  BY <1>1, <1>2, <1>3, <1>4, GoesOn DEF Answers, Continues, Answer

----
\* Types

LEMMA TypeInitially == Init => TypeOK
<1> SUFFICES ASSUME Init PROVE TypeOK
  OBVIOUS
<1>1. DOMAIN leases = {} /\ leases \in Seq(LeaseRow)
  BY DEF Init
<1>2. /\ job \in [Jobs -> JobRow] /\ load \in [Workers -> Nat] /\ payouts \in [Leases -> Nat]
  BY DEF Init, JobRow, NoLease
<1>3. cli \in [pc : {"idle", "insert", "escrow", "commit"}, job : 0..NJobs] /\ cli.pc = "idle"
  BY ClusterAssumption DEF Init
<1>4. ctl \in Handlers
  BY IdleIsHandler DEF Init
<1>5. /\ lapsed = {} /\ receipts = {} /\ paid = {} /\ asking = {} /\ busy = {} /\ sent = {}
      /\ crashes = 0 /\ restarts = 0
  BY DEF Init
<1>6. QED
  BY <1>1, <1>2, <1>3, <1>4, <1>5 DEF TypeOK

(* Steps of the controller that touch neither the leases nor what the      *)
(* command line and the workers have.                                      *)
LEMMA HandlerTyped ==
  ASSUME TypeOK, ctl' \in Handlers, job' \in [Jobs -> JobRow], load' \in [Workers -> Nat],
         receipts' \subseteq Nat, payouts' \in [Leases -> Nat], paid' \subseteq Jobs,
         asking' \subseteq Workers, busy' \subseteq DOMAIN leases, crashes' \in Nat,
         restarts' \in Nat, UNCHANGED <<leases, lapsed, cli, sent>>
  PROVE  TypeOK'
  BY DEF TypeOK

LEMMA CliTyped ==
  ASSUME TypeOK, CliDeposit \/ CliInsert \/ CliEscrow \/ CliCrash
  PROVE  TypeOK'
<1>1. UNCHANGED <<leases, lapsed, load, payVars, workerVars, ctl, restarts>>
  BY DEF CliDeposit, CliInsert, CliEscrow, CliCrash, jobVars, payVars, workerVars, faults
<1>2. crashes' \in Nat
  BY DEF TypeOK, CliDeposit, CliInsert, CliEscrow, CliCrash, faults
<1>3. /\ cli' \in [pc : {"idle", "insert", "escrow", "commit"}, job : 0..NJobs]
      /\ cli'.pc # "idle" => cli'.job # 0
  BY ClusterAssumption DEF TypeOK, CliDeposit, CliInsert, CliEscrow, CliCrash
<1>4. job' \in [Jobs -> JobRow]
  <2>1. CASE CliInsert
    <3>1. \A j \in Jobs : [job[j] EXCEPT !.status = "queued"] \in JobRow
      BY DEF TypeOK, JobRow
    <3>2. QED
      BY <2>1, <3>1 DEF TypeOK, CliInsert
  <2>2. CASE UNCHANGED job
    BY <2>2 DEF TypeOK
  <2>3. QED
    BY <2>1, <2>2 DEF CliDeposit, CliEscrow, CliCrash, jobVars
<1>5. QED
  BY <1>1, <1>2, <1>3, <1>4 DEF TypeOK, payVars, workerVars

LEMMA RequeueTyped ==
  ASSUME TypeOK, NEW rows
  PROVE  Requeue(rows) \in [Jobs -> JobRow]
<1>1. [status |-> "queued", lease |-> NoLease] \in JobRow
  BY DEF JobRow, NoLease
<1>2. QED
  BY <1>1 DEF Requeue, TypeOK

LEMMA LoadTyped ==
  ASSUME TypeOK, NEW w \in Workers
  PROVE  Unloaded(w) \in [Workers -> Nat] /\ Loaded(w, 0) \in [Workers -> Nat]
         /\ Loaded(w, load[w] + 1) \in [Workers -> Nat]
<1>1. load[w] \in Nat
  BY DEF TypeOK
<1>2. (IF load[w] > 0 THEN load[w] - 1 ELSE 0) \in Nat
  BY <1>1
<1>3. QED
  BY <1>1, <1>2 DEF TypeOK, Unloaded, Loaded

LEMMA ExpireTyped ==
  ASSUME TypeOK, HandlerInv,
         (\E j \in Jobs : ExpireRow(j)) \/ ExpireEnd
  PROVE  TypeOK'
<1>1. ctl \in Expiring
  BY CtlByPc DEF TypeOK, ExpireRow, ExpireEnd
<1>2. Requeue(ctl.pending) \in [Jobs -> JobRow]
  BY RequeueTyped
<1>3. ASSUME NEW j \in Jobs, ExpireRow(j) PROVE TypeOK'
  <2>1. ctl' \in Handlers
    BY <1>1, <1>3 DEF ExpireRow, Expiring, Handlers
  <2>2. j \in Active /\ job[j].lease \in lapsed
    BY <1>3 DEF ExpireRow, HandlerInv
  <2>3. leases[job[j].lease].worker \in Workers
    BY <2>2, LeaseTyped DEF TypeOK
  <2>4. load' \in [Workers -> Nat]
    BY <1>3, <2>3, LoadTyped DEF ExpireRow
  <2>5. QED
    BY <1>2, <1>3, <2>1, <2>4, HandlerTyped DEF ExpireRow, payVars, workerVars, faults, TypeOK
<1>4. ASSUME ExpireEnd PROVE TypeOK'
  <2>1. ctl' \in Handlers
    BY <1>1, <1>4 DEF ExpireEnd, Expiring, Handlers, Refusing, Receiving, Steps
  <2>2. QED
    BY <1>2, <1>4, <2>1, HandlerTyped DEF ExpireEnd, payVars, workerVars, faults, TypeOK
<1>5. QED
  BY <1>3, <1>4

(* Lease l is granted to worker w for job j.                               *)
Grants(j, l, w) ==
  /\ l \in Nat \ {0} /\ l = Len(leases) + 1 /\ l \notin DOMAIN leases
  /\ ctl \in Routing /\ ctl.worker = w
  /\ leases' \in Seq(LeaseRow) /\ DOMAIN leases' = DOMAIN leases \cup {l}
  /\ \A k \in DOMAIN leases : leases'[k] = leases[k]
  /\ leases'[l].job = j /\ leases'[l].worker = w
  /\ job[j].status = "queued"
  /\ job' = [job EXCEPT ![j] = [status |-> "routed", lease |-> l]]
  /\ ctl' = [pc |-> "load", worker |-> w, lease |-> l]

LEMMA LeaseEffect ==
  ASSUME TypeOK, NEW j \in Jobs, Lease(j)
  PROVE  \E l \in Nat, w \in Workers : Grants(j, l, w)
<1>1. ctl \in Routing
  BY CtlByPc DEF TypeOK, Lease
<1>2. PICK w \in Workers : w = ctl.worker
  BY <1>1 DEF Routing
<1>3. PICK row \in LeaseRow : row = [job |-> j, worker |-> w]
  BY DEF LeaseRow
<1>4. leases' = Append(leases, row)
  BY <1>2, <1>3 DEF Lease
<1>5. PICK l \in Nat : l = Len(leases')
  BY <1>4, AppendLease
<1>6. /\ l = Len(leases) + 1 /\ l # 0 /\ l \notin DOMAIN leases
      /\ leases' \in Seq(LeaseRow) /\ DOMAIN leases' = DOMAIN leases \cup {l}
      /\ \A k \in DOMAIN leases : leases'[k] = leases[k]
      /\ leases'[l] = row
  BY <1>4, <1>5, AppendLease
<1>7. /\ job[j].status = "queued"
      /\ job' = [job EXCEPT ![j] = [status |-> "routed", lease |-> l]]
      /\ ctl' = [pc |-> "load", worker |-> w, lease |-> l]
  BY <1>2, <1>5 DEF Lease
<1>8. leases'[l].job = j /\ leases'[l].worker = w
  BY <1>3, <1>6
<1>9. QED
  BY <1>1, <1>2, <1>6, <1>7, <1>8 DEF Grants

LEMMA RouteTyped ==
  ASSUME TypeOK, HandlerInv, (\E j \in Jobs : Lease(j)) \/ NoJob \/ CountJob
  PROVE  TypeOK'
<1>1. ASSUME NEW j \in Jobs, Lease(j) PROVE TypeOK'
  <2>0. PICK l \in Nat, w \in Workers : Grants(j, l, w)
    BY <1>1, LeaseEffect
  <2>1. /\ leases' \in Seq(LeaseRow) /\ DOMAIN leases' = DOMAIN leases \cup {l}
        /\ job' = [job EXCEPT ![j] = [status |-> "routed", lease |-> l]]
        /\ ctl' = [pc |-> "load", worker |-> w, lease |-> l]
    BY <2>0 DEF Grants
  <2>2. job' \in [Jobs -> JobRow]
    <3>1. [status |-> "routed", lease |-> l] \in JobRow
      BY DEF JobRow
    <3>2. QED
      BY <2>1, <3>1 DEF TypeOK
  <2>3. ctl' \in Handlers
    BY <2>1 DEF Handlers, Counting
  <2>4. UNCHANGED <<lapsed, load, receipts, payouts, paid, cli, asking, busy, sent, crashes,
            restarts>>
    BY <1>1 DEF Lease, payVars, workerVars, faults
  <2>5. QED
    BY <2>1, <2>2, <2>3, <2>4 DEF TypeOK
<1>2. ASSUME NoJob PROVE TypeOK'
  BY <1>2, IdleIsHandler, HandlerTyped DEF NoJob, jobVars, payVars, faults, TypeOK
<1>3. ASSUME CountJob PROVE TypeOK'
  <2>1. ctl \in Counting /\ ctl.lease \in DOMAIN leases /\ ctl.worker \in Workers
    BY <1>3, CtlByPc DEF TypeOK, CountJob, HandlerInv, Counting
  <2>2. load' \in [Workers -> Nat]
    BY <1>3, <2>1, LoadTyped DEF CountJob
  <2>3. busy' \subseteq DOMAIN leases
    BY <1>3, <2>1 DEF CountJob, TypeOK
  <2>4. QED
    BY <1>3, <2>2, <2>3, IdleIsHandler, HandlerTyped DEF CountJob, payVars, faults, TypeOK
<1>4. QED
  BY <1>1, <1>2, <1>3

LEMMA StatusTyped ==
  ASSUME TypeOK, NEW j \in Jobs,
         NEW s \in {"none", "queued", "routed", "running", "completed", "failed"}
  PROVE  [job EXCEPT ![j].status = s] \in [Jobs -> JobRow]
<1>1. [job[j] EXCEPT !.status = s] \in JobRow
  BY DEF TypeOK, JobRow
<1>2. QED
  BY <1>1 DEF TypeOK

(* The job and the worker of the receipt in hand.                          *)
LEMMA CurrentTyped ==
  ASSUME TypeOK, HandlerInv, ctl.pc \in Steps
  PROVE  /\ ctl \in Receiving /\ ctl.rcpt.lease \in DOMAIN leases
         /\ CurrentJob \in Jobs /\ CurrentWorker \in Workers
         /\ ctl.rcpt \in Receipt
<1>1. ctl \in Receiving
  BY CtlByPc DEF TypeOK
<1>2. ctl.rcpt.lease \in DOMAIN leases
  BY DEF HandlerInv
<1>3. QED
  BY <1>1, <1>2, LeaseTyped DEF CurrentJob, CurrentWorker, Receiving

(* The status that a handler gives the job of its receipt.                 *)
LEMMA RunEffect ==
  ASSUME TypeOK, HandlerInv, RunJob
  PROVE  /\ ctl \in Receiving /\ ctl.pc = "run"
         /\ job[CurrentJob].status \in {"routed", "running"}
         /\ job' = [job EXCEPT ![CurrentJob].status = "running"]
         /\ \E label \in {"settle", "fail"} : Goto(label)
         /\ UNCHANGED <<ledgerVars, leases, lapsed, load, payVars, workerVars, cli, faults>>
<1>1. ctl.pc = "run"
  BY DEF RunJob
<1>2. ctl \in Receiving /\ Held(ctl.rcpt) /\ CurrentJob \in Jobs
  BY <1>1, CurrentTyped DEF HandlerInv, Steps, Handling, Paying
<1>3. job[CurrentJob].status \in {"routed", "running"}
  BY <1>2 DEF Held, CurrentJob
<1>4. job' = [job EXCEPT ![CurrentJob].status = "running"]
  BY <1>2, <1>3 DEF RunJob, TypeOK
<1>5. QED
  BY <1>1, <1>2, <1>3, <1>4 DEF RunJob


LEMMA ReceiptStepTyped ==
  ASSUME TypeOK, HandlerInv,
         RunJob \/ SettleJob \/ InsertPayout \/ RecordPaid \/ CompleteJob \/ FailJob
         \/ UnloadWorker \/ RefundJob
  PROVE  TypeOK'
<1>1. ASSUME ctl.pc \in Steps, NEW label \in Steps, Goto(label)
      PROVE  ctl' \in Handlers
  BY <1>1, CurrentTyped, GoesOn
<1>2. ASSUME RunJob PROVE TypeOK'
  <2>1. ctl.pc \in Steps /\ ctl' \in Handlers
    BY <1>1, <1>2, RunEffect DEF Steps, Handling, Paying
  <2>2. job' \in [Jobs -> JobRow]
    BY <1>2, <2>1, RunEffect, CurrentTyped, StatusTyped
  <2>3. QED
    BY <1>2, <2>1, <2>2, HandlerTyped DEF RunJob, payVars, workerVars, faults, TypeOK
<1>3. ASSUME SettleJob PROVE TypeOK'
  <2>1. ctl' \in Handlers /\ busy' \subseteq DOMAIN leases
    BY <1>3, SettleOutside, IdleIsHandler DEF Answers, Continues, Handlers, TypeOK
  <2>2. QED
    BY <1>3, <2>1, SettleOutside, HandlerTyped DEF jobVars, payVars, faults, TypeOK
<1>4. ASSUME InsertPayout PROVE TypeOK'
  <2>1. ctl.pc \in Steps /\ Goto("paid") /\ "paid" \in Steps
    BY <1>4 DEF InsertPayout, Steps, Handling, Paying, Closing
  <2>2. ctl' \in Handlers
    BY <1>1, <2>1
  <2>3. payouts' \in [Leases -> Nat]
    <3>1. \A l \in Leases : payouts[l] + 1 \in Nat
      BY DEF TypeOK
    <3>2. QED
      BY <1>4, <3>1 DEF InsertPayout, TypeOK
  <2>4. QED
    BY <1>4, <2>2, <2>3, HandlerTyped DEF InsertPayout, jobVars, workerVars, faults, TypeOK
<1>5. ASSUME RecordPaid PROVE TypeOK'
  <2>1. ctl.pc \in Steps /\ Goto("complete") /\ "complete" \in Steps
    BY <1>5 DEF RecordPaid, Steps, Handling, Paying, Closing
  <2>2. ctl' \in Handlers /\ CurrentJob \in Jobs
    BY <1>1, <2>1, CurrentTyped
  <2>3. QED
    BY <1>5, <2>2, HandlerTyped DEF RecordPaid, jobVars, workerVars, faults, TypeOK
<1>6. ASSUME CompleteJob \/ FailJob PROVE TypeOK'
  <2>1. PICK label \in {"unload", "unloadfailed"} : Goto(label)
    BY <1>6 DEF CompleteJob, FailJob
  <2>2. ctl.pc \in Steps
    BY <1>6 DEF CompleteJob, FailJob, Steps, Handling, Closing
  <2>3. ctl' \in Handlers /\ CurrentJob \in Jobs
    BY <1>1, <2>1, <2>2, CurrentTyped DEF Steps
  <2>4. job' \in [Jobs -> JobRow]
    BY <1>6, <2>3, StatusTyped DEF CompleteJob, FailJob
  <2>5. QED
    BY <1>6, <2>3, <2>4, HandlerTyped DEF CompleteJob, FailJob, payVars, workerVars, faults, TypeOK
<1>7. ASSUME UnloadWorker PROVE TypeOK'
  <2>1. ctl.pc \in Steps /\ "refund" \in Steps
    BY <1>7 DEF UnloadWorker, Steps
  <2>2. CurrentWorker \in Workers
    BY <2>1, CurrentTyped
  <2>3. ctl' \in Handlers /\ busy' \subseteq DOMAIN leases
    BY <1>1, <1>7, <2>1, IdleIsHandler DEF UnloadWorker, Answer, TypeOK
  <2>4. load' \in [Workers -> Nat]
    BY <1>7, <2>2, LoadTyped DEF UnloadWorker
  <2>5. QED
    BY <1>7, <2>3, <2>4, HandlerTyped DEF UnloadWorker, payVars, faults, TypeOK
<1>8. ASSUME RefundJob PROVE TypeOK'
  <2>1. ctl' \in Handlers /\ busy' \subseteq DOMAIN leases
    BY <1>8, RefundOutside, IdleIsHandler DEF Answers, Continues, Handlers, TypeOK
  <2>2. QED
    BY <1>8, <2>1, RefundOutside, HandlerTyped DEF jobVars, payVars, faults, TypeOK
<1>9. QED
  BY <1>2, <1>3, <1>4, <1>5, <1>6, <1>7, <1>8

(* Where a stop of the controller leaves the workers.                      *)
LEMMA CrashEffect ==
  ASSUME TypeOK, Crash
  PROVE  /\ ctl' = Idle /\ busy' \subseteq busy /\ asking' \subseteq asking
         /\ crashes' = crashes + 1 /\ crashes' # 0 /\ crashes' \in Nat
         /\ UNCHANGED <<jobVars, payVars, sent, cli, restarts>>
<1>1. crashes \in Nat
  BY DEF TypeOK
<1>2. QED
  BY <1>1 DEF Crash

(* A handler that begins with the expired leases.                          *)
LEMMA ExpireBegins ==
  ASSUME NEW next \in Routing \cup Refusing, Expire(next)
  PROVE  /\ ctl' \in Expiring /\ ctl' \in Handlers /\ ctl'.pc = "expire" /\ ctl'.next = next
         /\ ctl'.pending = {} /\ ctl'.rows = {j \in Active : job[j].lease \in lapsed}
<1>1. {j \in Active : job[j].lease \in lapsed} \in SUBSET Jobs
  BY DEF Active
<1>2. QED
  BY <1>1 DEF Expire, Expiring, Handlers

LEMMA WorkerTyped ==
  ASSUME TypeOK, JobsInv,
         (\E w \in Workers : Register(w) \/ NextJob(w) \/ Restart(w))
         \/ (\E l \in Leases :
               Lapse(l) \/ \E v \in Verdicts, qi \in Figures : SendReceipt(l, v, qi))
         \/ (\E r \in sent : RejectReceipt(r) \/ LateReceipt(r) \/ StoreReceipt(r)) \/ Crash
  PROVE  TypeOK'
<1>1. ASSUME NEW w \in Workers, Register(w) PROVE TypeOK'
  <2>1. load' \in [Workers -> Nat]
    BY <1>1, LoadTyped DEF Register
  <2>2. QED
    BY <1>1, <2>1, HandlerTyped DEF Register, payVars, faults, TypeOK
<1>2. ASSUME NEW w \in Workers, NextJob(w) PROVE TypeOK'
  <2>1. [pc |-> "route", worker |-> w] \in Routing
    BY DEF Routing
  <2>2. ctl' \in Handlers
    BY <1>2, <2>1, ExpireBegins DEF NextJob
  <2>3. QED
    BY <1>2, <2>2, HandlerTyped DEF NextJob, jobVars, payVars, workerVars, faults, TypeOK
<1>3. ASSUME NEW w \in Workers, Restart(w) PROVE TypeOK'
  <2>1. restarts' \in Nat /\ busy' \subseteq DOMAIN leases /\ asking' \subseteq Workers
    BY <1>3 DEF Restart, TypeOK
  <2>2. QED
    BY <1>3, <2>1, HandlerTyped DEF Restart, jobVars, payVars, TypeOK
<1>4. ASSUME NEW l \in Leases, Lapse(l) PROVE TypeOK'
  <2>1. PICK j \in Active : l = job[j].lease
    BY <1>4 DEF Lapse
  <2>2. l \in DOMAIN leases
    BY <2>1 DEF Active, JobsInv
  <2>3. QED
    BY <1>4, <2>2 DEF Lapse, payVars, workerVars, faults, TypeOK
<1>5. ASSUME NEW l \in Leases, NEW v \in Verdicts, NEW qi \in Figures, SendReceipt(l, v, qi)
      PROVE  TypeOK'
  <2>1. l \in DOMAIN leases /\ l \in Nat
    BY <1>5, LeaseTyped DEF SendReceipt, TypeOK
  <2>2. Submission(l, v, qi) \in {r \in Receipt : r.lease \in DOMAIN leases}
    BY <2>1 DEF Submission, Receipt
  <2>3. QED
    BY <1>5, <2>2 DEF SendReceipt, jobVars, payVars, faults, TypeOK
<1>6. ASSUME NEW r \in sent, RejectReceipt(r) \/ LateReceipt(r) \/ StoreReceipt(r) PROVE TypeOK'
  <2>1. r \in Receipt /\ r.lease \in DOMAIN leases /\ r.lease \in Nat
    BY LeaseTyped DEF TypeOK
  <2>2. CASE RejectReceipt(r)
    BY <2>2, IdleIsHandler, HandlerTyped
       DEF RejectReceipt, Answer, jobVars, payVars, faults, TypeOK
  <2>3. CASE LateReceipt(r)
    <3>1. [pc |-> "refund", rcpt |-> r] \in Refusing
      BY <2>1 DEF Refusing
    <3>2. ctl' \in Handlers
      BY <2>3, <3>1, ExpireBegins DEF LateReceipt
    <3>3. QED
      BY <2>3, <3>2, HandlerTyped DEF LateReceipt, jobVars, payVars, workerVars, faults, TypeOK
  <2>4. CASE StoreReceipt(r)
    <3>1. ctl' \in Handlers
      BY <2>1, <2>4 DEF StoreReceipt, Handlers, Receiving, Steps, Handling, Paying
    <3>2. receipts' \subseteq Nat
      BY <2>1, <2>4 DEF StoreReceipt, TypeOK
    <3>3. QED
      BY <2>4, <3>1, <3>2, HandlerTyped DEF StoreReceipt, jobVars, workerVars, faults, TypeOK
  <2>5. QED
    BY <1>6, <2>2, <2>3, <2>4
<1>7. ASSUME Crash PROVE TypeOK'
  BY <1>7, CrashEffect, IdleIsHandler, HandlerTyped DEF jobVars, payVars, TypeOK
<1>8. QED
  BY <1>1, <1>2, <1>3, <1>4, <1>5, <1>6, <1>7


----
\* Steps that leave the jobs alone

(* Steps that change neither the jobs, nor the leases, nor what has been   *)
(* submitted.                                                              *)
JobsKept == UNCHANGED <<job, leases, lapsed>> /\ \A j \in Jobs : Submitted(j) => Submitted(j)'

LEMMA JobsKeptInv ==
  ASSUME JobsInv, JobsKept
  PROVE  JobsInv'
  BY DEF JobsInv, JobsKept

(* Steps that give jobs another status, or take their lease away once it   *)
(* has lapsed.                                                             *)
LEMMA JobsMoved ==
  ASSUME TypeOK, JobsInv, UNCHANGED <<leases, lapsed>>,
         \A j \in Jobs : Submitted(j) => Submitted(j)',
         \A j \in Jobs :
           \/ job'[j] = job[j]
           \/ /\ Submitted(j)' /\ job'[j].lease = job[j].lease
              /\ job'[j].status = "queued" => job[j].status = "none"
              /\ job'[j].status # "none"
              /\ job'[j].status \in {"routed", "running"} => job[j].lease # NoLease
           \/ /\ Submitted(j) /\ job'[j].status = "queued" /\ job'[j].lease = NoLease
              /\ job[j].lease \in lapsed
  PROVE  JobsInv'
<1>1. ASSUME NEW j \in Jobs
      PROVE  /\ ~Submitted(j)' => job'[j].status = "none"
             /\ job'[j].status \in {"none", "queued"} => job'[j].lease = NoLease
             /\ job'[j].status \in {"routed", "running"} => job'[j].lease # NoLease
             /\ job'[j].lease # NoLease =>
                  job'[j].lease \in DOMAIN leases /\ leases[job'[j].lease].job = j
  BY DEF JobsInv
<1>2. ASSUME NEW l \in DOMAIN leases
      PROVE  l \in lapsed \/ job'[leases[l].job].lease = l
  <2>1. leases[l].job \in Jobs
    BY LeaseTyped
  <2>2. l \in lapsed \/ job[leases[l].job].lease = l
    BY DEF JobsInv
  <2>3. QED
    BY <2>1, <2>2
<1>3. QED
  BY <1>1, <1>2 DEF JobsInv


LEMMA SubmittedStays ==
  ASSUME cli' = cli
  PROVE  \A j \in Jobs : Submitted(j) => Submitted(j)'
  BY DEF Submitted

LEMMA LapsedFinite ==
  ASSUME TypeOK
  PROVE  IsFiniteSet(lapsed) /\ Cardinality(lapsed) \in Nat
<1>1. leases \in Seq(LeaseRow) /\ lapsed \subseteq DOMAIN leases
  BY DEF TypeOK
<1>2. DOMAIN leases = 1..Len(leases) /\ Len(leases) \in Nat
  BY <1>1
<1>3. IsFiniteSet(DOMAIN leases)
  BY <1>2, FS_Interval
<1>4. QED
  BY <1>1, <1>3, FS_Subset, FS_CardinalityType

(* The command line inserts the job that it has paid for.                  *)
LEMMA InsertEffect ==
  ASSUME TypeOK, JobsInv, CliInsert
  PROVE  /\ cli.job \in Jobs /\ job[cli.job].status = "none" /\ job[cli.job].lease = NoLease
         /\ job'[cli.job].status = "queued" /\ job'[cli.job].lease = NoLease
         /\ \A j \in Jobs \ {cli.job} : job'[j] = job[j]
         /\ \A j \in Jobs : Submitted(j)' <=> Submitted(j) \/ j = cli.job
         /\ UNCHANGED <<leases, lapsed, load, payVars, workerVars, ctl, faults, ledgerVars>>
<1>1. cli.pc = "insert" /\ cli' = [cli EXCEPT !.pc = "escrow"]
  BY DEF CliInsert
<1>2. cli.job \in Jobs
  BY <1>1, ClusterAssumption DEF TypeOK, Jobs
<1>3. ~Submitted(cli.job)
  BY <1>1, <1>2 DEF Submitted, Jobs
<1>4. job[cli.job].status = "none" /\ job[cli.job].lease = NoLease
  BY <1>2, <1>3 DEF JobsInv
<1>5. /\ job'[cli.job].status = "queued" /\ job'[cli.job].lease = NoLease
      /\ \A j \in Jobs \ {cli.job} : job'[j] = job[j]
  BY <1>2, <1>4 DEF CliInsert, TypeOK, JobRow
<1>6. cli'.pc = "escrow" /\ cli'.job = cli.job
  BY <1>1 DEF TypeOK
<1>7. \A j \in Jobs : Submitted(j)' <=> Submitted(j) \/ j = cli.job
  BY <1>1, <1>2, <1>6 DEF Submitted, Jobs
<1>8. QED
  BY <1>2, <1>4, <1>5, <1>7 DEF CliInsert

LEMMA CliSubmits ==
  ASSUME TypeOK, CliDeposit \/ CliEscrow \/ CliCrash
  PROVE  /\ \A j \in Jobs : Submitted(j) => Submitted(j)'
         /\ UNCHANGED <<jobVars, payVars, workerVars, ctl>>
<1>1. cli \in [pc : {"idle", "insert", "escrow", "commit"}, job : 0..NJobs]
  BY DEF TypeOK
<1>2. CASE CliDeposit
  BY <1>1, <1>2 DEF CliDeposit, Submitted, Jobs
<1>3. CASE CliEscrow \/ CliCrash
  <2>1. cli'.job = cli.job /\ cli'.pc # "insert"
    BY <1>1, <1>3 DEF CliEscrow, CliCrash
  <2>2. QED
    BY <1>3, <2>1 DEF Submitted, CliEscrow, CliCrash
<1>4. QED
  BY <1>2, <1>3

(* The rows that are given back to the queue.                              *)
LEMMA RequeueEffect ==
  ASSUME TypeOK, JobsInv, HandlerInv, ctl.pc = "expire", job' = Requeue(ctl.pending)
  PROVE  \A j \in Jobs :
           \/ job'[j] = job[j] /\ j \notin ctl.pending
           \/ /\ Submitted(j) /\ job'[j].status = "queued" /\ job'[j].lease = NoLease
              /\ job[j].lease \in lapsed /\ j \in Active /\ j \in ctl.pending
<1>1. SUFFICES ASSUME NEW j \in Jobs
               PROVE  \/ job'[j] = job[j] /\ j \notin ctl.pending
                      \/ /\ Submitted(j) /\ job'[j].status = "queued" /\ job'[j].lease = NoLease
                         /\ job[j].lease \in lapsed /\ j \in Active /\ j \in ctl.pending
  OBVIOUS
<1>2. CASE j \notin ctl.pending
  BY <1>2 DEF Requeue
<1>3. CASE j \in ctl.pending
  <2>1. j \in Active /\ job[j].lease \in lapsed
    BY <1>3 DEF HandlerInv
  <2>2. Submitted(j)
    BY <2>1 DEF JobsInv, Active
  <2>3. job'[j] = [status |-> "queued", lease |-> NoLease]
    BY <1>3 DEF Requeue
  <2>4. QED
    BY <1>3, <2>1, <2>2, <2>3
<1>4. QED
  BY <1>2, <1>3

(* What a handler of a receipt makes of the job's status.                  *)
Becomes(j, status) ==
  /\ j \in Jobs /\ job[j].status \in {"routed", "running"}
  /\ job'[j].status = status /\ job'[j].lease = job[j].lease
  /\ \A i \in Jobs \ {j} : job'[i] = job[i]

LEMMA StatusSet ==
  ASSUME TypeOK, HandlerInv, ctl.pc \in Handling, NEW s,
         job' = [job EXCEPT ![CurrentJob].status = s]
  PROVE  Becomes(CurrentJob, s)
<1>1. CurrentJob \in Jobs
  BY CurrentTyped DEF Steps
<1>2. job[CurrentJob].status \in {"routed", "running"}
  BY DEF HandlerInv, Held, CurrentJob
<1>3. QED
  BY <1>1, <1>2 DEF Becomes, TypeOK, JobRow

LEMMA StatusEffect ==
  ASSUME TypeOK, HandlerInv, RunJob \/ CompleteJob \/ FailJob
  PROVE  /\ RunJob => Becomes(CurrentJob, "running")
         /\ CompleteJob => Becomes(CurrentJob, "completed")
         /\ FailJob => Becomes(CurrentJob, "failed")
         /\ ctl.pc \in Handling
         /\ UNCHANGED <<leases, lapsed, load, payVars, cli, ledgerVars, workerVars, faults>>
<1>1. ctl.pc \in Handling /\ "running" # "none"
  BY DEF RunJob, CompleteJob, FailJob, Handling, Paying, Closing
<1>2. RunJob => Becomes(CurrentJob, "running")
  BY <1>1, RunEffect, StatusSet
<1>3. CompleteJob => Becomes(CurrentJob, "completed")
  BY <1>1, StatusSet DEF CompleteJob
<1>4. FailJob => Becomes(CurrentJob, "failed")
  BY <1>1, StatusSet DEF FailJob
<1>5. QED
  BY <1>1, <1>2, <1>3, <1>4 DEF RunJob, CompleteJob, FailJob

LEMMA BecomesJobs ==
  ASSUME TypeOK, JobsInv, NEW j, NEW s \in {"running", "completed", "failed"}, Becomes(j, s),
         UNCHANGED <<leases, lapsed, cli>>
  PROVE  JobsInv'
<1>1. \A i \in Jobs : Submitted(i) => Submitted(i)'
  BY SubmittedStays
<1>2. Submitted(j)' /\ job[j].lease # NoLease
  BY <1>1 DEF Becomes, JobsInv
<1>3. QED
  BY <1>1, <1>2, JobsMoved DEF Becomes

LEMMA GrantJobs ==
  ASSUME TypeOK, JobsInv, NEW j \in Jobs, NEW l, NEW w, Grants(j, l, w),
         UNCHANGED <<lapsed, cli>>
  PROVE  JobsInv'
<1>1. /\ job'[j].status = "routed" /\ job'[j].lease = l /\ l # NoLease
      /\ \A i \in Jobs \ {j} : job'[i] = job[i]
  BY DEF Grants, TypeOK, NoLease
<1>2. \A i \in Jobs : Submitted(i) => Submitted(i)'
  BY SubmittedStays
<1>3. job[j].lease = NoLease /\ Submitted(j)
  BY DEF Grants, JobsInv
<1>4. ASSUME NEW i \in Jobs
      PROVE  /\ ~Submitted(i)' => job'[i].status = "none"
             /\ job'[i].status \in {"none", "queued"} => job'[i].lease = NoLease
             /\ job'[i].status \in {"routed", "running"} => job'[i].lease # NoLease
             /\ job'[i].lease # NoLease =>
                  job'[i].lease \in DOMAIN leases' /\ leases'[job'[i].lease].job = i
  <2>1. CASE i = j
    BY <1>1, <1>2, <1>3, <2>1 DEF Grants
  <2>2. CASE i # j
    BY <1>1, <1>2, <2>2 DEF Grants, JobsInv
  <2>3. QED
    BY <2>1, <2>2
<1>5. ASSUME NEW k \in DOMAIN leases'
      PROVE  k \in lapsed \/ job'[leases'[k].job].lease = k
  <2>1. CASE k = l
    BY <1>1, <2>1 DEF Grants
  <2>2. CASE k # l
    <3>1. k \in DOMAIN leases /\ leases'[k] = leases[k]
      BY <1>5, <2>2 DEF Grants
    <3>2. leases[k].job \in Jobs /\ k # NoLease
      BY <3>1, LeaseTyped DEF NoLease
    <3>3. k \in lapsed \/ job[leases[k].job].lease = k
      BY <3>1 DEF JobsInv
    <3>4. QED
      BY <1>1, <1>3, <3>1, <3>2, <3>3
  <2>3. QED
    BY <2>1, <2>2
<1>6. QED
  BY <1>4, <1>5 DEF JobsInv

LEMMA LapseJobs ==
  ASSUME TypeOK, JobsInv, NEW l \in Leases, Lapse(l)
  PROVE  JobsInv'
<1>1. lapsed' = lapsed \cup {l} /\ l \notin lapsed /\ Cardinality(lapsed) < MaxLapses
  BY DEF Lapse
<1>2. Cardinality(lapsed') = Cardinality(lapsed) + 1
  BY <1>1, LapsedFinite, FS_AddElement
<1>3. Cardinality(lapsed') <= MaxLapses
  BY <1>1, <1>2, LapsedFinite, ClusterAssumption
<1>4. UNCHANGED <<job, leases, cli>>
  BY DEF Lapse
<1>5. QED
  BY <1>1, <1>3, <1>4 DEF JobsInv, Submitted


LEMMA JobsStep ==
  ASSUME TypeOK, JobsInv, HandlerInv, [Next]_vars
  PROVE  JobsInv'
<1>1. CASE CliInsert
  <2>1. \A j \in Jobs : Submitted(j) => Submitted(j)'
    BY <1>1, InsertEffect
  <2>2. \A j \in Jobs : j = cli.job => Submitted(j)'
    BY <1>1, InsertEffect
  <2>3. UNCHANGED <<leases, lapsed>>
    BY <1>1, InsertEffect
  <2>4. QED
    BY <1>1, <2>1, <2>2, <2>3, InsertEffect, JobsMoved
<1>2. ASSUME job' = Requeue(ctl.pending), ctl.pc = "expire", UNCHANGED <<leases, lapsed, cli>>
      PROVE  JobsInv'
  <2>1. \A j \in Jobs : Submitted(j) => Submitted(j)'
    BY <1>2, SubmittedStays
  <2>2. QED
    BY <1>2, <2>1, RequeueEffect, JobsMoved
<1>3. ASSUME NEW j \in Jobs, Lease(j) PROVE JobsInv'
  <2>1. PICK l \in Nat, w \in Workers : Grants(j, l, w)
    BY <1>3, LeaseEffect
  <2>2. UNCHANGED <<lapsed, cli>>
    BY <1>3 DEF Lease
  <2>3. QED
    BY <2>1, <2>2, GrantJobs
<1>4. CASE RunJob \/ CompleteJob \/ FailJob
  <2>1. UNCHANGED <<leases, lapsed, cli>>
    BY <1>4, StatusEffect
  <2>2. \E s \in {"running", "completed", "failed"} : Becomes(CurrentJob, s)
    BY <1>4, StatusEffect
  <2>3. QED
    BY <2>1, <2>2, BecomesJobs
<1>5. ASSUME NEW l \in Leases, Lapse(l) PROVE JobsInv'
  BY <1>5, LapseJobs
<1>6. CASE UNCHANGED <<job, leases, lapsed, cli>>
  BY <1>6, SubmittedStays, JobsKeptInv DEF JobsKept
<1>7. CASE CliDeposit \/ CliEscrow \/ CliCrash
  BY <1>7, CliSubmits, JobsKeptInv DEF JobsKept, jobVars
<1>8. ASSUME NEW j \in Jobs, ExpireRow(j) PROVE JobsInv'
  BY <1>2, <1>8 DEF ExpireRow
<1>9. CASE ExpireEnd
  BY <1>2, <1>9 DEF ExpireEnd
<1>10. CASE NoJob \/ CountJob \/ SettleJob \/ InsertPayout \/ RecordPaid \/ UnloadWorker
              \/ RefundJob \/ Crash
  BY <1>6, <1>10 DEF NoJob, CountJob, SettleJob, InsertPayout, RecordPaid, UnloadWorker, RefundJob,
                     Crash, jobVars
<1>11. ASSUME NEW w \in Workers, Register(w) \/ NextJob(w) \/ Restart(w) PROVE JobsInv'
  BY <1>6, <1>11 DEF Register, NextJob, Restart, jobVars
<1>12. ASSUME NEW l \in Leases, NEW v \in Verdicts, NEW qi \in Figures, SendReceipt(l, v, qi)
       PROVE  JobsInv'
  BY <1>6, <1>12 DEF SendReceipt, jobVars
<1>13. ASSUME NEW r \in sent, RejectReceipt(r) \/ LateReceipt(r) \/ StoreReceipt(r) PROVE JobsInv'
  BY <1>6, <1>13 DEF RejectReceipt, LateReceipt, StoreReceipt, jobVars
<1>14. CASE UNCHANGED vars
  BY <1>6, <1>14 DEF vars, jobVars
<1>15. CASE Next
  BY <1>1, <1>3, <1>4, <1>5, <1>7, <1>8, <1>9, <1>10, <1>11, <1>12, <1>13, <1>15, NextCases
<1>16. QED
  BY <1>14, <1>15

(* Only as many leases are granted as there are jobs and lapses.           *)
LEMMA FewLeases ==
  ASSUME NEW n \in Nat, NEW over, NEW last, IsFiniteSet(over), Cardinality(over) <= MaxLapses,
         \A l \in 1..n : l \in over \/ \E j \in Jobs : last[j] = l
  PROVE  1..n \subseteq Leases
<1> DEFINE held == {last[j] : j \in Jobs}
<1>1. IsFiniteSet(Jobs) /\ Cardinality(Jobs) = NJobs
  BY ClusterAssumption, FS_Interval DEF Jobs
<1>2. IsFiniteSet(held) /\ Cardinality(held) <= NJobs
  <2>1. [j \in Jobs |-> last[j]] \in Surjection(Jobs, held)
    BY DEF Surjection
  <2>2. QED
    BY <1>1, <2>1, FS_Surjection
<1>3. 1..n \subseteq over \cup held
  OBVIOUS
<1> HIDE DEF held
<1>4. IsFiniteSet(over \cup held)
        /\ Cardinality(over \cup held) <= Cardinality(over) + Cardinality(held)
  <2>1. /\ IsFiniteSet(over \cup held) /\ IsFiniteSet(over \cap held)
        /\ Cardinality(over \cup held) = Cardinality(over) + Cardinality(held)
               - Cardinality(over \cap held)
    BY <1>2, FS_Union, FS_Intersection
  <2>2. Cardinality(over \cap held) \in Nat /\ Cardinality(over) \in Nat
          /\ Cardinality(held) \in Nat
    BY <1>2, <2>1, FS_CardinalityType
  <2>3. QED
    BY <2>1, <2>2
<1>5. Cardinality(1..n) = n /\ Cardinality(1..n) <= Cardinality(over \cup held)
  <2>1. Cardinality(1..n) = n
    BY FS_Interval
  <2>2. QED
    BY <1>3, <1>4, <2>1, FS_Subset
<1>6. Cardinality(over) \in Nat /\ Cardinality(held) \in Nat /\ Cardinality(over \cup held) \in Nat
  BY <1>2, <1>4, FS_CardinalityType
<1>7. n <= NJobs + MaxLapses
  BY <1>2, <1>4, <1>5, <1>6, ClusterAssumption
<1>8. QED
  BY <1>7, ClusterAssumption DEF Leases

LEMMA LeasesBounded ==
  ASSUME TypeOK, JobsInv
  PROVE  DOMAIN leases \subseteq Leases
<1>1. leases \in Seq(LeaseRow) /\ DOMAIN leases = 1..Len(leases) /\ Len(leases) \in Nat
  BY DEF TypeOK
<1>2. ASSUME NEW l \in 1..Len(leases)
      PROVE  l \in lapsed \/ \E j \in Jobs : [i \in Jobs |-> job[i].lease][j] = l
  <2>1. leases[l].job \in Jobs
    BY <1>1, LeaseTyped
  <2>2. QED
    BY <1>1, <2>1 DEF JobsInv
<1>3. Cardinality(lapsed) <= MaxLapses
  BY DEF JobsInv
<1>4. 1..Len(leases) \subseteq Leases
  BY <1>1, <1>2, <1>3, LapsedFinite, FewLeases
<1>5. QED
  BY <1>1, <1>4

----
\* What a handler has in hand

(* The tables that the handlers and the payouts are about.                 *)
Tables == TypeOK /\ JobsInv /\ HandlerInv /\ PayInv /\ PaidInv

(* Between the handlers, and when a handler ends: nothing is in hand.      *)
LEMMA HandlerEnds ==
  ASSUME ctl' = Idle
  PROVE  /\ HandlerInv'
         /\ ctl'.pc \notin Paying \cup {"fail", "complete", "paid"}
  BY DEF HandlerInv, Idle, Steps, Handling, Paying, Closing

(* The receipt that is taken in hand is that of the job's lease.           *)
LEMMA Accepted ==
  ASSUME Tables, NEW r \in sent, StoreReceipt(r) \/ LateReceipt(r)
  PROVE  /\ r \in Receipt /\ r.lease \in DOMAIN leases /\ r.lease \in Leases
         /\ leases[r.lease].job \in Jobs /\ leases[r.lease].worker \in Workers
         /\ Held(r) /\ payouts[r.lease] = 0 /\ leases[r.lease].job \notin paid
         /\ ~Stale(leases[r.lease].job)
<1> DEFINE j == leases[r.lease].job
<1>1. r \in Receipt /\ r.lease \in DOMAIN leases /\ r.lease \in Leases
  BY LeasesBounded DEF Tables, TypeOK
<1>2. j \in Jobs /\ leases[r.lease].worker \in Workers /\ r.lease # NoLease
  BY <1>1, LeaseTyped DEF Tables, NoLease
<1>3. ~(payouts[r.lease] > 0) /\ j \notin paid /\ job[j].lease = r.lease /\ ~Stale(j)
  BY DEF StoreReceipt, LateReceipt, TurnedAway, AlreadySettled
<1>4. payouts[r.lease] = 0
  BY <1>1, <1>3 DEF Tables, TypeOK
<1>5. job[j].status \in {"none", "queued", "routed", "running", "completed", "failed"}
  BY <1>2 DEF Tables, TypeOK, JobRow
<1>6. job[j].status \notin {"none", "queued", "failed", "completed"}
  BY <1>2, <1>3 DEF Tables, JobsInv, PayInv, Stale
<1>7. Held(r)
  BY <1>3, <1>5, <1>6 DEF Held
<1>8. QED
  BY <1>1, <1>2, <1>3, <1>4, <1>7

(* A step that lets the handler be leaves what it has in hand alone.       *)
LEMMA HandlerKept ==
  ASSUME TypeOK, HandlerInv, UNCHANGED <<ctl, leases>>, lapsed \subseteq lapsed',
         \A j \in Jobs : j \in Active => job'[j] = job[j]
  PROVE  HandlerInv'
<1>1. \A j \in Active : j \in Jobs /\ j \in Active'
  BY DEF Active
<1>2. ctl'.pc = "expire" =>
        \A j \in ctl'.rows \cup ctl'.pending : j \in Active' /\ job'[j].lease \in lapsed'
  BY <1>1 DEF HandlerInv
<1>3. ASSUME ctl.pc \in Handling PROVE Held(ctl.rcpt)'
  <2>1. Held(ctl.rcpt) /\ leases[ctl.rcpt.lease].job \in Jobs
    BY <1>3, CurrentTyped DEF HandlerInv, Steps, CurrentJob
  <2>2. QED
    BY <2>1 DEF Held, Active
<1>4. QED
  BY <1>2, <1>3 DEF HandlerInv

(* A handler goes on with the same receipt.                                *)
LEMMA HandlerGoesOn ==
  ASSUME TypeOK, HandlerInv, NEW label \in Steps, ctl.pc \in Steps, ctl'.pc = label,
         ctl'.rcpt = ctl.rcpt, UNCHANGED leases,
         label \in Handling => Held(ctl.rcpt)'
  PROVE  HandlerInv'
<1>1. ctl.rcpt.lease \in DOMAIN leases /\ label \notin {"expire", "load"}
  BY DEF HandlerInv, Steps, Handling, Paying, Closing
<1>2. QED
  BY <1>1 DEF HandlerInv, Held

LEMMA HandlerStep ==
  ASSUME Tables, [Next]_vars
  PROVE  HandlerInv'
<1> USE DEF Tables
<1>1. CASE UNCHANGED <<ctl, leases, job>> /\ lapsed \subseteq lapsed'
  BY <1>1, HandlerKept
<1>2. CASE CliInsert
  BY <1>2, InsertEffect, HandlerKept DEF Active
<1>3. CASE ctl' = Idle
  BY <1>3, HandlerEnds
<1>4. ASSUME NEW next \in Routing \cup Refusing, Expire(next),
             next.pc = "refund" => next.rcpt.lease \in DOMAIN leases,
             UNCHANGED <<job, leases, lapsed>>
      PROVE  HandlerInv'
  <2>1. /\ ctl'.pc = "expire" /\ ctl'.next = next
        /\ ctl'.pending = {} /\ ctl'.rows = {j \in Active : job[j].lease \in lapsed}
    BY <1>4, ExpireBegins
  <2>2. \A j \in ctl'.rows \cup ctl'.pending : j \in Active' /\ job'[j].lease \in lapsed'
    BY <1>4, <2>1 DEF Active
  <2>3. QED
    BY <1>4, <2>1, <2>2 DEF HandlerInv, Steps, Handling, Paying, Closing
<1>5. ASSUME NEW w \in Workers, NextJob(w) PROVE HandlerInv'
  <2>1. [pc |-> "route", worker |-> w] \in Routing
    BY DEF Routing
  <2>2. QED
    BY <1>4, <1>5, <2>1 DEF NextJob, jobVars
<1>6. ASSUME NEW r \in sent, LateReceipt(r) PROVE HandlerInv'
  <2>1. [pc |-> "refund", rcpt |-> r] \in Refusing /\ r.lease \in DOMAIN leases
    BY <1>6, Accepted DEF Refusing
  <2>2. QED
    BY <1>4, <1>6, <2>1 DEF LateReceipt, jobVars
<1>7. ASSUME NEW r \in sent, StoreReceipt(r) PROVE HandlerInv'
  <2>1. Held(r) /\ r.lease \in DOMAIN leases
    BY <1>7, Accepted
  <2>2. ctl'.pc = "run" /\ ctl'.rcpt = r /\ UNCHANGED <<job, leases>>
    BY <1>7 DEF StoreReceipt, jobVars
  <2>3. QED
    BY <2>1, <2>2 DEF HandlerInv, Held
<1>8. ASSUME NEW i \in Jobs, ExpireRow(i) PROVE HandlerInv'
  <2>1. /\ ctl \in Expiring /\ ctl.pc = "expire" /\ i \in ctl.rows
        /\ job' = Requeue(ctl.pending) /\ UNCHANGED <<leases, lapsed>>
        /\ ctl' = [ctl EXCEPT !.rows = @ \ {i}, !.pending = {i}]
    BY <1>8, CtlByPc DEF ExpireRow, TypeOK
  <2>2. /\ ctl'.pc = "expire" /\ ctl'.rows = ctl.rows \ {i} /\ ctl'.pending = {i}
        /\ ctl'.next = ctl.next
    BY <2>1 DEF Expiring
  <2>3. ASSUME NEW j \in ctl.rows
        PROVE  j \in Active' /\ job'[j].lease \in lapsed'
    <3>1. j \in Active /\ job[j].lease \in lapsed /\ j \notin ctl.pending
      BY <2>1 DEF HandlerInv
    <3>2. job'[j] = job[j]
      BY <2>1, <3>1 DEF Requeue, Active
    <3>3. QED
      BY <2>1, <3>1, <3>2 DEF Active
  <2>4. QED
    BY <2>1, <2>2, <2>3 DEF HandlerInv, Steps, Handling, Paying, Closing
<1>9. CASE ExpireEnd
  <2>1. ctl \in Expiring /\ ctl.pc = "expire" /\ ctl' = ctl.next /\ UNCHANGED leases
    BY <1>9, CtlByPc DEF ExpireEnd, TypeOK
  <2>2. ctl'.pc = "route" \/ (ctl'.pc = "refund" /\ ctl'.rcpt.lease \in DOMAIN leases)
    BY <2>1 DEF Expiring, Routing, Refusing, HandlerInv
  <2>3. QED
    BY <2>1, <2>2 DEF HandlerInv, Steps, Handling, Paying, Closing
<1>10. ASSUME NEW j \in Jobs, Lease(j) PROVE HandlerInv'
  <2>1. PICK l \in Nat, w \in Workers : Grants(j, l, w)
    BY <1>10, LeaseEffect
  <2>2. l \in DOMAIN leases' /\ leases'[l].worker = w
          /\ ctl' = [pc |-> "load", worker |-> w, lease |-> l]
    BY <2>1 DEF Grants
  <2>3. QED
    BY <2>2 DEF HandlerInv, Steps, Handling, Paying, Closing
<1>11. CASE RunJob
  <2>1. ctl.pc = "run" /\ Becomes(CurrentJob, "running") /\ UNCHANGED leases
    BY <1>11, RunEffect, StatusEffect
  <2>2. PICK label \in {"settle", "fail"} : Goto(label)
    BY <1>11, RunEffect
  <2>3. label \in Steps /\ ctl.pc \in Steps /\ ctl.pc \in Handling
    BY <2>1, <2>2 DEF Steps, Handling, Paying
  <2>4. ctl'.pc = label /\ ctl'.rcpt = ctl.rcpt
    BY <1>11, <2>2, <2>3, RunEffect, GoesOn
  <2>5. Held(ctl.rcpt)'
    BY <2>1, <2>3, <2>4 DEF HandlerInv, Held, Becomes, CurrentJob
  <2>6. QED
    BY <2>1, <2>3, <2>4, <2>5, HandlerGoesOn
<1>12. ASSUME NEW label \in Steps, ctl'.pc = label, ctl'.rcpt = ctl.rcpt, UNCHANGED <<leases, job>>,
              ctl.pc \in Steps, label \in Handling => ctl.pc \in Handling
       PROVE  HandlerInv'
  <2>1. label \in Handling => Held(ctl.rcpt)'
    BY <1>12 DEF HandlerInv, Held
  <2>2. QED
    BY <1>12, <2>1, HandlerGoesOn
<1>13. CASE SettleJob
  <2>1. /\ ctl.pc \in {"settle", "settling"} /\ UNCHANGED <<job, leases>>
        /\ Answers \/ Continues("settling") \/ Continues("payout")
    BY <1>13, SettleOutside DEF jobVars
  <2>2. {"settle", "settling", "payout"} \subseteq Handling \cap Steps
    BY DEF Steps, Handling, Paying
  <2>3. QED
    BY <1>3, <1>12, <2>1, <2>2 DEF Answers, Continues
<1>14. CASE RefundJob
  <2>1. /\ ctl.pc \in {"refund", "refunding"} /\ UNCHANGED <<job, leases>>
        /\ Answers \/ Continues("refunding")
    BY <1>14, RefundOutside DEF jobVars
  <2>2. {"refund", "refunding"} \subseteq Steps /\ "refunding" \notin Handling
    BY DEF Steps, Handling, Paying, Closing
  <2>3. QED
    BY <1>3, <1>12, <2>1, <2>2 DEF Answers, Continues
<1>15. CASE InsertPayout \/ RecordPaid
  <2>1. ctl.pc \in {"payout", "paid"} /\ UNCHANGED <<job, leases>>
        /\ \E label \in {"paid", "complete"} : Goto(label)
    BY <1>15 DEF InsertPayout, RecordPaid, jobVars
  <2>2. {"payout", "paid", "complete"} \subseteq Handling \cap Steps
    BY DEF Steps, Handling, Paying, Closing
  <2>3. QED
    BY <1>12, <2>1, <2>2, CurrentTyped, GoesOn
<1>16. CASE CompleteJob \/ FailJob
  <2>1. ctl.pc \in {"complete", "fail"} /\ UNCHANGED leases
        /\ \E label \in {"unload", "unloadfailed"} : Goto(label)
    BY <1>16 DEF CompleteJob, FailJob
  <2>2. {"complete", "fail", "unload", "unloadfailed"} \subseteq Steps
        /\ "unload" \notin Handling /\ "unloadfailed" \notin Handling
    BY DEF Steps, Handling, Paying, Closing
  <2>3. QED
    BY <2>1, <2>2, CurrentTyped, GoesOn, HandlerGoesOn
<1>17. CASE UnloadWorker
  <2>1. ctl.pc \in {"unload", "unloadfailed"} /\ UNCHANGED <<job, leases>>
        /\ (ctl' = Idle \/ Goto("refund"))
    BY <1>17 DEF UnloadWorker, Answer
  <2>2. {"unload", "unloadfailed", "refund"} \subseteq Steps /\ "refund" \notin Handling
    BY DEF Steps, Handling, Paying, Closing
  <2>3. QED
    BY <1>3, <1>12, <2>1, <2>2, CurrentTyped, GoesOn
<1>18. CASE CliDeposit \/ CliEscrow \/ CliCrash
  BY <1>1, <1>18, CliSubmits DEF jobVars
<1>19. CASE NoJob \/ CountJob \/ Crash
  BY <1>3, <1>19 DEF NoJob, CountJob, Crash
<1>20. ASSUME NEW w \in Workers, Register(w) \/ Restart(w) PROVE HandlerInv'
  BY <1>1, <1>20 DEF Register, Restart, jobVars
<1>21. ASSUME NEW l \in Leases, Lapse(l) PROVE HandlerInv'
  BY <1>1, <1>21 DEF Lapse
<1>22. ASSUME NEW l \in Leases, NEW v \in Verdicts, NEW qi \in Figures, SendReceipt(l, v, qi)
       PROVE  HandlerInv'
  BY <1>1, <1>22 DEF SendReceipt, jobVars
<1>23. ASSUME NEW r \in sent, RejectReceipt(r) PROVE HandlerInv'
  BY <1>3, <1>23 DEF RejectReceipt, Answer
<1>24. CASE UNCHANGED vars
  BY <1>1, <1>24 DEF vars, jobVars
<1>25. CASE Next
  <2> HIDE DEF Tables
  <2>1. QED
    BY <1>2, <1>5, <1>6, <1>7, <1>8, <1>9, <1>10, <1>11, <1>13, <1>14, <1>15, <1>16, <1>17, <1>18,
       <1>19, <1>20, <1>21, <1>22, <1>23, <1>25, NextCases
<1>26. QED
  BY <1>24, <1>25

----
\* Payouts

LEMMA TypeStep == Tables /\ [Next]_vars => TypeOK'
<1> SUFFICES ASSUME Tables, [Next]_vars PROVE TypeOK'
  OBVIOUS
<1>1. TypeOK /\ JobsInv /\ HandlerInv
  BY DEF Tables
<1>2. CASE Next
  BY <1>1, <1>2, NextCases, CliTyped, ExpireTyped, RouteTyped, ReceiptStepTyped, WorkerTyped
<1>3. CASE UNCHANGED vars
  BY <1>1, <1>3 DEF vars, jobVars, payVars, workerVars, faults, TypeOK
<1>4. QED
  BY <1>2, <1>3

(* A lease that has just been granted was never paid for.                  *)
LEMMA NewLease ==
  ASSUME Tables, TypeOK', JobsInv', UNCHANGED payouts, NEW l \in DOMAIN leases' \ DOMAIN leases
  PROVE  payouts[l] = 0
<1> DEFINE last == [i \in Jobs |-> job'[i].lease]
<1>1. leases' \in Seq(LeaseRow) /\ DOMAIN leases' = 1..Len(leases') /\ Len(leases') \in Nat
  BY DEF TypeOK
<1>2. lapsed' \subseteq DOMAIN leases' /\ IsFiniteSet(DOMAIN leases')
  BY <1>1, FS_Interval DEF TypeOK
<1>3. IsFiniteSet(lapsed') /\ Cardinality(lapsed') <= MaxLapses
  BY <1>2, FS_Subset DEF JobsInv
<1>4. ASSUME NEW k \in 1..Len(leases') PROVE k \in lapsed' \/ \E j \in Jobs : last[j] = k
  <2>1. leases'[k] \in LeaseRow
    BY <1>1, <1>4
  <2>2. leases'[k].job \in Jobs
    BY <2>1 DEF LeaseRow
  <2>3. k \in lapsed' \/ job'[leases'[k].job].lease = k
    BY <1>1 DEF JobsInv
  <2>4. QED
    BY <2>2, <2>3
<1> HIDE DEF last
<1>5. l \in Leases
  BY <1>1, <1>3, <1>4, FewLeases
<1>6. QED
  BY <1>5 DEF Tables, TypeOK, PayInv

(* Steps that pay nobody.                                                  *)
LEMMA PayKept ==
  ASSUME Tables, UNCHANGED <<payouts, paid>>,
         DOMAIN leases \subseteq DOMAIN leases', \A l \in DOMAIN leases : leases'[l] = leases[l],
         \A l \in DOMAIN leases' \ DOMAIN leases : payouts[l] = 0,
         \A j \in Jobs : job'[j].status = "completed" => job[j].status = "completed" \/ j \in paid,
         \/ ctl' = ctl
         \/ ctl'.pc \notin Paying \cup {"fail", "complete", "paid"}
         \/ ctl'.rcpt = ctl.rcpt /\ ctl.pc \in Paying /\ ctl'.pc \in Paying \cup {"fail"},
         ctl.pc = "paid" => ctl' = ctl \/ crashes' # 0,
         crashes' = 0 => crashes = 0
  PROVE  PayInv' /\ PaidInv'
<1>1. PayInv /\ PaidInv /\ TypeOK /\ HandlerInv
  BY DEF Tables
<1>2. ASSUME ctl.pc \in Paying \cup {"fail", "complete", "paid"}, ctl'.rcpt = ctl.rcpt
      PROVE  leases'[ctl'.rcpt.lease].job = CurrentJob /\ CurrentJob' = CurrentJob
  <2>1. ctl.rcpt.lease \in DOMAIN leases
    BY <1>1, <1>2 DEF HandlerInv, Steps, Handling, Closing
  <2>2. QED
    BY <1>2, <2>1 DEF CurrentJob
<1>3. \A l \in Leases : payouts'[l] <= 1 /\ (payouts'[l] > 0 => l \in DOMAIN leases')
  BY <1>1 DEF PayInv
<1>4. ctl'.pc \in Paying => payouts'[ctl'.rcpt.lease] = 0 /\ CurrentJob' \notin paid'
  BY <1>1, <1>2 DEF PayInv
<1>5. ctl'.pc = "fail" => CurrentJob' \notin paid'
  BY <1>1, <1>2 DEF PayInv, Paying
<1>6. ctl'.pc = "complete" => CurrentJob' \in paid'
  BY <1>1, <1>2 DEF PayInv, Paying
<1>7. \A j \in Jobs : job'[j].status = "completed" => j \in paid'
  BY <1>1 DEF PayInv
<1>8. ASSUME crashes' = 0
      PROVE  /\ \A l \in DOMAIN leases' :
                  payouts'[l] > 0 => leases'[l].job \in paid'
                    \/ (ctl'.pc = "paid" /\ ctl'.rcpt.lease = l)
             /\ \A l, k \in DOMAIN leases' :
                  payouts'[l] > 0 /\ payouts'[k] > 0 /\ leases'[l].job = leases'[k].job => l = k
  <2>1. \A l \in DOMAIN leases' : payouts'[l] > 0 => l \in DOMAIN leases /\ payouts[l] > 0
    OBVIOUS
  <2>2. QED
    BY <1>1, <1>8, <2>1 DEF PaidInv
<1>9. PayInv'
  BY <1>3, <1>4, <1>5, <1>6, <1>7 DEF PayInv
<1>10. QED
  BY <1>8, <1>9 DEF PaidInv

LEMMA PayoutStep ==
  ASSUME Tables, InsertPayout
  PROVE  PayInv' /\ PaidInv'
<1>1. /\ ctl.pc = "payout" /\ Goto("paid") /\ UNCHANGED <<job, leases, paid, crashes>>
      /\ payouts' = [payouts EXCEPT ![ctl.rcpt.lease] = @ + 1]
  BY DEF InsertPayout, jobVars, faults
<1>2. PayInv /\ PaidInv /\ TypeOK /\ HandlerInv /\ JobsInv
  BY DEF Tables
<1>3. ctl.rcpt.lease \in DOMAIN leases /\ ctl.rcpt.lease \in Leases /\ ctl \in Receiving
  BY <1>1, <1>2, CurrentTyped, LeasesBounded DEF Steps, Handling, Paying
<1>4. ctl'.pc = "paid" /\ ctl'.rcpt = ctl.rcpt
  BY <1>1, <1>3, GoesOn DEF Steps, Handling, Closing
<1>5. payouts[ctl.rcpt.lease] = 0 /\ CurrentJob \notin paid
  BY <1>1, <1>2 DEF PayInv, Paying
<1>6. /\ payouts'[ctl.rcpt.lease] = 1
      /\ \A l \in Leases \ {ctl.rcpt.lease} : payouts'[l] = payouts[l]
  BY <1>1, <1>2, <1>3, <1>5 DEF TypeOK
<1>7. PayInv'
  BY <1>1, <1>2, <1>3, <1>4, <1>6 DEF PayInv, Paying
<1>8. ASSUME crashes' = 0, NEW l \in DOMAIN leases, payouts'[l] > 0
      PROVE  leases[l].job \in paid \/ ctl.rcpt.lease = l
  <2>1. l \in Leases
    BY <1>2, LeasesBounded
  <2>2. QED
    BY <1>1, <1>2, <1>6, <1>8, <2>1 DEF PaidInv
<1>9. ASSUME crashes' = 0, NEW l \in DOMAIN leases, NEW k \in DOMAIN leases,
             payouts'[l] > 0, payouts'[k] > 0, leases[l].job = leases[k].job
      PROVE  l = k
  <2>1. l \in Leases /\ k \in Leases
    BY <1>2, LeasesBounded
  <2>2. CASE l = ctl.rcpt.lease \/ k = ctl.rcpt.lease
    BY <1>5, <1>8, <1>9, <2>2 DEF CurrentJob
  <2>3. CASE l # ctl.rcpt.lease /\ k # ctl.rcpt.lease
    BY <1>1, <1>2, <1>6, <1>9, <2>1, <2>3 DEF PaidInv
  <2>4. QED
    BY <2>2, <2>3
<1>10. PaidInv'
  BY <1>1, <1>4, <1>8, <1>9 DEF PaidInv
<1>11. QED
  BY <1>7, <1>10

LEMMA PaidStep ==
  ASSUME Tables, RecordPaid
  PROVE  PayInv' /\ PaidInv'
<1>1. /\ ctl.pc = "paid" /\ Goto("complete") /\ UNCHANGED <<job, leases, payouts, crashes>>
      /\ paid' = paid \cup {CurrentJob}
  BY DEF RecordPaid, jobVars, faults
<1>2. PayInv /\ PaidInv /\ TypeOK /\ HandlerInv
  BY DEF Tables
<1>3. ctl \in Receiving
  BY <1>1, <1>2, CurrentTyped DEF Steps, Handling, Closing
<1>4. ctl'.pc = "complete" /\ ctl'.rcpt = ctl.rcpt
  BY <1>1, <1>3, GoesOn DEF Steps, Handling, Closing
<1>5. PayInv'
  BY <1>1, <1>2, <1>4 DEF PayInv, Paying, CurrentJob
<1>6. PaidInv'
  BY <1>1, <1>2, <1>4 DEF PaidInv, CurrentJob
<1>7. QED
  BY <1>5, <1>6

LEMMA PayStep == Tables /\ JobsInv' /\ TypeOK' /\ [Next]_vars => PayInv' /\ PaidInv'
<1> SUFFICES ASSUME Tables, JobsInv', TypeOK', [Next]_vars PROVE PayInv' /\ PaidInv'
  OBVIOUS
<1>1. TypeOK /\ JobsInv /\ HandlerInv /\ PayInv
  BY DEF Tables
<1>2. Paying \cap {"idle", "route", "load", "expire", "refund", "refunding", "unload",
          "unloadfailed",
                   "paid", "complete", "fail"} = {}
  BY DEF Paying
<1>3. ASSUME UNCHANGED <<payouts, paid, leases>>,
             \A j \in Jobs : 
               job'[j].status = "completed" => job[j].status = "completed" \/ j \in paid,
             \/ ctl' = ctl
             \/ ctl'.pc \notin Paying \cup {"fail", "complete", "paid"}
             \/ ctl'.rcpt = ctl.rcpt /\ ctl.pc \in Paying /\ ctl'.pc \in Paying \cup {"fail"},
             ctl.pc = "paid" => ctl' = ctl \/ crashes' # 0,
             crashes' = 0 => crashes = 0
      PROVE  PayInv' /\ PaidInv'
  BY <1>3, PayKept
<1>4. CASE UNCHANGED <<ctl, payouts, paid, leases>> /\ (crashes' = 0 => crashes = 0)
           /\ \A j \in Jobs : job'[j] = job[j] \/ job'[j].status = "queued"
  BY <1>3, <1>4
<1>5. CASE ctl' = Idle /\ UNCHANGED <<payouts, paid, leases, job>> /\ (crashes' = 0 => crashes = 0)
           /\ (ctl.pc = "paid" => crashes' # 0)
  BY <1>3, <1>5, HandlerEnds
<1>6. CASE CliInsert
  <2>1. \A j \in Jobs : job'[j] = job[j] \/ job'[j].status = "queued"
    BY <1>1, <1>6, InsertEffect
  <2>2. UNCHANGED <<ctl, payouts, paid, leases, crashes>>
    BY <1>1, <1>6, InsertEffect DEF payVars, faults
  <2>3. QED
    BY <1>4, <2>1, <2>2
<1>7. CASE CliDeposit \/ CliEscrow \/ CliCrash
  <2>1. UNCHANGED <<ctl, payouts, paid, leases, job>>
    BY <1>1, <1>7, CliSubmits DEF payVars, jobVars
  <2>2. crashes' = 0 => crashes = 0
    BY <1>1, <1>7 DEF CliDeposit, CliEscrow, CliCrash, faults, TypeOK
  <2>3. QED
    BY <1>4, <2>1, <2>2
<1>8. ASSUME ctl.pc = "expire", UNCHANGED <<payouts, paid, leases, crashes>>,
             job' = Requeue(ctl.pending),
             ctl'.pc \in {"expire", "route", "refund"}
      PROVE  PayInv' /\ PaidInv'
  <2>1. \A j \in Jobs : job'[j] = job[j] \/ job'[j].status = "queued"
    BY <1>1, <1>8, RequeueEffect
  <2>2. \A j \in Jobs : job'[j].status = "completed" => job[j].status = "completed" \/ j \in paid
    BY <2>1
  <2>3. QED
    BY <1>2, <1>3, <1>8, <2>2
<1>9. ASSUME NEW j \in Jobs, ExpireRow(j) PROVE PayInv' /\ PaidInv'
  <2>1. ctl'.pc = "expire"
    BY <1>1, <1>9, CtlByPc DEF ExpireRow, TypeOK, Expiring
  <2>2. QED
    BY <1>8, <1>9, <2>1 DEF ExpireRow, payVars, faults
<1>10. CASE ExpireEnd
  <2>1. ctl'.pc \in {"expire", "route", "refund"}
    BY <1>1, <1>10, CtlByPc DEF ExpireEnd, TypeOK, Expiring, Routing, Refusing
  <2>2. QED
    BY <1>8, <1>10, <2>1 DEF ExpireEnd, payVars, faults
<1>11. ASSUME NEW j \in Jobs, Lease(j) PROVE PayInv' /\ PaidInv'
  <2>1. PICK l \in Nat, w \in Workers : Grants(j, l, w)
    BY <1>1, <1>11, LeaseEffect
  <2>2. ctl'.pc = "load" /\ ctl.pc = "route" /\ UNCHANGED <<payouts, paid, crashes>>
    BY <1>11, <2>1 DEF Grants, Lease, payVars, faults
  <2>3. DOMAIN leases \subseteq DOMAIN leases' /\ \A k \in DOMAIN leases : leases'[k] = leases[k]
    BY <2>1 DEF Grants
  <2>4. \A k \in DOMAIN leases' \ DOMAIN leases : payouts[k] = 0
    BY <2>2, NewLease
  <2>5. \A i \in Jobs : job'[i].status = "completed" => job[i].status = "completed"
    BY <1>1, <2>1 DEF Grants, TypeOK
  <2>6. QED
    BY <1>2, <2>2, <2>3, <2>4, <2>5, PayKept
<1>12. CASE RunJob
  <2>1. ctl \in Receiving /\ ctl.pc = "run" /\ Becomes(CurrentJob, "running")
        /\ UNCHANGED <<leases, payouts, paid, crashes>>
    BY <1>1, <1>12, RunEffect, StatusEffect DEF payVars, faults
  <2>2. PICK label \in {"settle", "fail"} : Goto(label)
    BY <1>1, <1>12, RunEffect
  <2>3. ctl'.pc = label /\ ctl'.rcpt = ctl.rcpt
    BY <2>1, <2>2, GoesOn DEF Steps, Handling, Paying
  <2>4. \A j \in Jobs : job'[j].status = "completed" => job[j].status = "completed" \/ j \in paid
    BY <2>1 DEF Becomes
  <2>5. ctl.pc \in Paying /\ ctl'.pc \in Paying \cup {"fail"}
    BY <2>1, <2>2, <2>3 DEF Paying
  <2>6. QED
    BY <1>3, <2>1, <2>3, <2>4, <2>5
<1>13. CASE SettleJob
  <2>1. /\ ctl.pc \in {"settle", "settling"} /\ UNCHANGED <<job, leases, payouts, paid, crashes>>
        /\ Answers \/ Continues("settling") \/ Continues("payout")
    BY <1>1, <1>13, SettleOutside DEF jobVars, payVars, faults
  <2>2. {"settle", "settling", "payout"} \subseteq Paying
    BY DEF Paying
  <2>3. CASE Answers
    BY <1>5, <2>1, <2>3 DEF Answers
  <2>4. CASE Continues("settling") \/ Continues("payout")
    BY <1>3, <2>1, <2>2, <2>4 DEF Continues
  <2>5. QED
    BY <2>1, <2>3, <2>4
<1>14. CASE RefundJob
  <2>1. /\ ctl.pc \in {"refund", "refunding"} /\ UNCHANGED <<job, leases, payouts, paid, crashes>>
        /\ Answers \/ Continues("refunding")
    BY <1>1, <1>14, RefundOutside DEF jobVars, payVars, faults
  <2>2. QED
    BY <1>2, <1>3, <1>5, <2>1 DEF Answers, Continues
<1>15. CASE CompleteJob \/ FailJob
  <2>1. ctl.pc \in {"complete", "fail"} /\ UNCHANGED <<leases, payouts, paid, crashes>>
        /\ \E label \in {"unload", "unloadfailed"} : Goto(label)
    BY <1>15 DEF CompleteJob, FailJob, payVars, faults
  <2>2. ctl'.pc \in {"unload", "unloadfailed"}
    BY <1>1, <2>1, CurrentTyped, GoesOn DEF Steps, Handling, Closing
  <2>3. \A j \in Jobs : job'[j].status = "completed" => job[j].status = "completed" \/ j \in paid
    <3>1. CASE CompleteJob
      BY <1>1, <3>1, StatusEffect DEF Becomes, CompleteJob, PayInv
    <3>2. CASE FailJob
      BY <1>1, <3>2, StatusEffect DEF Becomes
    <3>3. QED
      BY <1>15, <3>1, <3>2
  <2>4. QED
    BY <1>2, <1>3, <2>1, <2>2, <2>3
<1>16. CASE UnloadWorker
  <2>1. ctl.pc \in {"unload", "unloadfailed"} /\ UNCHANGED <<job, leases, payouts, paid, crashes>>
        /\ (ctl' = Idle \/ Goto("refund"))
    BY <1>16 DEF UnloadWorker, Answer, payVars, faults
  <2>2. ctl' = Idle \/ ctl'.pc = "refund"
    BY <1>1, <2>1, CurrentTyped, GoesOn DEF Steps
  <2>3. QED
    BY <1>2, <1>3, <1>5, <2>1, <2>2
<1>17. CASE NoJob \/ CountJob
  BY <1>5, <1>17 DEF NoJob, CountJob, jobVars, payVars, faults
<1>18. CASE Crash
  BY <1>1, <1>5, <1>18, CrashEffect DEF jobVars, payVars
<1>19. ASSUME NEW w \in Workers, Register(w) \/ Restart(w) PROVE PayInv' /\ PaidInv'
  BY <1>4, <1>19 DEF Register, Restart, jobVars, payVars, faults
<1>20. ASSUME NEW l \in Leases, Lapse(l) PROVE PayInv' /\ PaidInv'
  BY <1>4, <1>20 DEF Lapse, payVars, faults
<1>21. ASSUME NEW l \in Leases, NEW v \in Verdicts, NEW qi \in Figures, SendReceipt(l, v, qi)
       PROVE  PayInv' /\ PaidInv'
  BY <1>4, <1>21 DEF SendReceipt, jobVars, payVars, faults
<1>22. ASSUME NEW r \in sent, RejectReceipt(r) PROVE PayInv' /\ PaidInv'
  BY <1>5, <1>22, IdleIsHandler DEF RejectReceipt, Answer, jobVars, payVars, faults
<1>23. ASSUME ctl = Idle, ctl'.pc = "expire", UNCHANGED <<payouts, paid, leases, job, crashes>>
       PROVE  PayInv' /\ PaidInv'
  BY <1>2, <1>3, <1>23, IdleIsHandler
<1>24. ASSUME NEW w \in Workers, NextJob(w) PROVE PayInv' /\ PaidInv'
  BY <1>23, <1>24 DEF NextJob, Expire, jobVars, payVars, faults
<1>25. ASSUME NEW r \in sent, LateReceipt(r) PROVE PayInv' /\ PaidInv'
  BY <1>23, <1>25 DEF LateReceipt, Expire, jobVars, payVars, faults
<1>26. ASSUME NEW r \in sent, StoreReceipt(r) PROVE PayInv' /\ PaidInv'
  <2>1. payouts[r.lease] = 0 /\ leases[r.lease].job \notin paid
    BY <1>26, Accepted
  <2>2. /\ ctl.pc = "idle" /\ ctl'.pc = "run" /\ ctl'.rcpt = r
        /\ UNCHANGED <<job, leases, payouts, paid, crashes>>
    BY <1>26, IdleIsHandler DEF StoreReceipt, jobVars, faults
  <2>3. PayInv'
    BY <1>1, <2>1, <2>2 DEF PayInv, Paying, CurrentJob
  <2>4. PaidInv'
    BY <2>2 DEF PaidInv, Tables
  <2>5. QED
    BY <2>3, <2>4
<1>27. CASE UNCHANGED vars
  BY <1>4, <1>27 DEF vars, jobVars, payVars, faults
<1>28. CASE Next
  BY <1>6, <1>7, <1>9, <1>10, <1>11, <1>12, <1>13, <1>14, <1>15, <1>16, <1>17, <1>18, <1>19, <1>20,
     <1>21, <1>22, <1>24, <1>25, <1>26, <1>28, NextCases, PayoutStep, PaidStep
<1>29. QED
  BY <1>27, <1>28

----
\* The tables

LEMMA TablesInitially == Init => Tables
<1> SUFFICES ASSUME Init PROVE Tables
  OBVIOUS
<1>1. TypeOK
  BY TypeInitially
<1>2. DOMAIN leases = {} /\ ctl = Idle /\ cli.job = 0 /\ cli.pc = "idle" /\ lapsed = {}
  BY DEF Init
<1>3. \A j \in Jobs : job[j].status = "none" /\ job[j].lease = NoLease
  BY DEF Init
<1>4. JobsInv
  <2>1. Cardinality(lapsed) <= MaxLapses
    BY <1>2, FS_EmptySet, ClusterAssumption
  <2>2. QED
    BY <1>2, <1>3, <2>1 DEF JobsInv
<1>5. HandlerInv
  BY <1>2 DEF HandlerInv, Idle, Steps, Handling, Paying, Closing
<1>6. \A l \in Leases : payouts[l] = 0
  BY DEF Init
<1>7. PayInv
  BY <1>2, <1>3, <1>6 DEF PayInv, Idle, Paying
<1>8. PaidInv
  BY <1>2 DEF PaidInv
<1>9. QED
  BY <1>1, <1>4, <1>5, <1>7, <1>8 DEF Tables

LEMMA TablesStep == Tables /\ [Next]_vars => Tables'
<1> SUFFICES ASSUME Tables, [Next]_vars PROVE Tables'
  OBVIOUS
<1>1. TypeOK' /\ HandlerInv'
  BY TypeStep, HandlerStep
<1>2. JobsInv'
  BY JobsStep DEF Tables
<1>3. QED
  BY <1>1, <1>2, PayStep DEF Tables

LEMMA TablesAlways == Spec => []Tables
  BY TablesInitially, TablesStep, PTL DEF Spec

(* Whatever the workers, the network and the two processes do, the tables  *)
(* of the controller keep their types: every lease names a job and a       *)
(* worker, the load of a worker is not negative, and what a worker holds   *)
(* or a receipt names is a lease that was granted.                         *)
THEOREM TypeCorrect == Spec => []TypeOK
<1>1. Tables => TypeOK
  BY DEF Tables
<1>2. QED
  BY <1>1, TablesAlways, PTL

(* A completed or failed job is never queued, leased or failed again, in   *)
(* spite of late and repeated receipts, leases that run out while their    *)
(* receipt is being handled, and stops: a row is given back to the queue   *)
(* only while it is active, and a handler writes to the job of the receipt *)
(* it holds.                                                               *)
THEOREM ClosedJobsAreFinal == Spec => ClosedJobsStay
<1> DEFINE Stays == \A j \in Jobs : job[j].status \in {"completed", "failed"} => job'[j] = job[j]
<1>1. ASSUME Tables, [Next]_vars PROVE Stays
  <2>1. TypeOK /\ JobsInv /\ HandlerInv
    BY <1>1 DEF Tables
  <2>2. CASE UNCHANGED job
    BY <2>2
  <2>3. CASE CliInsert
    BY <2>1, <2>3, InsertEffect
  <2>4. ASSUME ctl.pc = "expire", job' = Requeue(ctl.pending) PROVE Stays
    BY <2>1, <2>4, RequeueEffect DEF Active
  <2>5. ASSUME NEW i \in Jobs, Lease(i) PROVE Stays
    <3>1. PICK l \in Nat, w \in Workers : Grants(i, l, w)
      BY <2>1, <2>5, LeaseEffect
    <3>2. QED
      BY <2>1, <3>1 DEF Grants, TypeOK
  <2>6. CASE RunJob \/ CompleteJob \/ FailJob
    BY <2>1, <2>6, StatusEffect DEF Becomes
  <2>7. ASSUME NEW i \in Jobs, ExpireRow(i) PROVE Stays
    BY <2>4, <2>7 DEF ExpireRow
  <2>8. CASE ExpireEnd
    BY <2>4, <2>8 DEF ExpireEnd
  <2>9. CASE \/ CliDeposit \/ CliEscrow \/ CliCrash \/ NoJob \/ CountJob \/ SettleJob
             \/ InsertPayout \/ RecordPaid \/ UnloadWorker \/ RefundJob \/ Crash
    <3>1. UNCHANGED job
      BY <2>9 DEF CliDeposit, CliEscrow, CliCrash, NoJob, CountJob, SettleJob, InsertPayout,
         RecordPaid,
                  UnloadWorker, RefundJob, Crash, jobVars
    <3>2. QED
      BY <2>2, <3>1
  <2>10. ASSUME NEW w \in Workers, Register(w) \/ NextJob(w) \/ Restart(w) PROVE Stays
    BY <2>10 DEF Register, NextJob, Restart, jobVars
  <2>11. ASSUME NEW l \in Leases,
                Lapse(l) \/ \E v \in Verdicts, qi \in Figures : SendReceipt(l, v, qi)
         PROVE  Stays
    BY <2>11 DEF Lapse, SendReceipt, jobVars
  <2>12. ASSUME NEW r \in sent, RejectReceipt(r) \/ LateReceipt(r) \/ StoreReceipt(r) PROVE Stays
    BY <2>12 DEF RejectReceipt, LateReceipt, StoreReceipt, jobVars
  <2>13. CASE UNCHANGED vars
    BY <2>2, <2>13 DEF vars, jobVars
  <2>14. CASE Next
    <3> HIDE DEF Stays
    <3>1. QED
      BY <2>3, <2>5, <2>6, <2>7, <2>8, <2>9, <2>10, <2>11, <2>12, <2>14, NextCases
  <2>15. QED
    BY <1>1, <2>13, <2>14
<1>2. [][Stays]_vars => ClosedJobsStay
  BY PTL DEF ClosedJobsStay
<1>3. QED
  BY <1>1, <1>2, TablesAlways, PTL DEF Spec

----
\* The load of the workers

(* The jobs that the load of a worker may count.                           *)
Counted(w) == ActiveOf(w) \ Lowered

LEMMA CountedFinite ==
  ASSUME NEW w
  PROVE  /\ IsFiniteSet(Counted(w)) /\ Cardinality(Counted(w)) \in Nat
         /\ IsFiniteSet(ActiveOf(w)) /\ Cardinality(ActiveOf(w)) \in Nat
<1>1. IsFiniteSet(Jobs)
  BY ClusterAssumption, FS_Interval DEF Jobs
<1>2. Counted(w) \subseteq Jobs /\ ActiveOf(w) \subseteq Jobs
  BY DEF Counted, ActiveOf, Active
<1>3. QED
  BY <1>1, <1>2, FS_Subset, FS_CardinalityType

(* Steps that take the jobs gone, and no others, from the active ones.     *)
LEMMA ActiveLeft ==
  ASSUME TypeOK, JobsInv, \A l \in DOMAIN leases : leases'[l] = leases[l], NEW gone, NEW w,
         \A j \in Jobs :
           IF j \in gone THEN j \notin Active'
           ELSE (j \in Active' <=> j \in Active) /\ (j \in Active => job'[j].lease = job[j].lease)
  PROVE  ActiveOf(w)' = ActiveOf(w) \ gone
<1>1. ASSUME NEW j \in Jobs
      PROVE  j \in ActiveOf(w)' <=> j \in ActiveOf(w) \ gone
  <2>1. CASE j \in gone
    BY <2>1 DEF ActiveOf
  <2>2. CASE j \notin gone /\ j \in Active
    <3>1. j \in Active' /\ job'[j].lease = job[j].lease /\ job[j].lease \in DOMAIN leases
      BY <2>2 DEF JobsInv, Active
    <3>2. QED
      BY <2>2, <3>1 DEF ActiveOf
  <2>3. CASE j \notin gone /\ j \notin Active
    BY <2>3 DEF ActiveOf
  <2>4. QED
    BY <2>1, <2>2, <2>3
<1>2. ActiveOf(w)' \subseteq Jobs /\ ActiveOf(w) \subseteq Jobs
  BY DEF ActiveOf, Active
<1>3. QED
  BY <1>1, <1>2

(* Steps that change no load and no count.                                 *)
Unmoved ==
  /\ UNCHANGED <<load, leases>> /\ (crashes' = 0 => crashes = 0)
  /\ \A j \in Jobs :
       (j \in Active' <=> j \in Active) /\ (j \in Active => job'[j].lease = job[j].lease)

NoCount(o) ==
  /\ o.pc \notin {"load", "unload", "unloadfailed"}
  /\ o.pc = "expire" => o.pending = {}

LEMMA LoadUnmoved ==
  ASSUME Tables, LoadInv, Unmoved, ctl' = ctl \/ (NoCount(ctl) /\ NoCount(ctl'))
  PROVE  LoadInv'
<1>1. ASSUME NEW w \in Workers
      PROVE  Counted(w)' = Counted(w) /\ Due(w)' = Due(w) /\ Uncounted(w)' = Uncounted(w)
  <2>1. ActiveOf(w)' = ActiveOf(w)
    <3> DEFINE gone == {}
    <3>1. \A j \in Jobs :
            IF j \in gone THEN j \notin Active'
            ELSE (j \in Active' <=> j \in Active) /\ (j \in Active => job'[j].lease = job[j].lease)
      BY DEF Unmoved
    <3> HIDE DEF gone
    <3>2. ActiveOf(w)' = ActiveOf(w) \ gone
      BY <3>1, ActiveLeft DEF Tables, Unmoved
    <3>3. QED
      BY <3>2 DEF gone
  <2>2. Lowered' = Lowered
    BY DEF Lowered, NoCount
  <2>3. Due(w)' = Due(w)
    BY DEF Due, NoCount, CurrentWorker, Unmoved
  <2>4. Uncounted(w)' = Uncounted(w)
    BY DEF Uncounted, NoCount
  <2>5. QED
    BY <2>1, <2>2, <2>3, <2>4 DEF Counted
<1>2. QED
  BY <1>1 DEF LoadInv, Counted, Unmoved

(* One row of the expired leases: the worker's load goes down before the   *)
(* row leaves the active ones.                                             *)
LEMMA LoadExpireRow ==
  ASSUME Tables, LoadInv, NEW i \in Jobs, ExpireRow(i)
  PROVE  LoadInv'
<1> DEFINE v == leases[job[i].lease].worker
<1>1. TypeOK /\ JobsInv /\ HandlerInv
  BY DEF Tables
<1>2. /\ ctl \in Expiring /\ ctl.pc = "expire" /\ i \in ctl.rows
      /\ job' = Requeue(ctl.pending) /\ UNCHANGED <<leases, lapsed, crashes>>
      /\ ctl' = [ctl EXCEPT !.rows = @ \ {i}, !.pending = {i}]
      /\ load' = Unloaded(v)
  BY <1>1, CtlByPc DEF ExpireRow, TypeOK, faults
<1>3. ctl'.pc = "expire" /\ ctl'.pending = {i}
  BY <1>2 DEF Expiring
<1>4. i \in Active /\ i \notin ctl.pending /\ i \in ActiveOf(v)
  BY <1>1, <1>2 DEF HandlerInv, ActiveOf
<1>5. v \in Workers
  BY <1>1, <1>4, LeaseTyped DEF JobsInv, Active
<1>6. ASSUME NEW w \in Workers
      PROVE  /\ Counted(w)' = Counted(w) \ {i}
             /\ Due(w) = 0 /\ Due(w)' = 0 /\ Uncounted(w) = 0 /\ Uncounted(w)' = 0
  <2>1. ASSUME NEW j \in Jobs
        PROVE  IF j \in ctl.pending THEN j \notin Active'
               ELSE (j \in Active' <=> j \in Active)
                 /\ (j \in Active => job'[j].lease = job[j].lease)
    BY <1>1, <1>2, RequeueEffect DEF Active
  <2>2. ActiveOf(w)' = ActiveOf(w) \ ctl.pending
    BY <1>1, <1>2, <2>1, ActiveLeft
  <2>3. Lowered = ctl.pending /\ Lowered' = {i}
    BY <1>2, <1>3 DEF Lowered
  <2>4. QED
    BY <1>2, <1>3, <2>2, <2>3 DEF Counted, Due, Uncounted
<1>7. i \in Counted(v) /\ \A w \in Workers \ {v} : i \notin Counted(w)
  BY <1>2, <1>4 DEF Counted, Lowered, ActiveOf
<1> HIDE DEF v
<1>8. ASSUME crashes' = 0, NEW w \in Workers
      PROVE  load'[w] + Uncounted(w)' <= Cardinality(Counted(w)') + Due(w)'
  <2>1. load[w] + Uncounted(w) <= Cardinality(Counted(w)) + Due(w) /\ load[w] \in Nat
    BY <1>1, <1>2, <1>8 DEF LoadInv, Counted, TypeOK
  <2>2. CASE w = v
    <3>1. load'[w] = IF load[w] > 0 THEN load[w] - 1 ELSE 0
      BY <1>1, <1>2, <1>5, <2>2 DEF Unloaded, Loaded, TypeOK
    <3>2. Cardinality(Counted(w)') = Cardinality(Counted(w)) - 1
      BY <1>6, <1>7, <2>2, CountedFinite, FS_RemoveElement
    <3>3. Cardinality(Counted(w)') \in Nat
      BY <1>6, CountedFinite, FS_RemoveElement, FS_CardinalityType
    <3>4. Cardinality(Counted(w)) \in Nat
      BY CountedFinite
    <3>5. QED
      BY <1>6, <2>1, <3>1, <3>2, <3>3, <3>4
  <2>3. CASE w # v
    <3>1. load'[w] = load[w]
      BY <1>1, <1>2, <2>3 DEF Unloaded, Loaded, TypeOK
    <3>2. Counted(w)' = Counted(w)
      BY <1>6, <1>7, <2>3
    <3>3. QED
      BY <1>6, <2>1, <3>1, <3>2
  <2>4. QED
    BY <2>2, <2>3
<1>9. QED
  BY <1>8 DEF LoadInv, Counted

LEMMA LoadExpireEnd ==
  ASSUME Tables, LoadInv, ExpireEnd
  PROVE  LoadInv'
<1>1. TypeOK /\ JobsInv /\ HandlerInv
  BY DEF Tables
<1>2. /\ ctl \in Expiring /\ ctl.pc = "expire" /\ ctl' = ctl.next
      /\ job' = Requeue(ctl.pending) /\ UNCHANGED <<leases, lapsed, crashes, load>>
  BY <1>1, CtlByPc DEF ExpireEnd, TypeOK, faults
<1>3. ctl'.pc \in {"route", "refund"}
  BY <1>2 DEF Expiring, Routing, Refusing
<1>4. ASSUME NEW w \in Workers
      PROVE  /\ Counted(w)' = Counted(w)
             /\ Due(w) = 0 /\ Due(w)' = 0 /\ Uncounted(w) = 0 /\ Uncounted(w)' = 0
  <2>1. ASSUME NEW j \in Jobs
        PROVE  IF j \in ctl.pending THEN j \notin Active'
               ELSE (j \in Active' <=> j \in Active)
                 /\ (j \in Active => job'[j].lease = job[j].lease)
    BY <1>1, <1>2, RequeueEffect DEF Active
  <2>2. ActiveOf(w)' = ActiveOf(w) \ ctl.pending
    BY <1>1, <1>2, <2>1, ActiveLeft
  <2>3. Lowered = ctl.pending /\ Lowered' = {}
    BY <1>2, <1>3 DEF Lowered
  <2>4. QED
    BY <1>2, <1>3, <2>2, <2>3 DEF Counted, Due, Uncounted
<1>5. QED
  BY <1>2, <1>4 DEF LoadInv, Counted


LEMMA LoadLease ==
  ASSUME Tables, LoadInv, NEW i \in Jobs, Lease(i)
  PROVE  LoadInv'
<1>1. TypeOK /\ JobsInv /\ HandlerInv
  BY DEF Tables
<1>2. PICK l \in Nat, v \in Workers : Grants(i, l, v)
  BY <1>1, LeaseEffect
<1>3. ctl.pc = "route" /\ UNCHANGED <<load, crashes>>
  BY DEF Lease, faults
<1>4. /\ l \notin DOMAIN leases /\ \A k \in DOMAIN leases : leases'[k] = leases[k]
      /\ leases'[l].worker = v /\ job[i].status = "queued"
      /\ job'[i] = [status |-> "routed", lease |-> l] /\ \A j \in Jobs \ {i} : job'[j] = job[j]
      /\ ctl' = [pc |-> "load", worker |-> v, lease |-> l]
  BY <1>1, <1>2 DEF Grants, TypeOK
<1>5. i \notin Active
  BY <1>4 DEF Active
<1>6. ASSUME NEW w \in Workers
      PROVE  /\ Counted(w)' = IF w = v THEN Counted(w) \cup {i} ELSE Counted(w)
             /\ i \notin Counted(w)
             /\ Due(w) = 0 /\ Due(w)' = 0 /\ Uncounted(w) = 0
             /\ Uncounted(w)' = IF w = v THEN 1 ELSE 0
  <2>1. ASSUME NEW j \in Jobs
        PROVE  j \in ActiveOf(w)' <=> j \in ActiveOf(w) \/ (j = i /\ w = v)
    <3>1. CASE j = i
      BY <1>4, <1>5, <3>1 DEF ActiveOf, Active
    <3>2. CASE j # i /\ j \in Active
      <4>1. job'[j] = job[j] /\ job[j].lease \in DOMAIN leases
        BY <1>1, <1>4, <3>2 DEF JobsInv, Active
      <4>2. QED
        BY <1>4, <3>2, <4>1 DEF ActiveOf, Active
    <3>3. CASE j # i /\ j \notin Active
      BY <1>4, <3>3 DEF ActiveOf, Active
    <3>4. QED
      BY <3>1, <3>2, <3>3
  <2>2. ActiveOf(w)' \subseteq Jobs /\ ActiveOf(w) \subseteq Jobs /\ i \notin ActiveOf(w)
    BY <1>5 DEF ActiveOf, Active
  <2>3. ActiveOf(w)' = IF w = v THEN ActiveOf(w) \cup {i} ELSE ActiveOf(w)
    BY <2>1, <2>2
  <2>4. Lowered = {} /\ Lowered' = {}
    BY <1>3, <1>4 DEF Lowered
  <2>5. QED
    BY <1>3, <1>4, <2>2, <2>3, <2>4 DEF Counted, Due, Uncounted
<1>7. ASSUME crashes' = 0, NEW w \in Workers
      PROVE  load'[w] + Uncounted(w)' <= Cardinality(Counted(w)') + Due(w)'
  <2>1. load[w] + Uncounted(w) <= Cardinality(Counted(w)) + Due(w) /\ load[w] \in Nat
    BY <1>1, <1>3, <1>7 DEF LoadInv, Counted, TypeOK
  <2>2. Cardinality(Counted(w) \cup {i}) = Cardinality(Counted(w)) + 1
    BY <1>6, CountedFinite, FS_AddElement
  <2>3. Cardinality(Counted(w)) \in Nat
    BY CountedFinite
  <2>4. QED
    BY <1>3, <1>6, <2>1, <2>2, <2>3
<1>8. QED
  BY <1>7 DEF LoadInv, Counted

LEMMA LoadCount ==
  ASSUME Tables, LoadInv, CountJob
  PROVE  LoadInv'
<1>1. TypeOK /\ HandlerInv
  BY DEF Tables
<1>2. ctl \in Counting /\ ctl.pc = "load"
  BY <1>1, CtlByPc DEF CountJob, TypeOK
<1>3. PICK v \in Workers : v = ctl.worker
  BY <1>2 DEF Counting
<1>4. /\ load' = Loaded(v, load[v] + 1) /\ ctl' = Idle /\ ctl'.pc = "idle"
      /\ UNCHANGED <<job, leases, crashes>>
  BY <1>3 DEF CountJob, Idle, faults
<1>5. ASSUME NEW w \in Workers
      PROVE  /\ Counted(w)' = Counted(w)
             /\ Due(w) = 0 /\ Due(w)' = 0 /\ Uncounted(w)' = 0
             /\ Uncounted(w) = IF w = v THEN 1 ELSE 0
             /\ load'[w] = IF w = v THEN load[w] + 1 ELSE load[w]
  <2>1. ActiveOf(w)' = ActiveOf(w) /\ Lowered' = Lowered
    BY <1>2, <1>4 DEF ActiveOf, Active, Lowered
  <2>2. load'[w] = IF w = v THEN load[w] + 1 ELSE load[w]
    BY <1>1, <1>4 DEF Loaded, TypeOK
  <2>3. QED
    BY <1>2, <1>3, <1>4, <2>1, <2>2 DEF Counted, Due, Uncounted
<1>6. ASSUME crashes' = 0, NEW w \in Workers
      PROVE  load'[w] + Uncounted(w)' <= Cardinality(Counted(w)') + Due(w)'
  <2>1. load[w] + Uncounted(w) <= Cardinality(Counted(w)) + Due(w) /\ load[w] \in Nat
    BY <1>1, <1>4, <1>6 DEF LoadInv, Counted, TypeOK
  <2>2. Cardinality(Counted(w)) \in Nat
    BY CountedFinite
  <2>3. QED
    BY <1>5, <2>1, <2>2
<1>7. QED
  BY <1>6 DEF LoadInv, Counted

(* The job is completed or failed: its worker is due to be unloaded.       *)
LEMMA LoadClose ==
  ASSUME Tables, LoadInv, CompleteJob \/ FailJob
  PROVE  LoadInv'
<1> DEFINE i == CurrentJob
           v == CurrentWorker
<1>1. TypeOK /\ JobsInv /\ HandlerInv
  BY DEF Tables
<1>2. ctl.pc \in {"complete", "fail"} /\ UNCHANGED <<leases, load, crashes>>
      /\ \E label \in {"unload", "unloadfailed"} : Goto(label)
  BY DEF CompleteJob, FailJob, faults
<1>3. ctl.pc \in Steps /\ ctl.pc \in Handling
  BY <1>2 DEF Steps, Handling, Closing
<1>4. ctl'.pc \in {"unload", "unloadfailed"} /\ ctl'.rcpt = ctl.rcpt
  BY <1>1, <1>2, <1>3, CurrentTyped, GoesOn DEF Steps
<1>5. \E s \in {"completed", "failed"} : Becomes(i, s)
  BY <1>1, StatusEffect
<1>6. i \in Active /\ job[i].lease = ctl.rcpt.lease /\ leases[job[i].lease].worker = v
  BY <1>1, <1>3, <1>5 DEF Becomes, HandlerInv, Held, CurrentJob, CurrentWorker, Active
<1>7. v \in Workers /\ v' = v /\ i \in Jobs
  BY <1>1, <1>2, <1>3, <1>4, CurrentTyped DEF CurrentWorker
<1>8. \A j \in Jobs :
        IF j \in {i} THEN j \notin Active'
        ELSE (j \in Active' <=> j \in Active) /\ (j \in Active => job'[j].lease = job[j].lease)
  BY <1>5, <1>6 DEF Becomes, Active
<1>9. ASSUME NEW w \in Workers
      PROVE  /\ Counted(w)' = Counted(w) \ {i}
             /\ i \in Counted(w) <=> w = v
             /\ Due(w) = 0 /\ Uncounted(w) = 0 /\ Uncounted(w)' = 0
             /\ Due(w)' = IF w = v THEN 1 ELSE 0
  <2> HIDE DEF i
  <2>1. ActiveOf(w)' = ActiveOf(w) \ {i}
    BY <1>1, <1>2, <1>8, ActiveLeft
  <2>2. i \in ActiveOf(w) <=> w = v
    BY <1>6, <1>7 DEF ActiveOf
  <2>3. Lowered = {} /\ Lowered' = {}
    BY <1>2, <1>4 DEF Lowered
  <2>4. Due(w)' = IF w = v THEN 1 ELSE 0
    BY <1>4, <1>7 DEF Due
  <2>5. QED
    BY <1>2, <1>4, <2>1, <2>2, <2>3, <2>4 DEF Counted, Due, Uncounted
<1> HIDE DEF i, v
<1>10. ASSUME crashes' = 0, NEW w \in Workers
       PROVE  load'[w] + Uncounted(w)' <= Cardinality(Counted(w)') + Due(w)'
  <2>1. load[w] + Uncounted(w) <= Cardinality(Counted(w)) + Due(w) /\ load[w] \in Nat
          /\ load'[w] = load[w]
    BY <1>1, <1>2, <1>10 DEF LoadInv, Counted, TypeOK
  <2>2. Cardinality(Counted(w)) \in Nat
    BY CountedFinite
  <2>3. CASE w = v
    <3>1. i \in Counted(w) /\ Counted(w)' = Counted(w) \ {i}
      BY <1>9, <2>3
    <3>2. Cardinality(Counted(w)') = Cardinality(Counted(w)) - 1
      BY <3>1, CountedFinite, FS_RemoveElement
    <3>3. QED
      BY <1>9, <2>1, <2>2, <2>3, <3>2
  <2>4. CASE w # v
    <3>1. Counted(w)' = Counted(w)
      BY <1>9, <2>4
    <3>2. QED
      BY <1>9, <2>1, <2>4, <3>1
  <2>5. QED
    BY <2>3, <2>4
<1>11. QED
  BY <1>10 DEF LoadInv, Counted

LEMMA LoadUnload ==
  ASSUME Tables, LoadInv, UnloadWorker
  PROVE  LoadInv'
<1> DEFINE v == CurrentWorker
<1>1. TypeOK /\ JobsInv /\ HandlerInv
  BY DEF Tables
<1>2. /\ ctl.pc \in {"unload", "unloadfailed"} /\ load' = Unloaded(v)
      /\ UNCHANGED <<job, leases, crashes>> /\ (ctl' = Idle \/ Goto("refund"))
  BY DEF UnloadWorker, Answer, faults
<1>3. ctl.pc \in Steps
  BY <1>2 DEF Steps
<1>4. ctl'.pc \in {"idle", "refund"}
  BY <1>1, <1>2, <1>3, CurrentTyped, GoesOn, IdleIsHandler DEF Steps
<1>5. v \in Workers
  BY <1>1, <1>3, CurrentTyped
<1>6. ASSUME NEW w \in Workers
      PROVE  /\ Counted(w)' = Counted(w)
             /\ Due(w) = (IF w = v THEN 1 ELSE 0) /\ Uncounted(w) = 0 /\ Uncounted(w)' = 0
                  /\ Due(w)' = 0
             /\ load'[w] = IF w = v /\ load[w] > 0 THEN load[w] - 1 ELSE load[w]
  <2>1. ActiveOf(w)' = ActiveOf(w) /\ Lowered' = Lowered
    BY <1>2, <1>4 DEF ActiveOf, Active, Lowered
  <2>2. load[v] \in Nat /\ load[w] \in Nat
    BY <1>1, <1>5 DEF TypeOK
  <2> HIDE DEF v
  <2>3. load'[w] = IF w = v /\ load[w] > 0 THEN load[w] - 1 ELSE load[w]
    BY <1>1, <1>2, <2>2 DEF Unloaded, Loaded, TypeOK
  <2>4. Due(w) = (IF w = v THEN 1 ELSE 0) /\ Uncounted(w) = 0 /\ Uncounted(w)' = 0 /\ Due(w)' = 0
    BY <1>2, <1>4 DEF Due, Uncounted, v
  <2>5. QED
    BY <2>1, <2>3, <2>4 DEF Counted
<1> HIDE DEF v
<1>7. ASSUME crashes' = 0, NEW w \in Workers
      PROVE  load'[w] + Uncounted(w)' <= Cardinality(Counted(w)') + Due(w)'
  <2>1. load[w] + Uncounted(w) <= Cardinality(Counted(w)) + Due(w) /\ load[w] \in Nat
    BY <1>1, <1>2, <1>7 DEF LoadInv, Counted, TypeOK
  <2>2. Cardinality(Counted(w)) \in Nat
    BY CountedFinite
  <2>3. QED
    BY <1>6, <2>1, <2>2
<1>8. QED
  BY <1>7 DEF LoadInv, Counted

LEMMA LoadRegister ==
  ASSUME Tables, LoadInv, NEW v \in Workers, Register(v)
  PROVE  LoadInv'
<1>1. load' = Loaded(v, 0) /\ UNCHANGED <<job, leases, ctl, crashes>>
  BY DEF Register, faults
<1>2. ASSUME NEW w \in Workers
      PROVE  /\ Counted(w)' = Counted(w) /\ Due(w)' = Due(w) /\ Uncounted(w)' = Uncounted(w)
             /\ load'[w] = IF w = v THEN 0 ELSE load[w]
             /\ Due(w) \in Nat /\ ctl.pc = "idle" /\ Uncounted(w) = 0
  BY <1>1, IdleIsHandler
     DEF Counted, ActiveOf, Active, Lowered, Due, Uncounted, CurrentWorker, Loaded, Register,
     Tables, TypeOK
<1>3. \A w \in Workers : Cardinality(Counted(w)) \in Nat
  BY CountedFinite
<1>4. QED
  BY <1>1, <1>2, <1>3 DEF LoadInv, Counted


LEMMA LoadStep == Tables /\ LoadInv /\ [Next]_vars => LoadInv'
<1> SUFFICES ASSUME Tables, LoadInv, [Next]_vars PROVE LoadInv'
  OBVIOUS
<1>1. TypeOK /\ JobsInv /\ HandlerInv
  BY DEF Tables
<1>2. CASE UNCHANGED <<load, leases, job>> /\ (crashes' = 0 => crashes = 0)
           /\ (ctl' = ctl \/ (NoCount(ctl) /\ NoCount(ctl')))
  BY <1>2, LoadUnmoved DEF Unmoved, Active
<1>3. NoCount(Idle)
  BY DEF NoCount, Idle
<1>4. ASSUME NEW o, o.pc \in Handling \cup {"refund", "refunding"} PROVE NoCount(o)
  BY <1>4 DEF NoCount, Handling, Paying, Closing
<1>5. CASE CliInsert
  <2>1. UNCHANGED <<load, leases, ctl, crashes>>
    BY <1>1, <1>5, InsertEffect DEF faults
  <2>2. \A j \in Jobs : (j \in Active' <=> j \in Active)
          /\ (j \in Active => job'[j].lease = job[j].lease)
    BY <1>1, <1>5, InsertEffect DEF Active
  <2>3. QED
    BY <2>1, <2>2, LoadUnmoved DEF Unmoved
<1>6. CASE CliDeposit \/ CliEscrow \/ CliCrash
  <2>1. UNCHANGED <<load, leases, job, ctl>>
    BY <1>1, <1>6, CliSubmits DEF jobVars
  <2>2. crashes' = 0 => crashes = 0
    BY <1>1, <1>6 DEF CliDeposit, CliEscrow, CliCrash, faults, TypeOK
  <2>3. QED
    BY <1>2, <2>1, <2>2
<1>7. CASE RunJob
  <2>1. /\ ctl.pc = "run" /\ Becomes(CurrentJob, "running")
        /\ UNCHANGED <<leases, load, crashes>> /\ ctl \in Receiving
        /\ \E label \in {"settle", "fail"} : Goto(label)
    BY <1>1, <1>7, RunEffect, StatusEffect DEF faults
  <2>2. ctl'.pc \in Handling /\ ctl.pc \in Handling
    BY <2>1, GoesOn DEF Steps, Handling, Paying
  <2>3. NoCount(ctl) /\ NoCount(ctl')
    BY <1>4, <2>2
  <2>4. \A j \in Jobs : (j \in Active' <=> j \in Active)
          /\ (j \in Active => job'[j].lease = job[j].lease)
    BY <2>1 DEF Becomes, Active
  <2>5. QED
    BY <2>1, <2>3, <2>4, LoadUnmoved DEF Unmoved
<1>8. CASE SettleJob
  <2>1. /\ ctl.pc \in {"settle", "settling"} /\ UNCHANGED <<job, leases, load, crashes>>
        /\ Answers \/ Continues("settling") \/ Continues("payout")
    BY <1>1, <1>8, SettleOutside DEF jobVars, faults
  <2>2. {"settle", "settling", "payout"} \subseteq Handling
    BY DEF Handling, Paying
  <2>3. NoCount(ctl) /\ NoCount(ctl')
    BY <1>3, <1>4, <2>1, <2>2 DEF Answers, Continues
  <2>4. QED
    BY <1>2, <2>1, <2>3
<1>9. CASE RefundJob
  <2>1. /\ ctl.pc \in {"refund", "refunding"} /\ UNCHANGED <<job, leases, load, crashes>>
        /\ Answers \/ Continues("refunding")
    BY <1>1, <1>9, RefundOutside DEF jobVars, faults
  <2>2. NoCount(ctl) /\ NoCount(ctl')
    BY <1>3, <1>4, <2>1 DEF Answers, Continues
  <2>3. QED
    BY <1>2, <2>1, <2>2
<1>10. CASE InsertPayout \/ RecordPaid
  <2>1. ctl.pc \in {"payout", "paid"} /\ UNCHANGED <<job, leases, load, crashes>>
        /\ \E label \in {"paid", "complete"} : Goto(label)
    BY <1>10 DEF InsertPayout, RecordPaid, jobVars, faults
  <2>2. {"payout", "paid", "complete"} \subseteq Handling /\ Handling \subseteq Steps
    BY DEF Steps, Handling, Paying, Closing
  <2>3. ctl'.pc \in Handling /\ ctl.pc \in Handling
    BY <1>1, <2>1, <2>2, CurrentTyped, GoesOn
  <2>4. QED
    BY <1>2, <1>4, <2>1, <2>3
<1>11. CASE NoJob
  <2>1. ctl.pc = "route" /\ ctl' = Idle /\ UNCHANGED <<job, leases, load, crashes>>
    BY <1>11 DEF NoJob, jobVars, faults
  <2>2. QED
    BY <1>2, <1>3, <2>1 DEF NoCount
<1>12. CASE Crash
  BY <1>1, <1>12, CrashEffect DEF LoadInv
<1>13. ASSUME NEW w \in Workers, Restart(w) PROVE LoadInv'
  BY <1>2, <1>13 DEF Restart, jobVars
<1>14. ASSUME NEW l \in Leases, Lapse(l) PROVE LoadInv'
  BY <1>2, <1>14 DEF Lapse, faults
<1>15. ASSUME NEW l \in Leases, NEW v \in Verdicts, NEW qi \in Figures, SendReceipt(l, v, qi)
       PROVE  LoadInv'
  BY <1>2, <1>15 DEF SendReceipt, jobVars, faults
<1>16. ASSUME NEW next, ctl = Idle, Expire(next), UNCHANGED <<job, leases, load, crashes>>
       PROVE  LoadInv'
  <2>1. NoCount(ctl) /\ NoCount(ctl')
    BY <1>3, <1>16 DEF NoCount, Expire
  <2>2. QED
    BY <1>2, <1>16, <2>1
<1>17. ASSUME NEW w \in Workers, NextJob(w) PROVE LoadInv'
  BY <1>16, <1>17 DEF NextJob, jobVars, faults
<1>18. ASSUME NEW r \in sent, LateReceipt(r) PROVE LoadInv'
  BY <1>16, <1>18 DEF LateReceipt, jobVars, faults
<1>19. ASSUME NEW r \in sent, RejectReceipt(r) \/ StoreReceipt(r) PROVE LoadInv'
  <2>1. ctl = Idle /\ (ctl' = Idle \/ ctl'.pc = "run") /\ UNCHANGED <<job, leases, load, crashes>>
    BY <1>19 DEF RejectReceipt, StoreReceipt, Answer, jobVars, faults
  <2>2. NoCount(ctl) /\ NoCount(ctl')
    BY <1>3, <2>1 DEF NoCount
  <2>3. QED
    BY <1>2, <2>1, <2>2
<1>20. CASE UNCHANGED vars
  BY <1>2, <1>20 DEF vars, jobVars, faults
<1>21. CASE Next
  BY <1>5, <1>6, <1>7, <1>8, <1>9, <1>10, <1>11, <1>12, <1>13, <1>14, <1>15, <1>17, <1>18, <1>19,
     <1>21, NextCases, LoadExpireRow, LoadExpireEnd, LoadLease, LoadCount, LoadClose, LoadUnload,
     LoadRegister
<1>22. QED
  BY <1>20, <1>21

(* Between handlers no worker's load counts a job that it does not have,   *)
(* however its leases ran out, its receipts came late or twice and its     *)
(* registrations reset it, as long as no process stops: the load is        *)
(* lowered once for every row that leaves the active ones and raised once  *)
(* for every lease, in separate commits.                                   *)
THEOREM LoadsAreBacked == Spec => []NoPhantomLoad
<1>1. Init => LoadInv
  <2> SUFFICES ASSUME Init PROVE LoadInv
    OBVIOUS
  <2>1. \A w \in Workers : load[w] = 0 /\ Uncounted(w) = 0 /\ Due(w) = 0
    BY DEF Init, Idle, Uncounted, Due
  <2>2. \A w \in Workers : Cardinality(Counted(w)) \in Nat
    BY CountedFinite
  <2>3. QED
    BY <2>1, <2>2 DEF LoadInv, Counted
<1>2. Tables /\ LoadInv => NoPhantomLoad
  <2> SUFFICES ASSUME Tables, LoadInv, ctl = Idle, crashes = 0, NEW w \in Workers
               PROVE  load[w] <= Cardinality(ActiveOf(w))
    BY DEF NoPhantomLoad
  <2>1. Uncounted(w) = 0 /\ Due(w) = 0 /\ Lowered = {} /\ ActiveOf(w) \ {} = ActiveOf(w)
    BY DEF Uncounted, Due, Lowered, Idle
  <2>2. Cardinality(ActiveOf(w)) \in Nat
    BY CountedFinite
  <2>3. load[w] + 0 <= Cardinality(ActiveOf(w)) + 0
    BY <2>1 DEF LoadInv
  <2>4. load[w] \in Nat
    BY DEF Tables, TypeOK
  <2>5. QED
    BY <2>2, <2>3, <2>4
<1>3. QED
  BY <1>1, <1>2, LoadStep, TablesAlways, PTL DEF Spec

----
\* The ledger

Processes == {"controller", "cli"}

IsCalls(o) == o = [p \in Processes |-> o[p]]

LEMMA StopsCall ==
  ASSUME NEW p \in Processes, IsCalls(op), op' = [op EXCEPT ![p] = Ledger!Idle],
         UNCHANGED <<account, escrow, payable, treasury, deposited, paidOut, unbacked>>
  PROVE  LP!Next \/ UNCHANGED LP!vars
<1>1. CASE op[p] = Ledger!Idle
  <2>1. op' = op
    BY <1>1 DEF IsCalls
  <2>2. QED
    BY <2>1 DEF LP!vars
<1>2. CASE op[p] # Ledger!Idle
  <2>1. LP!Crash(p)
    BY <1>2 DEF LP!Crash, LP!Idle, Ledger!Idle, Processes
  <2>2. QED
    BY <2>1 DEF LP!Next, Processes
<1>3. QED
  BY <1>1, <1>2

LEMMA CallsStayCalls ==
  ASSUME IsCalls(op), LP!Next \/ UNCHANGED LP!vars
  PROVE  IsCalls(op)'
<1> USE DEF IsCalls
<1>1. CASE UNCHANGED LP!vars
  BY <1>1 DEF LP!vars
<1>2. ASSUME NEW c \in {Customer}, NEW a \in Figures \cup {Price}, LP!Deposit(c, a)
      PROVE  IsCalls(op)'
  BY <1>2 DEF LP!Deposit
<1>3. ASSUME NEW p \in Processes, LP!Begin(p) PROVE IsCalls(op)'
  BY <1>3 DEF LP!Begin, LP!BeginEscrow, LP!BeginSettle, LP!BeginRefund
<1>4. ASSUME NEW p \in Processes, LP!Step(p) PROVE IsCalls(op)'
  BY <1>4 DEF LP!Step, LP!CommitEscrow, LP!CheckSettle, LP!CommitSettle, LP!CreditUnescrowed,
              LP!RecordSettlement, LP!CheckRefund, LP!CommitFunds, LP!MarkRefund, LP!RecordRefund
<1>5. ASSUME NEW p \in Processes, LP!Crash(p) PROVE IsCalls(op)'
  BY <1>5 DEF LP!Crash
<1>6. QED
  BY <1>1, <1>2, <1>3, <1>4, <1>5 DEF LP!Next, Processes

(* The calls of the ledger that a step makes.                              *)
LEMMA CliLedger ==
  ASSUME Tables, IsCalls(op), CliDeposit \/ CliEscrow \/ CliCrash
  PROVE  LP!Next \/ UNCHANGED LP!vars
<1>1. CASE CliDeposit
  <2>1. LP!Deposit(Customer, Price)
    BY <1>1 DEF CliDeposit, Ledger!Deposit, LP!Deposit, Ledger!Book, LP!Book
  <2>2. QED
    BY <2>1 DEF LP!Next
<1>2. CASE CliEscrow
  <2>1. cli.pc # "idle" => cli.job \in Jobs
    BY ClusterAssumption DEF Tables, TypeOK, Jobs
  <2>2. CASE cli.pc = "escrow" /\ Ledger!BeginEscrow("cli", cli.job, Price)
    <3>1. LP!BeginEscrow("cli", cli.job, Price)
      BY <2>2 DEF Ledger!BeginEscrow, LP!BeginEscrow, Ledger!Idle, LP!Idle, Ledger!Tol, LP!Tol
    <3>2. LP!Begin("cli")
      BY <2>1, <2>2, <3>1 DEF LP!Begin
    <3>3. QED
      BY <3>2 DEF LP!Next
  <2>3. CASE Ledger!CommitEscrow("cli")
    <3>1. LP!CommitEscrow("cli")
      BY <2>3 DEF Ledger!CommitEscrow, LP!CommitEscrow, Ledger!Idle, LP!Idle, Ledger!Book, LP!Book,
                  Ledger!NoRow, LP!NoRow
    <3>2. QED
      BY <3>1 DEF LP!Next, LP!Step
  <2>4. QED
    BY <1>2, <2>2, <2>3 DEF CliEscrow
<1>3. CASE CliCrash
  BY <1>3, StopsCall DEF CliCrash, Processes
<1>4. QED
  BY <1>1, <1>2, <1>3

LEMMA SettleLedger ==
  ASSUME Tables, SettleJob
  PROVE  LP!Next
<1>1. \/ ctl.pc = "settle" /\ Ledger!BeginSettle("controller", CurrentJob, CurrentWorker,
             ctl.rcpt.qi)
      \/ Ledger!CheckSettle("controller") \/ Ledger!CommitSettle("controller")
      \/ Ledger!CreditUnescrowed("controller") \/ Ledger!RecordSettlement("controller")
  BY DEF SettleJob
<1>2. CASE ctl.pc = "settle" /\ Ledger!BeginSettle("controller", CurrentJob, CurrentWorker,
               ctl.rcpt.qi)
  <2>1. CurrentJob \in Jobs /\ CurrentWorker \in Workers /\ ctl.rcpt.qi \in Figures
    BY <1>2, CurrentTyped DEF Tables, Steps, Handling, Paying, Receipt
  <2>2. LP!BeginSettle("controller", CurrentJob, CurrentWorker, ctl.rcpt.qi)
    BY <1>2 DEF Ledger!BeginSettle, LP!BeginSettle, Ledger!Idle, LP!Idle, Ledger!Lesser, LP!Lesser
  <2>3. LP!Begin("controller")
    BY <2>1, <2>2 DEF LP!Begin
  <2>4. QED
    BY <2>3 DEF LP!Next
<1>3. CASE \/ Ledger!CheckSettle("controller") \/ Ledger!CommitSettle("controller")
           \/ Ledger!CreditUnescrowed("controller") \/ Ledger!RecordSettlement("controller")
  <2>1. Ledger!CheckSettle("controller") => LP!CheckSettle("controller")
    BY DEF Ledger!CheckSettle, LP!CheckSettle, Ledger!Idle, LP!Idle, Ledger!Tol, LP!Tol
  <2>2. Ledger!CommitSettle("controller") => LP!CommitSettle("controller")
    BY DEF Ledger!CommitSettle, LP!CommitSettle, Ledger!Fee, LP!Fee, Ledger!Book, LP!Book
  <2>3. Ledger!CreditUnescrowed("controller") => LP!CreditUnescrowed("controller")
    BY DEF Ledger!CreditUnescrowed, LP!CreditUnescrowed
  <2>4. Ledger!RecordSettlement("controller") => LP!RecordSettlement("controller")
    BY DEF Ledger!RecordSettlement, LP!RecordSettlement, Ledger!Idle, LP!Idle
  <2>5. LP!Step("controller")
    BY <1>3, <2>1, <2>2, <2>3, <2>4 DEF LP!Step
  <2>6. QED
    BY <2>5 DEF LP!Next
<1>4. QED
  BY <1>1, <1>2, <1>3

LEMMA RefundLedger ==
  ASSUME Tables, RefundJob
  PROVE  LP!Next \/ UNCHANGED LP!vars
<1>1. \/ UNCHANGED ledgerVars
      \/ ctl.pc = "refund" /\ Ledger!BeginRefund("controller", CurrentJob, FALSE)
      \/ Ledger!CheckRefund("controller") \/ Ledger!CommitFunds("controller")
      \/ Ledger!MarkRefund("controller") \/ Ledger!RecordRefund("controller")
  BY DEF RefundJob
<1>2. CASE UNCHANGED ledgerVars
  BY <1>2 DEF ledgerVars, LP!vars
<1>3. CASE ctl.pc = "refund" /\ Ledger!BeginRefund("controller", CurrentJob, FALSE)
  <2>1. CurrentJob \in Jobs
    BY <1>3, CurrentTyped DEF Tables, Steps
  <2>2. LP!BeginRefund("controller", CurrentJob, FALSE)
    BY <1>3 DEF Ledger!BeginRefund, LP!BeginRefund, Ledger!Idle, LP!Idle
  <2>3. LP!Begin("controller")
    BY <2>1, <2>2 DEF LP!Begin
  <2>4. QED
    BY <2>3 DEF LP!Next
<1>4. CASE \/ Ledger!CheckRefund("controller") \/ Ledger!CommitFunds("controller")
           \/ Ledger!MarkRefund("controller") \/ Ledger!RecordRefund("controller")
  <2>1. Ledger!CheckRefund("controller") => LP!CheckRefund("controller")
    BY DEF Ledger!CheckRefund, LP!CheckRefund, Ledger!Idle, LP!Idle, Ledger!Tol, LP!Tol
  <2>2. Ledger!CommitFunds("controller") => LP!CommitFunds("controller")
    BY DEF Ledger!CommitFunds, LP!CommitFunds, Ledger!Book, LP!Book
  <2>3. Ledger!MarkRefund("controller") => LP!MarkRefund("controller")
    BY DEF Ledger!MarkRefund, LP!MarkRefund
  <2>4. Ledger!RecordRefund("controller") => LP!RecordRefund("controller")
    BY DEF Ledger!RecordRefund, LP!RecordRefund, Ledger!Idle, LP!Idle
  <2>5. LP!Step("controller")
    BY <1>4, <2>1, <2>2, <2>3, <2>4 DEF LP!Step
  <2>6. QED
    BY <2>5 DEF LP!Next
<1>5. QED
  BY <1>1, <1>2, <1>3, <1>4

LEMMA LedgerStep == Tables /\ IsCalls(op) /\ [Next]_vars => LP!Next \/ UNCHANGED LP!vars
<1> SUFFICES ASSUME Tables, IsCalls(op), [Next]_vars PROVE LP!Next \/ UNCHANGED LP!vars
  OBVIOUS
<1>1. CASE UNCHANGED ledgerVars
  BY <1>1 DEF ledgerVars, LP!vars
<1>2. CASE Crash
  BY <1>2, StopsCall DEF Crash, Processes
<1>3. CASE \/ CliInsert \/ ExpireEnd \/ NoJob \/ CountJob \/ RunJob \/ InsertPayout \/ RecordPaid
           \/ CompleteJob \/ FailJob \/ UnloadWorker
  <2>1. UNCHANGED ledgerVars
    BY <1>3 DEF CliInsert, ExpireEnd, NoJob, CountJob, RunJob, InsertPayout, RecordPaid,
       CompleteJob,
                FailJob, UnloadWorker
  <2>2. QED
    BY <1>1, <2>1
<1>4. ASSUME NEW j \in Jobs, ExpireRow(j) \/ Lease(j) PROVE UNCHANGED ledgerVars
  BY <1>4 DEF ExpireRow, Lease
<1>5. ASSUME NEW w \in Workers, Register(w) \/ NextJob(w) \/ Restart(w) PROVE UNCHANGED ledgerVars
  BY <1>5 DEF Register, NextJob, Restart
<1>6. ASSUME NEW l \in Leases, Lapse(l) \/ \E v \in Verdicts, qi \in Figures : SendReceipt(l, v, qi)
      PROVE  UNCHANGED ledgerVars
  BY <1>6 DEF Lapse, SendReceipt
<1>7. ASSUME NEW r \in sent, RejectReceipt(r) \/ LateReceipt(r) \/ StoreReceipt(r)
      PROVE  UNCHANGED ledgerVars
  BY <1>7 DEF RejectReceipt, LateReceipt, StoreReceipt
<1>8. CASE UNCHANGED vars
  BY <1>1, <1>8 DEF vars
<1>9. CASE Next
  BY <1>1, <1>2, <1>3, <1>4, <1>5, <1>6, <1>7, <1>9, NextCases, CliLedger, SettleLedger,
     RefundLedger
<1>10. QED
  BY <1>8, <1>9

(* The controller and the command line, each of which may stop at any      *)
(* commit, use the tables of the escrow ledger as its processes do: every  *)
(* step of the cluster is a step of the ledger, or none.  So what holds of *)
(* the ledger, whichever processes use it, holds in the cluster.           *)
THEOREM UsesLedger == Spec => LP!Spec
<1>1. Init => LP!Init /\ IsCalls(op)
  BY DEF Init, Ledger!Init, LP!Init, Ledger!NoRow, LP!NoRow, Ledger!Idle, LP!Idle, IsCalls,
     Processes
<1>2. Tables /\ IsCalls(op) /\ [Next]_vars => IsCalls(op)' /\ [LP!Next]_LP!vars
  BY LedgerStep, CallsStayCalls
<1>3. QED
  BY <1>1, <1>2, TablesAlways, PTL DEF Spec, LP!Spec

----
\* Calls of the ledger in progress

LedgerOK == LP!TypeOK /\ LP!CallsMatchRows

Now == op["controller"]

(* The command line's call is the escrow of the job it has inserted; the   *)
(* controller's are those of the handler it is in, for the job of its      *)
(* receipt, whose escrow is still open.  Nobody else closes it meanwhile.  *)
CallsInv ==
  /\ op["cli"] # LP!Idle => op["cli"].stage = "escrow" /\ cli.pc = "commit"
       /\ op["cli"].job = cli.job
  /\ ctl.pc = "settling" => Now.stage \in {"settle", "settling", "credit", "settled"}
  /\ ctl.pc = "refunding" =>
       Now.stage \in {"refund", "refunding", "marking", "refunded"} /\ ~Now.disputed
  /\ ctl.pc \notin {"settling", "refunding"} => Now = LP!Idle
  /\ Now.stage \in {"settle", "settling", "credit", "refund", "refunding", "marking"}
       => Now.job = CurrentJob
  /\ Now.stage \in {"settle", "settling", "refund", "refunding", "marking"} =>
       escrow[Now.job].status = "escrowed"
  /\ \A j \in Jobs : escrow[j].status # "disputed"
  /\ LP!PaidOncePerJob

LEMMA LedgerAssumed == LP!LedgerAssumption
  BY ClusterAssumption DEF LP!LedgerAssumption, Jobs

LEMMA LedgerAlways == Spec => []LedgerOK
<1>1. LP!LedgerAssumption
  BY LedgerAssumed
<1>2. LP!Spec => []LP!TypeOK
  BY <1>1, LP!TypeCorrect, PTL
<1>3. LP!Spec => []LP!CallsMatchRows
  BY <1>1, LP!CallsAlwaysMatchRows, PTL
<1>4. QED
  BY <1>2, <1>3, UsesLedger, PTL DEF LedgerOK

(* The row of the controller's call.                                       *)
LEMMA NowTyped ==
  ASSUME LedgerOK
  PROVE  /\ Now \in LP!Call
         /\ op \in [Processes -> LP!Call]
         /\ Now.stage \in {"settle", "settling", "refund", "refunding", "marking"}
              => Now.job \in Jobs
         /\ Now.stage \in {"settle", "settling"} => Now.qi \in Nat /\ Now.amount \in Nat
              /\ Now.worker \in Workers
<1>1. op \in [Processes -> LP!Call] /\ Now \in LP!Call
  BY DEF LedgerOK, LP!TypeOK, Processes, Now
<1>2. Now.stage \in {"settle", "settling"} => Now \in LP!SettleCall
  BY <1>1, LedgerAssumed, LP!CallByStage
<1>3. Now.stage \in {"refund", "refunding", "marking"} => Now \in LP!RefundCall
  BY <1>1, LedgerAssumed, LP!CallByStage
<1>4. QED
  BY <1>1, <1>2, <1>3 DEF LP!SettleCall, LP!RefundCall

(* Steps that use no ledger.                                               *)
LEMMA CallsQuiet ==
  ASSUME Tables, CallsInv, UNCHANGED <<escrow, op, paidOut>>,
         cli' = cli \/ op["cli"] = LP!Idle,
         \/ UNCHANGED <<ctl, leases>>
         \/ ctl.pc \notin {"settling", "refunding"} /\ ctl'.pc \notin {"settling", "refunding"}
  PROVE  CallsInv'
<1>1. Now' = Now /\ (Now = LP!Idle => Now.stage = "idle")
  BY DEF Now, LP!Idle
<1>2. UNCHANGED <<ctl, leases>> => CurrentJob' = CurrentJob
  BY DEF CurrentJob
<1>3. LP!PaidOncePerJob'
  BY DEF CallsInv, LP!PaidOncePerJob
<1>4. QED
  BY <1>1, <1>2, <1>3 DEF CallsInv

LEMMA CallsCli ==
  ASSUME Tables, LedgerOK, CallsInv, CliDeposit \/ CliInsert \/ CliEscrow \/ CliCrash
  PROVE  CallsInv'
<1>1. UNCHANGED <<ctl, leases>> /\ CurrentJob' = CurrentJob
  BY DEF CliDeposit, CliInsert, CliEscrow, CliCrash, jobVars, CurrentJob
<1>2. CASE CliDeposit \/ CliInsert
  <2>1. cli.pc # "commit" /\ UNCHANGED <<escrow, op, paidOut>>
    BY <1>2 DEF CliDeposit, CliInsert, Ledger!Deposit, ledgerVars
  <2>2. op["cli"] = LP!Idle
    BY <2>1 DEF CallsInv
  <2>3. QED
    BY <1>1, <2>1, <2>2, CallsQuiet
<1>3. ASSUME op' = [op EXCEPT !["cli"] = LP!Idle], UNCHANGED <<escrow, paidOut>> PROVE CallsInv'
  <2>1. op'["cli"] = LP!Idle /\ Now' = Now
    BY <1>3, NowTyped DEF Now, Processes
  <2>2. LP!PaidOncePerJob'
    BY <1>3 DEF CallsInv, LP!PaidOncePerJob
  <2>3. QED
    BY <1>1, <1>3, <2>1, <2>2 DEF CallsInv
<1>4. CASE CliCrash
  BY <1>3, <1>4 DEF CliCrash, LP!Idle, Ledger!Idle
<1>5. CASE cli.pc = "escrow" /\ CliEscrow
  <2>1. /\ op' = [op EXCEPT !["cli"] = [stage |-> "escrow", job |-> cli.job, amount |-> Price]]
        /\ UNCHANGED <<escrow, paidOut>> /\ cli' = [cli EXCEPT !.pc = "commit"]
    BY <1>5 DEF CliEscrow, Ledger!BeginEscrow
  <2>2. cli'.pc = "commit" /\ cli'.job = cli.job
    BY <2>1 DEF Tables, TypeOK
  <2>3. /\ op'["cli"] = [stage |-> "escrow", job |-> cli.job, amount |-> Price] /\ Now' = Now
    BY <2>1, NowTyped DEF Now, Processes
  <2>4. LP!PaidOncePerJob'
    BY <2>1 DEF CallsInv, LP!PaidOncePerJob
  <2>5. QED
    BY <1>1, <2>1, <2>2, <2>3, <2>4 DEF CallsInv
<1>6. CASE cli.pc = "commit" /\ CliEscrow
  <2> DEFINE i == op["cli"].job
             a == op["cli"].amount
  <2>1. /\ op["cli"].stage = "escrow" /\ op' = [op EXCEPT !["cli"] = LP!Idle]
        /\ escrow' = [escrow EXCEPT ![i] = [LP!NoRow EXCEPT !.amount = a, !.status = "escrowed"]]
        /\ UNCHANGED paidOut
    BY <1>6 DEF CliEscrow, Ledger!CommitEscrow, Ledger!Idle, LP!Idle, Ledger!NoRow, LP!NoRow
  <2>2. op'["cli"] = LP!Idle /\ Now' = Now
    BY <2>1, NowTyped DEF Now, Processes
  <2>3. i \in Jobs /\ escrow[i].status = "absent"
    <3>1. op["cli"] \in LP!EscrowCall
      BY <2>1, NowTyped, LedgerAssumed, LP!CallByStage DEF Processes
    <3>2. QED
      BY <2>1, <3>1 DEF LP!EscrowCall, LedgerOK, LP!CallsMatchRows
  <2>4. escrow \in [Jobs -> LP!RowType]
    BY DEF LedgerOK, LP!TypeOK
  <2>5. escrow'[i].status = "escrowed" /\ \A j \in Jobs \ {i} : escrow'[j] = escrow[j]
    BY <2>1, <2>3, <2>4 DEF LP!NoRow
  <2> HIDE DEF i, a
  <2>6. \A j \in Jobs : escrow'[j].status # "disputed"
    BY <2>5 DEF CallsInv
  <2>7. LP!PaidOncePerJob'
    BY <2>1, <2>3, <2>5 DEF CallsInv, LP!PaidOncePerJob
  <2>8. Now.stage \in {"settle", "settling", "refund", "refunding", "marking"} =>
          escrow'[Now.job].status = "escrowed"
    BY <2>3, <2>5, NowTyped DEF CallsInv
  <2>9. QED
    BY <1>1, <2>2, <2>6, <2>7, <2>8 DEF CallsInv
<1>7. QED
  BY <1>2, <1>4, <1>5, <1>6 DEF CliEscrow


(* The controller's call goes on to o, or ends, and its handler with it.   *)
LEMMA CallsOn ==
  ASSUME Tables, LedgerOK, CallsInv, NEW o, op' = [op EXCEPT !["controller"] = o],
         UNCHANGED <<cli, leases>>, ctl'.pc \notin {"settling", "refunding"} => o = LP!Idle,
         ctl'.rcpt = ctl.rcpt \/ o = LP!Idle,
         ctl'.pc = "settling" => o.stage \in {"settle", "settling", "credit", "settled"},
         ctl'.pc = "refunding" =>
           o.stage \in {"refund", "refunding", "marking", "refunded"} /\ ~o.disputed,
         o.stage \in {"settle", "settling", "credit", "refund", "refunding", "marking"} =>
           o.job = CurrentJob,
         o.stage \in {"settle", "settling", "refund", "refunding", "marking"} =>
           escrow'[o.job].status = "escrowed",
         \A j \in Jobs : escrow'[j].status # "disputed",
         LP!PaidOncePerJob'
  PROVE  CallsInv'
<1>1. Now' = o /\ op'["cli"] = op["cli"]
  BY NowTyped DEF Now, Processes
<1>2. o # LP!Idle => CurrentJob' = CurrentJob
  BY DEF CurrentJob
<1>3. o.stage \in {"settle", "settling", "credit", "refund", "refunding", "marking"} => o # LP!Idle
  BY DEF LP!Idle
<1>4. QED
  BY <1>1, <1>2, <1>3 DEF CallsInv

LEMMA CallsSettle ==
  ASSUME Tables, LedgerOK, CallsInv, SettleJob
  PROVE  CallsInv'
<1>1. UNCHANGED <<cli, leases>>
  BY DEF SettleJob, jobVars
<1>2. ctl \in Receiving /\ ctl.pc \in {"settle", "settling"}
  BY SettleOutside DEF Tables
<1>3. escrow \in [Jobs -> LP!RowType] /\ paidOut \in [Jobs -> Nat]
  BY DEF LedgerOK, LP!TypeOK
<1>4. ASSUME UNCHANGED <<escrow, paidOut>>
      PROVE  LP!PaidOncePerJob' /\ \A j \in Jobs : escrow'[j].status # "disputed"
  BY <1>4 DEF CallsInv, LP!PaidOncePerJob
<1>5. Idle.pc = "idle" /\ {"settling", "payout"} \subseteq Steps
  BY DEF Idle, Steps, Handling, Paying
<1>6. CASE ctl.pc = "settle"
  <2>1. Ledger!BeginSettle("controller", CurrentJob, CurrentWorker, ctl.rcpt.qi) /\ Goto("settling")
    BY <1>6 DEF SettleJob
  <2>2. ctl'.pc = "settling" /\ ctl'.rcpt = ctl.rcpt
    BY <1>2, <1>5, <2>1, GoesOn
  <2>3. PICK o : /\ op' = [op EXCEPT !["controller"] = o]
                 /\ \/ o.stage \in {"credit", "settle"} /\ o.job = CurrentJob
                    \/ o.stage = "settled"
                 /\ o.stage = "settle" => escrow[CurrentJob].status = "escrowed"
    <3> DEFINE j == CurrentJob
               credit == [stage |-> "credit", job |-> j, worker |-> CurrentWorker,
                   qi |-> ctl.rcpt.qi]
               settled == [stage |-> "settled", qi |-> escrow[j].settled, fee |-> escrow[j].fee,
                           payout |-> escrow[j].payout]
               settle == [stage |-> "settle", job |-> j, worker |-> CurrentWorker,
                          amount |-> escrow[j].amount,
                          qi |-> Ledger!Lesser(ctl.rcpt.qi, escrow[j].amount)]
    <3>1. \/ op' = [op EXCEPT !["controller"] = credit]
          \/ op' = [op EXCEPT !["controller"] = settled]
          \/ op' = [op EXCEPT !["controller"] = settle] /\ escrow[j].status = "escrowed"
      BY <2>1 DEF Ledger!BeginSettle
    <3>2. /\ credit.stage = "credit" /\ credit.job = j /\ settled.stage = "settled"
          /\ settle.stage = "settle" /\ settle.job = j
      OBVIOUS
    <3> HIDE DEF credit, settled, settle
    <3>3. QED
      BY <3>1, <3>2
  <2>4. UNCHANGED <<escrow, paidOut>>
    BY <2>1 DEF Ledger!BeginSettle
  <2>5. QED
    BY <1>1, <1>4, <2>2, <2>3, <2>4, CallsOn
<1>7. CASE ctl.pc = "settling" /\ Ledger!CheckSettle("controller")
  <2>1. /\ Now.stage = "settle" /\ UNCHANGED <<escrow, paidOut>>
        /\ \/ op' = [op EXCEPT !["controller"] = LP!Idle]
           \/ op' = [op EXCEPT !["controller"] = [Now EXCEPT !.stage = "settling"]]
    BY <1>7 DEF Ledger!CheckSettle, Ledger!Idle, LP!Idle, Now
  <2>2. Now \in LP!SettleCall
    BY <2>1, NowTyped, LedgerAssumed, LP!CallByStage
  <2>3. IF op'["controller"] = Ledger!Idle THEN ctl' = Idle ELSE UNCHANGED ctl
    BY <1>2, <1>7, <2>1 DEF SettleJob, Answer, Ledger!CommitSettle, Ledger!CreditUnescrowed,
       Ledger!RecordSettlement, Now
  <2>4. CASE op' = [op EXCEPT !["controller"] = LP!Idle]
    <3>1. op'["controller"] = Ledger!Idle
      BY <2>4, NowTyped DEF Processes, Ledger!Idle, LP!Idle
    <3>2. LP!Idle.stage = "idle"
      BY DEF LP!Idle
    <3>3. QED
      BY <1>1, <1>4, <1>5, <2>1, <2>3, <2>4, <3>1, <3>2, CallsOn
  <2>5. CASE op' = [op EXCEPT !["controller"] = [Now EXCEPT !.stage = "settling"]]
    <3> DEFINE o == [Now EXCEPT !.stage = "settling"]
    <3>1. o.stage = "settling" /\ o.job = Now.job
      BY <2>2 DEF LP!SettleCall
    <3>2. op'["controller"] = o
      BY <2>5, NowTyped DEF Processes
    <3>3. ctl' = ctl
      BY <2>3, <3>1, <3>2 DEF Ledger!Idle
    <3> HIDE DEF o
    <3>4. o.job = CurrentJob /\ escrow[o.job].status = "escrowed"
      BY <2>1, <3>1 DEF CallsInv
    <3>5. op' = [op EXCEPT !["controller"] = o]
      BY <2>5 DEF o
    <3>6. QED
      BY <1>1, <1>4, <1>7, <2>1, <3>1, <3>3, <3>4, <3>5, CallsOn
  <2>6. QED
    BY <2>1, <2>4, <2>5
<1>8. CASE ctl.pc = "settling" /\ Ledger!CommitSettle("controller")
  <2> DEFINE i == Now.job
             f == LP!Fee(Now.qi)
             o == [stage |-> "settled", qi |-> Now.qi, fee |-> f, payout |-> Now.qi - f]
  <2>1. /\ Now.stage = "settling" /\ op' = [op EXCEPT !["controller"] = o]
        /\ escrow' = [escrow EXCEPT ![i] =
                        [@ EXCEPT !.settled = Now.qi, !.fee = f, !.payout = Now.qi - f,
                                  !.refunded = Now.amount - Now.qi, !.status = "settled"]]
        /\ paidOut' = [paidOut EXCEPT ![i] = @ + (Now.qi - f)]
    BY <1>8 DEF Ledger!CommitSettle, Now, Ledger!Fee, LP!Fee
  <2>2. ctl' = ctl
    BY <1>8, <2>1 DEF SettleJob, Ledger!CheckSettle, Ledger!RecordSettlement, Now
  <2>3. i \in Jobs /\ Now.qi \in Nat /\ escrow[i].status = "escrowed"
    BY <2>1, NowTyped DEF CallsInv
  <2>4. f \in Nat
    BY <2>3, LedgerAssumed, LP!FeeBounds
  <2> HIDE DEF f
  <2>5. /\ escrow'[i].status = "settled" /\ escrow'[i].payout = Now.qi - f
        /\ \A j \in Jobs \ {i} : escrow'[j] = escrow[j]
    BY <1>3, <2>1, <2>3 DEF LP!RowType
  <2>6. paidOut[i] = 0
    BY <2>3 DEF CallsInv, LP!PaidOncePerJob
  <2>7. paidOut'[i] = Now.qi - f /\ \A j \in Jobs \ {i} : paidOut'[j] = paidOut[j]
    BY <1>3, <2>1, <2>3, <2>4, <2>6
  <2> HIDE DEF i
  <2>8. LP!PaidOncePerJob'
    BY <2>3, <2>5, <2>7 DEF CallsInv, LP!PaidOncePerJob
  <2>9. \A j \in Jobs : escrow'[j].status # "disputed"
    BY <2>5 DEF CallsInv
  <2>10. o.stage = "settled"
    OBVIOUS
  <2> HIDE DEF o
  <2>11. QED
    BY <1>1, <1>8, <2>1, <2>2, <2>8, <2>9, <2>10, CallsOn
<1>9. CASE ctl.pc = "settling" /\ Ledger!CreditUnescrowed("controller")
  <2>1. PICK o : o.stage = "settled" /\ op' = [op EXCEPT !["controller"] = o]
    BY <1>9 DEF Ledger!CreditUnescrowed
  <2>2. UNCHANGED <<escrow, paidOut>> /\ Now.stage = "credit"
    BY <1>9 DEF Ledger!CreditUnescrowed, Now
  <2>3. ctl' = ctl
    BY <1>9, <2>2 DEF SettleJob, Ledger!CheckSettle, Ledger!RecordSettlement, Now
  <2>4. QED
    BY <1>1, <1>4, <1>9, <2>1, <2>2, <2>3, CallsOn
<1>10. CASE ctl.pc = "settling" /\ Ledger!RecordSettlement("controller")
  <2>1. /\ op' = [op EXCEPT !["controller"] = LP!Idle] /\ UNCHANGED <<escrow, paidOut>>
        /\ Now.stage = "settled"
    BY <1>10 DEF Ledger!RecordSettlement, Ledger!Idle, LP!Idle, Now
  <2>2. Goto("payout")
    BY <1>10, <2>1 DEF SettleJob, Ledger!CheckSettle, Ledger!CommitSettle, Ledger!CreditUnescrowed,
       Now
  <2>3. ctl'.pc = "payout"
    BY <1>2, <1>5, <2>2, GoesOn
  <2>4. LP!Idle.stage = "idle"
    BY DEF LP!Idle
  <2>5. QED
    BY <1>1, <1>4, <2>1, <2>3, <2>4, CallsOn
<1>11. QED
  BY <1>6, <1>7, <1>8, <1>9, <1>10 DEF SettleJob


LEMMA CallsRefund ==
  ASSUME Tables, LedgerOK, CallsInv, RefundJob
  PROVE  CallsInv'
<1>1. UNCHANGED <<cli, leases>>
  BY DEF RefundJob, jobVars
<1>2. ctl \in Receiving /\ ctl.pc \in {"refund", "refunding"}
  BY RefundOutside DEF Tables
<1>3. escrow \in [Jobs -> LP!RowType] /\ paidOut \in [Jobs -> Nat]
  BY DEF LedgerOK, LP!TypeOK
<1>4. ASSUME UNCHANGED <<escrow, paidOut>>
      PROVE  LP!PaidOncePerJob' /\ \A j \in Jobs : escrow'[j].status # "disputed"
  BY <1>4 DEF CallsInv, LP!PaidOncePerJob
<1>5. Idle.pc = "idle" /\ "refunding" \in Steps /\ LP!Idle.stage = "idle"
  BY DEF Idle, Steps, LP!Idle
<1>6. CASE ctl.pc = "refund" /\ UNCHANGED ledgerVars /\ ctl' = Idle
  <2>1. UNCHANGED <<escrow, op, paidOut>>
    BY <1>6 DEF ledgerVars
  <2>2. QED
    BY <1>1, <1>5, <1>6, <2>1, CallsQuiet
<1>7. CASE ctl.pc = "refund" /\ Ledger!BeginRefund("controller", CurrentJob, FALSE)
             /\ Goto("refunding")
  <2> DEFINE j == CurrentJob
             refunded == [stage |-> "refunded", amount |-> escrow[j].refunded, disputed |-> FALSE]
             refund == [stage |-> "refund", job |-> j, amount |-> escrow[j].amount,
                 disputed |-> FALSE]
  <2>1. j \in Jobs
    BY <1>7, CurrentTyped DEF Tables, Steps
  <2>2. \/ op' = [op EXCEPT !["controller"] = refunded]
        \/ op' = [op EXCEPT !["controller"] = refund] /\ escrow[j].status = "escrowed"
    BY <1>7, <2>1 DEF Ledger!BeginRefund, CallsInv
  <2>3. ctl'.pc = "refunding" /\ ctl'.rcpt = ctl.rcpt /\ UNCHANGED <<escrow, paidOut>>
    BY <1>2, <1>5, <1>7, GoesOn DEF Ledger!BeginRefund
  <2>4. /\ refunded.stage = "refunded" /\ ~refunded.disputed
        /\ refund.stage = "refund" /\ refund.job = j /\ ~refund.disputed
    OBVIOUS
  <2> HIDE DEF refunded, refund
  <2>5. QED
    BY <1>1, <1>4, <2>2, <2>3, <2>4, CallsOn
<1>8. ASSUME ctl.pc = "refunding", UNCHANGED ctl, NEW label \in {"refunding", "marking"},
             Now.stage \in {"refund", "refunding"}, UNCHANGED <<escrow, paidOut>>,
             op' = [op EXCEPT !["controller"] = [Now EXCEPT !.stage = label]]
      PROVE  CallsInv'
  <2> DEFINE o == [Now EXCEPT !.stage = label]
  <2>1. Now \in LP!RefundCall
    BY <1>8, NowTyped, LedgerAssumed, LP!CallByStage
  <2>2. o.stage = label /\ o.job = Now.job /\ o.disputed = Now.disputed
    BY <2>1 DEF LP!RefundCall
  <2>3. op' = [op EXCEPT !["controller"] = o]
    BY <1>8
  <2> HIDE DEF o
  <2>4. o.job = CurrentJob /\ escrow[o.job].status = "escrowed" /\ ~o.disputed
    BY <1>8, <2>2 DEF CallsInv
  <2>5. QED
    BY <1>1, <1>4, <1>8, <2>2, <2>3, <2>4, CallsOn
<1>9. CASE ctl.pc = "refunding" /\ Ledger!CheckRefund("controller")
  <2>1. /\ Now.stage = "refund" /\ UNCHANGED <<escrow, paidOut>>
        /\ \/ op' = [op EXCEPT !["controller"] = LP!Idle]
           \/ op' = [op EXCEPT !["controller"] = [Now EXCEPT !.stage = "refunding"]]
    BY <1>9 DEF Ledger!CheckRefund, Ledger!Idle, LP!Idle, Now
  <2>2. IF op'["controller"] = Ledger!Idle THEN ctl' = Idle ELSE UNCHANGED ctl
    BY <1>9 DEF RefundJob, Answer
  <2>3. CASE op' = [op EXCEPT !["controller"] = LP!Idle]
    <3>1. op'["controller"] = Ledger!Idle
      BY <2>3, NowTyped DEF Processes, Ledger!Idle, LP!Idle
    <3>2. QED
      BY <1>1, <1>4, <1>5, <2>1, <2>2, <2>3, <3>1, CallsOn
  <2>4. CASE op' = [op EXCEPT !["controller"] = [Now EXCEPT !.stage = "refunding"]]
    <3>1. Now \in LP!RefundCall
      BY <2>1, NowTyped, LedgerAssumed, LP!CallByStage
    <3>2. op'["controller"].stage = "refunding"
      BY <2>4, <3>1, NowTyped DEF Processes, LP!RefundCall
    <3>3. ctl' = ctl
      BY <2>2, <3>2 DEF Ledger!Idle
    <3>4. QED
      BY <1>8, <1>9, <2>1, <2>4, <3>3
  <2>5. QED
    BY <2>1, <2>3, <2>4
<1>10. CASE ctl.pc = "refunding" /\ Ledger!CommitFunds("controller")
  <2>1. /\ Now.stage = "refunding" /\ UNCHANGED <<escrow, paidOut>>
        /\ op' = [op EXCEPT !["controller"].stage = "marking"]
    BY <1>10 DEF Ledger!CommitFunds, Now
  <2>2. Now \in LP!RefundCall
    BY <2>1, NowTyped, LedgerAssumed, LP!CallByStage
  <2>3. op' = [op EXCEPT !["controller"] = [Now EXCEPT !.stage = "marking"]]
    BY <2>1 DEF Now
  <2>4. op'["controller"].stage = "marking"
    BY <2>2, <2>3, NowTyped DEF Processes, LP!RefundCall
  <2>5. ctl' = ctl
    BY <1>10, <2>4 DEF RefundJob, Ledger!Idle
  <2>6. QED
    BY <1>8, <1>10, <2>1, <2>3, <2>5
<1>11. CASE ctl.pc = "refunding" /\ Ledger!MarkRefund("controller")
  <2> DEFINE i == Now.job
             o == [stage |-> "refunded", amount |-> Now.amount, disputed |-> Now.disputed]
  <2>1. /\ Now.stage = "marking" /\ op' = [op EXCEPT !["controller"] = o] /\ UNCHANGED paidOut
        /\ escrow' = [escrow EXCEPT ![i] = [@ EXCEPT !.refunded = Now.amount,
                                                     !.status = IF Now.disputed THEN "disputed"
                                                         ELSE "refunded"]]
    BY <1>11 DEF Ledger!MarkRefund, Now
  <2>2. op'["controller"].stage = "refunded"
    BY <2>1, NowTyped DEF Processes
  <2>3. ctl' = ctl
    BY <1>11, <2>2 DEF RefundJob, Ledger!Idle
  <2>4. i \in Jobs /\ escrow[i].status = "escrowed" /\ ~Now.disputed
    BY <1>11, <2>1, NowTyped DEF CallsInv
  <2>5. escrow'[i].status = "refunded" /\ \A j \in Jobs \ {i} : escrow'[j] = escrow[j]
    BY <1>3, <2>1, <2>4 DEF LP!RowType
  <2>6. o.stage = "refunded" /\ ~o.disputed
    BY <2>4
  <2> HIDE DEF i, o
  <2>7. LP!PaidOncePerJob'
    BY <2>1, <2>4, <2>5 DEF CallsInv, LP!PaidOncePerJob
  <2>8. \A j \in Jobs : escrow'[j].status # "disputed"
    BY <2>5 DEF CallsInv
  <2>9. QED
    BY <1>1, <1>11, <2>1, <2>3, <2>6, <2>7, <2>8, CallsOn
<1>12. CASE ctl.pc = "refunding" /\ Ledger!RecordRefund("controller")
  <2>1. op' = [op EXCEPT !["controller"] = LP!Idle] /\ UNCHANGED <<escrow, paidOut>>
    BY <1>12 DEF Ledger!RecordRefund, Ledger!Idle, LP!Idle
  <2>2. op'["controller"] = Ledger!Idle
    BY <2>1, NowTyped DEF Processes, Ledger!Idle, LP!Idle
  <2>3. ctl' = Idle
    BY <1>12, <2>2 DEF RefundJob, Answer
  <2>4. QED
    BY <1>1, <1>4, <1>5, <2>1, <2>3, CallsOn
<1>13. QED
  BY <1>6, <1>7, <1>9, <1>10, <1>11, <1>12 DEF RefundJob, Answer

LEMMA CallsStep == Tables /\ LedgerOK /\ CallsInv /\ [Next]_vars => CallsInv'
<1> SUFFICES ASSUME Tables, LedgerOK, CallsInv, [Next]_vars PROVE CallsInv'
  OBVIOUS
<1>1. TypeOK /\ HandlerInv
  BY DEF Tables
<1>2. CASE UNCHANGED <<ledgerVars, cli, ctl, leases>>
  BY <1>2, CallsQuiet DEF ledgerVars
<1>3. CASE /\ UNCHANGED <<ledgerVars, cli>>
           /\ ctl.pc \notin {"settling", "refunding"} /\ ctl'.pc \notin {"settling", "refunding"}
  BY <1>3, CallsQuiet DEF ledgerVars
<1>4. CASE Crash
  <2>1. op' = [op EXCEPT !["controller"] = LP!Idle] /\ UNCHANGED <<escrow, paidOut, cli, leases>>
    BY <1>4 DEF Crash, jobVars, Ledger!Idle, LP!Idle
  <2>2. ctl'.pc = "idle" /\ LP!Idle.stage = "idle"
    BY <1>4 DEF Crash, Idle, LP!Idle
  <2>3. LP!PaidOncePerJob' /\ \A j \in Jobs : escrow'[j].status # "disputed"
    BY <2>1 DEF CallsInv, LP!PaidOncePerJob
  <2>4. QED
    BY <2>1, <2>2, <2>3, CallsOn
<1>5. CASE RunJob \/ InsertPayout \/ RecordPaid \/ CompleteJob \/ FailJob \/ UnloadWorker
  <2>1. UNCHANGED <<ledgerVars, cli>>
        /\ ctl.pc \in {"run", "payout", "paid", "complete", "fail", "unload", "unloadfailed"}
        /\ \/ ctl' = Idle
           \/ \E label \in {"settle", "fail", "paid", "complete", "unload", "unloadfailed",
                  "refund"} :
                Goto(label)
    BY <1>5 DEF RunJob, InsertPayout, RecordPaid, CompleteJob, FailJob, UnloadWorker, Answer
  <2>2. /\ {"settle", "fail", "paid", "complete", "unload", "unloadfailed", "refund"}
             \subseteq Steps
        /\ ctl.pc \in Steps
    BY <2>1 DEF Steps, Handling, Paying, Closing
  <2>3. ctl'.pc \notin {"settling", "refunding"}
    BY <1>1, <2>1, <2>2, CurrentTyped, GoesOn, IdleIsHandler
  <2>4. QED
    BY <1>3, <2>1, <2>3
<1>6. ASSUME NEW j \in Jobs, ExpireRow(j) \/ Lease(j) PROVE CallsInv'
  <2>1. ctl.pc \in {"expire", "route"} /\ UNCHANGED <<ledgerVars, cli>>
    BY <1>6 DEF ExpireRow, Lease
  <2>2. CASE ExpireRow(j)
    <3>1. ctl \in Expiring /\ ctl' = [ctl EXCEPT !.rows = @ \ {j}, !.pending = {j}]
      BY <1>1, <2>2, CtlByPc DEF ExpireRow, TypeOK
    <3>2. ctl.pc = "expire" /\ ctl'.pc = "expire"
      BY <3>1 DEF Expiring
    <3>3. QED
      BY <1>3, <2>1, <3>2
  <2>3. CASE Lease(j)
    <3>1. ctl'.pc = "load"
      BY <2>3 DEF Lease
    <3>2. QED
      BY <1>3, <2>1, <3>1
  <2>4. QED
    BY <1>6, <2>2, <2>3
<1>7. CASE ExpireEnd
  <2>1. ctl.pc = "expire" /\ ctl'.pc \in {"route", "refund"} /\ UNCHANGED <<ledgerVars, cli>>
    BY <1>1, <1>7, CtlByPc DEF ExpireEnd, TypeOK, Expiring, Routing, Refusing
  <2>2. QED
    BY <1>3, <2>1
<1>8. CASE NoJob \/ CountJob
  BY <1>3, <1>8, IdleIsHandler DEF NoJob, CountJob
<1>9. ASSUME NEW w \in Workers, Register(w) \/ NextJob(w) \/ Restart(w) PROVE CallsInv'
  <2>1. CASE Register(w) \/ Restart(w)
    BY <1>2, <2>1 DEF Register, Restart, jobVars
  <2>2. CASE NextJob(w)
    BY <1>3, <2>2, IdleIsHandler DEF NextJob, Expire
  <2>3. QED
    BY <1>9, <2>1, <2>2
<1>10. ASSUME NEW l \in Leases,
              Lapse(l) \/ \E v \in Verdicts, qi \in Figures : SendReceipt(l, v, qi)
       PROVE  CallsInv'
  BY <1>2, <1>10 DEF Lapse, SendReceipt, jobVars
<1>11. ASSUME NEW r \in sent, RejectReceipt(r) \/ LateReceipt(r) \/ StoreReceipt(r) PROVE CallsInv'
  BY <1>3, <1>11, IdleIsHandler DEF RejectReceipt, LateReceipt, StoreReceipt, Answer, Expire
<1>12. CASE UNCHANGED vars
  BY <1>2, <1>12 DEF vars, jobVars
<1>13. CASE Next
  BY <1>4, <1>5, <1>6, <1>7, <1>8, <1>9, <1>10, <1>11, <1>13, NextCases, CallsCli, CallsSettle,
     CallsRefund
<1>14. QED
  BY <1>12, <1>13

LEMMA CallsInitially == Init => CallsInv
<1> SUFFICES ASSUME Init PROVE CallsInv
  OBVIOUS
<1>1. ctl.pc = "idle" /\ cli.pc = "idle"
  BY DEF Init, Idle
<1>2. op["cli"] = LP!Idle /\ Now = LP!Idle /\ LP!Idle.stage = "idle"
  BY DEF Init, Ledger!Init, Ledger!Idle, LP!Idle, Now
<1>3. \A j \in Jobs : escrow[j].status = "absent" /\ paidOut[j] = 0
  BY DEF Init, Ledger!Init, Ledger!NoRow
<1>4. QED
  BY <1>1, <1>2, <1>3 DEF CallsInv, LP!PaidOncePerJob

LEMMA CallsAlways == Spec => []CallsInv
  BY CallsInitially, CallsStep, TablesAlways, LedgerAlways, PTL DEF Spec

(* "Duplicate receipts remain idempotent and do not double-pay"            *)
(* (legacy/README.md:387), for any number of jobs, workers and leases:     *)
(* wherever the controller, the command line and the workers stop, a       *)
(* receipt has at most one payout event and a job's escrow pays exactly    *)
(* what its row says; while neither process has stopped, no two leases of  *)
(* a job are paid for.                                                     *)
THEOREM PaidOnce == Spec => []OnePayout
<1>1. Tables /\ CallsInv => OnePayout
  <2> SUFFICES ASSUME Tables, CallsInv PROVE OnePayout
    OBVIOUS
  <2>1. NoDuplicatePayout
    BY DEF Tables, PayInv, NoDuplicatePayout
  <2>2. Ledger!PaidOncePerJob
    BY DEF CallsInv, Ledger!PaidOncePerJob, LP!PaidOncePerJob
  <2>3. ASSUME crashes = 0, NEW j \in Jobs PROVE Cardinality(PayoutsOf(j)) <= 1
    <3>1. DOMAIN leases = 1..Len(leases)
      BY DEF Tables, TypeOK
    <3>2. \A l, k \in PayoutsOf(j) : l = k
      BY <2>3, <3>1 DEF PayoutsOf, Tables, PaidInv
    <3>3. CASE PayoutsOf(j) = {}
      BY <3>3, FS_EmptySet
    <3>4. CASE PayoutsOf(j) # {}
      <4>1. PICK l : PayoutsOf(j) = {l}
        BY <3>2, <3>4
      <4>2. Cardinality({l}) = 1
        BY FS_Singleton
      <4>3. QED
        BY <4>1, <4>2
    <3>5. QED
      BY <3>3, <3>4
  <2>4. QED
    BY <2>1, <2>2, <2>3 DEF OnePayout
<1>2. QED
  BY <1>1, TablesAlways, CallsAlways, PTL

----
\* The records of a settled job, as long as no process stops

SettledNow == Now.stage = "settled"

(* The payout event, the paid record, the completed job and the escrow of  *)
(* a job follow each other through the handler of its receipt, and a job   *)
(* that is about to be refunded was not paid for.                          *)
Recorded ==
  /\ \A j \in Jobs :
       j \in paid <=> job[j].status = "completed" \/ (ctl.pc = "complete" /\ CurrentJob = j)
  /\ \A l \in DOMAIN leases : payouts[l] > 0 => escrow[leases[l].job].status # "refunded"
  /\ \A j \in paid : \E l \in DOMAIN leases : leases[l].job = j /\ payouts[l] > 0
  /\ ctl.pc \in Closing => payouts[ctl.rcpt.lease] > 0
  /\ \A j \in Jobs : escrow[j].status = "settled" =>
       j \in paid \/ ((SettledNow \/ ctl.pc \in {"payout", "paid"}) /\ CurrentJob = j)
  /\ ctl.pc \in {"unloadfailed", "refund", "refunding"} => CurrentJob \notin paid
  /\ ctl.pc = "expire" /\ ctl.next.pc = "refund" => leases[ctl.next.rcpt.lease].job \notin paid
  /\ ctl.pc \in Paying => escrow[CurrentJob].status # "refunded"
  /\ ctl.pc = "settling" /\ ~SettledNow => escrow[CurrentJob].status # "settled"

RecordInv == receipts \subseteq DOMAIN leases /\ (crashes = 0 => Recorded)

(* Nothing is being paid or recorded as paid.                              *)
Free(o) == o.pc \notin {"payout", "paid", "complete"}

(* What a step of the handler must have seen of the job it goes on with.   *)
Seen ==
  /\ ctl'.pc \in {"unloadfailed", "refund", "refunding"} => CurrentJob' \notin paid
  /\ ctl'.pc = "expire" /\ ctl'.next.pc = "refund" => leases'[ctl'.next.rcpt.lease].job \notin paid
  /\ ctl'.pc \in Paying => escrow'[CurrentJob'].status # "refunded"
  /\ ctl'.pc = "settling" => escrow'[CurrentJob'].status # "settled"

(* Steps that pay nobody, settle and refund no escrow and complete no job. *)
LEMMA RecordKept ==
  ASSUME Tables, CallsInv, RecordInv, UNCHANGED <<payouts, paid>>,
         receipts' \subseteq DOMAIN leases',
         DOMAIN leases \subseteq DOMAIN leases', \A l \in DOMAIN leases : leases'[l] = leases[l],
         \A l \in DOMAIN leases' \ DOMAIN leases : payouts[l] = 0,
         \A j \in Jobs : job'[j].status = "completed" <=> job[j].status = "completed",
         \A j \in Jobs : escrow'[j].status \in {"settled", "refunded"}
           <=> escrow[j].status \in {"settled", "refunded"},
         \A j \in Jobs : escrow[j].status \in {"settled", "refunded"} => escrow'[j] = escrow[j],
         crashes' = 0 => crashes = 0,
         \/ ctl' = ctl /\ (SettledNow' <=> SettledNow)
         \/ crashes' = 0 => ~SettledNow /\ ~SettledNow' /\ Free(ctl) /\ Free(ctl') /\ Seen
  PROVE  RecordInv'
<1>1. TypeOK /\ HandlerInv
  BY DEF Tables
<1>2. SUFFICES ASSUME crashes' = 0 PROVE Recorded'
  BY DEF RecordInv
<1>3. Recorded
  BY <1>2 DEF RecordInv
<1>4. ASSUME ctl' = ctl, ctl.pc \in Steps
      PROVE  CurrentJob' = CurrentJob /\ CurrentJob \in Jobs
  BY <1>1, <1>4, CurrentTyped DEF CurrentJob
<1>5. {"payout", "paid", "complete", "unloadfailed", "refund", "refunding", "settling"}
          \cup Closing \cup Paying
        \subseteq Steps
  BY DEF Steps, Handling, Closing, Paying
<1>6. SettledNow => ctl.pc = "settling"
  BY DEF CallsInv, SettledNow, LP!Idle
<1>7. \A j \in Jobs :
        j \in paid' <=> job'[j].status = "completed" \/ (ctl'.pc = "complete" /\ CurrentJob' = j)
  BY <1>2, <1>3, <1>4, <1>5 DEF Recorded, Free
<1>8. \A l \in DOMAIN leases' : payouts'[l] > 0 => escrow'[leases'[l].job].status # "refunded"
  <2>1. SUFFICES ASSUME NEW l \in DOMAIN leases', payouts'[l] > 0
                 PROVE  escrow'[leases'[l].job].status # "refunded"
    OBVIOUS
  <2>2. l \in DOMAIN leases /\ leases'[l].job = leases[l].job
    BY <2>1
  <2>3. leases[l].job \in Jobs /\ escrow[leases[l].job].status # "refunded"
    BY <1>1, <1>3, <2>1, <2>2, LeaseTyped DEF Recorded
  <2>4. QED
    BY <2>2, <2>3
<1>9. \A j \in paid' : \E l \in DOMAIN leases' : leases'[l].job = j /\ payouts'[l] > 0
  BY <1>3 DEF Recorded
<1>10. ctl'.pc \in Closing => payouts'[ctl'.rcpt.lease] > 0
  BY <1>2, <1>3 DEF Recorded, Free, Closing
<1>11. \A j \in Jobs : escrow'[j].status = "settled" =>
         j \in paid' \/ ((SettledNow' \/ ctl'.pc \in {"payout", "paid"}) /\ CurrentJob' = j)
  <2>1. SUFFICES ASSUME NEW j \in Jobs, escrow'[j].status = "settled", j \notin paid
                 PROVE  (SettledNow' \/ ctl'.pc \in {"payout", "paid"}) /\ CurrentJob' = j
    OBVIOUS
  <2>2. escrow[j].status = "settled"
    BY <2>1
  <2>3. (SettledNow \/ ctl.pc \in {"payout", "paid"}) /\ CurrentJob = j
    BY <1>3, <2>1, <2>2 DEF Recorded
  <2>4. ctl' = ctl /\ (SettledNow' <=> SettledNow)
    BY <1>2, <2>3 DEF Free
  <2>5. QED
    BY <1>4, <1>5, <1>6, <2>3, <2>4
<1>12. ctl'.pc \in {"unloadfailed", "refund", "refunding"} => CurrentJob' \notin paid'
  BY <1>2, <1>3, <1>4, <1>5 DEF Recorded, Seen
<1>13. ctl'.pc = "expire" /\ ctl'.next.pc = "refund"
         => leases'[ctl'.next.rcpt.lease].job \notin paid'
  BY <1>1, <1>2, <1>3 DEF Recorded, Seen, HandlerInv
<1>14. ctl'.pc \in Paying => escrow'[CurrentJob'].status # "refunded"
  BY <1>2, <1>3, <1>4, <1>5 DEF Recorded, Seen
<1>15. ctl'.pc = "settling" /\ ~SettledNow' => escrow'[CurrentJob'].status # "settled"
  BY <1>2, <1>3, <1>4, <1>5 DEF Recorded, Seen
<1>16. QED
  BY <1>7, <1>8, <1>9, <1>10, <1>11, <1>12, <1>13, <1>14, <1>15 DEF Recorded


(* The commits of a settlement, one by one.                                *)
SettleBegun ==
  /\ ctl.pc = "settle" /\ Continues("settling") /\ UNCHANGED <<escrow, treasury, account>>
  /\ Now.stage = "idle" /\ Now'.stage \in {"credit", "settle", "settled"}
  /\ Now'.stage = "settled" => escrow[CurrentJob].status = "settled"

SettleChecked ==
  /\ ctl.pc = "settling" /\ Now.stage = "settle" /\ UNCHANGED <<escrow, treasury, account>>
  /\ (ctl' = Idle /\ Now'.stage = "idle") \/ (ctl' = ctl /\ Now'.stage = "settling")

SettleCommitted ==
  /\ ctl.pc = "settling" /\ Now.stage = "settling" /\ ctl' = ctl /\ UNCHANGED treasury
  /\ CurrentJob \in Jobs
  /\ escrow[CurrentJob].status = "escrowed" /\ escrow[CurrentJob].amount = Now.amount
  /\ escrow'[CurrentJob].status = "settled" /\ Now'.stage = "settled"
  /\ escrow'[CurrentJob].fee = Now'.fee /\ Now'.fee \in Nat
  /\ \A j \in Jobs \ {CurrentJob} : escrow'[j] = escrow[j]
  /\ account'[Customer].escrowed = account[Customer].escrowed - Now.amount

SettleCredited ==
  /\ ctl.pc = "settling" /\ Now.stage = "credit" /\ ctl' = ctl
  /\ UNCHANGED <<escrow, treasury, account>>
  /\ Now'.stage = "settled" /\ Now'.fee = 0

SettleRecorded ==
  /\ ctl.pc = "settling" /\ Now.stage = "settled" /\ Continues("payout")
  /\ UNCHANGED <<escrow, account>> /\ treasury'.fees = treasury.fees + Now.fee
  /\ Now'.stage = "idle"

LEMMA SettleEffect ==
  ASSUME Tables, LedgerOK, CallsInv, SettleJob
  PROVE  SettleBegun \/ SettleChecked \/ SettleCommitted \/ SettleCredited \/ SettleRecorded
<1>1. ctl \in Receiving /\ ctl.pc \in {"settle", "settling"}
  BY SettleOutside DEF Tables
<1>2. escrow \in [Jobs -> LP!RowType] /\ account \in [{Customer} -> LP!AccountType]
        /\ treasury \in LP!TreasuryType
  BY DEF LedgerOK, LP!TypeOK
<1>3. ASSUME NEW o, op' = [op EXCEPT !["controller"] = o] PROVE Now' = o
  BY <1>3, NowTyped DEF Processes, Now
<1>4. LP!Idle.stage = "idle" /\ {"settling", "payout"} \subseteq Steps
  BY DEF LP!Idle, Steps, Handling, Paying
<1>5. CASE ctl.pc = "settle"
  <2>1. /\ Ledger!BeginSettle("controller", CurrentJob, CurrentWorker, ctl.rcpt.qi)
        /\ Goto("settling") /\ UNCHANGED busy
    BY <1>5 DEF SettleJob
  <2> DEFINE j == CurrentJob
             credit == [stage |-> "credit", job |-> j, worker |-> CurrentWorker, qi |-> ctl.rcpt.qi]
             settled == [stage |-> "settled", qi |-> escrow[j].settled, fee |-> escrow[j].fee,
                         payout |-> escrow[j].payout]
             settle == [stage |-> "settle", job |-> j, worker |-> CurrentWorker,
                        amount |-> escrow[j].amount,
                        qi |-> Ledger!Lesser(ctl.rcpt.qi, escrow[j].amount)]
  <2>2. /\ \/ op' = [op EXCEPT !["controller"] = credit]
           \/ op' = [op EXCEPT !["controller"] = settled] /\ escrow[j].status = "settled"
           \/ op' = [op EXCEPT !["controller"] = settle]
        /\ UNCHANGED <<escrow, treasury, account>>
    BY <2>1 DEF Ledger!BeginSettle
  <2>3. credit.stage = "credit" /\ settled.stage = "settled" /\ settle.stage = "settle"
    OBVIOUS
  <2> HIDE DEF credit, settled, settle
  <2>4. Now'.stage \in {"credit", "settle", "settled"}
          /\ (Now'.stage = "settled" => escrow[j].status = "settled")
    BY <1>3, <2>2, <2>3
  <2>5. Continues("settling")
    BY <1>1, <1>4, <2>1, GoesOn DEF Continues
  <2>6. Now.stage = "idle"
    BY <1>4, <1>5 DEF CallsInv
  <2>7. QED
    BY <1>5, <2>2, <2>4, <2>5, <2>6 DEF SettleBegun
<1>6. CASE ctl.pc = "settling" /\ Ledger!CheckSettle("controller")
  <2>1. /\ Now.stage = "settle" /\ UNCHANGED <<escrow, treasury, account>>
        /\ \/ op' = [op EXCEPT !["controller"] = LP!Idle]
           \/ op' = [op EXCEPT !["controller"] = [Now EXCEPT !.stage = "settling"]]
    BY <1>6 DEF Ledger!CheckSettle, Ledger!Idle, LP!Idle, Now
  <2>2. IF Now' = LP!Idle THEN ctl' = Idle ELSE UNCHANGED ctl
    BY <1>1, <1>6, <2>1
       DEF SettleJob, Answer, Ledger!CommitSettle, Ledger!CreditUnescrowed, Ledger!RecordSettlement,
           Now, Ledger!Idle, LP!Idle
  <2>3. Now' = LP!Idle \/ Now' = [Now EXCEPT !.stage = "settling"]
    BY <1>3, <2>1
  <2>4. [Now EXCEPT !.stage = "settling"].stage = "settling"
    BY <2>1, NowTyped, LedgerAssumed, LP!CallByStage DEF LP!SettleCall
  <2>5. QED
    BY <1>4, <1>6, <2>1, <2>2, <2>3, <2>4 DEF SettleChecked
<1>7. CASE ctl.pc = "settling" /\ Ledger!CommitSettle("controller")
  <2> DEFINE i == Now.job
             f == LP!Fee(Now.qi)
             o == [stage |-> "settled", qi |-> Now.qi, fee |-> f, payout |-> Now.qi - f]
  <2>1. /\ Now.stage = "settling" /\ op' = [op EXCEPT !["controller"] = o] /\ UNCHANGED treasury
        /\ escrow' = [escrow EXCEPT ![i] =
                        [@ EXCEPT !.settled = Now.qi, !.fee = f, !.payout = Now.qi - f,
                                  !.refunded = Now.amount - Now.qi, !.status = "settled"]]
    BY <1>7 DEF Ledger!CommitSettle, Now, Ledger!Fee, LP!Fee
  <2>2. ctl' = ctl
    BY <1>7, <2>1 DEF SettleJob, Ledger!CheckSettle, Ledger!RecordSettlement, Now
  <2>3. i \in Jobs /\ Now.qi \in Nat /\ Now.amount \in Nat /\ escrow[i].status = "escrowed"
          /\ i = CurrentJob
    BY <2>1, NowTyped DEF CallsInv
  <2>4. f \in Nat
    BY <2>3, LedgerAssumed, LP!FeeBounds
  <2>5. escrow[i].amount = Now.amount
    BY <2>1 DEF LedgerOK, LP!CallsMatchRows, Now
  <2> HIDE DEF f
  <2>6. /\ escrow'[i].status = "settled" /\ escrow'[i].fee = f
        /\ \A j \in Jobs \ {i} : escrow'[j] = escrow[j]
    BY <1>2, <2>1, <2>3 DEF LP!RowType
  <2>7. Now' = o
    BY <1>3, <2>1
  <2>8. account'[Customer].escrowed = account[Customer].escrowed - Now.amount
    <3>1. PICK a \in Int, r \in Int, n \in Int :
            account' = [account EXCEPT ![Customer] = LP!Book(@, a, -n, r, a)] /\ n = Now.amount
      <4>1. [k \in Jobs |-> Customer][i] = Customer
        BY <2>3
      <4>2. account' = [account EXCEPT ![Customer] =
                          LP!Book(@, Now.amount - Now.qi, -Now.amount, Now.qi, Now.amount - Now.qi)]
        BY <1>7, <4>1 DEF Ledger!CommitSettle, Now, Ledger!Book, LP!Book
      <4>3. PICK a \in Int, r \in Int, n \in Int : a = Now.amount - Now.qi /\ r = Now.qi
                   /\ n = Now.amount
        BY <2>3
      <4>4. account' = [account EXCEPT ![Customer] = LP!Book(@, a, -n, r, a)]
        BY <4>2, <4>3
      <4>5. QED
        BY <4>3, <4>4
    <3>2. account[Customer].escrowed \in Int
      BY <1>2 DEF LP!AccountType
    <3>3. account'[Customer] = LP!Book(account[Customer], a, -n, r, a)
      BY <1>2, <3>1
    <3>4. account'[Customer].escrowed = account[Customer].escrowed + (-n)
      BY <3>3 DEF LP!Book
    <3>5. QED
      BY <3>1, <3>2, <3>4
  <2>9. QED
    BY <1>7, <2>1, <2>2, <2>3, <2>4, <2>5, <2>6, <2>7, <2>8 DEF SettleCommitted
<1>8. CASE ctl.pc = "settling" /\ Ledger!CreditUnescrowed("controller")
  <2>1. PICK o : o.stage = "settled" /\ o.fee = 0 /\ op' = [op EXCEPT !["controller"] = o]
    BY <1>8 DEF Ledger!CreditUnescrowed
  <2>2. UNCHANGED <<escrow, treasury, account>> /\ Now.stage = "credit"
    BY <1>8 DEF Ledger!CreditUnescrowed, Now
  <2>3. ctl' = ctl
    BY <1>8, <2>2 DEF SettleJob, Ledger!CheckSettle, Ledger!RecordSettlement, Now
  <2>4. QED
    BY <1>3, <1>8, <2>1, <2>2, <2>3 DEF SettleCredited
<1>9. CASE ctl.pc = "settling" /\ Ledger!RecordSettlement("controller")
  <2>1. /\ op' = [op EXCEPT !["controller"] = LP!Idle] /\ UNCHANGED <<escrow, account>>
        /\ Now.stage = "settled"
    BY <1>9 DEF Ledger!RecordSettlement, Ledger!Idle, LP!Idle, Now
  <2>2. Goto("payout") /\ UNCHANGED busy
    BY <1>9, <2>1 DEF SettleJob, Ledger!CheckSettle, Ledger!CommitSettle, Ledger!CreditUnescrowed,
       Now
  <2>3. Continues("payout")
    BY <1>1, <1>4, <2>2, GoesOn DEF Continues
  <2>4. treasury'.fees = treasury.fees + Now.fee
    BY <1>2, <1>9 DEF Ledger!RecordSettlement, Now, LP!TreasuryType
  <2>5. QED
    BY <1>3, <1>4, <1>9, <2>1, <2>3, <2>4 DEF SettleRecorded
<1>10. QED
  BY <1>5, <1>6, <1>7, <1>8, <1>9 DEF SettleJob


(* The commits of a refund, one by one.                                    *)
RefundAbsent == ctl.pc = "refund" /\ ctl' = Idle /\ UNCHANGED ledgerVars /\ Now.stage = "idle"

RefundBegun ==
  /\ ctl.pc = "refund" /\ Continues("refunding") /\ UNCHANGED <<escrow, treasury, account>>
  /\ Now.stage = "idle" /\ Now'.stage \in {"refund", "refunded"}

RefundChecked ==
  /\ ctl.pc = "refunding" /\ Now.stage = "refund" /\ UNCHANGED <<escrow, treasury, account>>
  /\ (ctl' = Idle /\ Now'.stage = "idle") \/ (ctl' = ctl /\ Now'.stage = "refunding")

RefundMoved ==
  /\ ctl.pc = "refunding" /\ Now.stage = "refunding" /\ ctl' = ctl /\ UNCHANGED <<escrow, treasury>>
  /\ CurrentJob \in Jobs /\ Now.job = CurrentJob
  /\ escrow[CurrentJob].status = "escrowed" /\ escrow[CurrentJob].amount = Now.amount
  /\ Now'.stage = "marking" /\ Now'.job = CurrentJob
  /\ account'[Customer].escrowed = account[Customer].escrowed - Now.amount

RefundMarked ==
  /\ ctl.pc = "refunding" /\ Now.stage = "marking" /\ ctl' = ctl /\ UNCHANGED <<treasury, account>>
  /\ CurrentJob \in Jobs /\ Now.job = CurrentJob
  /\ escrow[CurrentJob].status = "escrowed"
  /\ escrow'[CurrentJob].status = "refunded" /\ Now'.stage = "refunded"
  /\ \A j \in Jobs \ {CurrentJob} : escrow'[j] = escrow[j]

RefundRecorded ==
  /\ ctl.pc = "refunding" /\ Now.stage = "refunded" /\ ctl' = Idle
  /\ UNCHANGED <<escrow, account>> /\ treasury'.fees = treasury.fees /\ Now'.stage = "idle"

LEMMA RefundEffect ==
  ASSUME Tables, LedgerOK, CallsInv, RefundJob
  PROVE  \/ RefundAbsent \/ RefundBegun \/ RefundChecked
         \/ RefundMoved \/ RefundMarked \/ RefundRecorded
<1>1. ctl \in Receiving /\ ctl.pc \in {"refund", "refunding"}
  BY RefundOutside DEF Tables
<1>2. escrow \in [Jobs -> LP!RowType] /\ account \in [{Customer} -> LP!AccountType]
        /\ treasury \in LP!TreasuryType
  BY DEF LedgerOK, LP!TypeOK
<1>3. ASSUME NEW o, op' = [op EXCEPT !["controller"] = o] PROVE Now' = o
  BY <1>3, NowTyped DEF Processes, Now
<1>4. LP!Idle.stage = "idle" /\ "refunding" \in Steps /\ LP!Idle = Ledger!Idle
  BY DEF LP!Idle, Ledger!Idle, Steps
<1>5. CASE ctl.pc = "refund"
  <2>1. Now.stage = "idle"
    BY <1>4, <1>5 DEF CallsInv
  <2>2. CASE ctl' = Idle /\ UNCHANGED ledgerVars
    BY <1>5, <2>1, <2>2 DEF RefundAbsent
  <2>3. CASE Ledger!BeginRefund("controller", CurrentJob, FALSE) /\ Goto("refunding")
               /\ UNCHANGED busy
    <3> DEFINE j == CurrentJob
               refunded == [stage |-> "refunded", amount |-> escrow[j].refunded, disputed |-> FALSE]
               refund == [stage |-> "refund", job |-> j, amount |-> escrow[j].amount,
                   disputed |-> FALSE]
    <3>1. /\ \/ op' = [op EXCEPT !["controller"] = refunded]
             \/ op' = [op EXCEPT !["controller"] = refund]
          /\ UNCHANGED <<escrow, treasury, account>>
      BY <2>3 DEF Ledger!BeginRefund
    <3>2. refunded.stage = "refunded" /\ refund.stage = "refund"
      OBVIOUS
    <3> HIDE DEF refunded, refund
    <3>3. Continues("refunding")
      BY <1>1, <1>4, <2>3, GoesOn DEF Continues
    <3>4. QED
      BY <1>3, <1>5, <2>1, <3>1, <3>2, <3>3 DEF RefundBegun
  <2>4. QED
    BY <1>5, <2>2, <2>3 DEF RefundJob, Answer
<1>6. CASE ctl.pc = "refunding"
  <2>1. IF Now' = LP!Idle THEN ctl' = Idle ELSE UNCHANGED ctl
    BY <1>4, <1>6 DEF RefundJob, Answer, Now
  <2>2. Now.stage \in {"refund", "refunding", "marking"} => Now \in LP!RefundCall
          /\ Now.job \in Jobs /\ Now.job = CurrentJob
    BY NowTyped, LedgerAssumed, LP!CallByStage DEF CallsInv
  <2>3. CASE Ledger!CheckRefund("controller")
    <3>1. /\ Now.stage = "refund" /\ UNCHANGED <<escrow, treasury, account>>
          /\ \/ op' = [op EXCEPT !["controller"] = LP!Idle]
             \/ op' = [op EXCEPT !["controller"] = [Now EXCEPT !.stage = "refunding"]]
      BY <2>3 DEF Ledger!CheckRefund, Ledger!Idle, LP!Idle, Now
    <3>2. Now' = LP!Idle \/ Now' = [Now EXCEPT !.stage = "refunding"]
      BY <1>3, <3>1
    <3>3. [Now EXCEPT !.stage = "refunding"].stage = "refunding"
      BY <2>2, <3>1 DEF LP!RefundCall
    <3>4. QED
      BY <1>4, <1>6, <2>1, <3>1, <3>2, <3>3 DEF RefundChecked
  <2>4. CASE Ledger!CommitFunds("controller")
    <3>1. /\ Now.stage = "refunding" /\ UNCHANGED <<escrow, treasury>>
          /\ op' = [op EXCEPT !["controller"].stage = "marking"]
      BY <2>4 DEF Ledger!CommitFunds, Now
    <3>2. op' = [op EXCEPT !["controller"] = [Now EXCEPT !.stage = "marking"]]
      BY <3>1 DEF Now
    <3>3. Now' = [Now EXCEPT !.stage = "marking"]
      BY <1>3, <3>2
    <3>4. Now'.stage = "marking" /\ Now'.job = Now.job /\ Now.amount \in Nat
      BY <2>2, <3>1, <3>3 DEF LP!RefundCall
    <3>5. escrow[CurrentJob].status = "escrowed" /\ escrow[CurrentJob].amount = Now.amount
      BY <2>2, <3>1 DEF CallsInv, LedgerOK, LP!CallsMatchRows, Now
    <3>6. account'[Customer].escrowed = account[Customer].escrowed - Now.amount
      <4>1. [k \in Jobs |-> Customer][Now.job] = Customer
        BY <2>2, <3>1
      <4>2. PICK n \in Int : n = Now.amount
        BY <3>4
      <4>3. account' = [account EXCEPT ![Customer] = LP!Book(@, n, -n, 0, n)]
        BY <2>4, <4>1, <4>2 DEF Ledger!CommitFunds, Now, Ledger!Book, LP!Book
      <4>4. account[Customer].escrowed \in Int
        BY <1>2 DEF LP!AccountType
      <4>5. account'[Customer] = LP!Book(account[Customer], n, -n, 0, n)
        BY <1>2, <4>3
      <4>6. account'[Customer].escrowed = account[Customer].escrowed + (-n)
        BY <4>5 DEF LP!Book
      <4>7. QED
        BY <4>2, <4>4, <4>6
    <3>7. ctl' = ctl
      BY <1>4, <2>1, <3>4
    <3>8. QED
      BY <1>6, <2>2, <3>1, <3>4, <3>5, <3>6, <3>7 DEF RefundMoved
  <2>5. CASE Ledger!MarkRefund("controller")
    <3> DEFINE i == Now.job
               o == [stage |-> "refunded", amount |-> Now.amount, disputed |-> Now.disputed]
    <3>1. /\ Now.stage = "marking" /\ op' = [op EXCEPT !["controller"] = o]
               /\ UNCHANGED <<treasury, account>>
          /\ escrow' = [escrow EXCEPT ![i] = [@ EXCEPT !.refunded = Now.amount,
                                                       !.status = IF Now.disputed THEN "disputed"
                                                           ELSE "refunded"]]
      BY <2>5 DEF Ledger!MarkRefund, Now
    <3>2. Now' = o
      BY <1>3, <3>1
    <3>3. ctl' = ctl
      BY <1>4, <2>1, <3>2
    <3>4. i \in Jobs /\ i = CurrentJob /\ escrow[i].status = "escrowed" /\ ~Now.disputed
      BY <1>6, <2>2, <3>1 DEF CallsInv
    <3>5. escrow'[i].status = "refunded" /\ \A j \in Jobs \ {i} : escrow'[j] = escrow[j]
      BY <1>2, <3>1, <3>4 DEF LP!RowType
    <3>6. QED
      BY <1>6, <3>1, <3>2, <3>3, <3>4, <3>5 DEF RefundMarked
  <2>6. CASE Ledger!RecordRefund("controller")
    <3>1. op' = [op EXCEPT !["controller"] = LP!Idle] /\ UNCHANGED <<escrow, account>>
          /\ Now.stage = "refunded"
      BY <2>6 DEF Ledger!RecordRefund, Ledger!Idle, LP!Idle, Now
    <3>2. treasury'.fees = treasury.fees
      BY <1>2, <2>6 DEF Ledger!RecordRefund, LP!TreasuryType
    <3>3. QED
      BY <1>3, <1>4, <1>6, <2>1, <3>1, <3>2 DEF RefundRecorded
  <2>7. QED
    BY <1>6, <2>3, <2>4, <2>5, <2>6 DEF RefundJob
<1>7. QED
  BY <1>1, <1>5, <1>6


(* Steps that go on with the same receipt and leave the leases alone.      *)
SameReceipt ==
  /\ ctl.pc \in Steps /\ ctl'.rcpt = ctl.rcpt /\ UNCHANGED <<leases, receipts, crashes>>
  /\ CurrentJob \in Jobs /\ ctl.rcpt.lease \in DOMAIN leases

LEMMA SameJob ==
  ASSUME SameReceipt
  PROVE  CurrentJob' = CurrentJob
  BY DEF SameReceipt, CurrentJob

LEMMA ReceiptStays ==
  ASSUME Tables, ctl.pc \in Steps, ctl'.rcpt = ctl.rcpt, UNCHANGED <<leases, receipts, crashes>>
  PROVE  SameReceipt
  BY CurrentTyped DEF SameReceipt, Tables

LEMMA OnlySettling ==
  ASSUME CallsInv
  PROVE  SettledNow => ctl.pc = "settling"
  BY DEF CallsInv, SettledNow, LP!Idle

LEMMA RecordCommitted ==
  ASSUME Tables, CallsInv, Recorded, SettleCommitted, SameReceipt, UNCHANGED <<job, payouts, paid>>
  PROVE  Recorded'
<1> DEFINE c == CurrentJob
<1>1. /\ ctl.pc = "settling" /\ ctl' = ctl /\ CurrentJob' = c /\ SettledNow' /\ ~SettledNow
      /\ escrow'[c].status = "settled" /\ \A j \in Jobs \ {c} : escrow'[j] = escrow[j]
  BY SameJob DEF SettleCommitted, SettledNow
<1>2. \A j \in Jobs :
        j \in paid' <=> job'[j].status = "completed" \/ (ctl'.pc = "complete" /\ CurrentJob' = j)
  BY <1>1 DEF Recorded
<1>3. \A l \in DOMAIN leases' : payouts'[l] > 0 => escrow'[leases'[l].job].status # "refunded"
  BY <1>1, LeaseTyped DEF Recorded, SameReceipt, Tables
<1>4. \A j \in paid' : \E l \in DOMAIN leases' : leases'[l].job = j /\ payouts'[l] > 0
  BY DEF Recorded, SameReceipt
<1>5. \A j \in Jobs : escrow'[j].status = "settled" =>
        j \in paid' \/ ((SettledNow' \/ ctl'.pc \in {"payout", "paid"}) /\ CurrentJob' = j)
  BY <1>1 DEF Recorded
<1>6. QED
  BY <1>1, <1>2, <1>3, <1>4, <1>5 DEF Recorded, Closing

LEMMA RecordCredited ==
  ASSUME Tables, CallsInv, Recorded, SettleCredited, SameReceipt, UNCHANGED <<job, payouts, paid>>
  PROVE  Recorded'
<1>1. /\ ctl.pc = "settling" /\ ctl' = ctl /\ CurrentJob' = CurrentJob /\ SettledNow' /\ ~SettledNow
      /\ escrow' = escrow
  BY SameJob DEF SettleCredited, SettledNow
<1>2. \A j \in Jobs :
        j \in paid' <=> job'[j].status = "completed" \/ (ctl'.pc = "complete" /\ CurrentJob' = j)
  BY <1>1 DEF Recorded
<1>3. \A l \in DOMAIN leases' : payouts'[l] > 0 => escrow'[leases'[l].job].status # "refunded"
  BY <1>1 DEF Recorded, SameReceipt
<1>4. \A j \in paid' : \E l \in DOMAIN leases' : leases'[l].job = j /\ payouts'[l] > 0
  BY DEF Recorded, SameReceipt
<1>5. \A j \in Jobs : escrow'[j].status = "settled" =>
        j \in paid' \/ ((SettledNow' \/ ctl'.pc \in {"payout", "paid"}) /\ CurrentJob' = j)
  BY <1>1 DEF Recorded
<1>6. ctl'.pc \in Paying => escrow'[CurrentJob'].status # "refunded"
  BY <1>1 DEF Recorded
<1>7. QED
  BY <1>1, <1>2, <1>3, <1>4, <1>5, <1>6 DEF Recorded, Closing

LEMMA RecordSettled ==
  ASSUME Tables, CallsInv, Recorded, SettleRecorded, SameReceipt, UNCHANGED <<job, payouts, paid>>
  PROVE  Recorded'
<1>1. /\ ctl.pc = "settling" /\ ctl'.pc = "payout" /\ CurrentJob' = CurrentJob /\ SettledNow
      /\ escrow' = escrow
  BY SameJob DEF SettleRecorded, SettledNow, Continues
<1>2. \A j \in Jobs :
        j \in paid' <=> job'[j].status = "completed" \/ (ctl'.pc = "complete" /\ CurrentJob' = j)
  BY <1>1 DEF Recorded
<1>3. \A l \in DOMAIN leases' : payouts'[l] > 0 => escrow'[leases'[l].job].status # "refunded"
  BY <1>1 DEF Recorded, SameReceipt
<1>4. \A j \in paid' : \E l \in DOMAIN leases' : leases'[l].job = j /\ payouts'[l] > 0
  BY DEF Recorded, SameReceipt
<1>5. \A j \in Jobs : escrow'[j].status = "settled" =>
        j \in paid' \/ ((SettledNow' \/ ctl'.pc \in {"payout", "paid"}) /\ CurrentJob' = j)
  BY <1>1 DEF Recorded
<1>6. ctl'.pc \in Paying => escrow'[CurrentJob'].status # "refunded"
  BY <1>1 DEF Recorded, Paying
<1>7. QED
  BY <1>1, <1>2, <1>3, <1>4, <1>5, <1>6 DEF Recorded, Closing

LEMMA RecordPayout ==
  ASSUME Tables, CallsInv, Recorded, InsertPayout
  PROVE  Recorded'
<1>1. /\ ctl.pc = "payout" /\ Goto("paid") /\ UNCHANGED <<job, leases, receipts, paid, crashes,
             escrow>>
      /\ payouts' = [payouts EXCEPT ![ctl.rcpt.lease] = @ + 1] /\ op' = op
  BY DEF InsertPayout, jobVars, faults, ledgerVars
<1>2. "payout" \in Paying /\ {"payout", "paid"} \subseteq Steps /\ "paid" \in Closing
  BY DEF Steps, Handling, Paying, Closing
<1>3. ctl \in Receiving /\ ctl.rcpt.lease \in DOMAIN leases /\ ctl.rcpt.lease \in Leases
  BY <1>1, <1>2, CurrentTyped, LeasesBounded DEF Tables
<1>4. ctl'.pc = "paid" /\ ctl'.rcpt = ctl.rcpt
  BY <1>1, <1>2, <1>3, GoesOn
<1>5. SameReceipt /\ CurrentJob' = CurrentJob
  BY <1>1, <1>2, <1>4, ReceiptStays, SameJob
<1>6. payouts[ctl.rcpt.lease] = 0 /\ payouts \in [Leases -> Nat]
  BY <1>1, <1>2 DEF Tables, PayInv, TypeOK
<1>7. /\ payouts'[ctl.rcpt.lease] = 1
      /\ \A l \in Leases \ {ctl.rcpt.lease} : payouts'[l] = payouts[l]
  BY <1>1, <1>3, <1>6
<1>8. \A l \in DOMAIN leases : l \in Leases
  BY LeasesBounded DEF Tables
<1>9. \A j \in Jobs :
        j \in paid' <=> job'[j].status = "completed" \/ (ctl'.pc = "complete" /\ CurrentJob' = j)
  BY <1>1, <1>4 DEF Recorded
<1>10. \A l \in DOMAIN leases' : payouts'[l] > 0 => escrow'[leases'[l].job].status # "refunded"
  <2>1. escrow[CurrentJob].status # "refunded"
    BY <1>1, <1>2 DEF Recorded
  <2>2. QED
    BY <1>1, <1>7, <1>8, <2>1 DEF Recorded, CurrentJob
<1>11. \A j \in paid' : \E l \in DOMAIN leases' : leases'[l].job = j /\ payouts'[l] > 0
  <2>1. \A l \in DOMAIN leases : payouts[l] > 0 => payouts'[l] > 0
    BY <1>7, <1>8
  <2>2. QED
    BY <1>1, <2>1 DEF Recorded
<1>12. payouts'[ctl'.rcpt.lease] > 0
  BY <1>4, <1>7
<1>13. \A j \in Jobs : escrow'[j].status = "settled" =>
         j \in paid' \/ ((SettledNow' \/ ctl'.pc \in {"payout", "paid"}) /\ CurrentJob' = j)
  BY <1>1, <1>4, <1>5, OnlySettling DEF Recorded
<1>14. QED
  BY <1>4, <1>9, <1>10, <1>11, <1>12, <1>13 DEF Recorded, Paying

LEMMA RecordMarkedPaid ==
  ASSUME Tables, CallsInv, Recorded, RecordPaid
  PROVE  Recorded'
<1>1. /\ ctl.pc = "paid" /\ Goto("complete") /\ UNCHANGED <<job, leases, receipts, payouts,
             crashes, escrow>>
      /\ paid' = paid \cup {CurrentJob} /\ op' = op
  BY DEF RecordPaid, jobVars, faults, ledgerVars
<1>2. {"paid", "complete"} \subseteq Steps /\ {"paid", "complete"} \subseteq Closing
  BY DEF Steps, Handling, Closing
<1>3. ctl \in Receiving
  BY <1>1, <1>2, CurrentTyped DEF Tables
<1>4. ctl'.pc = "complete" /\ ctl'.rcpt = ctl.rcpt
  BY <1>1, <1>2, <1>3, GoesOn
<1>5. SameReceipt /\ CurrentJob' = CurrentJob
  BY <1>1, <1>2, <1>4, ReceiptStays, SameJob
<1>6. \A j \in Jobs :
        j \in paid' <=> job'[j].status = "completed" \/ (ctl'.pc = "complete" /\ CurrentJob' = j)
  BY <1>1, <1>4, <1>5 DEF Recorded
<1>7. \A l \in DOMAIN leases' : payouts'[l] > 0 => escrow'[leases'[l].job].status # "refunded"
  BY <1>1 DEF Recorded
<1>8. payouts'[ctl'.rcpt.lease] > 0
  BY <1>1, <1>2, <1>4 DEF Recorded
<1>9. \A j \in paid' : \E l \in DOMAIN leases' : leases'[l].job = j /\ payouts'[l] > 0
  <2>1. ctl.rcpt.lease \in DOMAIN leases' /\ leases'[ctl.rcpt.lease].job = CurrentJob
        /\ payouts'[ctl.rcpt.lease] > 0
    BY <1>1, <1>4, <1>5, <1>8 DEF SameReceipt, CurrentJob
  <2>2. QED
    BY <1>1, <2>1 DEF Recorded
<1>10. \A j \in Jobs : escrow'[j].status = "settled" =>
         j \in paid' \/ ((SettledNow' \/ ctl'.pc \in {"payout", "paid"}) /\ CurrentJob' = j)
  BY <1>1, OnlySettling DEF Recorded
<1>11. QED
  BY <1>4, <1>6, <1>7, <1>8, <1>9, <1>10 DEF Recorded, Paying

LEMMA RecordCompleted ==
  ASSUME Tables, CallsInv, Recorded, CompleteJob
  PROVE  Recorded'
<1>1. /\ ctl.pc = "complete" /\ Goto("unload")
           /\ UNCHANGED <<leases, receipts, payouts, paid, crashes, escrow>>
      /\ op' = op
  BY DEF CompleteJob, payVars, faults, ledgerVars
<1>2. {"complete", "unload"} \subseteq Steps
  BY DEF Steps, Handling, Closing
<1>3. ctl \in Receiving /\ Becomes(CurrentJob, "completed")
  BY <1>1, <1>2, CurrentTyped, StatusEffect DEF Tables
<1>4. ctl'.pc = "unload" /\ ctl'.rcpt = ctl.rcpt
  BY <1>1, <1>2, <1>3, GoesOn
<1>5. \A j \in Jobs :
        j \in paid' <=> job'[j].status = "completed" \/ (ctl'.pc = "complete" /\ CurrentJob' = j)
  BY <1>1, <1>3, <1>4 DEF Recorded, Becomes
<1>6. \A l \in DOMAIN leases' : payouts'[l] > 0 => escrow'[leases'[l].job].status # "refunded"
  BY <1>1 DEF Recorded
<1>7. \A j \in paid' : \E l \in DOMAIN leases' : leases'[l].job = j /\ payouts'[l] > 0
  BY <1>1 DEF Recorded
<1>8. \A j \in Jobs : escrow'[j].status = "settled" => j \in paid'
  BY <1>1, OnlySettling DEF Recorded
<1>9. QED
  BY <1>4, <1>5, <1>6, <1>7, <1>8 DEF Recorded, Paying, Closing

LEMMA RecordRefunded ==
  ASSUME Tables, CallsInv, crashes = 0, Recorded, RefundMarked, SameReceipt,
         UNCHANGED <<job, payouts, paid>>
  PROVE  Recorded'
<1> DEFINE c == CurrentJob
<1>1. /\ ctl.pc = "refunding" /\ ctl' = ctl /\ CurrentJob' = c /\ c \in Jobs /\ ~SettledNow
      /\ escrow'[c].status = "refunded" /\ \A j \in Jobs \ {c} : escrow'[j] = escrow[j]
  BY SameJob DEF RefundMarked, SettledNow
<1>2. c \notin paid
  BY <1>1 DEF Recorded
<1>3. \A l \in DOMAIN leases : payouts[l] > 0 => leases[l].job # c
  BY <1>1, <1>2 DEF Tables, PaidInv
<1>4. \A j \in Jobs :
        j \in paid' <=> job'[j].status = "completed" \/ (ctl'.pc = "complete" /\ CurrentJob' = j)
  BY <1>1 DEF Recorded
<1>5. \A l \in DOMAIN leases' : payouts'[l] > 0 => escrow'[leases'[l].job].status # "refunded"
  BY <1>1, <1>3, LeaseTyped DEF Recorded, SameReceipt, Tables
<1>6. \A j \in paid' : \E l \in DOMAIN leases' : leases'[l].job = j /\ payouts'[l] > 0
  BY DEF Recorded, SameReceipt
<1>7. \A j \in Jobs : escrow'[j].status = "settled" => j \in paid'
  BY <1>1 DEF Recorded
<1>8. QED
  BY <1>1, <1>2, <1>4, <1>5, <1>6, <1>7 DEF Recorded, Closing, Paying


(* The command line opens the escrow of the job it has inserted.           *)
Funds(j) ==
  /\ j \in Jobs /\ escrow[j].status = "absent" /\ escrow'[j].status = "escrowed"
  /\ account'[Customer].escrowed = account[Customer].escrowed + escrow'[j].amount
  /\ \A i \in Jobs \ {j} : escrow'[i] = escrow[i]

LEMMA CliEffect ==
  ASSUME Tables, LedgerOK, CallsInv, CliDeposit \/ CliInsert \/ CliEscrow \/ CliCrash
  PROVE  /\ Now' = Now /\ UNCHANGED <<ctl, leases, payVars, treasury>>
         /\ crashes' = 0 => crashes = 0
         /\ \/ escrow' = escrow /\ account'[Customer].escrowed = account[Customer].escrowed
            \/ \E j \in Jobs : Funds(j)
<1>1. UNCHANGED <<ctl, leases, payVars, treasury>> /\ (crashes' = 0 => crashes = 0)
  BY DEF CliDeposit, CliInsert, CliEscrow, CliCrash, jobVars, Ledger!Deposit, Ledger!BeginEscrow,
         Ledger!CommitEscrow, ledgerVars, faults, Tables, TypeOK
<1>2. escrow \in [Jobs -> LP!RowType] /\ account \in [{Customer} -> LP!AccountType]
  BY DEF LedgerOK, LP!TypeOK
<1>3. account[Customer].escrowed \in Int
  BY <1>2 DEF LP!AccountType
<1>4. CASE CliDeposit
  <2>1. account' = [account EXCEPT ![Customer] = LP!Book(@, Price, 0, 0, 0)]
          /\ UNCHANGED <<escrow, op>>
    BY <1>4 DEF CliDeposit, Ledger!Deposit, Ledger!Book, LP!Book
  <2>2. account'[Customer] = LP!Book(account[Customer], Price, 0, 0, 0)
    BY <1>2, <2>1
  <2>3. account'[Customer].escrowed = account[Customer].escrowed
    BY <1>3, <2>2 DEF LP!Book
  <2>4. QED
    BY <1>1, <2>1, <2>3 DEF Now
<1>5. CASE CliInsert
  BY <1>1, <1>5 DEF CliInsert, ledgerVars, Now
<1>6. ASSUME NEW o, op' = [op EXCEPT !["cli"] = o] PROVE Now' = Now
  BY <1>6, NowTyped DEF Now, Processes
<1>7. CASE CliCrash
  BY <1>1, <1>6, <1>7 DEF CliCrash
<1>8. CASE cli.pc = "escrow" /\ CliEscrow
  BY <1>1, <1>6, <1>8 DEF CliEscrow, Ledger!BeginEscrow
<1>9. CASE cli.pc = "commit" /\ CliEscrow
  <2> DEFINE i == op["cli"].job
  <2>1. op["cli"] \in LP!EscrowCall /\ op["cli"].stage = "escrow"
    BY <1>9, NowTyped, LedgerAssumed, LP!CallByStage DEF Processes, CliEscrow, Ledger!CommitEscrow
  <2>2. PICK a \in Nat : a = op["cli"].amount
    BY <2>1 DEF LP!EscrowCall
  <2>3. i \in Jobs /\ escrow[i].status = "absent"
    BY <2>1 DEF LP!EscrowCall, LedgerOK, LP!CallsMatchRows
  <2>4. /\ op' = [op EXCEPT !["cli"] = LP!Idle]
        /\ escrow' = [escrow EXCEPT ![i] = [LP!NoRow EXCEPT !.amount = a, !.status = "escrowed"]]
        /\ account' = [account EXCEPT ![[k \in Jobs |-> Customer][i]] = LP!Book(@, -a, a, 0, 0)]
    BY <1>9, <2>2
       DEF CliEscrow, Ledger!CommitEscrow, Ledger!Idle, LP!Idle, Ledger!NoRow, LP!NoRow,
       Ledger!Book, LP!Book
  <2> HIDE DEF i
  <2>5. escrow'[i].status = "escrowed" /\ escrow'[i].amount = a
          /\ \A j \in Jobs \ {i} : escrow'[j] = escrow[j]
    BY <1>2, <2>3, <2>4 DEF LP!NoRow
  <2>6. account'[Customer] = LP!Book(account[Customer], -a, a, 0, 0)
    BY <1>2, <2>3, <2>4
  <2>7. account'[Customer].escrowed = account[Customer].escrowed + a
    BY <2>6 DEF LP!Book
  <2>8. Funds(i)
    BY <2>3, <2>5, <2>7 DEF Funds
  <2>9. QED
    BY <1>1, <1>6, <2>3, <2>4, <2>8
<1>10. QED
  BY <1>4, <1>5, <1>7, <1>8, <1>9 DEF CliEscrow

LEMMA RecordStep == Tables /\ LedgerOK /\ CallsInv /\ RecordInv /\ [Next]_vars => RecordInv'
<1> SUFFICES ASSUME Tables, LedgerOK, CallsInv, RecordInv, [Next]_vars PROVE RecordInv'
  OBVIOUS
<1>1. TypeOK /\ JobsInv /\ HandlerInv /\ PayInv
  BY DEF Tables
<1>2. TypeOK' /\ JobsInv'
  BY TablesStep DEF Tables
<1>3. crashes = 0 => Recorded
  BY DEF RecordInv
<1>4. ASSUME UNCHANGED <<payouts, paid, receipts, leases, escrow>>,
             \A j \in Jobs : job'[j].status = "completed" <=> job[j].status = "completed",
             crashes' = 0 => crashes = 0,
             \/ ctl' = ctl /\ (SettledNow' <=> SettledNow)
             \/ crashes' = 0 => ~SettledNow /\ ~SettledNow' /\ Free(ctl) /\ Free(ctl') /\ Seen
      PROVE  RecordInv'
  BY <1>4, RecordKept DEF RecordInv
<1>5. CASE UNCHANGED <<ctl, op, payouts, paid, receipts, leases, escrow, job, crashes>>
  BY <1>4, <1>5 DEF SettledNow, Now
<1>6. ASSUME ctl' = Idle, op' = op, Free(ctl), ctl.pc # "settling",
             UNCHANGED <<payouts, paid, receipts, leases, escrow, job, crashes>>
      PROVE  RecordInv'
  <2>1. Free(ctl') /\ Seen /\ ~SettledNow /\ ~SettledNow'
    BY <1>6, IdleIsHandler, OnlySettling DEF Free, Seen, Paying, SettledNow, Now
  <2>2. QED
    BY <1>4, <1>6, <2>1
<1>7. CASE CliInsert
  <2>1. UNCHANGED <<ctl, op, payouts, paid, receipts, leases, escrow, crashes>>
        /\ \A j \in Jobs : job'[j].status = "completed" <=> job[j].status = "completed"
    BY <1>1, <1>7, InsertEffect DEF payVars, faults, ledgerVars, workerVars
  <2>2. QED
    BY <1>4, <2>1 DEF SettledNow, Now
<1>8. CASE CliDeposit \/ CliEscrow \/ CliCrash
  <2>1. /\ UNCHANGED <<ctl, leases, payouts, paid, receipts, job>> /\ (crashes' = 0 => crashes = 0)
        /\ (SettledNow' <=> SettledNow)
        /\ escrow' = escrow \/ \E j \in Jobs : Funds(j)
    BY <1>1, <1>8, CliEffect, CliSubmits DEF payVars, jobVars, SettledNow
  <2>2. CASE escrow' = escrow
    BY <1>4, <2>1, <2>2
  <2>3. ASSUME NEW i \in Jobs, Funds(i) PROVE RecordInv'
    <3>1. /\ \A j \in Jobs : escrow'[j].status \in {"settled", "refunded"}
                               <=> escrow[j].status \in {"settled", "refunded"}
          /\ \A j \in Jobs : escrow[j].status \in {"settled", "refunded"} => escrow'[j] = escrow[j]
      BY <2>3 DEF Funds
    <3>2. QED
      BY <2>1, <3>1, RecordKept DEF RecordInv
  <2>4. QED
    BY <2>1, <2>2, <2>3
<1>9. ASSUME ctl.pc = "expire", UNCHANGED <<op, payouts, paid, receipts, leases, escrow, crashes>>,
             job' = Requeue(ctl.pending), ctl'.pc \in {"expire", "route", "refund"},
             crashes = 0 => Seen
      PROVE  RecordInv'
  <2>1. \A j \in Jobs : job'[j].status = "completed" <=> job[j].status = "completed"
    BY <1>1, <1>9, RequeueEffect DEF Active
  <2>2. ~SettledNow /\ ~SettledNow' /\ Free(ctl) /\ Free(ctl')
    BY <1>9, OnlySettling DEF Free, SettledNow, Now
  <2>3. QED
    BY <1>4, <1>9, <2>1, <2>2
<1>10. ASSUME NEW j \in Jobs, ExpireRow(j) PROVE RecordInv'
  <2>1. ctl.pc = "expire" /\ ctl'.pc = "expire" /\ ctl'.next = ctl.next
    BY <1>1, <1>10, CtlByPc DEF ExpireRow, TypeOK, Expiring
  <2>2. UNCHANGED <<op, payouts, paid, receipts, leases, escrow, crashes>>
          /\ job' = Requeue(ctl.pending)
    BY <1>10 DEF ExpireRow, payVars, faults, ledgerVars
  <2>3. crashes = 0 => Seen
    BY <1>3, <2>1, <2>2 DEF Seen, Recorded, Paying
  <2>4. QED
    BY <1>9, <2>1, <2>2, <2>3
<1>11. CASE ExpireEnd
  <2>1. /\ ctl.pc = "expire" /\ ctl' = ctl.next /\ ctl'.pc \in {"route", "refund"}
    BY <1>1, <1>11, CtlByPc DEF ExpireEnd, TypeOK, Expiring, Routing, Refusing
  <2>2. UNCHANGED <<op, payouts, paid, receipts, leases, escrow, crashes>>
          /\ job' = Requeue(ctl.pending)
    BY <1>11 DEF ExpireEnd, payVars, faults, ledgerVars
  <2>3. crashes = 0 => Seen
    BY <1>3, <2>1, <2>2 DEF Seen, Recorded, Paying, CurrentJob
  <2>4. QED
    BY <1>9, <2>1, <2>2, <2>3
<1>12. ASSUME NEW j \in Jobs, Lease(j) PROVE RecordInv'
  <2>1. PICK l \in Nat, w \in Workers : Grants(j, l, w)
    BY <1>1, <1>12, LeaseEffect
  <2>2. ctl'.pc = "load" /\ ctl.pc = "route"
        /\ UNCHANGED <<op, payouts, paid, receipts, escrow, crashes>>
    BY <1>12, <2>1 DEF Grants, Lease, payVars, faults, ledgerVars
  <2>3. DOMAIN leases \subseteq DOMAIN leases' /\ \A k \in DOMAIN leases : leases'[k] = leases[k]
    BY <2>1 DEF Grants
  <2>4. \A k \in DOMAIN leases' \ DOMAIN leases : payouts[k] = 0
    BY <1>2, <2>2, NewLease
  <2>5. \A i \in Jobs : job'[i].status = "completed" <=> job[i].status = "completed"
    BY <1>1, <2>1 DEF Grants, TypeOK
  <2>6. ~SettledNow /\ ~SettledNow' /\ Free(ctl) /\ Free(ctl') /\ Seen
    BY <2>2, OnlySettling DEF Free, Seen, Paying, SettledNow, Now
  <2>7. receipts' \subseteq DOMAIN leases'
    BY <2>2, <2>3 DEF RecordInv
  <2>8. QED
    BY <2>2, <2>3, <2>4, <2>5, <2>6, <2>7, RecordKept
<1>13. CASE RunJob \/ FailJob
  <2>1. /\ ctl \in Receiving /\ ctl.pc \in {"run", "fail"}
        /\ UNCHANGED <<op, payouts, paid, receipts, leases, escrow, crashes>>
        /\ \E s \in {"running", "failed"} : Becomes(CurrentJob, s)
    BY <1>1, <1>13, CurrentTyped, StatusEffect DEF RunJob, FailJob, payVars, faults, ledgerVars,
       Steps
  <2>2. \/ ctl.pc = "run" /\ (Goto("settle") \/ Goto("fail"))
        \/ ctl.pc = "fail" /\ Goto("unloadfailed")
    BY <1>13 DEF RunJob, FailJob
  <2>3. {"settle", "fail", "unloadfailed"} \subseteq Steps /\ "run" \in Paying
    BY DEF Steps, Handling, Paying
  <2>4. /\ ctl'.rcpt = ctl.rcpt
        /\ \/ ctl.pc = "run" /\ ctl'.pc \in {"settle", "fail"}
           \/ ctl.pc = "fail" /\ ctl'.pc = "unloadfailed"
    BY <2>1, <2>2, <2>3, GoesOn
  <2>5. CurrentJob' = CurrentJob
    BY <2>1, <2>4 DEF CurrentJob
  <2>6. \A j \in Jobs : job'[j].status = "completed" <=> job[j].status = "completed"
    BY <2>1 DEF Becomes
  <2>7. crashes = 0 => Seen
    BY <1>1, <1>3, <2>1, <2>3, <2>4, <2>5 DEF Seen, Recorded, PayInv, Paying
  <2>8. ~SettledNow /\ ~SettledNow' /\ Free(ctl) /\ Free(ctl')
    BY <2>1, <2>4, OnlySettling DEF Free, SettledNow, Now
  <2>9. QED
    BY <1>4, <2>1, <2>6, <2>7, <2>8
<1>14. CASE SettleJob
  <2>1. ctl.pc \in Steps /\ UNCHANGED <<job, leases, payouts, paid, receipts, crashes>>
    BY <1>1, <1>14, SettleOutside DEF jobVars, payVars, faults, Steps, Handling, Paying
  <2>2. CASE SettleBegun
    <3>1. /\ ctl.pc = "settle" /\ ctl'.pc = "settling" /\ ctl'.rcpt = ctl.rcpt /\ escrow' = escrow
          /\ Now'.stage = "settled" => escrow[CurrentJob].status = "settled"
      BY <2>2 DEF SettleBegun, Continues
    <3>2. CurrentJob' = CurrentJob /\ CurrentJob \in Jobs
            /\ {"settle", "settling"} \subseteq Paying /\ ~SettledNow
      BY <1>1, <2>1, <2>2, <3>1, CurrentTyped DEF CurrentJob, Paying, SettledNow, SettleBegun
    <3>3. crashes = 0 => escrow[CurrentJob].status \notin {"settled", "refunded"}
      BY <1>1, <1>3, <3>1, <3>2 DEF Recorded, PayInv
    <3>4. Now.stage = "idle" /\ (crashes = 0 => ~SettledNow')
      BY <2>2, <3>3 DEF SettleBegun, SettledNow
    <3>5. crashes = 0 => Seen
      BY <3>1, <3>2, <3>3 DEF Seen
    <3>6. Free(ctl) /\ Free(ctl')
      BY <3>1 DEF Free
    <3>7. QED
      BY <1>4, <2>1, <3>1, <3>2, <3>4, <3>5, <3>6
  <2>3. CASE SettleChecked
    <3>1. ~SettledNow /\ ~SettledNow' /\ Free(ctl) /\ escrow' = escrow
      BY <2>3 DEF SettleChecked, SettledNow, Free
    <3>2. ctl' = ctl \/ (Free(ctl') /\ Seen)
      BY <2>3, IdleIsHandler DEF SettleChecked, Free, Seen, Paying
    <3>3. QED
      BY <1>4, <2>1, <3>1, <3>2
  <2>4. CASE SettleCommitted \/ SettleCredited \/ SettleRecorded
    <3>1. ctl'.rcpt = ctl.rcpt
      BY <2>4 DEF SettleCommitted, SettleCredited, SettleRecorded, Continues
    <3>2. SameReceipt
      BY <2>1, <3>1, ReceiptStays
    <3>3. crashes = 0 => Recorded'
      BY <1>3, <2>1, <2>4, <3>2, RecordCommitted, RecordCredited, RecordSettled
    <3>4. QED
      BY <2>1, <3>3 DEF RecordInv
  <2>5. QED
    BY <1>14, <2>2, <2>3, <2>4, SettleEffect
<1>15. CASE RefundJob
  <2>1. ctl.pc \in Steps /\ UNCHANGED <<job, leases, payouts, paid, receipts, crashes>>
    BY <1>1, <1>15, RefundOutside DEF jobVars, payVars, faults, Steps
  <2>2. CASE RefundAbsent \/ RefundBegun \/ RefundChecked \/ RefundMoved \/ RefundRecorded
    <3>1. /\ ctl.pc \in {"refund", "refunding"} /\ ~SettledNow /\ escrow' = escrow
          /\ \/ ctl' = Idle
             \/ ctl'.pc = "refunding" /\ ctl'.rcpt = ctl.rcpt
      BY <2>2 DEF RefundAbsent, RefundBegun, RefundChecked, RefundMoved, RefundRecorded, Continues,
                  ledgerVars, SettledNow
    <3>2. ~SettledNow'
      BY <2>2 DEF RefundAbsent, RefundBegun, RefundChecked, RefundMoved, RefundRecorded, SettledNow,
                  ledgerVars, Now
    <3>3. Free(ctl) /\ Free(ctl')
      BY <3>1, IdleIsHandler DEF Free
    <3>4. crashes = 0 => Seen
      <4>1. CASE ctl' = Idle
        BY <4>1, IdleIsHandler DEF Seen, Paying
      <4>2. CASE ctl'.pc = "refunding" /\ ctl'.rcpt = ctl.rcpt
        BY <1>3, <2>1, <3>1, <4>2 DEF Seen, Paying, CurrentJob, Recorded
      <4>3. QED
        BY <3>1, <4>1, <4>2
    <3>5. QED
      BY <1>4, <2>1, <3>1, <3>2, <3>3, <3>4
  <2>3. CASE RefundMarked
    <3>1. SameReceipt
      BY <2>1, <2>3, ReceiptStays DEF RefundMarked
    <3>2. crashes = 0 => Recorded'
      BY <1>3, <2>1, <2>3, <3>1, RecordRefunded
    <3>3. QED
      BY <2>1, <3>2 DEF RecordInv
  <2>4. QED
    BY <1>15, <2>2, <2>3, RefundEffect
<1>16. CASE InsertPayout \/ RecordPaid \/ CompleteJob
  <2>1. UNCHANGED <<leases, receipts, crashes>>
    BY <1>16 DEF InsertPayout, RecordPaid, CompleteJob, jobVars, payVars, faults
  <2>2. crashes = 0 => Recorded'
    BY <1>3, <1>16, RecordPayout, RecordMarkedPaid, RecordCompleted
  <2>3. QED
    BY <2>1, <2>2 DEF RecordInv
<1>17. CASE UnloadWorker
  <2>1. /\ ctl.pc \in {"unload", "unloadfailed"}
             /\ UNCHANGED <<op, job, leases, payouts, paid, receipts, escrow, crashes>>
        /\ \/ ctl' = Idle
           \/ ctl.pc = "unloadfailed" /\ Goto("refund")
    BY <1>17 DEF UnloadWorker, Answer, payVars, faults, ledgerVars
  <2>2. CASE ctl' = Idle
    BY <1>6, <2>1, <2>2 DEF Free
  <2>3. CASE ctl.pc = "unloadfailed" /\ Goto("refund")
    <3>1. ctl'.pc = "refund" /\ ctl'.rcpt = ctl.rcpt
      BY <1>1, <2>3, CurrentTyped, GoesOn DEF Steps
    <3>2. crashes = 0 => Seen
      BY <1>3, <2>1, <2>3, <3>1 DEF Seen, Paying, CurrentJob, Recorded
    <3>3. ~SettledNow /\ ~SettledNow' /\ Free(ctl) /\ Free(ctl')
      BY <2>1, <2>3, <3>1, OnlySettling DEF Free, SettledNow, Now
    <3>4. QED
      BY <1>4, <2>1, <3>2, <3>3
  <2>4. QED
    BY <2>1, <2>2, <2>3
<1>18. CASE NoJob \/ CountJob
  BY <1>6, <1>18 DEF NoJob, CountJob, jobVars, payVars, faults, ledgerVars, Free
<1>19. CASE Crash
  <2>1. crashes' # 0 /\ UNCHANGED <<leases, receipts>>
    BY <1>1, <1>19, CrashEffect DEF jobVars, payVars
  <2>2. QED
    BY <2>1 DEF RecordInv
<1>20. ASSUME NEW w \in Workers, Register(w) \/ Restart(w) PROVE RecordInv'
  BY <1>5, <1>20 DEF Register, Restart, jobVars, payVars, faults, ledgerVars
<1>21. ASSUME NEW l \in Leases,
              Lapse(l) \/ \E v \in Verdicts, qi \in Figures : SendReceipt(l, v, qi)
       PROVE  RecordInv'
  BY <1>5, <1>21 DEF Lapse, SendReceipt, jobVars, payVars, faults, ledgerVars
<1>22. ASSUME NEW r \in sent, RejectReceipt(r) PROVE RecordInv'
  <2>1. Free(ctl) /\ ctl.pc # "settling"
    BY <1>22, IdleIsHandler DEF RejectReceipt, Free
  <2>2. QED
    BY <1>6, <1>22, <2>1 DEF RejectReceipt, Answer, jobVars, payVars, faults, ledgerVars
<1>23. ASSUME ctl = Idle, ctl'.pc = "expire",
              ctl'.next.pc = "refund" => leases[ctl'.next.rcpt.lease].job \notin paid,
              UNCHANGED <<op, payouts, paid, receipts, leases, escrow, job, crashes>>
       PROVE  RecordInv'
  <2>1. Free(ctl) /\ Free(ctl') /\ Seen /\ ~SettledNow /\ ~SettledNow'
    BY <1>23, IdleIsHandler, OnlySettling DEF Free, Seen, Paying, SettledNow, Now
  <2>2. QED
    BY <1>4, <1>23, <2>1
<1>24. ASSUME NEW w \in Workers, NextJob(w) PROVE RecordInv'
  BY <1>23, <1>24 DEF NextJob, Expire, jobVars, payVars, faults, ledgerVars
<1>25. ASSUME NEW r \in sent, LateReceipt(r) PROVE RecordInv'
  <2>1. leases[r.lease].job \notin paid
    BY <1>25, Accepted
  <2>2. QED
    BY <1>23, <1>25, <2>1 DEF LateReceipt, Expire, jobVars, payVars, faults, ledgerVars
<1>26. ASSUME NEW r \in sent, StoreReceipt(r) PROVE RecordInv'
  <2>1. ~Stale(leases[r.lease].job) /\ r.lease \in DOMAIN leases
    BY <1>26, Accepted
  <2>2. /\ ctl.pc = "idle" /\ ctl'.pc = "run" /\ ctl'.rcpt = r
             /\ receipts' = receipts \cup {r.lease}
        /\ UNCHANGED <<op, job, leases, payouts, paid, crashes, escrow>>
    BY <1>26, IdleIsHandler DEF StoreReceipt, jobVars, faults, ledgerVars
  <2>3. Seen
    BY <2>1, <2>2 DEF Seen, Paying, CurrentJob, Stale
  <2>4. Free(ctl) /\ Free(ctl') /\ ~SettledNow /\ ~SettledNow'
    BY <2>2, OnlySettling DEF Free, SettledNow, Now
  <2>5. receipts' \subseteq DOMAIN leases'
    BY <2>1, <2>2 DEF RecordInv
  <2>6. QED
    BY <2>2, <2>3, <2>4, <2>5, RecordKept
<1>27. CASE UNCHANGED vars
  BY <1>5, <1>27 DEF vars, jobVars, payVars, faults, ledgerVars
<1>28. CASE Next
  BY <1>7, <1>8, <1>10, <1>11, <1>12, <1>13, <1>14, <1>15, <1>16, <1>17, <1>18, <1>19, <1>20, <1>21,
     <1>22, <1>24, <1>25, <1>26, <1>28, NextCases
<1>29. QED
  BY <1>27, <1>28

LEMMA RecordAlways == Spec => []RecordInv
<1>1. Init => RecordInv
  <2> SUFFICES ASSUME Init PROVE RecordInv
    OBVIOUS
  <2>1. receipts = {} /\ DOMAIN leases = {} /\ paid = {} /\ ctl.pc = "idle"
    BY DEF Init, Idle
  <2>2. \A j \in Jobs : job[j].status = "none" /\ escrow[j].status = "absent"
    BY DEF Init, Ledger!Init, Ledger!NoRow
  <2>3. QED
    BY <2>1, <2>2 DEF RecordInv, Recorded, Closing, Paying
<1>2. QED
  BY <1>1, RecordStep, TablesAlways, LedgerAlways, CallsAlways, PTL DEF Spec


----
\* The balances against the rows, as long as no process stops

FeeOf == [j \in Jobs |-> escrow[j].fee]
AmountOf == [j \in Jobs |-> escrow[j].amount]
Settled == {j \in Jobs : escrow[j].status = "settled"}

(* The escrows that the customer's balance still holds.                    *)
Open == {j \in Jobs : escrow[j].status = "escrowed" /\ ~(Now.stage = "marking" /\ Now.job = j)}

(* The fee of a settlement that the treasury has not recorded yet.         *)
FeeDue == IF SettledNow THEN Now.fee ELSE 0

SumsInv ==
  crashes = 0 =>
    /\ treasury.fees + FeeDue = SumFunctionOnSet(FeeOf, Settled)
    /\ account[Customer].escrowed = SumFunctionOnSet(AmountOf, Open)

LEMMA SumsTyped ==
  ASSUME LedgerOK
  PROVE  /\ IsFiniteSet(Settled) /\ IsFiniteSet(Open)
         /\ \A j \in Jobs : FeeOf[j] \in Nat /\ AmountOf[j] \in Nat
         /\ \A j \in Jobs : FeeOf[j] = escrow[j].fee /\ AmountOf[j] = escrow[j].amount
         /\ treasury.fees \in Nat /\ account[Customer].escrowed \in Int
         /\ \A j \in Jobs : FeeOf'[j] = escrow'[j].fee /\ AmountOf'[j] = escrow'[j].amount
<1>1. IsFiniteSet(Jobs)
  BY ClusterAssumption, FS_Interval DEF Jobs
<1>2. IsFiniteSet(Settled) /\ IsFiniteSet(Open)
  BY <1>1, FS_Subset DEF Settled, Open
<1>3. QED
  BY <1>2 DEF FeeOf, AmountOf, LedgerOK, LP!TypeOK, LP!RowType, LP!TreasuryType, LP!AccountType

(* Steps that leave the open and the settled escrows as they are.          *)
LEMMA SumsKept ==
  ASSUME LedgerOK, SumsInv, crashes' = 0 => crashes = 0, Settled' = Settled, Open' = Open,
         \A j \in Settled \cup Open : escrow'[j] = escrow[j],
         crashes' = 0 => treasury'.fees + FeeDue' = treasury.fees + FeeDue,
         account'[Customer].escrowed = account[Customer].escrowed
  PROVE  SumsInv'
<1>1. Settled \subseteq Jobs /\ Open \subseteq Jobs
  BY DEF Settled, Open
<1>2. SumFunctionOnSet(FeeOf, Settled) = SumFunctionOnSet(FeeOf', Settled)
  BY <1>1, SumsTyped, SumSame
<1>3. SumFunctionOnSet(AmountOf, Open) = SumFunctionOnSet(AmountOf', Open)
  BY <1>1, SumsTyped, SumSame
<1>4. QED
  BY <1>2, <1>3 DEF SumsInv

(* The escrow of a job is opened, settled, or given back.                  *)
LEMMA SumsOpened ==
  ASSUME LedgerOK, LedgerOK', CallsInv, SumsInv, crashes' = 0 => crashes = 0, Now' = Now,
         treasury' = treasury,
         NEW j, Funds(j)
  PROVE  SumsInv'
<1>1. j \in Jobs /\ j \notin Settled /\ j \notin Open /\ (Now.stage = "marking" => Now.job # j)
  BY DEF Funds, Settled, Open, CallsInv
<1>2. Settled' = Settled /\ Open' = Open \cup {j}
  BY <1>1 DEF Funds, Settled, Open
<1>3. \A i \in Settled \cup Open : escrow'[i] = escrow[i] /\ i \in Jobs
  BY <1>1 DEF Funds, Settled, Open
<1>4. SumFunctionOnSet(FeeOf, Settled) = SumFunctionOnSet(FeeOf', Settled)
  BY <1>3, SumsTyped, SumSame
<1>5. AmountOf'[j] \in Int /\ AmountOf'[j] = escrow'[j].amount
  BY <1>1, SumsTyped DEF LedgerOK, LP!TypeOK, LP!RowType
<1>6. SumFunctionOnSet(AmountOf', Open \cup {j}) = SumFunctionOnSet(AmountOf, Open) + AmountOf'[j]
  BY <1>1, <1>3, <1>5, SumsTyped, SumGains
<1>7. FeeDue' = FeeDue
  BY DEF FeeDue, SettledNow
<1>8. QED
  BY <1>2, <1>4, <1>5, <1>6, <1>7 DEF SumsInv, Funds

LEMMA SumsCommitted ==
  ASSUME LedgerOK, SumsInv, SettleCommitted, crashes' = crashes
  PROVE  SumsInv'
<1> DEFINE c == CurrentJob
<1>1. /\ c \in Jobs /\ Now.stage = "settling" /\ Now'.stage = "settled"
      /\ escrow[c].status = "escrowed" /\ escrow'[c].status = "settled"
      /\ \A i \in Jobs \ {c} : escrow'[i] = escrow[i]
      /\ escrow[c].amount = Now.amount /\ escrow'[c].fee = Now'.fee /\ Now'.fee \in Nat
      /\ account'[Customer].escrowed = account[Customer].escrowed - Now.amount
      /\ treasury' = treasury
  BY DEF SettleCommitted
<1> HIDE DEF c
<1>2. c \in Open /\ c \notin Settled /\ Settled' = Settled \cup {c} /\ Open' = Open \ {c}
  BY <1>1 DEF Settled, Open
<1>3. \A i \in (Settled \cup Open) \ {c} : escrow'[i] = escrow[i] /\ i \in Jobs
  BY <1>1 DEF Settled, Open
<1>4. FeeOf'[c] = Now'.fee /\ AmountOf[c] = Now.amount /\ FeeOf'[c] \in Int
  BY <1>1, SumsTyped
<1>5. SumFunctionOnSet(FeeOf', Settled \cup {c}) = SumFunctionOnSet(FeeOf, Settled) + FeeOf'[c]
  BY <1>2, <1>3, <1>4, SumsTyped, SumGains
<1>6. IsFiniteSet(Open) /\ \A i \in Open : AmountOf[i] \in Int
  BY SumsTyped DEF Open
<1>7. \A i \in Open \ {c} : AmountOf'[i] = AmountOf[i]
  BY <1>3, SumsTyped
<1>8. SumFunctionOnSet(AmountOf, Open) = AmountOf[c] + SumFunctionOnSet(AmountOf', Open \ {c})
  BY <1>2, <1>6, <1>7, SumLoses
<1>9. FeeDue = 0 /\ FeeDue' = Now'.fee
  BY <1>1 DEF FeeDue, SettledNow
<1>10. crashes = 0 => treasury'.fees + FeeDue' = SumFunctionOnSet(FeeOf', Settled')
  BY <1>1, <1>2, <1>4, <1>5, <1>9, SumsTyped DEF SumsInv
<1>11. IsFiniteSet(Open \ {c}) /\ \A i \in Open \ {c} : AmountOf'[i] \in Int
  BY <1>6, <1>7, FS_Subset
<1>12. PICK s \in Int : s = SumFunctionOnSet(AmountOf', Open \ {c})
  BY <1>11, SumInt
<1>13. crashes = 0 => account'[Customer].escrowed = s
  BY <1>1, <1>2, <1>4, <1>6, <1>8, <1>12 DEF SumsInv
<1>14. QED
  BY <1>2, <1>10, <1>12, <1>13 DEF SumsInv

LEMMA SumsMoved ==
  ASSUME LedgerOK, SumsInv, RefundMoved, crashes' = crashes
  PROVE  SumsInv'
<1> DEFINE c == CurrentJob
<1>1. /\ c \in Jobs /\ Now.stage = "refunding" /\ Now'.stage = "marking" /\ Now'.job = c
      /\ escrow[c].status = "escrowed" /\ escrow' = escrow /\ escrow[c].amount = Now.amount
      /\ account'[Customer].escrowed = account[Customer].escrowed - Now.amount
      /\ treasury' = treasury
  BY DEF RefundMoved
<1> HIDE DEF c
<1>2. c \in Open /\ Settled' = Settled /\ Open' = Open \ {c}
  BY <1>1 DEF Settled, Open
<1>3. FeeOf' = FeeOf /\ AmountOf' = AmountOf /\ AmountOf[c] = Now.amount
  BY <1>1, SumsTyped DEF FeeOf, AmountOf
<1>4. IsFiniteSet(Open) /\ \A i \in Open : AmountOf[i] \in Int
  BY SumsTyped DEF Open
<1>5. SumFunctionOnSet(AmountOf, Open) = AmountOf[c] + SumFunctionOnSet(AmountOf, Open \ {c})
  BY <1>2, <1>4, SumLoses
<1>6. FeeDue' = FeeDue
  BY <1>1 DEF FeeDue, SettledNow
<1>7. IsFiniteSet(Open \ {c}) /\ \A i \in Open \ {c} : AmountOf[i] \in Int
  BY <1>4, FS_Subset
<1>8. PICK s \in Int : s = SumFunctionOnSet(AmountOf, Open \ {c})
  BY <1>7, SumInt
<1>9. crashes = 0 => account'[Customer].escrowed = s
  BY <1>1, <1>2, <1>3, <1>4, <1>5, <1>8 DEF SumsInv
<1>10. QED
  BY <1>1, <1>2, <1>3, <1>6, <1>8, <1>9 DEF SumsInv


(* Only opening, settling and refunding an escrow moves a sum.             *)
LEMMA SumsStep ==
  Tables /\ LedgerOK /\ LedgerOK' /\ CallsInv /\ RecordInv /\ SumsInv /\ [Next]_vars => SumsInv'
<1> SUFFICES ASSUME Tables, LedgerOK, LedgerOK', CallsInv, RecordInv, SumsInv, [Next]_vars
             PROVE  SumsInv'
  OBVIOUS
<1>1. TypeOK /\ HandlerInv /\ PayInv
  BY DEF Tables
<1>2. ASSUME UNCHANGED <<escrow, account>>, Now'.stage # "marking", Now.stage # "marking",
             crashes' = 0 => crashes = 0 /\ treasury'.fees + FeeDue' = treasury.fees + FeeDue
      PROVE  SumsInv'
  BY <1>2, SumsKept DEF Settled, Open
<1>3. CASE UNCHANGED <<escrow, account, treasury, op>> /\ (crashes' = 0 => crashes = 0)
  BY <1>3, SumsKept DEF Settled, Open, FeeDue, SettledNow, Now
<1>4. CASE CliDeposit \/ CliInsert \/ CliEscrow \/ CliCrash
  <2>1. CASE escrow' = escrow /\ account'[Customer].escrowed = account[Customer].escrowed
    BY <1>4, <2>1, CliEffect, SumsKept DEF Settled, Open, FeeDue, SettledNow
  <2>2. CASE \E j \in Jobs : Funds(j)
    BY <1>4, <2>2, CliEffect, SumsOpened
  <2>3. QED
    BY <1>4, <2>1, <2>2, CliEffect
<1>5. CASE SettleJob
  <2>1. crashes' = crashes
    BY <1>1, <1>5, SettleOutside DEF faults
  <2>2. CASE SettleBegun
    <3>1. ctl.pc = "settle" /\ Now'.stage = "settled" => escrow[CurrentJob].status = "settled"
      BY <2>2 DEF SettleBegun
    <3>2. CurrentJob \in Jobs /\ CurrentJob \notin paid /\ ~SettledNow /\ ctl.pc = "settle"
      BY <1>1, <2>2, CurrentTyped DEF SettleBegun, SettledNow, PayInv, Paying, Steps, Handling
    <3>3. crashes = 0 => Now'.stage # "settled"
      BY <3>1, <3>2 DEF RecordInv, Recorded
    <3>4. crashes = 0 => treasury'.fees + FeeDue' = treasury.fees + FeeDue
      BY <2>2, <3>2, <3>3 DEF SettleBegun, FeeDue, SettledNow
    <3>5. QED
      BY <1>2, <2>1, <2>2, <3>4 DEF SettleBegun
  <2>3. CASE SettleChecked \/ SettleCredited
    <3>1. FeeDue = 0 /\ FeeDue' = 0
      BY <2>3 DEF SettleChecked, SettleCredited, FeeDue, SettledNow
    <3>2. QED
      BY <1>2, <2>1, <2>3, <3>1 DEF SettleChecked, SettleCredited
  <2>4. CASE SettleCommitted
    BY <2>1, <2>4, SumsCommitted
  <2>5. CASE SettleRecorded
    <3>1. FeeDue = Now.fee /\ FeeDue' = 0 /\ treasury'.fees = treasury.fees + Now.fee
      BY <2>5 DEF SettleRecorded, FeeDue, SettledNow
    <3>2. treasury'.fees + FeeDue' = treasury.fees + FeeDue
      BY <3>1, SumsTyped DEF LedgerOK, LP!TypeOK, LP!TreasuryType
    <3>3. QED
      BY <1>2, <2>1, <2>5, <3>2 DEF SettleRecorded
  <2>6. QED
    BY <1>5, <2>2, <2>3, <2>4, <2>5, SettleEffect
<1>6. CASE RefundJob
  <2>1. crashes' = crashes
    BY <1>1, <1>6, RefundOutside DEF faults
  <2>2. CASE RefundAbsent
    BY <1>3, <2>1, <2>2 DEF RefundAbsent, ledgerVars
  <2>3. CASE RefundBegun \/ RefundChecked \/ RefundRecorded
    <3>1. FeeDue = 0 /\ FeeDue' = 0
      BY <2>3 DEF RefundBegun, RefundChecked, RefundRecorded, FeeDue, SettledNow
    <3>2. QED
      BY <1>2, <2>1, <2>3, <3>1 DEF RefundBegun, RefundChecked, RefundRecorded
  <2>4. CASE RefundMoved
    BY <2>1, <2>4, SumsMoved
  <2>5. CASE RefundMarked
    <3> DEFINE c == CurrentJob
    <3>1. /\ c \in Jobs /\ Now.stage = "marking" /\ Now.job = c /\ Now'.stage = "refunded"
          /\ escrow[c].status = "escrowed" /\ escrow'[c].status = "refunded"
          /\ \A i \in Jobs \ {c} : escrow'[i] = escrow[i]
          /\ UNCHANGED <<treasury, account>>
      BY <2>5 DEF RefundMarked
    <3> HIDE DEF c
    <3>2. Settled' = Settled /\ Open' = Open /\ \A i \in Settled \cup Open : escrow'[i] = escrow[i]
      BY <3>1 DEF Settled, Open
    <3>3. FeeDue' = FeeDue
      BY <3>1 DEF FeeDue, SettledNow
    <3>4. QED
      BY <2>1, <3>1, <3>2, <3>3, SumsKept
  <2>6. QED
    BY <1>6, <2>2, <2>3, <2>4, <2>5, RefundEffect
<1>7. CASE Crash
  BY <1>1, <1>7, CrashEffect DEF SumsInv
<1>8. CASE RunJob \/ InsertPayout \/ RecordPaid \/ CompleteJob \/ FailJob \/ UnloadWorker
             \/ ExpireEnd
           \/ NoJob \/ CountJob
  BY <1>3, <1>8 DEF RunJob, InsertPayout, RecordPaid, CompleteJob, FailJob, UnloadWorker, ExpireEnd,
                    NoJob, CountJob, ledgerVars, faults
<1>9. ASSUME NEW j \in Jobs, ExpireRow(j) \/ Lease(j) PROVE SumsInv'
  BY <1>3, <1>9 DEF ExpireRow, Lease, ledgerVars, faults
<1>10. ASSUME NEW w \in Workers, Register(w) \/ NextJob(w) \/ Restart(w) PROVE SumsInv'
  BY <1>3, <1>10 DEF Register, NextJob, Restart, ledgerVars, faults
<1>11. ASSUME NEW l \in Leases,
              Lapse(l) \/ \E v \in Verdicts, qi \in Figures : SendReceipt(l, v, qi)
       PROVE  SumsInv'
  BY <1>3, <1>11 DEF Lapse, SendReceipt, ledgerVars, faults
<1>12. ASSUME NEW r \in sent, RejectReceipt(r) \/ LateReceipt(r) \/ StoreReceipt(r) PROVE SumsInv'
  BY <1>3, <1>12 DEF RejectReceipt, LateReceipt, StoreReceipt, ledgerVars, faults
<1>13. CASE UNCHANGED vars
  BY <1>3, <1>13 DEF vars, ledgerVars, faults
<1>14. CASE Next
  BY <1>4, <1>5, <1>6, <1>7, <1>8, <1>9, <1>10, <1>11, <1>12, <1>14, NextCases
<1>15. QED
  BY <1>13, <1>14

LEMMA SumsAlways == Spec => []SumsInv
<1>1. Init => SumsInv
  <2> SUFFICES ASSUME Init PROVE SumsInv
    OBVIOUS
  <2>1. \A j \in Jobs : escrow[j].status = "absent"
    BY DEF Init, Ledger!Init, Ledger!NoRow
  <2>2. Settled = {} /\ Open = {}
    BY <2>1 DEF Settled, Open
  <2>3. treasury.fees = 0 /\ account[Customer].escrowed = 0 /\ Now.stage = "idle"
    BY DEF Init, Ledger!Init, Ledger!Idle, Now
  <2>4. QED
    BY <2>2, <2>3, SumEmpty DEF SumsInv, FeeDue, SettledNow
<1>2. QED
  BY <1>1, SumsStep, TablesAlways, LedgerAlways, CallsAlways, RecordAlways, PTL DEF Spec

(* Until a process stops in the middle, the jobs, the payouts of the       *)
(* receipts, the escrows and the treasury agree whenever the controller is *)
(* between two requests, and the checks of accounting_checks.py pass,      *)
(* whatever receipts are late, repeated or lost.                           *)
THEOREM BooksAlwaysAgree == Spec => []BooksAgree
<1>1. ASSUME Tables, CallsInv, RecordInv, SumsInv, crashes = 0 PROVE NoStalePayout
  <2>1. SUFFICES ASSUME NEW l \in receipts, job[leases[l].job].status = "failed", payouts[l] # 0
                 PROVE  FALSE
    BY DEF NoStalePayout
  <2>2. l \in DOMAIN leases /\ l \in Leases /\ leases[l].job \in Jobs
    BY <1>1, <2>1, LeaseTyped, LeasesBounded DEF RecordInv, Tables
  <2>3. payouts[l] > 0
    BY <1>1, <2>1, <2>2 DEF Tables, TypeOK
  <2>4. leases[l].job \in paid \/ (ctl.pc = "paid" /\ ctl.rcpt.lease = l)
    BY <1>1, <2>2, <2>3 DEF Tables, PaidInv
  <2>5. CASE leases[l].job \in paid
    <3>1. ctl.pc = "complete" /\ CurrentJob = leases[l].job
      BY <1>1, <2>1, <2>2, <2>5 DEF RecordInv, Recorded
    <3>2. QED
      BY <1>1, <2>1, <3>1 DEF Tables, HandlerInv, Held, Handling, Closing, CurrentJob
  <2>6. CASE ctl.pc = "paid" /\ ctl.rcpt.lease = l
    BY <1>1, <2>1, <2>6 DEF Tables, HandlerInv, Held, Handling, Closing
  <2>7. QED
    BY <2>4, <2>5, <2>6
<1>2. ASSUME Tables, CallsInv, RecordInv, crashes = 0, ctl = Idle PROVE SettledMeansRecorded
  <2>1. ctl.pc = "idle" /\ Recorded /\ ~SettledNow
    BY <1>2, IdleIsHandler, OnlySettling DEF RecordInv
  <2>2. DOMAIN leases = 1..Len(leases) /\ \A l \in DOMAIN leases : leases[l].job \in Jobs
    BY <1>2, LeaseTyped DEF Tables, TypeOK
  <2>3. SUFFICES ASSUME NEW j \in Jobs
                 PROVE  /\ escrow[j].status = "settled" =>
                             j \in paid /\ job[j].status = "completed"
                               /\ Cardinality(PayoutsOf(j)) = 1
                        /\ escrow[j].status = "refunded" => PayoutsOf(j) = {} /\ paidOut[j] = 0
    BY DEF SettledMeansRecorded
  <2>4. ASSUME escrow[j].status = "settled"
        PROVE  j \in paid /\ job[j].status = "completed" /\ Cardinality(PayoutsOf(j)) = 1
    <3>1. j \in paid /\ job[j].status = "completed"
      BY <2>1, <2>4 DEF Recorded
    <3>2. PICK l \in DOMAIN leases : leases[l].job = j /\ payouts[l] > 0
      BY <2>1, <3>1 DEF Recorded
    <3>3. \A k \in PayoutsOf(j) : k = l
      BY <1>2, <2>2, <3>2 DEF PayoutsOf, Tables, PaidInv
    <3>4. PayoutsOf(j) = {l}
      BY <2>2, <3>2, <3>3 DEF PayoutsOf
    <3>5. Cardinality({l}) = 1
      BY FS_Singleton
    <3>6. QED
      BY <3>1, <3>4, <3>5
  <2>5. ASSUME escrow[j].status = "refunded" PROVE PayoutsOf(j) = {} /\ paidOut[j] = 0
    <3>1. PayoutsOf(j) = {}
      BY <2>1, <2>2, <2>5 DEF PayoutsOf, Recorded
    <3>2. QED
      BY <1>2, <2>5, <3>1 DEF CallsInv, LP!PaidOncePerJob
  <2>6. QED
    BY <2>4, <2>5
<1>3. ASSUME CallsInv, SumsInv, crashes = 0, LedgerOK, ctl = Idle
      PROVE  FeesReconcile /\ EscrowReconciles
  <2>1. ctl.pc = "idle" /\ Now.stage = "idle"
    BY <1>3, IdleIsHandler DEF CallsInv, LP!Idle
  <2>2. FeeDue = 0 /\ Open = {j \in Jobs : escrow[j].status = "escrowed"}
    BY <2>1 DEF FeeDue, SettledNow, Open
  <2>3. treasury.fees = SumFunctionOnSet(FeeOf, Settled)
    BY <1>3, <2>2, SumsTyped DEF SumsInv
  <2>4. account[Customer].escrowed = SumFunctionOnSet(AmountOf, Open)
    BY <1>3 DEF SumsInv
  <2>5. QED
    BY <2>2, <2>3, <2>4 DEF FeesReconcile, EscrowReconciles, FeeOf, AmountOf, Settled
<1>4. Tables /\ LedgerOK /\ CallsInv /\ RecordInv /\ SumsInv => BooksAgree
  BY <1>1, <1>2, <1>3 DEF BooksAgree
<1>5. QED
  BY <1>4, TablesAlways, LedgerAlways, CallsAlways, RecordAlways, SumsAlways, PTL

====
