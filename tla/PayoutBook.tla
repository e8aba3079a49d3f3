---- MODULE PayoutBook ----
(***************************************************************************)
(* The tables of db.py through which workers of the local pool are paid:   *)
(* receipts, payout_events, balances and inference_jobs.  WorkerPool       *)
(* (scheduler.py and epochs.py) and AgentAccounts (agents.py) pay through  *)
(* them, as processes on one file.                                         *)
(*                                                                         *)
(* Rows are numbered in the order of their inserts; amounts are whole      *)
(* units of the code's twelfth decimal.                                    *)
(***************************************************************************)
EXTENDS Processes, Sequences, FiniteSets, FiniteSetsExt, Functions

CONSTANTS
  Workers,      \* worker ids
  JobIds,       \* ids in job files; NoId is a file without one
  NoId

ASSUME PayoutBookAssumption == NoId \notin JobIds

VARIABLES
  receipts,   \* receipts: worker, mode, job id, the verdict that metadata records,
              \* and whether metadata lost a sensitive field when it was stored
  payouts,    \* payout_events: worker, basis, amount, source, epoch (0 is NULL)
  balances,   \* balances.estimated_qi_owed
  paidJobs    \* inference_jobs: the job ids that have a row

bookTables == <<receipts, payouts, balances, paidJobs>>

BookInit ==
  /\ receipts = <<>> /\ payouts = <<>>
  /\ balances = [w \in Workers |-> 0]
  /\ paidJobs = {}

(* insert_receipt stores the receipt's hash and the metadata without       *)
(* sensitive fields (redact_sensitive_fields); the hash covers them.       *)
Receipt(w, mode, job, accepted, redacted) ==
  [worker |-> w, mode |-> mode, job |-> job, accepted |-> accepted, redacted |-> redacted]

InsertReceiptRow(r) == receipts' = Append(receipts, r)

(* inference_job_was_paid, record_inference_job_paid *)
WasPaid(job) == job \in paidJobs
MarkPaid(job) == paidJobs' = paidJobs \union {job}

Event(w, basis, amount, source, epoch) ==
  [worker |-> w, basis |-> basis, amount |-> amount, source |-> source, epoch |-> epoch]

\* Mutant: the balance is replaced instead of increased.
InsertPayoutEventOver(e) ==
  /\ payouts' = Append(payouts, e)
  /\ balances' = [balances EXCEPT ![e.worker] = e.amount]

(* The event and the balance, in one transaction.                          *)
InsertPayoutEvent(e) ==
  /\ payouts' = Append(payouts, e)
  /\ balances' = [balances EXCEPT ![e.worker] = @ + e.amount]

EventsWith(T(_)) == {i \in DOMAIN payouts : T(payouts[i])}
Total(S) == SumFunctionOnSet([i \in DOMAIN payouts |-> payouts[i].amount], S)

(***************************************************************************)
(* The balance that a worker is shown is the sum of the payout events, at  *)
(* every moment and whichever of the three writers pays, side by side and  *)
(* killed anywhere (get_settled_balance sums events, balances is added     *)
(* to).                                                                    *)
(***************************************************************************)
BalancesMatchEvents ==
  \A w \in Workers : balances[w] = Total(EventsWith(LAMBDA e : e.worker = w))

====
