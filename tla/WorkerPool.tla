---- MODULE WorkerPool ----
(***************************************************************************)
(* scheduler.py and epochs.py: a worker runs job files and mines shares;   *)
(* the reward of a block is split over the latest shares; every payout     *)
(* belongs to an epoch, and a finalized epoch has a summary.               *)
(*                                                                         *)
(* Verification and its challenge come as a verdict; committees are off.   *)
(* Shares of one receipt have the same time and random ids: a window may   *)
(* cut them in any order.  Telemetry and reputation are left out.          *)
(***************************************************************************)
EXTENDS PayoutBook, SequencesExt

CONSTANTS
  FileJobs,   \* the job files in the order of their names: job id, payout, and
              \* whether the job has a field that is not stored, as "prompt"
  WorkerOf,   \* the worker that a process runs as
  Unit,       \* weight of one whole share
  Yields,     \* weights that a mining cycle brings in
  Window,     \* pplns_window_weight
  Blocks,     \* block hashes
  Reward      \* net reward of a block

ASSUME WorkerPoolAssumption ==
  /\ FileJobs \in Seq([job : JobIds \union {NoId}, qi : Nat \ {0}, sensitive : BOOLEAN])
  /\ WorkerOf \in [Procs -> Workers]
  /\ Unit \in Nat \ {0} /\ Yields \subseteq Nat
  /\ Window \in Nat \ {0} /\ Reward \in Nat \ {0}

VARIABLES
  files,    \* the directory of each job file
  shares,   \* mining_shares: worker, weight, receipt (its time), round (0 is NULL)
  rounds,   \* mining_rounds: the block of each, UNIQUE
  epochs    \* settlement_epochs: status and, once finalized, the totals

poolVars == <<files, shares, rounds, epochs>>

NoTotals == [w \in Workers |-> 0]

PoolInit ==
  /\ files \in [DOMAIN FileJobs -> {"queued", "none"}]
  /\ shares = <<>> /\ rounds = <<>> /\ epochs = <<>>

Queued == {f \in DOMAIN FileJobs : files[f] = "queued"}

----
\* A job file

(* run_once: the first file of the queue.                                  *)
PickJob(p) ==
  /\ Queued # {}
  /\ Begins(p, [at |-> "running", file |-> Min(Queued)])
  /\ UNCHANGED <<bookTables, poolVars>>

(* _run_command: one that is no list of strings, whose program is missing, *)
(* or that exits with an error or too late, has failed, and so has a file  *)
(* that is no JSON; else the file says whether the work counts.            *)
Outcomes == {"accepted", "declined", "failed"}

(* The command ends and its file is moved.  When another process moved it  *)
(* first the move raises, so does the move of the handler, and the process *)
(* ends.                                                                   *)
FinishJob(p) ==
  /\ work[p].at = "running"
  /\ LET f == work[p].file IN
       IF files[f] = "queued"
       THEN \E outcome \in Outcomes :
              /\ files' = [files EXCEPT ![f] = IF outcome = "failed" THEN "failed" ELSE "completed"]
              /\ Goes(p, [at |-> "ran", file |-> f, accepted |-> outcome = "accepted"])
       ELSE Goes(p, Idle) /\ UNCHANGED files
  /\ UNCHANGED <<receipts, payouts, balances, paidJobs, shares, rounds, epochs>>

(* Was the job paid before?                                                *)
CheckDuplicate(p) ==
  /\ work[p].at = "ran"
  /\ Goes(p, [at |-> "checked", file |-> work[p].file, accepted |-> work[p].accepted,
              duplicate |-> WasPaid(FileJobs[work[p].file].job)])
  /\ UNCHANGED <<bookTables, poolVars>>

(* _inference_payout *)
Payout(file, accepted) == IF accepted THEN FileJobs[file].qi ELSE 0

(* The receipt, with the job in its metadata, is stored whatever the       *)
(* verdict, which does not depend on whether the command succeeded, but    *)
(* needs a job id.  Work is paid when it is verified, worth something,     *)
(* named and not a duplicate.                                              *)
InsertReceipt(p) ==
  /\ work[p].at = "checked"
  /\ LET job == FileJobs[work[p].file]
         qi == Payout(work[p].file, work[p].accepted)
     IN  \E verdict \in {v \in BOOLEAN : v => job.job # NoId} :
           /\ InsertReceiptRow(Receipt(WorkerOf[p], "inference", job.job, verdict, job.sensitive))
           /\ Goes(p, IF verdict /\ qi > 0 /\ job.job # NoId /\ ~work[p].duplicate
                      THEN [at |-> "epoch", epoch |-> 0, basis |-> "tokens",
                            source |-> Len(receipts) + 1,
                            due |-> [w \in {WorkerOf[p]} |-> qi], job |-> job.job]
                      ELSE Idle)
  /\ UNCHANGED <<payouts, balances, paidJobs, poolVars>>

(* The marker of a paid job; when the job has one already the insert       *)
(* raises and the process ends.                                            *)
RecordPaid(p) ==
  /\ work[p].at = "record"
  /\ MarkPaid(work[p].job)
  /\ Goes(p, Idle)
  /\ UNCHANGED <<receipts, payouts, balances, poolVars>>

----
\* Mining

(* Whole shares and a last one for the fraction.                           *)
Weights(y) ==
  [i \in 1..(y \div Unit) |-> Unit] \o (IF y % Unit > 0 THEN <<y % Unit>> ELSE <<>>)

(* A cycle without a job file; a failed command brings no shares.          *)
InsertMiningReceipt(p) ==
  /\ Queued = {}
  /\ \E y \in Yields \union {0} :
       Begins(p, IF y = 0 THEN Idle
                 ELSE [at |-> "sharing", left |-> Weights(y), receipt |-> Len(receipts) + 1])
  /\ InsertReceiptRow(Receipt(WorkerOf[p], "mining", NoId, FALSE, FALSE))
  /\ UNCHANGED <<payouts, balances, paidJobs, poolVars>>

InsertShare(p) ==
  /\ work[p].at = "sharing"
  /\ shares' = Append(shares, [worker |-> WorkerOf[p], weight |-> Head(work[p].left),
                               receipt |-> work[p].receipt, round |-> 0])
  /\ Goes(p, IF Len(work[p].left) = 1 THEN Idle ELSE [work[p] EXCEPT !.left = Tail(@)])
  /\ UNCHANGED <<receipts, payouts, balances, paidJobs, files, rounds, epochs>>

----
\* The reward of a block

WeightOf(S) == SumFunctionOnSet([i \in DOMAIN shares |-> shares[i].weight], S)

(* The ways to cut the latest of these shares when their weight reaches    *)
(* the window.                                                             *)
LatestOf(unpaid) ==
  {S \in SUBSET unpaid :
     /\ \A i \in S, j \in unpaid \ S : shares[i].receipt >= shares[j].receipt
     /\ IF WeightOf(S) < Window THEN S = unpaid
        ELSE \E last \in S : /\ \A i \in S : shares[last].receipt <= shares[i].receipt
                             /\ WeightOf(S \ {last}) < Window}

\* Mutant: shares that a round already paid are selected again.
WindowsOfAll == LatestOf(DOMAIN shares)

(* accepted_shares_for_pplns: only shares without a round.                 *)
Windows == LatestOf({i \in DOMAIN shares : shares[i].round = 0})

(* Each worker's part of the reward, rounded to the nearest unit.          *)
RewardParts(S) ==
  LET total == WeightOf(S)
      of(w) == WeightOf({i \in S : shares[i].worker = w})
  IN  [w \in {shares[i].worker : i \in S} |-> (2 * Reward * of(w) + total) \div (2 * total)]

(* mining_round_for_block_hash *)
HasRound(b) == b \in Range(rounds)

SelectShares(p, b) ==
  /\ ~HasRound(b)
  /\ \E S \in Windows \ {{}} : Begins(p, [at |-> "round", block |-> b, shares |-> S])
  /\ UNCHANGED <<bookTables, poolVars>>

(* block_hash is UNIQUE: of two settlements of a block one raises.         *)
InsertRound(p) ==
  /\ work[p].at = "round"
  /\ IF HasRound(work[p].block)
     THEN Goes(p, Idle) /\ UNCHANGED rounds
     ELSE /\ rounds' = Append(rounds, work[p].block)
          /\ Goes(p, [at |-> "assign", round |-> Len(rounds) + 1, shares |-> work[p].shares])
  /\ UNCHANGED <<receipts, payouts, balances, paidJobs, files, shares, epochs>>

AssignShares(p) ==
  /\ work[p].at = "assign"
  /\ shares' = [i \in DOMAIN shares |->
                  IF i \in work[p].shares /\ shares[i].round = 0
                  THEN [shares[i] EXCEPT !.round = work[p].round] ELSE shares[i]]
  /\ Goes(p, [at |-> "epoch", epoch |-> 0, basis |-> "pplns", source |-> work[p].round,
              due |-> RewardParts(work[p].shares), job |-> NoId])
  /\ UNCHANGED <<receipts, payouts, balances, paidJobs, files, rounds, epochs>>

----
\* Epochs and payouts

\* Mutant: the query forgets the status.
AnyEpoch == DOMAIN epochs

Active == {e \in DOMAIN epochs : epochs[e].status = "active"}

(* active_epoch: the oldest active one, or a new one.                      *)
ReadEpoch(p) ==
  /\ work[p].at = "epoch"
  /\ Goes(p, IF Active = {} THEN [work[p] EXCEPT !.at = "create"]
             ELSE [work[p] EXCEPT !.at = "pay", !.epoch = Min(Active)])
  /\ UNCHANGED <<bookTables, poolVars>>

InsertEpoch(e) == epochs' = Append(epochs, e)

CreateEpoch(p) ==
  /\ work[p].at = "create"
  /\ InsertEpoch([status |-> "active", settled |-> 0, verified |-> 0, workers |-> NoTotals])
  /\ Goes(p, [work[p] EXCEPT !.at = "pay", !.epoch = Len(epochs) + 1])
  /\ UNCHANGED <<receipts, payouts, balances, paidJobs, files, shares, rounds>>

(* One worker is paid per commit; the epoch is read again for the next.    *)
Pay(p) ==
  /\ work[p].at = "pay"
  /\ \E w \in DOMAIN work[p].due :
       LET rest == DOMAIN work[p].due \ {w} IN
       /\ InsertPayoutEvent(Event(w, work[p].basis, work[p].due[w], work[p].source, work[p].epoch))
       /\ Goes(p, IF rest # {} THEN [work[p] EXCEPT !.at = "epoch", !.due = Restrict(@, rest)]
                  ELSE IF work[p].basis = "tokens" THEN [at |-> "record", job |-> work[p].job]
                  ELSE Idle)
  /\ UNCHANGED <<receipts, paidJobs, poolVars>>

(* receipts_for_epoch: those with a payout in it.                          *)
ReceiptsOf(e) ==
  {payouts[i].source : i \in EventsWith(LAMBDA v : v.epoch = e /\ v.basis = "tokens")}

(* verify_receipt_hash: the hash was computed before sensitive fields were *)
(* taken out, so the stored row fails it if there were any.                *)
HashVerifies(r) == ~receipts[r].redacted

\* Mutant: the hash is not verified.
AnyReceipts(e) == ReceiptsOf(e)

ValidReceipts(e) == {r \in ReceiptsOf(e) : HashVerifies(r)}

(* _worker_totals, of what is settled.                                     *)
WorkerTotals(S) == [w \in Workers |-> Total({i \in S : payouts[i].worker = w})]

(* finalize_epoch: the receipts, those that fail their hash left out, and  *)
(* then the payouts are read, the status is read again, and the row is     *)
(* updated.                                                                *)
ReadReceipts(p, e) ==
  /\ e \in Active
  /\ Begins(p, [at |-> "payouts", epoch |-> e, receipts |-> ValidReceipts(e)])
  /\ UNCHANGED <<bookTables, poolVars>>

(* A payout for a receipt that was not read, or fails its hash, does not   *)
(* count.                                                                  *)
ReadTotals(p) ==
  /\ work[p].at = "payouts"
  /\ LET settled == EventsWith(LAMBDA v : v.epoch = work[p].epoch
                                 /\ (v.basis = "pplns" \/ v.source \in work[p].receipts))
     IN  Goes(p, [at |-> "totals", epoch |-> work[p].epoch,
                  summary |-> [status |-> "finalized", settled |-> Total(settled),
                               verified |-> Cardinality(work[p].receipts),
                               workers |-> WorkerTotals(settled)]])
  /\ UNCHANGED <<bookTables, poolVars>>

CheckFinalized(p) ==
  /\ work[p].at = "totals"
  /\ Goes(p, IF work[p].epoch \in Active THEN [work[p] EXCEPT !.at = "finalize"] ELSE Idle)
  /\ UNCHANGED <<bookTables, poolVars>>

FinalizeEpoch(p) ==
  /\ work[p].at = "finalize"
  /\ epochs' = [epochs EXCEPT ![work[p].epoch] = work[p].summary]
  /\ Goes(p, Idle)
  /\ UNCHANGED <<receipts, payouts, balances, paidJobs, files, shares, rounds>>

----

PoolStep(p) ==
  \/ PickJob(p) \/ FinishJob(p) \/ CheckDuplicate(p) \/ InsertReceipt(p) \/ RecordPaid(p)
  \/ InsertMiningReceipt(p) \/ InsertShare(p)
  \/ \E b \in Blocks : SelectShares(p, b)
  \/ InsertRound(p) \/ AssignShares(p)
  \/ ReadEpoch(p) \/ CreateEpoch(p) \/ Pay(p)
  \/ \E e \in DOMAIN epochs : ReadReceipts(p, e)
  \/ ReadTotals(p) \/ CheckFinalized(p) \/ FinalizeEpoch(p)

----
\* Properties

(***************************************************************************)
(* While processes take turns, whatever is killed, a block pays only       *)
(* workers with shares in its round, each once and in proportion to them,  *)
(* so that no share earns twice; and all of them are paid unless a process *)
(* was killed (distribute_block_reward: round, shares and payouts are      *)
(* separate commits).                                                      *)
(***************************************************************************)
RoundsPayTheirShares ==
  inTurn =>
    \A r \in DOMAIN rounds :
      LET in == {i \in DOMAIN shares : shares[i].round = r}
          paid == EventsWith(LAMBDA e : e.basis = "pplns" /\ e.source = r)
      IN  /\ \A k \in paid : /\ payouts[k].worker \in DOMAIN RewardParts(in)
                             /\ payouts[k].amount = RewardParts(in)[payouts[k].worker]
          /\ \A k, l \in paid : payouts[k].worker = payouts[l].worker => k = l
          /\ crashes = 0 /\ Idling =>
               {payouts[k].worker : k \in paid} = {shares[i].worker : i \in in}

(***************************************************************************)
(* While processes take turns a finalized epoch's totals are what it paid, *)
(* over all and for each worker, without the payouts of receipts that fail *)
(* their hash (jobs with a "prompt": paid, but in no total); its receipts  *)
(* are the others, and no later payout joins it (active_epoch is read      *)
(* before the payout is inserted, finalize_epoch sums before it updates).  *)
(***************************************************************************)
SummariesHold ==
  inTurn =>
    \A e \in DOMAIN epochs :
      epochs[e].status = "finalized" =>
        LET counted == EventsWith(LAMBDA v :
                         v.epoch = e /\ (v.basis = "pplns" \/ HashVerifies(v.source)))
        IN  /\ epochs[e].settled = Total(counted)
            /\ epochs[e].workers = WorkerTotals(counted)
            /\ epochs[e].verified = Cardinality(ValidReceipts(e))

====
