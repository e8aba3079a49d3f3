---- MODULE EscrowAccounts ----
(***************************************************************************)
(* The customer ledger of the local marketplace: customer accounts, job    *)
(* escrows, worker payables (legacy/accounts.py) and the marketplace       *)
(* treasury (legacy/treasury.py), as tables of one SQLite file that        *)
(* several operating-system processes open.                                *)
(*                                                                         *)
(* A ledger call reads its row, checks it, and only then writes: SQLite    *)
(* runs the SELECTs of accounts.py outside the write transaction, so every *)
(* SELECT and every commit is a step of its own and op[p] holds what       *)
(* process p has read so far.  A process that dies, or whose statement     *)
(* raises "database is locked", stops between two such steps (Crash).      *)
(*                                                                         *)
(* Money is counted in units of 1e-12 Qi, the precision every figure is    *)
(* rounded to.                                                             *)
(***************************************************************************)
EXTENDS Integers, FiniteSets, Functions

CONSTANTS
  Customers, Workers, Jobs,
  Owner,        \* the customer_id of each job
  Procs,        \* the processes that have the database open
  Crashable,    \* those of them that may stop in the middle of a call
  Amounts,      \* the escrow amounts and served values a caller may pass
  FeePerMille,  \* platform fee_percent, times ten
  Disputes,     \* whether a refund may be asked with reason "disputed"
  MaxDeposit,   \* bound: what one customer pays in
  MaxVolume     \* bound: the treasury volume after which no call begins

ASSUME LedgerAssumption ==
  /\ Owner \in [Jobs -> Customers]
  /\ Crashable \subseteq Procs
  /\ Amounts \subseteq Nat
  /\ FeePerMille \in 0..1000
  /\ Disputes \subseteq BOOLEAN
  /\ MaxDeposit \in Nat
  /\ MaxVolume \in Nat

VARIABLES
  account,    \* customer_accounts: the four balances of each customer
  escrow,     \* job_escrows: one row per job
  payable,    \* worker_accounts.payable_qi
  treasury,   \* marketplace_treasury
  op,         \* the ledger call each process is in the middle of
  deposited,  \* history: what each customer paid in
  paidOut,    \* history: what settlements of a job's escrow paid to workers
  unbacked    \* history: what was paid for a job that had no escrow row

vars == <<account, escrow, payable, treasury, op, deposited, paidOut, unbacked>>

Tol == 1      \* the 1e-12 that every balance check adds

Fee(settlement) == (settlement * FeePerMille + 500) \div 1000

Lesser(m, n) == IF m <= n THEN m ELSE n

Idle == [stage |-> "idle"]

NoRow == [amount |-> 0, settled |-> 0, fee |-> 0, payout |-> 0, refunded |-> 0,
          status |-> "absent"]

(* One UPDATE of a customer's balances.                                    *)
Book(balances, available, escrowed, spent, refunded) ==
  [available |-> balances.available + available,
   escrowed |-> balances.escrowed + escrowed,
   spent |-> balances.spent + spent,
   refunded |-> balances.refunded + refunded]

Init ==
  /\ account = [c \in Customers |->
                  [available |-> 0, escrowed |-> 0, spent |-> 0, refunded |-> 0]]
  /\ escrow = [j \in Jobs |-> NoRow]
  /\ payable = [w \in Workers |-> 0]
  /\ treasury = [fees |-> 0, payouts |-> 0, refunds |-> 0, disputed |-> 0, settled |-> 0]
  /\ op = [p \in Procs |-> Idle]
  /\ deposited = [c \in Customers |-> 0]
  /\ paidOut = [j \in Jobs |-> 0]
  /\ unbacked = [j \in Jobs |-> 0]

----
\* Funding

(* credit_available_balance *)
Deposit(c, a) ==
  /\ deposited[c] + a <= MaxDeposit
  /\ account' = [account EXCEPT ![c] = Book(@, a, 0, 0, 0)]
  /\ deposited' = [deposited EXCEPT ![c] = @ + a]
  /\ UNCHANGED <<escrow, payable, treasury, op, paidOut, unbacked>>

\* Mutant: the balance is not compared with the amount.
BeginEscrowUnchecked(p, j, a) ==
  /\ op[p] = Idle
  /\ escrow[j].status = "absent"
  /\ \A q \in Procs : op[q].stage = "escrow" => op[q].job # j
  /\ op' = [op EXCEPT ![p] = [stage |-> "escrow", job |-> j, amount |-> a]]
  /\ UNCHANGED <<account, escrow, payable, treasury, deposited, paidOut, unbacked>>

(* escrow_job_funds, up to the balance check.  A submission draws a fresh  *)
(* job id, so no other call is escrowing funds for the same job.           *)
BeginEscrow(p, j, a) ==
  /\ op[p] = Idle
  /\ escrow[j].status = "absent"
  /\ \A q \in Procs : op[q].stage = "escrow" => op[q].job # j
  /\ account[Owner[j]].available + Tol >= a
  /\ op' = [op EXCEPT ![p] = [stage |-> "escrow", job |-> j, amount |-> a]]
  /\ UNCHANGED <<account, escrow, payable, treasury, deposited, paidOut, unbacked>>

CommitEscrow(p) ==
  /\ op[p].stage = "escrow"
  /\ LET j == op[p].job
         a == op[p].amount
     IN  /\ account' = [account EXCEPT ![Owner[j]] = Book(@, -a, a, 0, 0)]
         /\ escrow' = [escrow EXCEPT ![j] = [NoRow EXCEPT !.amount = a,
                                                          !.status = "escrowed"]]
  /\ op' = [op EXCEPT ![p] = Idle]
  /\ UNCHANGED <<payable, treasury, deposited, paidOut, unbacked>>

----
\* Settlement: settle_job_escrow, then record_settlement by its caller

\* Mutant: a settled row is settled again.
BeginSettleAgain(p, j, w, q) ==
  /\ op[p] = Idle
  /\ treasury.settled + unbacked[j] <= MaxVolume
  /\ escrow[j].status \in {"escrowed", "settled"}
  /\ op' = [op EXCEPT ![p] = [stage |-> "settle", job |-> j, worker |-> w,
                              amount |-> escrow[j].amount, qi |-> Lesser(q, escrow[j].amount)]]
  /\ UNCHANGED <<account, escrow, payable, treasury, deposited, paidOut, unbacked>>

(* The row is read.  A row that is refunded or disputed makes the call     *)
(* raise, which changes nothing; a settled row returns its old figures.    *)
BeginSettle(p, j, w, q) ==
  /\ op[p] = Idle
  /\ treasury.settled + unbacked[j] <= MaxVolume
  /\ \/ /\ escrow[j].status = "absent"
        /\ op' = [op EXCEPT ![p] = [stage |-> "credit", job |-> j, worker |-> w, qi |-> q]]
     \/ /\ escrow[j].status = "settled"
        /\ op' = [op EXCEPT ![p] = [stage |-> "settled", qi |-> escrow[j].settled,
                                    fee |-> escrow[j].fee, payout |-> escrow[j].payout]]
     \/ /\ escrow[j].status = "escrowed"
        /\ op' = [op EXCEPT ![p] = [stage |-> "settle", job |-> j, worker |-> w,
                                    amount |-> escrow[j].amount,
                                    qi |-> Lesser(q, escrow[j].amount)]]
  /\ UNCHANGED <<account, escrow, payable, treasury, deposited, paidOut, unbacked>>

(* The customer's balance is read and compared; a shortage raises.         *)
CheckSettle(p) ==
  /\ op[p].stage = "settle"
  /\ op' = [op EXCEPT ![p] =
              IF account[Owner[op[p].job]].escrowed + Tol < op[p].amount
              THEN Idle ELSE [op[p] EXCEPT !.stage = "settling"]]
  /\ UNCHANGED <<account, escrow, payable, treasury, deposited, paidOut, unbacked>>

\* Mutant: the payout is rounded from the settlement, too, not what the fee leaves.
CommitSettleRoundedTwice(p) ==
  /\ op[p].stage = "settling"
  /\ LET j == op[p].job
         a == op[p].amount
         s == op[p].qi
         f == Fee(s)
         e == (s * (1000 - FeePerMille)) \div 1000
     IN  /\ account' = [account EXCEPT ![Owner[j]] = Book(@, a - s, -a, s, a - s)]
         /\ escrow' = [escrow EXCEPT ![j] = [@ EXCEPT !.settled = s, !.fee = f, !.payout = e,
                                                      !.refunded = a - s,
                                                      !.status = "settled"]]
         /\ payable' = [payable EXCEPT ![op[p].worker] = @ + e]
         /\ paidOut' = [paidOut EXCEPT ![j] = @ + e]
         /\ op' = [op EXCEPT ![p] = [stage |-> "settled", qi |-> s, fee |-> f, payout |-> e]]
  /\ UNCHANGED <<treasury, deposited, unbacked>>

CommitSettle(p) ==
  /\ op[p].stage = "settling"
  /\ LET j == op[p].job
         a == op[p].amount
         s == op[p].qi
         f == Fee(s)
     IN  /\ account' = [account EXCEPT ![Owner[j]] = Book(@, a - s, -a, s, a - s)]
         /\ escrow' = [escrow EXCEPT ![j] = [@ EXCEPT !.settled = s, !.fee = f,
                                                      !.payout = s - f, !.refunded = a - s,
                                                      !.status = "settled"]]
         /\ payable' = [payable EXCEPT ![op[p].worker] = @ + (s - f)]
         /\ paidOut' = [paidOut EXCEPT ![j] = @ + (s - f)]
         /\ op' = [op EXCEPT ![p] = [stage |-> "settled", qi |-> s, fee |-> f,
                                     payout |-> s - f]]
  /\ UNCHANGED <<treasury, deposited, unbacked>>

(* No escrow row: the worker is credited the whole value, without a fee.   *)
CreditUnescrowed(p) ==
  /\ op[p].stage = "credit"
  /\ LET q == op[p].qi
     IN  /\ payable' = [payable EXCEPT ![op[p].worker] = @ + q]
         /\ unbacked' = [unbacked EXCEPT ![op[p].job] = @ + q]
         /\ op' = [op EXCEPT ![p] = [stage |-> "settled", qi |-> q, fee |-> 0, payout |-> q]]
  /\ UNCHANGED <<account, escrow, treasury, deposited, paidOut>>

(* treasury.record_settlement, with the figures the settlement returned    *)
RecordSettlement(p) ==
  /\ op[p].stage = "settled"
  /\ treasury' = [treasury EXCEPT !.fees = @ + op[p].fee,
                                  !.payouts = @ + op[p].payout,
                                  !.settled = @ + op[p].qi]
  /\ op' = [op EXCEPT ![p] = Idle]
  /\ UNCHANGED <<account, escrow, payable, deposited, paidOut, unbacked>>

----
\* Refund: refund_job_escrow, then record_refund by its caller

\* Mutant: a settled row is refunded.
BeginRefundSettled(p, j, d) ==
  /\ op[p] = Idle
  /\ treasury.refunds <= MaxVolume
  /\ escrow[j].status \in {"escrowed", "disputed", "settled"}
  /\ op' = [op EXCEPT ![p] = [stage |-> "refund", job |-> j,
                              amount |-> escrow[j].amount, disputed |-> d]]
  /\ UNCHANGED <<account, escrow, payable, treasury, deposited, paidOut, unbacked>>

(* The row is read.  A refunded or settled row returns the figure it       *)
(* already has; every other row, a disputed one too, is refunded.          *)
BeginRefund(p, j, d) ==
  /\ op[p] = Idle
  /\ treasury.refunds <= MaxVolume
  /\ \/ /\ escrow[j].status \in {"refunded", "settled"}
        /\ op' = [op EXCEPT ![p] = [stage |-> "refunded", amount |-> escrow[j].refunded,
                                    disputed |-> d]]
     \/ /\ escrow[j].status \in {"escrowed", "disputed"}
        /\ op' = [op EXCEPT ![p] = [stage |-> "refund", job |-> j,
                                    amount |-> escrow[j].amount, disputed |-> d]]
  /\ UNCHANGED <<account, escrow, payable, treasury, deposited, paidOut, unbacked>>

(* refund_escrow: balance check ...                                        *)
CheckRefund(p) ==
  /\ op[p].stage = "refund"
  /\ op' = [op EXCEPT ![p] =
              IF account[Owner[op[p].job]].escrowed + Tol < op[p].amount
              THEN Idle ELSE [op[p] EXCEPT !.stage = "refunding"]]
  /\ UNCHANGED <<account, escrow, payable, treasury, deposited, paidOut, unbacked>>

\* Mutant: the funds return without leaving the escrow.
CommitFundsTwice(p) ==
  /\ op[p].stage = "refunding"
  /\ LET a == op[p].amount
     IN  account' = [account EXCEPT ![Owner[op[p].job]] = Book(@, a, 0, 0, a)]
  /\ op' = [op EXCEPT ![p].stage = "marking"]
  /\ UNCHANGED <<escrow, payable, treasury, deposited, paidOut, unbacked>>

(* ... and transfer.  Its inner "with db.conn" commits, so the funds are   *)
(* back with the customer before the row of the job says so.               *)
CommitFunds(p) ==
  /\ op[p].stage = "refunding"
  /\ LET a == op[p].amount
     IN  account' = [account EXCEPT ![Owner[op[p].job]] = Book(@, a, -a, 0, a)]
  /\ op' = [op EXCEPT ![p].stage = "marking"]
  /\ UNCHANGED <<escrow, payable, treasury, deposited, paidOut, unbacked>>

MarkRefund(p) ==
  /\ op[p].stage = "marking"
  /\ LET o == op[p]
     IN  /\ escrow' = [escrow EXCEPT ![o.job] =
                         [@ EXCEPT !.refunded = o.amount,
                                   !.status = IF o.disputed THEN "disputed" ELSE "refunded"]]
         /\ op' = [op EXCEPT ![p] = [stage |-> "refunded", amount |-> o.amount,
                                     disputed |-> o.disputed]]
  /\ UNCHANGED <<account, payable, treasury, deposited, paidOut, unbacked>>

(* treasury.record_refund *)
RecordRefund(p) ==
  /\ op[p].stage = "refunded"
  /\ treasury' = [treasury EXCEPT !.refunds = @ + op[p].amount,
                                  !.disputed = @ + (IF op[p].disputed THEN op[p].amount ELSE 0)]
  /\ op' = [op EXCEPT ![p] = Idle]
  /\ UNCHANGED <<account, escrow, payable, deposited, paidOut, unbacked>>

----

(* The process stops, or the statement it is at raises: what it has        *)
(* committed stays, the rest of the call is lost.                          *)
Crash(p) ==
  /\ p \in Crashable
  /\ op[p] # Idle
  /\ op' = [op EXCEPT ![p] = Idle]
  /\ UNCHANGED <<account, escrow, payable, treasury, deposited, paidOut, unbacked>>

Begin(p) ==
  \E j \in Jobs, a \in Amounts :
    \/ BeginEscrow(p, j, a)
    \/ \E w \in Workers : BeginSettle(p, j, w, a)
    \/ \E d \in Disputes : BeginRefund(p, j, d)

Step(p) ==
  \/ CommitEscrow(p)
  \/ CheckSettle(p)
  \/ CommitSettle(p)
  \/ CreditUnescrowed(p)
  \/ RecordSettlement(p)
  \/ CheckRefund(p)
  \/ CommitFunds(p)
  \/ MarkRefund(p)
  \/ RecordRefund(p)

Next ==
  \/ \E c \in Customers, a \in Amounts : Deposit(c, a)
  \/ \E p \in Procs : Begin(p) \/ Step(p) \/ Crash(p)

Spec == Init /\ [][Next]_vars

----
\* Types

AccountType == [available : Int, escrowed : Int, spent : Int, refunded : Int]

RowType == [amount : Nat, settled : Nat, fee : Nat, payout : Nat, refunded : Nat,
            status : {"absent", "escrowed", "settled", "refunded", "disputed"}]

TreasuryType == [fees : Nat, payouts : Nat, refunds : Nat, disputed : Nat, settled : Nat]

EscrowCall == [stage : {"escrow"}, job : Jobs, amount : Nat]

CreditCall == [stage : {"credit"}, job : Jobs, worker : Workers, qi : Nat]

(* A settlement in progress never pays out more than the job's escrow.     *)
SettleCall == {o \in [stage : {"settle", "settling"}, job : Jobs, worker : Workers,
                      amount : Nat, qi : Nat] : o.qi <= o.amount}

SettledCall == [stage : {"settled"}, qi : Nat, fee : Nat, payout : Nat]

RefundCall == [stage : {"refund", "refunding", "marking"}, job : Jobs, amount : Nat,
               disputed : BOOLEAN]

RefundedCall == [stage : {"refunded"}, amount : Nat, disputed : BOOLEAN]

Call == {Idle} \cup EscrowCall \cup CreditCall \cup SettleCall \cup SettledCall
          \cup RefundCall \cup RefundedCall

(* Every table keeps its type: in particular no settlement, fee, payout or *)
(* refund figure of a row, and no treasury total, is ever negative.        *)
TypeOK ==
  /\ account \in [Customers -> AccountType]
  /\ escrow \in [Jobs -> RowType]
  /\ payable \in [Workers -> Nat]
  /\ treasury \in TreasuryType
  /\ op \in [Procs -> Call]
  /\ deposited \in [Customers -> Nat]
  /\ paidOut \in [Jobs -> Nat]
  /\ unbacked \in [Jobs -> Nat]

----
\* Safety

(* Whatever processes interleave and wherever they stop, what a customer   *)
(* paid in is all there: available, held in escrow or spent.  (Every       *)
(* UPDATE of customer_accounts moves an amount between two balances.)      *)
CustomerFundsConserved ==
  \A c \in Customers :
    account[c].available + account[c].escrowed + account[c].spent = deposited[c]

(* A settled row splits the escrowed amount into fee, payout and refund    *)
(* without losing or creating a unit, in spite of the rounding of the fee. *)
SettlementSplit ==
  \A j \in Jobs :
    escrow[j].status = "settled" =>
      /\ escrow[j].settled = escrow[j].fee + escrow[j].payout
      /\ escrow[j].settled + escrow[j].refunded = escrow[j].amount

(* The 1e-12 slack of the balance checks lets a balance go that far below  *)
(* zero once; it does not add up over calls.                               *)
OverdraftWithinTolerance ==
  \A c \in Customers : account[c].available >= -Tol /\ account[c].escrowed >= -Tol

(* Workers received for a job exactly what its row says, and nothing for a *)
(* job that is not settled: a job settles at most once, and refunded or    *)
(* disputed work "does not increase worker payable balance"                *)
(* (legacy/README.md:383).                                                 *)
PaidOncePerJob ==
  \A j \in Jobs :
    paidOut[j] = IF escrow[j].status = "settled" THEN escrow[j].payout ELSE 0

(* The escrow of job j that its owner's escrowed_qi still holds: none from *)
(* the moment the funds are back, even if the row is yet to be marked.     *)
Held(j) ==
  IF escrow[j].status = "escrowed"
     /\ \A p \in Procs : op[p].stage = "marking" => op[p].job # j
  THEN escrow[j].amount ELSE 0

(* accounting_checks._customer_escrow_reconciles, customer by customer     *)
(* and in every state: escrowed_qi is the sum of the open escrows.         *)
EscrowReconciles ==
  \A c \in Customers :
    account[c].escrowed =
      SumFunctionOnSet([j \in Jobs |-> Held(j)], {j \in Jobs : Owner[j] = c})

(* Calls in progress agree with the table they read: the amount a call     *)
(* carries is the amount in its job's row, and a submission has its job id *)
(* to itself.  (A settlement computed from a stale amount would break      *)
(* SettlementSplit.)                                                       *)
CallsMatchRows ==
  \A p \in Procs :
    /\ op[p].stage \in {"settle", "settling", "refund", "refunding", "marking"} =>
         /\ escrow[op[p].job].status # "absent"
         /\ escrow[op[p].job].amount = op[p].amount
    /\ op[p].stage = "escrow" =>
         /\ escrow[op[p].job].status = "absent"
         /\ \A q \in Procs \ {p} : op[q].stage = "escrow" => op[q].job # op[p].job

(* What a process has checked still holds when it writes, if no other      *)
(* process writes in between.                                              *)
ChecksStillHold ==
  \A p \in Procs :
    /\ op[p].stage = "escrow" => account[Owner[op[p].job]].available + Tol >= op[p].amount
    /\ op[p].stage \in {"settling", "refunding"} =>
         account[Owner[op[p].job]].escrowed + Tol >= op[p].amount
    /\ op[p].stage \in {"settle", "settling"} => escrow[op[p].job].status = "escrowed"
    /\ op[p].stage \in {"refund", "refunding", "marking"} =>
         escrow[op[p].job].status \in {"escrowed", "disputed"}

----
\* Action properties

(* A row that is settled or refunded is never written again, by a late     *)
(* settlement, a second refund or the tail of a call begun earlier.        *)
ClosedIsFinal ==
  [][\A j \in Jobs :
       escrow[j].status \in {"settled", "refunded"} => escrow'[j] = escrow[j]]_vars

----
\* The contract the ledger implements when one process uses it

(* A refund closes the deal when the funds move, before the row is marked. *)
Phase(j) ==
  CASE escrow[j].status = "absent" -> "none"
    [] escrow[j].status = "settled" -> "settled"
    [] escrow[j].status \in {"refunded", "disputed"} -> "refunded"
    [] escrow[j].status = "escrowed" ->
         IF \E p \in Procs : op[p].stage = "marking" /\ op[p].job = j
         THEN "refunded" ELSE "open"

Deal(j) ==
  [phase |-> Phase(j), amount |-> escrow[j].amount,
   worker |-> paidOut[j], platform |-> escrow[j].fee,
   customer |-> IF Phase(j) = "refunded" THEN escrow[j].amount ELSE escrow[j].refunded]

Contract == INSTANCE EscrowContract WITH
  available <- [c \in Customers |-> account[c].available],
  deal <- [j \in Jobs |-> Deal(j)],
  Shares <- UNION {0..a : a \in Amounts},
  Slack <- Tol

(* Behind its two-commit refund and its read, check and write steps the    *)
(* ledger closes every job's escrow once and atomically, in the eyes of a  *)
(* single process that completes its calls.                                *)
ImplementsContract == Contract!Spec

====
