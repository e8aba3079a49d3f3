---- MODULE SettlementLedger ----
(***************************************************************************)
(* The settlement ledger of claim 4 (claim4_settlement.py): a customer's   *)
(* quote is escrowed, the tokens served are recorded and the escrow is     *)
(* split pro rata between worker and customer, in integer micro-Qi.        *)
(*                                                                         *)
(* The ledger is a SQLite file that every run of the demonstration, of     *)
(* reproduce.py and of the tests opens.  "with self.conn" begins no        *)
(* transaction; the first UPDATE or INSERT does.  The SELECTs of a method  *)
(* are a step of their own, therefore, and the writes with their commit    *)
(* another one.                                                            *)
(***************************************************************************)
EXTENDS Integers, Functions

CONSTANTS
  Accounts, JobIds,
  Procs,      \* the processes that have the ledger open
  Openings,   \* opening balances
  Tokens,     \* sizes of a job, and what a worker may have served of one
  Quotes      \* what qi_micro_for_tokens may answer

ASSUME SettlementAssumption ==
  Openings \subseteq Nat /\ Tokens \subseteq Nat /\ Quotes \subseteq Nat

VARIABLES
  balance,    \* accounts.balance_micro_qi, of the accounts that exist
  job,        \* jobs: a row for each job id
  call,       \* the method each process is in the middle of
  opened      \* history: the sum of the opening balances

settlementVars == <<balance, job, call, opened>>

NoCall == [at |-> "idle"]

NoJob == [status |-> "none"]

SettlementInit ==
  /\ balance = << >>
  /\ job = [j \in JobIds |-> NoJob]
  /\ call = [p \in Procs |-> NoCall]
  /\ opened = 0

(* UPDATE accounts ... WHERE account_id = a: no row, no effect.            *)
Add(a, n, balances) ==
  IF a \in DOMAIN balances THEN [balances EXCEPT ![a] = @ + n] ELSE balances

Lesser(m, n) == IF m <= n THEN m ELSE n

\* Mutant: the share is rounded up.
ShareRoundedUp(escrow, served, tokens) ==
  IF tokens > 0 THEN (escrow * Lesser(served, tokens) + tokens - 1) \div tokens ELSE 0

(* The worker's part of an escrow.                                         *)
Share(escrow, served, tokens) ==
  IF tokens > 0 THEN (escrow * Lesser(served, tokens)) \div tokens ELSE 0

----

(* INSERT OR IGNORE *)
EnsureAccount(a, n) ==
  /\ a \notin DOMAIN balance
  /\ balance' = [x \in DOMAIN balance \cup {a} |-> IF x = a THEN n ELSE balance[x]]
  /\ opened' = opened + n
  /\ UNCHANGED <<job, call>>

\* Mutant: the customer's balance is not compared with the quote.
BeginQuoteUnchecked(p, j, c, w, n, q) ==
  /\ call[p] = NoCall
  /\ {c, w} \subseteq DOMAIN balance
  /\ job[j] = NoJob
  /\ call' = [call EXCEPT ![p] = [at |-> "quote", job |-> j, customer |-> c, worker |-> w,
                                  tokens |-> n, escrow |-> q]]
  /\ UNCHANGED <<balance, job, opened>>

(* quote_and_escrow: a job that exists is left as it is.  The callers open *)
(* the accounts of both parties before.                                    *)
BeginQuote(p, j, c, w, n, q) ==
  /\ call[p] = NoCall
  /\ {c, w} \subseteq DOMAIN balance
  /\ job[j] = NoJob
  /\ balance[c] >= q
  /\ call' = [call EXCEPT ![p] = [at |-> "quote", job |-> j, customer |-> c, worker |-> w,
                                  tokens |-> n, escrow |-> q]]
  /\ UNCHANGED <<balance, job, opened>>

(* The INSERT fails if another process has inserted the job; the debit is  *)
(* rolled back with it.                                                    *)
CommitQuote(p) ==
  /\ call[p].at = "quote"
  /\ LET q == call[p]
     IN  IF job[q.job] = NoJob
         THEN /\ balance' = Add(q.customer, -q.escrow, balance)
              /\ job' = [job EXCEPT ![q.job] =
                           [status |-> "escrowed", customer |-> q.customer,
                            worker |-> q.worker, tokens |-> q.tokens, escrow |-> q.escrow,
                            served |-> 0, settled |-> 0, refunded |-> 0]]
         ELSE UNCHANGED <<balance, job>>
  /\ call' = [call EXCEPT ![p] = NoCall]
  /\ UNCHANGED opened

\* Mutant: a job that is settled may be served again.
RecordServedAnyway(p, j, n) ==
  /\ call[p] = NoCall
  /\ job[j] # NoJob
  /\ job' = [job EXCEPT ![j].served = n, ![j].status = "served"]
  /\ UNCHANGED <<balance, call, opened>>

(* record_served: one UPDATE, whose WHERE checks the status.               *)
RecordServed(p, j, n) ==
  /\ call[p] = NoCall
  /\ job[j].status = "escrowed"
  /\ job' = [job EXCEPT ![j].served = n, ![j].status = "served"]
  /\ UNCHANGED <<balance, call, opened>>

(* settle: a settled job is left as it is.                                 *)
BeginSettle(p, j) ==
  /\ call[p] = NoCall
  /\ job[j].status \in {"escrowed", "served"}
  /\ call' = [call EXCEPT ![p] = [at |-> "settle", job |-> j, row |-> job[j]]]
  /\ UNCHANGED <<balance, job, opened>>

CommitSettle(p) ==
  /\ call[p].at = "settle"
  /\ LET row == call[p].row
         pay == Share(row.escrow, row.served, row.tokens)
         rest == row.escrow - pay
     IN  /\ balance' = Add(row.customer, rest, Add(row.worker, pay, balance))
         /\ job' = [job EXCEPT ![call[p].job].status = "settled",
                               ![call[p].job].settled = pay,
                               ![call[p].job].refunded = rest]
  /\ call' = [call EXCEPT ![p] = NoCall]
  /\ UNCHANGED opened

(* The process stops, or its statement raises, before the commit.          *)
Crash(p) ==
  /\ call[p] # NoCall
  /\ call' = [call EXCEPT ![p] = NoCall]
  /\ UNCHANGED <<balance, job, opened>>

Begin(p) ==
  \/ \E j \in JobIds, c, w \in Accounts, n \in Tokens, q \in Quotes : BeginQuote(p, j, c, w, n, q)
  \/ \E j \in JobIds, n \in Tokens : RecordServed(p, j, n)
  \/ \E j \in JobIds : BeginSettle(p, j)

SettlementNext ==
  \/ \E a \in Accounts, n \in Openings : EnsureAccount(a, n)
  \/ \E p \in Procs : Begin(p) \/ CommitQuote(p) \/ CommitSettle(p) \/ Crash(p)

SettlementSpec == SettlementInit /\ [][SettlementNext]_settlementVars

----
\* Types

JobRow == [status : {"escrowed", "served", "settled"}, customer : Accounts,
           worker : Accounts, tokens : Nat, escrow : Nat, served : Nat,
           settled : Nat, refunded : Nat]

QuoteCall == [at : {"quote"}, job : JobIds, customer : Accounts, worker : Accounts,
              tokens : Nat, escrow : Nat]

SettleCall == [at : {"settle"}, job : JobIds, row : JobRow]

(* The tables keep their types: no figure of a job is ever negative.       *)
SettlementTypeOK ==
  /\ DOMAIN balance \subseteq Accounts
  /\ balance \in [DOMAIN balance -> Int]
  /\ job \in [JobIds -> {NoJob} \cup JobRow]
  /\ call \in [Procs -> {NoCall} \cup QuoteCall \cup SettleCall]
  /\ opened \in Nat

----
\* Safety

Held(j) == IF job[j].status \in {"escrowed", "served"} THEN job[j].escrow ELSE 0

(* total_micro_qi never changes but by an opening balance: escrows,        *)
(* settlements and their repetitions create and destroy no micro-Qi.       *)
MoneyConserved ==
  SumFunction(balance) + SumFunction([j \in JobIds |-> Held(j)]) = opened

(* Quotes that are checked against a balance do not overdraw it.           *)
NoOverdraft == \A a \in DOMAIN balance : balance[a] >= 0

(* A settled job paid its worker the whole micro-Qi of the tokens served,  *)
(* as its row records them, and returned the rest: a worker that served    *)
(* everything got everything.                                              *)
PaidAsServed ==
  \A j \in JobIds :
    job[j].status = "settled" =>
      /\ job[j].settled + job[j].refunded = job[j].escrow
      /\ job[j].tokens > 0 =>
           /\ job[j].settled * job[j].tokens <= job[j].escrow * job[j].served
           /\ job[j].settled < job[j].escrow =>
                (job[j].settled + 1) * job[j].tokens > job[j].escrow * job[j].served

(* What a process read of a job is still so when it settles it, if no      *)
(* other process has the ledger open.                                      *)
SettlesWhatItRead ==
  \A p \in Procs : call[p].at = "settle" => job[call[p].job] = call[p].row

(* "Money moves exactly once per job" (claim4_settlement.py:191-192): a    *)
(* settled row is not written again, nor is the job opened again.          *)
SettledIsFinal ==
  [][\A j \in JobIds : job[j].status = "settled" => job'[j] = job[j]]_settlementVars

====
