---- MODULE AgentAccounts ----
(***************************************************************************)
(* agents.py: accounts of agents, which earn by mining and by verified     *)
(* jobs of their worker, and reserve Qi for jobs that they submit.  Every  *)
(* operation reads first and writes in one transaction; the read does not  *)
(* lock.                                                                   *)
(***************************************************************************)
EXTENDS PayoutBook

CONSTANTS
  Agents,
  AgentRows,   \* agent_accounts by created_at: agent, worker and status
  AgentJobs,   \* jobs that agents submit
  Incomes,     \* amounts of mining income
  Amounts,     \* amounts of escrows
  CreditOf     \* what a verified job is worth to the agent

ASSUME AgentAccountsAssumption ==
  /\ AgentRows \in Seq([agent : Agents, worker : Workers, active : BOOLEAN])
  /\ Incomes \subseteq Nat \ {0} /\ Amounts \subseteq Nat \ {0} /\ CreditOf \in Nat \ {0}

VARIABLES
  accounts,   \* agent_accounts
  escrows,    \* agent_escrows, at most one per job by its unique index
  credits     \* agent_credit_receipts: the receipts that have a row

agentVars == <<accounts, escrows, credits>>

NoRow == [status |-> "none", agent |-> "none", amount |-> 0]

(* create_agent_account; the accounts are there from the start.            *)
NewAccount == [qi |-> 0, mined |-> 0, earned |-> 0, spent |-> 0]

AgentInit ==
  /\ accounts = [a \in Agents |-> NewAccount]
  /\ escrows = [j \in AgentJobs |-> NoRow]
  /\ credits = {}

----

RecordMiningIncome(p, a) ==
  /\ Begins(p, Idle)
  /\ \E n \in Incomes :
       accounts' = [accounts EXCEPT ![a].qi = @ + n, ![a].mined = @ + n]
  /\ UNCHANGED <<bookTables, escrows, credits>>

(* agent_can_spend_qi *)
CanSpend(a, n) ==
  /\ \E i \in DOMAIN AgentRows : AgentRows[i].agent = a /\ AgentRows[i].active
  /\ accounts[a].qi >= n

(* fund_agent_job_escrow: the balance, read inside the with block but      *)
(* before its first write, which is what opens the transaction.            *)
BeginFund(p, a, j) ==
  /\ \E n \in Amounts :
       /\ CanSpend(a, n)
       /\ Begins(p, [at |-> "fund", agent |-> a, job |-> j, amount |-> n])
  /\ UNCHANGED <<bookTables, agentVars>>

Debited(o) == accounts' = [accounts EXCEPT ![o.agent].qi = @ - o.amount]
Reserved(o) == escrows' = [escrows EXCEPT ![o.job] =
                             [status |-> "reserved", agent |-> o.agent, amount |-> o.amount]]

\* Mutant: the account is debited although the job has an escrow.
CommitFundAnyway(p) ==
  /\ work[p].at = "fund"
  /\ Debited(work[p])
  /\ IF escrows[work[p].job] # NoRow THEN UNCHANGED escrows ELSE Reserved(work[p])
  /\ Goes(p, Idle)
  /\ UNCHANGED <<bookTables, credits>>

(* Debit and row together; a second row of a job rolls both back.          *)
CommitFund(p) ==
  /\ work[p].at = "fund"
  /\ IF escrows[work[p].job] # NoRow THEN UNCHANGED <<accounts, escrows>>
     ELSE Debited(work[p]) /\ Reserved(work[p])
  /\ Goes(p, Idle)
  /\ UNCHANGED <<bookTables, credits>>

(* spend_agent_job_escrow and refund_agent_job_escrow read the row ...     *)
BeginClose(p, j, status) ==
  /\ escrows[j].status = "reserved"
  /\ Begins(p, [at |-> "close", job |-> j, row |-> escrows[j], status |-> status])
  /\ UNCHANGED <<bookTables, agentVars>>

(* ... and update it if it is still reserved, the account in any case.     *)
CommitClose(p) ==
  /\ work[p].at = "close"
  /\ LET o == work[p] IN
       /\ escrows' = IF escrows[o.job].status = "reserved"
                     THEN [escrows EXCEPT ![o.job].status = o.status] ELSE escrows
       /\ accounts' = IF o.status = "spent"
                      THEN [accounts EXCEPT ![o.row.agent].spent = @ + o.row.amount]
                      ELSE [accounts EXCEPT ![o.row.agent].qi = @ + o.row.amount]
  /\ Goes(p, Idle)
  /\ UNCHANGED <<bookTables, credits>>

(* _agent_for_worker: the rows of its active agents, and the oldest.       *)
RowsFor(w) == {i \in DOMAIN AgentRows : AgentRows[i].active /\ AgentRows[i].worker = w}
AgentFor(w) == AgentRows[Min(RowsFor(w))].agent

(* credit_agent_for_verified_worker_job: a receipt is looked up ...        *)
BeginCredit(p, r) ==
  /\ receipts[r].accepted
  /\ RowsFor(receipts[r].worker) # {}
  /\ r \notin credits
  /\ Begins(p, [at |-> "credit", receipt |-> r])
  /\ UNCHANGED <<bookTables, agentVars>>

(* The receipt's payout, the job's marker unless it has one, and the       *)
(* credit; a job that the scheduler paid is paid for again.                *)
CreditAgent(r) ==
  LET w == receipts[r].worker
      agent == AgentFor(w)
  IN
  /\ InsertPayoutEvent(Event(w, "agent", CreditOf, r, 0))
  /\ paidJobs' = paidJobs \union ({receipts[r].job} \ {NoId})
  /\ credits' = credits \union {r}
  /\ accounts' = [accounts EXCEPT ![agent].qi = @ + CreditOf,
                                  ![agent].earned = @ + CreditOf]

\* Mutant: a receipt that was credited meanwhile is ignored, not an error.
CommitCreditAgain(p) ==
  /\ work[p].at = "credit"
  /\ CreditAgent(work[p].receipt)
  /\ Goes(p, Idle)
  /\ UNCHANGED <<receipts, escrows>>

(* ... and paid in one transaction, which the primary key of the credits   *)
(* rolls back when the receipt was credited meanwhile.                     *)
CommitCredit(p) ==
  /\ work[p].at = "credit"
  /\ IF work[p].receipt \in credits
     THEN UNCHANGED <<payouts, balances, paidJobs, accounts, credits>>
     ELSE CreditAgent(work[p].receipt)
  /\ Goes(p, Idle)
  /\ UNCHANGED <<receipts, escrows>>

----

AgentStep(p) ==
  \/ \E a \in Agents : RecordMiningIncome(p, a) \/ \E j \in AgentJobs : BeginFund(p, a, j)
  \/ \E j \in AgentJobs, s \in {"spent", "refunded"} : BeginClose(p, j, s)
  \/ \E r \in DOMAIN receipts : BeginCredit(p, r)
  \/ CommitFund(p) \/ CommitClose(p) \/ CommitCredit(p)

----
\* Properties

Held(a) ==
  SumFunctionOnSet([j \in AgentJobs |-> escrows[j].amount],
                   {j \in AgentJobs : escrows[j].agent = a /\ escrows[j].status = "reserved"})

(***************************************************************************)
(* While processes take turns, whatever is killed, an agent has what it    *)
(* mined and earned, less what it spent, in its balance or reserved, and   *)
(* never spends more than it has; what it earned was paid to its worker.   *)
(***************************************************************************)
AgentFundsConserved ==
  \A a \in Agents :
    /\ accounts[a].earned =
         Total(EventsWith(LAMBDA e : e.basis = "agent" /\ AgentFor(e.worker) = a))
    /\ inTurn => /\ accounts[a].qi >= 0
                 /\ accounts[a].qi + Held(a) + accounts[a].spent =
                      accounts[a].mined + accounts[a].earned

====
