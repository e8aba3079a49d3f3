---- MODULE LocalMarketProofs ----
(***************************************************************************)
(* Theorems about LocalMarket: any number of jobs and workers, any answers *)
(* and committees, in any of the regimes, and wherever processes are       *)
(* killed.                                                                 *)
(***************************************************************************)
EXTENDS LocalMarket, TLAPS

(* The ledger, with its theorems.  Here every process may be killed, and   *)
(* what it has read for the ledger is lost with the rest (Crash).          *)
LP == INSTANCE EscrowAccountsProofs WITH
  Customers <- {Customer},
  Owner <- [j \in Jobs |-> Customer],
  Crashable <- Procs,
  Amounts <- Figures \cup {Price},
  Disputes <- BOOLEAN,
  MaxDeposit <- NJobs * Price,
  MaxVolume <- (NJobs + MaxCrashes) * Price

----
\* The inductive invariant

Open == {"queued", "routed", "running"}

Expiring == [pc : {"scan"}] \cup [pc : {"expire"}, rows : SUBSET Jobs]
              \cup [pc : {"expire", "expiring"}, rows : SUBSET Jobs, job : Jobs]

Routing == [pc : {"route"}, free : SUBSET Workers, jobs : SUBSET Jobs]
             \cup [pc : {"assign"}, free : SUBSET Workers, jobs : SUBSET Jobs, job : Jobs,
                   choice : Workers \cup {NoWorker}]

(* Where a daemon is with its job, before and after there is a verdict.    *)
Before == {"take", "load", "run", "unload"}
Paying == {"settle", "settling", "payout", "paid", "complete"}
Refusing == {"refund", "refunding", "fail"}
Holding == Before \cup Paying \cup Refusing

Taken == [pc : Before, job : Jobs]
Accepted == [pc : Paying \cup {"unload"}, job : Jobs, qi : Figures, disputed : BOOLEAN]
Refused == [pc : Refusing \cup {"unload"}, job : Jobs, qi : {0}, disputed : BOOLEAN]

RowsTyped ==
  /\ regime \in Regimes
  /\ job \in [Jobs -> [status : Statuses, worker : Workers \cup {NoWorker}]]
  /\ due \subseteq regime.expiring /\ online \subseteq Workers /\ paid \subseteq Jobs
  /\ load \in [Workers -> 0..1]
  /\ audit \in [Jobs -> Workers \cup {NoWorker, Undecided}]
  /\ payouts \in [Jobs -> Nat]
  /\ crashes \in Nat

Rounds(p) ==
  {Idle} \cup Expiring
    \cup (IF p = Router THEN Routing ELSE Taken \cup Accepted \cup Refused)

AtTyped ==
  /\ at \in [Procs -> UNION {Rounds(p) : p \in Procs}]
  /\ \A p \in Procs : at[p] \in Rounds(p)

Tables == RowsTyped /\ AtTyped

TurnsInv == regime.together \/ \A p, q \in Procs : p # q => at[p] = Idle \/ at[q] = Idle

(* Nobody touches the jobs that a process has read to expire them, ...     *)
Expires(p) ==
  /\ at[p].pc \in {"expire", "expiring"} =>
       at[p].rows \subseteq due /\ \A j \in at[p].rows : job[j].status \in Open
  /\ at[p].pc = "expiring" =>
       /\ Mine(p) \in due \ at[p].rows
       /\ job[Mine(p)].status \in Open \cup {"expired"}
  /\ at[p].pc = "expire" /\ "job" \in DOMAIN at[p] => at[p].job \in due

(* ... or those that the router has read to assign them.                   *)
Routes ==
  /\ at[Router].pc \in {"route", "assign"} =>
       \A j \in at[Router].jobs : job[j].status = "queued"
  /\ at[Router].pc = "assign" =>
       at[Router].job \in at[Router].jobs /\ audit[at[Router].job] = at[Router].choice

(* The daemon's job is assigned to it, so no other daemon has it, and is   *)
(* as the daemon left it at its last commit.                               *)
Hands(w) ==
  /\ at[w].pc \in Holding => job[Mine(w)].worker = w
  /\ at[w].pc = "take" => job[Mine(w)].status = "routed"
  /\ at[w].pc = "unload" => job[Mine(w)].status # "queued"
  /\ at[w].pc \in Holding \ {"take", "unload"} => job[Mine(w)].status = "running"
  /\ at[w].pc \in {"load", "run", "settle", "refund"} => escrow[Mine(w)].status = "escrowed"
  /\ at[w].pc \in {"payout", "paid", "complete"} => escrow[Mine(w)].status = "settled"
  /\ at[w].pc = "fail" => escrow[Mine(w)].status \in {"refunded", "disputed"}
  /\ at[w].pc \in Holding \ {"paid", "complete", "unload"} => payouts[Mine(w)] = 0
  /\ at[w].pc \in {"paid", "complete"} => payouts[Mine(w)] = 1
  /\ at[w].pc = "complete" => Mine(w) \in paid

Loads(w) ==
  /\ at[w].pc \in {"scan", "expire", "expiring", "take", "load"} => load[w] = 0
  /\ at[w].pc \in Holding \ {"take", "load"} => load[w] = 1

(* The ledger call of a process is that of the step it is at, on its job.  *)
SettleCall(p) ==
  \/ /\ op[p] = Ledger!Idle \/ (op[p].stage \in {"settle", "settling"} /\ op[p].job = Mine(p))
     /\ escrow[Mine(p)].status = "escrowed"
  \/ op[p].stage = "settled" /\ escrow[Mine(p)].status = "settled"

RefundCall(p) ==
  \/ /\ \/ op[p] = Ledger!Idle
        \/ op[p].stage \in {"refund", "refunding", "marking"} /\ op[p].job = Mine(p)
     /\ escrow[Mine(p)].status = "escrowed"
  \/ op[p].stage = "refunded" /\ escrow[Mine(p)].status \in {"refunded", "disputed"}

ExpiryCall(p) ==
  \/ op[p] = Ledger!Idle
  \/ /\ op[p].stage \in {"refund", "refunding", "marking"} /\ op[p].job = Mine(p)
     /\ escrow[Mine(p)].status \in {"escrowed", "disputed"}
     /\ op[p].stage = "marking" <=> job[Mine(p)].status = "expired"
  \/ op[p].stage = "refunded"

Calls(p) ==
  /\ at[p].pc \notin {"settling", "refunding", "expiring"} => op[p] = Ledger!Idle
  /\ at[p].pc = "settling" => SettleCall(p)
  /\ at[p].pc = "refunding" => RefundCall(p)
  /\ at[p].pc = "expiring" => ExpiryCall(p)

ProcOK(p) ==
  /\ Expires(p) /\ Calls(p)
  /\ p = Router => Routes
  /\ p \in Workers => Hands(p) /\ Loads(p)

(* A job that has been paid for is in the hands of its daemon until it is  *)
(* completed, unless a process was killed.                                 *)
BeingPaid(j) ==
  LET w == job[j].worker IN at[w].pc \in Paying /\ at[w].job = j

JobOK(j) ==
  /\ escrow[j].status # "settled" => paidOut[j] = 0
  /\ job[j].status \in {"queued", "routed", "rejected"} =>
       escrow[j].status = "escrowed" /\ payouts[j] = 0
  /\ job[j].status \in {"routed", "running"} => job[j].worker \in Workers
  /\ job[j].status = "completed" =>
       escrow[j].status = "settled" /\ j \in paid /\ payouts[j] = 1
  /\ job[j].status = "failed" =>
       escrow[j].status \in {"refunded", "disputed"} /\ payouts[j] = 0
  /\ job[j].status = "expired" => paidOut[j] = 0 \/ crashes > 0
  /\ job[j].status = "running" => paidOut[j] = 0 \/ crashes > 0 \/ BeingPaid(j)
  /\ job[j].status \notin {"queued", "expired"} => audit[j] = job[j].worker

LedgerOK == LP!TypeOK /\ LP!CallsMatchRows /\ LP!CustomerFundsConserved /\ LP!SettlementSplit

MarketInv ==
  /\ LedgerOK /\ Tables /\ TurnsInv
  /\ \A p \in Procs : ProcOK(p)
  /\ \A j \in Jobs : JobOK(j)

----
\* Processes and what they have in hand

LEMMA ProcsAre == Router \in Procs /\ Router \notin Workers /\ Procs \ {Router} = Workers
                  /\ \A w \in Workers : w \in Procs
  BY MarketAssumption DEF Procs, Router

LEMMA AtPc ==
  ASSUME Tables, NEW p \in Procs
  PROVE  /\ at[p].pc = "idle" <=> at[p] = Idle
         /\ at[p].pc = "scan" => at[p] = [pc |-> "scan"]
         /\ at[p].pc \in {"expire", "expiring"} => at[p] \in Expiring /\ at[p].rows \subseteq Jobs
         /\ at[p].pc = "expiring" => at[p].job \in Jobs
         /\ at[p].pc \in {"route", "assign"} =>
              p = Router /\ at[p] \in Routing /\ at[p].jobs \subseteq Jobs
                         /\ at[p].free \subseteq Workers
         /\ at[p].pc = "assign" => at[p].job \in Jobs /\ at[p].choice \in Workers \cup {NoWorker}
         /\ at[p].pc \in Holding =>
              p \in Workers /\ at[p].job \in Jobs
                          /\ at[p] \in Taken \cup Accepted \cup Refused
         /\ at[p].pc \in Paying => at[p] \in Accepted
         /\ at[p].pc \in Refusing => at[p] \in Refused
         /\ at[p].pc \in {"take", "load", "run"} => at[p] \in Taken
<1>1. at[p] \in Rounds(p)
  BY DEF Tables, AtTyped
<1>2. p # Router => p \in Workers
  BY ProcsAre
<1>4. CASE at[p] = Idle
  BY <1>4 DEF Idle, Holding, Before, Paying, Refusing
<1>5. CASE at[p] \in Expiring
  BY <1>5 DEF Idle, Expiring, Holding, Before, Paying, Refusing
<1>6. CASE p = Router /\ at[p] \in Routing
  BY <1>6 DEF Idle, Routing, Holding, Before, Paying, Refusing
<1>7. CASE p # Router /\ at[p] \in Taken
  BY <1>2, <1>7 DEF Idle, Taken, Holding, Before, Paying, Refusing
<1>8. CASE p # Router /\ at[p] \in Accepted
  <2>1. at[p].pc \in Paying \cup {"unload"} /\ at[p].job \in Jobs /\ at[p] # Idle
    BY <1>8 DEF Accepted, Idle, Paying, Refusing
  <2> QED
    BY <1>2, <1>8, <2>1 DEF Holding, Before, Paying, Refusing
<1>9. CASE p # Router /\ at[p] \in Refused
  <2>1. at[p].pc \in Refusing \cup {"unload"} /\ at[p].job \in Jobs /\ at[p] # Idle
    BY <1>9 DEF Refused, Idle, Paying, Refusing
  <2> QED
    BY <1>2, <1>9, <2>1 DEF Holding, Before, Paying, Refusing
<1> QED
  BY <1>1, <1>4, <1>5, <1>6, <1>7, <1>8, <1>9 DEF Rounds

(* The jobs that a process has in hand, or has read to go on with.         *)
Touches(p, j) ==
  \/ at[p].pc \in Holding \cup {"expiring"} /\ Mine(p) = j
  \/ at[p].pc \in {"expire", "expiring"} /\ j \in at[p].rows
  \/ at[p].pc \in {"route", "assign"} /\ j \in at[p].jobs

(* No two processes have the same job.                                     *)
LEMMA OneHolder ==
  ASSUME MarketInv, NEW p \in Procs, NEW q \in Procs, p # q, NEW j, Touches(p, j)
  PROVE  ~Touches(q, j) /\ at[p] # Idle
<1>0. Tables /\ TurnsInv /\ ProcOK(p) /\ ProcOK(q)
  BY DEF MarketInv
<1>1. /\ at[p].pc = "idle" <=> at[p] = Idle
      /\ at[q].pc = "idle" <=> at[q] = Idle
      /\ at[p].pc \in Holding => p \in Workers
      /\ at[q].pc \in Holding => q \in Workers
      /\ at[p].pc \in {"route", "assign"} => p = Router
      /\ at[q].pc \in {"route", "assign"} => q = Router
  BY <1>0, AtPc
<1>2. at[p] # Idle
  BY <1>1 DEF Touches, Holding, Before, Paying, Refusing
<1>3. CASE ~regime.together
  <2>1. at[q].pc = "idle"
    BY <1>0, <1>1, <1>2, <1>3 DEF TurnsInv
  <2> QED
    BY <1>2, <2>1 DEF Touches, Holding, Before, Paying, Refusing
<1>4. CASE regime.together
  <2>1. due = {}
    BY <1>0, <1>4, MarketAssumption DEF Tables, RowsTyped
  <2>2. ASSUME NEW r \in {p, q}
        PROVE  /\ at[r].pc # "expiring"
               /\ at[r].pc = "expire" => at[r].rows = {}
    BY <1>0, <2>1 DEF ProcOK, Expires
  <2>3. ASSUME NEW r \in {p, q}, Touches(r, j)
        PROVE  \/ r \in Workers /\ at[r].pc \in Holding /\ job[j].worker = r
                  /\ job[j].status # "queued"
               \/ r = Router /\ job[j].status = "queued"
    BY <1>0, <1>1, <2>2, <2>3 DEF Touches, ProcOK, Hands, Routes, Holding, Before, Paying, Refusing
  <2> QED
    BY <1>2, <2>3
<1> QED
  BY <1>3, <1>4

----
\* What a step leaves alone

(* Process p takes a step and writes rows of jobs J that it has in hand,   *)
(* its own load, its own call.                                             *)
Focus(p, J) ==
  /\ \A q \in Procs \ {p} : at'[q] = at[q] /\ op'[q] = op[q]
  /\ \A w \in Workers \ {p} : load'[w] = load[w]
  /\ \A k \in Jobs \ J :
       /\ job'[k] = job[k] /\ escrow'[k] = escrow[k] /\ paidOut'[k] = paidOut[k]
       /\ payouts'[k] = payouts[k] /\ audit'[k] = audit[k]
       /\ k \in paid => k \in paid'
  /\ due' = due /\ regime' = regime

LEMMA OthersKeep ==
  ASSUME MarketInv, NEW p \in Procs, NEW J \in SUBSET Jobs, \A j \in J : Touches(p, j),
         Focus(p, J), NEW q \in Procs, q # p
  PROVE  ProcOK(q)'
<1>1. at'[q] = at[q] /\ op'[q] = op[q] /\ (q \in Workers => load'[q] = load[q])
      /\ due' = due
  BY DEF Focus
<1>2. \A j \in J : ~Touches(q, j)
  BY OneHolder
<1>3. Tables /\ ProcOK(q)
  BY DEF MarketInv
<1>4. \A k \in Jobs : Touches(q, k) =>
        /\ job'[k] = job[k] /\ escrow'[k] = escrow[k] /\ payouts'[k] = payouts[k]
        /\ audit'[k] = audit[k] /\ (k \in paid => k \in paid')
  BY <1>2 DEF Focus
<1>5. Expires(q)'
  <2>1. at[q].pc \in {"expire", "expiring"} => \A k \in at[q].rows : k \in Jobs /\ Touches(q, k)
    BY <1>3, AtPc DEF Touches
  <2>2. at[q].pc = "expiring" => Mine(q) \in Jobs /\ Touches(q, Mine(q))
    BY <1>3, AtPc DEF Touches, Mine
  <2> QED
    BY <1>1, <1>3, <1>4, <2>1, <2>2 DEF ProcOK, Expires, Mine
<1>6. Calls(q)'
  <2>1. at[q].pc \in {"settling", "refunding", "expiring"} =>
          Mine(q) \in Jobs /\ Touches(q, Mine(q))
    BY <1>3, AtPc DEF Touches, Mine, Holding, Paying, Refusing
  <2> QED
    BY <1>1, <1>3, <1>4, <2>1 DEF ProcOK, Calls, SettleCall, RefundCall, ExpiryCall, Mine
<1>7. ASSUME q = Router PROVE Routes'
  <2>1. at[q].pc \in {"route", "assign"} => \A k \in at[q].jobs : k \in Jobs /\ Touches(q, k)
    BY <1>3, AtPc DEF Touches
  <2> QED
    BY <1>1, <1>3, <1>4, <1>7, <2>1 DEF ProcOK, Routes
<1>8. ASSUME q \in Workers PROVE Hands(q)' /\ Loads(q)'
  <2>1. at[q].pc \in Holding => Mine(q) \in Jobs /\ Touches(q, Mine(q))
    BY <1>3, AtPc DEF Touches, Mine
  <2> HIDE DEF Touches
  <2>2. Hands(q)'
    BY <1>1, <1>3, <1>4, <1>8, <2>1 DEF ProcOK, Hands, Mine, Holding, Before, Paying, Refusing
  <2> QED
    BY <1>1, <1>3, <1>8, <2>2 DEF ProcOK, Loads
<1> QED
  BY <1>5, <1>6, <1>7, <1>8 DEF ProcOK

(* Whoever has a job in payment still has it, or the job is among J.       *)
LEMMA OtherJobsKeep ==
  ASSUME MarketInv, NEW p \in Procs, NEW J \in SUBSET Jobs, Focus(p, J),
         crashes' >= crashes, crashes' \in Nat,
         \/ crashes' > 0
         \/ at[p].pc \notin Paying
         \/ Mine(p) \in J
         \/ at'[p].pc \in Paying /\ at'[p].job = Mine(p),
         NEW k \in Jobs \ J
  PROVE  JobOK(k)'
<1>1. Tables /\ JobOK(k) /\ crashes \in Nat
  BY DEF MarketInv, Tables, RowsTyped
<1>2. /\ job'[k] = job[k] /\ escrow'[k] = escrow[k] /\ paidOut'[k] = paidOut[k]
      /\ payouts'[k] = payouts[k] /\ audit'[k] = audit[k]
      /\ k \in paid => k \in paid'
  BY DEF Focus
<1>3. ASSUME job[k].status = "running", BeingPaid(k) PROVE crashes' > 0 \/ BeingPaid(k)'
  <2>1. job[k].worker \in Procs
    BY <1>1, <1>3, ProcsAre DEF JobOK
  <2>2. CASE job[k].worker = p
    BY <1>2, <1>3, <2>2 DEF BeingPaid, Mine
  <2>3. CASE job[k].worker # p
    BY <1>2, <1>3, <2>1, <2>3 DEF BeingPaid, Focus
  <2> QED
    BY <2>2, <2>3
<1>4. job[k].status = "running" => paidOut[k] = 0 \/ crashes' > 0 \/ BeingPaid(k)'
  BY <1>1, <1>3 DEF JobOK
<1>5. job[k].status = "expired" => paidOut[k] = 0 \/ crashes' > 0
  BY <1>1 DEF JobOK
<1> QED
  BY <1>1, <1>2, <1>4, <1>5 DEF JobOK

(* So only p and J are left to look at.                                    *)
LEMMA StepKeeps ==
  ASSUME MarketInv, NEW p \in Procs, NEW J \in SUBSET Jobs, \A j \in J : Touches(p, j),
         Focus(p, J), at[p] # Idle \/ MayBegin(p),
         crashes' >= crashes,
         \/ crashes' > 0
         \/ at[p].pc \notin Paying
         \/ Mine(p) \in J
         \/ at'[p].pc \in Paying /\ at'[p].job = Mine(p),
         LedgerOK', Tables', ProcOK(p)', \A j \in J : JobOK(j)'
  PROVE  MarketInv'
<1>1. TurnsInv'
  BY DEF MarketInv, TurnsInv, Focus, MayBegin
<1>2. \A q \in Procs : ProcOK(q)'
  BY OthersKeep
<1>3. crashes' \in Nat
  BY DEF Tables, RowsTyped
<1>4. \A k \in Jobs \ J : JobOK(k)'
  BY <1>3, OtherJobsKeep
<1> QED
  BY <1>1, <1>2, <1>4 DEF MarketInv

----
\* Every step is one of the ledger, or none

LEMMA OutcomeType ==
  ASSUME NEW result \in Outcomes(Expected, Counts)
  PROVE  result.accepted \in BOOLEAN /\ result.tokens \in Nat /\ result.raised \in BOOLEAN
<1> DEFINE Out == [raised : BOOLEAN, accepted : BOOLEAN, tokens : Nat,
                   code : {None, "COMMAND_FAILED", "WORKER_TIMEOUT", "RUNTIME_NOT_CONFIGURED",
                           "RUNTIME_INVALID_RESPONSE", "WORKER_OFFLINE"}]
<1>1. \A n \in Nat : Answer(n) \in Out
  BY DEF Answer
<1>2. \A code \in {"COMMAND_FAILED", "WORKER_TIMEOUT", "RUNTIME_NOT_CONFIGURED",
                   "RUNTIME_INVALID_RESPONSE", "WORKER_OFFLINE"} : Failed(code) \in Out
  BY DEF Failed
<1>3. Raised \in Out
  BY DEF Raised
<1>4. PICK type \in Types :
        \E event \in Events(type) : \E n \in Counts : result = Run(type, event, Expected, n)
  BY DEF Outcomes
<1>0. PICK event \in Events(type) : \E n \in Counts : result = Run(type, event, Expected, n)
  BY <1>4
<1>11. PICK n \in Counts : result = Run(type, event, Expected, n)
  BY <1>0
<1>5. n \in Nat /\ Expected \in Nat
  BY MarketAssumption
<1>6. [Failed("COMMAND_FAILED") EXCEPT !.tokens = Expected] \in Out
  BY <1>5 DEF Failed
<1> HIDE DEF Out
<1>7. CASE type = "simulated"
  BY <1>1, <1>5, <1>11, <1>7 DEF Run, RunSimulated, Out
<1>8. CASE type = "subprocess"
  <2>1. event \in {"no list", "no program", "exit 0", "exit 1", "timeout"}
    BY <1>8 DEF Events
  <2>2. RunSubprocess(event, Expected) \in Out
    BY <1>1, <1>2, <1>3, <1>5, <1>6, <2>1 DEF RunSubprocess
  <2>3. result = RunSubprocess(event, Expected)
    BY <1>11, <1>8 DEF Run
  <2> QED
    BY <2>2, <2>3 DEF Out
<1>9. CASE type = "ollama"
  <2>1. event \in {"no model", "answer", "no text", "no json", "timeout", "unreachable", "reset"}
    BY <1>9 DEF Events
  <2>2. RunOllama(event, n) \in Out
    BY <1>1, <1>2, <1>3, <1>5, <2>1 DEF RunOllama
  <2>3. result = RunOllama(event, n)
    BY <1>11, <1>9 DEF Run
  <2> QED
    BY <2>2, <2>3 DEF Out
<1>10. CASE type \in {"ollama_placeholder", "llama_cpp_placeholder"}
  <2>1. result = RunPlaceholder
    BY <1>11, <1>10 DEF Run
  <2> QED
    BY <1>2, <2>1 DEF RunPlaceholder, Out
<1> QED
  BY <1>7, <1>8, <1>9, <1>10 DEF Types

LEMMA FiguresAre == Figures \subseteq Nat
  BY OutcomeType, MarketAssumption DEF Figures, Estimate

LEMMA LedgerAssumed == LP!LedgerAssumption
<1>1. \A a, b \in Nat : a * b \in Nat
  OBVIOUS
<1>2. NJobs * Price \in Nat /\ (NJobs + MaxCrashes) * Price \in Nat
  BY <1>1, MarketAssumption
<1> QED
  BY <1>2, FiguresAre, MarketAssumption DEF LP!LedgerAssumption

LEMMA BeginsSettle ==
  ASSUME NEW p \in Procs, NEW j \in Jobs, NEW w \in Workers, NEW q \in Figures,
         Ledger!BeginSettle(p, j, w, q)
  PROVE  LP!Next
<1>1. LP!BeginSettle(p, j, w, q)
  BY DEF Ledger!BeginSettle, LP!BeginSettle, Ledger!Idle, LP!Idle, Ledger!Lesser, LP!Lesser
<1>2. LP!Begin(p)
  BY <1>1 DEF LP!Begin
<1> QED
  BY <1>2 DEF LP!Next

LEMMA BeginsRefund ==
  ASSUME NEW p \in Procs, NEW j \in Jobs, NEW d \in BOOLEAN, Ledger!BeginRefund(p, j, d)
  PROVE  LP!Next
<1>1. LP!BeginRefund(p, j, d)
  BY DEF Ledger!BeginRefund, LP!BeginRefund, Ledger!Idle, LP!Idle
<1>2. LP!Begin(p)
  BY <1>1 DEF LP!Begin
<1> QED
  BY <1>2 DEF LP!Next

LEMMA CallSteps ==
  ASSUME NEW p \in Procs,
         \/ Ledger!CheckSettle(p) \/ Ledger!CommitSettle(p) \/ Ledger!RecordSettlement(p)
         \/ Ledger!CheckRefund(p) \/ Ledger!CommitFunds(p) \/ Ledger!MarkRefund(p)
         \/ Ledger!RecordRefund(p)
  PROVE  LP!Next
<1>1. Ledger!CheckSettle(p) => LP!CheckSettle(p)
  BY DEF Ledger!CheckSettle, LP!CheckSettle, Ledger!Idle, LP!Idle, Ledger!Tol, LP!Tol
<1>2. Ledger!CommitSettle(p) => LP!CommitSettle(p)
  BY DEF Ledger!CommitSettle, LP!CommitSettle, Ledger!Fee, LP!Fee, Ledger!Book, LP!Book
<1>3. Ledger!RecordSettlement(p) => LP!RecordSettlement(p)
  BY DEF Ledger!RecordSettlement, LP!RecordSettlement, Ledger!Idle, LP!Idle
<1>4. Ledger!CheckRefund(p) => LP!CheckRefund(p)
  BY DEF Ledger!CheckRefund, LP!CheckRefund, Ledger!Idle, LP!Idle, Ledger!Tol, LP!Tol
<1>5. Ledger!CommitFunds(p) => LP!CommitFunds(p)
  BY DEF Ledger!CommitFunds, LP!CommitFunds, Ledger!Book, LP!Book
<1>6. Ledger!MarkRefund(p) => LP!MarkRefund(p)
  BY DEF Ledger!MarkRefund, LP!MarkRefund
<1>7. Ledger!RecordRefund(p) => LP!RecordRefund(p)
  BY DEF Ledger!RecordRefund, LP!RecordRefund, Ledger!Idle, LP!Idle
<1>8. LP!Step(p)
  BY <1>1, <1>2, <1>3, <1>4, <1>5, <1>6, <1>7 DEF LP!Step
<1> QED
  BY <1>8 DEF LP!Next

(* A process that is killed loses its call.                                *)
LEMMA CallLost ==
  ASSUME NEW p \in Procs, op' = [op EXCEPT ![p] = Ledger!Idle], DOMAIN op = Procs,
         op \in [Procs -> LP!Call],
         UNCHANGED <<account, escrow, payable, treasury, deposited, paidOut, unbacked>>
  PROVE  LP!Next \/ UNCHANGED LP!vars
<1>1. CASE op[p] = Ledger!Idle
  <2>1. op' = op
    BY <1>1
  <2> QED
    BY <2>1 DEF LP!vars
<1>2. CASE op[p] # Ledger!Idle
  <2>1. LP!Crash(p)
    BY <1>2 DEF LP!Crash, LP!Idle, Ledger!Idle
  <2> QED
    BY <2>1 DEF LP!Next
<1> QED
  BY <1>1, <1>2

LEMMA LedgerStep ==
  ASSUME MarketInv, [Next]_vars
  PROVE  LP!Next \/ UNCHANGED LP!vars
<1>0. Tables /\ op \in [Procs -> LP!Call]
  BY DEF MarketInv, LedgerOK, LP!TypeOK
<1>1. CASE UNCHANGED ledgerVars
  BY <1>1 DEF ledgerVars, LP!vars
<1>2. CASE BeginRoute \/ ListQueued \/ DecideRoute \/ RouteJob \/ EndRoute
  BY <1>1, <1>2 DEF BeginRoute, ListQueued, DecideRoute, RouteJob, EndRoute
<1>3. ASSUME NEW w \in Workers,
             \/ BeginRound(w) \/ FindJob(w) \/ TakeJob(w) \/ CountJob(w) \/ RunJob(w)
             \/ InsertPayout(w) \/ RecordPaid(w) \/ CloseJob(w) \/ EndRound(w)
      PROVE  UNCHANGED ledgerVars
  BY <1>3 DEF BeginRound, FindJob, TakeJob, CountJob, RunJob, InsertPayout, RecordPaid,
              CloseJob, EndRound
<1>4. ASSUME NEW p \in Procs, Scan(p) \/ Raise(p) PROVE UNCHANGED ledgerVars
  BY <1>4 DEF Scan, Raise
<1>5. ASSUME NEW j \in Jobs, PassExpiry(j) PROVE UNCHANGED ledgerVars
  BY <1>5 DEF PassExpiry
<1>6. ASSUME NEW p \in Procs, Crash(p) PROVE LP!Next \/ UNCHANGED LP!vars
  <2>1. DOMAIN op = Procs
    BY <1>0
  <2> QED
    BY <1>0, <1>6, <2>1, CallLost DEF Crash
<1>7. ASSUME NEW w \in Workers, SettleJob(w) PROVE LP!Next
  <2>1. w \in Procs
    BY ProcsAre
  <2>2. ASSUME at[w].pc = "settle", Ledger!BeginSettle(w, Mine(w), w, at[w].qi) PROVE LP!Next
    <3>1. at[w] \in Accepted
      BY <1>0, <2>1, <2>2, AtPc DEF Paying
    <3>2. Mine(w) \in Jobs /\ at[w].qi \in Figures
      BY <3>1 DEF Accepted, Mine
    <3> QED
      BY <2>1, <2>2, <3>2, BeginsSettle
  <2> QED
    BY <1>7, <2>1, <2>2, CallSteps DEF SettleJob
<1>8. ASSUME NEW w \in Workers, RefundJob(w) PROVE LP!Next
  <2>1. w \in Procs
    BY ProcsAre
  <2>2. ASSUME at[w].pc = "refund", Ledger!BeginRefund(w, Mine(w), at[w].disputed)
        PROVE  LP!Next
    <3>1. at[w] \in Refused
      BY <1>0, <2>1, <2>2, AtPc DEF Refusing
    <3>2. Mine(w) \in Jobs /\ at[w].disputed \in BOOLEAN
      BY <3>1 DEF Refused, Mine
    <3> QED
      BY <2>1, <2>2, <3>2, BeginsRefund
  <2> QED
    BY <1>8, <2>1, <2>2, CallSteps DEF RefundJob
<1>9. ASSUME NEW p \in Procs, ExpireJob(p) PROVE LP!Next
  <2>1. ASSUME at[p].pc = "expire", NEW j \in at[p].rows, Ledger!BeginRefund(p, j, FALSE)
        PROVE  LP!Next
    <3>1. j \in Jobs
      BY <1>0, <2>1, AtPc
    <3> QED
      BY <2>1, <3>1, BeginsRefund
  <2> QED
    BY <1>9, <2>1, CallSteps DEF ExpireJob
<1>10. CASE UNCHANGED vars
  BY <1>1, <1>10 DEF vars
<1> QED
  BY <1>1, <1>2, <1>3, <1>4, <1>5, <1>6, <1>7, <1>8, <1>9, <1>10 DEF Next, Daemon

LEMMA LedgerKeeps ==
  ASSUME MarketInv, [Next]_vars
  PROVE  LedgerOK'
<1>1. [LP!Next]_(LP!vars)
  BY LedgerStep
<1>2. LP!TypeOK'
  BY <1>1, LedgerAssumed, LP!TypeStep DEF MarketInv, LedgerOK
<1>3. LP!CallsMatchRows'
  BY <1>1, LedgerAssumed, LP!CallsMatchRowsStep DEF MarketInv, LedgerOK
<1>4. LP!CustomerFundsConserved'
  BY <1>1, LedgerAssumed, LP!FundsStep DEF MarketInv, LedgerOK
<1>5. LP!SettlementSplit'
  BY <1>1, LedgerAssumed, LP!SplitStep DEF MarketInv, LedgerOK
<1> QED
  BY <1>2, <1>3, <1>4, <1>5 DEF LedgerOK

----
\* The steps of a process, first what they have in common

LEMMA AtRest ==
  ASSUME MarketInv, NEW p \in Procs
  PROVE  /\ Tables /\ RowsTyped /\ AtTyped /\ ProcOK(p) /\ Expires(p) /\ Calls(p)
         /\ op \in [Procs -> LP!Call] /\ escrow \in [Jobs -> LP!RowType]
         /\ paidOut \in [Jobs -> Nat]
         /\ p \in Workers => Hands(p) /\ Loads(p)
         /\ p = Router => Routes
  BY DEF MarketInv, Tables, ProcOK, LedgerOK, LP!TypeOK

LEMMA InHand ==
  ASSUME MarketInv, NEW w \in Workers, at[w].pc \in Holding
  PROVE  /\ w \in Procs /\ w # Router /\ Mine(w) = at[w].job /\ Mine(w) \in Jobs
         /\ at[w] # Idle /\ Touches(w, Mine(w)) /\ JobOK(Mine(w))
         /\ job[Mine(w)].worker = w
<1>1. w \in Procs /\ w # Router
  BY ProcsAre
<1>2. at[w].job \in Jobs /\ (at[w].pc = "idle" <=> at[w] = Idle) /\ Hands(w)
  BY <1>1, AtPc, AtRest
<1>3. at[w] # Idle
  BY <1>2 DEF Holding, Before, Paying, Refusing
<1>4. JobOK(Mine(w))
  BY <1>2 DEF MarketInv, Mine
<1> QED
  BY <1>1, <1>2, <1>3, <1>4 DEF Touches, Mine, Hands

(* The process goes on to another step of its round.                       *)
LEMMA Moves ==
  ASSUME Tables, NEW p \in Procs, NEW r \in Rounds(p), at' = [at EXCEPT ![p] = r]
  PROVE  AtTyped' /\ at'[p] = r /\ \A q \in Procs \ {p} : at'[q] = at[q]
<1>1. at'[p] = r /\ \A q \in Procs \ {p} : at'[q] = at[q]
  BY DEF Tables, AtTyped
<1>2. at' \in [Procs -> UNION {Rounds(q) : q \in Procs}]
  BY DEF Tables, AtTyped
<1>3. \A q \in Procs : at'[q] \in Rounds(q)
  BY <1>1 DEF Tables, AtTyped
<1> QED
  BY <1>1, <1>2, <1>3 DEF AtTyped, Rounds

LEMMA GoesOn ==
  ASSUME Tables, NEW w \in Workers, NEW label, Goto(w, label),
         \/ at[w] \in Taken /\ label \in Before
         \/ at[w] \in Accepted /\ label \in Paying \cup {"unload"}
         \/ at[w] \in Refused /\ label \in Refusing \cup {"unload"}
  PROVE  /\ AtTyped' /\ at'[w].pc = label /\ at'[w].job = at[w].job
         /\ \A q \in Procs \ {w} : at'[q] = at[q]
<1> DEFINE r == [at[w] EXCEPT !.pc = label]
<1>1. w \in Procs /\ w # Router
  BY ProcsAre
<1>2. at' = [at EXCEPT ![w] = r]
  BY DEF Goto
<1>3. r \in Taken \cup Accepted \cup Refused /\ r.pc = label /\ r.job = at[w].job
  <2>1. CASE at[w] \in Taken /\ label \in Before
    BY <2>1 DEF Taken
  <2>2. CASE at[w] \in Accepted /\ label \in Paying \cup {"unload"}
    BY <2>2 DEF Accepted
  <2>3. CASE at[w] \in Refused /\ label \in Refusing \cup {"unload"}
    BY <2>3 DEF Refused
  <2> QED
    BY <2>1, <2>2, <2>3
<1> HIDE DEF r
<1>4. r \in Rounds(w)
  BY <1>1, <1>3 DEF Rounds
<1> QED
  BY <1>1, <1>2, <1>3, <1>4, Moves

LEMMA Returns ==
  ASSUME Tables, NEW p \in Procs, Return(p)
  PROVE  AtTyped' /\ at'[p] = Idle /\ \A q \in Procs \ {p} : at'[q] = at[q]
<1>1. Idle \in Rounds(p)
  BY DEF Rounds
<1> QED
  BY <1>1, Moves DEF Return

(* A process without a job in hand, and whose call is over.                *)
LEMMA FreeProc ==
  ASSUME NEW p \in Procs, at'[p].pc \in {"idle", "scan"}, op'[p] = Ledger!Idle,
         at'[p].pc = "scan" /\ p \in Workers => load'[p] = 0
  PROVE  ProcOK(p)'
  BY DEF ProcOK, Expires, Calls, Routes, Hands, Loads, Holding, Before, Paying, Refusing

----
\* What the ledger calls do to the rows of a process

LEMMA SettleBegins ==
  ASSUME op \in [Procs -> LP!Call], NEW p \in Procs, NEW j, NEW w, NEW q,
         Ledger!BeginSettle(p, j, w, q), escrow[j].status = "escrowed"
  PROVE  /\ op'[p].stage = "settle" /\ op'[p].job = j
         /\ \A r \in Procs \ {p} : op'[r] = op[r]
         /\ escrow' = escrow /\ paidOut' = paidOut
  BY DEF Ledger!BeginSettle

LEMMA CallJob ==
  ASSUME NEW call \in LP!Call
  PROVE  /\ call.stage \in {"settle", "settling"} => call \in LP!SettleCall /\ call.job \in Jobs
         /\ call.stage \in {"refund", "refunding", "marking"} =>
              call \in LP!RefundCall /\ call.job \in Jobs
         /\ call.stage \in {"settle", "settling", "settled", "refund", "refunding", "marking",
                            "refunded"} => call # Ledger!Idle
<1>1. LP!LedgerAssumption
  BY LedgerAssumed
<1>2. /\ call.stage \in {"settle", "settling"} => call \in LP!SettleCall
      /\ call.stage \in {"refund", "refunding", "marking"} => call \in LP!RefundCall
  BY <1>1, LP!CallByStage
<1>3. /\ call \in LP!SettleCall => call.job \in Jobs
      /\ call \in LP!RefundCall => call.job \in Jobs
  BY DEF LP!SettleCall, LP!RefundCall
<1>4. Ledger!Idle.stage = "idle"
  BY DEF Ledger!Idle
<1> QED
  BY <1>2, <1>3, <1>4

LEMMA SettleChecks ==
  ASSUME op \in [Procs -> LP!Call], NEW p \in Procs, Ledger!CheckSettle(p)
  PROVE  /\ op[p].stage = "settle" /\ op[p] # Ledger!Idle
         /\ op'[p] = Ledger!Idle \/ (op'[p].stage = "settling" /\ op'[p].job = op[p].job)
         /\ \A r \in Procs \ {p} : op'[r] = op[r]
         /\ escrow' = escrow /\ paidOut' = paidOut
<1>1. op[p].stage = "settle" /\ op[p] \in LP!Call
  BY DEF Ledger!CheckSettle
<1>2. op[p] \in LP!SettleCall /\ op[p] # Ledger!Idle
  BY <1>1, CallJob
<1>3. [op[p] EXCEPT !.stage = "settling"].stage = "settling"
      /\ [op[p] EXCEPT !.stage = "settling"].job = op[p].job
  BY <1>2 DEF LP!SettleCall
<1>4. op'[p] = Ledger!Idle \/ op'[p] = [op[p] EXCEPT !.stage = "settling"]
  BY DEF Ledger!CheckSettle
<1>5. /\ \A r \in Procs \ {p} : op'[r] = op[r]
      /\ escrow' = escrow /\ paidOut' = paidOut
  BY DEF Ledger!CheckSettle
<1> QED
  BY <1>1, <1>2, <1>3, <1>4, <1>5

LEMMA SettleCommits ==
  ASSUME op \in [Procs -> LP!Call], escrow \in [Jobs -> LP!RowType], paidOut \in [Jobs -> Nat],
         NEW p \in Procs, Ledger!CommitSettle(p)
  PROVE  /\ op[p].stage = "settling" /\ op[p] # Ledger!Idle /\ op'[p].stage = "settled"
         /\ \A r \in Procs \ {p} : op'[r] = op[r]
         /\ op[p].job \in Jobs /\ escrow'[op[p].job].status = "settled"
         /\ \A k \in Jobs \ {op[p].job} : escrow'[k] = escrow[k] /\ paidOut'[k] = paidOut[k]
<1>1. op[p].stage = "settling" /\ op[p] \in LP!Call
  BY DEF Ledger!CommitSettle
<1>2. op[p].job \in Jobs /\ op[p] # Ledger!Idle
  BY <1>1, CallJob
<1>3. PICK s, f, e, b : escrow' = [escrow EXCEPT ![op[p].job] =
               [@ EXCEPT !.settled = s, !.fee = f, !.payout = e, !.refunded = b,
                         !.status = "settled"]]
  BY DEF Ledger!CommitSettle
<1>4. escrow'[op[p].job].status = "settled"
  <2>1. escrow[op[p].job] \in LP!RowType
    BY <1>2
  <2> QED
    BY <1>2, <1>3, <2>1 DEF LP!RowType
<1>5. \A k \in Jobs \ {op[p].job} : escrow'[k] = escrow[k] /\ paidOut'[k] = paidOut[k]
  BY DEF Ledger!CommitSettle
<1>6. op'[p].stage = "settled" /\ \A r \in Procs \ {p} : op'[r] = op[r]
  BY DEF Ledger!CommitSettle
<1> QED
  BY <1>1, <1>2, <1>4, <1>5, <1>6

LEMMA Recorded ==
  ASSUME op \in [Procs -> LP!Call], NEW p \in Procs,
         Ledger!RecordSettlement(p) \/ Ledger!RecordRefund(p)
  PROVE  /\ op[p] # Ledger!Idle
         /\ Ledger!RecordSettlement(p) => op[p].stage = "settled"
         /\ Ledger!RecordRefund(p) => op[p].stage = "refunded"
         /\ op'[p] = Ledger!Idle /\ \A r \in Procs \ {p} : op'[r] = op[r]
         /\ escrow' = escrow /\ paidOut' = paidOut
  BY DEF Ledger!RecordSettlement, Ledger!RecordRefund, Ledger!Idle

LEMMA RefundBegins ==
  ASSUME op \in [Procs -> LP!Call], NEW p \in Procs, NEW j, NEW d, Ledger!BeginRefund(p, j, d)
  PROVE  /\ \/ escrow[j].status \in {"refunded", "settled"} /\ op'[p].stage = "refunded"
            \/ /\ escrow[j].status \in {"escrowed", "disputed"}
               /\ op'[p].stage = "refund" /\ op'[p].job = j
         /\ \A r \in Procs \ {p} : op'[r] = op[r]
         /\ escrow' = escrow /\ paidOut' = paidOut
  BY DEF Ledger!BeginRefund

LEMMA RefundChecks ==
  ASSUME op \in [Procs -> LP!Call], NEW p \in Procs, Ledger!CheckRefund(p)
  PROVE  /\ op[p].stage = "refund" /\ op[p] # Ledger!Idle
         /\ op'[p] = Ledger!Idle \/ (op'[p].stage = "refunding" /\ op'[p].job = op[p].job)
         /\ \A r \in Procs \ {p} : op'[r] = op[r]
         /\ escrow' = escrow /\ paidOut' = paidOut
<1>1. op[p].stage = "refund" /\ op[p] \in LP!Call
  BY DEF Ledger!CheckRefund
<1>2. op[p] \in LP!RefundCall /\ op[p] # Ledger!Idle
  BY <1>1, CallJob
<1>3. [op[p] EXCEPT !.stage = "refunding"].stage = "refunding"
      /\ [op[p] EXCEPT !.stage = "refunding"].job = op[p].job
  BY <1>2 DEF LP!RefundCall
<1>4. op'[p] = Ledger!Idle \/ op'[p] = [op[p] EXCEPT !.stage = "refunding"]
  BY DEF Ledger!CheckRefund
<1>5. /\ \A r \in Procs \ {p} : op'[r] = op[r]
      /\ escrow' = escrow /\ paidOut' = paidOut
  BY DEF Ledger!CheckRefund
<1> QED
  BY <1>1, <1>2, <1>3, <1>4, <1>5

LEMMA FundsReturn ==
  ASSUME op \in [Procs -> LP!Call], NEW p \in Procs, Ledger!CommitFunds(p)
  PROVE  /\ op[p].stage = "refunding" /\ op[p] # Ledger!Idle
         /\ op'[p].stage = "marking" /\ op'[p].job = op[p].job
         /\ \A r \in Procs \ {p} : op'[r] = op[r]
         /\ escrow' = escrow /\ paidOut' = paidOut
<1>1. op[p].stage = "refunding" /\ op[p] \in LP!Call
  BY DEF Ledger!CommitFunds
<1>2. op[p] \in LP!RefundCall /\ op[p] # Ledger!Idle
  BY <1>1, CallJob
<1>3. [op[p] EXCEPT !.stage = "marking"].stage = "marking"
      /\ [op[p] EXCEPT !.stage = "marking"].job = op[p].job
  BY <1>2 DEF LP!RefundCall
<1>4. op'[p] = [op[p] EXCEPT !.stage = "marking"]
  BY DEF Ledger!CommitFunds
<1>5. /\ \A r \in Procs \ {p} : op'[r] = op[r]
      /\ escrow' = escrow /\ paidOut' = paidOut
  BY DEF Ledger!CommitFunds
<1> QED
  BY <1>1, <1>2, <1>3, <1>4, <1>5

LEMMA RefundMarks ==
  ASSUME op \in [Procs -> LP!Call], escrow \in [Jobs -> LP!RowType],
         NEW p \in Procs, Ledger!MarkRefund(p)
  PROVE  /\ op[p].stage = "marking" /\ op[p] # Ledger!Idle /\ op'[p].stage = "refunded"
         /\ \A r \in Procs \ {p} : op'[r] = op[r]
         /\ op[p].job \in Jobs /\ escrow'[op[p].job].status \in {"refunded", "disputed"}
         /\ \A k \in Jobs \ {op[p].job} : escrow'[k] = escrow[k]
         /\ paidOut' = paidOut
<1>1. op[p].stage = "marking" /\ op[p] \in LP!Call
  BY DEF Ledger!MarkRefund
<1>2. op[p].job \in Jobs /\ op[p] # Ledger!Idle
  BY <1>1, CallJob
<1>3. PICK a, status : /\ status \in {"refunded", "disputed"}
                       /\ escrow' = [escrow EXCEPT ![op[p].job] =
                                       [@ EXCEPT !.refunded = a, !.status = status]]
  BY DEF Ledger!MarkRefund
<1>4. escrow'[op[p].job].status = status
  <2>1. escrow[op[p].job] \in LP!RowType
    BY <1>2
  <2> QED
    BY <1>2, <1>3, <2>1 DEF LP!RowType
<1>5. \A k \in Jobs \ {op[p].job} : escrow'[k] = escrow[k]
  BY <1>3
<1>6. op'[p].stage = "refunded" /\ (\A r \in Procs \ {p} : op'[r] = op[r]) /\ paidOut' = paidOut
  BY DEF Ledger!MarkRefund
<1> QED
  BY <1>1, <1>2, <1>3, <1>4, <1>5, <1>6

----
\* Expiry

LEMMA ScanKeeps ==
  ASSUME MarketInv, NEW p \in Procs, Scan(p), LedgerOK'
  PROVE  MarketInv'
<1> DEFINE r == [pc |-> "expire", rows |-> {j \in due : job[j].status \in Open}]
<1>1. Tables /\ Calls(p) /\ at[p] # Idle /\ at[p].pc \notin Paying
  BY AtRest DEF Scan, Idle, Paying
<1>2. due \subseteq Jobs
  BY <1>1, MarketAssumption DEF Tables, RowsTyped
<1>3. r \in Rounds(p)
  BY <1>2 DEF Rounds, Expiring
<1>4. at' = [at EXCEPT ![p] = r]
  BY DEF Scan, Open
<1>5. /\ r.pc = "expire" /\ r.rows \subseteq due /\ \A j \in r.rows : job[j].status \in Open
      /\ DOMAIN r = {"pc", "rows"}
  OBVIOUS
<1> HIDE DEF r
<1>6. AtTyped' /\ at'[p] = r /\ \A q \in Procs \ {p} : at'[q] = at[q]
  BY <1>1, <1>3, <1>4, Moves
<1>7. UNCHANGED <<ledgerVars, regime, jobVars, due, workerVars, payVars, crashes>>
  BY DEF Scan
<1>8. Focus(p, {})
  BY <1>6, <1>7 DEF Focus, ledgerVars, jobVars, workerVars, payVars
<1>9. ProcOK(p)'
  <2>1. Expires(p)'
    BY <1>5, <1>6, <1>7 DEF Expires, jobVars
  <2>2. Calls(p)'
    BY <1>1, <1>5, <1>6, <1>7 DEF Calls, Scan, ledgerVars
  <2>3. p = Router => Routes'
    BY <1>5, <1>6 DEF Routes
  <2>4. p \in Workers => Hands(p)' /\ Loads(p)'
    BY <1>5, <1>6, <1>7, AtRest
       DEF Hands, Loads, Holding, Before, Paying, Refusing, Scan, workerVars
  <2> QED
    BY <2>1, <2>2, <2>3, <2>4 DEF ProcOK
<1>10. Tables'
  BY <1>1, <1>6, <1>7
     DEF Tables, RowsTyped, jobVars, workerVars, payVars
<1>11. crashes' >= crashes
  BY <1>1, <1>7 DEF Tables, RowsTyped
<1> QED
  BY <1>1, <1>8, <1>9, <1>10, <1>11, StepKeeps

(* A job that a process expires has not been paid for, unless somebody was *)
(* killed.                                                                 *)
LEMMA NotPaidYet ==
  ASSUME MarketInv, NEW p \in Procs, at[p].pc = "expiring"
  PROVE  paidOut[Mine(p)] = 0 \/ crashes > 0
<1>1. Mine(p) \in Jobs /\ Touches(p, Mine(p)) /\ JobOK(Mine(p)) /\ Expires(p)
  BY AtRest, AtPc DEF Touches, Mine, MarketInv
<1>2. job[Mine(p)].status \in Open \cup {"expired"}
  BY <1>1 DEF Expires
<1>3. CASE job[Mine(p)].status \in {"queued", "routed"}
  BY <1>1, <1>3 DEF JobOK
<1>4. CASE job[Mine(p)].status = "expired"
  BY <1>1, <1>4 DEF JobOK
<1>5. CASE job[Mine(p)].status = "running"
  <2>1. job[Mine(p)].worker \in Workers
    BY <1>1, <1>5 DEF JobOK
  <2>2. ~BeingPaid(Mine(p))
    <3>1. SUFFICES ASSUME BeingPaid(Mine(p)) PROVE FALSE
      OBVIOUS
    <3> DEFINE w == job[Mine(p)].worker
    <3>2. w \in Procs /\ w # p /\ Touches(w, Mine(p))
      BY <2>1, <3>1, ProcsAre DEF BeingPaid, Touches, Mine, Holding, Paying
    <3> HIDE DEF w
    <3> QED
      BY <1>1, <3>2, OneHolder
  <2> QED
    BY <1>1, <1>5, <2>2 DEF JobOK
<1> QED
  BY <1>2, <1>3, <1>4, <1>5 DEF Open

LEMMA ExpireBegins ==
  ASSUME MarketInv, NEW p \in Procs, LedgerOK', at[p].pc = "expire", NEW j \in at[p].rows,
         Ledger!BeginRefund(p, j, FALSE),
         at' = [at EXCEPT ![p] = [pc |-> "expiring", rows |-> @.rows \ {j}, job |-> j]],
         UNCHANGED <<regime, jobVars, due, workerVars, payVars, crashes>>
  PROVE  MarketInv'
<1> DEFINE r == [pc |-> "expiring", rows |-> at[p].rows \ {j}, job |-> j]
<1>1. Tables /\ Expires(p) /\ at[p] # Idle /\ at[p].pc \notin Paying /\ at[p].rows \subseteq Jobs
  BY AtRest, AtPc DEF Idle, Paying
<1>2. r \in Rounds(p)
  BY <1>1 DEF Rounds, Expiring
<1>3. r.pc = "expiring" /\ r.rows = at[p].rows \ {j} /\ r.job = j
  OBVIOUS
<1>4. at' = [at EXCEPT ![p] = r]
  OBVIOUS
<1> HIDE DEF r
<1>5. AtTyped' /\ at'[p] = r /\ \A q \in Procs \ {p} : at'[q] = at[q]
  BY <1>1, <1>2, <1>4, Moves
<1>6. /\ \/ escrow[j].status \in {"refunded", "settled"} /\ op'[p].stage = "refunded"
         \/ /\ escrow[j].status \in {"escrowed", "disputed"}
            /\ op'[p].stage = "refund" /\ op'[p].job = j
      /\ \A q \in Procs \ {p} : op'[q] = op[q]
      /\ escrow' = escrow /\ paidOut' = paidOut
  BY AtRest, RefundBegins
<1>7. Focus(p, {})
  BY <1>5, <1>6 DEF Focus, jobVars, workerVars, payVars
<1>8. job[j].status \in Open /\ at[p].rows \subseteq due
      /\ \A k \in at[p].rows : job[k].status \in Open
  BY <1>1 DEF Expires
<1>9. ProcOK(p)'
  <2>1. Expires(p)'
    BY <1>3, <1>5, <1>8 DEF Expires, Mine, jobVars
  <2>2. Calls(p)'
    BY <1>3, <1>5, <1>6, <1>8 DEF Calls, ExpiryCall, Mine, Open, jobVars
  <2>3. p = Router => Routes'
    BY <1>3, <1>5 DEF Routes
  <2>4. p \in Workers => Hands(p)' /\ Loads(p)'
    BY <1>3, <1>5, AtRest DEF Hands, Loads, Holding, Before, Paying, Refusing, workerVars
  <2> QED
    BY <2>1, <2>2, <2>3, <2>4 DEF ProcOK
<1>10. Tables' /\ crashes' >= crashes
  BY <1>1, <1>5 DEF Tables, RowsTyped, jobVars, workerVars, payVars
<1> QED
  BY <1>1, <1>7, <1>9, <1>10, StepKeeps

(* From now on the process has a job that it expires.                      *)
LEMMA AtExpiring ==
  ASSUME MarketInv, NEW p \in Procs, at[p].pc = "expiring"
  PROVE  /\ Tables /\ Expires(p) /\ ExpiryCall(p) /\ at[p] # Idle /\ at[p].pc \notin Paying
         /\ Mine(p) = at[p].job /\ Mine(p) \in Jobs /\ Touches(p, Mine(p)) /\ JobOK(Mine(p))
         /\ at[p] \in Expiring /\ Mine(p) \notin at[p].rows
  BY AtRest, AtPc DEF Idle, Paying, Touches, Mine, MarketInv, Calls, Expires

LEMMA ExpiryGoesOn ==
  ASSUME MarketInv, NEW p \in Procs, LedgerOK', at[p].pc = "expiring",
         Ledger!CheckRefund(p) \/ Ledger!MarkRefund(p),
         UNCHANGED <<regime, jobVars, at, due, workerVars, payVars, crashes>>
  PROVE  MarketInv'
<1>0. PICK j \in Jobs : j = Mine(p)
  BY AtExpiring
<1>1. /\ Tables /\ Expires(p) /\ ExpiryCall(p) /\ at[p] # Idle /\ at[p].pc \notin Paying
      /\ Touches(p, j) /\ JobOK(j)
  BY <1>0, AtExpiring
<1>2. \/ /\ op[p].stage = "refund" /\ op[p] # Ledger!Idle
         /\ op'[p] = Ledger!Idle \/ (op'[p].stage = "refunding" /\ op'[p].job = op[p].job)
         /\ escrow' = escrow
      \/ /\ op[p].stage = "marking" /\ op[p] # Ledger!Idle /\ op'[p].stage = "refunded"
         /\ escrow'[op[p].job].status \in {"refunded", "disputed"}
         /\ \A k \in Jobs \ {op[p].job} : escrow'[k] = escrow[k]
  BY AtRest, RefundChecks, RefundMarks
<1>3. paidOut' = paidOut /\ \A q \in Procs \ {p} : op'[q] = op[q]
  BY AtRest, RefundChecks, RefundMarks
<1>4. /\ op[p].job = j /\ escrow[j].status \in {"escrowed", "disputed"}
      /\ op[p].stage = "marking" <=> job[j].status = "expired"
  BY <1>0, <1>1, <1>2 DEF ExpiryCall
<1>5. j \in Jobs /\ \A k \in Jobs \ {j} : escrow'[k] = escrow[k]
  BY <1>1, <1>2, <1>4
<1>6. Focus(p, {j})
  BY <1>3, <1>5 DEF Focus, jobVars, workerVars, payVars
<1>7. ProcOK(p)'
  <2>1. Calls(p)'
    BY <1>0, <1>2, <1>4 DEF Calls, ExpiryCall, Mine, jobVars
  <2>2. Expires(p)' /\ (p = Router => Routes') /\ (p \in Workers => Hands(p)' /\ Loads(p)')
    BY <1>1, AtRest DEF Expires, Routes, Hands, Loads, Holding, Before, Paying, Refusing,
                        jobVars, workerVars, Mine
  <2> QED
    BY <2>1, <2>2 DEF ProcOK
<1>8. JobOK(j)'
  <2>1. CASE escrow' = escrow
    BY <1>1, <1>3, <2>1, AtRest DEF JobOK, jobVars, payVars, BeingPaid
  <2>2. CASE job[j].status = "expired" /\ escrow'[j].status \in {"refunded", "disputed"}
    BY <1>1, <1>3, <1>4, <2>2 DEF JobOK, jobVars, payVars
  <2> QED
    BY <1>2, <1>4, <2>1, <2>2
<1>9. Tables' /\ crashes' >= crashes
  BY <1>1 DEF Tables, RowsTyped, AtTyped, Rounds, jobVars, workerVars, payVars
<1> QED
  BY <1>1, <1>6, <1>7, <1>8, <1>9, StepKeeps

(* The job of p expires: with the funds, or after a refund that had been   *)
(* made before.                                                            *)
LEMMA JobExpires ==
  ASSUME MarketInv, NEW p \in Procs, LedgerOK', at[p].pc = "expiring",
         SetStatus(Mine(p), "expired"), escrow' = escrow, paidOut' = paidOut,
         \A q \in Procs \ {p} : op'[q] = op[q],
         UNCHANGED <<regime, due, workerVars, payVars, crashes>>,
         \/ /\ UNCHANGED at /\ op'[p].stage = "marking" /\ op'[p].job = Mine(p)
            /\ escrow[Mine(p)].status \in {"escrowed", "disputed"}
         \/ Goto(p, "expire") /\ op'[p] = Ledger!Idle
  PROVE  MarketInv'
<1>5. PICK j \in Jobs : j = Mine(p)
  BY AtExpiring
<1> DEFINE r == [at[p] EXCEPT !.pc = "expire"]
<1>1. /\ Tables /\ Expires(p) /\ at[p] # Idle /\ at[p].pc \notin Paying
      /\ j = at[p].job /\ Touches(p, j) /\ JobOK(j)
      /\ at[p] \in Expiring /\ j \notin at[p].rows
  BY <1>5, AtExpiring
<1>2. paidOut[j] = 0 \/ crashes > 0
  BY <1>5, NotPaidYet
<1>3. /\ job'[j].status = "expired" /\ job'[j].worker = job[j].worker
      /\ \A k \in Jobs \ {j} : job'[k] = job[k]
      /\ job' \in [Jobs -> [status : Statuses, worker : Workers \cup {NoWorker}]]
      /\ audit' = audit
  BY <1>1, <1>5 DEF SetStatus, Tables, RowsTyped, Statuses
<1>4. /\ AtTyped' /\ \A q \in Procs \ {p} : at'[q] = at[q]
      /\ at'[p].rows = at[p].rows /\ at'[p].job = at[p].job
      /\ \/ at'[p] = at[p] /\ op'[p].stage = "marking" /\ op'[p].job = j
            /\ escrow[j].status \in {"escrowed", "disputed"}
         \/ at'[p].pc = "expire" /\ op'[p] = Ledger!Idle
  <2>1. CASE UNCHANGED at
    <3>1. AtTyped'
      BY <1>1, <2>1 DEF Tables, AtTyped
    <3>2. Goto(p, "expire") => at'[p].pc = "expire"
      <4>1. p \in DOMAIN at /\ "pc" \in DOMAIN at[p]
        BY <1>1 DEF Tables, AtTyped, Expiring
      <4> QED
        BY <4>1 DEF Goto
    <3> QED
      BY <1>5, <2>1, <3>1, <3>2
  <2>2. CASE Goto(p, "expire") /\ op'[p] = Ledger!Idle
    <3>1. r \in Expiring /\ r.pc = "expire" /\ r.rows = at[p].rows /\ r.job = at[p].job
      BY <1>1 DEF Expiring
    <3>2. at' = [at EXCEPT ![p] = r]
      BY <2>2 DEF Goto
    <3> HIDE DEF r
    <3>3. r \in Rounds(p)
      BY <3>1 DEF Rounds
    <3> QED
      BY <1>1, <2>2, <3>1, <3>2, <3>3, Moves
  <2> QED
    BY <2>1, <2>2
<1> HIDE DEF r
<1>6. Focus(p, {j})
  BY <1>3, <1>4 DEF Focus, workerVars, payVars
<1>7. ProcOK(p)'
  <2>1. Expires(p)'
    BY <1>1, <1>3, <1>4, <1>5, MarketAssumption DEF Expires, Mine, Open, Tables, RowsTyped
  <2>2. Calls(p)'
    BY <1>1, <1>3, <1>4, <1>5 DEF Calls, ExpiryCall, Mine
  <2>3. at'[p].pc \in {"expire", "expiring"}
    BY <1>4
  <2>4. (p = Router => Routes') /\ (p \in Workers => Hands(p)' /\ Loads(p)')
    BY <2>3, AtRest DEF Routes, Hands, Loads, Holding, Before, Paying, Refusing, workerVars
  <2> QED
    BY <2>1, <2>2, <2>4 DEF ProcOK
<1>8. JobOK(j)'
  BY <1>1, <1>2, <1>3 DEF JobOK
<1>9. Tables' /\ crashes' >= crashes
  BY <1>1, <1>3, <1>4 DEF Tables, RowsTyped, workerVars, payVars
<1> QED
  BY <1>1, <1>6, <1>7, <1>8, <1>9, StepKeeps

LEMMA ExpireKeeps ==
  ASSUME MarketInv, NEW p \in Procs, ExpireJob(p), LedgerOK'
  PROVE  MarketInv'
<1>1. UNCHANGED <<regime, due, workerVars, payVars, crashes>>
  BY DEF ExpireJob
<1>2. ASSUME at[p].pc = "expire", NEW j \in at[p].rows, Ledger!BeginRefund(p, j, FALSE),
             at' = [at EXCEPT ![p] = [pc |-> "expiring", rows |-> @.rows \ {j}, job |-> j]],
             UNCHANGED jobVars
      PROVE  MarketInv'
  BY <1>1, <1>2, ExpireBegins
<1>3. ASSUME at[p].pc = "expiring", Ledger!CheckRefund(p) \/ Ledger!MarkRefund(p),
             UNCHANGED <<jobVars, at>>
      PROVE  MarketInv'
  BY <1>1, <1>3, ExpiryGoesOn
<1>4. ASSUME at[p].pc = "expiring", Ledger!CommitFunds(p), SetStatus(Mine(p), "expired"),
             UNCHANGED at
      PROVE  MarketInv'
  <2>1. /\ op[p].stage = "refunding" /\ op[p] # Ledger!Idle
        /\ op'[p].stage = "marking" /\ op'[p].job = op[p].job
        /\ \A q \in Procs \ {p} : op'[q] = op[q]
        /\ escrow' = escrow /\ paidOut' = paidOut
    BY <1>4, AtRest, FundsReturn
  <2>2. op[p].job = Mine(p) /\ escrow[Mine(p)].status \in {"escrowed", "disputed"}
    BY <1>4, <2>1, AtExpiring DEF ExpiryCall
  <2> QED
    BY <1>1, <1>4, <2>1, <2>2, JobExpires
<1>5. ASSUME at[p].pc = "expiring", Ledger!RecordRefund(p), SetStatus(Mine(p), "expired"),
             Goto(p, "expire")
      PROVE  MarketInv'
  <2>1. /\ op'[p] = Ledger!Idle /\ \A q \in Procs \ {p} : op'[q] = op[q]
        /\ escrow' = escrow /\ paidOut' = paidOut
    BY <1>5, AtRest, Recorded
  <2> QED
    BY <1>1, <1>5, <2>1, JobExpires
<1> QED
  BY <1>2, <1>3, <1>4, <1>5 DEF ExpireJob

----
\* The router

(* A process that returns, or begins a round: nothing else changes.        *)
LEMMA RoundEnds ==
  ASSUME MarketInv, NEW p \in Procs, LedgerOK', Return(p), at[p] # Idle,
         op'[p] = Ledger!Idle, \A q \in Procs \ {p} : op'[q] = op[q],
         UNCHANGED <<escrow, paidOut, regime, jobVars, due, online, payVars>>,
         load' \in [Workers -> 0..1], \A w \in Workers \ {p} : load'[w] = load[w],
         crashes' \in Nat, crashes' >= crashes,
         crashes' > 0 \/ at[p].pc \notin Paying
  PROVE  MarketInv'
<1>1. Tables
  BY AtRest
<1>2. AtTyped' /\ at'[p] = Idle /\ \A q \in Procs \ {p} : at'[q] = at[q]
  BY <1>1, Returns
<1>3. ProcOK(p)'
  BY <1>2, FreeProc DEF Idle
<1>4. Focus(p, {})
  BY <1>2 DEF Focus, jobVars, payVars
<1>5. Tables'
  BY <1>1, <1>2 DEF Tables, RowsTyped, jobVars, payVars
<1> QED
  BY <1>3, <1>4, <1>5, StepKeeps

LEMMA RouterBegins ==
  ASSUME MarketInv, BeginRoute, LedgerOK'
  PROVE  MarketInv'
<1>1. Router \in Procs /\ Tables /\ Calls(Router)
  BY ProcsAre, AtRest
<1>2. [pc |-> "scan"] \in Rounds(Router)
  BY DEF Rounds, Expiring
<1>3. AtTyped' /\ at'[Router] = [pc |-> "scan"] /\ \A q \in Procs \ {Router} : at'[q] = at[q]
  BY <1>1, <1>2, Moves DEF BeginRoute
<1>4. UNCHANGED <<ledgerVars, regime, jobVars, due, workerVars, payVars, crashes>>
  BY DEF BeginRoute
<1>5. MayBegin(Router) /\ at[Router] = Idle
  BY DEF BeginRoute, MayBegin
<1>6. at[Router].pc = "idle" /\ op[Router] = Ledger!Idle
  BY <1>1, <1>5 DEF Calls, Idle
<1>7. ProcOK(Router)'
  BY <1>1, <1>3, <1>4, <1>6, FreeProc, ProcsAre DEF ledgerVars
<1>8. Focus(Router, {}) /\ at[Router].pc \notin Paying
  BY <1>3, <1>4, <1>6 DEF Focus, ledgerVars, jobVars, workerVars, payVars, Paying
<1>9. Tables' /\ crashes' >= crashes
  BY <1>1, <1>3, <1>4 DEF Tables, RowsTyped, jobVars, workerVars, payVars
<1> QED
  BY <1>1, <1>5, <1>7, <1>8, <1>9, StepKeeps

LEMMA RouterLists ==
  ASSUME MarketInv, ListQueued, LedgerOK'
  PROVE  MarketInv'
<1> DEFINE r == [pc |-> "route", free |-> {w \in online \cap regime.serves : load[w] = 0},
                 jobs |-> {j \in Jobs : job[j].status = "queued"}]
<1>1. /\ Router \in Procs /\ Router \notin Workers
      /\ Tables /\ Calls(Router) /\ at[Router].pc = "expire" /\ at[Router] # Idle
  BY ProcsAre, AtRest DEF ListQueued, Idle
<1>2. online \subseteq Workers
  BY <1>1 DEF Tables, RowsTyped
<1>3. /\ r \in Routing /\ r.pc = "route" /\ \A j \in r.jobs : job[j].status = "queued"
      /\ at' = [at EXCEPT ![Router] = r]
  BY <1>2 DEF ListQueued, Routing
<1> HIDE DEF r
<1>4. r \in Rounds(Router)
  BY <1>3 DEF Rounds
<1>5. AtTyped' /\ at'[Router] = r /\ \A q \in Procs \ {Router} : at'[q] = at[q]
  BY <1>1, <1>3, <1>4, Moves
<1>6. UNCHANGED <<ledgerVars, regime, jobVars, due, workerVars, payVars, crashes>>
  BY DEF ListQueued
<1>7. ProcOK(Router)'
  BY <1>1, <1>3, <1>5, <1>6 DEF ProcOK, Expires, Calls, Routes, ledgerVars, jobVars
<1>8. Focus(Router, {}) /\ at[Router].pc \notin Paying
  BY <1>1, <1>5, <1>6 DEF Focus, ledgerVars, jobVars, workerVars, payVars, Paying
<1>9. Tables' /\ crashes' >= crashes
  BY <1>1, <1>5, <1>6 DEF Tables, RowsTyped, jobVars, workerVars, payVars
<1> QED
  BY <1>1, <1>7, <1>8, <1>9, StepKeeps

LEMMA RouterDecides ==
  ASSUME MarketInv, DecideRoute, LedgerOK'
  PROVE  MarketInv'
<1>1. /\ Router \in Procs /\ Router \notin Workers
      /\ Tables /\ Calls(Router) /\ Routes /\ at[Router].pc = "route" /\ at[Router] # Idle
  BY ProcsAre, AtRest DEF DecideRoute, Idle
<1>2. at[Router].jobs \subseteq Jobs /\ at[Router].free \subseteq Workers
  BY <1>1, AtPc
<1>3. PICK j \in at[Router].jobs : \E choice \in Choices(j) :
        /\ LogDecision(j, choice)
        /\ at' = [at EXCEPT ![Router] = [pc |-> "assign", free |-> @.free, jobs |-> @.jobs,
                                         job |-> j, choice |-> choice]]
  BY DEF DecideRoute
<1>4. PICK choice \in Choices(j) :
        /\ LogDecision(j, choice)
        /\ at' = [at EXCEPT ![Router] = [pc |-> "assign", free |-> @.free, jobs |-> @.jobs,
                                         job |-> j, choice |-> choice]]
  BY <1>3
<1>5. j \in Jobs /\ choice \in Workers \cup {NoWorker} /\ job[j].status = "queued"
  BY <1>1, <1>2, <1>3, <1>4 DEF Choices, Routes
<1> DEFINE r == [pc |-> "assign", free |-> at[Router].free, jobs |-> at[Router].jobs,
                 job |-> j, choice |-> choice]
<1>6. /\ r \in Routing /\ r.pc = "assign" /\ r.jobs = at[Router].jobs /\ r.job = j
      /\ r.choice = choice /\ at' = [at EXCEPT ![Router] = r]
  BY <1>2, <1>4, <1>5 DEF Routing
<1> HIDE DEF r
<1>7. r \in Rounds(Router)
  BY <1>6 DEF Rounds
<1>8. AtTyped' /\ at'[Router] = r /\ \A q \in Procs \ {Router} : at'[q] = at[q]
  BY <1>1, <1>6, <1>7, Moves
<1>9. UNCHANGED <<ledgerVars, regime, job, due, workerVars, payVars, crashes>>
  BY DEF DecideRoute
<1>10. /\ audit'[j] = choice /\ \A k \in Jobs \ {j} : audit'[k] = audit[k]
       /\ audit' \in [Jobs -> Workers \cup {NoWorker, Undecided}]
  BY <1>1, <1>4, <1>5 DEF LogDecision, Tables, RowsTyped
<1>11. ProcOK(Router)'
  BY <1>1, <1>3, <1>6, <1>8, <1>9, <1>10
     DEF ProcOK, Expires, Calls, Routes, ledgerVars
<1>12. Focus(Router, {j}) /\ at[Router].pc \notin Paying /\ Touches(Router, j)
  BY <1>1, <1>3, <1>8, <1>9, <1>10
     DEF Focus, ledgerVars, workerVars, payVars, Paying, Touches
<1>13. JobOK(j)'
  <2>1. JobOK(j)
    BY <1>5 DEF MarketInv
  <2> QED
    BY <1>5, <1>9, <2>1 DEF JobOK, ledgerVars, payVars
<1>14. Tables' /\ crashes' >= crashes
  BY <1>1, <1>8, <1>9, <1>10 DEF Tables, RowsTyped, workerVars, payVars
<1> QED
  BY <1>1, <1>5, <1>11, <1>12, <1>13, <1>14, StepKeeps

LEMMA RouterRoutes ==
  ASSUME MarketInv, RouteJob, LedgerOK'
  PROVE  MarketInv'
<1>1. /\ Router \in Procs /\ Router \notin Workers
      /\ Tables /\ Calls(Router) /\ Routes /\ at[Router].pc = "assign" /\ at[Router] # Idle
  BY ProcsAre, AtRest DEF RouteJob, Idle
<1>2. at[Router].jobs \subseteq Jobs /\ at[Router].free \subseteq Workers
  BY <1>1, AtPc
<1>3. PICK j \in Jobs : j = at[Router].job
  BY <1>1, AtPc
<1>4. PICK choice \in Workers \cup {NoWorker} : choice = at[Router].choice
  BY <1>1, AtPc
<1>5. job[j].status = "queued" /\ j \in at[Router].jobs /\ audit[j] = choice
  BY <1>1, <1>3, <1>4 DEF Routes
<1> DEFINE r == [pc |-> "route", free |-> at[Router].free, jobs |-> at[Router].jobs \ {j}]
<1>6. /\ r \in Routing /\ r.pc = "route" /\ r.jobs = at[Router].jobs \ {j}
      /\ at' = [at EXCEPT ![Router] = r]
  BY <1>2, <1>3 DEF RouteJob, Routing
<1> HIDE DEF r
<1>7. r \in Rounds(Router)
  BY <1>6 DEF Rounds
<1>8. AtTyped' /\ at'[Router] = r /\ \A q \in Procs \ {Router} : at'[q] = at[q]
  BY <1>1, <1>6, <1>7, Moves
<1>9. UNCHANGED <<ledgerVars, regime, audit, due, workerVars, payVars, crashes>>
  BY DEF RouteJob
<1>10. \/ choice = NoWorker /\ job' = [job EXCEPT ![j] = [status |-> "rejected", worker |-> NoWorker]]
       \/ choice \in Workers /\ job' = [job EXCEPT ![j] = [status |-> "routed", worker |-> choice]]
  BY <1>3, <1>4 DEF RouteJob, AssignJob
<1>11. /\ job'[j].worker = choice
       /\ \/ job'[j].status = "routed" /\ choice \in Workers
          \/ job'[j].status = "rejected"
       /\ \A k \in Jobs \ {j} : job'[k] = job[k]
       /\ job' \in [Jobs -> [status : Statuses, worker : Workers \cup {NoWorker}]]
  BY <1>1, <1>10 DEF Tables, RowsTyped, Statuses
<1>12. ProcOK(Router)'
  BY <1>1, <1>2, <1>6, <1>8, <1>9, <1>11
     DEF ProcOK, Expires, Calls, Routes, ledgerVars
<1>13. Focus(Router, {j}) /\ at[Router].pc \notin Paying /\ Touches(Router, j)
  BY <1>1, <1>5, <1>8, <1>9, <1>11
     DEF Focus, ledgerVars, workerVars, payVars, Paying, Touches
<1>14. JobOK(j)'
  <2>1. JobOK(j)
    BY DEF MarketInv
  <2> QED
    BY <1>5, <1>9, <1>11, <2>1 DEF JobOK, ledgerVars, payVars
<1>15. Tables' /\ crashes' >= crashes
  BY <1>1, <1>8, <1>9, <1>11 DEF Tables, RowsTyped, workerVars, payVars
<1> QED
  BY <1>1, <1>12, <1>13, <1>14, <1>15, StepKeeps

LEMMA RouterEnds ==
  ASSUME MarketInv, EndRoute, LedgerOK'
  PROVE  MarketInv'
<1>1. Router \in Procs /\ Calls(Router) /\ Tables
  BY ProcsAre, AtRest
<1>2. at[Router].pc = "route" /\ at[Router] # Idle /\ op[Router] = Ledger!Idle
  BY <1>1 DEF EndRoute, Idle, Calls
<1>3. crashes \in Nat /\ load \in [Workers -> 0..1]
  BY <1>1 DEF Tables, RowsTyped
<1> QED
  BY <1>1, <1>2, <1>3, RoundEnds DEF EndRoute, ledgerVars, workerVars, Paying

----
\* A daemon

LEMMA DaemonBegins ==
  ASSUME MarketInv, NEW w \in Workers, BeginRound(w), LedgerOK'
  PROVE  MarketInv'
<1>1. w \in Procs /\ w # Router /\ Tables /\ Calls(w)
  BY ProcsAre, AtRest
<1>2. [pc |-> "scan"] \in Rounds(w)
  BY DEF Rounds, Expiring
<1>3. AtTyped' /\ at'[w] = [pc |-> "scan"] /\ \A q \in Procs \ {w} : at'[q] = at[q]
  BY <1>1, <1>2, Moves DEF BeginRound
<1>4. UNCHANGED <<ledgerVars, regime, jobVars, due, payVars, crashes>>
  BY DEF BeginRound
<1>5. MayBegin(w) /\ at[w] = Idle
  BY DEF BeginRound, MayBegin
<1>6. at[w].pc = "idle" /\ op[w] = Ledger!Idle
  BY <1>1, <1>5 DEF Calls, Idle
<1>7. /\ load' = [load EXCEPT ![w] = 0] /\ load' \in [Workers -> 0..1]
      /\ online' \subseteq Workers
  BY <1>1 DEF BeginRound, Tables, RowsTyped
<1>8. load'[w] = 0 /\ \A v \in Workers \ {w} : load'[v] = load[v]
  BY <1>1, <1>7 DEF Tables, RowsTyped
<1>9. ProcOK(w)'
  BY <1>1, <1>3, <1>4, <1>6, <1>8, FreeProc DEF ledgerVars
<1>10. Focus(w, {}) /\ at[w].pc \notin Paying
  BY <1>3, <1>4, <1>6, <1>8 DEF Focus, ledgerVars, jobVars, payVars, Paying
<1>11. Tables' /\ crashes' >= crashes
  BY <1>1, <1>3, <1>4, <1>7 DEF Tables, RowsTyped, jobVars, payVars
<1> QED
  BY <1>1, <1>5, <1>9, <1>10, <1>11, StepKeeps

LEMMA DaemonFinds ==
  ASSUME MarketInv, NEW w \in Workers, FindJob(w), LedgerOK'
  PROVE  MarketInv'
<1>1. w \in Procs /\ w # Router /\ Tables /\ Calls(w) /\ Loads(w)
  BY ProcsAre, AtRest
<1>2. at[w].pc = "expire" /\ at[w] # Idle /\ op[w] = Ledger!Idle /\ load[w] = 0
  BY <1>1 DEF FindJob, Idle, Calls, Loads
<1>3. UNCHANGED <<ledgerVars, regime, jobVars, due, workerVars, payVars, crashes>>
  BY DEF FindJob
<1>4. crashes \in Nat /\ load \in [Workers -> 0..1]
  BY <1>1 DEF Tables, RowsTyped
<1>5. CASE Return(w)
  BY <1>1, <1>2, <1>3, <1>4, <1>5, RoundEnds DEF ledgerVars, workerVars, Paying
<1>6. ASSUME NEW j \in Assigned(w), at' = [at EXCEPT ![w] = [pc |-> "take", job |-> j]]
      PROVE  MarketInv'
  <2> DEFINE r == [pc |-> "take", job |-> j]
  <2>1. j \in Jobs /\ job[j].status = "routed" /\ job[j].worker = w /\ JobOK(j)
    BY <1>6 DEF Assigned, MarketInv
  <2>2. r \in Taken /\ r.pc = "take" /\ r.job = j
    BY <2>1 DEF Taken, Before
  <2> HIDE DEF r
  <2>3. r \in Rounds(w)
    BY <1>1, <2>2 DEF Rounds
  <2>4. AtTyped' /\ at'[w] = r /\ \A q \in Procs \ {w} : at'[q] = at[q]
    BY <1>1, <1>6, <2>3, Moves DEF r
  <2>5. ProcOK(w)'
    <3>1. Hands(w)'
      BY <1>3, <2>1, <2>2, <2>4
         DEF Hands, JobOK, Mine, Holding, Before, Paying, Refusing, ledgerVars, jobVars, payVars
    <3> QED
      BY <1>1, <1>2, <1>3, <2>2, <2>4, <3>1 DEF ProcOK, Expires, Calls, Loads, Holding, Before,
         Paying, Refusing, ledgerVars, workerVars
  <2>6. Focus(w, {}) /\ at[w].pc \notin Paying
    BY <1>2, <1>3, <2>4 DEF Focus, ledgerVars, jobVars, workerVars, payVars, Paying
  <2>7. Tables' /\ crashes' >= crashes
    BY <1>1, <1>3, <2>4 DEF Tables, RowsTyped, jobVars, workerVars, payVars
  <2> QED
    BY <1>1, <1>2, <2>5, <2>6, <2>7, StepKeeps
<1> QED
  BY <1>5, <1>6 DEF FindJob

(* A step of a daemon on the job j in its hands: what remains to be shown. *)
LEMMA HandStep ==
  ASSUME MarketInv, NEW w \in Workers, at[w].pc \in Holding, NEW j \in Jobs, j = Mine(w),
         AtTyped', RowsTyped', LedgerOK',
         at'[w].job = at[w].job, at'[w].pc \in Holding,
         \A q \in Procs \ {w} : at'[q] = at[q] /\ op'[q] = op[q],
         \A v \in Workers \ {w} : load'[v] = load[v],
         \A k \in Jobs \ {j} :
           /\ job'[k] = job[k] /\ escrow'[k] = escrow[k] /\ paidOut'[k] = paidOut[k]
           /\ payouts'[k] = payouts[k]
           /\ k \in paid => k \in paid',
         UNCHANGED <<regime, audit, due, crashes>>,
         Calls(w)', Hands(w)', Loads(w)', JobOK(j)'
  PROVE  MarketInv'
<1>1. /\ w \in Procs /\ w # Router /\ at[w] # Idle /\ Touches(w, j)
      /\ Tables
  BY InHand, AtRest
<1>2. Focus(w, {j})
  BY DEF Focus
<1>3. ProcOK(w)'
  BY <1>1 DEF ProcOK, Expires, Holding, Before, Paying, Refusing
<1>4. Tables' /\ crashes' >= crashes
  BY <1>1 DEF Tables, RowsTyped
<1> QED
  BY <1>1, <1>2, <1>3, <1>4, StepKeeps

LEMMA DaemonTakes ==
  ASSUME MarketInv, NEW w \in Workers, TakeJob(w), LedgerOK'
  PROVE  MarketInv'
<1>1. at[w].pc = "take" /\ at[w].pc \in Holding
  BY DEF TakeJob, Holding, Before
<1>2. PICK j \in Jobs : j = Mine(w)
  BY <1>1, InHand
<1>3. /\ w \in Procs /\ w # Router /\ j = at[w].job /\ JobOK(j) /\ Tables
      /\ Calls(w) /\ Hands(w) /\ Loads(w) /\ at[w] \in Taken
  BY <1>1, <1>2, InHand, AtRest, AtPc
<1>4. /\ AtTyped' /\ at'[w].pc = "load" /\ at'[w].job = at[w].job
      /\ \A q \in Procs \ {w} : at'[q] = at[q]
  BY <1>3, GoesOn DEF TakeJob, Before
<1>5. /\ job'[j].status = "running" /\ job'[j].worker = job[j].worker
      /\ \A k \in Jobs \ {j} : job'[k] = job[k]
      /\ job' \in [Jobs -> [status : Statuses, worker : Workers \cup {NoWorker}]]
      /\ audit' = audit
  BY <1>2, <1>3 DEF TakeJob, SetStatus, Tables, RowsTyped, Statuses
<1>6. UNCHANGED <<ledgerVars, regime, due, workerVars, payVars, crashes>>
  BY DEF TakeJob
<1>7. job[j].status = "routed" /\ job[j].worker = w /\ payouts[j] = 0 /\ load[w] = 0
      /\ op[w] = Ledger!Idle
  BY <1>1, <1>2, <1>3 DEF Hands, Loads, Calls
<1>8. escrow[j].status = "escrowed" /\ paidOut[j] = 0
  BY <1>3, <1>7 DEF JobOK
<1>9. Calls(w)' /\ Hands(w)' /\ Loads(w)'
  BY <1>3, <1>4, <1>5, <1>6, <1>7, <1>8
     DEF Calls, Hands, Loads, Mine, ledgerVars, workerVars, payVars, Holding, Before, Paying,
         Refusing
<1>10. JobOK(j)'
  BY <1>3, <1>5, <1>6, <1>7, <1>8 DEF JobOK, ledgerVars, payVars
<1>11. RowsTyped'
  BY <1>3, <1>5, <1>6 DEF Tables, RowsTyped, workerVars, payVars
<1>12. at'[w].pc \in Holding
  BY <1>4 DEF Holding, Before
<1> QED
  BY <1>1, <1>2, <1>4, <1>5, <1>6, <1>9, <1>10, <1>11, <1>12, HandStep
     DEF ledgerVars, workerVars, payVars

LEMMA DaemonCounts ==
  ASSUME MarketInv, NEW w \in Workers, CountJob(w), LedgerOK'
  PROVE  MarketInv'
<1>1. at[w].pc = "load" /\ at[w].pc \in Holding
  BY DEF CountJob, Holding, Before
<1>2. PICK j \in Jobs : j = Mine(w)
  BY <1>1, InHand
<1>3. /\ w \in Procs /\ w # Router /\ j = at[w].job /\ JobOK(j) /\ Tables
      /\ Calls(w) /\ Hands(w) /\ Loads(w) /\ at[w] \in Taken
  BY <1>1, <1>2, InHand, AtRest, AtPc
<1>4. /\ AtTyped' /\ at'[w].pc = "run" /\ at'[w].job = at[w].job
      /\ \A q \in Procs \ {w} : at'[q] = at[q]
  BY <1>3, GoesOn DEF CountJob, Before
<1>5. UNCHANGED <<ledgerVars, regime, jobVars, due, online, payVars, crashes>>
  BY DEF CountJob
<1>6. /\ job[j].status = "running" /\ job[j].worker = w /\ payouts[j] = 0 /\ load[w] = 0
      /\ op[w] = Ledger!Idle /\ escrow[j].status = "escrowed"
  BY <1>1, <1>2, <1>3 DEF Hands, Loads, Calls, Holding, Before
<1>7. load'[w] = 1 /\ load' \in [Workers -> 0..1] /\ \A v \in Workers \ {w} : load'[v] = load[v]
  BY <1>3, <1>6 DEF CountJob, Tables, RowsTyped
<1>8. Calls(w)' /\ Hands(w)' /\ Loads(w)'
  BY <1>3, <1>4, <1>5, <1>6, <1>7
     DEF Calls, Hands, Loads, Mine, ledgerVars, jobVars, payVars, Holding, Before, Paying,
         Refusing
<1>9. JobOK(j)'
  BY <1>3, <1>5, <1>6 DEF JobOK, ledgerVars, jobVars, payVars
<1>10. RowsTyped'
  BY <1>3, <1>5, <1>7 DEF Tables, RowsTyped, jobVars, payVars
<1>11. at'[w].pc \in Holding
  BY <1>4 DEF Holding, Before
<1> QED
  BY <1>1, <1>2, <1>4, <1>5, <1>7, <1>8, <1>9, <1>10, <1>11, HandStep
     DEF ledgerVars, jobVars, payVars

LEMMA DaemonRuns ==
  ASSUME MarketInv, NEW w \in Workers, RunJob(w), LedgerOK'
  PROVE  MarketInv'
<1>1. at[w].pc = "run" /\ at[w].pc \in Holding
  BY DEF RunJob, Holding, Before
<1>2. PICK j \in Jobs : j = Mine(w)
  BY <1>1, InHand
<1>3. /\ w \in Procs /\ w # Router /\ j = at[w].job /\ JobOK(j) /\ Tables
      /\ Calls(w) /\ Hands(w) /\ Loads(w) /\ at[w] \in Taken
  BY <1>1, <1>2, InHand, AtRest, AtPc
<1>4. /\ AtTyped' /\ at'[w].job = at[w].job /\ at'[w].pc \in {"unload", "settle", "refund"}
      /\ \A q \in Procs \ {w} : at'[q] = at[q]
  <2>1. PICK result \in Outcomes(Expected, Counts) :
          \/ Goto(w, "unload")
          \/ \E watts \in {0, 1}, challenge \in Challenges(result) :
               LET receipt == ReceiptOf(result, Input, watts)
                   reason == Reason(result, receipt, challenge, Expected)
               IN  \E verdict \in IF reason = None THEN Committee(w) ELSE {reason} :
                     at' = [at EXCEPT ![w] =
                              [pc |-> IF verdict = "accepted" THEN "settle" ELSE "refund",
                               job |-> Mine(w),
                               qi |-> IF verdict = "accepted" THEN receipt.qi ELSE 0,
                               disputed |-> verdict = "disputed"]]
    BY DEF RunJob
  <2>2. CASE Goto(w, "unload")
    BY <1>3, <2>2, GoesOn DEF Before
  <2>3. ASSUME NEW verdict, NEW qi \in Figures,
               at' = [at EXCEPT ![w] =
                        [pc |-> IF verdict = "accepted" THEN "settle" ELSE "refund",
                         job |-> Mine(w), qi |-> IF verdict = "accepted" THEN qi ELSE 0,
                         disputed |-> verdict = "disputed"]]
        PROVE  /\ AtTyped' /\ at'[w].job = at[w].job /\ at'[w].pc \in {"settle", "refund"}
               /\ \A q \in Procs \ {w} : at'[q] = at[q]
    <3> DEFINE r == [pc |-> IF verdict = "accepted" THEN "settle" ELSE "refund",
                     job |-> Mine(w), qi |-> IF verdict = "accepted" THEN qi ELSE 0,
                     disputed |-> verdict = "disputed"]
    <3>1. r \in Accepted \cup Refused /\ r.job = at[w].job /\ r.pc \in {"settle", "refund"}
      <4>1. CASE verdict = "accepted"
        BY <1>2, <1>3, <4>1 DEF Accepted, Paying
      <4>2. CASE verdict # "accepted"
        BY <1>2, <1>3, <4>2 DEF Refused, Refusing
      <4> QED
        BY <4>1, <4>2
    <3>2. at' = [at EXCEPT ![w] = r]
      BY <2>3
    <3> HIDE DEF r
    <3>3. r \in Rounds(w)
      BY <1>3, <3>1 DEF Rounds
    <3> QED
      BY <1>3, <3>1, <3>2, <3>3, Moves
  <2>4. \A watts : ReceiptOf(result, Input, watts).qi \in Figures
    BY DEF ReceiptOf, Figures
  <2> QED
    BY <2>1, <2>2, <2>3, <2>4
<1>5. UNCHANGED <<ledgerVars, regime, jobVars, due, workerVars, payVars, crashes>>
  BY DEF RunJob
<1>6. /\ job[j].status = "running" /\ job[j].worker = w /\ payouts[j] = 0 /\ load[w] = 1
      /\ op[w] = Ledger!Idle /\ escrow[j].status = "escrowed"
  BY <1>1, <1>2, <1>3 DEF Hands, Loads, Calls, Holding, Before
<1>7. Calls(w)' /\ Hands(w)' /\ Loads(w)'
  BY <1>3, <1>4, <1>5, <1>6
     DEF Calls, Hands, Loads, Mine, ledgerVars, jobVars, workerVars, payVars, Holding, Before,
         Paying, Refusing
<1>8. JobOK(j)'
  BY <1>3, <1>5, <1>6 DEF JobOK, ledgerVars, jobVars, payVars
<1>9. RowsTyped'
  BY <1>3, <1>5 DEF Tables, RowsTyped, jobVars, workerVars, payVars
<1>10. at'[w].pc \in Holding
  BY <1>4 DEF Holding, Before, Paying, Refusing
<1> QED
  BY <1>1, <1>2, <1>4, <1>5, <1>7, <1>8, <1>9, <1>10, HandStep
     DEF ledgerVars, jobVars, workerVars, payVars

LEMMA DaemonSettles ==
  ASSUME MarketInv, NEW w \in Workers, SettleJob(w), LedgerOK'
  PROVE  MarketInv'
<1>1. at[w].pc \in {"settle", "settling"} /\ at[w].pc \in Holding /\ at[w].pc \in Paying
  BY DEF SettleJob, Holding, Paying
<1>2. PICK j \in Jobs : j = Mine(w)
  BY <1>1, InHand
<1>3. /\ w \in Procs /\ w # Router /\ j = at[w].job /\ JobOK(j) /\ Tables
      /\ Calls(w) /\ Hands(w) /\ Loads(w) /\ at[w] \in Accepted
      /\ op \in [Procs -> LP!Call] /\ escrow \in [Jobs -> LP!RowType]
      /\ paidOut \in [Jobs -> Nat]
  BY <1>1, <1>2, InHand, AtRest, AtPc
<1>4. /\ job[j].status = "running" /\ job[j].worker = w /\ payouts[j] = 0 /\ load[w] = 1
  BY <1>1, <1>2, <1>3 DEF Hands, Loads, Holding, Paying
<1>5. UNCHANGED <<regime, jobVars, due, workerVars, payVars, crashes>>
  BY DEF SettleJob
<1>6. /\ AtTyped' /\ at'[w].job = at[w].job /\ at'[w].pc \in {"settling", "payout"}
      /\ \A q \in Procs \ {w} : at'[q] = at[q]
      /\ \A q \in Procs \ {w} : op'[q] = op[q]
      /\ \A k \in Jobs \ {j} : escrow'[k] = escrow[k] /\ paidOut'[k] = paidOut[k]
      /\ at'[w].pc = "settling" =>
           \/ op'[w].stage \in {"settle", "settling"} /\ op'[w].job = j
              /\ escrow'[j].status = "escrowed"
           \/ op'[w] = Ledger!Idle /\ escrow'[j].status = "escrowed"
           \/ op'[w].stage = "settled" /\ escrow'[j].status = "settled"
      /\ at'[w].pc = "payout" => op'[w] = Ledger!Idle /\ escrow'[j].status = "settled"
  <2>1. CASE at[w].pc = "settle" /\ Ledger!BeginSettle(w, Mine(w), w, at[w].qi)
             /\ Goto(w, "settling")
    <3>1. escrow[j].status = "escrowed"
      BY <1>2, <1>3, <2>1 DEF Hands
    <3>2. /\ op'[w].stage = "settle" /\ op'[w].job = j
          /\ \A r \in Procs \ {w} : op'[r] = op[r]
          /\ escrow' = escrow /\ paidOut' = paidOut
      BY <1>2, <1>3, <2>1, <3>1, SettleBegins
    <3>3. /\ AtTyped' /\ at'[w].pc = "settling" /\ at'[w].job = at[w].job
          /\ \A q \in Procs \ {w} : at'[q] = at[q]
      BY <1>3, <2>1, GoesOn DEF Paying
    <3> QED
      BY <3>1, <3>2, <3>3
  <2>2. ASSUME at[w].pc = "settling", Ledger!CheckSettle(w) \/ Ledger!CommitSettle(w),
               UNCHANGED at
        PROVE  /\ op[w] # Ledger!Idle /\ op[w].stage \in {"settle", "settling"}
               /\ op[w].job = j /\ escrow[j].status = "escrowed"
    <3>1. op[w] # Ledger!Idle /\ op[w].stage \in {"settle", "settling"}
      BY <1>3, <2>2, SettleChecks, SettleCommits
    <3> QED
      BY <1>2, <1>3, <2>2, <3>1 DEF Calls, SettleCall
  <2>3. CASE at[w].pc = "settling" /\ Ledger!CheckSettle(w) /\ UNCHANGED at
    <3>1. /\ op'[w] = Ledger!Idle \/ (op'[w].stage = "settling" /\ op'[w].job = op[w].job)
          /\ \A r \in Procs \ {w} : op'[r] = op[r]
          /\ escrow' = escrow /\ paidOut' = paidOut
      BY <1>3, <2>3, SettleChecks
    <3>2. AtTyped'
      BY <1>3, <2>3 DEF Tables, AtTyped
    <3> QED
      BY <2>2, <2>3, <3>1, <3>2
  <2>4. CASE at[w].pc = "settling" /\ Ledger!CommitSettle(w) /\ UNCHANGED at
    <3>1. /\ op'[w].stage = "settled"
          /\ \A r \in Procs \ {w} : op'[r] = op[r]
          /\ op[w].job \in Jobs /\ escrow'[op[w].job].status = "settled"
          /\ \A k \in Jobs \ {op[w].job} : escrow'[k] = escrow[k] /\ paidOut'[k] = paidOut[k]
      BY <1>3, <2>4, SettleCommits
    <3>2. AtTyped'
      BY <1>3, <2>4 DEF Tables, AtTyped
    <3> QED
      BY <2>2, <2>4, <3>1, <3>2
  <2>5. CASE at[w].pc = "settling" /\ Ledger!RecordSettlement(w) /\ Goto(w, "payout")
    <3>1. /\ op[w] # Ledger!Idle /\ op[w].stage = "settled"
          /\ op'[w] = Ledger!Idle /\ \A r \in Procs \ {w} : op'[r] = op[r]
          /\ escrow' = escrow /\ paidOut' = paidOut
      BY <1>3, <2>5, Recorded
    <3>2. escrow[j].status = "settled"
      BY <1>2, <1>3, <2>5, <3>1 DEF Calls, SettleCall
    <3>3. /\ AtTyped' /\ at'[w].pc = "payout" /\ at'[w].job = at[w].job
          /\ \A q \in Procs \ {w} : at'[q] = at[q]
      BY <1>3, <2>5, GoesOn DEF Paying
    <3> QED
      BY <3>1, <3>2, <3>3
  <2> QED
    BY <2>1, <2>3, <2>4, <2>5 DEF SettleJob
<1>7. Calls(w)'
  BY <1>2, <1>3, <1>6 DEF Calls, SettleCall, Mine
<1>8. Hands(w)' /\ Loads(w)'
  BY <1>2, <1>3, <1>4, <1>5, <1>6
     DEF Hands, Loads, Mine, jobVars, workerVars, payVars, Holding, Before, Paying, Refusing
<1>9. JobOK(j)'
  <2>1. BeingPaid(j)'
    BY <1>3, <1>4, <1>5, <1>6 DEF BeingPaid, Paying, jobVars, Mine
  <2>2. escrow'[j].status # "settled" => paidOut'[j] = 0
    <3>1. at'[w].pc = "payout" => escrow'[j].status = "settled"
      BY <1>6
    <3>2. escrow'[j].status = "settled" \/ (escrow' = escrow /\ paidOut' = paidOut)
      BY <1>3, SettleBegins, SettleChecks, SettleCommits, Recorded, <1>1, <1>2
         DEF SettleJob, Calls, SettleCall, Hands
    <3> QED
      BY <1>3, <3>2 DEF JobOK
  <2>3. job'[j] = job[j] /\ audit'[j] = audit[j]
    BY <1>5 DEF jobVars
  <2> QED
    BY <1>3, <1>4, <2>1, <2>2, <2>3 DEF JobOK
<1>10. RowsTyped'
  BY <1>3, <1>5 DEF Tables, RowsTyped, jobVars, workerVars, payVars
<1>11. at'[w].pc \in Holding
  BY <1>6 DEF Holding, Before, Paying
<1> QED
  BY <1>1, <1>2, <1>5, <1>6, <1>7, <1>8, <1>9, <1>10, <1>11, HandStep
     DEF jobVars, workerVars, payVars

LEMMA DaemonPays ==
  ASSUME MarketInv, NEW w \in Workers, InsertPayout(w) \/ RecordPaid(w), LedgerOK'
  PROVE  MarketInv'
<1>1. at[w].pc \in {"payout", "paid"} /\ at[w].pc \in Holding /\ at[w].pc \in Paying
  BY DEF InsertPayout, RecordPaid, Holding, Paying
<1>2. PICK j \in Jobs : j = Mine(w)
  BY <1>1, InHand
<1>3. /\ w \in Procs /\ w # Router /\ j = at[w].job /\ JobOK(j) /\ Tables
      /\ Calls(w) /\ Hands(w) /\ Loads(w) /\ at[w] \in Accepted
  BY <1>1, <1>2, InHand, AtRest, AtPc
<1>4. /\ job[j].status = "running" /\ job[j].worker = w /\ load[w] = 1
      /\ op[w] = Ledger!Idle /\ escrow[j].status = "settled"
      /\ at[w].pc = "payout" => payouts[j] = 0
      /\ at[w].pc = "paid" => payouts[j] = 1
  BY <1>1, <1>2, <1>3 DEF Hands, Loads, Calls, Holding, Paying
<1>5. UNCHANGED <<ledgerVars, regime, jobVars, due, workerVars, crashes>>
  BY DEF InsertPayout, RecordPaid
<1>6. /\ AtTyped' /\ at'[w].job = at[w].job
      /\ \A q \in Procs \ {w} : at'[q] = at[q]
      /\ \/ at'[w].pc = "paid" /\ InsertPayout(w)
         \/ at'[w].pc = "complete" /\ RecordPaid(w)
  BY <1>3, GoesOn DEF InsertPayout, RecordPaid, Paying
<1>7. /\ payouts'[j] = 1 /\ payouts' \in [Jobs -> Nat] /\ paid' \subseteq Jobs
      /\ \A k \in Jobs \ {j} : payouts'[k] = payouts[k] /\ (k \in paid => k \in paid')
      /\ at'[w].pc = "complete" => j \in paid'
  <2>1. CASE InsertPayout(w)
    <3>1. at[w].pc = "payout" /\ at'[w].pc # "complete"
      BY <1>6, <2>1 DEF InsertPayout, RecordPaid
    <3>2. payouts' = [payouts EXCEPT ![j] = @ + 1] /\ paid' = paid
      BY <1>2, <2>1 DEF InsertPayout
    <3>3. payouts[j] = 0 /\ payouts \in [Jobs -> Nat] /\ paid \subseteq Jobs
      BY <1>3, <1>4, <3>1 DEF Tables, RowsTyped
    <3> QED
      BY <3>1, <3>2, <3>3
  <2>2. CASE RecordPaid(w)
    BY <1>2, <1>3, <1>4, <2>2 DEF RecordPaid, Tables, RowsTyped
  <2> QED
    BY <1>6, <2>1, <2>2
<1>8. Calls(w)' /\ Hands(w)' /\ Loads(w)'
  BY <1>2, <1>3, <1>4, <1>5, <1>6, <1>7
     DEF Calls, Hands, Loads, Mine, ledgerVars, jobVars, workerVars, Holding, Before, Paying,
         Refusing
<1>9. JobOK(j)'
  <2>1. BeingPaid(j)'
    BY <1>3, <1>4, <1>5, <1>6 DEF BeingPaid, Paying, jobVars
  <2>2. job'[j] = job[j] /\ audit'[j] = audit[j] /\ escrow' = escrow /\ paidOut' = paidOut
    BY <1>5 DEF jobVars, ledgerVars
  <2> QED
    BY <1>3, <1>4, <2>1, <2>2 DEF JobOK
<1>10. RowsTyped'
  BY <1>3, <1>5, <1>7 DEF Tables, RowsTyped, jobVars, workerVars
<1>11. at'[w].pc \in Holding
  BY <1>6 DEF Holding, Before, Paying
<1> QED
  BY <1>1, <1>2, <1>5, <1>6, <1>7, <1>8, <1>9, <1>10, <1>11, HandStep
     DEF ledgerVars, jobVars, workerVars

LEMMA DaemonRefunds ==
  ASSUME MarketInv, NEW w \in Workers, RefundJob(w), LedgerOK'
  PROVE  MarketInv'
<1>1. at[w].pc \in {"refund", "refunding"} /\ at[w].pc \in Holding /\ at[w].pc \in Refusing
  BY DEF RefundJob, Holding, Refusing
<1>2. PICK j \in Jobs : j = Mine(w)
  BY <1>1, InHand
<1>3. /\ w \in Procs /\ w # Router /\ j = at[w].job /\ JobOK(j) /\ Tables
      /\ Calls(w) /\ Hands(w) /\ Loads(w) /\ at[w] \in Refused
      /\ op \in [Procs -> LP!Call] /\ escrow \in [Jobs -> LP!RowType]
  BY <1>1, <1>2, InHand, AtRest, AtPc
<1>4. /\ job[j].status = "running" /\ job[j].worker = w /\ payouts[j] = 0 /\ load[w] = 1
  BY <1>1, <1>2, <1>3 DEF Hands, Loads, Holding, Refusing
<1>5. UNCHANGED <<regime, jobVars, due, workerVars, payVars, crashes>>
  BY DEF RefundJob
<1>6. /\ AtTyped' /\ at'[w].job = at[w].job /\ at'[w].pc \in {"refunding", "fail"}
      /\ \A q \in Procs \ {w} : at'[q] = at[q]
      /\ \A q \in Procs \ {w} : op'[q] = op[q]
      /\ paidOut' = paidOut /\ \A k \in Jobs \ {j} : escrow'[k] = escrow[k]
      /\ at'[w].pc = "refunding" =>
           \/ op'[w].stage \in {"refund", "refunding", "marking"} /\ op'[w].job = j
              /\ escrow'[j].status = "escrowed"
           \/ op'[w] = Ledger!Idle /\ escrow'[j].status = "escrowed"
           \/ op'[w].stage = "refunded" /\ escrow'[j].status \in {"refunded", "disputed"}
      /\ at'[w].pc = "fail" =>
           op'[w] = Ledger!Idle /\ escrow'[j].status \in {"refunded", "disputed"}
  <2>1. CASE at[w].pc = "refund" /\ Ledger!BeginRefund(w, Mine(w), at[w].disputed)
             /\ Goto(w, "refunding")
    <3>1. escrow[j].status = "escrowed"
      BY <1>2, <1>3, <2>1 DEF Hands
    <3>2. /\ op'[w].stage = "refund" /\ op'[w].job = j
          /\ \A r \in Procs \ {w} : op'[r] = op[r]
          /\ escrow' = escrow /\ paidOut' = paidOut
      BY <1>2, <1>3, <2>1, <3>1, RefundBegins
    <3>3. /\ AtTyped' /\ at'[w].pc = "refunding" /\ at'[w].job = at[w].job
          /\ \A q \in Procs \ {w} : at'[q] = at[q]
      BY <1>3, <2>1, GoesOn DEF Refusing
    <3> QED
      BY <3>1, <3>2, <3>3
  <2>2. ASSUME at[w].pc = "refunding", UNCHANGED at,
               Ledger!CheckRefund(w) \/ Ledger!CommitFunds(w) \/ Ledger!MarkRefund(w)
        PROVE  /\ op[w].job = j /\ escrow[j].status = "escrowed" /\ AtTyped'
    <3>1. op[w] # Ledger!Idle /\ op[w].stage \in {"refund", "refunding", "marking"}
      BY <1>3, <2>2, RefundChecks, FundsReturn, RefundMarks
    <3>2. AtTyped'
      BY <1>3, <2>2 DEF Tables, AtTyped
    <3> QED
      BY <1>2, <1>3, <2>2, <3>1, <3>2 DEF Calls, RefundCall
  <2>3. CASE at[w].pc = "refunding" /\ Ledger!CheckRefund(w) /\ UNCHANGED at
    <3>1. /\ op'[w] = Ledger!Idle \/ (op'[w].stage = "refunding" /\ op'[w].job = op[w].job)
          /\ \A r \in Procs \ {w} : op'[r] = op[r]
          /\ escrow' = escrow /\ paidOut' = paidOut
      BY <1>3, <2>3, RefundChecks
    <3> QED
      BY <2>2, <2>3, <3>1
  <2>4. CASE at[w].pc = "refunding" /\ Ledger!CommitFunds(w) /\ UNCHANGED at
    <3>1. /\ op'[w].stage = "marking" /\ op'[w].job = op[w].job
          /\ \A r \in Procs \ {w} : op'[r] = op[r]
          /\ escrow' = escrow /\ paidOut' = paidOut
      BY <1>3, <2>4, FundsReturn
    <3> QED
      BY <2>2, <2>4, <3>1
  <2>5. CASE at[w].pc = "refunding" /\ Ledger!MarkRefund(w) /\ UNCHANGED at
    <3>1. /\ op'[w].stage = "refunded"
          /\ \A r \in Procs \ {w} : op'[r] = op[r]
          /\ escrow'[op[w].job].status \in {"refunded", "disputed"}
          /\ \A k \in Jobs \ {op[w].job} : escrow'[k] = escrow[k]
          /\ paidOut' = paidOut
      BY <1>3, <2>5, RefundMarks
    <3> QED
      BY <2>2, <2>5, <3>1
  <2>6. CASE at[w].pc = "refunding" /\ Ledger!RecordRefund(w) /\ Goto(w, "fail")
    <3>1. /\ op[w] # Ledger!Idle /\ op[w].stage = "refunded"
          /\ op'[w] = Ledger!Idle /\ \A r \in Procs \ {w} : op'[r] = op[r]
          /\ escrow' = escrow /\ paidOut' = paidOut
      BY <1>3, <2>6, Recorded
    <3>2. escrow[j].status \in {"refunded", "disputed"}
      BY <1>2, <1>3, <2>6, <3>1 DEF Calls, RefundCall
    <3>3. /\ AtTyped' /\ at'[w].pc = "fail" /\ at'[w].job = at[w].job
          /\ \A q \in Procs \ {w} : at'[q] = at[q]
      BY <1>3, <2>6, GoesOn DEF Refusing
    <3> QED
      BY <3>1, <3>2, <3>3
  <2> QED
    BY <2>1, <2>3, <2>4, <2>5, <2>6 DEF RefundJob
<1>7. Calls(w)'
  BY <1>2, <1>3, <1>6 DEF Calls, RefundCall, Mine
<1>8. Hands(w)' /\ Loads(w)'
  BY <1>2, <1>3, <1>4, <1>5, <1>6
     DEF Hands, Loads, Mine, jobVars, workerVars, payVars, Holding, Before, Paying, Refusing
<1>9. JobOK(j)'
  <2>1. paidOut[j] = 0
    BY <1>1, <1>2, <1>3 DEF Hands, Calls, RefundCall, JobOK
  <2>2. job'[j] = job[j] /\ audit'[j] = audit[j]
    BY <1>5 DEF jobVars
  <2> QED
    BY <1>3, <1>4, <1>6, <2>1, <2>2 DEF JobOK
<1>10. RowsTyped'
  BY <1>3, <1>5 DEF Tables, RowsTyped, jobVars, workerVars, payVars
<1>11. at'[w].pc \in Holding
  BY <1>6 DEF Holding, Before, Refusing
<1> QED
  BY <1>1, <1>2, <1>5, <1>6, <1>7, <1>8, <1>9, <1>10, <1>11, HandStep
     DEF jobVars, workerVars, payVars

LEMMA DaemonCloses ==
  ASSUME MarketInv, NEW w \in Workers, CloseJob(w), LedgerOK'
  PROVE  MarketInv'
<1>1. at[w].pc \in {"complete", "fail"} /\ at[w].pc \in Holding
  BY DEF CloseJob, Holding, Paying, Refusing
<1>2. PICK j \in Jobs : j = Mine(w)
  BY <1>1, InHand
<1>3. /\ w \in Procs /\ w # Router /\ j = at[w].job /\ JobOK(j) /\ Tables
      /\ Calls(w) /\ Hands(w) /\ Loads(w)
      /\ at[w].pc \in Paying => at[w] \in Accepted
      /\ at[w].pc \in Refusing => at[w] \in Refused
  BY <1>1, <1>2, InHand, AtRest, AtPc
<1>4. /\ AtTyped' /\ at'[w].pc = "unload" /\ at'[w].job = at[w].job
      /\ \A q \in Procs \ {w} : at'[q] = at[q]
  BY <1>1, <1>3, GoesOn DEF CloseJob, Paying, Refusing
<1>5. /\ job[j].status = "running" /\ job[j].worker = w /\ load[w] = 1 /\ op[w] = Ledger!Idle
      /\ at[w].pc = "complete" =>
           escrow[j].status = "settled" /\ payouts[j] = 1 /\ j \in paid
      /\ at[w].pc = "fail" => escrow[j].status \in {"refunded", "disputed"} /\ payouts[j] = 0
  BY <1>1, <1>2, <1>3 DEF Hands, Loads, Calls, Holding, Paying, Refusing
<1>6. /\ \/ at[w].pc = "complete" /\ job'[j].status = "completed"
         \/ at[w].pc = "fail" /\ job'[j].status = "failed"
      /\ job'[j].worker = w
      /\ \A k \in Jobs \ {j} : job'[k] = job[k]
      /\ job' \in [Jobs -> [status : Statuses, worker : Workers \cup {NoWorker}]]
      /\ audit' = audit
  BY <1>1, <1>2, <1>3, <1>5 DEF CloseJob, SetStatus, Tables, RowsTyped, Statuses
<1>7. UNCHANGED <<ledgerVars, regime, due, workerVars, payVars, crashes>>
  BY DEF CloseJob
<1>8. Calls(w)' /\ Hands(w)' /\ Loads(w)'
  BY <1>2, <1>3, <1>4, <1>5, <1>6, <1>7
     DEF Calls, Hands, Loads, Mine, ledgerVars, workerVars, Holding, Before, Paying, Refusing
<1>9. JobOK(j)'
  BY <1>3, <1>5, <1>6, <1>7 DEF JobOK, ledgerVars, payVars
<1>10. RowsTyped'
  BY <1>3, <1>6, <1>7 DEF Tables, RowsTyped, workerVars, payVars
<1>11. at'[w].pc \in Holding
  BY <1>4 DEF Holding, Before
<1> QED
  BY <1>1, <1>2, <1>4, <1>6, <1>7, <1>8, <1>9, <1>10, <1>11, HandStep
     DEF ledgerVars, workerVars, payVars

LEMMA DaemonEnds ==
  ASSUME MarketInv, NEW w \in Workers, EndRound(w), LedgerOK'
  PROVE  MarketInv'
<1>1. w \in Procs /\ Tables /\ Calls(w)
  BY ProcsAre, AtRest
<1>2. at[w].pc = "unload" /\ at[w] # Idle /\ op[w] = Ledger!Idle /\ at[w].pc \notin Paying
  BY <1>1 DEF EndRound, Idle, Calls, Paying
<1>3. /\ load' \in [Workers -> 0..1] /\ \A v \in Workers \ {w} : load'[v] = load[v]
      /\ crashes \in Nat
  BY <1>1 DEF EndRound, Tables, RowsTyped
<1> QED
  BY <1>1, <1>2, <1>3, RoundEnds DEF EndRound, ledgerVars

LEMMA RaiseKeeps ==
  ASSUME MarketInv, NEW p \in Procs, Raise(p), LedgerOK'
  PROVE  MarketInv'
<1>1. Tables /\ Calls(p) /\ op[p] = Ledger!Idle /\ crashes \in Nat /\ load \in [Workers -> 0..1]
  BY AtRest DEF Raise, Tables, RowsTyped
<1>2. UNCHANGED <<ledgerVars, regime, jobVars, due, workerVars, payVars, crashes>>
  BY DEF Raise
<1>3. ASSUME at[p].pc = "expiring", Return(p) PROVE MarketInv'
  <2>1. at[p] # Idle /\ at[p].pc \notin Paying
    BY <1>3 DEF Idle, Paying
  <2> QED
    BY <1>1, <1>2, <1>3, <2>1, RoundEnds DEF ledgerVars, workerVars
<1>4. ASSUME at[p].pc \in {"settling", "refunding"}, Goto(p, "unload") PROVE MarketInv'
  <2>1. at[p].pc \in Holding
    BY <1>4 DEF Holding, Paying, Refusing
  <2>2. p \in Workers
    BY <1>1, <2>1, AtPc
  <2>3. PICK j \in Jobs : j = Mine(p)
    BY <2>1, <2>2, InHand
  <2>4. /\ p # Router /\ j = at[p].job /\ JobOK(j) /\ Hands(p) /\ Loads(p)
        /\ at[p].pc \in Paying => at[p] \in Accepted
        /\ at[p].pc \in Refusing => at[p] \in Refused
    BY <1>1, <2>1, <2>2, <2>3, InHand, AtRest, AtPc
  <2>5. /\ AtTyped' /\ at'[p].pc = "unload" /\ at'[p].job = at[p].job
        /\ \A q \in Procs \ {p} : at'[q] = at[q]
    BY <1>1, <1>4, <2>2, <2>4, GoesOn DEF Paying, Refusing
  <2>6. job[j].status = "running" /\ job[j].worker = p /\ load[p] = 1 /\ payouts[j] = 0
    BY <1>4, <2>1, <2>3, <2>4 DEF Hands, Loads, Holding, Paying, Refusing
  <2>7. escrow[j].status = "escrowed"
    <3>1. Ledger!Idle.stage = "idle"
      BY DEF Ledger!Idle
    <3> QED
      BY <1>1, <1>4, <2>3, <3>1 DEF Calls, SettleCall, RefundCall
  <2>8. Calls(p)' /\ Hands(p)' /\ Loads(p)'
    BY <1>1, <1>2, <2>3, <2>4, <2>5, <2>6
       DEF Calls, Hands, Loads, Mine, ledgerVars, jobVars, workerVars, Holding, Before, Paying,
           Refusing
  <2>9. JobOK(j)'
    BY <1>2, <2>4, <2>6, <2>7 DEF JobOK, ledgerVars, jobVars, payVars
  <2>10. RowsTyped'
    BY <1>1, <1>2 DEF Tables, RowsTyped, jobVars, workerVars, payVars
  <2>11. at'[p].pc \in Holding
    BY <2>5 DEF Holding, Before
  <2> QED
    BY <1>2, <2>1, <2>2, <2>3, <2>5, <2>8, <2>9, <2>10, <2>11, HandStep
       DEF ledgerVars, jobVars, workerVars, payVars
<1> QED
  BY <1>3, <1>4 DEF Raise

LEMMA CrashKeeps ==
  ASSUME MarketInv, NEW p \in Procs, Crash(p), LedgerOK'
  PROVE  MarketInv'
<1>1. /\ Tables /\ crashes \in Nat /\ load \in [Workers -> 0..1]
      /\ op \in [Procs -> LP!Call]
  BY AtRest DEF Tables, RowsTyped
<1>2. crashes' = crashes + 1 /\ at[p] # Idle /\ Return(p)
  BY DEF Crash
<1>3. op'[p] = Ledger!Idle /\ \A q \in Procs \ {p} : op'[q] = op[q]
  BY <1>1 DEF Crash
<1>4. UNCHANGED <<escrow, paidOut, regime, jobVars, due, online, load, payVars>>
  BY DEF Crash, workerVars
<1>5. crashes' \in Nat /\ crashes' >= crashes /\ crashes' > 0
  BY <1>1, <1>2
<1> QED
  BY <1>1, <1>2, <1>3, <1>4, <1>5, RoundEnds

LEMMA PassingKeeps ==
  ASSUME MarketInv, NEW j \in Jobs, PassExpiry(j), LedgerOK'
  PROVE  MarketInv'
<1>1. /\ due' = due \cup {j} /\ j \in regime.expiring \ due
      /\ UNCHANGED <<ledgerVars, regime, jobVars, workerVars, payVars, at, crashes>>
  BY DEF PassExpiry
<1>2. TurnsInv' /\ Tables'
  BY <1>1 DEF MarketInv, TurnsInv, Tables, RowsTyped, AtTyped, Rounds, jobVars, workerVars, payVars
<1>3. ASSUME NEW p \in Procs PROVE ProcOK(p)'
  <2>1. /\ ProcOK(p)
        /\ at[p].pc = "expiring" => job[Mine(p)].status \in Open \cup {"expired"}
    BY DEF MarketInv, ProcOK, Expires
  <2>2. Calls(p)' /\ (p = Router => Routes') /\ (p \in Workers => Hands(p)' /\ Loads(p)')
    BY <1>1, <2>1 DEF ProcOK, Calls, SettleCall, RefundCall, ExpiryCall, Routes, Hands, Loads,
       Mine, ledgerVars, jobVars, workerVars, payVars
  <2>3. Expires(p)'
    <3>1. at[p].pc = "expiring" => Mine(p) \notin at[p].rows /\ Mine(p) \in due
      BY <2>1 DEF ProcOK, Expires
    <3> QED
      BY <1>1, <2>1, <3>1 DEF ProcOK, Expires, Mine, jobVars
  <2> QED
    BY <2>2, <2>3 DEF ProcOK
<1>4. ASSUME NEW k \in Jobs PROVE JobOK(k)'
  BY <1>1 DEF MarketInv, JobOK, BeingPaid, ledgerVars, jobVars, payVars
<1> QED
  BY <1>2, <1>3, <1>4 DEF MarketInv

----
\* The invariant, and what follows from it

LEMMA InitInv ==
  ASSUME Init
  PROVE  MarketInv
<1>1. LedgerOK
  <2>1. /\ \A c \in {Customer} : account[c] = [available |-> 0, escrowed |-> NJobs * Price,
                                               spent |-> 0, refunded |-> 0]
        /\ NJobs * Price \in Int /\ NJobs * Price \in Nat
    <3>1. \A a, b \in Nat : a * b \in Nat
      OBVIOUS
    <3> QED
      BY <3>1, MarketAssumption DEF Init
  <2>2. LP!TypeOK
    <3>1. [Ledger!NoRow EXCEPT !.amount = Price, !.status = "escrowed"] \in LP!RowType
      BY MarketAssumption DEF Ledger!NoRow, LP!RowType
    <3>2. Ledger!Idle \in LP!Call
      BY DEF Ledger!Idle, LP!Call, LP!Idle
    <3>3. \A n \in Nat : [available |-> 0, escrowed |-> n, spent |-> 0, refunded |-> 0]
                           \in LP!AccountType
      BY DEF LP!AccountType
    <3>4. account \in [{Customer} -> LP!AccountType]
      BY <2>1, <3>3 DEF Init
    <3>5. treasury \in LP!TreasuryType
      BY DEF Init, LP!TreasuryType
    <3>6. deposited \in [{Customer} -> Nat]
      BY <2>1 DEF Init
    <3>7. escrow \in [Jobs -> LP!RowType] /\ op \in [Procs -> LP!Call]
      BY <3>1, <3>2 DEF Init
    <3>8. payable \in [Workers -> Nat] /\ paidOut \in [Jobs -> Nat] /\ unbacked \in [Jobs -> Nat]
      BY DEF Init
    <3> QED
      BY <3>4, <3>5, <3>6, <3>7, <3>8 DEF LP!TypeOK
  <2>3. LP!CallsMatchRows
    BY DEF Init, LP!CallsMatchRows, Ledger!Idle
  <2>4. LP!CustomerFundsConserved
    <3>1. \A n \in Nat : 0 + n + 0 = n
      OBVIOUS
    <3> QED
      BY <2>1, <3>1 DEF Init, LP!CustomerFundsConserved
  <2>5. LP!SettlementSplit
    BY DEF Init, LP!SettlementSplit, Ledger!NoRow
  <2> QED
    BY <2>2, <2>3, <2>4, <2>5 DEF LedgerOK
<1>2. \A p \in Procs : at[p] = Idle /\ at[p].pc = "idle"
  BY DEF Init, Idle
<1>3. Tables
  <2>1. RowsTyped
    BY DEF Init, RowsTyped, Statuses
  <2>2. AtTyped
    BY DEF Init, AtTyped, Rounds
  <2> QED
    BY <2>1, <2>2 DEF Tables
<1>4. TurnsInv
  BY <1>2 DEF TurnsInv
<1>5. ASSUME NEW p \in Procs PROVE ProcOK(p)
  BY <1>2 DEF Init, ProcOK, Expires, Calls, Routes, Hands, Loads, Holding, Before, Paying, Refusing
<1>6. ASSUME NEW j \in Jobs PROVE JobOK(j)
  BY DEF Init, JobOK, Ledger!NoRow
<1> QED
  BY <1>1, <1>3, <1>4, <1>5, <1>6 DEF MarketInv

LEMMA NextInv ==
  ASSUME MarketInv, [Next]_vars
  PROVE  MarketInv'
<1>1. LedgerOK'
  BY LedgerKeeps
<1>2. CASE UNCHANGED vars
  BY <1>2 DEF vars, ledgerVars, jobVars, workerVars, payVars, MarketInv, LedgerOK, Tables,
     RowsTyped, AtTyped, Rounds, TurnsInv, ProcOK, Expires, Calls, SettleCall, RefundCall,
     ExpiryCall, Routes, Hands, Loads, Mine, JobOK, BeingPaid, LP!TypeOK, LP!CallsMatchRows,
     LP!CustomerFundsConserved, LP!SettlementSplit
<1>3. CASE BeginRoute \/ ListQueued \/ DecideRoute \/ RouteJob \/ EndRoute
  BY <1>1, <1>3, RouterBegins, RouterLists, RouterDecides, RouterRoutes, RouterEnds
<1>4. ASSUME NEW w \in Workers, Daemon(w) PROVE MarketInv'
  BY <1>1, <1>4, DaemonBegins, DaemonFinds, DaemonTakes, DaemonCounts, DaemonRuns, DaemonSettles,
     DaemonPays, DaemonRefunds, DaemonCloses, DaemonEnds DEF Daemon
<1>5. ASSUME NEW p \in Procs, Scan(p) \/ ExpireJob(p) \/ Raise(p) \/ Crash(p) PROVE MarketInv'
  BY <1>1, <1>5, ScanKeeps, ExpireKeeps, RaiseKeeps, CrashKeeps
<1>6. ASSUME NEW j \in Jobs, PassExpiry(j) PROVE MarketInv'
  BY <1>1, <1>6, PassingKeeps
<1> QED
  BY <1>2, <1>3, <1>4, <1>5, <1>6 DEF Next

(* The invariant holds of every behaviour.                                 *)
THEOREM InvariantHolds == Spec => []MarketInv
<1>1. Init => MarketInv
  BY InitInv
<1>2. MarketInv /\ [Next]_vars => MarketInv'
  BY NextInv
<1> QED
  BY <1>1, <1>2, PTL DEF Spec

(* The tables keep their types, for any jobs, workers and answers.         *)
THEOREM TypeCorrect == Spec => []TypeOK
<1>1. MarketInv => TypeOK
  <2> SUFFICES ASSUME MarketInv PROVE TypeOK
    OBVIOUS
  <2>1. Ledger!TypeOK
    BY DEF MarketInv, LedgerOK, LP!TypeOK, Ledger!TypeOK, LP!AccountType, Ledger!AccountType,
       LP!RowType, Ledger!RowType, LP!TreasuryType, Ledger!TreasuryType, LP!Call, Ledger!Call,
       LP!Idle, Ledger!Idle, LP!EscrowCall, Ledger!EscrowCall, LP!CreditCall, Ledger!CreditCall,
       LP!SettleCall, Ledger!SettleCall, LP!SettledCall, Ledger!SettledCall, LP!RefundCall,
       Ledger!RefundCall, LP!RefundedCall, Ledger!RefundedCall
  <2>2. RowsTyped /\ due \subseteq Jobs
    BY MarketAssumption DEF MarketInv, Tables, RowsTyped
  <2> QED
    BY <2>1, <2>2 DEF RowsTyped, TypeOK
<1> QED
  BY <1>1, InvariantHolds, PTL

(* Router and daemons, each of which may be killed at any commit, use the  *)
(* tables of EscrowAccounts as its processes do.                           *)
THEOREM UsesLedger == Spec => [][LP!Next]_(LP!vars)
<1>1. MarketInv /\ [Next]_vars => [LP!Next]_(LP!vars)
  BY LedgerStep
<1> QED
  BY <1>1, InvariantHolds, PTL DEF Spec

(* So no unit of the customer's is lost, and a settled escrow is divided   *)
(* exactly, however the daemons settle, refund and are killed.             *)
THEOREM FundsHold == Spec => [](Ledger!CustomerFundsConserved /\ Ledger!SettlementSplit)
<1>1. MarketInv => Ledger!CustomerFundsConserved /\ Ledger!SettlementSplit
  BY DEF MarketInv, LedgerOK, LP!CustomerFundsConserved, Ledger!CustomerFundsConserved,
         LP!SettlementSplit, Ledger!SettlementSplit
<1> QED
  BY <1>1, InvariantHolds, PTL

(* What a daemon settles or refunds is assigned to it, running, unsettled  *)
(* and in nobody else's hands, for any number of daemons.                  *)
THEOREM OwnJobsSettled == Spec => []SettlesItsOwn
<1>1. MarketInv => SettlesItsOwn
  <2> SUFFICES ASSUME MarketInv, NEW w \in Workers, at[w].pc \in {"settle", "refund"}
               PROVE  /\ job[Mine(w)] = [status |-> "running", worker |-> w]
                      /\ load[w] = 1
                      /\ escrow[Mine(w)].status = "escrowed"
                      /\ \A v \in Workers \ {w} : "job" \in DOMAIN at[v] => at[v].job # Mine(w)
    BY DEF SettlesItsOwn
  <2>1. at[w].pc \in Holding
    BY DEF Holding, Paying, Refusing
  <2>2. /\ w \in Procs /\ Mine(w) \in Jobs /\ Touches(w, Mine(w)) /\ at[w] # Idle
        /\ Tables /\ Hands(w) /\ Loads(w)
    BY <2>1, InHand, AtRest
  <2>3. job[Mine(w)].status = "running" /\ job[Mine(w)].worker = w
        /\ load[w] = 1 /\ escrow[Mine(w)].status = "escrowed"
    BY <2>1, <2>2 DEF Hands, Loads
  <2>4. job[Mine(w)] \in [status : Statuses, worker : Workers \cup {NoWorker}]
    BY <2>2 DEF Tables, RowsTyped
  <2>5. job[Mine(w)] = [status |-> "running", worker |-> w]
    BY <2>3, <2>4
  <2>6. ASSUME NEW v \in Workers \ {w}, "job" \in DOMAIN at[v], at[v].job = Mine(w) PROVE FALSE
    <3>1. v \in Procs /\ v # w
      BY ProcsAre
    <3>2. ~Touches(v, Mine(w))
      BY <2>2, <3>1, OneHolder
    <3>3. at[v].pc \notin Holding \cup {"expiring"}
      BY <2>6, <3>2 DEF Touches, Mine
    <3>4. at[v] \in Rounds(v) /\ v # Router
      BY <2>2, <3>1, ProcsAre DEF Tables, AtTyped
    <3>5. at[v] # Idle
      BY <2>6 DEF Idle
    <3>6. at[v] \in Expiring
      BY <3>3, <3>4, <3>5
         DEF Rounds, Taken, Accepted, Refused, Holding, Before
    <3>7. at[v].pc = "expire"
      BY <2>6, <3>3, <3>6 DEF Expiring
    <3>8. at[v].job \in due
      BY <2>6, <3>1, <3>7, AtRest DEF Expires
    <3>9. ~regime.together
      BY <2>2, <3>8, MarketAssumption DEF Tables, RowsTyped
    <3> QED
      BY <2>2, <3>1, <3>5, <3>9 DEF MarketInv, TurnsInv
  <2> QED
    BY <2>3, <2>5, <2>6
<1> QED
  BY <1>1, InvariantHolds, PTL

(* A job is completed only when it is settled, paid and recorded, and      *)
(* failed only when its funds are back, wherever processes are killed.     *)
THEOREM ClosedAlwaysRecorded == Spec => []ClosedAsRecorded
<1>1. MarketInv => ClosedAsRecorded
  BY DEF MarketInv, JobOK, ClosedAsRecorded
<1> QED
  BY <1>1, InvariantHolds, PTL

(* The writes that do not look up VALID_TRANSITIONS follow it, too, since  *)
(* nobody else changes a job that a process has read to write it.          *)
THEOREM LifecycleAlwaysFollowed == Spec => LifecycleFollowed
<1> DEFINE Pairs == {<<"queued", "routed">>, <<"queued", "rejected">>, <<"queued", "expired">>,
                     <<"routed", "running">>, <<"routed", "expired">>, <<"routed", "failed">>,
                     <<"running", "completed">>, <<"running", "failed">>,
                     <<"running", "expired">>}
           Followed == \A j \in Jobs : job'[j].status # job[j].status =>
                         <<job[j].status, job'[j].status>> \in Pairs
<1>1. ASSUME MarketInv, [Next]_vars PROVE Followed
  <2>0. job \in [Jobs -> [status : Statuses, worker : Workers \cup {NoWorker}]] /\ Tables
    BY <1>1 DEF MarketInv, Tables, RowsTyped
  <2>1. CASE job' = job
    BY <2>1
  <2>2. ASSUME NEW i \in Jobs, NEW status, SetStatus(i, status), i \in Jobs,
               \/ job[i].status = "routed" /\ status = "running"
               \/ job[i].status = "running" /\ status \in {"completed", "failed"}
               \/ job[i].status \in Open \cup {"expired"} /\ status = "expired"
        PROVE  Followed
    <3>1. /\ job'[i].status = status /\ \A k \in Jobs \ {i} : job'[k] = job[k]
      BY <2>0, <2>2 DEF SetStatus
    <3> QED
      BY <2>2, <3>1 DEF Open
  <2>3. ASSUME NEW p \in Procs, ExpireJob(p) PROVE Followed
    <3>1. CASE at[p].pc = "expiring" /\ SetStatus(Mine(p), "expired")
      <4>1. Mine(p) \in Jobs /\ job[Mine(p)].status \in Open \cup {"expired"}
        BY <1>1, <3>1, AtExpiring DEF Expires
      <4> QED
        BY <2>2, <3>1, <4>1
    <3>2. CASE UNCHANGED jobVars
      BY <2>1, <3>2 DEF jobVars
    <3> QED
      BY <2>1, <2>3, <3>1, <3>2 DEF ExpireJob, jobVars
  <2>4. ASSUME NEW w \in Workers, TakeJob(w) PROVE Followed
    <3>1. at[w].pc = "take" /\ at[w].pc \in Holding
      BY <2>4 DEF TakeJob, Holding, Before
    <3>2. Mine(w) \in Jobs /\ job[Mine(w)].status = "routed"
      BY <1>1, <3>1, InHand, AtRest DEF Hands
    <3> QED
      BY <2>2, <2>4, <3>2 DEF TakeJob
  <2>5. ASSUME NEW w \in Workers, CloseJob(w) PROVE Followed
    <3>1. at[w].pc \in {"complete", "fail"} /\ at[w].pc \in Holding \ {"take", "unload"}
      BY <2>5 DEF CloseJob, Holding, Before, Paying, Refusing
    <3>2. Mine(w) \in Jobs /\ job[Mine(w)].status = "running"
      BY <1>1, <3>1, InHand, AtRest DEF Hands
    <3>3. \E status \in {"completed", "failed"} : SetStatus(Mine(w), status)
      BY <2>5 DEF CloseJob
    <3> QED
      BY <2>2, <3>2, <3>3
  <2>6. CASE RouteJob
    <3>1. Router \in Procs /\ at[Router].pc = "assign"
      BY <2>6, ProcsAre DEF RouteJob
    <3>2. PICK i \in Jobs : i = at[Router].job
      BY <1>1, <2>0, <3>1, AtPc
    <3>3. job[i].status = "queued"
      BY <1>1, <3>1, <3>2, AtRest DEF Routes
    <3>4. /\ job'[i].status \in {"routed", "rejected"}
          /\ \A k \in Jobs \ {i} : job'[k] = job[k]
      <4>1. ASSUME job' = [job EXCEPT ![i] = [status |-> "rejected", worker |-> NoWorker]]
            PROVE  job'[i].status = "rejected" /\ \A k \in Jobs \ {i} : job'[k] = job[k]
        BY <2>0, <4>1
      <4>2. ASSUME job' = [job EXCEPT ![i] = [status |-> "routed", worker |-> at[Router].choice]]
            PROVE  job'[i].status = "routed" /\ \A k \in Jobs \ {i} : job'[k] = job[k]
        BY <2>0, <4>2
      <4> QED
        BY <2>6, <3>2, <4>1, <4>2 DEF RouteJob, AssignJob
    <3> QED
      BY <3>3, <3>4
  <2>7. CASE BeginRoute \/ ListQueued \/ DecideRoute \/ EndRoute
    BY <2>1, <2>7 DEF BeginRoute, ListQueued, DecideRoute, EndRoute, jobVars
  <2>8. ASSUME NEW w \in Workers, Daemon(w), ~TakeJob(w), ~CloseJob(w) PROVE Followed
    BY <2>1, <2>8 DEF Daemon, BeginRound, FindJob, CountJob, RunJob, SettleJob, InsertPayout,
       RecordPaid, RefundJob, EndRound, jobVars
  <2>9. ASSUME NEW p \in Procs, Scan(p) \/ Raise(p) \/ Crash(p) PROVE Followed
    BY <2>1, <2>9 DEF Scan, Raise, Crash, jobVars
  <2>10. ASSUME NEW j \in Jobs, PassExpiry(j) PROVE Followed
    BY <2>1, <2>10 DEF PassExpiry, jobVars
  <2>11. CASE UNCHANGED vars
    BY <2>1, <2>11 DEF vars, jobVars
  <2> HIDE DEF Followed
  <2> QED
    BY <1>1, <2>3, <2>4, <2>5, <2>6, <2>7, <2>8, <2>9, <2>10, <2>11 DEF Next
<1>2. MarketInv /\ [Next]_vars => [Followed]_vars
  BY <1>1
<1> QED
  BY <1>2, InvariantHolds, PTL DEF Spec, LifecycleFollowed

====
