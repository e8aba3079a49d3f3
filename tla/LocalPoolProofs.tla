---- MODULE LocalPoolProofs ----
(***************************************************************************)
(* Theorems about LocalPool: any number of processes, workers, job files,  *)
(* blocks and agents on one database, killed anywhere.                     *)
(***************************************************************************)
EXTENDS LocalPool, SumLemmas, SequenceTheorems

\* Types

ReceiptRow == [worker : Workers, mode : {"inference", "mining"}, job : JobIds \cup {NoId},
               accepted : BOOLEAN, redacted : BOOLEAN]

EventRow == [worker : Workers, basis : {"tokens", "pplns", "agent"}, amount : Int,
             source : Nat, epoch : Nat]

ShareRow == [worker : Workers, weight : Nat \ {0}, receipt : Nat, round : Nat]

EpochRow == [status : {"active", "finalized"}, settled : Int, verified : Nat,
             workers : [Workers -> Int]]

AccountRow == [qi : Int, mined : Int, earned : Int, spent : Int]

Reserve == [status : {"reserved"}, agent : Agents, amount : Nat]

EscrowRow ==
  {NoRow} \cup [status : {"reserved", "spent", "refunded"}, agent : Agents, amount : Nat]

(* What is due to workers, each a part.                                    *)
Dues == UNION {[W -> Int] : W \in SUBSET Workers}

Running == [at : {"running"}, file : DOMAIN FileJobs]
Ran == [at : {"ran"}, file : DOMAIN FileJobs, accepted : BOOLEAN]
Checked == [at : {"checked"}, file : DOMAIN FileJobs, accepted : BOOLEAN, duplicate : BOOLEAN]
Paying == [at : {"epoch", "create", "pay"}, epoch : Nat, basis : {"tokens", "pplns"},
           source : Nat, due : Dues, job : JobIds \cup {NoId}]
Recording == [at : {"record"}, job : JobIds \cup {NoId}]
Sharing == [at : {"sharing"}, left : Seq(Nat \ {0}) \ {<<>>}, receipt : Nat]
Selected == [at : {"round"}, block : Blocks, shares : SUBSET Nat]
Assigning == [at : {"assign"}, round : Nat, shares : SUBSET Nat]
Reading == [at : {"payouts"}, epoch : Nat, receipts : {R \in SUBSET Nat : IsFiniteSet(R)}]
Summing == [at : {"totals", "finalize"}, epoch : Nat, summary : EpochRow]
Funding == [at : {"fund"}, agent : Agents, job : AgentJobs, amount : Nat]
Closing == [at : {"close"}, job : AgentJobs, row : Reserve, status : {"spent", "refunded"}]
Crediting == [at : {"credit"}, receipt : Nat]

Work == {Idle} \cup Running \cup Ran \cup Checked \cup Paying \cup Recording \cup Sharing
          \cup Selected \cup Assigning \cup Reading \cup Summing \cup Funding \cup Closing
          \cup Crediting

TurnsTyped ==
  work \in [Procs -> Work] /\ inTurn \in BOOLEAN /\ ops \in Nat /\ crashes \in Nat

TablesTyped ==
  /\ receipts \in Seq(ReceiptRow) /\ payouts \in Seq(EventRow)
  /\ balances \in [Workers -> Int] /\ paidJobs \subseteq JobIds \cup {NoId}
  /\ shares \in Seq(ShareRow) /\ rounds \in Seq(Blocks) /\ epochs \in Seq(EpochRow)
  /\ DOMAIN files = DOMAIN FileJobs
  /\ accounts \in [Agents -> AccountRow] /\ escrows \in [AgentJobs -> EscrowRow]
  /\ credits \subseteq Nat

(* The rows that a process has read are there.                             *)
RowsThere(o) ==
  /\ o.at \in {"round", "assign"} => o.shares # {} /\ o.shares \subseteq DOMAIN shares
  /\ o.at = "credit" =>
       o.receipt \in DOMAIN receipts /\ RowsFor(receipts[o.receipt].worker) # {}

(* The types of the tables, and what a process holds in its hands at each  *)
(* of its steps.                                                           *)
TypeOK == TurnsTyped /\ TablesTyped /\ \A p \in Procs : RowsThere(work[p])

LEMMA WorkByAt ==
  ASSUME NEW o \in Work
  PROVE  /\ o.at = "running" => o \in Running
         /\ o.at = "ran" => o \in Ran
         /\ o.at = "checked" => o \in Checked
         /\ o.at \in {"epoch", "create", "pay"} => o \in Paying
         /\ o.at = "record" => o \in Recording
         /\ o.at = "sharing" => o \in Sharing
         /\ o.at = "round" => o \in Selected
         /\ o.at = "assign" => o \in Assigning
         /\ o.at = "payouts" => o \in Reading
         /\ o.at \in {"totals", "finalize"} => o \in Summing
         /\ o.at = "fund" => o \in Funding
         /\ o.at = "close" => o \in Closing
         /\ o.at = "credit" => o \in Crediting
  BY DEF Work, Idle, Running, Ran, Checked, Paying, Recording, Sharing, Selected, Assigning,
         Reading, Summing, Funding, Closing, Crediting

(* What appending to a table does, row by row.                             *)
LEMMA AppendRow ==
  ASSUME NEW R, NEW table \in Seq(R), NEW r \in R
  PROVE  LET n == Len(table)
             longer == Append(table, r)
         IN  /\ n \in Nat /\ DOMAIN table = 1..n
             /\ longer \in Seq(R) /\ Len(longer) = n + 1 /\ DOMAIN longer = 1..(n + 1)
             /\ \A i \in 1..n : longer[i] = table[i]
             /\ longer[n + 1] = r
  OBVIOUS

LEMMA RowInTable ==
  ASSUME NEW R, NEW table \in Seq(R), NEW i \in DOMAIN table
  PROVE  table[i] \in R /\ i \in Nat \ {0} /\ DOMAIN table = 1..Len(table) /\ Len(table) \in Nat
  OBVIOUS

(* The first of some numbers is one of them.                               *)
LEMMA MinIsIn ==
  ASSUME NEW S, S \subseteq Nat, S # {}
  PROVE  Min(S) \in S
<1>1. \E x \in S : \A y \in S : x <= y
  BY LeastNatural
<1>2. QED
  BY <1>1 DEF Min

----
\* Sums over the payout events

(* The sum of the amounts of some events of a book.                        *)
AmountsOf(book, S) == SumFunctionOnSet([i \in DOMAIN book |-> book[i].amount], S)

LEMMA AmountsInt ==
  ASSUME NEW book \in Seq(EventRow), NEW S \in SUBSET DOMAIN book
  PROVE  IsFiniteSet(S) /\ AmountsOf(book, S) \in Int
<1>1. \A i \in DOMAIN book : book[i].amount \in Int
  <2>1. ASSUME NEW i \in DOMAIN book PROVE book[i].amount \in Int
    <3>1. book[i] \in EventRow
      BY RowInTable
    <3>2. QED
      BY <3>1 DEF EventRow
  <2>2. QED
    BY <2>1
<1>2. IsFiniteSet(S)
  <2>1. Len(book) \in Nat /\ DOMAIN book = 1..Len(book)
    OBVIOUS
  <2>2. IsFiniteSet(1..Len(book))
    BY <2>1, FS_Interval
  <2>3. QED
    BY <2>1, <2>2, FS_Subset
<1>3. QED
  <2> DEFINE f == [i \in DOMAIN book |-> book[i].amount]
  <2>1. \A i \in S : f[i] \in Int
    BY <1>1
  <2> HIDE DEF f
  <2>2. SumFunctionOnSet(f, S) \in Int
    BY <1>2, <2>1, SumInt
  <2>3. QED
    BY <1>2, <2>2 DEF AmountsOf, f

(* Another event adds its amount to the sums that it belongs to.           *)
LEMMA AmountsAppend ==
  ASSUME NEW book \in Seq(EventRow), NEW e \in EventRow, NEW S \in SUBSET DOMAIN book
  PROVE  LET longer == Append(book, e)
         IN  /\ AmountsOf(longer, S) = AmountsOf(book, S)
             /\ AmountsOf(longer, S \cup {Len(book) + 1}) = AmountsOf(book, S) + e.amount
<1> DEFINE n == Len(book)
           longer == Append(book, e)
           f == [i \in DOMAIN book |-> book[i].amount]
           g == [i \in DOMAIN longer |-> longer[i].amount]
<1>1. /\ n \in Nat /\ DOMAIN book = 1..n /\ DOMAIN longer = 1..(n + 1)
      /\ \A i \in 1..n : longer[i] = book[i]
      /\ longer[n + 1] = e
  BY AppendRow
<1>2. IsFiniteSet(S) /\ n + 1 \notin S
  BY <1>1, AmountsInt
<1>3. /\ \A i \in S : g[i] = f[i] /\ f[i] \in Int
      /\ g[n + 1] = e.amount /\ e.amount \in Int
  <2>1. \A i \in S : i \in 1..n /\ i \in 1..(n + 1) /\ n + 1 \in 1..(n + 1)
    BY <1>1
  <2>2. n + 1 \in 1..(n + 1)
    BY <1>1
  <2>3. \A i \in S : book[i] \in EventRow
    BY RowInTable
  <2> HIDE DEF n, longer
  <2>4. QED
    BY <1>1, <2>1, <2>2, <2>3 DEF EventRow
<1> HIDE DEF f, g
<1>4. SumFunctionOnSet(g, S) = SumFunctionOnSet(f, S)
  BY <1>2, <1>3, SumSame
<1>5. SumFunctionOnSet(g, S \cup {n + 1}) = g[n + 1] + SumFunctionOnSet(g, S)
  <2>1. \A i \in S \cup {n + 1} : g[i] \in Int
    BY <1>3
  <2> HIDE DEF n
  <2>2. QED
    BY <1>2, <2>1, SumAdd
<1>6. SumFunctionOnSet(f, S) \in Int
  BY <1>2, <1>3, SumInt
<1>7. SumFunctionOnSet(g, S \cup {n + 1}) = SumFunctionOnSet(f, S) + e.amount
  BY <1>3, <1>4, <1>5, <1>6
<1>8. QED
  BY <1>4, <1>7 DEF AmountsOf, f, g

(* The events of a longer book that belong to W: those of the book, and    *)
(* the new one if it does.                                                 *)
LEMMA ChosenAppend ==
  ASSUME NEW book \in Seq(EventRow), NEW e \in EventRow, NEW W
  PROVE  LET longer == Append(book, e)
             S == {i \in DOMAIN book : book[i] \in W}
             T == {i \in DOMAIN longer : longer[i] \in W}
         IN  /\ e \in W => T = S \cup {Len(book) + 1}
             /\ e \notin W => T = S
<1> DEFINE n == Len(book)
           longer == Append(book, e)
<1>1. /\ n \in Nat /\ DOMAIN book = 1..n /\ DOMAIN longer = 1..(n + 1)
      /\ \A i \in 1..n : longer[i] = book[i]
      /\ longer[n + 1] = e
  BY AppendRow
<1>2. 1..(n + 1) = (1..n) \cup {n + 1} /\ n + 1 \notin 1..n
  BY <1>1
<1> HIDE DEF n, longer
<1>3. QED
  BY <1>1, <1>2 DEF n, longer

(* So a sum over the events in W grows by the amount of one that is in W.  *)
LEMMA SumOfChosen ==
  ASSUME NEW book \in Seq(EventRow), NEW e \in EventRow, NEW W
  PROVE  LET longer == Append(book, e)
             S == {i \in DOMAIN book : book[i] \in W}
             T == {i \in DOMAIN longer : longer[i] \in W}
         IN  AmountsOf(longer, T) = AmountsOf(book, S) + (IF e \in W THEN e.amount ELSE 0)
<1> DEFINE longer == Append(book, e)
           S == {i \in DOMAIN book : book[i] \in W}
           T == {i \in DOMAIN longer : longer[i] \in W}
<1>1. S \in SUBSET DOMAIN book
  OBVIOUS
<1>2. (e \in W => T = S \cup {Len(book) + 1}) /\ (e \notin W => T = S)
  BY ChosenAppend
<1> HIDE DEF S, T, longer
<1>3. /\ AmountsOf(longer, S) = AmountsOf(book, S)
      /\ AmountsOf(longer, S \cup {Len(book) + 1}) = AmountsOf(book, S) + e.amount
  BY <1>1, AmountsAppend DEF longer
<1>4. AmountsOf(book, S) \in Int
  BY <1>1, AmountsInt
<1>5. AmountsOf(longer, T) = AmountsOf(book, S) + (IF e \in W THEN e.amount ELSE 0)
  <2>1. CASE e \in W
    BY <1>2, <1>3, <2>1
  <2>2. CASE e \notin W
    <3>1. AmountsOf(longer, T) = AmountsOf(book, S)
      BY <1>2, <1>3, <2>2
    <3>2. PICK a \in Int : a = AmountsOf(book, S)
      BY <1>4
    <3>3. a + 0 = a
      OBVIOUS
    <3>4. QED
      BY <2>2, <3>1, <3>2, <3>3
  <2>3. QED
    BY <2>1, <2>2
<1>6. QED
  BY <1>5 DEF S, T, longer

----
\* Steps

(* A process goes on or begins, the others stay where they are.            *)
LEMMA WorkMoves ==
  ASSUME TurnsTyped, NEW p \in Procs, NEW o, Goes(p, o) \/ Begins(p, o)
  PROVE  /\ work' = [work EXCEPT ![p] = o] /\ work'[p] = o
         /\ \A q \in Procs \ {p} : work'[q] = work[q]
         /\ inTurn' = inTurn /\ crashes' = crashes /\ ops' \in Nat
  BY DEF Goes, Begins, TurnsTyped

LEMMA StepTyped ==
  ASSUME TypeOK, NEW p \in Procs, NEW o \in Work, work' = [work EXCEPT ![p] = o],
         inTurn' = inTurn, ops' \in Nat, crashes' \in Nat, TablesTyped',
         DOMAIN shares \subseteq DOMAIN shares',
         \A i \in DOMAIN receipts : i \in DOMAIN receipts' /\ receipts'[i] = receipts[i],
         o.at \in {"round", "assign"} => o.shares # {} /\ o.shares \subseteq DOMAIN shares',
         o.at = "credit" =>
           o.receipt \in DOMAIN receipts /\ RowsFor(receipts[o.receipt].worker) # {}
  PROVE  TypeOK'
<1>1. TurnsTyped'
  BY DEF TypeOK, TurnsTyped
<1>2. work'[p] = o /\ \A q \in Procs \ {p} : work'[q] = work[q]
  BY DEF TypeOK, TurnsTyped
<1>3. \A q \in Procs \ {p} : RowsThere(work[q])'
  BY <1>2 DEF TypeOK, RowsThere, RowsFor
<1>4. RowsThere(work[p])'
  BY <1>2 DEF TypeOK, RowsThere, RowsFor
<1>5. QED
  BY <1>1, <1>3, <1>4 DEF TypeOK

(* Steps that write no share and no receipt, and hold none.                *)
LEMMA PlainStepTyped ==
  ASSUME TypeOK, NEW p \in Procs, NEW o \in Work, Goes(p, o) \/ Begins(p, o),
         TablesTyped', UNCHANGED <<shares, receipts>>,
         o.at \notin {"round", "assign", "credit"}
  PROVE  TypeOK'
<1>1. /\ work' = [work EXCEPT ![p] = o] /\ inTurn' = inTurn /\ crashes' = crashes
      /\ ops' \in Nat
  BY WorkMoves DEF TypeOK
<1>2. crashes' \in Nat
  BY <1>1 DEF TypeOK, TurnsTyped
<1>3. QED
  BY <1>1, <1>2, StepTyped

LEMMA IdleIsWork == Idle \in Work /\ Idle.at = "idle"
  BY DEF Work, Idle

----
\* A job file

LEMMA FileJobRow ==
  ASSUME NEW f \in DOMAIN FileJobs
  PROVE  FileJobs[f] \in [job : JobIds \cup {NoId}, qi : Nat \ {0}, sensitive : BOOLEAN]
<1> DEFINE R == [job : JobIds \cup {NoId}, qi : Nat \ {0}, sensitive : BOOLEAN]
<1>1. FileJobs \in Seq(R)
  BY WorkerPoolAssumption
<1> HIDE DEF R
<1>2. FileJobs[f] \in R
  BY <1>1, RowInTable
<1>3. QED
  BY <1>2 DEF R

LEMMA PickJobTyped ==
  ASSUME TypeOK, NEW p \in Procs, PickJob(p), UNCHANGED agentVars
  PROVE  TypeOK'
<1>1. Min(Queued) \in DOMAIN FileJobs
  <2>1. Queued \subseteq Nat /\ Queued \subseteq DOMAIN FileJobs
    BY WorkerPoolAssumption DEF Queued
  <2>2. QED
    BY <2>1, MinIsIn DEF PickJob
<1>2. PICK o : o = [at |-> "running", file |-> Min(Queued)] /\ Begins(p, o)
  BY DEF PickJob
<1>3. o \in Work /\ o.at = "running"
  BY <1>1, <1>2 DEF Work, Running
<1>4. TablesTyped' /\ UNCHANGED <<shares, receipts>>
  BY DEF PickJob, TypeOK, TablesTyped, bookTables, poolVars, agentVars
<1>5. QED
  BY <1>2, <1>3, <1>4, PlainStepTyped

LEMMA FinishJobTyped ==
  ASSUME TypeOK, NEW p \in Procs, FinishJob(p), UNCHANGED agentVars
  PROVE  TypeOK'
<1>1. PICK r \in Running : r = work[p] /\ r.file \in DOMAIN FileJobs
  BY WorkByAt DEF FinishJob, TypeOK, TurnsTyped, Running
<1>2. PICK o \in Work : Goes(p, o) /\ o.at \in {"ran", "idle"}
  <2>1. CASE files[r.file] = "queued"
    <3>1. PICK accepted \in BOOLEAN :
            Goes(p, [at |-> "ran", file |-> r.file, accepted |-> accepted])
      BY <1>1, <2>1 DEF FinishJob
    <3>2. PICK o : o = [at |-> "ran", file |-> r.file, accepted |-> accepted]
      OBVIOUS
    <3>3. o \in Work /\ o.at = "ran"
      BY <1>1, <3>2 DEF Work, Ran
    <3>4. QED
      BY <3>1, <3>2, <3>3
  <2>2. CASE files[r.file] # "queued"
    BY <1>1, <2>2, IdleIsWork DEF FinishJob
  <2>3. QED
    BY <2>1, <2>2
<1>3. TablesTyped' /\ UNCHANGED <<shares, receipts>>
  BY DEF FinishJob, TypeOK, TablesTyped, bookTables, poolVars, agentVars
<1>4. QED
  BY <1>2, <1>3, PlainStepTyped

LEMMA CheckDuplicateTyped ==
  ASSUME TypeOK, NEW p \in Procs, CheckDuplicate(p), UNCHANGED agentVars
  PROVE  TypeOK'
<1>1. PICK r \in Ran : r = work[p]
  BY WorkByAt DEF CheckDuplicate, TypeOK, TurnsTyped
<1>2. PICK o : /\ o = [at |-> "checked", file |-> r.file, accepted |-> r.accepted,
                       duplicate |-> WasPaid(FileJobs[r.file].job)]
               /\ Goes(p, o)
  BY <1>1 DEF CheckDuplicate
<1>3. o \in Work /\ o.at = "checked"
  BY <1>1, <1>2 DEF Work, Checked, Ran, WasPaid
<1>4. TablesTyped' /\ UNCHANGED <<shares, receipts>>
  BY DEF CheckDuplicate, TypeOK, TablesTyped, bookTables, poolVars, agentVars
<1>5. QED
  BY <1>2, <1>3, <1>4, PlainStepTyped

(* What a process has in hand after a receipt: nothing, or a payout.       *)
LEMMA InsertReceiptEffect ==
  ASSUME TypeOK, NEW p \in Procs, InsertReceipt(p)
  PROVE  \E r \in ReceiptRow, o \in Work, c \in Checked :
           /\ c = work[p] /\ Goes(p, o)
           /\ receipts' = Append(receipts, r) /\ r.job = FileJobs[c.file].job
           /\ \/ o = Idle
              \/ /\ o \in Paying /\ o.at = "epoch" /\ o.basis = "tokens" /\ o.epoch = 0
                 /\ o.source = Len(receipts) + 1 /\ o.job = r.job
                 /\ DOMAIN o.due = {WorkerOf[p]}
                 /\ ~c.duplicate /\ o.job # NoId
<1>1. PICK c \in Checked : c = work[p]
  BY WorkByAt DEF InsertReceipt, TypeOK, TurnsTyped
<1>2. /\ c.file \in DOMAIN FileJobs /\ WorkerOf[p] \in Workers
      /\ FileJobs[c.file].job \in JobIds \cup {NoId} /\ FileJobs[c.file].qi \in Nat
      /\ FileJobs[c.file].sensitive \in BOOLEAN /\ Len(receipts) + 1 \in Nat
  <2>1. c.file \in DOMAIN FileJobs
    BY DEF Checked
  <2>2. FileJobs[c.file] \in [job : JobIds \cup {NoId}, qi : Nat \ {0}, sensitive : BOOLEAN]
    BY <2>1, FileJobRow
  <2>3. QED
    BY <2>1, <2>2, WorkerPoolAssumption DEF TypeOK, TablesTyped
<1>3. Payout(c.file, c.accepted) \in Nat
  BY <1>2 DEF Payout
<1>4. PICK verdict \in BOOLEAN :
        /\ receipts' = Append(receipts, Receipt(WorkerOf[p], "inference", FileJobs[c.file].job,
                                                verdict, FileJobs[c.file].sensitive))
        /\ \E o :
             /\ Goes(p, o)
             /\ \/ o = Idle
                \/ /\ o = [at |-> "epoch", epoch |-> 0, basis |-> "tokens",
                           source |-> Len(receipts) + 1,
                           due |-> [w \in {WorkerOf[p]} |-> Payout(c.file, c.accepted)],
                           job |-> FileJobs[c.file].job]
                   /\ FileJobs[c.file].job # NoId /\ ~c.duplicate
  <2>1. PICK verdict \in BOOLEAN :
          /\ InsertReceiptRow(Receipt(WorkerOf[p], "inference", FileJobs[c.file].job, verdict,
                                      FileJobs[c.file].sensitive))
          /\ Goes(p, IF verdict /\ Payout(c.file, c.accepted) > 0
                        /\ FileJobs[c.file].job # NoId /\ ~c.duplicate
                     THEN [at |-> "epoch", epoch |-> 0, basis |-> "tokens",
                           source |-> Len(receipts) + 1,
                           due |-> [w \in {WorkerOf[p]} |-> Payout(c.file, c.accepted)],
                           job |-> FileJobs[c.file].job]
                     ELSE Idle)
    BY <1>1 DEF InsertReceipt
  <2>2. QED
    BY <2>1 DEF InsertReceiptRow
<1>10. PICK o :
        /\ Goes(p, o)
        /\ \/ o = Idle
           \/ /\ o = [at |-> "epoch", epoch |-> 0, basis |-> "tokens",
                      source |-> Len(receipts) + 1,
                      due |-> [w \in {WorkerOf[p]} |-> Payout(c.file, c.accepted)],
                      job |-> FileJobs[c.file].job]
              /\ FileJobs[c.file].job # NoId /\ ~c.duplicate
  BY <1>4
<1>5. PICK r : r = Receipt(WorkerOf[p], "inference", FileJobs[c.file].job, verdict,
                           FileJobs[c.file].sensitive)
  OBVIOUS
<1>6. r \in ReceiptRow /\ r.job = FileJobs[c.file].job
  BY <1>2, <1>5 DEF Receipt, ReceiptRow
<1>7. CASE o = Idle
  BY <1>1, <1>4, <1>10, <1>5, <1>6, <1>7, IdleIsWork
<1>8. CASE o # Idle
  <2>1. PICK d : d = [w \in {WorkerOf[p]} |-> Payout(c.file, c.accepted)]
    OBVIOUS
  <2>2. d \in Dues /\ DOMAIN d = {WorkerOf[p]}
    <3>1. d \in [{WorkerOf[p]} -> Int] /\ {WorkerOf[p]} \in SUBSET Workers
      BY <1>2, <1>3, <2>1
    <3>2. QED
      BY <3>1 DEF Dues
  <2>3. /\ o = [at |-> "epoch", epoch |-> 0, basis |-> "tokens", source |-> Len(receipts) + 1,
                due |-> d, job |-> FileJobs[c.file].job]
        /\ FileJobs[c.file].job # NoId /\ ~c.duplicate
    BY <1>4, <1>10, <1>8, <2>1
  <2>4. o \in Paying
    BY <1>2, <2>2, <2>3 DEF Paying
  <2>5. /\ o.at = "epoch" /\ o.basis = "tokens" /\ o.epoch = 0 /\ o.source = Len(receipts) + 1
        /\ o.job = r.job /\ DOMAIN o.due = {WorkerOf[p]}
    BY <1>6, <2>2, <2>3
  <2>6. o \in Work
    BY <2>4 DEF Work
  <2>7. QED
    BY <1>1, <1>4, <1>10, <1>5, <1>6, <2>3, <2>4, <2>5, <2>6
<1>9. QED
  BY <1>7, <1>8

LEMMA InsertReceiptTyped ==
  ASSUME TypeOK, NEW p \in Procs, InsertReceipt(p), UNCHANGED agentVars
  PROVE  TypeOK'
<1>1. PICK r \in ReceiptRow, o \in Work :
        /\ Goes(p, o) /\ receipts' = Append(receipts, r)
        /\ o.at \in {"idle", "epoch"}
  <2>1. PICK r \in ReceiptRow, o \in Work, c \in Checked :
          /\ Goes(p, o) /\ receipts' = Append(receipts, r)
          /\ o = Idle \/ (o.at = "epoch" /\ o \in Paying)
    BY InsertReceiptEffect
  <2>2. QED
    BY <2>1, IdleIsWork
<1>2. /\ receipts \in Seq(ReceiptRow) /\ receipts' \in Seq(ReceiptRow)
      /\ \A i \in DOMAIN receipts : i \in DOMAIN receipts' /\ receipts'[i] = receipts[i]
  BY <1>1 DEF TypeOK, TablesTyped
<1>3. TablesTyped' /\ shares' = shares
  BY <1>2 DEF InsertReceipt, TypeOK, TablesTyped, poolVars, agentVars
<1>4. work' = [work EXCEPT ![p] = o] /\ inTurn' = inTurn /\ crashes' = crashes /\ ops' \in Nat
  BY <1>1, WorkMoves DEF TypeOK
<1>5. crashes' \in Nat
  BY <1>4 DEF TypeOK, TurnsTyped
<1>6. QED
  BY <1>1, <1>2, <1>3, <1>4, <1>5, StepTyped

LEMMA RecordPaidTyped ==
  ASSUME TypeOK, NEW p \in Procs, RecordPaid(p), UNCHANGED agentVars
  PROVE  TypeOK'
<1>1. PICK r \in Recording : r = work[p]
  BY WorkByAt DEF RecordPaid, TypeOK, TurnsTyped
<1>2. paidJobs' = paidJobs \cup {r.job} /\ r.job \in JobIds \cup {NoId} /\ Goes(p, Idle)
  BY <1>1 DEF RecordPaid, MarkPaid, Recording
<1>3. TablesTyped' /\ UNCHANGED <<shares, receipts>>
  BY <1>2 DEF RecordPaid, TypeOK, TablesTyped, poolVars, agentVars
<1>4. QED
  BY <1>2, <1>3, IdleIsWork, PlainStepTyped

----
\* Mining

LEMMA WeightsTyped ==
  ASSUME NEW y \in Nat \ {0}
  PROVE  Weights(y) \in Seq(Nat \ {0}) \ {<<>>}
<1> DEFINE q == y \div Unit
           r == y % Unit
           whole == [i \in 1..q |-> Unit]
           last == IF r > 0 THEN <<r>> ELSE <<>>
<1>1. Unit \in Nat \ {0}
  BY WorkerPoolAssumption
<1>2. q \in Nat /\ r \in Nat /\ y = Unit * q + r
  BY <1>1
<1>3. q > 0 \/ r > 0
  <2>1. ASSUME q = 0, r = 0 PROVE FALSE
    <3>1. Unit * 0 = 0
      BY <1>1
    <3>2. y = 0
      BY <1>2, <2>1, <3>1
    <3>3. QED
      BY <3>2
  <2>2. QED
    BY <1>2, <2>1
<1> HIDE DEF q, r
<1>4. whole \in Seq(Nat \ {0}) /\ Len(whole) = q
  BY <1>1, <1>2
<1>5. /\ last \in Seq(Nat \ {0}) /\ Len(last) \in Nat
      /\ r > 0 => Len(last) = 1
  <2>1. CASE r > 0
    <3>1. r \in Nat \ {0} /\ last = <<r>>
      BY <1>2, <2>1
    <3>2. <<r>> \in Seq(Nat \ {0}) /\ Len(<<r>>) = 1
      BY <3>1
    <3>3. QED
      BY <3>1, <3>2
  <2>2. CASE ~ (r > 0)
    <3>1. last = <<>>
      BY <2>2
    <3>2. QED
      BY <2>2, <3>1
  <2>3. QED
    BY <2>1, <2>2
<1>6. Weights(y) = whole \o last
  BY DEF Weights, q, r
<1> HIDE DEF whole, last
<1>7. whole \o last \in Seq(Nat \ {0}) /\ Len(whole \o last) = Len(whole) + Len(last)
  BY <1>4, <1>5, ConcatProperties, Zenon
<1>8. whole \o last # <<>>
  <2>1. PICK m \in Nat : m = Len(last)
    BY <1>5
  <2>2. Len(whole \o last) = q + m
    BY <1>4, <1>7, <2>1
  <2>3. q + m > 0
    BY <1>2, <1>3, <1>5, <2>1
  <2>4. Len(<<>>) = 0
    OBVIOUS
  <2>5. QED
    BY <2>2, <2>3, <2>4
<1>9. QED
  BY <1>6, <1>7, <1>8

LEMMA InsertMiningReceiptTyped ==
  ASSUME TypeOK, NEW p \in Procs, InsertMiningReceipt(p), UNCHANGED agentVars
  PROVE  TypeOK'
<1>1. PICK r : r = Receipt(WorkerOf[p], "mining", NoId, FALSE, FALSE)
  OBVIOUS
<1>2. r \in ReceiptRow /\ receipts' = Append(receipts, r)
  BY <1>1, WorkerPoolAssumption DEF InsertMiningReceipt, InsertReceiptRow, Receipt, ReceiptRow
<1>3. receipts \in Seq(ReceiptRow) /\ Len(receipts) + 1 \in Nat
  BY DEF TypeOK, TablesTyped
<1>4. PICK o \in Work : Begins(p, o) /\ o.at \in {"idle", "sharing"}
  <2>1. PICK y \in Yields \cup {0} :
          Begins(p, IF y = 0 THEN Idle
                    ELSE [at |-> "sharing", left |-> Weights(y), receipt |-> Len(receipts) + 1])
    BY DEF InsertMiningReceipt
  <2>2. CASE y = 0
    BY <2>1, <2>2, IdleIsWork
  <2>3. CASE y # 0
    <3>1. Weights(y) \in Seq(Nat \ {0}) \ {<<>>}
      BY <2>1, <2>3, WorkerPoolAssumption, WeightsTyped
    <3>2. PICK o : /\ o = [at |-> "sharing", left |-> Weights(y), receipt |-> Len(receipts) + 1]
                   /\ Begins(p, o)
      BY <2>1, <2>3
    <3>3. o \in Work /\ o.at = "sharing"
      BY <1>3, <3>1, <3>2 DEF Work, Sharing
    <3>4. QED
      BY <3>2, <3>3
  <2>4. QED
    BY <2>2, <2>3
<1>5. /\ receipts' \in Seq(ReceiptRow)
      /\ \A i \in DOMAIN receipts : i \in DOMAIN receipts' /\ receipts'[i] = receipts[i]
  BY <1>2, <1>3
<1>6. TablesTyped' /\ shares' = shares
  BY <1>5 DEF InsertMiningReceipt, TypeOK, TablesTyped, poolVars, agentVars
<1>7. work' = [work EXCEPT ![p] = o] /\ inTurn' = inTurn /\ crashes' = crashes /\ ops' \in Nat
  BY <1>4, WorkMoves DEF TypeOK
<1>8. crashes' \in Nat
  BY <1>7 DEF TypeOK, TurnsTyped
<1>9. QED
  BY <1>4, <1>5, <1>6, <1>7, <1>8, StepTyped

LEMMA InsertShareTyped ==
  ASSUME TypeOK, NEW p \in Procs, InsertShare(p), UNCHANGED agentVars
  PROVE  TypeOK'
<1>1. PICK c \in Sharing : c = work[p]
  BY WorkByAt DEF InsertShare, TypeOK, TurnsTyped
<1>2. c.left \in Seq(Nat \ {0}) /\ c.left # <<>> /\ c.receipt \in Nat /\ WorkerOf[p] \in Workers
  BY WorkerPoolAssumption DEF Sharing
<1>3. PICK s : s = [worker |-> WorkerOf[p], weight |-> Head(c.left), receipt |-> c.receipt,
                    round |-> 0]
  OBVIOUS
<1>4. Head(c.left) \in Nat \ {0} /\ Tail(c.left) \in Seq(Nat \ {0})
  BY <1>2
<1>5. s \in ShareRow
  BY <1>2, <1>3, <1>4 DEF ShareRow
<1>6. shares' = Append(shares, s)
  BY <1>1, <1>3 DEF InsertShare
<1>7. PICK o \in Work : Goes(p, o) /\ o.at \in {"idle", "sharing"}
  <2>1. CASE Len(c.left) = 1
    <3>1. Goes(p, Idle)
      BY <1>1, <2>1 DEF InsertShare
    <3>2. QED
      BY <3>1, IdleIsWork
  <2>2. CASE Len(c.left) # 1
    <3>1. PICK o : o = [c EXCEPT !.left = Tail(@)] /\ Goes(p, o)
      BY <1>1, <2>2 DEF InsertShare
    <3>2. Tail(c.left) # <<>>
      <4>1. Len(Tail(c.left)) = Len(c.left) - 1 /\ Len(c.left) \in Nat
        BY <1>2, HeadTailProperties, LenProperties
      <4>2. PICK t : t = Tail(c.left)
        OBVIOUS
      <4>3. Len(t) # 0
        BY <2>2, <4>1, <4>2
      <4>4. t # <<>>
        BY <4>3
      <4>5. QED
        BY <4>2, <4>4
    <3>3. o = [at |-> "sharing", left |-> Tail(c.left), receipt |-> c.receipt]
      BY <3>1 DEF Sharing
    <3>4. o \in Sharing /\ o.at = "sharing"
      BY <1>2, <1>4, <3>2, <3>3 DEF Sharing
    <3>5. QED
      BY <3>1, <3>4 DEF Work
  <2>3. QED
    BY <2>1, <2>2
<1>8. shares' \in Seq(ShareRow) /\ DOMAIN shares \subseteq DOMAIN shares'
  BY <1>5, <1>6, AppendRow DEF TypeOK, TablesTyped
<1>9. TablesTyped' /\ receipts' = receipts
  BY <1>8 DEF InsertShare, TypeOK, TablesTyped, agentVars
<1>10. work' = [work EXCEPT ![p] = o] /\ inTurn' = inTurn /\ crashes' = crashes /\ ops' \in Nat
  BY <1>7, WorkMoves DEF TypeOK
<1>11. crashes' \in Nat
  BY <1>10 DEF TypeOK, TurnsTyped
<1>12. QED
  BY <1>7, <1>8, <1>9, <1>10, <1>11, StepTyped

----
\* The reward of a block

LEMMA WeightsAreNat ==
  ASSUME TypeOK, NEW S \in SUBSET DOMAIN shares
  PROVE  /\ IsFiniteSet(S) /\ WeightOf(S) \in Nat
         /\ S # {} => WeightOf(S) > 0
<1> DEFINE f == [i \in DOMAIN shares |-> shares[i].weight]
<1>1. \A i \in DOMAIN shares : shares[i] \in ShareRow
  BY RowInTable DEF TypeOK, TablesTyped
<1>2. \A i \in S : f[i] \in Nat /\ f[i] > 0
  BY <1>1 DEF ShareRow
<1>3. IsFiniteSet(S)
  <2>1. Len(shares) \in Nat /\ DOMAIN shares = 1..Len(shares)
    BY DEF TypeOK, TablesTyped
  <2>2. IsFiniteSet(1..Len(shares))
    BY <2>1, FS_Interval
  <2>3. QED
    BY <2>1, <2>2, FS_Subset
<1> HIDE DEF f
<1>4. SumFunctionOnSet(f, S) \in Nat /\ \A i \in S : SumFunctionOnSet(f, S) >= f[i]
  BY <1>2, <1>3, SumNat
<1>5. S # {} => SumFunctionOnSet(f, S) > 0
  BY <1>2, <1>4
<1>6. WeightOf(S) = SumFunctionOnSet(f, S)
  BY DEF WeightOf, f
<1>7. QED
  BY <1>3, <1>4, <1>5, <1>6

(* Who gets a part of a reward: those with a share in it.                  *)
LEMMA PartsTyped ==
  ASSUME TypeOK, NEW S \in SUBSET DOMAIN shares, S # {}
  PROVE  /\ RewardParts(S) \in Dues
         /\ DOMAIN RewardParts(S) = {shares[i].worker : i \in S}
<1> DEFINE of(w) == WeightOf({i \in S : shares[i].worker = w})
           total == WeightOf(S)
           W == {shares[i].worker : i \in S}
           part(w) == (2 * Reward * of(w) + total) \div (2 * total)
<1>1. total \in Nat \ {0}
  BY WeightsAreNat
<1>2. \A w : of(w) \in Nat
  BY WeightsAreNat
<1>3. W \in SUBSET Workers
  <2>1. \A i \in DOMAIN shares : shares[i] \in ShareRow
    BY RowInTable DEF TypeOK, TablesTyped
  <2>2. QED
    BY <2>1 DEF ShareRow
<1> HIDE DEF of, total, W
<1>4. \A w : part(w) \in Int
  <2> SUFFICES ASSUME NEW w PROVE part(w) \in Int
    OBVIOUS
  <2>1. PICK d \in Nat \ {0} : d = 2 * total
    BY <1>1
  <2>2. PICK n \in Int : n = 2 * Reward * of(w) + total
    BY <1>1, <1>2, WorkerPoolAssumption
  <2>3. n \div d \in Int
    BY <2>1, <2>2
  <2>4. QED
    BY <2>1, <2>2, <2>3
<1>5. RewardParts(S) = [w \in W |-> part(w)]
  BY DEF RewardParts, of, total, W
<1> HIDE DEF part
<1>6. [w \in W |-> part(w)] \in [W -> Int] /\ DOMAIN [w \in W |-> part(w)] = W
  BY <1>4
<1>7. QED
  BY <1>3, <1>5, <1>6 DEF Dues, W

LEMMA SelectSharesTyped ==
  ASSUME TypeOK, NEW p \in Procs, NEW b \in Blocks, SelectShares(p, b), UNCHANGED agentVars
  PROVE  TypeOK'
<1>1. PICK S \in Windows \ {{}} : Begins(p, [at |-> "round", block |-> b, shares |-> S])
  BY DEF SelectShares
<1>2. S \in SUBSET DOMAIN shares /\ S \subseteq Nat
  <2>1. S \in SUBSET DOMAIN shares
    BY <1>1 DEF Windows, LatestOf
  <2>2. QED
    BY <2>1 DEF TypeOK, TablesTyped
<1>3. PICK o : o = [at |-> "round", block |-> b, shares |-> S] /\ Begins(p, o)
  BY <1>1
<1>4. o \in Work /\ o.at = "round" /\ o.shares = S
  BY <1>2, <1>3 DEF Work, Selected
<1>5. TablesTyped' /\ shares' = shares /\ receipts' = receipts
  BY DEF SelectShares, TypeOK, TablesTyped, bookTables, poolVars, agentVars
<1>6. work' = [work EXCEPT ![p] = o] /\ inTurn' = inTurn /\ crashes' = crashes /\ ops' \in Nat
  BY <1>3, WorkMoves DEF TypeOK
<1>7. crashes' \in Nat
  BY <1>6 DEF TypeOK, TurnsTyped
<1>8. QED
  BY <1>1, <1>2, <1>4, <1>5, <1>6, <1>7, StepTyped

LEMMA InsertRoundTyped ==
  ASSUME TypeOK, NEW p \in Procs, InsertRound(p), UNCHANGED agentVars
  PROVE  TypeOK'
<1>1. PICK c \in Selected : c = work[p]
  BY WorkByAt DEF InsertRound, TypeOK, TurnsTyped
<1>2. /\ c.block \in Blocks /\ c.shares \in SUBSET Nat
      /\ c.shares # {} /\ c.shares \subseteq DOMAIN shares
  BY <1>1 DEF Selected, TypeOK, RowsThere, InsertRound
<1>3. Len(rounds) + 1 \in Nat
  BY DEF TypeOK, TablesTyped
<1>4. PICK o \in Work : /\ Goes(p, o) /\ o.at \in {"idle", "assign"}
                        /\ o.at = "assign" => o.shares = c.shares
                        /\ rounds' = rounds \/ rounds' = Append(rounds, c.block)
  <2>1. CASE HasRound(c.block)
    BY <1>1, <2>1, IdleIsWork DEF InsertRound
  <2>2. CASE ~HasRound(c.block)
    <3>1. PICK o : o = [at |-> "assign", round |-> Len(rounds) + 1, shares |-> c.shares]
      OBVIOUS
    <3>2. Goes(p, o) /\ rounds' = Append(rounds, c.block)
      BY <1>1, <2>2, <3>1 DEF InsertRound
    <3>3. o \in Work /\ o.at = "assign" /\ o.shares = c.shares
      BY <1>2, <1>3, <3>1 DEF Work, Assigning
    <3>4. QED
      BY <3>2, <3>3
  <2>3. QED
    BY <2>1, <2>2
<1>5. rounds' \in Seq(Blocks)
  <2>1. rounds \in Seq(Blocks) /\ c.block \in Blocks
    BY <1>2 DEF TypeOK, TablesTyped
  <2>2. Append(rounds, c.block) \in Seq(Blocks)
    BY <2>1
  <2>3. QED
    BY <1>4, <2>1, <2>2
<1>6. TablesTyped' /\ shares' = shares /\ receipts' = receipts
  BY <1>5 DEF InsertRound, TypeOK, TablesTyped, agentVars
<1>7. work' = [work EXCEPT ![p] = o] /\ inTurn' = inTurn /\ crashes' = crashes /\ ops' \in Nat
  BY <1>4, WorkMoves DEF TypeOK
<1>8. crashes' \in Nat
  BY <1>7 DEF TypeOK, TurnsTyped
<1>9. QED
  BY <1>2, <1>4, <1>6, <1>7, <1>8, StepTyped

LEMMA AssignSharesTyped ==
  ASSUME TypeOK, NEW p \in Procs, AssignShares(p), UNCHANGED agentVars
  PROVE  TypeOK'
<1>1. PICK c \in Assigning : c = work[p]
  BY WorkByAt DEF AssignShares, TypeOK, TurnsTyped
<1>2. /\ c.round \in Nat /\ c.shares # {} /\ c.shares \in SUBSET DOMAIN shares
  BY <1>1 DEF Assigning, TypeOK, RowsThere, AssignShares
<1>3. RewardParts(c.shares) \in Dues
  BY <1>2, PartsTyped
<1>4. PICK o : /\ o = [at |-> "epoch", epoch |-> 0, basis |-> "pplns", source |-> c.round,
                       due |-> RewardParts(c.shares), job |-> NoId]
               /\ Goes(p, o)
  BY <1>1 DEF AssignShares
<1>5. o \in Work /\ o.at = "epoch"
  BY <1>2, <1>3, <1>4 DEF Work, Paying
<1>6. shares' \in Seq(ShareRow) /\ DOMAIN shares' = DOMAIN shares
  <2>1. PICK n \in Nat : DOMAIN shares = 1..n
    BY DEF TypeOK, TablesTyped
  <2>2. shares' = [i \in 1..n |-> IF i \in c.shares /\ shares[i].round = 0
                                  THEN [shares[i] EXCEPT !.round = c.round] ELSE shares[i]]
    BY <1>1, <2>1 DEF AssignShares
  <2>3. \A i \in 1..n : shares[i] \in ShareRow
    BY <2>1, RowInTable DEF TypeOK, TablesTyped
  <2>4. \A i \in 1..n : [shares[i] EXCEPT !.round = c.round] \in ShareRow
    BY <1>2, <2>3 DEF ShareRow
  <2>5. shares' \in [1..n -> ShareRow]
    BY <2>2, <2>3, <2>4
  <2>6. QED
    BY <2>1, <2>5
<1>7. TablesTyped' /\ receipts' = receipts
  BY <1>6 DEF AssignShares, TypeOK, TablesTyped, agentVars
<1>8. work' = [work EXCEPT ![p] = o] /\ inTurn' = inTurn /\ crashes' = crashes /\ ops' \in Nat
  BY <1>4, WorkMoves DEF TypeOK
<1>9. crashes' \in Nat
  BY <1>8 DEF TypeOK, TurnsTyped
<1>10. QED
  BY <1>5, <1>6, <1>7, <1>8, <1>9, StepTyped

----
\* Epochs and payouts

LEMMA ReadEpochTyped ==
  ASSUME TypeOK, NEW p \in Procs, ReadEpoch(p), UNCHANGED agentVars
  PROVE  TypeOK'
<1>1. PICK c \in Paying : c = work[p]
  BY WorkByAt DEF ReadEpoch, TypeOK, TurnsTyped
<1>2. PICK o \in Paying : Goes(p, o)
  <2>1. CASE Active = {}
    <3>1. PICK o : o = [c EXCEPT !.at = "create"] /\ Goes(p, o)
      BY <1>1, <2>1 DEF ReadEpoch
    <3>2. o \in Paying
      BY <3>1 DEF Paying
    <3>3. QED
      BY <3>1, <3>2
  <2>2. CASE Active # {}
    <3>1. Active \subseteq Nat
      BY DEF Active, TypeOK, TablesTyped
    <3>2. Min(Active) \in Nat
      BY <2>2, <3>1, MinIsIn
    <3>3. PICK o : o = [c EXCEPT !.at = "pay", !.epoch = Min(Active)] /\ Goes(p, o)
      BY <1>1, <2>2 DEF ReadEpoch
    <3>4. o \in Paying
      BY <3>2, <3>3 DEF Paying
    <3>5. QED
      BY <3>3, <3>4
  <2>3. QED
    BY <2>1, <2>2
<1>3. o \in Work /\ o.at \notin {"round", "assign", "credit"}
  BY <1>2 DEF Work, Paying
<1>4. TablesTyped' /\ UNCHANGED <<shares, receipts>>
  BY DEF ReadEpoch, TypeOK, TablesTyped, bookTables, poolVars, agentVars
<1>5. QED
  BY <1>2, <1>3, <1>4, PlainStepTyped

LEMMA CreateEpochTyped ==
  ASSUME TypeOK, NEW p \in Procs, CreateEpoch(p), UNCHANGED agentVars
  PROVE  TypeOK'
<1>1. PICK c \in Paying : c = work[p]
  BY WorkByAt DEF CreateEpoch, TypeOK, TurnsTyped
<1>2. epochs \in Seq(EpochRow) /\ Len(epochs) + 1 \in Nat
  BY DEF TypeOK, TablesTyped
<1>3. PICK o : o = [c EXCEPT !.at = "pay", !.epoch = Len(epochs) + 1] /\ Goes(p, o)
  BY <1>1 DEF CreateEpoch
<1>4. o \in Paying
  BY <1>2, <1>3 DEF Paying
<1>5. o \in Work /\ o.at \notin {"round", "assign", "credit"}
  BY <1>4 DEF Work, Paying
<1>6. epochs' \in Seq(EpochRow)
  <2>1. PICK e : e = [status |-> "active", settled |-> 0, verified |-> 0, workers |-> NoTotals]
    OBVIOUS
  <2>2. e \in EpochRow
    BY <2>1 DEF EpochRow, NoTotals
  <2>3. epochs' = Append(epochs, e)
    BY <2>1 DEF CreateEpoch, InsertEpoch
  <2>4. QED
    BY <1>2, <2>2, <2>3
<1>7. TablesTyped' /\ UNCHANGED <<shares, receipts>>
  BY <1>6 DEF CreateEpoch, TypeOK, TablesTyped, agentVars
<1>8. QED
  BY <1>3, <1>5, <1>7, PlainStepTyped

(* The event and the balance that a payout writes.                         *)
LEMMA InsertedTyped ==
  ASSUME TypeOK, NEW e \in EventRow, InsertPayoutEvent(e)
  PROVE  payouts' \in Seq(EventRow) /\ balances' \in [Workers -> Int]
<1>1. /\ e.worker \in Workers /\ e.amount \in Int
      /\ payouts \in Seq(EventRow) /\ balances \in [Workers -> Int]
  BY DEF EventRow, TypeOK, TablesTyped
<1>2. /\ payouts' = Append(payouts, e)
      /\ balances' = [balances EXCEPT ![e.worker] = @ + e.amount]
  BY DEF InsertPayoutEvent
<1>3. payouts' \in Seq(EventRow)
  BY <1>1, <1>2
<1>4. balances' \in [Workers -> Int]
  BY <1>1, <1>2
<1>5. QED
  BY <1>3, <1>4

(* A payout: who is paid and what is left to do.                           *)
PaidOut(p, c, o, w) ==
  /\ c = work[p] /\ c.at = "pay" /\ Goes(p, o)
  /\ Event(w, c.basis, c.due[w], c.source, c.epoch) \in EventRow
  /\ InsertPayoutEvent(Event(w, c.basis, c.due[w], c.source, c.epoch))
  /\ \/ /\ DOMAIN c.due \ {w} # {} /\ o \in Paying
        /\ o = [c EXCEPT !.at = "epoch", !.due = Restrict(@, DOMAIN c.due \ {w})]
     \/ DOMAIN c.due = {w} /\ c.basis = "tokens" /\ o = [at |-> "record", job |-> c.job]
     \/ DOMAIN c.due = {w} /\ c.basis = "pplns" /\ o = Idle

LEMMA PayEffect ==
  ASSUME TypeOK, NEW p \in Procs, Pay(p)
  PROVE  \E c \in Paying, o \in Work : \E w \in DOMAIN c.due : PaidOut(p, c, o, w)
<1>1. PICK c \in Paying : c = work[p]
  BY WorkByAt DEF Pay, TypeOK, TurnsTyped
<1>2. PICK w \in DOMAIN c.due :
        \E o :
          /\ InsertPayoutEvent(Event(w, c.basis, c.due[w], c.source, c.epoch))
          /\ Goes(p, o)
          /\ LET rest == DOMAIN c.due \ {w} IN
               /\ rest # {} => o = [c EXCEPT !.at = "epoch", !.due = Restrict(c.due, rest)]
               /\ rest = {} /\ c.basis = "tokens" => o = [at |-> "record", job |-> c.job]
               /\ rest = {} /\ c.basis # "tokens" => o = Idle
  <2> DEFINE rest(w) == DOMAIN c.due \ {w}
             next(w) == IF rest(w) # {}
                        THEN [c EXCEPT !.at = "epoch", !.due = Restrict(@, rest(w))]
                        ELSE IF c.basis = "tokens" THEN [at |-> "record", job |-> c.job] ELSE Idle
  <2>1. PICK w \in DOMAIN c.due :
          /\ InsertPayoutEvent(Event(w, c.basis, c.due[w], c.source, c.epoch))
          /\ Goes(p, next(w))
    BY <1>1 DEF Pay
  <2>2. /\ rest(w) # {} => next(w) = [c EXCEPT !.at = "epoch", !.due = Restrict(c.due, rest(w))]
        /\ rest(w) = {} /\ c.basis = "tokens" => next(w) = [at |-> "record", job |-> c.job]
        /\ rest(w) = {} /\ c.basis # "tokens" => next(w) = Idle
    <3> HIDE DEF rest
    <3>1. QED
      OBVIOUS
  <2> HIDE DEF next
  <2>3. QED
    BY <2>1, <2>2
<1>10. PICK o :
        /\ InsertPayoutEvent(Event(w, c.basis, c.due[w], c.source, c.epoch))
        /\ Goes(p, o)
        /\ LET rest == DOMAIN c.due \ {w} IN
             /\ rest # {} => o = [c EXCEPT !.at = "epoch", !.due = Restrict(c.due, rest)]
             /\ rest = {} /\ c.basis = "tokens" => o = [at |-> "record", job |-> c.job]
             /\ rest = {} /\ c.basis # "tokens" => o = Idle
  BY <1>2
<1> DEFINE rest == DOMAIN c.due \ {w}
<1>3. /\ c.due \in Dues /\ c.epoch \in Nat /\ c.basis \in {"tokens", "pplns"}
      /\ c.source \in Nat /\ c.job \in JobIds \cup {NoId} /\ c.at = "pay"
  BY <1>1 DEF Paying, Pay
<1>4. /\ w \in Workers /\ c.due[w] \in Int /\ Restrict(c.due, rest) \in Dues
  <2>1. PICK W \in SUBSET Workers : c.due \in [W -> Int]
    BY <1>3 DEF Dues
  <2>2. w \in W /\ c.due[w] \in Int /\ rest \in SUBSET Workers /\ rest \subseteq W
    BY <2>1
  <2>3. Restrict(c.due, rest) \in [rest -> Int]
    BY <2>1, <2>2 DEF Restrict
  <2>4. QED
    BY <2>1, <2>2, <2>3 DEF Dues
<1>5. Event(w, c.basis, c.due[w], c.source, c.epoch) \in EventRow
  BY <1>3, <1>4 DEF Event, EventRow
<1>6. CASE rest # {}
  <2>1. o = [c EXCEPT !.at = "epoch", !.due = Restrict(@, rest)]
    BY <1>10, <1>6
  <2>2. o \in Paying
    BY <1>4, <2>1 DEF Paying
  <2>3. o \in Work
    BY <2>2 DEF Work
  <2>4. c = work[p] /\ c.at = "pay" /\ Goes(p, o)
    BY <1>1, <1>10, <1>3
  <2>5. PaidOut(p, c, o, w)
    BY <1>10, <1>5, <1>6, <2>1, <2>2, <2>4, Zenon DEF PaidOut
  <2>6. QED
    BY <2>3, <2>5
<1>7. CASE rest = {} /\ c.basis = "tokens"
  <2>1. o = [at |-> "record", job |-> c.job]
    BY <1>10, <1>7
  <2>2. o \in Work
    BY <1>3, <2>1 DEF Work, Recording
  <2>3. DOMAIN c.due = {w}
    BY <1>7
  <2>4. QED
    BY <1>1, <1>10, <1>3, <1>5, <1>7, <2>1, <2>2, <2>3 DEF PaidOut
<1>8. CASE rest = {} /\ c.basis # "tokens"
  <2>1. o = Idle /\ DOMAIN c.due = {w} /\ c.basis = "pplns"
    BY <1>10, <1>3, <1>8
  <2>2. QED
    BY <1>1, <1>10, <1>3, <1>5, <2>1, IdleIsWork DEF PaidOut
<1>9. QED
  BY <1>6, <1>7, <1>8

LEMMA PayTyped ==
  ASSUME TypeOK, NEW p \in Procs, Pay(p), UNCHANGED agentVars
  PROVE  TypeOK'
<1>1. PICK e \in EventRow, o \in Work :
        InsertPayoutEvent(e) /\ Goes(p, o) /\ o.at \notin {"round", "assign", "credit"}
  <2>1. PICK e \in EventRow, o \in Work :
          /\ InsertPayoutEvent(e) /\ Goes(p, o)
          /\ o \in Paying \/ o = Idle \/ \E j : o = [at |-> "record", job |-> j]
    <3>1. PICK c \in Paying, o \in Work : \E w \in DOMAIN c.due : PaidOut(p, c, o, w)
      BY PayEffect
    <3>2. QED
      BY <3>1 DEF PaidOut
  <2>2. QED
    BY <2>1 DEF Paying, Idle
<1>2. payouts' \in Seq(EventRow) /\ balances' \in [Workers -> Int]
  BY <1>1, InsertedTyped
<1>3. TablesTyped' /\ UNCHANGED <<shares, receipts>>
  BY <1>2 DEF Pay, TypeOK, TablesTyped, poolVars, agentVars
<1>4. QED
  BY <1>1, <1>3, PlainStepTyped

LEMMA EventsThere ==
  ASSUME TypeOK, NEW T
  PROVE  LET S == {i \in DOMAIN payouts : payouts[i] \in T}
         IN  S \in SUBSET DOMAIN payouts /\ IsFiniteSet(S) /\ Total(S) \in Int
<1>1. payouts \in Seq(EventRow)
  BY DEF TypeOK, TablesTyped
<1>2. \A S \in SUBSET DOMAIN payouts : IsFiniteSet(S) /\ Total(S) \in Int
  BY <1>1, AmountsInt DEF AmountsOf, Total
<1>3. QED
  BY <1>2

LEMMA TotalsTyped ==
  ASSUME TypeOK, NEW S \in SUBSET DOMAIN payouts
  PROVE  /\ IsFiniteSet(S) /\ Total(S) \in Int
         /\ WorkerTotals(S) \in [Workers -> Int]
<1>1. payouts \in Seq(EventRow)
  BY DEF TypeOK, TablesTyped
<1>2. \A T \in SUBSET DOMAIN payouts : IsFiniteSet(T) /\ Total(T) \in Int
  BY <1>1, AmountsInt DEF AmountsOf, Total
<1>3. \A w : {i \in S : payouts[i].worker = w} \in SUBSET DOMAIN payouts
  OBVIOUS
<1>4. \A w : Total({i \in S : payouts[i].worker = w}) \in Int
  BY <1>2, <1>3
<1>5. WorkerTotals(S) \in [Workers -> Int]
  BY <1>4 DEF WorkerTotals
<1>6. QED
  BY <1>2, <1>5

LEMMA ReceiptsTyped ==
  ASSUME TypeOK, NEW e
  PROVE  ReceiptsOf(e) \subseteq Nat /\ IsFiniteSet(ReceiptsOf(e))
<1> DEFINE S == {i \in DOMAIN payouts : payouts[i].epoch = e /\ payouts[i].basis = "tokens"}
<1>1. \A i \in DOMAIN payouts : payouts[i] \in EventRow
  BY RowInTable DEF TypeOK, TablesTyped
<1>2. IsFiniteSet(S)
  BY TotalsTyped
<1>3. ReceiptsOf(e) = {payouts[i].source : i \in S}
  BY DEF ReceiptsOf, EventsWith
<1>4. {payouts[i].source : i \in S} \subseteq Nat
  BY <1>1 DEF EventRow
<1> HIDE DEF S
<1>5. IsFiniteSet({payouts[i].source : i \in S})
  <2> DEFINE g == [i \in S |-> payouts[i].source]
  <2>1. g \in Surjection(S, {payouts[i].source : i \in S})
    BY DEF Surjection
  <2> HIDE DEF g
  <2>2. QED
    BY <1>2, <2>1, FS_Surjection
<1>6. QED
  BY <1>3, <1>4, <1>5

LEMMA ReadReceiptsTyped ==
  ASSUME TypeOK, NEW p \in Procs, NEW e \in DOMAIN epochs, ReadReceipts(p, e),
         UNCHANGED agentVars
  PROVE  TypeOK'
<1>1. PICK o :
        o = [at |-> "payouts", epoch |-> e, receipts |-> ValidReceipts(e)] /\ Begins(p, o)
  BY DEF ReadReceipts
<1>2. e \in Nat
  BY DEF TypeOK, TablesTyped
<1>3. ValidReceipts(e) \subseteq Nat /\ IsFiniteSet(ValidReceipts(e))
  BY ReceiptsTyped, FS_Subset DEF ValidReceipts
<1>4. o \in Work /\ o.at = "payouts"
  BY <1>1, <1>2, <1>3 DEF Work, Reading
<1>5. TablesTyped' /\ UNCHANGED <<shares, receipts>>
  BY DEF ReadReceipts, TypeOK, TablesTyped, bookTables, poolVars, agentVars
<1>6. QED
  BY <1>1, <1>4, <1>5, PlainStepTyped

LEMMA ReadTotalsTyped ==
  ASSUME TypeOK, NEW p \in Procs, ReadTotals(p), UNCHANGED agentVars
  PROVE  TypeOK'
<1>1. PICK c \in Reading : c = work[p]
  BY WorkByAt DEF ReadTotals, TypeOK, TurnsTyped
<1>2. PICK S \in SUBSET DOMAIN payouts :
        \E o :
          /\ o = [at |-> "totals", epoch |-> c.epoch,
                  summary |-> [status |-> "finalized", settled |-> Total(S),
                               verified |-> Cardinality(c.receipts),
                               workers |-> WorkerTotals(S)]]
          /\ Goes(p, o)
  <2> DEFINE S == EventsWith(LAMBDA v : v.epoch = work[p].epoch
                              /\ (v.basis = "pplns" \/ v.source \in work[p].receipts))
  <2>1. S \in SUBSET DOMAIN payouts
    BY DEF EventsWith
  <2>2. Goes(p, [at |-> "totals", epoch |-> c.epoch,
                 summary |-> [status |-> "finalized", settled |-> Total(S),
                              verified |-> Cardinality(c.receipts),
                              workers |-> WorkerTotals(S)]])
    BY <1>1 DEF ReadTotals
  <2> HIDE DEF S
  <2>3. QED
    BY <2>1, <2>2
<1>10. PICK o :
        /\ o = [at |-> "totals", epoch |-> c.epoch,
                summary |-> [status |-> "finalized", settled |-> Total(S),
                             verified |-> Cardinality(c.receipts),
                             workers |-> WorkerTotals(S)]]
        /\ Goes(p, o)
  BY <1>2
<1>3. c.epoch \in Nat /\ Cardinality(c.receipts) \in Nat
  BY FS_CardinalityType DEF Reading
<1>4. PICK y : y = [status |-> "finalized", settled |-> Total(S),
                    verified |-> Cardinality(c.receipts), workers |-> WorkerTotals(S)]
  OBVIOUS
<1>5. y \in EpochRow
  BY <1>3, <1>4, TotalsTyped DEF EpochRow
<1>6. o = [at |-> "totals", epoch |-> c.epoch, summary |-> y]
  BY <1>10, <1>4
<1>7. o \in Work /\ o.at = "totals"
  BY <1>3, <1>5, <1>6 DEF Work, Summing
<1>8. TablesTyped' /\ UNCHANGED <<shares, receipts>>
  BY DEF ReadTotals, TypeOK, TablesTyped, bookTables, poolVars, agentVars
<1>9. QED
  BY <1>10, <1>7, <1>8, PlainStepTyped

LEMMA CheckFinalizedTyped ==
  ASSUME TypeOK, NEW p \in Procs, CheckFinalized(p), UNCHANGED agentVars
  PROVE  TypeOK'
<1>1. PICK c \in Summing : c = work[p]
  BY WorkByAt DEF CheckFinalized, TypeOK, TurnsTyped
<1>2. PICK o \in Work : Goes(p, o) /\ o.at \in {"idle", "finalize"}
  <2>1. CASE c.epoch \in Active
    <3>1. PICK o : o = [c EXCEPT !.at = "finalize"] /\ Goes(p, o)
      BY <1>1, <2>1 DEF CheckFinalized
    <3>2. o \in Summing /\ o.at = "finalize"
      BY <3>1 DEF Summing
    <3>3. QED
      BY <3>1, <3>2 DEF Work
  <2>2. CASE c.epoch \notin Active
    <3>1. Goes(p, Idle)
      BY <1>1, <2>2 DEF CheckFinalized
    <3>2. QED
      BY <3>1, IdleIsWork
  <2>3. QED
    BY <2>1, <2>2
<1>3. TablesTyped' /\ UNCHANGED <<shares, receipts>>
  BY DEF CheckFinalized, TypeOK, TablesTyped, bookTables, poolVars, agentVars
<1>4. QED
  BY <1>2, <1>3, PlainStepTyped

LEMMA FinalizeEpochTyped ==
  ASSUME TypeOK, NEW p \in Procs, FinalizeEpoch(p), UNCHANGED agentVars
  PROVE  TypeOK'
<1>1. PICK c \in Summing : c = work[p]
  BY WorkByAt DEF FinalizeEpoch, TypeOK, TurnsTyped
<1>2. epochs' = [epochs EXCEPT ![c.epoch] = c.summary] /\ Goes(p, Idle)
  BY <1>1 DEF FinalizeEpoch
<1>3. epochs' \in Seq(EpochRow)
  <2>1. PICK n \in Nat : DOMAIN epochs = 1..n /\ epochs \in [1..n -> EpochRow]
    BY DEF TypeOK, TablesTyped
  <2>2. c.summary \in EpochRow
    BY DEF Summing
  <2>3. epochs' \in [1..n -> EpochRow]
    BY <1>2, <2>1, <2>2
  <2>4. QED
    BY <2>3
<1>4. TablesTyped' /\ UNCHANGED <<shares, receipts>>
  BY <1>3 DEF FinalizeEpoch, TypeOK, TablesTyped, agentVars
<1>5. QED
  BY <1>2, <1>4, IdleIsWork, PlainStepTyped

LEMMA PoolStepTyped ==
  ASSUME TypeOK, NEW p \in Procs, PoolStep(p), UNCHANGED agentVars
  PROVE  TypeOK'
  BY PickJobTyped, FinishJobTyped, CheckDuplicateTyped, InsertReceiptTyped, RecordPaidTyped,
     InsertMiningReceiptTyped, InsertShareTyped, SelectSharesTyped, InsertRoundTyped,
     AssignSharesTyped, ReadEpochTyped, CreateEpochTyped, PayTyped, ReadReceiptsTyped,
     ReadTotalsTyped, CheckFinalizedTyped, FinalizeEpochTyped
  DEF PoolStep

----
\* Agents

LEMMA AccountUpdated ==
  ASSUME NEW r \in AccountRow, NEW n \in Int
  PROVE  LET mined == [r EXCEPT !.qi = @ + n, !.mined = @ + n]
             earned == [r EXCEPT !.qi = @ + n, !.earned = @ + n]
         IN  /\ mined \in AccountRow /\ earned \in AccountRow
             /\ mined.qi = r.qi + n /\ mined.mined = r.mined + n
             /\ mined.earned = r.earned /\ mined.spent = r.spent
             /\ earned.qi = r.qi + n /\ earned.mined = r.mined
             /\ earned.earned = r.earned + n /\ earned.spent = r.spent
<1>1. PICK a \in Int, b \in Int, c \in Int :
        a = r.qi + n /\ b = r.mined + n /\ c = r.earned + n
  BY DEF AccountRow
<1>2. /\ [r EXCEPT !.qi = a, !.mined = b] \in AccountRow
      /\ [r EXCEPT !.qi = a, !.earned = c] \in AccountRow
  BY DEF AccountRow
<1>3. LET mined == [r EXCEPT !.qi = a, !.mined = b]
          earned == [r EXCEPT !.qi = a, !.earned = c]
      IN  /\ mined.qi = a /\ mined.mined = b
          /\ mined.earned = r.earned /\ mined.spent = r.spent
          /\ earned.qi = a /\ earned.mined = r.mined
          /\ earned.earned = c /\ earned.spent = r.spent
  BY DEF AccountRow
<1>4. QED
  BY <1>1, <1>2, <1>3

LEMMA MiningIncome ==
  ASSUME TypeOK, NEW p \in Procs, NEW a \in Agents, RecordMiningIncome(p, a)
  PROVE  \E n \in Nat :
           accounts' = [accounts EXCEPT ![a] = [accounts[a] EXCEPT !.qi = @ + n, !.mined = @ + n]]
<1>1. PICK n \in Incomes :
        accounts' = [accounts EXCEPT ![a].qi = @ + n, ![a].mined = @ + n]
  BY DEF RecordMiningIncome
<1>2. n \in Nat /\ n \in Int /\ accounts \in [Agents -> AccountRow]
  BY <1>1, AgentAccountsAssumption DEF TypeOK, TablesTyped
<1>3. PICK row : row = [accounts[a] EXCEPT !.qi = @ + n, !.mined = @ + n]
  OBVIOUS
<1>4. accounts' = [accounts EXCEPT ![a] = row]
  BY <1>1, <1>2, <1>3 DEF AccountRow
<1>5. QED
  BY <1>2, <1>3, <1>4

LEMMA RecordMiningIncomeTyped ==
  ASSUME TypeOK, NEW p \in Procs, NEW a \in Agents, RecordMiningIncome(p, a),
         UNCHANGED poolVars
  PROVE  TypeOK'
<1>1. PICK n \in Nat :
        accounts' = [accounts EXCEPT ![a] = [accounts[a] EXCEPT !.qi = @ + n, !.mined = @ + n]]
  BY MiningIncome
<1>2. n \in Int /\ accounts \in [Agents -> AccountRow] /\ accounts[a] \in AccountRow
  BY <1>1 DEF TypeOK, TablesTyped
<1>3. [accounts[a] EXCEPT !.qi = @ + n, !.mined = @ + n] \in AccountRow
  BY <1>2, AccountUpdated
<1>4. accounts' \in [Agents -> AccountRow]
  BY <1>1, <1>2, <1>3
<1>5. Begins(p, Idle) /\ TablesTyped' /\ UNCHANGED <<shares, receipts>>
  BY <1>4 DEF RecordMiningIncome, TypeOK, TablesTyped, bookTables, poolVars
<1>6. QED
  BY <1>5, IdleIsWork, PlainStepTyped

LEMMA BeginFundTyped ==
  ASSUME TypeOK, NEW p \in Procs, NEW a \in Agents, NEW j \in AgentJobs, BeginFund(p, a, j),
         UNCHANGED poolVars
  PROVE  TypeOK'
<1>5. PICK n \in Amounts : Begins(p, [at |-> "fund", agent |-> a, job |-> j, amount |-> n])
  BY DEF BeginFund
<1>1. PICK o : o = [at |-> "fund", agent |-> a, job |-> j, amount |-> n] /\ Begins(p, o)
  BY <1>5
<1>2. o \in Work /\ o.at = "fund"
  BY <1>1, AgentAccountsAssumption DEF Work, Funding
<1>3. TablesTyped' /\ UNCHANGED <<shares, receipts>>
  BY DEF BeginFund, TypeOK, TablesTyped, bookTables, poolVars, agentVars
<1>4. QED
  BY <1>1, <1>2, <1>3, PlainStepTyped

(* A new escrow debits the account, unless the job has one.                *)
LEMMA CommitFundEffect ==
  ASSUME TypeOK, NEW p \in Procs, CommitFund(p)
  PROVE  \E o \in Funding :
           /\ o = work[p] /\ Goes(p, Idle)
           /\ \/ UNCHANGED <<accounts, escrows>>
              \/ /\ escrows[o.job] = NoRow
                 /\ accounts' = [accounts EXCEPT
                                   ![o.agent] = [accounts[o.agent] EXCEPT !.qi = @ - o.amount]]
                 /\ escrows' = [escrows EXCEPT
                                  ![o.job] = [status |-> "reserved", agent |-> o.agent,
                                              amount |-> o.amount]]
<1>1. PICK o \in Funding : o = work[p]
  BY WorkByAt DEF CommitFund, TypeOK, TurnsTyped
<1>2. QED
  BY <1>1 DEF CommitFund, Debited, Reserved, TypeOK, TablesTyped, Funding

LEMMA CommitFundTyped ==
  ASSUME TypeOK, NEW p \in Procs, CommitFund(p), UNCHANGED poolVars
  PROVE  TypeOK'
<1>1. PICK o \in Funding :
           /\ o = work[p] /\ Goes(p, Idle)
           /\ \/ UNCHANGED <<accounts, escrows>>
              \/ /\ escrows[o.job] = NoRow
                 /\ accounts' = [accounts EXCEPT
                                   ![o.agent] = [accounts[o.agent] EXCEPT !.qi = @ - o.amount]]
                 /\ escrows' = [escrows EXCEPT
                                  ![o.job] = [status |-> "reserved", agent |-> o.agent,
                                              amount |-> o.amount]]
  BY CommitFundEffect
<1>2. o.agent \in Agents /\ o.job \in AgentJobs /\ o.amount \in Nat
  BY DEF Funding
<1>3. accounts' \in [Agents -> AccountRow]
  <2>1. accounts \in [Agents -> AccountRow] /\ accounts[o.agent] \in AccountRow
    BY <1>2 DEF TypeOK, TablesTyped
  <2>2. [accounts[o.agent] EXCEPT !.qi = @ - o.amount] \in AccountRow
    BY <1>2, <2>1 DEF AccountRow
  <2>3. QED
    BY <1>1, <2>1, <2>2
<1>4. [status |-> "reserved", agent |-> o.agent, amount |-> o.amount] \in EscrowRow
  BY <1>2 DEF EscrowRow
<1>5. escrows' \in [AgentJobs -> EscrowRow]
  BY <1>1, <1>2, <1>4 DEF TypeOK, TablesTyped
<1>6. TablesTyped' /\ UNCHANGED <<shares, receipts>>
  BY <1>3, <1>5 DEF CommitFund, TypeOK, TablesTyped, bookTables, poolVars
<1>7. QED
  BY <1>1, <1>6, IdleIsWork, PlainStepTyped

LEMMA BeginCloseTyped ==
  ASSUME TypeOK, NEW p \in Procs, NEW j \in AgentJobs, NEW s \in {"spent", "refunded"},
         BeginClose(p, j, s), UNCHANGED poolVars
  PROVE  TypeOK'
<1>1. PICK o : o = [at |-> "close", job |-> j, row |-> escrows[j], status |-> s] /\ Begins(p, o)
  BY DEF BeginClose
<1>2. escrows[j] \in Reserve
  BY DEF BeginClose, TypeOK, TablesTyped, EscrowRow, Reserve, NoRow
<1>3. o \in Work /\ o.at = "close"
  BY <1>1, <1>2 DEF Work, Closing
<1>4. TablesTyped' /\ UNCHANGED <<shares, receipts>>
  BY DEF BeginClose, TypeOK, TablesTyped, bookTables, poolVars, agentVars
<1>5. QED
  BY <1>1, <1>3, <1>4, PlainStepTyped

(* The end of an escrow, as the row that was read says.                    *)
LEMMA CommitCloseEffect ==
  ASSUME TypeOK, NEW p \in Procs, CommitClose(p)
  PROVE  \E o \in Closing :
           /\ o = work[p] /\ Goes(p, Idle)
           /\ escrows' =
                IF escrows[o.job].status = "reserved"
                THEN [escrows EXCEPT ![o.job] = [escrows[o.job] EXCEPT !.status = o.status]]
                ELSE escrows
           /\ accounts' = [accounts EXCEPT
                ![o.row.agent] = IF o.status = "spent"
                                 THEN [accounts[o.row.agent] EXCEPT !.spent = @ + o.row.amount]
                                 ELSE [accounts[o.row.agent] EXCEPT !.qi = @ + o.row.amount]]
<1>1. PICK o \in Closing : o = work[p]
  BY WorkByAt DEF CommitClose, TypeOK, TurnsTyped
<1>2. QED
  BY <1>1 DEF CommitClose, TypeOK, TablesTyped, Closing, Reserve

LEMMA CommitCloseTyped ==
  ASSUME TypeOK, NEW p \in Procs, CommitClose(p), UNCHANGED poolVars
  PROVE  TypeOK'
<1>1. PICK o \in Closing :
           /\ o = work[p] /\ Goes(p, Idle)
           /\ escrows' =
                IF escrows[o.job].status = "reserved"
                THEN [escrows EXCEPT ![o.job] = [escrows[o.job] EXCEPT !.status = o.status]]
                ELSE escrows
           /\ accounts' = [accounts EXCEPT
                ![o.row.agent] = IF o.status = "spent"
                                 THEN [accounts[o.row.agent] EXCEPT !.spent = @ + o.row.amount]
                                 ELSE [accounts[o.row.agent] EXCEPT !.qi = @ + o.row.amount]]
  BY CommitCloseEffect
<1>2. /\ o.row.agent \in Agents /\ o.row.amount \in Nat /\ o.job \in AgentJobs
      /\ o.status \in {"spent", "refunded"}
  BY DEF Closing, Reserve
<1>3. accounts' \in [Agents -> AccountRow]
  <2>1. accounts \in [Agents -> AccountRow] /\ accounts[o.row.agent] \in AccountRow
    BY <1>2 DEF TypeOK, TablesTyped
  <2>2. /\ [accounts[o.row.agent] EXCEPT !.spent = @ + o.row.amount] \in AccountRow
        /\ [accounts[o.row.agent] EXCEPT !.qi = @ + o.row.amount] \in AccountRow
    BY <1>2, <2>1 DEF AccountRow
  <2>3. QED
    BY <1>1, <2>1, <2>2
<1>4. escrows' \in [AgentJobs -> EscrowRow]
  <2>1. escrows \in [AgentJobs -> EscrowRow]
    BY DEF TypeOK, TablesTyped
  <2>2. CASE escrows[o.job].status = "reserved"
    <3>1. [escrows[o.job] EXCEPT !.status = o.status] \in EscrowRow
      BY <1>2, <2>1, <2>2 DEF EscrowRow, NoRow
    <3>2. QED
      BY <1>1, <2>1, <2>2, <3>1
  <2>3. CASE escrows[o.job].status # "reserved"
    BY <1>1, <2>1, <2>3
  <2>4. QED
    BY <2>2, <2>3
<1>5. TablesTyped' /\ UNCHANGED <<shares, receipts>>
  BY <1>3, <1>4 DEF CommitClose, TypeOK, TablesTyped, bookTables, poolVars
<1>6. QED
  BY <1>1, <1>5, IdleIsWork, PlainStepTyped

LEMMA CreditIsInt == CreditOf \in Int
  BY AgentAccountsAssumption

LEMMA AgentOfRows ==
  ASSUME NEW w, RowsFor(w) # {}
  PROVE  AgentFor(w) \in Agents
<1> DEFINE R == [agent : Agents, worker : Workers, active : BOOLEAN]
<1>1. AgentRows \in Seq(R)
  BY AgentAccountsAssumption
<1>2. RowsFor(w) \subseteq Nat /\ RowsFor(w) \subseteq DOMAIN AgentRows
  <2>1. DOMAIN AgentRows \subseteq Nat
    BY <1>1
  <2>2. QED
    BY <2>1 DEF RowsFor
<1>3. Min(RowsFor(w)) \in DOMAIN AgentRows
  BY <1>2, MinIsIn
<1> HIDE DEF R
<1>4. AgentRows[Min(RowsFor(w))] \in R
  BY <1>1, <1>3, RowInTable
<1>5. QED
  BY <1>4 DEF AgentFor, R

LEMMA BeginCreditTyped ==
  ASSUME TypeOK, NEW p \in Procs, NEW r \in DOMAIN receipts, BeginCredit(p, r),
         UNCHANGED poolVars
  PROVE  TypeOK'
<1>1. PICK o : o = [at |-> "credit", receipt |-> r] /\ Begins(p, o)
  BY DEF BeginCredit
<1>2. r \in Nat
  BY DEF TypeOK, TablesTyped
<1>3. o \in Work /\ o.at = "credit" /\ o.receipt = r
  BY <1>1, <1>2 DEF Work, Crediting
<1>4. RowsFor(receipts[r].worker) # {}
  BY DEF BeginCredit
<1>5. TablesTyped' /\ shares' = shares /\ receipts' = receipts
  BY DEF BeginCredit, TypeOK, TablesTyped, bookTables, poolVars, agentVars
<1>6. work' = [work EXCEPT ![p] = o] /\ inTurn' = inTurn /\ crashes' = crashes /\ ops' \in Nat
  BY <1>1, WorkMoves DEF TypeOK
<1>7. crashes' \in Nat
  BY <1>6 DEF TypeOK, TurnsTyped
<1>8. QED
  BY <1>3, <1>4, <1>5, <1>6, <1>7, StepTyped

(* A credit: the event of a receipt that is there, for its worker, whose   *)
(* agent earns as much.                                                    *)
CreditWritten(r) ==
  LET w == receipts[r].worker
      a == AgentFor(w)
      e == Event(w, "agent", CreditOf, r, 0)
  IN  /\ r \notin credits
      /\ w \in Workers /\ a \in Agents /\ e \in EventRow
      /\ InsertPayoutEvent(e)
      /\ paidJobs' = paidJobs \cup ({receipts[r].job} \ {NoId})
      /\ paidJobs' \subseteq JobIds \cup {NoId}
      /\ credits' = credits \cup {r}
      /\ accounts' = [accounts EXCEPT ![a] = [accounts[a] EXCEPT !.qi = @ + CreditOf,
                                                                !.earned = @ + CreditOf]]

LEMMA CommitCreditEffect ==
  ASSUME TypeOK, NEW p \in Procs, CommitCredit(p)
  PROVE  \E o \in Crediting :
           /\ o = work[p] /\ o.receipt \in DOMAIN receipts /\ Goes(p, Idle)
           /\ \/ /\ o.receipt \in credits
                 /\ UNCHANGED <<payouts, balances, paidJobs, accounts, credits>>
              \/ CreditWritten(o.receipt)
<1>1. PICK o \in Crediting : o = work[p]
  BY WorkByAt DEF CommitCredit, TypeOK, TurnsTyped
<1>2. /\ o.receipt \in DOMAIN receipts /\ o.receipt \in Nat
      /\ RowsFor(receipts[o.receipt].worker) # {} /\ Goes(p, Idle)
  BY <1>1 DEF CommitCredit, Crediting, TypeOK, RowsThere
<1>3. CASE o.receipt \in credits
  BY <1>1, <1>2, <1>3 DEF CommitCredit
<1>4. CASE o.receipt \notin credits
  <2> DEFINE w == receipts[o.receipt].worker
             a == AgentFor(w)
             e == Event(w, "agent", CreditOf, o.receipt, 0)
  <2>1. receipts[o.receipt] \in ReceiptRow
    BY <1>2, RowInTable DEF TypeOK, TablesTyped
  <2>2. w \in Workers /\ a \in Agents /\ e \in EventRow
    BY <1>2, <2>1, AgentOfRows, AgentAccountsAssumption DEF ReceiptRow, Event, EventRow
  <2>3. CreditAgent(o.receipt)
    BY <1>1, <1>4 DEF CommitCredit
  <2>4. /\ InsertPayoutEvent(e) /\ credits' = credits \cup {o.receipt}
        /\ paidJobs' = paidJobs \cup ({receipts[o.receipt].job} \ {NoId})
        /\ accounts' = [accounts EXCEPT ![a].qi = @ + CreditOf, ![a].earned = @ + CreditOf]
    BY <2>3 DEF CreditAgent
  <2>5. paidJobs' \subseteq JobIds \cup {NoId}
    BY <2>1, <2>4 DEF TypeOK, TablesTyped, ReceiptRow
  <2>6. accounts \in [Agents -> AccountRow]
    BY DEF TypeOK, TablesTyped
  <2> HIDE DEF a, e, w
  <2>7. accounts' = [accounts EXCEPT ![a] = [accounts[a] EXCEPT !.qi = @ + CreditOf,
                                                               !.earned = @ + CreditOf]]
    BY <2>2, <2>4, <2>6 DEF AccountRow
  <2>8. QED
    BY <1>1, <1>2, <1>4, <2>2, <2>4, <2>5, <2>7 DEF a, e, w, CreditWritten
<1>5. QED
  BY <1>3, <1>4

LEMMA CommitCreditTyped ==
  ASSUME TypeOK, NEW p \in Procs, CommitCredit(p), UNCHANGED poolVars
  PROVE  TypeOK'
<1>1. PICK o \in Crediting :
        /\ o.receipt \in DOMAIN receipts /\ Goes(p, Idle)
        /\ \/ UNCHANGED <<payouts, balances, paidJobs, accounts, credits>>
           \/ CreditWritten(o.receipt)
  BY CommitCreditEffect
<1>2. TablesTyped' /\ UNCHANGED <<shares, receipts>>
  <2>1. CASE UNCHANGED <<payouts, balances, paidJobs, accounts, credits>>
    BY <2>1 DEF CommitCredit, TypeOK, TablesTyped, poolVars
  <2>2. CASE CreditWritten(o.receipt)
    <3>1. PICK a \in Agents, e \in EventRow :
            /\ InsertPayoutEvent(e)
            /\ paidJobs' \subseteq JobIds \cup {NoId}
            /\ credits' = credits \cup {o.receipt}
            /\ accounts' = [accounts EXCEPT
                 ![a] = [accounts[a] EXCEPT !.qi = @ + CreditOf, !.earned = @ + CreditOf]]
      BY <2>2 DEF CreditWritten
    <3>2. payouts' \in Seq(EventRow) /\ balances' \in [Workers -> Int]
      BY <3>1, InsertedTyped
    <3>3. credits' \subseteq Nat
      BY <1>1, <3>1 DEF TypeOK, TablesTyped, Crediting
    <3>4. accounts' \in [Agents -> AccountRow]
      <4>1. accounts \in [Agents -> AccountRow] /\ accounts[a] \in AccountRow
        BY DEF TypeOK, TablesTyped
      <4>2. [accounts[a] EXCEPT !.qi = @ + CreditOf, !.earned = @ + CreditOf] \in AccountRow
        BY <4>1, CreditIsInt, AccountUpdated
      <4>3. QED
        BY <3>1, <4>1, <4>2
    <3>5. QED
      BY <3>1, <3>2, <3>3, <3>4 DEF CommitCredit, TypeOK, TablesTyped, poolVars
  <2>3. QED
    BY <1>1, <2>1, <2>2
<1>3. QED
  BY <1>1, <1>2, IdleIsWork, PlainStepTyped

LEMMA AgentStepTyped ==
  ASSUME TypeOK, NEW p \in Procs, AgentStep(p), UNCHANGED poolVars
  PROVE  TypeOK'
  BY RecordMiningIncomeTyped, BeginFundTyped, BeginCloseTyped, BeginCreditTyped,
     CommitFundTyped, CommitCloseTyped, CommitCreditTyped
  DEF AgentStep

----
\* Type correctness

LEMMA InitTyped == Init => TypeOK
<1> SUFFICES ASSUME Init PROVE TypeOK
  OBVIOUS
<1>1. work \in [Procs -> Work] /\ \A p \in Procs : work[p] = Idle
  BY IdleIsWork DEF Init, ProcInit
<1>2. TurnsTyped
  BY <1>1 DEF TurnsTyped, Init, ProcInit
<1>3. TablesTyped
  BY DEF TablesTyped, Init, BookInit, PoolInit, AgentInit, NewAccount, AccountRow, EscrowRow
<1>4. \A p \in Procs : RowsThere(work[p])
  BY <1>1, IdleIsWork DEF RowsThere
<1>5. QED
  BY <1>2, <1>3, <1>4 DEF TypeOK

LEMMA KillTyped ==
  ASSUME TypeOK, NEW p \in Procs, Kill(p), UNCHANGED <<bookTables, poolVars, agentVars>>
  PROVE  TypeOK'
<1>1. /\ work' = [work EXCEPT ![p] = Idle] /\ inTurn' = inTurn /\ ops' = ops
      /\ crashes' = crashes + 1
  BY DEF Kill
<1>2. ops' \in Nat /\ crashes' \in Nat
  BY <1>1 DEF TypeOK, TurnsTyped
<1>3. TablesTyped' /\ shares' = shares /\ receipts' = receipts
  BY DEF TypeOK, TablesTyped, bookTables, poolVars, agentVars
<1>4. QED
  BY <1>1, <1>2, <1>3, IdleIsWork, StepTyped

LEMMA NextTyped == TypeOK /\ [Next]_vars => TypeOK'
<1> SUFFICES ASSUME TypeOK, [Next]_vars PROVE TypeOK'
  OBVIOUS
<1>1. CASE Next
  BY <1>1, PoolStepTyped, AgentStepTyped, KillTyped
  DEF Next, PoolMoves, AgentMoves, Killed
<1>2. CASE UNCHANGED vars
  BY <1>2 DEF vars, procVars, bookTables, poolVars, agentVars, TypeOK, TurnsTyped, TablesTyped,
     RowsThere, RowsFor
<1>3. QED
  BY <1>1, <1>2

(***************************************************************************)
(* The tables hold rows of their types, and a process at a step of an      *)
(* operation holds what that operation has read and computed so far, every *)
(* row of it still there (db.py, scheduler.py, epochs.py, agents.py).      *)
(***************************************************************************)
THEOREM TypeCorrect == Spec => []TypeOK
  BY InitTyped, NextTyped, PTL DEF Spec

----
\* Turns

(* Where a process goes.                                                   *)
LEMMA WhereTo ==
  ASSUME TypeOK, NEW p \in Procs
  PROVE
    /\ PickJob(p) => work'[p].at \in {"running"}
    /\ FinishJob(p) => work'[p].at \in {"ran", "idle"}
    /\ CheckDuplicate(p) => work'[p].at \in {"checked"}
    /\ InsertReceipt(p) => work'[p].at \in {"epoch", "idle"}
    /\ RecordPaid(p) => work'[p].at \in {"idle"}
    /\ InsertMiningReceipt(p) => work'[p].at \in {"idle", "sharing"}
    /\ InsertShare(p) => work'[p].at \in {"idle", "sharing"}
    /\ InsertRound(p) => work'[p].at \in {"idle", "assign"}
    /\ AssignShares(p) => work'[p].at \in {"epoch"}
    /\ ReadEpoch(p) => work'[p].at \in {"create", "pay"}
    /\ CreateEpoch(p) => work'[p].at \in {"pay"}
    /\ Pay(p) => work'[p].at \in {"epoch", "record", "idle"}
    /\ ReadTotals(p) => work'[p].at \in {"totals"}
    /\ CheckFinalized(p) => work'[p].at \in {"idle", "finalize"}
    /\ FinalizeEpoch(p) => work'[p].at \in {"idle"}
    /\ CommitFund(p) => work'[p].at \in {"idle"}
    /\ CommitClose(p) => work'[p].at \in {"idle"}
    /\ CommitCredit(p) => work'[p].at \in {"idle"}
    /\ \A b \in Blocks : SelectShares(p, b) => work'[p].at \in {"round"}
    /\ \A e \in DOMAIN epochs : ReadReceipts(p, e) => work'[p].at \in {"payouts"}
    /\ \A a \in Agents : RecordMiningIncome(p, a) => work'[p].at \in {"idle"}
    /\ \A a \in Agents, j \in AgentJobs : BeginFund(p, a, j) => work'[p].at \in {"fund"}
    /\ \A j \in AgentJobs, s \in {"spent", "refunded"} :
         BeginClose(p, j, s) => work'[p].at \in {"close"}
    /\ \A r \in DOMAIN receipts : BeginCredit(p, r) => work'[p].at \in {"credit"}
<1>1. PickJob(p) => work'[p].at \in {"running"}
  BY DEF PickJob, Goes, Begins, Idle, TypeOK, TurnsTyped
<1>2. FinishJob(p) => work'[p].at \in {"ran", "idle"}
  BY DEF FinishJob, Goes, Begins, Idle, TypeOK, TurnsTyped
<1>3. CheckDuplicate(p) => work'[p].at \in {"checked"}
  BY DEF CheckDuplicate, Goes, Begins, Idle, TypeOK, TurnsTyped
<1>4. InsertReceipt(p) => work'[p].at \in {"epoch", "idle"}
  BY DEF InsertReceipt, Goes, Begins, Idle, TypeOK, TurnsTyped
<1>5. RecordPaid(p) => work'[p].at \in {"idle"}
  BY DEF RecordPaid, Goes, Begins, Idle, TypeOK, TurnsTyped
<1>6. InsertMiningReceipt(p) => work'[p].at \in {"idle", "sharing"}
  BY DEF InsertMiningReceipt, Goes, Begins, Idle, TypeOK, TurnsTyped
<1>7. InsertShare(p) => work'[p].at \in {"idle", "sharing"}
  BY DEF InsertShare, Goes, Begins, Idle, TypeOK, TurnsTyped
<1>8. InsertRound(p) => work'[p].at \in {"idle", "assign"}
  BY DEF InsertRound, Goes, Begins, Idle, TypeOK, TurnsTyped
<1>9. AssignShares(p) => work'[p].at \in {"epoch"}
  BY DEF AssignShares, Goes, Begins, Idle, TypeOK, TurnsTyped
<1>10. ReadEpoch(p) => work'[p].at \in {"create", "pay"}
  BY DEF ReadEpoch, Goes, Begins, Idle, TypeOK, TurnsTyped
<1>11. CreateEpoch(p) => work'[p].at \in {"pay"}
  BY DEF CreateEpoch, Goes, Begins, Idle, TypeOK, TurnsTyped
<1>12. Pay(p) => work'[p].at \in {"epoch", "record", "idle"}
  BY DEF Pay, Goes, Begins, Idle, TypeOK, TurnsTyped
<1>13. ReadTotals(p) => work'[p].at \in {"totals"}
  BY DEF ReadTotals, Goes, Begins, Idle, TypeOK, TurnsTyped
<1>14. CheckFinalized(p) => work'[p].at \in {"idle", "finalize"}
  BY DEF CheckFinalized, Goes, Begins, Idle, TypeOK, TurnsTyped
<1>15. FinalizeEpoch(p) => work'[p].at \in {"idle"}
  BY DEF FinalizeEpoch, Goes, Begins, Idle, TypeOK, TurnsTyped
<1>16. CommitFund(p) => work'[p].at \in {"idle"}
  BY DEF CommitFund, Goes, Begins, Idle, TypeOK, TurnsTyped
<1>17. CommitClose(p) => work'[p].at \in {"idle"}
  BY DEF CommitClose, Goes, Begins, Idle, TypeOK, TurnsTyped
<1>18. CommitCredit(p) => work'[p].at \in {"idle"}
  BY DEF CommitCredit, Goes, Begins, Idle, TypeOK, TurnsTyped
<1>19. \A b \in Blocks : SelectShares(p, b) => work'[p].at \in {"round"}
  BY DEF SelectShares, Goes, Begins, Idle, TypeOK, TurnsTyped
<1>20. \A e \in DOMAIN epochs : ReadReceipts(p, e) => work'[p].at \in {"payouts"}
  BY DEF ReadReceipts, Goes, Begins, Idle, TypeOK, TurnsTyped
<1>21. \A a \in Agents : RecordMiningIncome(p, a) => work'[p].at \in {"idle"}
  BY DEF RecordMiningIncome, Goes, Begins, Idle, TypeOK, TurnsTyped
<1>22. \A a \in Agents, j \in AgentJobs : BeginFund(p, a, j) => work'[p].at \in {"fund"}
  BY DEF BeginFund, Goes, Begins, Idle, TypeOK, TurnsTyped
<1>23. \A j \in AgentJobs, s \in {"spent", "refunded"} :
         BeginClose(p, j, s) => work'[p].at \in {"close"}
  BY DEF BeginClose, Goes, Begins, Idle, TypeOK, TurnsTyped
<1>24. \A r \in DOMAIN receipts : BeginCredit(p, r) => work'[p].at \in {"credit"}
  BY DEF BeginCredit, Goes, Begins, Idle, TypeOK, TurnsTyped
<1>25. QED
  BY <1>1, <1>2, <1>3, <1>4, <1>5, <1>6, <1>7, <1>8, <1>9, <1>10, <1>11, <1>12, <1>13, <1>14,
     <1>15, <1>16, <1>17, <1>18, <1>19, <1>20, <1>21, <1>22, <1>23, <1>24

(* Where it was.                                                           *)
LEMMA WhereFrom ==
  ASSUME TypeOK, NEW p \in Procs
  PROVE
    /\ PickJob(p) => work[p].at = "idle"
    /\ FinishJob(p) => work[p].at = "running"
    /\ CheckDuplicate(p) => work[p].at = "ran"
    /\ InsertReceipt(p) => work[p].at = "checked"
    /\ RecordPaid(p) => work[p].at = "record"
    /\ InsertMiningReceipt(p) => work[p].at = "idle"
    /\ InsertShare(p) => work[p].at = "sharing"
    /\ InsertRound(p) => work[p].at = "round"
    /\ AssignShares(p) => work[p].at = "assign"
    /\ ReadEpoch(p) => work[p].at = "epoch"
    /\ CreateEpoch(p) => work[p].at = "create"
    /\ Pay(p) => work[p].at = "pay"
    /\ ReadTotals(p) => work[p].at = "payouts"
    /\ CheckFinalized(p) => work[p].at = "totals"
    /\ FinalizeEpoch(p) => work[p].at = "finalize"
    /\ CommitFund(p) => work[p].at = "fund"
    /\ CommitClose(p) => work[p].at = "close"
    /\ CommitCredit(p) => work[p].at = "credit"
    /\ \A b \in Blocks : SelectShares(p, b) => work[p].at = "idle"
    /\ \A e \in DOMAIN epochs : ReadReceipts(p, e) => work[p].at = "idle"
    /\ \A a \in Agents : RecordMiningIncome(p, a) => work[p].at = "idle"
    /\ \A a \in Agents, j \in AgentJobs : BeginFund(p, a, j) => work[p].at = "idle"
    /\ \A j \in AgentJobs, s \in {"spent", "refunded"} :
         BeginClose(p, j, s) => work[p].at = "idle"
    /\ \A r \in DOMAIN receipts : BeginCredit(p, r) => work[p].at = "idle"
<1>1. PickJob(p) => work[p].at = "idle"
  BY DEF PickJob, Begins, Idle
<1>2. FinishJob(p) => work[p].at = "running"
  BY DEF FinishJob
<1>3. CheckDuplicate(p) => work[p].at = "ran"
  BY DEF CheckDuplicate
<1>4. InsertReceipt(p) => work[p].at = "checked"
  BY DEF InsertReceipt
<1>5. RecordPaid(p) => work[p].at = "record"
  BY DEF RecordPaid
<1>6. InsertMiningReceipt(p) => work[p].at = "idle"
  BY DEF InsertMiningReceipt, Begins, Idle
<1>7. InsertShare(p) => work[p].at = "sharing"
  BY DEF InsertShare
<1>8. InsertRound(p) => work[p].at = "round"
  BY DEF InsertRound
<1>9. AssignShares(p) => work[p].at = "assign"
  BY DEF AssignShares
<1>10. ReadEpoch(p) => work[p].at = "epoch"
  BY DEF ReadEpoch
<1>11. CreateEpoch(p) => work[p].at = "create"
  BY DEF CreateEpoch
<1>12. Pay(p) => work[p].at = "pay"
  BY DEF Pay
<1>13. ReadTotals(p) => work[p].at = "payouts"
  BY DEF ReadTotals
<1>14. CheckFinalized(p) => work[p].at = "totals"
  BY DEF CheckFinalized
<1>15. FinalizeEpoch(p) => work[p].at = "finalize"
  BY DEF FinalizeEpoch
<1>16. CommitFund(p) => work[p].at = "fund"
  BY DEF CommitFund
<1>17. CommitClose(p) => work[p].at = "close"
  BY DEF CommitClose
<1>18. CommitCredit(p) => work[p].at = "credit"
  BY DEF CommitCredit
<1>19. \A b \in Blocks : SelectShares(p, b) => work[p].at = "idle"
  BY DEF SelectShares, Begins, Idle
<1>20. \A e \in DOMAIN epochs : ReadReceipts(p, e) => work[p].at = "idle"
  BY DEF ReadReceipts, Begins, Idle
<1>21. \A a \in Agents : RecordMiningIncome(p, a) => work[p].at = "idle"
  BY DEF RecordMiningIncome, Begins, Idle
<1>22. \A a \in Agents, j \in AgentJobs : BeginFund(p, a, j) => work[p].at = "idle"
  BY DEF BeginFund, Begins, Idle
<1>23. \A j \in AgentJobs, s \in {"spent", "refunded"} :
         BeginClose(p, j, s) => work[p].at = "idle"
  BY DEF BeginClose, Begins, Idle
<1>24. \A r \in DOMAIN receipts : BeginCredit(p, r) => work[p].at = "idle"
  BY DEF BeginCredit, Begins, Idle
<1>25. QED
  BY <1>1, <1>2, <1>3, <1>4, <1>5, <1>6, <1>7, <1>8, <1>9, <1>10, <1>11, <1>12, <1>13, <1>14,
     <1>15, <1>16, <1>17, <1>18, <1>19, <1>20, <1>21, <1>22, <1>23, <1>24

(* A step of a process.                                                    *)
Step(p) ==
  \/ PoolStep(p) /\ UNCHANGED agentVars
  \/ AgentStep(p) /\ UNCHANGED poolVars

LEMMA Moves ==
  ASSUME TypeOK, NEW p \in Procs, Step(p)
  PROVE  /\ \A q \in Procs \ {p} : work'[q] = work[q]
         /\ inTurn' = inTurn /\ crashes' = crashes
         /\ work[p].at # "idle" \/ (inTurn => Idling)
<1>1. /\ (\E o : Goes(p, o) \/ Begins(p, o))
      /\ work[p].at # "idle" \/ (inTurn => Idling)
  <2>1. CASE PoolStep(p)
    BY <2>1 DEF PoolStep, PickJob, FinishJob, CheckDuplicate, InsertReceipt, RecordPaid,
       InsertMiningReceipt, InsertShare, SelectShares, InsertRound, AssignShares, ReadEpoch,
       CreateEpoch, Pay, ReadReceipts, ReadTotals, CheckFinalized, FinalizeEpoch, Begins
  <2>2. CASE AgentStep(p)
    BY <2>2 DEF AgentStep, RecordMiningIncome, BeginFund, BeginClose, BeginCredit, CommitFund,
       CommitClose, CommitCredit, Begins
  <2>3. QED
    BY <2>1, <2>2 DEF Step
<1>2. QED
  BY <1>1, WorkMoves DEF TypeOK

(* While processes take turns at most one is inside an operation.          *)
OneAtATime ==
  inTurn => \A p, q \in Procs : work[p] # Idle /\ work[q] # Idle => p = q

LEMMA IdleByAt ==
  ASSUME TypeOK, NEW p \in Procs
  PROVE  work[p] = Idle <=> work[p].at = "idle"
  BY DEF TypeOK, TurnsTyped, Work, Idle, Running, Ran, Checked, Paying, Recording, Sharing,
     Selected, Assigning, Reading, Summing, Funding, Closing, Crediting

(* Before and after its steps, every other process is idle.                *)
LEMMA Alone ==
  ASSUME TypeOK, OneAtATime, NEW p \in Procs, Step(p), inTurn
  PROVE  \A q \in Procs \ {p} : work[q] = Idle /\ work'[q] = Idle
<1>1. CASE work[p].at # "idle"
  <2>1. work[p] # Idle
    BY <1>1, IdleByAt
  <2>2. \A q \in Procs \ {p} : work[q] = Idle
    BY <2>1 DEF OneAtATime
  <2>3. QED
    BY <2>2, Moves
<1>2. CASE inTurn => Idling
  BY <1>2, Moves DEF Idling
<1>3. QED
  BY <1>1, <1>2, Moves

LEMMA NextIsStep ==
  ASSUME TypeOK, Next
  PROVE  \/ \E p \in Procs : Step(p)
         \/ \E p \in Procs : Kill(p) /\ UNCHANGED <<bookTables, poolVars, agentVars>>
  BY DEF Next, PoolMoves, AgentMoves, Killed, Step

LEMMA TurnsKept == TypeOK /\ OneAtATime /\ [Next]_vars => OneAtATime'
<1> SUFFICES ASSUME TypeOK, OneAtATime, [Next]_vars PROVE OneAtATime'
  OBVIOUS
<1>1. ASSUME NEW p \in Procs, Step(p) PROVE OneAtATime'
  <2>1. inTurn' = inTurn
    BY <1>1, Moves
  <2>2. inTurn => \A q \in Procs \ {p} : work'[q] = Idle
    BY <1>1, Alone
  <2>3. QED
    BY <2>1, <2>2 DEF OneAtATime
<1>2. ASSUME NEW p \in Procs, Kill(p) PROVE OneAtATime'
  BY <1>2 DEF Kill, OneAtATime, TypeOK, TurnsTyped
<1>3. CASE UNCHANGED vars
  BY <1>3 DEF vars, procVars, OneAtATime
<1>4. QED
  BY <1>1, <1>2, <1>3, NextIsStep

LEMMA TurnsAlways == Spec => [](TypeOK /\ OneAtATime)
<1>1. Init => OneAtATime
  BY DEF Init, ProcInit, OneAtATime
<1>2. QED
  BY <1>1, InitTyped, NextTyped, TurnsKept, PTL DEF Spec

----
\* Balances

(* The events of a book in a class, and what they come to.                 *)
EventsIn(book, W) == {i \in DOMAIN book : book[i] \in W}
AmountsIn(book, W) == AmountsOf(book, EventsIn(book, W))

OfWorker(w) == {e \in EventRow : e.worker = w}
EarnedBy(a) == {e \in EventRow : e.basis = "agent" /\ AgentFor(e.worker) = a}

LEMMA ClassesOfBook ==
  ASSUME NEW book \in Seq(EventRow)
  PROVE  /\ \A w : EventsIn(book, OfWorker(w)) = {i \in DOMAIN book : book[i].worker = w}
         /\ \A a : EventsIn(book, EarnedBy(a)) =
                     {i \in DOMAIN book : book[i].basis = "agent" /\ AgentFor(book[i].worker) = a}
<1>1. \A i \in DOMAIN book : book[i] \in EventRow
  BY RowInTable
<1>2. QED
  BY <1>1 DEF EventsIn, OfWorker, EarnedBy

LEMMA AmountsGrow ==
  ASSUME NEW book \in Seq(EventRow), NEW e \in EventRow, NEW W
  PROVE  /\ AmountsIn(book, W) \in Int
         /\ AmountsIn(Append(book, e), W) =
              AmountsIn(book, W) + (IF e \in W THEN e.amount ELSE 0)
<1>1. AmountsIn(book, W) \in Int
  <2>1. EventsIn(book, W) \in SUBSET DOMAIN book
    BY DEF EventsIn
  <2>2. QED
    BY <2>1, AmountsInt DEF AmountsIn
<1>2. QED
  BY <1>1, SumOfChosen DEF AmountsIn, EventsIn

(* What a step writes to the book of payouts.                              *)
LEMMA PayoutSteps ==
  ASSUME TypeOK, NEW p \in Procs, Step(p)
  PROVE  \/ UNCHANGED <<payouts, balances, credits>>
         \/ Pay(p) /\ UNCHANGED agentVars
         \/ CommitCredit(p) /\ \E r \in Nat : r = work[p].receipt /\ CreditWritten(r)
<1>1. CASE PoolStep(p) /\ UNCHANGED agentVars
  BY <1>1 DEF PoolStep, PickJob, FinishJob, CheckDuplicate, InsertReceipt, RecordPaid,
     InsertMiningReceipt, InsertShare, SelectShares, InsertRound, AssignShares, ReadEpoch,
     CreateEpoch, ReadReceipts, ReadTotals, CheckFinalized, FinalizeEpoch, bookTables, agentVars
<1>2. CASE AgentStep(p)
  <2>1. CASE CommitCredit(p)
    BY <2>1, CommitCreditEffect DEF Crediting
  <2>2. CASE ~CommitCredit(p)
    BY <1>2, <2>2 DEF AgentStep, RecordMiningIncome, BeginFund, BeginClose, BeginCredit,
       CommitFund, CommitClose, bookTables, agentVars
  <2>3. QED
    BY <2>1, <2>2
<1>3. QED
  BY <1>1, <1>2 DEF Step

LEMMA BalanceSteps ==
  ASSUME TypeOK, [Next]_vars
  PROVE  UNCHANGED <<payouts, balances>> \/ \E e \in EventRow : InsertPayoutEvent(e)
<1>1. ASSUME NEW p \in Procs, Step(p)
      PROVE  UNCHANGED <<payouts, balances>> \/ \E e \in EventRow : InsertPayoutEvent(e)
  <2>1. CASE UNCHANGED <<payouts, balances, credits>>
    BY <2>1
  <2>2. CASE Pay(p)
    <3>1. PICK c \in Paying, o \in Work : \E w \in DOMAIN c.due : PaidOut(p, c, o, w)
      BY <2>2, PayEffect
    <3>2. QED
      BY <3>1 DEF PaidOut
  <2>3. CASE \E r \in Nat : CreditWritten(r)
    BY <2>3 DEF CreditWritten
  <2>4. QED
    BY <1>1, <2>1, <2>2, <2>3, PayoutSteps
<1>2. QED
  BY <1>1, NextIsStep DEF vars, bookTables

BalancesAreAmounts == \A w \in Workers : balances[w] = AmountsIn(payouts, OfWorker(w))

LEMMA BalancesByClass == TypeOK => (BalancesMatchEvents <=> BalancesAreAmounts)
<1> SUFFICES ASSUME TypeOK PROVE BalancesMatchEvents <=> BalancesAreAmounts
  OBVIOUS
<1>1. \A w : Total({i \in DOMAIN payouts : payouts[i].worker = w}) =
              AmountsIn(payouts, OfWorker(w))
  BY ClassesOfBook DEF TypeOK, TablesTyped, AmountsIn, AmountsOf, Total
<1>2. QED
  BY <1>1 DEF BalancesMatchEvents, BalancesAreAmounts, EventsWith

LEMMA BalancesKept ==
  TypeOK /\ BalancesAreAmounts /\ [Next]_vars => BalancesAreAmounts'
<1> SUFFICES ASSUME TypeOK, BalancesAreAmounts, [Next]_vars PROVE BalancesAreAmounts'
  OBVIOUS
<1>1. CASE UNCHANGED <<payouts, balances>>
  BY <1>1 DEF BalancesAreAmounts
<1>2. ASSUME NEW e \in EventRow, InsertPayoutEvent(e) PROVE BalancesAreAmounts'
  <2> SUFFICES ASSUME NEW w \in Workers
               PROVE  balances'[w] = AmountsIn(payouts', OfWorker(w))
    BY DEF BalancesAreAmounts
  <2>1. /\ payouts' = Append(payouts, e)
        /\ balances' = [balances EXCEPT ![e.worker] = @ + e.amount]
    BY <1>2 DEF InsertPayoutEvent
  <2>2. payouts \in Seq(EventRow) /\ balances \in [Workers -> Int]
    BY DEF TypeOK, TablesTyped
  <2>3. /\ AmountsIn(payouts, OfWorker(w)) \in Int
        /\ AmountsIn(payouts', OfWorker(w)) =
             AmountsIn(payouts, OfWorker(w)) + (IF e \in OfWorker(w) THEN e.amount ELSE 0)
    BY <2>1, <2>2, AmountsGrow
  <2>4. balances[w] = AmountsIn(payouts, OfWorker(w)) /\ e.worker \in Workers /\ e.amount \in Int
    BY DEF BalancesAreAmounts, EventRow
  <2>5. e \in OfWorker(w) <=> e.worker = w
    BY DEF OfWorker
  <2>6. QED
    BY <2>1, <2>2, <2>3, <2>4, <2>5
<1>3. QED
  BY <1>1, <1>2, BalanceSteps

(***************************************************************************)
(* Whatever interleaves or is killed, a worker's balance is the sum of its *)
(* payout events: the scheduler, the settlement of a block and the credit  *)
(* of an agent each write both in one transaction.                         *)
(***************************************************************************)
THEOREM BalancesAreEvents == Spec => []BalancesMatchEvents
<1>1. Init => BalancesAreAmounts
  <2> SUFFICES ASSUME Init, NEW w \in Workers PROVE balances[w] = AmountsIn(payouts, OfWorker(w))
    BY DEF BalancesAreAmounts
  <2>1. EventsIn(payouts, OfWorker(w)) = {} /\ balances[w] = 0
    BY DEF Init, BookInit, EventsIn
  <2>2. QED
    BY <2>1, SumEmpty DEF AmountsIn, AmountsOf
<1>2. QED
  BY <1>1, InitTyped, NextTyped, BalancesKept, BalancesByClass, PTL DEF Spec

----
\* Payments of receipts

LEMMA Inserted ==
  ASSUME TypeOK, NEW e \in EventRow, InsertPayoutEvent(e)
  PROVE  \E n : /\ n \notin DOMAIN payouts /\ DOMAIN payouts' = DOMAIN payouts \cup {n}
               /\ payouts'[n] = e
               /\ \A i \in DOMAIN payouts : payouts'[i] = payouts[i]
<1> DEFINE n == Len(payouts)
<1>1. payouts \in Seq(EventRow) /\ payouts' = Append(payouts, e)
  BY DEF InsertPayoutEvent, TypeOK, TablesTyped
<1>2. /\ n \in Nat /\ DOMAIN payouts = 1..n /\ DOMAIN payouts' = 1..(n + 1)
      /\ \A i \in 1..n : payouts'[i] = payouts[i]
      /\ payouts'[n + 1] = e
  BY <1>1, AppendRow
<1>3. n + 1 \notin 1..n /\ 1..(n + 1) = (1..n) \cup {n + 1}
  BY <1>2
<1>4. QED
  BY <1>2, <1>3

(* What a process holds that has a receipt to pay for.                     *)
TokenPayments == {o \in Paying : o.basis = "tokens"}

TokenEvents == {i \in DOMAIN payouts : payouts[i].basis = "tokens"}
AgentEvents == {i \in DOMAIN payouts : payouts[i].basis = "agent"}

CreditsOnce ==
  \A i \in AgentEvents :
    /\ payouts[i].source \in credits
    /\ \A k \in AgentEvents : i # k => payouts[i].source # payouts[k].source

TokenPayoutsOnce ==
  \A i \in TokenEvents :
    /\ payouts[i].source \in DOMAIN receipts
    /\ \A k \in TokenEvents : i # k => payouts[i].source # payouts[k].source

(* A receipt that is to be paid for is there, no payout is for it, and it  *)
(* is due to one worker.                                                   *)
ToOne == {d \in Dues : \E w : DOMAIN d = {w}}

Unpaid ==
  {o \in TokenPayments : /\ o.source \in DOMAIN receipts /\ o.due \in ToOne
                         /\ \A i \in TokenEvents : payouts[i].source # o.source}

TokensOnce ==
  /\ TokenPayoutsOnce
  /\ \A q \in Procs : work[q] \in TokenPayments => work[q] \in Unpaid
  /\ \A q, r \in Procs :
       work[q] \in TokenPayments /\ work[r] \in TokenPayments /\ q # r =>
         work[q].source # work[r].source

(* The process whose step it is goes on with the payment that it holds.    *)
SamePayment(p) ==
  /\ work'[p].basis = work[p].basis /\ work'[p].source = work[p].source
  /\ work'[p].due = work[p].due /\ work'[p].job = work[p].job
  /\ work[p].at \in {"epoch", "create"}

LEMMA EpochFound ==
  ASSUME TypeOK, NEW p \in Procs, ReadEpoch(p) \/ CreateEpoch(p)
  PROVE  SamePayment(p) /\ UNCHANGED bookTables
<1>1. PICK c \in Paying : c = work[p] /\ c.at \in {"epoch", "create"}
  BY WorkByAt DEF ReadEpoch, CreateEpoch, TypeOK, TurnsTyped
<1>2. \/ work' = [work EXCEPT ![p] = [c EXCEPT !.at = "create"]]
      \/ \E e : work' = [work EXCEPT ![p] = [c EXCEPT !.at = "pay", !.epoch = e]]
  BY <1>1 DEF ReadEpoch, CreateEpoch, Goes
<1>3. \/ work'[p] = [c EXCEPT !.at = "create"]
      \/ \E e : work'[p] = [c EXCEPT !.at = "pay", !.epoch = e]
  BY <1>2 DEF TypeOK, TurnsTyped
<1>4. SamePayment(p)
  BY <1>1, <1>3 DEF SamePayment, Paying
<1>5. QED
  BY <1>4 DEF ReadEpoch, CreateEpoch, bookTables

(* What a step does to the payments that processes owe.                    *)
LEMMA PaymentSteps ==
  ASSUME TypeOK, NEW p \in Procs, Step(p)
  PROVE  \/ InsertReceipt(p) \/ ReadEpoch(p) \/ CreateEpoch(p) \/ Pay(p)
         \/ /\ work'[p] \notin TokenPayments
            /\ \/ UNCHANGED payouts
               \/ CommitCredit(p) /\ \E r \in Nat : r = work[p].receipt /\ CreditWritten(r)
<1>1. ASSUME ~InsertReceipt(p), ~ReadEpoch(p), ~CreateEpoch(p), ~Pay(p)
      PROVE  work'[p] \notin TokenPayments
  <2>1. CASE AssignShares(p)
    BY <2>1 DEF AssignShares, Goes, TokenPayments, TypeOK, TurnsTyped
  <2>2. CASE ~AssignShares(p)
    <3>1. work'[p].at \notin {"epoch", "create", "pay"}
      BY <1>1, <2>2, WhereTo DEF Step, PoolStep, AgentStep
    <3>2. QED
      BY <3>1 DEF TokenPayments, Paying
  <2>3. QED
    BY <2>1, <2>2
<1>2. Step(p) => \/ UNCHANGED payouts
                 \/ Pay(p)
                 \/ CommitCredit(p) /\ \E r \in Nat : r = work[p].receipt /\ CreditWritten(r)
  BY PayoutSteps
<1>3. QED
  BY <1>1, <1>2

(* Receipts stay where they are.                                           *)
LEMMA ReceiptsStay ==
  ASSUME TypeOK, NEW p \in Procs, Step(p)
  PROVE  \A i \in DOMAIN receipts : i \in DOMAIN receipts' /\ receipts'[i] = receipts[i]
<1>1. receipts \in Seq(ReceiptRow)
  BY DEF TypeOK, TablesTyped
<1>2. receipts' = receipts \/ \E r : receipts' = Append(receipts, r) /\ r \in ReceiptRow
  <2>1. CASE InsertReceipt(p)
    BY <2>1, InsertReceiptEffect
  <2>2. CASE InsertMiningReceipt(p)
    <3>1. PICK r : r = Receipt(WorkerOf[p], "mining", NoId, FALSE, FALSE)
      OBVIOUS
    <3>2. r \in ReceiptRow /\ receipts' = Append(receipts, r)
      BY <2>2, <3>1, WorkerPoolAssumption
      DEF InsertMiningReceipt, InsertReceiptRow, Receipt, ReceiptRow
    <3>3. QED
      BY <3>2
  <2>3. CASE ~InsertReceipt(p) /\ ~InsertMiningReceipt(p)
    BY <2>3 DEF Step, PoolStep, PickJob, FinishJob, CheckDuplicate, RecordPaid, InsertShare,
       SelectShares, InsertRound, AssignShares, ReadEpoch, CreateEpoch, Pay, ReadReceipts,
       ReadTotals, CheckFinalized, FinalizeEpoch, AgentStep, RecordMiningIncome, BeginFund,
       BeginClose, BeginCredit, CommitFund, CommitClose, CommitCredit, bookTables
  <2>4. QED
    BY <2>1, <2>2, <2>3
<1>3. QED
  BY <1>1, <1>2

LEMMA CreditsOnceKept ==
  ASSUME TypeOK, CreditsOnce, NEW p \in Procs, Step(p)
  PROVE  CreditsOnce'
<1>1. CASE UNCHANGED <<payouts, balances, credits>>
  BY <1>1 DEF CreditsOnce, AgentEvents
<1>2. CASE Pay(p) /\ UNCHANGED agentVars
  <2>1. PICK e \in EventRow : InsertPayoutEvent(e) /\ e.basis \in {"tokens", "pplns"}
    <3>1. PICK c \in Paying, o \in Work : \E w \in DOMAIN c.due : PaidOut(p, c, o, w)
      BY <1>2, PayEffect
    <3>2. QED
      BY <3>1 DEF PaidOut, Event, Paying
  <2>2. AgentEvents' = AgentEvents /\ \A i \in AgentEvents : payouts'[i] = payouts[i]
    BY <2>1, Inserted DEF AgentEvents
  <2>3. QED
    BY <1>2, <2>2 DEF CreditsOnce, agentVars
<1>3. ASSUME NEW r \in Nat, CreditWritten(r) PROVE CreditsOnce'
  <2>1. PICK e \in EventRow : InsertPayoutEvent(e) /\ e.basis = "agent" /\ e.source = r
    BY <1>3 DEF CreditWritten, Event
  <2>2. PICK n : /\ n \notin DOMAIN payouts /\ DOMAIN payouts' = DOMAIN payouts \cup {n}
                 /\ payouts'[n] = e
                 /\ \A i \in DOMAIN payouts : payouts'[i] = payouts[i]
    BY <2>1, Inserted
  <2>3. AgentEvents' = AgentEvents \cup {n} /\ n \notin AgentEvents
    BY <2>1, <2>2 DEF AgentEvents
  <2>4. r \notin credits /\ credits' = credits \cup {r}
    BY <1>3 DEF CreditWritten
  <2>5. \A i \in AgentEvents : payouts'[i] = payouts[i] /\ payouts[i].source # r
    BY <2>2, <2>4 DEF CreditsOnce, AgentEvents
  <2>6. QED
    BY <2>1, <2>2, <2>3, <2>4, <2>5 DEF CreditsOnce
<1>4. QED
  BY <1>1, <1>2, <1>3, PayoutSteps

(* A process has nothing to pay for any more.                              *)
LEMMA TokensOnceWithout ==
  ASSUME TypeOK, TokensOnce, NEW p \in Procs,
         \A q \in Procs \ {p} : work'[q] = work[q], work'[p] \notin TokenPayments,
         TokenEvents' = TokenEvents, \A i \in TokenEvents : payouts'[i] = payouts[i],
         DOMAIN receipts \subseteq DOMAIN receipts'
  PROVE  TokensOnce'
<1>1. TokenPayoutsOnce'
  BY DEF TokensOnce, TokenPayoutsOnce
<1>2. Unpaid \subseteq Unpaid'
  BY DEF Unpaid
<1>3. QED
  BY <1>1, <1>2 DEF TokensOnce

LEMMA NoTokenPayment ==
  /\ Idle \notin TokenPayments
  /\ \A j : [at |-> "record", job |-> j] \notin TokenPayments
  BY IdleIsWork DEF TokenPayments, Paying

LEMMA TokensOnceKept ==
  ASSUME TypeOK, TokensOnce, NEW p \in Procs, Step(p)
  PROVE  TokensOnce'
<1>1. /\ \A q \in Procs \ {p} : work'[q] = work[q]
      /\ DOMAIN receipts \subseteq DOMAIN receipts'
  BY Moves, ReceiptsStay
<1>2. CASE InsertReceipt(p)
  <2>1. PICK r \in ReceiptRow, o \in Work :
          /\ Goes(p, o) /\ receipts' = Append(receipts, r)
          /\ \/ o = Idle
             \/ /\ o \in Paying /\ o.at = "epoch" /\ o.basis = "tokens"
                /\ o.source = Len(receipts) + 1 /\ DOMAIN o.due = {WorkerOf[p]}
    BY <1>2, InsertReceiptEffect
  <2>2. work'[p] = o
    BY <2>1, WorkMoves DEF TypeOK
  <2>3. payouts' = payouts
    BY <1>2 DEF InsertReceipt
  <2>4. TokenEvents' = TokenEvents /\ \A i \in TokenEvents : payouts'[i] = payouts[i]
    BY <2>3 DEF TokenEvents
  <2>5. CASE o = Idle
    BY <1>1, <2>2, <2>4, <2>5, NoTokenPayment, TokensOnceWithout
  <2>6. CASE o # Idle
    <3>1. o.source \notin DOMAIN receipts /\ o.source \in DOMAIN receipts'
      <4>1. receipts \in Seq(ReceiptRow)
        BY DEF TypeOK, TablesTyped
      <4>2. PICK n \in Nat : n = Len(receipts)
        BY <4>1
      <4>3. DOMAIN receipts = 1..n /\ DOMAIN receipts' = 1..(n + 1) /\ o.source = n + 1
        BY <2>1, <2>6, <4>1, <4>2, AppendRow
      <4>4. QED
        BY <4>3
    <3>2. \A i \in TokenEvents : payouts[i].source # o.source
      BY <3>1 DEF TokensOnce, TokenPayoutsOnce
    <3>3. \A q \in Procs \ {p} : work[q] \in TokenPayments => work[q].source # o.source
      BY <3>1 DEF TokensOnce, Unpaid
    <3>4. o \in Unpaid'
      <4>1. o \in TokenPayments
        BY <2>1, <2>6 DEF TokenPayments
      <4>2. o.due \in ToOne
        BY <2>1, <2>6 DEF ToOne, Paying
      <4>3. QED
        BY <2>4, <3>1, <3>2, <4>1, <4>2 DEF Unpaid
    <3>5. Unpaid \subseteq Unpaid'
      BY <1>1, <2>4 DEF Unpaid
    <3>6. TokenPayoutsOnce'
      BY <1>1, <2>4 DEF TokensOnce, TokenPayoutsOnce
    <3>7. QED
      BY <1>1, <2>2, <3>3, <3>4, <3>5, <3>6 DEF TokensOnce
  <2>7. QED
    BY <2>5, <2>6
<1>3. CASE ReadEpoch(p) \/ CreateEpoch(p)
  <2>1. SamePayment(p) /\ UNCHANGED bookTables
    BY <1>3, EpochFound
  <2>2. PICK c \in Paying : c = work[p]
    BY <2>1, WorkByAt DEF SamePayment, TypeOK, TurnsTyped
  <2>3. work'[p].basis = c.basis /\ work'[p].source = c.source /\ work'[p].due = c.due
    BY <2>1, <2>2 DEF SamePayment
  <2>4. TokenEvents' = TokenEvents /\ payouts' = payouts /\ receipts' = receipts
    BY <2>1 DEF TokenEvents, bookTables
  <2>5. work'[p] \in TokenPayments => c \in TokenPayments
    BY <2>3 DEF TokenPayments
  <2>6. Unpaid' = Unpaid /\ (TokenPayoutsOnce => TokenPayoutsOnce')
    BY <2>4 DEF Unpaid, TokenPayoutsOnce
  <2>7. c \in Unpaid /\ work'[p] \in TokenPayments => work'[p] \in Unpaid
    BY <2>3 DEF Unpaid
  <2>8. QED
    BY <1>1, <2>2, <2>3, <2>5, <2>6, <2>7 DEF TokensOnce
<1>4. CASE Pay(p)
  <2>1. PICK c \in Paying, o \in Work :
          /\ c = work[p] /\ Goes(p, o)
          /\ \E e \in EventRow :
               InsertPayoutEvent(e) /\ e.basis = c.basis /\ e.source = c.source
          /\ c \in Unpaid \/ c.basis # "tokens" => o \notin TokenPayments
    <3>1. PICK c \in Paying, o \in Work : \E w \in DOMAIN c.due : PaidOut(p, c, o, w)
      BY <1>4, PayEffect
    <3> PICK w \in DOMAIN c.due : PaidOut(p, c, o, w)
      BY <3>1
    <3>2. PICK e \in EventRow :
            InsertPayoutEvent(e) /\ e.basis = c.basis /\ e.source = c.source
      BY DEF PaidOut, Event
    <3>3. ASSUME DOMAIN c.due \ {w} # {},
                 o = [c EXCEPT !.at = "epoch", !.due = Restrict(@, DOMAIN c.due \ {w})]
          PROVE  c \in Unpaid \/ c.basis # "tokens" => o \notin TokenPayments
      <4>1. c \notin Unpaid
        BY <3>3 DEF Unpaid, ToOne
      <4>2. o.basis = c.basis
        BY <3>3 DEF Paying
      <4>3. QED
        BY <4>1, <4>2 DEF TokenPayments
    <3>4. QED
      BY <3>2, <3>3, NoTokenPayment DEF PaidOut
  <2>2. work'[p] = o
    BY <2>1, WorkMoves DEF TypeOK
  <2>3. PICK e \in EventRow : InsertPayoutEvent(e) /\ e.basis = c.basis /\ e.source = c.source
    BY <2>1
  <2>4. PICK n : /\ n \notin DOMAIN payouts /\ DOMAIN payouts' = DOMAIN payouts \cup {n}
                 /\ payouts'[n] = e
                 /\ \A i \in DOMAIN payouts : payouts'[i] = payouts[i]
    BY <2>3, Inserted
  <2>5. receipts' = receipts
    BY <1>4 DEF Pay
  <2>6. CASE c.basis = "tokens"
    <3>1. c \in TokenPayments /\ c \in Unpaid
      BY <2>1, <2>6 DEF TokenPayments, TokensOnce
    <3>2. work'[p] \notin TokenPayments
      BY <2>1, <2>2, <3>1
    <3>3. TokenEvents' = TokenEvents \cup {n} /\ n \notin TokenEvents
      BY <2>3, <2>4, <2>6 DEF TokenEvents
    <3>4. \A i \in TokenEvents : payouts'[i] = payouts[i]
      BY <2>4 DEF TokenEvents
    <3>5. payouts'[n].source = c.source
      BY <2>3, <2>4
    <3>6. c.source \in DOMAIN receipts /\ \A i \in TokenEvents : payouts[i].source # c.source
      BY <3>1 DEF Unpaid
    <3>7. TokenPayoutsOnce'
      BY <2>5, <3>3, <3>4, <3>5, <3>6 DEF TokenPayoutsOnce, TokensOnce
    <3>8. \A u \in Unpaid : u.source # c.source => u \in Unpaid'
      BY <2>5, <3>3, <3>4, <3>5 DEF Unpaid
    <3>9. \A q \in Procs \ {p} : work[q] \in TokenPayments =>
             work[q] \in Unpaid /\ work[q].source # c.source
      BY <2>1, <3>1 DEF TokensOnce
    <3>10. QED
      BY <1>1, <3>2, <3>7, <3>8, <3>9 DEF TokensOnce
  <2>7. CASE c.basis # "tokens"
    <3>1. TokenEvents' = TokenEvents /\ \A i \in TokenEvents : payouts'[i] = payouts[i]
      BY <2>3, <2>4, <2>7 DEF TokenEvents
    <3>2. work'[p] \notin TokenPayments
      BY <2>1, <2>2, <2>7
    <3>3. QED
      BY <1>1, <3>1, <3>2, TokensOnceWithout
  <2>8. QED
    BY <2>6, <2>7
<1>5. CASE work'[p] \notin TokenPayments /\ UNCHANGED payouts
  <2>1. TokenEvents' = TokenEvents /\ \A i \in TokenEvents : payouts'[i] = payouts[i]
    BY <1>5 DEF TokenEvents
  <2>2. QED
    BY <1>1, <1>5, <2>1, TokensOnceWithout
<1>6. CASE work'[p] \notin TokenPayments /\ \E r \in Nat : CreditWritten(r)
  <2>1. PICK e \in EventRow : InsertPayoutEvent(e) /\ e.basis = "agent"
    BY <1>6 DEF CreditWritten, Event
  <2>2. TokenEvents' = TokenEvents /\ \A i \in TokenEvents : payouts'[i] = payouts[i]
    BY <2>1, Inserted DEF TokenEvents
  <2>3. QED
    BY <1>1, <1>6, <2>2, TokensOnceWithout
<1>7. QED
  BY <1>2, <1>3, <1>4, <1>5, <1>6, PaymentSteps

(* The job that a payout of the scheduler is for.                          *)
JobOf(i) == receipts[payouts[i].source].job

(* Paid jobs have their marker, but for the one whose process is about to  *)
(* write it; a payment that is owed is for a job that has none.            *)
JobsOnce ==
  inTurn /\ crashes = 0 =>
    /\ \A i \in TokenEvents :
         /\ \A k \in TokenEvents : i # k => JobOf(i) # JobOf(k)
         /\ JobOf(i) \in paidJobs \/ \E q \in Procs : work[q] = [at |-> "record", job |-> JobOf(i)]
    /\ \A q \in Procs : work[q] \in TokenPayments =>
         receipts[work[q].source].job = work[q].job /\ work[q].job \notin paidJobs
    /\ \A q \in Procs : work[q] \in Checked /\ ~work[q].duplicate =>
         FileJobs[work[q].file].job \notin paidJobs

LEMMA MarkerSteps ==
  ASSUME TypeOK, NEW p \in Procs, Step(p), ~RecordPaid(p)
  PROVE  work[p].at # "record" /\ (~CommitCredit(p) => paidJobs' = paidJobs)
<1>1. work[p].at # "record"
  BY WhereFrom DEF Step, PoolStep, AgentStep
<1>2. ASSUME ~CommitCredit(p) PROVE paidJobs' = paidJobs
  <2>1. CASE PoolStep(p)
    BY <2>1 DEF PoolStep, PickJob, FinishJob, CheckDuplicate, InsertReceipt, InsertMiningReceipt,
       InsertShare, SelectShares, InsertRound, AssignShares, ReadEpoch, CreateEpoch, Pay,
       ReadReceipts, ReadTotals, CheckFinalized, FinalizeEpoch, bookTables
  <2>2. CASE AgentStep(p)
    BY <1>2, <2>2 DEF AgentStep, RecordMiningIncome, BeginFund, BeginClose, BeginCredit,
       CommitFund, CommitClose, bookTables
  <2>3. QED
    BY <2>1, <2>2 DEF Step
<1>3. QED
  BY <1>1, <1>2

LEMMA JobsOnceKept ==
  ASSUME TypeOK, OneAtATime, TokensOnce, JobsOnce, NEW p \in Procs, Step(p)
  PROVE  JobsOnce'
<1> SUFFICES ASSUME inTurn, crashes = 0 PROVE JobsOnce'
  BY Moves DEF JobsOnce
<1> DEFINE Marked == \A i \in TokenEvents : JobOf(i) \in paidJobs
           Apart == \A i, k \in TokenEvents : i # k => JobOf(i) # JobOf(k)
           Quiet(o) == o \notin TokenPayments /\ o \notin Checked
<1>1. \A q \in Procs \ {p} : work[q] = Idle /\ work'[q] = Idle
  BY Alone
<1>2. /\ Idle \notin TokenPayments /\ Idle \notin Checked
      /\ \A j : Idle # [at |-> "record", job |-> j]
  BY NoTokenPayment DEF Idle, Checked
<1>3. Apart
  BY DEF JobsOnce
<1>4. \A i \in TokenEvents : payouts[i].source \in DOMAIN receipts
  BY DEF TokensOnce, TokenPayoutsOnce
<1>5. (\A j : work[p] # [at |-> "record", job |-> j]) => Marked
  BY <1>1, <1>2 DEF JobsOnce
<1>6. \A i \in DOMAIN receipts : i \in DOMAIN receipts' /\ receipts'[i] = receipts[i]
  BY ReceiptsStay
(* A step that pays nothing leaves the jobs of the payouts.                *)
<1>7. ASSUME TokenEvents' = TokenEvents, \A i \in TokenEvents : payouts'[i] = payouts[i]
      PROVE  Apart' /\ \A i \in TokenEvents' : JobOf(i)' = JobOf(i)
  <2>1. \A i \in TokenEvents' : JobOf(i)' = JobOf(i)
    BY <1>4, <1>6, <1>7 DEF JobOf
  <2>2. QED
    BY <1>3, <1>7, <2>1
(* It suffices to look at the process whose step it is.                    *)
<1>8. ASSUME Apart',
             \A i \in TokenEvents' :
               JobOf(i)' \in paidJobs' \/ work'[p] = [at |-> "record", job |-> JobOf(i)'],
             work'[p] \in TokenPayments =>
               receipts'[work'[p].source].job = work'[p].job /\ work'[p].job \notin paidJobs',
             work'[p] \in Checked /\ ~work'[p].duplicate =>
               FileJobs[work'[p].file].job \notin paidJobs'
      PROVE  JobsOnce'
  BY <1>1, <1>2, <1>8 DEF JobsOnce
<1>9. ASSUME Marked, TokenEvents' = TokenEvents, \A i \in TokenEvents : payouts'[i] = payouts[i],
             paidJobs \subseteq paidJobs', Quiet(work'[p])
      PROVE  JobsOnce'
  BY <1>7, <1>8, <1>9
<1> HIDE DEF Marked, Apart
<1>10. CASE CheckDuplicate(p)
  <2>1. work[p].at = "ran" /\ UNCHANGED <<payouts, paidJobs>>
    BY <1>10 DEF CheckDuplicate, bookTables
  <2>2. Marked
    BY <1>5, <2>1
  <2>3. PICK c \in Ran : c = work[p]
    BY <2>1, WorkByAt DEF TypeOK, TurnsTyped
  <2>4. work'[p] = [at |-> "checked", file |-> c.file, accepted |-> c.accepted,
                    duplicate |-> WasPaid(FileJobs[c.file].job)]
    BY <1>10, <2>3 DEF CheckDuplicate, Goes, TypeOK, TurnsTyped
  <2>5. work'[p] \notin TokenPayments
    BY <2>4 DEF TokenPayments, Paying
  <2>6. ~work'[p].duplicate => FileJobs[work'[p].file].job \notin paidJobs'
    <3>1. work'[p].file = c.file
      BY <2>4
    <3>2. ASSUME FileJobs[c.file].job \in paidJobs PROVE work'[p].duplicate
      <4>1. work'[p] = [at |-> "checked", file |-> c.file, accepted |-> c.accepted,
                        duplicate |-> TRUE]
        BY <2>4, <3>2 DEF WasPaid
      <4>2. QED
        BY <4>1
    <3>3. QED
      BY <2>1, <3>1, <3>2
  <2>7. TokenEvents' = TokenEvents /\ \A i \in TokenEvents : payouts'[i] = payouts[i]
    BY <2>1 DEF TokenEvents
  <2>8. QED
    BY <1>7, <1>8, <2>1, <2>2, <2>5, <2>6, <2>7 DEF Marked
<1>11. CASE InsertReceipt(p)
  <2>1. PICK r \in ReceiptRow, o \in Work, c \in Checked :
          /\ c = work[p] /\ Goes(p, o)
          /\ receipts' = Append(receipts, r) /\ r.job = FileJobs[c.file].job
          /\ \/ o = Idle
             \/ /\ o \in Paying /\ o.at = "epoch" /\ o.source = Len(receipts) + 1
                /\ o.job = r.job /\ ~c.duplicate
    BY <1>11, InsertReceiptEffect
  <2>2. work'[p] = o /\ UNCHANGED <<payouts, paidJobs>>
    BY <1>11, <2>1, WorkMoves DEF TypeOK, InsertReceipt
  <2>3. Marked
    BY <1>5, <2>1 DEF Checked
  <2>4. TokenEvents' = TokenEvents /\ \A i \in TokenEvents : payouts'[i] = payouts[i]
    BY <2>2 DEF TokenEvents
  <2>5. CASE o = Idle
    BY <1>2, <1>9, <2>2, <2>3, <2>4, <2>5
  <2>6. CASE o # Idle
    <3>1. receipts'[o.source].job = o.job
      <4>1. receipts \in Seq(ReceiptRow)
        BY DEF TypeOK, TablesTyped
      <4>2. receipts'[Len(receipts) + 1] = r
        BY <2>1, <4>1, AppendRow
      <4>3. QED
        BY <2>1, <2>6, <4>2
    <3>2. FileJobs[c.file].job \notin paidJobs
      BY <2>1, <2>6 DEF JobsOnce
    <3>3. o.job \notin paidJobs'
      BY <2>1, <2>2, <2>6, <3>2
    <3>4. o \notin Checked
      BY <2>1, <2>6 DEF Checked
    <3>5. QED
      BY <1>7, <1>8, <2>2, <2>3, <2>4, <3>1, <3>3, <3>4 DEF Marked
  <2>7. QED
    BY <2>5, <2>6
<1>12. CASE ReadEpoch(p) \/ CreateEpoch(p)
  <2>1. SamePayment(p) /\ UNCHANGED bookTables
    BY <1>12, EpochFound
  <2>2. PICK c \in Paying : c = work[p] /\ c.at \in {"epoch", "create"}
    BY <2>1, WorkByAt DEF SamePayment, TypeOK, TurnsTyped
  <2>3. work'[p].basis = c.basis /\ work'[p].source = c.source /\ work'[p].job = c.job
    BY <2>1, <2>2 DEF SamePayment
  <2>4. Marked
    BY <1>5, <2>2
  <2>5. TokenEvents' = TokenEvents /\ payouts' = payouts /\ receipts' = receipts
        /\ paidJobs' = paidJobs
    BY <2>1 DEF TokenEvents, bookTables
  <2>6. work'[p] \in TokenPayments => c \in TokenPayments
    BY <2>3 DEF TokenPayments
  <2>7. c \in TokenPayments => receipts[c.source].job = c.job /\ c.job \notin paidJobs
    BY <2>2 DEF JobsOnce
  <2>8. work'[p] \notin Checked
    BY <1>12, WhereTo DEF Checked
  <2>9. QED
    BY <1>7, <1>8, <2>3, <2>4, <2>5, <2>6, <2>7, <2>8 DEF Marked
<1>13. CASE Pay(p)
  <2>1. PICK c \in Paying, o \in Work : \E w \in DOMAIN c.due : PaidOut(p, c, o, w)
    BY <1>13, PayEffect
  <2> PICK w \in DOMAIN c.due : PaidOut(p, c, o, w)
    BY <2>1
  <2>2. c = work[p] /\ c.at = "pay" /\ work'[p] = o /\ UNCHANGED <<receipts, paidJobs>>
    BY <1>13, WorkMoves DEF PaidOut, TypeOK, Pay
  <2>3. PICK e \in EventRow : InsertPayoutEvent(e) /\ e.basis = c.basis /\ e.source = c.source
    BY DEF PaidOut, Event
  <2>4. PICK n : /\ n \notin DOMAIN payouts /\ DOMAIN payouts' = DOMAIN payouts \cup {n}
                 /\ payouts'[n] = e
                 /\ \A i \in DOMAIN payouts : payouts'[i] = payouts[i]
    BY <2>3, Inserted
  <2>5. Marked
    BY <1>5, <2>2
  <2>6. o \notin Checked
    BY <1>13, <2>2, WhereTo DEF Checked
  <2>7. CASE c.basis = "tokens"
    <3>1. c \in TokenPayments /\ c \in Unpaid
      BY <2>2, <2>7 DEF TokenPayments, TokensOnce
    <3>2. receipts[c.source].job = c.job /\ c.job \notin paidJobs
      BY <2>2, <3>1 DEF JobsOnce
    <3>3. o = [at |-> "record", job |-> c.job]
      BY <2>7, <3>1 DEF PaidOut, Unpaid, ToOne
    <3>4. TokenEvents' = TokenEvents \cup {n} /\ n \notin TokenEvents
      BY <2>3, <2>4, <2>7 DEF TokenEvents
    <3>5. \A i \in TokenEvents : JobOf(i)' = JobOf(i) /\ JobOf(i) \in paidJobs
      BY <2>2, <2>4, <2>5 DEF JobOf, Marked, TokenEvents
    <3>6. JobOf(n)' = c.job
      BY <2>2, <2>3, <2>4, <3>2 DEF JobOf
    <3>7. Apart'
      BY <1>3, <3>2, <3>4, <3>5, <3>6 DEF Apart
    <3>8. QED
      BY <1>8, <2>2, <2>6, <3>3, <3>4, <3>5, <3>6, <3>7, NoTokenPayment
  <2>8. CASE c.basis # "tokens"
    <3>1. TokenEvents' = TokenEvents /\ \A i \in TokenEvents : payouts'[i] = payouts[i]
      BY <2>3, <2>4, <2>8 DEF TokenEvents
    <3>2. o \notin TokenPayments
      <4>1. ASSUME o = [c EXCEPT !.at = "epoch", !.due = Restrict(@, DOMAIN c.due \ {w})]
            PROVE  o \notin TokenPayments
        <5>1. o.basis = c.basis
          BY <4>1 DEF Paying
        <5>2. QED
          BY <2>8, <5>1 DEF TokenPayments
      <4>2. QED
        BY <2>8, <4>1, NoTokenPayment DEF PaidOut
    <3>3. QED
      BY <1>9, <2>2, <2>5, <2>6, <3>1, <3>2
  <2>9. QED
    BY <2>7, <2>8
<1>14. CASE RecordPaid(p)
  <2>1. PICK c \in Recording : c = work[p]
    BY <1>14, WorkByAt DEF RecordPaid, TypeOK, TurnsTyped
  <2>2. /\ paidJobs' = paidJobs \cup {c.job} /\ payouts' = payouts /\ work'[p] = Idle
        /\ c = [at |-> "record", job |-> c.job]
    BY <1>14, <2>1 DEF RecordPaid, MarkPaid, Goes, TypeOK, TurnsTyped, Recording
  <2>3. TokenEvents' = TokenEvents /\ \A i \in TokenEvents : payouts'[i] = payouts[i]
    BY <2>2 DEF TokenEvents
  <2>4. \A i \in TokenEvents : JobOf(i) \in paidJobs'
    <3> SUFFICES ASSUME NEW i \in TokenEvents, JobOf(i) \notin paidJobs PROVE JobOf(i) = c.job
      BY <2>2
    <3>1. PICK q \in Procs : work[q] = [at |-> "record", job |-> JobOf(i)]
      BY DEF JobsOnce
    <3>2. q = p
      BY <1>1, <1>2, <3>1
    <3>3. QED
      BY <2>1, <3>1, <3>2
  <2>5. QED
    BY <1>2, <1>7, <1>8, <2>2, <2>3, <2>4
<1>15. CASE CommitCredit(p) /\ \E r \in Nat : CreditWritten(r)
  <2>1. PICK e \in EventRow : InsertPayoutEvent(e) /\ e.basis = "agent"
    BY <1>15 DEF CreditWritten, Event
  <2>2. TokenEvents' = TokenEvents /\ \A i \in TokenEvents : payouts'[i] = payouts[i]
    BY <2>1, Inserted DEF TokenEvents
  <2>3. paidJobs \subseteq paidJobs'
    BY <1>15 DEF CreditWritten
  <2>4. work[p].at = "credit" /\ work'[p] = Idle
    BY <1>15 DEF CommitCredit, Goes, TypeOK, TurnsTyped
  <2>5. QED
    BY <1>2, <1>5, <1>9, <2>2, <2>3, <2>4
<1>16. ASSUME ~CheckDuplicate(p), ~RecordPaid(p), work'[p] \notin TokenPayments,
              UNCHANGED payouts
       PROVE  JobsOnce'
  <2>1. TokenEvents' = TokenEvents /\ \A i \in TokenEvents : payouts'[i] = payouts[i]
    BY <1>16 DEF TokenEvents
  <2>2. work[p].at # "record" /\ paidJobs \subseteq paidJobs' /\ work'[p].at # "checked"
    <3>1. CASE CommitCredit(p)
      BY <3>1, WhereTo DEF CommitCredit, CreditAgent
    <3>2. CASE ~CommitCredit(p)
      <4>1. work'[p].at # "checked"
        BY <1>16, <3>2, WhereTo DEF Step, PoolStep, AgentStep
      <4>2. work[p].at # "record" /\ paidJobs' = paidJobs
        BY <1>16, <3>2, MarkerSteps
      <4>3. QED
        BY <4>1, <4>2
    <3>3. QED
      BY <3>1, <3>2
  <2>3. work'[p] \notin Checked
    BY <2>2 DEF Checked
  <2>4. Marked
    BY <1>5, <2>2
  <2>5. QED
    BY <1>9, <1>16, <2>1, <2>2, <2>3, <2>4
<1>17. QED
  BY <1>10, <1>11, <1>12, <1>13, <1>14, <1>15, <1>16, PaymentSteps

(* What holds of payments at every step.                                   *)
PaymentsOnce == CreditsOnce /\ TokensOnce /\ JobsOnce

LEMMA PaymentsOnceKept ==
  TypeOK /\ OneAtATime /\ PaymentsOnce /\ [Next]_vars => PaymentsOnce'
<1> SUFFICES ASSUME TypeOK, OneAtATime, PaymentsOnce, [Next]_vars PROVE PaymentsOnce'
  OBVIOUS
<1>1. ASSUME NEW p \in Procs, Step(p) PROVE PaymentsOnce'
  BY <1>1, CreditsOnceKept, TokensOnceKept, JobsOnceKept DEF PaymentsOnce
<1>2. ASSUME NEW p \in Procs, Kill(p), UNCHANGED <<bookTables, poolVars, agentVars>>
      PROVE  PaymentsOnce'
  <2>1. /\ work'[p] = Idle /\ \A q \in Procs \ {p} : work'[q] = work[q]
        /\ crashes' = crashes + 1 /\ crashes \in Nat
    BY <1>2 DEF Kill, TypeOK, TurnsTyped
  <2>2. UNCHANGED <<receipts, payouts, credits>>
    BY <1>2 DEF bookTables, agentVars
  <2>3. CreditsOnce'
    BY <2>2 DEF PaymentsOnce, CreditsOnce, AgentEvents
  <2>4. TokensOnce'
    BY <2>1, <2>2, NoTokenPayment, TokensOnceWithout DEF PaymentsOnce, TokenEvents
  <2>5. JobsOnce'
    <3>1. crashes' # 0
      BY <2>1
    <3>2. QED
      BY <3>1 DEF JobsOnce
  <2>6. QED
    BY <2>3, <2>4, <2>5 DEF PaymentsOnce
<1>3. CASE UNCHANGED vars
  BY <1>3 DEF vars, procVars, bookTables, agentVars, PaymentsOnce, CreditsOnce, AgentEvents,
     TokensOnce, TokenPayoutsOnce, TokenEvents, Unpaid, JobsOnce, JobOf
<1>4. QED
  BY <1>1, <1>2, <1>3, NextIsStep

LEMMA PaymentsOnceAtFirst == Init => PaymentsOnce
<1> SUFFICES ASSUME Init PROVE PaymentsOnce
  OBVIOUS
<1>1. AgentEvents = {} /\ TokenEvents = {} /\ \A q \in Procs : work[q] = Idle
  BY DEF Init, BookInit, ProcInit, AgentEvents, TokenEvents
<1>2. Idle \notin Checked
  BY DEF Idle, Checked
<1>3. QED
  BY <1>1, <1>2, NoTokenPayment DEF PaymentsOnce, CreditsOnce, TokensOnce, TokenPayoutsOnce,
     JobsOnce

(***************************************************************************)
(* A receipt is paid once by the scheduler and credited once to an agent,  *)
(* whichever processes race; and while they take turns and none is killed  *)
(* a job id is paid once.  The argument: a credit's primary key rolls a    *)
(* second one back, a process that owes a payment is the only one for its  *)
(* receipt, and its job has no marker when nobody else can be between a    *)
(* payout and its marker.                                                  *)
(***************************************************************************)
THEOREM ReceiptsPaidOnce == Spec => []PaidOnce
<1>1. TypeOK /\ PaymentsOnce => PaidOnce
  <2> SUFFICES ASSUME TypeOK, PaymentsOnce, NEW i \in DOMAIN payouts, NEW k \in DOMAIN payouts,
                      i # k, payouts[i].basis = payouts[k].basis, payouts[i].basis # "pplns"
               PROVE  /\ payouts[i].source # payouts[k].source
                      /\ inTurn /\ crashes = 0 /\ payouts[i].basis = "tokens" =>
                           receipts[payouts[i].source].job # receipts[payouts[k].source].job
    BY DEF PaidOnce
  <2>1. payouts[i] \in EventRow /\ payouts[k] \in EventRow
    BY RowInTable DEF TypeOK, TablesTyped
  <2>2. CASE payouts[i].basis = "agent"
    BY <2>2 DEF PaymentsOnce, CreditsOnce, AgentEvents
  <2>3. CASE payouts[i].basis = "tokens"
    BY <2>3 DEF PaymentsOnce, TokensOnce, TokenPayoutsOnce, TokenEvents, JobsOnce, JobOf
  <2>4. QED
    BY <2>1, <2>2, <2>3 DEF EventRow
<1>2. QED
  BY <1>1, TurnsAlways, PaymentsOnceAtFirst, PaymentsOnceKept, PTL DEF Spec

----
\* Funds of agents

(* What is reserved for an agent, of a table of escrows.                   *)
ReservedIn(table, a) ==
  {j \in AgentJobs : table[j].agent = a /\ table[j].status = "reserved"}
HeldIn(table, a) == SumFunctionOnSet([j \in AgentJobs |-> table[j].amount], ReservedIn(table, a))
RowsIn(table) == {j \in AgentJobs : table[j].status # "none"}
Part(row, a) == IF row.agent = a /\ row.status = "reserved" THEN row.amount ELSE 0

LEMMA HeldByTable ==
  \A a : Held(a) = HeldIn(escrows, a) /\ Held(a)' = HeldIn(escrows', a)
  BY DEF Held, HeldIn, ReservedIn

LEMMA PartTyped ==
  ASSUME NEW row \in EscrowRow, NEW a
  PROVE  row.amount \in Nat /\ Part(row, a) \in Nat
  BY DEF EscrowRow, NoRow, Part

LEMMA HeldWithout ==
  ASSUME NEW table \in [AgentJobs -> EscrowRow], IsFiniteSet(RowsIn(table)), NEW a,
         NEW j \in AgentJobs
  PROVE  LET S == ReservedIn(table, a) \ {j}
             f == [i \in AgentJobs |-> table[i].amount]
         IN  /\ IsFiniteSet(S) /\ SumFunctionOnSet(f, S) \in Nat
             /\ HeldIn(table, a) = SumFunctionOnSet(f, S) + Part(table[j], a)
<1> DEFINE R == ReservedIn(table, a)
           S == R \ {j}
           f == [i \in AgentJobs |-> table[i].amount]
<1>1. \A i \in AgentJobs : f[i] = table[i].amount /\ f[i] \in Nat
  BY PartTyped
<1>2. R \subseteq RowsIn(table)
  BY DEF ReservedIn, RowsIn
<1>3. IsFiniteSet(R) /\ IsFiniteSet(S) /\ S \subseteq AgentJobs
  BY <1>2, FS_Subset DEF ReservedIn
<1>4. j \in R <=> table[j].agent = a /\ table[j].status = "reserved"
  BY DEF ReservedIn
<1>5. HeldIn(table, a) = SumFunctionOnSet(f, R)
  BY DEF HeldIn
<1> HIDE DEF R, f
<1>6. SumFunctionOnSet(f, S) \in Nat
  BY <1>1, <1>3, SumNat
<1>7. CASE j \in R
  <2>1. S \cup {j} = R /\ j \notin S
    BY <1>7
  <2>2. \A i \in S \cup {j} : f[i] \in Int
    BY <1>1, <1>3
  <2>3. SumFunctionOnSet(f, S \cup {j}) = f[j] + SumFunctionOnSet(f, S)
    BY <1>3, <2>1, <2>2, SumAdd
  <2>4. Part(table[j], a) = f[j]
    BY <1>1, <1>4, <1>7 DEF Part
  <2>5. PICK x \in Nat, y \in Nat : x = f[j] /\ y = SumFunctionOnSet(f, S)
    BY <1>1, <1>6
  <2>6. x + y = y + x
    OBVIOUS
  <2>7. HeldIn(table, a) = SumFunctionOnSet(f, S) + Part(table[j], a)
    BY <1>5, <2>1, <2>3, <2>4, <2>5, <2>6
  <2>8. QED
    BY <1>3, <1>6, <2>7 DEF R, f
<1>8. CASE j \notin R
  <2>1. S = R /\ Part(table[j], a) = 0
    BY <1>4, <1>8 DEF Part
  <2>2. PICK y \in Nat : y = SumFunctionOnSet(f, S)
    BY <1>6
  <2>3. y + 0 = y
    OBVIOUS
  <2>4. HeldIn(table, a) = SumFunctionOnSet(f, S) + Part(table[j], a)
    BY <1>5, <2>1, <2>2, <2>3
  <2>5. QED
    BY <1>3, <1>6, <2>4 DEF R, f
<1>9. QED
  BY <1>7, <1>8

(* Another row of a job changes what is held by what the two rows hold.    *)
LEMMA HeldReplaced ==
  ASSUME NEW table \in [AgentJobs -> EscrowRow], IsFiniteSet(RowsIn(table)), NEW a,
         NEW j \in AgentJobs, NEW row \in EscrowRow
  PROVE  LET after == [table EXCEPT ![j] = row]
         IN  /\ IsFiniteSet(RowsIn(after))
             /\ \E h \in Nat : /\ HeldIn(table, a) = h + Part(table[j], a)
                              /\ HeldIn(after, a) = h + Part(row, a)
<1> DEFINE after == [table EXCEPT ![j] = row]
           f == [i \in AgentJobs |-> table[i].amount]
           g == [i \in AgentJobs |-> after[i].amount]
<1>1. after \in [AgentJobs -> EscrowRow] /\ after[j] = row
        /\ \A i \in AgentJobs \ {j} : after[i] = table[i]
  OBVIOUS
<1> HIDE DEF after
<1>2. IsFiniteSet(RowsIn(after))
  <2>1. RowsIn(after) \subseteq RowsIn(table) \cup {j}
    BY <1>1 DEF RowsIn
  <2>2. QED
    BY <2>1, FS_AddElement, FS_Subset
<1>3. ReservedIn(after, a) \ {j} = ReservedIn(table, a) \ {j}
  BY <1>1 DEF ReservedIn
<1> DEFINE S == ReservedIn(table, a) \ {j}
<1>4. /\ IsFiniteSet(S) /\ SumFunctionOnSet(f, S) \in Nat
      /\ HeldIn(table, a) = SumFunctionOnSet(f, S) + Part(table[j], a)
  BY HeldWithout
<1>5. HeldIn(after, a) = SumFunctionOnSet(g, S) + Part(row, a)
  <2>1. HeldIn(after, a) = SumFunctionOnSet(g, ReservedIn(after, a) \ {j}) + Part(after[j], a)
    BY <1>1, <1>2, HeldWithout
  <2>2. QED
    BY <1>1, <1>3, <2>1
<1>6. \A i \in S : f[i] = g[i] /\ f[i] \in Int
  <2>1. \A i \in S : i \in AgentJobs \ {j}
    BY DEF ReservedIn
  <2>2. \A i \in AgentJobs : table[i].amount \in Nat
    BY PartTyped
  <2>3. QED
    BY <1>1, <2>1, <2>2
<1> HIDE DEF S, f, g
<1>7. SumFunctionOnSet(g, S) = SumFunctionOnSet(f, S)
  BY <1>4, <1>6, SumSame
<1>8. QED
  BY <1>2, <1>4, <1>5, <1>7 DEF after

Earned == \A a \in Agents : accounts[a].earned = AmountsIn(payouts, EarnedBy(a))

(* What a step does to the accounts and escrows.                           *)
LEMMA AccountSteps ==
  ASSUME TypeOK, NEW p \in Procs, Step(p)
  PROVE  \/ /\ UNCHANGED <<accounts, escrows>>
            /\ work'[p].at \notin {"fund", "close"}
         \/ \E a \in Agents : RecordMiningIncome(p, a)
         \/ \E a \in Agents, j \in AgentJobs : BeginFund(p, a, j)
         \/ CommitFund(p)
         \/ \E j \in AgentJobs, s \in {"spent", "refunded"} : BeginClose(p, j, s)
         \/ CommitClose(p)
         \/ CommitCredit(p)
<1>1. CASE PoolStep(p) /\ UNCHANGED agentVars
  <2>1. work'[p].at \notin {"fund", "close"}
    BY <1>1, WhereTo DEF PoolStep
  <2>2. QED
    BY <1>1, <2>1 DEF agentVars
<1>2. ASSUME NEW r \in DOMAIN receipts, BeginCredit(p, r)
      PROVE  UNCHANGED <<accounts, escrows>> /\ work'[p].at \notin {"fund", "close"}
  BY <1>2, WhereTo DEF BeginCredit, agentVars
<1>3. CASE AgentStep(p)
  BY <1>2, <1>3 DEF AgentStep
<1>4. QED
  BY <1>1, <1>3 DEF Step

(* Only a credit changes what an agent earned.                             *)
LEMMA OtherIncome ==
  ASSUME TypeOK, NEW p \in Procs, Step(p), ~CommitCredit(p)
  PROVE  \A a \in Agents : accounts'[a].earned = accounts[a].earned
<1>1. accounts \in [Agents -> AccountRow]
  BY DEF TypeOK, TablesTyped
<1>2. ASSUME NEW a \in Agents, RecordMiningIncome(p, a)
      PROVE  \A b \in Agents : accounts'[b].earned = accounts[b].earned
  <2>1. PICK n \in Nat :
          accounts' = [accounts EXCEPT ![a] = [accounts[a] EXCEPT !.qi = @ + n, !.mined = @ + n]]
    BY <1>2, MiningIncome
  <2>2. [accounts[a] EXCEPT !.qi = @ + n, !.mined = @ + n].earned = accounts[a].earned
    BY <1>1, n \in Int, AccountUpdated
  <2>3. QED
    BY <1>1, <2>1, <2>2
<1>3. CASE CommitFund(p)
  <2>1. PICK o \in Funding :
          \/ UNCHANGED <<accounts, escrows>>
          \/ accounts' = [accounts EXCEPT
                           ![o.agent] = [accounts[o.agent] EXCEPT !.qi = @ - o.amount]]
    BY <1>3, CommitFundEffect
  <2>2. o.agent \in Agents
    BY DEF Funding
  <2>3. QED
    BY <1>1, <2>1, <2>2 DEF AccountRow
<1>4. CASE CommitClose(p)
  <2>1. PICK o \in Closing :
          accounts' = [accounts EXCEPT
            ![o.row.agent] = IF o.status = "spent"
                             THEN [accounts[o.row.agent] EXCEPT !.spent = @ + o.row.amount]
                             ELSE [accounts[o.row.agent] EXCEPT !.qi = @ + o.row.amount]]
    BY <1>4, CommitCloseEffect
  <2>2. o.row.agent \in Agents
    BY DEF Closing, Reserve
  <2>3. PICK row :
          row = IF o.status = "spent"
                THEN [accounts[o.row.agent] EXCEPT !.spent = @ + o.row.amount]
                ELSE [accounts[o.row.agent] EXCEPT !.qi = @ + o.row.amount]
    OBVIOUS
  <2>4. accounts' = [accounts EXCEPT ![o.row.agent] = row]
    BY <2>1, <2>3
  <2>5. row.earned = accounts[o.row.agent].earned
    <3>1. accounts[o.row.agent] \in AccountRow
      BY <1>1, <2>2
    <3>2. QED
      BY <2>3, <3>1 DEF AccountRow
  <2>6. QED
    BY <1>1, <2>2, <2>4, <2>5
<1>5. ASSUME UNCHANGED accounts
      PROVE  \A a \in Agents : accounts'[a].earned = accounts[a].earned
  BY <1>5
<1>6. QED
  BY <1>2, <1>3, <1>4, <1>5, AccountSteps DEF BeginFund, BeginClose, agentVars

LEMMA EarnedKept ==
  ASSUME TypeOK, Earned, NEW p \in Procs, Step(p)
  PROVE  Earned'
<1>1. payouts \in Seq(EventRow) /\ accounts \in [Agents -> AccountRow]
  BY DEF TypeOK, TablesTyped
<1>2. CASE CommitCredit(p) /\ \E r \in Nat : r = work[p].receipt /\ CreditWritten(r)
  <2>1. PICK w \in Workers, b \in Agents, e \in EventRow :
          /\ b = AgentFor(w) /\ e.basis = "agent" /\ e.worker = w /\ e.amount = CreditOf
          /\ payouts' = Append(payouts, e)
          /\ accounts' = [accounts EXCEPT ![b] = [accounts[b] EXCEPT !.qi = @ + CreditOf,
                                                                    !.earned = @ + CreditOf]]
    BY <1>2 DEF CreditWritten, InsertPayoutEvent, Event
  <2>2. [accounts[b] EXCEPT !.qi = @ + CreditOf, !.earned = @ + CreditOf].earned =
           accounts[b].earned + CreditOf
    BY <1>1, CreditIsInt, AccountUpdated
  <2> SUFFICES ASSUME NEW a \in Agents
               PROVE  accounts'[a].earned = AmountsIn(payouts', EarnedBy(a))
    BY DEF Earned
  <2>3. /\ AmountsIn(payouts, EarnedBy(a)) \in Int
        /\ AmountsIn(payouts', EarnedBy(a)) =
             AmountsIn(payouts, EarnedBy(a)) + (IF e \in EarnedBy(a) THEN e.amount ELSE 0)
    BY <1>1, <2>1, AmountsGrow
  <2>4. e \in EarnedBy(a) <=> a = b
    BY <2>1 DEF EarnedBy
  <2>5. accounts[a].earned = AmountsIn(payouts, EarnedBy(a))
    BY DEF Earned
  <2>6. CASE a = b
    BY <1>1, <2>1, <2>2, <2>3, <2>4, <2>5, <2>6
  <2>7. CASE a # b
    BY <1>1, <2>1, <2>3, <2>4, <2>5, <2>7
  <2>8. QED
    BY <2>6, <2>7
<1>3. CASE Pay(p) /\ UNCHANGED agentVars
  <2>1. PICK c \in Paying, o \in Work : \E w \in DOMAIN c.due : PaidOut(p, c, o, w)
    BY <1>3, PayEffect
  <2>2. PICK e \in EventRow : payouts' = Append(payouts, e) /\ e.basis # "agent"
    BY <2>1 DEF PaidOut, InsertPayoutEvent, Event, Paying
  <2> SUFFICES ASSUME NEW a \in Agents
               PROVE  accounts'[a].earned = AmountsIn(payouts', EarnedBy(a))
    BY DEF Earned
  <2>3. /\ AmountsIn(payouts, EarnedBy(a)) \in Int
        /\ AmountsIn(payouts', EarnedBy(a)) =
             AmountsIn(payouts, EarnedBy(a)) + (IF e \in EarnedBy(a) THEN e.amount ELSE 0)
    BY <1>1, <2>2, AmountsGrow
  <2>4. e \notin EarnedBy(a)
    BY <2>2 DEF EarnedBy
  <2>5. accounts'[a].earned = AmountsIn(payouts, EarnedBy(a))
    BY <1>3 DEF Earned, agentVars
  <2>6. QED
    BY <2>3, <2>4, <2>5
<1>4. CASE UNCHANGED <<payouts, balances, credits>>
  <2>1. \A a \in Agents : accounts'[a].earned = accounts[a].earned
    <3>1. CASE CommitCredit(p)
      <4>1. \A r : ~CreditWritten(r)
        BY <1>4 DEF CreditWritten
      <4>2. UNCHANGED accounts
        BY <3>1, <4>1, CommitCreditEffect
      <4>3. QED
        BY <4>2
    <3>2. CASE ~CommitCredit(p)
      BY <3>2, OtherIncome
    <3>3. QED
      BY <3>1, <3>2
  <2>2. QED
    BY <1>4, <2>1 DEF Earned
<1>5. QED
  BY <1>2, <1>3, <1>4, PayoutSteps

(* The escrows that have a row are finitely many.                          *)
LEMMA EscrowsFinite ==
  ASSUME TypeOK, NEW p \in Procs, Step(p), IsFiniteSet(RowsIn(escrows))
  PROVE  IsFiniteSet(RowsIn(escrows'))
<1>1. escrows \in [AgentJobs -> EscrowRow]
  BY DEF TypeOK, TablesTyped
<1>2. CASE CommitFund(p)
  <2>1. PICK o \in Funding :
          \/ UNCHANGED <<accounts, escrows>>
          \/ escrows' = [escrows EXCEPT ![o.job] = [status |-> "reserved", agent |-> o.agent,
                                                   amount |-> o.amount]]
    BY <1>2, CommitFundEffect
  <2>2. /\ o.job \in AgentJobs
        /\ [status |-> "reserved", agent |-> o.agent, amount |-> o.amount] \in EscrowRow
    BY DEF Funding, EscrowRow
  <2>3. CASE UNCHANGED escrows
    BY <2>3
  <2>4. CASE escrows' = [escrows EXCEPT ![o.job] = [status |-> "reserved", agent |-> o.agent,
                                                   amount |-> o.amount]]
    BY <1>1, <2>2, <2>4, HeldReplaced
  <2>5. QED
    BY <2>1, <2>3, <2>4
<1>3. CASE CommitClose(p)
  <2>1. PICK o \in Closing :
          escrows' = IF escrows[o.job].status = "reserved"
                     THEN [escrows EXCEPT ![o.job] = [escrows[o.job] EXCEPT !.status = o.status]]
                     ELSE escrows
    BY <1>3, CommitCloseEffect
  <2>2. o.job \in AgentJobs /\ o.status \in {"spent", "refunded"}
    BY DEF Closing
  <2>3. CASE escrows[o.job].status = "reserved"
    <3>1. [escrows[o.job] EXCEPT !.status = o.status] \in EscrowRow
      BY <1>1, <2>2, <2>3 DEF EscrowRow, NoRow
    <3>2. QED
      BY <1>1, <2>1, <2>2, <2>3, <3>1, HeldReplaced
  <2>4. QED
    BY <2>1, <2>3
<1>4. CASE UNCHANGED escrows
  BY <1>4
<1>5. QED
  BY <1>2, <1>3, <1>4, AccountSteps
     DEF RecordMiningIncome, BeginFund, BeginClose, CommitCredit, agentVars

(* An agent's account says what its Qi is and was.                         *)
FundsOf(a) ==
  /\ accounts[a].qi >= 0
  /\ accounts[a].qi + HeldIn(escrows, a) + accounts[a].spent =
       accounts[a].mined + accounts[a].earned

LEMMA AccountMoved ==
  ASSUME NEW r \in AccountRow, NEW n \in Int
  PROVE  LET out == [r EXCEPT !.qi = @ - n]
             back == [r EXCEPT !.qi = @ + n]
             gone == [r EXCEPT !.spent = @ + n]
         IN  /\ out.qi = r.qi - n /\ out.mined = r.mined
             /\ out.earned = r.earned /\ out.spent = r.spent
             /\ back.qi = r.qi + n /\ back.mined = r.mined
             /\ back.earned = r.earned /\ back.spent = r.spent
             /\ gone.qi = r.qi /\ gone.mined = r.mined
             /\ gone.earned = r.earned /\ gone.spent = r.spent + n
  BY DEF AccountRow

LEMMA HeldIsNat ==
  ASSUME TypeOK, IsFiniteSet(RowsIn(escrows)), NEW a
  PROVE  HeldIn(escrows, a) \in Nat
<1>1. escrows \in [AgentJobs -> EscrowRow]
  BY DEF TypeOK, TablesTyped
<1>2. \A j \in ReservedIn(escrows, a) : [i \in AgentJobs |-> escrows[i].amount][j] \in Nat
  BY <1>1, PartTyped DEF ReservedIn
<1>3. IsFiniteSet(ReservedIn(escrows, a))
  BY FS_Subset DEF ReservedIn, RowsIn
<1> DEFINE f == [i \in AgentJobs |-> escrows[i].amount]
<1>4. \A j \in ReservedIn(escrows, a) : f[j] \in Nat
  BY <1>2
<1> HIDE DEF f
<1>5. SumFunctionOnSet(f, ReservedIn(escrows, a)) \in Nat
  BY <1>3, <1>4, SumNat
<1>6. QED
  BY <1>5 DEF HeldIn, f

LEMMA FundsGrow ==
  ASSUME TypeOK, IsFiniteSet(RowsIn(escrows)), \A a \in Agents : FundsOf(a),
         UNCHANGED escrows, NEW b \in Agents, NEW n \in Nat,
         \/ accounts' = [accounts EXCEPT ![b] = [accounts[b] EXCEPT !.qi = @ + n, !.mined = @ + n]]
         \/ accounts' = [accounts EXCEPT ![b] = [accounts[b] EXCEPT !.qi = @ + n, !.earned = @ + n]]
  PROVE  \A a \in Agents : FundsOf(a)'
<1> SUFFICES ASSUME NEW a \in Agents PROVE FundsOf(a)'
  OBVIOUS
<1>1. accounts \in [Agents -> AccountRow]
  BY DEF TypeOK, TablesTyped
<1>2. FundsOf(a) /\ HeldIn(escrows, a) \in Nat /\ HeldIn(escrows', a) = HeldIn(escrows, a)
  BY HeldIsNat
<1>3. accounts[a] \in AccountRow /\ accounts[b] \in AccountRow /\ n \in Int
  BY <1>1
<1>4. CASE a # b
  <2>1. accounts'[a] = accounts[a]
    BY <1>1, <1>4
  <2>2. QED
    BY <1>2, <2>1 DEF FundsOf
<1>5. CASE a = b
  <2> DEFINE mined == [accounts[b] EXCEPT !.qi = @ + n, !.mined = @ + n]
             earned == [accounts[b] EXCEPT !.qi = @ + n, !.earned = @ + n]
  <2>1. /\ mined.qi = accounts[b].qi + n /\ mined.mined = accounts[b].mined + n
        /\ mined.earned = accounts[b].earned /\ mined.spent = accounts[b].spent
        /\ earned.qi = accounts[b].qi + n /\ earned.mined = accounts[b].mined
        /\ earned.earned = accounts[b].earned + n /\ earned.spent = accounts[b].spent
    BY <1>3, AccountUpdated
  <2>2. accounts'[a] = mined \/ accounts'[a] = earned
    BY <1>1, <1>5
  <2> HIDE DEF mined, earned
  <2>3. /\ accounts'[a].qi = accounts[a].qi + n /\ accounts'[a].spent = accounts[a].spent
        /\ accounts'[a].mined + accounts'[a].earned = accounts[a].mined + accounts[a].earned + n
    BY <1>3, <1>5, <2>1, <2>2 DEF AccountRow
  <2> DEFINE held == HeldIn(escrows, a)
  <2> HIDE DEF held
  <2>8. held \in Int /\ held = HeldIn(escrows, a)
    BY <1>2 DEF held
  <2>4. PICK q \in Int, h \in Int, x \in Int, m \in Int :
          /\ q = accounts[a].qi /\ h = held /\ x = accounts[a].spent
          /\ m = accounts[a].mined + accounts[a].earned
    <3>1. accounts[a].qi \in Int /\ accounts[a].spent \in Int /\ accounts[a].mined \in Int
          /\ accounts[a].earned \in Int
      BY <1>3 DEF AccountRow
    <3>2. accounts[a].mined + accounts[a].earned \in Int
      BY <3>1
    <3>3. QED
      BY <2>8, <3>1, <3>2
  <2>5. q >= 0 /\ q + h + x = m
    BY <1>2, <2>4, <2>8 DEF FundsOf
  <2>6. q + n >= 0 /\ (q + n) + h + x = m + n
    BY <2>5
  <2>7. QED
    BY <1>2, <2>3, <2>4, <2>6, <2>8 DEF FundsOf
<1>6. QED
  BY <1>4, <1>5

(* What is reserved leaves the balance.                                    *)
LEMMA FundsReserved ==
  ASSUME TypeOK, IsFiniteSet(RowsIn(escrows)), \A a \in Agents : FundsOf(a),
         NEW o \in Funding, accounts[o.agent].qi >= o.amount, escrows[o.job] = NoRow,
         accounts' = [accounts EXCEPT ![o.agent] = [accounts[o.agent] EXCEPT !.qi = @ - o.amount]],
         escrows' = [escrows EXCEPT ![o.job] = [status |-> "reserved", agent |-> o.agent,
                                                amount |-> o.amount]]
  PROVE  \A a \in Agents : FundsOf(a)'
<1> SUFFICES ASSUME NEW a \in Agents PROVE FundsOf(a)'
  OBVIOUS
<1>1. accounts \in [Agents -> AccountRow] /\ escrows \in [AgentJobs -> EscrowRow]
  BY DEF TypeOK, TablesTyped
<1>2. o.agent \in Agents /\ o.amount \in Nat /\ o.amount \in Int /\ o.job \in AgentJobs
  BY DEF Funding
<1> DEFINE row == [status |-> "reserved", agent |-> o.agent, amount |-> o.amount]
<1>3. row \in EscrowRow /\ row.agent = o.agent /\ row.status = "reserved" /\ row.amount = o.amount
  BY <1>2 DEF EscrowRow
<1>4. Part(escrows[o.job], a) = 0 /\ Part(row, a) = IF o.agent = a THEN o.amount ELSE 0
  BY <1>3 DEF Part, NoRow
<1>5. escrows' = [escrows EXCEPT ![o.job] = row]
  OBVIOUS
<1> HIDE DEF row
<1>6. PICK h \in Nat : /\ HeldIn(escrows, a) = h + Part(escrows[o.job], a)
                       /\ HeldIn(escrows', a) = h + Part(row, a)
  <2>1. PICK h \in Nat : /\ HeldIn(escrows, a) = h + Part(escrows[o.job], a)
                         /\ HeldIn([escrows EXCEPT ![o.job] = row], a) = h + Part(row, a)
    BY ONLY <1>1, <1>2, <1>3, HeldReplaced, IsFiniteSet(RowsIn(escrows))
  <2>2. QED
    BY <1>5, <2>1
<1>7. FundsOf(a) /\ accounts[a] \in AccountRow
  BY <1>1
<1>8. HeldIn(escrows, a) = h
  BY <1>4, <1>6
<1>9. CASE a # o.agent
  <2>1. accounts'[a] = accounts[a] /\ HeldIn(escrows', a) = h
    BY <1>1, <1>4, <1>6, <1>9
  <2>2. QED
    BY <1>7, <1>8, <2>1 DEF FundsOf
<1>10. CASE a = o.agent
  <2>1. accounts'[a] = [accounts[a] EXCEPT !.qi = @ - o.amount]
    BY <1>1, <1>10
  <2>2. /\ accounts'[a].qi = accounts[a].qi - o.amount /\ accounts'[a].mined = accounts[a].mined
        /\ accounts'[a].earned = accounts[a].earned /\ accounts'[a].spent = accounts[a].spent
    <3> DEFINE r == accounts[a]
               out == [r EXCEPT !.qi = @ - o.amount]
    <3>1. out.qi = r.qi - o.amount /\ out.mined = r.mined /\ out.earned = r.earned
            /\ out.spent = r.spent
      BY <1>2, <1>7, AccountMoved
    <3>2. accounts'[a] = out
      BY <2>1
    <3> HIDE DEF out
    <3>3. QED
      BY <3>1, <3>2
  <2>3. HeldIn(escrows', a) = h + o.amount
    BY <1>4, <1>6, <1>10
  <2>4. PICK q \in Int, n \in Int, x \in Int, m \in Int :
          /\ q = accounts[a].qi /\ n = o.amount /\ x = accounts[a].spent
          /\ m = accounts[a].mined + accounts[a].earned
    BY <1>2, <1>7 DEF AccountRow
  <2>5. q >= n /\ q + h + x = m
    BY <1>7, <1>8, <1>10, <2>4 DEF FundsOf
  <2>6. q - n >= 0 /\ (q - n) + (h + n) + x = m
    BY <2>5
  <2>7. QED
    BY <2>2, <2>3, <2>4, <2>6 DEF FundsOf
<1>11. QED
  BY <1>9, <1>10

(* What was reserved is spent or back in the balance.                      *)
LEMMA FundsReleased ==
  ASSUME TypeOK, IsFiniteSet(RowsIn(escrows)), \A a \in Agents : FundsOf(a),
         NEW o \in Closing, escrows[o.job] = o.row,
         accounts' = [accounts EXCEPT
           ![o.row.agent] = IF o.status = "spent"
                            THEN [accounts[o.row.agent] EXCEPT !.spent = @ + o.row.amount]
                            ELSE [accounts[o.row.agent] EXCEPT !.qi = @ + o.row.amount]],
         escrows' = [escrows EXCEPT ![o.job] = [escrows[o.job] EXCEPT !.status = o.status]]
  PROVE  \A a \in Agents : FundsOf(a)'
<1> SUFFICES ASSUME NEW a \in Agents PROVE FundsOf(a)'
  OBVIOUS
<1>1. accounts \in [Agents -> AccountRow] /\ escrows \in [AgentJobs -> EscrowRow]
  BY DEF TypeOK, TablesTyped
<1>2. PICK b \in Agents, n \in Nat :
        b = o.row.agent /\ n = o.row.amount
  BY DEF Closing, Reserve
<1>3. o.job \in AgentJobs /\ o.status \in {"spent", "refunded"} /\ o.row.status = "reserved"
  BY DEF Closing, Reserve
<1> DEFINE row == [escrows[o.job] EXCEPT !.status = o.status]
<1>4. row \in EscrowRow /\ row.status = o.status
  BY <1>1, <1>2, <1>3 DEF EscrowRow, Closing, Reserve
<1>5. Part(escrows[o.job], a) = (IF b = a THEN n ELSE 0) /\ Part(row, a) = 0
  BY <1>2, <1>3, <1>4 DEF Part
<1>6. escrows' = [escrows EXCEPT ![o.job] = row]
  OBVIOUS
<1> HIDE DEF row
<1>7. PICK h \in Nat : /\ HeldIn(escrows, a) = h + Part(escrows[o.job], a)
                       /\ HeldIn(escrows', a) = h + Part(row, a)
  <2>1. PICK h \in Nat : /\ HeldIn(escrows, a) = h + Part(escrows[o.job], a)
                         /\ HeldIn([escrows EXCEPT ![o.job] = row], a) = h + Part(row, a)
    BY ONLY <1>1, <1>3, <1>4, HeldReplaced, IsFiniteSet(RowsIn(escrows))
  <2>2. QED
    BY <1>6, <2>1
<1>8. FundsOf(a) /\ accounts[a] \in AccountRow
  BY <1>1
<1>9. HeldIn(escrows', a) = h
  BY <1>5, <1>7
<1>10. CASE a # b
  <2>1. accounts'[a] = accounts[a] /\ HeldIn(escrows, a) = h
    BY <1>1, <1>2, <1>5, <1>7, <1>10
  <2>2. QED
    BY <1>8, <1>9, <2>1 DEF FundsOf
<1>11. CASE a = b
  <2>1. PICK account : account = IF o.status = "spent"
                                 THEN [accounts[a] EXCEPT !.spent = @ + n]
                                 ELSE [accounts[a] EXCEPT !.qi = @ + n]
    OBVIOUS
  <2>2. accounts'[a] = account
    BY <1>1, <1>2, <1>11, <2>1
  <2>3. n \in Int
    OBVIOUS
  <2>4. /\ account.mined = accounts[a].mined /\ account.earned = accounts[a].earned
        /\ \/ account.qi = accounts[a].qi /\ account.spent = accounts[a].spent + n
           \/ account.qi = accounts[a].qi + n /\ account.spent = accounts[a].spent
    <3> DEFINE r == accounts[a]
               back == [r EXCEPT !.qi = @ + n]
               gone == [r EXCEPT !.spent = @ + n]
    <3>1. /\ back.qi = r.qi + n /\ back.mined = r.mined /\ back.earned = r.earned
               /\ back.spent = r.spent
          /\ gone.qi = r.qi /\ gone.mined = r.mined /\ gone.earned = r.earned
          /\ gone.spent = r.spent + n
      BY <1>8, <2>3, AccountMoved
    <3>2. account = gone \/ account = back
      BY <2>1
    <3> HIDE DEF back, gone
    <3>3. QED
      BY <3>1, <3>2
  <2>5. HeldIn(escrows, a) = h + n
    BY <1>5, <1>7, <1>11
  <2>6. PICK q \in Int, x \in Int, m \in Int :
          /\ q = accounts[a].qi /\ x = accounts[a].spent
          /\ m = accounts[a].mined + accounts[a].earned
    <3>1. accounts[a].qi \in Int /\ accounts[a].spent \in Int /\ accounts[a].mined \in Int
          /\ accounts[a].earned \in Int
      BY <1>8 DEF AccountRow
    <3>2. accounts[a].mined + accounts[a].earned \in Int
      BY <3>1
    <3>3. QED
      BY <3>1, <3>2
  <2>7. q >= 0 /\ q + (h + n) + x = m
    BY <1>8, <2>5, <2>6 DEF FundsOf
  <2>8. q + n >= 0 /\ q + h + (x + n) = m /\ (q + n) + h + x = m
    BY <2>7
  <2>9. QED
    BY <1>9, <2>2, <2>4, <2>6, <2>7, <2>8 DEF FundsOf
<1>12. QED
  BY <1>10, <1>11

(* In the middle of an operation the balance still covers the amount, and  *)
(* the row is still the one that was read.                                 *)
FundsInv ==
  /\ IsFiniteSet(RowsIn(escrows))
  /\ inTurn =>
       /\ \A a \in Agents : FundsOf(a)
       /\ \A q \in Procs : /\ work[q] \in Funding => accounts[work[q].agent].qi >= work[q].amount
                           /\ work[q] \in Closing => escrows[work[q].job] = work[q].row

(* While processes take turns, no other one is in the middle.              *)
LEMMA OthersWait ==
  ASSUME TypeOK, OneAtATime, inTurn, NEW p \in Procs, Step(p),
         work'[p] \notin Funding \cup Closing
  PROVE  \A q \in Procs : work'[q] \notin Funding \cup Closing
<1>1. \A q \in Procs \ {p} : work'[q] = Idle
  BY Alone
<1>2. Idle \notin Funding \cup Closing
  BY DEF Idle, Funding, Closing
<1>3. QED
  BY <1>1, <1>2

LEMMA FundsKept ==
  ASSUME TypeOK, OneAtATime, FundsInv, NEW p \in Procs, Step(p)
  PROVE  FundsInv'
<1>1. IsFiniteSet(RowsIn(escrows')) /\ inTurn' = inTurn
  BY EscrowsFinite, Moves DEF FundsInv
<1> SUFFICES ASSUME inTurn
             PROVE  /\ \A a \in Agents : FundsOf(a)'
                    /\ \A q \in Procs :
                         /\ work'[q] \in Funding => accounts'[work'[q].agent].qi >= work'[q].amount
                         /\ work'[q] \in Closing => escrows'[work'[q].job] = work'[q].row
  BY <1>1 DEF FundsInv
<1>2. /\ IsFiniteSet(RowsIn(escrows)) /\ \A a \in Agents : FundsOf(a)
      /\ work[p] \in Funding => accounts[work[p].agent].qi >= work[p].amount
      /\ work[p] \in Closing => escrows[work[p].job] = work[p].row
  BY DEF FundsInv
<1>3. \A q \in Procs \ {p} : work'[q] \notin Funding \cup Closing
  BY Alone DEF Idle, Funding, Closing
<1>4. work \in [Procs -> Work] /\ accounts \in [Agents -> AccountRow]
  BY DEF TypeOK, TurnsTyped, TablesTyped
<1>5. ASSUME UNCHANGED <<accounts, escrows>>, work'[p].at \notin {"fund", "close"}
      PROVE  FundsInv'
  <2>1. \A a \in Agents : FundsOf(a)'
    BY <1>2, <1>5 DEF FundsOf
  <2>2. work'[p] \notin Funding \cup Closing
    BY <1>5 DEF Funding, Closing
  <2>3. QED
    BY <1>1, <2>1, <2>2, OthersWait DEF FundsInv
<1>6. ASSUME NEW a \in Agents, RecordMiningIncome(p, a) PROVE FundsInv'
  <2>1. UNCHANGED escrows /\ work'[p] = Idle
    BY <1>4, <1>6 DEF RecordMiningIncome, Begins
  <2>2. PICK n \in Nat :
          accounts' = [accounts EXCEPT ![a] = [accounts[a] EXCEPT !.qi = @ + n, !.mined = @ + n]]
    BY <1>6, MiningIncome
  <2>3. \A b \in Agents : FundsOf(b)'
    BY <1>2, <2>1, <2>2, FundsGrow
  <2>4. work'[p] \notin Funding \cup Closing
    BY <2>1 DEF Idle, Funding, Closing
  <2>5. QED
    BY <1>1, <2>3, <2>4, OthersWait DEF FundsInv
<1>7. ASSUME NEW a \in Agents, NEW j \in AgentJobs, BeginFund(p, a, j) PROVE FundsInv'
  <2>1. UNCHANGED <<accounts, escrows>>
    BY <1>7 DEF BeginFund, agentVars
  <2>2. PICK n \in Amounts :
          accounts[a].qi >= n /\ work'[p] = [at |-> "fund", agent |-> a, job |-> j, amount |-> n]
    BY <1>4, <1>7 DEF BeginFund, Begins, CanSpend
  <2>3. \A b \in Agents : FundsOf(b)'
    BY <1>2, <2>1 DEF FundsOf
  <2>4. work'[p] \notin Closing /\ accounts'[work'[p].agent].qi >= work'[p].amount
    BY <2>1, <2>2 DEF Closing
  <2>5. QED
    BY <1>1, <1>3, <2>3, <2>4 DEF FundsInv
<1>8. ASSUME CommitFund(p) PROVE FundsInv'
  <2>1. PICK o \in Funding :
          /\ o = work[p] /\ Goes(p, Idle)
          /\ \/ UNCHANGED <<accounts, escrows>>
             \/ /\ escrows[o.job] = NoRow
                /\ accounts' = [accounts EXCEPT
                                  ![o.agent] = [accounts[o.agent] EXCEPT !.qi = @ - o.amount]]
                /\ escrows' = [escrows EXCEPT
                                 ![o.job] = [status |-> "reserved", agent |-> o.agent,
                                             amount |-> o.amount]]
    BY <1>8, CommitFundEffect
  <2>2. \A b \in Agents : FundsOf(b)'
    <3>1. CASE UNCHANGED <<accounts, escrows>>
      BY <1>2, <3>1 DEF FundsOf
    <3>2. CASE ~UNCHANGED <<accounts, escrows>>
      BY <1>2, <2>1, <3>2, FundsReserved
    <3>3. QED
      BY <3>1, <3>2
  <2>3. work'[p] \notin Funding \cup Closing
    BY <1>4, <2>1 DEF Goes, Idle, Funding, Closing
  <2>4. QED
    BY <1>1, <2>2, <2>3, OthersWait DEF FundsInv
<1>9. ASSUME NEW j \in AgentJobs, NEW s \in {"spent", "refunded"}, BeginClose(p, j, s)
      PROVE  FundsInv'
  <2>1. UNCHANGED <<accounts, escrows>>
    BY <1>9 DEF BeginClose, agentVars
  <2>2. work'[p] = [at |-> "close", job |-> j, row |-> escrows[j], status |-> s]
    BY <1>4, <1>9 DEF BeginClose, Begins
  <2>3. \A b \in Agents : FundsOf(b)'
    BY <1>2, <2>1 DEF FundsOf
  <2>4. work'[p] \notin Funding /\ escrows'[work'[p].job] = work'[p].row
    BY <2>1, <2>2 DEF Funding
  <2>5. QED
    BY <1>1, <1>3, <2>3, <2>4 DEF FundsInv
<1>10. ASSUME CommitClose(p) PROVE FundsInv'
  <2>1. PICK o \in Closing :
          /\ o = work[p] /\ Goes(p, Idle)
          /\ escrows' = IF escrows[o.job].status = "reserved"
                        THEN [escrows EXCEPT ![o.job] = [escrows[o.job] EXCEPT !.status = o.status]]
                        ELSE escrows
          /\ accounts' = [accounts EXCEPT
               ![o.row.agent] = IF o.status = "spent"
                                THEN [accounts[o.row.agent] EXCEPT !.spent = @ + o.row.amount]
                                ELSE [accounts[o.row.agent] EXCEPT !.qi = @ + o.row.amount]]
    BY <1>10, CommitCloseEffect
  <2>2. escrows[o.job] = o.row /\ o.row.status = "reserved"
    BY <1>2, <2>1 DEF Closing, Reserve
  <2>3. escrows' = [escrows EXCEPT ![o.job] = [escrows[o.job] EXCEPT !.status = o.status]]
    BY <2>1, <2>2
  <2>4. \A b \in Agents : FundsOf(b)'
    BY <1>2, <2>1, <2>2, <2>3, FundsReleased
  <2>5. work'[p] \notin Funding \cup Closing
    BY <1>4, <2>1 DEF Goes, Idle, Funding, Closing
  <2>6. QED
    BY <1>1, <2>4, <2>5, OthersWait DEF FundsInv
<1>11. ASSUME CommitCredit(p) PROVE FundsInv'
  <2>1. PICK o \in Crediting :
          /\ o = work[p] /\ Goes(p, Idle)
          /\ UNCHANGED accounts \/ CreditWritten(o.receipt)
    BY <1>11, CommitCreditEffect
  <2>2. UNCHANGED escrows
    BY <1>11 DEF CommitCredit
  <2>3. \A b \in Agents : FundsOf(b)'
    <3>1. CASE UNCHANGED accounts
      BY <1>2, <2>2, <3>1 DEF FundsOf
    <3>2. CASE CreditWritten(o.receipt)
      <4>1. PICK b \in Agents :
              accounts' = [accounts EXCEPT ![b] = [accounts[b] EXCEPT !.qi = @ + CreditOf,
                                                                     !.earned = @ + CreditOf]]
        BY <3>2 DEF CreditWritten
      <4>2. CreditOf \in Nat
        BY AgentAccountsAssumption
      <4>3. QED
        BY <1>2, <2>2, <4>1, <4>2, FundsGrow
    <3>3. QED
      BY <2>1, <3>1, <3>2
  <2>4. work'[p] \notin Funding \cup Closing
    BY <1>4, <2>1 DEF Goes, Idle, Funding, Closing
  <2>5. QED
    BY <1>1, <2>3, <2>4, OthersWait DEF FundsInv
<1>12. FundsInv'
  <2>1. \/ UNCHANGED <<accounts, escrows>> /\ work'[p].at \notin {"fund", "close"}
        \/ \E a \in Agents : RecordMiningIncome(p, a)
        \/ \E a \in Agents, j \in AgentJobs : BeginFund(p, a, j)
        \/ CommitFund(p)
        \/ \E j \in AgentJobs, s \in {"spent", "refunded"} : BeginClose(p, j, s)
        \/ CommitClose(p)
        \/ CommitCredit(p)
    BY AccountSteps
  <2>2. CASE UNCHANGED <<accounts, escrows>> /\ work'[p].at \notin {"fund", "close"}
    BY <1>5, <2>2
  <2>3. QED
    BY <1>6, <1>7, <1>8, <1>9, <1>10, <1>11, <2>1, <2>2
<1>13. QED
  BY <1>1, <1>12 DEF FundsInv

FundsAlways == FundsInv /\ Earned

LEMMA FundsAlwaysKept ==
  TypeOK /\ OneAtATime /\ FundsAlways /\ [Next]_vars => FundsAlways'
<1> SUFFICES ASSUME TypeOK, OneAtATime, FundsAlways, [Next]_vars PROVE FundsAlways'
  OBVIOUS
<1>1. ASSUME NEW p \in Procs, Step(p) PROVE FundsAlways'
  BY <1>1, FundsKept, EarnedKept DEF FundsAlways
<1>2. ASSUME NEW p \in Procs, Kill(p), UNCHANGED <<bookTables, poolVars, agentVars>>
      PROVE  FundsAlways'
  <2>1. /\ work'[p] = Idle /\ inTurn' = inTurn
        /\ \A q \in Procs \ {p} : work'[q] = work[q]
    BY <1>2 DEF Kill, TypeOK, TurnsTyped
  <2>2. UNCHANGED <<payouts, accounts, escrows>>
    BY <1>2 DEF bookTables, agentVars
  <2>3. Idle \notin Funding /\ Idle \notin Closing
    BY DEF Idle, Funding, Closing
  <2>4. FundsInv'
    BY <2>1, <2>2, <2>3 DEF FundsAlways, FundsInv, FundsOf
  <2>5. QED
    BY <2>2, <2>4 DEF FundsAlways, Earned
<1>3. CASE UNCHANGED vars
  BY <1>3 DEF vars, procVars, bookTables, agentVars, FundsAlways, FundsInv, FundsOf, Earned
<1>4. QED
  BY <1>1, <1>2, <1>3, NextIsStep

LEMMA FundsAtFirst == Init => FundsAlways
<1> SUFFICES ASSUME Init PROVE FundsAlways
  OBVIOUS
<1>1. /\ accounts = [a \in Agents |-> NewAccount] /\ escrows = [j \in AgentJobs |-> NoRow]
      /\ payouts = <<>> /\ \A q \in Procs : work[q] = Idle
  BY DEF Init, AgentInit, BookInit, ProcInit
<1>2. RowsIn(escrows) = {} /\ \A a : ReservedIn(escrows, a) = {}
        /\ EventsIn(payouts, EarnedBy(a)) = {}
  BY <1>1 DEF RowsIn, ReservedIn, EventsIn, NoRow
<1>3. \A a : HeldIn(escrows, a) = 0 /\ AmountsIn(payouts, EarnedBy(a)) = 0
  BY <1>2, SumEmpty DEF HeldIn, AmountsIn, AmountsOf
<1>4. \A a \in Agents : FundsOf(a)
  BY <1>1, <1>3 DEF FundsOf, NewAccount
<1>5. IsFiniteSet(RowsIn(escrows))
  BY <1>2, FS_EmptySet
<1>6. Idle \notin Funding /\ Idle \notin Closing
  BY DEF Idle, Funding, Closing
<1>7. Earned
  BY <1>1, <1>3 DEF Earned, NewAccount
<1>8. QED
  BY <1>1, <1>4, <1>5, <1>6, <1>7 DEF FundsAlways, FundsInv

(***************************************************************************)
(* Whatever is mined, credited, reserved, spent, refunded or killed, what  *)
(* an agent earned was paid to its worker; and while processes take turns  *)
(* it has what it mined and earned, less what it spent, in its balance or  *)
(* reserved, and never spends more than it has.  The argument: between the *)
(* read and the write of a reservation nobody takes from the balance, and  *)
(* between those of a close nobody changes the row.                        *)
(***************************************************************************)
THEOREM FundsConserved == Spec => []AgentFundsConserved
<1>1. TypeOK /\ FundsAlways => AgentFundsConserved
  <2> SUFFICES ASSUME TypeOK, FundsAlways, NEW a \in Agents
               PROVE  /\ accounts[a].earned =
                           Total(EventsWith(LAMBDA e : e.basis = "agent" /\ AgentFor(e.worker) = a))
                      /\ inTurn => /\ accounts[a].qi >= 0
                                   /\ accounts[a].qi + Held(a) + accounts[a].spent =
                                        accounts[a].mined + accounts[a].earned
    BY DEF AgentFundsConserved
  <2>1. Total({i \in DOMAIN payouts :
                 payouts[i].basis = "agent" /\ AgentFor(payouts[i].worker) = a}) =
          AmountsIn(payouts, EarnedBy(a))
    BY ClassesOfBook DEF TypeOK, TablesTyped, AmountsIn, AmountsOf, Total
  <2>2. accounts[a].earned =
          Total(EventsWith(LAMBDA e : e.basis = "agent" /\ AgentFor(e.worker) = a))
    BY <2>1 DEF FundsAlways, Earned, EventsWith
  <2>3. inTurn => FundsOf(a)
    BY DEF FundsAlways, FundsInv
  <2>4. QED
    BY <2>2, <2>3, HeldByTable DEF FundsOf
<1>2. QED
  BY <1>1, TurnsAlways, FundsAtFirst, FundsAlwaysKept, PTL DEF Spec

----
\* Summaries of epochs

(* The receipts that fail their hash, and what an epoch counts when these  *)
(* do: what was not paid for one of them.                                  *)
Failing == {r \in DOMAIN receipts : ~HashVerifies(r)}

Counted(F, e) == {v \in EventRow : v.epoch = e /\ (v.basis = "tokens" => v.source \notin F)}
CountedFor(F, e, w) == {v \in Counted(F, e) : v.worker = w}
CountedTokens(F, e) == {v \in Counted(F, e) : v.basis = "tokens"}

(* What the row of a finalized epoch says of a book of payouts.            *)
ReceiptsIn(F, book, e) == {book[i].source : i \in EventsIn(book, CountedTokens(F, e))}
SummaryOf(F, book, e) ==
  [status |-> "finalized", settled |-> AmountsIn(book, Counted(F, e)),
   verified |-> Cardinality(ReceiptsIn(F, book, e)),
   workers |-> [w \in Workers |-> AmountsIn(book, CountedFor(F, e, w))]]

(* The events that an epoch counts, by the queries of the code.            *)
LEMMA EventsOfEpoch ==
  ASSUME NEW book \in Seq(EventRow), NEW F, NEW e
  PROVE  /\ EventsIn(book, Counted(F, e)) =
              {i \in DOMAIN book : book[i].epoch = e
                                   /\ (book[i].basis = "tokens" => book[i].source \notin F)}
         /\ EventsIn(book, CountedTokens(F, e)) =
              {i \in DOMAIN book : book[i].epoch = e /\ book[i].basis = "tokens"
                                   /\ book[i].source \notin F}
         /\ \A w : EventsIn(book, CountedFor(F, e, w)) =
                     {i \in EventsIn(book, Counted(F, e)) : book[i].worker = w}
<1>1. \A i \in DOMAIN book : book[i] \in EventRow
  BY RowInTable
<1>2. QED
  BY <1>1 DEF EventsIn, Counted, CountedTokens, CountedFor

LEMMA ReceiptsOfEpoch ==
  ASSUME TypeOK, TokenPayoutsOnce, NEW e
  PROVE  ValidReceipts(e) = ReceiptsIn(Failing, payouts, e)
<1>1. payouts \in Seq(EventRow)
  BY DEF TypeOK, TablesTyped
<1> DEFINE T == {i \in DOMAIN payouts : payouts[i].epoch = e /\ payouts[i].basis = "tokens"}
<1>2. EventsIn(payouts, CountedTokens(Failing, e)) = {i \in T : payouts[i].source \notin Failing}
  BY <1>1, EventsOfEpoch
<1>3. \A i \in T : payouts[i].source \in DOMAIN receipts
  BY DEF TokenPayoutsOnce, TokenEvents
<1>4. ReceiptsOf(e) = {payouts[i].source : i \in T}
  BY DEF ReceiptsOf, EventsWith
<1>5. ReceiptsIn(Failing, payouts, e) =
        {payouts[i].source : i \in {k \in T : payouts[k].source \notin Failing}}
  BY <1>2 DEF ReceiptsIn
<1> HIDE DEF T
<1>6. \A i \in T : payouts[i].source \notin Failing <=> HashVerifies(payouts[i].source)
  BY <1>3 DEF Failing
<1>7. QED
  BY <1>4, <1>5, <1>6 DEF ValidReceipts

(* The sums that finalize_epoch takes when it takes them over the events   *)
(* that the epoch counts.                                                  *)
LEMMA TotalsOfEpoch ==
  ASSUME TypeOK, NEW F, NEW e, NEW S,
         S = {i \in DOMAIN payouts : payouts[i].epoch = e
                                     /\ (payouts[i].basis = "tokens" => payouts[i].source \notin F)}
  PROVE  /\ Total(S) = AmountsIn(payouts, Counted(F, e))
         /\ WorkerTotals(S) = [w \in Workers |-> AmountsIn(payouts, CountedFor(F, e, w))]
<1>1. payouts \in Seq(EventRow)
  BY DEF TypeOK, TablesTyped
<1>2. S = EventsIn(payouts, Counted(F, e))
  BY <1>1, EventsOfEpoch
<1>3. \A w : {i \in S : payouts[i].worker = w} = EventsIn(payouts, CountedFor(F, e, w))
  BY <1>1, <1>2, EventsOfEpoch
<1>4. \A T : Total(T) = AmountsOf(payouts, T)
  BY DEF Total, AmountsOf
<1>5. Total(S) = AmountsIn(payouts, Counted(F, e))
  BY <1>2, <1>4 DEF AmountsIn
<1>6. \A w : Total({i \in S : payouts[i].worker = w}) = AmountsIn(payouts, CountedFor(F, e, w))
  BY <1>3, <1>4 DEF AmountsIn
<1>7. QED
  BY <1>5, <1>6 DEF WorkerTotals

(* A payout in another epoch changes no summary of this one.               *)
LEMMA SummaryUnmoved ==
  ASSUME NEW book \in Seq(EventRow), NEW v \in EventRow, NEW F, NEW e, v.epoch # e
  PROVE  SummaryOf(F, Append(book, v), e) = SummaryOf(F, book, e)
<1> DEFINE after == Append(book, v)
<1>1. /\ v \notin Counted(F, e) /\ v \notin CountedTokens(F, e)
      /\ \A w : v \notin CountedFor(F, e, w)
  BY DEF Counted, CountedTokens, CountedFor
<1>2. \A W : v \notin W => AmountsIn(after, W) = AmountsIn(book, W)
  <2> SUFFICES ASSUME NEW W, v \notin W PROVE AmountsIn(after, W) = AmountsIn(book, W)
    OBVIOUS
  <2>1. AmountsIn(book, W) \in Int /\ AmountsIn(after, W) = AmountsIn(book, W) + 0
    BY AmountsGrow
  <2>2. QED
    BY <2>1
<1>3. /\ AmountsIn(after, Counted(F, e)) = AmountsIn(book, Counted(F, e))
      /\ \A w : AmountsIn(after, CountedFor(F, e, w)) = AmountsIn(book, CountedFor(F, e, w))
  BY <1>1, <1>2
<1>4. ReceiptsIn(F, after, e) = ReceiptsIn(F, book, e)
  <2>1. PICK n : /\ n \notin DOMAIN book /\ DOMAIN after = DOMAIN book \cup {n}
                 /\ after[n] = v /\ \A i \in DOMAIN book : after[i] = book[i]
    <3>1. /\ Len(book) \in Nat /\ DOMAIN book = 1..Len(book)
          /\ DOMAIN after = 1..(Len(book) + 1) /\ after[Len(book) + 1] = v
          /\ \A i \in 1..Len(book) : after[i] = book[i]
      BY AppendRow
    <3>2. Len(book) + 1 \notin 1..Len(book)
          /\ 1..(Len(book) + 1) = (1..Len(book)) \cup {Len(book) + 1}
      BY <3>1
    <3>3. QED
      BY <3>1, <3>2
  <2>2. EventsIn(after, CountedTokens(F, e)) = EventsIn(book, CountedTokens(F, e))
    BY <1>1, <2>1 DEF EventsIn
  <2>3. \A i \in EventsIn(book, CountedTokens(F, e)) : after[i] = book[i]
    BY <2>1 DEF EventsIn
  <2> HIDE DEF after
  <2>4. QED
    BY <2>2, <2>3 DEF ReceiptsIn
<1> HIDE DEF after
<1>5. QED
  BY <1>3, <1>4 DEF SummaryOf, after

(* Nor does a new receipt, which nothing is paid for yet.                  *)
LEMMA SummaryOfReceipts ==
  ASSUME NEW book \in Seq(EventRow), NEW F, NEW G,
         \A i \in DOMAIN book :
           book[i].basis = "tokens" => (book[i].source \in F <=> book[i].source \in G)
  PROVE  \A e : /\ SummaryOf(G, book, e) = SummaryOf(F, book, e)
                /\ ReceiptsIn(G, book, e) = ReceiptsIn(F, book, e)
<1> SUFFICES ASSUME NEW e
             PROVE  /\ SummaryOf(G, book, e) = SummaryOf(F, book, e)
                    /\ ReceiptsIn(G, book, e) = ReceiptsIn(F, book, e)
  OBVIOUS
<1> DEFINE Known(H, i) == book[i].epoch = e /\ (book[i].basis = "tokens" => book[i].source \notin H)
           Paid(H, i) == /\ book[i].epoch = e /\ book[i].basis = "tokens"
                         /\ book[i].source \notin H
<1>6. \A i \in DOMAIN book : (Known(G, i) <=> Known(F, i)) /\ (Paid(G, i) <=> Paid(F, i))
  OBVIOUS
<1>7. /\ EventsIn(book, Counted(G, e)) = {i \in DOMAIN book : Known(G, i)}
      /\ EventsIn(book, Counted(F, e)) = {i \in DOMAIN book : Known(F, i)}
      /\ EventsIn(book, CountedTokens(G, e)) = {i \in DOMAIN book : Paid(G, i)}
      /\ EventsIn(book, CountedTokens(F, e)) = {i \in DOMAIN book : Paid(F, i)}
  BY EventsOfEpoch
<1> HIDE DEF Known, Paid
<1>1. /\ EventsIn(book, Counted(G, e)) = EventsIn(book, Counted(F, e))
      /\ EventsIn(book, CountedTokens(G, e)) = EventsIn(book, CountedTokens(F, e))
  BY <1>6, <1>7
<1>2. \A w : EventsIn(book, CountedFor(G, e, w)) = EventsIn(book, CountedFor(F, e, w))
  <2>1. /\ \A w : EventsIn(book, CountedFor(G, e, w)) =
                     {i \in EventsIn(book, Counted(G, e)) : book[i].worker = w}
        /\ \A w : EventsIn(book, CountedFor(F, e, w)) =
                     {i \in EventsIn(book, Counted(F, e)) : book[i].worker = w}
    BY EventsOfEpoch
  <2>2. QED
    BY <1>1, <2>1
<1>3. ReceiptsIn(G, book, e) = ReceiptsIn(F, book, e)
  BY <1>1 DEF ReceiptsIn
<1>4. /\ AmountsIn(book, Counted(G, e)) = AmountsIn(book, Counted(F, e))
      /\ \A w : AmountsIn(book, CountedFor(G, e, w)) = AmountsIn(book, CountedFor(F, e, w))
  BY <1>1, <1>2 DEF AmountsIn
<1>5. QED
  BY <1>3, <1>4 DEF SummaryOf

LEMMA FailingStays ==
  ASSUME TypeOK, TokenPayoutsOnce, NEW p \in Procs, Step(p)
  PROVE  \A e : /\ SummaryOf(Failing', payouts, e) = SummaryOf(Failing, payouts, e)
                /\ ReceiptsIn(Failing', payouts, e) = ReceiptsIn(Failing, payouts, e)
<1>1. \A r \in DOMAIN receipts : r \in Failing' <=> r \in Failing
  BY ReceiptsStay DEF Failing, HashVerifies
<1>2. \A i \in DOMAIN payouts : payouts[i].basis = "tokens" =>
        (payouts[i].source \in Failing <=> payouts[i].source \in Failing')
  BY <1>1 DEF TokenPayoutsOnce, TokenEvents
<1>3. payouts \in Seq(EventRow)
  BY DEF TypeOK, TablesTyped
<1>4. PICK F, G : F = Failing /\ G = Failing'
  OBVIOUS
<1>5. QED
  BY <1>2, <1>3, <1>4, SummaryOfReceipts

(* Credits of agents belong to no epoch.                                   *)
CreditsUndated == \A i \in DOMAIN payouts : payouts[i].basis = "agent" => payouts[i].epoch = 0

(* What the code sums up of an epoch is what the epoch counts.             *)
LEMMA CountedEvents ==
  ASSUME TypeOK, CreditsUndated, TokenPayoutsOnce,
         NEW e \in DOMAIN epochs, NEW i \in DOMAIN payouts, payouts[i].epoch = e
  PROVE  /\ (payouts[i].basis = "pplns" \/ HashVerifies(payouts[i].source)) <=>
              (payouts[i].basis = "tokens" => payouts[i].source \notin Failing)
         /\ (payouts[i].basis = "pplns"
               \/ payouts[i].source \in ReceiptsIn(Failing, payouts, e)) <=>
              (payouts[i].basis = "tokens" => payouts[i].source \notin Failing)
<1>1. payouts[i].basis \in {"tokens", "pplns", "agent"}
  <2>1. payouts \in Seq(EventRow)
    BY DEF TypeOK, TablesTyped
  <2>2. payouts[i] \in EventRow
    BY <2>1, RowInTable
  <2>3. QED
    BY <2>2 DEF EventRow
<1>2. e # 0
  BY DEF TypeOK, TablesTyped
<1>3. payouts[i].basis \in {"tokens", "pplns"}
  BY <1>1, <1>2 DEF CreditsUndated
<1>4. CASE payouts[i].basis = "pplns"
  BY <1>4
<1>5. CASE payouts[i].basis = "tokens"
  <2>1. payouts[i].source \in DOMAIN receipts
    BY <1>5 DEF TokenPayoutsOnce, TokenEvents
  <2>2. payouts[i].source \in ReceiptsOf(e)
    BY <1>5 DEF ReceiptsOf, EventsWith
  <2>3. HashVerifies(payouts[i].source) <=> payouts[i].source \notin Failing
    BY <2>1 DEF Failing
  <2>4. payouts[i].source \in ReceiptsIn(Failing, payouts, e) <=> HashVerifies(payouts[i].source)
    BY <2>2, ReceiptsOfEpoch DEF ValidReceipts
  <2>5. QED
    BY <1>5, <2>3, <2>4
<1>6. QED
  BY <1>3, <1>4, <1>5

(* ReadTotals sums up the epoch whose receipts it has read.                *)
LEMMA TotalsRead ==
  ASSUME TypeOK, CreditsUndated, TokenPayoutsOnce, NEW p \in Procs, ReadTotals(p),
         work[p].epoch \in DOMAIN epochs,
         work[p].receipts = ReceiptsIn(Failing, payouts, work[p].epoch)
  PROVE  /\ work'[p].at = "totals" /\ work'[p].epoch = work[p].epoch
         /\ work'[p].summary = SummaryOf(Failing, payouts, work[p].epoch)
<1> DEFINE e == work[p].epoch
           S == EventsWith(LAMBDA v : v.epoch = work[p].epoch
                             /\ (v.basis = "pplns" \/ v.source \in work[p].receipts))
           y == [status |-> "finalized", settled |-> Total(S),
                 verified |-> Cardinality(work[p].receipts), workers |-> WorkerTotals(S)]
<1>1. Goes(p, [at |-> "totals", epoch |-> e, summary |-> y])
  BY DEF ReadTotals
<1>2. S = {i \in DOMAIN payouts :
             payouts[i].epoch = e
             /\ (payouts[i].basis = "tokens" => payouts[i].source \notin Failing)}
  <2>1. S = {i \in DOMAIN payouts :
               payouts[i].epoch = e
               /\ (payouts[i].basis = "pplns" \/ payouts[i].source \in work[p].receipts)}
    BY DEF EventsWith
  <2>2. \A i \in DOMAIN payouts : payouts[i].epoch = e =>
          ((payouts[i].basis = "pplns" \/ payouts[i].source \in work[p].receipts) <=>
             (payouts[i].basis = "tokens" => payouts[i].source \notin Failing))
    BY CountedEvents
  <2> HIDE DEF S, e
  <2>3. QED
    BY <2>1, <2>2
<1> HIDE DEF S
<1>3. /\ Total(S) = AmountsIn(payouts, Counted(Failing, e))
      /\ WorkerTotals(S) = [w \in Workers |-> AmountsIn(payouts, CountedFor(Failing, e, w))]
  BY <1>2, TotalsOfEpoch
<1>5. y = SummaryOf(Failing, payouts, e)
  BY <1>3 DEF SummaryOf
<1> HIDE DEF y
<1>6. work'[p] = [at |-> "totals", epoch |-> e, summary |-> y]
  BY <1>1 DEF Goes, TypeOK, TurnsTyped
<1>7. QED
  BY <1>5, <1>6

(* While processes take turns, a process that settles an epoch holds what  *)
(* the epoch comes to, and one that pays holds an epoch that is active.    *)
SummariesInv ==
  /\ CreditsUndated
  /\ inTurn =>
       /\ \A e \in DOMAIN epochs :
            epochs[e].status = "finalized" => epochs[e] = SummaryOf(Failing, payouts, e)
       /\ \A q \in Procs :
            /\ work[q].at = "pay" => work[q].epoch \in Active
            /\ work[q].at = "payouts" =>
                 /\ work[q].epoch \in DOMAIN epochs
                 /\ work[q].receipts = ReceiptsIn(Failing, payouts, work[q].epoch)
            /\ work[q].at \in {"totals", "finalize"} =>
                 /\ work[q].epoch \in DOMAIN epochs
                 /\ work[q].summary = SummaryOf(Failing, payouts, work[q].epoch)

(* What a step does to epochs and payouts.                                 *)
LEMMA EpochSteps ==
  ASSUME TypeOK, NEW p \in Procs, Step(p)
  PROVE  \/ /\ UNCHANGED <<payouts, epochs>>
            /\ work'[p].at \notin {"pay", "payouts", "totals", "finalize"}
         \/ ReadEpoch(p) \/ CreateEpoch(p) \/ Pay(p)
         \/ \E e \in DOMAIN epochs : ReadReceipts(p, e)
         \/ ReadTotals(p) \/ CheckFinalized(p) \/ FinalizeEpoch(p)
         \/ CommitCredit(p) /\ UNCHANGED epochs
<1>1. CASE AgentStep(p) /\ UNCHANGED poolVars
  <2>1. CASE CommitCredit(p)
    BY <1>1, <2>1 DEF poolVars
  <2>2. CASE ~CommitCredit(p)
    <3>1. UNCHANGED <<payouts, epochs>>
      BY <1>1, <2>2 DEF AgentStep, RecordMiningIncome, BeginFund, BeginClose, BeginCredit,
         CommitFund, CommitClose, bookTables, poolVars
    <3>2. work'[p].at \notin {"pay", "payouts", "totals", "finalize"}
      BY <1>1, WhereTo DEF AgentStep
    <3>3. QED
      BY <3>1, <3>2
  <2>3. QED
    BY <2>1, <2>2
<1>2. CASE PoolStep(p)
  <2>1. CASE \/ ReadEpoch(p) \/ CreateEpoch(p) \/ Pay(p)
             \/ \E e \in DOMAIN epochs : ReadReceipts(p, e)
             \/ ReadTotals(p) \/ CheckFinalized(p) \/ FinalizeEpoch(p)
    BY <2>1
  <2>2. CASE ~(\/ ReadEpoch(p) \/ CreateEpoch(p) \/ Pay(p)
               \/ \E e \in DOMAIN epochs : ReadReceipts(p, e)
               \/ ReadTotals(p) \/ CheckFinalized(p) \/ FinalizeEpoch(p))
    <3>1. UNCHANGED <<payouts, epochs>>
      BY <1>2, <2>2 DEF PoolStep, PickJob, FinishJob, CheckDuplicate, InsertReceipt, RecordPaid,
         InsertMiningReceipt, InsertShare, SelectShares, InsertRound, AssignShares, bookTables,
         poolVars
    <3>2. work'[p].at \notin {"pay", "payouts", "totals", "finalize"}
      BY <1>2, <2>2, WhereTo DEF PoolStep
    <3>3. QED
      BY <3>1, <3>2
  <2>3. QED
    BY <2>1, <2>2
<1>3. QED
  BY <1>1, <1>2 DEF Step

LEMMA CreditsUndatedKept ==
  ASSUME TypeOK, CreditsUndated, NEW p \in Procs, Step(p)
  PROVE  CreditsUndated'
<1>1. ASSUME NEW v \in EventRow, InsertPayoutEvent(v), v.basis = "agent" => v.epoch = 0
      PROVE  CreditsUndated'
  <2>1. PICK n : /\ DOMAIN payouts' = DOMAIN payouts \cup {n}
                 /\ payouts'[n] = v /\ \A i \in DOMAIN payouts : payouts'[i] = payouts[i]
    BY <1>1, Inserted
  <2>2. QED
    BY <1>1, <2>1 DEF CreditsUndated
<1>2. CASE UNCHANGED payouts
  BY <1>2 DEF CreditsUndated
<1>3. CASE Pay(p)
  <2>1. PICK c \in Paying, o \in Work : \E w \in DOMAIN c.due : PaidOut(p, c, o, w)
    BY <1>3, PayEffect
  <2>2. PICK v \in EventRow : InsertPayoutEvent(v) /\ v.basis = c.basis
    BY <2>1 DEF PaidOut, Event
  <2>3. v.basis # "agent"
    BY <2>2 DEF Paying
  <2>4. QED
    BY <1>1, <2>2, <2>3
<1>4. CASE \E r \in Nat : CreditWritten(r)
  <2>1. PICK v \in EventRow : InsertPayoutEvent(v) /\ v.epoch = 0
    BY <1>4 DEF CreditWritten, Event
  <2>2. QED
    BY <1>1, <2>1
<1>5. QED
  BY <1>2, <1>3, <1>4, PayoutSteps

(* A payout that is in no finalized epoch leaves their summaries true.     *)
LEMMA SummariesStay ==
  ASSUME TypeOK, NEW v \in EventRow, payouts' = Append(payouts, v), UNCHANGED epochs, NEW F,
         \A e \in DOMAIN epochs : epochs[e].status = "finalized" =>
           v.epoch # e /\ epochs[e] = SummaryOf(F, payouts, e)
  PROVE  \A e \in DOMAIN epochs' :
           epochs'[e].status = "finalized" => epochs'[e] = SummaryOf(F, payouts', e)
<1>1. payouts \in Seq(EventRow)
  BY DEF TypeOK, TablesTyped
<1>2. \A e : v.epoch # e => SummaryOf(F, payouts', e) = SummaryOf(F, payouts, e)
  BY <1>1, SummaryUnmoved
<1>3. QED
  BY <1>2

(* What a process that settles an epoch holds, of a step's outcome.        *)
HoldsEpoch(p) ==
  /\ work'[p].at = "pay" => work'[p].epoch \in Active'
  /\ work'[p].at = "payouts" =>
       /\ work'[p].epoch \in DOMAIN epochs'
       /\ work'[p].receipts = ReceiptsIn(Failing', payouts', work'[p].epoch)
  /\ work'[p].at \in {"totals", "finalize"} =>
       /\ work'[p].epoch \in DOMAIN epochs'
       /\ work'[p].summary = SummaryOf(Failing', payouts', work'[p].epoch)

LEMMA EpochReadEffect ==
  ASSUME TypeOK, NEW p \in Procs, ReadEpoch(p)
  PROVE  /\ UNCHANGED <<payouts, epochs>>
         /\ work'[p].at = "create" \/ (work'[p].at = "pay" /\ work'[p].epoch \in Active)
<1>1. UNCHANGED <<payouts, epochs>>
  BY DEF ReadEpoch, bookTables, poolVars
<1>2. PICK c \in Paying : c = work[p]
  BY WorkByAt DEF ReadEpoch, TypeOK, TurnsTyped
<1>3. CASE Active = {}
  <2>1. work'[p] = [c EXCEPT !.at = "create"]
    BY <1>2, <1>3 DEF ReadEpoch, Goes, TypeOK, TurnsTyped
  <2>2. QED
    BY <1>1, <2>1 DEF Paying
<1>4. CASE Active # {}
  <2>1. Active \subseteq Nat
    BY DEF Active, TypeOK, TablesTyped
  <2>2. Min(Active) \in Active
    BY <1>4, <2>1, MinIsIn
  <2>3. work'[p] = [c EXCEPT !.at = "pay", !.epoch = Min(Active)]
    BY <1>2, <1>4 DEF ReadEpoch, Goes, TypeOK, TurnsTyped
  <2>4. QED
    BY <1>1, <2>2, <2>3 DEF Paying
<1>5. QED
  BY <1>3, <1>4

LEMMA EpochCreateEffect ==
  ASSUME TypeOK, NEW p \in Procs, CreateEpoch(p)
  PROVE  /\ UNCHANGED payouts
         /\ work'[p].at = "pay" /\ work'[p].epoch \in Active'
         /\ \A e \in DOMAIN epochs' : epochs'[e].status = "finalized" =>
              e \in DOMAIN epochs /\ epochs'[e] = epochs[e]
<1>1. UNCHANGED payouts
  BY DEF CreateEpoch
<1>2. PICK c \in Paying : c = work[p]
  BY WorkByAt DEF CreateEpoch, TypeOK, TurnsTyped
<1>3. PICK row : row = [status |-> "active", settled |-> 0, verified |-> 0, workers |-> NoTotals]
  OBVIOUS
<1>4. epochs' = Append(epochs, row) /\ row.status = "active" /\ row \in EpochRow
  BY <1>3 DEF CreateEpoch, InsertEpoch, EpochRow, NoTotals
<1>5. work'[p] = [c EXCEPT !.at = "pay", !.epoch = Len(epochs) + 1]
  BY <1>2 DEF CreateEpoch, Goes, TypeOK, TurnsTyped
<1>6. work'[p].at = "pay" /\ work'[p].epoch = Len(epochs) + 1
  BY <1>5 DEF Paying
<1>7. epochs \in Seq(EpochRow)
  BY DEF TypeOK, TablesTyped
<1>8. /\ Len(epochs) \in Nat /\ DOMAIN epochs = 1..Len(epochs)
      /\ DOMAIN epochs' = 1..(Len(epochs) + 1) /\ epochs'[Len(epochs) + 1] = row
      /\ \A e \in 1..Len(epochs) : epochs'[e] = epochs[e]
  BY <1>4, <1>7, AppendRow
<1>9. work'[p].epoch \in Active'
  BY <1>4, <1>6, <1>8 DEF Active
<1>10. \A e \in 1..(Len(epochs) + 1) : e \in 1..Len(epochs) \/ e = Len(epochs) + 1
  BY <1>8
<1>11. QED
  BY <1>1, <1>4, <1>6, <1>8, <1>9, <1>10

LEMMA FinalizeEffect ==
  ASSUME TypeOK, NEW p \in Procs, FinalizeEpoch(p), work[p].epoch \in DOMAIN epochs
  PROVE  /\ UNCHANGED payouts /\ work'[p].at = "idle"
         /\ DOMAIN epochs' = DOMAIN epochs /\ epochs'[work[p].epoch] = work[p].summary
         /\ \A e \in DOMAIN epochs \ {work[p].epoch} : epochs'[e] = epochs[e]
<1>1. epochs \in Seq(EpochRow)
  BY DEF TypeOK, TablesTyped
<1>2. epochs' = [epochs EXCEPT ![work[p].epoch] = work[p].summary]
  BY DEF FinalizeEpoch
<1>3. UNCHANGED payouts /\ work'[p].at = "idle"
  BY WhereTo DEF FinalizeEpoch
<1>4. QED
  BY <1>1, <1>2, <1>3

LEMMA SummariesKept ==
  ASSUME TypeOK, OneAtATime, TokenPayoutsOnce, SummariesInv, NEW p \in Procs, Step(p)
  PROVE  SummariesInv'
<1>1. CreditsUndated' /\ inTurn' = inTurn
  BY CreditsUndatedKept, Moves DEF SummariesInv
<1> DEFINE Said == \A e \in DOMAIN epochs' :
                     epochs'[e].status = "finalized" =>
                       epochs'[e] = SummaryOf(Failing', payouts', e)
<1> SUFFICES ASSUME inTurn PROVE Said /\ HoldsEpoch(p)
  <2>1. inTurn => Said /\ HoldsEpoch(p)
    OBVIOUS
  <2>2. inTurn => \A q \in Procs \ {p} : work'[q].at = "idle"
    BY Alone DEF Idle
  <2> HIDE DEF Said
  <2>3. inTurn => \A q \in Procs :
          /\ work'[q].at = "pay" => work'[q].epoch \in Active'
          /\ work'[q].at = "payouts" =>
               /\ work'[q].epoch \in DOMAIN epochs'
               /\ work'[q].receipts = ReceiptsIn(Failing', payouts', work'[q].epoch)
          /\ work'[q].at \in {"totals", "finalize"} =>
               /\ work'[q].epoch \in DOMAIN epochs'
               /\ work'[q].summary = SummaryOf(Failing', payouts', work'[q].epoch)
    BY <2>1, <2>2 DEF HoldsEpoch
  <2>4. QED
    BY <1>1, <2>1, <2>3 DEF SummariesInv, Said
(* Receipts that the step adds are in no summary yet.                      *)
<1>13. \A e : /\ SummaryOf(Failing', payouts, e) = SummaryOf(Failing, payouts, e)
              /\ ReceiptsIn(Failing', payouts, e) = ReceiptsIn(Failing, payouts, e)
  BY FailingStays
<1>2. /\ CreditsUndated
      /\ \A e \in DOMAIN epochs :
           epochs[e].status = "finalized" => epochs[e] = SummaryOf(Failing', payouts, e)
      /\ work[p].at = "pay" => work[p].epoch \in Active
      /\ work[p].at = "payouts" =>
           /\ work[p].epoch \in DOMAIN epochs
           /\ work[p].receipts = ReceiptsIn(Failing, payouts, work[p].epoch)
           /\ work[p].receipts = ReceiptsIn(Failing', payouts, work[p].epoch)
      /\ work[p].at \in {"totals", "finalize"} =>
           /\ work[p].epoch \in DOMAIN epochs
           /\ work[p].summary = SummaryOf(Failing', payouts, work[p].epoch)
  BY <1>13 DEF SummariesInv
<1>3. ASSUME UNCHANGED <<payouts, epochs>>,
             work'[p].at \notin {"pay", "payouts", "totals", "finalize"}
      PROVE  Said /\ HoldsEpoch(p)
  BY <1>2, <1>3 DEF HoldsEpoch
<1>4. CASE ReadEpoch(p)
  <2>1. /\ UNCHANGED <<payouts, epochs>>
        /\ work'[p].at = "create" \/ (work'[p].at = "pay" /\ work'[p].epoch \in Active)
    BY <1>4, EpochReadEffect
  <2>2. QED
    BY <1>2, <2>1 DEF HoldsEpoch, Active
<1>5. CASE CreateEpoch(p)
  <2>1. /\ UNCHANGED payouts
        /\ work'[p].at = "pay" /\ work'[p].epoch \in Active'
        /\ \A e \in DOMAIN epochs' : epochs'[e].status = "finalized" =>
             e \in DOMAIN epochs /\ epochs'[e] = epochs[e]
    BY <1>5, EpochCreateEffect
  <2>2. QED
    BY <1>2, <2>1 DEF HoldsEpoch
<1>6. CASE Pay(p)
  <2>1. PICK c \in Paying, o \in Work : \E w \in DOMAIN c.due : PaidOut(p, c, o, w)
    BY <1>6, PayEffect
  <2>2. PICK v \in EventRow : payouts' = Append(payouts, v) /\ v.epoch = c.epoch
    BY <2>1 DEF PaidOut, Event, InsertPayoutEvent
  <2>3. c = work[p] /\ c.at = "pay"
    BY <2>1 DEF PaidOut
  <2>4. c.epoch \in DOMAIN epochs /\ epochs[c.epoch].status # "finalized"
    BY <1>2, <2>3 DEF Active
  <2>5. UNCHANGED epochs
    BY <1>6 DEF Pay, poolVars
  <2>6. Said
    BY <1>2, <2>2, <2>4, <2>5, SummariesStay
  <2>7. work'[p].at \in {"epoch", "record", "idle"}
    BY <1>6, WhereTo
  <2>8. QED
    BY <2>6, <2>7 DEF HoldsEpoch
<1>7. ASSUME NEW e \in DOMAIN epochs, ReadReceipts(p, e) PROVE Said /\ HoldsEpoch(p)
  <2>1. UNCHANGED <<payouts, epochs>>
    BY <1>7 DEF ReadReceipts, bookTables, poolVars
  <2>2. work'[p] = [at |-> "payouts", epoch |-> e, receipts |-> ValidReceipts(e)]
    BY <1>7 DEF ReadReceipts, Begins, TypeOK, TurnsTyped
  <2>3. ValidReceipts(e) = ReceiptsIn(Failing', payouts', e)
    BY <1>13, <2>1, ReceiptsOfEpoch
  <2>4. QED
    BY <1>2, <2>1, <2>2, <2>3 DEF HoldsEpoch
<1>8. CASE ReadTotals(p)
  <2>1. UNCHANGED <<payouts, epochs>>
    BY <1>8 DEF ReadTotals, bookTables, poolVars
  <2>2. work[p].at = "payouts"
    BY <1>8, WhereFrom
  <2>3. /\ work'[p].at = "totals" /\ work'[p].epoch = work[p].epoch
        /\ work'[p].summary = SummaryOf(Failing', payouts, work[p].epoch)
    BY <1>2, <1>13, <1>8, <2>2, TotalsRead
  <2>4. QED
    BY <1>2, <2>1, <2>2, <2>3 DEF HoldsEpoch
<1>9. CASE CheckFinalized(p)
  <2>1. UNCHANGED <<payouts, epochs>>
    BY <1>9 DEF CheckFinalized, bookTables, poolVars
  <2>2. PICK c \in Summing : c = work[p] /\ c.at = "totals"
    BY <1>9, WorkByAt DEF CheckFinalized, TypeOK, TurnsTyped
  <2>3. work'[p] = [c EXCEPT !.at = "finalize"] \/ work'[p] = Idle
    BY <1>9, <2>2 DEF CheckFinalized, Goes, TypeOK, TurnsTyped
  <2>4. \/ /\ work'[p].at = "finalize" /\ work'[p].epoch = c.epoch
           /\ work'[p].summary = c.summary
        \/ work'[p].at = "idle"
    BY <2>3 DEF Idle, Summing
  <2>5. QED
    BY <1>2, <2>1, <2>2, <2>4 DEF HoldsEpoch
<1>10. CASE FinalizeEpoch(p)
  <2>1. work[p].at = "finalize"
    BY <1>10, WhereFrom
  <2>2. /\ UNCHANGED payouts /\ work'[p].at = "idle"
        /\ DOMAIN epochs' = DOMAIN epochs /\ epochs'[work[p].epoch] = work[p].summary
        /\ \A e \in DOMAIN epochs \ {work[p].epoch} : epochs'[e] = epochs[e]
    BY <1>2, <1>10, <2>1, FinalizeEffect
  <2>3. QED
    BY <1>2, <2>1, <2>2 DEF HoldsEpoch
<1>11. CASE CommitCredit(p) /\ UNCHANGED epochs
  <2>1. Said
    <3>1. CASE UNCHANGED payouts
      BY <1>2, <1>11, <3>1
    <3>2. CASE \E r \in Nat : CreditWritten(r)
      <4>1. PICK v \in EventRow : payouts' = Append(payouts, v) /\ v.epoch = 0
        BY <3>2 DEF CreditWritten, Event, InsertPayoutEvent
      <4>2. \A e \in DOMAIN epochs : e # 0
        BY DEF TypeOK, TablesTyped
      <4>3. QED
        BY <1>2, <1>11, <4>1, <4>2, SummariesStay
    <3>3. QED
      BY <1>11, <3>1, <3>2, CommitCreditEffect DEF Crediting
  <2>2. work'[p].at = "idle"
    BY <1>11, WhereTo
  <2>3. QED
    BY <2>1, <2>2 DEF HoldsEpoch
<1> HIDE DEF Said
<1>12. QED
  BY <1>3, <1>4, <1>5, <1>6, <1>7, <1>8, <1>9, <1>10, <1>11, EpochSteps

LEMMA SummariesAlwaysKept ==
  TypeOK /\ OneAtATime /\ PaymentsOnce /\ SummariesInv /\ [Next]_vars => SummariesInv'
<1> SUFFICES ASSUME TypeOK, OneAtATime, PaymentsOnce, SummariesInv, [Next]_vars
             PROVE  SummariesInv'
  OBVIOUS
<1>4. TokenPayoutsOnce
  BY DEF PaymentsOnce, TokensOnce
<1>1. ASSUME NEW p \in Procs, Kill(p), UNCHANGED <<bookTables, poolVars, agentVars>>
      PROVE  SummariesInv'
  <2>1. /\ work'[p] = Idle /\ inTurn' = inTurn
        /\ \A q \in Procs \ {p} : work'[q] = work[q]
    BY <1>1 DEF Kill, TypeOK, TurnsTyped
  <2>2. UNCHANGED <<payouts, epochs>> /\ Failing' = Failing
    BY <1>1 DEF bookTables, poolVars, Failing, HashVerifies
  <2>3. QED
    BY <2>1, <2>2 DEF SummariesInv, CreditsUndated, Active, Idle
<1>2. CASE UNCHANGED vars
  <2>1. Failing' = Failing
    BY <1>2 DEF vars, bookTables, Failing, HashVerifies
  <2>2. QED
    BY <1>2, <2>1 DEF vars, procVars, bookTables, poolVars, SummariesInv, CreditsUndated, Active
<1>3. QED
  BY <1>1, <1>2, <1>4, SummariesKept, NextIsStep

(***************************************************************************)
(* While processes take turns, whatever is killed, the row of a finalized  *)
(* epoch says what it paid, over all and for each worker, without payouts  *)
(* of receipts that fail their hash, and how many receipts it paid that do *)
(* not, for good: between the reads of finalize_epoch and its update       *)
(* nobody pays, a process that pays has an epoch that is still active, and *)
(* a receipt is stored before anything is paid for it.                     *)
(***************************************************************************)
THEOREM FinalizedSummariesHold == Spec => []SummariesHold
<1>1. Init => SummariesInv
  BY DEF Init, ProcInit, BookInit, PoolInit, SummariesInv, CreditsUndated, Idle
<1>2. TypeOK /\ PaymentsOnce /\ SummariesInv => SummariesHold
  <2> SUFFICES ASSUME TypeOK, PaymentsOnce, SummariesInv, inTurn, NEW e \in DOMAIN epochs,
                      epochs[e].status = "finalized"
               PROVE  LET counted == EventsWith(LAMBDA v :
                            v.epoch = e /\ (v.basis = "pplns" \/ HashVerifies(v.source)))
                      IN  /\ epochs[e].settled = Total(counted)
                          /\ epochs[e].workers = WorkerTotals(counted)
                          /\ epochs[e].verified = Cardinality(ValidReceipts(e))
    BY DEF SummariesHold
  <2>1. epochs[e] = SummaryOf(Failing, payouts, e)
    BY DEF SummariesInv
  <2>2. TokenPayoutsOnce /\ CreditsUndated
    BY DEF PaymentsOnce, TokensOnce, SummariesInv
  <2> DEFINE S == EventsWith(LAMBDA v :
                    v.epoch = e /\ (v.basis = "pplns" \/ HashVerifies(v.source)))
  <2>3. S = {i \in DOMAIN payouts :
               payouts[i].epoch = e
               /\ (payouts[i].basis = "tokens" => payouts[i].source \notin Failing)}
    <3>1. S = {i \in DOMAIN payouts :
                 payouts[i].epoch = e
                 /\ (payouts[i].basis = "pplns" \/ HashVerifies(payouts[i].source))}
      BY DEF EventsWith
    <3>2. \A i \in DOMAIN payouts : payouts[i].epoch = e =>
            ((payouts[i].basis = "pplns" \/ HashVerifies(payouts[i].source)) <=>
               (payouts[i].basis = "tokens" => payouts[i].source \notin Failing))
      BY <2>2, CountedEvents
    <3> HIDE DEF S
    <3>3. QED
      BY <3>1, <3>2
  <2> HIDE DEF S
  <2>4. /\ Total(S) = AmountsIn(payouts, Counted(Failing, e))
        /\ WorkerTotals(S) = [w \in Workers |-> AmountsIn(payouts, CountedFor(Failing, e, w))]
    BY <2>3, TotalsOfEpoch
  <2>5. ValidReceipts(e) = ReceiptsIn(Failing, payouts, e)
    BY <2>2, ReceiptsOfEpoch
  <2>6. /\ epochs[e].settled = Total(S) /\ epochs[e].workers = WorkerTotals(S)
        /\ epochs[e].verified = Cardinality(ValidReceipts(e))
    BY <2>1, <2>4, <2>5 DEF SummaryOf
  <2>7. QED
    BY <2>6 DEF S
<1>3. QED
  BY <1>1, <1>2, TurnsAlways, PaymentsOnceAtFirst, PaymentsOnceKept, SummariesAlwaysKept, PTL
  DEF Spec

----
\* Rewards of rounds

(* RewardParts, of a table of shares.                                      *)
WeightIn(table, S) == SumFunctionOnSet([i \in DOMAIN table |-> table[i].weight], S)
WorkersIn(table, S) == {table[i].worker : i \in S}
PartsIn(table, S) ==
  [w \in WorkersIn(table, S) |->
     (2 * Reward * WeightIn(table, {i \in S : table[i].worker = w}) + WeightIn(table, S))
       \div (2 * WeightIn(table, S))]

InRound(table, r) == {i \in DOMAIN table : table[i].round = r}
DuesOf(table, r) == PartsIn(table, InRound(table, r))

PaidFor(book, r) == {k \in DOMAIN book : book[k].basis = "pplns" /\ book[k].source = r}
PaidWorkers(book, r) == {book[k].worker : k \in PaidFor(book, r)}

LEMMA PartsByTable ==
  ASSUME NEW S
  PROVE  RewardParts(S) = PartsIn(shares, S) /\ DOMAIN PartsIn(shares, S) = WorkersIn(shares, S)
<1>1. \A T : WeightOf(T) = WeightIn(shares, T)
  BY DEF WeightOf, WeightIn
<1>2. WorkersIn(shares, S) = {shares[i].worker : i \in S}
  BY DEF WorkersIn
<1>3. RewardParts(S) =
        [w \in {shares[i].worker : i \in S} |->
           (2 * Reward * WeightOf({i \in S : shares[i].worker = w}) + WeightOf(S))
             \div (2 * WeightOf(S))]
  BY DEF RewardParts
<1> HIDE DEF WeightOf
<1>4. RewardParts(S) = PartsIn(shares, S)
  BY <1>1, <1>2, <1>3 DEF PartsIn
<1>5. QED
  BY <1>4 DEF PartsIn

(* Only the workers and weights of its rows matter to a round.             *)
LEMMA PartsSame ==
  ASSUME NEW t, NEW u, NEW S \in SUBSET DOMAIN t, S \subseteq DOMAIN u, IsFiniteSet(S),
         \A i \in S : u[i].worker = t[i].worker /\ u[i].weight = t[i].weight
  PROVE  PartsIn(u, S) = PartsIn(t, S)
<1> DEFINE f == [i \in DOMAIN t |-> t[i].weight]
           g == [i \in DOMAIN u |-> u[i].weight]
<1>1. \A i \in S : g[i] = f[i]
  OBVIOUS
<1>2. \A T \in SUBSET S : WeightIn(u, T) = WeightIn(t, T)
  <2> SUFFICES ASSUME NEW T \in SUBSET S PROVE WeightIn(u, T) = WeightIn(t, T)
    OBVIOUS
  <2>1. WeightIn(u, T) = SumFunctionOnSet(g, T) /\ WeightIn(t, T) = SumFunctionOnSet(f, T)
    BY DEF WeightIn
  <2>2. IsFiniteSet(T)
    BY FS_Subset
  <2> HIDE DEF f, g
  <2>3. SumFunctionOnSet(g, T) = SumFunctionOnSet(f, T)
    BY <1>1, <2>2, SumSame
  <2>4. QED
    BY <2>1, <2>3
<1>3. WorkersIn(u, S) = WorkersIn(t, S)
  BY DEF WorkersIn
<1>4. \A w : {i \in S : u[i].worker = w} = {i \in S : t[i].worker = w}
  OBVIOUS
<1>5. \A w : WeightIn(u, {i \in S : u[i].worker = w}) = WeightIn(t, {i \in S : t[i].worker = w})
  BY <1>2, <1>4
<1>6. WeightIn(u, S) = WeightIn(t, S)
  BY <1>2
<1>7. QED
  BY <1>3, <1>5, <1>6 DEF PartsIn

LEMMA DuesStay ==
  ASSUME TypeOK, NEW u, NEW r, InRound(u, r) = InRound(shares, r),
         \A i \in DOMAIN shares : /\ i \in DOMAIN u /\ u[i].worker = shares[i].worker
                                  /\ u[i].weight = shares[i].weight
  PROVE  DuesOf(u, r) = DuesOf(shares, r)
<1> DEFINE S == InRound(shares, r)
<1>1. S \in SUBSET DOMAIN shares
  BY DEF InRound
<1>2. IsFiniteSet(S)
  BY <1>1, WeightsAreNat
<1> HIDE DEF S
<1>3. PartsIn(u, S) = PartsIn(shares, S)
  BY <1>1, <1>2, PartsSame
<1>4. QED
  BY <1>3 DEF DuesOf, S

(* A share of no round joins the table.                                    *)
LEMMA ShareJoins ==
  ASSUME TypeOK, NEW p \in Procs, InsertShare(p)
  PROVE  /\ \A i \in DOMAIN shares : i \in DOMAIN shares' /\ shares'[i] = shares[i]
         /\ \A r \in Nat \ {0} : /\ InRound(shares', r) = InRound(shares, r)
                                 /\ DuesOf(shares', r) = DuesOf(shares, r)
<1>1. PICK s : shares' = Append(shares, s) /\ s.round = 0
  BY DEF InsertShare
<1>2. shares \in Seq(ShareRow)
  BY DEF TypeOK, TablesTyped
<1>3. /\ Len(shares) \in Nat /\ DOMAIN shares = 1..Len(shares)
      /\ DOMAIN shares' = 1..(Len(shares) + 1) /\ shares'[Len(shares) + 1] = s
      /\ \A i \in 1..Len(shares) : shares'[i] = shares[i]
  BY <1>1, <1>2
<1>4. \A i \in DOMAIN shares' : i \in DOMAIN shares \/ shares'[i].round = 0
  BY <1>1, <1>3
<1>5. \A i \in DOMAIN shares : i \in DOMAIN shares' /\ shares'[i] = shares[i]
  BY <1>3
<1>6. \A r \in Nat \ {0} : InRound(shares', r) = InRound(shares, r)
  BY <1>4, <1>5 DEF InRound
<1>7. \A r \in Nat \ {0} : DuesOf(shares', r) = DuesOf(shares, r)
  BY <1>5, <1>6, DuesStay
<1>8. QED
  BY <1>5, <1>6, <1>7

(* The shares that were selected join the round, and what is due to their  *)
(* workers is what the round says from then on.                            *)
LEMMA SharesAssigned ==
  ASSUME TypeOK, NEW p \in Procs, AssignShares(p),
         \A i \in work[p].shares : shares[i].round = 0,
         work[p].round # 0, InRound(shares, work[p].round) = {}
  PROVE  /\ DOMAIN shares' = DOMAIN shares
         /\ \A i \in DOMAIN shares :
              shares'[i].round = shares[i].round \/ shares'[i].round = work[p].round
         /\ \A r \in Nat \ {0, work[p].round} : DuesOf(shares', r) = DuesOf(shares, r)
         /\ work'[p] = [at |-> "epoch", epoch |-> 0, basis |-> "pplns", source |-> work[p].round,
                        due |-> DuesOf(shares', work[p].round), job |-> NoId]
<1>1. PICK c \in Assigning : c = work[p]
  BY WorkByAt DEF AssignShares, TypeOK, TurnsTyped
<1>2. c.shares \in SUBSET DOMAIN shares /\ \A i \in c.shares : shares[i].round = 0
  BY <1>1 DEF TypeOK, RowsThere, AssignShares
<1>3. \A i \in DOMAIN shares : shares[i] \in ShareRow
  BY RowInTable DEF TypeOK, TablesTyped
<1>4. shares' = [i \in DOMAIN shares |-> IF i \in c.shares /\ shares[i].round = 0
                                        THEN [shares[i] EXCEPT !.round = c.round] ELSE shares[i]]
  BY <1>1 DEF AssignShares
<1>5. /\ DOMAIN shares' = DOMAIN shares
      /\ \A i \in DOMAIN shares :
           /\ shares'[i].worker = shares[i].worker /\ shares'[i].weight = shares[i].weight
           /\ i \in c.shares => shares'[i].round = c.round
           /\ i \notin c.shares => shares'[i].round = shares[i].round
  BY <1>2, <1>3, <1>4 DEF ShareRow
<1>6. InRound(shares', c.round) = c.shares
  BY <1>1, <1>2, <1>5 DEF InRound
<1>7. \A r \in Nat \ {0, c.round} : InRound(shares', r) = InRound(shares, r)
  BY <1>2, <1>5 DEF InRound
<1>8. \A r \in Nat \ {0, c.round} : DuesOf(shares', r) = DuesOf(shares, r)
  BY <1>5, <1>7, DuesStay
<1>9. DuesOf(shares', c.round) = RewardParts(c.shares)
  <2>1. PartsIn(shares', c.shares) = PartsIn(shares, c.shares)
    <3>1. IsFiniteSet(c.shares)
      BY <1>2, WeightsAreNat
    <3>2. QED
      BY <1>2, <1>5, <3>1, PartsSame
  <2>2. RewardParts(c.shares) = PartsIn(shares, c.shares)
    BY PartsByTable
  <2>3. QED
    BY <1>6, <2>1, <2>2 DEF DuesOf
<1>10. work'[p] = [at |-> "epoch", epoch |-> 0, basis |-> "pplns", source |-> c.round,
                   due |-> RewardParts(c.shares), job |-> NoId]
  BY <1>1 DEF AssignShares, Goes, TypeOK, TurnsTyped
<1>11. QED
  BY <1>1, <1>5, <1>8, <1>9, <1>10

(* What a process holds that has a reward to pay.                          *)
RewardPayments == {o \in Paying : o.basis = "pplns"}

(* A round's payouts are what is due, each worker once; all of them.       *)
Right(table, book, r) ==
  \A k \in PaidFor(book, r) :
    /\ book[k].worker \in DOMAIN DuesOf(table, r)
    /\ book[k].amount = DuesOf(table, r)[book[k].worker]
    /\ \A l \in PaidFor(book, r) : book[k].worker = book[l].worker => k = l
Complete(table, book, r) == PaidWorkers(book, r) = DOMAIN DuesOf(table, r)

(* While processes take turns: shares and payouts are of rounds that are   *)
(* there; a process that has selected shares holds shares of no round, its *)
(* own round is still empty, and one that pays holds what is due and not   *)
(* paid yet; a round that is not complete is in its hands.                 *)
RoundsRight ==
  /\ \A i \in DOMAIN shares : shares[i].round \in DOMAIN rounds \cup {0}
  /\ \A k \in DOMAIN payouts : payouts[k].basis = "pplns" => payouts[k].source \in DOMAIN rounds
  /\ \A r \in DOMAIN rounds : Right(shares, payouts, r)

RoundsInv ==
  inTurn =>
    /\ RoundsRight
    /\ \A q \in Procs :
         /\ work[q].at \in {"round", "assign"} => \A i \in work[q].shares : shares[i].round = 0
         /\ work[q].at = "assign" => /\ work[q].round \in DOMAIN rounds
                                    /\ InRound(shares, work[q].round) = {}
                                    /\ PaidFor(payouts, work[q].round) = {}
         /\ work[q] \in RewardPayments =>
              /\ work[q].source \in DOMAIN rounds
              /\ DOMAIN work[q].due =
                   DOMAIN DuesOf(shares, work[q].source) \ PaidWorkers(payouts, work[q].source)
              /\ \A w \in DOMAIN work[q].due :
                   work[q].due[w] = DuesOf(shares, work[q].source)[w]
    /\ crashes = 0 =>
         \A r \in DOMAIN rounds :
           \/ Complete(shares, payouts, r)
           \/ \E q \in Procs : \/ work[q].at = "assign" /\ work[q].round = r
                               \/ work[q] \in RewardPayments /\ work[q].source = r

(* The outcome of a step for the process whose step it is.                 *)
HoldsRound(p) ==
  /\ work'[p].at \in {"round", "assign"} => \A i \in work'[p].shares : shares'[i].round = 0
  /\ work'[p].at = "assign" => /\ work'[p].round \in DOMAIN rounds'
                              /\ InRound(shares', work'[p].round) = {}
                              /\ PaidFor(payouts', work'[p].round) = {}
  /\ work'[p] \in RewardPayments =>
       /\ work'[p].source \in DOMAIN rounds'
       /\ DOMAIN work'[p].due =
            DOMAIN DuesOf(shares', work'[p].source) \ PaidWorkers(payouts', work'[p].source)
       /\ \A w \in DOMAIN work'[p].due : work'[p].due[w] = DuesOf(shares', work'[p].source)[w]

Finishes(p) ==
  crashes' = 0 =>
    \A r \in DOMAIN rounds' :
      \/ Complete(shares', payouts', r)
      \/ work'[p].at = "assign" /\ work'[p].round = r
      \/ work'[p] \in RewardPayments /\ work'[p].source = r

(* Before a step, while processes take turns.                              *)
LEMMA RoundsBefore ==
  ASSUME TypeOK, OneAtATime, RoundsInv, inTurn, NEW p \in Procs, Step(p)
  PROVE  /\ RoundsRight
         /\ work[p].at \in {"round", "assign"} => \A i \in work[p].shares : shares[i].round = 0
         /\ work[p].at = "assign" => /\ work[p].round \in DOMAIN rounds
                                    /\ InRound(shares, work[p].round) = {}
                                    /\ PaidFor(payouts, work[p].round) = {}
         /\ work[p] \in RewardPayments =>
              /\ work[p].source \in DOMAIN rounds
              /\ DOMAIN work[p].due =
                   DOMAIN DuesOf(shares, work[p].source) \ PaidWorkers(payouts, work[p].source)
              /\ \A w \in DOMAIN work[p].due :
                   work[p].due[w] = DuesOf(shares, work[p].source)[w]
         /\ crashes' = 0 =>
              \A r \in DOMAIN rounds :
                \/ Complete(shares, payouts, r)
                \/ work[p].at = "assign" /\ work[p].round = r
                \/ work[p] \in RewardPayments /\ work[p].source = r
<1>1. \A q \in Procs \ {p} : work[q] = Idle
  BY Alone
<1>2. Idle \notin RewardPayments /\ Idle.at # "assign"
  BY DEF Idle, RewardPayments, Paying
<1>3. crashes' = crashes
  BY Moves
<1>4. ASSUME crashes' = 0, NEW r \in DOMAIN rounds
      PROVE  \/ Complete(shares, payouts, r)
             \/ work[p].at = "assign" /\ work[p].round = r
             \/ work[p] \in RewardPayments /\ work[p].source = r
  <2>1. \/ Complete(shares, payouts, r)
        \/ \E q \in Procs : \/ work[q].at = "assign" /\ work[q].round = r
                            \/ work[q] \in RewardPayments /\ work[q].source = r
    BY <1>3, <1>4 DEF RoundsInv
  <2>2. QED
    BY <1>1, <1>2, <2>1
<1>5. QED
  BY <1>4 DEF RoundsInv

LEMMA RoundsAfter ==
  ASSUME TypeOK, OneAtATime, NEW p \in Procs, Step(p),
         inTurn => RoundsRight' /\ HoldsRound(p) /\ Finishes(p)
  PROVE  RoundsInv'
<1>1. inTurn' = inTurn
  BY Moves
<1> SUFFICES ASSUME inTurn PROVE RoundsInv'
  BY <1>1 DEF RoundsInv
<1>2. \A q \in Procs \ {p} : work'[q] = Idle
  BY Alone
<1>3. Idle \notin RewardPayments /\ Idle.at \notin {"round", "assign"}
  BY DEF Idle, RewardPayments, Paying
<1>4. ASSUME NEW q \in Procs
      PROVE  /\ work'[q].at \in {"round", "assign"} =>
                  \A i \in work'[q].shares : shares'[i].round = 0
             /\ work'[q].at = "assign" => /\ work'[q].round \in DOMAIN rounds'
                                         /\ InRound(shares', work'[q].round) = {}
                                         /\ PaidFor(payouts', work'[q].round) = {}
             /\ work'[q] \in RewardPayments =>
                  /\ work'[q].source \in DOMAIN rounds'
                  /\ DOMAIN work'[q].due =
                       DOMAIN DuesOf(shares', work'[q].source)
                         \ PaidWorkers(payouts', work'[q].source)
                  /\ \A w \in DOMAIN work'[q].due :
                       work'[q].due[w] = DuesOf(shares', work'[q].source)[w]
  <2>1. CASE q = p
    BY <2>1 DEF HoldsRound
  <2>2. CASE q # p
    BY <1>2, <1>3, <2>2
  <2>3. QED
    BY <2>1, <2>2
<1>5. crashes' = 0 =>
        \A r \in DOMAIN rounds' :
          \/ Complete(shares', payouts', r)
          \/ \E q \in Procs : \/ work'[q].at = "assign" /\ work'[q].round = r
                              \/ work'[q] \in RewardPayments /\ work'[q].source = r
  BY DEF Finishes
<1>6. QED
  BY <1>4, <1>5 DEF RoundsInv

(* What a step does to rounds, shares and rewards.                         *)
LEMMA RoundSteps ==
  ASSUME TypeOK, NEW p \in Procs, Step(p)
  PROVE  \/ /\ UNCHANGED <<shares, rounds, payouts>>
            /\ work[p].at # "assign" /\ work[p] \notin RewardPayments
            /\ work'[p].at \notin {"round", "assign"} /\ work'[p] \notin RewardPayments
         \/ InsertShare(p) \/ (\E b \in Blocks : SelectShares(p, b))
         \/ InsertRound(p) \/ AssignShares(p) \/ ReadEpoch(p) \/ CreateEpoch(p) \/ Pay(p)
         \/ CommitCredit(p) /\ UNCHANGED <<shares, rounds>>
<1>1. \A o : o \in RewardPayments => o.at \in {"epoch", "create", "pay"}
  BY DEF RewardPayments, Paying
<1>2. CASE AgentStep(p) /\ UNCHANGED poolVars
  <2>1. CASE CommitCredit(p)
    BY <1>2, <2>1 DEF poolVars
  <2>2. CASE ~CommitCredit(p)
    <3>1. UNCHANGED <<shares, rounds, payouts>>
      BY <1>2, <2>2 DEF AgentStep, RecordMiningIncome, BeginFund, BeginClose, BeginCredit,
         CommitFund, CommitClose, bookTables, poolVars
    <3>2. /\ work'[p].at \notin {"round", "assign", "epoch", "create", "pay"}
          /\ work[p].at \notin {"assign", "epoch", "create", "pay"}
      BY <1>2, WhereTo, WhereFrom DEF AgentStep
    <3>3. QED
      BY <1>1, <3>1, <3>2
  <2>3. QED
    BY <2>1, <2>2
<1>3. CASE InsertReceipt(p)
  <2>1. UNCHANGED <<shares, rounds, payouts>>
    BY <1>3 DEF InsertReceipt, poolVars
  <2>2. work[p].at = "checked" /\ work'[p].at \in {"epoch", "idle"}
    BY <1>3, WhereTo, WhereFrom
  <2>3. work'[p] \notin RewardPayments
    <3>1. PICK o : work'[p] = o /\ (o = Idle \/ o.basis = "tokens")
      BY <1>3 DEF InsertReceipt, Goes, TypeOK, TurnsTyped
    <3>2. QED
      BY <3>1 DEF RewardPayments, Paying, Idle
  <2>4. QED
    BY <1>1, <2>1, <2>2, <2>3
<1>4. CASE PoolStep(p) /\ ~InsertReceipt(p)
  <2>1. CASE \/ InsertShare(p) \/ (\E b \in Blocks : SelectShares(p, b))
             \/ InsertRound(p) \/ AssignShares(p) \/ ReadEpoch(p) \/ CreateEpoch(p) \/ Pay(p)
    BY <2>1
  <2>2. CASE ~(\/ InsertShare(p) \/ (\E b \in Blocks : SelectShares(p, b))
               \/ InsertRound(p) \/ AssignShares(p) \/ ReadEpoch(p) \/ CreateEpoch(p) \/ Pay(p))
    <3>1. UNCHANGED <<shares, rounds, payouts>>
      BY <1>4, <2>2 DEF PoolStep, PickJob, FinishJob, CheckDuplicate, RecordPaid,
         InsertMiningReceipt, ReadReceipts, ReadTotals, CheckFinalized, FinalizeEpoch, bookTables,
         poolVars
    <3>2. work'[p].at \notin {"round", "assign", "epoch", "create", "pay"}
      BY <1>4, <2>2, WhereTo DEF PoolStep
    <3>3. work[p].at \notin {"assign", "epoch", "create", "pay"}
      BY <1>4, <2>2, WhereFrom DEF PoolStep
    <3>4. QED
      BY <1>1, <3>1, <3>2, <3>3
  <2>3. QED
    BY <2>1, <2>2
<1>5. QED
  BY <1>2, <1>3, <1>4 DEF Step

(* The payouts of the rounds after another payout.                         *)
PayoutJoins(v, n) ==
  /\ n \notin DOMAIN payouts /\ payouts'[n] = v
  /\ DOMAIN payouts' = DOMAIN payouts \cup {n}
  /\ \A i \in DOMAIN payouts : payouts'[i] = payouts[i]
  /\ v.basis = "pplns" =>
       /\ PaidFor(payouts', v.source) = PaidFor(payouts, v.source) \cup {n}
       /\ PaidWorkers(payouts', v.source) = PaidWorkers(payouts, v.source) \cup {v.worker}
  /\ \A r : v.basis # "pplns" \/ v.source # r =>
       /\ PaidFor(payouts', r) = PaidFor(payouts, r)
       /\ PaidWorkers(payouts', r) = PaidWorkers(payouts, r)

LEMMA PaidForAfter ==
  ASSUME TypeOK, NEW v \in EventRow, InsertPayoutEvent(v)
  PROVE  \E n : PayoutJoins(v, n)
<1>1. PICK n : /\ n \notin DOMAIN payouts /\ DOMAIN payouts' = DOMAIN payouts \cup {n}
               /\ payouts'[n] = v
               /\ \A i \in DOMAIN payouts : payouts'[i] = payouts[i]
  BY Inserted
<1>2. ASSUME NEW r, v.basis = "pplns" /\ v.source = r
      PROVE  /\ PaidFor(payouts', r) = PaidFor(payouts, r) \cup {n}
             /\ PaidWorkers(payouts', r) = PaidWorkers(payouts, r) \cup {v.worker}
  <2>1. PaidFor(payouts', r) = PaidFor(payouts, r) \cup {n}
    BY <1>1, <1>2 DEF PaidFor
  <2>2. \A k \in PaidFor(payouts, r) : payouts'[k] = payouts[k]
    BY <1>1 DEF PaidFor
  <2>3. QED
    BY <1>1, <2>1, <2>2 DEF PaidWorkers
<1>3. ASSUME NEW r, ~(v.basis = "pplns" /\ v.source = r)
      PROVE  /\ PaidFor(payouts', r) = PaidFor(payouts, r)
             /\ PaidWorkers(payouts', r) = PaidWorkers(payouts, r)
  <2>1. PaidFor(payouts', r) = PaidFor(payouts, r)
    BY <1>1, <1>3 DEF PaidFor
  <2>2. \A k \in PaidFor(payouts, r) : payouts'[k] = payouts[k]
    BY <1>1 DEF PaidFor
  <2>3. QED
    BY <2>1, <2>2 DEF PaidWorkers
<1>4. PayoutJoins(v, n)
  BY <1>1, <1>2, <1>3 DEF PayoutJoins
<1>5. QED
  BY <1>4

(* A payout that is no reward leaves the rounds right.                     *)
LEMMA RoundsUnpaid ==
  ASSUME TypeOK, RoundsRight, NEW v \in EventRow, InsertPayoutEvent(v), v.basis # "pplns",
         UNCHANGED <<shares, rounds>>
  PROVE  /\ RoundsRight'
         /\ \A r \in DOMAIN rounds :
              Complete(shares, payouts, r) => Complete(shares', payouts', r)
<1>1. PICK n : PayoutJoins(v, n)
  BY PaidForAfter
<1>2. \A r : /\ PaidFor(payouts', r) = PaidFor(payouts, r)
             /\ PaidWorkers(payouts', r) = PaidWorkers(payouts, r)
  BY <1>1 DEF PayoutJoins
<1>3. \A r : \A k \in PaidFor(payouts, r) : payouts'[k] = payouts[k]
  BY <1>1 DEF PaidFor, PayoutJoins
<1>4. \A r \in DOMAIN rounds : Right(shares', payouts', r)
  BY <1>2, <1>3 DEF RoundsRight, Right
<1>5. \A k \in DOMAIN payouts' :
        payouts'[k].basis = "pplns" => payouts'[k].source \in DOMAIN rounds
  BY <1>1 DEF RoundsRight, PayoutJoins
<1>6. QED
  BY <1>2, <1>4, <1>5 DEF RoundsRight, Complete

LEMMA StepsTyped ==
  ASSUME TypeOK, NEW p \in Procs, Step(p)
  PROVE  TypeOK'
  BY PoolStepTyped, AgentStepTyped DEF Step

LEMMA RoundsStay ==
  ASSUME TypeOK, RoundsRight, UNCHANGED <<shares, rounds, payouts>>
  PROVE  RoundsRight'
  BY DEF RoundsRight

(* A share joins no round.                                                 *)
LEMMA InsertShareRounds ==
  ASSUME TypeOK, OneAtATime, RoundsInv, inTurn, NEW p \in Procs, Step(p), InsertShare(p)
  PROVE  RoundsRight' /\ HoldsRound(p) /\ Finishes(p)
<1>1. /\ RoundsRight
      /\ crashes' = 0 =>
           \A r \in DOMAIN rounds :
             \/ Complete(shares, payouts, r)
             \/ work[p].at = "assign" /\ work[p].round = r
             \/ work[p] \in RewardPayments /\ work[p].source = r
  BY RoundsBefore
<1>2. /\ \A i \in DOMAIN shares : i \in DOMAIN shares' /\ shares'[i] = shares[i]
      /\ \A r \in Nat \ {0} : /\ InRound(shares', r) = InRound(shares, r)
                              /\ DuesOf(shares', r) = DuesOf(shares, r)
  BY ShareJoins
<1>3. UNCHANGED <<rounds, payouts>>
  BY DEF InsertShare
<1>4. \A r \in DOMAIN rounds : r \in Nat \ {0}
  BY DEF TypeOK, TablesTyped
<1>5. \A r \in DOMAIN rounds : DuesOf(shares', r) = DuesOf(shares, r)
  BY <1>2, <1>4
<1>6. \A i \in DOMAIN shares' : shares'[i].round \in DOMAIN rounds \cup {0}
  <2>1. PICK s : shares' = Append(shares, s) /\ s.round = 0
    BY DEF InsertShare
  <2>2. shares \in Seq(ShareRow)
    BY DEF TypeOK, TablesTyped
  <2>3. \A i \in DOMAIN shares' : i \in DOMAIN shares \/ shares'[i].round = 0
    BY <2>1, <2>2
  <2>4. QED
    BY <1>1, <1>2, <2>3 DEF RoundsRight
<1>7. RoundsRight'
  BY <1>1, <1>3, <1>5, <1>6 DEF RoundsRight, Right
<1>8. work[p].at = "sharing" /\ work'[p].at \in {"idle", "sharing"}
  BY WhereTo, WhereFrom
<1>9. \A o : o \in RewardPayments => o.at \notin {"idle", "sharing"}
  BY DEF RewardPayments, Paying
<1>10. HoldsRound(p)
  BY <1>8, <1>9 DEF HoldsRound
<1>11. Finishes(p)
  BY <1>1, <1>3, <1>5, <1>8, <1>9 DEF Finishes, Complete
<1>12. QED
  BY <1>7, <1>10, <1>11

LEMMA SelectSharesRounds ==
  ASSUME TypeOK, OneAtATime, RoundsInv, inTurn, NEW p \in Procs, Step(p),
         NEW b \in Blocks, SelectShares(p, b)
  PROVE  RoundsRight' /\ HoldsRound(p) /\ Finishes(p)
<1>1. /\ RoundsRight
      /\ crashes' = 0 =>
           \A r \in DOMAIN rounds :
             \/ Complete(shares, payouts, r)
             \/ work[p].at = "assign" /\ work[p].round = r
             \/ work[p] \in RewardPayments /\ work[p].source = r
  BY RoundsBefore
<1>2. UNCHANGED <<shares, rounds, payouts>>
  BY DEF SelectShares, bookTables, poolVars
<1>3. PICK S \in Windows : work'[p] = [at |-> "round", block |-> b, shares |-> S]
  BY DEF SelectShares, Begins, TypeOK, TurnsTyped
<1>4. \A i \in S : shares[i].round = 0
  BY <1>3 DEF Windows, LatestOf
<1>5. work[p].at = "idle"
  BY WhereFrom
<1>6. \A o : o \in RewardPayments => o.at \notin {"idle", "round"}
  BY DEF RewardPayments, Paying
<1>7. HoldsRound(p)
  BY <1>2, <1>3, <1>4, <1>6 DEF HoldsRound
<1>8. Finishes(p)
  BY <1>1, <1>2, <1>5, <1>6 DEF Finishes
<1>9. QED
  BY <1>1, <1>2, <1>7, <1>8, RoundsStay

(* A new round has no shares and no payouts.                               *)
LEMMA InsertRoundRounds ==
  ASSUME TypeOK, OneAtATime, RoundsInv, inTurn, NEW p \in Procs, Step(p), InsertRound(p)
  PROVE  RoundsRight' /\ HoldsRound(p) /\ Finishes(p)
<1>1. /\ RoundsRight
      /\ \A i \in work[p].shares : shares[i].round = 0
      /\ crashes' = 0 =>
           \A r \in DOMAIN rounds :
             \/ Complete(shares, payouts, r)
             \/ work[p].at = "assign" /\ work[p].round = r
             \/ work[p] \in RewardPayments /\ work[p].source = r
  BY RoundsBefore DEF InsertRound
<1>2. UNCHANGED <<shares, payouts>>
  BY DEF InsertRound
<1>3. work[p].at = "round"
  BY WhereFrom
<1>4. \A o : o \in RewardPayments => o.at \notin {"idle", "round", "assign"}
  BY DEF RewardPayments, Paying
<1>5. CASE UNCHANGED rounds /\ work'[p] = Idle
  <2>1. HoldsRound(p)
    BY <1>4, <1>5 DEF HoldsRound, Idle
  <2>2. Finishes(p)
    BY <1>1, <1>2, <1>3, <1>4, <1>5 DEF Finishes
  <2>3. QED
    BY <1>1, <1>2, <1>5, <2>1, <2>2, RoundsStay
<1>6. CASE /\ rounds' = Append(rounds, work[p].block)
           /\ work'[p] = [at |-> "assign", round |-> Len(rounds) + 1, shares |-> work[p].shares]
  <2> DEFINE n == Len(rounds) + 1
  <2>1. /\ n \in Nat \ {0} /\ n \notin DOMAIN rounds /\ DOMAIN rounds' = DOMAIN rounds \cup {n}
    <3>1. rounds \in Seq(Blocks)
      BY DEF TypeOK, TablesTyped
    <3>2. PICK m \in Nat : m = Len(rounds) /\ DOMAIN rounds = 1..m /\ DOMAIN rounds' = 1..(m + 1)
      BY <1>6, <3>1
    <3>3. m + 1 \notin 1..m /\ 1..(m + 1) = (1..m) \cup {m + 1}
      BY <3>2
    <3>4. QED
      BY <3>2, <3>3
  <2> HIDE DEF n
  <2>2. InRound(shares, n) = {} /\ PaidFor(payouts, n) = {}
    BY <1>1, <2>1 DEF RoundsRight, InRound, PaidFor
  <2>3. RoundsRight'
    <3>1. \A r \in DOMAIN rounds' : Right(shares', payouts', r)
      BY <1>1, <1>2, <2>1, <2>2 DEF RoundsRight, Right
    <3>2. QED
      BY <1>1, <1>2, <2>1, <3>1 DEF RoundsRight
  <2>4. /\ work'[p].at = "assign" /\ work'[p].round = n /\ work'[p].shares = work[p].shares
    BY <1>6 DEF n
  <2>5. HoldsRound(p)
    BY <1>1, <1>2, <1>4, <2>1, <2>2, <2>4 DEF HoldsRound
  <2>6. Finishes(p)
    BY <1>1, <1>2, <1>3, <1>4, <2>1, <2>4 DEF Finishes
  <2>7. QED
    BY <2>3, <2>5, <2>6
<1>7. QED
  BY <1>5, <1>6 DEF InsertRound, Goes, TypeOK, TurnsTyped

(* The shares that were selected become the round's, and are due.          *)
LEMMA AssignSharesRounds ==
  ASSUME TypeOK, OneAtATime, RoundsInv, inTurn, NEW p \in Procs, Step(p), AssignShares(p)
  PROVE  RoundsRight' /\ HoldsRound(p) /\ Finishes(p)
<1>1. /\ RoundsRight
      /\ \A i \in work[p].shares : shares[i].round = 0
      /\ work[p].round \in DOMAIN rounds /\ InRound(shares, work[p].round) = {}
      /\ PaidFor(payouts, work[p].round) = {}
      /\ crashes' = 0 =>
           \A r \in DOMAIN rounds :
             \/ Complete(shares, payouts, r)
             \/ work[p].at = "assign" /\ work[p].round = r
             \/ work[p] \in RewardPayments /\ work[p].source = r
  BY RoundsBefore DEF AssignShares
<1>2. UNCHANGED <<rounds, payouts>>
  BY DEF AssignShares
<1>3. \A r \in DOMAIN rounds : r \in Nat \ {0}
  BY DEF TypeOK, TablesTyped
<1> DEFINE n == work[p].round
<1>4. /\ DOMAIN shares' = DOMAIN shares
      /\ \A i \in DOMAIN shares : shares'[i].round = shares[i].round \/ shares'[i].round = n
      /\ \A r \in Nat \ {0, n} : DuesOf(shares', r) = DuesOf(shares, r)
      /\ work'[p] = [at |-> "epoch", epoch |-> 0, basis |-> "pplns", source |-> n,
                     due |-> DuesOf(shares', n), job |-> NoId]
  BY <1>1, <1>3, SharesAssigned
<1>5. PaidWorkers(payouts, n) = {}
  BY <1>1 DEF PaidWorkers
<1>6. work[p].at = "assign" /\ work[p] \notin RewardPayments
  BY WhereFrom DEF RewardPayments, Paying
<1> HIDE DEF n
<1>7. RoundsRight'
  <2>1. \A i \in DOMAIN shares' : shares'[i].round \in DOMAIN rounds' \cup {0}
    BY <1>1, <1>2, <1>4 DEF RoundsRight, n
  <2>2. ASSUME NEW r \in DOMAIN rounds PROVE Right(shares', payouts', r)
    <3>1. CASE r = n
      BY <1>1, <1>2, <3>1 DEF Right, n
    <3>2. CASE r # n
      <4>1. DuesOf(shares', r) = DuesOf(shares, r)
        BY <1>3, <1>4, <3>2
      <4>2. QED
        BY <1>1, <1>2, <4>1 DEF RoundsRight, Right
    <3>3. QED
      BY <3>1, <3>2
  <2>3. QED
    BY <1>1, <1>2, <2>1, <2>2 DEF RoundsRight
<1>8. /\ work'[p].at = "epoch" /\ work'[p].source = n /\ work'[p].due = DuesOf(shares', n)
      /\ work'[p].basis = "pplns"
  BY <1>4
<1>9. HoldsRound(p)
  BY <1>1, <1>2, <1>5, <1>8 DEF HoldsRound, n
<1>10. work'[p] \in RewardPayments
  <2>1. work'[p] \in Work
    BY StepsTyped DEF TypeOK, TurnsTyped
  <2>2. QED
    BY <1>8, <2>1, WorkByAt DEF RewardPayments
<1>11. Finishes(p)
  <2> SUFFICES ASSUME crashes' = 0, NEW r \in DOMAIN rounds
               PROVE  \/ Complete(shares', payouts', r)
                      \/ work'[p] \in RewardPayments /\ work'[p].source = r
    BY <1>2 DEF Finishes
  <2>1. CASE r = n
    BY <1>8, <1>10, <2>1
  <2>2. CASE r # n
    <3>1. DuesOf(shares', r) = DuesOf(shares, r)
      BY <1>3, <1>4, <2>2
    <3>2. Complete(shares, payouts, r)
      BY <1>1, <1>6, <2>2 DEF n
    <3>3. QED
      BY <1>2, <3>1, <3>2 DEF Complete
  <2>3. QED
    BY <2>1, <2>2
<1>12. QED
  BY <1>7, <1>9, <1>11

(* The epoch that is found changes nothing of what is due.                 *)
LEMMA EpochFoundRounds ==
  ASSUME TypeOK, OneAtATime, RoundsInv, inTurn, NEW p \in Procs, Step(p),
         ReadEpoch(p) \/ CreateEpoch(p)
  PROVE  RoundsRight' /\ HoldsRound(p) /\ Finishes(p)
<1>1. /\ RoundsRight
      /\ work[p] \in RewardPayments =>
           /\ work[p].source \in DOMAIN rounds
           /\ DOMAIN work[p].due =
                DOMAIN DuesOf(shares, work[p].source) \ PaidWorkers(payouts, work[p].source)
           /\ \A w \in DOMAIN work[p].due : work[p].due[w] = DuesOf(shares, work[p].source)[w]
      /\ crashes' = 0 =>
           \A r \in DOMAIN rounds :
             \/ Complete(shares, payouts, r)
             \/ work[p].at = "assign" /\ work[p].round = r
             \/ work[p] \in RewardPayments /\ work[p].source = r
  BY RoundsBefore
<1>2. SamePayment(p) /\ UNCHANGED bookTables
  BY EpochFound
<1>3. UNCHANGED <<shares, rounds, payouts>>
  BY <1>2 DEF ReadEpoch, CreateEpoch, bookTables, poolVars
<1>4. work[p].at \in {"epoch", "create"} /\ work'[p].at \in {"create", "pay"}
  BY WhereTo, WhereFrom
<1>5. work[p] \in RewardPayments <=> work'[p] \in RewardPayments
  <2>1. work[p] \in Work /\ work'[p] \in Work
    BY StepsTyped DEF TypeOK, TurnsTyped
  <2>2. work[p] \in Paying /\ work'[p] \in Paying
    BY <1>4, <2>1, WorkByAt
  <2>3. QED
    BY <1>2, <2>2 DEF SamePayment, RewardPayments
<1>6. HoldsRound(p)
  BY <1>1, <1>2, <1>3, <1>4, <1>5 DEF HoldsRound, SamePayment
<1>7. Finishes(p)
  BY <1>1, <1>2, <1>3, <1>4, <1>5 DEF Finishes, SamePayment
<1>8. QED
  BY <1>1, <1>3, <1>6, <1>7, RoundsStay

(* A worker is paid its part, and is due no more.                          *)
LEMMA PayRounds ==
  ASSUME TypeOK, OneAtATime, RoundsInv, inTurn, NEW p \in Procs, Step(p), Pay(p)
  PROVE  RoundsRight' /\ HoldsRound(p) /\ Finishes(p)
<1>1. /\ RoundsRight
      /\ work[p] \in RewardPayments =>
           /\ work[p].source \in DOMAIN rounds
           /\ DOMAIN work[p].due =
                DOMAIN DuesOf(shares, work[p].source) \ PaidWorkers(payouts, work[p].source)
           /\ \A w \in DOMAIN work[p].due : work[p].due[w] = DuesOf(shares, work[p].source)[w]
      /\ crashes' = 0 =>
           \A r \in DOMAIN rounds :
             \/ Complete(shares, payouts, r)
             \/ work[p].at = "assign" /\ work[p].round = r
             \/ work[p] \in RewardPayments /\ work[p].source = r
  BY RoundsBefore
<1>2. PICK c \in Paying, o \in Work : \E w \in DOMAIN c.due : PaidOut(p, c, o, w)
  BY PayEffect
<1>3. PICK w \in DOMAIN c.due : PaidOut(p, c, o, w)
  BY <1>2
<1>4. PICK v \in EventRow : /\ InsertPayoutEvent(v) /\ v.worker = w /\ v.basis = c.basis
                            /\ v.amount = c.due[w] /\ v.source = c.source
  BY <1>3 DEF PaidOut, Event
<1>5. UNCHANGED <<shares, rounds>>
  BY DEF Pay, poolVars
<1>6. c = work[p] /\ c.at = "pay" /\ work'[p] = o
  BY <1>3 DEF PaidOut, Goes, TypeOK, TurnsTyped
<1>7. /\ \/ /\ DOMAIN c.due \ {w} # {} /\ o.basis = c.basis /\ o.source = c.source
            /\ o.at = "epoch" /\ o \in Paying
            /\ o.due = Restrict(c.due, DOMAIN c.due \ {w})
         \/ DOMAIN c.due = {w} /\ o.at \in {"record", "idle"} /\ o \notin RewardPayments
  <2>1. CASE /\ DOMAIN c.due \ {w} # {} /\ o \in Paying
             /\ o = [c EXCEPT !.at = "epoch", !.due = Restrict(@, DOMAIN c.due \ {w})]
    BY <2>1 DEF Paying
  <2>2. CASE DOMAIN c.due = {w} /\ o = [at |-> "record", job |-> c.job]
    BY <2>2 DEF RewardPayments, Paying
  <2>3. CASE DOMAIN c.due = {w} /\ o = Idle
    BY <2>3 DEF RewardPayments, Paying, Idle
  <2>4. QED
    BY <1>3, <2>1, <2>2, <2>3 DEF PaidOut
<1>8. CASE c.basis = "tokens"
  <2>1. /\ RoundsRight'
        /\ \A r \in DOMAIN rounds :
             Complete(shares, payouts, r) => Complete(shares', payouts', r)
    BY <1>1, <1>4, <1>5, <1>8, RoundsUnpaid
  <2>2. work[p] \notin RewardPayments /\ work'[p] \notin RewardPayments
    BY <1>6, <1>7, <1>8 DEF RewardPayments
  <2>3. work[p].at # "assign" /\ work'[p].at \notin {"round", "assign"}
    BY <1>6, <1>7
  <2>4. HoldsRound(p)
    BY <2>2, <2>3 DEF HoldsRound
  <2>5. Finishes(p)
    BY <1>1, <1>5, <2>1, <2>2, <2>3 DEF Finishes
  <2>6. QED
    BY <2>1, <2>4, <2>5
<1>9. CASE c.basis = "pplns"
  <2>1. PICK n : PayoutJoins(v, n)
    BY <1>4, PaidForAfter
  <2> DEFINE s == c.source
             due == DuesOf(shares, s)
  <2>2. /\ s \in DOMAIN rounds /\ DOMAIN c.due = DOMAIN due \ PaidWorkers(payouts, s)
        /\ \A x \in DOMAIN c.due : c.due[x] = due[x]
    BY <1>1, <1>6, <1>9 DEF RewardPayments
  <2>3. /\ PaidFor(payouts', s) = PaidFor(payouts, s) \cup {n}
        /\ PaidWorkers(payouts', s) = PaidWorkers(payouts, s) \cup {w}
        /\ \A r : r # s => /\ PaidFor(payouts', r) = PaidFor(payouts, r)
                           /\ PaidWorkers(payouts', r) = PaidWorkers(payouts, r)
        /\ n \notin DOMAIN payouts /\ payouts'[n] = v
        /\ DOMAIN payouts' = DOMAIN payouts \cup {n}
        /\ \A k \in DOMAIN payouts : payouts'[k] = payouts[k]
    BY <1>4, <1>9, <2>1 DEF PayoutJoins
  <2>4. w \in DOMAIN due /\ w \notin PaidWorkers(payouts, s) /\ v.amount = due[w]
    BY <1>4, <2>2
  <2> HIDE DEF s, due
  <2>5. \A r : \A k \in PaidFor(payouts, r) : payouts'[k] = payouts[k] /\ k \in DOMAIN payouts
    BY <2>3 DEF PaidFor
  <2>6. \A k \in PaidFor(payouts, s) : payouts[k].worker # w
    BY <2>4 DEF PaidWorkers
  <2>7. RoundsRight'
    <3>1. ASSUME NEW r \in DOMAIN rounds, r # s PROVE Right(shares', payouts', r)
      BY <1>1, <1>5, <2>3, <2>5, <3>1 DEF RoundsRight, Right
    <3>2. Right(shares', payouts', s)
      <4>1. Right(shares, payouts, s)
        BY <1>1, <2>2 DEF RoundsRight
      <4>2. \A k \in PaidFor(payouts, s) :
              /\ payouts'[k].worker \in DOMAIN due /\ payouts'[k].amount = due[payouts'[k].worker]
              /\ payouts'[k].worker # w
              /\ \A l \in PaidFor(payouts, s) : payouts'[k].worker = payouts'[l].worker => k = l
        BY <2>5, <2>6, <4>1 DEF Right, due
      <4>3. payouts'[n].worker = w /\ payouts'[n].amount = due[w] /\ w \in DOMAIN due
        BY <1>4, <2>3, <2>4
      <4>4. DuesOf(shares', s) = due
        BY <1>5 DEF due
      <4>5. QED
        BY <2>3, <4>2, <4>3, <4>4 DEF Right
    <3>3. \A k \in DOMAIN payouts' :
            payouts'[k].basis = "pplns" => payouts'[k].source \in DOMAIN rounds'
      BY <1>1, <1>4, <1>5, <2>2, <2>3 DEF RoundsRight, s
    <3>4. QED
      BY <1>1, <1>5, <3>1, <3>2, <3>3 DEF RoundsRight
  <2>8. CASE DOMAIN c.due = {w}
    <3>1. work'[p].at \in {"record", "idle"} /\ work'[p] \notin RewardPayments
      BY <1>6, <1>7, <2>8
    <3>2. HoldsRound(p)
      BY <3>1 DEF HoldsRound
    <3>3. DOMAIN due = PaidWorkers(payouts', s)
      <4>1. PaidWorkers(payouts, s) \subseteq DOMAIN due
        BY <1>1, <2>2 DEF RoundsRight, Right, PaidWorkers, due
      <4>2. QED
        BY <2>2, <2>3, <2>8, <4>1
    <3>4. Finishes(p)
      <4> SUFFICES ASSUME crashes' = 0, NEW r \in DOMAIN rounds
                   PROVE  Complete(shares', payouts', r)
        BY <1>5 DEF Finishes
      <4>1. CASE r = s
        BY <1>5, <3>3, <4>1 DEF Complete, due
      <4>2. CASE r # s
        <5>1. Complete(shares, payouts, r)
          BY <1>1, <1>6, <4>2 DEF s
        <5>2. QED
          BY <1>5, <2>3, <4>2, <5>1 DEF Complete
      <4>3. QED
        BY <4>1, <4>2
    <3>5. QED
      BY <2>7, <3>2, <3>4
  <2>9. CASE DOMAIN c.due # {w}
    <3>1. /\ o.basis = "pplns" /\ o.source = s /\ o.at = "epoch" /\ o \in Paying
          /\ o.due = Restrict(c.due, DOMAIN c.due \ {w})
      BY <1>7, <1>9, <2>9 DEF s
    <3>2. /\ DOMAIN o.due = DOMAIN c.due \ {w}
          /\ \A x \in DOMAIN o.due : o.due[x] = c.due[x]
      BY <3>1 DEF Restrict
    <3>3. o \in RewardPayments
      BY <3>1 DEF RewardPayments
    <3>4. DOMAIN o.due = DOMAIN due \ PaidWorkers(payouts', s)
      BY <2>2, <2>3, <3>2
    <3>5. \A x \in DOMAIN o.due : o.due[x] = due[x]
      BY <2>2, <3>2
    <3>6. HoldsRound(p)
      BY <1>5, <1>6, <2>2, <3>1, <3>4, <3>5 DEF HoldsRound, due
    <3>7. Finishes(p)
      <4> SUFFICES ASSUME crashes' = 0, NEW r \in DOMAIN rounds, r # s
                   PROVE  Complete(shares', payouts', r)
        BY <1>5, <1>6, <3>1, <3>3 DEF Finishes
      <4>1. Complete(shares, payouts, r)
        BY <1>1, <1>6 DEF s
      <4>2. QED
        BY <1>5, <2>3, <4>1 DEF Complete
    <3>8. QED
      BY <2>7, <3>6, <3>7
  <2>10. QED
    BY <2>8, <2>9
<1>10. QED
  BY <1>8, <1>9 DEF Paying

(* A credit of an agent is no reward.                                      *)
LEMMA CommitCreditRounds ==
  ASSUME TypeOK, OneAtATime, RoundsInv, inTurn, NEW p \in Procs, Step(p), CommitCredit(p),
         UNCHANGED <<shares, rounds>>
  PROVE  RoundsRight' /\ HoldsRound(p) /\ Finishes(p)
<1>1. /\ RoundsRight
      /\ crashes' = 0 =>
           \A r \in DOMAIN rounds :
             \/ Complete(shares, payouts, r)
             \/ work[p].at = "assign" /\ work[p].round = r
             \/ work[p] \in RewardPayments /\ work[p].source = r
  BY RoundsBefore
<1>2. /\ RoundsRight'
      /\ \A r \in DOMAIN rounds : Complete(shares, payouts, r) => Complete(shares', payouts', r)
  <2>1. CASE UNCHANGED payouts
    BY <1>1, <2>1 DEF RoundsRight
  <2>2. CASE \E r \in Nat : CreditWritten(r)
    <3>1. PICK v \in EventRow : InsertPayoutEvent(v) /\ v.basis = "agent"
      BY <2>2 DEF CreditWritten, Event
    <3>2. QED
      BY <1>1, <3>1, RoundsUnpaid
  <2>3. QED
    BY <2>1, <2>2, CommitCreditEffect DEF Crediting
<1>3. work[p].at = "credit" /\ work'[p].at = "idle"
  BY WhereTo, WhereFrom
<1>4. \A o : o \in RewardPayments => o.at \notin {"idle", "credit"}
  BY DEF RewardPayments, Paying
<1>5. HoldsRound(p)
  BY <1>3, <1>4 DEF HoldsRound
<1>6. Finishes(p)
  BY <1>1, <1>2, <1>3, <1>4 DEF Finishes
<1>7. QED
  BY <1>2, <1>5, <1>6

LEMMA RoundsKept ==
  ASSUME TypeOK, OneAtATime, RoundsInv, NEW p \in Procs, Step(p)
  PROVE  RoundsInv'
<1>1. ASSUME inTurn PROVE RoundsRight' /\ HoldsRound(p) /\ Finishes(p)
  <2>1. ASSUME UNCHANGED <<shares, rounds, payouts>>,
               work[p].at # "assign", work[p] \notin RewardPayments,
               work'[p].at \notin {"round", "assign"}, work'[p] \notin RewardPayments
        PROVE  RoundsRight' /\ HoldsRound(p) /\ Finishes(p)
    <3>1. /\ RoundsRight
          /\ crashes' = 0 =>
               \A r \in DOMAIN rounds :
                 \/ Complete(shares, payouts, r)
                 \/ work[p].at = "assign" /\ work[p].round = r
                 \/ work[p] \in RewardPayments /\ work[p].source = r
      BY <1>1, RoundsBefore
    <3>2. HoldsRound(p)
      BY <2>1 DEF HoldsRound
    <3>3. Finishes(p)
      BY <2>1, <3>1 DEF Finishes
    <3>4. QED
      BY <2>1, <3>1, <3>2, <3>3, RoundsStay
  <2>2. CASE InsertShare(p)
    BY <1>1, <2>2, InsertShareRounds
  <2>3. CASE \E b \in Blocks : SelectShares(p, b)
    BY <1>1, <2>3, SelectSharesRounds
  <2>4. CASE InsertRound(p)
    BY <1>1, <2>4, InsertRoundRounds
  <2>5. CASE AssignShares(p)
    BY <1>1, <2>5, AssignSharesRounds
  <2>6. CASE ReadEpoch(p) \/ CreateEpoch(p)
    BY <1>1, <2>6, EpochFoundRounds
  <2>7. CASE Pay(p)
    BY <1>1, <2>7, PayRounds
  <2>8. CASE CommitCredit(p) /\ UNCHANGED <<shares, rounds>>
    BY <1>1, <2>8, CommitCreditRounds
  <2>9. QED
    BY <2>1, <2>2, <2>3, <2>4, <2>5, <2>6, <2>7, <2>8, RoundSteps
<1>2. QED
  BY <1>1, RoundsAfter

LEMMA RoundsAlwaysKept ==
  TypeOK /\ OneAtATime /\ RoundsInv /\ [Next]_vars => RoundsInv'
<1> SUFFICES ASSUME TypeOK, OneAtATime, RoundsInv, [Next]_vars PROVE RoundsInv'
  OBVIOUS
<1>1. ASSUME NEW p \in Procs, Kill(p), UNCHANGED <<bookTables, poolVars, agentVars>>
      PROVE  RoundsInv'
  <2>1. /\ work'[p] = Idle /\ inTurn' = inTurn /\ crashes' # 0
        /\ \A q \in Procs \ {p} : work'[q] = work[q]
    BY <1>1 DEF Kill, TypeOK, TurnsTyped
  <2>2. UNCHANGED <<shares, rounds, payouts>>
    BY <1>1 DEF bookTables, poolVars
  <2>3. Idle \notin RewardPayments /\ Idle.at \notin {"round", "assign"}
    BY DEF Idle, RewardPayments, Paying
  <2>4. QED
    BY <2>1, <2>2, <2>3 DEF RoundsInv, RoundsRight
<1>2. CASE UNCHANGED vars
  BY <1>2 DEF vars, procVars, bookTables, poolVars, RoundsInv, RoundsRight
<1>3. QED
  BY <1>1, <1>2, RoundsKept, NextIsStep

LEMMA RoundsAtFirst == Init => RoundsInv
<1> SUFFICES ASSUME Init PROVE RoundsInv
  OBVIOUS
<1>1. /\ shares = <<>> /\ rounds = <<>> /\ payouts = <<>> /\ \A q \in Procs : work[q] = Idle
  BY DEF Init, ProcInit, BookInit, PoolInit
<1>2. Idle \notin RewardPayments /\ Idle.at \notin {"round", "assign"}
  BY DEF Idle, RewardPayments, Paying
<1>3. QED
  BY <1>1, <1>2 DEF RoundsInv, RoundsRight

(***************************************************************************)
(* While processes take turns, whatever is killed, a block pays only       *)
(* workers with shares in its round, each once and its part of the reward; *)
(* and all of them when no process was killed and none is at work.  The    *)
(* argument: a process that distributes a reward holds what is due less    *)
(* what is paid, its shares join its round only, and the part of a worker  *)
(* depends on nothing else.                                                *)
(***************************************************************************)
THEOREM RoundsPayShares == Spec => []RoundsPayTheirShares
<1>1. TypeOK /\ RoundsInv => RoundsPayTheirShares
  <2> SUFFICES ASSUME TypeOK, RoundsInv, inTurn, NEW r \in DOMAIN rounds
               PROVE  LET in == {i \in DOMAIN shares : shares[i].round = r}
                          paid == EventsWith(LAMBDA e : e.basis = "pplns" /\ e.source = r)
                      IN  /\ \A k \in paid :
                               /\ payouts[k].worker \in DOMAIN RewardParts(in)
                               /\ payouts[k].amount = RewardParts(in)[payouts[k].worker]
                          /\ \A k, l \in paid : payouts[k].worker = payouts[l].worker => k = l
                          /\ crashes = 0 /\ Idling =>
                               {payouts[k].worker : k \in paid} = {shares[i].worker : i \in in}
    BY DEF RoundsPayTheirShares
  <2> DEFINE in == {i \in DOMAIN shares : shares[i].round = r}
             paid == EventsWith(LAMBDA e : e.basis = "pplns" /\ e.source = r)
  <2>1. in = InRound(shares, r) /\ paid = PaidFor(payouts, r)
    BY DEF InRound, PaidFor, EventsWith
  <2> HIDE DEF in, paid
  <2>2. /\ RewardParts(in) = DuesOf(shares, r)
        /\ DOMAIN DuesOf(shares, r) = {shares[i].worker : i \in in}
    BY <2>1, PartsByTable DEF DuesOf, WorkersIn
  <2>3. Right(shares, payouts, r)
    BY DEF RoundsInv, RoundsRight
  <2>4. crashes = 0 /\ Idling => Complete(shares, payouts, r)
    BY DEF RoundsInv, Idling, Idle, RewardPayments, Paying
  <2>5. {payouts[k].worker : k \in paid} = PaidWorkers(payouts, r)
    BY <2>1 DEF PaidWorkers
  <2>6. /\ \A k \in paid : /\ payouts[k].worker \in DOMAIN RewardParts(in)
                           /\ payouts[k].amount = RewardParts(in)[payouts[k].worker]
        /\ \A k, l \in paid : payouts[k].worker = payouts[l].worker => k = l
    BY <2>1, <2>2, <2>3 DEF Right
  <2>7. crashes = 0 /\ Idling =>
          {payouts[k].worker : k \in paid} = {shares[i].worker : i \in in}
    BY <2>2, <2>4, <2>5 DEF Complete
  <2>8. QED
    BY <2>6, <2>7 DEF in, paid
<1>2. QED
  BY <1>1, TurnsAlways, RoundsAtFirst, RoundsAlwaysKept, PTL DEF Spec

====
