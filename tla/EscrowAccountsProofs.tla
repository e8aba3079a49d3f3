---- MODULE EscrowAccountsProofs ----
(***************************************************************************)
(* Theorems about EscrowAccounts, for every set of customers, jobs and     *)
(* processes and every fee between 0 and 100 percent.                      *)
(***************************************************************************)
EXTENDS EscrowAccounts, SumLemmas

----
\* The fee

(* A settlement is never charged more than itself. *)
LEMMA FeeBounds ==
  ASSUME NEW s \in Nat
  PROVE  Fee(s) \in Nat /\ Fee(s) <= s /\ s - Fee(s) \in Nat
<1>1. FeePerMille \in Nat /\ FeePerMille <= 1000
  BY LedgerAssumption
<1>2. s * FeePerMille \in Nat /\ s * FeePerMille <= s * 1000
  BY <1>1
<1>3. Fee(s) \in Nat /\ Fee(s) <= s
  BY <1>2 DEF Fee
<1>4. QED
  BY <1>3

----
\* Types

(* The stage of a call tells which data it carries. *)
LEMMA CallByStage ==
  ASSUME NEW o \in Call
  PROVE  /\ o.stage = "escrow" => o \in EscrowCall
         /\ o.stage = "credit" => o \in CreditCall
         /\ o.stage \in {"settle", "settling"} => o \in SettleCall
         /\ o.stage = "settled" => o \in SettledCall
         /\ o.stage \in {"refund", "refunding", "marking"} => o \in RefundCall
         /\ o.stage = "refunded" => o \in RefundedCall
  BY DEF Call, Idle, EscrowCall, CreditCall, SettleCall, SettledCall, RefundCall,
         RefundedCall

(* An UPDATE of one row keeps the type of its table. *)
LEMMA BookType ==
  ASSUME NEW b \in AccountType,
         NEW x1 \in Int, NEW x2 \in Int, NEW x3 \in Int, NEW x4 \in Int
  PROVE  Book(b, x1, x2, x3, x4) \in AccountType
  BY DEF Book, AccountType

LEMMA RowUpdate ==
  ASSUME NEW row \in RowType,
         NEW s \in Nat, NEW f \in Nat, NEW y \in Nat, NEW r \in Nat,
         NEW st \in {"settled", "refunded", "disputed"}
  PROVE  /\ [row EXCEPT !.settled = s, !.fee = f, !.payout = y, !.refunded = r,
                        !.status = st] \in RowType
         /\ [row EXCEPT !.refunded = r, !.status = st] \in RowType
  BY DEF RowType

LEMMA TreasuryUpdate ==
  ASSUME NEW t \in TreasuryType, NEW x \in Nat, NEW y \in Nat, NEW z \in Nat
  PROVE  /\ [t EXCEPT !.fees = @ + x, !.payouts = @ + y, !.settled = @ + z] \in TreasuryType
         /\ [t EXCEPT !.refunds = @ + x, !.disputed = @ + y] \in TreasuryType
<1>1. ASSUME NEW f \in Nat, NEW y1 \in Nat, NEW v \in Nat
      PROVE  [t EXCEPT !.fees = f, !.payouts = y1, !.settled = v] \in TreasuryType
  BY DEF TreasuryType
<1>2. ASSUME NEW r \in Nat, NEW d \in Nat
      PROVE  [t EXCEPT !.refunds = r, !.disputed = d] \in TreasuryType
  BY DEF TreasuryType
<1>3. /\ t.fees + x \in Nat /\ t.payouts + y \in Nat /\ t.settled + z \in Nat
      /\ t.refunds + x \in Nat /\ t.disputed + y \in Nat
  BY DEF TreasuryType
<1>4. QED
  BY <1>1, <1>2, <1>3

LEMMA TotalUpdate ==
  ASSUME NEW S, NEW t \in [S -> Nat], NEW i \in S, NEW x \in Nat
  PROVE  [t EXCEPT ![i] = @ + x] \in [S -> Nat]
  OBVIOUS

(* No step leaves the types.                                               *)
LEMMA TypeStep == TypeOK /\ [Next]_vars => TypeOK'
<1> SUFFICES ASSUME TypeOK, [Next]_vars
             PROVE  TypeOK'
  OBVIOUS
<1>1. ASSUME NEW c \in Customers, NEW a \in Amounts, Deposit(c, a)
      PROVE  TypeOK'
  <2>1. a \in Nat
    BY LedgerAssumption
  <2>2. Book(account[c], a, 0, 0, 0) \in AccountType
    BY <2>1, BookType DEF TypeOK
  <2>3. account' \in [Customers -> AccountType] /\ deposited' \in [Customers -> Nat]
    BY <1>1, <2>1, <2>2 DEF Deposit, TypeOK
  <2>4. QED
    BY <1>1, <2>3 DEF Deposit, TypeOK
<1>2. ASSUME NEW p \in Procs, NEW j \in Jobs, NEW a \in Amounts, BeginEscrow(p, j, a)
      PROVE  TypeOK'
  <2>1. [stage |-> "escrow", job |-> j, amount |-> a] \in Call
    BY LedgerAssumption DEF Call, EscrowCall
  <2>2. QED
    BY <1>2, <2>1 DEF BeginEscrow, TypeOK
<1>3. ASSUME NEW p \in Procs, NEW j \in Jobs, NEW a \in Amounts, NEW w \in Workers,
             BeginSettle(p, j, w, a)
      PROVE  TypeOK'
  <2>1. a \in Nat /\ escrow[j] \in RowType
    BY LedgerAssumption DEF TypeOK
  <2>2. Lesser(a, escrow[j].amount) \in Nat
        /\ Lesser(a, escrow[j].amount) <= escrow[j].amount
    BY <2>1 DEF RowType, Lesser
  <2>3. [stage |-> "credit", job |-> j, worker |-> w, qi |-> a] \in Call
    BY <2>1 DEF Call, CreditCall
  <2>4. [stage |-> "settled", qi |-> escrow[j].settled, fee |-> escrow[j].fee,
         payout |-> escrow[j].payout] \in Call
    BY <2>1 DEF Call, SettledCall, RowType
  <2>5. [stage |-> "settle", job |-> j, worker |-> w, amount |-> escrow[j].amount,
         qi |-> Lesser(a, escrow[j].amount)] \in Call
    BY <2>1, <2>2 DEF Call, SettleCall, RowType
  <2>6. op' \in [Procs -> Call]
    BY <1>3, <2>3, <2>4, <2>5 DEF BeginSettle, TypeOK
  <2>7. QED
    BY <1>3, <2>6 DEF BeginSettle, TypeOK
<1>4. ASSUME NEW p \in Procs, NEW j \in Jobs, NEW d \in Disputes, BeginRefund(p, j, d)
      PROVE  TypeOK'
  <2>1. d \in BOOLEAN /\ escrow[j] \in RowType
    BY LedgerAssumption DEF TypeOK
  <2>2. [stage |-> "refunded", amount |-> escrow[j].refunded, disputed |-> d] \in Call
    BY <2>1 DEF Call, RefundedCall, RowType
  <2>3. [stage |-> "refund", job |-> j, amount |-> escrow[j].amount,
         disputed |-> d] \in Call
    BY <2>1 DEF Call, RefundCall, RowType
  <2>4. op' \in [Procs -> Call]
    BY <1>4, <2>2, <2>3 DEF BeginRefund, TypeOK
  <2>5. QED
    BY <1>4, <2>4 DEF BeginRefund, TypeOK
<1>5. ASSUME NEW p \in Procs, CommitEscrow(p)
      PROVE  TypeOK'
  <2>1. op[p] \in EscrowCall
    BY <1>5, CallByStage DEF CommitEscrow, TypeOK
  <2>2. op[p].job \in Jobs /\ op[p].amount \in Nat /\ Owner[op[p].job] \in Customers
    BY <2>1, LedgerAssumption DEF EscrowCall
  <2> DEFINE c == Owner[op[p].job]
  <2>7. Book(account[c], -op[p].amount, op[p].amount, 0, 0) \in AccountType
    BY <2>2, BookType DEF TypeOK
  <2>3. account' \in [Customers -> AccountType]
    BY <1>5, <2>2, <2>7 DEF CommitEscrow, TypeOK
  <2>4. escrow' \in [Jobs -> RowType]
    BY <1>5, <2>2 DEF CommitEscrow, TypeOK, RowType, NoRow
  <2>5. op' \in [Procs -> Call]
    BY <1>5 DEF CommitEscrow, TypeOK, Call
  <2>6. QED
    BY <1>5, <2>3, <2>4, <2>5 DEF CommitEscrow, TypeOK
<1>6. ASSUME NEW p \in Procs, CheckSettle(p)
      PROVE  TypeOK'
  <2>1. op[p] \in SettleCall
    BY <1>6, CallByStage DEF CheckSettle, TypeOK
  <2>2. [op[p] EXCEPT !.stage = "settling"] \in Call /\ Idle \in Call
    BY <2>1 DEF SettleCall, Call
  <2>3. QED
    BY <1>6, <2>2 DEF CheckSettle, TypeOK
<1>7. ASSUME NEW p \in Procs, CommitSettle(p)
      PROVE  TypeOK'
  <2>1. op[p] \in SettleCall
    BY <1>7, CallByStage DEF CommitSettle, TypeOK
  <2> DEFINE j == op[p].job
             w == op[p].worker
             a == op[p].amount
             s == op[p].qi
             f == Fee(s)
  <2>2. j \in Jobs /\ w \in Workers /\ a \in Nat /\ s \in Nat /\ s <= a
        /\ Owner[j] \in Customers
    BY <2>1, LedgerAssumption DEF SettleCall
  <2>3. f \in Nat /\ s - f \in Nat /\ a - s \in Nat
    BY <2>2, FeeBounds
  <2> HIDE DEF f
  <2>10. Book(account[Owner[j]], a - s, -a, s, a - s) \in AccountType
    BY <2>2, <2>3, BookType DEF TypeOK
  <2>4. account' \in [Customers -> AccountType]
    BY <1>7, <2>2, <2>10 DEF CommitSettle, TypeOK
  <2>12. escrow[j] \in RowType
    BY <2>2 DEF TypeOK
  <2>11. [escrow[j] EXCEPT !.settled = s, !.fee = f, !.payout = s - f,
                           !.refunded = a - s, !.status = "settled"] \in RowType
    BY <2>2, <2>3, <2>12, RowUpdate
  <2>5. escrow' \in [Jobs -> RowType]
    BY <1>7, <2>2, <2>11 DEF CommitSettle, TypeOK, f
  <2>6. payable' \in [Workers -> Nat] /\ paidOut' \in [Jobs -> Nat]
    BY <1>7, <2>2, <2>3, TotalUpdate DEF CommitSettle, TypeOK, f
  <2>7. [stage |-> "settled", qi |-> s, fee |-> f, payout |-> s - f] \in Call
    BY <2>2, <2>3 DEF Call, SettledCall
  <2>8. op' \in [Procs -> Call]
    BY <1>7, <2>7 DEF CommitSettle, TypeOK, f
  <2>9. QED
    BY <1>7, <2>4, <2>5, <2>6, <2>8 DEF CommitSettle, TypeOK
<1>8. ASSUME NEW p \in Procs, CreditUnescrowed(p)
      PROVE  TypeOK'
  <2>1. op[p] \in CreditCall
    BY <1>8, CallByStage DEF CreditUnescrowed, TypeOK
  <2>2. op[p].job \in Jobs /\ op[p].worker \in Workers /\ op[p].qi \in Nat
    BY <2>1 DEF CreditCall
  <2>3. payable' \in [Workers -> Nat] /\ unbacked' \in [Jobs -> Nat]
    BY <1>8, <2>2, TotalUpdate DEF CreditUnescrowed, TypeOK
  <2>4. op' \in [Procs -> Call]
    BY <1>8, <2>2 DEF CreditUnescrowed, TypeOK, Call, SettledCall
  <2>5. QED
    BY <1>8, <2>3, <2>4 DEF CreditUnescrowed, TypeOK
<1>9. ASSUME NEW p \in Procs, RecordSettlement(p)
      PROVE  TypeOK'
  <2>1. op[p] \in SettledCall
    BY <1>9, CallByStage DEF RecordSettlement, TypeOK
  <2>2. op[p].fee \in Nat /\ op[p].payout \in Nat /\ op[p].qi \in Nat
    BY <2>1 DEF SettledCall
  <2>3. PICK x \in Nat, y \in Nat, z \in Nat :
          treasury' = [treasury EXCEPT !.fees = @ + x, !.payouts = @ + y, !.settled = @ + z]
    BY <1>9, <2>2 DEF RecordSettlement
  <2>4. treasury' \in TreasuryType
    BY <2>3, TreasuryUpdate DEF TypeOK
  <2>5. QED
    BY <1>9, <2>4 DEF RecordSettlement, TypeOK, Call
<1>10. ASSUME NEW p \in Procs, CheckRefund(p)
       PROVE  TypeOK'
  <2>1. op[p] \in RefundCall
    BY <1>10, CallByStage DEF CheckRefund, TypeOK
  <2>2. [op[p] EXCEPT !.stage = "refunding"] \in Call /\ Idle \in Call
    BY <2>1 DEF RefundCall, Call
  <2>3. QED
    BY <1>10, <2>2 DEF CheckRefund, TypeOK
<1>11. ASSUME NEW p \in Procs, CommitFunds(p)
       PROVE  TypeOK'
  <2>1. op[p] \in RefundCall
    BY <1>11, CallByStage DEF CommitFunds, TypeOK
  <2>2. op[p].amount \in Nat /\ Owner[op[p].job] \in Customers
    BY <2>1, LedgerAssumption DEF RefundCall
  <2> DEFINE c == Owner[op[p].job]
             a == op[p].amount
  <2>7. Book(account[c], a, -a, 0, a) \in AccountType
    BY <2>2, BookType DEF TypeOK
  <2>3. account' \in [Customers -> AccountType]
    BY <1>11, <2>2, <2>7 DEF CommitFunds, TypeOK
  <2>4. [op[p] EXCEPT !.stage = "marking"] \in Call
    BY <2>1 DEF RefundCall, Call
  <2>5. op' \in [Procs -> Call]
    BY <1>11, <2>4 DEF CommitFunds, TypeOK
  <2>6. QED
    BY <1>11, <2>3, <2>5 DEF CommitFunds, TypeOK
<1>12. ASSUME NEW p \in Procs, MarkRefund(p)
       PROVE  TypeOK'
  <2>1. op[p] \in RefundCall
    BY <1>12, CallByStage DEF MarkRefund, TypeOK
  <2>2. op[p].job \in Jobs /\ op[p].amount \in Nat /\ op[p].disputed \in BOOLEAN
    BY <2>1 DEF RefundCall
  <2> DEFINE st == IF op[p].disputed THEN "disputed" ELSE "refunded"
  <2>6. st \in {"settled", "refunded", "disputed"} /\ escrow[op[p].job] \in RowType
    BY <2>2 DEF TypeOK
  <2> HIDE DEF st
  <2>7. [escrow[op[p].job] EXCEPT !.refunded = op[p].amount, !.status = st] \in RowType
    BY <2>2, <2>6, RowUpdate
  <2>3. escrow' \in [Jobs -> RowType]
    BY <1>12, <2>2, <2>7 DEF MarkRefund, TypeOK, st
  <2>4. op' \in [Procs -> Call]
    BY <1>12, <2>2 DEF MarkRefund, TypeOK, Call, RefundedCall
  <2>5. QED
    BY <1>12, <2>3, <2>4 DEF MarkRefund, TypeOK
<1>13. ASSUME NEW p \in Procs, RecordRefund(p)
       PROVE  TypeOK'
  <2>1. op[p] \in RefundedCall
    BY <1>13, CallByStage DEF RecordRefund, TypeOK
  <2>2. op[p].amount \in Nat /\ (IF op[p].disputed THEN op[p].amount ELSE 0) \in Nat
    BY <2>1 DEF RefundedCall
  <2>3. PICK x \in Nat, y \in Nat :
          treasury' = [treasury EXCEPT !.refunds = @ + x, !.disputed = @ + y]
    BY <1>13, <2>2 DEF RecordRefund
  <2>4. treasury' \in TreasuryType
    BY <2>3, TreasuryUpdate DEF TypeOK
  <2>5. QED
    BY <1>13, <2>4 DEF RecordRefund, TypeOK, Call
<1>14. ASSUME NEW p \in Procs, Crash(p)
       PROVE  TypeOK'
  BY <1>14 DEF Crash, TypeOK, Call
<1>15. CASE UNCHANGED vars
  BY <1>15 DEF vars, TypeOK
<1>16. QED
  BY <1>1, <1>2, <1>3, <1>4, <1>5, <1>6, <1>7, <1>8, <1>9, <1>10, <1>11, <1>12,
     <1>13, <1>14, <1>15 DEF Next, Begin, Step

(* Every reachable state is well typed: no settlement, fee, payout or      *)
(* refund figure and no treasury total is negative, whatever the processes *)
(* do and wherever they stop.                                              *)
THEOREM TypeCorrect == Spec => []TypeOK
<1>1. Init => TypeOK
  BY LedgerAssumption DEF Init, TypeOK, TreasuryType, AccountType, RowType, NoRow, Call
<1>2. QED
  BY <1>1, TypeStep, PTL DEF Spec

----
\* Conservation of the customers' funds

(* An UPDATE whose changes cancel out loses nothing of a customer's funds. *)
LEMMA BookKeepsFunds ==
  ASSUME TypeOK, CustomerFundsConserved, NEW c \in Customers,
         NEW x \in Int, NEW y \in Int, NEW z \in Int, NEW r \in Int, x + y + z = 0,
         account' = [account EXCEPT ![c] = Book(@, x, y, z, r)],
         UNCHANGED deposited
  PROVE  CustomerFundsConserved'
<1>1. account[c] \in AccountType /\ deposited[c] \in Nat
      /\ account[c].available + account[c].escrowed + account[c].spent = deposited[c]
  BY DEF TypeOK, CustomerFundsConserved
<1>2. account'[c] = Book(account[c], x, y, z, r)
  BY DEF TypeOK
<1>3. account'[c].available + account'[c].escrowed + account'[c].spent = deposited[c]
  BY <1>1, <1>2 DEF Book, AccountType
<1>4. \A d \in Customers \ {c} : account'[d] = account[d]
  BY DEF TypeOK
<1>5. QED
  BY <1>3, <1>4 DEF CustomerFundsConserved

(* No step loses a unit of a customer.                                     *)
LEMMA FundsStep == TypeOK /\ CustomerFundsConserved /\ [Next]_vars => CustomerFundsConserved'
<1> SUFFICES ASSUME TypeOK, CustomerFundsConserved, [Next]_vars
             PROVE  CustomerFundsConserved'
  OBVIOUS
<1>1. ASSUME NEW c \in Customers, NEW a \in Amounts, Deposit(c, a)
      PROVE  CustomerFundsConserved'
  <2>1. a \in Nat /\ account[c] \in AccountType /\ deposited[c] \in Nat
    BY LedgerAssumption DEF TypeOK
  <2>2. account'[c] = Book(account[c], a, 0, 0, 0) /\ deposited'[c] = deposited[c] + a
    BY <1>1 DEF Deposit, TypeOK
  <2>3. account'[c].available + account'[c].escrowed + account'[c].spent = deposited'[c]
    BY <2>1, <2>2 DEF Book, AccountType, CustomerFundsConserved
  <2>4. \A d \in Customers \ {c} : account'[d] = account[d] /\ deposited'[d] = deposited[d]
    BY <1>1 DEF Deposit, TypeOK
  <2>5. QED
    BY <2>3, <2>4 DEF CustomerFundsConserved
<1>2. ASSUME NEW p \in Procs, CommitEscrow(p)
      PROVE  CustomerFundsConserved'
  <2>1. op[p].job \in Jobs /\ op[p].amount \in Nat
    BY <1>2, CallByStage DEF CommitEscrow, TypeOK, EscrowCall
  <2> DEFINE c == Owner[op[p].job]
             a == op[p].amount
             m == -a
  <2>2. c \in Customers /\ a \in Int /\ m \in Int /\ 0 \in Int /\ m + a + 0 = 0
    BY <2>1, LedgerAssumption
  <2>3. account' = [account EXCEPT ![c] = Book(@, m, a, 0, 0)] /\ UNCHANGED deposited
    BY <1>2 DEF CommitEscrow
  <2> HIDE DEF c, a, m
  <2>4. QED
    BY <2>2, <2>3, BookKeepsFunds
<1>3. ASSUME NEW p \in Procs, CommitSettle(p)
      PROVE  CustomerFundsConserved'
  <2>1. op[p].job \in Jobs /\ op[p].amount \in Nat /\ op[p].qi \in Nat
    BY <1>3, CallByStage DEF CommitSettle, TypeOK, SettleCall
  <2> DEFINE c == Owner[op[p].job]
             a == op[p].amount
             s == op[p].qi
             m == -a
             r == a - s
  <2>2. c \in Customers /\ s \in Int /\ m \in Int /\ r \in Int /\ r + m + s = 0
    BY <2>1, LedgerAssumption
  <2>3. account' = [account EXCEPT ![c] = Book(@, r, m, s, r)] /\ UNCHANGED deposited
    BY <1>3 DEF CommitSettle
  <2> HIDE DEF c, a, s, m, r
  <2>4. QED
    BY <2>2, <2>3, BookKeepsFunds
<1>4. ASSUME NEW p \in Procs, CommitFunds(p)
      PROVE  CustomerFundsConserved'
  <2>1. op[p].job \in Jobs /\ op[p].amount \in Nat
    BY <1>4, CallByStage DEF CommitFunds, TypeOK, RefundCall
  <2> DEFINE c == Owner[op[p].job]
             a == op[p].amount
             m == -a
  <2>2. c \in Customers /\ a \in Int /\ m \in Int /\ 0 \in Int /\ a + m + 0 = 0
    BY <2>1, LedgerAssumption
  <2>3. account' = [account EXCEPT ![c] = Book(@, a, m, 0, a)] /\ UNCHANGED deposited
    BY <1>4 DEF CommitFunds
  <2> HIDE DEF c, a, m
  <2>4. QED
    BY <2>2, <2>3, BookKeepsFunds
<1>5. CASE UNCHANGED <<account, deposited>>
  BY <1>5 DEF CustomerFundsConserved
<1>6. ASSUME NEW p \in Procs, Begin(p) \/ Step(p) \/ Crash(p),
             ~CommitEscrow(p), ~CommitSettle(p), ~CommitFunds(p)
      PROVE  UNCHANGED <<account, deposited>>
  BY <1>6 DEF Begin, Step, Crash, BeginEscrow, BeginSettle, BeginRefund, CheckSettle,
              CreditUnescrowed, RecordSettlement, CheckRefund, MarkRefund, RecordRefund
<1>7. QED
  BY <1>1, <1>2, <1>3, <1>4, <1>5, <1>6 DEF Next, vars

(* What a customer paid in is available, in escrow or spent, in every      *)
(* state, for any number of processes and wherever they stop.              *)
THEOREM FundsConserved == Spec => []CustomerFundsConserved
<1>1. Init => CustomerFundsConserved
  BY DEF Init, CustomerFundsConserved
<1>2. QED
  BY <1>1, FundsStep, TypeCorrect, PTL DEF Spec

----
\* Calls in progress, and how a settlement divides the escrow

(* No commit changes the amount of a row that a call has read, or takes the  *)
(* row away.                                                                *)
LEMMA CallsMatchRowsStep == TypeOK /\ CallsMatchRows /\ [Next]_vars => CallsMatchRows'
<1> SUFFICES ASSUME TypeOK, CallsMatchRows, [Next]_vars
             PROVE  CallsMatchRows'
  OBVIOUS
<1>1. CASE UNCHANGED <<escrow, op>>
  BY <1>1 DEF CallsMatchRows
<1>2. ASSUME NEW p \in Procs, NEW j \in Jobs, NEW a \in Amounts, BeginEscrow(p, j, a)
      PROVE  CallsMatchRows'
  BY <1>2 DEF BeginEscrow, CallsMatchRows, TypeOK
<1>3. ASSUME NEW p \in Procs, NEW j \in Jobs, NEW a \in Amounts, NEW w \in Workers,
             BeginSettle(p, j, w, a)
      PROVE  CallsMatchRows'
  BY <1>3 DEF BeginSettle, CallsMatchRows, TypeOK
<1>4. ASSUME NEW p \in Procs, NEW j \in Jobs, NEW d \in Disputes, BeginRefund(p, j, d)
      PROVE  CallsMatchRows'
  BY <1>4 DEF BeginRefund, CallsMatchRows, TypeOK
<1>5. ASSUME NEW p \in Procs, CommitEscrow(p)
      PROVE  CallsMatchRows'
  <2>1. op[p].job \in Jobs /\ op[p].stage = "escrow"
    BY <1>5, CallByStage DEF CommitEscrow, TypeOK, EscrowCall
  <2>2. \A q \in Procs \ {p} : op'[q] = op[q]
    BY <1>5 DEF CommitEscrow, TypeOK
  <2>3. op'[p].stage = "idle"
    BY <1>5 DEF CommitEscrow, TypeOK, Idle
  <2>4. \A q \in Procs \ {p} : op[q].stage \in {"escrow", "settle", "settling", "refund",
                                               "refunding", "marking"} =>
                               op[q].job # op[p].job
    BY <2>1 DEF CallsMatchRows
  <2>5. \A k \in Jobs : k # op[p].job => escrow'[k] = escrow[k]
    BY <1>5 DEF CommitEscrow, TypeOK
  <2>6. \A q \in Procs : op[q].stage \in {"escrow", "settle", "settling", "refund",
                                          "refunding", "marking"} => op[q].job \in Jobs
    BY CallByStage DEF TypeOK, EscrowCall, SettleCall, RefundCall
  <2>7. QED
    BY <2>2, <2>3, <2>4, <2>5, <2>6 DEF CallsMatchRows
<1>6. ASSUME NEW p \in Procs, CheckSettle(p) \/ CheckRefund(p)
      PROVE  CallsMatchRows'
  BY <1>6, CallByStage DEF CheckSettle, CheckRefund, CallsMatchRows, TypeOK, Idle, SettleCall,
                          RefundCall
<1>7. ASSUME NEW p \in Procs, CommitSettle(p)
      PROVE  CallsMatchRows'
  <2>1. op[p].job \in Jobs /\ op[p].stage = "settling"
    BY <1>7, CallByStage DEF CommitSettle, TypeOK, SettleCall
  <2>2. PICK s, f, y, r : escrow' = [escrow EXCEPT ![op[p].job] =
          [@ EXCEPT !.settled = s, !.fee = f, !.payout = y, !.refunded = r, !.status = "settled"]]
    BY <1>7 DEF CommitSettle
  <2>3. op'[p].stage = "settled" /\ \A q \in Procs \ {p} : op'[q] = op[q]
    BY <1>7 DEF CommitSettle, TypeOK
  <2>4. \A k \in Jobs : /\ escrow'[k].amount = escrow[k].amount
                        /\ escrow[k].status = "absent" /\ k # op[p].job =>
                             escrow'[k].status = "absent"
                        /\ escrow[k].status # "absent" => escrow'[k].status # "absent"
    BY <2>1, <2>2 DEF TypeOK, RowType
  <2>5. escrow[op[p].job].status # "absent"
    BY <2>1 DEF CallsMatchRows
  <2>6. QED
    BY <2>3, <2>4, <2>5, CallByStage DEF CallsMatchRows, TypeOK, EscrowCall, SettleCall, RefundCall
<1>8. ASSUME NEW p \in Procs, MarkRefund(p)
      PROVE  CallsMatchRows'
  <2>1. op[p].job \in Jobs /\ op[p].stage = "marking"
    BY <1>8, CallByStage DEF MarkRefund, TypeOK, RefundCall
  <2> DEFINE r == op[p].amount
             st == IF op[p].disputed THEN "disputed" ELSE "refunded"
  <2>2. st # "absent" /\
        escrow' = [escrow EXCEPT ![op[p].job] = [@ EXCEPT !.refunded = r, !.status = st]]
    BY <1>8 DEF MarkRefund
  <2>3. op'[p].stage = "refunded" /\ \A q \in Procs \ {p} : op'[q] = op[q]
    BY <1>8 DEF MarkRefund, TypeOK
  <2>4. \A k \in Jobs : /\ escrow'[k].amount = escrow[k].amount
                        /\ escrow[k].status = "absent" /\ k # op[p].job =>
                             escrow'[k].status = "absent"
                        /\ escrow[k].status # "absent" => escrow'[k].status # "absent"
    <3> HIDE DEF r, st
    <3> QED
      BY <2>1, <2>2 DEF TypeOK, RowType
  <2>5. escrow[op[p].job].status # "absent"
    BY <2>1 DEF CallsMatchRows
  <2>6. QED
    BY <2>3, <2>4, <2>5, CallByStage DEF CallsMatchRows, TypeOK, EscrowCall, SettleCall, RefundCall
<1>9. ASSUME NEW p \in Procs, CommitFunds(p)
      PROVE  CallsMatchRows'
  BY <1>9, CallByStage DEF CommitFunds, CallsMatchRows, TypeOK, RefundCall
<1>10. ASSUME NEW p \in Procs,
              CreditUnescrowed(p) \/ RecordSettlement(p) \/ RecordRefund(p) \/ Crash(p)
       PROVE  CallsMatchRows'
  BY <1>10 DEF CreditUnescrowed, RecordSettlement, RecordRefund, Crash, CallsMatchRows, TypeOK,
               Idle
<1>11. ASSUME NEW c \in Customers, NEW a \in Amounts, Deposit(c, a)
       PROVE  UNCHANGED <<escrow, op>>
  BY <1>11 DEF Deposit
<1>12. QED
  BY <1>1, <1>2, <1>3, <1>4, <1>5, <1>6, <1>7, <1>8, <1>9, <1>10, <1>11
     DEF Next, Begin, Step, vars

(* A call carries the amount its job's row has, for any number of          *)
(* processes, wherever they stop.                                          *)
THEOREM CallsAlwaysMatchRows == Spec => []CallsMatchRows
<1>1. Init => CallsMatchRows
  BY DEF Init, CallsMatchRows, Idle
<1>2. QED
  BY <1>1, CallsMatchRowsStep, TypeCorrect, PTL DEF Spec

(* No step loses a unit of a settled escrow.                               *)
LEMMA SplitStep == TypeOK /\ CallsMatchRows /\ SettlementSplit /\ [Next]_vars => SettlementSplit'
<1> SUFFICES ASSUME TypeOK, CallsMatchRows, SettlementSplit, [Next]_vars
             PROVE  SettlementSplit'
  OBVIOUS
<1>1. CASE UNCHANGED escrow
  BY <1>1 DEF SettlementSplit
<1>2. ASSUME NEW p \in Procs, CommitEscrow(p)
      PROVE  SettlementSplit'
  BY <1>2 DEF CommitEscrow, SettlementSplit, TypeOK, NoRow
<1>3. ASSUME NEW p \in Procs, CommitSettle(p)
      PROVE  SettlementSplit'
  <2>1. op[p] \in SettleCall /\ op[p].stage = "settling"
    BY <1>3, CallByStage DEF CommitSettle, TypeOK
  <2> DEFINE j == op[p].job
             a == op[p].amount
             s == op[p].qi
             f == Fee(s)
  <2>2. j \in Jobs /\ a \in Nat /\ s \in Nat /\ f \in Nat /\ escrow[j].amount = a
    BY <2>1, FeeBounds DEF SettleCall, CallsMatchRows
  <2>3. /\ escrow'[j] = [escrow[j] EXCEPT !.settled = s, !.fee = f, !.payout = s - f,
                                          !.refunded = a - s, !.status = "settled"]
        /\ \A k \in Jobs \ {j} : escrow'[k] = escrow[k]
    BY <1>3, <2>2 DEF CommitSettle, TypeOK
  <2> HIDE DEF f, j
  <2>4. /\ escrow'[j].settled = s /\ escrow'[j].fee = f /\ escrow'[j].payout = s - f
        /\ escrow'[j].refunded = a - s /\ escrow'[j].amount = a
    BY <2>2, <2>3 DEF TypeOK, RowType
  <2>5. s = f + (s - f) /\ s + (a - s) = a
    BY <2>2
  <2>6. QED
    BY <2>3, <2>4, <2>5 DEF SettlementSplit
<1>4. ASSUME NEW p \in Procs, MarkRefund(p)
      PROVE  SettlementSplit'
  <2>1. op[p].job \in Jobs
    BY <1>4, CallByStage DEF MarkRefund, TypeOK, RefundCall
  <2>2. escrow'[op[p].job].status # "settled"
        /\ \A k \in Jobs \ {op[p].job} : escrow'[k] = escrow[k]
    BY <1>4, <2>1 DEF MarkRefund, TypeOK, RowType
  <2>3. QED
    BY <2>2 DEF SettlementSplit
<1>5. ASSUME NEW p \in Procs, Begin(p) \/ Step(p) \/ Crash(p),
             ~CommitEscrow(p), ~CommitSettle(p), ~MarkRefund(p)
      PROVE  UNCHANGED escrow
  BY <1>5 DEF Begin, Step, Crash, BeginEscrow, BeginSettle, BeginRefund, CheckSettle,
              CreditUnescrowed, RecordSettlement, CheckRefund, CommitFunds, RecordRefund
<1>6. ASSUME NEW c \in Customers, NEW a \in Amounts, Deposit(c, a)
      PROVE  UNCHANGED escrow
  BY <1>6 DEF Deposit
<1>7. QED
  BY <1>1, <1>2, <1>3, <1>4, <1>5, <1>6 DEF Next, vars

(* A settled row divides its escrow exactly, whatever the rounding of the  *)
(* fee and whichever other calls were in progress.                         *)
THEOREM SettlementSplitsEscrow == Spec => []SettlementSplit
<1>1. Init => SettlementSplit
  BY DEF Init, SettlementSplit, NoRow
<1>2. QED
  BY <1>1, SplitStep, TypeCorrect, CallsAlwaysMatchRows, PTL DEF Spec


(***************************************************************************)
(* When one process at a time uses the database.  The process may stop and *)
(* start again at any point.                                               *)
(***************************************************************************)

OneProcess == \A p, q \in Procs : p = q

(* The invariant: what the process checked still holds when it writes, so  *)
(* balances stay within the tolerance and a job is paid once.              *)
ExclusiveInv == ChecksStillHold /\ OverdraftWithinTolerance /\ PaidOncePerJob

----

(* An UPDATE of c's balances, seen balance by balance. *)
LEMMA BookEffect ==
  ASSUME TypeOK, NEW c \in Customers,
         NEW x \in Int, NEW y \in Int, NEW z \in Int, NEW r \in Int,
         account' = [account EXCEPT ![c] = Book(@, x, y, z, r)]
  PROVE  /\ account'[c].available = account[c].available + x
         /\ account'[c].escrowed = account[c].escrowed + y
         /\ account[c].available \in Int /\ account[c].escrowed \in Int
         /\ \A d \in Customers \ {c} : account'[d] = account[d]
  BY DEF TypeOK, Book, AccountType

(* A deposit only raises an available balance. *)
LEMMA ExclusiveDeposit ==
  ASSUME TypeOK, ExclusiveInv, NEW c \in Customers, NEW a \in Amounts, Deposit(c, a)
  PROVE  ExclusiveInv'
<1>1. a \in Nat /\ a \in Int /\ 0 \in Int
  BY LedgerAssumption
<1>2. account' = [account EXCEPT ![c] = Book(@, a, 0, 0, 0)] /\ UNCHANGED <<escrow, op, paidOut>>
  BY DEF Deposit
<1>3. /\ account'[c].available = account[c].available + a
      /\ account'[c].escrowed = account[c].escrowed + 0
      /\ account[c].available \in Int /\ account[c].escrowed \in Int
      /\ \A d \in Customers \ {c} : account'[d] = account[d]
  BY <1>1, <1>2, BookEffect
<1>4. \A d \in Customers : /\ account'[d].available >= account[d].available
                           /\ account'[d].escrowed = account[d].escrowed
                           /\ account[d].available \in Int
                           /\ account'[d].available \in Int
  BY <1>1, <1>3 DEF TypeOK, AccountType
<1>5. OverdraftWithinTolerance'
  <2> SUFFICES ASSUME NEW d \in Customers
               PROVE  account'[d].available >= -1 /\ account'[d].escrowed >= -1
    BY DEF OverdraftWithinTolerance, Tol
  <2>1. account[d].available >= -1 /\ account[d].escrowed >= -1
    BY DEF ExclusiveInv, OverdraftWithinTolerance, Tol
  <2>2. QED
    BY <1>4, <2>1
<1>6. PaidOncePerJob'
  BY <1>2 DEF ExclusiveInv, PaidOncePerJob
<1>7. ChecksStillHold'
  <2> SUFFICES ASSUME NEW p \in Procs
               PROVE  /\ op[p].stage = "escrow" =>
                           account'[Owner[op[p].job]].available + Tol >= op[p].amount
                      /\ op[p].stage \in {"settling", "refunding"} =>
                           account'[Owner[op[p].job]].escrowed + Tol >= op[p].amount
    BY <1>2 DEF ExclusiveInv, ChecksStillHold
  <2>1. CASE op[p].stage = "escrow"
    <3>1. Owner[op[p].job] \in Customers /\ op[p].amount \in Nat
      BY <2>1, CallByStage, LedgerAssumption DEF TypeOK, EscrowCall
    <3>2. account[Owner[op[p].job]].available + Tol >= op[p].amount
      BY <2>1 DEF ExclusiveInv, ChecksStillHold
    <3>3. account'[Owner[op[p].job]].available >= account[Owner[op[p].job]].available
          /\ account[Owner[op[p].job]].available \in Int
          /\ account'[Owner[op[p].job]].available \in Int
      BY <1>1, <1>3, <1>4, <3>1
    <3>4. QED
      BY <2>1, <3>1, <3>2, <3>3 DEF Tol
  <2>2. CASE op[p].stage \in {"settling", "refunding"}
    <3>1. Owner[op[p].job] \in Customers
      BY <2>2, CallByStage, LedgerAssumption DEF TypeOK, SettleCall, RefundCall
    <3>2. QED
      BY <2>2, <3>1, <1>4 DEF ExclusiveInv, ChecksStillHold
  <2>3. QED
    BY <2>1, <2>2
<1>8. QED
  BY <1>5, <1>6, <1>7 DEF ExclusiveInv

(* A balance that has been checked stays within the tolerance. *)
LEMMA BalancesWithinTolerance ==
  ASSUME TypeOK, OverdraftWithinTolerance, NEW c \in Customers,
         NEW x \in Int, NEW y \in Int, NEW z \in Int, NEW r \in Int,
         x >= 0 \/ account[c].available + x >= -Tol,
         y >= 0 \/ account[c].escrowed + y >= -Tol,
         account' = [account EXCEPT ![c] = Book(@, x, y, z, r)]
  PROVE  OverdraftWithinTolerance'
<1>1. /\ account'[c].available = account[c].available + x
      /\ account'[c].escrowed = account[c].escrowed + y
      /\ account[c].available \in Int /\ account[c].escrowed \in Int
      /\ \A d \in Customers \ {c} : account'[d] = account[d]
  BY BookEffect
<1>2. account[c].available >= -1 /\ account[c].escrowed >= -1
  BY DEF OverdraftWithinTolerance, Tol
<1>3. account'[c].available >= -1 /\ account'[c].escrowed >= -1
  BY <1>1, <1>2 DEF Tol
<1>4. QED
  BY <1>1, <1>3 DEF OverdraftWithinTolerance, Tol

(* The calls of the only process: one that has ended carries no check. *)
LEMMA NoCallLeft ==
  ASSUME OneProcess, NEW p \in Procs,
         op'[p].stage \notin {"escrow", "settle", "settling", "refund", "refunding", "marking"}
  PROVE  ChecksStillHold'
  BY DEF OneProcess, ChecksStillHold

LEMMA ExclusiveBegin ==
  ASSUME TypeOK, ExclusiveInv, OneProcess, NEW p \in Procs, Begin(p)
  PROVE  ExclusiveInv'
<1>1. UNCHANGED <<account, escrow, paidOut>>
  BY DEF Begin, BeginEscrow, BeginSettle, BeginRefund
<1>2. OverdraftWithinTolerance' /\ PaidOncePerJob'
  BY <1>1 DEF ExclusiveInv, OverdraftWithinTolerance, PaidOncePerJob
<1>3. ChecksStillHold'
  <2>1. ASSUME NEW j \in Jobs, NEW a \in Amounts, BeginEscrow(p, j, a)
        PROVE  ChecksStillHold'
    BY <1>1, <2>1 DEF BeginEscrow, ChecksStillHold, OneProcess, TypeOK
  <2>2. ASSUME NEW j \in Jobs, NEW a \in Amounts, NEW w \in Workers, BeginSettle(p, j, w, a)
        PROVE  ChecksStillHold'
    BY <1>1, <2>2 DEF BeginSettle, ChecksStillHold, OneProcess, TypeOK
  <2>3. ASSUME NEW j \in Jobs, NEW d \in Disputes, BeginRefund(p, j, d)
        PROVE  ChecksStillHold'
    BY <1>1, <2>3 DEF BeginRefund, ChecksStillHold, OneProcess, TypeOK
  <2>4. QED
    BY <2>1, <2>2, <2>3 DEF Begin
<1>4. QED
  BY <1>2, <1>3 DEF ExclusiveInv

LEMMA ExclusiveCheck ==
  ASSUME TypeOK, ExclusiveInv, OneProcess, NEW p \in Procs, CheckSettle(p) \/ CheckRefund(p)
  PROVE  ExclusiveInv'
<1>1. UNCHANGED <<account, escrow, paidOut>>
  BY DEF CheckSettle, CheckRefund
<1>2. OverdraftWithinTolerance' /\ PaidOncePerJob'
  BY <1>1 DEF ExclusiveInv, OverdraftWithinTolerance, PaidOncePerJob
<1>3. op[p] \in SettleCall \cup RefundCall /\ Owner[op[p].job] \in Customers
  BY CallByStage, LedgerAssumption DEF CheckSettle, CheckRefund, TypeOK, SettleCall, RefundCall
<1>4. account[Owner[op[p].job]].escrowed \in Int /\ op[p].amount \in Int
  BY <1>3 DEF TypeOK, AccountType, SettleCall, RefundCall
<1>5. CASE account[Owner[op[p].job]].escrowed + Tol < op[p].amount
  <2>1. op'[p] = Idle
    BY <1>5 DEF CheckSettle, CheckRefund, TypeOK
  <2>2. QED
    BY <1>2, <2>1, NoCallLeft DEF ExclusiveInv, Idle
<1>6. CASE ~(account[Owner[op[p].job]].escrowed + Tol < op[p].amount)
  <2>1. /\ op'[p] \in {[op[p] EXCEPT !.stage = "settling"], [op[p] EXCEPT !.stage = "refunding"]}
        /\ op'[p].job = op[p].job /\ op'[p].amount = op[p].amount
        /\ CheckSettle(p) => op'[p].stage = "settling"
        /\ CheckRefund(p) => op'[p].stage = "refunding"
    BY <1>3, <1>6 DEF CheckSettle, CheckRefund, TypeOK, SettleCall, RefundCall
  <2>2. account[Owner[op[p].job]].escrowed + Tol >= op[p].amount
    BY <1>4, <1>6 DEF Tol
  <2>3. /\ CheckSettle(p) => escrow[op[p].job].status = "escrowed"
        /\ CheckRefund(p) => escrow[op[p].job].status \in {"escrowed", "disputed"}
    BY DEF CheckSettle, CheckRefund, ExclusiveInv, ChecksStillHold
  <2>4. ChecksStillHold'
    BY <1>1, <2>1, <2>2, <2>3 DEF ChecksStillHold, OneProcess
  <2>5. QED
    BY <1>2, <2>4 DEF ExclusiveInv
<1>7. QED
  BY <1>5, <1>6

LEMMA ExclusiveCommitEscrow ==
  ASSUME TypeOK, CallsMatchRows, ExclusiveInv, OneProcess, NEW p \in Procs, CommitEscrow(p)
  PROVE  ExclusiveInv'
<1> DEFINE j == op[p].job
           a == op[p].amount
           m == -a
<1>1. j \in Jobs /\ a \in Nat /\ a \in Int /\ m \in Int /\ 0 \in Int /\ Owner[j] \in Customers
  <2>1. op[p] \in EscrowCall
    BY CallByStage DEF CommitEscrow, TypeOK
  <2>2. QED
    BY <2>1, LedgerAssumption DEF EscrowCall
<1>2. account[Owner[j]].available + Tol >= a
      /\ account[Owner[j]].available \in Int /\ account[Owner[j]].escrowed \in Int
  BY <1>1 DEF CommitEscrow, ExclusiveInv, ChecksStillHold, TypeOK, AccountType
<1>3. account' = [account EXCEPT ![Owner[j]] = Book(@, m, a, 0, 0)]
  BY DEF CommitEscrow
<1>4. account[Owner[j]].available + m >= -Tol /\ a >= 0
  BY <1>1, <1>2 DEF Tol
<1>5. OverdraftWithinTolerance'
  <2> HIDE DEF j, a, m
  <2> QED
    BY <1>1, <1>3, <1>4, BalancesWithinTolerance DEF ExclusiveInv
<1>6. PaidOncePerJob'
  <2>1. escrow[j].status = "absent" /\ paidOut[j] = 0
    BY <1>1 DEF CommitEscrow, CallsMatchRows, ExclusiveInv, PaidOncePerJob
  <2>2. escrow'[j].status = "escrowed" /\ UNCHANGED paidOut
        /\ \A k \in Jobs \ {j} : escrow'[k] = escrow[k]
    BY <1>1 DEF CommitEscrow, TypeOK, NoRow
  <2>3. QED
    BY <2>1, <2>2 DEF ExclusiveInv, PaidOncePerJob
<1>7. op'[p] = Idle
  BY DEF CommitEscrow, TypeOK
<1>8. QED
  BY <1>5, <1>6, <1>7, NoCallLeft DEF ExclusiveInv, Idle

LEMMA ExclusiveCommitSettle ==
  ASSUME TypeOK, ExclusiveInv, OneProcess, NEW p \in Procs, CommitSettle(p)
  PROVE  ExclusiveInv'
<1> DEFINE j == op[p].job
           a == op[p].amount
           s == op[p].qi
           f == Fee(s)
           m == -a
           r == a - s
<1>1. j \in Jobs /\ a \in Nat /\ s \in Nat /\ s <= a /\ Owner[j] \in Customers
  <2>1. op[p] \in SettleCall
    BY CallByStage DEF CommitSettle, TypeOK
  <2>2. QED
    BY <2>1, LedgerAssumption DEF SettleCall
<1>2. f \in Nat /\ s - f \in Nat /\ m \in Int /\ r \in Int /\ s \in Int /\ r >= 0
  BY <1>1, FeeBounds
<1>3. account[Owner[j]].escrowed + Tol >= a
      /\ account[Owner[j]].available \in Int /\ account[Owner[j]].escrowed \in Int
  BY <1>1 DEF CommitSettle, ExclusiveInv, ChecksStillHold, TypeOK, AccountType
<1>4. account' = [account EXCEPT ![Owner[j]] = Book(@, r, m, s, r)]
  BY DEF CommitSettle
<1>5. account[Owner[j]].escrowed + m >= -Tol
  BY <1>1, <1>3 DEF Tol
<1>6. OverdraftWithinTolerance'
  <2> HIDE DEF j, a, s, m, r
  <2> QED
    BY <1>1, <1>2, <1>4, <1>5, BalancesWithinTolerance DEF ExclusiveInv
<1>7. PaidOncePerJob'
  <2> HIDE DEF f
  <2>1. paidOut[j] = 0
    BY <1>1 DEF CommitSettle, ExclusiveInv, ChecksStillHold, PaidOncePerJob
  <2>2. paidOut' = [paidOut EXCEPT ![j] = @ + (s - f)]
        /\ escrow' = [escrow EXCEPT ![j] = [@ EXCEPT !.settled = s, !.fee = f, !.payout = s - f,
                                                    !.refunded = a - s, !.status = "settled"]]
    BY DEF CommitSettle, f
  <2>3. escrow'[j].status = "settled" /\ escrow'[j].payout = s - f
        /\ \A k \in Jobs \ {j} : escrow'[k] = escrow[k]
    BY <1>1, <2>2 DEF TypeOK, RowType
  <2>4. paidOut'[j] = 0 + (s - f) /\ \A k \in Jobs \ {j} : paidOut'[k] = paidOut[k]
    BY <1>1, <2>1, <2>2 DEF TypeOK
  <2>5. paidOut'[j] = s - f
    BY <1>2, <2>4
  <2>6. QED
    BY <2>3, <2>4, <2>5 DEF ExclusiveInv, PaidOncePerJob
<1>8. op'[p].stage = "settled"
  BY DEF CommitSettle, TypeOK
<1>9. QED
  BY <1>6, <1>7, <1>8, NoCallLeft DEF ExclusiveInv

LEMMA ExclusiveCommitFunds ==
  ASSUME TypeOK, ExclusiveInv, OneProcess, NEW p \in Procs, CommitFunds(p)
  PROVE  ExclusiveInv'
<1> DEFINE j == op[p].job
           a == op[p].amount
           m == -a
<1>1. j \in Jobs /\ a \in Nat /\ a \in Int /\ m \in Int /\ 0 \in Int /\ Owner[j] \in Customers
  <2>1. op[p] \in RefundCall
    BY CallByStage DEF CommitFunds, TypeOK
  <2>2. QED
    BY <2>1, LedgerAssumption DEF RefundCall
<1>2. account[Owner[j]].escrowed + Tol >= a /\ account[Owner[j]].escrowed \in Int
  BY <1>1 DEF CommitFunds, ExclusiveInv, ChecksStillHold, TypeOK, AccountType
<1>3. account' = [account EXCEPT ![Owner[j]] = Book(@, a, m, 0, a)]
  BY DEF CommitFunds
<1>4. account[Owner[j]].escrowed + m >= -Tol /\ a >= 0
  BY <1>1, <1>2 DEF Tol
<1>5. OverdraftWithinTolerance'
  <2> HIDE DEF j, a, m
  <2> QED
    BY <1>1, <1>3, <1>4, BalancesWithinTolerance DEF ExclusiveInv
<1>6. UNCHANGED <<escrow, paidOut>>
  BY DEF CommitFunds
<1>7. PaidOncePerJob'
  BY <1>6 DEF ExclusiveInv, PaidOncePerJob
<1>8. op'[p].stage = "marking" /\ op'[p].job = j
      /\ escrow[j].status \in {"escrowed", "disputed"}
  BY CallByStage DEF CommitFunds, ExclusiveInv, ChecksStillHold, TypeOK, RefundCall
<1>9. ChecksStillHold'
  BY <1>6, <1>8 DEF ChecksStillHold, OneProcess
<1>10. QED
  BY <1>5, <1>7, <1>9 DEF ExclusiveInv

LEMMA ExclusiveMarkRefund ==
  ASSUME TypeOK, ExclusiveInv, OneProcess, NEW p \in Procs, MarkRefund(p)
  PROVE  ExclusiveInv'
<1> DEFINE j == op[p].job
<1>1. j \in Jobs /\ escrow[j].status \in {"escrowed", "disputed"}
  BY CallByStage DEF MarkRefund, TypeOK, RefundCall, ExclusiveInv, ChecksStillHold
<1>2. UNCHANGED <<account, paidOut>>
  BY DEF MarkRefund
<1>3. escrow'[j].status # "settled" /\ \A k \in Jobs \ {j} : escrow'[k] = escrow[k]
  BY <1>1 DEF MarkRefund, TypeOK, RowType
<1>4. PaidOncePerJob'
  BY <1>1, <1>2, <1>3 DEF ExclusiveInv, PaidOncePerJob
<1>5. OverdraftWithinTolerance'
  BY <1>2 DEF ExclusiveInv, OverdraftWithinTolerance
<1>6. op'[p].stage = "refunded"
  BY DEF MarkRefund, TypeOK
<1>7. QED
  BY <1>4, <1>5, <1>6, NoCallLeft DEF ExclusiveInv

LEMMA ExclusiveRecord ==
  ASSUME TypeOK, ExclusiveInv, OneProcess, NEW p \in Procs,
         CreditUnescrowed(p) \/ RecordSettlement(p) \/ RecordRefund(p) \/ Crash(p)
  PROVE  ExclusiveInv'
<1>1. UNCHANGED <<account, escrow, paidOut>>
  BY DEF CreditUnescrowed, RecordSettlement, RecordRefund, Crash
<1>2. OverdraftWithinTolerance' /\ PaidOncePerJob'
  BY <1>1 DEF ExclusiveInv, OverdraftWithinTolerance, PaidOncePerJob
<1>3. op'[p].stage \in {"idle", "settled"}
  BY DEF CreditUnescrowed, RecordSettlement, RecordRefund, Crash, TypeOK, Idle
<1>4. QED
  BY <1>2, <1>3, NoCallLeft DEF ExclusiveInv

----

(* With one process, and crashes, the invariant holds.                     *)
LEMMA ExclusiveInvariance ==
  ASSUME OneProcess
  PROVE  Spec => []ExclusiveInv
<1>1. Init => ExclusiveInv
  BY DEF Init, ExclusiveInv, ChecksStillHold, OverdraftWithinTolerance, PaidOncePerJob, Idle,
         NoRow, Tol
<1>2. TypeOK /\ CallsMatchRows /\ ExclusiveInv /\ [Next]_vars => ExclusiveInv'
  <2> SUFFICES ASSUME TypeOK, CallsMatchRows, ExclusiveInv, [Next]_vars
               PROVE  ExclusiveInv'
    OBVIOUS
  <2>1. CASE UNCHANGED vars
    BY <2>1 DEF vars, ExclusiveInv, ChecksStillHold, OverdraftWithinTolerance, PaidOncePerJob
  <2>2. ASSUME NEW c \in Customers, NEW a \in Amounts, Deposit(c, a)
        PROVE  ExclusiveInv'
    BY <2>2, ExclusiveDeposit
  <2>3. ASSUME NEW p \in Procs, Begin(p) \/ Step(p) \/ Crash(p)
        PROVE  ExclusiveInv'
    BY <2>3, ExclusiveBegin, ExclusiveCheck, ExclusiveCommitEscrow, ExclusiveCommitSettle,
       ExclusiveCommitFunds, ExclusiveMarkRefund, ExclusiveRecord DEF Step
  <2>4. QED
    BY <2>1, <2>2, <2>3 DEF Next
<1>3. QED
  BY <1>1, <1>2, TypeCorrect, CallsAlwaysMatchRows, PTL DEF Spec

(* One process overdraws no balance by more than the 1e-12 of the checks,  *)
(* however many calls it makes and wherever it stops.                      *)
THEOREM OverdraftBounded ==
  ASSUME OneProcess
  PROVE  Spec => []OverdraftWithinTolerance
BY ExclusiveInvariance, PTL DEF ExclusiveInv

(* One process pays the workers for a job what its row says, once.         *)
THEOREM PaidAtMostOnce ==
  ASSUME OneProcess
  PROVE  Spec => []PaidOncePerJob
BY ExclusiveInvariance, PTL DEF ExclusiveInv

(* No call of one process, not even one begun before the process stopped,  *)
(* rewrites a row that is settled or refunded.                             *)
THEOREM ClosedRowsAreFinal ==
  ASSUME OneProcess
  PROVE  Spec => ClosedIsFinal
<1>1. ASSUME TypeOK, CallsMatchRows, ExclusiveInv, [Next]_vars, NEW j \in Jobs,
             escrow[j].status \in {"settled", "refunded"}
      PROVE  escrow'[j] = escrow[j]
  <2>1. CASE UNCHANGED escrow
    BY <2>1
  <2>2. ASSUME NEW p \in Procs, CommitEscrow(p) \/ CommitSettle(p) \/ MarkRefund(p)
        PROVE  escrow'[j] = escrow[j]
    <3>1. op[p].job # j
      BY <1>1, <2>2 DEF CommitEscrow, CommitSettle, MarkRefund, ExclusiveInv, ChecksStillHold,
                        CallsMatchRows
    <3>2. QED
      BY <1>1, <2>2, <3>1 DEF CommitEscrow, CommitSettle, MarkRefund, TypeOK
  <2>3. ASSUME NEW p \in Procs, Begin(p) \/ Step(p) \/ Crash(p),
               ~CommitEscrow(p), ~CommitSettle(p), ~MarkRefund(p)
        PROVE  UNCHANGED escrow
    BY <2>3 DEF Begin, Step, Crash, BeginEscrow, BeginSettle, BeginRefund, CheckSettle,
                CreditUnescrowed, RecordSettlement, CheckRefund, CommitFunds, RecordRefund
  <2>4. ASSUME NEW c \in Customers, NEW a \in Amounts, Deposit(c, a)
        PROVE  UNCHANGED escrow
    BY <2>4 DEF Deposit
  <2>5. QED
    BY <1>1, <2>1, <2>2, <2>3, <2>4 DEF Next, vars
<1>2. TypeOK /\ CallsMatchRows /\ ExclusiveInv /\ [Next]_vars =>
        [\A j \in Jobs : escrow[j].status \in {"settled", "refunded"}
          => escrow'[j] = escrow[j]]_vars
  BY <1>1
<1>3. QED
  BY <1>2, ExclusiveInvariance, TypeCorrect, CallsAlwaysMatchRows, PTL DEF Spec, ClosedIsFinal

----
\* Reconciliation, for finitely many jobs, no crash and no disputed refund

NoDisputes == TRUE \notin Disputes

(* No row is in dispute, and no refund in progress will put one there.     *)
Undisputed ==
  /\ \A j \in Jobs : escrow[j].status # "disputed"
  /\ \A p \in Procs :
       op[p].stage \in {"refund", "refunding", "marking"} => op[p].disputed = FALSE

HeldOf == [j \in Jobs |-> Held(j)]

JobsOf(c) == {j \in Jobs : Owner[j] = c}

LEMMA RowAmount ==
  ASSUME NEW row \in RowType, NEW open
  PROVE  (IF row.status = "escrowed" /\ open THEN row.amount ELSE 0) \in Int
  BY DEF RowType

LEMMA HeldType ==
  ASSUME TypeOK
  PROVE  \A j \in Jobs : HeldOf[j] \in Int /\ HeldOf[j] = Held(j)
  BY RowAmount DEF TypeOK, Held, HeldOf

LEMMA HeldTypeNext ==
  ASSUME TypeOK'
  PROVE  \A j \in Jobs : HeldOf'[j] \in Int /\ HeldOf'[j] = Held(j)'
  BY RowAmount DEF TypeOK, Held, HeldOf

(* One owner's escrowed balance and the escrow of one of its jobs move     *)
(* together, everything else stays.                                        *)
LEMMA BothMove ==
  ASSUME IsFiniteSet(Jobs), TypeOK, TypeOK', EscrowReconciles,
         NEW j \in Jobs, NEW n \in Int,
         Held(j)' = Held(j) + n,
         \A k \in Jobs \ {j} : Held(k)' = Held(k),
         account'[Owner[j]].escrowed = account[Owner[j]].escrowed + n,
         \A c \in Customers \ {Owner[j]} : account'[c].escrowed = account[c].escrowed
  PROVE  EscrowReconciles'
<1>1. /\ \A k \in Jobs : HeldOf[k] \in Int /\ HeldOf'[k] \in Int
      /\ HeldOf'[j] = HeldOf[j] + n /\ \A k \in Jobs \ {j} : HeldOf'[k] = HeldOf[k]
  BY HeldType, HeldTypeNext
<1>2. \A c \in Customers : IsFiniteSet(JobsOf(c)) /\ JobsOf(c) \subseteq Jobs
  BY FS_Subset DEF JobsOf
<1>3. \A c \in Customers : account[c].escrowed = SumFunctionOnSet(HeldOf, JobsOf(c))
  BY DEF EscrowReconciles, HeldOf, JobsOf
<1>4. ASSUME NEW c \in Customers
      PROVE  account'[c].escrowed = SumFunctionOnSet(HeldOf', JobsOf(c))
  <2>1. CASE c = Owner[j]
    <3>1. j \in JobsOf(c)
      BY <2>1 DEF JobsOf
    <3>2. SumFunctionOnSet(HeldOf', JobsOf(c))
            = SumFunctionOnSet(HeldOf, JobsOf(c)) + (HeldOf'[j] - HeldOf[j])
      BY <1>1, <1>2, <3>1, SumUpdate
    <3>3. HeldOf'[j] - HeldOf[j] = n
      BY <1>1
    <3>4. QED
      BY <1>3, <2>1, <3>2, <3>3
  <2>2. CASE c # Owner[j]
    <3>1. \A k \in JobsOf(c) : HeldOf'[k] = HeldOf[k]
      BY <1>1, <2>2 DEF JobsOf
    <3>2. SumFunctionOnSet(HeldOf', JobsOf(c)) = SumFunctionOnSet(HeldOf, JobsOf(c))
      BY <1>2, <3>1, SumSame
    <3>3. QED
      BY <1>3, <2>2, <3>2
  <2>3. QED
    BY <2>1, <2>2
<1>5. QED
  BY <1>4 DEF EscrowReconciles, HeldOf, JobsOf

LEMMA NothingMoves ==
  ASSUME EscrowReconciles,
         \A k \in Jobs : Held(k)' = Held(k),
         \A c \in Customers : account'[c].escrowed = account[c].escrowed
  PROVE  EscrowReconciles'
<1>1. HeldOf' = HeldOf
  BY DEF HeldOf
<1>2. QED
  BY <1>1 DEF EscrowReconciles, HeldOf

(* What a job holds depends on its row, unless the process is between the  *)
(* two commits of a refund.                                                *)
LEMMA HeldByRow ==
  ASSUME OneProcess, NEW p \in Procs, op[p].stage # "marking", NEW j \in Jobs
  PROVE  Held(j) = IF escrow[j].status = "escrowed" THEN escrow[j].amount ELSE 0
  BY DEF Held, OneProcess

LEMMA HeldByRowNext ==
  ASSUME OneProcess, NEW p \in Procs, op'[p].stage # "marking", NEW j \in Jobs
  PROVE  Held(j)' = IF escrow'[j].status = "escrowed" THEN escrow'[j].amount ELSE 0
  BY DEF Held, OneProcess

LEMMA ReconcilesCommitEscrow ==
  ASSUME IsFiniteSet(Jobs), OneProcess, TypeOK, TypeOK', CallsMatchRows, EscrowReconciles,
         NEW p \in Procs, CommitEscrow(p)
  PROVE  EscrowReconciles'
<1>1. PICK o \in EscrowCall : o = op[p]
  BY CallByStage DEF CommitEscrow, TypeOK
<1>2. o.job \in Jobs /\ o.amount \in Int /\ -o.amount \in Int /\ 0 \in Int
        /\ Owner[o.job] \in Customers
  BY <1>1, LedgerAssumption DEF EscrowCall
<1>3. /\ account' = [account EXCEPT ![Owner[o.job]] = Book(@, -o.amount, o.amount, 0, 0)]
      /\ escrow[o.job].status = "absent"
      /\ op[p].stage # "marking" /\ op'[p].stage # "marking"
  BY <1>1 DEF CommitEscrow, CallsMatchRows, TypeOK, Idle
<1>4. /\ escrow'[o.job].status = "escrowed" /\ escrow'[o.job].amount = o.amount
      /\ \A k \in Jobs \ {o.job} : escrow'[k] = escrow[k]
  BY <1>1, <1>2 DEF CommitEscrow, TypeOK, NoRow
<1>5. /\ account'[Owner[o.job]].escrowed = account[Owner[o.job]].escrowed + o.amount
      /\ \A c \in Customers \ {Owner[o.job]} : account'[c] = account[c]
  BY <1>2, <1>3, BookEffect
<1>6. Held(o.job) = 0 /\ Held(o.job)' = o.amount
  BY <1>2, <1>3, <1>4, HeldByRow, HeldByRowNext
<1>7. \A k \in Jobs \ {o.job} : Held(k)' = Held(k)
  BY <1>3, <1>4, HeldByRow, HeldByRowNext
<1>8. Held(o.job)' = Held(o.job) + o.amount
  BY <1>2, <1>6
<1>9. QED
  BY <1>2, <1>5, <1>7, <1>8, BothMove

LEMMA ReconcilesCommitSettle ==
  ASSUME IsFiniteSet(Jobs), OneProcess, TypeOK, TypeOK', CallsMatchRows, ExclusiveInv,
         EscrowReconciles, NEW p \in Procs, CommitSettle(p)
  PROVE  EscrowReconciles'
<1>1. PICK o \in SettleCall : o = op[p]
  BY CallByStage DEF CommitSettle, TypeOK
<1>2. /\ o.job \in Jobs /\ o.amount \in Int /\ o.qi \in Int /\ Owner[o.job] \in Customers
      /\ -o.amount \in Int /\ o.amount - o.qi \in Int
  BY <1>1, LedgerAssumption DEF SettleCall
<1>3. /\ account' = [account EXCEPT ![Owner[o.job]] =
                       Book(@, o.amount - o.qi, -o.amount, o.qi, o.amount - o.qi)]
      /\ escrow[o.job].status = "escrowed" /\ escrow[o.job].amount = o.amount
      /\ op[p].stage # "marking" /\ op'[p].stage # "marking"
  BY <1>1 DEF CommitSettle, CallsMatchRows, ExclusiveInv, ChecksStillHold, TypeOK
<1>4. PICK row : row = [escrow[o.job] EXCEPT !.settled = o.qi, !.fee = Fee(o.qi),
                          !.payout = o.qi - Fee(o.qi), !.refunded = o.amount - o.qi,
                          !.status = "settled"]
  OBVIOUS
<1>5. row.status = "settled"
  BY <1>2, <1>4 DEF TypeOK, RowType
<1>6. escrow' = [escrow EXCEPT ![o.job] = row]
  BY <1>1, <1>4 DEF CommitSettle
<1>7. escrow'[o.job].status = "settled" /\ \A k \in Jobs \ {o.job} : escrow'[k] = escrow[k]
  BY <1>2, <1>5, <1>6 DEF TypeOK
<1>8. /\ account'[Owner[o.job]].escrowed = account[Owner[o.job]].escrowed + (-o.amount)
      /\ \A c \in Customers \ {Owner[o.job]} : account'[c] = account[c]
  BY <1>2, <1>3, BookEffect
<1>9. Held(o.job) = o.amount /\ Held(o.job)' = 0
  BY <1>2, <1>3, <1>7, HeldByRow, HeldByRowNext
<1>10. \A k \in Jobs \ {o.job} : Held(k)' = Held(k)
  BY <1>3, <1>7, HeldByRow, HeldByRowNext
<1>11. Held(o.job)' = Held(o.job) + (-o.amount)
  BY <1>2, <1>9
<1>12. QED
  BY <1>2, <1>8, <1>10, <1>11, BothMove

LEMMA ReconcilesCommitFunds ==
  ASSUME IsFiniteSet(Jobs), OneProcess, TypeOK, TypeOK', CallsMatchRows, ExclusiveInv,
         Undisputed, EscrowReconciles, NEW p \in Procs, CommitFunds(p)
  PROVE  EscrowReconciles'
<1>1. PICK o \in RefundCall : o = op[p]
  BY CallByStage DEF CommitFunds, TypeOK
<1>2. /\ o.job \in Jobs /\ o.amount \in Int /\ -o.amount \in Int /\ 0 \in Int
      /\ Owner[o.job] \in Customers
  BY <1>1, LedgerAssumption DEF RefundCall
<1>3. /\ account' = [account EXCEPT ![Owner[o.job]] = Book(@, o.amount, -o.amount, 0, o.amount)]
      /\ escrow[o.job].status = "escrowed" /\ escrow[o.job].amount = o.amount
      /\ op[p].stage # "marking" /\ UNCHANGED escrow
  BY <1>1, <1>2 DEF CommitFunds, CallsMatchRows, ExclusiveInv, ChecksStillHold, Undisputed
<1>4. op'[p].stage = "marking" /\ op'[p].job = o.job
  BY <1>1 DEF CommitFunds, TypeOK, RefundCall
<1>5. /\ account'[Owner[o.job]].escrowed = account[Owner[o.job]].escrowed + (-o.amount)
      /\ \A c \in Customers \ {Owner[o.job]} : account'[c] = account[c]
  BY <1>2, <1>3, BookEffect
<1>6. Held(o.job) = o.amount
  BY <1>2, <1>3, HeldByRow
<1>7. Held(o.job)' = 0
  BY <1>4 DEF Held
<1>8. \A k \in Jobs \ {o.job} : Held(k)' = Held(k)
  BY <1>3, <1>4 DEF Held, OneProcess
<1>9. Held(o.job)' = Held(o.job) + (-o.amount)
  BY <1>2, <1>6, <1>7
<1>10. QED
  BY <1>2, <1>5, <1>8, <1>9, BothMove

LEMMA ReconcilesMarkRefund ==
  ASSUME OneProcess, TypeOK, EscrowReconciles, NEW p \in Procs, MarkRefund(p)
  PROVE  EscrowReconciles'
<1>1. PICK o \in RefundCall : o = op[p] /\ o.stage = "marking" /\ UNCHANGED account
  BY CallByStage DEF MarkRefund, TypeOK
<1>2. o.job \in Jobs
  BY <1>1 DEF RefundCall
<1>3. op'[p].stage = "refunded"
  BY DEF MarkRefund, TypeOK
<1>4. escrow'[o.job].status # "escrowed" /\ \A k \in Jobs \ {o.job} : escrow'[k] = escrow[k]
  BY <1>1, <1>2 DEF MarkRefund, TypeOK, RowType
<1>5. Held(o.job) = 0 /\ Held(o.job)' = 0
  BY <1>1, <1>4 DEF Held
<1>6. \A k \in Jobs \ {o.job} : Held(k)' = Held(k)
  BY <1>1, <1>3, <1>4 DEF Held, OneProcess
<1>7. \A k \in Jobs : Held(k)' = Held(k)
  BY <1>5, <1>6
<1>8. QED
  BY <1>1, <1>7, NothingMoves

(* The other steps of a process neither write a row nor move escrowed Qi.  *)
LEMMA ReconcilesElsewhere ==
  ASSUME OneProcess, TypeOK, EscrowReconciles, NEW p \in Procs,
         \/ Begin(p) \/ CheckSettle(p) \/ CreditUnescrowed(p) \/ RecordSettlement(p)
         \/ CheckRefund(p) \/ RecordRefund(p)
  PROVE  EscrowReconciles'
<1>1. UNCHANGED <<account, escrow>>
  BY DEF Begin, BeginEscrow, BeginSettle, BeginRefund, CheckSettle, CreditUnescrowed,
         RecordSettlement, CheckRefund, RecordRefund
<1>2. op[p].stage # "marking"
  BY DEF Begin, BeginEscrow, BeginSettle, BeginRefund, CheckSettle, CreditUnescrowed,
         RecordSettlement, CheckRefund, RecordRefund, Idle
<1>3. op'[p].stage # "marking"
  <2>1. CASE Begin(p)
    BY <2>1 DEF Begin, BeginEscrow, BeginSettle, BeginRefund, TypeOK
  <2>2. CASE CheckSettle(p)
    BY <2>2, CallByStage DEF CheckSettle, TypeOK, SettleCall, Idle
  <2>3. CASE CheckRefund(p)
    BY <2>3, CallByStage DEF CheckRefund, TypeOK, RefundCall, Idle
  <2>4. CASE CreditUnescrowed(p) \/ RecordSettlement(p) \/ RecordRefund(p)
    BY <2>4 DEF CreditUnescrowed, RecordSettlement, RecordRefund, TypeOK, Idle
  <2>5. QED
    BY <2>1, <2>2, <2>3, <2>4
<1>4. \A k \in Jobs : Held(k)' = Held(k)
  BY <1>1, <1>2, <1>3, HeldByRow, HeldByRowNext
<1>5. QED
  BY <1>1, <1>4, NothingMoves

LEMMA ReconcilesDeposit ==
  ASSUME TypeOK, EscrowReconciles, NEW c \in Customers, NEW a \in Amounts, Deposit(c, a)
  PROVE  EscrowReconciles'
<1>1. a \in Int /\ 0 \in Int
  BY LedgerAssumption
<1>2. UNCHANGED <<escrow, op>> /\ account' = [account EXCEPT ![c] = Book(@, a, 0, 0, 0)]
  BY DEF Deposit
<1>3. \A d \in Customers : account'[d].escrowed = account[d].escrowed
  <2>1. /\ account'[c].escrowed = account[c].escrowed + 0 /\ account[c].escrowed \in Int
        /\ \A d \in Customers \ {c} : account'[d] = account[d]
    BY <1>1, <1>2, BookEffect
  <2>2. QED
    BY <2>1
<1>4. \A k \in Jobs : Held(k)' = Held(k)
  BY <1>2 DEF Held
<1>5. QED
  BY <1>3, <1>4, NothingMoves

(* No refund is asked as a dispute, so no row is ever in dispute.          *)
LEMMA NeverDisputed ==
  ASSUME NoDisputes
  PROVE  Spec => []Undisputed
<1>1. Init => Undisputed
  BY DEF Init, Undisputed, NoRow, Idle
<1>2. TypeOK /\ Undisputed /\ [Next]_vars => Undisputed'
  <2> SUFFICES ASSUME TypeOK, Undisputed, [Next]_vars PROVE Undisputed'
    OBVIOUS
  <2>1. CASE UNCHANGED <<escrow, op>>
    BY <2>1 DEF Undisputed
  <2>2. ASSUME NEW p \in Procs, Begin(p) PROVE Undisputed'
    <3>1. ASSUME NEW j \in Jobs, NEW d \in Disputes, BeginRefund(p, j, d)
          PROVE  Undisputed'
      <4>1. d = FALSE
        BY LedgerAssumption DEF NoDisputes
      <4>2. UNCHANGED escrow /\ \A q \in Procs \ {p} : op'[q] = op[q]
        BY <3>1 DEF BeginRefund, TypeOK
      <4>3. op'[p].disputed = FALSE
        BY <3>1, <4>1 DEF BeginRefund, TypeOK
      <4>4. QED
        BY <4>2, <4>3 DEF Undisputed
    <3>2. ASSUME NEW j \in Jobs, NEW a \in Amounts, BeginEscrow(p, j, a)
          PROVE  Undisputed'
      BY <3>2 DEF BeginEscrow, TypeOK, Undisputed
    <3>3. ASSUME NEW j \in Jobs, NEW a \in Amounts, NEW w \in Workers, BeginSettle(p, j, w, a)
          PROVE  Undisputed'
      BY <3>3 DEF BeginSettle, TypeOK, Undisputed
    <3>4. QED
      BY <2>2, <3>1, <3>2, <3>3 DEF Begin
  <2>3. ASSUME NEW p \in Procs, Step(p) \/ Crash(p) PROVE Undisputed'
    <3>1. CASE CheckRefund(p) \/ CommitFunds(p)
      <4>1. op[p] \in RefundCall /\ op[p].disputed = FALSE
        BY <3>1, CallByStage DEF CheckRefund, CommitFunds, TypeOK, Undisputed
      <4>2. UNCHANGED escrow /\ \A q \in Procs \ {p} : op'[q] = op[q]
        BY <3>1 DEF CheckRefund, CommitFunds, TypeOK
      <4>3. op'[p].stage = "idle" \/ op'[p].disputed = FALSE
        BY <3>1, <4>1 DEF CheckRefund, CommitFunds, TypeOK, RefundCall, Idle
      <4>4. QED
        BY <4>2, <4>3 DEF Undisputed
    <3>2. CASE MarkRefund(p)
      <4>1. PICK o \in RefundCall : o = op[p] /\ o.disputed = FALSE
        BY <3>2, CallByStage DEF MarkRefund, TypeOK, Undisputed
      <4>2. op'[p].stage = "refunded" /\ \A q \in Procs \ {p} : op'[q] = op[q]
        BY <3>2 DEF MarkRefund, TypeOK
      <4>3. \A j \in Jobs : escrow'[j].status # "disputed"
        BY <3>2, <4>1 DEF MarkRefund, TypeOK, RowType, RefundCall, Undisputed
      <4>4. QED
        BY <4>2, <4>3 DEF Undisputed
    <3>3. CASE CommitEscrow(p)
      <4>1. op[p].job \in Jobs
        BY <3>3, CallByStage DEF CommitEscrow, TypeOK, EscrowCall
      <4>2. QED
        BY <3>3, <4>1 DEF CommitEscrow, TypeOK, RowType, NoRow, Idle, Undisputed
    <3>4. CASE CommitSettle(p)
      <4>1. \A j \in Jobs : escrow'[j].status \in {escrow[j].status, "settled"}
        BY <3>4 DEF CommitSettle, TypeOK, RowType
      <4>2. op'[p].stage = "settled" /\ \A q \in Procs \ {p} : op'[q] = op[q]
        BY <3>4 DEF CommitSettle, TypeOK
      <4>3. QED
        BY <4>1, <4>2 DEF Undisputed
    <3>5. CASE CheckSettle(p)
      <4>1. op[p] \in SettleCall
        BY <3>5, CallByStage DEF CheckSettle, TypeOK
      <4>2. UNCHANGED escrow /\ \A q \in Procs \ {p} : op'[q] = op[q]
        BY <3>5 DEF CheckSettle, TypeOK
      <4>3. op'[p].stage \in {"idle", "settling"}
        BY <3>5, <4>1 DEF CheckSettle, TypeOK, SettleCall, Idle
      <4>4. QED
        BY <4>2, <4>3 DEF Undisputed
    <3>6. CASE CreditUnescrowed(p) \/ RecordSettlement(p) \/ RecordRefund(p) \/ Crash(p)
      BY <3>6 DEF CreditUnescrowed, RecordSettlement, RecordRefund, Crash, TypeOK, Idle, Undisputed
    <3>7. QED
      BY <2>3, <3>1, <3>2, <3>3, <3>4, <3>5, <3>6 DEF Step
  <2>4. QED
    BY <2>1, <2>2, <2>3 DEF Next, Deposit, vars
<1>3. QED
  BY <1>1, <1>2, TypeCorrect, PTL DEF Spec

(* One process that completes its calls and refunds no job as disputed     *)
(* keeps each customer's escrowed balance equal to the sum of its open     *)
(* escrows, in every state: between the two commits of a refund, too.      *)
THEOREM EscrowsReconcile ==
  ASSUME OneProcess, IsFiniteSet(Jobs), Crashable = {}, NoDisputes
  PROVE  Spec => []EscrowReconciles
<1>1. Init => EscrowReconciles
  <2> SUFFICES ASSUME Init, NEW c \in Customers
               PROVE  account[c].escrowed = SumFunctionOnSet(HeldOf, JobsOf(c))
    BY DEF EscrowReconciles, HeldOf, JobsOf
  <2>1. \A j \in JobsOf(c) : HeldOf[j] = 0
    BY DEF Init, HeldOf, Held, NoRow, JobsOf
  <2>2. IsFiniteSet(JobsOf(c))
    BY FS_Subset DEF JobsOf
  <2>3. QED
    BY <2>1, <2>2, SumZero DEF Init
<1>2. /\ TypeOK /\ TypeOK' /\ CallsMatchRows /\ ExclusiveInv /\ Undisputed
      /\ EscrowReconciles /\ [Next]_vars
      => EscrowReconciles'
  <2> SUFFICES ASSUME TypeOK, TypeOK', CallsMatchRows, ExclusiveInv, Undisputed,
                      EscrowReconciles, [Next]_vars
               PROVE  EscrowReconciles'
    OBVIOUS
  <2>1. CASE UNCHANGED vars
    BY <2>1, NothingMoves DEF vars, Held
  <2>2. ASSUME NEW p \in Procs, Crash(p) PROVE EscrowReconciles'
    BY <2>2 DEF Crash
  <2>3. QED
    BY <2>1, <2>2, ReconcilesDeposit, ReconcilesElsewhere, ReconcilesCommitEscrow,
       ReconcilesCommitSettle, ReconcilesCommitFunds, ReconcilesMarkRefund DEF Next, Step
<1>3. QED
  BY <1>1, <1>2, ExclusiveInvariance, TypeCorrect, CallsAlwaysMatchRows, NeverDisputed, PTL
     DEF Spec

----
\* The refinement of EscrowContract

(* Every amount in a call or a row is one that a caller passed.            *)
AmountsArePassed ==
  /\ \A p \in Procs : op[p].stage = "escrow" => op[p].amount \in Amounts
  /\ \A p \in Procs : op[p].stage = "credit" => op[p].qi \in Amounts
  /\ \A j \in Jobs : escrow[j].status # "absent" => escrow[j].amount \in Amounts

(* A row has no figures before there is a job, and one that is still open  *)
(* has had no fee and no refund.                                           *)
OpenRowsAreFresh ==
  \A j \in Jobs :
    /\ escrow[j].status = "absent" => escrow[j] = NoRow
    /\ escrow[j].status = "escrowed" => escrow[j].fee = 0 /\ escrow[j].refunded = 0

ContractInv == AmountsArePassed /\ OpenRowsAreFresh

LEMMA ContractInvHolds == Spec => []ContractInv
<1>1. Init => ContractInv
  BY DEF Init, ContractInv, AmountsArePassed, OpenRowsAreFresh, NoRow, Idle
<1>2. TypeOK /\ CallsMatchRows /\ ContractInv /\ [Next]_vars => ContractInv'
  <2> SUFFICES ASSUME TypeOK, CallsMatchRows, ContractInv, [Next]_vars PROVE ContractInv'
    OBVIOUS
  <2>1. CASE UNCHANGED <<escrow, op>>
    BY <2>1 DEF ContractInv, AmountsArePassed, OpenRowsAreFresh
  <2>2. ASSUME NEW p \in Procs, UNCHANGED escrow, \A q \in Procs \ {p} : op'[q] = op[q],
               op'[p].stage = "escrow" => op'[p].amount \in Amounts,
               op'[p].stage = "credit" => op'[p].qi \in Amounts
        PROVE  ContractInv'
    BY <2>2 DEF ContractInv, AmountsArePassed, OpenRowsAreFresh
  <2>3. ASSUME NEW p \in Procs, NEW j \in Jobs, NEW a \in Amounts, BeginEscrow(p, j, a)
        PROVE  ContractInv'
    BY <2>2, <2>3 DEF BeginEscrow, TypeOK
  <2>4. ASSUME NEW p \in Procs, NEW j \in Jobs, NEW w \in Workers, NEW a \in Amounts,
               BeginSettle(p, j, w, a)
        PROVE  ContractInv'
    BY <2>2, <2>4 DEF BeginSettle, TypeOK
  <2>5. ASSUME NEW p \in Procs, NEW j \in Jobs, NEW d \in Disputes, BeginRefund(p, j, d)
        PROVE  ContractInv'
    BY <2>2, <2>5 DEF BeginRefund, TypeOK
  <2>6. ASSUME NEW p \in Procs,
               \/ CheckSettle(p) \/ CreditUnescrowed(p) \/ RecordSettlement(p) \/ CheckRefund(p)
               \/ CommitFunds(p) \/ RecordRefund(p) \/ Crash(p)
        PROVE  ContractInv'
    <3>1. UNCHANGED escrow /\ \A q \in Procs \ {p} : op'[q] = op[q]
      BY <2>6 DEF CheckSettle, CreditUnescrowed, RecordSettlement, CheckRefund, CommitFunds,
                  RecordRefund, Crash, TypeOK
    <3>2. op'[p].stage \notin {"escrow", "credit"}
      <4>1. CASE CheckSettle(p)
        BY <4>1, CallByStage DEF CheckSettle, TypeOK, SettleCall, Idle
      <4>2. CASE CheckRefund(p) \/ CommitFunds(p)
        BY <4>2, CallByStage DEF CheckRefund, CommitFunds, TypeOK, RefundCall, Idle
      <4>3. CASE CreditUnescrowed(p) \/ RecordSettlement(p) \/ RecordRefund(p) \/ Crash(p)
        BY <4>3 DEF CreditUnescrowed, RecordSettlement, RecordRefund, Crash, TypeOK, Idle
      <4>4. QED
        BY <2>6, <4>1, <4>2, <4>3
    <3>3. QED
      BY <2>2, <3>1, <3>2
  <2>7. ASSUME NEW p \in Procs, CommitEscrow(p) PROVE ContractInv'
    <3>1. PICK o \in EscrowCall : o = op[p] /\ o.amount \in Amounts
      BY <2>7, CallByStage DEF CommitEscrow, TypeOK, ContractInv, AmountsArePassed
    <3>2. o.job \in Jobs /\ \A k \in Jobs \ {o.job} : escrow'[k] = escrow[k]
      BY <2>7, <3>1 DEF CommitEscrow, TypeOK, EscrowCall
    <3>3. /\ escrow'[o.job].status = "escrowed" /\ escrow'[o.job].amount = o.amount
          /\ escrow'[o.job].fee = 0 /\ escrow'[o.job].refunded = 0
      BY <2>7, <3>1, <3>2 DEF CommitEscrow, TypeOK, NoRow
    <3>4. op'[p] = Idle /\ \A q \in Procs \ {p} : op'[q] = op[q]
      BY <2>7 DEF CommitEscrow, TypeOK
    <3>5. QED
      BY <3>1, <3>2, <3>3, <3>4 DEF ContractInv, AmountsArePassed, OpenRowsAreFresh, Idle
  <2>8. ASSUME NEW p \in Procs, CommitSettle(p) \/ MarkRefund(p) PROVE ContractInv'
    <3>1. PICK o \in SettleCall \cup RefundCall : o = op[p]
      BY <2>8, CallByStage DEF CommitSettle, MarkRefund, TypeOK
    <3>2. /\ o.job \in Jobs /\ \A k \in Jobs \ {o.job} : escrow'[k] = escrow[k]
          /\ escrow[o.job].status # "absent"
      BY <2>8, <3>1 DEF CommitSettle, MarkRefund, CallsMatchRows, TypeOK, SettleCall, RefundCall
    <3>3. /\ escrow'[o.job].status \in {"settled", "refunded", "disputed"}
          /\ escrow'[o.job].amount = escrow[o.job].amount
      <4>1. PICK row \in RowType : row = escrow[o.job]
        BY <3>2 DEF TypeOK
      <4>2. PICK new : escrow' = [escrow EXCEPT ![o.job] = new]
                       /\ new.status \in {"settled", "refunded", "disputed"}
                       /\ new.amount = row.amount
        <5>1. CASE CommitSettle(p)
          <6>1. PICK s, f, y, r :
                  escrow' = [escrow EXCEPT ![o.job] =
                               [row EXCEPT !.settled = s, !.fee = f, !.payout = y,
                                           !.refunded = r, !.status = "settled"]]
            BY <3>1, <4>1, <5>1 DEF CommitSettle
          <6>2. PICK new : new = [row EXCEPT !.settled = s, !.fee = f, !.payout = y,
                                             !.refunded = r, !.status = "settled"]
            OBVIOUS
          <6>3. new.status = "settled" /\ new.amount = row.amount
            BY <4>1, <6>2 DEF RowType
          <6>4. QED
            BY <6>1, <6>2, <6>3
        <5>2. CASE MarkRefund(p)
          <6>1. PICK r, st :
                  /\ st \in {"refunded", "disputed"}
                  /\ escrow' = [escrow EXCEPT ![o.job] =
                                  [row EXCEPT !.refunded = r, !.status = st]]
            BY <3>1, <4>1, <5>2 DEF MarkRefund
          <6>2. PICK new : new = [row EXCEPT !.refunded = r, !.status = st]
            OBVIOUS
          <6>3. new.status = st /\ new.amount = row.amount
            BY <4>1, <6>2 DEF RowType
          <6>4. QED
            BY <6>1, <6>2, <6>3
        <5>3. QED
          BY <2>8, <5>1, <5>2
      <4>3. QED
        BY <3>2, <4>1, <4>2 DEF TypeOK
    <3>4. op'[p].stage \in {"settled", "refunded"} /\ \A q \in Procs \ {p} : op'[q] = op[q]
      BY <2>8 DEF CommitSettle, MarkRefund, TypeOK
    <3>5. QED
      BY <3>1, <3>2, <3>3, <3>4 DEF ContractInv, AmountsArePassed, OpenRowsAreFresh
  <2>9. QED
    BY <2>1, <2>3, <2>4, <2>5, <2>6, <2>7, <2>8 DEF Next, Begin, Step, Deposit, vars
<1>3. QED
  BY <1>1, <1>2, TypeCorrect, CallsAlwaysMatchRows, PTL DEF Spec

(* The mapping of the contract's variables.                                *)
Available == [c \in Customers |-> account[c].available]
Deals == [j \in Jobs |-> Deal(j)]
Shares == UNION {0..a : a \in Amounts}

LEMMA SharesOfAmounts ==
  ASSUME NEW a \in Amounts, NEW s \in Nat, s <= a
  PROVE  s \in Shares
<1>1. s \in 0..a
  BY LedgerAssumption
<1>2. QED
  BY <1>1 DEF Shares

LEMMA AvailableMoves ==
  ASSUME TypeOK, NEW c \in Customers, NEW n \in Int,
         account'[c].available = account[c].available + n,
         \A d \in Customers \ {c} : account'[d] = account[d]
  PROVE  Available' = [Available EXCEPT ![c] = Available[c] + n]
  BY DEF Available

(* The deal of a job, once it is known whether its funds are on their way  *)
(* back.                                                                   *)
DealOf(row, paid, back) ==
  LET phase == CASE row.status = "absent" -> "none"
                 [] row.status = "settled" -> "settled"
                 [] row.status \in {"refunded", "disputed"} -> "refunded"
                 [] row.status = "escrowed" -> IF back THEN "refunded" ELSE "open"
  IN  [phase |-> phase, amount |-> row.amount, worker |-> paid, platform |-> row.fee,
       customer |-> IF phase = "refunded" THEN row.amount ELSE row.refunded]

Back(j) == \E p \in Procs : op[p].stage = "marking" /\ op[p].job = j

LEMMA DealByRow ==
  ASSUME NEW j \in Jobs
  PROVE  /\ ~Back(j) => Deal(j) = DealOf(escrow[j], paidOut[j], FALSE)
         /\ Back(j) => Deal(j) = DealOf(escrow[j], paidOut[j], TRUE)
  BY DEF Deal, DealOf, Phase, Back

LEMMA DealByRowNext ==
  ASSUME NEW j \in Jobs
  PROVE  /\ ~Back(j)' => Deal(j)' = DealOf(escrow'[j], paidOut'[j], FALSE)
         /\ Back(j)' => Deal(j)' = DealOf(escrow'[j], paidOut'[j], TRUE)
  BY DEF Deal, DealOf, Phase, Back

LEMMA DealByStatus ==
  ASSUME NEW row, NEW paid
  PROVE  /\ row.status = "absent" =>
              DealOf(row, paid, FALSE) =
                [phase |-> "none", amount |-> row.amount, worker |-> paid,
                 platform |-> row.fee, customer |-> row.refunded]
         /\ row.status = "escrowed" =>
              DealOf(row, paid, FALSE) =
                [phase |-> "open", amount |-> row.amount, worker |-> paid,
                 platform |-> row.fee, customer |-> row.refunded]
         /\ row.status = "settled" =>
              DealOf(row, paid, FALSE) =
                [phase |-> "settled", amount |-> row.amount, worker |-> paid,
                 platform |-> row.fee, customer |-> row.refunded]
         /\ row.status = "escrowed" =>
              DealOf(row, paid, TRUE) =
                [phase |-> "refunded", amount |-> row.amount, worker |-> paid,
                 platform |-> row.fee, customer |-> row.amount]
         /\ row.status = "refunded" =>
              DealOf(row, paid, FALSE) =
                [phase |-> "refunded", amount |-> row.amount, worker |-> paid,
                 platform |-> row.fee, customer |-> row.amount]
  BY DEF DealOf

DealRecord ==
  [phase : {"none", "open", "settled", "refunded"}, amount : Int, worker : Int,
   platform : Int, customer : Int]

LEMMA DealFields ==
  ASSUME NEW d \in DealRecord
  PROVE  d = [phase |-> d.phase, amount |-> d.amount, worker |-> d.worker,
              platform |-> d.platform, customer |-> d.customer]
  BY DEF DealRecord

LEMMA DealOpens ==
  ASSUME NEW d \in DealRecord, NEW a \in Int
  PROVE  [d EXCEPT !.phase = "open", !.amount = a] =
           [phase |-> "open", amount |-> a, worker |-> d.worker,
            platform |-> d.platform, customer |-> d.customer]
<1>1. PICK x \in DealRecord : x = [d EXCEPT !.phase = "open", !.amount = a]
  BY DEF DealRecord
<1>2. /\ x.phase = "open" /\ x.amount = a /\ x.worker = d.worker
      /\ x.platform = d.platform /\ x.customer = d.customer
  BY <1>1 DEF DealRecord
<1>3. QED
  BY <1>1, <1>2, DealFields

LEMMA DealSettles ==
  ASSUME NEW d \in DealRecord, NEW e \in Int, NEW f \in Int, NEW r \in Int
  PROVE  [d EXCEPT !.phase = "settled", !.worker = e, !.platform = f, !.customer = r] =
           [phase |-> "settled", amount |-> d.amount, worker |-> e,
            platform |-> f, customer |-> r]
<1>1. PICK x \in DealRecord :
        x = [d EXCEPT !.phase = "settled", !.worker = e, !.platform = f, !.customer = r]
  BY DEF DealRecord
<1>2. /\ x.phase = "settled" /\ x.amount = d.amount /\ x.worker = e
      /\ x.platform = f /\ x.customer = r
  BY <1>1 DEF DealRecord
<1>3. QED
  BY <1>1, <1>2, DealFields

LEMMA DealRefunds ==
  ASSUME NEW d \in DealRecord, NEW r \in Int
  PROVE  [d EXCEPT !.phase = "refunded", !.customer = r] =
           [phase |-> "refunded", amount |-> d.amount, worker |-> d.worker,
            platform |-> d.platform, customer |-> r]
<1>1. PICK x \in DealRecord : x = [d EXCEPT !.phase = "refunded", !.customer = r]
  BY DEF DealRecord
<1>2. /\ x.phase = "refunded" /\ x.amount = d.amount /\ x.worker = d.worker
      /\ x.platform = d.platform /\ x.customer = r
  BY <1>1 DEF DealRecord
<1>3. QED
  BY <1>1, <1>2, DealFields

LEMMA DealsChange ==
  ASSUME NEW j \in Jobs, NEW d, Deal(j)' = d, \A k \in Jobs \ {j} : Deal(k)' = Deal(k)
  PROVE  Deals' = [Deals EXCEPT ![j] = d]
  BY DEF Deals

(* A row that is not written keeps its deal, if no refund begins or ends   *)
(* between its two commits.                                                *)
LEMMA DealStays ==
  ASSUME OneProcess, NEW p \in Procs, NEW k \in Jobs,
         escrow'[k] = escrow[k], paidOut'[k] = paidOut[k],
         op[p].stage = "marking" => op[p].job # k,
         op'[p].stage = "marking" => op'[p].job # k
  PROVE  Deal(k)' = Deal(k)
<1>1. ~Back(k) /\ ~Back(k)'
  BY DEF Back, OneProcess
<1>2. QED
  BY <1>1, DealByRow, DealByRowNext

LEMMA OpensDeal ==
  ASSUME OneProcess, TypeOK, CallsMatchRows, ExclusiveInv, ContractInv,
         NEW p \in Procs, CommitEscrow(p)
  PROVE  Contract!Next
<1>1. PICK o \in EscrowCall : o = op[p] /\ o.stage = "escrow"
  BY CallByStage DEF CommitEscrow, TypeOK
<1>2. /\ o.job \in Jobs /\ o.amount \in Nat /\ 0 \in Int
      /\ o.amount \in Int /\ -o.amount \in Int
      /\ Owner[o.job] \in Customers
  BY <1>1, LedgerAssumption DEF EscrowCall
<1>3. o.amount \in Shares
  BY <1>1, <1>2, SharesOfAmounts DEF ContractInv, AmountsArePassed
<1>4. /\ account' = [account EXCEPT ![Owner[o.job]] = Book(@, -o.amount, o.amount, 0, 0)]
      /\ UNCHANGED <<payable, paidOut>> /\ op'[p].stage = "idle"
      /\ escrow[o.job] = NoRow /\ paidOut[o.job] = 0
      /\ account[Owner[o.job]].available + Tol >= o.amount
  BY <1>1, <1>2 DEF CommitEscrow, CallsMatchRows, ContractInv, OpenRowsAreFresh, ExclusiveInv,
                    ChecksStillHold, PaidOncePerJob, TypeOK, Idle
<1>5. /\ escrow'[o.job] = [NoRow EXCEPT !.amount = o.amount, !.status = "escrowed"]
      /\ \A k \in Jobs \ {o.job} : escrow'[k] = escrow[k]
  BY <1>1, <1>2 DEF CommitEscrow, TypeOK
<1>6. /\ account'[Owner[o.job]].available = account[Owner[o.job]].available + (-o.amount)
      /\ \A c \in Customers \ {Owner[o.job]} : account'[c] = account[c]
      /\ account[Owner[o.job]].available \in Int
  BY <1>2, <1>4, BookEffect
<1>7. Available' = [Available EXCEPT ![Owner[o.job]] = Available[Owner[o.job]] - o.amount]
  <2>1. Available' = [Available EXCEPT ![Owner[o.job]] = Available[Owner[o.job]] + (-o.amount)]
    BY <1>2, <1>6, AvailableMoves
  <2>2. Available[Owner[o.job]] + (-o.amount) = Available[Owner[o.job]] - o.amount
    BY <1>2, <1>6 DEF Available
  <2>3. QED
    BY <2>1, <2>2
<1>8. ~Back(o.job) /\ ~Back(o.job)'
  BY <1>1, <1>4 DEF Back, OneProcess
<1>9. Deal(o.job) = Contract!NoDeal
  <2>1. PICK row : row = NoRow
    OBVIOUS
  <2>2. Deal(o.job) = DealOf(row, 0, FALSE)
    BY <1>2, <1>4, <1>8, <2>1, DealByRow
  <2>3. DealOf(row, 0, FALSE) = [phase |-> "none", amount |-> row.amount, worker |-> 0,
                                 platform |-> row.fee, customer |-> row.refunded]
    BY <2>1, DealByStatus DEF NoRow
  <2>4. row.amount = 0 /\ row.fee = 0 /\ row.refunded = 0
    BY <2>1 DEF NoRow
  <2>5. QED
    BY <2>2, <2>3, <2>4 DEF Contract!NoDeal
<1>10. Deal(o.job)' = [Contract!NoDeal EXCEPT !.phase = "open", !.amount = o.amount]
  <2>1. PICK row : row = [NoRow EXCEPT !.amount = o.amount, !.status = "escrowed"]
    OBVIOUS
  <2>2. row.status = "escrowed" /\ row.amount = o.amount /\ row.fee = 0 /\ row.refunded = 0
    BY <2>1 DEF NoRow
  <2>3. Deal(o.job)' = DealOf(row, 0, FALSE)
    BY <1>2, <1>4, <1>5, <1>8, <2>1, DealByRowNext
  <2>4. DealOf(row, 0, FALSE) = [phase |-> "open", amount |-> o.amount, worker |-> 0,
                                 platform |-> 0, customer |-> 0]
    BY <2>2, DealByStatus
  <2>5. [Contract!NoDeal EXCEPT !.phase = "open", !.amount = o.amount] =
          [phase |-> "open", amount |-> o.amount, worker |-> 0, platform |-> 0, customer |-> 0]
    <3>1. Contract!NoDeal \in DealRecord
      BY DEF DealRecord, Contract!NoDeal
    <3>2. PICK d \in DealRecord : d = Contract!NoDeal
      BY <3>1
    <3>3. d.worker = 0 /\ d.platform = 0 /\ d.customer = 0
      BY <3>2 DEF Contract!NoDeal
    <3>4. [d EXCEPT !.phase = "open", !.amount = o.amount] =
            [phase |-> "open", amount |-> o.amount, worker |-> d.worker,
             platform |-> d.platform, customer |-> d.customer]
      BY <1>2, DealOpens
    <3>5. QED
      BY <3>2, <3>3, <3>4
  <2>6. QED
    BY <2>3, <2>4, <2>5
<1>11. \A k \in Jobs \ {o.job} : Deal(k)' = Deal(k)
  BY <1>1, <1>4, <1>5, DealStays
<1>12. Deals' = [Deals EXCEPT ![o.job] = [Contract!NoDeal EXCEPT !.phase = "open",
                                                               !.amount = o.amount]]
  BY <1>2, <1>10, <1>11, DealsChange
<1>13. Deals[o.job] = Contract!NoDeal
  BY <1>2, <1>9 DEF Deals
<1>14. Available[Owner[o.job]] + Tol >= o.amount
  BY <1>2, <1>4 DEF Available
<1>15. Contract!Open(o.job, o.amount)
  BY <1>4, <1>7, <1>12, <1>13, <1>14 DEF Contract!Open, Available, Deals
<1>16. QED
  BY <1>2, <1>3, <1>15 DEF Contract!Next, Shares

LEMMA SettlesDeal ==
  ASSUME OneProcess, TypeOK, CallsMatchRows, ExclusiveInv, ContractInv,
         NEW p \in Procs, CommitSettle(p)
  PROVE  Contract!Next
<1>1. PICK o \in SettleCall : o = op[p] /\ o.stage = "settling"
  BY CallByStage DEF CommitSettle, TypeOK
<1>2. /\ o.job \in Jobs /\ o.worker \in Workers /\ o.amount \in Nat /\ o.qi \in Nat
      /\ o.qi <= o.amount /\ Owner[o.job] \in Customers
  BY <1>1, LedgerAssumption DEF SettleCall
<1>3. PICK f \in Nat : f = Fee(o.qi) /\ o.qi - f \in Nat
  BY <1>2, FeeBounds
<1>4. PICK e \in Nat, r \in Nat, m \in Int :
        e = o.qi - f /\ r = o.amount - o.qi /\ m = -o.amount /\ e + f + r = o.amount
  BY <1>2, <1>3
<1>5. /\ account' = [account EXCEPT ![Owner[o.job]] = Book(@, r, m, o.qi, r)]
      /\ payable' = [payable EXCEPT ![o.worker] = @ + e]
      /\ paidOut' = [paidOut EXCEPT ![o.job] = @ + e]
      /\ escrow' = [escrow EXCEPT ![o.job] =
                      [@ EXCEPT !.settled = o.qi, !.fee = f, !.payout = e, !.refunded = r,
                                !.status = "settled"]]
      /\ op'[p].stage = "settled"
  BY <1>1, <1>3, <1>4 DEF CommitSettle, TypeOK
<1>6. /\ escrow[o.job].status = "escrowed" /\ escrow[o.job].amount = o.amount
      /\ escrow[o.job].fee = 0 /\ escrow[o.job].refunded = 0 /\ paidOut[o.job] = 0
      /\ o.amount \in Amounts
  BY <1>1, <1>2 DEF CallsMatchRows, ContractInv, AmountsArePassed, OpenRowsAreFresh, ExclusiveInv,
                    ChecksStillHold, PaidOncePerJob
<1>7. e \in Shares /\ f \in Shares /\ r \in Shares
  <2>1. e <= o.amount /\ f <= o.amount /\ r <= o.amount
    <3>1. PICK n \in Nat : n = o.amount
      BY <1>2
    <3>2. e + f + r = n
      BY <1>4, <3>1
    <3>3. e <= n /\ f <= n /\ r <= n
      BY <3>2
    <3>4. QED
      BY <3>1, <3>3
  <2>2. QED
    BY <1>6, <2>1, SharesOfAmounts
<1>8. PICK row : row = [escrow[o.job] EXCEPT !.settled = o.qi, !.fee = f, !.payout = e,
                                            !.refunded = r, !.status = "settled"]
  OBVIOUS
<1>9. row.status = "settled" /\ row.amount = o.amount /\ row.fee = f /\ row.refunded = r
  BY <1>2, <1>6, <1>8 DEF TypeOK, RowType
<1>10. escrow'[o.job] = row /\ \A k \in Jobs \ {o.job} : escrow'[k] = escrow[k]
  BY <1>2, <1>5, <1>8 DEF TypeOK
<1>11. paidOut'[o.job] = e /\ \A k \in Jobs \ {o.job} : paidOut'[k] = paidOut[k]
  <2>1. paidOut'[o.job] = 0 + e /\ \A k \in Jobs \ {o.job} : paidOut'[k] = paidOut[k]
    BY <1>2, <1>5, <1>6 DEF TypeOK
  <2>2. QED
    BY <2>1
<1>12. ~Back(o.job) /\ ~Back(o.job)'
  BY <1>1, <1>5 DEF Back, OneProcess
<1>13. Deal(o.job) = [phase |-> "open", amount |-> o.amount, worker |-> 0, platform |-> 0,
                      customer |-> 0]
  <2>1. PICK old : old = escrow[o.job]
    OBVIOUS
  <2>2. Deal(o.job) = DealOf(old, 0, FALSE)
    BY <1>2, <1>6, <1>12, <2>1, DealByRow
  <2>3. DealOf(old, 0, FALSE) = [phase |-> "open", amount |-> old.amount, worker |-> 0,
                                 platform |-> old.fee, customer |-> old.refunded]
    BY <1>6, <2>1, DealByStatus
  <2>4. QED
    BY <1>6, <2>1, <2>2, <2>3
<1>14. Deal(o.job)' = [phase |-> "settled", amount |-> o.amount, worker |-> e, platform |-> f,
                       customer |-> r]
  <2>1. Deal(o.job)' = DealOf(row, e, FALSE)
    BY <1>2, <1>10, <1>11, <1>12, DealByRowNext
  <2>2. DealOf(row, e, FALSE) = [phase |-> "settled", amount |-> row.amount, worker |-> e,
                                 platform |-> row.fee, customer |-> row.refunded]
    BY <1>9, DealByStatus
  <2>3. QED
    BY <1>9, <2>1, <2>2
<1>15. PICK d \in DealRecord : d = Deal(o.job) /\ d.phase = "open" /\ d.amount = o.amount
  <2>1. Deal(o.job) \in DealRecord
    BY <1>2, <1>13 DEF DealRecord
  <2>2. QED
    BY <1>13, <2>1
<1>16. Deal(o.job)' = [d EXCEPT !.phase = "settled", !.worker = e, !.platform = f, !.customer = r]
  <2>1. \A x, y, z \in Int :
          [d EXCEPT !.phase = "settled", !.worker = x, !.platform = y, !.customer = z] =
            [phase |-> "settled", amount |-> d.amount, worker |-> x, platform |-> y,
             customer |-> z]
    BY DealSettles
  <2>2. [d EXCEPT !.phase = "settled", !.worker = e, !.platform = f, !.customer = r] =
          [phase |-> "settled", amount |-> d.amount, worker |-> e, platform |-> f,
           customer |-> r]
    <3>1. e \in Int /\ f \in Int /\ r \in Int
      OBVIOUS
    <3>2. QED
      BY <2>1, <3>1, Zenon
  <2>3. QED
    BY <1>14, <1>15, <2>2
<1>17. \A k \in Jobs \ {o.job} : Deal(k)' = Deal(k)
  BY <1>1, <1>5, <1>10, <1>11, DealStays
<1>18. Deals' = [Deals EXCEPT ![o.job] = [Deals[o.job] EXCEPT
                   !.phase = "settled", !.worker = e, !.platform = f, !.customer = r]]
  <2>1. Deals[o.job] = d
    BY <1>2, <1>15 DEF Deals
  <2>2. QED
    BY <1>2, <1>16, <1>17, <2>1, DealsChange
<1>19. Available' = [Available EXCEPT ![Owner[o.job]] = Available[Owner[o.job]] + r]
  <2>1. /\ account'[Owner[o.job]].available = account[Owner[o.job]].available + r
        /\ \A c \in Customers \ {Owner[o.job]} : account'[c] = account[c]
    <3>1. r \in Int /\ m \in Int /\ o.qi \in Int
      BY <1>2
    <3>2. QED
      BY <1>2, <1>5, <3>1, BookEffect
  <2>2. QED
    BY <1>2, <2>1, AvailableMoves
<1>20. Deals[o.job].phase = "open" /\ e + f + r = Deals[o.job].amount
  BY <1>2, <1>4, <1>15 DEF Deals
<1>21. Contract!Settle(o.job, o.worker, e, f, r)
  BY <1>5, <1>18, <1>19, <1>20 DEF Contract!Settle, Available, Deals
<1>22. QED
  BY <1>2, <1>7, <1>21 DEF Contract!Next, Shares

(* The first commit of a refund closes the deal ...                        *)
LEMMA RefundsDeal ==
  ASSUME OneProcess, TypeOK, CallsMatchRows, ExclusiveInv, Undisputed, ContractInv,
         NEW p \in Procs, CommitFunds(p)
  PROVE  Contract!Next
<1>1. PICK o \in RefundCall : o = op[p] /\ o.stage = "refunding"
  BY CallByStage DEF CommitFunds, TypeOK
<1>2. /\ o.job \in Jobs /\ o.amount \in Nat /\ Owner[o.job] \in Customers
      /\ o.amount \in Int /\ -o.amount \in Int /\ 0 \in Int
  BY <1>1, LedgerAssumption DEF RefundCall
<1>3. /\ account' = [account EXCEPT ![Owner[o.job]] = Book(@, o.amount, -o.amount, 0, o.amount)]
      /\ UNCHANGED <<escrow, payable, paidOut>>
      /\ op'[p].stage = "marking" /\ op'[p].job = o.job
  BY <1>1 DEF CommitFunds, TypeOK, RefundCall
<1>4. /\ escrow[o.job].status = "escrowed" /\ escrow[o.job].amount = o.amount
      /\ escrow[o.job].fee = 0 /\ escrow[o.job].refunded = 0 /\ paidOut[o.job] = 0
  BY <1>1, <1>2 DEF CallsMatchRows, ContractInv, OpenRowsAreFresh, ExclusiveInv, ChecksStillHold,
                    PaidOncePerJob, Undisputed
<1>5. ~Back(o.job) /\ Back(o.job)'
  BY <1>1, <1>3 DEF Back, OneProcess
<1>6. PICK row : row = escrow[o.job] /\ row = escrow'[o.job]
  BY <1>3
<1>7. Deal(o.job) = [phase |-> "open", amount |-> o.amount, worker |-> 0, platform |-> 0,
                     customer |-> 0]
  <2>1. Deal(o.job) = DealOf(row, 0, FALSE)
    BY <1>2, <1>4, <1>5, <1>6, DealByRow
  <2>2. DealOf(row, 0, FALSE) = [phase |-> "open", amount |-> row.amount, worker |-> 0,
                                 platform |-> row.fee, customer |-> row.refunded]
    BY <1>4, <1>6, DealByStatus
  <2>3. QED
    BY <1>4, <1>6, <2>1, <2>2
<1>8. Deal(o.job)' = [phase |-> "refunded", amount |-> o.amount, worker |-> 0, platform |-> 0,
                      customer |-> o.amount]
  <2>1. Deal(o.job)' = DealOf(row, 0, TRUE)
    BY <1>2, <1>3, <1>4, <1>5, <1>6, DealByRowNext
  <2>2. DealOf(row, 0, TRUE) = [phase |-> "refunded", amount |-> row.amount, worker |-> 0,
                                platform |-> row.fee, customer |-> row.amount]
    BY <1>4, <1>6, DealByStatus
  <2>3. QED
    BY <1>4, <1>6, <2>1, <2>2
<1>9. PICK d \in DealRecord : /\ d = Deal(o.job) /\ d.phase = "open" /\ d.amount = o.amount
                              /\ d.worker = 0 /\ d.platform = 0
  <2>1. Deal(o.job) \in DealRecord
    BY <1>2, <1>7 DEF DealRecord
  <2>2. QED
    BY <1>7, <2>1
<1>10. Deal(o.job)' = [d EXCEPT !.phase = "refunded", !.customer = d.amount]
  <2>1. d.amount \in Int
    BY <1>2, <1>9
  <2>2. [d EXCEPT !.phase = "refunded", !.customer = d.amount] =
          [phase |-> "refunded", amount |-> d.amount, worker |-> d.worker,
           platform |-> d.platform, customer |-> d.amount]
    BY <2>1, DealRefunds
  <2>3. QED
    BY <1>8, <1>9, <2>2
<1>11. \A k \in Jobs \ {o.job} : Deal(k)' = Deal(k)
  BY <1>1, <1>3, DealStays
<1>12. Deals[o.job] = d
  BY <1>2, <1>9 DEF Deals
<1>13. Deals' = [Deals EXCEPT ![o.job] =
                   [Deals[o.job] EXCEPT !.phase = "refunded", !.customer = Deals[o.job].amount]]
  BY <1>2, <1>10, <1>11, <1>12, DealsChange
<1>14. Available' = [Available EXCEPT ![Owner[o.job]] =
                       Available[Owner[o.job]] + Deals[o.job].amount]
  <2>1. /\ account'[Owner[o.job]].available = account[Owner[o.job]].available + o.amount
        /\ \A c \in Customers \ {Owner[o.job]} : account'[c] = account[c]
    BY <1>2, <1>3, BookEffect
  <2>2. QED
    BY <1>2, <1>9, <1>12, <2>1, AvailableMoves
<1>15. Contract!Refund(o.job)
  BY <1>3, <1>9, <1>12, <1>13, <1>14 DEF Contract!Refund, Available, Deals
<1>16. QED
  BY <1>2, <1>15 DEF Contract!Next

(* ... and the second one changes nothing that the contract sees.          *)
LEMMA MarkStutters ==
  ASSUME OneProcess, TypeOK, ExclusiveInv, Undisputed, NEW p \in Procs, MarkRefund(p)
  PROVE  UNCHANGED <<Available, payable, Deals>>
<1>1. PICK o \in RefundCall : o = op[p] /\ o.stage = "marking" /\ o.disputed = FALSE
  BY CallByStage DEF MarkRefund, TypeOK, Undisputed
<1>2. o.job \in Jobs /\ UNCHANGED <<account, payable, paidOut>>
  BY <1>1 DEF RefundCall, MarkRefund
<1>3. PICK row \in RowType : row = escrow[o.job] /\ row.status = "escrowed"
  BY <1>1, <1>2 DEF TypeOK, ExclusiveInv, ChecksStillHold, Undisputed
<1>4. PICK new : new = [row EXCEPT !.refunded = o.amount, !.status = "refunded"]
  OBVIOUS
<1>5. new.status = "refunded" /\ new.amount = row.amount /\ new.fee = row.fee
  BY <1>3, <1>4 DEF RowType
<1>6. escrow' = [escrow EXCEPT ![o.job] = new] /\ op'[p].stage = "refunded"
  BY <1>1, <1>3, <1>4 DEF MarkRefund, TypeOK
<1>7. escrow'[o.job] = new /\ \A k \in Jobs \ {o.job} : escrow'[k] = escrow[k]
  BY <1>2, <1>6 DEF TypeOK
<1>8. Back(o.job) /\ ~Back(o.job)'
  BY <1>1, <1>6 DEF Back, OneProcess
<1>9. PICK n : n = paidOut[o.job] /\ n = paidOut'[o.job]
  BY <1>2
<1>10. Deal(o.job) = DealOf(row, n, TRUE)
  BY <1>2, <1>3, <1>8, <1>9, DealByRow
<1>11. Deal(o.job)' = DealOf(new, n, FALSE)
  BY <1>2, <1>7, <1>8, <1>9, DealByRowNext
<1>12. DealOf(row, n, TRUE) = [phase |-> "refunded", amount |-> row.amount, worker |-> n,
                               platform |-> row.fee, customer |-> row.amount]
  BY <1>3, DealByStatus
<1>13. DealOf(new, n, FALSE) = [phase |-> "refunded", amount |-> new.amount, worker |-> n,
                                platform |-> new.fee, customer |-> new.amount]
  BY <1>5, DealByStatus
<1>14. Deal(o.job)' = Deal(o.job)
  BY <1>5, <1>10, <1>11, <1>12, <1>13
<1>15. \A k \in Jobs \ {o.job} : Deal(k)' = Deal(k)
  BY <1>1, <1>2, <1>6, <1>7, DealStays
<1>16. Deals' = Deals
  BY <1>14, <1>15 DEF Deals
<1>17. QED
  BY <1>2, <1>16 DEF Available

(* Calls that write neither a row nor a history leave the deals alone.     *)
LEMMA OtherSteps ==
  ASSUME OneProcess, TypeOK, Crashable = {}, NEW p \in Procs,
         \/ Begin(p) \/ CheckSettle(p) \/ RecordSettlement(p) \/ CheckRefund(p)
         \/ RecordRefund(p) \/ CreditUnescrowed(p)
  PROVE  UNCHANGED <<Available, Deals>>
<1>1. UNCHANGED <<account, escrow, paidOut>>
  BY DEF Begin, BeginEscrow, BeginSettle, BeginRefund, CheckSettle, RecordSettlement, CheckRefund,
         RecordRefund, CreditUnescrowed
<1>2. op[p].stage # "marking"
  BY DEF Begin, BeginEscrow, BeginSettle, BeginRefund, CheckSettle, RecordSettlement, CheckRefund,
         RecordRefund, CreditUnescrowed, Idle
<1>3. op'[p].stage # "marking"
  <2>1. CASE Begin(p)
    BY <2>1 DEF Begin, BeginEscrow, BeginSettle, BeginRefund, TypeOK
  <2>2. CASE CheckSettle(p)
    BY <2>2, CallByStage DEF CheckSettle, TypeOK, SettleCall, Idle
  <2>3. CASE CheckRefund(p)
    BY <2>3, CallByStage DEF CheckRefund, TypeOK, RefundCall, Idle
  <2>4. CASE RecordSettlement(p) \/ RecordRefund(p) \/ CreditUnescrowed(p)
    BY <2>4 DEF RecordSettlement, RecordRefund, CreditUnescrowed, TypeOK, Idle
  <2>5. QED
    BY <2>1, <2>2, <2>3, <2>4
<1>4. \A k \in Jobs : Deal(k)' = Deal(k)
  BY <1>1, <1>2, <1>3, DealStays
<1>5. QED
  BY <1>1, <1>4 DEF Available, Deals

LEMMA CreditsWorker ==
  ASSUME OneProcess, TypeOK, ContractInv, Crashable = {}, NEW p \in Procs, CreditUnescrowed(p)
  PROVE  Contract!Next
<1>1. PICK o \in CreditCall : o = op[p] /\ o.qi \in Amounts
  BY CallByStage DEF CreditUnescrowed, TypeOK, ContractInv, AmountsArePassed
<1>2. o.worker \in Workers /\ payable' = [payable EXCEPT ![o.worker] = @ + o.qi]
  BY <1>1 DEF CreditUnescrowed, CreditCall
<1>3. o.qi \in Shares
  <2>1. PICK q \in Nat : q = o.qi
    BY DEF CreditCall
  <2>2. q <= q
    OBVIOUS
  <2>3. QED
    BY <1>1, <2>1, <2>2, SharesOfAmounts
<1>4. UNCHANGED <<Available, Deals>>
  BY OtherSteps
<1>5. Contract!Credit(o.worker, o.qi)
  BY <1>2, <1>4 DEF Contract!Credit, Available, Deals
<1>6. QED
  BY <1>2, <1>3, <1>5 DEF Contract!Next, Shares

LEMMA DepositsFunds ==
  ASSUME TypeOK, NEW c \in Customers, NEW a \in Amounts, Deposit(c, a)
  PROVE  Contract!Next
<1>1. a \in Nat /\ a \in Int /\ 0 \in Int
  BY LedgerAssumption
<1>2. /\ account' = [account EXCEPT ![c] = Book(@, a, 0, 0, 0)]
      /\ UNCHANGED <<escrow, op, paidOut, payable>>
  BY DEF Deposit
<1>3. Available' = [Available EXCEPT ![c] = Available[c] + a]
  <2>1. /\ account'[c].available = account[c].available + a
        /\ \A d \in Customers \ {c} : account'[d] = account[d]
    BY <1>1, <1>2, BookEffect
  <2>2. QED
    BY <1>1, <2>1, AvailableMoves
<1>4. Deals' = Deals
  BY <1>2 DEF Deals, Deal, Phase
<1>5. Contract!Deposit(c, a)
  BY <1>2, <1>3, <1>4 DEF Contract!Deposit, Available, Deals
<1>6. a \in Shares
  BY <1>1, SharesOfAmounts
<1>7. QED
  BY <1>5, <1>6 DEF Contract!Next, Shares

LEMMA StartsAsContract == Init => Contract!Init
<1> SUFFICES ASSUME Init PROVE Contract!Init
  OBVIOUS
<1>1. Available = [c \in Customers |-> 0]
  BY DEF Init, Available
<1>2. ASSUME NEW j \in Jobs PROVE Deal(j) = Contract!NoDeal
  <2>1. ~Back(j)
    BY DEF Back, Init, Idle
  <2>2. PICK row : row = NoRow
    OBVIOUS
  <2>3. Deal(j) = DealOf(row, 0, FALSE)
    BY <2>1, <2>2, DealByRow DEF Init
  <2>4. DealOf(row, 0, FALSE) = [phase |-> "none", amount |-> row.amount, worker |-> 0,
                                 platform |-> row.fee, customer |-> row.refunded]
    BY <2>2, DealByStatus DEF NoRow
  <2>5. row.amount = 0 /\ row.fee = 0 /\ row.refunded = 0
    BY <2>2 DEF NoRow
  <2>6. QED
    BY <2>3, <2>4, <2>5 DEF Contract!NoDeal
<1>3. Deals = [j \in Jobs |-> Contract!NoDeal]
  BY <1>2 DEF Deals
<1>4. QED
  BY <1>1, <1>3 DEF Contract!Init, Available, Deals, Init

(* A process that has the ledger to itself, completes its calls and asks   *)
(* for no disputed refund sees every escrow opened once and closed once,   *)
(* each in one step: the reads, checks and double commits of accounts.py   *)
(* implement EscrowContract.                                               *)
THEOREM LedgerImplementsContract ==
  ASSUME OneProcess, Crashable = {}, NoDisputes
  PROVE  Spec => ImplementsContract
<1>1. /\ TypeOK /\ CallsMatchRows /\ ExclusiveInv /\ Undisputed /\ ContractInv /\ [Next]_vars
      => Contract!Next \/ UNCHANGED <<Available, payable, Deals>>
  <2> SUFFICES ASSUME TypeOK, CallsMatchRows, ExclusiveInv, Undisputed, ContractInv,
                      [Next]_vars, ~UNCHANGED <<Available, payable, Deals>>
               PROVE  Contract!Next
    OBVIOUS
  <2>1. CASE UNCHANGED vars
    BY <2>1 DEF vars, Available, Deals, Deal, Phase
  <2>2. ASSUME NEW p \in Procs,
               Begin(p) \/ CheckSettle(p) \/ RecordSettlement(p) \/ CheckRefund(p)
                 \/ RecordRefund(p)
        PROVE  UNCHANGED <<Available, payable, Deals>>
    <3>1. UNCHANGED payable
      BY <2>2 DEF Begin, BeginEscrow, BeginSettle, BeginRefund, CheckSettle, RecordSettlement,
                  CheckRefund, RecordRefund
    <3>2. QED
      BY <2>2, <3>1, OtherSteps
  <2>3. ASSUME NEW p \in Procs, Crash(p) PROVE FALSE
    BY <2>3 DEF Crash
  <2>4. QED
    BY <2>1, <2>2, <2>3, DepositsFunds, OpensDeal, SettlesDeal, RefundsDeal, CreditsWorker,
       MarkStutters DEF Next, Step
<1>2. UNCHANGED <<Available, payable, Deals>> => UNCHANGED Contract!contractVars
  BY DEF Contract!contractVars, Available, Deals
<1>3. /\ TypeOK /\ CallsMatchRows /\ ExclusiveInv /\ Undisputed /\ ContractInv /\ [Next]_vars
      => [Contract!Next]_(Contract!contractVars)
  BY <1>1, <1>2, Zenon
<1>4. QED
  BY <1>3, StartsAsContract, ExclusiveInvariance, TypeCorrect, CallsAlwaysMatchRows,
     NeverDisputed, ContractInvHolds, PTL DEF Spec, ImplementsContract, Contract!Spec

====
