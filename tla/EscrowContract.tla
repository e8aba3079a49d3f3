---- MODULE EscrowContract ----
(***************************************************************************)
(* What the ledger promises to its callers: the escrow of a job is opened  *)
(* once and closed once, in one indivisible step, either by a settlement   *)
(* that divides it between the worker, the platform and the customer, or   *)
(* by a refund that returns all of it.  A customer's available balance and *)
(* a worker's payable change in no other way, apart from deposits and from *)
(* credits for jobs that no customer funded.                               *)
(***************************************************************************)
EXTENDS Integers

CONSTANTS
  Customers, Workers, Jobs, Owner,
  Shares,     \* the amounts a deal can have and be divided into
  Slack       \* how far a balance check may overlook a shortage

VARIABLES
  available,  \* of each customer
  payable,    \* to each worker
  deal        \* the escrow of each job: phase, amount and where it went

contractVars == <<available, payable, deal>>

NoDeal == [phase |-> "none", amount |-> 0, worker |-> 0, platform |-> 0, customer |-> 0]

Init ==
  /\ available = [c \in Customers |-> 0]
  /\ payable = [w \in Workers |-> 0]
  /\ deal = [j \in Jobs |-> NoDeal]

Deposit(c, a) ==
  /\ available' = [available EXCEPT ![c] = @ + a]
  /\ UNCHANGED <<payable, deal>>

Open(j, a) ==
  /\ deal[j] = NoDeal
  /\ available[Owner[j]] + Slack >= a
  /\ available' = [available EXCEPT ![Owner[j]] = @ - a]
  /\ deal' = [deal EXCEPT ![j] = [NoDeal EXCEPT !.phase = "open", !.amount = a]]
  /\ UNCHANGED payable

(* The worker earns e, the platform keeps f and the customer gets back r.  *)
Settle(j, w, e, f, r) ==
  /\ deal[j].phase = "open"
  /\ e + f + r = deal[j].amount
  /\ available' = [available EXCEPT ![Owner[j]] = @ + r]
  /\ payable' = [payable EXCEPT ![w] = @ + e]
  /\ deal' = [deal EXCEPT ![j] = [@ EXCEPT !.phase = "settled", !.worker = e,
                                           !.platform = f, !.customer = r]]

Refund(j) ==
  /\ deal[j].phase = "open"
  /\ available' = [available EXCEPT ![Owner[j]] = @ + deal[j].amount]
  /\ deal' = [deal EXCEPT ![j] = [@ EXCEPT !.phase = "refunded",
                                           !.customer = deal[j].amount]]
  /\ UNCHANGED payable

Credit(w, q) ==
  /\ payable' = [payable EXCEPT ![w] = @ + q]
  /\ UNCHANGED <<available, deal>>

Next ==
  \/ \E c \in Customers : \E a \in Shares : Deposit(c, a)
  \/ \E j \in Jobs : \E a \in Shares : Open(j, a)
  \/ \E j \in Jobs, w \in Workers : \E e, f, r \in Shares : Settle(j, w, e, f, r)
  \/ \E j \in Jobs : Refund(j)
  \/ \E w \in Workers : \E q \in Shares : Credit(w, q)

Spec == Init /\ [][Next]_contractVars

====
