---- MODULE Reputation ----
(***************************************************************************)
(* What a worker's registry row says of its record, what a verdict does to *)
(* it, and what the router makes of it.  (reputation.py, the score of      *)
(* router.py and the record in db.py's worker_registry.)                   *)
(*                                                                         *)
(* Scores are in 240ths of a point: the router divides by the number of    *)
(* jobs, up to six in an instance, and decay takes quarters.  A row's two  *)
(* averages are kept as sums, ms and joules, over its ok + bad receipts.   *)
(***************************************************************************)
EXTENDS Integers

CONSTANTS
  Durations,  \* milliseconds of a receipt, at least one
  Energies    \* joules per token of a receipt, 0 for one without tokens

ASSUME ReputationAssumption == Durations \subseteq Nat \ {0} /\ Energies \subseteq Nat

Point == 240
AtLeast0(n) == IF n < 0 THEN 0 ELSE n
AtMost(n, limit) == IF n > limit THEN limit ELSE n

NewRow(online) ==
  [rep |-> 50 * Point, ok |-> 0, bad |-> 0, ms |-> 0, joules |-> 0, online |-> online]

Jobs(row) == row.ok + row.bad

(* _failure_streak_penalty: 1.5 for every failure but the first, up to 10. *)
(* It counts all failures, also those before the last success.             *)
Streak(row) == AtMost(AtLeast0(row.bad - 1) * 3 * (Point \div 2), 10 * Point)

(* What a reason costs.  The branch for a failed verification, 5 points,   *)
(* looks for lower-case words, which no failure code has: such a failure   *)
(* costs as much as any other.                                             *)
Cost(reason) ==
  CASE reason \in {"CHALLENGE_FAILED", "CHALLENGE_EXPIRED", "CHALLENGE_DISPUTED"} -> 10
    [] reason \in {"COMMITTEE_REJECTED", "COMMITTEE_DISPUTED", "QUORUM_NOT_REACHED"} -> 7
    [] OTHER -> 3

Clamped(rep) == AtMost(AtLeast0(rep), 100 * Point)

(* _updated_average: as a sum, the receipt is added to those before it.    *)
Averaged(row, ms, joules) == [row EXCEPT !.ms = @ + ms, !.joules = @ + joules]

(* The record after a verdict on a receipt.                                *)
Judged(row, accepted, reason, ms, joules) ==
  LET new == Averaged(row, ms, joules) IN
  IF accepted
  THEN [new EXCEPT !.rep = Clamped(@ + Point), !.ok = @ + 1]
  ELSE [new EXCEPT !.rep = Clamped(@ - (Cost(reason) * Point + Streak(row))), !.bad = @ + 1]

(* apply_reputation_decay, with a quarter of a point per day.              *)
Decayed(row, days) ==
  [row EXCEPT !.rep = Clamped(@ - days * (Point \div 4) - (IF row.online THEN 0 ELSE 2 * Point))]

(* What the averages are worth to the router; an average of 0, nothing     *)
(* measured, is worth the neutral value.                                   *)
Speed(row) ==
  IF Jobs(row) = 0 \/ row.ms = 0 THEN 5 * Point
  ELSE AtLeast0(20 * Point - (row.ms * Point) \div (500 * Jobs(row)))
Thrift(row) ==
  IF Jobs(row) = 0 \/ row.joules = 0 THEN 3 * Point
  ELSE AtLeast0(10 * Point - (row.joules * Point) \div (100 * Jobs(row)))

\* Mutant: failures only count through the reputation.
ScoreWithoutFailures(row) == row.rep + Speed(row) + Thrift(row)

(* _score_worker, as far as it looks at the record; the rest of the score  *)
(* depends on the job, the hardware and the load.                          *)
Score(row) ==
  row.rep + Speed(row) + Thrift(row)
  - (IF Jobs(row) = 0 THEN 0 ELSE (20 * Point * row.bad) \div Jobs(row))

====
