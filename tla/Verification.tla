---- MODULE Verification ----
(***************************************************************************)
(* From the end of a job to its verdict: the checks of the receipt, a      *)
(* challenge, a committee of other workers that vote, the receipt, and the *)
(* worker's reputation.  (verifier.py, challenges.py, committees.py,       *)
(* reputation.py, as worker_daemon.py and scheduler.py call them.)         *)
(*                                                                         *)
(* Hashes and times come as the outcomes of their checks.                  *)
(***************************************************************************)
EXTENDS Processes, Sequences, FiniteSets, SequencesExt, Reputation, Verdicts

CONSTANTS
  Workers,       \* worker ids, numbers in the order of their names
  OperatorOf, RegionOf,
  Size, Quorum,  \* committee_size and quorum_threshold
  Days,          \* how long ago a worker may have been seen when it decays
  MaxCommittees  \* bound: no job ends after so many committees

ASSUME VerificationAssumption ==
  /\ Workers \subseteq Nat
  /\ Size \in Nat /\ Quorum \in Nat \ {0} /\ Days \subseteq Nat /\ MaxCommittees \in Nat

VARIABLES
  registry,     \* worker_registry
  committees,   \* verification_committees with their votes
  verdicts      \* receipts with the verification in their metadata

trustTables == <<registry, committees, verdicts>>

NoRow ==
  [rep |-> 0, ok |-> 0, bad |-> 0, ms |-> 0, joules |-> 0, online |-> FALSE, none |-> TRUE]

VerificationInit ==
  /\ registry \in [Workers -> {NewRow(TRUE), NoRow}]
  /\ committees = <<>> /\ verdicts = <<>>

Registered == {w \in Workers : registry[w] # NoRow}

----
\* The checks

(* A job of a worker ends; challenge and result are stored.  Of the        *)
(* failures of a runtime one stands for all, which cost the worker the     *)
(* same; a runtime that raises leaves no verdict.                          *)
Check(p, w) ==
  /\ w \in Registered /\ Len(committees) < MaxCommittees
  /\ \E result \in {Answer(1), Failed("COMMAND_FAILED")}, watts \in {0, 1} :
       \E challenge \in Challenges(result) :
         LET why == Reason(result, ReceiptOf(result, 0, watts), challenge, 1) IN
         Begins(p, [at |-> IF why = None THEN "select" ELSE "receipt",
                    worker |-> w, reason |-> why, committee |-> 0])
  /\ UNCHANGED trustTables

----
\* The committee

(* The best of some workers: the highest reputation, then the first id.    *)
Best(S) ==
  CHOOSE w \in S : \A v \in S : \/ registry[w].rep > registry[v].rep
                                \/ registry[w].rep = registry[v].rep /\ w <= v

(* list_online_workers *)
Online == {w \in Registered : registry[w].online}

Eligible(w) == Online \ {w}

(* Among those left, the ones whose operator and region are new.           *)
Diverse(left, S) ==
  {v \in left : \A u \in S : OperatorOf[u] # OperatorOf[v] /\ RegionOf[u] # RegionOf[v]}

(* select_verifier_workers: one after the other, preferably a diverse one. *)
Verifiers(w) ==
  LET next(S) ==
        LET left == Eligible(w) \ S
        IN  IF left = {} THEN {}
            ELSE {Best(IF Diverse(left, S) = {} THEN left ELSE Diverse(left, S))}
      picked[k \in 0..Size] == IF k = 0 THEN {} ELSE picked[k - 1] \union next(picked[k - 1])
  IN  picked[Size]

(* create_verification_committee *)
NewCommittee(w) ==
  [worker |-> w, members |-> Verifiers(w), votes |-> [v \in {} |-> None],
   result |-> "open", code |-> None, suspicion |-> 0]

InsertCommittee(c) == committees' = Append(committees, c)

SelectCommittee(p) ==
  /\ work[p].at = "select"
  /\ LET c == NewCommittee(work[p].worker) IN
       /\ InsertCommittee(c)
       /\ Goes(p, [work[p] EXCEPT !.at = IF c.members = {} THEN "finalize" ELSE "vote",
                                  !.committee = Len(committees) + 1])
  /\ UNCHANGED <<registry, verdicts>>

(* _verify_vote: a verifier that neither forced_votes nor its own record   *)
(* decides for turns down what has a wrong hash or has failed a challenge, *)
(* and everything if its own capability claim has no models.               *)
Votes == {"accepted", "rejected", "disputed"}

WithVote(votes, v, vote) ==
  [u \in DOMAIN votes \union {v} |-> IF u = v THEN vote ELSE votes[u]]

InsertVote(c, v, vote) == committees' = [committees EXCEPT ![c].votes = WithVote(@, v, vote)]

(* One commit per vote, in the order of the selection or another: the      *)
(* votes do not see one another.                                           *)
Vote(p) ==
  /\ work[p].at = "vote"
  /\ LET c == work[p].committee
         left == committees[c].members \ DOMAIN committees[c].votes
     IN  \E vote \in Votes :
           /\ InsertVote(c, Min(left), vote)
           /\ Goes(p, IF Cardinality(left) = 1 THEN [work[p] EXCEPT !.at = "finalize"] ELSE work[p])
  /\ UNCHANGED <<registry, verdicts>>

VotesFor(c, vote) == {v \in DOMAIN c.votes : c.votes[v] = vote}

\* Mutant: a majority of the votes is enough.
AggregateMajority(c) ==
  CASE 2 * Cardinality(VotesFor(c, "accepted")) > Cardinality(DOMAIN c.votes) -> "accepted"
    [] Cardinality(VotesFor(c, "rejected")) >= Quorum -> "rejected"
    [] OTHER -> "disputed"

(* aggregate_committee_votes.                                              *)
Aggregate(c) ==
  IF Cardinality(VotesFor(c, "accepted")) >= Quorum THEN "accepted"
  ELSE IF Cardinality(VotesFor(c, "rejected")) >= Quorum THEN "rejected" ELSE "disputed"

Pairs(S) == {pair \in SUBSET S : Cardinality(pair) = 2}

(* committee_abuse_metadata, in hundredths: how far the votes disagree,    *)
(* and a share for every pair of verifiers that another committee has had, *)
(* or that has one operator.                                               *)
Suspicion(i) ==
  LET votes == committees[i].votes
      size == Cardinality(DOMAIN votes)
      pairs == Pairs(DOMAIN votes)
      majority == Max({Cardinality(VotesFor(committees[i], vote)) : vote \in Votes})
      repeated == (DOMAIN committees \ {i}) \X pairs
      one == {pair \in pairs : Cardinality({OperatorOf[v] : v \in pair}) = 1}
  IN  IF size = 0 THEN 0
      ELSE AtMost((100 * (size - majority)) \div size
                  + 10 * Cardinality({r \in repeated : r[2] \in Pairs(committees[r[1]].members)})
                  + 20 * Cardinality(one), 100)

(* _failure_code_for_result, unless there were fewer votes than the quorum *)
FailureCode(votes, result) ==
  IF Cardinality(DOMAIN votes) < Quorum THEN "QUORUM_NOT_REACHED"
  ELSE CASE result = "accepted" -> None
         [] result = "rejected" -> "COMMITTEE_REJECTED"
         [] result = "disputed" -> "COMMITTEE_DISPUTED"

(* finalize_verification_committee *)
Finalize(i, result) ==
  committees' = [committees EXCEPT ![i].result = result, ![i].suspicion = Suspicion(i),
                                   ![i].code = FailureCode(committees[i].votes, result)]

(* The daemon goes by the result alone: a committee without a quorum is a  *)
(* disputed one.                                                           *)
FinalizeCommittee(p) ==
  /\ work[p].at = "finalize"
  /\ LET result == Aggregate(committees[work[p].committee]) IN
       /\ Finalize(work[p].committee, result)
       /\ Goes(p, [work[p] EXCEPT !.at = "receipt",
                                  !.reason = CASE result = "accepted" -> None
                                               [] result = "rejected" -> "COMMITTEE_REJECTED"
                                               [] OTHER -> "COMMITTEE_DISPUTED"])
  /\ UNCHANGED <<registry, verdicts>>

----
\* The verdict and the record

InsertVerdict(p) ==
  /\ work[p].at = "receipt"
  /\ verdicts' = Append(verdicts, [worker |-> work[p].worker, accepted |-> work[p].reason = None,
                                   committee |-> work[p].committee])
  /\ Goes(p, [work[p] EXCEPT !.at = "read"])
  /\ UNCHANGED <<registry, committees>>

(* update_worker_reputation reads the row, computes, and writes what it    *)
(* computed.  The time and the energy of the receipt matter only here; one *)
(* that failed its own checks had no energy.                               *)
ReadRecord(p) ==
  /\ work[p].at = "read"
  /\ \E ms \in Durations,
        joules \in IF work[p].reason = "VERIFICATION_FAILED" THEN {0} ELSE Energies :
       Goes(p, [at |-> "write", worker |-> work[p].worker,
                row |-> Judged(registry[work[p].worker], work[p].reason = None, work[p].reason,
                               ms, joules)])
  /\ UNCHANGED trustTables

(* update_worker_reputation_stats.                                         *)
WriteRecord(p) ==
  /\ work[p].at = "write"
  /\ LET new == work[p].row IN
       registry' = [registry EXCEPT ![work[p].worker] =
                      [new EXCEPT !.online = registry[work[p].worker].online]]
  /\ Goes(p, Idle)
  /\ UNCHANGED <<committees, verdicts>>

ReadDecay(p, w) ==
  /\ w \in Registered
  /\ \E days \in Days :
       Begins(p, [at |-> "write", worker |-> w, row |-> Decayed(registry[w], days)])
  /\ UNCHANGED trustTables

VerificationStep(p) ==
  \/ SelectCommittee(p) \/ Vote(p) \/ FinalizeCommittee(p)
  \/ InsertVerdict(p) \/ ReadRecord(p) \/ WriteRecord(p)

====
