---- MODULE ResearchPipeline ----
(***************************************************************************)
(* reproduce.py: fetch the data (or generate the synthetic sample), run    *)
(* every claim in a process of its own, and assemble results/REPORT.md     *)
(* from whatever files the claims have left in results/.                   *)
(*                                                                         *)
(* A result is known by the run that wrote it and by the data it rests on, *)
(* real or synthetic; its statistics are abstract.  The sample directory   *)
(* is written whole before it is read.  settlement.db, in which claim 4    *)
(* escrows and settles a job, outlives a run like results/ does.           *)
(***************************************************************************)
EXTENDS DataCache, SequencesExt

CONSTANTS
  Claims,    \* the claims, in the order of main
  MaxRuns    \* bound: runs of reproduce.py

(* A script: the caches it cannot do without, those it reads when they are *)
(* there, and the files the report takes from it, in the order in which it *)
(* writes them.                                                            *)
Prices == {"qi_usd", "btc_usd", "difficulty"}

Claim1 == [required |-> Prices,
           optional |-> {"qi_volume_usd", "eth_usd", "kawpow_ws"},
           outputs  |-> <<"claim1_stats.json", "claim1.md">>]

Claim2 == [required |-> Prices,
           optional |-> {"qi_volume_usd", "eth_usd", "kawpow_ws", "electricity"},
           outputs  |-> <<"claim2.md">>]

QiIndex == [required |-> {"difficulty"}, optional |-> {}, outputs |-> <<"qi_index.json">>]

Claim4 == [required |-> {"difficulty"}, optional |-> {},
           outputs  |-> <<"settlement.db", "receipt.json">>]

Claim5 == [required |-> {},
           optional |-> {"token_choice_qi_fraction", "exchange_rate", "qi_usd"},
           outputs  |-> <<"claim5.md">>]

Claim6 == [required |-> {"difficulty"}, optional |-> {}, outputs |-> <<"claim6.md">>]

Claim7 == [required |-> {"kawpow_ws", "soap_ws", "difficulty"}, optional |-> {},
           outputs  |-> <<"claim7.md">>]

Script == [claim1 |-> Claim1, claim2 |-> Claim2, qi_index |-> QiIndex, claim4 |-> Claim4,
           claim5 |-> Claim5, claim6 |-> Claim6, claim7 |-> Claim7]

Files == UNION {ToSet(Script[Claims[i]].outputs) : i \in DOMAIN Claims}
Author(f) == CHOOSE c \in ToSet(Claims) : f \in ToSet(Script[c].outputs)

ASSUME PipelineAssumption ==
  /\ Claims \in Seq(DOMAIN Script)
  /\ MaxRuns \in Nat

VARIABLES
  pipe,      \* the run: where it is, its mode, the claims that failed
  result,    \* what the files of results/, and settlement.db, hold
  report,    \* REPORT.md
  runs       \* runs of reproduce.py so far

pipeVars == <<pipe, result, report, runs>>
vars == <<cacheVars, pipeVars>>

None == [run |-> 0, data |-> "none"]
Resting == [at |-> "idle", mode |-> "real", claim |-> 0, writes |-> <<>>, failed |-> {}]
NoReport == [run |-> 0, mode |-> "none", sections |-> <<>>, incomplete |-> {}]

Init ==
  /\ CacheInit
  /\ pipe = Resting
  /\ result = [f \in Files |-> None]
  /\ report = NoReport
  /\ runs = 0

----
\* main of reproduce.py

Mode == IF pipe.mode = "sample" THEN "synthetic" ELSE "real"

(* With --sample the synthetic data is written, with --skip-fetch the      *)
(* cache is used as it is, and otherwise fetch_data.py runs first.         *)
Reproduce(mode) ==
  /\ pipe.at = "idle" /\ fetch.at = "idle" /\ runs < MaxRuns
  /\ runs' = runs + 1
  /\ pipe' = [Resting EXCEPT !.at = IF mode = "real" THEN "fetch" ELSE "claim",
                             !.mode = mode, !.claim = 1]
  /\ IF mode = "real" THEN StartFetch(FALSE) ELSE UNCHANGED cacheVars
  /\ UNCHANGED <<result, report>>

(* The claims run whatever the outcome of the fetch.                       *)
Fetched ==
  /\ pipe.at = "fetch" /\ fetch.at = "idle"
  /\ pipe' = [pipe EXCEPT !.at = "claim"]
  /\ UNCHANGED <<cacheVars, result, report, runs>>

Claim == Claims[pipe.claim]

\* read_cache in the directory of the mode; nothing ever writes soap_ws.
ReadState(n) ==
  IF n = "soap_ws" THEN "absent"
  ELSE IF pipe.mode = "sample" THEN "whole" ELSE file[n].is

HasInputs(c) ==
  /\ \A n \in Script[c].required : ReadState(n) = "whole"
  /\ \A n \in Script[c].optional : ReadState(n) # "torn"

NextClaim(failed) ==
  [pipe EXCEPT !.at = "claim", !.claim = @ + 1, !.writes = <<>>,
               !.failed = @ \union (IF failed THEN {Claim} ELSE {})]

RunClaim ==
  /\ pipe.at = "claim" /\ pipe.claim <= Len(Claims)
  /\ HasInputs(Claim)
  /\ pipe' = [pipe EXCEPT !.at = "write", !.writes = Script[Claim].outputs]
  /\ UNCHANGED <<cacheVars, result, report, runs>>

(* An input is missing or no JSON, an analysis raises, or the process is   *)
(* killed, possibly after the first of its files.                          *)
ClaimFails ==
  /\ \/ pipe.at = "write"
     \/ pipe.at = "claim" /\ pipe.claim <= Len(Claims)
  /\ pipe' = NextClaim(TRUE)
  /\ UNCHANGED <<cacheVars, result, report, runs>>

(* quote_and_escrow leaves the job of an earlier run as it was priced, and *)
(* the receipt is that job's.                                              *)
Written(f) ==
  CASE f = "settlement.db" -> IF result[f] = None THEN [run |-> runs, data |-> Mode] ELSE result[f]
    [] f = "receipt.json" -> [run |-> runs, data |-> result["settlement.db"].data]
    [] OTHER -> [run |-> runs, data |-> Mode]

WriteResult ==
  /\ pipe.at = "write"
  /\ LET f == Head(pipe.writes) IN result' = [result EXCEPT ![f] = Written(f)]
  /\ pipe' = IF Len(pipe.writes) = 1 THEN NextClaim(FALSE)
             ELSE [pipe EXCEPT !.writes = Tail(@)]
  /\ UNCHANGED <<cacheVars, report, runs>>

\* Mutant: only the claims with a section of markdown are looked at.
WithoutDemo(failed) == failed \ {"claim4"}

\* The exit codes that count as incomplete.
Incomplete(failed) == failed

(* Every file that exists becomes a section.                               *)
WriteReport ==
  /\ pipe.at = "claim" /\ pipe.claim > Len(Claims)
  /\ report' = [run |-> runs, mode |-> Mode,
                sections |-> [f \in {g \in Files \ {"settlement.db"} : result[g] # None}
                                |-> result[f]],
                incomplete |-> Incomplete(pipe.failed)]
  /\ pipe' = Resting
  /\ UNCHANGED <<cacheVars, result, runs>>

(* reproduce.py is killed; a process it waits for may go on.               *)
KillRun ==
  /\ pipe.at # "idle"
  /\ pipe' = Resting
  /\ UNCHANGED <<cacheVars, result, report, runs>>

----
Fetch == FetchStep /\ UNCHANGED pipeVars
FetchAlone == pipe.at = "idle" /\ (\E force \in BOOLEAN : StartFetch(force)) /\ UNCHANGED pipeVars
ChainGrows == pipe.at = "idle" /\ Mine /\ UNCHANGED pipeVars

Next ==
  \/ \E mode \in {"sample", "real", "skip"} : Reproduce(mode)
  \/ Fetched \/ RunClaim \/ ClaimFails \/ WriteResult \/ WriteReport \/ KillRun
  \/ Fetch \/ FetchAlone \/ ChainGrows

Spec == Init /\ [][Next]_vars

----
\* Properties

TypeOK ==
  /\ CacheTypeOK
  /\ pipe.at \in {"idle", "fetch", "claim", "write"}
  /\ pipe.claim \in 0..(Len(Claims) + 1) /\ pipe.failed \subseteq ToSet(Claims)
  /\ \A f \in Files : result[f].run \in 0..MaxRuns
  /\ runs \in 0..MaxRuns

(* A section that an earlier run left in results/ stands in the report     *)
(* only where the report lists its claim as incomplete.                    *)
StaleIsListed ==
  \A f \in DOMAIN report.sections :
    report.sections[f].run < report.run => Author(f) \in report.incomplete

(* reproduce.py says of its real-data mode that it never substitutes       *)
(* synthetic data: no section of its report rests on the sample.           *)
RealReportIsReal ==
  report.mode = "real" =>
    \A f \in DOMAIN report.sections : report.sections[f].data = "real"

====
