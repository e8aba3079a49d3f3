---- MODULE DataCache ----
(***************************************************************************)
(* fetch_data.py: the public data behind the claims, fetched into one file *)
(* per dataset.  Feeds are downloaded whole; scans sample block headers    *)
(* back from the head of the chain, as far as the first day that the file  *)
(* already has, and add what they sampled.                                 *)
(*                                                                         *)
(* A day's entry is the block it was sampled from, or for a feed the head  *)
(* at the download; the numbers derived from it are abstract.  The program *)
(* may be killed at any point, also inside the write of a file, which then *)
(* holds no JSON.  One fetch runs at a time.  The CSV mirror of a file,    *)
(* which no program reads, is left out.                                    *)
(***************************************************************************)
EXTENDS Integers, Sequences, FiniteSets, Functions

CONSTANTS
  DayOf,        \* the date of each block, oldest first
  Untimed,      \* blocks whose header comes without a timestamp
  Stride,       \* rpc_block_step
  Cap,          \* samples that end a scan (400 in the code)
  FeedDays,     \* days of history that a feed serves
  Jobs,         \* the datasets, in the order of main
  HasExplorer,  \* is explorer_url configured?  (mode is "both")
  MaxFetches    \* bound: runs of the program

Feeds == {"qi_usd", "btc_usd", "eth_usd", "electricity"}
Scans == {"difficulty", "token_choice_qi_fraction", "exchange_rate", "kawpow_ws"}
Names == Feeds \union Scans \union {"qi_volume_usd", "token_choice_counts", "twp_ws"}

Blocks == DOMAIN DayOf
Days == {DayOf[n] : n \in Blocks}
NoDays == [d \in {} |-> 0]

ASSUME DataCacheAssumption ==
  /\ DayOf \in Seq(Nat)
  /\ \A n \in 2..Len(DayOf) : DayOf[n - 1] <= DayOf[n]
  /\ Untimed \subseteq Blocks
  /\ Stride \in Nat \ {0} /\ Cap \in Nat \ {0} /\ FeedDays \in Nat \ {0}
  /\ Jobs \in Seq(Feeds \union Scans)
  /\ HasExplorer \in BOOLEAN
  /\ MaxFetches \in Nat

VARIABLES
  head,     \* the newest block
  file,     \* the cache: a file is absent, torn, or whole with a series of days
  fetch,    \* the program: where it is, the job, its writes still to do
  fetches   \* runs so far

cacheVars == <<head, file, fetch, fetches>>

Absent == [is |-> "absent", series |-> NoDays]
Torn == [is |-> "torn", series |-> NoDays]
Whole(s) == [is |-> "whole", series |-> s]

Idle == [at |-> "idle", job |-> 0, force |-> FALSE, writes |-> <<>>]

CacheInit ==
  /\ head \in Blocks
  /\ file = [n \in Names |-> Absent]
  /\ fetch = Idle
  /\ fetches = 0

DaysOf(n) == DOMAIN file[n].series

(* Blocks are mined; a fetch asks for the head once per scan.              *)
Mine ==
  /\ fetch.at = "idle"
  /\ head + 1 \in Blocks
  /\ head' = head + 1
  /\ UNCHANGED <<file, fetch, fetches>>

----
\* Scans

(* range(head_number, 0, -step).                                           *)
Grid == {n \in 1..head : (head - n) % Stride = 0}

(* The blocks a scan takes: it goes back until it meets a day that it has, *)
(* in the file or from this very scan, or until it has Cap samples.        *)
Sampled(known, skip) ==
  {n \in Grid \ skip :
     LET passed == {m \in Grid \ skip : m >= n}
     IN  /\ Cardinality(passed) <= Cap
         /\ \A m \in passed : DayOf[m] \notin known
         /\ \A m, k \in passed : DayOf[m] = DayOf[k] => m = k}

\* Mutant: the scan replaces the series by its samples.
OnlyNew(series, taken) ==
  [d \in {DayOf[n] : n \in taken} |-> CHOOSE n \in taken : DayOf[n] = d]

(* The series with the samples added.                                      *)
Extended(series, taken) ==
  [d \in DOMAIN series \union {DayOf[n] : n \in taken} |->
     IF \E n \in taken : DayOf[n] = d THEN CHOOSE n \in taken : DayOf[n] = d ELSE series[d]]

(* fetch_difficulty_rpc_scan takes the timestamp of every header it gets   *)
(* and raises without; the other scans pass over such a block.             *)
MeetsUntimed ==
  LET taken == Sampled(DaysOf("difficulty"), {})
  IN  \E n \in Grid \intersect Untimed :
        /\ {m \in Grid : m > n} \subseteq taken
        /\ Cardinality({m \in Grid : m > n}) < Cap

(* A file to be written with its contents.                                 *)
Writing(n, s) == [name |-> n, series |-> s]

(* pairs_to_daily of a download: one value for each of the days it serves. *)
Downloaded == [d \in {x \in Days : x <= DayOf[head] /\ x > DayOf[head] - FeedDays} |-> head]

\* Mutant: the second file of a pair is written first.
SwappedScanWrites(job) ==
  CASE job = "kawpow_ws" ->
         LET taken == Sampled(DaysOf("kawpow_ws"), Untimed)
         IN  <<Writing("twp_ws", Extended(file["twp_ws"].series, taken)),
               Writing("kawpow_ws", Extended(file["kawpow_ws"].series, taken))>>
    [] OTHER -> <<Writing(job, Extended(file[job].series, Sampled(DaysOf(job), Untimed)))>>

(* What a scan writes.  token_choice keeps its counts in a sidecar from    *)
(* which it derives the fractions of all days; the two workshare series    *)
(* share one scan, which resumes at the days of the first.                 *)
ScanWrites(job) ==
  CASE job = "token_choice_qi_fraction" ->
         LET counts == Extended(file["token_choice_counts"].series,
                                Sampled(DaysOf("token_choice_counts"), Untimed))
         IN  <<Writing("token_choice_counts", counts), Writing(job, counts)>>
    [] job = "kawpow_ws" ->
         LET taken == Sampled(DaysOf("kawpow_ws"), Untimed)
         IN  <<Writing("kawpow_ws", Extended(file["kawpow_ws"].series, taken)),
               Writing("twp_ws", Extended(file["twp_ws"].series, taken))>>
    [] job = "exchange_rate" ->
         <<Writing(job, Extended(file[job].series, Sampled(DaysOf(job), Untimed)))>>
    [] job = "difficulty" ->
         <<Writing(job, Extended(file[job].series, Sampled(DaysOf(job), {})))>>

(* The files that a scan reads.                                            *)
ScanReads(job) ==
  CASE job = "token_choice_qi_fraction" -> {job, "token_choice_counts"}
    [] job = "kawpow_ws" -> {"kawpow_ws", "twp_ws"}
    [] OTHER -> {job}

(* A scan raises over a file that is no JSON or a header that has no       *)
(* timestamp, and when it ends without a single day.                       *)
ScanRaises(job) ==
  \/ \E n \in ScanReads(job) : file[n].is = "torn"
  \/ job = "difficulty" /\ MeetsUntimed
  \/ ScanWrites(job)[1].series = NoDays

----
\* main

JobName == Jobs[fetch.job]

StartFetch(force) ==
  /\ fetch.at = "idle" /\ fetches < MaxFetches
  /\ fetch' = [Idle EXCEPT !.at = "job", !.job = 1, !.force = force]
  /\ fetches' = fetches + 1
  /\ UNCHANGED <<head, file>>

NextJob == [fetch EXCEPT !.at = "job", !.job = @ + 1, !.writes = <<>>]

Picking == fetch.at = "job" /\ fetch.job <= Len(Jobs)

(* read_cache, asked whether a dataset is cached, raises over a file that  *)
(* is no JSON, and nothing catches that: the program ends.                 *)
UnreadableCache ==
  /\ Picking
  /\ ~fetch.force /\ file[JobName].is = "torn"
  /\ fetch' = Idle
  /\ UNCHANGED <<head, file, fetches>>

Cached ==
  /\ Picking
  /\ ~fetch.force /\ file[JobName].is = "whole" /\ JobName \in Feeds
  /\ fetch' = NextJob
  /\ UNCHANGED <<head, file, fetches>>

\* Does main run the job?
Due ==
  /\ Picking
  /\ \/ fetch.force
     \/ file[JobName].is = "absent"
     \/ file[JobName].is = "whole" /\ JobName \in Scans

(* The network fails, the feed has too few points or the scan raises: the  *)
(* failure is printed and counted for the exit code, which only reproduce  *)
(* prints a line about, and the next job is taken.  Without an API key     *)
(* there is nothing to fetch for electricity, which is no failure.         *)
FetchFails ==
  /\ Due
  /\ fetch' = NextJob
  /\ UNCHANGED <<head, file, fetches>>

(* A price or an explorer's history needs two points; fetch_electricity    *)
(* takes the months it gets.                                               *)
EnoughPoints == JobName = "electricity" \/ Cardinality(DOMAIN Downloaded) >= 2

\* Also the explorer's history, which replaces what the scans collected.
FetchFeed ==
  /\ Due
  /\ JobName \in Feeds \/ (JobName = "difficulty" /\ HasExplorer)
  /\ EnoughPoints
  /\ \E volume \in BOOLEAN :
       /\ volume => JobName = "qi_usd"
       /\ fetch' = [fetch EXCEPT !.at = "write",
            !.writes = IF volume
                       THEN <<Writing(JobName, Downloaded), Writing("qi_volume_usd", Downloaded)>>
                       ELSE <<Writing(JobName, Downloaded)>>]
  /\ UNCHANGED <<head, file, fetches>>

(* With an explorer, the scan is what is done when the explorer fails.     *)
FetchScan ==
  /\ Due /\ JobName \in Scans
  /\ ~ScanRaises(JobName)
  /\ fetch' = [fetch EXCEPT !.at = "write", !.writes = ScanWrites(JobName)]
  /\ UNCHANGED <<head, file, fetches>>

WriteCache ==
  /\ fetch.at = "write"
  /\ LET w == Head(fetch.writes)
     IN  file' = [file EXCEPT ![w.name] = Whole(w.series)]
  /\ fetch' = IF Len(fetch.writes) = 1 THEN NextJob
              ELSE [fetch EXCEPT !.writes = Tail(@)]
  /\ UNCHANGED <<head, fetches>>

EndFetch ==
  /\ fetch.at = "job" /\ fetch.job > Len(Jobs)
  /\ fetch' = Idle
  /\ UNCHANGED <<head, file, fetches>>

(* The program is killed: before a write, or inside it.                    *)
KillFetch ==
  /\ fetch.at # "idle"
  /\ \/ UNCHANGED file
     \/ fetch.at = "write" /\ file' = [file EXCEPT ![Head(fetch.writes).name] = Torn]
  /\ fetch' = Idle
  /\ UNCHANGED <<head, fetches>>

FetchStep ==
  \/ UnreadableCache \/ Cached \/ FetchFails
  \/ FetchFeed \/ FetchScan \/ WriteCache \/ EndFetch \/ KillFetch

----
\* Properties

CacheTypeOK ==
  /\ head \in Blocks
  /\ \A n \in Names :
       /\ file[n].is \in {"absent", "torn", "whole"}
       /\ DOMAIN file[n].series \subseteq Days
       /\ \A d \in DaysOf(n) : file[n].series[d] \in Blocks
  /\ fetch.at \in {"idle", "job", "write"} /\ fetch.job \in 0..(Len(Jobs) + 1)
  /\ fetches \in 0..MaxFetches

(* Of two files that one scan writes, the second never has a day that the  *)
(* first, at which the scan resumes, lacks: a day that is in the second    *)
(* only would be sampled again and counted for another block.              *)
PairsAgree ==
  \A pair \in {<<"kawpow_ws", "twp_ws">>, <<"token_choice_counts", "token_choice_qi_fraction">>} :
    file[pair[1]].is # "torn" =>
      \A d \in DaysOf(pair[2]) :
        d \in DaysOf(pair[1]) /\ file[pair[1]].series[d] = file[pair[2]].series[d]

(* What a scan sampled stays: no later run, also one that is forced or     *)
(* resumed after a stop, drops a day of a readable file or takes it from   *)
(* another block.  The explorer's history of difficulty replaces it whole. *)
SamplesAreKept ==
  [][\A n \in {"token_choice_counts", "token_choice_qi_fraction", "exchange_rate",
               "kawpow_ws", "twp_ws"} :
       file[n].is = "whole" /\ file'[n].is # "torn" =>
         \A d \in DaysOf(n) : d \in DOMAIN file'[n].series
                               /\ file'[n].series[d] = file[n].series[d]]_cacheVars

====
