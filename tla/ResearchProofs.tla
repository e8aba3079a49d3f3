---- MODULE ResearchProofs ----
(***************************************************************************)
(* Theorems about ResearchPipeline and the DataCache under it, for every   *)
(* chain, list of datasets and list of claims, with fetches and runs       *)
(* killed anywhere; about the ledger of one of those claims,               *)
(* SettlementLedger: its types for any processes, then what holds when a   *)
(* single one has it open; and about the Benchmark that another one takes  *)
(* its figure from.                                                        *)
(***************************************************************************)
EXTENDS ResearchPipeline, SettlementLedger, Benchmark, SequenceTheorems, SumLemmas

----
\* Series

Series == UNION {[D -> Blocks] : D \in SUBSET Days}

(* Every day of s is in t, from the same block.                            *)
Within(s, t) == \A d \in DOMAIN s : d \in DOMAIN t /\ t[d] = s[d]

LEMMA SeriesAre ==
  ASSUME NEW s \in Series
  PROVE  /\ DOMAIN s \subseteq Days
         /\ \A d \in DOMAIN s : s[d] \in Blocks
         /\ s \in [DOMAIN s -> Blocks]
  BY DEF Series

LEMMA NoDaysAreASeries == NoDays \in Series /\ DOMAIN NoDays = {}
  BY DEF Series, NoDays

(* A scan takes blocks of the chain on days that the file does not have.   *)
LEMMA SamplesAreNew ==
  ASSUME head \in Blocks, NEW known, NEW skip
  PROVE  /\ Sampled(known, skip) \subseteq Blocks
         /\ \A n \in Sampled(known, skip) : DayOf[n] \notin known
<1>1. Blocks = 1..Len(DayOf)
  BY DataCacheAssumption DEF Blocks
<1>2. Grid \subseteq Blocks
  BY <1>1 DEF Grid
<1>3. Sampled(known, skip) \subseteq Grid
  BY DEF Sampled
<1>4. ASSUME NEW n \in Sampled(known, skip)
      PROVE  DayOf[n] \notin known
  <2>1. n \in {m \in Grid \ skip : m >= n}
    BY <1>1, <1>2 DEF Sampled
  <2> QED
    BY <2>1 DEF Sampled
<1> QED
  BY <1>2, <1>3, <1>4

(* Samples on new days are added to a series, and change nothing in it.    *)
LEMMA ExtendedSeries ==
  ASSUME NEW s \in Series, NEW taken \in SUBSET Blocks,
         \A n \in taken : DayOf[n] \notin DOMAIN s
  PROVE  Extended(s, taken) \in Series /\ Within(s, Extended(s, taken))
<1> DEFINE new == {DayOf[n] : n \in taken}
           x == Extended(s, taken)
<1>1. DOMAIN x = DOMAIN s \union new
  BY DEF Extended
<1>2. \A d \in new : x[d] \in taken
  BY DEF Extended
<1>3. \A d \in DOMAIN s : x[d] = s[d]
  BY DEF Extended
<1>4. new \subseteq Days
  BY DEF Days
<1>5. x \in [DOMAIN s \union new -> Blocks]
  <2>1. \A d \in DOMAIN s \union new : x[d] \in Blocks
    BY <1>2, <1>3, SeriesAre
  <2>2. x = [d \in DOMAIN s \union new |-> x[d]]
    BY <1>1 DEF Extended
  <2> QED
    BY <2>1, <2>2
<1>6. DOMAIN s \union new \in SUBSET Days
  BY <1>4, SeriesAre
<1> HIDE DEF x, new
<1>7. x \in Series
  BY <1>5, <1>6 DEF Series
<1>8. Within(s, x)
  BY <1>1, <1>3 DEF Within
<1> QED
  BY <1>7, <1>8 DEF x

(* Two series that are given the same samples stay within each other.      *)
LEMMA ExtendedWithin ==
  ASSUME NEW s \in Series, NEW t \in Series, NEW taken \in SUBSET Blocks,
         Within(s, t)
  PROVE  Within(Extended(s, taken), Extended(t, taken))
  BY DEF Within, Extended

----
\* The cache

(* The datasets that are sampled, and those of which one scan writes two.  *)
Kept == {"token_choice_counts", "token_choice_qi_fraction", "exchange_rate",
         "kawpow_ws", "twp_ws"}

Pairs == {<<"kawpow_ws", "twp_ws">>, <<"token_choice_counts", "token_choice_qi_fraction">>}

FileType == [is : {"absent", "torn", "whole"}, series : Series]

FilesInv ==
  /\ file \in [Names -> FileType]
  /\ \A n \in Names : file[n].is # "whole" => DOMAIN file[n].series = {}

FetchType == [at : {"idle", "job", "write"}, job : 0..(Len(Jobs) + 1), force : BOOLEAN,
              writes : Seq([name : Names, series : Series])]

(* What a scan is about to write has all that the readable file has, and   *)
(* the second of a pair has nothing that the first lacks: the first as it  *)
(* is going to be, or as it is when it has been written already.           *)
WritesInv(writes) ==
  /\ Len(writes) \in {1, 2}
  /\ Len(writes) = 2 => writes[1].name # writes[2].name
  /\ \A i \in 1..Len(writes) : writes[i].name \in Kept =>
       /\ file[writes[i].name].is # "torn"
       /\ Within(file[writes[i].name].series, writes[i].series)
  /\ \A pair \in Pairs :
       /\ writes[1].name = pair[2] =>
            /\ file[pair[1]].is # "torn"
            /\ Within(writes[1].series, file[pair[1]].series)
       /\ Len(writes) = 2 /\ writes[2].name = pair[2] =>
            /\ writes[1].name = pair[1]
            /\ Within(writes[2].series, writes[1].series)

FetchInv ==
  /\ fetch \in FetchType
  /\ fetch.at \in {"job", "write"} => fetch.job >= 1
  /\ fetch.at = "write" => fetch.job <= Len(Jobs) /\ WritesInv(fetch.writes)

CacheInv ==
  /\ head \in Blocks /\ fetches \in 0..MaxFetches
  /\ FilesInv /\ FetchInv /\ PairsAgree

LEMMA PairsWithin ==
  PairsAgree <=> \A pair \in Pairs :
                   file[pair[1]].is # "torn" => Within(file[pair[2]].series, file[pair[1]].series)
  BY DEF PairsAgree, Pairs, Within, DaysOf

LEMMA PairNames ==
  ASSUME NEW pair \in Pairs
  PROVE  /\ pair[1] \in Kept /\ pair[2] \in Kept /\ pair[1] # pair[2]
         /\ pair[1] \in Names /\ pair[2] \in Names
         /\ \A other \in Pairs : pair[1] # other[2] /\ (pair[2] = other[2] => pair = other)
  BY DEF Pairs, Kept, Names, Scans, Feeds

(* The job that main is at, and the one after it.                          *)
LEMMA NextJobs ==
  ASSUME fetch \in FetchType, fetch.job >= 1, fetch.job <= Len(Jobs)
  PROVE  NextJob \in FetchType /\ NextJob.at = "job" /\ NextJob.job >= 1
<1>0. fetch.job + 1 \in 0..(Len(Jobs) + 1) /\ fetch.job + 1 >= 1
  BY DataCacheAssumption DEF FetchType
<1> DEFINE W == Seq([name : Names, series : Series])
           T == [at : {"idle", "job", "write"}, job : 0..(Len(Jobs) + 1), force : BOOLEAN,
                 writes : W]
           f == [fetch EXCEPT !.at = "job"]
           g == [f EXCEPT !.job = fetch.job + 1]
<1>1. fetch \in T /\ <<>> \in W
  BY DEF FetchType
<1> HIDE DEF W
<1>2. f \in T /\ f.at = "job" /\ f.job = fetch.job
  BY <1>1
<1>3. g \in T /\ g.at = "job" /\ g.job = fetch.job + 1
  <2> HIDE DEF f
  <2> QED
    BY <1>2, <1>0
<1>4. NextJob = [g EXCEPT !.writes = <<>>]
  BY <1>1 DEF NextJob
<1> HIDE DEF g
<1>5. NextJob \in T /\ NextJob.at = "job" /\ NextJob.job = fetch.job + 1
  BY <1>1, <1>3, <1>4
<1> QED
  BY <1>0, <1>5 DEF FetchType, W

LEMMA JobNames ==
  ASSUME CacheInv, Picking
  PROVE  JobName \in Feeds \union Scans /\ JobName \in Names /\ NextJob \in FetchType
         /\ NextJob.at = "job" /\ NextJob.job >= 1
<1>1. fetch.job \in 1..Len(Jobs) /\ fetch \in FetchType
  BY DEF Picking, CacheInv, FetchInv, FetchType
<1>2. JobName \in Feeds \union Scans
  BY <1>1, DataCacheAssumption DEF JobName
<1> QED
  BY <1>1, <1>2, NextJobs DEF Names

(* One file to write, and two.                                             *)
LEMMA OneWrite ==
  ASSUME NEW n \in Names, NEW s \in Series,
         n \in Kept => file[n].is # "torn" /\ Within(file[n].series, s),
         \A pair \in Pairs : n = pair[2] =>
           file[pair[1]].is # "torn" /\ Within(s, file[pair[1]].series)
  PROVE  /\ <<Writing(n, s)>> \in Seq([name : Names, series : Series])
         /\ WritesInv(<<Writing(n, s)>>)
<1> DEFINE w == <<Writing(n, s)>>
<1>1. Len(w) = 1 /\ w[1] = [name |-> n, series |-> s]
  BY DEF Writing
<1>2. w \in Seq([name : Names, series : Series])
  BY DEF Writing
<1> HIDE DEF w
<1>3. WritesInv(w)
  <2>1. \A i \in 1..Len(w) : i = 1
    BY <1>1
  <2> QED
    BY <1>1, <2>1 DEF WritesInv
<1> QED
  BY <1>2, <1>3 DEF w

LEMMA TwoWrites ==
  ASSUME NEW m \in Names, NEW n \in Names, NEW s \in Series, NEW t \in Series, m # n,
         m \in Kept => file[m].is # "torn" /\ Within(file[m].series, s),
         n \in Kept => file[n].is # "torn" /\ Within(file[n].series, t),
         \A pair \in Pairs : m # pair[2] /\ (n = pair[2] => m = pair[1]),
         n \in Kept => Within(t, s)
  PROVE  /\ <<Writing(m, s), Writing(n, t)>> \in Seq([name : Names, series : Series])
         /\ WritesInv(<<Writing(m, s), Writing(n, t)>>)
<1> DEFINE w == <<Writing(m, s), Writing(n, t)>>
<1>1. Len(w) = 2 /\ w[1] = [name |-> m, series |-> s] /\ w[2] = [name |-> n, series |-> t]
  BY DEF Writing
<1>2. w \in Seq([name : Names, series : Series])
  BY DEF Writing
<1> HIDE DEF w
<1>3. WritesInv(w)
  <2>1. \A i \in 1..Len(w) : i = 1 \/ i = 2
    BY <1>1
  <2>2. \A pair \in Pairs : pair[2] \in Kept
    BY PairNames
  <2> QED
    BY <1>1, <2>1, <2>2 DEF WritesInv
<1> QED
  BY <1>2, <1>3 DEF w

(* What a scan that does not raise writes.                                 *)
LEMMA ScanWritesFit ==
  ASSUME CacheInv, NEW task \in Scans, ~ScanRaises(task)
  PROVE  /\ ScanWrites(task) \in Seq([name : Names, series : Series])
         /\ WritesInv(ScanWrites(task))
<1>1. /\ file \in [Names -> FileType] /\ head \in Blocks
      /\ \A pair \in Pairs :
           file[pair[1]].is # "torn" => Within(file[pair[2]].series, file[pair[1]].series)
  BY PairsWithin DEF CacheInv, FilesInv
<1>2. \A n \in Names : file[n].series \in Series
  BY <1>1 DEF FileType
<1>3. \A n \in ScanReads(task) : file[n].is # "torn"
  BY DEF ScanRaises
<1>4. /\ {"exchange_rate", "difficulty", "token_choice_counts", "token_choice_qi_fraction",
           "kawpow_ws", "twp_ws"} \subseteq Names
      /\ "difficulty" \notin Kept
      /\ \A pair \in Pairs : \A n \in {"difficulty", "exchange_rate"} :
           n # pair[1] /\ n # pair[2]
  BY DEF Names, Scans, Kept, Pairs
<1>5. CASE task = "exchange_rate"
  <2> DEFINE x == Extended(file[task].series, Sampled(DaysOf(task), Untimed))
  <2>1. x \in Series /\ Within(file[task].series, x)
    BY <1>1, <1>2, <1>4, <1>5, SamplesAreNew, ExtendedSeries DEF DaysOf
  <2>2. ScanWrites(task) = <<Writing(task, x)>>
    BY <1>5 DEF ScanWrites
  <2>3. file[task].is # "torn"
    BY <1>3, <1>5 DEF ScanReads
  <2> HIDE DEF x
  <2> QED
    BY <1>4, <1>5, <2>1, <2>2, <2>3, OneWrite
<1>6. CASE task = "difficulty"
  <2> DEFINE x == Extended(file[task].series, Sampled(DaysOf(task), {}))
  <2>1. x \in Series
    BY <1>1, <1>2, <1>4, <1>6, SamplesAreNew, ExtendedSeries DEF DaysOf
  <2>2. ScanWrites(task) = <<Writing(task, x)>>
    BY <1>6 DEF ScanWrites
  <2> HIDE DEF x
  <2> QED
    BY <1>4, <1>6, <2>1, <2>2, OneWrite
<1>7. CASE task = "kawpow_ws"
  <2> DEFINE taken == Sampled(DaysOf("kawpow_ws"), Untimed)
             s == file["kawpow_ws"].series
             t == file["twp_ws"].series
             x == Extended(s, taken)
             y == Extended(t, taken)
  <2>1. file["kawpow_ws"].is # "torn" /\ file["twp_ws"].is # "torn"
    BY <1>3, <1>7 DEF ScanReads
  <2>2. s \in Series /\ t \in Series /\ Within(t, s)
    BY <1>1, <1>2, <1>4, <2>1 DEF Pairs
  <2>3. taken \in SUBSET Blocks /\ \A n \in taken : DayOf[n] \notin DOMAIN s
    BY <1>1, SamplesAreNew DEF DaysOf
  <2>4. \A n \in taken : DayOf[n] \notin DOMAIN t
    BY <2>2, <2>3 DEF Within
  <2>5. ScanWrites(task) = <<Writing("kawpow_ws", x), Writing("twp_ws", y)>>
    BY <1>7 DEF ScanWrites
  <2> HIDE DEF s, t, taken
  <2>6. x \in Series /\ Within(s, x)
    BY <2>2, <2>3, ExtendedSeries
  <2>7. y \in Series /\ Within(t, y)
    BY <2>2, <2>3, <2>4, ExtendedSeries
  <2>8. Within(y, x)
    BY <2>2, <2>3, ExtendedWithin
  <2> HIDE DEF x, y
  <2>9. \A pair \in Pairs :
          "kawpow_ws" # pair[2] /\ ("twp_ws" = pair[2] => "kawpow_ws" = pair[1])
    BY DEF Pairs
  <2>10. /\ Within(file["kawpow_ws"].series, x) /\ Within(file["twp_ws"].series, y)
         /\ x \in Series /\ y \in Series
    BY <2>6, <2>7 DEF s, t
  <2>11. "kawpow_ws" # "twp_ws" /\ "kawpow_ws" \in Names /\ "twp_ws" \in Names
    BY <1>4
  <2>12. /\ WritesInv(<<Writing("kawpow_ws", x), Writing("twp_ws", y)>>)
         /\ <<Writing("kawpow_ws", x), Writing("twp_ws", y)>>
               \in Seq([name : Names, series : Series])
    BY <2>1, <2>8, <2>9, <2>10, <2>11, TwoWrites
  <2> QED
    BY <2>5, <2>12
<1>8. CASE task = "token_choice_qi_fraction"
  <2> DEFINE s == file["token_choice_counts"].series
             t == file["token_choice_qi_fraction"].series
             taken == Sampled(DaysOf("token_choice_counts"), Untimed)
             x == Extended(s, taken)
  <2>1. /\ file["token_choice_counts"].is # "torn"
        /\ file["token_choice_qi_fraction"].is # "torn"
    BY <1>3, <1>8 DEF ScanReads
  <2>2. s \in Series /\ t \in Series /\ Within(t, s)
    BY <1>1, <1>2, <1>4, <2>1 DEF Pairs
  <2>3. taken \in SUBSET Blocks /\ \A n \in taken : DayOf[n] \notin DOMAIN s
    BY <1>1, SamplesAreNew DEF DaysOf
  <2>4. ScanWrites(task) =
          <<Writing("token_choice_counts", x), Writing("token_choice_qi_fraction", x)>>
    BY <1>8 DEF ScanWrites
  <2> HIDE DEF s, t, taken
  <2>5. x \in Series /\ Within(s, x)
    BY <2>2, <2>3, ExtendedSeries
  <2>6. Within(t, x) /\ Within(x, x)
    BY <2>2, <2>5 DEF Within
  <2> HIDE DEF x
  <2>7. \A pair \in Pairs :
          /\ "token_choice_counts" # pair[2]
          /\ "token_choice_qi_fraction" = pair[2] => "token_choice_counts" = pair[1]
    BY DEF Pairs
  <2> QED
    BY <1>4, <2>1, <2>4, <2>5, <2>6, <2>7, TwoWrites DEF s, t
<1> QED
  BY <1>5, <1>6, <1>7, <1>8 DEF Scans

(* What a download writes: none of the datasets that are sampled.          *)
LEMMA FeedWritesFit ==
  ASSUME CacheInv, NEW task \in Feeds \union {"difficulty"}, NEW volume \in BOOLEAN,
         volume => task = "qi_usd"
  PROVE  LET writes == IF volume
                       THEN <<Writing(task, Downloaded), Writing("qi_volume_usd", Downloaded)>>
                       ELSE <<Writing(task, Downloaded)>>
         IN  writes \in Seq([name : Names, series : Series]) /\ WritesInv(writes)
<1>1. Downloaded \in Series
  <2> DEFINE D == {x \in Days : x <= DayOf[head] /\ x > DayOf[head] - FeedDays}
  <2>1. Downloaded \in [D -> Blocks] /\ D \in SUBSET Days
    BY DEF CacheInv, Downloaded
  <2> QED
    BY <2>1 DEF Series
<1>2. /\ task \in Names /\ "qi_volume_usd" \in Names
      /\ task \notin Kept /\ "qi_volume_usd" \notin Kept /\ task # "qi_volume_usd"
  BY DEF Names, Feeds, Scans, Kept
<1>3. \A pair \in Pairs : pair[1] \in Kept /\ pair[2] \in Kept
  BY PairNames
<1> DEFINE w == Writing(task, Downloaded)
           v == Writing("qi_volume_usd", Downloaded)
<1>4. WritesInv(<<w>>) /\ <<w>> \in Seq([name : Names, series : Series])
  BY <1>1, <1>2, <1>3, OneWrite
<1>5. WritesInv(<<w, v>>) /\ <<w, v>> \in Seq([name : Names, series : Series])
  BY <1>1, <1>2, <1>3, TwoWrites
<1> HIDE DEF w, v
<1> QED
  BY <1>4, <1>5 DEF w, v

(* No day of a readable file is dropped or taken from another block.       *)
Stays ==
  \A n \in Kept : file[n].is = "whole" /\ file'[n].is # "torn" =>
    Within(file[n].series, file'[n].series)

(* A step of the program that writes no file.                              *)
LEMMA NoWrite ==
  ASSUME CacheInv, UNCHANGED file, FetchInv', head' \in Blocks, fetches' \in 0..MaxFetches
  PROVE  CacheInv' /\ Stays
<1>1. FilesInv' /\ PairsAgree'
  BY DEF CacheInv, FilesInv, PairsAgree, DaysOf
<1>2. Stays
  BY DEF Stays, Within
<1> QED
  BY <1>1, <1>2 DEF CacheInv

(* main goes to its next job, or ends.                                     *)
LEMMA Onwards ==
  ASSUME CacheInv, Picking, UNCHANGED <<head, file, fetches>>, fetch' \in {NextJob, Idle}
  PROVE  CacheInv' /\ Stays
<1>1. CASE fetch' = NextJob
  <2>1. FetchInv'
    BY <1>1, JobNames DEF FetchInv, FetchType
  <2> QED
    BY <2>1, NoWrite DEF CacheInv
<1>2. CASE fetch' = Idle
  <2>1. Idle \in FetchType
    BY DataCacheAssumption DEF Idle, FetchType
  <2>2. FetchInv'
    BY <1>2, <2>1 DEF FetchInv, FetchType, Idle
  <2> QED
    BY <2>2, NoWrite DEF CacheInv
<1> QED
  BY <1>1, <1>2

LEMMA StartsFetch ==
  ASSUME CacheInv, NEW force \in BOOLEAN, StartFetch(force)
  PROVE  CacheInv' /\ Stays
<1> DEFINE W == Seq([name : Names, series : Series])
<1>1. <<>> \in W
  OBVIOUS
<1>2. fetch' = [at |-> "job", job |-> 1, force |-> force, writes |-> <<>>]
  BY DEF StartFetch, Idle
<1>3. 1 \in 0..(Len(Jobs) + 1)
  BY DataCacheAssumption
<1> HIDE DEF W
<1>4. fetch' \in [at : {"idle", "job", "write"}, job : 0..(Len(Jobs) + 1), force : BOOLEAN,
                 writes : W]
  BY <1>1, <1>2, <1>3
<1>5. FetchInv'
  BY <1>2, <1>4 DEF FetchInv, FetchType, W
<1>6. fetches' \in 0..MaxFetches /\ head' \in Blocks /\ UNCHANGED file
  BY DataCacheAssumption DEF CacheInv, StartFetch
<1> QED
  BY <1>5, <1>6, NoWrite

(* The writes of a job are taken up.                                       *)
LEMMA TakesUp ==
  ASSUME CacheInv, Picking, UNCHANGED <<head, file, fetches>>, NEW w,
         fetch' = [fetch EXCEPT !.at = "write", !.writes = w],
         w \in Seq([name : Names, series : Series]), WritesInv(w)
  PROVE  CacheInv' /\ Stays
<1> DEFINE W == Seq([name : Names, series : Series])
<1>1. /\ fetch \in [at : {"idle", "job", "write"}, job : 0..(Len(Jobs) + 1), force : BOOLEAN,
                    writes : W]
      /\ w \in W /\ fetch.job >= 1 /\ fetch.job <= Len(Jobs)
  BY DEF CacheInv, FetchInv, FetchType, Picking
<1> HIDE DEF W
<1>2. /\ fetch' \in [at : {"idle", "job", "write"}, job : 0..(Len(Jobs) + 1), force : BOOLEAN,
                     writes : W]
      /\ fetch'.at = "write" /\ fetch'.job = fetch.job /\ fetch'.writes = w
  BY <1>1
<1>3. WritesInv(w)'
  BY DEF WritesInv
<1>4. WritesInv(fetch.writes)'
  BY <1>2, <1>3
<1>5. FetchInv'
  BY <1>1, <1>2, <1>4 DEF FetchInv, FetchType, W
<1> QED
  BY <1>5, NoWrite DEF CacheInv

LEMMA ShortList ==
  ASSUME NEW T, NEW q \in Seq(T), Len(q) \in {1, 2}
  PROVE  /\ q[1] \in T /\ Head(q) = q[1] /\ 1 \in 1..Len(q)
         /\ Len(q) = 2 => /\ q[2] \in T /\ 2 \in 1..Len(q)
                          /\ Tail(q) \in Seq(T) /\ Len(Tail(q)) = 1 /\ Tail(q)[1] = q[2]
<1>1. 1 \in 1..Len(q) /\ (Len(q) = 2 => 2 \in 1..Len(q))
  OBVIOUS
<1>2. q[1] \in T /\ Head(q) = q[1] /\ (Len(q) = 2 => q[2] \in T)
  BY <1>1
<1>3. ASSUME Len(q) = 2 PROVE Tail(q) \in Seq(T) /\ Len(Tail(q)) = 1 /\ Tail(q)[1] = q[2]
  <2>1. q # <<>>
    BY <1>3
  <2>2. /\ Tail(q) \in Seq(T) /\ Len(Tail(q)) = Len(q) - 1
        /\ \A i \in 1..Len(Tail(q)) : Tail(q)[i] = q[i + 1]
    BY <2>1, HeadTailProperties
  <2>3. Len(Tail(q)) = 1
    BY <1>3, <2>2
  <2>4. Tail(q)[1] = q[1 + 1]
    BY <2>2, <2>3
  <2>5. 1 + 1 = 2
    OBVIOUS
  <2> QED
    BY <2>2, <2>3, <2>4, <2>5, Zenon
<1> QED
  BY <1>1, <1>2, <1>3

(* A file is written: the first of a pair grows before the second does.    *)
LEMMA Writes ==
  ASSUME CacheInv, WriteCache
  PROVE  CacheInv' /\ Stays
<1> DEFINE w == fetch.writes[1]
           T == [name : Names, series : Series]
<1>1. /\ fetch \in FetchType /\ fetch.at = "write" /\ fetch.writes \in Seq(T)
      /\ fetch.job >= 1 /\ fetch.job <= Len(Jobs)
      /\ WritesInv(fetch.writes) /\ Len(fetch.writes) \in {1, 2}
  BY DEF WriteCache, CacheInv, FetchInv, FetchType, WritesInv
<1> HIDE DEF T
<1>2. w \in T /\ Head(fetch.writes) = w /\ 1 \in 1..Len(fetch.writes)
  BY <1>1, ShortList
<1>3. /\ file \in [Names -> FileType] /\ file' = [file EXCEPT ![w.name] = Whole(w.series)]
      /\ w.name \in Names /\ w.series \in Series
  BY <1>2 DEF T, WriteCache, CacheInv, FilesInv
<1>4. /\ file'[w.name].is = "whole" /\ file'[w.name].series = w.series
      /\ \A n \in Names : n # w.name => file'[n] = file[n]
      /\ file' \in [Names -> FileType]
  <2>1. Whole(w.series) \in FileType
    BY <1>3 DEF Whole, FileType
  <2> QED
    BY <1>3, <2>1 DEF Whole
<1>5. /\ w.name \in Kept => file[w.name].is # "torn" /\ Within(file[w.name].series, w.series)
      /\ \A pair \in Pairs : w.name = pair[2] =>
           /\ file[pair[1]].is # "torn"
           /\ Within(w.series, file[pair[1]].series)
  BY <1>1, <1>2 DEF WritesInv
<1> HIDE DEF w
<1>6. FilesInv'
  BY <1>3, <1>4 DEF CacheInv, FilesInv
<1>7. PairsAgree'
  <2> SUFFICES ASSUME NEW pair \in Pairs, file'[pair[1]].is # "torn"
               PROVE  Within(file'[pair[2]].series, file'[pair[1]].series)
    BY DEF PairsAgree, Pairs, Within, DaysOf
  <2>1. /\ pair[1] \in Kept /\ pair[1] # pair[2] /\ pair[1] \in Names /\ pair[2] \in Names
        /\ file[pair[1]].is # "torn" => Within(file[pair[2]].series, file[pair[1]].series)
    BY PairNames, PairsWithin DEF CacheInv
  <2>2. CASE w.name = pair[1]
    BY <1>4, <1>5, <2>1, <2>2 DEF Within
  <2>3. CASE w.name = pair[2]
    BY <1>4, <1>5, <2>1, <2>3
  <2>4. CASE w.name # pair[1] /\ w.name # pair[2]
    BY <1>4, <2>1, <2>4
  <2> QED
    BY <2>2, <2>3, <2>4
<1>8. Stays
  <2> SUFFICES ASSUME NEW n \in Kept PROVE Within(file[n].series, file'[n].series)
    BY DEF Stays
  <2>1. n \in Names
    BY DEF Kept, Names, Scans
  <2> QED
    BY <1>4, <1>5, <2>1 DEF Within
<1>9. head' \in Blocks /\ fetches' \in 0..MaxFetches
  BY DEF WriteCache, CacheInv
<1>10. CASE Len(fetch.writes) = 1
  <2>1. fetch' = NextJob
    BY <1>10 DEF WriteCache
  <2>2. NextJob \in FetchType /\ NextJob.at = "job" /\ NextJob.job >= 1
    BY <1>1, NextJobs
  <2>3. FetchInv'
    BY <2>1, <2>2 DEF FetchInv, FetchType
  <2> QED
    BY <1>6, <1>7, <1>8, <1>9, <2>3 DEF CacheInv
<1>11. CASE Len(fetch.writes) = 2
  <2> DEFINE v == fetch.writes[2]
             next == Tail(fetch.writes)
  <2>1. v \in T /\ 2 \in 1..Len(fetch.writes)
    BY <1>1, <1>11, ShortList
  <2>2. next \in Seq(T) /\ Len(next) = 1 /\ next[1] = v
    BY <1>1, <1>11, ShortList
  <2>3. fetch' = [fetch EXCEPT !.writes = next]
    BY <1>11 DEF WriteCache
  <2>4. /\ v.name # w.name /\ v.name \in Names
        /\ v.name \in Kept => file[v.name].is # "torn" /\ Within(file[v.name].series, v.series)
        /\ \A pair \in Pairs : v.name = pair[2] =>
             w.name = pair[1] /\ Within(v.series, w.series)
    BY <1>1, <1>11, <2>1 DEF WritesInv, w, T
  <2> HIDE DEF v
  <2>5. /\ v.name \in Kept => file'[v.name].is # "torn" /\ Within(file'[v.name].series, v.series)
        /\ \A pair \in Pairs : v.name = pair[2] =>
             file'[pair[1]].is # "torn" /\ Within(v.series, file'[pair[1]].series)
    BY <1>4, <2>4
  <2> HIDE DEF next
  <2>6. \A i \in 1..Len(next) : next[i] = v
    BY <2>2
  <2>7. next[1] = v /\ Len(next) = 1
    BY <2>2
  <2>8. /\ Len(next) \in {1, 2} /\ Len(next) # 2
        /\ \A i \in 1..Len(next) : next[i].name \in Kept =>
             /\ file'[next[i].name].is # "torn"
             /\ Within(file'[next[i].name].series, next[i].series)
        /\ \A pair \in Pairs : next[1].name = pair[2] =>
             /\ file'[pair[1]].is # "torn"
             /\ Within(next[1].series, file'[pair[1]].series)
    BY <2>5, <2>6, <2>7
  <2>9. /\ fetch' \in FetchType /\ fetch'.writes = next /\ fetch'.job = fetch.job
    <3> DEFINE W == Seq([name : Names, series : Series])
    <3>1. fetch \in [at : {"idle", "job", "write"}, job : 0..(Len(Jobs) + 1), force : BOOLEAN,
                     writes : W] /\ next \in W
      BY <1>1, <2>2 DEF FetchType, T
    <3> HIDE DEF W
    <3>2. /\ fetch' \in [at : {"idle", "job", "write"}, job : 0..(Len(Jobs) + 1),
                        force : BOOLEAN, writes : W]
          /\ fetch'.writes = next /\ fetch'.job = fetch.job
      BY <2>3, <3>1
    <3> QED
      BY <3>2 DEF FetchType, W
  <2>10. WritesInv(fetch.writes)'
    BY <2>8, <2>9 DEF WritesInv
  <2>11. FetchInv'
    BY <1>1, <2>9, <2>10 DEF FetchInv
  <2> QED
    BY <1>6, <1>7, <1>8, <1>9, <2>11 DEF CacheInv
<1> QED
  BY <1>1, <1>10, <1>11

(* A kill leaves the file that was being written, if any, without a day.   *)
LEMMA Kills ==
  ASSUME CacheInv, KillFetch
  PROVE  CacheInv' /\ Stays
<1>1. Idle \in FetchType
  BY DataCacheAssumption DEF Idle, FetchType
<1>2. FetchInv' /\ head' \in Blocks /\ fetches' \in 0..MaxFetches
  BY <1>1 DEF KillFetch, CacheInv, FetchInv, Idle
<1>3. CASE UNCHANGED file
  BY <1>2, <1>3, NoWrite
<1>4. CASE fetch.at = "write" /\ file' = [file EXCEPT ![Head(fetch.writes).name] = Torn]
  <2> DEFINE n == fetch.writes[1].name
             T == [name : Names, series : Series]
  <2>1. fetch.writes \in Seq(T) /\ Len(fetch.writes) \in {1, 2}
    BY <1>4 DEF CacheInv, FetchInv, FetchType, WritesInv
  <2> HIDE DEF T
  <2>2. fetch.writes[1] \in T /\ Head(fetch.writes) = fetch.writes[1]
    BY <2>1, ShortList
  <2>3. n \in Names /\ file \in [Names -> FileType] /\ file' = [file EXCEPT ![n] = Torn]
    BY <1>4, <2>2 DEF T, CacheInv, FilesInv
  <2> HIDE DEF n
  <2>4. Torn \in FileType /\ Torn.is = "torn" /\ DOMAIN Torn.series = {}
    BY NoDaysAreASeries DEF Torn, FileType
  <2>5. /\ file' \in [Names -> FileType] /\ file'[n] = Torn
        /\ \A m \in Names : m # n => file'[m] = file[m]
    BY <2>3, <2>4
  <2> HIDE DEF Torn
  <2>6. FilesInv'
    BY <2>4, <2>5 DEF CacheInv, FilesInv
  <2>7. PairsAgree'
    <3> SUFFICES ASSUME NEW pair \in Pairs, file'[pair[1]].is # "torn"
                 PROVE  Within(file'[pair[2]].series, file'[pair[1]].series)
      BY DEF PairsAgree, Pairs, Within, DaysOf
    <3>1. /\ pair[1] # pair[2] /\ pair[1] \in Names /\ pair[2] \in Names
          /\ file[pair[1]].is # "torn" => Within(file[pair[2]].series, file[pair[1]].series)
      BY PairNames, PairsWithin DEF CacheInv
    <3> QED
      BY <2>4, <2>5, <3>1 DEF Within
  <2>8. Stays
    <3>1. Kept \subseteq Names
      BY DEF Kept, Names, Scans
    <3> QED
      BY <2>4, <2>5, <3>1 DEF Stays, Within
  <2> QED
    BY <1>2, <2>6, <2>7, <2>8 DEF CacheInv
<1> QED
  BY <1>3, <1>4 DEF KillFetch

LEMMA CacheSteps ==
  ASSUME CacheInv,
         FetchStep \/ Mine \/ (\E force \in BOOLEAN : StartFetch(force)) \/ UNCHANGED cacheVars
  PROVE  CacheInv' /\ Stays
<1>1. CASE UnreadableCache \/ Cached \/ FetchFails
  <2>1. /\ Picking /\ UNCHANGED <<head, file, fetches>>
        /\ fetch' \in {NextJob, Idle}
    BY <1>1 DEF UnreadableCache, Cached, FetchFails, Due
  <2> QED
    BY <2>1, Onwards
<1>2. CASE FetchFeed
  <2>1. PICK volume \in BOOLEAN :
          /\ volume => JobName = "qi_usd"
          /\ fetch' = [fetch EXCEPT !.at = "write",
               !.writes = IF volume
                          THEN <<Writing(JobName, Downloaded), Writing("qi_volume_usd", Downloaded)>>
                          ELSE <<Writing(JobName, Downloaded)>>]
    BY <1>2 DEF FetchFeed
  <2>2. Picking /\ JobName \in Feeds \union {"difficulty"} /\ UNCHANGED <<head, file, fetches>>
    BY <1>2 DEF FetchFeed, Due
  <2> QED
    BY <2>1, <2>2, FeedWritesFit, TakesUp
<1>3. CASE FetchScan
  <2>1. /\ Picking /\ JobName \in Scans /\ ~ScanRaises(JobName)
        /\ fetch' = [fetch EXCEPT !.at = "write", !.writes = ScanWrites(JobName)]
        /\ UNCHANGED <<head, file, fetches>>
    BY <1>3 DEF FetchScan, Due
  <2> QED
    BY <2>1, ScanWritesFit, TakesUp
<1>4. CASE WriteCache
  BY <1>4, Writes
<1>5. CASE EndFetch
  <2>1. Idle \in FetchType
    BY DataCacheAssumption DEF Idle, FetchType
  <2>2. FetchInv' /\ UNCHANGED file /\ head' \in Blocks /\ fetches' \in 0..MaxFetches
    BY <1>5, <2>1 DEF EndFetch, FetchInv, Idle, CacheInv
  <2> QED
    BY <2>2, NoWrite
<1>6. CASE KillFetch
  BY <1>6, Kills
<1>7. CASE Mine
  <2>1. FetchInv'
    BY <1>7 DEF Mine, CacheInv, FetchInv
  <2> QED
    BY <1>7, <2>1, NoWrite DEF Mine, CacheInv
<1>8. CASE \E force \in BOOLEAN : StartFetch(force)
  BY <1>8, StartsFetch
<1>9. CASE UNCHANGED cacheVars
  <2>1. FetchInv'
    BY <1>9 DEF cacheVars, CacheInv, FetchInv, WritesInv
  <2> QED
    BY <1>9, <2>1, NoWrite DEF cacheVars, CacheInv
<1> QED
  BY <1>1, <1>2, <1>3, <1>4, <1>5, <1>6, <1>7, <1>8, <1>9 DEF FetchStep

----
\* The pipeline

Outputs(c) == {Script[c].outputs[i] : i \in 1..Len(Script[c].outputs)}

Modes == {"sample", "real", "skip"}

PipeType == [at : {"idle", "fetch", "claim", "write"}, mode : Modes,
             claim : 0..(Len(Claims) + 1), writes : Seq(Files), failed : SUBSET ToSet(Claims)]

ResultType == [run : 0..MaxRuns, data : {"none", "real", "synthetic"}]

(* A file that is not to be written any more was written in this run.      *)
(* settlement.db, of which no section is made, may be older.               *)
BeingWritten ==
  pipe.at = "write" =>
    /\ pipe.claim <= Len(Claims)
    /\ pipe.writes # <<>>
    /\ \A i \in 1..Len(pipe.writes) : pipe.writes[i] \in Outputs(Claim)
    /\ \A f \in Outputs(Claim) \ {"settlement.db"} :
         \/ \E i \in 1..Len(pipe.writes) : pipe.writes[i] = f
         \/ result[f].run = runs

(* Of the claims that had their turn, each is listed or has written its    *)
(* files in this run.                                                      *)
TurnsTaken ==
  pipe.at # "idle" =>
    /\ pipe.claim >= 1
    /\ \A i \in 1..Len(Claims) : i < pipe.claim =>
         \/ Claims[i] \in pipe.failed
         \/ \A f \in Outputs(Claims[i]) \ {"settlement.db"} : result[f].run = runs

PipeInv ==
  /\ pipe \in PipeType /\ result \in [Files -> ResultType] /\ runs \in 0..MaxRuns
  /\ \A f \in Files : result[f].run <= runs
  /\ BeingWritten /\ TurnsTaken

FileNames == {"claim1_stats.json", "claim1.md", "claim2.md", "qi_index.json", "settlement.db",
              "receipt.json", "claim5.md", "claim6.md", "claim7.md"}

(* No two scripts write the same file.                                     *)
LEMMA Scripts ==
  /\ \A c \in DOMAIN Script :
       /\ Script[c].outputs \in Seq(FileNames) /\ Script[c].outputs # <<>>
       /\ ToSet(Script[c].outputs) = Outputs(c)
  /\ \A c, d \in DOMAIN Script : c # d => Outputs(c) \intersect Outputs(d) = {}
  /\ \A c \in DOMAIN Script :
       "receipt.json" \in Outputs(c) => "settlement.db" \in Outputs(c)
<1>1. \A c \in DOMAIN Script :
        c \in {"claim1", "claim2", "qi_index", "claim4", "claim5", "claim6", "claim7"}
  BY DEF Script
<1>2. /\ Script["claim1"].outputs = <<"claim1_stats.json", "claim1.md">>
      /\ Script["claim2"].outputs = <<"claim2.md">>
      /\ Script["qi_index"].outputs = <<"qi_index.json">>
      /\ Script["claim4"].outputs = <<"settlement.db", "receipt.json">>
      /\ Script["claim5"].outputs = <<"claim5.md">>
      /\ Script["claim6"].outputs = <<"claim6.md">>
      /\ Script["claim7"].outputs = <<"claim7.md">>
  BY DEF Script, Claim1, Claim2, QiIndex, Claim4, Claim5, Claim6, Claim7
<1>3. \A c \in DOMAIN Script : Script[c].outputs \in Seq(FileNames) /\ Script[c].outputs # <<>>
  <2>1. \A x, y \in FileNames : <<x>> \in Seq(FileNames) /\ <<x, y>> \in Seq(FileNames)
    OBVIOUS
  <2>2. /\ <<"claim2.md">> # <<>> /\ <<"qi_index.json">> # <<>> /\ <<"claim5.md">> # <<>>
        /\ <<"claim6.md">> # <<>> /\ <<"claim7.md">> # <<>>
        /\ <<"claim1_stats.json", "claim1.md">> # <<>>
        /\ <<"settlement.db", "receipt.json">> # <<>>
    OBVIOUS
  <2> QED
    <3>1. /\ "claim2.md" \in FileNames /\ "qi_index.json" \in FileNames /\ "claim5.md" \in FileNames
          /\ "claim6.md" \in FileNames /\ "claim7.md" \in FileNames
          /\ "claim1_stats.json" \in FileNames /\ "claim1.md" \in FileNames
          /\ "settlement.db" \in FileNames /\ "receipt.json" \in FileNames
      BY DEF FileNames
    <3>2. \A c \in DOMAIN Script : Script[c].outputs \in
            {<<"claim1_stats.json", "claim1.md">>, <<"claim2.md">>, <<"qi_index.json">>,
             <<"settlement.db", "receipt.json">>, <<"claim5.md">>, <<"claim6.md">>, <<"claim7.md">>}
      BY <1>1, <1>2, Zenon
    <3> QED
      BY <2>1, <2>2, <3>1, <3>2, Zenon
<1>4. \A c \in DOMAIN Script : ToSet(Script[c].outputs) = Outputs(c)
  BY <1>3 DEF ToSet, Outputs
<1>5. /\ Outputs("claim1") = {"claim1_stats.json", "claim1.md"}
      /\ Outputs("claim2") = {"claim2.md"}
      /\ Outputs("qi_index") = {"qi_index.json"}
      /\ Outputs("claim4") = {"settlement.db", "receipt.json"}
      /\ Outputs("claim5") = {"claim5.md"}
      /\ Outputs("claim6") = {"claim6.md"}
      /\ Outputs("claim7") = {"claim7.md"}
  BY <1>2 DEF Outputs
<1>6. \A c, d \in DOMAIN Script : c # d => Outputs(c) \intersect Outputs(d) = {}
  BY <1>1, <1>5
<1>7. \A c \in DOMAIN Script :
        "receipt.json" \in Outputs(c) => "settlement.db" \in Outputs(c)
  BY <1>1, <1>5
<1> QED
  BY <1>3, <1>4, <1>6, <1>7

LEMMA ClaimsAre ==
  /\ Len(Claims) \in Nat
  /\ \A i \in 1..Len(Claims) : /\ Claims[i] \in DOMAIN Script /\ Claims[i] \in ToSet(Claims)
                             /\ Outputs(Claims[i]) \subseteq Files
  /\ \A f \in Files : \E i \in 1..Len(Claims) : f \in Outputs(Claims[i])
  /\ \A c \in ToSet(Claims) : \E i \in 1..Len(Claims) : c = Claims[i]
<1>1. /\ Len(Claims) \in Nat /\ DOMAIN Claims = 1..Len(Claims)
      /\ \A i \in 1..Len(Claims) : Claims[i] \in DOMAIN Script
  BY PipelineAssumption
<1>2. ToSet(Claims) = {Claims[i] : i \in 1..Len(Claims)}
  BY <1>1 DEF ToSet
<1>3. Files = UNION {Outputs(Claims[i]) : i \in 1..Len(Claims)}
  BY <1>1, Scripts DEF Files
<1> QED
  BY <1>1, <1>2, <1>3

(* The author of a file is the claim that writes it.                       *)
LEMMA Authors ==
  ASSUME NEW i \in 1..Len(Claims), NEW f \in Outputs(Claims[i])
  PROVE  Author(f) = Claims[i]
<1>1. \A c \in ToSet(Claims) : c \in DOMAIN Script /\ ToSet(Script[c].outputs) = Outputs(c)
  BY ClaimsAre, Scripts
<1>2. Claims[i] \in ToSet(Claims) /\ f \in ToSet(Script[Claims[i]].outputs)
  BY <1>1, ClaimsAre
<1>3. \A c \in ToSet(Claims) : f \in ToSet(Script[c].outputs) => c = Claims[i]
  BY <1>1, <1>2, ClaimsAre, Scripts
<1> QED
  BY <1>2, <1>3 DEF Author

(* Steps of other programs: results and the pipeline are left alone.       *)
LEMMA PipeUnchanged ==
  ASSUME PipeInv, UNCHANGED pipeVars
  PROVE  PipeInv'
<1>1. pipe' = pipe /\ result' = result /\ runs' = runs
  BY DEF pipeVars
<1>2. BeingWritten' /\ TurnsTaken'
  BY <1>1 DEF PipeInv, BeingWritten, TurnsTaken, Claim
<1> QED
  BY <1>1, <1>2 DEF PipeInv

(* A step that moves main alone: what has been written stays.              *)
LEMMA NextClaims ==
  ASSUME PipeInv, NEW failed \in BOOLEAN, pipe' = NextClaim(failed), runs' = runs,
         pipe.at \in {"claim", "write"}, pipe.claim <= Len(Claims),
         result' \in [Files -> ResultType], \A f \in Files : result'[f].run <= runs,
         \A i \in 1..Len(Claims) : \A f \in Outputs(Claims[i]) \ {"settlement.db"} :
           result[f].run = runs => result'[f].run = runs,
         failed \/ \A f \in Outputs(Claim) \ {"settlement.db"} : result'[f].run = runs
  PROVE  PipeInv'
<1>1. /\ pipe \in PipeType /\ pipe.claim \in 1..Len(Claims)
      /\ Claim \in ToSet(Claims) /\ Claim = Claims[pipe.claim]
  BY ClaimsAre DEF PipeInv, PipeType, TurnsTaken, Claim
<1> DEFINE W == Seq(Files)
           F == SUBSET ToSet(Claims)
           more == pipe.failed \union (IF failed THEN {Claim} ELSE {})
           T == [at : {"idle", "fetch", "claim", "write"}, mode : Modes,
                 claim : 0..(Len(Claims) + 1), writes : W, failed : F]
<1>2. <<>> \in W /\ more \in F /\ pipe \in T
  BY <1>1 DEF PipeType
<1>3. pipe.failed \subseteq more /\ (failed => Claim \in more)
  OBVIOUS
<1>4. pipe.claim + 1 \in 0..(Len(Claims) + 1)
  BY <1>1, ClaimsAre
<1>5. pipe' = [pipe EXCEPT !.at = "claim", !.claim = pipe.claim + 1, !.writes = <<>>, !.failed = more]
  BY DEF NextClaim
<1> DEFINE f1 == [pipe EXCEPT !.at = "claim"]
           f2 == [f1 EXCEPT !.claim = pipe.claim + 1]
           f3 == [f2 EXCEPT !.writes = <<>>]
<1> HIDE DEF W, F, more
<1>6. f1 \in T /\ f1.at = "claim"
  BY <1>2
<1>7. f2 \in T /\ f2.at = "claim" /\ f2.claim = pipe.claim + 1
  <2> HIDE DEF f1
  <2> QED
    BY <1>4, <1>6
<1>8. f3 \in T /\ f3.at = "claim" /\ f3.claim = pipe.claim + 1
  <2> HIDE DEF f2
  <2> QED
    BY <1>2, <1>7
<1>9. pipe' = [f3 EXCEPT !.failed = more]
  BY <1>2, <1>5
<1> HIDE DEF f3
<1>10. pipe' \in T /\ pipe'.at = "claim" /\ pipe'.claim = pipe.claim + 1 /\ pipe'.failed = more
  BY <1>2, <1>8, <1>9
<1>11. pipe' \in PipeType
  BY <1>10 DEF PipeType, W, F
<1>12. BeingWritten'
  BY <1>10 DEF BeingWritten
<1>13. ASSUME NEW i \in 1..Len(Claims), i < pipe.claim + 1
       PROVE  \/ Claims[i] \in more
              \/ \A f \in Outputs(Claims[i]) \ {"settlement.db"} : result'[f].run = runs
  <2>1. CASE i = pipe.claim
    BY <1>1, <1>3, <2>1
  <2>2. CASE i < pipe.claim
    BY <1>3, <2>2 DEF PipeInv, TurnsTaken
  <2> QED
    BY <1>1, <1>13, <2>1, <2>2
<1>14. TurnsTaken'
  <2>1. pipe'.claim >= 1
    BY <1>1, <1>10
  <2> QED
    BY <1>10, <1>13, <2>1 DEF TurnsTaken
<1> QED
  BY <1>11, <1>12, <1>14 DEF PipeInv

(* The run begins: no claim had its turn.                                  *)
LEMMA Begins ==
  ASSUME PipeInv, NEW mode \in Modes, Reproduce(mode)
  PROVE  PipeInv'
<1> DEFINE W == Seq(Files)
           F == SUBSET ToSet(Claims)
           start == IF mode = "real" THEN "fetch" ELSE "claim"
<1>1. <<>> \in W /\ {} \in F /\ 1 \in 0..(Len(Claims) + 1)
      /\ start \in {"idle", "fetch", "claim", "write"} /\ start \notin {"idle", "write"}
  BY ClaimsAre
<1>2. pipe' = [at |-> start, mode |-> mode, claim |-> 1, writes |-> <<>>, failed |-> {}]
  BY DEF Reproduce, Resting
<1> HIDE DEF W, F, start
<1>3. pipe' \in [at : {"idle", "fetch", "claim", "write"}, mode : Modes,
                claim : 0..(Len(Claims) + 1), writes : W, failed : F]
  BY <1>1, <1>2
<1>4. pipe'.at # "write" /\ pipe'.claim = 1
  BY <1>1, <1>2
<1>5. /\ result' = result /\ runs' = runs + 1 /\ runs' \in 0..MaxRuns
      /\ \A f \in Files : result[f].run \in Nat
  BY PipelineAssumption DEF Reproduce, PipeInv, ResultType
<1>6. \A f \in Files : result'[f].run <= runs'
  BY <1>5 DEF PipeInv
<1>7. BeingWritten' /\ TurnsTaken'
  BY <1>4, ClaimsAre DEF BeingWritten, TurnsTaken
<1> QED
  BY <1>3, <1>5, <1>6, <1>7 DEF PipeInv, PipeType, W, F

(* The run is over: nothing is said of it any more.                        *)
LEMMA RestingType == Resting \in PipeType /\ Resting.at = "idle"
<1> DEFINE W == Seq(Files)
           F == SUBSET ToSet(Claims)
<1>1. <<>> \in W /\ {} \in F /\ 0 \in 0..(Len(Claims) + 1) /\ "real" \in Modes
  BY ClaimsAre DEF Modes
<1> HIDE DEF W, F
<1>2. Resting \in [at : {"idle", "fetch", "claim", "write"}, mode : Modes,
                  claim : 0..(Len(Claims) + 1), writes : W, failed : F]
  BY <1>1 DEF Resting
<1> QED
  BY <1>2 DEF PipeType, W, F, Resting

LEMMA Rests ==
  ASSUME PipeInv, pipe' = Resting, UNCHANGED <<result, runs>>
  PROVE  PipeInv'
<1>1. BeingWritten' /\ TurnsTaken'
  BY RestingType DEF BeingWritten, TurnsTaken
<1> QED
  BY <1>1, RestingType DEF PipeInv

LEMMA Continues ==
  ASSUME PipeInv, Fetched
  PROVE  PipeInv'
<1> DEFINE W == Seq(Files)
           F == SUBSET ToSet(Claims)
<1>1. pipe \in [at : {"idle", "fetch", "claim", "write"}, mode : Modes,
               claim : 0..(Len(Claims) + 1), writes : W, failed : F]
      /\ pipe.at = "fetch" /\ pipe' = [pipe EXCEPT !.at = "claim"]
      /\ result' = result /\ runs' = runs
  BY DEF Fetched, PipeInv, PipeType
<1> HIDE DEF W, F
<1>2. /\ pipe' \in [at : {"idle", "fetch", "claim", "write"}, mode : Modes,
                    claim : 0..(Len(Claims) + 1), writes : W, failed : F]
      /\ pipe'.at = "claim" /\ pipe'.claim = pipe.claim /\ pipe'.failed = pipe.failed
  BY <1>1
<1>3. BeingWritten' /\ TurnsTaken'
  BY <1>1, <1>2 DEF PipeInv, BeingWritten, TurnsTaken
<1> QED
  BY <1>1, <1>2, <1>3 DEF PipeInv, PipeType, W, F

LEMMA Runs ==
  ASSUME PipeInv, RunClaim
  PROVE  PipeInv'
<1> DEFINE W == Seq(Files)
           F == SUBSET ToSet(Claims)
           out == Script[Claim].outputs
<1>1. pipe \in [at : {"idle", "fetch", "claim", "write"}, mode : Modes,
               claim : 0..(Len(Claims) + 1), writes : W, failed : F]
      /\ pipe.at = "claim" /\ pipe.claim <= Len(Claims) /\ pipe.claim >= 1
      /\ pipe' = [pipe EXCEPT !.at = "write", !.writes = out]
      /\ result' = result /\ runs' = runs
  BY DEF RunClaim, PipeInv, PipeType, TurnsTaken
<1>2. /\ Claim \in DOMAIN Script /\ Outputs(Claim) \subseteq Files
      /\ Outputs(Claim) = {out[i] : i \in 1..Len(out)}
  BY <1>1, ClaimsAre DEF Claim, Outputs
<1>3. out \in Seq(FileNames) /\ out # <<>>
  BY <1>2, Scripts
<1> HIDE DEF out
<1>4. \A i \in 1..Len(out) : out[i] \in Files
  BY <1>2
<1>5. out \in W
  BY <1>3, <1>4
<1> HIDE DEF W, F
<1>6. /\ pipe' \in [at : {"idle", "fetch", "claim", "write"}, mode : Modes,
                    claim : 0..(Len(Claims) + 1), writes : W, failed : F]
      /\ pipe'.at = "write" /\ pipe'.claim = pipe.claim /\ pipe'.failed = pipe.failed
      /\ pipe'.writes = out
  BY <1>1, <1>5
<1>7. Claim' = Claim
  BY <1>6 DEF Claim
<1>8. /\ \A i \in 1..Len(out) : out[i] \in Outputs(Claim)
      /\ \A f \in Outputs(Claim) : \E i \in 1..Len(out) : out[i] = f
  BY <1>2
<1>9. BeingWritten' /\ TurnsTaken'
  BY <1>1, <1>3, <1>6, <1>7, <1>8 DEF PipeInv, BeingWritten, TurnsTaken
<1> QED
  BY <1>1, <1>6, <1>9 DEF PipeInv, PipeType, W, F

LEMMA Fails ==
  ASSUME PipeInv, ClaimFails
  PROVE  PipeInv'
<1>1. /\ pipe.at \in {"claim", "write"} /\ pipe.claim <= Len(Claims)
      /\ pipe' = NextClaim(TRUE) /\ result' = result /\ runs' = runs
  BY DEF ClaimFails, PipeInv, BeingWritten
<1>2. /\ result' \in [Files -> ResultType] /\ \A f \in Files : result'[f].run <= runs
      /\ \A i \in 1..Len(Claims) : \A f \in Outputs(Claims[i]) \ {"settlement.db"} :
           result[f].run = runs => result'[f].run = runs
  BY <1>1 DEF PipeInv
<1> QED
  BY <1>1, <1>2, NextClaims

(* What is written is dated by the run, but for the job that was escrowed  *)
(* already.                                                                *)
LEMMA WrittenNow ==
  ASSUME PipeInv, pipe.at = "write", NEW f \in Outputs(Claim)
  PROVE  /\ f \in Files /\ Claim = Claims[pipe.claim] /\ pipe.claim \in 1..Len(Claims)
         /\ Written(f) \in ResultType /\ Written(f).run <= runs
         /\ f # "settlement.db" => Written(f).run = runs
<1>1. pipe.claim \in 1..Len(Claims) /\ Claim = Claims[pipe.claim]
  BY DEF PipeInv, PipeType, BeingWritten, TurnsTaken, Claim
<1>2. f \in Files /\ Claim \in DOMAIN Script /\ Outputs(Claim) \subseteq Files
  BY <1>1, ClaimsAre
<1>3. Mode \in {"none", "real", "synthetic"}
  BY DEF Mode
<1>4. \A g \in Files : result[g] \in ResultType /\ result[g].run <= runs
  BY DEF PipeInv
<1>5. runs \in 0..MaxRuns /\ MaxRuns \in Nat
  BY PipelineAssumption DEF PipeInv
<1>6. CASE f = "settlement.db"
  <2>1. Written(f) \in {[run |-> runs, data |-> Mode], result[f]}
    BY <1>6 DEF Written
  <2> QED
    BY <1>1, <1>2, <1>3, <1>4, <1>5, <1>6, <2>1 DEF ResultType
<1>7. CASE f = "receipt.json"
  <2>1. Written(f) = [run |-> runs, data |-> result["settlement.db"].data]
    BY <1>7 DEF Written
  <2>2. result["settlement.db"] \in ResultType
    BY <1>2, <1>4, <1>7, Scripts
  <2> QED
    BY <1>1, <1>2, <1>5, <2>1, <2>2 DEF ResultType
<1>8. CASE f # "settlement.db" /\ f # "receipt.json"
  <2>1. Written(f) = [run |-> runs, data |-> Mode]
    BY <1>8 DEF Written
  <2> QED
    BY <1>1, <1>2, <1>3, <1>5, <2>1 DEF ResultType
<1> QED
  BY <1>6, <1>7, <1>8

LEMMA WritesResult ==
  ASSUME PipeInv, WriteResult
  PROVE  PipeInv'
<1> DEFINE w == pipe.writes
           f == w[1]
           W == Seq(Files)
           F == SUBSET ToSet(Claims)
<1>1. /\ pipe \in [at : {"idle", "fetch", "claim", "write"}, mode : Modes,
                  claim : 0..(Len(Claims) + 1), writes : W, failed : F]
      /\ pipe.at = "write" /\ w \in W /\ w # <<>> /\ pipe.claim <= Len(Claims) /\ runs' = runs
      /\ \A i \in 1..Len(w) : w[i] \in Outputs(Claim)
      /\ \A g \in Outputs(Claim) \ {"settlement.db"} :
           (\E i \in 1..Len(w) : w[i] = g) \/ result[g].run = runs
  BY DEF WriteResult, PipeInv, PipeType, BeingWritten
<1>2. Len(w) \in Nat /\ 1 \in 1..Len(w) /\ Head(w) = f
  BY <1>1
<1>3. f \in Outputs(Claim)
  BY <1>1, <1>2
<1>4. result' = [result EXCEPT ![f] = Written(f)]
  BY <1>2 DEF WriteResult
<1>5. /\ f \in Files /\ Written(f) \in ResultType /\ Written(f).run <= runs
      /\ f # "settlement.db" => Written(f).run = runs
      /\ Claim = Claims[pipe.claim] /\ pipe.claim \in 1..Len(Claims)
  BY <1>1, <1>3, WrittenNow
<1>6. result \in [Files -> ResultType] /\ \A g \in Files : result[g].run <= runs
  BY DEF PipeInv
<1> HIDE DEF f
<1>7. /\ result' \in [Files -> ResultType] /\ \A g \in Files : result'[g].run <= runs
      /\ \A g \in Files \ {"settlement.db"} : g = f \/ result[g].run = runs => result'[g].run = runs
  BY <1>4, <1>5, <1>6
<1>8. \A i \in 1..Len(Claims) : \A g \in Outputs(Claims[i]) \ {"settlement.db"} :
        result[g].run = runs => result'[g].run = runs
  BY <1>7, ClaimsAre
<1>9. \A g \in Outputs(Claim) \ {"settlement.db"} :
        g \in Files /\ (g = f \/ result[g].run = runs => result'[g].run = runs)
  BY <1>5, <1>7, ClaimsAre
<1>10. CASE Len(w) = 1
  <2>1. \A i \in 1..Len(w) : w[i] = f
    BY <1>10 DEF f
  <2>2. \A g \in Outputs(Claim) \ {"settlement.db"} : result'[g].run = runs
    BY <1>1, <1>9, <2>1
  <2>3. pipe' = NextClaim(FALSE)
    BY <1>10 DEF WriteResult
  <2> QED
    BY <1>1, <1>7, <1>8, <2>2, <2>3, NextClaims
<1>11. CASE Len(w) # 1
  <2> DEFINE t == Tail(w)
  <2>1. /\ t \in W /\ Len(t) = Len(w) - 1
        /\ \A i \in 1..Len(t) : t[i] = w[i + 1]
    BY <1>1, HeadTailProperties
  <2>2. pipe' = [pipe EXCEPT !.writes = t]
    BY <1>11 DEF WriteResult
  <2> HIDE DEF t, w, W, F
  <2>3. /\ pipe' \in [at : {"idle", "fetch", "claim", "write"}, mode : Modes,
                     claim : 0..(Len(Claims) + 1), writes : W, failed : F]
        /\ pipe'.at = "write" /\ pipe'.claim = pipe.claim /\ pipe'.failed = pipe.failed
        /\ pipe'.writes = t
    BY <1>1, <2>1, <2>2
  <2>4. Claim' = Claim
    BY <2>3 DEF Claim
  <2>5. Len(t) >= 1 /\ \A i \in 1..Len(t) : i + 1 \in 1..Len(w)
    BY <1>2, <1>11, <2>1
  <2>6. t # <<>> /\ \A i \in 1..Len(t) : t[i] \in Outputs(Claim)
    BY <1>1, <2>1, <2>5
  <2>7. ASSUME NEW g \in Outputs(Claim) \ {"settlement.db"}
        PROVE  (\E i \in 1..Len(t) : t[i] = g) \/ result'[g].run = runs
    <3>1. CASE g = f \/ result[g].run = runs
      BY <1>9, <3>1
    <3>2. CASE g # f /\ result[g].run # runs
      <4>1. PICK i \in 1..Len(w) : w[i] = g
        BY <1>1, <3>2
      <4>2. i # 1
        BY <3>2, <4>1 DEF f
      <4>3. i - 1 \in 1..Len(t) /\ (i - 1) + 1 = i
        BY <1>2, <2>1, <4>1, <4>2
      <4>4. t[i - 1] = w[(i - 1) + 1]
        BY <2>1, <4>3
      <4> QED
        BY <4>1, <4>3, <4>4
    <3> QED
      BY <3>1, <3>2
  <2>8. BeingWritten'
    BY <1>1, <2>3, <2>4, <2>6, <2>7 DEF BeingWritten
  <2>9. TurnsTaken'
    BY <1>1, <1>8, <2>3 DEF PipeInv, TurnsTaken
  <2> QED
    BY <1>1, <1>7, <2>3, <2>8, <2>9 DEF PipeInv, PipeType, W, F
<1> QED
  BY <1>10, <1>11

(* The sections that a report is made of.                                  *)
LEMMA Reports ==
  ASSUME PipeInv, WriteReport
  PROVE  StaleIsListed'
<1> DEFINE sections == [f \in {g \in Files \ {"settlement.db"} : result[g] # None} |-> result[f]]
<1>1. report' = [run |-> runs, mode |-> Mode, sections |-> sections, incomplete |-> pipe.failed]
  BY DEF WriteReport, Incomplete
<1>2. /\ DOMAIN sections \subseteq Files \ {"settlement.db"}
      /\ \A f \in DOMAIN sections : sections[f] = result[f]
  OBVIOUS
<1> HIDE DEF sections
<1>3. ASSUME NEW f \in DOMAIN sections, result[f].run < runs
      PROVE  Author(f) \in pipe.failed
  <2>1. PICK i \in 1..Len(Claims) : f \in Outputs(Claims[i])
    BY <1>2, ClaimsAre
  <2>2. i < pipe.claim
    BY ClaimsAre DEF WriteReport, PipeInv, PipeType
  <2>3. result[f].run # runs
    BY <1>2, <1>3 DEF PipeInv, ResultType
  <2>4. Claims[i] \in pipe.failed
    BY <1>2, <2>1, <2>2, <2>3 DEF PipeInv, TurnsTaken, WriteReport
  <2> QED
    BY <2>1, <2>4, Authors
<1> QED
  BY <1>1, <1>2, <1>3 DEF StaleIsListed

----
\* Theorems

ResearchInv == CacheInv /\ PipeInv /\ StaleIsListed

LEMMA InitInv ==
  ASSUME Init
  PROVE  ResearchInv
<1>1. FilesInv /\ PairsAgree
  <2>1. Absent \in FileType /\ DOMAIN Absent.series = {}
    BY NoDaysAreASeries DEF Absent, FileType
  <2>2. file \in [Names -> FileType] /\ \A n \in Names : file[n] = Absent
    BY <2>1 DEF Init, CacheInit
  <2>3. \A pair \in Pairs : pair[1] \in Names /\ pair[2] \in Names
    BY PairNames
  <2> QED
    BY <2>1, <2>2, <2>3 DEF FilesInv, PairsAgree, Pairs, DaysOf
<1>2. FetchInv
  <2>1. Idle \in FetchType /\ Idle.at = "idle"
    BY DataCacheAssumption DEF Idle, FetchType
  <2> QED
    BY <2>1 DEF Init, CacheInit, FetchInv
<1>3. head \in Blocks /\ fetches \in 0..MaxFetches
  BY DataCacheAssumption DEF Init, CacheInit
<1>4. None \in ResultType /\ None.run = 0
  BY PipelineAssumption DEF None, ResultType
<1>5. /\ result \in [Files -> ResultType] /\ runs = 0 /\ pipe = Resting
      /\ \A f \in Files : result[f].run = 0
  BY <1>4 DEF Init
<1>6. PipeInv
  BY <1>5, RestingType, PipelineAssumption DEF PipeInv, BeingWritten, TurnsTaken
<1>7. StaleIsListed
  BY DEF Init, NoReport, StaleIsListed
<1> QED
  BY <1>1, <1>2, <1>3, <1>6, <1>7 DEF ResearchInv, CacheInv

LEMMA NextInv ==
  ASSUME ResearchInv, [Next]_vars
  PROVE  ResearchInv' /\ Stays
<1>1. CASE \E mode \in Modes : Reproduce(mode)
  <2>1. PICK mode \in Modes : Reproduce(mode)
    BY <1>1
  <2>2. StartFetch(FALSE) \/ UNCHANGED cacheVars
    BY <2>1 DEF Reproduce
  <2>3. CacheInv' /\ Stays
    BY <2>2, CacheSteps DEF ResearchInv
  <2>4. StaleIsListed'
    BY <2>1 DEF Reproduce, ResearchInv, StaleIsListed
  <2> QED
    BY <2>1, <2>3, <2>4, Begins DEF ResearchInv
<1>2. CASE Fetched \/ RunClaim \/ ClaimFails \/ WriteResult \/ KillRun
  <2>1. UNCHANGED cacheVars /\ UNCHANGED report
    BY <1>2 DEF Fetched, RunClaim, ClaimFails, WriteResult, KillRun
  <2>2. CacheInv' /\ Stays
    BY <2>1, CacheSteps DEF ResearchInv
  <2>3. StaleIsListed'
    BY <2>1 DEF ResearchInv, StaleIsListed
  <2>4. KillRun => PipeInv'
    BY Rests DEF KillRun, ResearchInv
  <2> QED
    BY <1>2, <2>2, <2>3, <2>4, Continues, Runs, Fails, WritesResult DEF ResearchInv
<1>3. CASE WriteReport
  <2>1. UNCHANGED cacheVars /\ UNCHANGED <<result, runs>> /\ pipe' = Resting
    BY <1>3 DEF WriteReport
  <2>2. CacheInv' /\ Stays
    BY <2>1, CacheSteps DEF ResearchInv
  <2> QED
    BY <1>3, <2>1, <2>2, Reports, Rests DEF ResearchInv
<1>4. CASE Fetch \/ FetchAlone \/ ChainGrows \/ UNCHANGED vars
  <2>1. /\ FetchStep \/ Mine \/ (\E force \in BOOLEAN : StartFetch(force)) \/ UNCHANGED cacheVars
        /\ UNCHANGED pipeVars
    BY <1>4 DEF Fetch, FetchAlone, ChainGrows, vars
  <2>2. CacheInv' /\ Stays
    BY <2>1, CacheSteps DEF ResearchInv
  <2>3. PipeInv'
    BY <2>1, PipeUnchanged DEF ResearchInv
  <2>4. StaleIsListed'
    BY <2>1 DEF pipeVars, ResearchInv, StaleIsListed
  <2> QED
    BY <2>2, <2>3, <2>4 DEF ResearchInv
<1> QED
  BY <1>1, <1>2, <1>3, <1>4 DEF Next, Modes

(* The invariant holds of every behaviour.                                 *)
THEOREM InvariantHolds == Spec => []ResearchInv
<1>1. Init => ResearchInv
  BY InitInv
<1>2. ResearchInv /\ [Next]_vars => ResearchInv'
  BY NextInv
<1> QED
  BY <1>1, <1>2, PTL DEF Spec

(* Caches, results and the two programs keep their types: every day in a   *)
(* cache comes from a block of the chain, and no result is of a later run. *)
THEOREM TypeCorrect == Spec => []TypeOK
<1>1. ResearchInv => TypeOK
  <2> SUFFICES ASSUME ResearchInv PROVE TypeOK
    OBVIOUS
  <2>1. \A n \in Names : /\ file[n].is \in {"absent", "torn", "whole"}
                         /\ file[n].series \in Series
    BY DEF ResearchInv, CacheInv, FilesInv, FileType
  <2>2. CacheTypeOK
    BY <2>1, SeriesAre DEF ResearchInv, CacheInv, FetchInv, FetchType, CacheTypeOK, DaysOf
  <2> QED
    BY <2>2 DEF ResearchInv, PipeInv, PipeType, ResultType, TypeOK
<1> QED
  BY <1>1, InvariantHolds, PTL

(* Of two files that one scan writes, the second has no day that the first *)
(* lacks, wherever fetch_data.py is killed: the first is written first,    *)
(* and a scan that meets a torn file writes neither.                       *)
THEOREM PairsAlwaysAgree == Spec => []PairsAgree
<1>1. ResearchInv => PairsAgree
  BY DEF ResearchInv, CacheInv
<1> QED
  BY <1>1, InvariantHolds, PTL

(* A scan resumes at days that it does not have, so that what an earlier   *)
(* one sampled is never lost or counted for another block.                 *)
THEOREM SamplesAlwaysKept == Spec => SamplesAreKept
<1>1. ResearchInv /\ [Next]_vars =>
        [\A n \in {"token_choice_counts", "token_choice_qi_fraction", "exchange_rate",
                   "kawpow_ws", "twp_ws"} :
           file[n].is = "whole" /\ file'[n].is # "torn" =>
             \A d \in DaysOf(n) : d \in DOMAIN file'[n].series
                                  /\ file'[n].series[d] = file[n].series[d]]_cacheVars
  BY NextInv DEF Stays, Kept, Within, DaysOf
<1> QED
  BY <1>1, InvariantHolds, PTL DEF Spec, SamplesAreKept

(* In the report of reproduce.py a section of an earlier run is one whose  *)
(* claim is listed as incomplete, wherever a claim or a run was killed.    *)
THEOREM StaleAlwaysListed == Spec => []StaleIsListed
<1>1. ResearchInv => StaleIsListed
  BY DEF ResearchInv
<1> QED
  BY <1>1, InvariantHolds, PTL

----
\* The ledger of claim 4

(* Integer division by a positive divisor rounds down.                     *)
LEMMA DivisionBounds ==
  ASSUME NEW a \in Nat, NEW t \in Nat \ {0}
  PROVE  /\ a \div t \in Nat
         /\ (a \div t) * t <= a
         /\ a < (a \div t + 1) * t
  BY Z3

(* A share is a part of the escrow: none of a job of no tokens, the whole  *)
(* of a job served completely, and never more than the tokens served earn. *)
LEMMA ShareBounds ==
  ASSUME NEW e \in Nat, NEW s \in Nat, NEW t \in Nat
  PROVE  /\ Share(e, s, t) \in Nat
         /\ Share(e, s, t) <= e
         /\ t > 0 => /\ Share(e, s, t) * t <= e * s
                     /\ Share(e, s, t) < e => (Share(e, s, t) + 1) * t > e * s
<1>1. CASE t = 0
  BY <1>1 DEF Share
<1>2. CASE t > 0
  <2> DEFINE n == Lesser(s, t)
             q == (e * n) \div t
  <2>1. n \in Nat /\ n <= s /\ n <= t
    BY DEF Lesser
  <2>2. e * n \in Nat /\ e * n <= e * s /\ e * n <= e * t
    BY <2>1, Z3
  <2>3. q \in Nat /\ q * t <= e * n /\ e * n < (q + 1) * t
    BY <2>2, <1>2, DivisionBounds
  <2>4. q <= e
    <3>1. q * t <= e * t
      BY <2>2, <2>3, <1>2, Z3
    <3> QED
      BY <3>1, <2>3, <1>2, Z3
  <2>5. q < e => (q + 1) * t > e * s
    <3>1. CASE s <= t
      BY <3>1, <2>3 DEF Lesser
    <3>2. CASE s > t
      <4>1. n = t
        BY <3>2 DEF Lesser
      <4>2. q = e
        <5> HIDE DEF q, n
        <5>1. e * t < (q + 1) * t
          BY <4>1, <2>3
        <5> QED
          BY <5>1, <2>3, <2>4, <1>2, Z3
      <4> QED
        BY <4>2
    <3> QED
      BY <3>1, <3>2
  <2>6. Share(e, s, t) = q
    BY <1>2 DEF Share
  <2> HIDE DEF q
  <2>7. q * t <= e * s
    BY <2>1, <2>2, <2>3, <1>2, Z3
  <2> QED
    BY <2>3, <2>4, <2>5, <2>6, <2>7
<1> QED
  BY <1>1, <1>2

----
\* Types

LEMMA AddKeepsType ==
  ASSUME NEW b, b \in [DOMAIN b -> Int], NEW a, NEW n \in Int
  PROVE  Add(a, n, b) \in [DOMAIN b -> Int] /\ DOMAIN Add(a, n, b) = DOMAIN b
  BY DEF Add

LEMMA RowIsAJob == ASSUME NEW r \in JobRow PROVE r # NoJob
  BY DEF JobRow, NoJob

(* SettlementTypeOK by itself is not inductive: a settlement in progress must have a *)
(* row to update.                                                          *)
TypeInv ==
  /\ SettlementTypeOK
  /\ \A p \in Procs : call[p].at = "settle" => job[call[p].job] # NoJob

LEMMA TypeInvHolds == SettlementSpec => []TypeInv
<1> USE SettlementAssumption
<1>1. SettlementInit => TypeInv
  BY DEF SettlementInit, TypeInv, SettlementTypeOK, NoCall, NoJob
<1>2. TypeInv /\ [SettlementNext]_settlementVars => TypeInv'
  <2> SUFFICES ASSUME TypeInv, [SettlementNext]_settlementVars PROVE TypeInv'
    OBVIOUS
  <2> USE DEF TypeInv
  <2>1. ASSUME NEW a \in Accounts, NEW n \in Openings, EnsureAccount(a, n) PROVE TypeInv'
    <3>1. n \in Nat
      OBVIOUS
    <3> QED
      BY <2>1, <3>1 DEF EnsureAccount, SettlementTypeOK
  <2>2. ASSUME NEW p \in Procs, NEW j \in JobIds, NEW c \in Accounts, NEW w \in Accounts,
               NEW n \in Tokens, NEW q \in Quotes, BeginQuote(p, j, c, w, n, q)
        PROVE  TypeInv'
    <3>1. [at |-> "quote", job |-> j, customer |-> c, worker |-> w, tokens |-> n, escrow |-> q]
            \in QuoteCall
      BY DEF QuoteCall
    <3> QED
      BY <2>2, <3>1 DEF BeginQuote, SettlementTypeOK
  <2>3. ASSUME NEW p \in Procs, CommitQuote(p) PROVE TypeInv'
    <3>1. call[p] \in QuoteCall
      BY <2>3 DEF CommitQuote, SettlementTypeOK, NoCall, QuoteCall, SettleCall
    <3>2. PICK q \in QuoteCall : q = call[p]
      BY <3>1
    <3>3. q.job \in JobIds /\ q.escrow \in Nat
      BY <3>2 DEF QuoteCall
    <3>4. [status |-> "escrowed", customer |-> q.customer, worker |-> q.worker,
           tokens |-> q.tokens, escrow |-> q.escrow, served |-> 0, settled |-> 0,
           refunded |-> 0] \in JobRow
      BY <3>2 DEF QuoteCall, JobRow
    <3>5. balance' \in [DOMAIN balance -> Int] /\ DOMAIN balance' = DOMAIN balance
      <4>1. -q.escrow \in Int
        BY <3>3
      <4> DEFINE m == -q.escrow
      <4>2. Add(q.customer, m, balance) \in [DOMAIN balance -> Int]
            /\ DOMAIN Add(q.customer, m, balance) = DOMAIN balance
        <5> HIDE DEF m
        <5> QED
          BY <4>1, AddKeepsType DEF SettlementTypeOK, m
      <4> QED
        BY <2>3, <3>2, <4>2 DEF CommitQuote, SettlementTypeOK
    <3>6. job' \in [JobIds -> {NoJob} \cup JobRow]
      BY <2>3, <3>2, <3>3, <3>4 DEF CommitQuote, SettlementTypeOK
    <3>7. SettlementTypeOK'
      BY <2>3, <3>5, <3>6 DEF CommitQuote, SettlementTypeOK
    <3>8. \A k \in JobIds : job[k] # NoJob => job'[k] = job[k]
      BY <2>3, <3>2, <3>3 DEF CommitQuote, SettlementTypeOK
    <3>9. ASSUME NEW q2 \in Procs, call'[q2].at = "settle" PROVE job'[call'[q2].job] # NoJob
      <4>1. q2 # p /\ call'[q2] = call[q2]
        BY <2>3, <3>9 DEF CommitQuote, SettlementTypeOK, NoCall
      <4>2. call[q2].job \in JobIds
        BY <3>9, <4>1 DEF SettlementTypeOK, SettleCall, QuoteCall, NoCall
      <4> QED
        BY <3>8, <3>9, <4>1, <4>2
    <3> QED
      BY <3>7, <3>9
  <2>4. ASSUME NEW p \in Procs, NEW j \in JobIds, NEW n \in Tokens, RecordServed(p, j, n)
        PROVE  TypeInv'
    <3>1. job[j] \in JobRow
      BY <2>4 DEF RecordServed, SettlementTypeOK, NoJob
    <3>2. PICK r \in JobRow : r = job[j]
      BY <3>1
    <3>3. [r EXCEPT !.served = n, !.status = "served"] \in JobRow
      BY <3>2 DEF JobRow
    <3>4. job' = [job EXCEPT ![j] = [r EXCEPT !.served = n, !.status = "served"]]
      BY <2>4, <3>2 DEF RecordServed, SettlementTypeOK
    <3>5. SettlementTypeOK'
      BY <2>4, <3>3, <3>4 DEF RecordServed, SettlementTypeOK
    <3>6. \A k \in JobIds : job[k] # NoJob => job'[k] # NoJob
      <4>1. [r EXCEPT !.served = n, !.status = "served"] # NoJob
        BY <3>3, RowIsAJob
      <4> QED
        BY <3>4, <4>1 DEF SettlementTypeOK
    <3>7. ASSUME NEW q \in Procs, call'[q].at = "settle" PROVE job'[call'[q].job] # NoJob
      BY <2>4, <3>6, <3>7 DEF RecordServed, SettlementTypeOK, SettleCall, QuoteCall, NoCall
    <3> QED
      BY <3>5, <3>7
  <2>5. ASSUME NEW p \in Procs, NEW j \in JobIds, BeginSettle(p, j) PROVE TypeInv'
    <3>1. job[j] \in JobRow
      BY <2>5 DEF BeginSettle, SettlementTypeOK, NoJob
    <3>2. [at |-> "settle", job |-> j, row |-> job[j]] \in SettleCall
      BY <3>1 DEF SettleCall
    <3>3. SettlementTypeOK'
      BY <2>5, <3>2 DEF BeginSettle, SettlementTypeOK
    <3>4. ASSUME NEW q \in Procs, call'[q].at = "settle" PROVE job'[call'[q].job] # NoJob
      <4>1. CASE q = p
        <5>1. call'[p].job = j
          BY <2>5 DEF BeginSettle, SettlementTypeOK
        <5> QED
          BY <2>5, <4>1, <5>1, <3>1, RowIsAJob DEF BeginSettle
      <4>2. CASE q # p
        <5>1. call'[q] = call[q]
          BY <2>5, <4>2 DEF BeginSettle, SettlementTypeOK
        <5> QED
          BY <2>5, <3>4, <5>1 DEF BeginSettle
      <4> QED
        BY <4>1, <4>2
    <3> QED
      BY <3>3, <3>4
  <2>6. ASSUME NEW p \in Procs, CommitSettle(p) PROVE TypeInv'
    <3>1. call[p] \in SettleCall
      BY <2>6 DEF CommitSettle, SettlementTypeOK, NoCall, QuoteCall, SettleCall
    <3>2. PICK o \in SettleCall : o = call[p]
      BY <3>1
    <3>3. o.job \in JobIds /\ o.row \in JobRow
      BY <3>2 DEF SettleCall
    <3>4. PICK row \in JobRow : row = o.row
      BY <3>3
    <3>5. row.escrow \in Nat /\ row.served \in Nat /\ row.tokens \in Nat
      BY <3>4 DEF JobRow
    <3>6. PICK pay \in Nat : pay = Share(row.escrow, row.served, row.tokens)
                            /\ pay <= row.escrow
      BY <3>5, ShareBounds
    <3>7. PICK rest \in Nat : rest = row.escrow - pay
      BY <3>5, <3>6
    <3>8. balance' = Add(row.customer, rest, Add(row.worker, pay, balance))
      BY <2>6, <3>2, <3>4, <3>6, <3>7 DEF CommitSettle
    <3>9. balance' \in [DOMAIN balance -> Int] /\ DOMAIN balance' = DOMAIN balance
      <4>1. PICK b : b = Add(row.worker, pay, balance)
        OBVIOUS
      <4>2. b \in [DOMAIN balance -> Int] /\ DOMAIN b = DOMAIN balance
        BY <4>1, AddKeepsType DEF SettlementTypeOK
      <4> QED
        BY <4>1, <4>2, <3>8, AddKeepsType
    <3>10. job[o.job] \in JobRow
      BY <2>6, <3>2, <3>3 DEF CommitSettle, SettlementTypeOK
    <3>11. PICK old \in JobRow : old = job[o.job]
      BY <3>10
    <3>12. [old EXCEPT !.status = "settled", !.settled = pay, !.refunded = rest] \in JobRow
      BY <3>11 DEF JobRow
    <3>13. job' = [job EXCEPT ![o.job] = [old EXCEPT !.status = "settled", !.settled = pay,
                                                     !.refunded = rest]]
      BY <2>6, <3>2, <3>3, <3>4, <3>6, <3>7, <3>11 DEF CommitSettle, SettlementTypeOK
    <3>14. SettlementTypeOK'
      BY <2>6, <3>3, <3>9, <3>12, <3>13 DEF CommitSettle, SettlementTypeOK
    <3>15. \A k \in JobIds : job[k] # NoJob => job'[k] # NoJob
      <4>1. [old EXCEPT !.status = "settled", !.settled = pay, !.refunded = rest] # NoJob
        BY <3>12, RowIsAJob
      <4> QED
        BY <3>13, <4>1 DEF SettlementTypeOK
    <3>16. ASSUME NEW q \in Procs, call'[q].at = "settle" PROVE job'[call'[q].job] # NoJob
      <4>1. q # p /\ call'[q] = call[q]
        BY <2>6, <3>16 DEF CommitSettle, SettlementTypeOK, NoCall
      <4> QED
        BY <3>15, <3>16, <4>1 DEF SettlementTypeOK, SettleCall, QuoteCall, NoCall
    <3> QED
      BY <3>14, <3>16
  <2>7. ASSUME NEW p \in Procs, Crash(p) PROVE TypeInv'
    <3>1. SettlementTypeOK'
      BY <2>7 DEF Crash, SettlementTypeOK
    <3>2. ASSUME NEW q \in Procs, call'[q].at = "settle" PROVE job'[call'[q].job] # NoJob
      <4>1. q # p /\ call'[q] = call[q]
        BY <2>7, <3>2 DEF Crash, SettlementTypeOK, NoCall
      <4> QED
        BY <2>7, <3>2, <4>1 DEF Crash
    <3> QED
      BY <3>1, <3>2
  <2>8. CASE UNCHANGED settlementVars
    BY <2>8 DEF settlementVars, SettlementTypeOK
  <2> QED
    BY <2>1, <2>2, <2>3, <2>4, <2>5, <2>6, <2>7, <2>8 DEF SettlementNext, Begin
<1> QED
  BY <1>1, <1>2, PTL DEF SettlementSpec

(* Every table keeps its type, whatever processes interleave: no share,    *)
(* refund or quote in a row is ever negative.                              *)
THEOREM SettlementTypeCorrect == SettlementSpec => []SettlementTypeOK
  BY TypeInvHolds, PTL DEF TypeInv

----
(* From here on a single process has the ledger open, which is how the     *)
(* demonstration runs it: each method then completes, or is lost, before   *)
(* the next one begins.                                                    *)
OneProcess == \A p, q \in Procs : p = q

(* A quote in progress was checked against the balance it will debit.      *)
QuotesCovered ==
  \A p \in Procs :
    call[p].at = "quote" =>
      call[p].customer \in DOMAIN balance /\ call[p].escrow <= balance[call[p].customer]

(* A settlement in progress is of a row that is not settled.               *)
SettlesOpenRows == \A p \in Procs : call[p].at = "settle" => call[p].row.status # "settled"

ExclusiveInv ==
  TypeInv /\ SettlesWhatItRead /\ SettlesOpenRows /\ QuotesCovered /\ NoOverdraft /\ PaidAsServed

(* Crediting keeps every balance that is not negative so.                  *)
LEMMA AddKeepsSigns ==
  ASSUME NEW b, b \in [DOMAIN b -> Int], NEW a, NEW n \in Int,
         \A x \in DOMAIN b : b[x] >= 0, n >= 0 \/ (a \in DOMAIN b /\ b[a] + n >= 0)
  PROVE  \A x \in DOMAIN b : Add(a, n, b)[x] >= 0
  BY DEF Add

LEMMA ExclusiveInvHolds == ASSUME OneProcess PROVE SettlementSpec => []ExclusiveInv
<1> USE SettlementAssumption
<1>1. SettlementInit => ExclusiveInv
  <2> SUFFICES ASSUME SettlementInit PROVE ExclusiveInv
    OBVIOUS
  <2>1. TypeInv
    BY DEF SettlementInit, TypeInv, SettlementTypeOK, NoCall, NoJob
  <2> QED
    BY <2>1 DEF SettlementInit, ExclusiveInv, SettlesWhatItRead, SettlesOpenRows, QuotesCovered,
                NoOverdraft, PaidAsServed, NoCall, NoJob
<1>2. TypeInv /\ TypeInv' /\ ExclusiveInv /\ [SettlementNext]_settlementVars => ExclusiveInv'
  <2> SUFFICES ASSUME TypeInv, TypeInv', ExclusiveInv, [SettlementNext]_settlementVars PROVE ExclusiveInv'
    OBVIOUS
  <2> DEFINE Rest == SettlesWhatItRead /\ SettlesOpenRows /\ QuotesCovered /\ NoOverdraft
                     /\ PaidAsServed
  <2>0. SettlementTypeOK /\ SettlementTypeOK' /\ Rest
    BY DEF TypeInv, ExclusiveInv
  <2> HIDE DEF Rest
  <2>1. ASSUME NEW a \in Accounts, NEW n \in Openings, EnsureAccount(a, n) PROVE Rest'
    <3>1. n \in Nat /\ UNCHANGED <<job, call>>
      BY <2>1 DEF EnsureAccount
    <3>2. \A x \in DOMAIN balance : x \in DOMAIN balance' /\ balance'[x] = balance[x]
      BY <2>1 DEF EnsureAccount
    <3>3. NoOverdraft'
      BY <2>0, <2>1, <3>1 DEF EnsureAccount, NoOverdraft, Rest
    <3>4. QuotesCovered'
      BY <2>0, <3>1, <3>2 DEF QuotesCovered, Rest
    <3> QED
      BY <2>0, <3>1, <3>3, <3>4 DEF Rest, SettlesWhatItRead, SettlesOpenRows, PaidAsServed
  <2>2. ASSUME NEW p \in Procs, NEW j \in JobIds, NEW c \in Accounts, NEW w \in Accounts,
               NEW n \in Tokens, NEW q \in Quotes, BeginQuote(p, j, c, w, n, q)
        PROVE  Rest'
    <3>1. \A x \in Procs : x = p
      BY DEF OneProcess
    <3>2. /\ call'[p].at = "quote" /\ call'[p].customer = c /\ call'[p].escrow = q
          /\ c \in DOMAIN balance /\ balance[c] >= q /\ UNCHANGED <<balance, job>>
      BY <2>0, <2>2 DEF BeginQuote, SettlementTypeOK
    <3>3. QuotesCovered'
      BY <2>0, <3>1, <3>2 DEF QuotesCovered, SettlementTypeOK
    <3> QED
      BY <2>0, <3>1, <3>2, <3>3
         DEF Rest, SettlesWhatItRead, SettlesOpenRows, NoOverdraft, PaidAsServed
  <2>3. ASSUME NEW p \in Procs, CommitQuote(p) PROVE Rest'
    <3>1. \A x \in Procs : x = p
      BY DEF OneProcess
    <3>2. call'[p].at = "idle"
      BY <2>0, <2>3 DEF CommitQuote, SettlementTypeOK, NoCall
    <3>3. SettlesWhatItRead' /\ SettlesOpenRows' /\ QuotesCovered'
      BY <3>1, <3>2 DEF SettlesWhatItRead, SettlesOpenRows, QuotesCovered
    <3>4. PICK q \in QuoteCall : q = call[p]
      BY <2>0, <2>3 DEF CommitQuote, SettlementTypeOK, NoCall, SettleCall
    <3>5. q.escrow \in Nat /\ q.job \in JobIds
      BY <3>4 DEF QuoteCall
    <3>6. q.customer \in DOMAIN balance /\ q.escrow <= balance[q.customer]
      BY <2>0, <2>3, <3>4 DEF CommitQuote, QuotesCovered, Rest
    <3>7. NoOverdraft'
      <4> DEFINE m == -q.escrow
      <4>1. m \in Int /\ balance[q.customer] + m >= 0
        BY <2>0, <3>5, <3>6 DEF SettlementTypeOK
      <4>2. \A x \in DOMAIN balance : Add(q.customer, m, balance)[x] >= 0
        <5> HIDE DEF m
        <5> QED
          BY <2>0, <3>6, <4>1, AddKeepsSigns DEF SettlementTypeOK, NoOverdraft, Rest
      <4>3. DOMAIN Add(q.customer, m, balance) = DOMAIN balance
        <5> HIDE DEF m
        <5> QED
          BY <2>0, <4>1, AddKeepsType DEF SettlementTypeOK
      <4>4. balance' = Add(q.customer, m, balance) \/ balance' = balance
        BY <2>3, <3>4 DEF CommitQuote
      <4> HIDE DEF m
      <4> QED
        BY <2>0, <4>2, <4>3, <4>4 DEF NoOverdraft, Rest
    <3>8. PaidAsServed'
      <4>1. \A k \in JobIds : job'[k] = job[k] \/ job'[k].status = "escrowed"
        BY <2>0, <2>3, <3>4, <3>5 DEF CommitQuote, SettlementTypeOK
      <4> QED
        BY <2>0, <4>1 DEF PaidAsServed, Rest
    <3> QED
      BY <3>3, <3>7, <3>8 DEF Rest
  <2>4. ASSUME NEW p \in Procs, NEW j \in JobIds, NEW n \in Tokens, RecordServed(p, j, n)
        PROVE  Rest'
    <3>1. \A x \in Procs : x = p
      BY DEF OneProcess
    <3>2. call[p].at = "idle" /\ UNCHANGED <<balance, call>>
      BY <2>4 DEF RecordServed, NoCall
    <3>3. \A k \in JobIds : job'[k] = job[k] \/ job'[k].status = "served"
      <4>1. job[j] \in JobRow
        BY <2>0, <2>4 DEF RecordServed, SettlementTypeOK, NoJob
      <4>2. PICK r \in JobRow : r = job[j]
        BY <4>1
      <4>3. job' = [job EXCEPT ![j] = [r EXCEPT !.served = n, !.status = "served"]]
        BY <2>4, <4>2, <2>0 DEF RecordServed, SettlementTypeOK
      <4>4. [r EXCEPT !.served = n, !.status = "served"].status = "served"
        BY <4>2 DEF JobRow
      <4> QED
        BY <4>3, <4>4, <2>0 DEF SettlementTypeOK
    <3>4. PaidAsServed'
      BY <2>0, <3>3 DEF PaidAsServed, Rest
    <3> QED
      BY <2>0, <3>1, <3>2, <3>4
         DEF Rest, SettlesWhatItRead, SettlesOpenRows, QuotesCovered, NoOverdraft
  <2>5. ASSUME NEW p \in Procs, NEW j \in JobIds, BeginSettle(p, j) PROVE Rest'
    <3>1. \A x \in Procs : x = p
      BY DEF OneProcess
    <3>2. /\ call'[p].at = "settle" /\ call'[p].job = j /\ call'[p].row = job[j]
          /\ job[j].status # "settled" /\ UNCHANGED <<balance, job>>
      BY <2>0, <2>5 DEF BeginSettle, SettlementTypeOK
    <3> QED
      BY <2>0, <3>1, <3>2
         DEF Rest, SettlesWhatItRead, SettlesOpenRows, QuotesCovered, NoOverdraft, PaidAsServed
  <2>6. ASSUME NEW p \in Procs, CommitSettle(p) PROVE Rest'
    <3>1. \A x \in Procs : x = p
      BY DEF OneProcess
    <3>2. call'[p].at = "idle"
      BY <2>0, <2>6 DEF CommitSettle, SettlementTypeOK, NoCall
    <3>3. SettlesWhatItRead' /\ SettlesOpenRows' /\ QuotesCovered'
      BY <3>1, <3>2 DEF SettlesWhatItRead, SettlesOpenRows, QuotesCovered
    <3>4. PICK o \in SettleCall : o = call[p]
      <4>1. call[p] \in {NoCall} \cup QuoteCall \cup SettleCall
        BY <2>0 DEF SettlementTypeOK
      <4>2. call[p].at = "settle"
        BY <2>6 DEF CommitSettle
      <4>3. call[p] \in SettleCall
        BY <4>1, <4>2 DEF NoCall, QuoteCall
      <4> QED
        BY <4>3
    <3>5. o.job \in JobIds /\ o.row \in JobRow
      BY <3>4 DEF SettleCall
    <3>6. PICK row \in JobRow : row = o.row
      BY <3>5
    <3>7. job[o.job] = row
      BY <2>0, <2>6, <3>4, <3>6 DEF CommitSettle, SettlesWhatItRead, Rest
    <3>8. row.escrow \in Nat /\ row.served \in Nat /\ row.tokens \in Nat
      BY <3>6 DEF JobRow
    <3>9. PICK pay \in Nat :
            /\ pay = Share(row.escrow, row.served, row.tokens)
            /\ pay <= row.escrow
            /\ row.tokens > 0 =>
                 /\ pay * row.tokens <= row.escrow * row.served
                 /\ pay < row.escrow => (pay + 1) * row.tokens > row.escrow * row.served
      BY <3>8, ShareBounds
    <3>10. PICK rest \in Nat : rest = row.escrow - pay
      BY <3>8, <3>9
    <3>11. NoOverdraft'
      <4>1. balance' = Add(row.customer, rest, Add(row.worker, pay, balance))
        BY <2>6, <3>4, <3>6, <3>9, <3>10 DEF CommitSettle
      <4>2. PICK b : b = Add(row.worker, pay, balance)
        OBVIOUS
      <4>3. /\ b \in [DOMAIN b -> Int] /\ DOMAIN b = DOMAIN balance
            /\ \A x \in DOMAIN b : b[x] >= 0
        BY <2>0, <4>2, AddKeepsType, AddKeepsSigns DEF SettlementTypeOK, NoOverdraft, Rest
      <4>4. balance' = Add(row.customer, rest, b)
        BY <4>1, <4>2
      <4> QED
        BY <4>3, <4>4, AddKeepsType, AddKeepsSigns DEF NoOverdraft
    <3>12. PaidAsServed'
      <4> DEFINE paid == [row EXCEPT !.status = "settled", !.settled = pay, !.refunded = rest]
      <4>1. job' = [job EXCEPT ![o.job] = paid]
        BY <2>0, <2>6, <3>4, <3>5, <3>6, <3>7, <3>9, <3>10 DEF CommitSettle, SettlementTypeOK
      <4>2. /\ paid.settled = pay /\ paid.refunded = rest /\ paid.escrow = row.escrow
            /\ paid.tokens = row.tokens /\ paid.served = row.served
        BY <3>6 DEF JobRow
      <4> HIDE DEF paid
      <4>3. /\ paid.settled + paid.refunded = paid.escrow
            /\ paid.tokens > 0 =>
                 /\ paid.settled * paid.tokens <= paid.escrow * paid.served
                 /\ paid.settled < paid.escrow =>
                      (paid.settled + 1) * paid.tokens > paid.escrow * paid.served
        BY <3>8, <3>9, <3>10, <4>2
      <4>4. \A k \in JobIds : k # o.job => job'[k] = job[k]
        BY <4>1, <2>0 DEF SettlementTypeOK
      <4>5. job'[o.job] = paid
        BY <4>1, <3>5, <2>0 DEF SettlementTypeOK
      <4> QED
        BY <2>0, <4>3, <4>4, <4>5 DEF PaidAsServed, Rest
    <3> QED
      BY <3>3, <3>11, <3>12 DEF Rest
  <2>7. ASSUME NEW p \in Procs, Crash(p) PROVE Rest'
    <3>1. \A x \in Procs : x = p
      BY DEF OneProcess
    <3>2. call'[p].at = "idle" /\ UNCHANGED <<balance, job>>
      BY <2>0, <2>7 DEF Crash, SettlementTypeOK, NoCall
    <3> QED
      BY <2>0, <3>1, <3>2
         DEF Rest, SettlesWhatItRead, SettlesOpenRows, QuotesCovered, NoOverdraft, PaidAsServed
  <2>8. ASSUME UNCHANGED settlementVars PROVE Rest'
    <3>1. balance' = balance /\ job' = job /\ call' = call
      BY <2>8 DEF settlementVars
    <3>2. SettlesWhatItRead' /\ SettlesOpenRows' /\ QuotesCovered' /\ NoOverdraft'
      BY <2>0, <3>1 DEF Rest, SettlesWhatItRead, SettlesOpenRows, QuotesCovered, NoOverdraft
    <3>3. PaidAsServed'
      BY <2>0, <3>1 DEF Rest, PaidAsServed
    <3> QED
      BY <3>2, <3>3 DEF Rest
  <2>9. Rest'
    <3>1. ASSUME NEW p \in Procs, Begin(p) PROVE Rest'
      BY <3>1, <2>2, <2>4, <2>5 DEF Begin
    <3> QED
      BY <3>1, <2>1, <2>3, <2>6, <2>7, <2>8 DEF SettlementNext
  <2> QED
    BY <2>9 DEF ExclusiveInv, Rest
<1> QED
  BY <1>1, <1>2, TypeInvHolds, PTL DEF SettlementSpec

(* No balance is overdrawn.                                                *)
THEOREM NeverOverdrawn == ASSUME OneProcess PROVE SettlementSpec => []NoOverdraft
  BY ExclusiveInvHolds, PTL DEF ExclusiveInv

(* Whatever the sizes, a settled worker has the whole micro-Qi of the      *)
(* tokens its row says it served, and the customer the rest.               *)
THEOREM WorkersPaidAsServed == ASSUME OneProcess PROVE SettlementSpec => []PaidAsServed
  BY ExclusiveInvHolds, PTL DEF ExclusiveInv

(* A settled row is final: money moves once per job.                       *)
THEOREM SettledRowsFinal == ASSUME OneProcess PROVE SettlementSpec => SettledIsFinal
<1> DEFINE Final == \A j \in JobIds : job[j].status = "settled" => job'[j] = job[j]
<1>1. ExclusiveInv /\ [SettlementNext]_settlementVars => [Final]_settlementVars
  <2> SUFFICES ASSUME ExclusiveInv, SettlementNext PROVE Final
    BY DEF settlementVars
  <2>0. SettlementTypeOK /\ SettlesWhatItRead /\ SettlesOpenRows
    BY DEF ExclusiveInv, TypeInv
  <2>1. ASSUME NEW p \in Procs, CommitQuote(p) PROVE Final
    BY <2>0, <2>1 DEF CommitQuote, SettlementTypeOK, NoJob
  <2>2. ASSUME NEW p \in Procs, NEW j \in JobIds, NEW n \in Tokens, RecordServed(p, j, n)
        PROVE  Final
    BY <2>0, <2>2 DEF RecordServed, SettlementTypeOK
  <2>3. ASSUME NEW p \in Procs, CommitSettle(p) PROVE Final
    <3>1. job[call[p].job].status # "settled"
      BY <2>0, <2>3 DEF CommitSettle, SettlesWhatItRead, SettlesOpenRows
    <3>2. \A k \in JobIds : k # call[p].job => job'[k] = job[k]
      BY <2>0, <2>3 DEF CommitSettle, SettlementTypeOK
    <3> QED
      BY <3>1, <3>2
  <2>4. UNCHANGED job => Final
    OBVIOUS
  <2> QED
    BY <2>1, <2>2, <2>3, <2>4 DEF SettlementNext, Begin, EnsureAccount, BeginQuote, BeginSettle, Crash
<1> QED
  BY <1>1, ExclusiveInvHolds, PTL DEF SettlementSpec, SettledIsFinal

----
\* Conservation of the micro-Qi, for finitely many jobs

(* The accounts a job or a quote in progress names are there to be debited *)
(* and credited.                                                           *)
PartiesExist ==
  /\ \A j \in JobIds : job[j] # NoJob => {job[j].customer, job[j].worker} \subseteq DOMAIN balance
  /\ \A p \in Procs : call[p].at = "quote" =>
       {call[p].customer, call[p].worker} \subseteq DOMAIN balance

MoneyInv == IsFiniteSet(DOMAIN balance) /\ PartiesExist /\ MoneyConserved

HeldOf == [j \in JobIds |-> Held(j)]

(* A credit or a debit of an account that exists changes the sum by as     *)
(* much.                                                                   *)
LEMMA AddSum ==
  ASSUME NEW b, b \in [DOMAIN b -> Int], IsFiniteSet(DOMAIN b), NEW a \in DOMAIN b, NEW n \in Int
  PROVE  /\ SumFunction(Add(a, n, b)) = SumFunction(b) + n
         /\ SumFunction(b) \in Int
<1> DEFINE h == Add(a, n, b)
<1>1. h \in [DOMAIN b -> Int] /\ h[a] = b[a] + n /\ \A x \in DOMAIN b \ {a} : h[x] = b[x]
  BY DEF Add
<1>2. DOMAIN h = DOMAIN b /\ h[a] \in Int /\ \A x \in DOMAIN b : b[x] \in Int
  BY <1>1
<1> HIDE DEF h
<1>3. SumFunctionOnSet(h, DOMAIN b) = SumFunctionOnSet(b, DOMAIN b) + (h[a] - b[a])
  BY <1>1, <1>2, SumUpdate
<1>4. SumFunctionOnSet(b, DOMAIN b) \in Int
  BY <1>2, SumInt
<1>5. h[a] - b[a] = n
  BY <1>1, <1>2
<1>6. SumFunctionOnSet(h, DOMAIN h) = SumFunctionOnSet(b, DOMAIN b) + n
  BY <1>2, <1>3, <1>5
<1>7. QED
  BY <1>4, <1>6 DEF SumFunction, h

LEMMA HeldByRow ==
  ASSUME NEW row \in {NoJob} \cup JobRow
  PROVE  (IF row.status \in {"escrowed", "served"} THEN row.escrow ELSE 0) \in Nat
<1>1. row = NoJob => row.status \notin {"escrowed", "served"}
  BY DEF NoJob
<1>2. row \in JobRow => row.escrow \in Nat
  BY DEF JobRow
<1>3. QED
  BY <1>1, <1>2

(* Writing the row of one job changes what the jobs hold by as much as     *)
(* that job holds more or less.                                            *)
LEMMA HeldSum ==
  ASSUME IsFiniteSet(JobIds), SettlementTypeOK, SettlementTypeOK', NEW k \in JobIds,
         \A j \in JobIds \ {k} : job'[j] = job[j]
  PROVE  /\ SumFunction(HeldOf)' = SumFunction(HeldOf) + (Held(k)' - Held(k))
         /\ SumFunction(HeldOf) \in Int
<1>1. \A j \in JobIds : HeldOf[j] = Held(j) /\ Held(j) \in Nat /\ HeldOf'[j] = Held(j)'
        /\ Held(j)' \in Nat
  <2>1. ASSUME NEW j \in JobIds PROVE Held(j) \in Nat
    BY HeldByRow DEF Held, SettlementTypeOK
  <2>2. ASSUME NEW j \in JobIds PROVE Held(j)' \in Nat
    BY HeldByRow DEF Held, SettlementTypeOK
  <2>3. QED
    BY <2>1, <2>2 DEF HeldOf
<1>2. \A j \in JobIds \ {k} : HeldOf'[j] = HeldOf[j]
  BY DEF HeldOf, Held
<1>3. \A j \in JobIds : HeldOf[j] \in Int /\ HeldOf'[j] \in Int
  BY <1>1
<1>4. SumFunctionOnSet(HeldOf', JobIds) = SumFunctionOnSet(HeldOf, JobIds) + (HeldOf'[k] - HeldOf[k])
  BY <1>2, <1>3, SumUpdate
<1>5. SumFunctionOnSet(HeldOf, JobIds) \in Int
  BY <1>3, SumInt
<1>6. DOMAIN HeldOf = JobIds /\ DOMAIN HeldOf' = JobIds
  BY DEF HeldOf
<1>7. QED
  BY <1>1, <1>4, <1>5, <1>6 DEF SumFunction

LEMMA MoneyOpens ==
  ASSUME IsFiniteSet(JobIds), SettlementTypeOK, MoneyInv, NEW a \in Accounts, NEW n \in Openings,
         EnsureAccount(a, n)
  PROVE  MoneyInv'
<1> USE SettlementAssumption
<1> DEFINE D == DOMAIN balance
<1>1. /\ a \notin D /\ n \in Int /\ UNCHANGED <<job, call>> /\ opened' = opened + n
      /\ balance' = [x \in D \cup {a} |-> IF x = a THEN n ELSE balance[x]]
  BY DEF EnsureAccount
<1>2. /\ DOMAIN balance' = D \cup {a} /\ balance'[a] = n
      /\ \A x \in D : balance'[x] = balance[x] /\ balance[x] \in Int
  BY <1>1 DEF SettlementTypeOK
<1>3. IsFiniteSet(D) /\ IsFiniteSet(DOMAIN balance')
  BY <1>2, FS_AddElement DEF MoneyInv
<1>4. PartiesExist'
  BY <1>1, <1>2 DEF MoneyInv, PartiesExist
<1>5. SumFunctionOnSet(balance', D \cup {a}) = n + SumFunctionOnSet(balance', D)
  BY <1>1, <1>2, <1>3, SumAdd
<1>6. SumFunctionOnSet(balance', D) = SumFunctionOnSet(balance, D)
  BY <1>2, <1>3, SumSame
<1>7. SumFunctionOnSet(balance, D) \in Int
  BY <1>2, <1>3, SumInt
<1>8. SumFunction(HeldOf)' = SumFunction(HeldOf)
  BY <1>1 DEF HeldOf, Held
<1>9. SumFunction(HeldOf) \in Int
  <2>1. \A j \in JobIds : HeldOf[j] \in Int
    BY HeldByRow DEF HeldOf, Held, SettlementTypeOK
  <2>2. DOMAIN HeldOf = JobIds
    BY DEF HeldOf
  <2>3. QED
    BY <2>1, <2>2, SumInt DEF SumFunction
<1>10. SumFunction(balance)' = SumFunction(balance) + n /\ SumFunction(balance) \in Int
  BY <1>1, <1>2, <1>5, <1>6, <1>7 DEF SumFunction
<1>11. MoneyConserved'
  BY <1>1, <1>8, <1>9, <1>10 DEF MoneyInv, MoneyConserved, HeldOf
<1>12. QED
  BY <1>3, <1>4, <1>11 DEF MoneyInv

LEMMA MoneyQuoted ==
  ASSUME IsFiniteSet(JobIds), SettlementTypeOK, SettlementTypeOK', MoneyInv, NEW p \in Procs, CommitQuote(p)
  PROVE  MoneyInv'
<1>1. PICK q \in QuoteCall : q = call[p]
  <2>1. call[p] \in {NoCall} \cup QuoteCall \cup SettleCall /\ call[p].at = "quote"
    BY DEF SettlementTypeOK, CommitQuote
  <2>2. QED
    BY <2>1 DEF NoCall, SettleCall
<1>2. q.job \in JobIds /\ q.escrow \in Nat /\ {q.customer, q.worker} \subseteq DOMAIN balance
  BY <1>1 DEF QuoteCall, MoneyInv, PartiesExist, CommitQuote
<1>3. \A x \in Procs : call'[x] = call[x] \/ call'[x].at = "idle"
  BY DEF CommitQuote, SettlementTypeOK, NoCall
<1>4. CASE job[q.job] = NoJob
  <2> DEFINE m == -q.escrow
  <2>1. /\ balance' = Add(q.customer, m, balance) /\ opened' = opened
        /\ job' = [job EXCEPT ![q.job] =
                     [status |-> "escrowed", customer |-> q.customer, worker |-> q.worker,
                      tokens |-> q.tokens, escrow |-> q.escrow, served |-> 0,
                      settled |-> 0, refunded |-> 0]]
    BY <1>1, <1>4 DEF CommitQuote
  <2>2. m \in Int /\ m + q.escrow = 0
    BY <1>2
  <2>3. /\ job'[q.job].status = "escrowed" /\ job'[q.job].escrow = q.escrow
        /\ job'[q.job].customer = q.customer /\ job'[q.job].worker = q.worker
        /\ \A j \in JobIds \ {q.job} : job'[j] = job[j]
    BY <1>2, <2>1 DEF SettlementTypeOK
  <2> HIDE DEF m
  <2>4. DOMAIN balance' = DOMAIN balance
    BY <2>1, <2>2, AddKeepsType DEF SettlementTypeOK
  <2>5. SumFunction(balance') = SumFunction(balance) + m /\ SumFunction(balance) \in Int
    BY <1>2, <2>1, <2>2, AddSum DEF SettlementTypeOK, MoneyInv
  <2>6. Held(q.job) = 0 /\ Held(q.job)' = q.escrow
    BY <1>4, <2>3 DEF Held, NoJob
  <2>7. /\ SumFunction(HeldOf)' = SumFunction(HeldOf) + (Held(q.job)' - Held(q.job))
        /\ SumFunction(HeldOf) \in Int
    BY <1>2, <2>3, HeldSum
  <2>8. SumFunction(HeldOf)' = SumFunction(HeldOf) + q.escrow
    BY <1>2, <2>6, <2>7
  <2>9. SumFunction(balance') + SumFunction(HeldOf)' = SumFunction(balance) + SumFunction(HeldOf)
    BY <1>2, <2>2, <2>5, <2>7, <2>8
  <2>10. MoneyConserved'
    BY <2>1, <2>9 DEF MoneyInv, MoneyConserved, HeldOf
  <2>11. PartiesExist'
    BY <1>2, <1>3, <2>3, <2>4 DEF MoneyInv, PartiesExist
  <2>12. QED
    BY <2>4, <2>10, <2>11 DEF MoneyInv
<1>5. CASE job[q.job] # NoJob
  <2>1. UNCHANGED <<balance, job, opened>>
    BY <1>1, <1>5 DEF CommitQuote
  <2>2. MoneyConserved' /\ PartiesExist'
    BY <1>3, <2>1 DEF MoneyInv, MoneyConserved, PartiesExist, Held
  <2>3. QED
    BY <2>1, <2>2 DEF MoneyInv
<1>6. QED
  BY <1>4, <1>5

LEMMA MoneySettles ==
  ASSUME IsFiniteSet(JobIds), SettlementTypeOK, SettlementTypeOK', SettlesWhatItRead, SettlesOpenRows, MoneyInv,
         NEW p \in Procs, CommitSettle(p)
  PROVE  MoneyInv'
<1>1. PICK o \in SettleCall : o = call[p]
  <2>1. call[p] \in {NoCall} \cup QuoteCall \cup SettleCall /\ call[p].at = "settle"
    BY DEF SettlementTypeOK, CommitSettle
  <2>2. QED
    BY <2>1 DEF NoCall, QuoteCall
<1>2. PICK row \in JobRow : row = o.row
  BY <1>1 DEF SettleCall
<1>3. o.job \in JobIds /\ job[o.job] = row /\ row.status \in {"escrowed", "served"}
  <2>1. o.job \in JobIds
    BY <1>1 DEF SettleCall
  <2>2. job[o.job] = row /\ row.status # "settled"
    BY <1>1, <1>2 DEF SettlesWhatItRead, SettlesOpenRows, CommitSettle
  <2>3. QED
    BY <1>2, <2>1, <2>2 DEF JobRow
<1>4. row.escrow \in Nat /\ row.served \in Nat /\ row.tokens \in Nat
  BY <1>2 DEF JobRow
<1>5. PICK pay \in Nat : pay = Share(row.escrow, row.served, row.tokens) /\ pay <= row.escrow
  BY <1>4, ShareBounds
<1>6. PICK rest \in Nat : rest = row.escrow - pay
  BY <1>4, <1>5
<1>7. {row.customer, row.worker} \subseteq DOMAIN balance
  BY <1>3, RowIsAJob DEF MoneyInv, PartiesExist
<1>8. /\ balance' = Add(row.customer, rest, Add(row.worker, pay, balance))
      /\ job' = [job EXCEPT ![o.job] =
                   [row EXCEPT !.status = "settled", !.settled = pay, !.refunded = rest]]
      /\ opened' = opened
  BY <1>1, <1>2, <1>3, <1>5, <1>6 DEF CommitSettle, SettlementTypeOK
<1>9. \A x \in Procs : call'[x] = call[x] \/ call'[x].at = "idle"
  BY DEF CommitSettle, SettlementTypeOK, NoCall
<1>10. PICK b : b = Add(row.worker, pay, balance)
  OBVIOUS
<1>11. /\ b \in [DOMAIN b -> Int] /\ DOMAIN b = DOMAIN balance /\ IsFiniteSet(DOMAIN b)
       /\ SumFunction(b) = SumFunction(balance) + pay /\ SumFunction(balance) \in Int
  <2>1. DOMAIN b = DOMAIN balance /\ b \in [DOMAIN b -> Int]
    BY <1>10, AddKeepsType DEF SettlementTypeOK
  <2>2. SumFunction(b) = SumFunction(balance) + pay /\ SumFunction(balance) \in Int
    BY <1>7, <1>10, AddSum DEF SettlementTypeOK, MoneyInv
  <2>3. QED
    BY <2>1, <2>2 DEF MoneyInv
<1>12. DOMAIN balance' = DOMAIN balance /\ SumFunction(balance') = SumFunction(b) + rest
  <2>1. balance' = Add(row.customer, rest, b)
    BY <1>8, <1>10
  <2>2. QED
    BY <1>7, <1>11, <2>1, AddKeepsType, AddSum
<1>13. /\ job'[o.job].status = "settled" /\ job'[o.job].customer = row.customer
       /\ job'[o.job].worker = row.worker
       /\ \A j \in JobIds \ {o.job} : job'[j] = job[j]
  <2>1. PICK done : done = [row EXCEPT !.status = "settled", !.settled = pay, !.refunded = rest]
    OBVIOUS
  <2>2. done.status = "settled" /\ done.customer = row.customer /\ done.worker = row.worker
    BY <1>2, <2>1 DEF JobRow
  <2>3. job' = [job EXCEPT ![o.job] = done]
    BY <1>8, <2>1
  <2>4. QED
    BY <1>3, <2>2, <2>3 DEF SettlementTypeOK
<1>14. Held(o.job) = row.escrow /\ Held(o.job)' = 0
  BY <1>3, <1>13 DEF Held
<1>15. /\ SumFunction(HeldOf)' = SumFunction(HeldOf) + (Held(o.job)' - Held(o.job))
       /\ SumFunction(HeldOf) \in Int
  BY <1>3, <1>13, HeldSum
<1>16. SumFunction(balance') = SumFunction(balance) + row.escrow
  BY <1>4, <1>5, <1>6, <1>11, <1>12
<1>17. SumFunction(balance') + SumFunction(HeldOf)' = SumFunction(balance) + SumFunction(HeldOf)
  BY <1>4, <1>11, <1>14, <1>15, <1>16
<1>18. MoneyConserved'
  BY <1>8, <1>17 DEF MoneyInv, MoneyConserved, HeldOf
<1>19. PartiesExist'
  BY <1>3, <1>7, <1>9, <1>12, <1>13 DEF MoneyInv, PartiesExist
<1>20. QED
  BY <1>11, <1>12, <1>18, <1>19 DEF MoneyInv

LEMMA MoneyServed ==
  ASSUME SettlementTypeOK, MoneyInv, NEW p \in Procs, NEW j \in JobIds, NEW n \in Tokens,
         RecordServed(p, j, n)
  PROVE  MoneyInv'
<1>1. job[j].status = "escrowed" /\ UNCHANGED <<balance, call, opened>>
  BY DEF RecordServed
<1>2. PICK r \in JobRow : r = job[j]
  BY <1>1 DEF SettlementTypeOK, NoJob
<1>3. PICK s : s = [r EXCEPT !.served = n, !.status = "served"]
  OBVIOUS
<1>4. job' = [job EXCEPT ![j] = s]
  BY <1>2, <1>3 DEF RecordServed, SettlementTypeOK
<1>5. s.status = "served" /\ s.escrow = r.escrow /\ s.customer = r.customer /\ s.worker = r.worker
  BY <1>2, <1>3 DEF JobRow
<1>6. job'[j] = s /\ \A k \in JobIds \ {j} : job'[k] = job[k]
  BY <1>4 DEF SettlementTypeOK
<1>7. \A k \in JobIds : Held(k)' = Held(k)
  BY <1>1, <1>2, <1>5, <1>6 DEF Held
<1>8. MoneyConserved'
  BY <1>1, <1>7 DEF MoneyInv, MoneyConserved
<1>9. PartiesExist'
  BY <1>1, <1>2, <1>5, <1>6, RowIsAJob DEF MoneyInv, PartiesExist
<1>10. QED
  BY <1>1, <1>8, <1>9 DEF MoneyInv

(* Escrows, settlements and their repetitions, and a process that stops in *)
(* the middle of them, create and destroy no micro-Qi, however many        *)
(* accounts and jobs the ledger has.                                       *)
THEOREM MoneyNeitherMadeNorLost ==
  ASSUME OneProcess, IsFiniteSet(JobIds)
  PROVE  SettlementSpec => []MoneyConserved
<1>1. SettlementInit => MoneyInv
  <2> SUFFICES ASSUME SettlementInit PROVE MoneyInv
    OBVIOUS
  <2>1. DOMAIN balance = {} /\ opened = 0 /\ \A j \in JobIds : job[j] = NoJob
    BY DEF SettlementInit
  <2>2. SumFunction(balance) = 0
    BY <2>1, SumEmpty DEF SumFunction
  <2>3. \A j \in JobIds : HeldOf[j] = 0
    BY <2>1 DEF HeldOf, Held, NoJob
  <2>4. SumFunction(HeldOf) = 0
    <3>1. DOMAIN HeldOf = JobIds
      BY DEF HeldOf
    <3>2. QED
      BY <2>3, <3>1, SumZero DEF SumFunction
  <2>5. MoneyConserved
    BY <2>1, <2>2, <2>4 DEF MoneyConserved, HeldOf
  <2>6. PartiesExist
    BY <2>1 DEF PartiesExist, SettlementInit, NoCall
  <2>7. QED
    BY <2>1, <2>5, <2>6, FS_EmptySet DEF MoneyInv
<1>2. ExclusiveInv /\ ExclusiveInv' /\ MoneyInv /\ [SettlementNext]_settlementVars => MoneyInv'
  <2> SUFFICES ASSUME ExclusiveInv, ExclusiveInv', MoneyInv, [SettlementNext]_settlementVars PROVE MoneyInv'
    OBVIOUS
  <2>1. SettlementTypeOK /\ SettlementTypeOK' /\ SettlesWhatItRead /\ SettlesOpenRows
    BY DEF ExclusiveInv, TypeInv
  <2>2. ASSUME NEW p \in Procs, NEW j \in JobIds, NEW c \in Accounts, NEW w \in Accounts,
               NEW n \in Tokens, NEW q \in Quotes, BeginQuote(p, j, c, w, n, q)
        PROVE  MoneyInv'
    <3>1. /\ UNCHANGED <<balance, job, opened>> /\ {c, w} \subseteq DOMAIN balance
          /\ \A x \in Procs : call'[x] = call[x] \/ (call'[x].customer = c /\ call'[x].worker = w)
      BY <2>1, <2>2 DEF BeginQuote, SettlementTypeOK
    <3>2. MoneyConserved' /\ PartiesExist'
      BY <3>1 DEF MoneyInv, MoneyConserved, PartiesExist, Held
    <3>3. QED
      BY <3>1, <3>2 DEF MoneyInv
  <2>3. ASSUME UNCHANGED <<balance, job, opened>>,
               \A x \in Procs : call'[x] = call[x] \/ call'[x].at # "quote"
        PROVE  MoneyInv'
    <3>1. MoneyConserved' /\ PartiesExist'
      BY <2>3 DEF MoneyInv, MoneyConserved, PartiesExist, Held
    <3>2. QED
      BY <2>3, <3>1 DEF MoneyInv
  <2>4. ASSUME NEW p \in Procs, NEW j \in JobIds, BeginSettle(p, j) PROVE MoneyInv'
    BY <2>1, <2>3, <2>4 DEF BeginSettle, SettlementTypeOK
  <2>5. ASSUME NEW p \in Procs, Crash(p) PROVE MoneyInv'
    BY <2>1, <2>3, <2>5 DEF Crash, SettlementTypeOK, NoCall
  <2>6. UNCHANGED settlementVars => MoneyInv'
    BY <2>3 DEF settlementVars
  <2>7. QED
    BY <2>1, <2>2, <2>4, <2>5, <2>6, MoneyOpens, MoneyQuoted, MoneySettles, MoneyServed
       DEF SettlementNext, Begin
<1>3. QED
  BY <1>1, <1>2, ExclusiveInvHolds, PTL DEF SettlementSpec, MoneyInv

----
\* The averages of the benchmark, whose lists grow meanwhile

(* A sum is at most, and at least, the number of its terms times a bound   *)
(* on them.                                                                *)
LEMMA SumWithin ==
  ASSUME NEW f, NEW S, IsFiniteSet(S), NEW low \in Nat, NEW high \in Nat,
         \A x \in S : f[x] \in Nat /\ low <= f[x] /\ f[x] <= high
  PROVE  /\ SumFunctionOnSet(f, S) <= Cardinality(S) * high
         /\ Cardinality(S) * low <= SumFunctionOnSet(f, S)
<1> DEFINE Bounded(T) == /\ SumFunctionOnSet(f, T) <= Cardinality(T) * high
                         /\ Cardinality(T) * low <= SumFunctionOnSet(f, T)
           C == {T \in SUBSET S : Bounded(T)}
<1>1. ASSUME NEW T \in SUBSET S, \A x \in T : T \ {x} \in C
      PROVE  T \in C
  <2>1. CASE T = {}
    <3>1. SumFunctionOnSet(f, T) = 0 /\ Cardinality(T) = 0
      BY <2>1, SumEmpty, FS_EmptySet
    <3> QED
      BY <3>1
  <2>2. CASE T # {}
    <3>1. PICK a \in T : TRUE
      BY <2>2
    <3>2. IsFiniteSet(T) /\ IsFiniteSet(T \ {a})
      BY FS_Subset
    <3>3. /\ Cardinality(T \ {a}) \in Nat
          /\ Cardinality(T) = Cardinality(T \ {a}) + 1
      BY <3>1, <3>2, FS_RemoveElement, FS_CardinalityType
    <3>4. SumFunctionOnSet(f, T) = f[a] + SumFunctionOnSet(f, T \ {a})
      BY <3>1, <3>2, SumSplit
    <3>5. SumFunctionOnSet(f, T \ {a}) \in Nat
      BY <3>2, SumNat
    <3>6. Bounded(T \ {a})
      BY <1>1, <3>1
    <3>7. f[a] \in Nat /\ low <= f[a] /\ f[a] <= high
      BY <3>1
    <3> DEFINE n == Cardinality(T \ {a})
               s == SumFunctionOnSet(f, T \ {a})
    <3>8. s <= n * high /\ n * low <= s /\ n \in Nat /\ s \in Nat
      BY <3>3, <3>5, <3>6
    <3> HIDE DEF n, s
    <3>9. f[a] + s <= (n + 1) * high /\ (n + 1) * low <= f[a] + s
      <4>1. (n + 1) * high = n * high + high /\ (n + 1) * low = n * low + low
        BY <3>8, Z3
      <4>2. n * high \in Nat /\ n * low \in Nat
        BY <3>8, Z3
      <4> QED
        BY <3>7, <3>8, <4>1, <4>2
    <3> QED
      BY <3>3, <3>4, <3>9 DEF n, s
  <2> QED
    BY <2>1, <2>2
<1>2. SUBSET S \subseteq C
  <2> HIDE DEF C
  <2> QED
    BY <1>1, SubsetInduction
<1> QED
  BY <1>2

LEMMA ListSum ==
  ASSUME NEW list \in Seq(Nat)
  PROVE  /\ SumFunction(list) = SumFunctionOnSet(list, 1..Len(list))
         /\ SumFunction(list) \in Nat
         /\ IsFiniteSet(1..Len(list)) /\ Cardinality(1..Len(list)) = Len(list)
         /\ \A i \in 1..Len(list) : list[i] \in Nat /\ list[i] <= SumFunction(list)
<1>1. DOMAIN list = 1..Len(list) /\ Len(list) \in Nat /\ \A i \in 1..Len(list) : list[i] \in Nat
  OBVIOUS
<1>2. IsFiniteSet(1..Len(list)) /\ Cardinality(1..Len(list)) = Len(list)
  BY <1>1, FS_Interval
<1>3. SumFunction(list) = SumFunctionOnSet(list, 1..Len(list))
  BY <1>1 DEF SumFunction
<1>4. /\ SumFunctionOnSet(list, 1..Len(list)) \in Nat
      /\ \A i \in 1..Len(list) : SumFunctionOnSet(list, 1..Len(list)) >= list[i]
  BY <1>1, <1>2, SumNat
<1> QED
  BY <1>1, <1>2, <1>3, <1>4

(* The average of a list that has grown before it is measured is at most   *)
(* some element of it.                                                     *)
LEMMA AverageIsReached ==
  ASSUME NEW former \in Seq(Nat), NEW latter, Len(latter) \in Nat, Len(former) <= Len(latter)
  PROVE  /\ Average(former, latter) \in Nat
         /\ Average(former, latter) > 0 =>
              \E i \in 1..Len(former) : Average(former, latter) <= former[i]
<1> DEFINE n == Len(former)
           m == Len(latter)
           s == SumFunction(former)
           q == s \div m
<1>1. CASE former = <<>>
  BY <1>1 DEF Average
<1>2. CASE former # <<>>
  <2>1. n \in Nat \ {0} /\ m \in Nat \ {0} /\ n <= m
    BY <1>2
  <2>2. /\ s \in Nat /\ s = SumFunctionOnSet(former, 1..n)
        /\ IsFiniteSet(1..n) /\ Cardinality(1..n) = n
        /\ \A i \in 1..n : former[i] \in Nat
    BY ListSum
  <2>3. q \in Nat /\ q * m <= s
    <3> HIDE DEF m, s
    <3> QED
      BY <2>1, <2>2, DivisionBounds
  <2>4. Average(former, latter) = q
    BY <1>2 DEF Average
  <2>5. ASSUME q > 0, \A i \in 1..n : ~(q <= former[i])
        PROVE  FALSE
    <3> HIDE DEF n, m, s, q
    <3>1. \A i \in 1..n : former[i] \in Nat /\ 0 <= former[i] /\ former[i] <= q - 1
      BY <2>2, <2>3, <2>5
    <3>2. q - 1 \in Nat
      BY <2>3, <2>5
    <3>3. s <= n * (q - 1)
      BY <2>2, <3>1, <3>2, SumWithin
    <3>4. n * (q - 1) < n * q
      BY <2>1, <2>3, <2>5, Z3
    <3>5. n * q <= q * m
      BY <2>1, <2>3, Z3
    <3>6. n * (q - 1) \in Int /\ n * q \in Int /\ q * m \in Int
      BY <2>1, <2>3, Z3
    <3> QED
      BY <2>2, <2>3, <3>3, <3>4, <3>5, <3>6
  <2> QED
    BY <2>3, <2>4, <2>5
<1> QED
  BY <1>1, <1>2

(* An average is not rounded down to nothing if the sum is not less than   *)
(* the number of terms.                                                    *)
LEMMA AverageIsPositive ==
  ASSUME NEW former \in Seq(Nat), NEW latter, Len(latter) \in Nat \ {0},
         former # <<>>, SumFunction(former) >= Len(latter)
  PROVE  Average(former, latter) > 0
<1> DEFINE m == Len(latter)
           s == SumFunction(former)
           q == s \div m
<1>1. s \in Nat /\ m \in Nat \ {0} /\ s >= m
  BY ListSum
<1>2. Average(former, latter) = q
  BY DEF Average
<1> HIDE DEF m, s
<1>3. q \in Nat /\ s < (q + 1) * m
  BY <1>1, DivisionBounds
<1> HIDE DEF q
<1>4. q # 0
  <2> SUFFICES ASSUME q = 0 PROVE FALSE
    OBVIOUS
  <2>1. (q + 1) * m = m
    BY <1>1
  <2> QED
    BY <1>1, <1>3, <2>1
<1> QED
  BY <1>2, <1>3, <1>4

----
\* Runs of the benchmark

BenchmarkRow == [run : Nat, joules_per_token : Nat, samples : Seq(Draws), rates : Seq(Rates)]

Lists ==
  /\ samples \in Seq(Draws) /\ rates \in Seq(Rates) /\ readings \in Seq(Readings)
  /\ Len(rates) <= MaxRequests /\ (at = "request" => Len(rates) < MaxRequests)
  /\ kind \in Kinds /\ starts \in Nat
  /\ watts \in Nat /\ hashrate \in Nat
  /\ sampler.is = "holds" => sampler.draw \in Draws

(* No sample is asked for after the event: one may still be appended.      *)
Pending == IF sampler.is = "holds" THEN 1 ELSE 0

(* What the first read of a list saw is the beginning of what the second   *)
(* one sees, but for one sample, or for the readings that came.            *)
KeptRead ==
  /\ at = "divide" =>
       /\ kept \in Seq(Draws)
       /\ Len(kept) <= Len(samples) /\ Len(samples) + Pending <= Len(kept) + 1
       /\ \A i \in 1..Len(kept) : kept[i] = samples[i]
  /\ at = "hashrate" =>
       /\ kept \in Seq(Readings) /\ Len(kept) <= Len(Recent(readings))
       /\ \A i \in 1..Len(kept) : \E k \in 1..Len(readings) : kept[i] = readings[k]
  /\ at \in {"read", "hashrate"} => kind = "kawpow"
  /\ at = "store" /\ kind \in {"ollama", "igemm"} =>
       kept \in Seq(Draws) /\ (watts > 0 <=> kept # <<>>)

Reached(x, list) == \E i \in 1..Len(list) : x <= list[i]

ResultsReached ==
  /\ watts > 0 => Reached(watts, samples)
  /\ hashrate > 0 => Reached(hashrate, readings) \/ Reached(hashrate, rates)

MeasuredSomething(row) ==
  row.samples # <<>> /\ \E k \in 1..Len(row.rates) : row.rates[k] > 0

MeasuredRows == {i \in 1..Len(rows) : MeasuredSomething(rows[i])}

RowsMeasured ==
  /\ rows \in Seq(BenchmarkRow)
  /\ \A i \in 1..Len(rows) : Usable(rows[i]) <=> MeasuredSomething(rows[i])

BenchmarkInv == Lists /\ KeptRead /\ ResultsReached /\ RowsMeasured

LEMMA FiguresAreNatural ==
  /\ Draws \subseteq Nat /\ Rates \subseteq Nat /\ Readings \subseteq Nat
  /\ Seq(Draws) \subseteq Seq(Nat) /\ Seq(Rates) \subseteq Seq(Nat)
  /\ Seq(Readings) \subseteq Seq(Nat)
<1>1. ASSUME NEW S, S \subseteq Nat PROVE Seq(S) \subseteq Seq(Nat)
  <2> SUFFICES ASSUME NEW s \in Seq(S) PROVE s \in Seq(Nat)
    OBVIOUS
  <2>1. /\ Len(s) \in Nat /\ DOMAIN s = 1..Len(s)
        /\ \A i \in 1..Len(s) : s[i] \in Nat
        /\ s = [i \in 1..Len(s) |-> s[i]]
    BY <1>1
  <2> QED
    BY <2>1
<1>2. Draws \subseteq Nat /\ Rates \subseteq Nat /\ Readings \subseteq Nat
  BY BenchmarkAssumption
<1> QED
  BY <1>1, <1>2

LEMMA AppendedReaches ==
  ASSUME NEW S, NEW list \in Seq(S), NEW e \in S, NEW n, Reached(n, list)
  PROVE  Reached(n, Append(list, e))
  BY DEF Reached

(* The last readings are readings, and no fewer when another one comes.    *)
LEMMA RecentReadings ==
  ASSUME NEW list \in Seq(Readings)
  PROVE  /\ Recent(list) \in Seq(Readings)
         /\ Len(Recent(list)) = IF Len(list) > Window THEN Window ELSE Len(list)
         /\ \A i \in 1..Len(Recent(list)) : \E k \in 1..Len(list) : Recent(list)[i] = list[k]
<1> DEFINE n == Len(list)
           a == IF n > Window THEN n - Window + 1 ELSE 1
<1>1. n \in Nat /\ Window \in Nat \ {0}
  BY BenchmarkAssumption
<1>2. a \in 1..n + 1 /\ (n - a + 1) = (IF n > Window THEN Window ELSE n)
  BY <1>1
<1>3. Recent(list) = SubSeq(list, a, n)
  BY DEF Recent
<1> HIDE DEF a
<1>4. /\ SubSeq(list, a, n) \in Seq(Readings)
      /\ Len(SubSeq(list, a, n)) = n - a + 1
      /\ \A i \in 1..(n - a + 1) : SubSeq(list, a, n)[i] = list[a + i - 1]
  BY <1>1, <1>2, SubSeqProperties
<1>5. \A i \in 1..(n - a + 1) : a + i - 1 \in 1..n
  BY <1>1, <1>2
<1> QED
  BY <1>2, <1>3, <1>4, <1>5

(* The watts of a run are those of a sample at most, and nothing only if   *)
(* nothing was sampled.                                                    *)
LEMMA SampledWatts ==
  ASSUME Lists, KeptRead, at = "divide"
  PROVE  /\ Average(kept, samples) \in Nat
         /\ Average(kept, samples) > 0 => Reached(Average(kept, samples), samples)
         /\ Average(kept, samples) > 0 <=> kept # <<>>
<1>1. /\ kept \in Seq(Draws) /\ kept \in Seq(Nat) /\ Len(kept) \in Nat /\ Len(samples) \in Nat
      /\ Len(kept) <= Len(samples) /\ Len(samples) <= Len(kept) + 1
      /\ \A i \in 1..Len(kept) : kept[i] = samples[i]
  BY FiguresAreNatural DEF Lists, KeptRead, Pending
<1>2. /\ Average(kept, samples) \in Nat
      /\ Average(kept, samples) > 0 =>
           \E i \in 1..Len(kept) : Average(kept, samples) <= kept[i]
  BY <1>1, AverageIsReached
<1>3. ASSUME kept # <<>> PROVE Average(kept, samples) > 0
  <2>1. Len(kept) > 0
    BY <1>1, <1>3
  <2>2. Len(kept) * 2 <= SumFunction(kept)
    <3>1. \A i \in 1..Len(kept) : kept[i] \in Nat /\ 2 <= kept[i] /\ kept[i] <= SumFunction(kept)
      BY <1>1, ListSum, BenchmarkAssumption
    <3>2. /\ IsFiniteSet(1..Len(kept)) /\ Cardinality(1..Len(kept)) = Len(kept)
          /\ SumFunction(kept) = SumFunctionOnSet(kept, 1..Len(kept)) /\ SumFunction(kept) \in Nat
      BY <1>1, ListSum
    <3> DEFINE high == SumFunction(kept)
    <3>3. high \in Nat /\ \A i \in 1..Len(kept) : kept[i] \in Nat /\ 2 <= kept[i] /\ kept[i] <= high
      BY <3>1, <3>2
    <3> HIDE DEF high
    <3>4. Cardinality(1..Len(kept)) * 2 <= SumFunctionOnSet(kept, 1..Len(kept))
      BY <3>2, <3>3, SumWithin
    <3> QED
      BY <3>2, <3>4
  <2>3. SumFunction(kept) \in Nat
    BY <1>1, ListSum
  <2>4. SumFunction(kept) >= Len(samples) /\ Len(samples) \in Nat \ {0}
    BY <1>1, <2>1, <2>2, <2>3
  <2> QED
    BY <1>1, <1>3, <2>4, AverageIsPositive
<1>4. ASSUME kept = <<>> PROVE Average(kept, samples) = 0
  BY <1>4 DEF Average
<1>5. ASSUME NEW i \in 1..Len(kept), Average(kept, samples) <= kept[i]
      PROVE  Reached(Average(kept, samples), samples)
  <2>1. i \in 1..Len(samples) /\ kept[i] = samples[i]
    BY <1>1
  <2> QED
    BY <1>5, <2>1 DEF Reached
<1> QED
  BY <1>2, <1>3, <1>4, <1>5

(* The tokens per second are those of a request at most, and nothing only  *)
(* if no token came.                                                       *)
LEMMA TokenRate ==
  ASSUME Lists
  PROVE  /\ TokensPerSecond \in Nat /\ TokensPerSecond <= Micro
         /\ TokensPerSecond > 0 => Reached(TokensPerSecond, rates)
         /\ TokensPerSecond > 0 <=> \E k \in 1..Len(rates) : rates[k] > 0
<1> DEFINE tps == Average(rates, rates)
<1>1. /\ rates \in Seq(Nat) /\ Len(rates) \in Nat /\ Len(rates) <= MaxRequests
      /\ Micro \in Nat /\ MaxRequests \in Nat
      /\ \A k \in 1..Len(rates) : rates[k] \in Nat /\ (rates[k] > 0 => rates[k] >= MaxRequests)
                                  /\ rates[k] <= Micro
  <2>1. \A k \in 1..Len(rates) : rates[k] \in Rates
    BY DEF Lists
  <2> QED
    BY <2>1, FiguresAreNatural, BenchmarkAssumption DEF Lists
<1>2. tps \in Nat /\ (tps > 0 => \E i \in 1..Len(rates) : tps <= rates[i])
  BY <1>1, AverageIsReached
<1>3. ASSUME NEW k \in 1..Len(rates), rates[k] > 0 PROVE tps > 0
  <2>1. SumFunction(rates) \in Nat /\ SumFunction(rates) >= rates[k]
    BY <1>1, ListSum
  <2>2. rates # <<>> /\ Len(rates) \in Nat \ {0} /\ SumFunction(rates) >= Len(rates)
    BY <1>1, <1>3, <2>1
  <2> QED
    BY <1>1, <2>2, AverageIsPositive
<1> HIDE DEF tps
<1>4. tps > 0 => \E k \in 1..Len(rates) : rates[k] > 0
  BY <1>1, <1>2
<1>5. tps <= Micro
  BY <1>1, <1>2
<1> QED
  BY <1>2, <1>3, <1>4, <1>5 DEF TokensPerSecond, tps, Reached

(* A run that is stored has joules per token just if it measured something. *)
LEMMA StoredJoules ==
  ASSUME Lists, KeptRead, at = "store", kind \in {"ollama", "igemm"}
  PROVE  /\ JoulesPerToken \in Nat
         /\ JoulesPerToken > 0 <=> kept # <<>> /\ \E k \in 1..Len(rates) : rates[k] > 0
<1> DEFINE t == TokensPerSecond
           q == (watts * Micro) \div t
<1>1. t \in Nat /\ t <= Micro /\ (t > 0 <=> \E k \in 1..Len(rates) : rates[k] > 0)
  BY TokenRate
<1>2. watts \in Nat /\ (watts > 0 <=> kept # <<>>) /\ Micro \in Nat \ {0}
  BY BenchmarkAssumption DEF Lists, KeptRead
<1>3. JoulesPerToken = IF t > 0 THEN q ELSE 0
  BY DEF JoulesPerToken
<1> HIDE DEF t
<1>4. ASSUME t > 0 PROVE q \in Nat /\ (q > 0 <=> watts > 0)
  <2>1. watts * Micro \in Nat
    BY <1>2, Z3
  <2>2. q \in Nat /\ q * t <= watts * Micro /\ watts * Micro < (q + 1) * t
    <3> DEFINE p == watts * Micro
    <3>1. p \in Nat /\ t \in Nat \ {0} /\ q = p \div t
      BY <1>1, <1>4, <2>1
    <3> HIDE DEF p, q
    <3>2. q \in Nat /\ q * t <= p /\ p < (q + 1) * t
      BY <3>1, DivisionBounds
    <3> QED
      BY <3>2 DEF p
  <2> HIDE DEF q
  <2>3. ASSUME watts = 0 PROVE q = 0
    <3>1. q * t <= 0
      BY <1>2, <2>2, <2>3
    <3> QED
      BY <1>1, <1>4, <2>2, <3>1, Z3
  <2>4. ASSUME watts > 0, q = 0 PROVE FALSE
    <3>1. watts * Micro < t
      BY <1>1, <2>2, <2>4
    <3>2. Micro <= watts * Micro
      BY <1>2, <2>4, Z3
    <3> QED
      BY <1>1, <1>2, <2>1, <3>1, <3>2
  <2> QED
    BY <1>2, <2>2, <2>3, <2>4
<1> HIDE DEF q
<1> QED
  BY <1>1, <1>2, <1>3, <1>4

LEMMA LastIsMax ==
  ASSUME NEW n \in Nat, NEW S \in SUBSET (1..n), S # {}
  PROVE  /\ Max(S) \in S
         /\ Max(S) = CHOOSE i \in S : \A k \in S : k <= i
<1> DEFINE N == {n - i : i \in S}
<1>1. N \subseteq Nat /\ N # {} /\ \A i \in S : i \in Nat
  <2>1. \A i \in S : i \in Nat /\ n - i \in Nat
    OBVIOUS
  <2>2. PICK i \in S : TRUE
    OBVIOUS
  <2>3. n - i \in N
    OBVIOUS
  <2> QED
    BY <2>1, <2>3
<1>2. PICK least \in N : \A k \in N : least <= k
  BY <1>1, LeastNatural
<1>3. PICK m \in S : least = n - m
  BY <1>2
<1>4. \A k \in S : k <= m
  <2> SUFFICES ASSUME NEW k \in S PROVE k <= m
    OBVIOUS
  <2>1. n - k \in N
    OBVIOUS
  <2>2. n - m <= n - k
    BY <1>2, <1>3, <2>1
  <2> QED
    BY <2>2
<1>5. Max(S) = m
  <2>1. \A i \in S : (\A k \in S : i >= k) <=> i = m
    BY <1>1, <1>4
  <2> QED
    BY <2>1, Zenon DEF Max
<1>6. m = CHOOSE i \in S : \A k \in S : k <= i
  <2>1. \A i \in S : (\A k \in S : k <= i) <=> i = m
    BY <1>1, <1>4
  <2> QED
    BY <2>1, Zenon
<1> QED
  BY <1>5, <1>6

LEMMA BenchmarkInitInv == BenchmarkInit => BenchmarkInv
<1> SUFFICES ASSUME BenchmarkInit PROVE BenchmarkInv
  OBVIOUS
<1>1. Lists
  BY BenchmarkAssumption DEF BenchmarkInit, Lists, Kinds, Off
<1>2. KeptRead /\ ResultsReached
  BY DEF BenchmarkInit, KeptRead, ResultsReached
<1>3. RowsMeasured
  BY DEF BenchmarkInit, RowsMeasured
<1> QED
  BY <1>1, <1>2, <1>3 DEF BenchmarkInv

(* The threads: main is where it was.                                      *)
LEMMA ThreadKeeps ==
  ASSUME BenchmarkInv,
         Query \/ AppendSample \/ SamplerDies \/ \E reading \in Readings : Read(reading)
  PROVE  BenchmarkInv'
<1> USE DEF BenchmarkInv
<1>1. CASE Query
  <2>1. /\ ~StopRequested /\ UNCHANGED <<at, kind, lists, kept, results, miners, rows, starts>>
        /\ sampler'.is = "holds" => sampler'.draw \in Draws
    BY <1>1 DEF Query, Holds, Draw, Draws
  <2>2. Lists' /\ ResultsReached' /\ RowsMeasured'
    BY <2>1 DEF Lists, ResultsReached, Reached, RowsMeasured, Usable, MeasuredSomething, lists, results
  <2>3. KeptRead'
    BY <2>1 DEF KeptRead, StopRequested, lists, results
  <2> QED
    BY <2>2, <2>3
<1>2. CASE AppendSample
  <2>1. /\ sampler.is = "holds" /\ sampler.draw \in Draws /\ samples \in Seq(Draws)
        /\ samples' = Append(samples, sampler.draw) /\ sampler'.is = "ready"
        /\ UNCHANGED <<at, kind, rates, readings, kept, results, miners, rows, starts>>
    BY <1>2 DEF AppendSample, Ready, Lists
  <2>2. /\ samples' \in Seq(Draws) /\ Len(samples') = Len(samples) + 1 /\ Len(samples) \in Nat
        /\ \A i \in 1..Len(samples) : samples'[i] = samples[i]
    BY <2>1
  <2>3. Lists' /\ RowsMeasured'
    BY <2>1, <2>2 DEF Lists, RowsMeasured, Usable, MeasuredSomething, results
  <2>4. ResultsReached'
    BY <2>1, AppendedReaches DEF ResultsReached, results
  <2>5. KeptRead'
    <3>1. at = "divide" =>
            /\ kept \in Seq(Draws) /\ Len(kept) \in Nat
            /\ Len(kept) <= Len(samples) /\ Len(samples) + 1 <= Len(kept) + 1
            /\ \A i \in 1..Len(kept) : kept[i] = samples[i]
      BY <2>1 DEF KeptRead, Pending
    <3>2. at = "divide" =>
            /\ Len(kept) <= Len(samples') /\ Len(samples') <= Len(kept) + 1
            /\ \A i \in 1..Len(kept) : kept[i] = samples'[i]
      BY <2>2, <3>1
    <3> QED
      BY <2>1, <2>2, <3>1, <3>2 DEF KeptRead, Pending, results
  <2> QED
    BY <2>3, <2>4, <2>5
<1>3. CASE SamplerDies
  <2>1. /\ sampler.is = "holds" /\ sampler'.is = "off"
        /\ UNCHANGED <<at, kind, lists, kept, results, miners, rows, starts>>
    BY <1>3 DEF SamplerDies, Off
  <2>2. Lists' /\ ResultsReached' /\ RowsMeasured'
    BY <2>1 DEF Lists, ResultsReached, Reached, RowsMeasured, Usable, MeasuredSomething, lists, results
  <2>3. KeptRead'
    <3>1. Len(samples) \in Nat /\ (at = "divide" => Len(kept) \in Nat)
      BY DEF Lists, KeptRead
    <3> QED
      BY <2>1, <3>1 DEF KeptRead, Pending, lists, results
  <2> QED
    BY <2>2, <2>3
<1>4. ASSUME NEW reading \in Readings, Read(reading) PROVE BenchmarkInv'
  <2>1. /\ readings' = Append(readings, reading) /\ readings \in Seq(Readings)
        /\ UNCHANGED <<at, kind, sampler, samples, rates, kept, results, miners, rows, starts>>
    BY <1>4 DEF Read, Lists
  <2>2. /\ readings' \in Seq(Readings) /\ Len(readings') = Len(readings) + 1
        /\ Len(readings) \in Nat /\ \A i \in 1..Len(readings) : readings'[i] = readings[i]
    BY <2>1
  <2>3. Lists' /\ RowsMeasured'
    BY <2>1, <2>2 DEF Lists, RowsMeasured, Usable, MeasuredSomething, results
  <2>4. ResultsReached'
    <3>1. hashrate > 0 /\ Reached(hashrate, readings) => Reached(hashrate, readings')
      BY <2>1, AppendedReaches
    <3> QED
      BY <2>1, <3>1 DEF ResultsReached, Reached, results
  <2>5. KeptRead'
    <3>1. /\ Window \in Nat
          /\ Len(Recent(readings)) = IF Len(readings) > Window THEN Window ELSE Len(readings)
          /\ Len(Recent(readings')) = IF Len(readings') > Window THEN Window ELSE Len(readings')
      BY <2>1, <2>2, RecentReadings, BenchmarkAssumption
    <3>2. Len(Recent(readings)) <= Len(Recent(readings')) /\ Len(Recent(readings)) \in Nat
          /\ Len(Recent(readings')) \in Nat
      BY <2>2, <3>1
    <3>3. at = "hashrate" =>
            /\ kept \in Seq(Readings) /\ Len(kept) <= Len(Recent(readings'))
            /\ \A i \in 1..Len(kept) : \E k \in 1..Len(readings') : kept[i] = readings'[k]
      BY <2>2, <3>2 DEF KeptRead
    <3> QED
      BY <2>1, <3>3 DEF KeptRead, Pending, results
  <2> QED
    BY <2>3, <2>4, <2>5
<1> QED
  BY <1>1, <1>2, <1>3, <1>4

(* What main does before it averages anything, and what else ends a miner. *)
LEMMA RunKeeps ==
  ASSUME BenchmarkInv,
         \/ \E k \in Kinds : BeginRun(k)
         \/ Request \/ EndPhase \/ EndMiner \/ SetEvent \/ Report \/ Kill
         \/ \E run \in 1..MaxStarts : MinerEnds(run)
         \/ \E rate \in Rates : Answer(rate)
  PROVE  BenchmarkInv'
<1> USE DEF BenchmarkInv
<1>1. ASSUME UNCHANGED <<kind, lists, kept, results, rows, starts>>,
             sampler' = sampler \/ sampler' = Off,
             at' = at \/ at' \notin {"divide", "read", "hashrate", "store"},
             at' = "request" => Len(rates) < MaxRequests
      PROVE  BenchmarkInv'
  <2>1. sampler' = sampler \/ sampler'.is = "off"
    BY <1>1 DEF Off
  <2>2. Lists' /\ ResultsReached' /\ RowsMeasured'
    BY <1>1, <2>1 DEF Lists, ResultsReached, Reached, RowsMeasured, Usable, MeasuredSomething, lists, results
  <2>3. KeptRead'
    <3>1. Len(samples) \in Nat /\ (at = "divide" => Len(kept) \in Nat)
      BY DEF Lists, KeptRead
    <3> QED
      BY <1>1, <2>1, <3>1 DEF KeptRead, Pending, lists, results
  <2> QED
    BY <2>2, <2>3
<1>2. ASSUME NEW k \in Kinds, BeginRun(k) PROVE BenchmarkInv'
  <2>1. /\ kind' = k /\ at' \in {"mining", "phase"} /\ sampler'.is = "ready"
        /\ samples' = <<>> /\ rates' = <<>> /\ readings' = <<>>
        /\ watts' = 0 /\ hashrate' = 0 /\ starts' = starts + 1 /\ rows' = rows
    BY <1>2 DEF BeginRun, Ready
  <2>2. Lists'
    BY <2>1, BenchmarkAssumption DEF Lists
  <2>3. ResultsReached' /\ KeptRead'
    BY <2>1 DEF ResultsReached, KeptRead
  <2>4. RowsMeasured'
    BY <2>1 DEF RowsMeasured, Usable, MeasuredSomething
  <2> QED
    BY <2>2, <2>3, <2>4
<1>3. ASSUME NEW rate \in Rates, Answer(rate) PROVE BenchmarkInv'
  <2>1. /\ at' = "phase" /\ at = "request" /\ rates \in Seq(Rates)
        /\ rates' = rates \/ rates' = Append(rates, rate)
        /\ UNCHANGED <<kind, sampler, samples, readings, kept, results, miners, rows, starts>>
    BY <1>3 DEF Answer, Lists
  <2>2. rates' \in Seq(Rates) /\ Len(rates') <= MaxRequests
    <3>1. /\ Len(rates) \in Nat /\ MaxRequests \in Nat /\ Len(rates) < MaxRequests
          /\ Append(rates, rate) \in Seq(Rates) /\ Len(Append(rates, rate)) = Len(rates) + 1
      BY <2>1, BenchmarkAssumption DEF Lists
    <3> QED
      BY <2>1, <3>1
  <2>3. Lists' /\ RowsMeasured'
    BY <2>1, <2>2 DEF Lists, RowsMeasured, Usable, MeasuredSomething, results
  <2>5. KeptRead'
    BY <2>1 DEF KeptRead
  <2>4. ResultsReached'
    <3>1. Reached(hashrate, rates) => Reached(hashrate, rates')
      BY <2>1, AppendedReaches
    <3> QED
      BY <2>1, <3>1 DEF ResultsReached, Reached, results
  <2> QED
    BY <2>3, <2>4, <2>5
<1>4. CASE Request \/ EndPhase \/ EndMiner \/ SetEvent
  BY <1>1, <1>4 DEF Request, EndPhase, EndMiner, SetEvent, Lists
<1>5. CASE Report \/ Kill
  BY <1>1, <1>5 DEF Report, Kill, Ended
<1>6. CASE \E run \in 1..MaxStarts : MinerEnds(run)
  BY <1>1, <1>6 DEF MinerEnds, Lists
<1> QED
  BY <1>2, <1>3, <1>4, <1>5, <1>6

(* The averages of main, in two steps each.                                *)
LEMMA AverageKeeps ==
  ASSUME BenchmarkInv, Join \/ DivideWatts \/ SumReadings \/ DivideHashrate
  PROVE  BenchmarkInv'
<1> USE DEF BenchmarkInv
<1>1. CASE Join
  <2>1. /\ kept' = samples /\ at' = "divide" /\ at = "join" /\ samples \in Seq(Draws)
        /\ UNCHANGED <<kind, sampler, lists, results, miners, rows, starts>>
    BY <1>1 DEF Join, Lists
  <2>2. Lists' /\ ResultsReached' /\ RowsMeasured'
    BY <2>1 DEF Lists, ResultsReached, Reached, RowsMeasured, Usable, MeasuredSomething, lists, results
  <2>3. KeptRead'
    <3>1. Pending' \in {0, 1} /\ Len(samples) \in Nat
      BY <2>1 DEF Pending
    <3> QED
      BY <2>1, <3>1 DEF KeptRead, lists, results
  <2> QED
    BY <2>2, <2>3
<1>2. CASE DivideWatts
  <2> DEFINE w == Average(kept, samples)
  <2>1. /\ at = "divide" /\ kept \in Seq(Draws)
        /\ watts' = w /\ at' = (IF kind = "kawpow" THEN "read" ELSE "store")
        /\ hashrate' = (IF kind = "twp" THEN TokensPerSecond ELSE hashrate)
        /\ UNCHANGED <<kind, sampler, lists, kept, miners, rows, starts>>
    BY <1>2 DEF DivideWatts, KeptRead
  <2>2. w \in Nat /\ (w > 0 => Reached(w, samples)) /\ (w > 0 <=> kept # <<>>)
    BY <2>1, SampledWatts
  <2>3. TokensPerSecond \in Nat
        /\ (TokensPerSecond > 0 => Reached(TokensPerSecond, rates))
    BY TokenRate
  <2> HIDE DEF w
  <2>4. Lists' /\ RowsMeasured'
    BY <2>1, <2>2, <2>3 DEF Lists, RowsMeasured, Usable, MeasuredSomething, lists
  <2>5. ResultsReached'
    BY <2>1, <2>2, <2>3 DEF ResultsReached, Reached, lists
  <2>6. KeptRead'
    BY <2>1, <2>2 DEF KeptRead, Kinds, lists
  <2> QED
    BY <2>4, <2>5, <2>6
<1>3. CASE SumReadings
  <2>1. /\ at = "read" /\ at' = "hashrate" /\ kept' = Recent(readings)
        /\ readings \in Seq(Readings) /\ kind = "kawpow"
        /\ UNCHANGED <<kind, sampler, lists, results, miners, rows, starts>>
    BY <1>3 DEF SumReadings, Lists, KeptRead
  <2>2. /\ Recent(readings) \in Seq(Readings) /\ Len(Recent(readings)) \in Nat
        /\ \A i \in 1..Len(Recent(readings)) :
             \E k \in 1..Len(readings) : Recent(readings)[i] = readings[k]
    <3>1. Recent(readings) \in Seq(Readings)
      BY <2>1, RecentReadings
    <3>2. \A i \in 1..Len(Recent(readings)) :
            \E k \in 1..Len(readings) : Recent(readings)[i] = readings[k]
      BY <2>1, RecentReadings
    <3> QED
      BY <3>1, <3>2
  <2>3. Lists' /\ ResultsReached' /\ RowsMeasured'
    BY <2>1 DEF Lists, ResultsReached, Reached, RowsMeasured, Usable, MeasuredSomething, lists, results
  <2>4. readings' = readings
    BY <2>1 DEF lists
  <2>5. KeptRead'
    BY <2>1, <2>2, <2>4 DEF KeptRead
  <2> QED
    BY <2>3, <2>5
<1>4. CASE DivideHashrate
  <2> DEFINE h == Average(kept, Recent(readings))
  <2>1. /\ at = "hashrate" /\ at' = "store" /\ hashrate' = h /\ kind = "kawpow"
        /\ kept \in Seq(Readings) /\ Len(kept) <= Len(Recent(readings))
        /\ \A i \in 1..Len(kept) : \E k \in 1..Len(readings) : kept[i] = readings[k]
        /\ UNCHANGED <<kind, sampler, lists, kept, watts, miners, rows, starts>>
    BY <1>4 DEF DivideHashrate, KeptRead
  <2>2. kept \in Seq(Nat) /\ readings \in Seq(Readings)
    BY <2>1, FiguresAreNatural DEF Lists
  <2>3. Len(Recent(readings)) \in Nat
    BY <2>2, RecentReadings
  <2>4. h \in Nat /\ (h > 0 => \E i \in 1..Len(kept) : h <= kept[i])
    BY <2>1, <2>2, <2>3, AverageIsReached
  <2> HIDE DEF h
  <2>5. h > 0 => Reached(h, readings)
    BY <2>1, <2>4 DEF Reached
  <2>6. Lists' /\ RowsMeasured'
    BY <2>1, <2>4 DEF Lists, RowsMeasured, Usable, MeasuredSomething, lists
  <2>7. ResultsReached' /\ KeptRead'
    BY <2>1, <2>5 DEF ResultsReached, Reached, KeptRead, lists
  <2> QED
    BY <2>6, <2>7
<1> QED
  BY <1>1, <1>2, <1>3, <1>4

LEMMA StoreKeeps ==
  ASSUME BenchmarkInv, Store
  PROVE  BenchmarkInv'
<1> DEFINE row == [run |-> starts, joules_per_token |-> JoulesPerToken,
                   samples |-> kept, rates |-> rates]
<1>1. /\ at = "store" /\ kind \in {"ollama", "igemm"} /\ at' = "idle" /\ sampler'.is = "off"
      /\ rows' = Append(rows, row)
      /\ UNCHANGED <<kind, lists, kept, results, miners, starts>>
  BY DEF Store, Ended, Off
<1>2. /\ JoulesPerToken \in Nat
      /\ JoulesPerToken > 0 <=> kept # <<>> /\ \E k \in 1..Len(rates) : rates[k] > 0
  BY <1>1, StoredJoules DEF BenchmarkInv
<1>3. kept \in Seq(Draws) /\ rates \in Seq(Rates) /\ starts \in Nat
  BY <1>1 DEF BenchmarkInv, Lists, KeptRead
<1>4. row \in BenchmarkRow
  BY <1>2, <1>3 DEF BenchmarkRow
<1>5. Usable(row) <=> MeasuredSomething(row)
  BY <1>2 DEF Usable, MeasuredSomething
<1> HIDE DEF row
<1>6. /\ rows \in Seq(BenchmarkRow)
      /\ \A i \in 1..Len(rows) : Usable(rows[i]) <=> MeasuredSomething(rows[i])
  BY DEF BenchmarkInv, RowsMeasured
<1>7. RowsMeasured'
  <2>1. /\ rows' \in Seq(BenchmarkRow) /\ Len(rows') = Len(rows) + 1 /\ Len(rows) \in Nat
        /\ \A i \in 1..Len(rows) : rows'[i] = rows[i]
        /\ rows'[Len(rows) + 1] = row
    BY <1>1, <1>4, <1>6
  <2>2. ASSUME NEW i \in 1..Len(rows')
        PROVE  Usable(rows'[i]) <=> MeasuredSomething(rows'[i])
    <3>1. CASE i = Len(rows) + 1
      BY <1>5, <2>1, <3>1
    <3>2. CASE i \in 1..Len(rows)
      BY <1>6, <2>1, <3>2
    <3> QED
      BY <2>1, <2>2, <3>1, <3>2
  <2> QED
    BY <2>1, <2>2 DEF RowsMeasured, Usable, MeasuredSomething
<1>8. Lists' /\ ResultsReached' /\ KeptRead'
  BY <1>1 DEF BenchmarkInv, Lists, ResultsReached, Reached, KeptRead, lists, results
<1> QED
  BY <1>7, <1>8 DEF BenchmarkInv

LEMMA BenchmarkInvariantHolds == BenchmarkSpec => []BenchmarkInv
<1>1. ASSUME BenchmarkInv, [BenchmarkNext]_benchmarkVars PROVE BenchmarkInv'
  <2>1. CASE UNCHANGED benchmarkVars
    BY <1>1, <2>1 DEF benchmarkVars, lists, results, BenchmarkInv, Lists, KeptRead, Pending,
       ResultsReached, Reached, RowsMeasured, Usable, MeasuredSomething, Recent
  <2>2. CASE BenchmarkNext
    BY <1>1, <2>2, ThreadKeeps, RunKeeps, AverageKeeps, StoreKeeps DEF BenchmarkNext
  <2> QED
    BY <1>1, <2>1, <2>2
<1> QED
  BY <1>1, BenchmarkInitInv, PTL DEF BenchmarkSpec

(* However the sampler and the reader append while main averages their     *)
(* lists, no result of any run is above all that was measured.             *)
THEOREM ResultsNeverOverstated == BenchmarkSpec => []NeverOverstated
<1>1. BenchmarkInv => NeverOverstated
  <2> SUFFICES ASSUME BenchmarkInv PROVE NeverOverstated
    OBVIOUS
  <2>1. AtMost(watts, samples)
    BY DEF BenchmarkInv, ResultsReached, Reached, AtMost
  <2>2. /\ readings \in Seq(Nat) /\ rates \in Seq(Nat)
    BY FiguresAreNatural DEF BenchmarkInv, Lists
  <2>3. /\ Len(readings \o rates) = Len(readings) + Len(rates)
        /\ Len(readings) \in Nat /\ Len(rates) \in Nat
        /\ \A i \in 1..Len(readings) : (readings \o rates)[i] = readings[i]
        /\ \A i \in 1..Len(rates) : (readings \o rates)[i + Len(readings)] = rates[i]
    BY <2>2
  <2>4. Reached(hashrate, readings) => Reached(hashrate, readings \o rates)
    BY <2>3 DEF Reached
  <2>5. ASSUME NEW i \in 1..Len(rates), hashrate <= rates[i]
        PROVE  Reached(hashrate, readings \o rates)
    <3>1. i + Len(readings) \in 1..Len(readings \o rates)
      BY <2>3
    <3> QED
      BY <2>3, <2>5, <3>1 DEF Reached
  <2>6. hashrate > 0 => Reached(hashrate, readings \o rates)
    BY <2>4, <2>5 DEF BenchmarkInv, ResultsReached, Reached
  <2> QED
    BY <2>1, <2>6 DEF NeverOverstated, AtMost, Reached
<1> QED
  BY <1>1, BenchmarkInvariantHolds, PTL

(* The index quotes the last stored run that measured power and tokens,    *)
(* whatever runs are killed, sampled badly or answered with nothing.       *)
THEOREM IndexAlwaysMeasured == BenchmarkSpec => []IndexIsMeasured
<1>1. BenchmarkInv => IndexIsMeasured
  <2> SUFFICES ASSUME BenchmarkInv PROVE IndexIsMeasured
    OBVIOUS
  <2> DEFINE good == MeasuredRows
             last == CHOOSE i \in good : \A k \in good : k <= i
  <2>1. /\ good = {i \in 1..Len(rows) : Usable(rows[i])}
        /\ good \subseteq 1..Len(rows) /\ Len(rows) \in Nat
    BY DEF BenchmarkInv, RowsMeasured, MeasuredRows
  <2>2. IndexIsMeasured <=>
          current_index = IF good = {} THEN Quoted(FallbackJoules, "config fallback")
                          ELSE Quoted(rows[last].joules_per_token, "measurements.db")
    BY Zenon DEF IndexIsMeasured, MeasuredRows, MeasuredSomething
  <2> HIDE DEF good
  <2>3. CASE good = {}
    <3>1. latest_measured_joules_per_token = NoMeasurement
      BY <2>1, <2>3 DEF latest_measured_joules_per_token
    <3> QED
      BY <2>2, <2>3, <3>1 DEF current_index
  <2>4. CASE good # {}
    <3>1. Max(good) \in good /\ last = Max(good)
      BY <2>1, <2>4, LastIsMax
    <3>2. latest_measured_joules_per_token = rows[Max(good)]
      BY <2>1, <2>4 DEF latest_measured_joules_per_token
    <3>3. rows[Max(good)].joules_per_token > 0
      BY <2>1, <3>1 DEF Usable
    <3>4. rows[Max(good)] # NoMeasurement
      BY <3>3 DEF NoMeasurement
    <3>5. current_index = Quoted(rows[last].joules_per_token, "measurements.db")
      BY <3>1, <3>2, <3>4 DEF current_index
    <3> HIDE DEF last
    <3> QED
      BY <2>2, <2>4, <3>5
  <2> QED
    BY <2>3, <2>4
<1> QED
  BY <1>1, BenchmarkInvariantHolds, PTL

====
