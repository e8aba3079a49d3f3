---- MODULE Benchmark ----
(***************************************************************************)
(* The measurement of claim 3 (benchmark.py): a thread samples the power   *)
(* draw while main drives a model server, or while a miner runs whose      *)
(* output a second thread reads.  A measured run may be stored as a row of *)
(* measurements.db, of which claim 2 and qi_index.py take the latest that  *)
(* is usable.                                                              *)
(*                                                                         *)
(* A list that another thread may append to is read in as many steps as    *)
(* the code has reads.  Rates and readings are whole numbers, joules per   *)
(* token are micro-joules, and quotients are rounded down.  Runs come one  *)
(* after the other.                                                        *)
(***************************************************************************)
EXTENDS Integers, Sequences, FiniteSetsExt, Functions

CONSTANTS
  LoadWatts, RestWatts, FallbackWatts,   \* watts of a GPU that works or rests; fallback_watts
  Rates,          \* tokens per second of an answered request
  Readings,       \* hashrates that a miner prints
  Window,         \* how many of the last readings are averaged
  Micro,
  FallbackJoules, \* claim2.joules_per_token_fallback
  MaxStarts, MaxRequests, MaxSamples, MaxReadings   \* bounds

Draws == {LoadWatts, RestWatts, FallbackWatts}

(* Units are so small that nothing measured is rounded down to nothing:    *)
(* a request's rate in the average of all, the watts when a sample comes   *)
(* between the reads of the list, the micro-joules of a token.             *)
ASSUME BenchmarkAssumption ==
  /\ Draws \subseteq Nat /\ \A draw \in Draws : draw >= 2
  /\ Rates \subseteq Nat /\ \A rate \in Rates : rate = 0 \/ rate \in MaxRequests..Micro
  /\ Readings \subseteq Nat
  /\ Window \in Nat \ {0} /\ Micro \in Nat \ {0} /\ FallbackJoules \in Nat
  /\ {MaxStarts, MaxRequests, MaxSamples, MaxReadings} \subseteq Nat

Kinds == {"ollama", "igemm", "twp", "kawpow"}
Serving == {"igemm", "twp"}   \* driven by _run_igemm_phase

VARIABLES
  at,          \* where main is
  kind,        \* what is run: --calibrate-rig with its --algo, or a backend;
               \* twp with a miner command is run as kawpow is
  sampler,     \* the thread WattSampler, with the draw it has got
  samples, rates, readings,   \* the lists
  kept,        \* what the first of two reads of a list has seen
  watts, hashrate,            \* results of the run
  miners,      \* the runs whose miner process is there
  rows,        \* measurements.db, each row with the lists it was made from
  starts

lists == <<samples, rates, readings>>
results == <<watts, hashrate>>
benchmarkVars == <<at, kind, sampler, lists, kept, results, miners, rows, starts>>

Off == [is |-> "off"]
Ready == [is |-> "ready"]
Holds(draw) == [is |-> "holds", draw |-> draw]

BenchmarkInit ==
  /\ at = "idle" /\ kind = "ollama" /\ sampler = Off
  /\ samples = <<>> /\ rates = <<>> /\ readings = <<>> /\ kept = <<>>
  /\ watts = 0 /\ hashrate = 0
  /\ miners = {} /\ rows = <<>> /\ starts = 0

\* Mutant: the length is read before the list is summed up.
AverageLengthFirst(former, latter) ==
  IF former = <<>> THEN 0 ELSE SumFunction(latter) \div Len(former)

(* "sum(list) / len(list)": the list is read twice.                        *)
Average(former, latter) ==
  IF former = <<>> THEN 0 ELSE SumFunction(former) \div Len(latter)

Recent(list) == SubSeq(list, IF Len(list) > Window THEN Len(list) - Window + 1 ELSE 1, Len(list))

----
\* WattSampler and GPUTelemetry

Working == miners # {} \/ at = "request"
Draw == IF Working THEN LoadWatts ELSE RestWatts

StopRequested == at \in {"idle", "join", "divide", "read", "hashrate", "store"}

(* nvidia-smi tells the draw, or fails.                                    *)
Query ==
  /\ sampler = Ready /\ ~StopRequested
  /\ Len(samples) < MaxSamples
  /\ \E draw \in {Draw, FallbackWatts} : sampler' = Holds(draw)
  /\ UNCHANGED <<at, kind, lists, kept, results, miners, rows, starts>>

AppendSample ==
  /\ sampler.is = "holds"
  /\ samples' = Append(samples, sampler.draw)
  /\ sampler' = Ready
  /\ UNCHANGED <<at, kind, rates, readings, kept, results, miners, rows, starts>>

(* An exception that GPUTelemetry.sample does not catch ends the thread.   *)
SamplerDies ==
  /\ sampler.is = "holds"
  /\ sampler' = Off
  /\ UNCHANGED <<at, kind, lists, kept, results, miners, rows, starts>>

(* The reader thread: the miner's output may outlive the miner.            *)
Read(reading) ==
  /\ kind = "kawpow" /\ at # "idle"
  /\ Len(readings) < MaxReadings
  /\ readings' = Append(readings, reading)
  /\ UNCHANGED <<at, kind, sampler, samples, rates, kept, results, miners, rows, starts>>

----
\* main

BeginRun(k) ==
  /\ at = "idle" /\ starts < MaxStarts
  /\ kind' = k
  /\ at' = IF k = "kawpow" THEN "mining" ELSE "phase"
  /\ miners' = IF k = "kawpow" THEN miners \cup {starts + 1} ELSE miners
  /\ sampler' = Ready
  /\ samples' = <<>> /\ rates' = <<>> /\ readings' = <<>> /\ kept' = <<>>
  /\ watts' = 0 /\ hashrate' = 0
  /\ starts' = starts + 1
  /\ UNCHANGED rows

Request ==
  /\ at = "phase" /\ Len(rates) < MaxRequests
  /\ at' = "request"
  /\ UNCHANGED <<kind, sampler, lists, kept, results, miners, rows, starts>>

(* An answer without a duration has no rate, nor has one without tokens    *)
(* that a serving backend gave.                                            *)
Answer(rate) ==
  /\ at = "request"
  /\ at' = "phase"
  /\ rates' = IF kind \in Serving /\ rate = 0 THEN rates ELSE Append(rates, rate)
  /\ UNCHANGED <<kind, sampler, samples, readings, kept, results, miners, rows, starts>>

(* The deadline has passed, or the request failed.                         *)
EndPhase ==
  /\ at \in {"phase", "request"}
  /\ at' = "ended"
  /\ UNCHANGED <<kind, sampler, lists, kept, results, miners, rows, starts>>

(* terminate, wait and kill: the sampler goes on meanwhile.                *)
EndMiner ==
  /\ at = "mining"
  /\ miners' = miners \ {starts}
  /\ at' = "ended"
  /\ UNCHANGED <<kind, sampler, lists, kept, results, rows, starts>>

MinerEnds(run) ==
  /\ run \in miners
  /\ miners' = miners \ {run}
  /\ UNCHANGED <<at, kind, sampler, lists, kept, results, rows, starts>>

(* WattSampler.stop sets the event; its join returns when the thread has   *)
(* seen it, or after ten seconds.                                          *)
SetEvent ==
  /\ at = "ended"
  /\ at' = "join"
  /\ UNCHANGED <<kind, sampler, lists, kept, results, miners, rows, starts>>

Join ==
  /\ at = "join"
  /\ kept' = samples
  /\ at' = "divide"
  /\ UNCHANGED <<kind, sampler, lists, results, miners, rows, starts>>

TokensPerSecond == Average(rates, rates)
JoulesPerToken == IF TokensPerSecond > 0 THEN (watts * Micro) \div TokensPerSecond ELSE 0

(* The rate of twp is that of the tokens, printed as receipts per second.  *)
DivideWatts ==
  /\ at = "divide"
  /\ watts' = Average(kept, samples)
  /\ hashrate' = IF kind = "twp" THEN TokensPerSecond ELSE hashrate
  /\ at' = IF kind = "kawpow" THEN "read" ELSE "store"
  /\ UNCHANGED <<kind, sampler, lists, kept, miners, rows, starts>>

SumReadings ==
  /\ at = "read"
  /\ kept' = Recent(readings)
  /\ at' = "hashrate"
  /\ UNCHANGED <<kind, sampler, lists, results, miners, rows, starts>>

DivideHashrate ==
  /\ at = "hashrate"
  /\ hashrate' = Average(kept, Recent(readings))
  /\ at' = "store"
  /\ UNCHANGED <<kind, sampler, lists, kept, watts, miners, rows, starts>>

Measured == rates # <<>>

(* The process ends, and its threads with it.                              *)
Ended ==
  /\ at' = "idle" /\ sampler' = Off
  /\ UNCHANGED <<kind, lists, kept, results, miners, starts>>

Store ==
  /\ at = "store"
  /\ kind \in {"ollama", "igemm"} /\ Measured
  /\ rows' = Append(rows, [run |-> starts, joules_per_token |-> JoulesPerToken,
                           samples |-> kept, rates |-> rates])
  /\ Ended

(* Without --store, or with nothing measured, or after a calibration.      *)
Report == at = "store" /\ UNCHANGED rows /\ Ended

(* A run that is killed leaves its miner running.                          *)
Kill == at # "idle" /\ UNCHANGED rows /\ Ended

BenchmarkNext ==
  \/ Query \/ AppendSample \/ SamplerDies
  \/ \E reading \in Readings : Read(reading)
  \/ \E k \in Kinds : BeginRun(k)
  \/ Request \/ EndPhase \/ EndMiner \/ SetEvent
  \/ \E run \in 1..MaxStarts : MinerEnds(run)
  \/ \E rate \in Rates : Answer(rate)
  \/ Join \/ DivideWatts \/ SumReadings \/ DivideHashrate
  \/ Store \/ Report \/ Kill

BenchmarkSpec == BenchmarkInit /\ [][BenchmarkNext]_benchmarkVars

----
\* claim 2 and qi_index.py

\* Mutant: any row will do.
UsableAny(row) == TRUE

Usable(row) == row.joules_per_token > 0

NoMeasurement == [run |-> 0, joules_per_token |-> 0, samples |-> <<>>, rates |-> <<>>]

latest_measured_joules_per_token ==
  LET usable == {i \in 1..Len(rows) : Usable(rows[i])}
  IN  IF usable = {} THEN NoMeasurement ELSE rows[Max(usable)]

Quoted(joules, source) == [joules_per_token |-> joules, joules_per_token_source |-> source]

(* The energy of a token in the quote, and where it is said to come from.  *)
current_index ==
  LET row == latest_measured_joules_per_token
  IN  IF row = NoMeasurement THEN Quoted(FallbackJoules, "config fallback")
      ELSE Quoted(row.joules_per_token, "measurements.db")

----
\* What the measurements are good for

AtMost(x, list) == x > 0 => \E i \in 1..Len(list) : x <= list[i]

(* A thread that appends while main averages its list can make a result    *)
(* too low, never too high: no rig reports more hashes than its miner ever *)
(* printed (for twp, tokens than a request had), nor more watts than a     *)
(* sample.                                                                 *)
NeverOverstated == AtMost(watts, samples) /\ AtMost(hashrate, readings \o rates)

(* The figure that claim 2 and the index take is that of the last stored   *)
(* run in which power was sampled and a token came: a run whose sampler    *)
(* died, or that got empty answers, is stored but not taken, and does not  *)
(* hide the run before it; what is called measured was.                    *)
IndexIsMeasured ==
  LET good == {i \in 1..Len(rows) :
                 rows[i].samples # <<>> /\ \E k \in 1..Len(rows[i].rates) : rows[i].rates[k] > 0}
  IN  current_index =
        IF good = {} THEN Quoted(FallbackJoules, "config fallback")
        ELSE Quoted(rows[CHOOSE i \in good : \A k \in good : k <= i].joules_per_token,
                    "measurements.db")

====
