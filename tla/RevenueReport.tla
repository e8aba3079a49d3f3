---- MODULE RevenueReport ----
(***************************************************************************)
(* The crossover daemon with what feeds it and what is made of its log:    *)
(* gather_economics prices both modes from three feeds and the power draw, *)
(* the cycle's row goes to the table of decisions, and report.py           *)
(* integrates the rows into what switching earned and what mining alone    *)
(* would have earned.                                                      *)
(*                                                                         *)
(* Times are whole seconds of one clock that is never set back.            *)
(***************************************************************************)
EXTENDS CrossoverDaemon, SequencesExt

CONSTANTS
  Prices, Difficulties, Rates,   \* what the feeds may deliver
  NoValue,         \* no url, no answer, or one that cannot be parsed
  Hashrate, Reward, FallbackRate, Utilization, Kwh,   \* the configuration
  Draws,           \* watts of the GPU, or fallback_watts
  Day, Micro,      \* SECONDS_PER_DAY and MICRO
  Sleeps,          \* how long a cycle may take with its sleep
  Downtimes,       \* how long the daemon may be down
  ProbeInterval,   \* probe_interval_seconds
  MaxGap           \* MAX_GAP_SECONDS

Readings == [price : Prices \cup {NoValue}, difficulty : Difficulties \cup {NoValue},
             rate : Rates \cup {NoValue}, watts : Draws]

ASSUME ReportAssumption ==
  /\ Prices \cup Difficulties \cup Rates \subseteq Int /\ NoValue \notin Int
  /\ {Hashrate, Reward, FallbackRate, Utilization, Kwh} \subseteq Int
  /\ Draws \subseteq Nat /\ Sleeps \cup Downtimes \subseteq Intervals
  /\ Day \in Nat \ {0} /\ Micro \in Nat \ {0}
  /\ ProbeInterval \in Nat /\ MaxGap \in Nat

VARIABLES
  rows,        \* the table of decisions, in the order of ts
  lastProbe    \* main's last_probe

reportVars == <<vars, rows, lastProbe>>

----
\* gather_economics

AtLeastZero(n) == IF n > 0 THEN n ELSE 0

MiningGross(price, difficulty) ==
  IF difficulty <= 0 \/ Hashrate <= 0 THEN 0
  ELSE (((Hashrate * Day * Reward) \div difficulty) * price) \div Micro

InferenceGross(rate) ==
  LET utilization == IF AtLeastZero(Utilization) > 100 THEN 100 ELSE AtLeastZero(Utilization)
  IN  (AtLeastZero(rate) * 24 * utilization) \div 100

PowerCost(watts) == (AtLeastZero(watts) * 24 * AtLeastZero(Kwh)) \div 1000

FeedsOk(reading) == reading.price # NoValue /\ reading.difficulty # NoValue

(* Mining is priced by two feeds; inference has a rate to fall back to.    *)
Nets(reading) ==
  LET gross == IF FeedsOk(reading) THEN MiningGross(reading.price, reading.difficulty) ELSE 0
      rate  == IF reading.rate = NoValue THEN FallbackRate ELSE reading.rate
      power == PowerCost(reading.watts)
  IN  [m \in Modes |-> IF m = "mining" THEN gross - power ELSE InferenceGross(rate) - power]

(* Offers is what a cycle may gather.                                      *)
ASSUME GatheredOffers == \A reading \in Readings : Nets(reading) \in Offers

Cycle(reading) ==
  LET offer == Nets(reading)
  IN  IF ~FeedsOk(reading) THEN FeedFailure(offer)
      ELSE IncumbentHolds(offer) \/ ChallengerWaits(offer) \/ Switch(offer)

----
\* main and the tables

ProbeDue == mode = "inference" /\ now - lastProbe >= ProbeInterval

LaunchMain(d) == Launch(d) /\ lastProbe' = 0 /\ UNCHANGED rows

(* record_decision: a row of its own, under an id that is new.             *)
RecordDecision(d) == rows' = Append(rows, d)

(* The last decision becomes a row; the sample that goes with it is read   *)
(* by nothing.                                                             *)
LogRow ==
  /\ Log
  /\ RecordDecision(Last(decisions))
  /\ UNCHANGED lastProbe

(* probe_ollama: whether Ollama answers or not, the next probe has to wait *)
(* again; the request it logs is read by nothing.                          *)
Probe ==
  /\ pc = "sleep" /\ ProbeDue
  /\ lastProbe' = now
  /\ UNCHANGED <<vars, rows>>

SleepOrQuit == ~ProbeDue /\ (Quit \/ \E d \in Sleeps : Sleep(d))

(* Processes that end by themselves are those of CrossoverDaemon.          *)
ReportInit == Init /\ rows = <<>> /\ lastProbe = 0

ReportNext ==
  \/ \E d \in Downtimes : LaunchMain(d)
  \/ LogRow
  \/ Probe
  \/ /\ \/ SleepOrQuit \/ StopAll
        \/ \E reading \in Readings : Cycle(reading)
        \/ StopIncumbent \/ StartChallenger \/ Raise
        \/ \E m \in Modes : Die(m) \/ OrphanDies(m)
        \/ Kill
     /\ UNCHANGED <<rows, lastProbe>>

ReportSpec == ReportInit /\ [][ReportNext]_reportVars

----
\* report.py, daily_revenue

\* Mutant: however long the daemon was down.
SecondsUncapped(i) == AtLeastZero(rows[i + 1].time - rows[i].time)

(* How long the rates of row i held: until the next row, at most MaxGap.   *)
Seconds(i) ==
  LET gap == AtLeastZero(rows[i + 1].time - rows[i].time)
  IN  IF gap < MaxGap THEN gap ELSE MaxGap

Counted == {i \in 1..(Len(rows) - 1) : Seconds(i) > 0}

DayOf(i) == rows[i].time \div Day

EarnedBy(m, i) == (rows[i].offer[m] * Seconds(i)) \div Day

Bucket(day) ==
  LET those == {i \in Counted : DayOf(i) = day}
  IN  [daemon     |-> SumFunction([i \in those |-> EarnedBy(rows[i].after, i)]),
       miningOnly |-> SumFunction([i \in those |-> EarnedBy("mining", i)]),
       seconds    |-> SumFunction([i \in those |-> Seconds(i)])]

daily_revenue == [day \in {DayOf(i) : i \in Counted} |-> Bucket(day)]

(* What render_markdown adds up.                                           *)
Totals ==
  LET days == daily_revenue
  IN  [field \in {"daemon", "miningOnly", "seconds"} |->
         SumFunction([day \in DOMAIN days |-> days[day][field]])]

----
\* What the report is good for

(* Switching takes credit only for seconds in which both modes were priced *)
(* by healthy feeds and the GPU was given to inference: the unpriced rows, *)
(* in which mining alone is booked at a loss, cancel.  The total over the  *)
(* days is the total over those rows, whatever restarts and lost rows      *)
(* there were.                                                             *)
AdvantageIsPriced ==
  LET gained == {i \in Counted : rows[i].ok /\ rows[i].after = "inference"}
  IN  Totals["daemon"] - Totals["miningOnly"] =
        SumFunction([i \in gained |-> EarnedBy("inference", i) - EarnedBy("mining", i)])

Span(times) == IF times = {} THEN 0 ELSE Max(times) - Min(times)

TimesOf(run) == {rows[i].time : i \in {k \in 1..Len(rows) : rows[k].run = run}}

(* The rows of one launch, first to last: when it was certainly up.        *)
Uptime(run) == Span(TimesOf(run))

(* "daemon downtime between decisions earns nothing" (report.py:21) but    *)
(* MaxGap: the hours of the report are hours between two decisions of one  *)
(* launch, and at most MaxGap for each time the daemon was down.           *)
HoursWereRun ==
  Totals["seconds"] <=
    SumFunction([run \in 1..runs |-> Uptime(run)]) + MaxGap * AtLeastZero(runs - 1)

====
