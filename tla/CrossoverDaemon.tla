---- MODULE CrossoverDaemon ----
(***************************************************************************)
(* The crossover daemon (tools/crossover-daemon/daemon.py): every cycle it *)
(* compares what mining and inference would net, decides with hysteresis   *)
(* which of them the GPU runs, stops one process and starts the other, and *)
(* logs the decision.                                                      *)
(*                                                                         *)
(* The engine's state lives in memory: a daemon that is launched again     *)
(* begins in mining mode and knows of no earlier switch.  Stopping a       *)
(* process succeeds (terminate, then kill); starting one may raise, and so *)
(* may the log.  A daemon may be killed at any step: the processes it has  *)
(* started go on without it, and no daemon knows of them any more.  The    *)
(* economics of a cycle are an offer: the net of each mode, negative when  *)
(* power costs more than it earns.                                         *)
(***************************************************************************)
EXTENDS Integers, Sequences

CONSTANTS
  Offers,         \* nets per mode that a cycle may gather from healthy feeds
  MarginPercent, Floor, Consecutive, MinDwell,    \* "switching" of the configuration
  Commands,       \* the modes with a command to start
  Intervals,      \* how long a daemon may sleep, or be down
  MaxCycles,      \* bound: decisions
  MaxRuns         \* bound: launches of the daemon

Modes == {"mining", "inference"}

ASSUME CrossoverAssumption ==
  /\ Offers \subseteq [Modes -> Int]
  /\ MarginPercent \in Nat /\ Floor \in Nat /\ MinDwell \in Nat
  /\ Consecutive \in Nat \ {0}
  /\ Commands \subseteq Modes
  /\ Intervals \subseteq Nat

VARIABLES
  mode, streak, lastSwitch,   \* CrossoverEngine
  now,                        \* the clock, as read at the start of a cycle
  process,                    \* the process of each mode, as its ManagedProcess holds it
  orphans,                    \* per mode, the running processes of killed daemons
  pc,                         \* where main and run_cycle are
  runs,                       \* launches so far
  kills,                      \* history: how often a daemon was killed
  decisions                   \* history: what the engine decided, and on what

engine == <<mode, streak, lastSwitch>>
left == <<orphans, kills>>
vars == <<engine, now, process, left, pc, runs, decisions>>

NoTime == -1

Init ==
  /\ mode = "mining" /\ streak = 0 /\ lastSwitch = NoTime
  /\ now = 0
  /\ process = [m \in Modes |-> "off"]
  /\ orphans = [m \in Modes |-> 0] /\ kills = 0
  /\ pc = "down"
  /\ runs = 0
  /\ decisions = <<>>

Challenger(m) == IF m = "mining" THEN "inference" ELSE "mining"

Magnitude(n) == IF n < 0 THEN -n ELSE n

RequiredGain(net) ==
  LET margin == (Magnitude(net) * MarginPercent) \div 100
  IN  IF margin >= Floor THEN margin ELSE Floor

\* Mutant: the challenger need not win by a margin.
BeatsWithoutMargin(m, offer) == offer[Challenger(m)] >= offer[m]

(* The challenger of m beats it by the required gain.                      *)
Beats(m, offer) == offer[Challenger(m)] >= offer[m] + RequiredGain(offer[m])

(* ManagedProcess.start: without a command, nothing.                       *)
Started(m) == IF m \in Commands THEN [process EXCEPT ![m] = "running"] ELSE process

(* ManagedProcess.stop: terminate, and kill after ten seconds.             *)
Stopped(m) == [process EXCEPT ![m] = "off"]

----
\* main

Launch(d) ==
  /\ pc = "down" /\ runs < MaxRuns
  /\ now' = now + d
  /\ mode' = "mining" /\ streak' = 0 /\ lastSwitch' = NoTime
  /\ process' = Started("mining")
  /\ pc' = "decide"
  /\ runs' = runs + 1
  /\ UNCHANGED <<left, decisions>>

Sleep(d) ==
  /\ pc = "sleep"
  /\ now' = now + d
  /\ pc' = "decide"
  /\ UNCHANGED <<engine, process, left, runs, decisions>>

(* --once, SIGINT or SIGTERM *)
Quit ==
  /\ pc = "sleep"
  /\ pc' = "exit"
  /\ UNCHANGED <<engine, now, process, left, runs, decisions>>

\* Mutant: only the miner is stopped.
StopMiner ==
  /\ pc = "exit"
  /\ process' = Stopped("mining")
  /\ pc' = "down"
  /\ UNCHANGED <<engine, now, left, runs, decisions>>

(* finally *)
StopAll ==
  /\ pc = "exit"
  /\ process' = [m \in Modes |-> "off"]
  /\ pc' = "down"
  /\ UNCHANGED <<engine, now, left, runs, decisions>>

----
\* CrossoverEngine.evaluate

Decide(after, offer, ok) ==
  /\ pc = "decide" /\ Len(decisions) < MaxCycles
  /\ mode' = after
  /\ decisions' = Append(decisions, [run |-> runs, time |-> now, before |-> mode,
                                     after |-> after, offer |-> offer, ok |-> ok])
  /\ pc' = IF after # mode THEN "stop" ELSE "log"
  /\ UNCHANGED <<now, process, left, runs>>

Switched == streak' = 0 /\ lastSwitch' = now

\* Mutant: a feed failure in mining mode leaves the streak.
FeedFailureKeepStreak(offer) ==
  /\ Decide("mining", offer, FALSE)
  /\ IF mode # "mining" THEN Switched ELSE UNCHANGED <<streak, lastSwitch>>

\* Mutant: a feed failure keeps the mode.
FeedFailureStays(offer) ==
  /\ Decide(mode, offer, FALSE)
  /\ streak' = 0 /\ UNCHANGED lastSwitch

(* Mining cannot be priced: whatever the offer, mining it is.              *)
FeedFailure(offer) ==
  /\ Decide("mining", offer, FALSE)
  /\ IF mode # "mining" THEN Switched ELSE streak' = 0 /\ UNCHANGED lastSwitch

IncumbentHolds(offer) ==
  /\ ~Beats(mode, offer)
  /\ Decide(mode, offer, TRUE)
  /\ streak' = 0
  /\ UNCHANGED lastSwitch

DwellElapsed == lastSwitch = NoTime \/ now - lastSwitch >= MinDwell

\* Mutant: a challenger that has to wait for the dwell time starts over.
ChallengerStartsOver(offer) ==
  /\ Beats(mode, offer)
  /\ streak + 1 < Consecutive \/ ~DwellElapsed
  /\ Decide(mode, offer, TRUE)
  /\ streak' = IF streak + 1 < Consecutive THEN streak + 1 ELSE 0
  /\ UNCHANGED lastSwitch

ChallengerWaits(offer) ==
  /\ Beats(mode, offer)
  /\ streak + 1 < Consecutive \/ ~DwellElapsed
  /\ Decide(mode, offer, TRUE)
  /\ streak' = streak + 1
  /\ UNCHANGED lastSwitch

\* Mutant: the dwell time is not looked at.
SwitchAtOnce(offer) ==
  /\ Beats(mode, offer)
  /\ streak + 1 >= Consecutive
  /\ Decide(Challenger(mode), offer, TRUE)
  /\ Switched

Switch(offer) ==
  /\ Beats(mode, offer)
  /\ streak + 1 >= Consecutive /\ DwellElapsed
  /\ Decide(Challenger(mode), offer, TRUE)
  /\ Switched

----
\* run_cycle, after the decision

StopIncumbent ==
  /\ pc = "stop"
  /\ process' = Stopped(Challenger(mode))
  /\ pc' = "start"
  /\ UNCHANGED <<engine, now, left, runs, decisions>>

StartChallenger ==
  /\ pc = "start"
  /\ process' = Started(mode)
  /\ pc' = "log"
  /\ UNCHANGED <<engine, now, left, runs, decisions>>

(* record_decision and record_sample *)
Log ==
  /\ pc = "log"
  /\ pc' = "sleep"
  /\ UNCHANGED <<engine, now, process, left, runs, decisions>>

(* The command cannot be run, or the database is locked.                   *)
Raise ==
  /\ pc \in {"start", "log"}
  /\ pc' = "exit"
  /\ UNCHANGED <<engine, now, process, left, runs, decisions>>

(* A process ends by itself; the daemon looks at it only to start or stop  *)
(* it.                                                                     *)
Die(m) ==
  /\ process[m] = "running"
  /\ process' = [process EXCEPT ![m] = "dead"]
  /\ UNCHANGED <<engine, now, left, pc, runs, decisions>>

Alive(m) == IF process[m] = "running" THEN 1 ELSE 0

(* SIGKILL, or no memory left: finally is not run, and what Popen started  *)
(* goes on.                                                                *)
Kill ==
  /\ pc # "down"
  /\ orphans' = [m \in Modes |-> orphans[m] + Alive(m)]
  /\ kills' = kills + 1
  /\ process' = [m \in Modes |-> "off"]
  /\ pc' = "down"
  /\ UNCHANGED <<engine, now, runs, decisions>>

OrphanDies(m) ==
  /\ orphans[m] > 0
  /\ orphans' = [orphans EXCEPT ![m] = @ - 1]
  /\ UNCHANGED <<engine, now, process, kills, pc, runs, decisions>>

----

Evaluate(offer) ==
  FeedFailure(offer) \/ IncumbentHolds(offer) \/ ChallengerWaits(offer) \/ Switch(offer)

Next ==
  \/ \E d \in Intervals : Launch(d) \/ Sleep(d)
  \/ Quit \/ StopAll
  \/ \E offer \in Offers : Evaluate(offer)
  \/ StopIncumbent \/ StartChallenger \/ Log \/ Raise
  \/ \E m \in Modes : Die(m) \/ OrphanDies(m)
  \/ Kill

Spec == Init /\ [][Next]_vars

----
\* Types

Decision == [run : Nat, time : Nat, before : Modes, after : Modes,
             offer : [Modes -> Int], ok : BOOLEAN]

(* The daemon's state keeps its type, and its clock is never behind a      *)
(* decision or the last switch.                                            *)
TypeOK ==
  /\ mode \in Modes /\ streak \in Nat /\ now \in Nat /\ runs \in Nat
  /\ lastSwitch \in {NoTime} \cup (0..now)
  /\ process \in [Modes -> {"off", "running", "dead"}]
  /\ orphans \in [Modes -> Nat] /\ kills \in Nat
  /\ pc \in {"down", "decide", "stop", "start", "log", "sleep", "exit"}
  /\ decisions \in Seq(Decision)
  /\ \A i \in 1..Len(decisions) : decisions[i].time <= now

----
\* Safety

IsSwitch(i) == decisions[i].before # decisions[i].after

IsVoluntary(i) == IsSwitch(i) /\ decisions[i].ok

(* The challenger of the incumbent of decision i has won decisions first   *)
(* to i, one after the other: no failure, no switch, no restart between.   *)
WonSince(first, i) ==
  /\ first >= 1
  /\ \A k \in first..i :
       /\ decisions[k].ok /\ decisions[k].run = decisions[i].run
       /\ decisions[k].before = decisions[i].before
       /\ Beats(decisions[i].before, decisions[k].offer)
       /\ k < i => ~IsSwitch(k)

(* "for consecutive_decisions evaluations in a row" (daemon.py:127-129):   *)
(* no switch but a feed failure comes without that many wins, whatever     *)
(* failures, blocked switches and restarts there were before.              *)
EarnedSwitches ==
  \A i \in 1..Len(decisions) : IsVoluntary(i) => WonSince(i - Consecutive + 1, i)

(* "no switch happens within min_dwell_seconds of the last one"            *)
(* (daemon.py:130), by the engine's choice and as long as the daemon runs: *)
(* a forced fallback to mining counts, too.                                *)
DwellRespected ==
  \A i, k \in 1..Len(decisions) :
    i < k /\ IsSwitch(i) /\ IsVoluntary(k) /\ decisions[i].run = decisions[k].run
      => decisions[k].time - decisions[i].time >= MinDwell

(* A challenger that has earned the switch gets it at once: dwell time     *)
(* delays it, but does not make it start over.                             *)
PromptSwitches ==
  \A k \in 1..Len(decisions) :
    /\ WonSince(k - Consecutive + 1, k)
    /\ \A i \in 1..(k - 1) :
         IsSwitch(i) /\ decisions[i].run = decisions[k].run
           => decisions[k].time - decisions[i].time >= MinDwell
    => IsSwitch(k)

(* "switches with hysteresis so it never flaps" (tools/crossover-daemon/   *)
(* README.md:7): what made the daemon switch does not make it switch back. *)
NeverFlaps ==
  \A i, k \in 1..Len(decisions) :
    /\ i < k /\ IsVoluntary(i) /\ IsVoluntary(k)
    /\ decisions[i].before = decisions[k].after
    => decisions[i].offer # decisions[k].offer

OnTheGpu == Alive("mining") + Alive("inference") + orphans["mining"] + orphans["inference"]

(* "Auto-switches one GPU between mining Quai and serving open-model       *)
(* inference" (tools/crossover-daemon/README.md:3).  The miner and the     *)
(* inference backend share the GPU, and two miners do, only with what      *)
(* killed daemons have left: a daemon runs one process at a time, leaves   *)
(* none when it ends, and one at most when it is killed, at whatever step. *)
(* Between cycles the process of the mode has been started, though it may  *)
(* have died, and the other one is stopped.                                *)
ProcessMatchesMode ==
  /\ OnTheGpu <= kills + (IF pc = "down" THEN 0 ELSE 1)
  /\ pc = "sleep" => /\ mode \in Commands => process[mode] # "off"
                     /\ process[Challenger(mode)] = "off"

====
