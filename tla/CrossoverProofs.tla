---- MODULE CrossoverProofs ----
(***************************************************************************)
(* Theorems about CrossoverDaemon: what the hysteresis guarantees for any  *)
(* offers, margin, number of decisions, dwell time and clock; and that the *)
(* daemon of RevenueReport has these properties, too.                      *)
(***************************************************************************)
EXTENDS RevenueReport, SumLemmas, TLAPS

(* A gain is a natural number, and at least the floor.                     *)
LEMMA GainBounds ==
  ASSUME NEW net \in Int
  PROVE  RequiredGain(net) \in Nat /\ RequiredGain(net) >= Floor
<1>1. Magnitude(net) \in Nat
  BY DEF Magnitude
<1>2. PICK v : v = Magnitude(net) * MarginPercent
  OBVIOUS
<1>3. v \in Nat
  BY <1>1, <1>2, CrossoverAssumption
<1>4. v \div 100 \in Nat
  BY <1>3
<1> QED
  BY <1>2, <1>4, CrossoverAssumption DEF RequiredGain

(* Neither mode beats the other if the other beats it.                     *)
LEMMA BeatsAsymmetric ==
  ASSUME Floor > 0, NEW m \in Modes, NEW offer \in [Modes -> Int], Beats(m, offer)
  PROVE  ~Beats(Challenger(m), offer)
<1>1. Challenger(m) \in Modes /\ Challenger(Challenger(m)) = m
  BY DEF Challenger, Modes
<1>2. offer[m] \in Int /\ offer[Challenger(m)] \in Int
  BY <1>1
<1>3. PICK g \in Nat : g = RequiredGain(offer[m]) /\ g >= Floor
  BY <1>2, GainBounds
<1>4. PICK h \in Nat : h = RequiredGain(offer[Challenger(m)]) /\ h >= Floor
  BY <1>2, GainBounds
<1> QED
  BY <1>1, <1>2, <1>3, <1>4, CrossoverAssumption DEF Beats

----
\* Types

(* What a decision appends, seen decision by decision.                     *)
LEMMA DecideEffect ==
  ASSUME TypeOK, NEW after \in Modes, NEW offer \in Offers, NEW ok \in BOOLEAN,
         Decide(after, offer, ok)
  PROVE  LET n == Len(decisions)
         IN  /\ n \in Nat /\ Len(decisions') = n + 1
             /\ decisions' \in Seq(Decision)
             /\ \A i \in 1..n : decisions'[i] = decisions[i]
             /\ decisions'[n + 1] = [run |-> runs, time |-> now, before |-> mode,
                                     after |-> after, offer |-> offer, ok |-> ok]
<1> DEFINE d == [run |-> runs, time |-> now, before |-> mode, after |-> after,
                 offer |-> offer, ok |-> ok]
<1>1. d \in Decision
  BY CrossoverAssumption DEF TypeOK, Decision
<1>2. decisions' = Append(decisions, d)
  BY DEF Decide
<1>3. decisions \in Seq(Decision)
  BY DEF TypeOK
<1> HIDE DEF d
<1> QED
  <2>1. /\ Len(decisions) \in Nat /\ Len(decisions') = Len(decisions) + 1
        /\ decisions' \in Seq(Decision)
        /\ \A i \in 1..Len(decisions) : decisions'[i] = decisions[i]
        /\ decisions'[Len(decisions) + 1] = d
    BY <1>1, <1>2, <1>3
  <2> QED
    BY <2>1 DEF d

(* Whatever evaluate decides, one decision is appended, and mode, streak   *)
(* and time of the last switch change in one of these ways.                *)
LEMMA EvaluateCases ==
  ASSUME TypeOK, NEW offer \in Offers, Evaluate(offer)
  PROVE  \E after \in Modes, ok \in BOOLEAN :
           /\ Decide(after, offer, ok)
           /\ \/ /\ after # mode /\ streak' = 0 /\ lastSwitch' = now
                 /\ ok => Beats(mode, offer) /\ streak + 1 >= Consecutive /\ DwellElapsed
              \/ /\ after = mode /\ streak' = 0 /\ lastSwitch' = lastSwitch
              \/ /\ after = mode /\ streak' = streak + 1 /\ lastSwitch' = lastSwitch
                 /\ ok /\ Beats(mode, offer)
<1>0. mode \in Modes /\ Challenger(mode) \in Modes /\ Challenger(mode) # mode
      /\ "mining" \in Modes
  BY DEF TypeOK, Challenger, Modes
<1>1. CASE FeedFailure(offer)
  <2>1. CASE mode # "mining"
    <3>1. /\ Decide("mining", offer, FALSE) /\ "mining" # mode
          /\ streak' = 0 /\ lastSwitch' = now
      BY <1>1, <2>1 DEF FeedFailure, Switched
    <3> QED
      BY <1>0, <3>1
  <2>2. CASE mode = "mining"
    <3>1. Decide("mining", offer, FALSE) /\ streak' = 0 /\ lastSwitch' = lastSwitch
      BY <1>1, <2>2 DEF FeedFailure
    <3> QED
      BY <1>0, <2>2, <3>1
  <2> QED
    BY <2>1, <2>2
<1>2. CASE IncumbentHolds(offer)
  <2>1. Decide(mode, offer, TRUE) /\ streak' = 0 /\ lastSwitch' = lastSwitch
    BY <1>2 DEF IncumbentHolds
  <2> QED
    BY <1>0, <2>1
<1>3. CASE ChallengerWaits(offer)
  <2>1. /\ Decide(mode, offer, TRUE) /\ streak' = streak + 1 /\ lastSwitch' = lastSwitch
        /\ Beats(mode, offer)
    BY <1>3 DEF ChallengerWaits
  <2> QED
    BY <1>0, <2>1
<1>4. CASE Switch(offer)
  <2>1. /\ Decide(Challenger(mode), offer, TRUE) /\ streak' = 0 /\ lastSwitch' = now
        /\ Beats(mode, offer) /\ streak + 1 >= Consecutive /\ DwellElapsed
    BY <1>4 DEF Switch, Switched
  <2> QED
    BY <1>0, <2>1
<1> QED
  BY <1>1, <1>2, <1>3, <1>4 DEF Evaluate

(* The daemon's state keeps its type.                                      *)
THEOREM TypeCorrect == Spec => []TypeOK
<1>1. Init => TypeOK
  <2> SUFFICES ASSUME Init PROVE TypeOK
    OBVIOUS
  <2>1. decisions \in Seq(Decision) /\ Len(decisions) = 0
    BY DEF Init
  <2> QED
    BY <2>1 DEF Init, TypeOK, Modes, NoTime
<1>2. TypeOK /\ [Next]_vars => TypeOK'
  <2> SUFFICES ASSUME TypeOK, [Next]_vars PROVE TypeOK'
    OBVIOUS
  <2>0. \A m \in Modes : Started(m) \in [Modes -> {"off", "running", "dead"}]
    BY DEF Started, TypeOK
  <2>1. ASSUME NEW d \in Intervals, now' = now + d, UNCHANGED decisions
        PROVE  /\ now' \in Nat /\ now <= now'
               /\ \A i \in 1..Len(decisions') : decisions'[i].time <= now'
    <3>1. now \in Nat /\ d \in Nat
      BY CrossoverAssumption DEF TypeOK
    <3>2. now' \in Nat /\ now <= now'
      BY <2>1, <3>1
    <3>3. ASSUME NEW i \in 1..Len(decisions)
          PROVE  decisions[i].time \in Nat /\ decisions[i].time <= now
      <4>1. decisions \in Seq(Decision) /\ decisions[i].time <= now
        BY DEF TypeOK
      <4>2. decisions[i] \in Decision
        BY <4>1
      <4> QED
        BY <4>1, <4>2 DEF Decision
    <3>4. \A i \in 1..Len(decisions) : decisions[i].time <= now'
      BY <3>1, <3>2, <3>3
    <3> QED
      BY <2>1, <3>2, <3>4
  <2>2. ASSUME NEW d \in Intervals, Launch(d) \/ Sleep(d) PROVE TypeOK'
    <3>1. now' = now + d /\ UNCHANGED decisions
      BY <2>2 DEF Launch, Sleep
    <3>2. /\ now' \in Nat /\ now <= now'
          /\ \A i \in 1..Len(decisions') : decisions'[i].time <= now'
      BY <2>1, <3>1
    <3>3. mode' \in Modes /\ streak' \in Nat /\ runs' \in Nat
      BY <2>2 DEF Launch, Sleep, engine, TypeOK, Modes
    <3>4. lastSwitch' \in {NoTime} \cup (0..now')
      <4>1. lastSwitch' = NoTime \/ lastSwitch' = lastSwitch
        BY <2>2 DEF Launch, Sleep, engine
      <4>2. now \in Nat /\ lastSwitch \in {NoTime} \cup (0..now)
        BY DEF TypeOK
      <4> QED
        BY <3>2, <4>1, <4>2
    <3>5. process' \in [Modes -> {"off", "running", "dead"}]
      <4>1. process' = Started("mining") \/ process' = process
        BY <2>2 DEF Launch, Sleep
      <4> QED
        BY <2>0, <4>1 DEF TypeOK, Modes
    <3>6. /\ pc' = "decide" /\ decisions' \in Seq(Decision)
          /\ orphans' \in [Modes -> Nat] /\ kills' \in Nat
      BY <2>2 DEF Launch, Sleep, TypeOK, left
    <3> QED
      BY <3>2, <3>3, <3>4, <3>5, <3>6 DEF TypeOK
  <2>3. ASSUME Quit \/ StopAll \/ StopIncumbent \/ StartChallenger \/ Log \/ Raise
        PROVE  TypeOK'
    <3>1. UNCHANGED <<mode, streak, lastSwitch, now, runs, decisions, orphans, kills>>
      BY <2>3 DEF Quit, StopAll, StopIncumbent, Stopped, StartChallenger, Log, Raise, engine, left
    <3>2. process' \in [Modes -> {"off", "running", "dead"}]
      BY <2>0, <2>3
         DEF Quit, StopAll, StopIncumbent, Stopped, StartChallenger, Log, Raise, engine, TypeOK
    <3>3. pc' \in {"down", "decide", "stop", "start", "log", "sleep", "exit"}
      BY <2>3 DEF Quit, StopAll, StopIncumbent, Stopped, StartChallenger, Log, Raise
    <3> QED
      BY <3>1, <3>2, <3>3 DEF TypeOK
  <2>4. ASSUME Kill \/ \E m \in Modes : OrphanDies(m) PROVE TypeOK'
    <3>1. UNCHANGED <<mode, streak, lastSwitch, now, runs, decisions>>
      BY <2>4 DEF Kill, OrphanDies, engine
    <3>2. orphans' \in [Modes -> Nat] /\ kills' \in Nat
      <4>1. \A m \in Modes : Alive(m) \in Nat
        BY DEF Alive
      <4>2. CASE Kill
        BY <4>1, <4>2 DEF Kill, TypeOK
      <4>3. ASSUME NEW m \in Modes, OrphanDies(m) PROVE orphans' \in [Modes -> Nat] /\ kills' \in Nat
        BY <4>3 DEF OrphanDies, TypeOK
      <4> QED
        BY <2>4, <4>2, <4>3
    <3>3. process' \in [Modes -> {"off", "running", "dead"}]
          /\ pc' \in {"down", "decide", "stop", "start", "log", "sleep", "exit"}
      BY <2>4 DEF Kill, OrphanDies, TypeOK
    <3> QED
      BY <3>1, <3>2, <3>3 DEF TypeOK
  <2>5. ASSUME NEW offer \in Offers, Evaluate(offer) PROVE TypeOK'
    <3>1. PICK after \in Modes, ok \in BOOLEAN :
            /\ Decide(after, offer, ok)
            /\ streak' \in {0, streak + 1} /\ lastSwitch' \in {now, lastSwitch}
      BY <2>5, EvaluateCases
    <3> DEFINE n == Len(decisions)
    <3>2. /\ n \in Nat /\ Len(decisions') = n + 1 /\ decisions' \in Seq(Decision)
          /\ \A i \in 1..n : decisions'[i] = decisions[i]
          /\ decisions'[n + 1].time = now
      <4>1. /\ n \in Nat /\ Len(decisions') = n + 1 /\ decisions' \in Seq(Decision)
            /\ \A i \in 1..n : decisions'[i] = decisions[i]
        BY <3>1, DecideEffect
      <4>2. decisions'[n + 1] = [run |-> runs, time |-> now, before |-> mode,
                                 after |-> after, offer |-> offer, ok |-> ok]
        BY <3>1, DecideEffect
      <4> HIDE DEF n
      <4> QED
        BY <4>1, <4>2
    <3> HIDE DEF n
    <3>3. \A i \in 1..Len(decisions') : decisions'[i].time <= now
      <4>1. now \in Nat /\ \A i \in 1..n : decisions[i].time <= now
        BY DEF TypeOK, n
      <4> QED
        BY <3>2, <4>1
    <3>4. /\ mode' \in Modes /\ UNCHANGED <<now, process, orphans, kills, runs>>
          /\ pc' \in {"stop", "log"}
      BY <3>1 DEF Decide, left
    <3>5. streak' \in Nat /\ lastSwitch' \in {NoTime} \cup (0..now)
      BY <3>1 DEF TypeOK, NoTime
    <3> QED
      BY <3>2, <3>3, <3>4, <3>5 DEF TypeOK
  <2>6. ASSUME NEW m \in Modes, Die(m) PROVE TypeOK'
    BY <2>6 DEF Die, left, engine, TypeOK
  <2>7. ASSUME UNCHANGED vars PROVE TypeOK'
    BY <2>7 DEF vars, left, engine, TypeOK
  <2> QED
    BY <2>2, <2>3, <2>4, <2>5, <2>6, <2>7 DEF Next
<1> QED
  BY <1>1, <1>2, PTL DEF Spec

----
\* Hysteresis

(* No decision is of a run to come.                                        *)
RunsPast == \A i \in 1..Len(decisions) : decisions[i].run <= runs

(* The last streak decisions are wins of the challenger of the mode.       *)
StreakWon ==
  /\ streak <= Len(decisions)
  /\ \A k \in 1..Len(decisions) :
       k > Len(decisions) - streak =>
         /\ decisions[k].ok /\ decisions[k].run = runs /\ decisions[k].before = mode
         /\ Beats(mode, decisions[k].offer) /\ ~IsSwitch(k)

(* The engine remembers the latest switch of its run.                      *)
LastSwitchKnown ==
  \A i \in 1..Len(decisions) :
    IsSwitch(i) /\ decisions[i].run = runs =>
      lastSwitch # NoTime /\ decisions[i].time <= lastSwitch

HysteresisInv ==
  RunsPast /\ StreakWon /\ LastSwitchKnown /\ EarnedSwitches /\ DwellRespected

(* Steps that decide nothing keep the invariant: the engine as it is, or   *)
(* as new as a run of which there is no decision yet.                      *)
LEMMA UndecidedSteps ==
  ASSUME TypeOK, HysteresisInv, UNCHANGED decisions,
         \/ UNCHANGED <<mode, streak, lastSwitch, runs>>
         \/ streak' = 0 /\ runs' = runs + 1
  PROVE  HysteresisInv'
<1>0. /\ Len(decisions) \in Nat /\ streak \in Nat /\ runs \in Nat
      /\ \A i \in 1..Len(decisions) : decisions[i].run \in Nat
  <2>1. ASSUME NEW i \in 1..Len(decisions) PROVE decisions[i].run \in Nat
    <3>1. decisions[i] \in Decision
      BY DEF TypeOK
    <3> QED
      BY <3>1 DEF Decision
  <2> QED
    BY <2>1 DEF TypeOK
<1>1. EarnedSwitches' /\ DwellRespected'
  BY DEF HysteresisInv, EarnedSwitches, DwellRespected, WonSince, IsVoluntary, IsSwitch
<1>2. CASE UNCHANGED <<mode, streak, lastSwitch, runs>>
  BY <1>1, <1>2 DEF HysteresisInv, RunsPast, StreakWon, LastSwitchKnown, IsSwitch
<1>3. CASE streak' = 0 /\ runs' = runs + 1
  <2>1. RunsPast'
    BY <1>0, <1>3 DEF HysteresisInv, RunsPast
  <2>2. StreakWon'
    BY <1>0, <1>3 DEF StreakWon
  <2>3. LastSwitchKnown'
    <3>1. \A i \in 1..Len(decisions) : decisions[i].run # runs'
      BY <1>0, <1>3 DEF HysteresisInv, RunsPast
    <3> QED
      BY <3>1 DEF LastSwitchKnown
  <2> QED
    BY <1>1, <2>1, <2>2, <2>3 DEF HysteresisInv
<1> QED
  BY <1>2, <1>3

(* A decision keeps it.                                                    *)
LEMMA DecidedSteps ==
  ASSUME TypeOK, HysteresisInv, NEW offer \in Offers, Evaluate(offer)
  PROVE  HysteresisInv'
<1>1. PICK after \in Modes, ok \in BOOLEAN :
        /\ Decide(after, offer, ok)
        /\ \/ /\ after # mode /\ streak' = 0 /\ lastSwitch' = now
              /\ ok => Beats(mode, offer) /\ streak + 1 >= Consecutive /\ DwellElapsed
           \/ /\ after = mode /\ streak' = 0 /\ lastSwitch' = lastSwitch
           \/ /\ after = mode /\ streak' = streak + 1 /\ lastSwitch' = lastSwitch
              /\ ok /\ Beats(mode, offer)
  BY EvaluateCases
<1>2. PICK n \in Nat : n = Len(decisions)
  BY DEF TypeOK
<1>3. /\ Len(decisions') = n + 1
      /\ \A i \in 1..n : decisions'[i] = decisions[i]
  BY <1>1, <1>2, DecideEffect
<1>4. decisions'[n + 1] = [run |-> runs, time |-> now, before |-> mode, after |-> after,
                           offer |-> offer, ok |-> ok]
  BY <1>1, <1>2, DecideEffect
<1>5. /\ decisions'[n + 1].run = runs /\ decisions'[n + 1].time = now
      /\ decisions'[n + 1].before = mode /\ decisions'[n + 1].after = after
      /\ decisions'[n + 1].offer = offer /\ decisions'[n + 1].ok = ok
  BY <1>4
<1>6. /\ streak \in Nat /\ now \in Nat /\ runs \in Nat /\ mode \in Modes
      /\ Consecutive \in Nat /\ Consecutive >= 1 /\ MinDwell \in Nat
      /\ lastSwitch \in {NoTime} \cup (0..now)
  BY CrossoverAssumption DEF TypeOK
<1>7. \A i \in 1..n : decisions[i].time \in Nat /\ decisions[i].time <= now
  <2>1. ASSUME NEW i \in 1..n PROVE decisions[i].time \in Nat /\ decisions[i].time <= now
    <3>1. decisions[i] \in Decision /\ decisions[i].time <= now
      BY <1>2 DEF TypeOK
    <3> QED
      BY <3>1 DEF Decision
  <2> QED
    BY <2>1
<1>8. /\ runs' = runs /\ mode' = after
      /\ \A i \in 1..n : IsSwitch(i)' <=> IsSwitch(i)
      /\ \A i \in 1..n : IsVoluntary(i)' <=> IsVoluntary(i)
      /\ IsSwitch(n + 1)' <=> mode # after
      /\ IsVoluntary(n + 1)' <=> mode # after /\ ok
  BY <1>1, <1>3, <1>5 DEF Decide, IsSwitch, IsVoluntary
<1>9. RunsPast'
  BY <1>2, <1>3, <1>5, <1>6, <1>8 DEF HysteresisInv, RunsPast
<1>10. StreakWon'
  <2>1. CASE streak' = 0
    BY <2>1, <1>3 DEF StreakWon
  <2>2. CASE /\ after = mode /\ streak' = streak + 1 /\ ok /\ Beats(mode, offer)
    <3>1. \A k \in 1..n : k > n - streak =>
            /\ decisions[k].ok /\ decisions[k].run = runs /\ decisions[k].before = mode
            /\ Beats(mode, decisions[k].offer) /\ ~IsSwitch(k)
      BY <1>2 DEF HysteresisInv, StreakWon
    <3>2. streak' <= n + 1
      BY <1>2, <1>6, <2>2 DEF HysteresisInv, StreakWon
    <3>3. ASSUME NEW k \in 1..(n + 1), k > n + 1 - streak'
          PROVE  /\ decisions'[k].ok /\ decisions'[k].run = runs' /\ decisions'[k].before = mode'
                 /\ Beats(mode', decisions'[k].offer) /\ ~IsSwitch(k)'
      <4>1. CASE k = n + 1
        BY <4>1, <2>2, <1>5, <1>8
      <4>2. CASE k \in 1..n
        <5>1. k > n - streak
          BY <3>3, <2>2, <1>6
        <5> QED
          BY <4>2, <5>1, <3>1, <1>3, <1>8, <2>2
      <4> QED
        BY <4>1, <4>2
    <3>5. (streak <= Len(decisions))'
      BY <3>2, <1>3
    <3>6. (\A k \in 1..Len(decisions) :
            k > Len(decisions) - streak =>
              /\ decisions[k].ok /\ decisions[k].run = runs /\ decisions[k].before = mode
              /\ Beats(mode, decisions[k].offer) /\ ~IsSwitch(k))'
      <4> SUFFICES ASSUME NEW k \in 1..Len(decisions'), k > Len(decisions') - streak'
                   PROVE  (/\ decisions[k].ok /\ decisions[k].run = runs
                           /\ decisions[k].before = mode
                           /\ Beats(mode, decisions[k].offer) /\ ~IsSwitch(k))'
        OBVIOUS
      <4>0. Len(decisions') = n + 1
        BY <1>3
      <4>1. k \in 1..(n + 1) /\ k > n + 1 - streak'
        BY <4>0, <1>6, <2>2, SMT
      <4>2. /\ decisions'[k].ok /\ decisions'[k].run = runs' /\ decisions'[k].before = mode'
            /\ Beats(mode', decisions'[k].offer) /\ ~IsSwitch(k)'
        BY <4>1, <3>3
      <4>3. Beats(mode, decisions[k].offer)'
        BY <4>2 DEF Beats, Challenger, RequiredGain, Magnitude
      <4>4. (decisions[k].ok)'
        BY <4>2
      <4>5. (decisions[k].run = runs)' /\ (decisions[k].before = mode)'
        BY <4>2
      <4> QED
        BY <4>2, <4>3, <4>4, <4>5, Zenon
    <3> QED
      BY <3>5, <3>6 DEF StreakWon
  <2> QED
    BY <1>1, <2>1, <2>2
<1>11. LastSwitchKnown'
  <2>1. ASSUME NEW i \in 1..(n + 1), IsSwitch(i)', decisions'[i].run = runs'
        PROVE  lastSwitch' # NoTime /\ decisions'[i].time <= lastSwitch'
    <3>1. CASE after # mode
      BY <3>1, <1>1, <1>3, <1>5, <1>6, <1>7, <2>1 DEF NoTime
    <3>2. CASE after = mode
      <4>1. i \in 1..n /\ IsSwitch(i) /\ decisions[i].run = runs
        BY <3>2, <2>1, <1>3, <1>8
      <4> QED
        BY <4>1, <3>2, <1>1, <1>2, <1>3 DEF HysteresisInv, LastSwitchKnown
    <3> QED
      BY <3>1, <3>2
  <2> QED
    BY <2>1, <1>3 DEF LastSwitchKnown
<1>12. EarnedSwitches'
  <2>1. ASSUME NEW i \in 1..(n + 1), IsVoluntary(i)'
        PROVE  WonSince(i - Consecutive + 1, i)'
    <3>1. CASE i \in 1..n
      <4>1. WonSince(i - Consecutive + 1, i)
        BY <3>1, <2>1, <1>2, <1>8 DEF HysteresisInv, EarnedSwitches
      <4>2. \A k \in (i - Consecutive + 1)..i : k \in 1..n
        BY <3>1, <4>1, <1>6 DEF WonSince
      <4> QED
        BY <4>1, <4>2, <3>1, <1>3, <1>8 DEF WonSince, Beats
    <3>2. CASE i = n + 1
      <4>1. after # mode /\ ok /\ Beats(mode, offer) /\ streak + 1 >= Consecutive
        BY <3>2, <2>1, <1>1, <1>8
      <4>2. streak <= n /\ n + 1 - Consecutive + 1 >= 1
        BY <4>1, <1>2, <1>6 DEF HysteresisInv, StreakWon
      <4>3. ASSUME NEW k \in (n + 1 - Consecutive + 1)..n
            PROVE  /\ decisions'[k].ok /\ decisions'[k].run = runs
                   /\ decisions'[k].before = mode /\ Beats(mode, decisions'[k].offer)
                   /\ ~IsSwitch(k)'
        <5>1. k \in 1..n /\ k > n - streak
          BY <4>1, <4>2, <4>3, <1>6
        <5>2. /\ decisions[k].ok /\ decisions[k].run = runs /\ decisions[k].before = mode
              /\ Beats(mode, decisions[k].offer) /\ ~IsSwitch(k)
          BY <5>1, <1>2 DEF HysteresisInv, StreakWon
        <5> QED
          BY <5>1, <5>2, <1>3, <1>8
      <4>4. ASSUME NEW k \in (i - Consecutive + 1)..i
            PROVE  /\ decisions'[k].ok /\ decisions'[k].run = decisions'[i].run
                   /\ decisions'[k].before = decisions'[i].before
                   /\ Beats(decisions'[i].before, decisions'[k].offer)
                   /\ k < i => ~IsSwitch(k)'
        <5>1. CASE k = n + 1
          BY <5>1, <3>2, <4>1, <1>5, <1>6
        <5>2. CASE k \in (n + 1 - Consecutive + 1)..n
          BY <5>2, <3>2, <4>3, <1>5
        <5> QED
          BY <5>1, <5>2, <3>2, <1>6
      <4>5. ASSUME NEW k \in (i - Consecutive + 1)..i
            PROVE  (/\ decisions[k].ok /\ decisions[k].run = decisions[i].run
                    /\ decisions[k].before = decisions[i].before
                    /\ Beats(decisions[i].before, decisions[k].offer)
                    /\ k < i => ~IsSwitch(k))'
        <5>1. /\ decisions'[k].ok /\ decisions'[k].run = decisions'[i].run
              /\ decisions'[k].before = decisions'[i].before
              /\ Beats(decisions'[i].before, decisions'[k].offer)
              /\ k < i => ~IsSwitch(k)'
          BY <4>4
        <5>2. Beats(decisions[i].before, decisions[k].offer)'
          BY <5>1 DEF Beats, Challenger, RequiredGain, Magnitude
        <5>3. (decisions[k].ok)'
          BY <5>1
        <5> QED
          BY <5>1, <5>2, <5>3, Zenon
      <4>6. i - Consecutive + 1 >= 1
        BY <3>2, <4>2, <1>6
      <4> QED
        BY <4>5, <4>6, Zenon DEF WonSince
    <3> QED
      BY <3>1, <3>2
  <2> QED
    BY <2>1, <1>3 DEF EarnedSwitches
<1>13. DwellRespected'
  <2>1. ASSUME NEW i \in 1..(n + 1), NEW k \in 1..(n + 1), i < k, IsSwitch(i)', IsVoluntary(k)',
               decisions'[i].run = decisions'[k].run
        PROVE  decisions'[k].time - decisions'[i].time >= MinDwell
    <3>1. i \in 1..n /\ IsSwitch(i)
      BY <2>1, <1>8
    <3>2. CASE k \in 1..n
      BY <3>1, <3>2, <2>1, <1>2, <1>3, <1>8 DEF HysteresisInv, DwellRespected
    <3>3. CASE k = n + 1
      <4>1. DwellElapsed /\ decisions[i].run = runs
        BY <3>1, <3>3, <2>1, <1>1, <1>3, <1>5, <1>8
      <4>2. lastSwitch # NoTime /\ decisions[i].time <= lastSwitch
        BY <3>1, <4>1, <1>2 DEF HysteresisInv, LastSwitchKnown
      <4>3. now - lastSwitch >= MinDwell
        BY <4>1, <4>2 DEF DwellElapsed
      <4>4. decisions'[k].time = now /\ decisions'[i].time = decisions[i].time
        BY <3>1, <3>3, <1>3, <1>5
      <4> QED
        BY <4>2, <4>3, <4>4, <3>1, <1>6, <1>7
    <3> QED
      BY <3>2, <3>3
  <2> QED
    BY <2>1, <1>3 DEF DwellRespected
<1> QED
  BY <1>9, <1>10, <1>11, <1>12, <1>13 DEF HysteresisInv

LEMMA HysteresisHolds == Spec => []HysteresisInv
<1>1. Init => HysteresisInv
  <2> SUFFICES ASSUME Init PROVE HysteresisInv
    OBVIOUS
  <2>1. Len(decisions) = 0 /\ streak = 0
    BY DEF Init
  <2> QED
    BY <2>1 DEF HysteresisInv, RunsPast, StreakWon, LastSwitchKnown, EarnedSwitches,
                DwellRespected
<1>2. TypeOK /\ HysteresisInv /\ [Next]_vars => HysteresisInv'
  <2> SUFFICES ASSUME TypeOK, HysteresisInv, [Next]_vars PROVE HysteresisInv'
    OBVIOUS
  <2>1. ASSUME NEW offer \in Offers, Evaluate(offer) PROVE HysteresisInv'
    BY <2>1, DecidedSteps
  <2>2. ASSUME NEW d \in Intervals, Launch(d) PROVE HysteresisInv'
    BY <2>2, UndecidedSteps DEF Launch
  <2>3. ASSUME \/ \E d \in Intervals : Sleep(d)
               \/ Quit \/ StopAll \/ StopIncumbent \/ StartChallenger \/ Log \/ Raise
               \/ \E m \in Modes : Die(m) \/ OrphanDies(m)
               \/ Kill
               \/ UNCHANGED vars
        PROVE  HysteresisInv'
    <3>1. UNCHANGED decisions /\ UNCHANGED <<mode, streak, lastSwitch, runs>>
      BY <2>3 DEF Sleep, Quit, StopAll, StopIncumbent, Stopped, StartChallenger, Log, Raise, Die,
                  OrphanDies, Kill, vars, engine
    <3> QED
      BY <3>1, UndecidedSteps
  <2> QED
    BY <2>1, <2>2, <2>3 DEF Next
<1> QED
  BY <1>1, <1>2, TypeCorrect, PTL DEF Spec

(* Every switch the engine chooses was won by the challenger in as many    *)
(* consecutive decisions as configured.                                    *)
THEOREM SwitchesAreEarned == Spec => []EarnedSwitches
  BY HysteresisHolds, PTL DEF HysteresisInv

(* A switch the engine chooses comes at least the dwell time after every   *)
(* other switch of the same run, the forced ones included.                 *)
THEOREM DwellAlwaysRespected == Spec => []DwellRespected
  BY HysteresisHolds, PTL DEF HysteresisInv

(* With a positive margin floor, the nets that made the engine switch      *)
(* never make it switch back.                                              *)
THEOREM EngineNeverFlaps == ASSUME Floor > 0 PROVE Spec => []NeverFlaps
<1>1. TypeOK /\ HysteresisInv => NeverFlaps
  <2> SUFFICES ASSUME TypeOK, HysteresisInv,
                      NEW i \in 1..Len(decisions), NEW k \in 1..Len(decisions),
                      IsVoluntary(i), IsVoluntary(k),
                      decisions[i].before = decisions[k].after,
                      decisions[i].offer = decisions[k].offer
               PROVE  FALSE
    BY DEF NeverFlaps
  <2>1. decisions[i] \in Decision /\ decisions[k] \in Decision
    BY DEF TypeOK
  <2>2. ASSUME NEW j \in 1..Len(decisions), IsVoluntary(j)
        PROVE  Beats(decisions[j].before, decisions[j].offer)
    <3>1. WonSince(j - Consecutive + 1, j) /\ Consecutive \in Nat \ {0}
      BY <2>2, CrossoverAssumption DEF HysteresisInv, EarnedSwitches
    <3>2. j \in (j - Consecutive + 1)..j
      BY <3>1
    <3> QED
      BY <3>1, <3>2 DEF WonSince
  <2>3. PICK m \in Modes, offer \in [Modes -> Int] :
          m = decisions[i].before /\ offer = decisions[i].offer
    BY <2>1 DEF Decision
  <2>4. decisions[k].before = Challenger(m)
    <3>1. decisions[k].before \in Modes /\ decisions[k].before # m
      BY <2>1, <2>3 DEF Decision, IsVoluntary, IsSwitch
    <3> QED
      BY <2>3, <3>1 DEF Modes, Challenger
  <2> QED
    BY <2>2, <2>3, <2>4, BeatsAsymmetric
<1> QED
  BY <1>1, TypeCorrect, HysteresisHolds, PTL

----
\* Promptness

(* The streak counts every win since the engine last had to start over.    *)
StreakComplete ==
  \A first \in 1..(Len(decisions) + 1) :
    (\A k \in first..Len(decisions) :
       /\ decisions[k].ok /\ decisions[k].run = runs /\ decisions[k].before = mode
       /\ Beats(mode, decisions[k].offer) /\ ~IsSwitch(k))
    => streak >= Len(decisions) + 1 - first

(* A switch that the engine remembers is one of its run.                   *)
LastSwitchHappened ==
  lastSwitch # NoTime =>
    \E i \in 1..Len(decisions) :
      IsSwitch(i) /\ decisions[i].run = runs /\ decisions[i].time = lastSwitch

PromptInv == RunsPast /\ StreakComplete /\ LastSwitchHappened /\ PromptSwitches

LEMMA PromptWithoutDecision ==
  ASSUME TypeOK, PromptInv, UNCHANGED decisions,
         \/ UNCHANGED <<mode, streak, lastSwitch, runs>>
         \/ streak' = 0 /\ lastSwitch' = NoTime /\ runs' = runs + 1
  PROVE  PromptInv'
<1>1. Len(decisions) \in Nat /\ runs \in Nat
  BY DEF TypeOK
<1>2. \A i \in 1..Len(decisions) : decisions[i].run \in Nat
  <2>1. ASSUME NEW i \in 1..Len(decisions) PROVE decisions[i].run \in Nat
    <3>1. decisions[i] \in Decision
      BY DEF TypeOK
    <3> QED
      BY <3>1 DEF Decision
  <2> QED
    BY <2>1
<1>3. PromptSwitches'
  BY DEF PromptInv, PromptSwitches, WonSince, IsSwitch
<1>4. CASE UNCHANGED <<mode, streak, lastSwitch, runs>>
  BY <1>3, <1>4 DEF PromptInv, RunsPast, StreakComplete, LastSwitchHappened, IsSwitch
<1>5. CASE streak' = 0 /\ lastSwitch' = NoTime /\ runs' = runs + 1
  <2>1. RunsPast'
    BY <1>1, <1>2, <1>5 DEF PromptInv, RunsPast
  <2>2. \A i \in 1..Len(decisions) : decisions[i].run # runs'
    BY <1>1, <1>2, <1>5 DEF PromptInv, RunsPast
  <2>3. StreakComplete'
    <3> SUFFICES ASSUME NEW first \in 1..(Len(decisions) + 1),
                        \A k \in first..Len(decisions) : decisions[k].run = runs'
                 PROVE  0 >= Len(decisions) + 1 - first
      BY <1>5 DEF StreakComplete
    <3>1. first = Len(decisions) + 1
      BY <1>1, <2>2
    <3> QED
      BY <1>1, <3>1
  <2> QED
    BY <1>3, <1>5, <2>1, <2>3 DEF PromptInv, LastSwitchHappened
<1> QED
  BY <1>4, <1>5

(* What evaluate must do when the challenger has earned the switch.        *)
LEMMA EvaluateSwitches ==
  ASSUME TypeOK, NEW offer \in Offers, Evaluate(offer)
  PROVE  \E after \in Modes, ok \in BOOLEAN :
           /\ Decide(after, offer, ok)
           /\ \/ after # mode /\ streak' = 0 /\ lastSwitch' = now
              \/ /\ after = mode /\ streak' = 0 /\ lastSwitch' = lastSwitch
                 /\ ~ok \/ ~Beats(mode, offer)
              \/ /\ after = mode /\ streak' = streak + 1 /\ lastSwitch' = lastSwitch
                 /\ streak + 1 < Consecutive \/ ~DwellElapsed
<1>0. mode \in Modes /\ Challenger(mode) \in Modes /\ Challenger(mode) # mode
      /\ "mining" \in Modes
  BY DEF TypeOK, Challenger, Modes
<1>1. CASE FeedFailure(offer)
  <2>1. Decide("mining", offer, FALSE)
    BY <1>1 DEF FeedFailure
  <2>2. CASE mode # "mining"
    BY <1>0, <1>1, <2>1, <2>2 DEF FeedFailure, Switched
  <2>3. CASE mode = "mining"
    BY <1>0, <1>1, <2>1, <2>3 DEF FeedFailure
  <2> QED
    BY <2>2, <2>3
<1>2. CASE IncumbentHolds(offer)
  BY <1>0, <1>2 DEF IncumbentHolds
<1>3. CASE ChallengerWaits(offer)
  BY <1>0, <1>3 DEF ChallengerWaits
<1>4. CASE Switch(offer)
  BY <1>0, <1>4 DEF Switch, Switched
<1> QED
  BY <1>1, <1>2, <1>3, <1>4 DEF Evaluate

LEMMA PromptDecision ==
  ASSUME TypeOK, PromptInv, NEW offer \in Offers, Evaluate(offer)
  PROVE  PromptInv'
<1>1. PICK after \in Modes, ok \in BOOLEAN :
        /\ Decide(after, offer, ok)
        /\ \/ after # mode /\ streak' = 0 /\ lastSwitch' = now
           \/ /\ after = mode /\ streak' = 0 /\ lastSwitch' = lastSwitch
              /\ ~ok \/ ~Beats(mode, offer)
           \/ /\ after = mode /\ streak' = streak + 1 /\ lastSwitch' = lastSwitch
              /\ streak + 1 < Consecutive \/ ~DwellElapsed
  BY EvaluateSwitches
<1>2. PICK n \in Nat : n = Len(decisions)
  BY DEF TypeOK
<1>3. /\ Len(decisions') = n + 1
      /\ \A i \in 1..n : decisions'[i] = decisions[i]
  BY <1>1, <1>2, DecideEffect
<1>4. decisions'[n + 1] = [run |-> runs, time |-> now, before |-> mode, after |-> after,
                           offer |-> offer, ok |-> ok]
  BY <1>1, <1>2, DecideEffect
<1>5. /\ decisions'[n + 1].run = runs /\ decisions'[n + 1].time = now
      /\ decisions'[n + 1].before = mode /\ decisions'[n + 1].after = after
      /\ decisions'[n + 1].offer = offer /\ decisions'[n + 1].ok = ok
  BY <1>4
<1>6. /\ streak \in Nat /\ now \in Nat /\ runs \in Nat /\ mode \in Modes
      /\ Consecutive \in Nat /\ Consecutive >= 1 /\ MinDwell \in Nat
      /\ lastSwitch \in {NoTime} \cup (0..now)
  BY CrossoverAssumption DEF TypeOK
<1>7. /\ runs' = runs /\ mode' = after
      /\ \A i \in 1..n : IsSwitch(i)' <=> IsSwitch(i)
      /\ IsSwitch(n + 1)' <=> mode # after
  BY <1>1, <1>3, <1>5 DEF Decide, IsSwitch
<1>8. RunsPast'
  BY <1>2, <1>3, <1>5, <1>6, <1>7 DEF PromptInv, RunsPast
<1>9. LastSwitchHappened'
  <2>1. CASE after # mode /\ lastSwitch' = now
    BY <1>3, <1>5, <1>7, <2>1 DEF LastSwitchHappened
  <2>2. CASE lastSwitch' = lastSwitch
    BY <1>2, <1>3, <1>7, <2>2 DEF PromptInv, LastSwitchHappened
  <2> QED
    BY <1>1, <2>1, <2>2
<1>10. StreakComplete'
  <2> SUFFICES ASSUME NEW first \in 1..(n + 2),
                      \A k \in first..(n + 1) :
                        /\ decisions'[k].ok /\ decisions'[k].run = runs
                        /\ decisions'[k].before = after
                        /\ Beats(after, decisions'[k].offer) /\ ~IsSwitch(k)'
               PROVE  streak' >= n + 2 - first
    BY <1>3, <1>7 DEF StreakComplete, Beats
  <2>1. CASE first = n + 2
    BY <1>1, <1>6, <2>1
  <2>2. CASE first \in 1..(n + 1)
    <3>1. n + 1 \in first..(n + 1)
      BY <2>2
    <3>2. ok /\ after = mode /\ Beats(mode, offer)
      BY <1>5, <1>7, <3>1
    <3>3. streak' = streak + 1
      BY <1>1, <3>2
    <3>4. \A k \in first..n :
            /\ decisions[k].ok /\ decisions[k].run = runs /\ decisions[k].before = mode
            /\ Beats(mode, decisions[k].offer) /\ ~IsSwitch(k)
      <4>1. ASSUME NEW k \in first..n
            PROVE  /\ decisions[k].ok /\ decisions[k].run = runs /\ decisions[k].before = mode
                   /\ Beats(mode, decisions[k].offer) /\ ~IsSwitch(k)
        <5>1. k \in first..(n + 1) /\ k \in 1..n
          BY <2>2
        <5> QED
          BY <1>3, <1>7, <3>2, <5>1
      <4> QED
        BY <4>1
    <3>5. streak >= n + 1 - first
      BY <1>2, <2>2, <3>4 DEF PromptInv, StreakComplete
    <3> QED
      BY <1>6, <2>2, <3>3, <3>5
  <2> QED
    BY <2>1, <2>2
<1>11. PromptSwitches'
  <2>1. ASSUME NEW k \in 1..n,
               WonSince(k - Consecutive + 1, k)',
               \A i \in 1..(k - 1) :
                 IsSwitch(i)' /\ decisions'[i].run = decisions'[k].run
                   => decisions'[k].time - decisions'[i].time >= MinDwell
        PROVE  IsSwitch(k)'
    <3>1. \A i \in (k - Consecutive + 1)..k : k - Consecutive + 1 >= 1 => i \in 1..n
      BY <1>6
    <3>2. WonSince(k - Consecutive + 1, k)
      BY <1>3, <1>7, <2>1, <3>1 DEF WonSince, Beats
    <3>3. \A i \in 1..(k - 1) : i \in 1..n
      OBVIOUS
    <3>4. \A i \in 1..(k - 1) :
            IsSwitch(i) /\ decisions[i].run = decisions[k].run
              => decisions[k].time - decisions[i].time >= MinDwell
      BY <1>3, <1>7, <2>1, <3>3
    <3>5. IsSwitch(k)
      BY <1>2, <3>2, <3>4 DEF PromptInv, PromptSwitches
    <3> QED
      BY <1>7, <3>5
  <2>2. ASSUME NEW k, k = n + 1, k - Consecutive + 1 >= 1,
               \A i \in (k - Consecutive + 1)..k :
                 /\ decisions'[i].ok /\ decisions'[i].run = decisions'[k].run
                 /\ decisions'[i].before = decisions'[k].before
                 /\ Beats(decisions'[k].before, decisions'[i].offer)
                 /\ i < k => decisions'[i].before = decisions'[i].after,
               \A i \in 1..(k - 1) :
                 (decisions'[i].before # decisions'[i].after
                    /\ decisions'[i].run = decisions'[k].run)
                   => decisions'[k].time - decisions'[i].time >= MinDwell
        PROVE  after # mode
    <3> SUFFICES ASSUME after = mode PROVE FALSE
      OBVIOUS
    <3> DEFINE first == k - Consecutive + 1
    <3>1. first \in 1..k /\ k \in first..k
      BY <1>6, <2>2
    <3>2. \A i \in first..k :
            /\ decisions'[i].ok /\ decisions'[i].run = runs /\ decisions'[i].before = mode
            /\ Beats(mode, decisions'[i].offer)
            /\ i < k => decisions'[i].before = decisions'[i].after
      BY <1>5, <2>2
    <3>3. ok /\ Beats(mode, offer)
      BY <1>5, <2>2, <3>1, <3>2
    <3> HIDE DEF first
    <3>4. \A i \in first..n :
            /\ decisions[i].ok /\ decisions[i].run = runs /\ decisions[i].before = mode
            /\ Beats(mode, decisions[i].offer) /\ ~IsSwitch(i)
      <4>1. ASSUME NEW i \in first..n
            PROVE  /\ decisions[i].ok /\ decisions[i].run = runs /\ decisions[i].before = mode
                   /\ Beats(mode, decisions[i].offer) /\ ~IsSwitch(i)
        <5>1. i \in first..k /\ i \in 1..n /\ i < k
          BY <2>2, <3>1
        <5> QED
          BY <1>3, <3>2, <5>1 DEF IsSwitch
      <4> QED
        BY <4>1
    <3>5. streak >= n + 1 - first
      BY <1>2, <2>2, <3>1, <3>4 DEF PromptInv, StreakComplete
    <3>6. streak + 1 >= Consecutive
      BY <1>6, <2>2, <3>5 DEF first
    <3>7. ~DwellElapsed
      BY <1>1, <1>6, <3>3, <3>6
    <3>8. lastSwitch # NoTime /\ ~(now - lastSwitch >= MinDwell)
      BY <3>7 DEF DwellElapsed
    <3>9. PICK i \in 1..n : IsSwitch(i) /\ decisions[i].run = runs /\ decisions[i].time = lastSwitch
      BY <1>2, <3>8 DEF PromptInv, LastSwitchHappened
    <3>10. now - lastSwitch >= MinDwell
      BY <1>3, <1>5, <2>2, <3>9 DEF IsSwitch
    <3> QED
      BY <3>8, <3>10
  <2>3. ASSUME NEW k \in 1..Len(decisions'),
               WonSince(k - Consecutive + 1, k)',
               \A i \in 1..(k - 1) :
                 IsSwitch(i)' /\ decisions'[i].run = decisions'[k].run
                   => decisions'[k].time - decisions'[i].time >= MinDwell
        PROVE  IsSwitch(k)'
    <3>1. CASE k \in 1..n
      BY <2>1, <2>3, <3>1
    <3>2. CASE k = n + 1
      <4>2. /\ k - Consecutive + 1 >= 1
            /\ \A i \in (k - Consecutive + 1)..k :
                 /\ decisions'[i].ok /\ decisions'[i].run = decisions'[k].run
                 /\ decisions'[i].before = decisions'[k].before
                 /\ Beats(decisions'[k].before, decisions'[i].offer)
                 /\ i < k => decisions'[i].before = decisions'[i].after
        BY <2>3 DEF WonSince, Beats, Challenger, RequiredGain, Magnitude, IsSwitch
      <4>3. \A i \in 1..(k - 1) :
              (decisions'[i].before # decisions'[i].after
                 /\ decisions'[i].run = decisions'[k].run)
                => decisions'[k].time - decisions'[i].time >= MinDwell
        BY <2>3 DEF IsSwitch
      <4>4. after # mode
        BY <2>2, <3>2, <4>2, <4>3, Zenon
      <4> QED
        BY <1>5, <3>2, <4>4 DEF IsSwitch
    <3> QED
      BY <1>3, <3>1, <3>2
  <2> QED
    BY <2>3 DEF PromptSwitches
<1> QED
  BY <1>8, <1>9, <1>10, <1>11 DEF PromptInv

(* A challenger that won as many decisions in a row as configured, the     *)
(* dwell time after the last switch, is switched to at that decision.      *)
THEOREM SwitchesArePrompt == Spec => []PromptSwitches
<1>1. Init => PromptInv
  <2> SUFFICES ASSUME Init PROVE PromptInv
    OBVIOUS
  <2>1. Len(decisions) = 0 /\ streak = 0 /\ lastSwitch = NoTime
    BY DEF Init
  <2> QED
    BY <2>1 DEF PromptInv, RunsPast, StreakComplete, LastSwitchHappened, PromptSwitches
<1>2. TypeOK /\ PromptInv /\ [Next]_vars => PromptInv'
  <2> SUFFICES ASSUME TypeOK, PromptInv, [Next]_vars PROVE PromptInv'
    OBVIOUS
  <2>1. ASSUME NEW offer \in Offers, Evaluate(offer) PROVE PromptInv'
    BY <2>1, PromptDecision
  <2>2. ASSUME NEW d \in Intervals, Launch(d) PROVE PromptInv'
    BY <2>2, PromptWithoutDecision DEF Launch
  <2>3. ASSUME \/ \E d \in Intervals : Sleep(d)
               \/ Quit \/ StopAll \/ StopIncumbent \/ StartChallenger \/ Log \/ Raise
               \/ \E m \in Modes : Die(m) \/ OrphanDies(m)
               \/ Kill
               \/ UNCHANGED vars
        PROVE  PromptInv'
    <3>1. UNCHANGED decisions /\ UNCHANGED <<mode, streak, lastSwitch, runs>>
      BY <2>3 DEF Sleep, Quit, StopAll, StopIncumbent, Stopped, StartChallenger, Log, Raise, Die,
                  OrphanDies, Kill, vars, engine
    <3> QED
      BY <3>1, PromptWithoutDecision
  <2> QED
    BY <2>1, <2>2, <2>3 DEF Next
<1> QED
  BY <1>1, <1>2, TypeCorrect, PTL DEF Spec, PromptInv

----
\* Processes

(* What run_cycle leaves of the two processes at each  of its steps: the   *)
(* incumbent is stopped before the challenger is started.                  *)
ProcessInv ==
  /\ pc \in {"decide", "log", "sleep", "exit"} => process[Challenger(mode)] = "off"
  /\ pc \in {"decide", "log", "sleep"} /\ mode \in Commands => process[mode] # "off"
  /\ pc = "stop" => process[mode] = "off"
  /\ pc \in {"start", "down"} => \A m \in Modes : process[m] = "off"

(* One process at most is alive that its daemon knows of.                  *)
LEMMA OneAlive ==
  ASSUME TypeOK, ProcessInv
  PROVE  /\ Alive("mining") \in 0..1 /\ Alive("inference") \in 0..1
         /\ Alive("mining") + Alive("inference") <= 1
         /\ pc = "down" => Alive("mining") + Alive("inference") = 0
<1>1. Modes = {mode, Challenger(mode)} /\ Modes = {"mining", "inference"}
  BY DEF TypeOK, Modes, Challenger
<1>2. process[mode] = "off" \/ process[Challenger(mode)] = "off"
  BY <1>1 DEF TypeOK, ProcessInv
<1>3. process["mining"] = "off" \/ process["inference"] = "off"
  BY <1>1, <1>2
<1> QED
  BY <1>1, <1>3 DEF Alive, ProcessInv

Left == orphans["mining"] + orphans["inference"]

(* A step that leaves the engine's modes and the kills alone leaves no     *)
(* process behind.                                                         *)
LEMMA LeftKept ==
  ASSUME TypeOK, Left <= kills, UNCHANGED left
  PROVE  (Left <= kills)'
  BY DEF left, Left

(* Whatever is killed and whenever, one process at most runs beside those  *)
(* that killed daemons have left, one each, and between cycles it is the   *)
(* one of the mode.                                                        *)
THEOREM OneProcessRuns == Spec => []ProcessMatchesMode
<1>0. \A m \in Modes : Challenger(m) \in Modes /\ Challenger(m) # m /\ Challenger(Challenger(m)) = m
  BY DEF Modes, Challenger
<1>1. Init => ProcessInv /\ Left <= kills
  BY <1>0 DEF Init, ProcessInv, Left, Modes
<1>2. TypeOK /\ ProcessInv /\ Left <= kills /\ [Next]_vars => ProcessInv' /\ (Left <= kills)'
  <2> SUFFICES ASSUME TypeOK, ProcessInv, Left <= kills, [Next]_vars
               PROVE  ProcessInv' /\ (Left <= kills)'
    OBVIOUS
  <2>0. mode \in Modes /\ Modes = {mode, Challenger(mode)} /\ Modes = {"mining", "inference"}
    BY DEF TypeOK, Modes, Challenger
  <2>1. ASSUME NEW offer \in Offers, Evaluate(offer) PROVE ProcessInv' /\ UNCHANGED left
    <3>1. PICK after \in Modes, ok \in BOOLEAN : Decide(after, offer, ok)
      BY <2>1, EvaluateCases
    <3>2. after = mode \/ after = Challenger(mode)
      BY <2>0
    <3> QED
      BY <1>0, <2>0, <3>1, <3>2 DEF Decide, ProcessInv
  <2>2. ASSUME NEW d \in Intervals, Launch(d) PROVE ProcessInv' /\ UNCHANGED left
    BY <2>0, <2>2 DEF Launch, Started, ProcessInv, TypeOK, Challenger
  <2>3. ASSUME Quit \/ Log \/ Raise \/ \E d \in Intervals : Sleep(d)
        PROVE  ProcessInv' /\ UNCHANGED left
    BY <1>0, <2>0, <2>3 DEF Quit, Log, Raise, Sleep, engine, ProcessInv
  <2>4. ASSUME StopAll PROVE ProcessInv' /\ UNCHANGED left
    BY <2>0, <2>4 DEF StopAll, ProcessInv
  <2>5. ASSUME StopIncumbent PROVE ProcessInv' /\ UNCHANGED left
    BY <1>0, <2>0, <2>5 DEF StopIncumbent, Stopped, ProcessInv, TypeOK
  <2>6. ASSUME StartChallenger PROVE ProcessInv' /\ UNCHANGED left
    BY <1>0, <2>0, <2>6 DEF StartChallenger, Started, ProcessInv, TypeOK, engine
  <2>7. ASSUME NEW m \in Modes, Die(m) PROVE ProcessInv' /\ UNCHANGED left
    BY <1>0, <2>0, <2>7 DEF Die, ProcessInv, TypeOK, engine
  <2>8. ASSUME UNCHANGED vars PROVE ProcessInv' /\ UNCHANGED left
    BY <2>8 DEF vars, engine, ProcessInv
  <2>9. ASSUME Kill PROVE ProcessInv' /\ (Left <= kills)'
    <3>1. ProcessInv'
      BY <1>0, <2>0, <2>9 DEF Kill, ProcessInv, engine
    <3>2. /\ orphans'["mining"] = orphans["mining"] + Alive("mining")
          /\ orphans'["inference"] = orphans["inference"] + Alive("inference")
          /\ kills' = kills + 1
      BY <2>0, <2>9 DEF Kill
    <3>3. orphans["mining"] \in Nat /\ orphans["inference"] \in Nat /\ kills \in Nat
      BY <2>0 DEF TypeOK
    <3> QED
      BY <3>1, <3>2, <3>3, OneAlive DEF Left
  <2>10. ASSUME NEW m \in Modes, OrphanDies(m) PROVE ProcessInv' /\ (Left <= kills)'
    <3>1. ProcessInv'
      BY <2>10 DEF OrphanDies, ProcessInv, engine
    <3>2. orphans["mining"] \in Nat /\ orphans["inference"] \in Nat /\ kills \in Nat
      BY <2>0 DEF TypeOK
    <3>3. kills' = kills /\ orphans'["mining"] <= orphans["mining"]
          /\ orphans'["inference"] <= orphans["inference"]
          /\ orphans'["mining"] \in Int /\ orphans'["inference"] \in Int
      BY <2>0, <2>10, <3>2 DEF OrphanDies, TypeOK
    <3> QED
      BY <3>1, <3>2, <3>3 DEF Left
  <2>11. ASSUME ProcessInv' /\ UNCHANGED left PROVE ProcessInv' /\ (Left <= kills)'
    BY <2>11, LeftKept
  <2> QED
    BY <2>1, <2>2, <2>3, <2>4, <2>5, <2>6, <2>7, <2>8, <2>9, <2>10, <2>11 DEF Next
<1>3. TypeOK /\ ProcessInv /\ Left <= kills => ProcessMatchesMode
  <2> SUFFICES ASSUME TypeOK, ProcessInv, Left <= kills PROVE ProcessMatchesMode
    OBVIOUS
  <2>1. orphans["mining"] \in Nat /\ orphans["inference"] \in Nat /\ kills \in Nat
    BY DEF TypeOK, Modes
  <2>2. OnTheGpu <= kills + (IF pc = "down" THEN 0 ELSE 1)
    BY <2>1, OneAlive DEF OnTheGpu, Left
  <2> QED
    BY <2>2 DEF ProcessInv, ProcessMatchesMode
<1> QED
  BY <1>1, <1>2, <1>3, TypeCorrect, PTL DEF Spec

----
(* The daemon with its feeds, its clock of sleeps and its table is the     *)
(* daemon of CrossoverDaemon, so that the above holds of every run that is *)
(* reported on.                                                            *)

(* One cycle's decision is a decision of the engine on an offer.           *)
LEMMA CycleEvaluates ==
  ASSUME NEW reading \in Readings, Cycle(reading)
  PROVE  \E offer \in Offers : Evaluate(offer)
<1>1. Nets(reading) \in Offers
  BY GatheredOffers
<1>2. Evaluate(Nets(reading))
  BY DEF Cycle, Evaluate
<1> QED
  BY <1>1, <1>2

LEMMA ReportStep == [ReportNext]_reportVars => [Next]_vars
<1> SUFFICES ASSUME [ReportNext]_reportVars PROVE [Next]_vars
  OBVIOUS
<1>1. CASE UNCHANGED reportVars
  BY <1>1 DEF reportVars
<1>2. CASE \E d \in Downtimes : LaunchMain(d)
  BY <1>2, ReportAssumption DEF LaunchMain, Next
<1>3. CASE LogRow
  BY <1>3 DEF LogRow, Next
<1>4. CASE Probe
  BY <1>4 DEF Probe
<1>5. CASE SleepOrQuit
  BY <1>5, ReportAssumption DEF SleepOrQuit, Next
<1>6. ASSUME NEW reading \in Readings, Cycle(reading)
      PROVE  Next
  BY <1>6, CycleEvaluates DEF Next
<1>7. CASE \/ StopAll \/ StopIncumbent \/ StartChallenger \/ Raise \/ Kill
           \/ \E m \in Modes : Die(m) \/ OrphanDies(m)
  BY <1>7 DEF Next
<1> QED
  BY <1>1, <1>2, <1>3, <1>4, <1>5, <1>6, <1>7 DEF ReportNext

(* run_cycle and main with gather_economics, record_decision and the probe *)
(* take no step that the daemon of CrossoverDaemon could not take.         *)
THEOREM ReportRefinesDaemon == ReportSpec => Spec
<1>1. ReportInit => Init
  BY DEF ReportInit
<1> QED
  BY <1>1, ReportStep, PTL DEF ReportSpec, Spec

(* Over the priced log, too, every switch is earned by consecutive wins,   *)
(* made as soon as it is, keeps the dwell time and is never undone by the  *)
(* nets that caused it; and one process runs at a time beside those of     *)
(* killed daemons.                                                         *)
THEOREM ReportedSwitches ==
  ASSUME Floor > 0
  PROVE  ReportSpec => [](/\ EarnedSwitches /\ DwellRespected /\ NeverFlaps
                          /\ PromptSwitches /\ ProcessMatchesMode)
<1>1. Spec => []NeverFlaps
  BY EngineNeverFlaps
<1> QED
  BY <1>1, ReportRefinesDaemon, SwitchesAreEarned, DwellAlwaysRespected, SwitchesArePrompt,
     OneProcessRuns, PTL

----
(* The report.  Its credit and its hours are sums over the rows, taken day *)
(* by day.                                                                 *)

(* A row that is being worked on is of this launch and of this moment, and *)
(* an unpriced decision is for mining.                                     *)
DecisionsInv ==
  /\ \A i \in 1..Len(decisions) : ~decisions[i].ok => decisions[i].after = "mining"
  /\ pc # "down" => runs > 0
  /\ pc \in {"stop", "start", "log"} =>
       /\ Len(decisions) > 0
       /\ decisions[Len(decisions)].run = runs /\ decisions[Len(decisions)].time = now

LEMMA DecisionsStep == TypeOK /\ DecisionsInv /\ [Next]_vars => DecisionsInv'
<1> SUFFICES ASSUME TypeOK, DecisionsInv, [Next]_vars PROVE DecisionsInv'
  OBVIOUS
<1>1. ASSUME NEW after \in Modes, NEW offer \in Offers, NEW ok \in BOOLEAN,
             Decide(after, offer, ok), ~ok => after = "mining"
      PROVE  DecisionsInv'
  <2>1. PICK n \in Nat : n = Len(decisions) /\ Len(decisions') = n + 1
    BY <1>1, DecideEffect
  <2>2. /\ \A i \in 1..n : decisions'[i] = decisions[i]
        /\ decisions'[n + 1] = [run |-> runs, time |-> now, before |-> mode,
                                after |-> after, offer |-> offer, ok |-> ok]
    BY <1>1, <2>1, DecideEffect
  <2>3. runs' = runs /\ now' = now /\ pc = "decide" /\ pc' \in {"stop", "log"}
    BY <1>1 DEF Decide
  <2>4. /\ decisions'[n + 1].run = runs /\ decisions'[n + 1].time = now
        /\ ~decisions'[n + 1].ok => decisions'[n + 1].after = "mining"
    BY <1>1, <2>2
  <2>5. ASSUME NEW i \in 1..(n + 1), ~decisions'[i].ok
        PROVE  decisions'[i].after = "mining"
    <3>1. CASE i = n + 1
      BY <2>4, <2>5, <3>1
    <3>2. CASE i \in 1..n
      BY <2>1, <2>2, <2>5, <3>2 DEF DecisionsInv
    <3>3. QED
      BY <3>1, <3>2
  <2>6. QED
    BY <2>1, <2>3, <2>4, <2>5 DEF DecisionsInv
<1>2. ASSUME NEW offer \in Offers, Evaluate(offer)
      PROVE  DecisionsInv'
  <2>1. mode \in Modes /\ Challenger(mode) \in Modes /\ "mining" \in Modes
    BY DEF TypeOK, Challenger, Modes
  <2>2. CASE FeedFailure(offer)
    <3>1. Decide("mining", offer, FALSE)
      BY <2>2 DEF FeedFailure
    <3>2. QED
      BY <1>1, <2>1, <3>1
  <2>3. CASE IncumbentHolds(offer) \/ ChallengerWaits(offer)
    <3>1. Decide(mode, offer, TRUE)
      BY <2>3 DEF IncumbentHolds, ChallengerWaits
    <3>2. QED
      BY <1>1, <2>1, <3>1
  <2>4. CASE Switch(offer)
    <3>1. Decide(Challenger(mode), offer, TRUE)
      BY <2>4 DEF Switch
    <3>2. QED
      BY <1>1, <2>1, <3>1
  <2>5. QED
    BY <1>2, <2>2, <2>3, <2>4 DEF Evaluate
<1>3. ASSUME NEW d \in Intervals, Launch(d) \/ Sleep(d)
      PROVE  DecisionsInv'
  BY <1>3 DEF Launch, Sleep, DecisionsInv, TypeOK, engine
<1>4. CASE Quit \/ StopAll \/ StopIncumbent \/ StartChallenger \/ Log \/ Raise
  BY <1>4 DEF Quit, StopAll, StopIncumbent, StartChallenger, Log, Raise, DecisionsInv, engine
<1>5. ASSUME NEW m \in Modes, Die(m) \/ OrphanDies(m)
      PROVE  DecisionsInv'
  BY <1>5 DEF Die, OrphanDies, DecisionsInv, engine
<1>6. CASE Kill \/ UNCHANGED vars
  BY <1>6 DEF Kill, vars, DecisionsInv, engine
<1>7. QED
  BY <1>2, <1>3, <1>4, <1>5, <1>6 DEF Next

(* Rows are decisions in their order.                                      *)
RowsInv ==
  /\ rows \in Seq(Decision)
  /\ \A i \in 1..Len(rows) :
       /\ rows[i].run \in 1..runs /\ rows[i].time <= now
       /\ ~rows[i].ok => rows[i].after = "mining"
  /\ \A i, k \in 1..Len(rows) :
       i < k => rows[i].run <= rows[k].run /\ rows[i].time <= rows[k].time

(* What a step does to the rows.                                           *)
Logged(n, d) ==
  /\ n = Len(rows) /\ Len(rows') = n + 1
  /\ \A i \in 1..n : rows'[i] = rows[i]
  /\ rows'[n + 1] = d /\ d \in Decision /\ d.run = runs /\ d.time = now
  /\ runs > 0 /\ runs' = runs /\ now' = now
  /\ ~d.ok => d.after = "mining"
  /\ rows' \in Seq(Decision)

LEMMA LoggedRow ==
  ASSUME TypeOK, DecisionsInv, RowsInv, LogRow
  PROVE  \E n \in Nat, d \in Decision : Logged(n, d)
<1>1. pc = "log" /\ runs' = runs /\ now' = now /\ rows' = Append(rows, decisions[Len(decisions)])
  BY DEF LogRow, Log, RecordDecision, Last
<1>2. PICK d : d = decisions[Len(decisions)]
  OBVIOUS
<1>3. d \in Decision /\ d.run = runs /\ d.time = now /\ (~d.ok => d.after = "mining") /\ runs > 0
  <2>1. Len(decisions) \in 1..Len(decisions) /\ decisions \in Seq(Decision)
    BY <1>1 DEF TypeOK, DecisionsInv
  <2>2. QED
    BY <1>1, <1>2, <2>1 DEF DecisionsInv
<1>4. rows \in Seq(Decision) /\ rows' = Append(rows, d)
  BY <1>1, <1>2 DEF RowsInv
<1>5. /\ Len(rows) \in Nat /\ Len(rows') = Len(rows) + 1 /\ rows' \in Seq(Decision)
      /\ \A i \in 1..Len(rows) : rows'[i] = rows[i]
      /\ rows'[Len(rows) + 1] = d
  BY <1>3, <1>4
<1>6. QED
  BY <1>1, <1>3, <1>5 DEF Logged

LEMMA ReportMoves ==
  ASSUME TypeOK, DecisionsInv, RowsInv, [ReportNext]_reportVars
  PROVE  \/ rows' = rows /\ runs' \in {runs, runs + 1} /\ now' \in Nat /\ now' >= now
         \/ \E n \in Nat, d \in Decision : Logged(n, d)
<1>1. runs \in Nat /\ now \in Nat /\ \A d \in Sleeps \cup Downtimes : d \in Nat
  <2>1. Sleeps \cup Downtimes \subseteq Intervals /\ Intervals \subseteq Nat
    BY ReportAssumption, CrossoverAssumption
  <2>2. QED
    BY <2>1 DEF TypeOK
<1>2. CASE UNCHANGED reportVars
  BY <1>1, <1>2 DEF reportVars, vars
<1>3. ASSUME NEW d \in Downtimes, LaunchMain(d)
      PROVE  rows' = rows /\ runs' = runs + 1 /\ now' \in Nat /\ now' >= now
  BY <1>1, <1>3 DEF LaunchMain, Launch
<1>4. CASE LogRow
  BY <1>4, LoggedRow
<1>5. CASE Probe
  BY <1>1, <1>5 DEF Probe, vars
<1>6. CASE SleepOrQuit /\ UNCHANGED <<rows, lastProbe>>
  <2>1. runs' = runs /\ now' \in Nat /\ now' >= now
    BY <1>1, <1>6 DEF SleepOrQuit, Sleep, Quit
  <2>2. QED
    BY <1>6, <2>1
<1>7. ASSUME NEW reading \in Readings, Cycle(reading)
      PROVE  runs' = runs /\ now' = now
  BY <1>7, CycleEvaluates DEF Evaluate, FeedFailure, IncumbentHolds, ChallengerWaits, Switch,
     Decide
<1>8. ASSUME \/ StopAll \/ StopIncumbent \/ StartChallenger \/ Raise \/ Kill
             \/ \E m \in Modes : Die(m) \/ OrphanDies(m)
      PROVE  runs' = runs /\ now' = now
  BY <1>8 DEF StopAll, StopIncumbent, StartChallenger, Raise, Kill, Die, OrphanDies
<1>9. ASSUME rows' = rows, runs' = runs, now' = now
      PROVE  rows' = rows /\ runs' \in {runs, runs + 1} /\ now' \in Nat /\ now' >= now
  BY <1>1, <1>9
<1>10. CASE /\ \/ \E reading \in Readings : Cycle(reading)
               \/ StopAll \/ StopIncumbent \/ StartChallenger \/ Raise \/ Kill
               \/ \E m \in Modes : Die(m) \/ OrphanDies(m)
            /\ UNCHANGED <<rows, lastProbe>>
  BY <1>7, <1>8, <1>9, <1>10
<1>11. QED
  BY <1>2, <1>3, <1>4, <1>5, <1>6, <1>10 DEF ReportNext

LEMMA RowsStep ==
  TypeOK /\ DecisionsInv /\ RowsInv /\ [ReportNext]_reportVars => RowsInv'
<1> SUFFICES ASSUME TypeOK, DecisionsInv, RowsInv, [ReportNext]_reportVars PROVE RowsInv'
  OBVIOUS
<1>1. runs \in Nat /\ now \in Nat /\ \A i \in 1..Len(rows) : rows[i].time \in Nat
  <2>1. \A i \in 1..Len(rows) : rows[i] \in Decision
    BY DEF RowsInv
  <2>2. QED
    BY <2>1 DEF TypeOK, Decision
<1>2. CASE rows' = rows /\ runs' \in {runs, runs + 1} /\ now' \in Nat /\ now' >= now
  BY <1>1, <1>2 DEF RowsInv
<1>3. ASSUME NEW n \in Nat, NEW d \in Decision, Logged(n, d)
      PROVE  RowsInv'
  <2>1. \A i \in 1..(n + 1) : /\ rows'[i].run \in 1..runs /\ rows'[i].time <= now
                              /\ ~rows'[i].ok => rows'[i].after = "mining"
    <3> SUFFICES ASSUME NEW i \in 1..(n + 1)
                 PROVE  /\ rows'[i].run \in 1..runs /\ rows'[i].time <= now
                        /\ ~rows'[i].ok => rows'[i].after = "mining"
      OBVIOUS
    <3>1. CASE i = n + 1
      BY <1>1, <1>3, <3>1 DEF Logged
    <3>2. CASE i \in 1..n
      BY <1>3, <3>2 DEF Logged, RowsInv
    <3>3. QED
      BY <3>1, <3>2
  <2>2. \A i, k \in 1..(n + 1) :
           i < k => rows'[i].run <= rows'[k].run /\ rows'[i].time <= rows'[k].time
    <3> SUFFICES ASSUME NEW i \in 1..(n + 1), NEW k \in 1..(n + 1), i < k
                 PROVE  rows'[i].run <= rows'[k].run /\ rows'[i].time <= rows'[k].time
      OBVIOUS
    <3>1. i \in 1..n /\ rows'[i] = rows[i]
      BY <1>3 DEF Logged
    <3>2. CASE k = n + 1
      BY <1>1, <1>3, <3>1, <3>2 DEF Logged, RowsInv
    <3>3. CASE k \in 1..n
      BY <1>3, <3>1, <3>3 DEF Logged, RowsInv
    <3>4. QED
      BY <3>2, <3>3
  <2>3. QED
    BY <1>3, <2>1, <2>2 DEF Logged, RowsInv
<1>4. QED
  BY <1>2, <1>3, ReportMoves

LEMMA RowsAlways == ReportSpec => [](TypeOK /\ DecisionsInv /\ RowsInv)
<1>1. ReportInit => DecisionsInv /\ RowsInv
  BY DEF ReportInit, Init, DecisionsInv, RowsInv
<1>2. Spec => []TypeOK
  BY TypeCorrect
<1>3. [ReportNext]_reportVars => [Next]_vars
  BY ReportStep
<1>4. QED
  BY <1>1, <1>2, <1>3, ReportRefinesDaemon, DecisionsStep, RowsStep, PTL DEF ReportSpec

(* What report.py computes of a row.                                       *)
LEMMA RowFigures ==
  ASSUME RowsInv, NEW i \in 1..(Len(rows) - 1)
  PROVE  /\ Seconds(i) \in Nat /\ Seconds(i) <= MaxGap
         /\ Seconds(i) <= rows[i + 1].time - rows[i].time
         /\ \A m \in Modes : EarnedBy(m, i) \in Int
         /\ rows[i].after \in Modes
<1>1. i \in 1..Len(rows) /\ i + 1 \in 1..Len(rows) /\ i < i + 1
  BY DEF RowsInv
<1>2. rows[i] \in Decision /\ rows[i + 1] \in Decision
  BY <1>1 DEF RowsInv
<1>3. rows[i].time \in Nat /\ rows[i + 1].time \in Nat /\ rows[i].after \in Modes
      /\ \A m \in Modes : rows[i].offer[m] \in Int
  BY <1>2 DEF Decision
<1>4. rows[i].time <= rows[i + 1].time
  BY <1>1 DEF RowsInv
<1>5. MaxGap \in Nat /\ Day \in Nat \ {0}
  BY ReportAssumption
<1>6. /\ Seconds(i) \in Nat /\ Seconds(i) <= MaxGap
      /\ Seconds(i) <= rows[i + 1].time - rows[i].time
  BY <1>3, <1>4, <1>5 DEF Seconds, AtLeastZero
<1>7. ASSUME NEW m \in Modes
      PROVE  EarnedBy(m, i) \in Int
  <2>1. PICK s \in Nat : s = Seconds(i)
    BY <1>6
  <2>2. PICK v \in Int : v = rows[i].offer[m]
    BY <1>3
  <2>3. PICK e \in Int : e = v * s
    BY <2>1, <2>2
  <2>4. e \div Day \in Int
    BY <1>5
  <2>5. QED
    BY <2>1, <2>2, <2>3, <2>4 DEF EarnedBy
<1>8. QED
  BY <1>3, <1>6, <1>7

LEMMA CountedFinite ==
  ASSUME RowsInv
  PROVE  /\ IsFiniteSet(1..(Len(rows) - 1)) /\ IsFiniteSet(Counted)
         /\ Counted \subseteq 1..(Len(rows) - 1)
         /\ \A i \in (1..(Len(rows) - 1)) \ Counted : Seconds(i) = 0
<1>1. Len(rows) - 1 \in Int /\ 1 \in Int
  BY DEF RowsInv
<1>2. IsFiniteSet(1..(Len(rows) - 1))
  BY <1>1, FS_Interval
<1>3. Counted \subseteq 1..(Len(rows) - 1)
  BY DEF Counted
<1>4. IsFiniteSet(Counted)
  BY <1>2, <1>3, FS_Subset
<1>5. \A i \in (1..(Len(rows) - 1)) \ Counted : Seconds(i) = 0
  BY RowFigures DEF Counted
<1>6. QED
  BY <1>2, <1>3, <1>4, <1>5

(* A figure added up per day and then over the days is the figure added up *)
(* over the rows.                                                          *)
LEMMA DaysAddUp ==
  ASSUME RowsInv, NEW f, \A i \in Counted : f[i] \in Int,
         NEW h, DOMAIN h = {DayOf(i) : i \in Counted},
         \A day \in DOMAIN h :
           h[day] = SumFunctionOnSet(f, {i \in Counted : DayOf(i) = day})
  PROVE  SumFunction(h) = SumFunctionOnSet(f, Counted)
<1> DEFINE key == [i \in Counted |-> DayOf(i)]
           K == DOMAIN h
<1>1. IsFiniteSet(Counted)
  BY CountedFinite
<1>2. IsFiniteSet(K) /\ \A i \in Counted : key[i] \in K
  <2>1. K = {DayOf(i) : i \in Counted}
    OBVIOUS
  <2>2. IsFiniteSet({DayOf(i) : i \in Counted})
    <3>1. key \in Surjection(Counted, {DayOf(i) : i \in Counted})
      BY DEF Surjection
    <3>2. QED
      BY <1>1, <3>1, FS_Surjection
  <2>3. QED
    BY <2>1, <2>2
<1>3. \A k \in K : h[k] = SumFunctionOnSet(f, {i \in Counted : key[i] = k})
  <2>1. \A k \in K : {i \in Counted : key[i] = k} = {i \in Counted : DayOf(i) = k}
    OBVIOUS
  <2>2. QED
    BY <2>1
<1> HIDE DEF key
<1>4. SumFunctionOnSet(h, K) = SumFunctionOnSet(f, Counted)
  BY <1>1, <1>2, <1>3, SumByKey
<1>5. QED
  BY <1>4 DEF SumFunction

LEMMA TotalsAddUp ==
  ASSUME RowsInv
  PROVE  /\ Totals["daemon"] =
              SumFunctionOnSet([i \in Counted |-> EarnedBy(rows[i].after, i)], Counted)
         /\ Totals["miningOnly"] =
              SumFunctionOnSet([i \in Counted |-> EarnedBy("mining", i)], Counted)
         /\ Totals["seconds"] = SumFunctionOnSet([i \in Counted |-> Seconds(i)], Counted)
<1> DEFINE Those(day) == {i \in Counted : DayOf(i) = day}
           Days == {DayOf(i) : i \in Counted}
           daemon == [i \in Counted |-> EarnedBy(rows[i].after, i)]
           mining == [i \in Counted |-> EarnedBy("mining", i)]
           seconds == [i \in Counted |-> Seconds(i)]
           Of(field) == [day \in Days |-> Bucket(day)[field]]
<1>1. \A field \in {"daemon", "miningOnly", "seconds"} : Totals[field] = SumFunction(Of(field))
  <2>1. /\ DOMAIN daily_revenue = Days
        /\ \A day \in Days : daily_revenue[day] = Bucket(day)
    BY DEF daily_revenue
  <2>2. \A field \in {"daemon", "miningOnly", "seconds"} :
           [day \in DOMAIN daily_revenue |-> daily_revenue[day][field]] = Of(field)
    BY <2>1
  <2> HIDE DEF Of
  <2>3. QED
    BY <2>2 DEF Totals
<1>2. ASSUME NEW f, NEW day, \A i \in Counted : f[i] \in Int
      PROVE  SumFunction([i \in Those(day) |-> f[i]]) = SumFunctionOnSet(f, Those(day))
  <2> DEFINE g == [i \in Those(day) |-> f[i]]
  <2>1. IsFiniteSet(Those(day))
    BY CountedFinite, FS_Subset
  <2>2. DOMAIN g = Those(day) /\ \A i \in Those(day) : g[i] = f[i]
    OBVIOUS
  <2> HIDE DEF Those, g
  <2>3. SumFunctionOnSet(g, Those(day)) = SumFunctionOnSet(f, Those(day))
    BY <2>1, <2>2, SumSame
  <2>4. SumFunction(g) = SumFunctionOnSet(f, Those(day))
    BY <2>2, <2>3 DEF SumFunction
  <2>5. QED
    BY <2>4 DEF g
<1>3. /\ \A i \in Counted : daemon[i] \in Int
      /\ \A i \in Counted : mining[i] \in Int
      /\ \A i \in Counted : seconds[i] \in Int
  <2>1. "mining" \in Modes
    BY DEF Modes
  <2>2. \A i \in Counted : /\ EarnedBy(rows[i].after, i) \in Int
                           /\ EarnedBy("mining", i) \in Int /\ Seconds(i) \in Int
    <3> SUFFICES ASSUME NEW i \in Counted
                 PROVE  /\ EarnedBy(rows[i].after, i) \in Int
                        /\ EarnedBy("mining", i) \in Int /\ Seconds(i) \in Int
      OBVIOUS
    <3>1. i \in 1..(Len(rows) - 1)
      BY CountedFinite
    <3>2. QED
      BY <2>1, <3>1, RowFigures
  <2>3. QED
    BY <2>2
<1>4. ASSUME NEW day
      PROVE  /\ Bucket(day)["daemon"] = SumFunction([i \in Those(day) |-> daemon[i]])
             /\ Bucket(day)["miningOnly"] = SumFunction([i \in Those(day) |-> mining[i]])
             /\ Bucket(day)["seconds"] = SumFunction([i \in Those(day) |-> seconds[i]])
  <2>1. /\ [i \in Those(day) |-> daemon[i]] =
              [i \in Those(day) |-> EarnedBy(rows[i].after, i)]
        /\ [i \in Those(day) |-> mining[i]] = [i \in Those(day) |-> EarnedBy("mining", i)]
        /\ [i \in Those(day) |-> seconds[i]] = [i \in Those(day) |-> Seconds(i)]
    OBVIOUS
  <2> HIDE DEF daemon, mining, seconds
  <2>2. QED
    BY <2>1 DEF Bucket
<1> HIDE DEF daemon, mining, seconds
<1>5. /\ \A day \in Days : Bucket(day)["daemon"] = SumFunctionOnSet(daemon, Those(day))
      /\ \A day \in Days : Bucket(day)["miningOnly"] = SumFunctionOnSet(mining, Those(day))
      /\ \A day \in Days : Bucket(day)["seconds"] = SumFunctionOnSet(seconds, Those(day))
  <2> HIDE DEF Days, Those
  <2>1. /\ \A day \in Days : SumFunction([i \in Those(day) |-> daemon[i]]) =
                               SumFunctionOnSet(daemon, Those(day))
        /\ \A day \in Days : SumFunction([i \in Those(day) |-> mining[i]]) =
                               SumFunctionOnSet(mining, Those(day))
        /\ \A day \in Days : SumFunction([i \in Those(day) |-> seconds[i]]) =
                               SumFunctionOnSet(seconds, Those(day))
    BY <1>2, <1>3
  <2>2. QED
    BY <1>4, <2>1
<1>6. /\ SumFunction(Of("daemon")) = SumFunctionOnSet(daemon, Counted)
      /\ SumFunction(Of("miningOnly")) = SumFunctionOnSet(mining, Counted)
      /\ SumFunction(Of("seconds")) = SumFunctionOnSet(seconds, Counted)
  <2>1. /\ DOMAIN Of("daemon") = Days
        /\ DOMAIN Of("miningOnly") = Days
        /\ DOMAIN Of("seconds") = Days
        /\ \A day \in Days : Of("daemon")[day] = SumFunctionOnSet(daemon, Those(day))
        /\ \A day \in Days : Of("miningOnly")[day] = SumFunctionOnSet(mining, Those(day))
        /\ \A day \in Days : Of("seconds")[day] = SumFunctionOnSet(seconds, Those(day))
    <3> HIDE DEF Those
    <3>1. QED
      BY <1>5
  <2> HIDE DEF Of
  <2>2. SumFunction(Of("daemon")) = SumFunctionOnSet(daemon, Counted)
    BY <1>3, <2>1, DaysAddUp
  <2>3. SumFunction(Of("miningOnly")) = SumFunctionOnSet(mining, Counted)
    BY <1>3, <2>1, DaysAddUp
  <2>4. SumFunction(Of("seconds")) = SumFunctionOnSet(seconds, Counted)
    BY <1>3, <2>1, DaysAddUp
  <2>5. QED
    BY <2>2, <2>3, <2>4
<1>7. QED
  <2> HIDE DEF Of
  <2>1. QED
    BY <1>1, <1>6 DEF daemon, mining, seconds

(* Whatever the feeds deliver, wherever the daemon is launched again and   *)
(* whichever rows are lost: what switching earned more than mining alone   *)
(* is what inference earned more than mining in the priced seconds that    *)
(* were given to it.                                                       *)
THEOREM AdvantagePriced == ReportSpec => []AdvantageIsPriced
<1>1. ASSUME RowsInv
      PROVE  AdvantageIsPriced
  <2> DEFINE daemon == [i \in Counted |-> EarnedBy(rows[i].after, i)]
             mining == [i \in Counted |-> EarnedBy("mining", i)]
             gain == [i \in Counted |-> daemon[i] - mining[i]]
             gained == {i \in Counted : rows[i].ok /\ rows[i].after = "inference"}
             credit == [i \in gained |-> EarnedBy("inference", i) - EarnedBy("mining", i)]
  <2>1. \A i \in Counted : daemon[i] \in Int /\ mining[i] \in Int
                           /\ gain[i] = daemon[i] - mining[i]
    <3>1. "mining" \in Modes
      BY DEF Modes
    <3>2. QED
      BY <1>1, <3>1, CountedFinite, RowFigures
  <2>2. /\ gained \in SUBSET Counted /\ DOMAIN credit = gained
        /\ \A i \in gained : credit[i] = gain[i]
    OBVIOUS
  <2>3. \A i \in Counted \ gained : gain[i] = 0
    <3> SUFFICES ASSUME NEW i \in Counted \ gained PROVE gain[i] = 0
      OBVIOUS
    <3>1. i \in 1..(Len(rows) - 1) /\ i \in 1..Len(rows)
      BY <1>1, CountedFinite DEF RowsInv
    <3>2. rows[i].after = "mining"
      BY <1>1, <3>1, RowFigures DEF RowsInv, Modes
    <3>3. QED
      BY <2>1, <3>2
  <2>4. IsFiniteSet(Counted) /\ IsFiniteSet(gained)
    BY <1>1, CountedFinite, FS_Subset
  <2>5. \A i \in Counted : gain[i] \in Int
    BY <2>1
  <2> HIDE DEF daemon, mining, gain, gained, credit
  <2>6. SumFunctionOnSet(daemon, Counted) - SumFunctionOnSet(mining, Counted) =
          SumFunctionOnSet(gain, Counted)
    BY <2>1, <2>4, SumDifference
  <2>7. SumFunctionOnSet(gain, Counted) = SumFunctionOnSet(gain, gained)
    BY <2>2, <2>3, <2>4, <2>5, SumNarrow
  <2>8. SumFunctionOnSet(gain, gained) = SumFunctionOnSet(credit, gained)
    BY <2>2, <2>4, SumSame
  <2>9. SumFunction(credit) = SumFunctionOnSet(credit, gained)
    BY <2>2 DEF SumFunction
  <2>10. Totals["daemon"] - Totals["miningOnly"] = SumFunction(credit)
    <3>1. /\ Totals["daemon"] = SumFunctionOnSet(daemon, Counted)
          /\ Totals["miningOnly"] = SumFunctionOnSet(mining, Counted)
      BY <1>1, TotalsAddUp DEF daemon, mining
    <3>2. QED
      BY <2>6, <2>7, <2>8, <2>9, <3>1
  <2>11. QED
    BY <2>10 DEF AdvantageIsPriced, credit, gained
<1>2. QED
  BY <1>1, RowsAlways, PTL

(* The first and the last moment of a set.                                 *)
LEMMA Extremes ==
  ASSUME NEW T, T \subseteq Nat, NEW b \in T, \A t \in T : t <= b
  PROVE  Max(T) = b /\ Min(T) \in T /\ \A t \in T : Min(T) <= t
<1>1. Max(T) \in T /\ \A t \in T : Max(T) >= t
  <2>1. \E m \in T : \A t \in T : m >= t
    <3>1. \A t \in T : b >= t
      OBVIOUS
    <3>2. QED
      BY <3>1
  <2>2. QED
    BY <2>1 DEF Max
<1>2. Max(T) = b
  <2>1. PICK m \in Nat : m = Max(T)
    BY <1>1
  <2>2. b \in Nat /\ m <= b /\ b <= m
    BY <1>1, <2>1
  <2>3. QED
    BY <2>1, <2>2
<1>3. \E n \in T : \A t \in T : n <= t
  BY LeastNatural
<1>4. Min(T) \in T /\ \A t \in T : Min(T) <= t
  BY <1>3 DEF Min
<1>5. QED
  BY <1>2, <1>4

LEMMA SpanNatural ==
  ASSUME NEW T, T \subseteq Nat, NEW b \in Nat, \A t \in T : t <= b
  PROVE  Span(T) \in Nat
<1>1. CASE T = {}
  BY <1>1 DEF Span
<1>2. CASE T # {}
  <2> DEFINE N == {b - t : t \in T}
  <2>1. N \subseteq Nat /\ N # {}
    <3>1. \A t \in T : b - t \in Nat
      OBVIOUS
    <3>2. QED
      BY <1>2, <3>1
  <2>2. PICK n \in N : \A m \in N : n <= m
    BY <2>1, LeastNatural
  <2>3. PICK top \in T : n = b - top
    BY <2>2
  <2>4. \A t \in T : t <= top
    <3> SUFFICES ASSUME NEW t \in T PROVE t <= top
      OBVIOUS
    <3>1. b - t \in N
      OBVIOUS
    <3> HIDE DEF N
    <3>2. n <= b - t
      BY <2>2, <3>1
    <3>3. t \in Nat /\ top \in Nat
      OBVIOUS
    <3>4. QED
      BY <2>3, <3>2, <3>3
  <2>5. Max(T) = top /\ Min(T) \in T /\ Min(T) <= top
    BY <2>4, Extremes
  <2>6. PICK m \in Nat : m = Min(T)
    BY <2>5
  <2>7. top \in Nat /\ m <= top /\ Span(T) = top - m
    BY <1>2, <2>5, <2>6 DEF Span
  <2>8. QED
    BY <2>6, <2>7
<1>3. QED
  BY <1>1, <1>2

(* A later moment prolongs a span by the time since the last one.          *)
LEMMA SpanGrows ==
  ASSUME NEW T, T \subseteq Nat, NEW b \in T, \A t \in T : t <= b, NEW c \in Nat, b <= c
  PROVE  Span(T \cup {c}) = Span(T) + (c - b)
<1> DEFINE U == T \cup {c}
<1>1. U \subseteq Nat /\ c \in U /\ \A t \in U : t <= c
  OBVIOUS
<1>2. Max(T) = b /\ Min(T) \in T /\ \A t \in T : Min(T) <= t
  BY Extremes
<1>3. Max(U) = c /\ Min(U) \in U /\ \A t \in U : Min(U) <= t
  <2> HIDE DEF U
  <2> QED
    BY <1>1, Extremes
<1>4. PICK m \in Nat : m = Min(T) /\ m \in T
  BY <1>2
<1>5. PICK u \in Nat : u = Min(U) /\ u \in U
  BY <1>1, <1>3
<1>6. m <= b /\ m \in U /\ m <= c
  BY <1>4
<1>7. u <= m /\ (u \in T => m <= u)
  BY <1>2, <1>3, <1>4, <1>5, <1>6
<1>8. u = m
  BY <1>4, <1>5, <1>6, <1>7
<1>9. T # {} /\ U # {}
  OBVIOUS
<1> HIDE DEF U
<1>10. Span(T) = b - m /\ Span(U) = c - m
  BY <1>2, <1>3, <1>4, <1>5, <1>8, <1>9 DEF Span
<1>11. b \in Nat
  OBVIOUS
<1>12. Span(U) = Span(T) + (c - b)
  BY <1>4, <1>10, <1>11
<1>13. QED
  BY <1>12 DEF U

LEMMA SpanAlone ==
  ASSUME NEW c \in Nat
  PROVE  Span({c}) = 0 /\ Span({}) = 0
<1>1. {c} \subseteq Nat /\ c \in {c} /\ \A t \in {c} : t <= c
  OBVIOUS
<1>2. Max({c}) = c /\ Min({c}) \in {c}
  BY <1>1, Extremes
<1>3. QED
  BY <1>2 DEF Span

LEMMA UptimeTyped ==
  ASSUME TypeOK, RowsInv, NEW run
  PROVE  /\ TimesOf(run) \subseteq Nat /\ \A t \in TimesOf(run) : t <= now
         /\ Uptime(run) \in Nat
<1>1. \A i \in 1..Len(rows) : rows[i] \in Decision /\ rows[i].time <= now
  BY DEF RowsInv
<1>2. TimesOf(run) \subseteq Nat /\ \A t \in TimesOf(run) : t <= now
  BY <1>1 DEF TimesOf, Decision
<1>3. now \in Nat
  BY DEF TypeOK
<1>4. QED
  BY <1>2, <1>3, SpanNatural DEF Uptime

(* What a logged row adds to the time its launch was up.                   *)
LEMMA UptimeLogged ==
  ASSUME TypeOK, RowsInv, NEW n \in Nat, NEW d \in Decision, Logged(n, d)
  PROVE  /\ \A run \in 1..runs : run # runs => Uptime(run)' = Uptime(run)
         /\ Uptime(runs)' \in Nat
         /\ IF n > 0 /\ rows[n].run = runs
            THEN Uptime(runs)' = Uptime(runs) + (now - rows[n].time)
            ELSE Uptime(runs) = 0 /\ Uptime(runs)' = 0
<1>1. /\ n = Len(rows) /\ Len(rows') = n + 1 /\ \A i \in 1..n : rows'[i] = rows[i]
      /\ rows'[n + 1] = d /\ d.run = runs /\ d.time = now /\ runs' = runs
  BY DEF Logged
<1>2. ASSUME NEW run \in 1..runs, run # runs
      PROVE  Uptime(run)' = Uptime(run)
  <2>1. {k \in 1..Len(rows') : rows'[k].run = run} = {k \in 1..Len(rows) : rows[k].run = run}
    BY <1>1, <1>2
  <2>2. TimesOf(run)' = TimesOf(run)
    BY <1>1, <2>1 DEF TimesOf
  <2>3. QED
    BY <2>2 DEF Uptime
<1>3. TimesOf(runs)' = TimesOf(runs) \cup {now}
  <2>1. {k \in 1..Len(rows') : rows'[k].run = runs} =
          {k \in 1..Len(rows) : rows[k].run = runs} \cup {n + 1}
    BY <1>1
  <2>2. QED
    BY <1>1, <2>1 DEF TimesOf
<1>4. now \in Nat
  BY DEF TypeOK
<1>5. CASE n > 0 /\ rows[n].run = runs
  <2>1. n \in 1..Len(rows) /\ rows[n].time \in TimesOf(runs) /\ rows[n].time <= now
    BY <1>1, <1>5 DEF TimesOf, RowsInv
  <2>2. \A t \in TimesOf(runs) : t <= rows[n].time
    <3> SUFFICES ASSUME NEW k \in 1..Len(rows), rows[k].run = runs
                 PROVE  rows[k].time <= rows[n].time
      BY DEF TimesOf
    <3>1. rows[n] \in Decision
      BY <2>1 DEF RowsInv
    <3>2. rows[n].time \in Nat /\ (k = n \/ k < n)
      BY <1>1, <3>1 DEF Decision
    <3>3. QED
      BY <2>1, <3>2 DEF RowsInv
  <2>3. Span(TimesOf(runs) \cup {now}) = Span(TimesOf(runs)) + (now - rows[n].time)
    BY <1>4, <2>1, <2>2, SpanGrows, UptimeTyped
  <2>4. Uptime(runs)' = Uptime(runs) + (now - rows[n].time)
    BY <1>1, <1>3, <2>3 DEF Uptime
  <2>5. Uptime(runs)' \in Nat
    <3>1. rows[n].time \in Nat /\ Uptime(runs) \in Nat
      BY <2>1, UptimeTyped
    <3>2. QED
      BY <1>4, <2>1, <2>4, <3>1
  <2>6. QED
    BY <1>2, <1>5, <2>4, <2>5
<1>6. CASE ~(n > 0 /\ rows[n].run = runs)
  <2>1. TimesOf(runs) = {}
    <3> SUFFICES ASSUME NEW k \in 1..Len(rows), rows[k].run = runs PROVE FALSE
      BY DEF TimesOf
    <3>1. n \in 1..Len(rows) /\ rows[n].run \in 1..runs /\ rows[n].run # runs /\ k # n /\ k < n
      BY <1>1, <1>6 DEF RowsInv
    <3>2. rows[k].run <= rows[n].run
      BY <3>1 DEF RowsInv
    <3>3. runs \in Nat
      BY DEF TypeOK
    <3>4. QED
      BY <3>1, <3>2, <3>3
  <2>2. TimesOf(runs)' = {now}
    BY <1>3, <2>1
  <2>3. Uptime(runs) = 0 /\ Uptime(runs)' = 0
    BY <1>1, <1>4, <2>1, <2>2, SpanAlone DEF Uptime
  <2>4. QED
    BY <1>2, <1>6, <2>3
<1>7. QED
  BY <1>5, <1>6

(* The hours so far, and what each launch was certainly up.                *)
Hours == SumFunctionOnSet([i \in 1..(Len(rows) - 1) |-> Seconds(i)], 1..(Len(rows) - 1))

UpOf == [run \in 1..runs |-> Uptime(run)]
UpTotal == SumFunctionOnSet(UpOf, 1..runs)

(* Rows of an earlier launch leave a gap for each launch since.            *)
HoursInv ==
  Len(rows) > 0 => Hours <= UpTotal + MaxGap * (rows[Len(rows)].run - 1)

LEMMA HoursTyped ==
  ASSUME TypeOK, RowsInv
  PROVE  /\ Hours \in Nat /\ UpTotal \in Nat /\ IsFiniteSet(1..runs)
         /\ \A run \in 1..runs : UpOf[run] \in Nat
<1>1. IsFiniteSet(1..(Len(rows) - 1)) /\ \A i \in 1..(Len(rows) - 1) : Seconds(i) \in Nat
  BY CountedFinite, RowFigures
<1>2. runs \in Int /\ 1 \in Int
  BY DEF TypeOK
<1>3. IsFiniteSet(1..runs) /\ \A run \in 1..runs : Uptime(run) \in Nat
  BY <1>2, FS_Interval, UptimeTyped
<1>4. \A run \in 1..runs : UpOf[run] \in Nat
  BY <1>3 DEF UpOf
<1>5. UpTotal \in Nat
  BY <1>3, <1>4, SumNat DEF UpTotal
<1>6. Hours \in Nat
  <2> DEFINE f == [i \in 1..(Len(rows) - 1) |-> Seconds(i)]
  <2>1. \A i \in 1..(Len(rows) - 1) : f[i] \in Nat
    BY <1>1
  <2> HIDE DEF f
  <2>2. SumFunctionOnSet(f, 1..(Len(rows) - 1)) \in Nat
    BY <1>1, <2>1, SumNat
  <2>3. QED
    BY <2>2 DEF Hours, f
<1>7. QED
  BY <1>3, <1>4, <1>5, <1>6

(* A launch adds no time to the sums.                                      *)
LEMMA HoursKept ==
  ASSUME TypeOK, RowsInv, rows' = rows, runs' \in {runs, runs + 1}
  PROVE  Hours' = Hours /\ UpTotal' = UpTotal
<1>1. Hours' = Hours
  BY DEF Hours, Seconds
<1>2. \A run \in 1..runs : UpOf[run] = Uptime(run)
  BY DEF UpOf
<1>3. \A run \in 1..runs' : UpOf'[run] = Uptime(run)
  BY DEF UpOf, Uptime, TimesOf
<1>4. CASE runs' = runs
  <2>1. \A run \in 1..runs : UpOf[run] = UpOf'[run]
    BY <1>2, <1>3, <1>4
  <2>2. SumFunctionOnSet(UpOf, 1..runs) = SumFunctionOnSet(UpOf', 1..runs)
    BY <2>1, HoursTyped, SumSame
  <2>3. QED
    BY <1>1, <1>4, <2>2 DEF UpTotal
<1>5. CASE runs' = runs + 1
  <2>1. runs \in Nat /\ 1..(runs + 1) = (1..runs) \cup {runs + 1} /\ runs + 1 \notin 1..runs
    BY DEF TypeOK
  <2>2. Uptime(runs + 1) = 0
    <3>1. \A k \in 1..Len(rows) : rows[k].run # runs + 1
      BY <2>1 DEF RowsInv
    <3>2. TimesOf(runs + 1) = {}
      BY <3>1 DEF TimesOf
    <3>3. QED
      BY <3>2 DEF Uptime, Span
  <2>3. UpOf'[runs + 1] = 0
    BY <1>3, <1>5, <2>1, <2>2
  <2>4. \A run \in 1..runs : UpOf[run] \in Int /\ UpOf'[run] = UpOf[run]
    BY <1>2, <1>3, <1>5, <2>1, HoursTyped
  <2>5. PICK f : f = UpOf'
    OBVIOUS
  <2>6. SumFunctionOnSet(f, (1..runs) \cup {runs + 1}) =
          SumFunctionOnSet(UpOf, 1..runs) + f[runs + 1]
    <3> DEFINE S == 1..runs
               a == runs + 1
    <3>1. IsFiniteSet(S) /\ a \notin S /\ f[a] \in Int
          /\ \A run \in S : UpOf[run] \in Int /\ f[run] = UpOf[run]
      BY <2>1, <2>3, <2>4, <2>5, HoursTyped
    <3> HIDE DEF S, a
    <3>2. SumFunctionOnSet(f, S \cup {a}) = SumFunctionOnSet(UpOf, S) + f[a]
      BY <3>1, SumGains
    <3>3. QED
      BY <3>2 DEF S, a
  <2>7. UpTotal' = UpTotal + 0 /\ UpTotal \in Nat
    BY <1>5, <2>1, <2>3, <2>5, <2>6, HoursTyped DEF UpTotal
  <2>8. QED
    BY <1>1, <2>7
<1>6. QED
  BY <1>4, <1>5

(* A row adds the seconds since the one before, of its launch's time or of *)
(* the gap.                                                                *)
LEMMA HoursLogged ==
  ASSUME TypeOK, RowsInv, RowsInv', NEW n \in Nat, NEW d \in Decision, Logged(n, d)
  PROVE  /\ n = 0 => Hours' = 0
         /\ n > 0 => Hours' = Hours + Seconds(n)'
         /\ UpTotal' = UpTotal + (Uptime(runs)' - Uptime(runs))
<1>1. /\ n = Len(rows) /\ Len(rows') = n + 1 /\ \A i \in 1..n : rows'[i] = rows[i]
      /\ runs > 0 /\ runs' = runs
  BY DEF Logged
<1>2. ASSUME n = 0 PROVE Hours' = 0
  <2>1. 1..(Len(rows') - 1) = {}
    BY <1>1, <1>2
  <2>2. PICK f : f = [i \in 1..(Len(rows') - 1) |-> Seconds(i)']
    OBVIOUS
  <2>3. Hours' = SumFunctionOnSet(f, {})
    BY <2>1, <2>2 DEF Hours
  <2>4. QED
    BY <1>2, <2>3, SumEmpty
<1>3. ASSUME n > 0 PROVE Hours' = Hours + Seconds(n)'
  <2> DEFINE f == [i \in 1..(n - 1) |-> Seconds(i)]
             g == [i \in 1..n |-> Seconds(i)']
  <2>1. (n + 1) - 1 = n /\ 1..n = (1..(n - 1)) \cup {n} /\ n \notin 1..(n - 1)
    BY <1>3
  <2>2. Hours = SumFunctionOnSet(f, 1..(n - 1)) /\ Hours' = SumFunctionOnSet(g, 1..n)
    BY <1>1, <2>1 DEF Hours
  <2>3. \A i \in 1..(n - 1) : f[i] \in Int /\ g[i] = f[i]
    <3> SUFFICES ASSUME NEW i \in 1..(n - 1) PROVE Seconds(i) \in Int /\ Seconds(i)' = Seconds(i)
      BY <1>3
    <3>1. rows'[i] = rows[i] /\ rows'[i + 1] = rows[i + 1]
      BY <1>1, <1>3
    <3>2. QED
      BY <1>1, <3>1, RowFigures DEF Seconds
  <2>4. g[n] = Seconds(n)' /\ g[n] \in Int
    <3>1. n \in 1..n /\ n \in 1..Len(rows') /\ n + 1 \in 1..Len(rows')
      BY <1>1, <1>3
    <3>2. \A i \in 1..Len(rows') : rows'[i] \in Decision
      BY DEF RowsInv
    <3>3. rows'[n].time \in Nat /\ rows'[n + 1].time \in Nat /\ MaxGap \in Nat
      BY <3>1, <3>2, ReportAssumption DEF Decision
    <3>4. Seconds(n)' \in Int
      BY <3>3 DEF Seconds, AtLeastZero
    <3>5. QED
      BY <3>1, <3>4
  <2>5. IsFiniteSet(1..(n - 1))
    BY <1>1, CountedFinite
  <2> HIDE DEF f, g
  <2>6. SumFunctionOnSet(g, (1..(n - 1)) \cup {n}) = SumFunctionOnSet(f, 1..(n - 1)) + g[n]
    <3> DEFINE S == 1..(n - 1)
    <3>1. IsFiniteSet(S) /\ n \notin S /\ \A i \in S : f[i] \in Int /\ g[i] = f[i]
      BY <2>1, <2>3, <2>5
    <3> HIDE DEF S
    <3>2. SumFunctionOnSet(g, S \cup {n}) = SumFunctionOnSet(f, S) + g[n]
      BY <2>4, <3>1, SumGains
    <3>3. QED
      BY <3>2 DEF S
  <2>7. Hours' = Hours + Seconds(n)'
    BY <2>1, <2>2, <2>4, <2>6
  <2>8. QED
    BY <1>3, <2>7
<1>4. UpTotal' = UpTotal + (Uptime(runs)' - Uptime(runs))
  <2>1. runs \in 1..runs /\ IsFiniteSet(1..runs)
    BY <1>1, HoursTyped DEF TypeOK
  <2>2. PICK f : f = UpOf'
    OBVIOUS
  <2>3. f[runs] = Uptime(runs)' /\ f[runs] \in Int /\ UpOf[runs] = Uptime(runs)
    <3>1. Uptime(runs)' \in Nat
      BY UptimeLogged, UptimeTyped
    <3>2. QED
      BY <1>1, <2>1, <2>2, <3>1 DEF UpOf
  <2>4. \A run \in (1..runs) \ {runs} : f[run] = UpOf[run]
    BY <1>1, <2>2, UptimeLogged DEF UpOf
  <2>5. \A run \in 1..runs : UpOf[run] \in Int
    BY HoursTyped
  <2>6. SumFunctionOnSet(f, 1..runs) = SumFunctionOnSet(UpOf, 1..runs) + (f[runs] - UpOf[runs])
    BY <2>1, <2>3, <2>4, <2>5, SumUpdate
  <2>7. QED
    BY <1>1, <2>2, <2>3, <2>6 DEF UpTotal
<1>5. QED
  BY <1>2, <1>3, <1>4

LEMMA HoursStep ==
  /\ TypeOK /\ DecisionsInv /\ RowsInv /\ HoursInv
  /\ TypeOK' /\ RowsInv' /\ [ReportNext]_reportVars
  => HoursInv'
<1> SUFFICES ASSUME TypeOK, DecisionsInv, RowsInv, HoursInv, TypeOK', RowsInv',
                    [ReportNext]_reportVars
             PROVE  HoursInv'
  OBVIOUS
<1>1. MaxGap \in Nat /\ runs \in Nat /\ now \in Nat
  BY ReportAssumption DEF TypeOK
<1>2. CASE rows' = rows /\ runs' \in {runs, runs + 1}
  BY <1>2, HoursKept DEF HoursInv
<1>3. ASSUME NEW n \in Nat, NEW d \in Decision, Logged(n, d)
      PROVE  HoursInv'
  <2>1. /\ n = Len(rows) /\ Len(rows') = n + 1 /\ rows'[n + 1].run = runs /\ runs > 0
        /\ runs' = runs /\ rows'[n + 1].time = now /\ (n > 0 => rows'[n] = rows[n])
    BY <1>3 DEF Logged
  <2>2. PICK h \in Nat : h = Hours
    BY HoursTyped
  <2>3. PICK u \in Nat : u = UpTotal
    BY HoursTyped
  <2>4. PICK a \in Nat : a = Uptime(runs)
    BY UptimeTyped
  <2>5. PICK b \in Nat : b = Uptime(runs)'
    BY <1>3, UptimeLogged
  <2>6. UpTotal' = u + (b - a)
    BY <1>3, <2>3, <2>4, <2>5, HoursLogged
  <2>7. PICK k \in Nat : k = runs - 1
    BY <1>1, <2>1
  <2>8. PICK x \in Nat : x = MaxGap * k
    BY <1>1
  <2>9. PICK y \in Int : y = u + (b - a) + x
    OBVIOUS
  <2>10. CASE n = 0
    <3>1. a = 0 /\ b = 0 /\ Hours' = 0
      BY <1>3, <2>4, <2>5, <2>10, UptimeLogged, HoursLogged
    <3>2. Hours' <= UpTotal' + MaxGap * k
      BY <2>6, <2>8, <3>1
    <3>3. QED
      BY <2>1, <2>7, <2>10, <3>2 DEF HoursInv
  <2>11. CASE n > 0
    <3>1. n \in 1..Len(rows) /\ rows[n].run \in 1..runs
      BY <2>1, <2>11 DEF RowsInv
    <3>2. rows[n] \in Decision /\ rows[n].time \in Nat /\ rows[n].time <= now
      <4>1. \A i \in 1..Len(rows) : rows[i] \in Decision /\ rows[i].time <= now
        BY DEF RowsInv
      <4>2. QED
        BY <3>1, <4>1 DEF Decision
    <3>3. PICK q \in Nat : q = rows[n].run - 1
      BY <3>1
    <3>4. PICK z \in Nat : z = MaxGap * q
      BY <1>1
    <3>5. h <= u + z
      BY <2>1, <2>2, <2>3, <2>11, <3>3, <3>4 DEF HoursInv
    <3>6. PICK s \in Nat : s = Seconds(n)' /\ s <= MaxGap /\ s <= now - rows[n].time
      BY <1>1, <2>1, <2>11, <3>2 DEF Seconds, AtLeastZero
    <3>7. Hours' = h + s
      BY <1>3, <2>2, <2>11, <3>6, HoursLogged
    <3>8. CASE rows[n].run = runs
      <4>1. b = a + (now - rows[n].time) /\ z = x
        <5>1. b = a + (now - rows[n].time)
          BY <1>3, <2>4, <2>5, <2>11, <3>8, UptimeLogged
        <5>2. q = k
          BY <2>7, <3>3, <3>8
        <5>3. z = x
          BY <2>8, <3>4, <5>2, Zenon
        <5>4. QED
          BY <5>1, <5>3
      <4>2. h + s <= u + (b - a) + x
        <5>1. PICK t \in Nat : t = now - rows[n].time
          BY <1>1, <3>2
        <5>2. b = a + t /\ s <= t
          BY <3>6, <4>1, <5>1
        <5>3. QED
          BY <3>5, <4>1, <5>2
      <4>3. Hours' <= UpTotal' + MaxGap * k
        BY <2>6, <2>8, <3>7, <4>2
      <4>4. QED
        BY <2>1, <2>7, <4>3 DEF HoursInv
    <3>9. CASE rows[n].run # runs
      <4>1. a = 0 /\ b = 0
        BY <1>3, <2>4, <2>5, <3>9, UptimeLogged
      <4>2. q + 1 <= k
        BY <1>1, <2>7, <3>1, <3>3, <3>9
      <4>3. z + MaxGap <= x
        BY <1>1, <2>8, <3>4, <4>2
      <4>4. h + s <= u + (b - a) + x
        BY <1>1, <3>5, <3>6, <4>1, <4>3
      <4>5. Hours' <= UpTotal' + MaxGap * k
        BY <2>6, <2>8, <3>7, <4>4
      <4>6. QED
        BY <2>1, <2>7, <4>5 DEF HoursInv
    <3>10. QED
      BY <3>8, <3>9
  <2>12. QED
    BY <2>10, <2>11
<1>4. QED
  BY <1>2, <1>3, ReportMoves

(* Hours of the report are hours of one launch, but MaxGap per launch,     *)
(* whatever the sleeps and however long the daemon was down.               *)
THEOREM HoursRun == ReportSpec => []HoursWereRun
<1>1. ReportInit => HoursInv
  BY DEF ReportInit, HoursInv
<1>2. ASSUME TypeOK, RowsInv, HoursInv
      PROVE  HoursWereRun
  <2>1. Totals["seconds"] = Hours
    <3> DEFINE S == 1..(Len(rows) - 1)
               f == [i \in S |-> Seconds(i)]
               g == [i \in Counted |-> Seconds(i)]
    <3>1. /\ Counted \in SUBSET S /\ IsFiniteSet(S) /\ IsFiniteSet(Counted)
          /\ \A i \in S \ Counted : f[i] = 0
      BY <1>2, CountedFinite
    <3>2. \A i \in S : f[i] \in Int
      BY <1>2, RowFigures
    <3>3. \A i \in Counted : f[i] = g[i]
      BY <3>1
    <3>4. Hours = SumFunctionOnSet(f, S)
      BY DEF Hours
    <3>5. Totals["seconds"] = SumFunctionOnSet(g, Counted)
      BY <1>2, TotalsAddUp
    <3> HIDE DEF f, g, S
    <3>6. SumFunctionOnSet(f, S) = SumFunctionOnSet(f, Counted)
      BY <3>1, <3>2, SumNarrow
    <3>7. SumFunctionOnSet(f, Counted) = SumFunctionOnSet(g, Counted)
      BY <3>1, <3>3, SumSame
    <3>8. QED
      BY <3>4, <3>5, <3>6, <3>7
  <2>2. SumFunction([run \in 1..runs |-> Uptime(run)]) = UpTotal
    <3>1. DOMAIN UpOf = 1..runs
      BY DEF UpOf
    <3>2. SumFunction(UpOf) = UpTotal
      BY <3>1 DEF SumFunction, UpTotal
    <3>3. QED
      BY <3>2 DEF UpOf
  <2>3. PICK h \in Nat : h = Hours
    BY <1>2, HoursTyped
  <2>4. PICK u \in Nat : u = UpTotal
    BY <1>2, HoursTyped
  <2>5. MaxGap \in Nat /\ runs \in Nat
    BY <1>2, ReportAssumption DEF TypeOK
  <2>6. h <= u + MaxGap * AtLeastZero(runs - 1)
    <3>1. CASE Len(rows) = 0
      <4>1. h = 0
        <5>1. 1..(Len(rows) - 1) = {}
          BY <3>1
        <5>2. PICK f : f = [i \in 1..(Len(rows) - 1) |-> Seconds(i)]
          OBVIOUS
        <5>3. Hours = SumFunctionOnSet(f, {})
          BY <5>1, <5>2 DEF Hours
        <5>4. QED
          BY <2>3, <5>3, SumEmpty
      <4>2. PICK m \in Nat : m = AtLeastZero(runs - 1)
        BY <2>5 DEF AtLeastZero
      <4>3. MaxGap * m \in Nat
        BY <2>5
      <4>4. QED
        BY <4>1, <4>2, <4>3
    <3>2. CASE Len(rows) # 0
      <4>1. Len(rows) \in 1..Len(rows)
        BY <1>2, <3>2 DEF RowsInv
      <4>2. PICK q \in Nat : q = rows[Len(rows)].run - 1 /\ q <= runs - 1
        BY <1>2, <2>5, <4>1 DEF RowsInv
      <4>3. AtLeastZero(runs - 1) = runs - 1 /\ runs - 1 \in Nat
        BY <2>5, <4>2 DEF AtLeastZero
      <4>4. PICK k \in Nat : k = runs - 1
        BY <4>3
      <4>5. PICK x \in Nat : x = MaxGap * k
        BY <2>5
      <4>6. PICK z \in Nat : z = MaxGap * q
        BY <2>5
      <4>7. z <= x
        <5>1. PICK e \in Nat : k = q + e
          <6>1. k - q \in Nat /\ k = q + (k - q)
            BY <4>2, <4>4
          <6>2. QED
            BY <6>1
        <5>2. PICK v \in Nat : v = MaxGap * e
          BY <2>5
        <5>3. x = z + v
          BY <2>5, <4>5, <4>6, <5>1, <5>2
        <5>4. QED
          BY <5>3
      <4>8. h <= u + z
        BY <1>2, <2>3, <2>4, <4>1, <4>2, <4>6 DEF HoursInv
      <4>9. h <= u + x
        BY <4>7, <4>8
      <4>10. QED
        BY <4>3, <4>4, <4>5, <4>9
    <3>3. QED
      BY <3>1, <3>2
  <2>7. QED
    BY <2>1, <2>2, <2>3, <2>4, <2>6 DEF HoursWereRun
<1>3. QED
  BY <1>1, <1>2, RowsAlways, HoursStep, PTL DEF ReportSpec

====
