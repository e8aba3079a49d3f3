---- MODULE MCLocalPool ----
(* An instance of LocalPool for TLC.                                       *)
EXTENDS LocalPool

CONSTANTS p1, p2, w1, w2, a0, a1

\* Two job files with the same job id; the first has a prompt.
TwoFiles == <<[job |-> "j1", qi |-> 3, sensitive |-> TRUE],
              [job |-> "j1", qi |-> 3, sensitive |-> FALSE]>>
TwoWorkers == p1 :> w1 @@ p2 :> w2
\* An agent that is closed, and its successor.
AgentOfFirst == <<[agent |-> a0, worker |-> w1, active |-> FALSE],
                  [agent |-> a1, worker |-> w1, active |-> TRUE]>>
====
