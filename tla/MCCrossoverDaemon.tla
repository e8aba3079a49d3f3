---- MODULE MCCrossoverDaemon ----
(* An instance of the crossover daemon and its report for TLC.             *)
EXTENDS RevenueReport

\* What the feeds below can amount to.
Gathered == {Nets(reading) : reading \in Readings}

====
