---- MODULE MCSettlementLedger ----
(* Instances of SettlementLedger for TLC.                                  *)
EXTENDS SettlementLedger, TLC

CONSTANTS customer, worker, j1, j2, p1

OpeningBalances == {0, 7}

\* Jobs of no tokens and of three; two and four tokens served of three.
SomeTokens == {0, 2, 3, 4}

\* Free, divisible by three, not divisible by three.
SomeQuotes == {0, 3, 5}

====
