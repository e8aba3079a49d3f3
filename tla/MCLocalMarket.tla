---- MODULE MCLocalMarket ----
(* Instances of LocalMarket for TLC.                                       *)
EXTENDS LocalMarket, TLC

CONSTANTS w1, w2

Symmetric == Permutations({w1, w2})

\* Router and daemons run side by side, or in turn with jobs that expire;
\* one of the workers may lack the model.
SideBySideOrInTurn ==
  {r \in [together : BOOLEAN, expiring : {{}, Jobs}, serves : {Workers, {w1}, {w2}}] :
     r.together <=> r.expiring = {}}

====
