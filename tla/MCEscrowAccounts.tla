---- MODULE MCEscrowAccounts ----
(* Instances of EscrowAccounts for TLC.                                    *)
EXTENDS EscrowAccounts, TLC

CONSTANTS alice, j1, j2, w1, w2, controller

\* The escrows of both jobs are held in one balance.
OneOwner == j1 :> alice @@ j2 :> alice

\* 2 and 3 differ by the tolerance of the balance checks, and the fee of 40
\* percent is rounded for both; 0 is a served value of nothing.
UnevenAmounts == {2, 3}

AnyReason == BOOLEAN
OtherReasons == {FALSE}

====
