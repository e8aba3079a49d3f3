---- MODULE MCClusterController ----
(* Instances of ClusterController for TLC.                                 *)
EXTENDS ClusterController, TLC

CONSTANTS w1, w2

Symmetric == Permutations({w1, w2})

\* A receipt claims less than the escrow, or all of it.
HalfEscrow == {1}
WholeEscrow == {2}

AnyVerdict == BOOLEAN

====
