---- MODULE MCWorkerTrust ----
(* An instance of WorkerTrust for TLC.                                     *)
EXTENDS WorkerTrust

\* Workers 2 and 3 have one operator.
Ops == 1 :> "a" @@ 2 :> "b" @@ 3 :> "b"
Regions == 1 :> "x" @@ 2 :> "x" @@ 3 :> "y"
OneDaemon == "d" :> 1
====
