---- MODULE WorkerTrust ----
(***************************************************************************)
(* Daemons, the controller and an operator on one database: which workers  *)
(* are heard, how their work is judged, and the record that the router     *)
(* sees.                                                                   *)
(***************************************************************************)
EXTENDS Enrollment

CONSTANTS
  DaemonOf,     \* the worker of each daemon process
  Controllers,  \* the controller's process
  Operators     \* processes of enroll.py and of the decay

ASSUME WorkerTrustAssumption ==
  /\ \A p \in DOMAIN DaemonOf : DaemonOf[p] \in Workers
  /\ Procs = DOMAIN DaemonOf \union Controllers \union Operators

vars == <<procVars, trustTables, enrollVars>>

Init == ProcInit /\ VerificationInit /\ EnrollmentInit

DaemonStep(p) ==
  \/ RegisterLocal(p, DaemonOf[p]) \/ Upsert(p)
  \/ (Check(p, DaemonOf[p]) \/ VerificationStep(p)) /\ UNCHANGED enrollVars

OperatorStep(p) ==
  \/ \E w \in Remote : Create(p, w) \/ Revoke(p, w) \/ Activate(p, w)
  \/ Activates(p)
  \/ (\E w \in Remote : ReadDecay(p, w)) /\ UNCHANGED enrollVars
  \/ WriteRecord(p) /\ UNCHANGED enrollVars

Killed == \E p \in Procs : Kill(p) /\ UNCHANGED <<trustTables, enrollVars>>

Next ==
  \/ \E p \in DOMAIN DaemonOf : DaemonStep(p)
  \/ \E p \in Controllers : ControllerStep(p)
  \/ \E p \in Operators : OperatorStep(p)
  \/ \E w \in Remote : Send(w)
  \/ Tick \/ Killed

Spec == Init /\ [][Next]_vars

----
\* Properties

(***************************************************************************)
(* A request is handled at most once, and within its time, although it may *)
(* arrive again and the controller may be killed and started again         *)
(* (verify_headers stores the nonce before the handler runs).              *)
(***************************************************************************)
HandledOnce ==
  /\ \A i, k \in DOMAIN handled : handled[i].nonce = handled[k].nonce => i = k
  /\ \A i \in DOMAIN handled : handled[i].age <= MaxAge

(***************************************************************************)
(* Work is accepted only when Quorum other workers voted for it, however   *)
(* few verifiers were online and wherever a daemon was killed (committees  *)
(* are enabled).                                                           *)
(***************************************************************************)
AcceptedByQuorum ==
  \A i \in DOMAIN verdicts :
    verdicts[i].accepted =>
      LET c == committees[verdicts[i].committee] IN
      /\ c.result = "accepted" /\ c.code = None /\ c.worker = verdicts[i].worker
      /\ Cardinality(VotesFor(c, "accepted")) >= Quorum
      /\ DOMAIN c.votes = c.members /\ c.worker \notin c.members

(***************************************************************************)
(* A worker's counts never exceed the verdicts on it, and equal them while *)
(* processes take turns and none is killed: registration and decay keep    *)
(* them (update_worker_reputation and register_worker read, then write).   *)
(***************************************************************************)
RecordMatchesVerdicts ==
  \A w \in Registered :
    LET judged(a) == Cardinality({i \in DOMAIN verdicts : verdicts[i].worker = w
                                                          /\ verdicts[i].accepted = a})
    IN  /\ registry[w].ok <= judged(TRUE) /\ registry[w].bad <= judged(FALSE)
        /\ inTurn /\ crashes = 0 /\ Idling =>
             registry[w].ok = judged(TRUE) /\ registry[w].bad = judged(FALSE)

(* Neither average of a row is better than the other row's, and both rows  *)
(* have it measured or neither has.                                        *)
NoBetter(a, b) ==
  /\ a.ms = 0 <=> b.ms = 0
  /\ a.joules = 0 <=> b.joules = 0
  /\ a.ms * Jobs(b) >= b.ms * Jobs(a)
  /\ a.joules * Jobs(b) >= b.joules * Jobs(a)

(***************************************************************************)
(* A worker that has only failed never scores as high as a newcomer,       *)
(* however fast and thrifty its receipts are, whoever else reads, decays   *)
(* or registers it meanwhile.  While processes take turns a failure makes  *)
(* the router prefer a worker more only if it improved an average, and a   *)
(* success less only if it worsened one.  For the first receipt, whose     *)
(* averages take the place of the neutral values, a failure does not while *)
(* the reputation can still fall by two points, and a success does not     *)
(* when they are worth as much.                                            *)
(***************************************************************************)
RoutingFollowsRecord ==
  [][\A w \in Registered :
       LET old == registry[w]
           new == registry'[w]
       IN  /\ new.bad > 0 /\ new.ok = 0 => Score(new) < Score(NewRow(TRUE))
           /\ inTurn /\ new.bad > old.bad =>
                IF Jobs(old) > 0 THEN NoBetter(new, old) => Score(new) <= Score(old)
                ELSE old.rep >= 2 * Point => Score(new) <= Score(old)
           /\ inTurn /\ new.ok > old.ok =>
                IF Jobs(old) > 0 THEN NoBetter(old, new) => Score(new) >= Score(old)
                ELSE Speed(new) + Thrift(new) >= 8 * Point => Score(new) >= Score(old)]_vars

====
