---- MODULE Enrollment ----
(***************************************************************************)
(* Which requests of workers the controller handles: enrollment.py,        *)
(* transport.py and verify_headers of controller.py, with the heartbeat    *)
(* and capability handlers and their writes of the registry.               *)
(*                                                                         *)
(* A request may arrive late, several times, or never.  The secret that    *)
(* the controller has for an enrolled worker is the worker's own; bodies   *)
(* and signatures are intact.                                              *)
(***************************************************************************)
EXTENDS Verification

CONSTANTS
  Remote,      \* the workers that speak to the controller
  DevSecret,   \* cluster.allow_dev_shared_secret
  MaxAge,      \* seconds that a request is accepted after its timestamp
  MaxSent, MaxClock   \* bounds: requests, seconds

ASSUME EnrollmentAssumption ==
  /\ Remote \subseteq Workers
  /\ DevSecret \in BOOLEAN
  /\ MaxAge \in Nat /\ MaxSent \in Nat /\ MaxClock \in Nat

VARIABLES
  clock,
  sent,       \* requests: nonce, worker, timestamp, path
  nonces,     \* transport_nonces
  enrolled,   \* worker_enrollments: the status
  handled     \* cluster_events of handled requests, with nonce and age

enrollVars == <<clock, sent, nonces, enrolled, handled>>

(* worker_from_config, and what register_worker keeps of an existing row.  *)
RecordOf(w) == IF w \in Registered THEN registry[w] ELSE NewRow(TRUE)

(* create_worker_enrollment of db.py: the row's status is overwritten.     *)
SetStatus(w, status) == enrolled' = [enrolled EXCEPT ![w] = status]

EnrollmentInit ==
  /\ clock = 0 /\ sent = {} /\ nonces = {} /\ handled = <<>>
  /\ enrolled \in [Remote -> {"none", "active"}]

(* Seconds count from the first request on.                                *)
Tick ==
  /\ clock < MaxClock /\ sent # {}
  /\ clock' = clock + 1
  /\ UNCHANGED <<sent, nonces, enrolled, handled, trustTables, procVars>>

(* sign_request: the time and a fresh nonce.                               *)
Send(w) ==
  /\ Cardinality(sent) < MaxSent
  /\ \E path \in {"heartbeat", "capability", "other"} :
       sent' = sent \union
                 {[nonce |-> Cardinality(sent) + 1, worker |-> w, ts |-> clock, path |-> path]}
  /\ UNCHANGED <<clock, nonces, enrolled, handled, trustTables, procVars>>

----
\* The controller

(* _secret_for_worker, get_active_worker_secret *)
HasSecret(w) == enrolled[w] = "active"

(* transport_nonce_seen *)
Seen(nonce) == nonce \in nonces

(* verify_request_signature, with a nonce cache that is new for each call: *)
(* what remains to be checked is the age of the timestamp.                 *)
SignatureVerifies(r) == clock - r.ts <= MaxAge

(* verify_headers.  What is turned down is answered with an error.         *)
Receive(p, r) ==
  /\ Begins(p, IF HasSecret(r.worker) /\ ~Seen(r.nonce) /\ SignatureVerifies(r)
               THEN [at |-> "nonce", request |-> r, age |-> clock - r.ts] ELSE Idle)
  /\ UNCHANGED <<enrollVars, trustTables>>

\* Mutant: a nonce is only kept in the cache of the call.
RecordNoNonce(p) ==
  /\ work[p].at = "nonce"
  /\ Goes(p, [work[p] EXCEPT !.at = work[p].request.path])
  /\ UNCHANGED <<enrollVars, trustTables>>

(* record_transport_nonce *)
StoreNonce(nonce) == nonces' = nonces \union {nonce}

(* The nonce is stored before the request is handled.                      *)
RecordNonce(p) ==
  /\ work[p].at = "nonce"
  /\ StoreNonce(work[p].request.nonce)
  /\ Goes(p, [work[p] EXCEPT !.at = work[p].request.path])
  /\ UNCHANGED <<clock, sent, enrolled, handled, trustTables>>

(* _event, insert_cluster_event *)
Handled(p) == handled' = Append(handled, [nonce |-> work[p].request.nonce, age |-> work[p].age])

(* update_worker_heartbeat *)
SetOnline(w) == registry' = [registry EXCEPT ![w].online = TRUE]

(* handle_heartbeat registers a worker that it does not know, and then     *)
(* marks it online.                                                        *)
HandleHeartbeat(p) ==
  /\ work[p].at = "heartbeat"
  /\ LET w == work[p].request.worker IN
       IF w \in Registered
       THEN /\ SetOnline(w)
            /\ Handled(p) /\ Goes(p, Idle)
       ELSE /\ registry' = [registry EXCEPT ![w] = NewRow(TRUE)]
            /\ Goes(p, work[p]) /\ UNCHANGED handled
  /\ UNCHANGED <<clock, sent, nonces, enrolled, committees, verdicts>>

(* handle_capability registers with the record that it read: register_     *)
(* worker reads the row and upserts all its columns.                       *)
HandleCapability(p) ==
  /\ work[p].at = "capability"
  /\ LET w == work[p].request.worker IN
       Goes(p, [at |-> "upsert", worker |-> w, request |-> work[p].request, age |-> work[p].age,
                row |-> RecordOf(w)])
  /\ UNCHANGED <<enrollVars, trustTables>>

(* A capability claim without models, which does not verify, or a          *)
(* challenge result, which is stored as it is and read by nothing.         *)
HandleOther(p) ==
  /\ work[p].at = "other"
  /\ Handled(p) /\ Goes(p, Idle)
  /\ UNCHANGED <<clock, sent, nonces, enrolled, trustTables>>

(* In development the worker is enrolled with the shared secret at once.   *)
Activates(p) ==
  /\ work[p].at = "activate"
  /\ SetStatus(work[p].worker, "active")
  /\ IF "request" \in DOMAIN work[p] THEN Handled(p) ELSE UNCHANGED handled
  /\ Goes(p, Idle)
  /\ UNCHANGED <<clock, sent, nonces, trustTables>>

\* Mutant: registration starts the record anew.
UpsertAnew(p) ==
  /\ work[p].at = "upsert"
  /\ registry' = [registry EXCEPT ![work[p].worker] = NewRow(TRUE)]
  /\ IF "request" \in DOMAIN work[p] /\ ~DevSecret THEN Handled(p) ELSE UNCHANGED handled
  /\ Goes(p, IF "request" \in DOMAIN work[p] /\ DevSecret THEN [work[p] EXCEPT !.at = "activate"]
             ELSE Idle)
  /\ UNCHANGED <<clock, sent, nonces, enrolled, committees, verdicts>>

(* The upsert, also the one of a daemon that registers itself.             *)
Upsert(p) ==
  /\ work[p].at = "upsert"
  /\ registry' = [registry EXCEPT ![work[p].worker] = [work[p].row EXCEPT !.online = TRUE]]
  /\ IF "request" \in DOMAIN work[p] /\ ~DevSecret THEN Handled(p) ELSE UNCHANGED handled
  /\ Goes(p, IF "request" \in DOMAIN work[p] /\ DevSecret THEN [work[p] EXCEPT !.at = "activate"]
             ELSE Idle)
  /\ UNCHANGED <<clock, sent, nonces, enrolled, committees, verdicts>>

ControllerStep(p) ==
  \/ \E r \in sent : Receive(p, r)
  \/ RecordNonce(p) \/ HandleHeartbeat(p) \/ HandleCapability(p) \/ HandleOther(p)
  \/ Upsert(p) \/ Activates(p)

----
\* A daemon registers itself; an operator runs enroll.py

RegisterLocal(p, w) ==
  /\ Begins(p, [at |-> "upsert", worker |-> w,
                row |-> RecordOf(w)])
  /\ UNCHANGED <<enrollVars, trustTables>>

(* --create-worker and --revoke-worker.                                    *)
Create(p, w) ==
  /\ Begins(p, Idle)
  /\ SetStatus(w, "pending")
  /\ UNCHANGED <<clock, sent, nonces, handled, trustTables>>

Revoke(p, w) ==
  /\ enrolled[w] # "none"
  /\ Begins(p, Idle)
  /\ SetStatus(w, "revoked")
  /\ UNCHANGED <<clock, sent, nonces, handled, trustTables>>

(* --activate-worker: a worker without a row gets a pending one first.     *)
Activate(p, w) ==
  /\ Begins(p, [at |-> "activate", worker |-> w])
  /\ SetStatus(w, IF enrolled[w] = "none" THEN "pending" ELSE enrolled[w])
  /\ UNCHANGED <<clock, sent, nonces, handled, trustTables>>

====
