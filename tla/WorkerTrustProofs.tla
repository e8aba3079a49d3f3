---- MODULE WorkerTrustProofs ----
(***************************************************************************)
(* Theorems about WorkerTrust: any number of daemons, operators, workers   *)
(* and requests, with any committee size and quorum, killed anywhere.      *)
(***************************************************************************)
EXTENDS WorkerTrust, SumLemmas

\* Types

\* Reputations, in 240ths of a point.
Ratings == {n \in Int : 0 <= n /\ n <= 24000}

(* A worker starts with 50 points and gains one by each acceptance; a      *)
(* failure costs at least 3.                                               *)
Earned(r) ==
  r.rep <= 12000 + 240 * r.ok /\ (r.bad > 0 => r.rep <= 11280 + 240 * r.ok)

Row ==
  {r \in [rep : Ratings, ok : Nat, bad : Nat, ms : Nat, joules : Nat, online : BOOLEAN] :
     Earned(r)}

(* Rows that differ at most in whether the worker is online.               *)
SameRecord(r, row) ==
  r.rep = row.rep /\ r.ok = row.ok /\ r.bad = row.bad /\ r.ms = row.ms /\ r.joules = row.joules

Request == [nonce : Nat, worker : Remote, ts : Nat, path : {"heartbeat", "capability", "other"}]

Panels == {M \in SUBSET Workers : IsFiniteSet(M)}

Ballots == UNION {[V -> Votes] : V \in Panels}

Codes == {None, "QUORUM_NOT_REACHED", "COMMITTEE_REJECTED", "COMMITTEE_DISPUTED"}

Committee == [worker : Workers, members : Panels, votes : Ballots, result : Votes \cup {"open"},
              code : Codes, suspicion : Int]

Verdict == [worker : Workers, accepted : BOOLEAN, committee : Nat]

Reasons == {None, "CHALLENGE_EXPIRED", "CHALLENGE_FAILED", "COMMAND_FAILED", "VERIFICATION_FAILED",
            "COMMITTEE_REJECTED", "COMMITTEE_DISPUTED"}

Judging == [at : {"select", "vote", "finalize", "receipt", "read"}, worker : Workers,
            reason : Reasons, committee : Nat]
Writing == [at : {"write"}, worker : Workers, row : Row]
Hearing == [at : {"nonce", "heartbeat", "capability", "other"}, request : Request, age : Int]
Enrolling == [at : {"upsert", "activate"}, worker : Remote, request : Request, age : Int,
              row : Row]
Registering == [at : {"upsert"}, worker : Workers, row : Row]
Activating == [at : {"activate"}, worker : Remote]

Work == {Idle} \cup Judging \cup Writing \cup Hearing \cup Enrolling \cup Registering
          \cup Activating

TurnsTyped ==
  work \in [Procs -> Work] /\ inTurn \in BOOLEAN /\ ops \in Nat /\ crashes \in Nat

TablesTyped ==
  /\ registry \in [Workers -> Row \cup {NoRow}]
  /\ committees \in Seq(Committee) /\ verdicts \in Seq(Verdict)
  /\ clock \in Nat /\ sent \subseteq Request /\ IsFiniteSet(sent) /\ nonces \subseteq Nat
  /\ enrolled \in [Remote -> {"none", "pending", "active", "revoked"}]
  /\ handled \in Seq([nonce : Nat, age : Int])

(* The rows that a process has read are there.                             *)
RowsThere(o) ==
  /\ o \in Judging \cup Writing => registry[o.worker] \in Row
  /\ o.at \in {"vote", "finalize"} => o.committee \in DOMAIN committees

(* The types of the tables, and what a process holds in its hands at each  *)
(* of its steps.                                                           *)
TypeOK == TurnsTyped /\ TablesTyped /\ \A p \in Procs : RowsThere(work[p])

----
\* Invariants

(* The record after an acceptance, after a failure, and after either.      *)
Praised(row, ms, joules) ==
  [row EXCEPT !.ms = @ + ms, !.joules = @ + joules, !.rep = Clamped(@ + Point), !.ok = @ + 1]
Blamed(row, reason, ms, joules) ==
  [row EXCEPT !.ms = @ + ms, !.joules = @ + joules,
              !.rep = Clamped(@ - (Cost(reason) * Point + Streak(row))), !.bad = @ + 1]
Follows(new, old, reason) ==
  \E ms \in Nat, joules \in Nat :
    new = IF reason = None THEN Praised(old, ms, joules) ELSE Blamed(old, reason, ms, joules)

(* A process whose committee is still open.                                *)
InSession(o) == o.at \in {"vote", "finalize"}

(* What AcceptedByQuorum says of the committee behind a verdict.           *)
Accepts(c, w) ==
  /\ c.result = "accepted" /\ c.code = None /\ c.worker = w
  /\ Cardinality(VotesFor(c, "accepted")) >= Quorum
  /\ DOMAIN c.votes = c.members /\ c.worker \notin c.members

Decided(k, w) == k \in DOMAIN committees /\ Accepts(committees[k], w)

(* Whose committee is in session, what has been cast there, and that an    *)
(* accepted receipt has a committee behind it.                             *)
Seated(o) ==
  /\ InSession(o) =>
       LET c == committees[o.committee] IN
       /\ c.result = "open" /\ c.worker = o.worker /\ c.worker \notin c.members
       /\ DOMAIN c.votes \subseteq c.members
       /\ o.at = "finalize" <=> DOMAIN c.votes = c.members
  /\ o.at = "receipt" /\ o.reason = None => Decided(o.committee, o.worker)

(* A committee belongs to one process while it is in session.              *)
CommitteesInv ==
  /\ \A p \in Procs : Seated(work[p])
  /\ \A p, q \in Procs : InSession(work[p]) /\ InSession(work[q])
                         /\ work[p].committee = work[q].committee => p = q
  /\ \A i \in DOMAIN verdicts :
       verdicts[i].accepted => Decided(verdicts[i].committee, verdicts[i].worker)

(* A request in a process's hands has not been handled, and its nonce is   *)
(* stored from the step before the handler on.                             *)
Heard(o) ==
  /\ o.age <= MaxAge
  /\ o.at = "nonce" <=> o.request.nonce \notin nonces
  /\ \A i \in DOMAIN handled : handled[i].nonce # o.request.nonce

NoncesInv ==
  /\ \A p \in Procs : "request" \in DOMAIN work[p] => p \in Controllers /\ Heard(work[p])
  /\ \A i \in DOMAIN handled : handled[i].nonce \in nonces
  /\ HandledOnce

Count(row, a) == IF a THEN row.ok ELSE row.bad

(* The verdicts on a worker, and those that are not in its record yet.     *)
Judgements(w, a) == {i \in DOMAIN verdicts : verdicts[i].worker = w /\ verdicts[i].accepted = a}
Unread(o, w, a) == o.at = "read" /\ o.worker = w /\ (o.reason = None) = a
Pending(w, a) == {p \in Procs : Unread(work[p], w, a)}

(* A row of w in a process's hands.                                        *)
HoldsRow(o, w) == o.at \in {"write", "upsert"} /\ o.worker = w

WithPending(row, w, a) == Count(row, a) + Cardinality(Pending(w, a))

(* No row, wherever it is, counts more than the verdicts that have been    *)
(* read; with nobody killed, processes that take turns miss none.          *)
RecordInv ==
  \A w \in Workers, a \in BOOLEAN :
    LET all == Cardinality(Judgements(w, a)) IN
    /\ WithPending(RecordOf(w), w, a) <= all
    /\ \A p \in Procs : HoldsRow(work[p], w) => WithPending(work[p].row, w, a) <= all
    /\ inTurn /\ crashes = 0 =>
         /\ \A p \in Procs : HoldsRow(work[p], w) => WithPending(work[p].row, w, a) = all
         /\ (\A p \in Procs : work[p].at = "write" => work[p].worker # w) =>
              WithPending(RecordOf(w), w, a) = all

OneAtATime ==
  inTurn => \A p, q \in Procs : work[p] # Idle /\ work[q] # Idle => p = q

(* What a process that has the turn has read is still there.               *)
CurrentRows ==
  inTurn => \A p \in Procs :
    LET o == work[p] IN
    /\ o.at = "upsert" => o.row = RecordOf(o.worker)
    /\ o.at = "write" =>
         \/ \E reason \in Reasons : Follows(o.row, registry[o.worker], reason)
         \/ \E days \in Days : o.row = Decayed(registry[o.worker], days)

----
\* What a process holds at each step

LEMMA WorkByAt ==
  ASSUME NEW o \in Work
  PROVE  /\ o = Idle <=> o.at = "idle"
         /\ o.at \in {"select", "vote", "finalize", "receipt", "read"} <=> o \in Judging
         /\ o.at = "write" <=> o \in Writing
         /\ o.at \in {"nonce", "heartbeat", "capability", "other"} <=> o \in Hearing
         /\ o.at = "upsert" => o \in Enrolling \cup Registering
         /\ o.at = "activate" => o \in Enrolling \cup Activating
         /\ o \in Enrolling => o.at \in {"upsert", "activate"}
         /\ o \in Registering => o.at = "upsert"
         /\ o \in Activating => o.at = "activate"
  BY DEF Work, Idle, Judging, Writing, Hearing, Enrolling, Registering, Activating

LEMMA IdleIsWork == Idle \in Work /\ Idle.at = "idle"
  BY DEF Work, Idle

(* Whether a process is in a controller's request.                         *)
LEMMA RequestInHand ==
  ASSUME NEW o \in Work
  PROVE  "request" \in DOMAIN o <=> o \in Hearing \cup Enrolling
  BY DEF Work, Idle, Judging, Writing, Hearing, Enrolling, Registering, Activating

LEMMA NoRowIsNone ==
  /\ NoRow \notin Row
  /\ \A r \in Row \cup {NoRow} : r # NoRow <=> r \in Row
<1>1. "none" \in DOMAIN NoRow
  BY DEF NoRow
<1>2. \A r \in Row : "none" \notin DOMAIN r
  BY DEF Row
<1>3. NoRow \notin Row
  BY <1>1, <1>2
<1>4. QED
  BY <1>3

LEMMA RegisteredRows ==
  ASSUME TablesTyped, NEW w \in Workers
  PROVE  w \in Registered <=> registry[w] \in Row
  BY NoRowIsNone DEF TablesTyped, Registered

(* What appending to a table does, row by row.                             *)
LEMMA AppendRow ==
  ASSUME NEW R, NEW table \in Seq(R), NEW r \in R
  PROVE  LET n == Len(table)
             longer == Append(table, r)
         IN  /\ n \in Nat /\ DOMAIN table = 1..n
             /\ longer \in Seq(R) /\ Len(longer) = n + 1 /\ DOMAIN longer = 1..(n + 1)
             /\ \A i \in 1..n : longer[i] = table[i]
             /\ longer[n + 1] = r
  OBVIOUS

LEMMA RowInTable ==
  ASSUME NEW R, NEW table \in Seq(R), NEW i \in DOMAIN table
  PROVE  table[i] \in R /\ i \in Nat \ {0} /\ DOMAIN table = 1..Len(table) /\ Len(table) \in Nat
  OBVIOUS

----
\* The record

LEMMA ClampedBounds ==
  ASSUME NEW n \in Int
  PROVE  /\ Clamped(n) \in Ratings
         /\ Clamped(n) \in Int /\ 0 <= Clamped(n) /\ Clamped(n) <= 24000
         /\ n <= 24000 => Clamped(n) >= n
         /\ n > 24000 => Clamped(n) = 24000
         /\ n >= 0 => Clamped(n) <= n
         /\ n < 0 => Clamped(n) = 0
<1>1. PICK m : m = AtLeast0(n)
  OBVIOUS
<1>2. m \in Int /\ 0 <= m /\ m >= n /\ (n >= 0 => m = n) /\ (n < 0 => m = 0)
  BY <1>1 DEF AtLeast0
<1>3. Clamped(n) = IF m > 24000 THEN 24000 ELSE m
  <2>1. 100 * Point = 24000
    BY DEF Point
  <2>2. QED
    BY <1>1, <2>1 DEF Clamped, AtMost
<1>4. Clamped(n) \in Int /\ 0 <= Clamped(n) /\ Clamped(n) <= 24000
  BY <1>2, <1>3
<1>5. Clamped(n) \in Ratings
  BY <1>4 DEF Ratings
<1>6. QED
  BY <1>2, <1>3, <1>4, <1>5

LEMMA CostBounds ==
  ASSUME NEW reason
  PROVE  Cost(reason) \in {3, 7, 10}
  BY DEF Cost

LEMMA StreakBounds ==
  ASSUME NEW row \in Row
  PROVE  Streak(row) \in Nat
<1>1. row.bad \in Nat
  BY DEF Row
<1>2. Point \div 2 = 120 /\ 10 * Point = 2400
  BY DEF Point
<1>3. PICK n : n = AtLeast0(row.bad - 1)
  OBVIOUS
<1>4. n \in Nat
  BY <1>1, <1>3 DEF AtLeast0
<1>5. Streak(row) = IF n * 3 * 120 > 2400 THEN 2400 ELSE n * 3 * 120
  BY <1>2, <1>3 DEF Streak, AtMost
<1>6. QED
  BY <1>4, <1>5

LEMMA RowFields ==
  ASSUME NEW row \in Row
  PROVE  /\ row.rep \in Ratings /\ row.rep \in Int /\ 0 <= row.rep /\ row.rep <= 24000
         /\ row.ok \in Nat /\ row.bad \in Nat /\ row.ms \in Nat /\ row.joules \in Nat
         /\ row.online \in BOOLEAN
         /\ row.rep <= 12000 + 240 * row.ok /\ (row.bad > 0 => row.rep <= 11280 + 240 * row.ok)
  BY DEF Row, Ratings, Earned

(* A verdict adds one to its count and leaves the other, and an acceptance *)
(* never lowers the reputation, nor a failure raises it.                   *)
LEMMA PraisedRow ==
  ASSUME NEW row \in Row, NEW ms \in Nat, NEW joules \in Nat
  PROVE  LET new == Praised(row, ms, joules) IN
         /\ new \in Row /\ new.online = row.online
         /\ new.ok = row.ok + 1 /\ new.bad = row.bad /\ new.rep >= row.rep
<1>1. PICK n \in Int : n = row.rep + Point
  BY RowFields DEF Point
<1>2. PICK rep \in Ratings : rep = Clamped(n)
  BY ClampedBounds
<1>3. rep >= row.rep /\ rep <= row.rep + 240 /\ rep \in Int
  BY <1>1, <1>2, RowFields, ClampedBounds DEF Point
<1>4. PICK new : new = Praised(row, ms, joules)
  OBVIOUS
<1>5. new = [rep |-> rep, ok |-> row.ok + 1, bad |-> row.bad, ms |-> row.ms + ms,
             joules |-> row.joules + joules, online |-> row.online]
  BY <1>1, <1>2, <1>4 DEF Praised, Row
<1>6. /\ new.rep = rep /\ new.ok = row.ok + 1 /\ new.bad = row.bad
      /\ new \in [rep : Ratings, ok : Nat, bad : Nat, ms : Nat, joules : Nat, online : BOOLEAN]
  BY <1>5, RowFields
<1>7. Earned(new)
  BY <1>3, <1>6, RowFields DEF Earned
<1>8. QED
  BY <1>3, <1>4, <1>5, <1>6, <1>7 DEF Row

LEMMA BlamedRow ==
  ASSUME NEW row \in Row, NEW reason, NEW ms \in Nat, NEW joules \in Nat
  PROVE  LET new == Blamed(row, reason, ms, joules) IN
         /\ new \in Row /\ new.online = row.online
         /\ new.bad = row.bad + 1 /\ new.ok = row.ok
         /\ new.rep <= row.rep /\ (new.rep = 0 \/ new.rep <= row.rep - 720)
<1>1. PICK d : d = Cost(reason) * Point + Streak(row)
  OBVIOUS
<1>2. d \in Nat /\ d >= 720
  BY <1>1, CostBounds, StreakBounds DEF Point
<1>3. PICK n \in Int : n = row.rep - d
  BY <1>2, RowFields
<1>4. PICK rep \in Ratings : rep = Clamped(n)
  BY ClampedBounds
<1>5. rep \in Int /\ 0 <= rep /\ rep <= row.rep /\ (rep = 0 \/ rep <= row.rep - 720)
  BY <1>2, <1>3, <1>4, RowFields, ClampedBounds DEF Ratings
<1>6. PICK new : new = Blamed(row, reason, ms, joules)
  OBVIOUS
<1>7. new = [rep |-> rep, ok |-> row.ok, bad |-> row.bad + 1, ms |-> row.ms + ms,
             joules |-> row.joules + joules, online |-> row.online]
  BY <1>1, <1>3, <1>4, <1>6 DEF Blamed, Row
<1>8. /\ new.rep = rep /\ new.ok = row.ok /\ new.bad = row.bad + 1
      /\ new \in [rep : Ratings, ok : Nat, bad : Nat, ms : Nat, joules : Nat, online : BOOLEAN]
  BY <1>7, RowFields
<1>9. Earned(new)
  BY <1>5, <1>8, RowFields DEF Earned
<1>10. QED
  BY <1>5, <1>6, <1>7, <1>8, <1>9 DEF Row

LEMMA FollowingRow ==
  ASSUME NEW old \in Row, NEW reason, NEW new, Follows(new, old, reason)
  PROVE  /\ new \in Row
         /\ reason = None => new.ok = old.ok + 1 /\ new.bad = old.bad /\ new.rep >= old.rep
         /\ reason # None => /\ new.bad = old.bad + 1 /\ new.ok = old.ok
                             /\ new.rep <= old.rep /\ (new.rep = 0 \/ new.rep <= old.rep - 720)
<1>1. PICK ms \in Nat, joules \in Nat :
        new = IF reason = None THEN Praised(old, ms, joules) ELSE Blamed(old, reason, ms, joules)
  BY DEF Follows
<1>2. QED
  BY <1>1, PraisedRow, BlamedRow

LEMMA DecayedRow ==
  ASSUME NEW row \in Row, NEW days \in Nat
  PROVE  LET new == Decayed(row, days) IN
         new \in Row /\ new.ok = row.ok /\ new.bad = row.bad
<1>1. Point \div 4 = 60 /\ 2 * Point = 480
  BY DEF Point
<1>2. PICK n \in Int : n = row.rep - days * (Point \div 4) - (IF row.online THEN 0 ELSE 2 * Point)
  BY <1>1, RowFields
<1>3. PICK rep \in Ratings : rep = Clamped(n)
  BY ClampedBounds
<1>4. rep \in Int /\ rep <= row.rep
  <2>1. n <= row.rep
    BY <1>1, <1>2, RowFields
  <2>2. QED
    BY <1>2, <1>3, <2>1, RowFields, ClampedBounds
<1>5. PICK new : new = Decayed(row, days)
  OBVIOUS
<1>6. new = [row EXCEPT !.rep = rep]
  BY <1>2, <1>3, <1>5 DEF Decayed
<1>7. /\ new.rep = rep /\ new.ok = row.ok /\ new.bad = row.bad
      /\ new \in [rep : Ratings, ok : Nat, bad : Nat, ms : Nat, joules : Nat, online : BOOLEAN]
  BY <1>6 DEF Row
<1>8. Earned(new)
  BY <1>4, <1>7, RowFields DEF Earned
<1>9. QED
  BY <1>5, <1>7, <1>8 DEF Row

LEMMA OnlineRow ==
  ASSUME NEW row \in Row, NEW online \in BOOLEAN
  PROVE  LET new == [row EXCEPT !.online = online] IN new \in Row /\ SameRecord(new, row)
  BY DEF Row, Earned, SameRecord

LEMMA NewRowTyped == NewRow(TRUE) \in Row /\ NewRow(TRUE).ok = 0 /\ NewRow(TRUE).bad = 0
  BY DEF NewRow, Row, Ratings, Point, Earned

LEMMA RecordTyped ==
  ASSUME TablesTyped, NEW w \in Workers
  PROVE  RecordOf(w) \in Row
  BY RegisteredRows, NewRowTyped DEF RecordOf

----
\* Steps

(* A process goes on or begins, the others stay where they are.            *)
LEMMA WorkMoves ==
  ASSUME TurnsTyped, NEW p \in Procs, NEW o, Goes(p, o) \/ Begins(p, o)
  PROVE  /\ work' = [work EXCEPT ![p] = o] /\ work'[p] = o
         /\ \A q \in Procs \ {p} : work'[q] = work[q]
         /\ inTurn' = inTurn /\ crashes' = crashes /\ ops' \in Nat
  BY DEF Goes, Begins, TurnsTyped

(* A step of one process keeps the types, if the tables keep theirs and    *)
(* lose no row.                                                            *)
LEMMA StepTyped ==
  ASSUME TypeOK, NEW p \in Procs, NEW o \in Work, work' = [work EXCEPT ![p] = o],
         inTurn' = inTurn, ops' \in Nat, crashes' \in Nat, TablesTyped',
         \A w \in Workers : registry[w] \in Row => registry'[w] \in Row,
         DOMAIN committees \subseteq DOMAIN committees',
         o \in Judging \cup Writing => registry[o.worker] \in Row,
         o.at \in {"vote", "finalize"} => o.committee \in DOMAIN committees'
  PROVE  TypeOK'
<1>1. TurnsTyped'
  BY DEF TypeOK, TurnsTyped
<1>2. work'[p] = o /\ \A q \in Procs \ {p} : work'[q] = work[q]
  BY DEF TypeOK, TurnsTyped
<1>3. ASSUME NEW q \in Procs \ {p} PROVE RowsThere(work[q])'
  <2>1. RowsThere(work[q]) /\ work'[q] = work[q]
    BY <1>2 DEF TypeOK
  <2>2. work[q] \in Judging \cup Writing => work[q].worker \in Workers
    BY DEF Judging, Writing
  <2>3. QED
    BY <2>1, <2>2 DEF RowsThere
<1>4. RowsThere(work[p])'
  <2>1. o \in Judging \cup Writing => o.worker \in Workers
    BY DEF Judging, Writing
  <2>2. QED
    BY <1>2, <2>1 DEF RowsThere
<1>5. QED
  BY <1>1, <1>3, <1>4 DEF TypeOK

(* Steps that write no registry row and no committee.                      *)
LEMMA PlainStepTyped ==
  ASSUME TypeOK, NEW p \in Procs, NEW o \in Work, Goes(p, o) \/ Begins(p, o),
         TablesTyped', UNCHANGED <<registry, committees>>,
         o \in Judging \cup Writing => registry[o.worker] \in Row,
         o.at \in {"vote", "finalize"} => o.committee \in DOMAIN committees
  PROVE  TypeOK'
<1>1. /\ work' = [work EXCEPT ![p] = o] /\ inTurn' = inTurn /\ crashes' = crashes
      /\ ops' \in Nat
  BY WorkMoves DEF TypeOK
<1>2. crashes' \in Nat
  BY <1>1 DEF TypeOK, TurnsTyped
<1>3. QED
  BY <1>1, <1>2, StepTyped

(* What a process at a step of an operation holds.                         *)
LEMMA HeldTyped ==
  ASSUME TypeOK, NEW p \in Procs
  PROVE  LET o == work[p] IN
         /\ o \in Work /\ RowsThere(o)
         /\ o \in Judging => /\ o.worker \in Workers /\ registry[o.worker] \in Row
                             /\ o.reason \in Reasons /\ o.committee \in Nat
         /\ o \in Writing => /\ o.worker \in Workers /\ registry[o.worker] \in Row
                             /\ o.row \in Row
         /\ o \in Hearing => o.request \in Request /\ o.age \in Int
         /\ o \in Enrolling => /\ o.worker \in Remote /\ o.request \in Request
                               /\ o.age \in Int /\ o.row \in Row
         /\ o \in Registering => o.worker \in Workers /\ o.row \in Row
         /\ o \in Activating => o.worker \in Remote
<1> DEFINE o == work[p]
<1>1. o \in Work /\ RowsThere(o)
  BY DEF TypeOK, TurnsTyped
<1> HIDE DEF o
<1>2. QED
  BY <1>1 DEF RowsThere, Judging, Writing, Hearing, Enrolling, Registering, Activating, o

----
\* From a job to its verdict

LEMMA ReasonTyped ==
  ASSUME NEW result \in {Answer(1), Failed("COMMAND_FAILED")}, NEW watts \in {0, 1},
         NEW challenge \in Challenges(result)
  PROVE  Reason(result, ReceiptOf(result, 0, watts), challenge, 1) \in Reasons
<1> DEFINE receipt == ReceiptOf(result, 0, watts)
           challenged == ChallengeReason(challenge, receipt.tokens, 1)
<1>1. challenged \in {None, "CHALLENGE_EXPIRED", "CHALLENGE_FAILED"}
  BY DEF ChallengeReason
<1>2. result.code \in {None, "COMMAND_FAILED"}
  BY DEF Answer, Failed
<1> HIDE DEF challenged, receipt
<1>3. QED
  BY <1>1, <1>2 DEF Reason, Reasons, challenged, receipt

LEMMA CheckTyped ==
  ASSUME TypeOK, NEW p \in Procs, NEW w \in Workers, Check(p, w), UNCHANGED enrollVars
  PROVE  TypeOK'
<1>1. PICK why \in Reasons : Begins(p, [at |-> IF why = None THEN "select" ELSE "receipt",
                                       worker |-> w, reason |-> why, committee |-> 0])
  BY ReasonTyped DEF Check
<1>2. PICK o : o = [at |-> IF why = None THEN "select" ELSE "receipt", worker |-> w,
                    reason |-> why, committee |-> 0]
  OBVIOUS
<1>3. o \in Judging /\ o.worker = w /\ o.at \notin {"vote", "finalize"}
  BY <1>2 DEF Judging
<1>4. o \in Work
  BY <1>3 DEF Work
<1>5. registry[w] \in Row
  BY RegisteredRows DEF Check, TypeOK
<1>6. TablesTyped' /\ UNCHANGED <<registry, committees>>
  BY DEF Check, TypeOK, TablesTyped, trustTables, enrollVars
<1>7. QED
  BY <1>1, <1>2, <1>3, <1>4, <1>5, <1>6, PlainStepTyped

----
\* The committee

(* The best of some registered workers is one of them.                     *)
LEMMA BestIsIn ==
  ASSUME TablesTyped, NEW S, S \subseteq Registered, S # {}
  PROVE  Best(S) \in S
<1>1. \A w \in S : w \in Workers /\ w \in Nat /\ registry[w] \in Row
  BY RegisteredRows, VerificationAssumption DEF Registered
<1>2. \A w \in S : registry[w].rep \in Int /\ registry[w].rep <= 24000
  BY <1>1, RowFields
<1> DEFINE Shortfall == {24000 - registry[w].rep : w \in S}
           Foremost(n) == {w \in S : 24000 - registry[w].rep = n}
<1>3. Shortfall \subseteq Nat /\ Shortfall # {}
  BY <1>2
<1>4. PICK d \in Shortfall : \A e \in Shortfall : d <= e
  <2> HIDE DEF Shortfall
  <2>1. QED
    BY <1>3, LeastNatural
<1>5. Foremost(d) \subseteq Nat /\ Foremost(d) # {}
  BY <1>1, <1>4
<1>6. PICK w \in Foremost(d) : \A v \in Foremost(d) : w <= v
  <2> HIDE DEF Foremost
  <2>1. QED
    BY <1>5, LeastNatural
<1>7. ASSUME NEW v \in S
      PROVE  \/ registry[w].rep > registry[v].rep
             \/ registry[w].rep = registry[v].rep /\ w <= v
  <2>1. w \in S /\ 24000 - registry[w].rep = d
    BY <1>6
  <2>2. d <= 24000 - registry[v].rep
    BY <1>4, <1>7
  <2>3. CASE 24000 - registry[v].rep = d
    <3>1. w <= v
      BY <1>6, <1>7, <2>3
    <3>2. QED
      BY <1>2, <1>7, <2>1, <2>3, <3>1
  <2>4. CASE 24000 - registry[v].rep # d
    BY <1>2, <1>7, <2>1, <2>2, <2>4
  <2>5. QED
    BY <2>3, <2>4
<1>8. w \in S
  BY <1>6
<1>9. QED
  BY <1>7, <1>8 DEF Best

(* Who joins the verifiers S of w next, and the recursion of Verifiers.    *)
Joining(w, S) ==
  LET left == Eligible(w) \ S
  IN  IF left = {} THEN {} ELSE {Best(IF Diverse(left, S) = {} THEN left ELSE Diverse(left, S))}

PicksOn(w, n, g) ==
  g = [k \in 0..n |-> IF k = 0 THEN {} ELSE g[k - 1] \cup Joining(w, g[k - 1])]

LEMMA JoiningIsEligible ==
  ASSUME TablesTyped, NEW w \in Workers, NEW S
  PROVE  Joining(w, S) \subseteq Workers \ {w} /\ IsFiniteSet(Joining(w, S))
<1> DEFINE left == Eligible(w) \ S
<1>1. left \subseteq Registered /\ w \notin left /\ Registered \subseteq Workers
  BY DEF Eligible, Online, Registered
<1>2. CASE left = {}
  BY <1>2, FS_EmptySet DEF Joining
<1>3. CASE left # {}
  <2> DEFINE from == IF Diverse(left, S) = {} THEN left ELSE Diverse(left, S)
  <2>1. from \subseteq left /\ from # {}
    BY <1>3 DEF Diverse
  <2>2. Best(from) \in from
    BY <1>1, <2>1, BestIsIn
  <2>3. Joining(w, S) = {Best(from)}
    BY <1>3 DEF Joining
  <2> HIDE DEF from
  <2>4. QED
    BY <1>1, <2>1, <2>2, <2>3, FS_Singleton
<1>4. QED
  BY <1>2, <1>3

LEMMA PicksExist ==
  ASSUME NEW w, NEW n \in Nat
  PROVE  \E g : PicksOn(w, n, g)
<1> DEFINE N == {m \in Nat : \E g : PicksOn(w, m, g)}
<1>1. 0 \in N
  <2> DEFINE g == [k \in 0..0 |-> {}]
  <2>1. g = [k \in 0..0 |-> IF k = 0 THEN {} ELSE g[k - 1] \cup Joining(w, g[k - 1])]
    OBVIOUS
  <2>2. QED
    BY <2>1 DEF PicksOn
<1>2. ASSUME NEW m \in Nat, m \in N
      PROVE  m + 1 \in N
  <2>1. PICK g : PicksOn(w, m, g)
    BY <1>2
  <2> DEFINE h == [k \in 0..(m + 1) |-> IF k = m + 1 THEN g[m] \cup Joining(w, g[m]) ELSE g[k]]
  <2>2. \A k \in 0..m : h[k] = g[k]
    OBVIOUS
  <2>3. \A k \in 0..m : g[k] = IF k = 0 THEN {} ELSE g[k - 1] \cup Joining(w, g[k - 1])
    BY <2>1 DEF PicksOn
  <2>4. ASSUME NEW k \in 0..(m + 1)
        PROVE  h[k] = IF k = 0 THEN {} ELSE h[k - 1] \cup Joining(w, h[k - 1])
    <3>1. CASE k = m + 1
      <4>1. h[k] = g[m] \cup Joining(w, g[m]) /\ k - 1 = m /\ k # 0 /\ h[m] = g[m]
        BY <2>2, <3>1
      <4> HIDE DEF h
      <4>2. QED
        BY <4>1
    <3>2. CASE k = 0
      <4>1. 0 \in 0..m
        OBVIOUS
      <4>2. h[0] = g[0] /\ g[0] = {}
        BY <2>2, <2>3, <4>1
      <4> HIDE DEF h
      <4>3. QED
        BY <3>2, <4>2
    <3>3. CASE k # 0 /\ k # m + 1
      <4>1. k \in 0..m /\ k - 1 \in 0..m
        BY <3>3
      <4>2. h[k] = g[k] /\ h[k - 1] = g[k - 1]
        BY <2>2, <4>1
      <4> HIDE DEF h
      <4>3. QED
        BY <2>3, <3>3, <4>1, <4>2
    <3>4. QED
      BY <3>1, <3>2, <3>3
  <2>5. h = [k \in 0..(m + 1) |-> h[k]]
    OBVIOUS
  <2> HIDE DEF h
  <2>6. PicksOn(w, m + 1, h)
    BY <2>4, <2>5 DEF PicksOn
  <2>7. QED
    BY <2>6
<1> HIDE DEF N
<1>3. n \in N
  BY <1>1, <1>2, Induction
<1>4. QED
  BY <1>3 DEF N

(* select_verifier_workers returns other workers, finitely many.           *)
LEMMA VerifiersAreOthers ==
  ASSUME TablesTyped, NEW w \in Workers
  PROVE  Verifiers(w) \in Panels /\ w \notin Verifiers(w)
<1> DEFINE g == CHOOSE h : PicksOn(w, Size, h)
<1>1. Verifiers(w) = g[Size]
  BY Zenon DEF Verifiers, PicksOn, Joining
<1>2. Size \in Nat
  BY VerificationAssumption
<1>3. PicksOn(w, Size, g)
  BY <1>2, PicksExist
<1> HIDE DEF g
<1> DEFINE Good(S) == S \subseteq Workers \ {w} /\ IsFiniteSet(S)
           N == {m \in Nat : m <= Size => Good(g[m])}
<1>4. \A m \in 0..Size : g[m] = IF m = 0 THEN {} ELSE g[m - 1] \cup Joining(w, g[m - 1])
  BY <1>3 DEF PicksOn
<1>5. 0 \in N
  <2>3. 0 \in 0..Size
    BY <1>2
  <2>1. g[0] = {}
    BY <1>4, <2>3
  <2>2. QED
    BY <2>1, FS_EmptySet
<1>6. ASSUME NEW m \in Nat, m \in N
      PROVE  m + 1 \in N
  <2> SUFFICES ASSUME m + 1 <= Size PROVE Good(g[m + 1])
    OBVIOUS
  <2>1. m + 1 \in 0..Size /\ m + 1 # 0 /\ (m + 1) - 1 = m /\ m <= Size
    BY <1>2
  <2>2. g[m + 1] = g[m] \cup Joining(w, g[m])
    BY <1>4, <2>1
  <2>3. Good(g[m]) /\ Good(Joining(w, g[m]))
    BY <1>6, <2>1, JoiningIsEligible
  <2>4. QED
    BY <2>2, <2>3, FS_Union
<1>7. Size \in N
  <2> HIDE DEF N
  <2>1. QED
    BY <1>2, <1>5, <1>6, Induction
<1>8. Good(g[Size])
  BY <1>2, <1>7
<1>9. QED
  BY <1>1, <1>8 DEF Panels

(* The first of some numbers is one of them.                               *)
LEMMA MinIsIn ==
  ASSUME NEW S, S \subseteq Nat, S # {}
  PROVE  Min(S) \in S
<1>1. \E x \in S : \A y \in S : x <= y
  BY LeastNatural
<1>2. QED
  BY <1>1 DEF Min

LEMMA CommitteeFields ==
  ASSUME NEW c \in Committee
  PROVE  /\ c.worker \in Workers /\ c.members \subseteq Workers /\ IsFiniteSet(c.members)
         /\ c.votes \in Ballots /\ c.result \in Votes \cup {"open"}
         /\ c.votes \in [DOMAIN c.votes -> Votes]
         /\ DOMAIN c.votes \subseteq Workers /\ IsFiniteSet(DOMAIN c.votes)
<1>1. c.votes \in Ballots /\ c.members \in Panels
  BY DEF Committee
<1>2. PICK V \in Panels : c.votes \in [V -> Votes]
  BY <1>1 DEF Ballots
<1>3. DOMAIN c.votes = V
  BY <1>2
<1>4. c.worker \in Workers /\ c.result \in Votes \cup {"open"}
  BY DEF Committee
<1>5. QED
  BY <1>1, <1>2, <1>3, <1>4 DEF Panels

(* A vote is added to those that were cast.                                *)
LEMMA BallotCast ==
  ASSUME NEW b, b \in [DOMAIN b -> Votes], DOMAIN b \in Panels,
         NEW v \in Workers, NEW vote \in Votes
  PROVE  LET after == WithVote(b, v, vote) IN
         /\ after \in Ballots /\ DOMAIN after = DOMAIN b \cup {v}
<1> DEFINE after == WithVote(b, v, vote)
           V == DOMAIN b \cup {v}
<1>1. after = [x \in V |-> IF x = v THEN vote ELSE b[x]]
  BY DEF WithVote
<1>2. V \in Panels
  BY FS_AddElement DEF Panels
<1>3. after \in [V -> Votes] /\ DOMAIN after = V
  BY <1>1
<1> HIDE DEF V, after
<1>4. after \in Ballots
  BY <1>2, <1>3 DEF Ballots
<1>5. QED
  BY <1>3, <1>4 DEF V, after

LEMMA VotesForFinite ==
  ASSUME NEW c \in Committee, NEW vote
  PROVE  IsFiniteSet(VotesFor(c, vote)) /\ Cardinality(VotesFor(c, vote)) \in Nat
<1>1. VotesFor(c, vote) \subseteq DOMAIN c.votes
  BY DEF VotesFor
<1>2. QED
  BY <1>1, CommitteeFields, FS_Subset, FS_CardinalityType

LEMMA PairsFinite ==
  ASSUME NEW S, IsFiniteSet(S)
  PROVE  IsFiniteSet(Pairs(S))
  BY FS_SUBSET, FS_Subset DEF Pairs

LEMMA SuspicionTyped ==
  ASSUME committees \in Seq(Committee), NEW i \in DOMAIN committees
  PROVE  Suspicion(i) \in Int
<1> DEFINE votes == committees[i].votes
           size == Cardinality(DOMAIN votes)
           pairs == Pairs(DOMAIN votes)
           counts == {Cardinality(VotesFor(committees[i], vote)) : vote \in Votes}
           repeated == (DOMAIN committees \ {i}) \X pairs
           again == {r \in repeated : r[2] \in Pairs(committees[r[1]].members)}
           one == {pair \in pairs : Cardinality({OperatorOf[v] : v \in pair}) = 1}
<1>1. committees[i] \in Committee
  BY RowInTable
<1>2. IsFiniteSet(DOMAIN votes) /\ size \in Nat /\ IsFiniteSet(pairs)
  BY <1>1, CommitteeFields, FS_CardinalityType, PairsFinite
<1>3. Max(counts) \in Int
  <2>1. PICK a \in Nat : a = Cardinality(VotesFor(committees[i], "accepted"))
    BY <1>1, VotesForFinite
  <2>2. PICK b \in Nat : b = Cardinality(VotesFor(committees[i], "rejected"))
    BY <1>1, VotesForFinite
  <2>3. PICK d \in Nat : d = Cardinality(VotesFor(committees[i], "disputed"))
    BY <1>1, VotesForFinite
  <2>4. counts = {a, b, d}
    BY <2>1, <2>2, <2>3 DEF Votes
  <2> DEFINE T == {a, b, d}
  <2>5. \E x \in T : \A y \in T : x >= y
    <3>1. CASE a >= b /\ a >= d
      BY <3>1
    <3>2. CASE b >= a /\ b >= d
      BY <3>2
    <3>3. CASE d >= a /\ d >= b
      BY <3>3
    <3>4. QED
      BY <3>1, <3>2, <3>3
  <2>6. T \subseteq Nat /\ counts = T
    BY <2>4
  <2> HIDE DEF counts, T
  <2>7. Max(T) \in T
    BY <2>5 DEF Max
  <2>8. PICK m \in Int : m = Max(T)
    <3>1. \A m \in T : m \in Int
      BY <2>6
    <3>2. QED
      BY <2>7, <3>1, Zenon
  <2>9. QED
    BY <2>6, <2>8, Zenon
<1>4. IsFiniteSet(DOMAIN committees \ {i})
  <2>1. Len(committees) \in Nat /\ DOMAIN committees = 1..Len(committees)
    OBVIOUS
  <2>2. IsFiniteSet(1..Len(committees))
    BY <2>1, FS_Interval
  <2>3. QED
    BY <2>1, <2>2, FS_Subset
<1>5. IsFiniteSet(repeated)
  BY <1>2, <1>4, FS_Product
<1>6. IsFiniteSet(again) /\ IsFiniteSet(one)
  BY <1>2, <1>5, FS_Subset
<1>7. Cardinality(again) \in Nat /\ Cardinality(one) \in Nat
  BY <1>6, FS_CardinalityType
<1>8. Suspicion(i) = IF size = 0 THEN 0
                     ELSE AtMost((100 * (size - Max(counts))) \div size
                                 + 10 * Cardinality(again) + 20 * Cardinality(one), 100)
  BY Zenon DEF Suspicion
<1> HIDE DEF size, counts, again, one
<1>9. PICK n \in Nat, m \in Int, k \in Nat, l \in Nat :
        n = size /\ m = Max(counts) /\ k = Cardinality(again) /\ l = Cardinality(one)
  BY <1>2, <1>3, <1>7
<1>10. Suspicion(i) = IF n = 0 THEN 0
                      ELSE AtMost((100 * (n - m)) \div n + 10 * k + 20 * l, 100)
  BY <1>8, <1>9
<1>11. n # 0 => (100 * (n - m)) \div n \in Int
  OBVIOUS
<1>12. QED
  BY <1>10, <1>11 DEF AtMost

LEMMA SelectCommitteeTyped ==
  ASSUME TypeOK, NEW p \in Procs, SelectCommittee(p), UNCHANGED enrollVars
  PROVE  TypeOK'
<1>1. PICK c, o : /\ c = NewCommittee(work[p].worker)
                  /\ o = [work[p] EXCEPT !.at = IF c.members = {} THEN "finalize" ELSE "vote",
                                          !.committee = Len(committees) + 1]
                  /\ committees' = Append(committees, c) /\ Goes(p, o)
  BY DEF SelectCommittee, InsertCommittee
<1>2. work[p] \in Judging
  BY HeldTyped, WorkByAt DEF SelectCommittee
<1>3. work[p].worker \in Workers /\ registry[work[p].worker] \in Row
  BY <1>2, HeldTyped
<1>4. TablesTyped /\ committees \in Seq(Committee) /\ Len(committees) + 1 \in Nat
  BY DEF TypeOK, TablesTyped
<1>5. c \in Committee
  <2>1. [v \in {} |-> None] \in Ballots
    <3>1. {} \in Panels
      BY FS_EmptySet DEF Panels
    <3>2. [v \in {} |-> None] \in [{} -> Votes]
      OBVIOUS
    <3>3. QED
      BY <3>1, <3>2 DEF Ballots
  <2>2. Verifiers(work[p].worker) \in Panels
    BY <1>3, <1>4, VerifiersAreOthers
  <2>3. QED
    BY <1>1, <1>3, <2>1, <2>2 DEF NewCommittee, Committee, Codes
<1>6. o \in Judging /\ o.worker = work[p].worker /\ o.committee = Len(committees) + 1
  BY <1>1, <1>2, <1>4 DEF Judging
<1>7. o \in Work
  BY <1>6 DEF Work
<1>8. /\ committees' \in Seq(Committee) /\ DOMAIN committees \subseteq DOMAIN committees'
      /\ o.committee \in DOMAIN committees'
  BY <1>1, <1>4, <1>5, <1>6, AppendRow
<1>9. TablesTyped' /\ registry' = registry
  BY <1>8 DEF SelectCommittee, TypeOK, TablesTyped, enrollVars
<1>10. /\ work' = [work EXCEPT ![p] = o] /\ inTurn' = inTurn /\ crashes' = crashes
       /\ ops' \in Nat
  BY <1>1, WorkMoves DEF TypeOK
<1>11. crashes' \in Nat
  BY <1>10 DEF TypeOK, TurnsTyped
<1>12. QED
  BY <1>3, <1>6, <1>7, <1>8, <1>9, <1>10, <1>11, StepTyped

----
\* The session of a committee

LEMMA RowReplaced ==
  ASSUME NEW R, NEW table \in Seq(R), NEW i \in DOMAIN table, NEW r \in R
  PROVE  LET after == [table EXCEPT ![i] = r] IN
         /\ after \in Seq(R) /\ DOMAIN after = DOMAIN table /\ after[i] = r
         /\ \A k \in DOMAIN table \ {i} : after[k] = table[k]
  OBVIOUS

(* A vote: the committee's c afterwards, and the process's o.              *)
Casts(p, c, o) ==
  LET k == work[p].committee
      old == committees[k]
  IN  /\ committees' = [committees EXCEPT ![k] = c]
      /\ c.worker = old.worker /\ c.members = old.members /\ c.result = old.result
      /\ DOMAIN c.votes \subseteq c.members
      /\ Goes(p, o)
      /\ InSession(o) /\ o.worker = work[p].worker /\ o.committee = k
      /\ o.at = "finalize" <=> DOMAIN c.votes = c.members

LEMMA VoteEffect ==
  ASSUME TypeOK, NEW p \in Procs, Seated(work[p]), Vote(p)
  PROVE  \E c \in Committee, o \in Judging : Casts(p, c, o)
<1> DEFINE k == work[p].committee
           old == committees[k]
           left == old.members \ DOMAIN old.votes
           v == Min(left)
<1>1. PICK vote \in Votes :
        /\ committees' = [committees EXCEPT ![k].votes = WithVote(@, v, vote)]
        /\ Goes(p, IF Cardinality(left) = 1 THEN [work[p] EXCEPT !.at = "finalize"] ELSE work[p])
  BY DEF Vote, InsertVote
<1>2. work[p] \in Judging /\ work[p].at = "vote"
  BY HeldTyped, WorkByAt DEF Vote
<1>3. k \in DOMAIN committees /\ committees \in Seq(Committee)
  BY <1>2 DEF TypeOK, TablesTyped, RowsThere
<1>4. old \in Committee
  BY <1>3, RowInTable
<1>5. DOMAIN old.votes \subseteq old.members /\ DOMAIN old.votes # old.members
  BY <1>2 DEF Seated, InSession
<1>6. left # {} /\ left \subseteq Workers /\ IsFiniteSet(left)
  BY <1>4, <1>5, CommitteeFields, FS_Subset
<1>7. v \in left
  BY <1>6, MinIsIn, VerificationAssumption
<1> DEFINE ballot == WithVote(old.votes, v, vote)
<1>8. /\ ballot \in Ballots /\ DOMAIN ballot = DOMAIN old.votes \cup {v}
  <2>1. DOMAIN old.votes \in Panels /\ old.votes \in [DOMAIN old.votes -> Votes]
    BY <1>4, CommitteeFields DEF Panels
  <2>2. v \in Workers
    BY <1>6, <1>7
  <2> HIDE DEF v, old
  <2>3. QED
    BY <2>1, <2>2, BallotCast
<1> HIDE DEF v, ballot
<1>9. PICK c : c = [old EXCEPT !.votes = ballot]
  OBVIOUS
<1>10. c \in Committee /\ c.worker = old.worker /\ c.members = old.members
       /\ c.result = old.result /\ c.votes = ballot
  BY <1>4, <1>8, <1>9 DEF Committee
<1>11. committees' = [committees EXCEPT ![k] = c]
  BY <1>1, <1>3, <1>9 DEF ballot
<1>12. PICK o : o = IF Cardinality(left) = 1 THEN [work[p] EXCEPT !.at = "finalize"] ELSE work[p]
  OBVIOUS
<1>13. Cardinality(left) = 1 <=> left = {v}
  BY <1>6, <1>7, FS_Singleton
<1>14. Cardinality(left) = 1 <=> DOMAIN c.votes = c.members
  BY <1>5, <1>7, <1>8, <1>10, <1>13
<1>15. /\ o \in Judging /\ InSession(o) /\ o.worker = work[p].worker /\ o.committee = k
       /\ o.at = "finalize" <=> Cardinality(left) = 1
  BY <1>2, <1>12 DEF Judging, InSession
<1>16. DOMAIN c.votes \subseteq c.members
  BY <1>5, <1>7, <1>8, <1>10
<1>17. Casts(p, c, o)
  BY <1>1, <1>10, <1>11, <1>12, <1>14, <1>15, <1>16 DEF Casts
<1>18. QED
  BY <1>10, <1>15, <1>17

(* The end of a session.                                                   *)
Closes(p, c, o) ==
  LET k == work[p].committee
      old == committees[k]
  IN  /\ committees' = [committees EXCEPT ![k] = c]
      /\ Goes(p, o)
      /\ o.at = "receipt" /\ o.worker = work[p].worker /\ o.committee = k
      /\ o.reason = None => Accepts(c, o.worker)

LEMMA FinalizeEffect ==
  ASSUME TypeOK, NEW p \in Procs, Seated(work[p]), FinalizeCommittee(p)
  PROVE  \E c \in Committee, o \in Judging : Closes(p, c, o)
<1> DEFINE k == work[p].committee
           old == committees[k]
<1>1. PICK result : result = Aggregate(old)
  OBVIOUS
<1>2. PICK why : why = CASE result = "accepted" -> None
                         [] result = "rejected" -> "COMMITTEE_REJECTED"
                         [] OTHER -> "COMMITTEE_DISPUTED"
  OBVIOUS
<1>3. result \in Votes
  BY <1>1 DEF Aggregate, Votes
<1>4. why \in Reasons /\ (why = None => result = "accepted")
  BY <1>2, <1>3 DEF Reasons, Votes, None
<1>5. work[p] \in Judging /\ work[p].at = "finalize"
  BY HeldTyped, WorkByAt DEF FinalizeCommittee
<1>6. k \in DOMAIN committees /\ committees \in Seq(Committee)
  BY <1>5 DEF TypeOK, TablesTyped, RowsThere
<1>7. old \in Committee
  BY <1>6, RowInTable
<1>8. PICK c : c = [old EXCEPT !.result = result, !.suspicion = Suspicion(k),
                               !.code = FailureCode(old.votes, result)]
  OBVIOUS
<1>9. PICK o : o = [work[p] EXCEPT !.at = "receipt", !.reason = why]
  OBVIOUS
<1>10. committees' = [committees EXCEPT ![k] = c] /\ Goes(p, o)
  <2>1. Finalize(k, result) /\ Goes(p, o)
    BY <1>1, <1>2, <1>9 DEF FinalizeCommittee
  <2>2. QED
    BY <1>6, <1>8, <2>1 DEF Finalize
<1>11. FailureCode(old.votes, result) \in Codes
  BY <1>3 DEF FailureCode, Codes, Votes
<1>12. /\ c \in Committee /\ c.worker = old.worker /\ c.members = old.members
       /\ c.votes = old.votes /\ c.result = result
       /\ c.code = FailureCode(old.votes, result)
  <2>1. Suspicion(k) \in Int
    BY <1>6, SuspicionTyped
  <2>2. QED
    BY <1>3, <1>7, <1>8, <1>11, <2>1 DEF Committee
<1>13. /\ o \in Judging /\ o.at = "receipt" /\ o.worker = work[p].worker /\ o.committee = k
       /\ o.reason = why
  BY <1>4, <1>5, <1>9 DEF Judging
<1>14. ASSUME why = None PROVE Accepts(c, o.worker)
  <2>1. result = "accepted"
    BY <1>4, <1>14
  <2>2. Cardinality(VotesFor(old, "accepted")) >= Quorum
    BY <1>1, <2>1 DEF Aggregate
  <2>3. VotesFor(c, "accepted") = VotesFor(old, "accepted")
    BY <1>12 DEF VotesFor
  <2>4. /\ c.worker = work[p].worker /\ c.worker \notin c.members /\ DOMAIN c.votes = c.members
    BY <1>5, <1>12 DEF Seated, InSession
  <2>5. ~(Cardinality(DOMAIN old.votes) < Quorum)
    <3>1. PICK n \in Nat : n = Cardinality(VotesFor(old, "accepted"))
      BY <1>7, VotesForFinite
    <3>2. PICK m \in Nat : m = Cardinality(DOMAIN old.votes)
      BY <1>7, CommitteeFields, FS_CardinalityType
    <3>3. n <= m
      <4>1. VotesFor(old, "accepted") \subseteq DOMAIN old.votes
        BY DEF VotesFor
      <4>2. QED
        BY <1>7, <3>1, <3>2, <4>1, CommitteeFields, FS_Subset
    <3>4. QED
      BY <2>2, <3>1, <3>2, <3>3, VerificationAssumption
  <2>6. c.code = None
    BY <1>12, <2>1, <2>5 DEF FailureCode
  <2>7. QED
    BY <1>12, <1>13, <2>1, <2>2, <2>3, <2>4, <2>6 DEF Accepts
<1>15. Closes(p, c, o)
  BY <1>10, <1>13, <1>14 DEF Closes
<1>16. QED
  BY <1>12, <1>13, <1>15

----
\* Every step keeps the types

(* A committee is replaced by another, a process goes on.                  *)
LEMMA SessionTyped ==
  ASSUME TypeOK, NEW p \in Procs, work[p] \in Judging, InSession(work[p]),
         NEW c \in Committee, NEW o \in Judging,
         committees' = [committees EXCEPT ![work[p].committee] = c], Goes(p, o),
         o.worker = work[p].worker, o.committee = work[p].committee,
         UNCHANGED <<registry, verdicts, enrollVars>>
  PROVE  TypeOK'
<1>1. work[p].committee \in DOMAIN committees /\ committees \in Seq(Committee)
  BY DEF TypeOK, TablesTyped, RowsThere, InSession
<1>2. committees' \in Seq(Committee) /\ DOMAIN committees' = DOMAIN committees
  BY <1>1, RowReplaced
<1>3. TablesTyped' /\ registry' = registry
  BY <1>2 DEF TypeOK, TablesTyped, enrollVars
<1>4. o \in Work /\ registry[o.worker] \in Row
  BY HeldTyped DEF Work
<1>5. /\ work' = [work EXCEPT ![p] = o] /\ inTurn' = inTurn /\ crashes' = crashes
      /\ ops' \in Nat
  BY WorkMoves DEF TypeOK
<1>6. crashes' \in Nat
  BY <1>5 DEF TypeOK, TurnsTyped
<1>7. o.committee \in DOMAIN committees'
  BY <1>1, <1>2
<1>8. QED
  BY <1>2, <1>3, <1>4, <1>5, <1>6, <1>7, StepTyped

LEMMA VoteTyped ==
  ASSUME TypeOK, NEW p \in Procs, Seated(work[p]), Vote(p), UNCHANGED enrollVars
  PROVE  TypeOK'
<1>1. PICK c \in Committee, o \in Judging : Casts(p, c, o)
  BY VoteEffect
<1>2. work[p] \in Judging /\ InSession(work[p])
  BY HeldTyped, WorkByAt DEF Vote, InSession
<1>3. UNCHANGED <<registry, verdicts, enrollVars>>
  BY DEF Vote
<1>4. QED
  BY <1>1, <1>2, <1>3, SessionTyped DEF Casts

LEMMA FinalizeTyped ==
  ASSUME TypeOK, NEW p \in Procs, Seated(work[p]), FinalizeCommittee(p), UNCHANGED enrollVars
  PROVE  TypeOK'
<1>1. PICK c \in Committee, o \in Judging : Closes(p, c, o)
  BY FinalizeEffect
<1>2. work[p] \in Judging /\ InSession(work[p])
  BY HeldTyped, WorkByAt DEF FinalizeCommittee, InSession
<1>3. UNCHANGED <<registry, verdicts, enrollVars>>
  BY DEF FinalizeCommittee
<1>4. QED
  BY <1>1, <1>2, <1>3, SessionTyped DEF Closes

(* The verdict that a process inserts.                                     *)
VerdictOf(o) == [worker |-> o.worker, accepted |-> o.reason = None, committee |-> o.committee]

LEMMA InsertVerdictTyped ==
  ASSUME TypeOK, NEW p \in Procs, InsertVerdict(p), UNCHANGED enrollVars
  PROVE  TypeOK'
<1>1. PICK o : o = [work[p] EXCEPT !.at = "read"]
  OBVIOUS
<1>2. work[p] \in Judging
  BY HeldTyped, WorkByAt DEF InsertVerdict
<1>3. /\ work[p].worker \in Workers /\ registry[work[p].worker] \in Row
      /\ work[p].committee \in Nat
  BY <1>2, HeldTyped
<1>4. o \in Judging /\ o.worker = work[p].worker /\ o.at = "read"
  BY <1>1, <1>2 DEF Judging
<1>5. Goes(p, o) /\ UNCHANGED <<registry, committees>>
  BY <1>1 DEF InsertVerdict
<1>6. VerdictOf(work[p]) \in Verdict
  BY <1>3 DEF VerdictOf, Verdict
<1>7. verdicts' = Append(verdicts, VerdictOf(work[p]))
  BY DEF InsertVerdict, VerdictOf
<1>8. TablesTyped'
  BY <1>5, <1>6, <1>7, AppendRow DEF TypeOK, TablesTyped, enrollVars
<1>9. QED
  BY <1>3, <1>4, <1>5, <1>8, PlainStepTyped DEF Work

(* What a process computes from the row it reads.                          *)
LEMMA JudgedIs ==
  ASSUME NEW row \in Row, NEW reason, NEW ms, NEW joules
  PROVE  Judged(row, reason = None, reason, ms, joules)
           = IF reason = None THEN Praised(row, ms, joules) ELSE Blamed(row, reason, ms, joules)
  BY DEF Judged, Averaged, Praised, Blamed, Row

LEMMA ReadRecordEffect ==
  ASSUME TypeOK, NEW p \in Procs, ReadRecord(p)
  PROVE  LET old == registry[work[p].worker]
             reason == work[p].reason
         IN  /\ work[p] \in Judging /\ work[p].worker \in Workers /\ old \in Row
             /\ reason \in Reasons
             /\ \E o \in Writing :
                  /\ Goes(p, o) /\ o.worker = work[p].worker
                  /\ Follows(o.row, old, reason)
             /\ UNCHANGED trustTables
<1> DEFINE old == registry[work[p].worker]
           reason == work[p].reason
<1>1. work[p] \in Judging
  BY HeldTyped, WorkByAt DEF ReadRecord
<1>2. work[p].worker \in Workers /\ old \in Row /\ reason \in Reasons
  BY <1>1, HeldTyped
<1>3. PICK ms \in Nat, joules \in Nat :
        Goes(p, [at |-> "write", worker |-> work[p].worker,
                 row |-> Judged(old, reason = None, reason, ms, joules)])
  BY ReputationAssumption DEF ReadRecord
<1>4. PICK row : row = Judged(old, reason = None, reason, ms, joules)
  OBVIOUS
<1>5. PICK o : o = [at |-> "write", worker |-> work[p].worker, row |-> row]
  OBVIOUS
<1>6. Follows(row, old, reason) /\ row \in Row
  <2>1. Follows(row, old, reason)
    BY <1>2, <1>4, JudgedIs DEF Follows
  <2>2. QED
    BY <1>2, <2>1, FollowingRow
<1>7. Goes(p, o) /\ UNCHANGED trustTables
  BY <1>3, <1>4, <1>5 DEF ReadRecord
<1>8. o \in Writing /\ o.worker = work[p].worker /\ o.row = row
  BY <1>2, <1>5, <1>6 DEF Writing
<1>9. QED
  BY <1>1, <1>2, <1>6, <1>7, <1>8

LEMMA ReadRecordTyped ==
  ASSUME TypeOK, NEW p \in Procs, ReadRecord(p), UNCHANGED enrollVars
  PROVE  TypeOK'
<1>1. PICK o \in Writing : Goes(p, o) /\ o.worker = work[p].worker
  BY ReadRecordEffect
<1>2. registry[o.worker] \in Row /\ UNCHANGED trustTables
  BY <1>1, ReadRecordEffect
<1>3. TablesTyped' /\ UNCHANGED <<registry, committees>>
  BY <1>2 DEF TypeOK, TablesTyped, trustTables, enrollVars
<1>4. o \in Work /\ o.at \notin {"vote", "finalize"}
  BY DEF Work, Writing
<1>5. QED
  BY <1>1, <1>2, <1>3, <1>4, PlainStepTyped

(* The registry after a process wrote its row: the counts are the row's.   *)
LEMMA WriteRecordEffect ==
  ASSUME TypeOK, NEW p \in Procs, WriteRecord(p)
  PROVE  LET w == work[p].worker
             row == work[p].row
         IN  /\ work[p] \in Writing /\ w \in Workers /\ row \in Row
             /\ registry[w] \in Row
             /\ \E r \in Row : registry' = [registry EXCEPT ![w] = r] /\ SameRecord(r, row)
             /\ Goes(p, Idle) /\ UNCHANGED <<committees, verdicts>>
<1> DEFINE w == work[p].worker
           row == work[p].row
<1>1. work[p] \in Writing
  BY HeldTyped, WorkByAt DEF WriteRecord
<1>2. w \in Workers /\ row \in Row /\ registry[w] \in Row
  BY <1>1, HeldTyped
<1>3. PICK r : r = [row EXCEPT !.online = registry[w].online]
  OBVIOUS
<1>4. registry' = [registry EXCEPT ![w] = r]
  BY <1>3 DEF WriteRecord
<1>5. r \in Row /\ SameRecord(r, row)
  BY <1>2, <1>3, RowFields, OnlineRow
<1>6. Goes(p, Idle) /\ UNCHANGED <<committees, verdicts>>
  BY DEF WriteRecord
<1>7. QED
  BY <1>1, <1>2, <1>4, <1>5, <1>6

(* Steps that write one registry row, and no committee.                    *)
LEMMA RowWrittenTyped ==
  ASSUME TypeOK, NEW p \in Procs, NEW o \in Work, Goes(p, o), o \notin Judging \cup Writing,
         NEW w \in Workers, NEW r \in Row, registry' = [registry EXCEPT ![w] = r],
         UNCHANGED <<committees, verdicts, clock, sent>>, nonces' \subseteq Nat,
         enrolled' \in [Remote -> {"none", "pending", "active", "revoked"}],
         handled' \in Seq([nonce : Nat, age : Int])
  PROVE  TypeOK'
<1>1. registry' \in [Workers -> Row \cup {NoRow}]
  BY DEF TypeOK, TablesTyped
<1>2. TablesTyped'
  BY <1>1 DEF TypeOK, TablesTyped
<1>3. \A v \in Workers : registry[v] \in Row => registry'[v] \in Row
  BY DEF TypeOK, TablesTyped
<1>4. /\ work' = [work EXCEPT ![p] = o] /\ inTurn' = inTurn /\ crashes' = crashes
      /\ ops' \in Nat
  BY WorkMoves DEF TypeOK
<1>5. crashes' \in Nat
  BY <1>4 DEF TypeOK, TurnsTyped
<1>6. o.at \notin {"vote", "finalize"}
  BY WorkByAt
<1>7. QED
  BY <1>2, <1>3, <1>4, <1>5, <1>6, StepTyped

LEMMA WriteRecordTyped ==
  ASSUME TypeOK, NEW p \in Procs, WriteRecord(p), UNCHANGED enrollVars
  PROVE  TypeOK'
<1>1. work[p].worker \in Workers /\ Goes(p, Idle) /\ UNCHANGED <<committees, verdicts>>
  BY WriteRecordEffect
<1>2. PICK r \in Row : registry' = [registry EXCEPT ![work[p].worker] = r]
  BY WriteRecordEffect
<1>3. Idle \in Work /\ Idle \notin Judging \cup Writing
  BY IdleIsWork, WorkByAt
<1>4. /\ UNCHANGED <<clock, sent>> /\ nonces' \subseteq Nat
      /\ enrolled' \in [Remote -> {"none", "pending", "active", "revoked"}]
      /\ handled' \in Seq([nonce : Nat, age : Int])
  BY DEF enrollVars, TypeOK, TablesTyped
<1>5. QED
  BY <1>1, <1>2, <1>3, <1>4, RowWrittenTyped

LEMMA ReadDecayEffect ==
  ASSUME TypeOK, NEW p \in Procs, NEW w \in Workers, ReadDecay(p, w)
  PROVE  /\ registry[w] \in Row /\ UNCHANGED trustTables
         /\ \E days \in Days, o \in Writing :
              Begins(p, o) /\ o.worker = w /\ o.row = Decayed(registry[w], days)
<1>1. registry[w] \in Row
  BY RegisteredRows DEF ReadDecay, TypeOK
<1>2. PICK days \in Days :
        Begins(p, [at |-> "write", worker |-> w, row |-> Decayed(registry[w], days)])
  BY DEF ReadDecay
<1>3. Decayed(registry[w], days) \in Row
  BY <1>1, DecayedRow, VerificationAssumption
<1>4. PICK o : o = [at |-> "write", worker |-> w, row |-> Decayed(registry[w], days)]
  OBVIOUS
<1>5. o \in Writing /\ o.worker = w /\ o.row = Decayed(registry[w], days)
  BY <1>3, <1>4 DEF Writing
<1>6. UNCHANGED trustTables
  BY DEF ReadDecay
<1>7. QED
  BY <1>1, <1>2, <1>4, <1>5, <1>6

LEMMA ReadDecayTyped ==
  ASSUME TypeOK, NEW p \in Procs, NEW w \in Workers, ReadDecay(p, w), UNCHANGED enrollVars
  PROVE  TypeOK'
<1>1. PICK o \in Writing : Begins(p, o) /\ o.worker = w
  BY ReadDecayEffect
<1>2. registry[o.worker] \in Row /\ UNCHANGED trustTables
  BY <1>1, ReadDecayEffect
<1>3. TablesTyped' /\ UNCHANGED <<registry, committees>>
  BY <1>2 DEF TypeOK, TablesTyped, trustTables, enrollVars
<1>4. o \in Work /\ o.at \notin {"vote", "finalize"}
  BY DEF Work, Writing
<1>5. QED
  BY <1>1, <1>2, <1>3, <1>4, PlainStepTyped

----
\* The requests

Statuses == {"none", "pending", "active", "revoked"}

Outcome == [nonce : Nat, age : Int]

(* The event of the request in a process's hands.                          *)
OutcomeOf(o) == [nonce |-> o.request.nonce, age |-> o.age]

LEMMA OutcomeTyped ==
  ASSUME NEW o \in Hearing \cup Enrolling
  PROVE  /\ o.request \in Request /\ o.age \in Int /\ o.request.nonce \in Nat
         /\ o.request.worker \in Remote
         /\ o.request.path \in {"heartbeat", "capability", "other"}
         /\ OutcomeOf(o) \in Outcome
<1>1. o.request \in Request /\ o.age \in Int
  BY DEF Hearing, Enrolling
<1>2. o.request.nonce \in Nat /\ o.request.worker \in Remote
      /\ o.request.path \in {"heartbeat", "capability", "other"}
  BY <1>1 DEF Request
<1>3. QED
  BY <1>1, <1>2 DEF OutcomeOf, Outcome

LEMMA HandledIs ==
  ASSUME TablesTyped, NEW p \in Procs, Handled(p), work[p] \in Hearing \cup Enrolling
  PROVE  handled' = Append(handled, OutcomeOf(work[p])) /\ handled' \in Seq(Outcome)
<1>1. handled' = Append(handled, OutcomeOf(work[p]))
  BY DEF Handled, OutcomeOf
<1>2. handled \in Seq(Outcome)
  BY DEF TablesTyped, Outcome
<1>3. QED
  BY <1>1, <1>2, OutcomeTyped, AppendRow

(* Steps that leave registry and committees, with the process in a request *)
(* or at none.                                                             *)
LEMMA RequestStepTyped ==
  ASSUME TypeOK, NEW p \in Procs, NEW o \in Work, Goes(p, o) \/ Begins(p, o),
         o \notin Judging \cup Writing,
         UNCHANGED trustTables, UNCHANGED <<clock, sent>>, nonces' \subseteq Nat,
         enrolled' \in [Remote -> Statuses], handled' \in Seq(Outcome)
  PROVE  TypeOK'
<1>1. TablesTyped' /\ UNCHANGED <<registry, committees>>
  BY DEF TypeOK, TablesTyped, trustTables, Statuses, Outcome
<1>2. o.at \notin {"vote", "finalize"}
  BY WorkByAt
<1>3. QED
  BY <1>1, <1>2, PlainStepTyped

LEMMA TablesKept ==
  ASSUME TypeOK
  PROVE  /\ nonces \subseteq Nat /\ enrolled \in [Remote -> Statuses]
         /\ handled \in Seq(Outcome)
  BY DEF TypeOK, TablesTyped, Statuses, Outcome

LEMMA ReceiveEffect ==
  ASSUME TypeOK, NEW p \in Procs, NEW r \in sent, Receive(p, r)
  PROVE  /\ UNCHANGED <<enrollVars, trustTables>>
         /\ \/ Begins(p, Idle)
            \/ \E o \in Hearing :
                 /\ Begins(p, o) /\ o.at = "nonce" /\ o.request = r
                 /\ o.age <= MaxAge /\ r.nonce \notin nonces
<1>1. r \in Request /\ r.ts \in Nat /\ clock \in Nat
  BY DEF TypeOK, TablesTyped, Request
<1>2. UNCHANGED <<enrollVars, trustTables>>
  BY DEF Receive
<1>3. CASE HasSecret(r.worker) /\ ~Seen(r.nonce) /\ SignatureVerifies(r)
  <2>1. PICK o : o = [at |-> "nonce", request |-> r, age |-> clock - r.ts]
    OBVIOUS
  <2>2. Begins(p, o)
    BY <1>3, <2>1 DEF Receive
  <2>3. o \in Hearing /\ o.at = "nonce" /\ o.request = r /\ o.age = clock - r.ts
    BY <1>1, <2>1 DEF Hearing
  <2>4. QED
    BY <1>2, <1>3, <2>2, <2>3 DEF SignatureVerifies, Seen
<1>4. CASE ~(HasSecret(r.worker) /\ ~Seen(r.nonce) /\ SignatureVerifies(r))
  BY <1>2, <1>4 DEF Receive
<1>5. QED
  BY <1>3, <1>4

LEMMA ReceiveTyped ==
  ASSUME TypeOK, NEW p \in Procs, NEW r \in sent, Receive(p, r)
  PROVE  TypeOK'
<1>1. PICK o \in Work : (Goes(p, o) \/ Begins(p, o)) /\ o \notin Judging \cup Writing
  <2>1. CASE Begins(p, Idle)
    BY <2>1, IdleIsWork, WorkByAt
  <2>2. ASSUME NEW o \in Hearing, Begins(p, o), o.at = "nonce"
        PROVE  Begins(p, o) /\ o \in Work /\ o \notin Judging \cup Writing
    <3>1. o \in Work
      BY DEF Work
    <3>2. QED
      BY <2>2, <3>1, WorkByAt
  <2>3. QED
    BY <2>1, <2>2, ReceiveEffect
<1>2. UNCHANGED trustTables /\ UNCHANGED <<clock, sent, nonces, enrolled, handled>>
  BY ReceiveEffect DEF enrollVars
<1>3. QED
  BY <1>1, <1>2, TablesKept, RequestStepTyped

LEMMA RecordNonceEffect ==
  ASSUME TypeOK, NEW p \in Procs, RecordNonce(p)
  PROVE  /\ work[p] \in Hearing /\ work[p].at = "nonce"
         /\ nonces' = nonces \cup {work[p].request.nonce} /\ work[p].request.nonce \in Nat
         /\ \E o \in Hearing : /\ Goes(p, o) /\ o.at # "nonce"
                               /\ o.request = work[p].request /\ o.age = work[p].age
         /\ UNCHANGED <<clock, sent, enrolled, handled, trustTables>>
<1>1. work[p] \in Hearing /\ work[p].at = "nonce"
  BY HeldTyped, WorkByAt DEF RecordNonce
<1>2. /\ work[p].request.nonce \in Nat
      /\ work[p].request.path \in {"heartbeat", "capability", "other"}
  BY <1>1, OutcomeTyped
<1>3. PICK o : o = [work[p] EXCEPT !.at = work[p].request.path]
  OBVIOUS
<1>4. /\ o \in Hearing /\ o.at # "nonce" /\ o.request = work[p].request
      /\ o.age = work[p].age
  BY <1>1, <1>2, <1>3 DEF Hearing
<1>5. /\ Goes(p, o) /\ nonces' = nonces \cup {work[p].request.nonce}
      /\ UNCHANGED <<clock, sent, enrolled, handled, trustTables>>
  BY <1>3 DEF RecordNonce, StoreNonce
<1>6. QED
  BY <1>1, <1>2, <1>4, <1>5

LEMMA RecordNonceTyped ==
  ASSUME TypeOK, NEW p \in Procs, RecordNonce(p)
  PROVE  TypeOK'
<1>1. PICK o \in Hearing : Goes(p, o)
  BY RecordNonceEffect
<1>2. o \in Work /\ o \notin Judging \cup Writing
  <2>1. o \in Work
    BY DEF Work
  <2>2. QED
    BY <2>1, WorkByAt
<1>3. nonces' \subseteq Nat
  BY RecordNonceEffect, TablesKept
<1>4. UNCHANGED <<clock, sent, enrolled, handled>> /\ UNCHANGED trustTables
  BY RecordNonceEffect
<1>5. QED
  BY <1>1, <1>2, <1>3, <1>4, TablesKept, RequestStepTyped

(* A heartbeat of a known worker, or its registration before that.         *)
LEMMA HeartbeatEffect ==
  ASSUME TypeOK, NEW p \in Procs, HandleHeartbeat(p)
  PROVE  LET w == work[p].request.worker IN
         /\ work[p] \in Hearing /\ work[p].at = "heartbeat" /\ w \in Workers
         /\ \/ /\ registry[w] \in Row /\ registry' = [registry EXCEPT ![w].online = TRUE]
               /\ handled' = Append(handled, OutcomeOf(work[p])) /\ handled' \in Seq(Outcome)
               /\ Goes(p, Idle)
            \/ /\ registry[w] \notin Row /\ registry' = [registry EXCEPT ![w] = NewRow(TRUE)]
               /\ handled' = handled /\ Goes(p, work[p])
         /\ UNCHANGED <<clock, sent, nonces, enrolled, committees, verdicts>>
<1> DEFINE w == work[p].request.worker
<1>1. work[p] \in Hearing /\ work[p].at = "heartbeat"
  BY HeldTyped, WorkByAt DEF HandleHeartbeat
<1>2. w \in Workers
  BY <1>1, OutcomeTyped, EnrollmentAssumption
<1>3. w \in Registered <=> registry[w] \in Row
  BY <1>2, RegisteredRows DEF TypeOK
<1>4. UNCHANGED <<clock, sent, nonces, enrolled, committees, verdicts>>
  BY DEF HandleHeartbeat
<1>5. CASE w \in Registered
  <2>1. SetOnline(w) /\ Handled(p) /\ Goes(p, Idle)
    BY <1>5 DEF HandleHeartbeat
  <2>2. handled' = Append(handled, OutcomeOf(work[p])) /\ handled' \in Seq(Outcome)
    BY <1>1, <2>1, HandledIs DEF TypeOK
  <2>3. QED
    BY <1>1, <1>2, <1>3, <1>4, <1>5, <2>1, <2>2 DEF SetOnline
<1>6. CASE w \notin Registered
  <2>1. /\ registry' = [registry EXCEPT ![w] = NewRow(TRUE)]
        /\ handled' = handled /\ Goes(p, work[p])
    BY <1>6 DEF HandleHeartbeat
  <2>2. QED
    BY <1>1, <1>2, <1>3, <1>4, <1>6, <2>1
<1>7. QED
  BY <1>5, <1>6

LEMMA HeartbeatTyped ==
  ASSUME TypeOK, NEW p \in Procs, HandleHeartbeat(p)
  PROVE  TypeOK'
<1> DEFINE w == work[p].request.worker
<1>1. /\ work[p] \in Hearing /\ w \in Workers
      /\ UNCHANGED <<clock, sent, nonces, enrolled, committees, verdicts>>
  BY HeartbeatEffect
<1>2. work[p] \in Work /\ work[p] \notin Judging \cup Writing
      /\ Idle \in Work /\ Idle \notin Judging \cup Writing
  <2>1. work[p] \in Work
    BY HeldTyped
  <2>2. QED
    BY <1>1, <2>1, IdleIsWork, WorkByAt
<1>3. CASE /\ registry[w] \in Row /\ registry' = [registry EXCEPT ![w].online = TRUE]
           /\ handled' \in Seq(Outcome) /\ Goes(p, Idle)
  <2>1. PICK r \in Row : registry' = [registry EXCEPT ![w] = r]
    BY <1>1, <1>3, OnlineRow DEF TypeOK, TablesTyped
  <2>2. QED
    BY <1>1, <1>2, <1>3, <2>1, TablesKept, RowWrittenTyped DEF Statuses, Outcome
<1>4. CASE registry' = [registry EXCEPT ![w] = NewRow(TRUE)] /\ handled' = handled
           /\ Goes(p, work[p])
  BY <1>1, <1>2, <1>4, NewRowTyped, TablesKept, RowWrittenTyped DEF Statuses, Outcome
<1>5. QED
  BY <1>3, <1>4, HeartbeatEffect

LEMMA CapabilityEffect ==
  ASSUME TypeOK, NEW p \in Procs, HandleCapability(p)
  PROVE  /\ work[p] \in Hearing /\ work[p].at = "capability"
         /\ UNCHANGED <<enrollVars, trustTables>>
         /\ \E o \in Enrolling :
              /\ Goes(p, o) /\ o.at = "upsert" /\ o.row = RecordOf(o.worker)
              /\ o.request = work[p].request /\ o.age = work[p].age
<1> DEFINE w == work[p].request.worker
<1>1. work[p] \in Hearing /\ work[p].at = "capability"
  BY HeldTyped, WorkByAt DEF HandleCapability
<1>2. w \in Remote /\ w \in Workers /\ work[p].request \in Request /\ work[p].age \in Int
  BY <1>1, OutcomeTyped, EnrollmentAssumption
<1>3. RecordOf(w) \in Row
  BY <1>2, RecordTyped DEF TypeOK
<1>4. PICK o : o = [at |-> "upsert", worker |-> w, request |-> work[p].request,
                    age |-> work[p].age, row |-> RecordOf(w)]
  OBVIOUS
<1>5. Goes(p, o) /\ UNCHANGED <<enrollVars, trustTables>>
  BY <1>4 DEF HandleCapability
<1>6. /\ o \in Enrolling /\ o.at = "upsert" /\ o.row = RecordOf(o.worker)
      /\ o.request = work[p].request /\ o.age = work[p].age
  BY <1>2, <1>3, <1>4 DEF Enrolling
<1>7. QED
  BY <1>1, <1>5, <1>6

LEMMA OtherKinds ==
  ASSUME NEW o \in Enrolling \cup Registering \cup Activating
  PROVE  o \in Work /\ o \notin Judging \cup Writing
<1>1. o \in Work
  BY DEF Work
<1>2. QED
  BY <1>1, WorkByAt

LEMMA CapabilityTyped ==
  ASSUME TypeOK, NEW p \in Procs, HandleCapability(p)
  PROVE  TypeOK'
<1>1. PICK o \in Enrolling : Goes(p, o)
  BY CapabilityEffect
<1>2. UNCHANGED <<clock, sent, nonces, enrolled, handled>> /\ UNCHANGED trustTables
  BY CapabilityEffect DEF enrollVars
<1>3. QED
  BY <1>1, <1>2, OtherKinds, TablesKept, RequestStepTyped

LEMMA OtherEffect ==
  ASSUME TypeOK, NEW p \in Procs, HandleOther(p)
  PROVE  /\ work[p] \in Hearing /\ work[p].at = "other"
         /\ handled' = Append(handled, OutcomeOf(work[p])) /\ handled' \in Seq(Outcome)
         /\ Goes(p, Idle) /\ UNCHANGED <<clock, sent, nonces, enrolled, trustTables>>
<1>1. work[p] \in Hearing /\ work[p].at = "other"
  BY HeldTyped, WorkByAt DEF HandleOther
<1>2. Handled(p) /\ Goes(p, Idle) /\ UNCHANGED <<clock, sent, nonces, enrolled, trustTables>>
  BY DEF HandleOther
<1>3. QED
  BY <1>1, <1>2, HandledIs DEF TypeOK

LEMMA OtherTyped ==
  ASSUME TypeOK, NEW p \in Procs, HandleOther(p)
  PROVE  TypeOK'
<1>1. /\ handled' \in Seq(Outcome) /\ Goes(p, Idle) /\ UNCHANGED trustTables
      /\ UNCHANGED <<clock, sent, nonces, enrolled>>
  BY OtherEffect
<1>2. Idle \in Work /\ Idle \notin Judging \cup Writing
  BY IdleIsWork, WorkByAt
<1>3. QED
  BY <1>1, <1>2, TablesKept, RequestStepTyped

(* A request is handled with the step, or there is none in hand.           *)
LEMMA ActivatesEffect ==
  ASSUME TypeOK, NEW p \in Procs, Activates(p)
  PROVE  /\ work[p] \in Enrolling \cup Activating /\ work[p].at = "activate"
         /\ Goes(p, Idle) /\ UNCHANGED <<clock, sent, nonces, trustTables>>
         /\ enrolled' \in [Remote -> Statuses]
         /\ \/ work[p] \in Enrolling /\ handled' = Append(handled, OutcomeOf(work[p]))
            \/ handled' = handled
         /\ handled' \in Seq(Outcome)
<1>1. work[p] \in Enrolling \cup Activating /\ work[p].at = "activate"
  BY HeldTyped, WorkByAt DEF Activates
<1>2. work[p].worker \in Remote
  BY <1>1, HeldTyped
<1>3. /\ Goes(p, Idle) /\ UNCHANGED <<clock, sent, nonces, trustTables>>
      /\ enrolled' = [enrolled EXCEPT ![work[p].worker] = "active"]
      /\ IF "request" \in DOMAIN work[p] THEN Handled(p) ELSE handled' = handled
  BY DEF Activates, SetStatus
<1>4. enrolled' \in [Remote -> Statuses]
  BY <1>2, <1>3, TablesKept DEF Statuses
<1>5. "request" \in DOMAIN work[p] <=> work[p] \in Enrolling
  <2>1. work[p] \in Work
    BY HeldTyped
  <2>2. work[p] \notin Hearing
    BY <1>1, <2>1, WorkByAt
  <2>3. QED
    BY <2>1, <2>2, RequestInHand
<1>6. CASE work[p] \in Enrolling
  BY <1>1, <1>3, <1>4, <1>5, <1>6, HandledIs DEF TypeOK
<1>7. CASE work[p] \notin Enrolling
  BY <1>1, <1>3, <1>4, <1>5, <1>7, TablesKept
<1>8. QED
  BY <1>6, <1>7

LEMMA ActivatesTyped ==
  ASSUME TypeOK, NEW p \in Procs, Activates(p)
  PROVE  TypeOK'
<1>1. /\ handled' \in Seq(Outcome) /\ Goes(p, Idle) /\ UNCHANGED trustTables
      /\ UNCHANGED <<clock, sent, nonces>> /\ enrolled' \in [Remote -> Statuses]
  BY ActivatesEffect
<1>2. Idle \in Work /\ Idle \notin Judging \cup Writing
  BY IdleIsWork, WorkByAt
<1>3. QED
  BY <1>1, <1>2, TablesKept, RequestStepTyped

(* The upsert; a request is then handled, or goes on to its activation.    *)
LEMMA UpsertEffect ==
  ASSUME TypeOK, NEW p \in Procs, Upsert(p)
  PROVE  LET w == work[p].worker
             row == work[p].row
         IN  /\ work[p] \in Enrolling \cup Registering /\ work[p].at = "upsert"
             /\ w \in Workers /\ row \in Row
             /\ \E r \in Row : registry' = [registry EXCEPT ![w] = r] /\ SameRecord(r, row)
             /\ UNCHANGED <<clock, sent, nonces, enrolled, committees, verdicts>>
             /\ \/ /\ work[p] \in Enrolling /\ handled' = Append(handled, OutcomeOf(work[p]))
                   /\ Goes(p, Idle)
                \/ /\ work[p] \in Enrolling /\ handled' = handled
                   /\ \E o \in Enrolling : /\ Goes(p, o) /\ o.at = "activate"
                                           /\ o.request = work[p].request /\ o.age = work[p].age
                \/ handled' = handled /\ Goes(p, Idle)
             /\ handled' \in Seq(Outcome)
<1> DEFINE w == work[p].worker
           row == work[p].row
<1>1. work[p] \in Enrolling \cup Registering /\ work[p].at = "upsert"
  BY HeldTyped, WorkByAt DEF Upsert
<1>2. w \in Workers /\ row \in Row
  BY <1>1, HeldTyped, EnrollmentAssumption
<1>3. PICK r : r = [row EXCEPT !.online = TRUE]
  OBVIOUS
<1>4. r \in Row /\ SameRecord(r, row)
  BY <1>2, <1>3, OnlineRow
<1>5. registry' = [registry EXCEPT ![w] = r]
  BY <1>3 DEF Upsert
<1>6. UNCHANGED <<clock, sent, nonces, enrolled, committees, verdicts>>
  BY DEF Upsert
<1>7. "request" \in DOMAIN work[p] <=> work[p] \in Enrolling
  <2>1. work[p] \in Work
    BY HeldTyped
  <2>2. work[p] \notin Hearing
    BY <1>1, <2>1, WorkByAt
  <2>3. QED
    BY <2>1, <2>2, RequestInHand
<1> DEFINE After ==
      /\ \/ /\ work[p] \in Enrolling /\ handled' = Append(handled, OutcomeOf(work[p]))
            /\ Goes(p, Idle)
         \/ /\ work[p] \in Enrolling /\ handled' = handled
            /\ \E o \in Enrolling : /\ Goes(p, o) /\ o.at = "activate"
                                    /\ o.request = work[p].request /\ o.age = work[p].age
         \/ handled' = handled /\ Goes(p, Idle)
      /\ handled' \in Seq(Outcome)
<1>8. ASSUME work[p] \in Enrolling, DevSecret PROVE After
  <2>1. PICK o : o = [work[p] EXCEPT !.at = "activate"]
    OBVIOUS
  <2>2. /\ o \in Enrolling /\ o.at = "activate" /\ o.request = work[p].request
        /\ o.age = work[p].age
    BY <1>8, <2>1 DEF Enrolling
  <2>3. Goes(p, o) /\ handled' = handled
    BY <1>7, <1>8, <2>1 DEF Upsert
  <2>4. QED
    BY <1>8, <2>2, <2>3, TablesKept
<1>9. ASSUME work[p] \in Enrolling, ~DevSecret PROVE After
  <2>1. Handled(p) /\ Goes(p, Idle)
    BY <1>7, <1>9 DEF Upsert
  <2>2. QED
    BY <1>9, <2>1, HandledIs DEF TypeOK
<1>10. ASSUME work[p] \notin Enrolling PROVE After
  <2>1. handled' = handled /\ Goes(p, Idle)
    BY <1>7, <1>10 DEF Upsert
  <2>2. QED
    BY <2>1, TablesKept
<1>11. After
  BY <1>8, <1>9, <1>10
<1> HIDE DEF After
<1>12. QED
  BY <1>1, <1>2, <1>4, <1>5, <1>6, <1>11 DEF After

LEMMA UpsertTyped ==
  ASSUME TypeOK, NEW p \in Procs, Upsert(p)
  PROVE  TypeOK'
<1>1. /\ work[p].worker \in Workers /\ handled' \in Seq(Outcome)
      /\ UNCHANGED <<clock, sent, nonces, enrolled, committees, verdicts>>
  BY UpsertEffect
<1>2. PICK r \in Row : registry' = [registry EXCEPT ![work[p].worker] = r]
  BY UpsertEffect
<1>3. PICK o \in Work : Goes(p, o) /\ o \notin Judging \cup Writing
  <2>1. Idle \in Work /\ Idle \notin Judging \cup Writing
    BY IdleIsWork, WorkByAt
  <2>2. Goes(p, Idle) \/ \E o \in Enrolling : Goes(p, o)
    BY UpsertEffect
  <2>3. QED
    BY <2>1, <2>2, OtherKinds
<1>4. QED
  BY <1>1, <1>2, <1>3, TablesKept, RowWrittenTyped DEF Statuses, Outcome

LEMMA RegisterLocalEffect ==
  ASSUME TypeOK, NEW p \in Procs, NEW w \in Workers, RegisterLocal(p, w)
  PROVE  /\ UNCHANGED <<enrollVars, trustTables>>
         /\ \E o \in Registering : /\ Begins(p, o) /\ o.at = "upsert"
                                   /\ o.row = RecordOf(o.worker)
                                   /\ "request" \notin DOMAIN o
<1>1. RecordOf(w) \in Row
  BY RecordTyped DEF TypeOK
<1>2. PICK o : o = [at |-> "upsert", worker |-> w, row |-> RecordOf(w)]
  OBVIOUS
<1>3. Begins(p, o) /\ UNCHANGED <<enrollVars, trustTables>>
  BY <1>2 DEF RegisterLocal
<1>4. /\ o \in Registering /\ o.at = "upsert" /\ o.row = RecordOf(o.worker)
      /\ "request" \notin DOMAIN o
  BY <1>1, <1>2 DEF Registering
<1>5. QED
  BY <1>3, <1>4

LEMMA RegisterLocalTyped ==
  ASSUME TypeOK, NEW p \in Procs, NEW w \in Workers, RegisterLocal(p, w)
  PROVE  TypeOK'
<1>1. PICK o \in Registering : Begins(p, o)
  BY RegisterLocalEffect
<1>2. UNCHANGED <<clock, sent, nonces, enrolled, handled>> /\ UNCHANGED trustTables
  BY RegisterLocalEffect DEF enrollVars
<1>3. QED
  BY <1>1, <1>2, OtherKinds, TablesKept, RequestStepTyped

(* What an operator does to an enrollment.                                 *)
LEMMA OperatorEffect ==
  ASSUME TypeOK, NEW p \in Procs, NEW w \in Remote,
         Create(p, w) \/ Revoke(p, w) \/ Activate(p, w)
  PROVE  /\ UNCHANGED <<clock, sent, nonces, handled, trustTables>>
         /\ enrolled' \in [Remote -> Statuses]
         /\ Begins(p, Idle) \/ \E o \in Activating : Begins(p, o)
<1>1. UNCHANGED <<clock, sent, nonces, handled, trustTables>>
  BY DEF Create, Revoke, Activate
<1>2. enrolled[w] \in Statuses
  BY TablesKept
<1>3. enrolled' \in [Remote -> Statuses]
  BY <1>2, TablesKept DEF Create, Revoke, Activate, SetStatus, Statuses
<1>4. CASE Create(p, w) \/ Revoke(p, w)
  BY <1>1, <1>3, <1>4 DEF Create, Revoke
<1>5. CASE Activate(p, w)
  <2>1. [at |-> "activate", worker |-> w] \in Activating
    BY DEF Activating
  <2>2. QED
    BY <1>1, <1>3, <1>5, <2>1 DEF Activate
<1>6. QED
  BY <1>4, <1>5

LEMMA OperatorTyped ==
  ASSUME TypeOK, NEW p \in Procs, NEW w \in Remote,
         Create(p, w) \/ Revoke(p, w) \/ Activate(p, w)
  PROVE  TypeOK'
<1>1. UNCHANGED <<clock, sent, nonces, handled>> /\ UNCHANGED trustTables
      /\ enrolled' \in [Remote -> Statuses]
  BY OperatorEffect
<1>2. PICK o \in Work : Begins(p, o) /\ o \notin Judging \cup Writing
  <2>1. Idle \in Work /\ Idle \notin Judging \cup Writing
    BY IdleIsWork, WorkByAt
  <2>2. QED
    BY <2>1, OtherKinds, OperatorEffect
<1>3. QED
  BY <1>1, <1>2, TablesKept, RequestStepTyped

LEMMA SendTyped ==
  ASSUME TypeOK, NEW w \in Remote, Send(w)
  PROVE  TypeOK'
<1>1. PICK path \in {"heartbeat", "capability", "other"} :
        sent' = sent \cup
                  {[nonce |-> Cardinality(sent) + 1, worker |-> w, ts |-> clock, path |-> path]}
  BY DEF Send
<1>2. UNCHANGED <<clock, nonces, enrolled, handled, trustTables, procVars>>
  BY DEF Send
<1>3. IsFiniteSet(sent) /\ Cardinality(sent) \in Nat /\ clock \in Nat
  BY FS_CardinalityType DEF TypeOK, TablesTyped
<1>4. PICK r : r = [nonce |-> Cardinality(sent) + 1, worker |-> w, ts |-> clock, path |-> path]
  OBVIOUS
<1>5. r \in Request
  BY <1>3, <1>4 DEF Request
<1>6. sent' \subseteq Request /\ IsFiniteSet(sent')
  BY <1>1, <1>3, <1>4, <1>5, FS_AddElement DEF TypeOK, TablesTyped
<1>7. TablesTyped'
  BY <1>2, <1>6 DEF TypeOK, TablesTyped, trustTables
<1>8. TurnsTyped' /\ \A p \in Procs : RowsThere(work[p])'
  BY <1>2 DEF TypeOK, TurnsTyped, RowsThere, trustTables, procVars
<1>9. QED
  BY <1>7, <1>8 DEF TypeOK

LEMMA TickTyped ==
  ASSUME TypeOK, Tick
  PROVE  TypeOK'
<1>1. /\ UNCHANGED <<sent, nonces, enrolled, handled, trustTables, procVars>>
      /\ clock' = clock + 1
  BY DEF Tick
<1>2. TablesTyped'
  BY <1>1 DEF TypeOK, TablesTyped, trustTables
<1>3. TurnsTyped' /\ \A p \in Procs : RowsThere(work[p])'
  BY <1>1 DEF TypeOK, TurnsTyped, RowsThere, trustTables, procVars
<1>4. QED
  BY <1>2, <1>3 DEF TypeOK

LEMMA KillTyped ==
  ASSUME TypeOK, NEW p \in Procs, Kill(p), UNCHANGED <<trustTables, enrollVars>>
  PROVE  TypeOK'
<1>1. /\ work' = [work EXCEPT ![p] = Idle] /\ inTurn' = inTurn /\ ops' = ops
      /\ crashes' = crashes + 1
  BY DEF Kill
<1>2. ops' \in Nat /\ crashes' \in Nat
  BY <1>1 DEF TypeOK, TurnsTyped
<1>3. TablesTyped' /\ UNCHANGED <<registry, committees>>
  BY DEF TypeOK, TablesTyped, trustTables, enrollVars
<1>4. Idle \in Work /\ Idle \notin Judging \cup Writing /\ Idle.at \notin {"vote", "finalize"}
  BY IdleIsWork, WorkByAt
<1>5. QED
  BY <1>1, <1>2, <1>3, <1>4, StepTyped

----
\* Committees in session, and those that have decided

(* Decisions stand, and other sessions are left alone.                     *)
LEMMA SessionStep ==
  ASSUME TypeOK, CommitteesInv, NEW p \in Procs, NEW o,
         work' = [work EXCEPT ![p] = o],
         DOMAIN committees \subseteq DOMAIN committees',
         \A k \in DOMAIN committees :
           committees[k].result = "accepted" => committees'[k] = committees[k],
         \A q \in Procs \ {p} : InSession(work[q]) =>
           LET k == work[q].committee IN
           committees'[k] = committees[k] /\ (InSession(o) => k # o.committee),
         Seated(o)',
         \A i \in DOMAIN verdicts' : verdicts'[i].accepted =>
           \/ i \in DOMAIN verdicts /\ verdicts'[i] = verdicts[i]
           \/ Decided(verdicts'[i].committee, verdicts'[i].worker)
  PROVE  CommitteesInv'
<1>1. work'[p] = o /\ \A q \in Procs \ {p} : work'[q] = work[q]
  BY DEF TypeOK, TurnsTyped
<1>2. \A k, w : Decided(k, w) => Decided(k, w)'
  BY DEF Decided, Accepts, VotesFor
<1>3. ASSUME NEW q \in Procs \ {p} PROVE Seated(work[q])'
  <2>1. Seated(work[q]) /\ work'[q] = work[q]
    BY <1>1 DEF CommitteesInv
  <2>2. CASE InSession(work[q])
    <3>1. committees'[work[q].committee] = committees[work[q].committee]
      BY <2>2
    <3>2. work[q].at # "receipt"
      BY <2>2 DEF InSession
    <3>3. QED
      BY <2>1, <2>2, <3>1, <3>2 DEF Seated, InSession
  <2>3. CASE ~InSession(work[q])
    BY <1>2, <2>1, <2>3 DEF Seated, InSession
  <2>4. QED
    BY <2>2, <2>3
<1>4. \A q \in Procs : Seated(work[q])'
  BY <1>1, <1>3
<1>5. \A q, r \in Procs : InSession(work'[q]) /\ InSession(work'[r])
                          /\ work'[q].committee = work'[r].committee => q = r
  BY <1>1 DEF CommitteesInv
<1>6. ASSUME NEW i \in DOMAIN verdicts', verdicts'[i].accepted
      PROVE  LET k == verdicts'[i].committee IN
             k \in DOMAIN committees' /\ Accepts(committees'[k], verdicts'[i].worker)
  <2>1. Decided(verdicts'[i].committee, verdicts'[i].worker)
    BY <1>6 DEF CommitteesInv
  <2>2. QED
    BY <2>1 DEF Decided, Accepts
<1>7. /\ \A q \in Procs : Seated(work[q])'
      /\ \A q, r \in Procs : (InSession(work[q]) /\ InSession(work[r])
                              /\ work[q].committee = work[r].committee => q = r)'
      /\ \A i \in DOMAIN verdicts' :
           (verdicts[i].accepted => Decided(verdicts[i].committee, verdicts[i].worker))'
  <2>1. \A q, r \in Procs : (InSession(work[q]) /\ InSession(work[r])
                             /\ work[q].committee = work[r].committee => q = r)'
    BY <1>5 DEF InSession
  <2>2. \A i \in DOMAIN verdicts' :
          (verdicts[i].accepted => Decided(verdicts[i].committee, verdicts[i].worker))'
    BY <1>6 DEF Decided, Accepts, VotesFor
  <2>3. QED
    BY <1>4, <2>1, <2>2
<1>8. QED
  BY <1>7 DEF CommitteesInv

(* Steps that touch neither a committee nor a verdict.                     *)
LEMMA PlainSession ==
  ASSUME TypeOK, CommitteesInv, NEW p \in Procs, NEW o, work' = [work EXCEPT ![p] = o],
         UNCHANGED <<committees, verdicts>>, ~InSession(o), o.at = "receipt" => o.reason # None
  PROVE  CommitteesInv'
<1>1. Seated(o)'
  BY DEF Seated, InSession
<1>2. QED
  BY <1>1, SessionStep

LEMMA CheckSession ==
  ASSUME TypeOK, CommitteesInv, NEW p \in Procs, NEW w \in Workers, Check(p, w)
  PROVE  CommitteesInv'
<1>1. PICK why \in Reasons : Begins(p, [at |-> IF why = None THEN "select" ELSE "receipt",
                                       worker |-> w, reason |-> why, committee |-> 0])
  BY ReasonTyped DEF Check
<1>2. PICK o : o = [at |-> IF why = None THEN "select" ELSE "receipt", worker |-> w,
                    reason |-> why, committee |-> 0]
  OBVIOUS
<1>3. ~InSession(o) /\ (o.at = "receipt" => o.reason # None)
  BY <1>2 DEF InSession
<1>4. work' = [work EXCEPT ![p] = o]
  BY <1>1, <1>2, WorkMoves DEF TypeOK
<1>5. UNCHANGED <<committees, verdicts>>
  BY DEF Check, trustTables
<1>6. QED
  BY <1>3, <1>4, <1>5, PlainSession

LEMMA SelectSession ==
  ASSUME TypeOK, CommitteesInv, NEW p \in Procs, SelectCommittee(p)
  PROVE  CommitteesInv'
<1>1. PICK c, o : /\ c = NewCommittee(work[p].worker)
                  /\ o = [work[p] EXCEPT !.at = IF c.members = {} THEN "finalize" ELSE "vote",
                                          !.committee = Len(committees) + 1]
                  /\ committees' = Append(committees, c) /\ Goes(p, o)
  BY DEF SelectCommittee, InsertCommittee
<1>2. work[p] \in Judging
  BY HeldTyped, WorkByAt DEF SelectCommittee
<1>3. work[p].worker \in Workers
  BY <1>2, HeldTyped
<1>4. committees \in Seq(Committee)
  BY DEF TypeOK, TablesTyped
<1>5. PICK n \in Nat : n = Len(committees) /\ DOMAIN committees = 1..n
  BY <1>4
<1>6. /\ DOMAIN committees' = 1..(n + 1) /\ committees'[n + 1] = c
      /\ \A k \in DOMAIN committees : committees'[k] = committees[k]
  BY <1>1, <1>4, <1>5
<1>7. /\ o.worker = work[p].worker /\ o.committee = n + 1
      /\ o.at = IF c.members = {} THEN "finalize" ELSE "vote"
  BY <1>1, <1>2, <1>5 DEF Judging
<1>8. /\ c.worker = work[p].worker /\ c.result = "open" /\ c.worker \notin c.members
      /\ DOMAIN c.votes = {}
  BY <1>1, <1>3, VerifiersAreOthers DEF NewCommittee, TypeOK
<1>9. Seated(o)'
  BY <1>6, <1>7, <1>8 DEF Seated, InSession
<1>10. \A q \in Procs : InSession(work[q]) => work[q].committee \in 1..n
  BY <1>5 DEF TypeOK, RowsThere, InSession
<1>11. n + 1 \notin 1..n /\ 1..n \subseteq 1..(n + 1)
  OBVIOUS
<1>12. work' = [work EXCEPT ![p] = o] /\ verdicts' = verdicts
  BY <1>1, WorkMoves DEF TypeOK, SelectCommittee
<1>13. QED
  BY <1>5, <1>6, <1>7, <1>9, <1>10, <1>11, <1>12, SessionStep

(* A process writes the committee that it is in session with.              *)
LEMMA OwnSession ==
  ASSUME TypeOK, CommitteesInv, NEW p \in Procs, NEW c \in Committee, NEW o,
         InSession(work[p]), committees' = [committees EXCEPT ![work[p].committee] = c],
         Goes(p, o), o.committee = work[p].committee, Seated(o)', verdicts' = verdicts
  PROVE  CommitteesInv'
<1> DEFINE k == work[p].committee
<1>1. k \in DOMAIN committees /\ committees \in Seq(Committee)
  BY DEF TypeOK, TablesTyped, RowsThere, InSession
<1>2. DOMAIN committees' = DOMAIN committees /\ committees'[k] = c
      /\ \A j \in DOMAIN committees \ {k} : committees'[j] = committees[j]
  BY <1>1, RowReplaced
<1>3. committees[k].result = "open"
  BY DEF CommitteesInv, Seated
<1>4. \A q \in Procs \ {p} : InSession(work[q]) =>
        work[q].committee # k /\ work[q].committee \in DOMAIN committees
  BY DEF CommitteesInv, TypeOK, RowsThere, InSession
<1>5. work' = [work EXCEPT ![p] = o]
  BY WorkMoves DEF TypeOK
<1>6. \A q \in Procs \ {p} : InSession(work[q]) =>
        LET j == work[q].committee IN
        committees'[j] = committees[j] /\ (InSession(o) => j # o.committee)
  BY <1>2, <1>4
<1>7. /\ DOMAIN committees \subseteq DOMAIN committees'
      /\ \A j \in DOMAIN committees :
           committees[j].result = "accepted" => committees'[j] = committees[j]
  BY <1>2, <1>3
<1>8. \A i \in DOMAIN verdicts' : verdicts'[i].accepted =>
        \/ i \in DOMAIN verdicts /\ verdicts'[i] = verdicts[i]
        \/ Decided(verdicts'[i].committee, verdicts'[i].worker)
  OBVIOUS
<1>9. QED
  BY <1>5, <1>6, <1>7, <1>8, SessionStep

LEMMA VoteSession ==
  ASSUME TypeOK, CommitteesInv, NEW p \in Procs, Vote(p)
  PROVE  CommitteesInv'
<1>1. Seated(work[p])
  BY DEF CommitteesInv
<1>2. PICK c \in Committee, o \in Judging : Casts(p, c, o)
  BY <1>1, VoteEffect
<1>3. InSession(work[p])
  BY DEF Vote, InSession
<1> DEFINE k == work[p].committee
<1>4. k \in DOMAIN committees /\ committees \in Seq(Committee)
  BY <1>3 DEF TypeOK, TablesTyped, RowsThere, InSession
<1>5. committees' = [committees EXCEPT ![k] = c] /\ committees'[k] = c
  BY <1>2, <1>4, RowReplaced DEF Casts
<1>6. o.committee = k /\ InSession(o)
  BY <1>2 DEF Casts
<1>7. /\ c.result = "open" /\ c.worker = o.worker /\ c.worker \notin c.members
      /\ DOMAIN c.votes \subseteq c.members /\ (o.at = "finalize" <=> DOMAIN c.votes = c.members)
  BY <1>1, <1>2, <1>3 DEF Casts, Seated
<1>8. Seated(o)'
  BY <1>5, <1>6, <1>7 DEF Seated, InSession
<1>9. Goes(p, o) /\ verdicts' = verdicts
  BY <1>2 DEF Casts, Vote
<1>10. QED
  BY <1>3, <1>5, <1>6, <1>8, <1>9, OwnSession

LEMMA FinalizeSession ==
  ASSUME TypeOK, CommitteesInv, NEW p \in Procs, FinalizeCommittee(p)
  PROVE  CommitteesInv'
<1>1. Seated(work[p])
  BY DEF CommitteesInv
<1>2. PICK c \in Committee, o \in Judging : Closes(p, c, o)
  BY <1>1, FinalizeEffect
<1>3. InSession(work[p])
  BY DEF FinalizeCommittee, InSession
<1> DEFINE k == work[p].committee
<1>4. k \in DOMAIN committees /\ committees \in Seq(Committee)
  BY <1>3 DEF TypeOK, TablesTyped, RowsThere, InSession
<1>5. /\ committees' = [committees EXCEPT ![k] = c] /\ committees'[k] = c
      /\ DOMAIN committees' = DOMAIN committees
  BY <1>2, <1>4, RowReplaced DEF Closes
<1>6. o.committee = k /\ ~InSession(o) /\ (o.reason = None => Accepts(c, o.worker))
  BY <1>2 DEF Closes, InSession
<1>7. Seated(o)'
  <2>1. o.reason = None => Accepts(committees'[o.committee], o.worker)
                           /\ o.committee \in DOMAIN committees'
    BY <1>4, <1>5, <1>6
  <2>2. QED
    BY <1>6, <2>1 DEF Seated, InSession, Decided, Accepts, VotesFor
<1>8. Goes(p, o) /\ verdicts' = verdicts
  BY <1>2 DEF Closes, FinalizeCommittee
<1>9. QED
  BY <1>3, <1>5, <1>6, <1>7, <1>8, OwnSession

LEMMA InsertVerdictSession ==
  ASSUME TypeOK, CommitteesInv, NEW p \in Procs, InsertVerdict(p)
  PROVE  CommitteesInv'
<1>1. PICK o : o = [work[p] EXCEPT !.at = "read"]
  OBVIOUS
<1>2. work[p] \in Judging /\ work[p].at = "receipt"
  BY HeldTyped, WorkByAt DEF InsertVerdict
<1>3. o.at = "read"
  BY <1>1, <1>2 DEF Judging
<1>4. Goes(p, o) /\ committees' = committees
  BY <1>1 DEF InsertVerdict
<1>5. verdicts' = Append(verdicts, VerdictOf(work[p])) /\ verdicts \in Seq(Verdict)
  BY DEF InsertVerdict, VerdictOf, TypeOK, TablesTyped
<1>6. PICK n \in Nat : n = Len(verdicts) /\ DOMAIN verdicts = 1..n
  BY <1>5
<1>7. /\ DOMAIN verdicts' = 1..(n + 1) /\ verdicts'[n + 1] = VerdictOf(work[p])
      /\ \A i \in 1..n : verdicts'[i] = verdicts[i]
  BY <1>5, <1>6
<1>8. VerdictOf(work[p]).accepted => Decided(work[p].committee, work[p].worker)
  <2>1. Seated(work[p])
    BY DEF CommitteesInv
  <2>2. QED
    BY <1>2, <2>1 DEF Seated, VerdictOf
<1>9. \A i \in DOMAIN verdicts' : verdicts'[i].accepted =>
        \/ i \in DOMAIN verdicts /\ verdicts'[i] = verdicts[i]
        \/ Decided(verdicts'[i].committee, verdicts'[i].worker)
  <2>1. SUFFICES ASSUME NEW i \in 1..(n + 1), verdicts'[i].accepted
                 PROVE  \/ i \in DOMAIN verdicts /\ verdicts'[i] = verdicts[i]
                        \/ Decided(verdicts'[i].committee, verdicts'[i].worker)
    BY <1>7
  <2>2. CASE i = n + 1
    <3>1. verdicts'[i] = VerdictOf(work[p])
      BY <1>7, <2>2
    <3>2. QED
      BY <1>8, <2>1, <3>1 DEF VerdictOf
  <2>3. CASE i # n + 1
    <3>1. i \in 1..n
      BY <2>3
    <3>2. QED
      BY <1>6, <1>7, <3>1
  <2>4. QED
    BY <2>2, <2>3
<1>10. Seated(o)'
  BY <1>3 DEF Seated, InSession
<1>11. work' = [work EXCEPT ![p] = o] /\ ~InSession(o)
  BY <1>3, <1>4, WorkMoves DEF TypeOK, InSession
<1>12. QED
  BY <1>4, <1>9, <1>10, <1>11, SessionStep

----
\* The steps, one process at a time

EnrollmentStep(p) ==
  \/ \E w \in Workers : RegisterLocal(p, w)
  \/ \E w \in Remote : Create(p, w) \/ Revoke(p, w) \/ Activate(p, w)
  \/ Upsert(p) \/ Activates(p)
  \/ p \in Controllers /\ \E r \in sent : Receive(p, r)
  \/ RecordNonce(p) \/ HandleHeartbeat(p) \/ HandleCapability(p) \/ HandleOther(p)

TrustStep(p) ==
  \/ EnrollmentStep(p)
  \/ /\ (\E w \in Workers : Check(p, w) \/ ReadDecay(p, w)) \/ VerificationStep(p)
     /\ UNCHANGED enrollVars

LEMMA NextCases ==
  ASSUME Next
  PROVE  \/ \E p \in Procs : TrustStep(p)
         \/ \E w \in Remote : Send(w)
         \/ Tick
         \/ Killed
<1>1. /\ \A p \in DOMAIN DaemonOf : p \in Procs /\ DaemonOf[p] \in Workers
      /\ \A p \in Controllers : p \in Procs
      /\ \A p \in Operators : p \in Procs
      /\ \A w \in Remote : w \in Workers
  BY WorkerTrustAssumption, EnrollmentAssumption
<1>2. ASSUME NEW p \in DOMAIN DaemonOf, DaemonStep(p) PROVE TrustStep(p)
  BY <1>1, <1>2 DEF DaemonStep, TrustStep, EnrollmentStep
<1>3. ASSUME NEW p \in Controllers, ControllerStep(p) PROVE TrustStep(p)
  BY <1>3 DEF ControllerStep, TrustStep, EnrollmentStep
<1>4. ASSUME NEW p \in Operators, OperatorStep(p) PROVE TrustStep(p)
  <2>1. CASE \E w \in Remote : Create(p, w) \/ Revoke(p, w) \/ Activate(p, w)
    BY <2>1 DEF TrustStep, EnrollmentStep
  <2>2. CASE Activates(p)
    BY <2>2 DEF TrustStep, EnrollmentStep
  <2>3. CASE (\E w \in Remote : ReadDecay(p, w)) /\ UNCHANGED enrollVars
    BY <1>1, <2>3 DEF TrustStep
  <2>4. CASE WriteRecord(p) /\ UNCHANGED enrollVars
    BY <2>4 DEF TrustStep, VerificationStep
  <2>5. QED
    BY <1>4, <2>1, <2>2, <2>3, <2>4 DEF OperatorStep
<1>5. QED
  BY <1>1, <1>2, <1>3, <1>4 DEF Next

(* Requests and registrations touch no committee and no verdict.           *)
LEMMA EnrollmentPlain ==
  ASSUME TypeOK, NEW p \in Procs, EnrollmentStep(p)
  PROVE  /\ UNCHANGED <<committees, verdicts>>
         /\ \E o \in Work : (Goes(p, o) \/ Begins(p, o)) /\ o \notin Judging \cup Writing
<1>1. /\ Idle \in Work /\ Idle \notin Judging \cup Writing
      /\ \A o \in Hearing : o \in Work /\ o \notin Judging \cup Writing
  <2>1. \A o \in Hearing : o \in Work
    BY DEF Work
  <2>2. \A o \in Hearing : o \notin Judging \cup Writing
    <3>1. SUFFICES ASSUME NEW o \in Hearing PROVE o \notin Judging \cup Writing
      OBVIOUS
    <3>2. QED
      BY <2>1, WorkByAt
  <2>3. QED
    BY <2>1, <2>2, IdleIsWork, WorkByAt
<1> DEFINE Plain == /\ UNCHANGED <<committees, verdicts>>
                    /\ \E o \in Work : (Goes(p, o) \/ Begins(p, o))
                                       /\ o \notin Judging \cup Writing
<1>2. ASSUME NEW w \in Workers, RegisterLocal(p, w) PROVE Plain
  BY <1>2, RegisterLocalEffect, OtherKinds DEF trustTables
<1>3. ASSUME NEW w \in Remote, Create(p, w) \/ Revoke(p, w) \/ Activate(p, w) PROVE Plain
  BY <1>1, <1>3, OperatorEffect, OtherKinds DEF trustTables
<1>4. ASSUME Upsert(p) PROVE Plain
  <2>1. UNCHANGED <<committees, verdicts>>
    BY <1>4 DEF Upsert
  <2>2. Goes(p, Idle) \/ \E o \in Enrolling : Goes(p, o)
    BY <1>4, UpsertEffect
  <2>3. QED
    BY <1>1, <2>1, <2>2, OtherKinds
<1>5. ASSUME Activates(p) PROVE Plain
  BY <1>1, <1>5, ActivatesEffect DEF trustTables
<1>6. ASSUME NEW r \in sent, Receive(p, r) PROVE Plain
  BY <1>1, <1>6, ReceiveEffect DEF trustTables
<1>7. ASSUME RecordNonce(p) PROVE Plain
  BY <1>1, <1>7, RecordNonceEffect DEF trustTables
<1>8. ASSUME HandleHeartbeat(p) PROVE Plain
  <2>1. UNCHANGED <<committees, verdicts>> /\ work[p] \in Hearing
    BY <1>8, HeartbeatEffect
  <2>2. Goes(p, Idle) \/ Goes(p, work[p])
    BY <1>8, HeartbeatEffect
  <2>3. QED
    BY <1>1, <2>1, <2>2
<1>9. ASSUME HandleCapability(p) PROVE Plain
  BY <1>9, CapabilityEffect, OtherKinds DEF trustTables
<1>10. ASSUME HandleOther(p) PROVE Plain
  BY <1>1, <1>10, OtherEffect DEF trustTables
<1> HIDE DEF Plain
<1>11. Plain
  BY <1>2, <1>3, <1>4, <1>5, <1>6, <1>7, <1>8, <1>9, <1>10 DEF EnrollmentStep
<1>12. QED
  BY <1>11 DEF Plain

LEMMA EnrollmentTyped ==
  ASSUME TypeOK, NEW p \in Procs, EnrollmentStep(p)
  PROVE  TypeOK'
  BY RegisterLocalTyped, OperatorTyped, UpsertTyped, ActivatesTyped, ReceiveTyped,
     RecordNonceTyped, HeartbeatTyped, CapabilityTyped, OtherTyped DEF EnrollmentStep

LEMMA OutsideSession ==
  ASSUME NEW o \in Work, o \notin Judging
  PROVE  ~InSession(o) /\ o.at # "receipt" /\ o.at # "read"
  BY WorkByAt DEF InSession

LEMMA EnrollmentSession ==
  ASSUME TypeOK, CommitteesInv, NEW p \in Procs, EnrollmentStep(p)
  PROVE  CommitteesInv'
<1>1. PICK o \in Work : (Goes(p, o) \/ Begins(p, o)) /\ o \notin Judging
  BY EnrollmentPlain
<1>2. work' = [work EXCEPT ![p] = o] /\ UNCHANGED <<committees, verdicts>>
  BY <1>1, EnrollmentPlain, WorkMoves DEF TypeOK
<1>3. QED
  BY <1>1, <1>2, OutsideSession, PlainSession

(* A step that puts a row into the process's hands or writes it.           *)
LEMMA RecordSession ==
  ASSUME TypeOK, CommitteesInv, NEW p \in Procs,
         ReadRecord(p) \/ WriteRecord(p) \/ \E w \in Workers : ReadDecay(p, w)
  PROVE  CommitteesInv'
<1>1. UNCHANGED <<committees, verdicts>>
  BY DEF ReadRecord, WriteRecord, ReadDecay, trustTables
<1>2. PICK o \in Work : (Goes(p, o) \/ Begins(p, o)) /\ o \notin Judging
  <2>1. \A o \in Writing : o \in Work /\ o \notin Judging
    BY DEF Work, Writing, Judging
  <2>2. Idle \in Work /\ Idle \notin Judging
    BY IdleIsWork, WorkByAt
  <2>3. QED
    BY <2>1, <2>2, ReadRecordEffect, WriteRecordEffect, ReadDecayEffect
<1>3. work' = [work EXCEPT ![p] = o]
  BY <1>2, WorkMoves DEF TypeOK
<1>4. QED
  BY <1>1, <1>2, <1>3, OutsideSession, PlainSession

TrustInv == TypeOK /\ CommitteesInv

LEMMA TrustInitially ==
  ASSUME Init
  PROVE  TrustInv
<1>1. /\ work = [p \in Procs |-> Idle] /\ inTurn \in BOOLEAN /\ ops = 0 /\ crashes = 0
      /\ registry \in [Workers -> {NewRow(TRUE), NoRow}]
      /\ committees = <<>> /\ verdicts = <<>>
      /\ clock = 0 /\ sent = {} /\ nonces = {} /\ handled = <<>>
      /\ enrolled \in [Remote -> {"none", "active"}]
  BY DEF Init, ProcInit, VerificationInit, EnrollmentInit
<1>2. TurnsTyped
  BY <1>1, IdleIsWork DEF TurnsTyped
<1>3. registry \in [Workers -> Row \cup {NoRow}]
  BY <1>1, NewRowTyped
<1>4. TablesTyped
  BY <1>1, <1>3, FS_EmptySet DEF TablesTyped
<1>5. \A p \in Procs : work[p] = Idle
  BY <1>1
<1>6. /\ Idle \notin Judging \cup Writing /\ ~InSession(Idle) /\ Idle.at # "receipt"
      /\ Idle.at \notin {"vote", "finalize"}
  BY IdleIsWork, WorkByAt DEF InSession
<1>7. \A p \in Procs : RowsThere(work[p]) /\ Seated(work[p]) /\ ~InSession(work[p])
  BY <1>5, <1>6 DEF RowsThere, Seated
<1>8. DOMAIN verdicts = {}
  BY <1>1
<1>9. QED
  BY <1>2, <1>4, <1>7, <1>8 DEF TrustInv, TypeOK, CommitteesInv

LEMMA TrustKept ==
  ASSUME TrustInv, [Next]_vars
  PROVE  TrustInv'
<1> USE DEF TrustInv
<1>1. ASSUME NEW p \in Procs, EnrollmentStep(p) PROVE TrustInv'
  BY <1>1, EnrollmentTyped, EnrollmentSession
<1>2. ASSUME NEW p \in Procs, UNCHANGED enrollVars,
             (\E w \in Workers : Check(p, w) \/ ReadDecay(p, w)) \/ VerificationStep(p)
      PROVE  TrustInv'
  <2>1. ASSUME NEW w \in Workers, Check(p, w) PROVE TrustInv'
    BY <1>2, <2>1, CheckTyped, CheckSession
  <2>2. ASSUME NEW w \in Workers, ReadDecay(p, w) PROVE TrustInv'
    BY <1>2, <2>2, ReadDecayTyped, RecordSession
  <2>3. CASE SelectCommittee(p)
    BY <1>2, <2>3, SelectCommitteeTyped, SelectSession
  <2>4. CASE Vote(p)
    <3>1. Seated(work[p])
      BY DEF CommitteesInv
    <3>2. QED
      BY <1>2, <2>4, <3>1, VoteTyped, VoteSession
  <2>5. CASE FinalizeCommittee(p)
    <3>1. Seated(work[p])
      BY DEF CommitteesInv
    <3>2. QED
      BY <1>2, <2>5, <3>1, FinalizeTyped, FinalizeSession
  <2>6. CASE InsertVerdict(p)
    BY <1>2, <2>6, InsertVerdictTyped, InsertVerdictSession
  <2>7. CASE ReadRecord(p)
    BY <1>2, <2>7, ReadRecordTyped, RecordSession
  <2>8. CASE WriteRecord(p)
    BY <1>2, <2>8, WriteRecordTyped, RecordSession
  <2>9. QED
    BY <1>2, <2>1, <2>2, <2>3, <2>4, <2>5, <2>6, <2>7, <2>8 DEF VerificationStep
<1>3. ASSUME UNCHANGED <<work, committees, verdicts>> PROVE CommitteesInv'
  <2>1. \A p \in Procs : Seated(work[p])'
    BY <1>3 DEF CommitteesInv, Seated, Decided, Accepts
  <2>2. \A p, q \in Procs : (InSession(work[p]) /\ InSession(work[q])
                             /\ work[p].committee = work[q].committee => p = q)'
    BY <1>3 DEF CommitteesInv, InSession
  <2>3. \A i \in DOMAIN verdicts' :
          (verdicts[i].accepted => Decided(verdicts[i].committee, verdicts[i].worker))'
    BY <1>3 DEF CommitteesInv, Decided, Accepts
  <2>4. QED
    BY <2>1, <2>2, <2>3 DEF CommitteesInv
<1>4. ASSUME NEW w \in Remote, Send(w) PROVE TrustInv'
  <2>1. UNCHANGED <<work, committees, verdicts>>
    BY <1>4 DEF Send, trustTables, procVars
  <2>2. QED
    BY <1>3, <1>4, <2>1, SendTyped
<1>5. ASSUME Tick PROVE TrustInv'
  <2>1. UNCHANGED <<work, committees, verdicts>>
    BY <1>5 DEF Tick, trustTables, procVars
  <2>2. QED
    BY <1>3, <1>5, <2>1, TickTyped
<1>6. ASSUME Killed PROVE TrustInv'
  <2>1. PICK p \in Procs : Kill(p) /\ UNCHANGED <<trustTables, enrollVars>>
    BY <1>6 DEF Killed
  <2>2. work' = [work EXCEPT ![p] = Idle] /\ UNCHANGED <<committees, verdicts>>
    BY <2>1 DEF Kill, trustTables
  <2>3. ~InSession(Idle) /\ Idle.at # "receipt"
    BY IdleIsWork DEF InSession
  <2>4. QED
    BY <2>1, <2>2, <2>3, KillTyped, PlainSession
<1>7. ASSUME UNCHANGED vars PROVE TrustInv'
  <2>1. CommitteesInv'
    BY <1>3, <1>7 DEF vars, trustTables, procVars
  <2>2. TypeOK'
    BY <1>7 DEF TypeOK, TurnsTyped, TablesTyped, RowsThere, vars, trustTables, procVars, enrollVars
  <2>3. QED
    BY <2>1, <2>2
<1>8. CASE Next
  <2>1. ASSUME NEW p \in Procs, TrustStep(p) PROVE TrustInv'
    BY <1>1, <1>2, <2>1 DEF TrustStep
  <2>2. QED
    BY <1>4, <1>5, <1>6, <1>8, <2>1, NextCases
<1>9. QED
  BY <1>7, <1>8

LEMMA TrustAlways == Spec => []TrustInv
<1>1. Init => TrustInv
  BY TrustInitially
<1>2. TrustInv /\ [Next]_vars => TrustInv'
  BY TrustKept
<1>3. QED
  BY <1>1, <1>2, PTL DEF Spec

(* Rows, committees, votes and what every process holds are of the types   *)
(* that reputation.py, committees.py and controller.py expect: whatever    *)
(* interleaves or is killed, the row that a process writes a reputation to *)
(* is there, and the committee that it votes in.                           *)
THEOREM TypeCorrect == Spec => []TypeOK
<1>1. TrustInv => TypeOK
  BY DEF TrustInv
<1>2. QED
  BY <1>1, TrustAlways, PTL

(* AcceptedByQuorum of the run, for any number of daemons, verifiers and   *)
(* votes, any committee size and any quorum: accepted work has a committee *)
(* of others that all voted, Quorum of them for it.                        *)
THEOREM QuorumHolds == Spec => []AcceptedByQuorum
<1>1. ASSUME CommitteesInv, NEW i \in DOMAIN verdicts, verdicts[i].accepted
      PROVE  Accepts(committees[verdicts[i].committee], verdicts[i].worker)
  BY <1>1 DEF CommitteesInv, Decided
<1>2. CommitteesInv => AcceptedByQuorum
  BY <1>1 DEF AcceptedByQuorum, Accepts
<1>3. TrustInv => AcceptedByQuorum
  BY <1>2 DEF TrustInv
<1>4. QED
  BY <1>3, TrustAlways, PTL

----
\* Each request once

OneController == \A p, q \in Controllers : p = q

HasRequest(o) == o \in Hearing \cup Enrolling

LEMMA RequestsHeard ==
  ASSUME TypeOK
  PROVE  NoncesInv <=>
           /\ \A p \in Procs : HasRequest(work[p]) => p \in Controllers /\ Heard(work[p])
           /\ \A i \in DOMAIN handled : handled[i].nonce \in nonces
           /\ HandledOnce
<1>1. \A p \in Procs : "request" \in DOMAIN work[p] <=> HasRequest(work[p])
  BY HeldTyped, RequestInHand DEF HasRequest
<1>2. QED
  BY <1>1 DEF NoncesInv

(* What a controller does disturbs nobody: no other process has a request. *)
LEMMA NonceStep ==
  ASSUME TypeOK, TypeOK', NoncesInv, OneController, NEW p \in Procs, NEW o,
         work' = [work EXCEPT ![p] = o],
         p \in Controllers \/ UNCHANGED <<nonces, handled>>,
         HasRequest(o) => p \in Controllers /\ Heard(o)',
         \A i \in DOMAIN handled' : handled'[i].nonce \in nonces',
         HandledOnce'
  PROVE  NoncesInv'
<1>1. work'[p] = o /\ \A q \in Procs \ {p} : work'[q] = work[q]
  BY DEF TypeOK, TurnsTyped
<1>2. ASSUME NEW q \in Procs, HasRequest(work'[q]) PROVE q \in Controllers /\ Heard(work[q])'
  <2>1. CASE q = p
    <3>1. work'[q] = o
      BY <1>1, <2>1
    <3>2. Heard(o)' /\ p \in Controllers
      BY <1>2, <3>1
    <3>3. QED
      BY <2>1, <3>1, <3>2 DEF Heard
  <2>2. CASE q # p
    <3>1. work'[q] = work[q] /\ q \in Controllers /\ Heard(work[q])
      BY <1>1, <1>2, <2>2, RequestsHeard
    <3>2. UNCHANGED <<nonces, handled>>
      BY <2>2, <3>1 DEF OneController
    <3>3. QED
      BY <3>1, <3>2 DEF Heard
  <2>3. QED
    BY <2>1, <2>2
<1>3. \A q \in Procs : "request" \in DOMAIN work'[q] <=> HasRequest(work'[q])
  <2>1. \A q \in Procs : work'[q] \in Work
    BY DEF TypeOK, TurnsTyped
  <2>2. QED
    BY <2>1, RequestInHand DEF HasRequest
<1>4. \A q \in Procs : ("request" \in DOMAIN work[q] => q \in Controllers /\ Heard(work[q]))'
  BY <1>2, <1>3
<1>5. QED
  BY <1>4 DEF NoncesInv

(* Steps that neither store a nonce nor handle a request.                  *)
LEMMA QuietNonces ==
  ASSUME TypeOK, TypeOK', NoncesInv, OneController, NEW p \in Procs, NEW o,
         work' = [work EXCEPT ![p] = o], UNCHANGED <<nonces, handled>>,
         HasRequest(o) => p \in Controllers /\ Heard(o)
  PROVE  NoncesInv'
<1>1. Heard(o) => Heard(o)'
  BY DEF Heard
<1>2. HandledOnce' /\ \A i \in DOMAIN handled' : handled'[i].nonce \in nonces'
  BY DEF NoncesInv, HandledOnce
<1>3. QED
  BY <1>1, <1>2, NonceStep

LEMMA HandledStep ==
  ASSUME TypeOK, TypeOK', NoncesInv, OneController, NEW p \in Procs,
         HasRequest(work[p]), work[p].at # "nonce",
         handled' = Append(handled, OutcomeOf(work[p])), nonces' = nonces, Goes(p, Idle)
  PROVE  NoncesInv'
<1>1. /\ p \in Controllers /\ work[p].age <= MaxAge /\ work[p].request.nonce \in nonces
      /\ \A i \in DOMAIN handled : handled[i].nonce # work[p].request.nonce
  BY RequestsHeard DEF Heard
<1>2. handled \in Seq(Outcome) /\ OutcomeOf(work[p]) \in Outcome
  BY TablesKept, OutcomeTyped DEF HasRequest
<1>3. PICK n \in Nat : n = Len(handled) /\ DOMAIN handled = 1..n
  BY <1>2
<1>4. /\ DOMAIN handled' = 1..(n + 1) /\ handled'[n + 1] = OutcomeOf(work[p])
      /\ \A i \in 1..n : handled'[i] = handled[i]
  BY <1>2, <1>3
<1>5. /\ \A i, k \in 1..n : handled[i].nonce = handled[k].nonce => i = k
      /\ \A i \in 1..n : handled[i].age <= MaxAge
  BY <1>3 DEF NoncesInv, HandledOnce
<1>6. /\ OutcomeOf(work[p]).nonce = work[p].request.nonce
      /\ OutcomeOf(work[p]).age = work[p].age
  BY DEF OutcomeOf
<1>7. \A i \in 1..(n + 1) : i = n + 1 \/ i \in 1..n
  OBVIOUS
<1>8. \A i, k \in 1..(n + 1) : handled'[i].nonce = handled'[k].nonce => i = k
  BY <1>1, <1>3, <1>4, <1>5, <1>6, <1>7
<1>9. \A i \in 1..(n + 1) : handled'[i].age <= MaxAge /\ handled'[i].nonce \in nonces'
  <2>1. \A i \in 1..n : handled[i].nonce \in nonces
    BY <1>3 DEF NoncesInv
  <2>2. QED
    BY <1>1, <1>4, <1>5, <1>6, <1>7, <2>1
<1>10. HandledOnce'
  BY <1>4, <1>8, <1>9 DEF HandledOnce
<1>11. ~HasRequest(Idle) /\ work' = [work EXCEPT ![p] = Idle]
  BY IdleIsWork, WorkByAt, WorkMoves DEF HasRequest, TypeOK, Hearing, Enrolling
<1>12. QED
  BY <1>1, <1>4, <1>9, <1>10, <1>11, NonceStep

LEMMA IdleHasNone == ~HasRequest(Idle) /\ \A o \in Judging \cup Writing : ~HasRequest(o)
  BY DEF HasRequest, Idle, Judging, Writing, Hearing, Enrolling

LEMMA EnrollmentNonces ==
  ASSUME TypeOK, TypeOK', NoncesInv, OneController, NEW p \in Procs, EnrollmentStep(p)
  PROVE  NoncesInv'
<1>1. \A o : Goes(p, o) \/ Begins(p, o) => work' = [work EXCEPT ![p] = o]
  BY WorkMoves DEF TypeOK
<1>2. ASSUME NEW w \in Workers, RegisterLocal(p, w) PROVE NoncesInv'
  <2>1. PICK o \in Registering : Begins(p, o) /\ "request" \notin DOMAIN o
    BY <1>2, RegisterLocalEffect
  <2>2. ~HasRequest(o)
    BY <2>1, OtherKinds, RequestInHand DEF HasRequest
  <2>3. UNCHANGED <<nonces, handled>>
    BY <1>2, RegisterLocalEffect DEF enrollVars
  <2>4. QED
    BY <1>1, <2>1, <2>2, <2>3, QuietNonces
<1>3. ASSUME NEW w \in Remote, Create(p, w) \/ Revoke(p, w) \/ Activate(p, w) PROVE NoncesInv'
  <2>1. PICK o : Begins(p, o) /\ ~HasRequest(o)
    <3>1. \A o \in Activating : ~HasRequest(o)
      BY DEF HasRequest, Activating, Hearing, Enrolling
    <3>2. QED
      BY <1>3, <3>1, IdleHasNone, OperatorEffect
  <2>2. UNCHANGED <<nonces, handled>>
    BY <1>3, OperatorEffect
  <2>3. QED
    BY <1>1, <2>1, <2>2, QuietNonces
<1>4. ASSUME Upsert(p) PROVE NoncesInv'
  <2>1. nonces' = nonces /\ work[p].at = "upsert"
    BY <1>4, UpsertEffect
  <2>2. CASE /\ work[p] \in Enrolling /\ handled' = Append(handled, OutcomeOf(work[p]))
             /\ Goes(p, Idle)
    BY <2>1, <2>2, HandledStep DEF HasRequest
  <2>3. ASSUME work[p] \in Enrolling, handled' = handled,
               NEW o \in Enrolling, Goes(p, o), o.at = "activate",
               o.request = work[p].request, o.age = work[p].age
        PROVE  NoncesInv'
    <3>1. p \in Controllers /\ Heard(work[p])
      BY <2>3, RequestsHeard DEF HasRequest
    <3>2. Heard(o)
      BY <2>1, <2>3, <3>1 DEF Heard
    <3>3. QED
      BY <1>1, <2>1, <2>3, <3>1, <3>2, QuietNonces
  <2>4. CASE handled' = handled /\ Goes(p, Idle)
    BY <1>1, <2>1, <2>4, IdleHasNone, QuietNonces
  <2>5. QED
    BY <1>4, <2>2, <2>3, <2>4, UpsertEffect
<1>5. ASSUME Activates(p) PROVE NoncesInv'
  <2>1. nonces' = nonces /\ work[p].at = "activate" /\ Goes(p, Idle)
    BY <1>5, ActivatesEffect
  <2>2. CASE work[p] \in Enrolling /\ handled' = Append(handled, OutcomeOf(work[p]))
    BY <2>1, <2>2, HandledStep DEF HasRequest
  <2>3. CASE handled' = handled
    BY <1>1, <2>1, <2>3, IdleHasNone, QuietNonces
  <2>4. QED
    BY <1>5, <2>2, <2>3, ActivatesEffect
<1>6. ASSUME p \in Controllers, NEW r \in sent, Receive(p, r) PROVE NoncesInv'
  <2>1. UNCHANGED <<nonces, handled>>
    BY <1>6, ReceiveEffect DEF enrollVars
  <2>2. CASE Begins(p, Idle)
    BY <1>1, <2>1, <2>2, IdleHasNone, QuietNonces
  <2>3. ASSUME NEW o \in Hearing, Begins(p, o), o.at = "nonce", o.request = r,
               o.age <= MaxAge, r.nonce \notin nonces
        PROVE  NoncesInv'
    <3>1. Heard(o)
      BY <2>3 DEF Heard, NoncesInv
    <3>2. QED
      BY <1>1, <1>6, <2>1, <2>3, <3>1, QuietNonces
  <2>4. QED
    BY <1>6, <2>2, <2>3, ReceiveEffect
<1>7. ASSUME RecordNonce(p) PROVE NoncesInv'
  <2>1. PICK o \in Hearing : /\ Goes(p, o) /\ o.at # "nonce"
                             /\ o.request = work[p].request /\ o.age = work[p].age
    BY <1>7, RecordNonceEffect
  <2>2. /\ work[p] \in Hearing /\ nonces' = nonces \cup {work[p].request.nonce}
        /\ handled' = handled
    BY <1>7, RecordNonceEffect
  <2>3. p \in Controllers /\ Heard(work[p])
    BY <2>2, RequestsHeard DEF HasRequest
  <2>4. Heard(o)'
    BY <2>1, <2>2, <2>3 DEF Heard
  <2>5. HandledOnce' /\ \A i \in DOMAIN handled' : handled'[i].nonce \in nonces'
    BY <2>2 DEF NoncesInv, HandledOnce
  <2>6. QED
    BY <1>1, <2>1, <2>3, <2>4, <2>5, NonceStep
<1>8. ASSUME HandleHeartbeat(p) PROVE NoncesInv'
  <2>1. nonces' = nonces /\ work[p] \in Hearing /\ work[p].at = "heartbeat"
    BY <1>8, HeartbeatEffect
  <2>2. CASE handled' = Append(handled, OutcomeOf(work[p])) /\ Goes(p, Idle)
    BY <2>1, <2>2, HandledStep DEF HasRequest
  <2>3. CASE handled' = handled /\ Goes(p, work[p])
    <3>1. p \in Controllers /\ Heard(work[p])
      BY <2>1, RequestsHeard DEF HasRequest
    <3>2. QED
      BY <1>1, <2>1, <2>3, <3>1, QuietNonces
  <2>4. QED
    BY <1>8, <2>2, <2>3, HeartbeatEffect
<1>9. ASSUME HandleCapability(p) PROVE NoncesInv'
  <2>1. PICK o \in Enrolling : /\ Goes(p, o) /\ o.at = "upsert"
                               /\ o.request = work[p].request /\ o.age = work[p].age
    BY <1>9, CapabilityEffect
  <2>2. /\ work[p] \in Hearing /\ work[p].at = "capability" /\ UNCHANGED <<nonces, handled>>
    BY <1>9, CapabilityEffect DEF enrollVars
  <2>3. p \in Controllers /\ Heard(work[p])
    BY <2>2, RequestsHeard DEF HasRequest
  <2>4. Heard(o)
    BY <2>1, <2>2, <2>3 DEF Heard
  <2>5. QED
    BY <1>1, <2>1, <2>2, <2>3, <2>4, QuietNonces
<1>10. ASSUME HandleOther(p) PROVE NoncesInv'
  BY <1>10, OtherEffect, HandledStep DEF HasRequest
<1>11. QED
  BY <1>2, <1>3, <1>4, <1>5, <1>6, <1>7, <1>8, <1>9, <1>10 DEF EnrollmentStep

(* A daemon's verification, and the decay, have no request in hand.        *)
LEMMA VerificationPlain ==
  ASSUME TypeOK, CommitteesInv, NEW p \in Procs, UNCHANGED enrollVars,
         (\E w \in Workers : Check(p, w) \/ ReadDecay(p, w)) \/ VerificationStep(p)
  PROVE  \E o \in {Idle} \cup Judging \cup Writing : Goes(p, o) \/ Begins(p, o)
<1> DEFINE Own == \E o \in {Idle} \cup Judging \cup Writing : Goes(p, o) \/ Begins(p, o)
<1>1. ASSUME NEW w \in Workers, Check(p, w) PROVE Own
  <2>1. PICK why \in Reasons : Begins(p, [at |-> IF why = None THEN "select" ELSE "receipt",
                                         worker |-> w, reason |-> why, committee |-> 0])
    BY <1>1, ReasonTyped DEF Check
  <2>2. PICK o : o = [at |-> IF why = None THEN "select" ELSE "receipt", worker |-> w,
                      reason |-> why, committee |-> 0]
    OBVIOUS
  <2>3. o \in Judging
    BY <2>2 DEF Judging
  <2>4. QED
    BY <2>1, <2>2, <2>3
<1>2. ASSUME NEW w \in Workers, ReadDecay(p, w) PROVE Own
  BY <1>2, ReadDecayEffect
<1>3. Seated(work[p])
  BY DEF CommitteesInv
<1>4. ASSUME SelectCommittee(p) PROVE Own
  <2>1. PICK o : \E at \in {"finalize", "vote"} :
                   /\ o = [work[p] EXCEPT !.at = at, !.committee = Len(committees) + 1]
                   /\ Goes(p, o)
    BY <1>4 DEF SelectCommittee
  <2>2. work[p] \in Judging
    BY <1>4, HeldTyped, WorkByAt DEF SelectCommittee
  <2>3. Len(committees) + 1 \in Nat
    BY DEF TypeOK, TablesTyped
  <2>4. o \in Judging
    BY <2>1, <2>2, <2>3 DEF Judging
  <2>5. QED
    BY <2>1, <2>4
<1>5. ASSUME Vote(p) PROVE Own
  BY <1>3, <1>5, VoteEffect DEF Casts
<1>6. ASSUME FinalizeCommittee(p) PROVE Own
  BY <1>3, <1>6, FinalizeEffect DEF Closes
<1>7. ASSUME InsertVerdict(p) PROVE Own
  <2>1. PICK o : o = [work[p] EXCEPT !.at = "read"]
    OBVIOUS
  <2>2. work[p] \in Judging
    BY <1>7, HeldTyped, WorkByAt DEF InsertVerdict
  <2>3. o \in Judging /\ Goes(p, o)
    BY <1>7, <2>1, <2>2 DEF Judging, InsertVerdict
  <2>4. QED
    BY <2>3
<1>8. ASSUME ReadRecord(p) PROVE Own
  BY <1>8, ReadRecordEffect
<1>9. ASSUME WriteRecord(p) PROVE Own
  BY <1>9, WriteRecordEffect
<1> HIDE DEF Own
<1>10. Own
  BY <1>1, <1>2, <1>4, <1>5, <1>6, <1>7, <1>8, <1>9 DEF VerificationStep
<1>11. QED
  BY <1>10 DEF Own

LEMMA NoncesKept ==
  ASSUME TrustInv, TrustInv', NoncesInv, OneController, [Next]_vars
  PROVE  NoncesInv'
<1>1. TypeOK /\ TypeOK' /\ CommitteesInv
  BY DEF TrustInv
<1>2. ASSUME NEW p \in Procs, TrustStep(p) PROVE NoncesInv'
  <2>1. CASE EnrollmentStep(p)
    BY <1>1, <2>1, EnrollmentNonces
  <2>2. ASSUME UNCHANGED enrollVars,
               (\E w \in Workers : Check(p, w) \/ ReadDecay(p, w)) \/ VerificationStep(p)
        PROVE  NoncesInv'
    <3>1. PICK o \in {Idle} \cup Judging \cup Writing : Goes(p, o) \/ Begins(p, o)
      BY <1>1, <2>2, VerificationPlain
    <3>2. work' = [work EXCEPT ![p] = o] /\ ~HasRequest(o)
      BY <1>1, <3>1, WorkMoves, IdleHasNone DEF TypeOK
    <3>3. UNCHANGED <<nonces, handled>>
      BY <2>2 DEF enrollVars
    <3>4. QED
      BY <1>1, <3>2, <3>3, QuietNonces
  <2>3. QED
    BY <1>2, <2>1, <2>2 DEF TrustStep
<1>3. ASSUME UNCHANGED <<work, nonces, handled>> PROVE NoncesInv'
  BY <1>3 DEF NoncesInv, Heard, HandledOnce
<1>4. ASSUME NEW w \in Remote, Send(w) PROVE NoncesInv'
  BY <1>3, <1>4 DEF Send, procVars
<1>5. ASSUME Tick PROVE NoncesInv'
  BY <1>3, <1>5 DEF Tick, procVars
<1>6. ASSUME Killed PROVE NoncesInv'
  <2>1. PICK p \in Procs : Kill(p) /\ UNCHANGED <<trustTables, enrollVars>>
    BY <1>6 DEF Killed
  <2>2. work' = [work EXCEPT ![p] = Idle] /\ UNCHANGED <<nonces, handled>>
    BY <2>1 DEF Kill, enrollVars
  <2>3. QED
    BY <1>1, <2>2, IdleHasNone, QuietNonces
<1>7. ASSUME UNCHANGED vars PROVE NoncesInv'
  BY <1>3, <1>7 DEF vars, enrollVars, procVars
<1>8. QED
  BY <1>2, <1>4, <1>5, <1>6, <1>7, NextCases

(* HandledOnce of the run, for any number of requests, workers and kills,  *)
(* of a controller that serves one request at a time (its SQLite           *)
(* connection cannot be used from a second thread).                        *)
THEOREM RequestsHandledOnce == OneController /\ Spec => []HandledOnce
<1> SUFFICES ASSUME OneController PROVE Spec => []HandledOnce
  OBVIOUS
<1>1. Init => NoncesInv
  <2>1. ASSUME Init PROVE NoncesInv
    <3>1. handled = <<>> /\ \A p \in Procs : work[p] = Idle
      BY <2>1 DEF Init, ProcInit, EnrollmentInit
    <3>2. "request" \notin DOMAIN Idle /\ DOMAIN handled = {}
      BY <3>1 DEF Idle
    <3>3. QED
      BY <3>1, <3>2 DEF NoncesInv, HandledOnce
  <2>2. QED
    BY <2>1
<1>2. NoncesInv /\ TrustInv /\ TrustInv' /\ [Next]_vars => NoncesInv'
  BY NoncesKept
<1>3. NoncesInv => HandledOnce
  BY DEF NoncesInv
<1>4. QED
  BY <1>1, <1>2, <1>3, TrustAlways, PTL DEF Spec

----
\* Taking turns

LEMMA Alone ==
  ASSUME TypeOK, OneAtATime, NEW p \in Procs, NEW o,
         (Goes(p, o) /\ work[p] # Idle) \/ Begins(p, o)
  PROVE  /\ OneAtATime'
         /\ inTurn => \A q \in Procs \ {p} : work[q] = Idle /\ work'[q] = Idle
<1>1. /\ work'[p] = o /\ inTurn' = inTurn
      /\ \A q \in Procs \ {p} : work'[q] = work[q]
  BY WorkMoves DEF TypeOK
<1>2. inTurn => \A q \in Procs \ {p} : work[q] = Idle
  BY DEF OneAtATime, Begins, Idling
<1>3. inTurn' => \A q, r \in Procs : work'[q] # Idle /\ work'[r] # Idle => q = r
  BY <1>1, <1>2
<1>4. QED
  BY <1>1, <1>2, <1>3 DEF OneAtATime

(* Every step of a process either begins an operation or goes on with one. *)
LEMMA GoesOnOrBegins ==
  ASSUME TypeOK, CommitteesInv, NEW p \in Procs, TrustStep(p)
  PROVE  \E o \in Work : (Goes(p, o) /\ work[p] # Idle) \/ Begins(p, o)
<1>1. CASE EnrollmentStep(p)
  <2>1. PICK o \in Work : Goes(p, o) \/ Begins(p, o)
    BY <1>1, EnrollmentPlain
  <2>2. CASE work[p] # Idle
    BY <2>1, <2>2
  <2>3. CASE work[p] = Idle
    <3>1. work[p].at = "idle"
      BY <2>3, IdleIsWork
    <3>2. \/ \E w \in Workers : RegisterLocal(p, w)
          \/ \E w \in Remote : Create(p, w) \/ Revoke(p, w) \/ Activate(p, w)
          \/ \E r \in sent : Receive(p, r)
      BY <1>1, <3>1 DEF EnrollmentStep, Upsert, Activates, RecordNonce, HandleHeartbeat,
                        HandleCapability, HandleOther
    <3>3. \A x \in Hearing \cup Registering \cup Activating \cup {Idle} : x \in Work
      BY DEF Work
    <3>4. QED
      BY <3>2, <3>3, RegisterLocalEffect, OperatorEffect, ReceiveEffect
  <2>4. QED
    BY <2>2, <2>3
<1>2. CASE /\ (\E w \in Workers : Check(p, w) \/ ReadDecay(p, w)) \/ VerificationStep(p)
           /\ UNCHANGED enrollVars
  <2>1. PICK o \in {Idle} \cup Judging \cup Writing : Goes(p, o) \/ Begins(p, o)
    BY <1>2, VerificationPlain
  <2>2. o \in Work
    BY <2>1 DEF Work
  <2>3. CASE work[p] # Idle
    BY <2>1, <2>2, <2>3
  <2>4. CASE work[p] = Idle
    <3>1. work[p].at = "idle"
      BY <2>4, IdleIsWork
    <3>2. PICK w \in Workers : Check(p, w) \/ ReadDecay(p, w)
      BY <1>2, <3>1 DEF VerificationStep, SelectCommittee, Vote, FinalizeCommittee,
                        InsertVerdict, ReadRecord, WriteRecord
    <3>3. \E x : Begins(p, x)
      BY <3>2 DEF Check, ReadDecay
    <3>4. \A x : Begins(p, x) => (Begins(p, x) /\ work'[p] = x)
      BY WorkMoves DEF TypeOK
    <3>5. work'[p] = o
      BY <2>1, WorkMoves DEF TypeOK
    <3>6. Begins(p, o)
      BY <3>3, <3>4, <3>5
    <3>7. QED
      BY <2>2, <3>6
  <2>5. QED
    BY <2>3, <2>4
<1>3. QED
  BY <1>1, <1>2 DEF TrustStep

LEMMA AloneKept ==
  ASSUME TrustInv, OneAtATime, [Next]_vars
  PROVE  OneAtATime'
<1>1. TypeOK /\ CommitteesInv
  BY DEF TrustInv
<1>2. ASSUME NEW p \in Procs, TrustStep(p) PROVE OneAtATime'
  BY <1>1, <1>2, GoesOnOrBegins, Alone
<1>3. ASSUME UNCHANGED <<work, inTurn>> PROVE OneAtATime'
  BY <1>3 DEF OneAtATime
<1>4. ASSUME Killed PROVE OneAtATime'
  <2>1. PICK p \in Procs : work' = [work EXCEPT ![p] = Idle] /\ inTurn' = inTurn
    BY <1>4 DEF Killed, Kill
  <2>2. \A q \in Procs : work'[q] # Idle => work[q] # Idle
    BY <1>1, <2>1 DEF TypeOK, TurnsTyped
  <2>3. QED
    BY <2>1, <2>2 DEF OneAtATime
<1>5. ASSUME (\E w \in Remote : Send(w)) \/ Tick \/ UNCHANGED vars PROVE OneAtATime'
  BY <1>3, <1>5 DEF Send, Tick, vars, procVars
<1>6. QED
  BY <1>2, <1>4, <1>5, NextCases

----
\* Counting verdicts

(* A process is counted as pending or not by where it is.                  *)
LEMMA PendingMoves ==
  ASSUME TypeOK, IsFiniteSet(Procs), NEW p \in Procs, NEW o, work' = [work EXCEPT ![p] = o],
         NEW w, NEW a
  PROVE  /\ IsFiniteSet(Pending(w, a)) /\ IsFiniteSet(Pending(w, a)')
         /\ Cardinality(Pending(w, a)) \in Nat /\ Cardinality(Pending(w, a)') \in Nat
         /\ Pending(w, a) \subseteq Procs /\ Pending(w, a)' \subseteq Procs
         /\ p \in Pending(w, a) <=> Unread(work[p], w, a)
         /\ p \in Pending(w, a)' <=> Unread(o, w, a)
         /\ Pending(w, a)' \ {p} = Pending(w, a) \ {p}
<1>1. work'[p] = o /\ \A q \in Procs \ {p} : work'[q] = work[q]
  BY DEF TypeOK, TurnsTyped
<1> DEFINE P == Pending(w, a)
           Q == {q \in Procs : Unread(work'[q], w, a)}
<1>2. Q = Pending(w, a)'
  BY DEF Pending, Unread
<1>3. P \subseteq Procs /\ Q \subseteq Procs
  BY DEF Pending
<1>4. IsFiniteSet(P) /\ IsFiniteSet(Q) /\ Cardinality(P) \in Nat /\ Cardinality(Q) \in Nat
  BY <1>3, FS_Subset, FS_CardinalityType
<1>5. p \in P <=> Unread(work[p], w, a)
  BY DEF Pending
<1>6. p \in Q <=> Unread(o, w, a)
  BY <1>1
<1>7. \A q \in Procs \ {p} : q \in P <=> q \in Q
  BY <1>1 DEF Pending
<1>8. Q \ {p} = P \ {p}
  BY <1>3, <1>7
<1> HIDE DEF Q
<1>9. QED
  BY <1>2, <1>3, <1>4, <1>5, <1>6, <1>8

LEMMA PendingSame ==
  ASSUME TypeOK, IsFiniteSet(Procs), NEW p \in Procs, NEW o, work' = [work EXCEPT ![p] = o],
         NEW w, NEW a, ~Unread(work[p], w, a), ~Unread(o, w, a)
  PROVE  Cardinality(Pending(w, a)') = Cardinality(Pending(w, a))
<1>1. /\ p \notin Pending(w, a) /\ p \notin Pending(w, a)'
      /\ Pending(w, a)' \ {p} = Pending(w, a) \ {p}
  BY PendingMoves
<1>2. Pending(w, a)' = Pending(w, a)
  BY <1>1
<1>3. QED
  BY <1>2

LEMMA PendingMore ==
  ASSUME TypeOK, IsFiniteSet(Procs), NEW p \in Procs, NEW o, work' = [work EXCEPT ![p] = o],
         NEW w, NEW a, ~Unread(work[p], w, a), Unread(o, w, a)
  PROVE  Cardinality(Pending(w, a)') = Cardinality(Pending(w, a)) + 1
<1>1. /\ p \notin Pending(w, a) /\ p \in Pending(w, a)' /\ IsFiniteSet(Pending(w, a))
      /\ Pending(w, a)' \ {p} = Pending(w, a) \ {p}
  BY PendingMoves
<1>2. Pending(w, a)' = Pending(w, a) \cup {p}
  BY <1>1
<1>3. QED
  BY <1>1, <1>2, FS_AddElement

LEMMA PendingLess ==
  ASSUME TypeOK, IsFiniteSet(Procs), NEW p \in Procs, NEW o, work' = [work EXCEPT ![p] = o],
         NEW w, NEW a, Unread(work[p], w, a), ~Unread(o, w, a)
  PROVE  Cardinality(Pending(w, a)') = Cardinality(Pending(w, a)) - 1
<1>1. /\ p \in Pending(w, a) /\ p \notin Pending(w, a)' /\ IsFiniteSet(Pending(w, a))
      /\ Pending(w, a)' \ {p} = Pending(w, a) \ {p}
  BY PendingMoves
<1>2. Pending(w, a)' = Pending(w, a) \ {p}
  BY <1>1
<1>3. QED
  BY <1>1, <1>2, FS_RemoveElement

LEMMA JudgementsFinite ==
  ASSUME TypeOK, NEW w, NEW a
  PROVE  IsFiniteSet(Judgements(w, a)) /\ Cardinality(Judgements(w, a)) \in Nat
<1>1. PICK n \in Nat : DOMAIN verdicts = 1..n
  BY DEF TypeOK, TablesTyped
<1>2. Judgements(w, a) \subseteq 1..n
  BY <1>1 DEF Judgements
<1>3. IsFiniteSet(1..n)
  BY FS_Interval
<1>4. IsFiniteSet(Judgements(w, a))
  BY <1>2, <1>3, FS_Subset
<1>5. QED
  BY <1>4, FS_CardinalityType

LEMMA JudgementsGrow ==
  ASSUME TypeOK, NEW v \in Verdict, verdicts' = Append(verdicts, v), NEW w, NEW a
  PROVE  LET all == Cardinality(Judgements(w, a))
             after == Cardinality(Judgements(w, a)')
         IN  /\ all \in Nat /\ after \in Nat
             /\ v.worker = w /\ v.accepted = a => after = all + 1
             /\ ~(v.worker = w /\ v.accepted = a) => after = all
<1>1. verdicts \in Seq(Verdict)
  BY DEF TypeOK, TablesTyped
<1>2. PICK n \in Nat : n = Len(verdicts) /\ DOMAIN verdicts = 1..n
  BY <1>1
<1>3. /\ DOMAIN verdicts' = 1..(n + 1) /\ verdicts'[n + 1] = v
      /\ \A i \in 1..n : verdicts'[i] = verdicts[i]
  BY <1>1, <1>2
<1> DEFINE J == Judgements(w, a)
           K == {i \in DOMAIN verdicts' : verdicts'[i].worker = w /\ verdicts'[i].accepted = a}
<1>4. K = Judgements(w, a)'
  BY DEF Judgements
<1>5. IsFiniteSet(J) /\ Cardinality(J) \in Nat
  BY JudgementsFinite
<1>6. /\ J \subseteq 1..n /\ n + 1 \notin J /\ K \subseteq 1..(n + 1)
      /\ \A i \in 1..n : i \in J <=> i \in K
  BY <1>2, <1>3 DEF Judgements
<1>7. n + 1 \in K <=> v.worker = w /\ v.accepted = a
  BY <1>3
<1>8. \A i \in 1..(n + 1) : i = n + 1 \/ i \in 1..n
  OBVIOUS
<1> HIDE DEF J, K
<1>9. CASE n + 1 \in K
  <2>1. K = J \cup {n + 1}
    BY <1>6, <1>8, <1>9
  <2>2. Cardinality(K) = Cardinality(J) + 1
    BY <1>5, <1>6, <2>1, FS_AddElement
  <2>3. QED
    BY <1>4, <1>5, <1>7, <1>9, <2>2 DEF J
<1>10. CASE n + 1 \notin K
  <2>1. K = J
    BY <1>6, <1>8, <1>10
  <2>2. QED
    BY <1>4, <1>5, <1>7, <1>10, <2>1 DEF J
<1>11. QED
  BY <1>9, <1>10

LEMMA CountTyped ==
  ASSUME NEW row \in Row, NEW a \in BOOLEAN
  PROVE  Count(row, a) \in Nat
  BY RowFields DEF Count

(* What RecordInv says of one worker and one kind of verdict, in numbers:  *)
(* n are pending, and all have been given.                                 *)
RowsCount(w, a, n, all) ==
  /\ Count(RecordOf(w), a) + n <= all
  /\ \A p \in Procs : HoldsRow(work[p], w) => Count(work[p].row, a) + n <= all
  /\ inTurn /\ crashes = 0 =>
       /\ \A p \in Procs : HoldsRow(work[p], w) => Count(work[p].row, a) + n = all
       /\ (\A p \in Procs : work[p].at = "write" => work[p].worker # w) =>
            Count(RecordOf(w), a) + n = all

LEMMA RecordInvIs ==
  RecordInv <=> \A w \in Workers, a \in BOOLEAN :
                  RowsCount(w, a, Cardinality(Pending(w, a)), Cardinality(Judgements(w, a)))
  BY DEF RecordInv, RowsCount, WithPending

LEMMA HeldRow ==
  ASSUME TypeOK, NEW p \in Procs, NEW w, HoldsRow(work[p], w)
  PROVE  w \in Workers /\ work[p].row \in Row
<1>1. work[p] \in Writing \cup Enrolling \cup Registering /\ work[p].worker = w
  BY HeldTyped, WorkByAt DEF HoldsRow
<1>2. QED
  BY <1>1, HeldTyped, EnrollmentAssumption

(* A step that leaves as many verdicts pending, and neither loses nor      *)
(* invents a count: a row is read as it is in the registry, and written as *)
(* it was read.                                                            *)
LEMMA RowsCarried ==
  ASSUME TypeOK, TypeOK', OneAtATime', NEW p \in Procs, NEW o, work' = [work EXCEPT ![p] = o],
         inTurn' = inTurn, crashes' = crashes,
         NEW w \in Workers, NEW a \in BOOLEAN,
         NEW n \in Nat, NEW all \in Nat, NEW n1 \in Nat, NEW all1 \in Nat,
         RowsCount(w, a, n, all), all1 - n1 = all - n,
         HoldsRow(o, w) => work[p].at # "write" /\ o # Idle
           /\ Count(o.row, a) = Count(RecordOf(w), a),
         \/ Count(RecordOf(w)', a) = Count(RecordOf(w), a)
            /\ ~(work[p].at = "write" /\ work[p].worker = w)
         \/ HoldsRow(work[p], w) /\ Count(RecordOf(w)', a) = Count(work[p].row, a)
  PROVE  RowsCount(w, a, n1, all1)'
<1>1. work'[p] = o /\ \A q \in Procs \ {p} : work'[q] = work[q]
  BY DEF TypeOK, TurnsTyped
<1>2. RecordOf(w) \in Row /\ RecordOf(w)' \in Row
  <2>1. registry'[w] \in Row \cup {NoRow}
    BY DEF TypeOK, TablesTyped
  <2>2. RecordOf(w)' = IF registry'[w] # NoRow THEN registry'[w] ELSE NewRow(TRUE)
    BY DEF RecordOf, Registered
  <2>3. QED
    BY <2>1, <2>2, RecordTyped, NewRowTyped DEF TypeOK
<1>3. PICK x \in Nat, y \in Nat : x = Count(RecordOf(w), a) /\ y = Count(RecordOf(w)', a)
  BY <1>2, CountTyped
<1>4. \A q \in Procs : HoldsRow(work[q], w) => Count(work[q].row, a) \in Nat
  BY HeldRow, CountTyped
<1>5. y + n1 <= all1
  <2>1. x + n <= all
    BY <1>3 DEF RowsCount
  <2>2. CASE y = x
    BY <2>1, <2>2
  <2>3. CASE HoldsRow(work[p], w) /\ y = Count(work[p].row, a)
    <3>1. y + n <= all
      BY <2>3 DEF RowsCount
    <3>2. QED
      BY <3>1
  <2>4. QED
    BY <1>3, <2>2, <2>3
<1>6. ASSUME NEW q \in Procs, HoldsRow(work'[q], w)
      PROVE  Count(work'[q].row, a) + n1 <= all1
  <2>1. CASE q = p
    <3>1. Count(work'[q].row, a) = x
      BY <1>1, <1>3, <1>6, <2>1
    <3>2. x + n <= all
      BY <1>3 DEF RowsCount
    <3>3. QED
      BY <3>1, <3>2
  <2>2. CASE q # p
    <3>1. PICK z \in Nat : z = Count(work[q].row, a)
      BY <1>1, <1>4, <1>6, <2>2
    <3>2. z + n <= all
      BY <1>1, <1>6, <2>2, <3>1 DEF RowsCount
    <3>3. QED
      BY <1>1, <2>2, <3>1, <3>2
  <2>3. QED
    BY <2>1, <2>2
<1>7. ASSUME inTurn, crashes = 0
      PROVE  /\ \A q \in Procs : HoldsRow(work'[q], w) => Count(work'[q].row, a) + n1 = all1
             /\ (\A q \in Procs : work'[q].at = "write" => work'[q].worker # w) => y + n1 = all1
  <2>1. ASSUME \A q \in Procs : work[q].at = "write" => work[q].worker # w
        PROVE  x + n = all
    BY <1>3, <1>7, <2>1 DEF RowsCount
  <2>2. \A q \in Procs : HoldsRow(work[q], w) => Count(work[q].row, a) + n = all
    BY <1>7 DEF RowsCount
  <2>3. ASSUME NEW q \in Procs, HoldsRow(work'[q], w)
        PROVE  Count(work'[q].row, a) + n1 = all1
    <3>1. CASE q = p
      <4>1. HoldsRow(o, w) /\ o # Idle
        BY <1>1, <2>3, <3>1
      <4>2. \A r \in Procs \ {p} : work[r] = Idle
        BY <1>1, <1>7, <4>1 DEF OneAtATime
      <4>3. \A r \in Procs : work[r].at # "write"
        BY <4>1, <4>2, IdleIsWork
      <4>4. x + n = all
        BY <2>1, <4>3
      <4>5. Count(work'[q].row, a) = x
        BY <1>1, <1>3, <3>1, <4>1
      <4>6. QED
        BY <4>4, <4>5
    <3>2. CASE q # p
      <4>1. PICK z \in Nat : z = Count(work[q].row, a)
        BY <1>1, <1>4, <2>3, <3>2
      <4>2. z + n = all
        BY <1>1, <2>2, <2>3, <3>2, <4>1
      <4>3. z + n1 = all1
        BY <4>2
      <4>4. Count(work'[q].row, a) = z
        BY <1>1, <3>2, <4>1
      <4>5. QED
        BY <4>3, <4>4
    <3>3. QED
      BY <3>1, <3>2
  <2>4. ASSUME \A q \in Procs : work'[q].at = "write" => work'[q].worker # w
        PROVE  y + n1 = all1
    <3>1. CASE y = x /\ ~(work[p].at = "write" /\ work[p].worker = w)
      <4>1. \A q \in Procs : work[q].at = "write" => work[q].worker # w
        BY <1>1, <2>4, <3>1
      <4>2. x + n = all
        BY <2>1, <4>1
      <4>3. QED
        BY <3>1, <4>2
    <3>2. CASE HoldsRow(work[p], w) /\ y = Count(work[p].row, a)
      <4>1. y + n = all
        BY <2>2, <3>2
      <4>2. QED
        BY <4>1
    <3>3. QED
      BY <1>3, <3>1, <3>2
  <2>5. QED
    BY <2>3, <2>4
<1>8. QED
  BY <1>3, <1>5, <1>6, <1>7 DEF RowsCount, Count, HoldsRow

LEMMA SameJudgements ==
  ASSUME TypeOK, UNCHANGED verdicts, NEW w, NEW a
  PROVE  \E all \in Nat : all = Cardinality(Judgements(w, a))
                         /\ all = Cardinality(Judgements(w, a)')
<1>1. Judgements(w, a)' = Judgements(w, a)
  BY DEF Judgements
<1>2. QED
  BY <1>1, JudgementsFinite

(* Steps that give no verdict, and neither make one pending nor count it.  *)
LEMMA QuietRecord ==
  ASSUME TypeOK, TypeOK', OneAtATime', IsFiniteSet(Procs), RecordInv, NEW p \in Procs, NEW o,
         work' = [work EXCEPT ![p] = o], inTurn' = inTurn, crashes' = crashes,
         verdicts' = verdicts, work[p].at # "read", o.at # "read",
         \A w \in Workers, a \in BOOLEAN : HoldsRow(o, w) =>
           work[p].at # "write" /\ o # Idle /\ Count(o.row, a) = Count(RecordOf(w), a),
         \A w \in Workers, a \in BOOLEAN :
           \/ Count(RecordOf(w)', a) = Count(RecordOf(w), a)
              /\ ~(work[p].at = "write" /\ work[p].worker = w)
           \/ HoldsRow(work[p], w) /\ Count(RecordOf(w)', a) = Count(work[p].row, a)
  PROVE  RecordInv'
<1>1. SUFFICES ASSUME NEW w \in Workers, NEW a \in BOOLEAN
               PROVE  RowsCount(w, a, Cardinality(Pending(w, a)), Cardinality(Judgements(w, a)))'
  BY DEF RecordInv, RowsCount, WithPending
<1>2. PICK n \in Nat : n = Cardinality(Pending(w, a)) /\ n = Cardinality(Pending(w, a)')
  <2>1. ~Unread(work[p], w, a) /\ ~Unread(o, w, a)
    BY DEF Unread
  <2>2. Cardinality(Pending(w, a)') = Cardinality(Pending(w, a))
    BY <2>1, PendingSame
  <2>3. QED
    BY <2>2, PendingMoves
<1>3. PICK all \in Nat : all = Cardinality(Judgements(w, a)) /\ all = Cardinality(Judgements(w, a)')
  BY SameJudgements
<1>4. RowsCount(w, a, n, all)
  BY <1>2, <1>3, RecordInvIs
<1>5. RowsCount(w, a, n, all)'
  BY <1>4, RowsCarried
<1>6. QED
  BY <1>2, <1>3, <1>5 DEF RowsCount

LEMMA SameRecords ==
  ASSUME UNCHANGED registry
  PROVE  \A w, a : Count(RecordOf(w)', a) = Count(RecordOf(w), a)
<1>1. \A w : RecordOf(w)' = RecordOf(w)
  BY DEF RecordOf, Registered
<1>2. QED
  BY <1>1

(* A verdict is inserted, and pending.                                     *)
LEMMA InsertVerdictRecord ==
  ASSUME TypeOK, TypeOK', OneAtATime', IsFiniteSet(Procs), RecordInv, NEW p \in Procs,
         InsertVerdict(p)
  PROVE  RecordInv'
<1>1. SUFFICES ASSUME NEW w \in Workers, NEW a \in BOOLEAN
               PROVE  RowsCount(w, a, Cardinality(Pending(w, a)), Cardinality(Judgements(w, a)))'
  BY DEF RecordInv, RowsCount, WithPending
<1>2. PICK o : o = [work[p] EXCEPT !.at = "read"]
  OBVIOUS
<1>3. work[p] \in Judging /\ work[p].at = "receipt"
  BY HeldTyped, WorkByAt DEF InsertVerdict
<1>4. o.at = "read" /\ o.worker = work[p].worker /\ o.reason = work[p].reason
  BY <1>2, <1>3 DEF Judging
<1>5. /\ work' = [work EXCEPT ![p] = o] /\ inTurn' = inTurn /\ crashes' = crashes
      /\ UNCHANGED registry
  BY <1>2, WorkMoves DEF InsertVerdict, TypeOK
<1>6. PICK v \in Verdict : v = VerdictOf(work[p])
  <2>1. work[p].worker \in Workers /\ work[p].committee \in Nat
    BY <1>3, HeldTyped
  <2>2. VerdictOf(work[p]) \in Verdict
    BY <2>1 DEF VerdictOf, Verdict
  <2>3. QED
    BY <2>2
<1>7. verdicts' = Append(verdicts, v)
  BY <1>6 DEF InsertVerdict, VerdictOf
<1>8. /\ v.worker = work[p].worker /\ (v.accepted <=> o.reason = None)
      /\ v.accepted \in BOOLEAN
  BY <1>4, <1>6 DEF VerdictOf, Verdict
<1>9. Unread(o, w, a) <=> v.worker = w /\ v.accepted = a
  BY <1>4, <1>8 DEF Unread
<1>10. ~Unread(work[p], w, a)
  BY <1>3 DEF Unread
<1>11. PICK n \in Nat, n1 \in Nat :
         n = Cardinality(Pending(w, a)) /\ n1 = Cardinality(Pending(w, a)')
  BY <1>5, PendingMoves
<1>12. PICK all \in Nat, all1 \in Nat :
         all = Cardinality(Judgements(w, a)) /\ all1 = Cardinality(Judgements(w, a)')
  BY <1>7, JudgementsGrow
<1>13. all1 - n1 = all - n
  <2>1. CASE Unread(o, w, a)
    <3>1. n1 = n + 1
      BY <1>5, <1>10, <1>11, <2>1, PendingMore
    <3>2. all1 = all + 1
      BY <1>7, <1>9, <1>12, <2>1, JudgementsGrow
    <3>3. QED
      BY <3>1, <3>2
  <2>2. CASE ~Unread(o, w, a)
    <3>1. n1 = n
      BY <1>5, <1>10, <1>11, <2>2, PendingSame
    <3>2. all1 = all
      BY <1>7, <1>9, <1>12, <2>2, JudgementsGrow
    <3>3. QED
      BY <3>1, <3>2
  <2>3. QED
    BY <2>1, <2>2
<1>14. RowsCount(w, a, n, all)
  BY <1>11, <1>12, RecordInvIs
<1>15. ~HoldsRow(o, w) /\ work[p].at # "write"
  BY <1>3, <1>4 DEF HoldsRow
<1>16. Count(RecordOf(w)', a) = Count(RecordOf(w), a)
  BY <1>5, SameRecords
<1>17. RowsCount(w, a, n1, all1)'
  BY <1>5, <1>13, <1>14, <1>15, <1>16, RowsCarried
<1>18. QED
  BY <1>11, <1>12, <1>17 DEF RowsCount

(* The row that the daemon is about to write counts the pending verdict.   *)
LEMMA ReadRecordRecord ==
  ASSUME TypeOK, TypeOK', OneAtATime', IsFiniteSet(Procs), RecordInv, NEW p \in Procs,
         ReadRecord(p)
  PROVE  RecordInv'
<1>1. SUFFICES ASSUME NEW w \in Workers, NEW a \in BOOLEAN
               PROVE  RowsCount(w, a, Cardinality(Pending(w, a)), Cardinality(Judgements(w, a)))'
  BY DEF RecordInv, RowsCount, WithPending
<1> DEFINE u == work[p].worker
           old == registry[u]
           reason == work[p].reason
<1>2. /\ work[p] \in Judging /\ work[p].at = "read" /\ u \in Workers /\ old \in Row
      /\ UNCHANGED trustTables
  BY ReadRecordEffect DEF ReadRecord
<1>3. PICK o \in Writing :
        /\ Goes(p, o) /\ o.worker = u
        /\ Follows(o.row, old, reason)
  BY ReadRecordEffect
<1>4. /\ work' = [work EXCEPT ![p] = o] /\ work'[p] = o /\ inTurn' = inTurn
      /\ crashes' = crashes /\ \A q \in Procs \ {p} : work'[q] = work[q]
  BY <1>3, WorkMoves DEF TypeOK
<1>5. o.at = "write" /\ o # Idle /\ o.row \in Row /\ ~Unread(o, w, a)
  BY <1>3 DEF Writing, Idle, Unread
<1>6. PICK n \in Nat, n1 \in Nat :
        n = Cardinality(Pending(w, a)) /\ n1 = Cardinality(Pending(w, a)')
  BY <1>4, PendingMoves
<1>7. PICK all \in Nat : all = Cardinality(Judgements(w, a)) /\ all = Cardinality(Judgements(w, a)')
  BY <1>2, SameJudgements DEF trustTables
<1>8. RowsCount(w, a, n, all)
  BY <1>6, <1>7, RecordInvIs
<1>9. RecordOf(w) \in Row /\ (w = u => RecordOf(w) = old)
  BY <1>2, RecordTyped, RegisteredRows DEF RecordOf, TypeOK
<1>10. PICK x \in Nat, z \in Nat : x = Count(RecordOf(w), a) /\ z = Count(o.row, a)
  BY <1>5, <1>9, CountTyped
<1>11. /\ w = u => z + n1 = x + n
       /\ n1 <= n /\ (w # u => n1 = n)
  <2>1. Unread(work[p], w, a) <=> w = u /\ (reason = None) = a
    BY <1>2 DEF Unread
  <2>2. ASSUME Unread(work[p], w, a) PROVE n1 = n - 1
    <3>1. work' = [work EXCEPT ![p] = o] /\ ~Unread(o, w, a)
      BY <1>4, <1>5
    <3>2. Cardinality(Pending(w, a)') = Cardinality(Pending(w, a)) - 1
      BY <2>2, <3>1, PendingLess
    <3>3. QED
      BY <1>6, <3>2
  <2>3. ASSUME ~Unread(work[p], w, a) PROVE n1 = n
    <3>1. work' = [work EXCEPT ![p] = o] /\ ~Unread(o, w, a)
      BY <1>4, <1>5
    <3>2. Cardinality(Pending(w, a)') = Cardinality(Pending(w, a))
      BY <2>3, <3>1, PendingSame
    <3>3. QED
      BY <1>6, <3>2
  <2>4. ASSUME w = u PROVE z = IF (reason = None) = a THEN x + 1 ELSE x
    <3>1. RecordOf(w) = old
      BY <1>9, <2>4
    <3>2. CASE reason = None
      <4>1. o.row.ok = old.ok + 1 /\ o.row.bad = old.bad
        BY <1>2, <1>3, <3>2, FollowingRow
      <4>2. QED
        BY <1>10, <3>1, <3>2, <4>1 DEF Count
    <3>3. CASE reason # None
      <4>1. o.row.ok = old.ok /\ o.row.bad = old.bad + 1
        BY <1>2, <1>3, <3>3, FollowingRow
      <4>2. QED
        BY <1>10, <3>1, <3>3, <4>1 DEF Count
    <3>4. QED
      BY <3>2, <3>3
  <2>5. QED
    BY <2>1, <2>2, <2>3, <2>4
<1>12. RecordOf(w)' = RecordOf(w)
  BY <1>2 DEF RecordOf, Registered, trustTables
<1>13. x + n1 <= all
  <2>1. x + n <= all
    BY <1>8, <1>10 DEF RowsCount
  <2>2. QED
    BY <1>11, <2>1
<1>14. ASSUME NEW q \in Procs, HoldsRow(work'[q], w)
       PROVE  Count(work'[q].row, a) + n1 <= all
  <2>1. CASE q = p
    <3>1. w = u /\ Count(work'[q].row, a) = z
      BY <1>3, <1>4, <1>10, <1>14, <2>1 DEF HoldsRow
    <3>2. x + n <= all
      BY <1>8, <1>10 DEF RowsCount
    <3>3. QED
      BY <1>11, <3>1, <3>2
  <2>2. CASE q # p
    <3>1. HoldsRow(work[q], w) /\ work'[q] = work[q]
      BY <1>4, <1>14, <2>2
    <3>2. PICK y \in Nat : y = Count(work[q].row, a)
      BY <3>1, HeldRow, CountTyped
    <3>3. y + n <= all
      BY <1>8, <3>1, <3>2 DEF RowsCount
    <3>4. y + n1 <= all
      BY <1>11, <3>3
    <3>5. QED
      BY <3>1, <3>2, <3>4
  <2>3. QED
    BY <2>1, <2>2
<1>15. ASSUME inTurn, crashes = 0
       PROVE  /\ \A q \in Procs : HoldsRow(work'[q], w) => Count(work'[q].row, a) + n1 = all
              /\ (\A q \in Procs : work'[q].at = "write" => work'[q].worker # w) => x + n1 = all
  <2>1. \A q \in Procs \ {p} : work'[q] = Idle
    BY <1>4, <1>5, <1>15 DEF OneAtATime
  <2>2. \A q \in Procs : work[q].at # "write"
    BY <1>2, <1>4, <2>1, IdleIsWork
  <2>3. x + n = all
    BY <1>8, <1>10, <1>15, <2>2 DEF RowsCount
  <2>4. ASSUME NEW q \in Procs, HoldsRow(work'[q], w)
        PROVE  Count(work'[q].row, a) + n1 = all
    <3>1. q = p
      BY <2>1, <2>4, IdleIsWork DEF HoldsRow
    <3>2. w = u /\ Count(work'[q].row, a) = z
      BY <1>3, <1>4, <1>10, <2>4, <3>1 DEF HoldsRow
    <3>3. QED
      BY <1>11, <2>3, <3>2
  <2>5. (\A q \in Procs : work'[q].at = "write" => work'[q].worker # w) => w # u
    BY <1>3, <1>4, <1>5
  <2>6. QED
    BY <1>11, <2>3, <2>4, <2>5
<1>16. RowsCount(w, a, n1, all)'
  BY <1>4, <1>10, <1>12, <1>13, <1>14, <1>15 DEF RowsCount, Count, HoldsRow
<1>17. QED
  BY <1>6, <1>7, <1>16 DEF RowsCount

----
\* Rows read and written

(* All steps but those of a verdict on its way into the record: a row is   *)
(* read as it is, or decayed, and written as it was read; a heartbeat      *)
(* leaves the record.                                                      *)
RowStep(p, o) ==
  /\ (Goes(p, o) /\ work[p] # Idle) \/ Begins(p, o)
  /\ work[p].at # "read" /\ o.at # "read" /\ verdicts' = verdicts
  /\ o.at \in {"upsert", "write"} =>
       /\ registry' = registry /\ work[p].at # "write"
       /\ o.at = "upsert" => o.row = RecordOf(o.worker)
       /\ o.at = "write" => /\ registry[o.worker] \in Row
                            /\ \E days \in Days : o.row = Decayed(registry[o.worker], days)
  /\ \/ registry' = registry /\ work[p].at # "write"
     \/ \E w \in Workers, r \in Row :
          /\ registry' = [registry EXCEPT ![w] = r]
          /\ HoldsRow(work[p], w) /\ SameRecord(r, work[p].row)
     \/ \E w \in Workers, r \in Row :
          /\ registry' = [registry EXCEPT ![w] = r]
          /\ work[p].at = "heartbeat" /\ SameRecord(r, RecordOf(w))

(* Steps that neither read nor write a row.                                *)
LEMMA NoRowStep ==
  ASSUME NEW p \in Procs, NEW o \in Work,
         (Goes(p, o) /\ work[p] # Idle) \/ Begins(p, o), UNCHANGED <<registry, verdicts>>,
         work[p].at \notin {"read", "write"}, o.at \notin {"read", "write", "upsert"}
  PROVE  \E x \in Work : RowStep(p, x)
  BY DEF RowStep

LEMMA AtIdle ==
  ASSUME NEW p \in Procs, NEW o, Begins(p, o)
  PROVE  work[p] = Idle /\ work[p].at = "idle"
  BY IdleIsWork DEF Begins

LEMMA EnrollmentRows ==
  ASSUME TypeOK, NEW p \in Procs, EnrollmentStep(p)
  PROVE  \E o \in Work : RowStep(p, o)
<1> DEFINE Fine == \E o \in Work : RowStep(p, o)
<1>1. /\ Idle \in Work /\ Idle.at = "idle"
      /\ \A o \in Hearing : o \in Work /\ o.at \in {"nonce", "heartbeat", "capability", "other"}
      /\ \A o \in Enrolling \cup Registering \cup Activating : o \in Work
      /\ \A o \in Activating : o.at = "activate"
      /\ Idle # work[p] <=> work[p].at # "idle"
  <2>1. \A o \in Hearing : o \in Work /\ o.at \in {"nonce", "heartbeat", "capability", "other"}
    BY DEF Work, Hearing
  <2>2. \A o \in Activating : o.at = "activate"
    BY DEF Activating
  <2>3. Idle # work[p] <=> work[p].at # "idle"
    BY HeldTyped, WorkByAt
  <2>4. QED
    BY <2>1, <2>2, <2>3, IdleIsWork, OtherKinds
<1>2. ASSUME NEW w \in Workers, RegisterLocal(p, w) PROVE Fine
  <2>1. PICK o \in Registering : Begins(p, o) /\ o.at = "upsert" /\ o.row = RecordOf(o.worker)
    BY <1>2, RegisterLocalEffect
  <2>2. UNCHANGED <<registry, verdicts>>
    BY <1>2, RegisterLocalEffect DEF trustTables
  <2>3. QED
    BY <1>1, <2>1, <2>2, AtIdle DEF RowStep
<1>3. ASSUME NEW w \in Remote, Create(p, w) \/ Revoke(p, w) \/ Activate(p, w) PROVE Fine
  <2>1. PICK o \in Work : Begins(p, o) /\ o.at \in {"idle", "activate"}
    BY <1>1, <1>3, OperatorEffect
  <2>2. UNCHANGED <<registry, verdicts>>
    BY <1>3, OperatorEffect DEF trustTables
  <2>3. QED
    BY <2>1, <2>2, AtIdle, NoRowStep
<1>4. ASSUME Upsert(p) PROVE Fine
  <2>1. /\ work[p].at = "upsert" /\ work[p].worker \in Workers /\ verdicts' = verdicts
    BY <1>4, UpsertEffect
  <2>2. PICK r \in Row : /\ registry' = [registry EXCEPT ![work[p].worker] = r]
                         /\ SameRecord(r, work[p].row)
    BY <1>4, UpsertEffect DEF SameRecord
  <2>3. PICK o \in Work : Goes(p, o) /\ o.at \in {"idle", "activate"}
    BY <1>1, <1>4, UpsertEffect
  <2>4. HoldsRow(work[p], work[p].worker) /\ work[p] # Idle
    BY <1>1, <2>1 DEF HoldsRow
  <2>5. QED
    BY <2>1, <2>2, <2>3, <2>4 DEF RowStep
<1>5. ASSUME Activates(p) PROVE Fine
  <2>1. work[p].at = "activate" /\ Goes(p, Idle) /\ UNCHANGED <<registry, verdicts>>
    BY <1>5, ActivatesEffect DEF trustTables
  <2>2. QED
    BY <1>1, <2>1, NoRowStep
<1>6. ASSUME NEW r \in sent, Receive(p, r) PROVE Fine
  <2>1. PICK o \in Work : Begins(p, o) /\ o.at \in {"idle", "nonce"}
    BY <1>1, <1>6, ReceiveEffect
  <2>2. UNCHANGED <<registry, verdicts>>
    BY <1>6, ReceiveEffect DEF trustTables
  <2>3. QED
    BY <2>1, <2>2, AtIdle, NoRowStep
<1>7. ASSUME RecordNonce(p) PROVE Fine
  <2>1. work[p].at = "nonce" /\ UNCHANGED <<registry, verdicts>>
    BY <1>7, RecordNonceEffect DEF trustTables
  <2>2. PICK o \in Hearing : Goes(p, o)
    BY <1>7, RecordNonceEffect
  <2>3. QED
    BY <1>1, <2>1, <2>2, NoRowStep
<1>8. ASSUME HandleHeartbeat(p) PROVE Fine
  <2> DEFINE w == work[p].request.worker
  <2>1. work[p].at = "heartbeat" /\ w \in Workers /\ verdicts' = verdicts /\ work[p] \in Hearing
    BY <1>8, HeartbeatEffect
  <2>2. PICK r \in Row, o \in Work :
          /\ registry' = [registry EXCEPT ![w] = r] /\ SameRecord(r, RecordOf(w))
          /\ Goes(p, o) /\ o.at \in {"idle", "heartbeat"}
    <3>1. w \in Registered <=> registry[w] \in Row
      BY <2>1, RegisteredRows DEF TypeOK
    <3>2. CASE /\ registry[w] \in Row /\ registry' = [registry EXCEPT ![w].online = TRUE]
               /\ Goes(p, Idle)
      <4>1. PICK r : r = [registry[w] EXCEPT !.online = TRUE]
        OBVIOUS
      <4>2. registry' = [registry EXCEPT ![w] = r]
        BY <2>1, <3>2, <4>1 DEF TypeOK, TablesTyped
      <4>3. r \in Row /\ SameRecord(r, RecordOf(w))
        BY <3>1, <3>2, <4>1, OnlineRow DEF SameRecord, RecordOf
      <4>4. QED
        BY <1>1, <3>2, <4>2, <4>3
    <3>3. CASE /\ registry[w] \notin Row /\ registry' = [registry EXCEPT ![w] = NewRow(TRUE)]
               /\ Goes(p, work[p])
      <4>1. RecordOf(w) = NewRow(TRUE)
        BY <3>1, <3>3 DEF RecordOf
      <4>2. SameRecord(NewRow(TRUE), RecordOf(w))
        BY <4>1 DEF SameRecord
      <4>3. QED
        BY <1>1, <2>1, <3>3, <4>2, NewRowTyped
    <3>4. QED
      BY <1>8, <3>2, <3>3, HeartbeatEffect
  <2>3. QED
    BY <1>1, <2>1, <2>2 DEF RowStep
<1>9. ASSUME HandleCapability(p) PROVE Fine
  <2>1. PICK o \in Enrolling : Goes(p, o) /\ o.at = "upsert" /\ o.row = RecordOf(o.worker)
    BY <1>9, CapabilityEffect
  <2>2. work[p].at = "capability" /\ UNCHANGED <<registry, verdicts>>
    BY <1>9, CapabilityEffect DEF trustTables
  <2>3. QED
    BY <1>1, <2>1, <2>2 DEF RowStep
<1>10. ASSUME HandleOther(p) PROVE Fine
  <2>1. work[p].at = "other" /\ Goes(p, Idle) /\ UNCHANGED <<registry, verdicts>>
    BY <1>10, OtherEffect DEF trustTables
  <2>2. QED
    BY <1>1, <2>1, NoRowStep
<1> HIDE DEF Fine
<1>11. Fine
  BY <1>2, <1>3, <1>4, <1>5, <1>6, <1>7, <1>8, <1>9, <1>10 DEF EnrollmentStep
<1>12. QED
  BY <1>11 DEF Fine

(* The steps of a verification up to the verdict, and the writes.          *)
LEMMA VerificationRows ==
  ASSUME TypeOK, CommitteesInv, NEW p \in Procs,
         \/ \E w \in Workers : Check(p, w) \/ ReadDecay(p, w)
         \/ SelectCommittee(p) \/ Vote(p) \/ FinalizeCommittee(p) \/ WriteRecord(p)
  PROVE  \E o \in Work : RowStep(p, o)
<1> DEFINE Fine == \E o \in Work : RowStep(p, o)
<1>1. /\ \A o \in Judging : o \in Work /\ o.at \in {"select", "vote", "finalize", "receipt", "read"}
      /\ \A o \in Writing : o \in Work /\ o.at = "write"
      /\ Idle \in Work /\ Idle.at = "idle"
      /\ Idle # work[p] <=> work[p].at # "idle"
  <2>1. \A o \in Judging : o \in Work /\ o.at \in {"select", "vote", "finalize", "receipt", "read"}
    BY DEF Work, Judging
  <2>2. \A o \in Writing : o \in Work /\ o.at = "write"
    BY DEF Work, Writing
  <2>3. Idle # work[p] <=> work[p].at # "idle"
    BY HeldTyped, WorkByAt
  <2>4. QED
    BY <2>1, <2>2, <2>3, IdleIsWork
<1>2. ASSUME NEW w \in Workers, Check(p, w) PROVE Fine
  <2>1. PICK why \in Reasons : Begins(p, [at |-> IF why = None THEN "select" ELSE "receipt",
                                         worker |-> w, reason |-> why, committee |-> 0])
    BY <1>2, ReasonTyped DEF Check
  <2>2. PICK o : o = [at |-> IF why = None THEN "select" ELSE "receipt", worker |-> w,
                      reason |-> why, committee |-> 0]
    OBVIOUS
  <2>3. o \in Judging /\ o.at \in {"select", "receipt"}
    BY <2>2 DEF Judging
  <2>4. UNCHANGED <<registry, verdicts>>
    BY <1>2 DEF Check, trustTables
  <2>5. QED
    BY <1>1, <2>1, <2>2, <2>3, <2>4, AtIdle, NoRowStep
<1>3. ASSUME NEW w \in Workers, ReadDecay(p, w) PROVE Fine
  <2>1. PICK days \in Days, o \in Writing :
          Begins(p, o) /\ o.worker = w /\ o.row = Decayed(registry[w], days)
    BY <1>3, ReadDecayEffect
  <2>2. registry[w] \in Row /\ UNCHANGED <<registry, verdicts>>
    BY <1>3, ReadDecayEffect DEF trustTables
  <2>3. QED
    BY <1>1, <2>1, <2>2, AtIdle DEF RowStep
<1>4. Seated(work[p])
  BY DEF CommitteesInv
<1>5. ASSUME SelectCommittee(p) PROVE Fine
  <2>1. PICK o, at : /\ at \in {"finalize", "vote"}
                     /\ o = [work[p] EXCEPT !.at = at, !.committee = Len(committees) + 1]
                     /\ Goes(p, o)
    BY <1>5 DEF SelectCommittee
  <2>2. work[p] \in Judging /\ work[p].at = "select" /\ UNCHANGED <<registry, verdicts>>
    BY <1>5, HeldTyped, WorkByAt DEF SelectCommittee
  <2>3. Len(committees) + 1 \in Nat
    BY DEF TypeOK, TablesTyped
  <2>4. o \in Judging /\ o.at = at
    BY <2>1, <2>2, <2>3 DEF Judging
  <2>5. QED
    BY <1>1, <2>1, <2>2, <2>4, NoRowStep
<1>6. ASSUME Vote(p) PROVE Fine
  <2>1. PICK o \in Judging : Goes(p, o) /\ InSession(o)
    BY <1>4, <1>6, VoteEffect DEF Casts
  <2>2. work[p].at = "vote" /\ UNCHANGED <<registry, verdicts>>
    BY <1>6 DEF Vote
  <2>3. QED
    BY <1>1, <2>1, <2>2, NoRowStep DEF InSession
<1>7. ASSUME FinalizeCommittee(p) PROVE Fine
  <2>1. PICK o \in Judging : Goes(p, o) /\ o.at = "receipt"
    BY <1>4, <1>7, FinalizeEffect DEF Closes
  <2>2. work[p].at = "finalize" /\ UNCHANGED <<registry, verdicts>>
    BY <1>7 DEF FinalizeCommittee
  <2>3. QED
    BY <1>1, <2>1, <2>2, NoRowStep
<1>8. ASSUME WriteRecord(p) PROVE Fine
  <2>1. /\ work[p] \in Writing /\ work[p].worker \in Workers /\ verdicts' = verdicts
        /\ Goes(p, Idle)
    BY <1>8, WriteRecordEffect
  <2>2. PICK r \in Row : /\ registry' = [registry EXCEPT ![work[p].worker] = r]
                         /\ SameRecord(r, work[p].row)
    BY <1>8, WriteRecordEffect DEF SameRecord
  <2>3. HoldsRow(work[p], work[p].worker) /\ work[p].at = "write" /\ work[p] # Idle
    BY <1>1, <2>1 DEF HoldsRow
  <2>4. QED
    BY <1>1, <2>1, <2>2, <2>3 DEF RowStep
<1> HIDE DEF Fine
<1>9. Fine
  BY <1>2, <1>3, <1>5, <1>6, <1>7, <1>8
<1>10. QED
  BY <1>9 DEF Fine

LEMMA RowMoves ==
  ASSUME TypeOK, OneAtATime, NEW p \in Procs, NEW o, RowStep(p, o)
  PROVE  /\ work' = [work EXCEPT ![p] = o] /\ work'[p] = o
         /\ inTurn' = inTurn /\ crashes' = crashes
         /\ OneAtATime' /\ (inTurn => \A q \in Procs \ {p} : work'[q] = Idle)
<1>1. (Goes(p, o) /\ work[p] # Idle) \/ Begins(p, o)
  BY DEF RowStep
<1>2. /\ work' = [work EXCEPT ![p] = o] /\ work'[p] = o
      /\ inTurn' = inTurn /\ crashes' = crashes
  BY <1>1, WorkMoves DEF TypeOK
<1>3. OneAtATime' /\ (inTurn => \A q \in Procs \ {p} : work'[q] = Idle)
  BY <1>1, Alone
<1>4. QED
  BY <1>2, <1>3

(* The record after one row has been replaced.                             *)
LEMMA RecordReplaced ==
  ASSUME TypeOK, NEW w \in Workers, NEW r \in Row, registry' = [registry EXCEPT ![w] = r]
  PROVE  /\ RecordOf(w)' = r
         /\ \A v \in Workers \ {w} : RecordOf(v)' = RecordOf(v)
<1>1. registry'[w] = r /\ \A v \in Workers \ {w} : registry'[v] = registry[v]
  BY DEF TypeOK, TablesTyped
<1>2. r # NoRow
  BY NoRowIsNone
<1>3. QED
  BY <1>1, <1>2 DEF RecordOf, Registered

LEMMA RowStepRecord ==
  ASSUME TypeOK, TypeOK', OneAtATime, IsFiniteSet(Procs), RecordInv, NEW p \in Procs,
         NEW o \in Work, RowStep(p, o)
  PROVE  RecordInv'
<1>1. /\ work' = [work EXCEPT ![p] = o] /\ inTurn' = inTurn /\ crashes' = crashes
      /\ OneAtATime'
  BY RowMoves
<1>2. work[p].at # "read" /\ o.at # "read" /\ verdicts' = verdicts
  BY DEF RowStep
<1>3. ASSUME NEW w \in Workers, NEW a \in BOOLEAN, HoldsRow(o, w)
      PROVE  work[p].at # "write" /\ o # Idle /\ Count(o.row, a) = Count(RecordOf(w), a)
  <2>1. o.at \in {"upsert", "write"} /\ o.worker = w
    BY <1>3 DEF HoldsRow
  <2>2. work[p].at # "write" /\ o # Idle
    BY <2>1, IdleIsWork DEF RowStep
  <2>3. CASE o.at = "upsert"
    BY <2>1, <2>2, <2>3 DEF RowStep
  <2>4. CASE o.at = "write"
    <3>1. PICK days \in Days : o.row = Decayed(registry[w], days)
      BY <2>1, <2>4 DEF RowStep
    <3>2. registry[w] \in Row /\ days \in Nat
      BY <2>1, <2>4, VerificationAssumption DEF RowStep
    <3>3. o.row.ok = registry[w].ok /\ o.row.bad = registry[w].bad
      BY <3>1, <3>2, DecayedRow
    <3>4. RecordOf(w) = registry[w]
      BY <3>2, RegisteredRows DEF RecordOf, TypeOK
    <3>5. QED
      BY <2>2, <3>3, <3>4 DEF Count
  <2>5. QED
    BY <2>1, <2>3, <2>4
<1>4. ASSUME NEW w \in Workers, NEW a \in BOOLEAN
      PROVE  \/ Count(RecordOf(w)', a) = Count(RecordOf(w), a)
                /\ ~(work[p].at = "write" /\ work[p].worker = w)
             \/ HoldsRow(work[p], w) /\ Count(RecordOf(w)', a) = Count(work[p].row, a)
  <2>1. CASE registry' = registry /\ work[p].at # "write"
    BY <2>1, SameRecords
  <2>2. ASSUME NEW v \in Workers, NEW r \in Row, registry' = [registry EXCEPT ![v] = r],
               HoldsRow(work[p], v), SameRecord(r, work[p].row)
        PROVE  \/ Count(RecordOf(w)', a) = Count(RecordOf(w), a)
                  /\ ~(work[p].at = "write" /\ work[p].worker = w)
               \/ HoldsRow(work[p], w) /\ Count(RecordOf(w)', a) = Count(work[p].row, a)
    <3>1. CASE w = v
      <4>1. RecordOf(w)' = r
        BY <2>2, <3>1, RecordReplaced
      <4>2. Count(RecordOf(w)', a) = Count(work[p].row, a)
        BY <2>2, <4>1 DEF Count, SameRecord
      <4>3. QED
        BY <2>2, <3>1, <4>2
    <3>2. CASE w # v
      <4>1. RecordOf(w)' = RecordOf(w)
        BY <2>2, <3>2, RecordReplaced
      <4>2. work[p].worker # w
        BY <2>2, <3>2 DEF HoldsRow
      <4>3. QED
        BY <4>1, <4>2
    <3>3. QED
      BY <3>1, <3>2
  <2>3. ASSUME NEW v \in Workers, NEW r \in Row, registry' = [registry EXCEPT ![v] = r],
               work[p].at = "heartbeat", SameRecord(r, RecordOf(v))
        PROVE  Count(RecordOf(w)', a) = Count(RecordOf(w), a) /\ work[p].at # "write"
    <3>1. CASE w = v
      <4>1. RecordOf(w)' = r
        BY <2>3, <3>1, RecordReplaced
      <4>2. QED
        BY <2>3, <3>1, <4>1 DEF Count, SameRecord
    <3>2. CASE w # v
      <4>1. RecordOf(w)' = RecordOf(w)
        BY <2>3, <3>2, RecordReplaced
      <4>2. QED
        BY <2>3, <4>1
    <3>3. QED
      BY <3>1, <3>2
  <2>4. QED
    BY <2>1, <2>2, <2>3 DEF RowStep
<1>5. QED
  BY <1>1, <1>2, <1>3, <1>4, QuietRecord

(* A killed process leaves its verdict uncounted.                          *)
LEMMA KilledRecord ==
  ASSUME TypeOK, TypeOK', IsFiniteSet(Procs), RecordInv, NEW p \in Procs,
         Kill(p), UNCHANGED <<trustTables, enrollVars>>
  PROVE  RecordInv'
<1>1. SUFFICES ASSUME NEW w \in Workers, NEW a \in BOOLEAN
               PROVE  RowsCount(w, a, Cardinality(Pending(w, a)), Cardinality(Judgements(w, a)))'
  BY DEF RecordInv, RowsCount, WithPending
<1>2. /\ work' = [work EXCEPT ![p] = Idle] /\ work'[p] = Idle /\ crashes' # 0
      /\ \A q \in Procs \ {p} : work'[q] = work[q]
  BY DEF Kill, TypeOK, TurnsTyped
<1>3. ~Unread(Idle, w, a) /\ \A v : ~HoldsRow(Idle, v)
  BY IdleIsWork DEF Unread, HoldsRow
<1>4. PICK n \in Nat, n1 \in Nat :
        n = Cardinality(Pending(w, a)) /\ n1 = Cardinality(Pending(w, a)')
  BY <1>2, PendingMoves
<1>5. n1 <= n
  <2> DEFINE o == Idle
  <2>a. work' = [work EXCEPT ![p] = o] /\ ~Unread(o, w, a)
    BY <1>2, <1>3
  <2> HIDE DEF o
  <2>1. CASE Unread(work[p], w, a)
    <3>1. Cardinality(Pending(w, a)') = Cardinality(Pending(w, a)) - 1
      BY <2>a, <2>1, PendingLess
    <3>2. QED
      BY <1>4, <3>1
  <2>2. CASE ~Unread(work[p], w, a)
    <3>1. Cardinality(Pending(w, a)') = Cardinality(Pending(w, a))
      BY <2>a, <2>2, PendingSame
    <3>2. QED
      BY <1>4, <3>1
  <2>3. QED
    BY <2>1, <2>2
<1>6. PICK all \in Nat : all = Cardinality(Judgements(w, a)) /\ all = Cardinality(Judgements(w, a)')
  BY SameJudgements DEF trustTables
<1>7. RowsCount(w, a, n, all)
  BY <1>4, <1>6, RecordInvIs
<1>8. RecordOf(w)' = RecordOf(w)
  BY DEF RecordOf, Registered, trustTables
<1>9. PICK x \in Nat : x = Count(RecordOf(w), a)
  BY RecordTyped, CountTyped DEF TypeOK
<1>10. x + n1 <= all
  <2>1. x + n <= all
    BY <1>7, <1>9 DEF RowsCount
  <2>2. QED
    BY <1>5, <2>1
<1>11. ASSUME NEW q \in Procs, HoldsRow(work'[q], w)
       PROVE  Count(work'[q].row, a) + n1 <= all
  <2>1. HoldsRow(work[q], w) /\ work'[q] = work[q]
    BY <1>2, <1>3, <1>11
  <2>2. PICK y \in Nat : y = Count(work[q].row, a)
    BY <2>1, HeldRow, CountTyped
  <2>3. y + n <= all
    BY <1>7, <2>1, <2>2 DEF RowsCount
  <2>4. y + n1 <= all
    BY <1>5, <2>3
  <2>5. QED
    BY <2>1, <2>2, <2>4
<1>12. RowsCount(w, a, n1, all)'
  BY <1>2, <1>8, <1>9, <1>10, <1>11 DEF RowsCount, Count, HoldsRow
<1>13. QED
  BY <1>4, <1>6, <1>12 DEF RowsCount

LEMMA StepKinds ==
  ASSUME TypeOK, CommitteesInv, NEW p \in Procs, TrustStep(p)
  PROVE  InsertVerdict(p) \/ ReadRecord(p) \/ \E o \in Work : RowStep(p, o)
<1>1. CASE EnrollmentStep(p)
  BY <1>1, EnrollmentRows
<1>2. ASSUME ~InsertVerdict(p), ~ReadRecord(p), ~EnrollmentStep(p)
      PROVE  \E o \in Work : RowStep(p, o)
  BY <1>2, VerificationRows DEF TrustStep, VerificationStep
<1>3. QED
  BY <1>1, <1>2

LEMMA RecordKept ==
  ASSUME TrustInv, TrustInv', OneAtATime, OneAtATime', IsFiniteSet(Procs), RecordInv, [Next]_vars
  PROVE  RecordInv'
<1>1. TypeOK /\ TypeOK' /\ CommitteesInv
  BY DEF TrustInv
<1>2. ASSUME NEW p \in Procs, TrustStep(p) PROVE RecordInv'
  BY <1>1, <1>2, StepKinds, InsertVerdictRecord, ReadRecordRecord, RowStepRecord
<1>3. ASSUME UNCHANGED <<work, inTurn, crashes, registry, verdicts>> PROVE RecordInv'
  <2>1. SUFFICES ASSUME NEW w \in Workers, NEW a \in BOOLEAN
                 PROVE  RowsCount(w, a, Cardinality(Pending(w, a)),
                                  Cardinality(Judgements(w, a)))'
    BY DEF RecordInv, RowsCount, WithPending
  <2>2. PICK n, all : n = Cardinality(Pending(w, a)) /\ all = Cardinality(Judgements(w, a))
    OBVIOUS
  <2>3. Pending(w, a)' = Pending(w, a) /\ Judgements(w, a)' = Judgements(w, a)
    BY <1>3 DEF Pending, Unread, Judgements
  <2>4. RecordOf(w)' = RecordOf(w)
    BY <1>3 DEF RecordOf, Registered
  <2>5. RowsCount(w, a, n, all)
    BY <2>2, RecordInvIs
  <2>6. RowsCount(w, a, n, all)'
    BY <1>3, <2>4, <2>5 DEF RowsCount, Count, HoldsRow
  <2>7. QED
    BY <2>2, <2>3, <2>6 DEF RowsCount
<1>4. ASSUME Killed PROVE RecordInv'
  BY <1>1, <1>4, KilledRecord DEF Killed
<1>5. ASSUME (\E w \in Remote : Send(w)) \/ Tick \/ UNCHANGED vars PROVE RecordInv'
  BY <1>3, <1>5 DEF Send, Tick, vars, procVars, trustTables
<1>6. QED
  BY <1>2, <1>4, <1>5, NextCases


(* Nothing has been judged, read or written yet.                           *)
LEMMA RecordInitially ==
  ASSUME Init
  PROVE  RecordInv
<1>1. SUFFICES ASSUME NEW w \in Workers, NEW a \in BOOLEAN
               PROVE  RowsCount(w, a, Cardinality(Pending(w, a)), Cardinality(Judgements(w, a)))
  BY RecordInvIs
<1>2. TypeOK
  BY TrustInitially DEF TrustInv
<1>3. \A p \in Procs : work[p] = Idle /\ work[p].at = "idle"
  BY IdleIsWork DEF Init, ProcInit
<1>4. Pending(w, a) = {} /\ \A p \in Procs : ~HoldsRow(work[p], w)
  BY <1>3 DEF Pending, Unread, HoldsRow
<1>5. Judgements(w, a) = {}
  BY DEF Init, VerificationInit, Judgements
<1>6. RecordOf(w).ok = 0 /\ RecordOf(w).bad = 0
  BY DEF Init, VerificationInit, RecordOf, Registered, NewRow
<1>7. Cardinality({}) = 0
  BY FS_EmptySet
<1>8. RowsCount(w, a, 0, 0)
  BY <1>4, <1>6 DEF RowsCount, Count
<1>9. QED
  BY <1>4, <1>5, <1>7, <1>8

LEMMA RecordAlways == IsFiniteSet(Procs) /\ Spec => [](TrustInv /\ OneAtATime /\ RecordInv)
<1> SUFFICES ASSUME IsFiniteSet(Procs) PROVE Spec => [](TrustInv /\ OneAtATime /\ RecordInv)
  OBVIOUS
<1>1. Init => OneAtATime
  BY DEF Init, ProcInit, OneAtATime
<1>2. OneAtATime /\ TrustInv /\ [Next]_vars => OneAtATime'
  BY AloneKept DEF TrustInv
<1>3. Init => RecordInv
  BY RecordInitially
<1>4. TrustInv /\ TrustInv' /\ OneAtATime /\ OneAtATime' /\ RecordInv
        /\ [Next]_vars => RecordInv'
  BY RecordKept
<1>5. Spec => []TrustInv
  BY TrustAlways
<1>6. QED
  BY <1>1, <1>2, <1>3, <1>4, <1>5, PTL DEF Spec

LEMMA RecordMatches ==
  ASSUME TrustInv, RecordInv, IsFiniteSet(Procs)
  PROVE  RecordMatchesVerdicts
<1> DEFINE Judged1(w, a) == Cardinality({i \in DOMAIN verdicts : verdicts[i].worker = w
                                                                 /\ verdicts[i].accepted = a})
<1>1. TypeOK
  BY DEF TrustInv
<1>2. ASSUME NEW w \in Registered, NEW a \in BOOLEAN
      PROVE  /\ Count(registry[w], a) <= Judged1(w, a)
             /\ inTurn /\ crashes = 0 /\ Idling => Count(registry[w], a) = Judged1(w, a)
  <2>1. w \in Workers /\ RecordOf(w) = registry[w]
    BY <1>1 DEF Registered, RecordOf, TypeOK, TablesTyped
  <2>0. Judged1(w, a) = Cardinality(Judgements(w, a))
    BY DEF Judgements
  <2>2. PICK all \in Nat : all = Judged1(w, a) /\ all = Cardinality(Judgements(w, a))
    BY <1>1, <2>0, JudgementsFinite
  <2>3. Pending(w, a) \subseteq Procs
    BY DEF Pending
  <2>4. PICK n \in Nat : n = Cardinality(Pending(w, a))
    BY <2>3, FS_Subset, FS_CardinalityType
  <2>5. PICK x \in Nat : x = Count(registry[w], a)
    BY <1>1, <2>1, RecordTyped, CountTyped DEF TypeOK
  <2>6. RowsCount(w, a, n, all)
    BY <2>1, <2>2, <2>4, RecordInvIs
  <2>7. x + n <= all
    BY <2>1, <2>5, <2>6 DEF RowsCount
  <2>8. ASSUME inTurn, crashes = 0, Idling PROVE x = all
    <3>1. \A p \in Procs : work[p].at = "idle"
      BY <2>8, IdleIsWork DEF Idling
    <3>2. Pending(w, a) = {} /\ \A p \in Procs : work[p].at = "write" => work[p].worker # w
      BY <3>1 DEF Pending, Unread
    <3>3. n = 0
      BY <2>4, <3>2, FS_EmptySet
    <3>4. x + n = all
      BY <2>1, <2>5, <2>6, <2>8, <3>2 DEF RowsCount
    <3>5. QED
      BY <3>3, <3>4
  <2>9. QED
    BY <2>2, <2>5, <2>7, <2>8
<1> HIDE DEF Judged1
<1>3. ASSUME NEW w \in Registered
      PROVE  /\ registry[w].ok <= Judged1(w, TRUE) /\ registry[w].bad <= Judged1(w, FALSE)
             /\ inTurn /\ crashes = 0 /\ Idling =>
                  registry[w].ok = Judged1(w, TRUE) /\ registry[w].bad = Judged1(w, FALSE)
  <2>1. Count(registry[w], TRUE) = registry[w].ok /\ Count(registry[w], FALSE) = registry[w].bad
    BY DEF Count
  <2>2. QED
    BY <1>2, <2>1
<1>4. QED
  BY <1>3 DEF RecordMatchesVerdicts, Judged1

(***************************************************************************)
(* A worker's counts never exceed the verdicts on it, whatever processes   *)
(* read before others write, and wherever they are killed; while they take *)
(* turns and none is killed, the counts are the verdicts.                  *)
(***************************************************************************)
THEOREM RecordsCount == IsFiniteSet(Procs) /\ Spec => []RecordMatchesVerdicts
<1> SUFFICES ASSUME IsFiniteSet(Procs) PROVE Spec => []RecordMatchesVerdicts
  OBVIOUS
<1>1. TrustInv /\ RecordInv => RecordMatchesVerdicts
  BY RecordMatches
<1>2. QED
  BY <1>1, RecordAlways, PTL

----
\* The score

LEMMA Quotient ==
  ASSUME NEW x \in Nat, NEW n \in Nat \ {0}
  PROVE  /\ x \div n \in Nat
         /\ \A q \in Nat : q * n <= x <=> q <= x \div n
  OBVIOUS

(* The share of failures, in points: it cannot fall by one more failure,   *)
(* nor rise by one more success.                                           *)
Share(bad, jobs) == (4800 * bad) \div jobs

LEMMA ShareMoves ==
  ASSUME NEW bad \in Nat, NEW jobs \in Nat \ {0}, bad <= jobs
  PROVE  /\ Share(bad, jobs) \in Nat
         /\ Share(bad, jobs) <= Share(bad + 1, jobs + 1)
         /\ Share(bad, jobs + 1) <= Share(bad, jobs)
<1>1. PICK q \in Nat : q = Share(bad, jobs)
  BY Quotient DEF Share
<1>2. q * jobs <= 4800 * bad
  BY <1>1, Quotient DEF Share
<1>3. q <= 4800
  <2>1. q * jobs <= 4800 * jobs
    BY <1>2
  <2>2. QED
    BY <2>1
<1>4. q * (jobs + 1) <= 4800 * (bad + 1)
  <2>1. q * (jobs + 1) = q * jobs + q
    OBVIOUS
  <2>2. QED
    BY <1>2, <1>3, <2>1
<1>5. q <= Share(bad + 1, jobs + 1)
  <2>1. 4800 * (bad + 1) \in Nat /\ jobs + 1 \in Nat \ {0}
    OBVIOUS
  <2>2. QED
    BY <1>4, <2>1, Quotient DEF Share
<1>6. PICK r \in Nat : r = Share(bad, jobs + 1)
  <2>1. 4800 * bad \in Nat /\ jobs + 1 \in Nat \ {0}
    OBVIOUS
  <2>2. (4800 * bad) \div (jobs + 1) \in Nat
    BY <2>1, Quotient
  <2>3. QED
    BY <2>2 DEF Share
<1>7. r * (jobs + 1) <= 4800 * bad
  <2>1. PICK x \in Nat, n \in Nat \ {0} : x = 4800 * bad /\ n = jobs + 1
    OBVIOUS
  <2>2. r = x \div n
    BY <1>6, <2>1 DEF Share
  <2>3. r * n <= x
    BY <2>2, Quotient
  <2>4. QED
    BY <2>1, <2>3
<1>8. r * jobs <= 4800 * bad
  <2>1. r * (jobs + 1) = r * jobs + r
    OBVIOUS
  <2>2. PICK m \in Nat : m = r * jobs
    OBVIOUS
  <2>3. QED
    BY <1>7, <2>1, <2>2
<1>9. r <= Share(bad, jobs)
  BY <1>8, Quotient DEF Share
<1>10. QED
  BY <1>1, <1>5, <1>6, <1>9

(* What an average is worth: none is worth the neutral value.              *)
Worth(top, neutral, unit, sum, jobs) ==
  IF jobs = 0 \/ sum = 0 THEN neutral ELSE AtLeast0(top - (sum * 240) \div (unit * jobs))

LEMMA WorthIs ==
  ASSUME NEW row
  PROVE  /\ Speed(row) = Worth(4800, 1200, 500, row.ms, Jobs(row))
         /\ Thrift(row) = Worth(2400, 720, 100, row.joules, Jobs(row))
  BY DEF Speed, Thrift, Worth, Point

LEMMA QuotientGrows ==
  ASSUME NEW x \in Nat, NEW y \in Nat, NEW m \in Nat \ {0}, NEW n \in Nat \ {0},
         x * n <= y * m
  PROVE  x \div m <= y \div n
<1>1. PICK q \in Nat : q = x \div m
  BY Quotient
<1>2. q * m <= x
  BY <1>1, Quotient
<1>3. PICK a \in Nat : a = q * n
  OBVIOUS
<1>4. a * m <= y * m
  <2>1. a * m = (q * m) * n
    BY <1>3
  <2>2. PICK b \in Nat : b = q * m
    OBVIOUS
  <2>3. b * n <= x * n
    BY <1>2, <2>2
  <2>4. QED
    BY <2>1, <2>2, <2>3
<1>5. a <= y
  BY <1>4
<1>6. QED
  BY <1>1, <1>3, <1>5, Quotient

LEMMA WorthBounds ==
  ASSUME NEW top \in Nat, NEW neutral \in Nat, neutral <= top, NEW unit \in Nat \ {0},
         NEW sum \in Nat, NEW jobs \in Nat
  PROVE  /\ Worth(top, neutral, unit, sum, jobs) \in Int
         /\ 0 <= Worth(top, neutral, unit, sum, jobs)
         /\ Worth(top, neutral, unit, sum, jobs) <= top
<1>1. CASE jobs = 0 \/ sum = 0
  BY <1>1 DEF Worth
<1>2. CASE ~(jobs = 0 \/ sum = 0)
  <2>1. sum * 240 \in Nat /\ unit * jobs \in Nat \ {0}
    BY <1>2
  <2>2. PICK q \in Nat : q = (sum * 240) \div (unit * jobs)
    BY <2>1, Quotient
  <2>3. QED
    BY <1>2, <2>2 DEF Worth, AtLeast0
<1>3. QED
  BY <1>1, <1>2

(* An average that is no better is worth no more.                          *)
LEMMA WorthFalls ==
  ASSUME NEW top \in Nat, NEW neutral \in Nat, NEW unit \in Nat \ {0},
         NEW sum1 \in Nat, NEW jobs1 \in Nat \ {0}, NEW sum2 \in Nat, NEW jobs2 \in Nat \ {0},
         sum1 = 0 <=> sum2 = 0, sum1 * jobs2 >= sum2 * jobs1
  PROVE  Worth(top, neutral, unit, sum1, jobs1) <= Worth(top, neutral, unit, sum2, jobs2)
<1>1. CASE sum1 = 0
  BY <1>1 DEF Worth
<1>2. CASE sum1 # 0
  <2>1. PICK x \in Nat, y \in Nat, m \in Nat \ {0}, n \in Nat \ {0} :
          x = sum2 * 240 /\ y = sum1 * 240 /\ m = unit * jobs2 /\ n = unit * jobs1
    OBVIOUS
  <2>2. x * n <= y * m
    <3>1. PICK a \in Nat, b \in Nat : a = sum2 * jobs1 /\ b = sum1 * jobs2 /\ a <= b
      OBVIOUS
    <3>2. x * n = (240 * unit) * a
      BY <2>1, <3>1
    <3>3. y * m = (240 * unit) * b
      BY <2>1, <3>1
    <3>4. PICK u \in Nat : u = 240 * unit
      OBVIOUS
    <3>5. u * a <= u * b
      BY <3>1, <3>4
    <3>6. QED
      BY <3>2, <3>3, <3>4, <3>5
  <2>3. PICK q1 \in Nat, q2 \in Nat : q1 = y \div n /\ q2 = x \div m
    BY Quotient
  <2>4. q2 <= q1
    BY <2>2, <2>3, QuotientGrows
  <2>5. /\ Worth(top, neutral, unit, sum1, jobs1) = AtLeast0(top - q1)
        /\ Worth(top, neutral, unit, sum2, jobs2) = AtLeast0(top - q2)
    BY <1>2, <2>1, <2>3 DEF Worth
  <2>6. QED
    BY <2>3, <2>4, <2>5 DEF AtLeast0
<1>3. QED
  BY <1>1, <1>2

LEMMA JobsTyped ==
  ASSUME NEW row \in Row
  PROVE  Jobs(row) \in Nat /\ row.bad <= Jobs(row) /\ Jobs(row) = row.ok + row.bad
  BY RowFields DEF Jobs

LEMMA Averages ==
  ASSUME NEW row \in Row
  PROVE  /\ Speed(row) \in Int /\ 0 <= Speed(row) /\ Speed(row) <= 4800
         /\ Thrift(row) \in Int /\ 0 <= Thrift(row) /\ Thrift(row) <= 2400
         /\ Jobs(row) = 0 => Speed(row) = 1200 /\ Thrift(row) = 720
<1>1. /\ Speed(row) = Worth(4800, 1200, 500, row.ms, Jobs(row))
      /\ Thrift(row) = Worth(2400, 720, 100, row.joules, Jobs(row))
  BY WorthIs
<1>2. Jobs(row) \in Nat /\ row.ms \in Nat /\ row.joules \in Nat
  BY RowFields, JobsTyped
<1>3. PICK jobs \in Nat, ms \in Nat, joules \in Nat :
        jobs = Jobs(row) /\ ms = row.ms /\ joules = row.joules
  BY <1>2
<1>4. /\ Worth(4800, 1200, 500, ms, jobs) \in Int
      /\ 0 <= Worth(4800, 1200, 500, ms, jobs) /\ Worth(4800, 1200, 500, ms, jobs) <= 4800
      /\ Worth(2400, 720, 100, joules, jobs) \in Int
      /\ 0 <= Worth(2400, 720, 100, joules, jobs) /\ Worth(2400, 720, 100, joules, jobs) <= 2400
  <2>1. PICK top \in Nat, neutral \in Nat, unit \in Nat \ {0} :
          top = 4800 /\ neutral = 1200 /\ unit = 500 /\ neutral <= top
    OBVIOUS
  <2>2. PICK top1 \in Nat, neutral1 \in Nat, unit1 \in Nat \ {0} :
          top1 = 2400 /\ neutral1 = 720 /\ unit1 = 100 /\ neutral1 <= top1
    OBVIOUS
  <2>3. /\ Worth(top, neutral, unit, ms, jobs) \in Int
        /\ 0 <= Worth(top, neutral, unit, ms, jobs) /\ Worth(top, neutral, unit, ms, jobs) <= top
    BY <2>1, WorthBounds
  <2>4. /\ Worth(top1, neutral1, unit1, joules, jobs) \in Int
        /\ 0 <= Worth(top1, neutral1, unit1, joules, jobs)
        /\ Worth(top1, neutral1, unit1, joules, jobs) <= top1
    BY <2>2, WorthBounds
  <2>5. QED
    BY <2>1, <2>2, <2>3, <2>4
<1>5. Jobs(row) = 0 => Speed(row) = 1200 /\ Thrift(row) = 720
  BY <1>1 DEF Worth
<1>6. QED
  BY <1>1, <1>3, <1>4, <1>5

LEMMA NoBetterAverages ==
  ASSUME NEW a \in Row, NEW b \in Row, Jobs(a) # 0, Jobs(b) # 0, NoBetter(a, b)
  PROVE  Speed(a) <= Speed(b) /\ Thrift(a) <= Thrift(b)
<1>1. Jobs(a) \in Nat \ {0} /\ Jobs(b) \in Nat \ {0}
  BY JobsTyped
<1>2. a.ms \in Nat /\ a.joules \in Nat /\ b.ms \in Nat /\ b.joules \in Nat
  BY RowFields
<1>3. Worth(4800, 1200, 500, a.ms, Jobs(a)) <= Worth(4800, 1200, 500, b.ms, Jobs(b))
  <2>1. PICK top \in Nat, neutral \in Nat, unit \in Nat \ {0} :
          top = 4800 /\ neutral = 1200 /\ unit = 500
    OBVIOUS
  <2>2. (a.ms = 0 <=> b.ms = 0) /\ a.ms * Jobs(b) >= b.ms * Jobs(a)
    BY DEF NoBetter
  <2>3. Worth(top, neutral, unit, a.ms, Jobs(a)) <= Worth(top, neutral, unit, b.ms, Jobs(b))
    BY <1>1, <1>2, <2>2, WorthFalls
  <2>4. QED
    BY <2>1, <2>3
<1>4. Worth(2400, 720, 100, a.joules, Jobs(a)) <= Worth(2400, 720, 100, b.joules, Jobs(b))
  <2>1. PICK top \in Nat, neutral \in Nat, unit \in Nat \ {0} :
          top = 2400 /\ neutral = 720 /\ unit = 100
    OBVIOUS
  <2>2. (a.joules = 0 <=> b.joules = 0) /\ a.joules * Jobs(b) >= b.joules * Jobs(a)
    BY DEF NoBetter
  <2>3. Worth(top, neutral, unit, a.joules, Jobs(a)) <= Worth(top, neutral, unit, b.joules, Jobs(b))
    BY <1>1, <1>2, <2>2, WorthFalls
  <2>4. QED
    BY <2>1, <2>3
<1>5. QED
  BY <1>3, <1>4, WorthIs

LEMMA ScoreIs ==
  ASSUME NEW row \in Row
  PROVE  /\ Jobs(row) # 0 =>
              Score(row) = row.rep + Speed(row) + Thrift(row) - Share(row.bad, Jobs(row))
         /\ Jobs(row) = 0 => Score(row) = row.rep + 1920
<1>1. Point = 240 /\ 20 * Point = 4800
  BY DEF Point
<1>2. ASSUME Jobs(row) # 0
      PROVE  Score(row) = row.rep + Speed(row) + Thrift(row) - Share(row.bad, Jobs(row))
  BY <1>1, <1>2 DEF Score, Share
<1>3. ASSUME Jobs(row) = 0 PROVE Score(row) = row.rep + 1920
  BY <1>3, Averages, RowFields DEF Score
<1>4. QED
  BY <1>2, <1>3

(* A worker's score after a failure, and after a success.                  *)
LEMMA FailureScore ==
  ASSUME NEW old \in Row, NEW new \in Row, new.bad = old.bad + 1, new.ok = old.ok,
         new.rep <= old.rep, new.rep = 0 \/ new.rep <= old.rep - 720,
         IF Jobs(old) > 0 THEN NoBetter(new, old) ELSE old.rep >= 480
  PROVE  Score(new) <= Score(old)
<1>1. Jobs(old) \in Nat /\ Jobs(new) = Jobs(old) + 1 /\ Jobs(new) # 0
  BY JobsTyped, RowFields
<1>2. PICK s \in Int, t \in Int : s = Speed(new) /\ t = Thrift(new) /\ s <= 4800 /\ t <= 2400
  BY Averages
<1>3. Score(new) = new.rep + s + t - Share(new.bad, Jobs(new))
  BY <1>1, <1>2, ScoreIs
<1>4. CASE Jobs(old) # 0
  <2>1. PICK s0 \in Int, t0 \in Int : s0 = Speed(old) /\ t0 = Thrift(old)
    BY Averages
  <2>2. s <= s0 /\ t <= t0
    BY <1>1, <1>2, <1>4, <2>1, NoBetterAverages
  <2>3. Score(old) = old.rep + s0 + t0 - Share(old.bad, Jobs(old))
    BY <1>4, <2>1, ScoreIs
  <2>4. old.bad \in Nat /\ old.bad <= Jobs(old) /\ Jobs(old) \in Nat \ {0}
    BY <1>1, <1>4, JobsTyped, RowFields
  <2>5. Jobs(old) + 1 \in Nat \ {0} /\ old.bad + 1 \in Nat /\ old.bad + 1 <= Jobs(old) + 1
    BY <2>4
  <2>6. PICK x \in Nat, y \in Nat :
          x = Share(old.bad, Jobs(old)) /\ y = Share(new.bad, Jobs(new)) /\ x <= y
    <3>1. Share(old.bad, Jobs(old)) \in Nat
      BY <2>4, ShareMoves
    <3>2. Share(old.bad + 1, Jobs(old) + 1) \in Nat
      BY <2>5, ShareMoves
    <3>3. Share(old.bad, Jobs(old)) <= Share(old.bad + 1, Jobs(old) + 1)
      BY <2>4, ShareMoves
    <3>4. QED
      BY <1>1, <3>1, <3>2, <3>3
  <2>7. QED
    BY <1>2, <1>3, <2>1, <2>2, <2>3, <2>6, RowFields
<1>5. CASE Jobs(old) = 0
  <2>1. old.bad = 0 /\ new.bad = 1 /\ Jobs(new) = 1
    BY <1>1, <1>5, JobsTyped, RowFields
  <2>2. Share(new.bad, Jobs(new)) = 4800
    BY <2>1 DEF Share
  <2>3. Score(old) = old.rep + 1920 /\ old.rep >= 480
    BY <1>5, ScoreIs
  <2>4. Score(new) <= new.rep + 2400
    BY <1>2, <1>3, <2>2, RowFields
  <2>5. QED
    BY <1>2, <1>3, <2>2, <2>3, RowFields
<1>6. QED
  BY <1>4, <1>5

LEMMA SuccessScore ==
  ASSUME NEW old \in Row, NEW new \in Row, new.ok = old.ok + 1, new.bad = old.bad,
         new.rep >= old.rep,
         IF Jobs(old) > 0 THEN NoBetter(old, new) ELSE Speed(new) + Thrift(new) >= 1920
  PROVE  Score(new) >= Score(old)
<1>1. Jobs(old) \in Nat /\ Jobs(new) = Jobs(old) + 1 /\ Jobs(new) # 0
  BY JobsTyped, RowFields
<1>2. PICK s \in Int, t \in Int : s = Speed(new) /\ t = Thrift(new)
  BY Averages
<1>3. Score(new) = new.rep + s + t - Share(new.bad, Jobs(new))
  BY <1>1, <1>2, ScoreIs
<1>4. CASE Jobs(old) # 0
  <2>1. PICK s0 \in Int, t0 \in Int : s0 = Speed(old) /\ t0 = Thrift(old)
    BY Averages
  <2>2. s0 <= s /\ t0 <= t
    BY <1>1, <1>2, <1>4, <2>1, NoBetterAverages
  <2>3. Score(old) = old.rep + s0 + t0 - Share(old.bad, Jobs(old))
    BY <1>4, <2>1, ScoreIs
  <2>4. old.bad \in Nat /\ old.bad <= Jobs(old) /\ Jobs(old) \in Nat \ {0}
    BY <1>1, <1>4, JobsTyped, RowFields
  <2>5. Jobs(old) + 1 \in Nat \ {0} /\ old.bad <= Jobs(old) + 1
    BY <2>4
  <2>6. PICK x \in Nat, y \in Nat :
          x = Share(old.bad, Jobs(old)) /\ y = Share(new.bad, Jobs(new)) /\ y <= x
    <3>1. Share(old.bad, Jobs(old)) \in Nat
      BY <2>4, ShareMoves
    <3>2. Share(old.bad, Jobs(old) + 1) \in Nat
      BY <2>4, <2>5, ShareMoves
    <3>3. Share(old.bad, Jobs(old) + 1) <= Share(old.bad, Jobs(old))
      BY <2>4, ShareMoves
    <3>4. QED
      BY <1>1, <3>1, <3>2, <3>3
  <2>7. QED
    BY <1>2, <1>3, <2>1, <2>2, <2>3, <2>6, RowFields
<1>5. CASE Jobs(old) = 0
  <2>1. new.bad = 0 /\ Jobs(new) = 1
    BY <1>1, <1>5, JobsTyped, RowFields
  <2>2. Share(new.bad, Jobs(new)) = 0
    BY <2>1 DEF Share
  <2>3. Score(old) = old.rep + 1920 /\ s + t >= 1920
    BY <1>1, <1>2, <1>5, ScoreIs
  <2>4. QED
    BY <1>2, <1>3, <2>2, <2>3, RowFields
<1>6. QED
  BY <1>4, <1>5

(* A record of failures alone, and a newcomer's.                           *)
LEMMA OnlyFailed ==
  ASSUME NEW row \in Row, row.bad > 0, row.ok = 0
  PROVE  Score(row) < Score(NewRow(TRUE))
<1>1. Jobs(row) = row.bad /\ Jobs(row) \in Nat \ {0}
  BY JobsTyped, RowFields
<1>2. Share(row.bad, Jobs(row)) = 4800
  <2>1. PICK n \in Nat \ {0} : n = row.bad
    BY <1>1
  <2>2. (4800 * n) \div n = 4800
    <3>1. PICK x \in Nat : x = 4800 * n
      OBVIOUS
    <3>2. PICK q \in Nat : q = x \div n
      BY Quotient
    <3>3. 4800 <= q /\ ~(4801 <= q)
      BY <3>1, <3>2, Quotient
    <3>4. QED
      BY <3>1, <3>2, <3>3
  <2>3. QED
    BY <1>1, <2>1, <2>2 DEF Share
<1>3. Score(row) = row.rep + Speed(row) + Thrift(row) - 4800
  BY <1>1, <1>2, ScoreIs
<1>4. row.rep \in Int /\ row.rep <= 11280
  BY RowFields
<1>5. PICK new : new = NewRow(TRUE)
  OBVIOUS
<1>6. Score(new) = 13920
  <2>1. new = [rep |-> 12000, ok |-> 0, bad |-> 0, ms |-> 0, joules |-> 0, online |-> TRUE]
    BY <1>5 DEF NewRow, Point
  <2>2. Jobs(new) = 0
    BY <2>1 DEF Jobs
  <2>3. Speed(new) = 1200 /\ Thrift(new) = 720
    BY <2>2 DEF Speed, Thrift, Point
  <2>4. QED
    BY <2>1, <2>2, <2>3 DEF Score
<1>7. PICK s \in Int, t \in Int : s = Speed(row) /\ t = Thrift(row) /\ s <= 4800 /\ t <= 2400
  BY Averages
<1>8. Score(row) = row.rep + s + t - 4800
  BY <1>3, <1>7
<1>9. Score(row) < 13920
  BY <1>4, <1>7, <1>8
<1>10. Score(row) < Score(new)
  BY <1>6, <1>9
<1>11. QED
  BY <1>5, <1>10, Zenon

----
\* What is in a process's hands is current while processes take turns

RowCurrent(o) ==
  /\ o.at = "upsert" => o.row = RecordOf(o.worker)
  /\ o.at = "write" =>
       \/ \E reason \in Reasons : Follows(o.row, registry[o.worker], reason)
       \/ \E days \in Days : o.row = Decayed(registry[o.worker], days)

LEMMA CurrentRowsIs == CurrentRows <=> (inTurn => \A p \in Procs : RowCurrent(work[p]))
  BY DEF CurrentRows, RowCurrent

LEMMA CurrentAfter ==
  ASSUME TypeOK, OneAtATime, NEW p \in Procs, NEW o,
         (Goes(p, o) /\ work[p] # Idle) \/ Begins(p, o),
         registry' = registry \/ o.at \notin {"upsert", "write"}, inTurn => RowCurrent(o)
  PROVE  CurrentRows'
<1>1. work'[p] = o /\ inTurn' = inTurn
  BY WorkMoves DEF TypeOK
<1>2. inTurn => \A q \in Procs \ {p} : work'[q] = Idle
  BY Alone
<1>3. SUFFICES ASSUME inTurn, NEW q \in Procs PROVE RowCurrent(work[q])'
  BY <1>1 DEF CurrentRows, RowCurrent
<1>4. CASE q # p
  <2>1. work'[q].at = "idle"
    BY <1>2, <1>3, <1>4, IdleIsWork
  <2>2. QED
    BY <2>1 DEF RowCurrent
<1>5. CASE q = p /\ o.at \notin {"upsert", "write"}
  BY <1>1, <1>5 DEF RowCurrent
<1>6. CASE q = p /\ registry' = registry
  <2>1. RowCurrent(o)
    BY <1>3
  <2>2. RecordOf(o.worker)' = RecordOf(o.worker) \/ o.at # "upsert"
    <3>1. (registry'[o.worker] = registry[o.worker]) /\ Registered' = Registered
      BY <1>6 DEF Registered
    <3>2. QED
      BY <1>1, <1>6, <3>1 DEF RecordOf
  <2>3. QED
    BY <1>1, <1>6, <2>1 DEF RowCurrent, RecordOf, Registered
<1>7. QED
  BY <1>4, <1>5, <1>6

LEMMA CurrentStep ==
  ASSUME TypeOK, CommitteesInv, OneAtATime, CurrentRows, NEW p \in Procs, TrustStep(p)
  PROVE  CurrentRows'
<1>1. ASSUME InsertVerdict(p) PROVE CurrentRows'
  <2>1. PICK o : o = [work[p] EXCEPT !.at = "read"]
    OBVIOUS
  <2>2. work[p] \in Judging /\ work[p].at = "receipt" /\ work[p] # Idle
    BY <1>1, HeldTyped, WorkByAt DEF InsertVerdict
  <2>3. o.at = "read" /\ Goes(p, o)
    BY <1>1, <2>1, <2>2 DEF InsertVerdict, Judging
  <2>4. RowCurrent(o)
    BY <2>3 DEF RowCurrent
  <2>5. QED
    BY <2>2, <2>3, <2>4, CurrentAfter
<1>2. ASSUME ReadRecord(p) PROVE CurrentRows'
  <2>1. PICK o \in Writing :
          /\ Goes(p, o) /\ o.worker = work[p].worker
          /\ Follows(o.row, registry[work[p].worker], work[p].reason)
    BY <1>2, ReadRecordEffect
  <2>2. work[p] # Idle /\ work[p].reason \in Reasons /\ registry' = registry
    BY <1>2, ReadRecordEffect, IdleIsWork DEF ReadRecord, trustTables
  <2>3. o.at = "write"
    BY DEF Writing
  <2>4. RowCurrent(o)
    BY <2>1, <2>2, <2>3 DEF RowCurrent
  <2>5. QED
    BY <2>1, <2>2, <2>4, CurrentAfter
<1>3. ASSUME NEW o \in Work, RowStep(p, o) PROVE CurrentRows'
  <2>1. (Goes(p, o) /\ work[p] # Idle) \/ Begins(p, o)
    BY <1>3 DEF RowStep
  <2>2. registry' = registry \/ o.at \notin {"upsert", "write"}
    BY <1>3 DEF RowStep
  <2>3. RowCurrent(o)
    BY <1>3 DEF RowStep, RowCurrent
  <2>4. QED
    BY <2>1, <2>2, <2>3, CurrentAfter
<1>4. QED
  BY <1>1, <1>2, <1>3, StepKinds

LEMMA CurrentKept ==
  ASSUME TrustInv, OneAtATime, CurrentRows, [Next]_vars
  PROVE  CurrentRows'
<1>1. TypeOK /\ CommitteesInv
  BY DEF TrustInv
<1>2. ASSUME NEW p \in Procs, TrustStep(p) PROVE CurrentRows'
  BY <1>1, <1>2, CurrentStep
<1>3. ASSUME UNCHANGED <<work, inTurn, registry>> PROVE CurrentRows'
  <2>1. SUFFICES ASSUME inTurn, NEW q \in Procs PROVE RowCurrent(work[q])'
    BY <1>3 DEF CurrentRows, RowCurrent
  <2>2. RowCurrent(work[q])
    BY <2>1, CurrentRowsIs
  <2>3. QED
    BY <1>3, <2>2 DEF RowCurrent, RecordOf, Registered
<1>4. ASSUME Killed PROVE CurrentRows'
  <2>1. PICK p \in Procs : /\ work' = [work EXCEPT ![p] = Idle] /\ inTurn' = inTurn
                           /\ registry' = registry
    BY <1>4 DEF Killed, Kill, trustTables
  <2>2. SUFFICES ASSUME inTurn, NEW q \in Procs PROVE RowCurrent(work[q])'
    BY <2>1 DEF CurrentRows, RowCurrent
  <2>3. RowCurrent(work[q])
    BY <2>2, CurrentRowsIs
  <2>4. work'[q] = work[q] \/ work'[q].at = "idle"
    BY <1>1, <2>1, IdleIsWork DEF TypeOK, TurnsTyped
  <2>5. QED
    BY <2>1, <2>3, <2>4 DEF RowCurrent, RecordOf, Registered
<1>5. ASSUME (\E w \in Remote : Send(w)) \/ Tick \/ UNCHANGED vars PROVE CurrentRows'
  BY <1>3, <1>5 DEF Send, Tick, vars, procVars, trustTables
<1>6. QED
  BY <1>2, <1>4, <1>5, NextCases

(* What a step makes of a registered worker's record while processes take  *)
(* turns.                                                                  *)
Recorded(old, new) ==
  \/ new.ok = old.ok /\ new.bad = old.bad
  \/ \E reason \in Reasons : \E row : Follows(row, old, reason) /\ SameRecord(new, row)

LEMMA RowWritten ==
  ASSUME TypeOK, CurrentRows, inTurn, NEW p \in Procs, NEW o, RowStep(p, o),
         NEW w \in Registered
  PROVE  Recorded(registry[w], registry'[w])
<1>1. w \in Workers /\ registry[w] \in Row /\ RecordOf(w) = registry[w]
  BY RegisteredRows DEF Registered, RecordOf, TypeOK, TablesTyped
<1>2. ASSUME NEW v \in Workers, NEW r \in Row, registry' = [registry EXCEPT ![v] = r], v # w
      PROVE  registry'[w] = registry[w]
  BY <1>1, <1>2 DEF TypeOK, TablesTyped
<1>3. ASSUME NEW r \in Row, registry' = [registry EXCEPT ![w] = r] PROVE registry'[w] = r
  BY <1>1, <1>3 DEF TypeOK, TablesTyped
<1>4. ASSUME NEW r \in Row, registry' = [registry EXCEPT ![w] = r],
             HoldsRow(work[p], w), SameRecord(r, work[p].row)
      PROVE  Recorded(registry[w], r)
  <2>1. RowCurrent(work[p]) /\ work[p].worker = w /\ work[p].at \in {"upsert", "write"}
    BY <1>4, CurrentRowsIs DEF HoldsRow
  <2>2. CASE work[p].row = registry[w]
    BY <1>4, <2>2 DEF Recorded, SameRecord
  <2>3. CASE \E reason \in Reasons : Follows(work[p].row, registry[w], reason)
    BY <1>4, <2>3 DEF Recorded
  <2>5. CASE \E days \in Days : work[p].row = Decayed(registry[w], days)
    <3>1. PICK days \in Days : work[p].row = Decayed(registry[w], days)
      BY <2>5
    <3>2. days \in Nat
      BY VerificationAssumption
    <3>3. work[p].row.ok = registry[w].ok /\ work[p].row.bad = registry[w].bad
      BY <1>1, <3>1, <3>2, DecayedRow
    <3>4. QED
      BY <1>4, <3>3 DEF Recorded, SameRecord
  <2>6. QED
    BY <1>1, <2>1, <2>2, <2>3, <2>5 DEF RowCurrent
<1>5. ASSUME registry'[w] = registry[w] PROVE Recorded(registry[w], registry'[w])
  BY <1>5 DEF Recorded
<1>6. ASSUME NEW v \in Workers, NEW r \in Row, registry' = [registry EXCEPT ![v] = r],
             HoldsRow(work[p], v), SameRecord(r, work[p].row)
      PROVE  Recorded(registry[w], registry'[w])
  BY <1>2, <1>3, <1>4, <1>5, <1>6
<1>7. ASSUME NEW v \in Workers, NEW r \in Row, registry' = [registry EXCEPT ![v] = r],
             SameRecord(r, RecordOf(v))
      PROVE  Recorded(registry[w], registry'[w])
  <2>1. CASE v = w
    BY <1>1, <1>3, <1>7, <2>1 DEF Recorded, SameRecord
  <2>2. CASE v # w
    BY <1>2, <1>5, <1>7, <2>2
  <2>3. QED
    BY <2>1, <2>2
<1>8. QED
  BY <1>5, <1>6, <1>7 DEF RowStep

(* What the score makes of a failure and of a success.                     *)
FailureTells(old, new) ==
  new.bad > old.bad =>
    IF Jobs(old) > 0 THEN NoBetter(new, old) => Score(new) <= Score(old)
    ELSE old.rep >= 2 * Point => Score(new) <= Score(old)
SuccessTells(old, new) ==
  new.ok > old.ok =>
    IF Jobs(old) > 0 THEN NoBetter(old, new) => Score(new) >= Score(old)
    ELSE Speed(new) + Thrift(new) >= 8 * Point => Score(new) >= Score(old)

LEMMA RecordedScore ==
  ASSUME NEW old \in Row, NEW new \in Row, Recorded(old, new)
  PROVE  FailureTells(old, new) /\ SuccessTells(old, new)
<1>1. 2 * Point = 480 /\ 8 * Point = 1920
  BY DEF Point
<1>2. CASE new.ok = old.ok /\ new.bad = old.bad
  BY <1>2, RowFields DEF FailureTells, SuccessTells
<1>3. ASSUME NEW reason \in Reasons, NEW row, Follows(row, old, reason), SameRecord(new, row)
      PROVE  FailureTells(old, new) /\ SuccessTells(old, new)
  <2>1. CASE reason = None
    <3>1. new.ok = old.ok + 1 /\ new.bad = old.bad /\ new.rep >= old.rep
      BY <1>3, <2>1, FollowingRow DEF SameRecord
    <3>2. ~(new.bad > old.bad)
      BY <3>1, RowFields
    <3>3. QED
      BY <1>1, <3>1, <3>2, SuccessScore DEF FailureTells, SuccessTells
  <2>2. CASE reason # None
    <3>1. /\ new.bad = old.bad + 1 /\ new.ok = old.ok
          /\ new.rep <= old.rep /\ (new.rep = 0 \/ new.rep <= old.rep - 720)
      BY <1>3, <2>2, FollowingRow DEF SameRecord
    <3>2. ~(new.ok > old.ok)
      BY <3>1, RowFields
    <3>3. QED
      BY <1>1, <3>1, <3>2, FailureScore DEF FailureTells, SuccessTells
  <2>3. QED
    BY <2>1, <2>2
<1>4. QED
  BY <1>2, <1>3 DEF Recorded

Routed ==
  \A w \in Registered :
    LET old == registry[w]
        new == registry'[w]
    IN  /\ new.bad > 0 /\ new.ok = 0 => Score(new) < Score(NewRow(TRUE))
        /\ inTurn /\ new.bad > old.bad =>
             IF Jobs(old) > 0 THEN NoBetter(new, old) => Score(new) <= Score(old)
             ELSE old.rep >= 2 * Point => Score(new) <= Score(old)
        /\ inTurn /\ new.ok > old.ok =>
             IF Jobs(old) > 0 THEN NoBetter(old, new) => Score(new) >= Score(old)
             ELSE Speed(new) + Thrift(new) >= 8 * Point => Score(new) >= Score(old)

LEMMA RowStays ==
  ASSUME TypeOK, NEW p \in Procs, NEW o, RowStep(p, o), NEW w \in Registered
  PROVE  registry'[w] \in Row
<1>1. w \in Workers /\ registry[w] \in Row
  BY RegisteredRows DEF Registered, TypeOK
<1>2. ASSUME NEW v \in Workers, NEW r \in Row, registry' = [registry EXCEPT ![v] = r]
      PROVE  registry'[w] \in Row
  BY <1>1, <1>2 DEF TypeOK, TablesTyped
<1>3. QED
  BY <1>1, <1>2 DEF RowStep

LEMMA StepRecords ==
  ASSUME TypeOK, CommitteesInv, CurrentRows, Next, inTurn, NEW w \in Registered
  PROVE  registry'[w] \in Row /\ Recorded(registry[w], registry'[w])
<1>1. registry[w] \in Row
  BY RegisteredRows DEF Registered, TypeOK
<1>2. ASSUME registry' = registry
      PROVE  registry'[w] \in Row /\ Recorded(registry[w], registry'[w])
  BY <1>1, <1>2 DEF Recorded
<1>3. ASSUME NEW p \in Procs, TrustStep(p)
      PROVE  registry'[w] \in Row /\ Recorded(registry[w], registry'[w])
  <2>1. CASE InsertVerdict(p) \/ ReadRecord(p)
    BY <1>2, <2>1 DEF InsertVerdict, ReadRecord, trustTables
  <2>2. CASE \E o \in Work : RowStep(p, o)
    BY <2>2, RowWritten, RowStays
  <2>3. QED
    BY <1>3, <2>1, <2>2, StepKinds
<1>4. ASSUME (\E v \in Remote : Send(v)) \/ Tick \/ Killed
      PROVE  registry'[w] \in Row /\ Recorded(registry[w], registry'[w])
  BY <1>2, <1>4 DEF Send, Tick, Killed, trustTables
<1>5. QED
  BY <1>3, <1>4, NextCases

LEMMA StepIsRouted ==
  ASSUME TypeOK, CommitteesInv, CurrentRows, TypeOK', Next
  PROVE  Routed
<1>1. SUFFICES ASSUME NEW w \in Registered
               PROVE  LET old == registry[w]
                          new == registry'[w]
                      IN  /\ new.bad > 0 /\ new.ok = 0 => Score(new) < Score(NewRow(TRUE))
                          /\ inTurn => FailureTells(old, new) /\ SuccessTells(old, new)
  BY DEF Routed, FailureTells, SuccessTells
<1>2. PICK old, new : old = registry[w] /\ new = registry'[w]
  OBVIOUS
<1>3. old \in Row /\ new \in Row \cup {NoRow}
  BY <1>2, RegisteredRows DEF Registered, TypeOK, TablesTyped
<1>4. ASSUME new.bad > 0, new.ok = 0 PROVE Score(new) < Score(NewRow(TRUE))
  <2>1. new # NoRow
    BY <1>4 DEF NoRow
  <2>2. QED
    BY <1>3, <1>4, <2>1, OnlyFailed
<1>5. ASSUME inTurn PROVE FailureTells(old, new) /\ SuccessTells(old, new)
  <2>1. new \in Row /\ Recorded(old, new)
    BY <1>2, <1>5, StepRecords
  <2>2. QED
    BY <1>3, <2>1, RecordedScore
<1>6. QED
  BY <1>2, <1>4, <1>5

LEMMA CurrentAlways == Spec => [](TrustInv /\ OneAtATime /\ CurrentRows)
<1>1. Init => OneAtATime /\ CurrentRows
  BY IdleIsWork DEF Init, ProcInit, OneAtATime, CurrentRows
<1>2. TrustInv /\ OneAtATime /\ CurrentRows /\ [Next]_vars => OneAtATime' /\ CurrentRows'
  BY AloneKept, CurrentKept
<1>3. QED
  BY <1>1, <1>2, TrustAlways, PTL DEF Spec

(***************************************************************************)
(* A worker that has only failed scores below a newcomer, whoever writes   *)
(* its record; while processes take turns a failure raises the score that  *)
(* the router gives a worker, or a success lowers it, only through the     *)
(* averages: for every set of durations, energies and decays.              *)
(***************************************************************************)
THEOREM RoutingFollows == Spec => RoutingFollowsRecord
<1>1. TrustInv /\ CurrentRows /\ TrustInv' /\ [Next]_vars => [Routed]_vars
  BY StepIsRouted DEF TrustInv
<1>2. QED
  BY <1>1, CurrentAlways, PTL DEF Spec, RoutingFollowsRecord, Routed

====
