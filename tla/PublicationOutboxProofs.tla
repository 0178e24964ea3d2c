----------------------- MODULE PublicationOutboxProofs -----------------------
(***************************************************************************)
(* What PublicationOutbox guarantees for every set of outboxes, targets,   *)
(* workers and authorities, every retry policy, every bound and every      *)
(* clock: types and shapes, the lifecycle, delivery, single submission of  *)
(* an attempt, the refinement of DeliveryPromise, and the agreement of the *)
(* three tables.                                                           *)
(***************************************************************************)
EXTENDS PublicationOutbox, FiniteSetTheorems, WellFoundedInduction, TLAPS

-----------------------------------------------------------------------------
(* Arithmetic and the row updates, field by field.  The later proofs cite *)
(* these lemmas and never look inside the updates again.                  *)

(* A nonempty set of naturals has a least element: min() of disposition. *)
LEMMA LeastElement ==
    ASSUME NEW S \in SUBSET Nat, S # {}
    PROVE  \E m \in S : \A u \in S : m <= u
<1> DEFINE R == OpToRel(<, Nat)
<1>1. IsWellFoundedOn(R, Nat)
  BY NatLessThanWellFounded
<1>2. PICK m \in S : \A u \in S : ~(<<u, m>> \in R)
  <2> HIDE DEF R
  <2> QED
    BY <1>1, WFMin
<1>3. \A u \in S : ~(u < m)
  BY <1>2 DEF OpToRel
<1> QED
  BY <1>3

(* Clock readings are naturals, and SQL NULL is none of them. *)
LEMMA TimesFacts ==
    /\ 0 \in Times /\ Times \subseteq Nat /\ Null \notin Times
    /\ \A t \in Nat : t <= MaxTime => t \in Times
BY OutboxBounds DEF Times, Null

(* A required ordinal is one of the targets. *)
LEMMA RequiredFacts == Required \subseteq Targets /\ 0 \in Targets
BY AuthorityAssumption DEF Targets

(* The absent row and target, and their columns. *)
LEMMA NoRowFacts ==
    /\ NoRow \in Row /\ NoRow.state = "absent" /\ NoRow.revision = 0
    /\ NoRow.next = Null /\ NoRow.owner = NoOwner /\ NoRow.expires = Null
    /\ NoRow.updated = 0
<1>1. (CHOOSE a \in Authorities : TRUE) \in Authorities
  BY OutboxNames
<1> QED
  BY <1>1, TimesFacts DEF NoRow, Row, OutboxStates

(* The absent target, and its columns. *)
LEMMA NoTargetFacts ==
    /\ NoTarget \in Target /\ NoTarget.state = "pending" /\ NoTarget.revision = 0
    /\ NoTarget.count = 0 /\ NoTarget.next = Null /\ NoTarget.updated = 0
BY TimesFacts DEF NoTarget, Target, TargetStates

(* What the finalization stores. *)
LEMMA InsertedFacts ==
    ASSUME NEW t \in Times, NEW a \in Authorities
    PROVE  /\ InsertedRow(t, a) \in Row /\ InsertedTarget(t) \in Target
           /\ InsertedRow(t, a).state = "pending" /\ InsertedRow(t, a).revision = 1
           /\ InsertedRow(t, a).next = t /\ InsertedRow(t, a).owner = NoOwner
           /\ InsertedRow(t, a).expires = Null /\ InsertedRow(t, a).updated = t
           /\ InsertedRow(t, a).authority = a
           /\ InsertedTarget(t).state = "pending" /\ InsertedTarget(t).revision = 1
           /\ InsertedTarget(t).count = 0 /\ InsertedTarget(t).updated = t
           /\ InsertedTarget(t).next = t
BY DEF InsertedRow, InsertedTarget, Row, Target, OutboxStates, TargetStates

(* What a claim stores. *)
LEMMA ClaimedFacts ==
    ASSUME NEW row \in Row, NEW owner \in Owners, NEW t \in Times,
           t + AttemptDeadline <= MaxTime
    PROVE  LET new == ClaimedRow(row, owner, t)
           IN  /\ new \in Row /\ new.state = "leased"
               /\ new.revision = row.revision + 1 /\ new.next = Null
               /\ new.owner = owner /\ new.expires = t + AttemptDeadline
               /\ new.updated = t /\ new.authority = row.authority
<1> DEFINE r == row.revision + 1
           e == t + AttemptDeadline
           new == ClaimedRow(row, owner, t)
<1>1. r \in Nat
  BY DEF Row
<1>2. e \in Times
  BY AuthorityAssumption, OutboxBounds DEF Times
<1>3. new = [row EXCEPT !.state = "leased", !.revision = r, !.next = Null,
                        !.owner = owner, !.expires = e, !.updated = t]
  BY DEF ClaimedRow
<1> HIDE DEF r, e, new
<1>4. /\ new \in Row /\ new.state = "leased" /\ new.revision = r /\ new.next = Null
      /\ new.owner = owner /\ new.expires = e /\ new.updated = t
      /\ new.authority = row.authority
  BY <1>1, <1>2, <1>3 DEF Row, OutboxStates
<1> QED
  BY <1>4 DEF r, e, new

(* What an attempt or a recovery leaves of the outbox row. *)
LEMMA ReleasedFacts ==
    ASSUME NEW row \in Row, NEW t \in Times, NEW d,
           d.state \in OutboxStates, d.next \in Times \cup {Null}
    PROVE  LET new == ReleasedRow(row, d, t)
           IN  /\ new \in Row /\ new.state = d.state
               /\ new.revision = row.revision + 1 /\ new.next = d.next
               /\ new.owner = NoOwner /\ new.expires = Null
               /\ new.updated = t /\ new.authority = row.authority
<1> DEFINE r == row.revision + 1
           s == d.state
           n == d.next
           new == ReleasedRow(row, d, t)
<1>1. r \in Nat /\ s \in OutboxStates /\ n \in Times \cup {Null}
  BY DEF Row
<1>2. new = [row EXCEPT !.state = s, !.revision = r, !.next = n,
                        !.owner = NoOwner, !.expires = Null, !.updated = t]
  BY DEF ReleasedRow
<1> HIDE DEF r, s, n, new
<1>3. /\ new \in Row /\ new.state = s /\ new.revision = r /\ new.next = n
      /\ new.owner = NoOwner /\ new.expires = Null /\ new.updated = t
      /\ new.authority = row.authority
  BY <1>1, <1>2 DEF Row
<1> QED
  BY <1>3 DEF r, s, n, new

(* What the operator's retry stores. *)
LEMMA ReopenedRowFacts ==
    ASSUME NEW row \in Row, NEW t \in Times
    PROVE  LET new == ReopenedRow(row, t)
           IN  /\ new \in Row /\ new.state = "pending"
               /\ new.revision = row.revision + 1 /\ new.next = t
               /\ new.owner = row.owner /\ new.expires = row.expires
               /\ new.updated = t /\ new.authority = row.authority
<1> DEFINE r == row.revision + 1
           new == ReopenedRow(row, t)
<1>1. r \in Nat
  BY DEF Row
<1>2. new = [row EXCEPT !.state = "pending", !.revision = r, !.next = t, !.updated = t]
  BY DEF ReopenedRow
<1> HIDE DEF r, new
<1>3. /\ new \in Row /\ new.state = "pending" /\ new.revision = r /\ new.next = t
      /\ new.owner = row.owner /\ new.expires = row.expires /\ new.updated = t
      /\ new.authority = row.authority
  BY <1>1, <1>2 DEF Row, OutboxStates
<1> QED
  BY <1>3 DEF r, new

(* What prepare_next stores. *)
LEMMA SubmittedFacts ==
    ASSUME NEW e \in Target, NEW t \in Times
    PROVE  LET new == SubmittedTarget(e, t)
           IN  /\ new \in Target /\ new.state = "submitted"
               /\ new.revision = e.revision + 1 /\ new.count = e.count + 1
               /\ new.next = Null /\ new.updated = t
<1> DEFINE r == e.revision + 1
           c == e.count + 1
           new == SubmittedTarget(e, t)
<1>1. r \in Nat /\ c \in Nat
  BY DEF Target
<1>2. new = [e EXCEPT !.state = "submitted", !.revision = r, !.count = c,
                      !.next = Null, !.updated = t]
  BY DEF SubmittedTarget
<1> HIDE DEF r, c, new
<1>3. /\ new \in Target /\ new.state = "submitted" /\ new.revision = r
      /\ new.count = c /\ new.next = Null /\ new.updated = t
  BY <1>1, <1>2 DEF Target, TargetStates
<1> QED
  BY <1>3 DEF r, c, new

(* What UPDATE_TARGET_OUTCOME_SQL stores. *)
LEMMA ConcludedFacts ==
    ASSUME NEW e \in Target, NEW outcome \in AllOutcomes,
           NEW n \in Times \cup {Null}, NEW t \in Times
    PROVE  LET new == ConcludedTarget(e, outcome, n, t)
           IN  /\ new \in Target /\ new.state = outcome
               /\ new.revision = e.revision + 1 /\ new.count = e.count
               /\ new.next = n /\ new.updated = t
<1> DEFINE r == e.revision + 1
           new == ConcludedTarget(e, outcome, n, t)
<1>1. r \in Nat
  BY DEF Target
<1>2. new = [e EXCEPT !.state = outcome, !.revision = r, !.next = n, !.updated = t]
  BY DEF ConcludedTarget
<1> HIDE DEF r, new
<1>3. /\ new \in Target /\ new.state = outcome /\ new.revision = r
      /\ new.count = e.count /\ new.next = n /\ new.updated = t
  BY <1>1, <1>2 DEF Target, AllOutcomes
<1> QED
  BY <1>3 DEF r, new

(* What the operator's retry makes of a target. *)
LEMMA ReopenedTargetFacts ==
    ASSUME NEW e \in Target, NEW t \in Times
    PROVE  LET new == ReopenedTarget(e, t)
           IN  /\ new \in Target
               /\ e.state = "accepted" => new = e
               /\ e.state # "accepted" =>
                    /\ new.state = "pending" /\ new.revision = e.revision + 1
                    /\ new.count = e.count /\ new.next = t /\ new.updated = t
<1> DEFINE r == e.revision + 1
           new == ReopenedTarget(e, t)
<1>1. r \in Nat
  BY DEF Target
<1>2. new = IF e.state = "accepted" THEN e
            ELSE [e EXCEPT !.state = "pending", !.revision = r, !.next = t, !.updated = t]
  BY DEF ReopenedTarget
<1> HIDE DEF r, new
<1>3. /\ new \in Target
      /\ e.state = "accepted" => new = e
      /\ e.state # "accepted" =>
           /\ new.state = "pending" /\ new.revision = r
           /\ new.count = e.count /\ new.next = t /\ new.updated = t
  BY <1>1, <1>2 DEF Target, TargetStates
<1> QED
  BY <1>3 DEF r, new

(* An admitted schedule is a clock reading, or none. *)
LEMMA NextAttemptType ==
    ASSUME NEW number, NEW outcome, NEW t \in Times, NEW delay \in Nat,
           Schedulable(number, outcome, t, delay)
    PROVE  NextAttempt(number, outcome, t, delay) \in Times \cup {Null}
<1>1. CASE RetryableOutcome(outcome) /\ number < MaxAttempts
  BY <1>1, TimesFacts DEF NextAttempt, Schedulable
<1> QED
  BY <1>1 DEF NextAttempt

(* A disposition is a state with a schedule exactly when it is pending, and *)
(* complete exactly when every required target accepted.                    *)
LEMMA DispositionFacts ==
    ASSUME NEW ts \in [Targets -> Target], HasDisposition(ts)
    PROVE  LET d == Disposition(ts)
           IN  /\ d.state \in {"pending", "blocked", "complete"}
               /\ d.next \in Times \cup {Null}
               /\ d.state = "pending" <=> d.next # Null
               /\ d.state = "complete" <=> AllRequired(ts)
<1>1. CASE AllRequired(ts)
  <2>1. Disposition(ts) = [state |-> "complete", next |-> Null]
    BY <1>1 DEF Disposition
  <2> QED
    BY <1>1, <2>1
<1>2. CASE ~AllRequired(ts) /\ \E r \in Required : TargetIsBlocking(ts[r])
  <2>1. Disposition(ts) = [state |-> "blocked", next |-> Null]
    BY <1>2 DEF Disposition
  <2> QED
    BY <1>2, <2>1
<1>3. CASE ~AllRequired(ts) /\ ~ \E r \in Required : TargetIsBlocking(ts[r])
  <2>1. Schedules(ts) # {}
    BY <1>3 DEF HasDisposition
  <2>2. Schedules(ts) \subseteq Times
    <3>1. \A r \in Required : ts[r].next \in Times \cup {Null}
      BY RequiredFacts DEF Target
    <3> QED
      BY <3>1 DEF Schedules
  <2>3. Schedules(ts) \in SUBSET Nat
    BY <2>2, TimesFacts
  <2>4. \E m \in Schedules(ts) : \A u \in Schedules(ts) : m <= u
    BY <2>1, <2>3, LeastElement
  <2>5. DEFINE n == CHOOSE t \in Schedules(ts) : \A u \in Schedules(ts) : t <= u
  <2>6. n \in Times
    BY <2>2, <2>4
  <2>7. Disposition(ts) = [state |-> "pending", next |-> n]
    BY <1>3 DEF Disposition
  <2> HIDE DEF n
  <2> QED
    BY <1>3, <2>6, <2>7, TimesFacts
<1> QED
  BY <1>1, <1>2, <1>3

-----------------------------------------------------------------------------
(* Types *)

(* The parts of OutboxTypeOK. *)
TablesType ==
    /\ rows \in [Outboxes -> Row]
    /\ targets \in [Outboxes -> [Targets -> Target]]
    /\ attempts \subseteq Attempt

WorkersType ==
    /\ wrk \in [Workers -> Worker]
    /\ \A w \in Workers :
         /\ wrk[w].pc \in {"recover", "prepare", "submit", "record"} => wrk[w].held # None
         /\ wrk[w].pc = "record" => wrk[w].answer # None

RowShape(row) ==
    /\ row.state = "leased" <=> row.owner # NoOwner
    /\ row.state = "leased" <=> row.expires # Null
    /\ row.state = "pending" <=> row.next # Null

RowShapes == \A o \in Outboxes : RowShape(rows[o])

HistoryType ==
    /\ relay \subseteq Outboxes \X Targets
    /\ sent \subseteq Outboxes \X Targets \X Nat
    /\ retries \in 0 .. MaxRetries

(* OutboxTypeOK is the conjunction of its parts. *)
LEMMA TypeParts ==
    OutboxTypeOK <=> TablesType /\ WorkersType /\ RowShapes /\ HistoryType
BY DEF OutboxTypeOK, TablesType, WorkersType, RowShape, RowShapes, HistoryType

(* The same of the next state. *)
LEMMA NextTypeParts ==
    ASSUME TablesType', WorkersType', RowShapes', HistoryType'
    PROVE  OutboxTypeOK'
BY DEF OutboxTypeOK, TablesType, WorkersType, RowShape, RowShapes, HistoryType

(* A worker that holds something holds an outbox, and a row. *)
LEMMA WorkerFacts ==
    ASSUME OutboxTypeOK, NEW w \in Workers
    PROVE  /\ wrk[w] \in Worker /\ wrk[w].now \in Times /\ wrk[w].owner \in Owners
           /\ wrk[w].row \in Row /\ wrk[w].delay \in Nat /\ wrk[w].target \in Targets
           /\ wrk[w].entry \in Target /\ wrk[w].authority \in Authorities
           /\ wrk[w].pc \in {"recover", "prepare", "submit", "record"} =>
                wrk[w].held \in Outboxes
           /\ wrk[w].pc = "record" => wrk[w].answer \in AllOutcomes
BY DEF OutboxTypeOK, Worker

(* A worker at rest is a worker, and holds nothing. *)
LEMMA RestingFacts ==
    ASSUME NEW pc \in {"idle", "claim", "failed", "crashed"}, NEW owner \in Owners,
           NEW a \in Authorities
    PROVE  Resting(pc, owner, a) \in Worker /\ Resting(pc, owner, a).pc = pc
BY NoRowFacts, NoTargetFacts, RequiredFacts, TimesFacts DEF Resting, Worker

(* A worker's step to rest keeps the types of the workers. *)
LEMMA RestingStep ==
    ASSUME OutboxTypeOK, NEW w \in Workers, NEW x \in Worker,
           x.pc \in {"idle", "claim", "failed", "crashed"},
           wrk' = [wrk EXCEPT ![w] = x]
    PROVE  WorkersType'
<1>1. wrk' \in [Workers -> Worker] /\ wrk'[w] = x
      /\ \A v \in Workers : v # w => wrk'[v] = wrk[v]
  BY DEF OutboxTypeOK
<1> QED
  BY <1>1 DEF OutboxTypeOK, WorkersType

(* A worker's step within a pass keeps the types of the workers. *)
LEMMA PassStep ==
    ASSUME OutboxTypeOK, NEW w \in Workers, NEW x \in Worker,
           x.held # None, x.pc = "record" => x.answer # None,
           wrk' = [wrk EXCEPT ![w] = x]
    PROVE  WorkersType'
<1>1. wrk' \in [Workers -> Worker] /\ wrk'[w] = x
      /\ \A v \in Workers : v # w => wrk'[v] = wrk[v]
  BY DEF OutboxTypeOK
<1> QED
  BY <1>1 DEF OutboxTypeOK, WorkersType

(* Nothing but workers moves. *)
LEMMA OnlyWorkers ==
    ASSUME OutboxTypeOK, UNCHANGED <<tables, relay, sent, retries>>, WorkersType'
    PROVE  OutboxTypeOK'
<1>1. TablesType' /\ RowShapes' /\ HistoryType'
  BY TypeParts DEF tables, TablesType, RowShapes, RowShape, HistoryType
<1> QED
  BY <1>1, NextTypeParts

(* The steps that write nothing. *)
LEMMA QuietTypes ==
    ASSUME OutboxTypeOK, NEW w \in Workers,
           \/ \E t \in Times : BeginNothingExpired(w, t)
           \/ \E t \in Times, o \in Outboxes : BeginRecovery(w, t, o)
           \/ \E t \in Times, o \in Outboxes : BeginRefused(w, t, o)
           \/ RecoverRefused(w) \/ ClaimNothing(w)
           \/ \E o \in Outboxes : ClaimRefused(w, o)
           \/ PrepareRefused(w)
           \/ \E t \in Times, delay \in 0 .. MaximumBackoff : RecordReconciled(w, t, delay)
           \/ \E t \in Times, delay \in 0 .. MaximumBackoff : RecordRefused(w, t, delay)
           \/ Crash(w)
           \/ \E owner \in Owners, a \in Authorities : Start(w, owner, a)
    PROVE  OutboxTypeOK' /\ UNCHANGED <<tables, relay, sent, retries>>
<1>1. UNCHANGED <<tables, relay, sent, retries>>
  BY DEF BeginNothingExpired, BeginRecovery, BeginRefused, RecoverRefused, ClaimNothing,
         ClaimRefused, PrepareRefused, RecordReconciled, RecordRefused, Crash, Start
<1>2. ASSUME NEW t \in Times, BeginNothingExpired(w, t)
      PROVE  WorkersType'
  <2> DEFINE x == [wrk[w] EXCEPT !.pc = "claim", !.now = t]
  <2>1. wrk' = [wrk EXCEPT ![w] = x]
    BY <1>2, WorkerFacts DEF BeginNothingExpired, OutboxTypeOK
  <2>2. x \in Worker /\ x.pc = "claim"
    BY WorkerFacts DEF Worker
  <2> HIDE DEF x
  <2> QED
    BY <2>1, <2>2, RestingStep
<1>3. ASSUME NEW t \in Times, NEW o \in Outboxes, BeginRecovery(w, t, o)
      PROVE  WorkersType'
  <2>1. PICK delay \in 0 .. RecoveryCap(o) :
          wrk' = [wrk EXCEPT ![w].pc = "recover", ![w].now = t, ![w].held = o,
                             ![w].row = rows[o], ![w].delay = delay]
    BY <1>3 DEF BeginRecovery
  <2>2. delay \in Nat /\ rows[o] \in Row /\ o # None
    BY OutboxNames DEF OutboxTypeOK
  <2> DEFINE x == [wrk[w] EXCEPT !.pc = "recover", !.now = t, !.held = o,
                                 !.row = rows[o], !.delay = delay]
  <2>3. wrk' = [wrk EXCEPT ![w] = x]
    BY <2>1, WorkerFacts DEF OutboxTypeOK
  <2>4. x \in Worker /\ x.pc = "recover" /\ x.held # None
    BY <2>2, WorkerFacts DEF Worker
  <2> HIDE DEF x
  <2> QED
    BY <2>3, <2>4, PassStep
<1>4. ASSUME \/ wrk' = [wrk EXCEPT ![w] = Failed(w)]
             \/ wrk' = [wrk EXCEPT ![w] = Idle(w)]
             \/ wrk' = [wrk EXCEPT ![w] = Resting("crashed", wrk[w].owner, wrk[w].authority)]
             \/ \E owner \in Owners, a \in Authorities :
                  wrk' = [wrk EXCEPT ![w] = Resting("idle", owner, a)]
      PROVE  WorkersType'
  <2>1. \A pc \in {"idle", "failed", "crashed"}, owner \in Owners, a \in Authorities :
          Resting(pc, owner, a) \in Worker /\ Resting(pc, owner, a).pc = pc
    BY RestingFacts
  <2>2. wrk[w].owner \in Owners /\ wrk[w].authority \in Authorities
    BY WorkerFacts
  <2>3. PICK pc \in {"idle", "failed", "crashed"}, owner \in Owners, a \in Authorities :
          wrk' = [wrk EXCEPT ![w] = Resting(pc, owner, a)]
    BY <1>4, <2>2 DEF Failed, Idle
  <2> DEFINE x == Resting(pc, owner, a)
  <2>4. x \in Worker /\ x.pc = pc /\ wrk' = [wrk EXCEPT ![w] = x]
    BY <2>1, <2>3
  <2> HIDE DEF x
  <2> QED
    BY <2>4, RestingStep
<1>5. WorkersType'
  BY <1>2, <1>3, <1>4
     DEF BeginRefused, RecoverRefused, ClaimNothing, ClaimRefused, PrepareRefused,
         RecordReconciled, RecordRefused, Crash, Start
<1> QED
  BY <1>1, <1>5, OnlyWorkers

(* A finalization inserts well-typed rows. *)
LEMMA InsertTypes ==
    ASSUME OutboxTypeOK, NEW o \in Outboxes, NEW t \in Times, NEW a \in Authorities,
           Insert(o, t, a)
    PROVE  OutboxTypeOK'
<1>1. RowShape(InsertedRow(t, a))
  BY InsertedFacts, TimesFacts DEF RowShape
<1>2. TablesType' /\ RowShapes'
  <2>1. rows' \in [Outboxes -> Row] /\ rows'[o] = InsertedRow(t, a)
        /\ \A p \in Outboxes : p # o => rows'[p] = rows[p]
    BY InsertedFacts DEF Insert, OutboxTypeOK
  <2>2. targets' \in [Outboxes -> [Targets -> Target]]
    <3>1. [r \in Targets |-> InsertedTarget(t)] \in [Targets -> Target]
      BY InsertedFacts
    <3> QED
      BY <3>1 DEF Insert, OutboxTypeOK
  <2> QED
    BY <1>1, <2>1, <2>2, TypeParts DEF Insert, TablesType, RowShapes
<1>3. WorkersType' /\ HistoryType'
  BY TypeParts DEF Insert, WorkersType, HistoryType
<1> QED
  BY <1>2, <1>3, NextTypeParts

(* A claim leases a well-typed row. *)
LEMMA ClaimTypes ==
    ASSUME OutboxTypeOK, NEW w \in Workers, NEW o \in Outboxes, Claim(w, o)
    PROVE  /\ OutboxTypeOK'
           /\ rows'[o] = ClaimedRow(rows[o], wrk[w].owner, wrk[w].now)
           /\ \A p \in Outboxes : p # o => rows'[p] = rows[p]
<1> DEFINE new == ClaimedRow(rows[o], wrk[w].owner, wrk[w].now)
<1>1. rows[o] \in Row /\ wrk[w].owner \in Owners /\ wrk[w].now \in Times
  BY WorkerFacts DEF OutboxTypeOK
<1>2. /\ new \in Row /\ new.state = "leased" /\ new.next = Null
      /\ new.owner = wrk[w].owner /\ new.expires = wrk[w].now + AttemptDeadline
  BY <1>1, ClaimedFacts DEF Claim, ClaimAdmissible
<1>3. RowShape(new)
  <2>1. new.owner # NoOwner /\ new.expires # Null
    BY <1>1, <1>2, OutboxNames, AuthorityAssumption, OutboxBounds DEF Times, Null
  <2> QED
    BY <1>2, <2>1 DEF RowShape
<1>4. rows' = [rows EXCEPT ![o] = new]
  BY DEF Claim
<1>5. wrk' = [wrk EXCEPT ![w].pc = "prepare", ![w].held = o, ![w].row = rows'[o]]
  BY DEF Claim
<1> HIDE DEF new
<1>6. rows' \in [Outboxes -> Row] /\ rows'[o] = new
      /\ \A p \in Outboxes : p # o => rows'[p] = rows[p]
  BY <1>2, <1>4 DEF OutboxTypeOK
<1>7. TablesType' /\ RowShapes'
  BY <1>3, <1>6, TypeParts DEF Claim, TablesType, RowShapes
<1>8. WorkersType'
  <2> DEFINE x == [wrk[w] EXCEPT !.pc = "prepare", !.held = o, !.row = new]
  <2>1. wrk' = [wrk EXCEPT ![w] = x]
    BY <1>5, <1>6, WorkerFacts DEF OutboxTypeOK
  <2>2. x \in Worker /\ x.held # None /\ x.pc = "prepare"
    BY <1>2, WorkerFacts, OutboxNames DEF Worker
  <2> HIDE DEF x
  <2> QED
    BY <2>1, <2>2, PassStep
<1>9. HistoryType'
  BY TypeParts DEF Claim, HistoryType
<1> QED
  BY <1>6, <1>7, <1>8, <1>9, NextTypeParts DEF new

(* prepare_next submits one well-typed target. *)
LEMMA PrepareTypes ==
    ASSUME OutboxTypeOK, NEW w \in Workers, NEW r \in Targets, Prepare(w, r)
    PROVE  LET o == wrk[w].held
           IN  /\ OutboxTypeOK' /\ o \in Outboxes
               /\ targets'[o][r] = SubmittedTarget(targets[o][r], wrk[w].now)
               /\ \A p \in Outboxes, q \in Targets :
                    <<p, q>> # <<o, r>> => targets'[p][q] = targets[p][q]
<1> DEFINE o == wrk[w].held
           new == SubmittedTarget(targets[o][r], wrk[w].now)
<1>1. o \in Outboxes /\ wrk[w].now \in Times
  BY WorkerFacts DEF Prepare
<1>2. targets[o][r] \in Target
  BY <1>1 DEF OutboxTypeOK
<1>3. new \in Target
  BY <1>1, <1>2, SubmittedFacts
<1>4. targets' = [targets EXCEPT ![o][r] = new]
  BY DEF Prepare
<1>5. wrk' = [wrk EXCEPT ![w].pc = "submit", ![w].target = r, ![w].entry = targets'[o][r]]
  BY DEF Prepare
<1> HIDE DEF new
<1>6. /\ targets' \in [Outboxes -> [Targets -> Target]] /\ targets'[o][r] = new
      /\ \A p \in Outboxes, q \in Targets :
           <<p, q>> # <<o, r>> => targets'[p][q] = targets[p][q]
  BY <1>1, <1>3, <1>4 DEF OutboxTypeOK
<1>7. TablesType' /\ RowShapes' /\ HistoryType'
  BY <1>6, TypeParts DEF Prepare, TablesType, RowShapes, HistoryType
<1>8. WorkersType'
  <2> DEFINE x == [wrk[w] EXCEPT !.pc = "submit", !.target = r, !.entry = new]
  <2>1. wrk' = [wrk EXCEPT ![w] = x]
    BY <1>5, <1>6, WorkerFacts DEF OutboxTypeOK
  <2>2. x \in Worker /\ x.pc = "submit" /\ x.held = o
    BY <1>3, WorkerFacts DEF Worker
  <2>3. x.held # None
    BY <1>1, <2>2, OutboxNames
  <2> HIDE DEF x
  <2> QED
    BY <2>1, <2>2, <2>3, PassStep
<1> QED
  BY <1>1, <1>6, <1>7, <1>8, NextTypeParts DEF new

(* An answer is one of the sink's. *)
LEMMA SubmitTypes ==
    ASSUME OutboxTypeOK, NEW w \in Workers, NEW answer \in Outcomes, NEW kept \in BOOLEAN,
           Submit(w, answer, kept)
    PROVE  OutboxTypeOK'
<1>1. /\ wrk[w].held \in Outboxes /\ wrk[w].target \in Targets
      /\ wrk[w].entry.count \in Nat
  BY WorkerFacts DEF Submit, Target
<1>2. answer \in AllOutcomes /\ answer # None
  BY OutboxNames DEF AllOutcomes, TargetStates, None
<1>3. WorkersType'
  <2> DEFINE x == [wrk[w] EXCEPT !.pc = "record", !.answer = answer]
  <2>1. wrk' = [wrk EXCEPT ![w] = x]
    BY WorkerFacts DEF Submit, OutboxTypeOK
  <2>2. x \in Worker /\ x.answer = answer /\ x.held = wrk[w].held
    BY <1>2, WorkerFacts DEF Worker
  <2>3. x.held # None
    BY <1>1, <2>2, OutboxNames
  <2> HIDE DEF x
  <2> QED
    BY <1>2, <2>1, <2>2, <2>3, PassStep
<1>4. TablesType' /\ RowShapes' /\ retries' \in 0 .. MaxRetries
  BY TypeParts DEF Submit, tables, TablesType, RowShapes, RowShape, HistoryType
<1>5. relay' \subseteq Outboxes \X Targets
  BY <1>1 DEF Submit, OutboxTypeOK
<1>6. sent' \subseteq Outboxes \X Targets \X Nat
  BY <1>1 DEF Submit, OutboxTypeOK
<1> QED
  BY <1>3, <1>4, <1>5, <1>6, NextTypeParts DEF HistoryType

(* What a release leaves of the tables: a released row under the disposition *)
(* of the new targets.                                                       *)
LEMMA ReleaseTypes ==
    ASSUME OutboxTypeOK, NEW o \in Outboxes, NEW t \in Times,
           NEW ts \in [Targets -> Target], HasDisposition(ts),
           targets' = [targets EXCEPT ![o] = ts],
           rows' = [rows EXCEPT ![o] = ReleasedRow(rows[o], Disposition(ts), t)],
           attempts' \subseteq Attempt
    PROVE  /\ TablesType' /\ RowShapes'
           /\ rows'[o].state = Disposition(ts).state
           /\ rows'[o].next = Disposition(ts).next
           /\ rows'[o].revision = rows[o].revision + 1
           /\ rows'[o].updated = t /\ rows'[o].authority = rows[o].authority
           /\ targets'[o] = ts
           /\ \A p \in Outboxes : p # o => rows'[p] = rows[p] /\ targets'[p] = targets[p]
<1> DEFINE d == Disposition(ts)
           new == ReleasedRow(rows[o], d, t)
<1>1. /\ d.state \in OutboxStates /\ d.state # "leased"
      /\ d.next \in Times \cup {Null}
      /\ d.state = "pending" <=> d.next # Null
  BY DispositionFacts DEF OutboxStates
<1> HIDE DEF d
<1>2. /\ new \in Row /\ new.state = d.state /\ new.next = d.next
      /\ new.revision = rows[o].revision + 1
      /\ new.owner = NoOwner /\ new.expires = Null
      /\ new.updated = t /\ new.authority = rows[o].authority
  <2>1. rows[o] \in Row
    BY DEF OutboxTypeOK
  <2> QED
    BY <1>1, <2>1, ReleasedFacts
<1>3. RowShape(new)
  BY <1>1, <1>2 DEF RowShape
<1>4. rows' = [rows EXCEPT ![o] = new]
  BY DEF d
<1> HIDE DEF new
<1>5. /\ rows' \in [Outboxes -> Row] /\ rows'[o] = new
      /\ \A p \in Outboxes : p # o => rows'[p] = rows[p]
  BY <1>2, <1>4 DEF OutboxTypeOK
<1>6. /\ targets' \in [Outboxes -> [Targets -> Target]] /\ targets'[o] = ts
      /\ \A p \in Outboxes : p # o => targets'[p] = targets[p]
  BY DEF OutboxTypeOK
<1>7. TablesType' /\ RowShapes'
  BY <1>3, <1>5, <1>6, TypeParts DEF TablesType, RowShapes
<1> QED
  BY <1>2, <1>5, <1>6, <1>7 DEF d

(* An attempt row is one of publication_attempts. *)
LEMMA AttemptType ==
    ASSUME OutboxTypeOK, NEW o \in Outboxes, NEW r \in Targets, NEW owner \in Owners,
           NEW t \in Times, NEW outcome \in AllOutcomes
    PROVE  AttemptRow(o, r, owner, t, outcome) \in Attempt
<1>1. targets[o][r].count \in Nat /\ targets[o][r].updated \in Times
  BY DEF OutboxTypeOK, Target
<1> QED
  BY <1>1 DEF AttemptRow, Attempt

(* The recovered targets are typed, and only the submitted ones moved: they *)
(* concluded as unknown.                                                    *)
LEMMA RecoveredFacts ==
    ASSUME OutboxTypeOK, NEW w \in Workers, wrk[w].pc = "recover", Recoverable(w)
    PROVE  LET o == wrk[w].held
               ts == RecoveredTargets(o, wrk[w].now, wrk[w].delay)
           IN  /\ o \in Outboxes /\ ts \in [Targets -> Target]
               /\ \A r \in Targets \ Submitted(o) : ts[r] = targets[o][r]
               /\ \A r \in Submitted(o) :
                    /\ ts[r].state = "unknown" /\ ts[r].count = targets[o][r].count
                    /\ ts[r].revision = targets[o][r].revision + 1
                    /\ ts[r].updated = wrk[w].now
                    /\ ts[r].updated >= targets[o][r].updated
                    /\ ts[r].next # Null => ts[r].count < MaxAttempts
<1> DEFINE o == wrk[w].held
           t == wrk[w].now
           n(r) == NextAttempt(targets[o][r].count, "unknown", t, wrk[w].delay)
           ts == RecoveredTargets(o, t, wrk[w].delay)
<1>1. o \in Outboxes /\ t \in Times /\ wrk[w].delay \in Nat
  BY WorkerFacts
<1>2. \A r \in Targets : targets[o][r] \in Target
  BY <1>1 DEF OutboxTypeOK
<1>3. \A r \in Submitted(o) : r \in Targets /\ n(r) \in Times \cup {Null}
  BY <1>1, NextAttemptType DEF Recoverable, Submitted
<1>4. ts = [r \in Targets |->
              IF r \in Submitted(o) THEN ConcludedTarget(targets[o][r], "unknown", n(r), t)
              ELSE targets[o][r]]
  BY DEF RecoveredTargets
<1>5. \A r \in Submitted(o) : t >= targets[o][r].updated
  BY <1>1, <1>2 DEF Recoverable, Submitted, Target, Times
<1>a. \A r \in Submitted(o) : n(r) # Null => targets[o][r].count < MaxAttempts
  BY DEF NextAttempt
<1> HIDE DEF n, ts
<1>6. "unknown" \in AllOutcomes
  BY DEF AllOutcomes, TargetStates
<1>7. ASSUME NEW r \in Submitted(o)
      PROVE  LET c == ConcludedTarget(targets[o][r], "unknown", n(r), t)
             IN  /\ c \in Target /\ c.state = "unknown" /\ c.count = targets[o][r].count
                 /\ c.revision = targets[o][r].revision + 1 /\ c.updated = t
                 /\ c.next = n(r)
  <2> DEFINE e == targets[o][r]
             m == n(r)
  <2>1. e \in Target /\ m \in Times \cup {Null}
    BY <1>2, <1>3, <1>7
  <2> HIDE DEF e, m
  <2>2. LET c == ConcludedTarget(e, "unknown", m, t)
        IN  /\ c \in Target /\ c.state = "unknown" /\ c.count = e.count
            /\ c.revision = e.revision + 1 /\ c.updated = t /\ c.next = m
    BY <1>1, <1>6, <2>1, ConcludedFacts
  <2> QED
    BY <2>2 DEF e, m
<1>8. ts \in [Targets -> Target]
  BY <1>2, <1>4, <1>7
<1>9. /\ \A r \in Targets \ Submitted(o) : ts[r] = targets[o][r]
      /\ \A r \in Submitted(o) :
           ts[r] = ConcludedTarget(targets[o][r], "unknown", n(r), t)
  BY <1>3, <1>4
<1> QED
  BY <1>1, <1>5, <1>a, <1>7, <1>8, <1>9 DEF ts

(* The targets after a recorded answer are typed, and only the submitted one *)
(* moved: it concluded with the answer.                                      *)
LEMMA AnsweredFacts ==
    ASSUME OutboxTypeOK, NEW w \in Workers, NEW t \in Times, NEW delay \in Nat,
           wrk[w].pc = "record", Recordable(w, t, delay)
    PROVE  LET o == wrk[w].held
               r == wrk[w].target
               ts == TargetsAfter(w, t, delay)
           IN  /\ o \in Outboxes /\ r \in Targets /\ ts \in [Targets -> Target]
               /\ \A q \in Targets \ {r} : ts[q] = targets[o][q]
               /\ targets[o][r] = wrk[w].entry /\ r \in Submitted(o)
               /\ wrk[w].answer \in AllOutcomes
               /\ ts[r].state = wrk[w].answer /\ ts[r].count = targets[o][r].count
               /\ ts[r].revision = targets[o][r].revision + 1
               /\ ts[r].updated = t /\ t >= targets[o][r].updated
               /\ ts[r].next # Null =>
                    RetryableOutcome(wrk[w].answer) /\ ts[r].count < MaxAttempts
<1> DEFINE o == wrk[w].held
           r == wrk[w].target
           n == NextAttempt(wrk[w].entry.count, wrk[w].answer, t, delay)
           c == ConcludedTarget(targets[o][r], wrk[w].answer, n, t)
           ts == TargetsAfter(w, t, delay)
<1>1. /\ o \in Outboxes /\ r \in Targets /\ wrk[w].answer \in AllOutcomes
      /\ wrk[w].now \in Times
  BY WorkerFacts
<1>2. targets[o] \in [Targets -> Target] /\ targets[o][r] \in Target
  BY <1>1 DEF OutboxTypeOK
<1>3. n \in Times \cup {Null}
  BY NextAttemptType DEF Recordable
<1>4. ts = [targets[o] EXCEPT ![r] = c]
  BY DEF TargetsAfter
<1>5. /\ c \in Target /\ c.state = wrk[w].answer /\ c.count = targets[o][r].count
      /\ c.revision = targets[o][r].revision + 1 /\ c.updated = t /\ c.next = n
  <2> DEFINE e == targets[o][r]
             answer == wrk[w].answer
  <2>1. e \in Target /\ answer \in AllOutcomes
    BY <1>1, <1>2
  <2> HIDE DEF n, e, answer
  <2>2. LET d == ConcludedTarget(e, answer, n, t)
        IN  /\ d \in Target /\ d.state = answer /\ d.revision = e.revision + 1
            /\ d.count = e.count /\ d.updated = t /\ d.next = n
    BY <1>3, <2>1, ConcludedFacts
  <2> QED
    BY <2>2 DEF e, answer
<1>6. /\ targets[o][r] = wrk[w].entry /\ targets[o][r].state = "submitted"
      /\ targets[o][r].updated = wrk[w].now
  BY DEF Recordable, PreparedTarget
<1>7. t >= targets[o][r].updated
  BY <1>1, <1>6 DEF Recordable, Times
<1>8. r \in Submitted(o)
  BY <1>1, <1>6 DEF Submitted
<1>a. n # Null => RetryableOutcome(wrk[w].answer) /\ targets[o][r].count < MaxAttempts
  BY <1>6 DEF NextAttempt
<1> HIDE DEF n, c, ts
<1>9. /\ ts \in [Targets -> Target] /\ ts[r] = c
      /\ \A q \in Targets \ {r} : ts[q] = targets[o][q]
  BY <1>1, <1>2, <1>4, <1>5
<1> QED
  BY <1>1, <1>5, <1>6, <1>7, <1>8, <1>9, <1>a DEF ts

(* A recovery's tables. *)
LEMMA RecoverTypes ==
    ASSUME OutboxTypeOK, NEW w \in Workers, Recover(w)
    PROVE  LET o == wrk[w].held
               ts == RecoveredTargets(o, wrk[w].now, wrk[w].delay)
           IN  /\ OutboxTypeOK' /\ o \in Outboxes
               /\ ts \in [Targets -> Target] /\ HasDisposition(ts)
               /\ rows[o].state = "leased" /\ rows[o].updated <= wrk[w].now
               /\ rows'[o].state = Disposition(ts).state
               /\ rows'[o].next = Disposition(ts).next
               /\ rows'[o].revision = rows[o].revision + 1
               /\ rows'[o].updated = wrk[w].now
               /\ rows'[o].authority = rows[o].authority
               /\ targets'[o] = ts
               /\ \A p \in Outboxes : p # o => rows'[p] = rows[p] /\ targets'[p] = targets[p]
<1> DEFINE o == wrk[w].held
           t == wrk[w].now
           ts == RecoveredTargets(o, t, wrk[w].delay)
<1>1. wrk[w].pc = "recover" /\ Recoverable(w)
  BY DEF Recover
<1>2. o \in Outboxes /\ t \in Times /\ ts \in [Targets -> Target]
  BY <1>1, RecoveredFacts, WorkerFacts
<1>3. /\ HasDisposition(ts) /\ rows[o].state = "leased" /\ rows[o].updated <= t
  BY <1>1 DEF Recoverable
<1>4. rows[o].owner \in Owners
  BY <1>2, <1>3 DEF OutboxTypeOK, Row
<1>5. attempts' \subseteq Attempt
  <2>1. \A r \in Submitted(o) : AttemptRow(o, r, rows[o].owner, t, "unknown") \in Attempt
    BY <1>2, <1>4, AttemptType DEF Submitted, AllOutcomes, TargetStates
  <2>2. attempts' = attempts \cup
          {AttemptRow(o, r, rows[o].owner, t, "unknown") : r \in Submitted(o)}
    BY DEF Recover
  <2> QED
    BY <2>1, <2>2 DEF OutboxTypeOK
<1>6. /\ targets' = [targets EXCEPT ![o] = ts]
      /\ rows' = [rows EXCEPT ![o] = ReleasedRow(rows[o], Disposition(ts), t)]
      /\ wrk' = [wrk EXCEPT ![w] = [Idle(w) EXCEPT !.pc = "claim", !.now = t]]
      /\ UNCHANGED <<relay, sent, retries>>
  BY DEF Recover
<1>7. WorkersType'
  <2> DEFINE x == [Idle(w) EXCEPT !.pc = "claim", !.now = t]
  <2>1. Idle(w) \in Worker
    BY WorkerFacts, RestingFacts DEF Idle
  <2>2. x \in Worker /\ x.pc = "claim"
    BY <1>2, <2>1 DEF Worker
  <2>3. wrk' = [wrk EXCEPT ![w] = x]
    BY <1>6
  <2> HIDE DEF x
  <2> QED
    BY <2>2, <2>3, RestingStep
<1>8. HistoryType'
  BY <1>6, TypeParts DEF HistoryType
<1> HIDE DEF o, t, ts
<1>9. /\ TablesType' /\ RowShapes'
      /\ rows'[o].state = Disposition(ts).state
      /\ rows'[o].next = Disposition(ts).next
      /\ rows'[o].revision = rows[o].revision + 1
      /\ rows'[o].updated = t /\ rows'[o].authority = rows[o].authority
      /\ targets'[o] = ts
      /\ \A p \in Outboxes : p # o => rows'[p] = rows[p] /\ targets'[p] = targets[p]
  BY <1>2, <1>3, <1>5, <1>6, ReleaseTypes, ZenonT(60)
<1> QED
  BY <1>2, <1>3, <1>7, <1>8, <1>9, NextTypeParts DEF o, t, ts

(* A recorded answer's tables. *)
LEMMA RecordTypes ==
    ASSUME OutboxTypeOK, NEW w \in Workers, NEW t \in Times, NEW delay \in Nat,
           Record(w, t, delay)
    PROVE  LET o == wrk[w].held
               ts == TargetsAfter(w, t, delay)
           IN  /\ OutboxTypeOK' /\ o \in Outboxes
               /\ ts \in [Targets -> Target] /\ HasDisposition(ts)
               /\ rows[o].state = "leased" /\ rows[o].updated <= t
               /\ rows'[o].state = Disposition(ts).state
               /\ rows'[o].next = Disposition(ts).next
               /\ rows'[o].revision = rows[o].revision + 1
               /\ rows'[o].updated = t
               /\ rows'[o].authority = rows[o].authority
               /\ targets'[o] = ts
               /\ \A p \in Outboxes : p # o => rows'[p] = rows[p] /\ targets'[p] = targets[p]
<1> DEFINE o == wrk[w].held
           ts == TargetsAfter(w, t, delay)
<1>1. wrk[w].pc = "record" /\ Recordable(w, t, delay)
  BY DEF Record
<1>2. /\ o \in Outboxes /\ wrk[w].target \in Targets /\ ts \in [Targets -> Target]
      /\ wrk[w].owner \in Owners /\ wrk[w].answer \in AllOutcomes
  BY <1>1, AnsweredFacts, WorkerFacts
<1>3. /\ HasDisposition(ts) /\ rows[o].state = "leased" /\ rows[o].updated <= t
  BY <1>1 DEF Recordable, ExactLease
<1>4. /\ targets' = [targets EXCEPT ![o] = ts]
      /\ rows' = [rows EXCEPT ![o] = ReleasedRow(rows[o], Disposition(ts), t)]
      /\ wrk' = [wrk EXCEPT ![w] = Idle(w)]
      /\ attempts' = attempts \cup
           {AttemptRow(o, wrk[w].target, wrk[w].owner, t, wrk[w].answer)}
      /\ UNCHANGED <<relay, sent, retries>>
  BY DEF Record
<1>5. attempts' \subseteq Attempt
  <2>1. AttemptRow(o, wrk[w].target, wrk[w].owner, t, wrk[w].answer) \in Attempt
    BY <1>2, AttemptType
  <2> QED
    BY <1>4, <2>1 DEF OutboxTypeOK
<1>6. WorkersType'
  <2>1. Idle(w) \in Worker /\ Idle(w).pc = "idle"
    BY WorkerFacts, RestingFacts DEF Idle
  <2> QED
    BY <1>4, <2>1, RestingStep
<1>7. HistoryType'
  BY <1>4, TypeParts DEF HistoryType
<1> HIDE DEF o, ts
<1>8. /\ TablesType' /\ RowShapes'
      /\ rows'[o].state = Disposition(ts).state
      /\ rows'[o].next = Disposition(ts).next
      /\ rows'[o].revision = rows[o].revision + 1
      /\ rows'[o].updated = t /\ rows'[o].authority = rows[o].authority
      /\ targets'[o] = ts
      /\ \A p \in Outboxes : p # o => rows'[p] = rows[p] /\ targets'[p] = targets[p]
  BY <1>2, <1>3, <1>4, <1>5, ReleaseTypes, ZenonT(60)
<1> QED
  BY <1>2, <1>3, <1>6, <1>7, <1>8, NextTypeParts DEF o, ts

(* The operator's retry's tables. *)
LEMMA RetryTypes ==
    ASSUME OutboxTypeOK, NEW o \in Outboxes, NEW t \in Times, PublicationRetry(o, t)
    PROVE  /\ OutboxTypeOK'
           /\ rows'[o] = ReopenedRow(rows[o], t)
           /\ \A r \in Targets : targets'[o][r] = ReopenedTarget(targets[o][r], t)
           /\ \A p \in Outboxes : p # o => rows'[p] = rows[p] /\ targets'[p] = targets[p]
<1> DEFINE new == ReopenedRow(rows[o], t)
           ts == [r \in Targets |-> ReopenedTarget(targets[o][r], t)]
<1>1. rows[o] \in Row /\ \A r \in Targets : targets[o][r] \in Target
  BY DEF OutboxTypeOK
<1>2. /\ new \in Row /\ new.state = "pending" /\ new.next = t
      /\ new.owner = rows[o].owner /\ new.expires = rows[o].expires
  BY <1>1, ReopenedRowFacts
<1>3. RowShape(rows[o]) /\ rows[o].state = "blocked"
  BY TypeParts DEF RowShapes, PublicationRetry
<1>4. RowShape(new)
  BY <1>2, <1>3, TimesFacts DEF RowShape
<1>5. ts \in [Targets -> Target]
  BY <1>1, ReopenedTargetFacts
<1>6. /\ rows' = [rows EXCEPT ![o] = new] /\ targets' = [targets EXCEPT ![o] = ts]
      /\ retries < MaxRetries /\ retries' = retries + 1
      /\ UNCHANGED <<attempts, wrk, relay, sent>>
  BY DEF PublicationRetry
<1> HIDE DEF new
<1>7. /\ rows' \in [Outboxes -> Row] /\ rows'[o] = new
      /\ \A p \in Outboxes : p # o => rows'[p] = rows[p]
  BY <1>2, <1>6 DEF OutboxTypeOK
<1>8. /\ targets' \in [Outboxes -> [Targets -> Target]] /\ targets'[o] = ts
      /\ \A p \in Outboxes : p # o => targets'[p] = targets[p]
  <2> HIDE DEF ts
  <2> QED
    BY <1>5, <1>6 DEF OutboxTypeOK
<1>9. TablesType' /\ RowShapes'
  BY <1>4, <1>6, <1>7, <1>8, TypeParts DEF TablesType, RowShapes
<1>10. WorkersType' /\ HistoryType'
  BY <1>6, TypeParts, OutboxBounds DEF WorkersType, HistoryType
<1> QED
  BY <1>7, <1>8, <1>9, <1>10, NextTypeParts DEF new

(* No step leaves the types or the shapes. *)
LEMMA TypeStep ==
    ASSUME OutboxTypeOK, [Next]_vars
    PROVE  OutboxTypeOK'
<1>1. CASE UNCHANGED vars
  BY <1>1 DEF vars, tables, OutboxTypeOK
<1>2. ASSUME NEW w \in Workers, WorkerStep(w)
      PROVE  OutboxTypeOK'
  <2>1. CASE Recover(w)
    BY <2>1, RecoverTypes
  <2>2. CASE \E o \in Outboxes : Claim(w, o)
    BY <2>2, ClaimTypes
  <2>3. CASE \E r \in Targets : Prepare(w, r)
    BY <2>3, PrepareTypes
  <2>4. CASE \E answer \in Outcomes, kept \in BOOLEAN : Submit(w, answer, kept)
    BY <2>4, SubmitTypes
  <2>5. CASE \E t \in Times, delay \in 0 .. MaximumBackoff : Record(w, t, delay)
    BY <2>5, RecordTypes
  <2> QED
    BY <1>2, <2>1, <2>2, <2>3, <2>4, <2>5, QuietTypes DEF WorkerStep
<1> QED
  BY <1>1, <1>2, InsertTypes, RetryTypes DEF Next

(* Every state is well typed; an outbox row has a lease exactly in "leased"  *)
(* and a schedule exactly in "pending", the shape valid_outbox_shape demands *)
(* of every row it decodes.                                                  *)
THEOREM OutboxTypeCorrect == Spec => []OutboxTypeOK
<1>1. Init => OutboxTypeOK
  <2> SUFFICES ASSUME Init PROVE OutboxTypeOK
    OBVIOUS
  <2>1. TablesType /\ HistoryType
    BY NoRowFacts, NoTargetFacts, OutboxBounds DEF Init, TablesType, HistoryType
  <2>2. RowShapes
    BY NoRowFacts DEF Init, RowShapes, RowShape
  <2>3. WorkersType
    <3>1. \A owner \in Owners, a \in Authorities :
            Resting("crashed", owner, a) \in Worker /\ Resting("crashed", owner, a).pc = "crashed"
      BY RestingFacts
    <3>2. \A w \in Workers : wrk[w] \in Worker /\ wrk[w].pc = "crashed"
      BY <3>1 DEF Init
    <3>3. wrk \in [Workers -> Worker]
      BY <3>2 DEF Init
    <3> QED
      BY <3>2, <3>3 DEF WorkersType
  <2> QED
    BY <2>1, <2>2, <2>3, TypeParts
<1>2. OutboxTypeOK /\ [Next]_vars => OutboxTypeOK'
  BY TypeStep
<1> QED
  BY <1>1, <1>2, PTL DEF Spec

-----------------------------------------------------------------------------
(* What one step of Next does to the tables of one outbox.  The invariance *)
(* proofs below argue from these six cases.                                *)

Kept(o) == rows'[o] = rows[o] /\ targets'[o] = targets[o]

Inserted(o) ==
    /\ rows[o].state = "absent"
    /\ \E t \in Times, a \in Authorities :
         /\ rows'[o] = InsertedRow(t, a)
         /\ \A r \in Targets : targets'[o][r] = InsertedTarget(t)

Leased(o) ==
    /\ rows[o].state = "pending"
    /\ targets'[o] = targets[o]
    /\ \E t \in Times, owner \in Owners :
         /\ t + AttemptDeadline <= MaxTime /\ rows[o].updated <= t
         /\ rows'[o] = ClaimedRow(rows[o], owner, t)

Prepared(o) ==
    /\ rows[o].state = "leased" /\ rows'[o] = rows[o]
    /\ \E t \in Times, r \in Targets :
         /\ RetryableState(targets[o][r]) /\ targets[o][r].updated <= t
         /\ targets'[o][r] = SubmittedTarget(targets[o][r], t)
         /\ \A q \in Targets \ {r} : targets'[o][q] = targets[o][q]

(* A target is left alone or, from submitted, gets an outcome. *)
Answered(old, new, t) ==
    \/ new = old
    \/ /\ old.state = "submitted" /\ old.updated <= t
       /\ new.state \in AllOutcomes /\ new.revision = old.revision + 1
       /\ new.count = old.count /\ new.updated = t

Concluded(o) ==
    /\ rows[o].state = "leased"
    /\ rows'[o].state \in {"pending", "blocked", "complete"}
    /\ rows'[o].state = "complete" <=> AllRequired(targets'[o])
    /\ rows'[o].revision = rows[o].revision + 1
    /\ rows'[o].authority = rows[o].authority
    /\ \E t \in Times :
         /\ rows'[o].updated = t /\ rows[o].updated <= t
         /\ \A r \in Targets : Answered(targets[o][r], targets'[o][r], t)
    /\ \E r \in Targets : \A q \in Targets \ {r} :
         targets'[o][q].state = "accepted" => targets[o][q].state = "accepted"

Reopened(o) ==
    /\ rows[o].state = "blocked"
    /\ \E t \in Times :
         /\ rows[o].updated <= t
         /\ \A r \in Targets : targets[o][r].state # "accepted" => targets[o][r].updated <= t
         /\ rows'[o] = ReopenedRow(rows[o], t)
         /\ \A r \in Targets : targets'[o][r] = ReopenedTarget(targets[o][r], t)

OutboxStep(o) ==
    Inserted(o) \/ Leased(o) \/ Prepared(o) \/ Concluded(o) \/ Reopened(o)

TableStep ==
    \/ UNCHANGED <<rows, targets>>
    \/ \E o \in Outboxes : OutboxStep(o) /\ \A p \in Outboxes \ {o} : Kept(p)

(* A recovery concludes. *)
LEMMA RecoverConcludes ==
    ASSUME OutboxTypeOK, NEW w \in Workers, Recover(w)
    PROVE  TableStep
<1> DEFINE o == wrk[w].held
           t == wrk[w].now
           ts == RecoveredTargets(o, t, wrk[w].delay)
<1>1. wrk[w].pc = "recover" /\ Recoverable(w) /\ t \in Times
  BY WorkerFacts DEF Recover
<1>2. /\ o \in Outboxes /\ ts \in [Targets -> Target] /\ HasDisposition(ts)
      /\ rows[o].state = "leased" /\ rows[o].updated <= t
      /\ rows'[o].state = Disposition(ts).state
      /\ rows'[o].revision = rows[o].revision + 1 /\ rows'[o].updated = t
      /\ rows'[o].authority = rows[o].authority /\ targets'[o] = ts
      /\ \A p \in Outboxes : p # o => rows'[p] = rows[p] /\ targets'[p] = targets[p]
  BY RecoverTypes
<1>3. /\ \A r \in Targets \ Submitted(o) : ts[r] = targets[o][r]
      /\ \A r \in Submitted(o) :
           /\ ts[r].state = "unknown" /\ ts[r].count = targets[o][r].count
           /\ ts[r].revision = targets[o][r].revision + 1
           /\ ts[r].updated = t /\ ts[r].updated >= targets[o][r].updated
  BY <1>1, RecoveredFacts
<1>4. \A r \in Targets : targets[o][r].updated \in Nat /\ t \in Nat
  BY <1>1, <1>2, TimesFacts DEF OutboxTypeOK, Target
<1> HIDE DEF o, t, ts
<1>5. /\ Disposition(ts).state \in {"pending", "blocked", "complete"}
      /\ Disposition(ts).state = "complete" <=> AllRequired(ts)
  BY <1>2, DispositionFacts
<1>6. \A r \in Targets : Answered(targets[o][r], targets'[o][r], t)
  BY <1>2, <1>3, <1>4 DEF Answered, Submitted, AllOutcomes, TargetStates
<1>7. \A q \in Targets \ {0} :
        targets'[o][q].state = "accepted" => targets[o][q].state = "accepted"
  BY <1>2, <1>3
<1>8. Concluded(o)
  BY <1>1, <1>2, <1>5, <1>6, <1>7, RequiredFacts DEF Concluded
<1> QED
  BY <1>2, <1>8 DEF TableStep, OutboxStep, Kept

(* A recorded answer concludes. *)
LEMMA RecordConcludes ==
    ASSUME OutboxTypeOK, NEW w \in Workers, NEW t \in Times, NEW delay \in Nat,
           Record(w, t, delay)
    PROVE  TableStep
<1> DEFINE o == wrk[w].held
           r == wrk[w].target
           ts == TargetsAfter(w, t, delay)
<1>1. wrk[w].pc = "record" /\ Recordable(w, t, delay)
  BY DEF Record
<1>2. /\ o \in Outboxes /\ ts \in [Targets -> Target] /\ HasDisposition(ts)
      /\ rows[o].state = "leased" /\ rows[o].updated <= t
      /\ rows'[o].state = Disposition(ts).state
      /\ rows'[o].revision = rows[o].revision + 1 /\ rows'[o].updated = t
      /\ rows'[o].authority = rows[o].authority /\ targets'[o] = ts
      /\ \A p \in Outboxes : p # o => rows'[p] = rows[p] /\ targets'[p] = targets[p]
  BY RecordTypes
<1>3. /\ r \in Targets /\ r \in Submitted(o)
      /\ \A q \in Targets \ {r} : ts[q] = targets[o][q]
      /\ ts[r].state \in AllOutcomes /\ ts[r].count = targets[o][r].count
      /\ ts[r].revision = targets[o][r].revision + 1
      /\ ts[r].updated = t /\ t >= targets[o][r].updated
  BY <1>1, AnsweredFacts
<1>4. targets[o][r].updated \in Nat /\ t \in Nat
  <2>1. targets[o][r] \in Target
    BY <1>2, <1>3 DEF OutboxTypeOK
  <2> QED
    BY <2>1, TimesFacts DEF Target
<1> HIDE DEF o, r, ts
<1>5. /\ Disposition(ts).state \in {"pending", "blocked", "complete"}
      /\ Disposition(ts).state = "complete" <=> AllRequired(ts)
  BY <1>2, DispositionFacts
<1>6. \A q \in Targets : Answered(targets[o][q], targets'[o][q], t)
  BY <1>2, <1>3, <1>4 DEF Answered, Submitted
<1>7. \A q \in Targets \ {r} :
        targets'[o][q].state = "accepted" => targets[o][q].state = "accepted"
  BY <1>2, <1>3
<1>8. Concluded(o)
  BY <1>2, <1>3, <1>5, <1>6, <1>7 DEF Concluded
<1> QED
  BY <1>2, <1>8 DEF TableStep, OutboxStep, Kept

(* Every step is one of the cases. *)
LEMMA TableSteps ==
    ASSUME OutboxTypeOK, [Next]_vars
    PROVE  TableStep
<1>1. CASE UNCHANGED vars
  BY <1>1 DEF vars, tables, TableStep
<1>2. ASSUME NEW o \in Outboxes, NEW t \in Times, NEW a \in Authorities, Insert(o, t, a)
      PROVE  TableStep
  <2>1. /\ rows'[o] = InsertedRow(t, a)
        /\ \A r \in Targets : targets'[o][r] = InsertedTarget(t)
        /\ \A p \in Outboxes \ {o} : Kept(p)
    BY <1>2 DEF Insert, OutboxTypeOK, Kept
  <2>2. Inserted(o)
    BY <1>2, <2>1 DEF Insert, Inserted
  <2> QED
    BY <2>1, <2>2 DEF TableStep, OutboxStep
<1>3. ASSUME NEW o \in Outboxes, NEW t \in Times, PublicationRetry(o, t)
      PROVE  TableStep
  <2>1. Reopened(o) /\ \A p \in Outboxes \ {o} : Kept(p)
    BY <1>3, RetryTypes DEF PublicationRetry, Reopened, Kept
  <2> QED
    BY <2>1 DEF TableStep, OutboxStep
<1>4. ASSUME NEW w \in Workers, WorkerStep(w)
      PROVE  TableStep
  <2>1. CASE Recover(w)
    BY <2>1, RecoverConcludes
  <2>2. ASSUME NEW o \in Outboxes, Claim(w, o)
        PROVE  TableStep
    <3>1. /\ wrk[w].now \in Times /\ wrk[w].owner \in Owners
          /\ rows[o].state = "pending" /\ targets' = targets
          /\ wrk[w].now + AttemptDeadline <= MaxTime /\ rows[o].updated <= wrk[w].now
      BY <2>2, WorkerFacts DEF Claim, ClaimAdmissible, NextDue, DueOutboxes
    <3>2. /\ rows'[o] = ClaimedRow(rows[o], wrk[w].owner, wrk[w].now)
          /\ \A p \in Outboxes \ {o} : Kept(p)
      BY <2>2, <3>1, ClaimTypes DEF Kept
    <3>3. Leased(o)
      BY <3>1, <3>2 DEF Leased
    <3> QED
      BY <3>2, <3>3 DEF TableStep, OutboxStep
  <2>3. ASSUME NEW r \in Targets, Prepare(w, r)
        PROVE  TableStep
    <3> DEFINE o == wrk[w].held
    <3>1. /\ o \in Outboxes /\ rows' = rows
          /\ targets'[o][r] = SubmittedTarget(targets[o][r], wrk[w].now)
          /\ \A p \in Outboxes, q \in Targets :
               <<p, q>> # <<o, r>> => targets'[p][q] = targets[p][q]
          /\ targets' \in [Outboxes -> [Targets -> Target]]
      BY <2>3, PrepareTypes DEF Prepare, OutboxTypeOK
    <3>2. \A p \in Outboxes \ {o} : Kept(p)
      BY <3>1 DEF Kept, OutboxTypeOK
    <3>3. /\ wrk[w].now \in Times /\ rows[o].state = "leased"
          /\ RetryableState(targets[o][r]) /\ targets[o][r].updated <= wrk[w].now
      BY <2>3, WorkerFacts DEF Prepare, ExactLease, FirstDue, DueTargets, TargetIsDue
    <3>4. Prepared(o)
      BY <3>1, <3>3 DEF Prepared
    <3> QED
      BY <3>1, <3>2, <3>4 DEF TableStep, OutboxStep
  <2>4. CASE \E answer \in Outcomes, kept \in BOOLEAN : Submit(w, answer, kept)
    BY <2>4 DEF Submit, tables, TableStep
  <2>5. CASE \E t \in Times, delay \in 0 .. MaximumBackoff : Record(w, t, delay)
    BY <2>5, RecordConcludes
  <2>6. CASE UNCHANGED <<tables, relay, sent, retries>>
    BY <2>6 DEF tables, TableStep
  <2> QED
    BY <1>4, <2>1, <2>2, <2>3, <2>4, <2>5, <2>6, QuietTypes DEF WorkerStep
<1> QED
  BY <1>1, <1>2, <1>3, <1>4 DEF Next

-----------------------------------------------------------------------------
(* The lifecycle *)

(* An outbox with no row has the columns of NoRow and NoTarget, so that      *)
(* inserting is an ordinary revision step from 0 to 1, and nothing of it was *)
(* accepted before it was committed.                                         *)
AbsentIsBlank ==
    \A o \in Outboxes : rows[o].state = "absent" =>
      rows[o] = NoRow /\ \A r \in Targets : targets[o][r] = NoTarget

(* What a step does to the row. *)
LEMMA RowStepFacts ==
    ASSUME OutboxTypeOK, AbsentIsBlank, NEW o \in Outboxes, OutboxStep(o)
    PROVE  /\ rows'[o] # rows[o] =>
                /\ rows'[o].revision = rows[o].revision + 1
                /\ rows'[o].updated >= rows[o].updated
                /\ <<rows[o].state, rows'[o].state>> \in
                     {<<"absent", "pending">>, <<"pending", "leased">>, <<"leased", "pending">>,
                      <<"leased", "complete">>, <<"leased", "blocked">>, <<"blocked", "pending">>}
           /\ rows'[o].state # "absent"
<1>1. rows[o] \in Row /\ rows[o].updated \in Nat
  BY TimesFacts DEF OutboxTypeOK, Row
<1>2. \A t \in Times : t \in Nat
  BY TimesFacts
<1>3. CASE Inserted(o)
  <2>1. rows[o].revision = 0 /\ rows[o].updated = 0
    BY <1>3, NoRowFacts DEF Inserted, AbsentIsBlank
  <2>2. PICK t \in Times, a \in Authorities : rows'[o] = InsertedRow(t, a)
    BY <1>3 DEF Inserted
  <2>3. rows'[o].state = "pending" /\ rows'[o].revision = 1 /\ rows'[o].updated = t
    BY <2>2, InsertedFacts
  <2> QED
    BY <1>2, <1>3, <2>1, <2>3 DEF Inserted
<1>4. CASE Leased(o)
  <2>1. PICK t \in Times, owner \in Owners :
          /\ t + AttemptDeadline <= MaxTime /\ rows[o].updated <= t
          /\ rows'[o] = ClaimedRow(rows[o], owner, t)
    BY <1>4 DEF Leased
  <2>2. /\ rows'[o].state = "leased" /\ rows'[o].revision = rows[o].revision + 1
        /\ rows'[o].updated = t
    BY <1>1, <2>1, ClaimedFacts
  <2> QED
    BY <1>1, <1>2, <1>4, <2>1, <2>2 DEF Leased
<1>5. CASE Prepared(o)
  BY <1>5 DEF Prepared
<1>6. CASE Concluded(o)
  BY <1>1, <1>2, <1>6 DEF Concluded
<1>7. CASE Reopened(o)
  <2>1. PICK t \in Times :
          rows[o].updated <= t /\ rows'[o] = ReopenedRow(rows[o], t)
    BY <1>7 DEF Reopened
  <2>2. /\ rows'[o].state = "pending" /\ rows'[o].revision = rows[o].revision + 1
        /\ rows'[o].updated = t
    BY <1>1, <2>1, ReopenedRowFacts
  <2> QED
    BY <1>1, <1>2, <1>7, <2>1, <2>2 DEF Reopened
<1> QED
  BY <1>3, <1>4, <1>5, <1>6, <1>7 DEF OutboxStep

(* What a step does to a target. *)
LEMMA TargetStepFacts ==
    ASSUME OutboxTypeOK, AbsentIsBlank, NEW o \in Outboxes, NEW r \in Targets,
           OutboxStep(o), targets'[o][r] # targets[o][r]
    PROVE  /\ targets[o][r].state # "accepted"
           /\ targets'[o][r].revision = targets[o][r].revision + 1
           /\ targets'[o][r].count \in {targets[o][r].count, targets[o][r].count + 1}
           /\ targets'[o][r].updated >= targets[o][r].updated
<1> DEFINE e == targets[o][r]
<1>1. e \in Target
  BY DEF OutboxTypeOK
<1>2. e.updated \in Nat /\ e.count \in Nat
  BY <1>1, TimesFacts DEF Target
<1>3. \A t \in Times : t \in Nat
  BY TimesFacts
<1>4. CASE Inserted(o)
  <2>1. /\ e.state = "pending" /\ e.revision = 0 /\ e.count = 0 /\ e.updated = 0
    BY <1>4, NoTargetFacts DEF Inserted, AbsentIsBlank
  <2>2. PICK t \in Times, a \in Authorities : targets'[o][r] = InsertedTarget(t)
    BY <1>4 DEF Inserted
  <2>3. /\ targets'[o][r].revision = 1 /\ targets'[o][r].count = 0
        /\ targets'[o][r].updated = t
    BY <2>2, InsertedFacts
  <2> QED
    BY <1>3, <2>1, <2>3
<1>5. CASE Leased(o)
  BY <1>5 DEF Leased
<1>6. CASE Prepared(o)
  <2>1. PICK t \in Times, q \in Targets :
          /\ RetryableState(targets[o][q]) /\ targets[o][q].updated <= t
          /\ targets'[o][q] = SubmittedTarget(targets[o][q], t)
          /\ \A p \in Targets \ {q} : targets'[o][p] = targets[o][p]
    BY <1>6 DEF Prepared
  <2>2. q = r
    BY <2>1
  <2>3. /\ targets'[o][r].revision = e.revision + 1 /\ targets'[o][r].count = e.count + 1
        /\ targets'[o][r].updated = t
    BY <1>1, <2>1, <2>2, SubmittedFacts
  <2> QED
    BY <1>2, <1>3, <2>1, <2>2, <2>3 DEF RetryableState
<1>7. CASE Concluded(o)
  <2>1. PICK t \in Times : Answered(e, targets'[o][r], t)
    BY <1>7 DEF Concluded
  <2> QED
    BY <1>2, <1>3, <2>1 DEF Answered
<1>8. CASE Reopened(o)
  <2>1. PICK t \in Times :
          /\ e.state # "accepted" => e.updated <= t
          /\ targets'[o][r] = ReopenedTarget(e, t)
    BY <1>8 DEF Reopened
  <2>2. e.state # "accepted"
    BY <1>1, <2>1, ReopenedTargetFacts
  <2>3. /\ targets'[o][r].revision = e.revision + 1 /\ targets'[o][r].count = e.count
        /\ targets'[o][r].updated = t
    BY <1>1, <2>1, <2>2, ReopenedTargetFacts
  <2> QED
    BY <1>2, <1>3, <2>1, <2>2, <2>3
<1> QED
  BY <1>4, <1>5, <1>6, <1>7, <1>8 DEF OutboxStep

(* An outbox that is not committed stays blank. *)
LEMMA AbsentStep ==
    ASSUME OutboxTypeOK, AbsentIsBlank, [Next]_vars
    PROVE  AbsentIsBlank'
<1>1. CASE UNCHANGED <<rows, targets>>
  BY <1>1 DEF AbsentIsBlank
<1>2. ASSUME NEW o \in Outboxes, OutboxStep(o), \A p \in Outboxes \ {o} : Kept(p)
      PROVE  AbsentIsBlank'
  BY <1>2, RowStepFacts DEF AbsentIsBlank, Kept
<1> QED
  BY <1>1, <1>2, TableSteps DEF TableStep

(* The two guard_update triggers and the statements agree: no operation asks *)
(* for a skipped revision, a time step back, a change of an accepted target, *)
(* an attempt count that falls, or a state transition outside the lifecycle. *)
THEOREM OutboxLifecycleHolds == Spec => OutboxLifecycle
<1> DEFINE Legal ==
      /\ \A o \in Outboxes : rows'[o] # rows[o] =>
            /\ rows'[o].revision = rows[o].revision + 1
            /\ rows'[o].updated >= rows[o].updated
            /\ <<rows[o].state, rows'[o].state>> \in
                 {<<"absent", "pending">>, <<"pending", "leased">>, <<"leased", "pending">>,
                  <<"leased", "complete">>, <<"leased", "blocked">>, <<"blocked", "pending">>}
      /\ \A o \in Outboxes, r \in Targets : targets'[o][r] # targets[o][r] =>
            /\ targets[o][r].state # "accepted"
            /\ targets'[o][r].revision = targets[o][r].revision + 1
            /\ targets'[o][r].count \in {targets[o][r].count, targets[o][r].count + 1}
            /\ targets'[o][r].updated >= targets[o][r].updated
<1>1. Init => AbsentIsBlank
  BY DEF Init, AbsentIsBlank
<1>2. OutboxTypeOK /\ AbsentIsBlank /\ [Next]_vars => AbsentIsBlank'
  BY AbsentStep
<1>3. OutboxTypeOK /\ AbsentIsBlank /\ [Next]_vars => Legal
  <2> SUFFICES ASSUME OutboxTypeOK, AbsentIsBlank, [Next]_vars
               PROVE  Legal
    OBVIOUS
  <2>1. CASE UNCHANGED <<rows, targets>>
    BY <2>1
  <2>2. ASSUME NEW o \in Outboxes, OutboxStep(o), \A p \in Outboxes \ {o} : Kept(p)
        PROVE  Legal
    <3>1. \A p \in Outboxes : p # o => rows'[p] = rows[p] /\ targets'[p] = targets[p]
      BY <2>2 DEF Kept
    <3>2. rows'[o] # rows[o] =>
            /\ rows'[o].revision = rows[o].revision + 1
            /\ rows'[o].updated >= rows[o].updated
            /\ <<rows[o].state, rows'[o].state>> \in
                 {<<"absent", "pending">>, <<"pending", "leased">>, <<"leased", "pending">>,
                  <<"leased", "complete">>, <<"leased", "blocked">>, <<"blocked", "pending">>}
      BY <2>2, RowStepFacts
    <3>3. \A r \in Targets : targets'[o][r] # targets[o][r] =>
            /\ targets[o][r].state # "accepted"
            /\ targets'[o][r].revision = targets[o][r].revision + 1
            /\ targets'[o][r].count \in {targets[o][r].count, targets[o][r].count + 1}
            /\ targets'[o][r].updated >= targets[o][r].updated
      BY <2>2, TargetStepFacts
    <3> QED
      BY <3>1, <3>2, <3>3
  <2> QED
    BY <2>1, <2>2, TableSteps DEF TableStep
<1> HIDE DEF Legal
<1>4. Spec => [][Legal]_vars
  BY <1>1, <1>2, <1>3, OutboxTypeCorrect, PTL DEF Spec
<1> QED
  BY <1>4 DEF Legal, OutboxLifecycle

-----------------------------------------------------------------------------
(* The promise *)

(* The refinement mapping in the next state. *)
LEMMA MappingFacts ==
    /\ \A o \in Outboxes : PhaseOf(o)' =
         IF rows'[o].state \in {"pending", "leased"} THEN "open" ELSE rows'[o].state
    /\ \A o \in Outboxes : AcceptedBy(o)' = {r \in Targets : targets'[o][r].state = "accepted"}
BY DEF PhaseOf, AcceptedBy

(* What each case does to the mapped state of its outbox. *)
LEMMA MappedStep ==
    ASSUME OutboxTypeOK, AbsentIsBlank, NEW o \in Outboxes, OutboxStep(o)
    PROVE  \/ PhaseOf(o)' = PhaseOf(o) /\ AcceptedBy(o)' = AcceptedBy(o)
           \/ PhaseOf(o) = "absent" /\ PhaseOf(o)' = "open" /\ AcceptedBy(o)' = AcceptedBy(o)
           \/ PhaseOf(o) = "blocked" /\ PhaseOf(o)' = "open" /\ AcceptedBy(o)' = AcceptedBy(o)
           \/ /\ PhaseOf(o) = "open" /\ PhaseOf(o)' \in {"open", "blocked", "complete"}
              /\ PhaseOf(o)' = "complete" <=> Required \subseteq AcceptedBy(o)'
              /\ \E ts \in {{}} \cup {{t} : t \in Targets} :
                   AcceptedBy(o)' = AcceptedBy(o) \cup ts
<1>1. /\ PhaseOf(o)' =
           IF rows'[o].state \in {"pending", "leased"} THEN "open" ELSE rows'[o].state
      /\ AcceptedBy(o)' = {r \in Targets : targets'[o][r].state = "accepted"}
  BY MappingFacts
<1>2. rows[o] \in Row /\ \A r \in Targets : targets[o][r] \in Target
  BY DEF OutboxTypeOK
<1>3. CASE Inserted(o)
  <2>1. PICK t \in Times, a \in Authorities :
          rows'[o] = InsertedRow(t, a) /\ \A r \in Targets : targets'[o][r] = InsertedTarget(t)
    BY <1>3 DEF Inserted
  <2>2. rows'[o].state = "pending" /\ \A r \in Targets : targets'[o][r].state = "pending"
    BY <2>1, InsertedFacts
  <2>3. rows[o].state = "absent" /\ \A r \in Targets : targets[o][r].state = "pending"
    BY <1>3, NoTargetFacts DEF Inserted, AbsentIsBlank
  <2> QED
    BY <1>1, <2>2, <2>3 DEF PhaseOf, AcceptedBy
<1>4. CASE Leased(o)
  <2>1. rows'[o].state = "leased"
    BY <1>2, <1>4, ClaimedFacts DEF Leased
  <2> QED
    BY <1>1, <1>4, <2>1 DEF Leased, PhaseOf, AcceptedBy
<1>5. CASE Prepared(o)
  <2>1. PICK t \in Times, r \in Targets :
          /\ RetryableState(targets[o][r])
          /\ targets'[o][r] = SubmittedTarget(targets[o][r], t)
          /\ \A q \in Targets \ {r} : targets'[o][q] = targets[o][q]
    BY <1>5 DEF Prepared
  <2>2. targets[o][r].state # "accepted" /\ targets'[o][r].state # "accepted"
    BY <1>2, <2>1, SubmittedFacts DEF RetryableState
  <2>3. AcceptedBy(o)' = AcceptedBy(o)
    BY <1>1, <2>1, <2>2 DEF AcceptedBy
  <2> QED
    BY <1>1, <1>5, <2>3 DEF Prepared, PhaseOf
<1>6. CASE Concluded(o)
  <2>1. PhaseOf(o) = "open" /\ PhaseOf(o)' \in {"open", "blocked", "complete"}
    BY <1>1, <1>6 DEF Concluded, PhaseOf
  <2>2. PhaseOf(o)' = "complete" <=> Required \subseteq AcceptedBy(o)'
    BY <1>1, <1>6, RequiredFacts DEF Concluded, AllRequired
  <2>3. AcceptedBy(o) \subseteq AcceptedBy(o)'
    BY <1>1, <1>6 DEF Concluded, Answered, AcceptedBy
  <2>4. PICK r \in Targets : \A q \in Targets \ {r} :
          targets'[o][q].state = "accepted" => targets[o][q].state = "accepted"
    BY <1>6 DEF Concluded
  <2>5. AcceptedBy(o)' \subseteq AcceptedBy(o) \cup {r}
    BY <1>1, <2>4 DEF AcceptedBy
  <2>6. AcceptedBy(o)' = AcceptedBy(o) \cup {} \/ AcceptedBy(o)' = AcceptedBy(o) \cup {r}
    BY <2>3, <2>5
  <2> QED
    BY <2>1, <2>2, <2>6
<1>7. CASE Reopened(o)
  <2>1. PICK t \in Times :
          /\ rows'[o] = ReopenedRow(rows[o], t)
          /\ \A r \in Targets : targets'[o][r] = ReopenedTarget(targets[o][r], t)
    BY <1>7 DEF Reopened
  <2>2. rows'[o].state = "pending"
    BY <1>2, <2>1, ReopenedRowFacts
  <2>3. \A r \in Targets :
          targets'[o][r].state = "accepted" <=> targets[o][r].state = "accepted"
    BY <1>2, <2>1, ReopenedTargetFacts
  <2> QED
    BY <1>1, <1>7, <2>2, <2>3 DEF Reopened, PhaseOf, AcceptedBy
<1> QED
  BY <1>3, <1>4, <1>5, <1>6, <1>7 DEF OutboxStep

(* The outbox implements DeliveryPromise: whatever workers, crashes, late    *)
(* answers, clock steps and operator retries do, an item completes with the  *)
(* answer that makes its last required target accept and at no other moment, *)
(* an accepted target stays accepted, and a complete item is left alone.     *)
THEOREM PromiseKept == Spec => KeepsThePromise
<1>1. Init => Promise!PromiseInit
  BY NoRowFacts, NoTargetFacts DEF Init, Promise!PromiseInit, PhaseOf, AcceptedBy
<1>2. OutboxTypeOK /\ AbsentIsBlank /\ [Next]_vars => [Promise!PromiseNext]_(Promise!promiseVars)
  <2> SUFFICES ASSUME OutboxTypeOK, AbsentIsBlank, [Next]_vars
               PROVE  [Promise!PromiseNext]_(Promise!promiseVars)
    OBVIOUS
  <2> DEFINE phase == [o \in Outboxes |-> PhaseOf(o)]
             accepted == [o \in Outboxes |-> AcceptedBy(o)]
  <2>1. CASE UNCHANGED <<rows, targets>>
    <3>1. phase' = phase /\ accepted' = accepted
      BY <2>1 DEF PhaseOf, AcceptedBy
    <3> QED
      BY <3>1 DEF Promise!promiseVars
  <2>2. ASSUME NEW o \in Outboxes, OutboxStep(o), \A p \in Outboxes \ {o} : Kept(p)
        PROVE  [Promise!PromiseNext]_(Promise!promiseVars)
    <3>1. \A p \in Outboxes \ {o} : PhaseOf(p)' = PhaseOf(p) /\ AcceptedBy(p)' = AcceptedBy(p)
      BY <2>2 DEF Kept, PhaseOf, AcceptedBy
    <3>2. /\ phase[o] = PhaseOf(o) /\ accepted[o] = AcceptedBy(o)
          /\ accepted'[o] = AcceptedBy(o)'
          /\ phase' = [phase EXCEPT ![o] = PhaseOf(o)']
          /\ accepted' = [accepted EXCEPT ![o] = AcceptedBy(o)']
      BY <3>1
    <3>3. CASE PhaseOf(o)' = PhaseOf(o) /\ AcceptedBy(o)' = AcceptedBy(o)
      <4>1. phase' = phase /\ accepted' = accepted
        BY <3>1, <3>3
      <4> QED
        BY <4>1 DEF Promise!promiseVars
    <3>4. CASE AcceptedBy(o)' = AcceptedBy(o) /\ PhaseOf(o) = "absent" /\ PhaseOf(o)' = "open"
      <4>1. accepted' = accepted
        BY <3>1, <3>4
      <4>2. Promise!Commit(o)
        BY <3>2, <3>4, <4>1 DEF Promise!Commit
      <4> QED
        BY <4>2 DEF Promise!PromiseNext
    <3>5. CASE AcceptedBy(o)' = AcceptedBy(o) /\ PhaseOf(o) = "blocked" /\ PhaseOf(o)' = "open"
      <4>1. accepted' = accepted
        BY <3>1, <3>5
      <4>2. Promise!Reopen(o)
        BY <3>2, <3>5, <4>1 DEF Promise!Reopen
      <4> QED
        BY <4>2 DEF Promise!PromiseNext
    <3>6. CASE /\ PhaseOf(o) = "open" /\ PhaseOf(o)' \in {"open", "blocked", "complete"}
               /\ PhaseOf(o)' = "complete" <=> Required \subseteq AcceptedBy(o)'
               /\ \E ts \in {{}} \cup {{t} : t \in Targets} :
                    AcceptedBy(o)' = AcceptedBy(o) \cup ts
      <4>1. Promise!Offer(o)
        BY <3>2, <3>6 DEF Promise!Offer
      <4> QED
        BY <4>1 DEF Promise!PromiseNext
    <3> QED
      BY <2>2, <3>3, <3>4, <3>5, <3>6, MappedStep
  <2> QED
    BY <2>1, <2>2, TableSteps DEF TableStep
<1>3. Init => AbsentIsBlank
  BY DEF Init, AbsentIsBlank
<1>4. OutboxTypeOK /\ AbsentIsBlank /\ [Next]_vars => AbsentIsBlank'
  BY AbsentStep
<1> QED
  BY <1>1, <1>2, <1>3, <1>4, OutboxTypeCorrect, PTL DEF Spec, KeepsThePromise, Promise!PromiseSpec

-----------------------------------------------------------------------------
(* What one step does to the workers, the relays and the evidence *)

Rested(w) == wrk'[w].pc \in {"idle", "recover", "claim", "failed", "crashed"}

(* A worker goes on with the outbox it holds. *)
GoesOn(w) ==
    /\ wrk'[w].held = wrk[w].held /\ wrk'[w].authority = wrk[w].authority
    /\ wrk[w].held \in Outboxes /\ wrk'[w].row = wrk[w].row

Claiming(w) ==
    /\ wrk'[w].pc = "prepare" /\ wrk'[w].held \in Outboxes
    /\ rows[wrk'[w].held].state = "pending" /\ targets' = targets
    /\ rows'[wrk'[w].held].state = "leased"
    /\ rows'[wrk'[w].held].revision = rows[wrk'[w].held].revision + 1
    /\ wrk'[w].row = rows'[wrk'[w].held]
    /\ rows'[wrk'[w].held].authority = wrk'[w].authority

Preparing(w) ==
    /\ wrk[w].pc = "prepare" /\ wrk'[w].pc = "submit" /\ GoesOn(w)
    /\ \E r \in Targets :
         /\ wrk'[w].target = r
         /\ wrk'[w].entry.count = targets'[wrk[w].held][r].count
         /\ targets'[wrk[w].held][r].count = targets[wrk[w].held][r].count + 1

Submitting(w) ==
    /\ wrk[w].pc = "submit" /\ wrk'[w].pc = "record" /\ GoesOn(w)
    /\ wrk'[w].target = wrk[w].target /\ wrk'[w].entry = wrk[w].entry
    /\ relay \subseteq relay'
    /\ wrk'[w].answer = "accepted" => <<wrk[w].held, wrk[w].target>> \in relay'
    /\ sent' = sent \cup {<<wrk[w].held, wrk[w].target, wrk[w].entry.count>>}
    /\ UNCHANGED tables

ProcessStep ==
    \/ UNCHANGED <<wrk, relay, sent>>
    \/ \E w \in Workers :
         /\ \A v \in Workers \ {w} : wrk'[v] = wrk[v]
         /\ \/ (Rested(w) \/ Claiming(w) \/ Preparing(w)) /\ UNCHANGED <<relay, sent>>
            \/ Submitting(w)

(* Every step is one of these for the workers. *)
LEMMA ProcessSteps ==
    ASSUME OutboxTypeOK, [Next]_vars
    PROVE  ProcessStep
<1>1. CASE UNCHANGED vars
  BY <1>1 DEF vars, ProcessStep
<1>2. CASE \E o \in Outboxes, t \in Times, a \in Authorities : Insert(o, t, a)
  BY <1>2 DEF Insert, ProcessStep
<1>3. CASE \E o \in Outboxes, t \in Times : PublicationRetry(o, t)
  BY <1>3 DEF PublicationRetry, ProcessStep
<1>4. ASSUME NEW w \in Workers, WorkerStep(w)
      PROVE  ProcessStep
  <2>1. wrk \in [Workers -> Worker] /\ wrk[w] \in Worker
    BY WorkerFacts DEF OutboxTypeOK
  <2>2. ASSUME NEW x, wrk' = [wrk EXCEPT ![w] = x],
               x.pc \in {"idle", "recover", "claim", "failed", "crashed"},
               UNCHANGED <<relay, sent>>
        PROVE  ProcessStep
    <3>1. Rested(w) /\ \A v \in Workers \ {w} : wrk'[v] = wrk[v]
      BY <2>1, <2>2 DEF Rested
    <3> QED
      BY <2>2, <3>1 DEF ProcessStep
  <2>3. \A pc, owner, a : Resting(pc, owner, a).pc = pc
    BY DEF Resting
  <2>4. Idle(w).pc = "idle" /\ Failed(w).pc = "failed"
    BY <2>3 DEF Idle, Failed
  <2>5. CASE \E t \in Times : BeginNothingExpired(w, t)
    <3>1. PICK t \in Times : BeginNothingExpired(w, t)
      BY <2>5
    <3> DEFINE x == [wrk[w] EXCEPT !.pc = "claim", !.now = t]
    <3>2. wrk' = [wrk EXCEPT ![w] = x] /\ x.pc = "claim" /\ UNCHANGED <<relay, sent>>
      BY <2>1, <3>1 DEF BeginNothingExpired, Worker
    <3> HIDE DEF x
    <3> QED
      BY <2>2, <3>2
  <2>6. CASE \E t \in Times, o \in Outboxes : BeginRecovery(w, t, o)
    <3>1. PICK t \in Times, o \in Outboxes : BeginRecovery(w, t, o)
      BY <2>6
    <3>2. PICK delay \in 0 .. RecoveryCap(o) :
            wrk' = [wrk EXCEPT ![w].pc = "recover", ![w].now = t, ![w].held = o,
                               ![w].row = rows[o], ![w].delay = delay]
      BY <3>1 DEF BeginRecovery
    <3> DEFINE x == [wrk[w] EXCEPT !.pc = "recover", !.now = t, !.held = o,
                                   !.row = rows[o], !.delay = delay]
    <3>3. wrk' = [wrk EXCEPT ![w] = x] /\ x.pc = "recover" /\ UNCHANGED <<relay, sent>>
      BY <2>1, <3>1, <3>2 DEF BeginRecovery, Worker
    <3> HIDE DEF x
    <3> QED
      BY <2>2, <3>3
  <2>7. CASE Recover(w)
    <3> DEFINE x == [Idle(w) EXCEPT !.pc = "claim", !.now = wrk[w].now]
    <3>1. wrk' = [wrk EXCEPT ![w] = x] /\ UNCHANGED <<relay, sent>>
      BY <2>7 DEF Recover
    <3>2. x.pc = "claim"
      BY DEF Idle, Resting
    <3> HIDE DEF x
    <3> QED
      BY <2>2, <3>1, <3>2
  <2>8. CASE \/ \E t \in Times, o \in Outboxes : BeginRefused(w, t, o)
             \/ RecoverRefused(w) \/ ClaimNothing(w)
             \/ \E o \in Outboxes : ClaimRefused(w, o)
             \/ PrepareRefused(w)
             \/ \E t \in Times, delay \in 0 .. MaximumBackoff : Record(w, t, delay)
             \/ \E t \in Times, delay \in 0 .. MaximumBackoff : RecordReconciled(w, t, delay)
             \/ \E t \in Times, delay \in 0 .. MaximumBackoff : RecordRefused(w, t, delay)
    <3>1. /\ UNCHANGED <<relay, sent>>
          /\ wrk' = [wrk EXCEPT ![w] = Failed(w)] \/ wrk' = [wrk EXCEPT ![w] = Idle(w)]
      BY <2>8 DEF BeginRefused, RecoverRefused, ClaimNothing, ClaimRefused, PrepareRefused,
                  Record, RecordReconciled, RecordRefused
    <3> QED
      BY <2>2, <2>4, <3>1
  <2>9. CASE \/ Crash(w)
             \/ \E owner \in Owners, a \in Authorities : Start(w, owner, a)
    <3>1. PICK pc \in {"crashed", "idle"}, owner \in Owners, a \in Authorities :
            wrk' = [wrk EXCEPT ![w] = Resting(pc, owner, a)] /\ UNCHANGED <<relay, sent>>
      BY <2>9, WorkerFacts DEF Crash, Start
    <3> QED
      BY <2>2, <2>3, <3>1
  <2>10. CASE \E o \in Outboxes : Claim(w, o)
    <3>1. PICK o \in Outboxes : Claim(w, o)
      BY <2>10
    <3>2. rows[o] \in Row /\ wrk[w].owner \in Owners /\ wrk[w].now \in Times
      BY WorkerFacts DEF OutboxTypeOK
    <3>3. /\ rows'[o] = ClaimedRow(rows[o], wrk[w].owner, wrk[w].now)
          /\ rows[o].authority = wrk[w].authority
          /\ wrk[w].now + AttemptDeadline <= MaxTime
      BY <3>1, ClaimTypes DEF Claim, ClaimAdmissible
    <3>4. /\ rows'[o].state = "leased" /\ rows'[o].authority = wrk[w].authority
          /\ rows'[o].revision = rows[o].revision + 1
      BY <3>2, <3>3, ClaimedFacts
    <3>5. /\ wrk'[w].pc = "prepare" /\ wrk'[w].held = o /\ wrk'[w].row = rows'[o]
          /\ wrk'[w].authority = wrk[w].authority
          /\ \A v \in Workers \ {w} : wrk'[v] = wrk[v]
      BY <2>1, <3>1 DEF Claim, Worker
    <3>6. Claiming(w) /\ UNCHANGED <<relay, sent>>
      BY <3>1, <3>4, <3>5 DEF Claiming, Claim, NextDue, DueOutboxes
    <3> QED
      BY <3>5, <3>6 DEF ProcessStep
  <2>11. CASE \E r \in Targets : Prepare(w, r)
    <3>1. PICK r \in Targets : Prepare(w, r)
      BY <2>11
    <3> DEFINE o == wrk[w].held
    <3>2. /\ o \in Outboxes
          /\ targets'[o][r] = SubmittedTarget(targets[o][r], wrk[w].now)
      BY <3>1, PrepareTypes
    <3>3. targets[o][r] \in Target /\ wrk[w].now \in Times
      BY <3>2, WorkerFacts DEF OutboxTypeOK
    <3>4. targets'[o][r].count = targets[o][r].count + 1
      BY <3>2, <3>3, SubmittedFacts
    <3>5. /\ wrk'[w].pc = "submit" /\ wrk'[w].held = o /\ wrk'[w].row = wrk[w].row
          /\ wrk'[w].authority = wrk[w].authority
          /\ wrk'[w].target = r /\ wrk'[w].entry = targets'[o][r]
          /\ \A v \in Workers \ {w} : wrk'[v] = wrk[v]
      BY <2>1, <3>1 DEF Prepare, Worker
    <3>6. Preparing(w) /\ UNCHANGED <<relay, sent>>
      BY <3>1, <3>2, <3>4, <3>5 DEF Preparing, Prepare, GoesOn
    <3> QED
      BY <3>5, <3>6 DEF ProcessStep
  <2>12. CASE \E answer \in Outcomes, kept \in BOOLEAN : Submit(w, answer, kept)
    <3>1. PICK answer \in Outcomes, kept \in BOOLEAN : Submit(w, answer, kept)
      BY <2>12
    <3>2. wrk[w].held \in Outboxes
      BY <3>1, WorkerFacts DEF Submit
    <3>3. /\ wrk'[w].pc = "record" /\ wrk'[w].held = wrk[w].held /\ wrk'[w].row = wrk[w].row
          /\ wrk'[w].authority = wrk[w].authority /\ wrk'[w].target = wrk[w].target
          /\ wrk'[w].entry = wrk[w].entry /\ wrk'[w].answer = answer
          /\ \A v \in Workers \ {w} : wrk'[v] = wrk[v]
      BY <2>1, <3>1 DEF Submit, Worker
    <3>4. Submitting(w)
      BY <3>1, <3>2, <3>3 DEF Submit, Submitting, GoesOn
    <3> QED
      BY <3>3, <3>4 DEF ProcessStep
  <2> QED
    BY <1>4, <2>5, <2>6, <2>7, <2>8, <2>9, <2>10, <2>11, <2>12 DEF WorkerStep
<1> QED
  BY <1>1, <1>2, <1>3, <1>4 DEF Next

(* An attempt row other than a recovery's unknown comes from an answer. *)
LEMMA NewEvidence ==
    ASSUME OutboxTypeOK, [Next]_vars, NEW a \in attempts', a \notin attempts
    PROVE  \/ a.outcome = "unknown"
           \/ \E w \in Workers :
                /\ wrk[w].pc = "record" /\ wrk[w].held = a.outbox
                /\ wrk[w].target = a.target /\ wrk[w].entry.count = a.number
<1>1. \A o, r, owner, t, outcome :
        LET x == AttemptRow(o, r, owner, t, outcome)
        IN  /\ x.outbox = o /\ x.target = r /\ x.number = targets[o][r].count
            /\ x.outcome = outcome
  BY DEF AttemptRow
<1>2. ASSUME NEW w \in Workers, Recover(w)
      PROVE  a.outcome = "unknown"
  <2>1. a \in {AttemptRow(wrk[w].held, r, rows[wrk[w].held].owner, wrk[w].now, "unknown") :
               r \in Submitted(wrk[w].held)}
    BY <1>2 DEF Recover
  <2> QED
    BY <1>1, <2>1
<1>3. ASSUME NEW w \in Workers, NEW t \in Times, NEW delay \in Nat, Record(w, t, delay)
      PROVE  /\ wrk[w].pc = "record" /\ wrk[w].held = a.outbox
             /\ wrk[w].target = a.target /\ wrk[w].entry.count = a.number
  <2>1. /\ a = AttemptRow(wrk[w].held, wrk[w].target, wrk[w].owner, t, wrk[w].answer)
        /\ wrk[w].pc = "record" /\ targets[wrk[w].held][wrk[w].target] = wrk[w].entry
    BY <1>3 DEF Record, Recordable, PreparedTarget
  <2> QED
    BY <1>1, <2>1
<1>4. CASE UNCHANGED vars
  BY <1>4 DEF vars, tables
<1>5. CASE \E o \in Outboxes, t \in Times, b \in Authorities : Insert(o, t, b)
  BY <1>5 DEF Insert
<1>6. CASE \E o \in Outboxes, t \in Times : PublicationRetry(o, t)
  BY <1>6 DEF PublicationRetry
<1>7. ASSUME NEW w \in Workers, WorkerStep(w)
      PROVE  Recover(w) \/ \E t \in Times, delay \in Nat : Record(w, t, delay)
  <2>1. CASE UNCHANGED <<tables, relay, sent, retries>>
    BY <2>1 DEF tables
  <2>2. CASE \/ \E o \in Outboxes : Claim(w, o)
             \/ \E r \in Targets : Prepare(w, r)
             \/ \E answer \in Outcomes, kept \in BOOLEAN : Submit(w, answer, kept)
    BY <2>2 DEF Claim, Prepare, Submit, tables
  <2>3. CASE \E t \in Times, delay \in 0 .. MaximumBackoff : Record(w, t, delay)
    BY <2>3
  <2> QED
    BY <1>7, <2>1, <2>2, <2>3, QuietTypes DEF WorkerStep
<1> QED
  BY <1>2, <1>3, <1>4, <1>5, <1>6, <1>7 DEF Next

(* A target becomes accepted only by an answer of acceptance. *)
LEMMA NewAcceptance ==
    ASSUME OutboxTypeOK, [Next]_vars, NEW o \in Outboxes, NEW r \in Targets,
           targets'[o][r].state = "accepted", targets[o][r].state # "accepted"
    PROVE  \E w \in Workers :
             /\ wrk[w].pc = "record" /\ wrk[w].answer = "accepted"
             /\ wrk[w].held = o /\ wrk[w].target = r
<1>1. targets[o][r] \in Target
  BY DEF OutboxTypeOK
<1>2. CASE UNCHANGED targets
  BY <1>2
<1>3. ASSUME NEW p \in Outboxes, NEW t \in Times, NEW a \in Authorities, Insert(p, t, a)
      PROVE  FALSE
  <2>1. targets'[o][r] = targets[o][r] \/ targets'[o][r] = InsertedTarget(t)
    BY <1>3 DEF Insert, OutboxTypeOK
  <2> QED
    BY <2>1, InsertedFacts
<1>4. ASSUME NEW p \in Outboxes, NEW t \in Times, PublicationRetry(p, t)
      PROVE  FALSE
  <2>1. targets'[o][r] = targets[o][r] \/ targets'[o][r] = ReopenedTarget(targets[o][r], t)
    BY <1>4, RetryTypes
  <2> QED
    BY <1>1, <2>1, ReopenedTargetFacts
<1>5. ASSUME NEW w \in Workers, NEW q \in Targets, Prepare(w, q)
      PROVE  FALSE
  <2>1. wrk[w].now \in Times
    BY WorkerFacts
  <2>2. targets'[o][r] = targets[o][r]
        \/ targets'[o][r] = SubmittedTarget(targets[o][r], wrk[w].now)
    BY <1>5, PrepareTypes
  <2> QED
    BY <1>1, <2>1, <2>2, SubmittedFacts
<1>6. ASSUME NEW w \in Workers, Recover(w)
      PROVE  FALSE
  <2> DEFINE ts == RecoveredTargets(wrk[w].held, wrk[w].now, wrk[w].delay)
  <2>1. wrk[w].pc = "recover" /\ Recoverable(w)
    BY <1>6 DEF Recover
  <2>2. \A q \in Targets :
          ts[q] = targets[wrk[w].held][q] \/ ts[q].state = "unknown"
    BY <2>1, RecoveredFacts
  <2>3. IF o = wrk[w].held THEN targets'[o] = ts ELSE targets'[o] = targets[o]
    BY <1>6, RecoverTypes
  <2> QED
    BY <2>2, <2>3
<1>7. ASSUME NEW w \in Workers, NEW t \in Times, NEW delay \in Nat, Record(w, t, delay)
      PROVE  /\ wrk[w].pc = "record" /\ wrk[w].answer = "accepted"
             /\ wrk[w].held = o /\ wrk[w].target = r
  <2> DEFINE ts == TargetsAfter(w, t, delay)
  <2>1. wrk[w].pc = "record" /\ Recordable(w, t, delay)
    BY <1>7 DEF Record
  <2>2. /\ ts[wrk[w].target].state = wrk[w].answer
        /\ \A q \in Targets \ {wrk[w].target} : ts[q] = targets[wrk[w].held][q]
    BY <2>1, AnsweredFacts
  <2>3. IF o = wrk[w].held THEN targets'[o] = ts ELSE targets'[o] = targets[o]
    BY <1>7, RecordTypes
  <2> QED
    BY <2>1, <2>2, <2>3
<1>8. ASSUME NEW w \in Workers, WorkerStep(w)
      PROVE  \/ UNCHANGED targets \/ Recover(w)
             \/ \E q \in Targets : Prepare(w, q)
             \/ \E t \in Times, delay \in Nat : Record(w, t, delay)
  <2>1. CASE UNCHANGED <<tables, relay, sent, retries>>
    BY <2>1 DEF tables
  <2>2. CASE \/ \E p \in Outboxes : Claim(w, p)
             \/ \E answer \in Outcomes, kept \in BOOLEAN : Submit(w, answer, kept)
    BY <2>2 DEF Claim, Submit, tables
  <2>3. CASE \E t \in Times, delay \in 0 .. MaximumBackoff : Record(w, t, delay)
    BY <2>3
  <2> QED
    BY <1>8, <2>1, <2>2, <2>3, QuietTypes DEF WorkerStep
<1>9. CASE UNCHANGED vars
  BY <1>2, <1>9 DEF vars, tables
<1> QED
  BY <1>2, <1>3, <1>4, <1>5, <1>6, <1>7, <1>8, <1>9 DEF Next

-----------------------------------------------------------------------------
(* Delivery *)

(* CompleteIsDelivered made inductive: what is recorded, or about to be, as *)
(* accepted is at the relay, and only full acceptance completes an outbox.  *)
Delivery ==
    /\ \A o \in Outboxes, r \in Targets :
         targets[o][r].state = "accepted" => <<o, r>> \in relay
    /\ \A w \in Workers :
         wrk[w].pc = "record" /\ wrk[w].answer = "accepted" =>
           <<wrk[w].held, wrk[w].target>> \in relay
    /\ \A o \in Outboxes : rows[o].state = "complete" => AllRequired(targets[o])

(* No step breaks Delivery. *)
LEMMA DeliveryStep ==
    ASSUME OutboxTypeOK, AbsentIsBlank, Delivery, [Next]_vars
    PROVE  Delivery'
<1>1. relay \subseteq relay'
  BY ProcessSteps DEF ProcessStep, Submitting
<1>2. ASSUME NEW o \in Outboxes, NEW r \in Targets, targets'[o][r].state = "accepted"
      PROVE  <<o, r>> \in relay'
  BY <1>1, <1>2, NewAcceptance DEF Delivery
<1>3. ASSUME NEW w \in Workers, wrk'[w].pc = "record", wrk'[w].answer = "accepted"
      PROVE  <<wrk'[w].held, wrk'[w].target>> \in relay'
  <2>1. CASE wrk'[w] = wrk[w]
    BY <1>1, <1>3, <2>1 DEF Delivery
  <2>2. CASE Submitting(w)
    BY <1>3, <2>2 DEF Submitting, GoesOn
  <2>3. wrk'[w] = wrk[w] \/ Submitting(w)
    BY <1>3, ProcessSteps DEF ProcessStep, Rested, Claiming, Preparing
  <2> QED
    BY <2>1, <2>2, <2>3
<1>4. ASSUME NEW o \in Outboxes, rows'[o].state = "complete"
      PROVE  AllRequired(targets'[o])
  <2>1. rows[o] \in Row
    BY DEF OutboxTypeOK
  <2>2. CASE rows'[o] = rows[o] /\ targets'[o] = targets[o]
    BY <1>4, <2>2 DEF Delivery
  <2>3. CASE OutboxStep(o)
    <3>1. CASE rows'[o] = rows[o]
      BY <1>4, <2>3, <3>1 DEF OutboxStep, Inserted, Leased, Prepared, Concluded, Reopened
    <3>2. CASE rows'[o] # rows[o]
      <4>1. rows[o].state = "leased"
        BY <1>4, <2>3, <3>2, RowStepFacts
      <4> QED
        BY <1>4, <2>3, <3>2, <4>1 DEF OutboxStep, Inserted, Leased, Prepared, Concluded, Reopened
    <3> QED
      BY <3>1, <3>2
  <2> QED
    BY <2>2, <2>3, TableSteps DEF TableStep, Kept
<1> QED
  BY <1>2, <1>3, <1>4 DEF Delivery

(* A complete outbox is held by every required relay, whatever was lost,   *)
(* repeated or recovered on the way.                                       *)
THEOREM CompleteDelivered == Spec => []CompleteIsDelivered
<1>1. Init => AbsentIsBlank /\ Delivery
  <2> SUFFICES ASSUME Init PROVE AbsentIsBlank /\ Delivery
    OBVIOUS
  <2>1. AbsentIsBlank
    BY DEF Init, AbsentIsBlank
  <2>2. \A w \in Workers : wrk[w].pc = "crashed"
    BY DEF Init, Resting
  <2> QED
    BY <2>1, <2>2, NoRowFacts, NoTargetFacts DEF Init, Delivery
<1>2. OutboxTypeOK /\ AbsentIsBlank /\ Delivery /\ [Next]_vars => AbsentIsBlank' /\ Delivery'
  BY AbsentStep, DeliveryStep
<1>3. Delivery => CompleteIsDelivered
  BY RequiredFacts DEF Delivery, CompleteIsDelivered, AllRequired
<1> QED
  BY <1>1, <1>2, <1>3, OutboxTypeCorrect, PTL DEF Spec

-----------------------------------------------------------------------------
(* Submissions and their evidence *)

InFlight(w) == wrk[w].pc \in {"submit", "record"}
AttemptOf(w) == <<wrk[w].held, wrk[w].target, wrk[w].entry.count>>

(* AttemptsGoOutOnce and EvidenceIsObserved made inductive: an attempt      *)
(* number in use or used is at most the durable count, which prepare raises *)
(* before it hands the number out, so two workers never hold the same one.  *)
CountsBound ==
    /\ \A o \in Outboxes, r \in Targets, n \in Nat :
         <<o, r, n>> \in sent => n <= targets[o][r].count
    /\ \A w \in Workers : InFlight(w) =>
         wrk[w].entry.count <= targets[wrk[w].held][wrk[w].target].count

Distinct ==
    /\ \A v, w \in Workers : InFlight(v) /\ InFlight(w) /\ v # w => AttemptOf(v) # AttemptOf(w)
    /\ \A w \in Workers : wrk[w].pc = "record" => AttemptOf(w) \in sent

(* A durable count never falls. *)
LEMMA CountsGrow ==
    ASSUME OutboxTypeOK, AbsentIsBlank, [Next]_vars, NEW o \in Outboxes, NEW r \in Targets
    PROVE  /\ targets[o][r].count \in Nat /\ targets'[o][r].count \in Nat
           /\ targets[o][r].count <= targets'[o][r].count
<1>1. targets[o][r].count \in Nat
  BY DEF OutboxTypeOK, Target
<1>2. OutboxStep(o) \/ targets'[o] = targets[o]
  BY TableSteps DEF TableStep, Kept
<1>3. targets'[o][r].count \in {targets[o][r].count, targets[o][r].count + 1}
  BY <1>2, TargetStepFacts
<1> QED
  BY <1>1, <1>3

(* A worker in flight holds an attempt of some target. *)
LEMMA InFlightFacts ==
    ASSUME OutboxTypeOK, NEW w \in Workers, InFlight(w)
    PROVE  /\ wrk[w].held \in Outboxes /\ wrk[w].target \in Targets
           /\ wrk[w].entry.count \in Nat
BY WorkerFacts DEF InFlight, Target

(* A step leaves a worker alone, takes it out of flight, gives it a new *)
(* attempt or moves its attempt from submit to record.                  *)
LEMMA FlightCases ==
    ASSUME OutboxTypeOK, [Next]_vars, NEW w \in Workers, InFlight(w)'
    PROVE  \/ wrk'[w] = wrk[w]
           \/ /\ Preparing(w) /\ sent' = sent
              /\ \A v \in Workers \ {w} : wrk'[v] = wrk[v]
           \/ Submitting(w) /\ \A v \in Workers \ {w} : wrk'[v] = wrk[v]
BY ProcessSteps DEF ProcessStep, Rested, Claiming, InFlight

(* The counts bound what is in flight and what went out. *)
LEMMA BoundStep ==
    ASSUME OutboxTypeOK, AbsentIsBlank, CountsBound, [Next]_vars
    PROVE  CountsBound'
<1>1. ASSUME NEW o \in Outboxes, NEW r \in Targets, NEW n \in Nat, <<o, r, n>> \in sent'
      PROVE  n <= targets'[o][r].count
  <2>1. n <= targets[o][r].count
    <3>1. CASE <<o, r, n>> \in sent
      BY <3>1 DEF CountsBound
    <3>2. CASE <<o, r, n>> \notin sent
      <4>1. PICK w \in Workers : Submitting(w) /\ <<o, r, n>> = AttemptOf(w)
        BY <1>1, <3>2, ProcessSteps DEF ProcessStep, Submitting, AttemptOf
      <4> QED
        BY <4>1 DEF CountsBound, Submitting, InFlight, AttemptOf
    <3> QED
      BY <3>1, <3>2
  <2> QED
    BY <2>1, CountsGrow
<1>2. ASSUME NEW w \in Workers, InFlight(w)'
      PROVE  wrk'[w].entry.count <= targets'[wrk'[w].held][wrk'[w].target].count
  <2>1. ASSUME wrk'[w].held = wrk[w].held, wrk'[w].target = wrk[w].target,
               wrk'[w].entry = wrk[w].entry, InFlight(w)
        PROVE  wrk'[w].entry.count <= targets'[wrk'[w].held][wrk'[w].target].count
    <3>1. /\ wrk[w].held \in Outboxes /\ wrk[w].target \in Targets
          /\ wrk[w].entry.count \in Nat
      BY <2>1, InFlightFacts
    <3>2. wrk[w].entry.count <= targets[wrk[w].held][wrk[w].target].count
      BY <2>1 DEF CountsBound
    <3> QED
      BY <2>1, <3>1, <3>2, CountsGrow
  <2>2. CASE wrk'[w] = wrk[w]
    BY <1>2, <2>1, <2>2 DEF InFlight
  <2>3. CASE Submitting(w)
    BY <2>1, <2>3 DEF Submitting, GoesOn, InFlight
  <2>4. CASE Preparing(w)
    <3>1. /\ wrk'[w].held \in Outboxes /\ wrk'[w].target \in Targets
          /\ wrk'[w].entry.count = targets'[wrk'[w].held][wrk'[w].target].count
      BY <2>4 DEF Preparing, GoesOn
    <3>2. targets'[wrk'[w].held][wrk'[w].target].count \in Nat
      BY <3>1, CountsGrow
    <3> QED
      BY <3>1, <3>2
  <2> QED
    BY <1>2, <2>2, <2>3, <2>4, FlightCases
<1> QED
  BY <1>1, <1>2 DEF CountsBound

(* A prepared attempt number is new. *)
LEMMA PreparedIsNew ==
    ASSUME OutboxTypeOK, AbsentIsBlank, CountsBound, NEW w \in Workers, Preparing(w)
    PROVE  LET new == <<wrk'[w].held, wrk'[w].target, wrk'[w].entry.count>>
           IN  /\ new \notin sent
               /\ \A v \in Workers : InFlight(v) => AttemptOf(v) # new
<1> DEFINE o == wrk'[w].held
           r == wrk'[w].target
           n == wrk'[w].entry.count
<1>1. o \in Outboxes /\ r \in Targets /\ n = targets[o][r].count + 1
  BY DEF Preparing, GoesOn
<1>2. targets[o][r].count \in Nat /\ n \in Nat
  BY <1>1 DEF OutboxTypeOK, Target
<1>3. <<o, r, n>> \notin sent
  BY <1>1, <1>2 DEF CountsBound
<1>4. ASSUME NEW v \in Workers, InFlight(v), AttemptOf(v) = <<o, r, n>>
      PROVE  FALSE
  <2>1. wrk[v].held = o /\ wrk[v].target = r /\ wrk[v].entry.count = n
    BY <1>4 DEF AttemptOf
  <2>2. n <= targets[o][r].count
    BY <1>4, <2>1 DEF CountsBound
  <2> QED
    BY <1>1, <1>2, <2>2
<1> QED
  BY <1>3, <1>4

(* The attempts in flight stay distinct, and a recorder's went out. *)
LEMMA DistinctStep ==
    ASSUME OutboxTypeOK, AbsentIsBlank, CountsBound, Distinct, [Next]_vars
    PROVE  Distinct'
<1>1. \A w \in Workers :
        AttemptOf(w)' = <<wrk'[w].held, wrk'[w].target, wrk'[w].entry.count>>
  BY DEF AttemptOf
<1>2. \A w \in Workers : InFlight(w)' <=> wrk'[w].pc \in {"submit", "record"}
  BY DEF InFlight
<1>3. ASSUME NEW w \in Workers, InFlight(w)'
      PROVE  \/ InFlight(w) /\ AttemptOf(w)' = AttemptOf(w)
             \/ Preparing(w) /\ \A v \in Workers \ {w} : wrk'[v] = wrk[v]
  <2>1. CASE wrk'[w] = wrk[w]
    BY <1>1, <1>2, <1>3, <2>1 DEF InFlight, AttemptOf
  <2>2. CASE Submitting(w)
    BY <1>1, <2>2 DEF Submitting, GoesOn, InFlight, AttemptOf
  <2> QED
    BY <1>3, <2>1, <2>2, FlightCases
<1>4. ASSUME NEW v \in Workers, NEW w \in Workers, v # w, InFlight(v)', InFlight(w)',
             AttemptOf(v)' = AttemptOf(w)', Preparing(w),
             \A u \in Workers \ {w} : wrk'[u] = wrk[u]
      PROVE  FALSE
  <2>1. InFlight(v) /\ AttemptOf(v) = AttemptOf(v)'
    BY <1>1, <1>2, <1>4 DEF InFlight, AttemptOf
  <2>2. AttemptOf(v) # AttemptOf(w)'
    BY <1>1, <1>4, <2>1, PreparedIsNew
  <2> QED
    BY <1>4, <2>1, <2>2
<1>5. ASSUME NEW v \in Workers, NEW w \in Workers, v # w, InFlight(v)', InFlight(w)'
      PROVE  AttemptOf(v)' # AttemptOf(w)'
  <2>1. CASE InFlight(v) /\ AttemptOf(v)' = AttemptOf(v)
             /\ InFlight(w) /\ AttemptOf(w)' = AttemptOf(w)
    BY <1>5, <2>1 DEF Distinct
  <2> QED
    BY <1>3, <1>4, <1>5, <2>1
<1>6. ASSUME NEW w \in Workers, wrk'[w].pc = "record"
      PROVE  AttemptOf(w)' \in sent'
  <2>1. sent \subseteq sent'
    BY ProcessSteps DEF ProcessStep, Submitting
  <2>2. CASE wrk'[w] = wrk[w]
    BY <1>1, <1>6, <2>1, <2>2 DEF Distinct, AttemptOf
  <2>3. CASE Submitting(w)
    BY <1>1, <2>3 DEF Submitting, GoesOn
  <2> QED
    BY <1>2, <1>6, <2>2, <2>3, FlightCases DEF Preparing
<1> QED
  BY <1>5, <1>6 DEF Distinct

(* What is about to go out has not gone out. *)
LEMMA OnceStep ==
    ASSUME OutboxTypeOK, AbsentIsBlank, CountsBound, Distinct, AttemptsGoOutOnce, [Next]_vars
    PROVE  AttemptsGoOutOnce'
<1> SUFFICES ASSUME NEW w \in Workers, wrk'[w].pc = "submit"
             PROVE  <<wrk'[w].held, wrk'[w].target, wrk'[w].entry.count>> \notin sent'
  BY DEF AttemptsGoOutOnce
<1>1. InFlight(w)'
  BY DEF InFlight
<1>2. CASE Preparing(w) /\ sent' = sent
  BY <1>2, PreparedIsNew
<1>3. CASE wrk'[w] = wrk[w]
  <2>1. AttemptOf(w) \notin sent /\ InFlight(w)
    BY <1>3 DEF AttemptsGoOutOnce, AttemptOf, InFlight
  <2>2. CASE sent' = sent
    BY <1>3, <2>1, <2>2 DEF AttemptOf
  <2>3. ASSUME NEW v \in Workers, Submitting(v), v # w
        PROVE  AttemptOf(w) \notin sent'
    <3>1. sent' = sent \cup {AttemptOf(v)} /\ InFlight(v)
      BY <2>3 DEF Submitting, AttemptOf, InFlight
    <3>2. AttemptOf(v) # AttemptOf(w)
      BY <2>1, <2>3, <3>1 DEF Distinct
    <3> QED
      BY <2>1, <3>1, <3>2
  <2>4. sent' = sent \/ \E v \in Workers \ {w} : Submitting(v)
    BY <1>3, ProcessSteps DEF ProcessStep, Submitting
  <2> QED
    BY <1>3, <2>2, <2>3, <2>4 DEF AttemptOf
<1> QED
  BY <1>1, <1>2, <1>3, FlightCases DEF Submitting

(* The inductive invariant of the submissions holds. *)
LEMMA SubmissionsHold == Spec => [](AbsentIsBlank /\ CountsBound /\ Distinct /\ AttemptsGoOutOnce)
<1> DEFINE Inv == AbsentIsBlank /\ CountsBound /\ Distinct /\ AttemptsGoOutOnce
<1>1. Init => Inv
  <2> SUFFICES ASSUME Init PROVE Inv
    OBVIOUS
  <2>1. AbsentIsBlank
    BY DEF Init, AbsentIsBlank
  <2>2. \A w \in Workers : wrk[w].pc = "crashed"
    BY DEF Init, Resting
  <2> QED
    BY <2>1, <2>2 DEF Init, CountsBound, Distinct, AttemptsGoOutOnce, InFlight
<1>2. OutboxTypeOK /\ Inv /\ [Next]_vars => Inv'
  BY AbsentStep, BoundStep, DistinctStep, OnceStep
<1> QED
  BY <1>1, <1>2, OutboxTypeCorrect, PTL DEF Spec

(* The attempt number is durable before its bytes go out: no two processes, *)
(* before or after a crash or a recovery, submit under one attempt identity. *)
THEOREM AttemptsGoOutOnceHolds == Spec => []AttemptsGoOutOnce
BY SubmissionsHold, PTL

(* An attempt row with an outcome other than unknown is of an attempt that *)
(* went out: recovery invents no answers and late recorders add none.      *)
THEOREM EvidenceIsObservedHolds == Spec => []EvidenceIsObserved
<1>1. Init => EvidenceIsObserved
  BY DEF Init, EvidenceIsObserved
<1>2. OutboxTypeOK /\ Distinct /\ EvidenceIsObserved /\ [Next]_vars => EvidenceIsObserved'
  <2> SUFFICES ASSUME OutboxTypeOK, Distinct, EvidenceIsObserved, [Next]_vars,
                      NEW a \in attempts', a.outcome # "unknown"
               PROVE  <<a.outbox, a.target, a.number>> \in sent'
    BY DEF EvidenceIsObserved
  <2>1. sent \subseteq sent'
    BY ProcessSteps DEF ProcessStep, Submitting
  <2>2. CASE a \in attempts
    BY <2>1, <2>2 DEF EvidenceIsObserved
  <2>3. CASE a \notin attempts
    BY <2>1, <2>3, NewEvidence DEF Distinct, AttemptOf
  <2> QED
    BY <2>2, <2>3
<1> QED
  BY <1>1, <1>2, SubmissionsHold, OutboxTypeCorrect, PTL DEF Spec

-----------------------------------------------------------------------------
(* The authority fence *)

(* ServedUnderItsAuthority made inductive: from its claim on, a worker holds *)
(* a committed outbox of its own authority.                                  *)
HeldUnderAuthority ==
    \A w \in Workers : wrk[w].pc \in {"prepare", "submit", "record"} =>
      /\ rows[wrk[w].held].state # "absent"
      /\ rows[wrk[w].held].authority = wrk[w].authority

(* A committed outbox keeps its authority. *)
LEMMA AuthorityKept ==
    ASSUME OutboxTypeOK, AbsentIsBlank, [Next]_vars, NEW o \in Outboxes,
           rows[o].state # "absent"
    PROVE  rows'[o].state # "absent" /\ rows'[o].authority = rows[o].authority
<1>1. rows[o] \in Row
  BY DEF OutboxTypeOK
<1>2. CASE OutboxStep(o)
  <2>1. rows'[o].state # "absent"
    BY <1>2, RowStepFacts
  <2>2. CASE Leased(o)
    BY <1>1, <2>1, <2>2, ClaimedFacts DEF Leased
  <2>3. CASE Prepared(o) \/ Concluded(o)
    BY <2>1, <2>3 DEF Prepared, Concluded
  <2>4. CASE Reopened(o)
    BY <1>1, <2>1, <2>4, ReopenedRowFacts DEF Reopened
  <2> QED
    BY <1>2, <2>2, <2>3, <2>4 DEF OutboxStep, Inserted
<1>3. OutboxStep(o) \/ rows'[o] = rows[o]
  BY TableSteps DEF TableStep, Kept
<1> QED
  BY <1>2, <1>3

(* Whatever the configuration becomes between starts, a report goes out only *)
(* under the publication authority it was committed with.                    *)
THEOREM ServedUnderItsAuthorityHolds == Spec => []ServedUnderItsAuthority
<1>1. Init => HeldUnderAuthority
  BY DEF Init, Resting, HeldUnderAuthority
<1>2. OutboxTypeOK /\ AbsentIsBlank /\ HeldUnderAuthority /\ [Next]_vars => HeldUnderAuthority'
  <2> SUFFICES ASSUME OutboxTypeOK, AbsentIsBlank, HeldUnderAuthority, [Next]_vars,
                      NEW w \in Workers, wrk'[w].pc \in {"prepare", "submit", "record"}
               PROVE  /\ rows'[wrk'[w].held].state # "absent"
                      /\ rows'[wrk'[w].held].authority = wrk'[w].authority
    BY DEF HeldUnderAuthority
  <2>1. CASE Claiming(w)
    BY <2>1 DEF Claiming
  <2>2. CASE /\ wrk[w].pc \in {"prepare", "submit", "record"}
             /\ wrk'[w].held = wrk[w].held /\ wrk'[w].authority = wrk[w].authority
    <3>1. wrk[w].held \in Outboxes
      BY <2>2, WorkerFacts
    <3>2. /\ rows[wrk[w].held].state # "absent"
          /\ rows[wrk[w].held].authority = wrk[w].authority
      BY <2>2 DEF HeldUnderAuthority
    <3> QED
      BY <2>2, <3>1, <3>2, AuthorityKept
  <2> QED
    BY <2>1, <2>2, ProcessSteps DEF ProcessStep, Rested, Preparing, Submitting, GoesOn
<1>3. HeldUnderAuthority => ServedUnderItsAuthority
  BY DEF HeldUnderAuthority, ServedUnderItsAuthority
<1> QED
  BY <1>1, <1>2, <1>3, SubmissionsHold, OutboxTypeCorrect, PTL DEF Spec

-----------------------------------------------------------------------------
(***************************************************************************)
(* The three tables of the publication outbox tell one story: TablesAgree, *)
(* for every retry policy, every number of workers and every clock.  The   *)
(* argument is the lease fence: of the workers that hold an outbox at most *)
(* one still holds the row as it is stored, and only that one may prepare, *)
(* so a lease has at most one target in flight and an attempt one row.     *)
(***************************************************************************)

(* The inductive invariant *)

RowsOf(o, r) == {a \in attempts : a.outbox = o /\ a.target = r}
LastRecorded(o, r) ==
    IF r \in Submitted(o) THEN targets[o][r].count - 1 ELSE targets[o][r].count

Holding(w) == wrk[w].pc \in {"prepare", "submit", "record"}
Exact(w) == Holding(w) /\ rows[wrk[w].held] = wrk[w].row

(* The lease fence: a worker's row is of the past or exact, two workers are *)
(* not exact on one outbox, and an exact worker that has yet to prepare has *)
(* nothing in flight.                                                       *)
LeaseFence ==
    /\ \A w \in Workers : Holding(w) => wrk[w].row.revision <= rows[wrk[w].held].revision
    /\ \A v, w \in Workers : Exact(v) /\ Exact(w) /\ wrk[v].held = wrk[w].held => v = w
    /\ \A w \in Workers : Exact(w) /\ wrk[w].pc = "prepare" => Submitted(wrk[w].held) = {}

(* OneInFlight without its cardinality. *)
SoleFlight ==
    \A o \in Outboxes :
      /\ \A q, r \in Submitted(o) : q = r
      /\ Submitted(o) # {} => rows[o].state = "leased"

(* EvidenceIsGapless with the finiteness its cardinality needs. *)
Evidence ==
    \A o \in Outboxes, r \in Targets :
      /\ IsFiniteSet(RowsOf(o, r))
      /\ {a.number : a \in RowsOf(o, r)} = 1 .. LastRecorded(o, r)
      /\ Cardinality(RowsOf(o, r)) = LastRecorded(o, r)

(* A scheduled target can be retried, and until an operator intervenes has a *)
(* try left; an outbox is blocked by an attempt or a recovery only.          *)
SchedulesFit ==
    /\ \A o \in Outboxes, r \in Targets : targets[o][r].next # Null =>
         /\ RetryableState(targets[o][r])
         /\ retries = 0 => targets[o][r].count < MaxAttempts
    /\ \A o \in Outboxes :
         /\ rows[o].state # "absent" => rows[o].revision > 0
         /\ rows[o].state = "blocked" => rows[o].revision > 1

-----------------------------------------------------------------------------
(* What one step does to the tables of one outbox *)

Same(o) ==
    /\ rows'[o] = rows[o] /\ targets'[o] = targets[o]
    /\ \A r \in Targets : RowsOf(o, r)' = RowsOf(o, r)

Committed(o) ==
    /\ rows[o].state = "absent"
    /\ rows'[o].state = "pending" /\ rows'[o].revision = 1 /\ rows'[o].next \in Times
    /\ \A r \in Targets :
         /\ targets'[o][r].state = "pending" /\ targets'[o][r].count = 0
         /\ targets'[o][r].next = rows'[o].next /\ RowsOf(o, r)' = RowsOf(o, r)

Claimed(o) ==
    /\ rows[o].state = "pending"
    /\ rows'[o].state = "leased" /\ rows'[o].revision = rows[o].revision + 1
    /\ targets'[o] = targets[o]
    /\ \A r \in Targets : RowsOf(o, r)' = RowsOf(o, r)

Sending(o) ==
    \E w \in Workers, r \in Targets :
      /\ wrk[w].pc = "prepare" /\ Exact(w) /\ wrk[w].held = o /\ wrk'[w].pc = "submit"
      /\ rows[o].state = "leased" /\ rows'[o] = rows[o]
      /\ RetryableState(targets[o][r])
      /\ targets'[o][r].state = "submitted" /\ targets'[o][r].next = Null
      /\ targets'[o][r].count = targets[o][r].count + 1
      /\ \A q \in Targets \ {r} : targets'[o][q] = targets[o][q]
      /\ \A q \in Targets : RowsOf(o, q)' = RowsOf(o, q)

(* The target r, in flight, gets an outcome, a schedule that fits it, and *)
(* the attempt row that was missing.                                      *)
Answers(o, r) ==
    /\ targets'[o][r].state \in AllOutcomes
    /\ targets'[o][r].count = targets[o][r].count
    /\ targets'[o][r].next # Null =>
         RetryableOutcome(targets'[o][r].state) /\ targets'[o][r].count < MaxAttempts
    /\ \E x : /\ x \notin RowsOf(o, r) /\ x.number = targets[o][r].count
              /\ RowsOf(o, r)' = RowsOf(o, r) \cup {x}

Concluding(o) ==
    /\ rows[o].state = "leased" /\ rows'[o].revision = rows[o].revision + 1
    /\ HasDisposition(targets'[o])
    /\ rows'[o].state = Disposition(targets'[o]).state
    /\ rows'[o].next = Disposition(targets'[o]).next
    /\ \A r \in Targets \ Submitted(o) :
         targets'[o][r] = targets[o][r] /\ RowsOf(o, r)' = RowsOf(o, r)
    /\ \A r \in Submitted(o) : Answers(o, r)

Reopening(o) ==
    /\ rows[o].state = "blocked" /\ retries' = retries + 1
    /\ rows'[o].state = "pending" /\ rows'[o].revision = rows[o].revision + 1
    /\ rows'[o].next \in Times
    /\ \A r \in Targets :
         /\ RowsOf(o, r)' = RowsOf(o, r)
         /\ targets[o][r].state = "accepted" => targets'[o][r] = targets[o][r]
         /\ targets[o][r].state # "accepted" =>
              /\ targets'[o][r].state = "pending" /\ targets'[o][r].next = rows'[o].next
              /\ targets'[o][r].count = targets[o][r].count

Moved(o) ==
    Same(o) \/ Committed(o) \/ Claimed(o) \/ Sending(o) \/ Concluding(o) \/ Reopening(o)

(* Unchanged tables are the same tables. *)
LEMMA SameTables ==
    ASSUME UNCHANGED tables, NEW o \in Outboxes
    PROVE  Same(o)
BY DEF tables, Same, RowsOf

(* A recovery concludes: every target in flight is unknown now. *)
LEMMA RecoverMoves ==
    ASSUME OutboxTypeOK, NEW w \in Workers, Recover(w), NEW p \in Outboxes
    PROVE  Moved(p)
<1>0. PICK o \in Outboxes : o = wrk[w].held
  BY WorkerFacts DEF Recover
<1> DEFINE t == wrk[w].now
           ts == RecoveredTargets(o, t, wrk[w].delay)
           x(r) == AttemptRow(o, r, rows[o].owner, t, "unknown")
<1>1. wrk[w].pc = "recover" /\ Recoverable(w)
  BY DEF Recover
<1>2. /\ o \in Outboxes /\ ts \in [Targets -> Target] /\ HasDisposition(ts)
      /\ rows[o].state = "leased"
      /\ rows'[o].state = Disposition(ts).state /\ rows'[o].next = Disposition(ts).next
      /\ rows'[o].revision = rows[o].revision + 1 /\ targets'[o] = ts
      /\ \A q \in Outboxes : q # o => rows'[q] = rows[q] /\ targets'[q] = targets[q]
  BY <1>0, RecoverTypes
<1>3. /\ \A r \in Targets \ Submitted(o) : ts[r] = targets[o][r]
      /\ \A r \in Submitted(o) :
           /\ ts[r].state = "unknown" /\ ts[r].count = targets[o][r].count
           /\ ts[r].next # Null => ts[r].count < MaxAttempts
  BY <1>0, <1>1, RecoveredFacts
<1>4. attempts' = attempts \cup {x(r) : r \in Submitted(o)}
  BY <1>0 DEF Recover
<1>5. \A r \in Submitted(o) : ~Recorded(o, r, targets[o][r].count)
  BY <1>0, <1>1 DEF Recoverable
<1>6. \A r : x(r).outbox = o /\ x(r).target = r /\ x(r).number = targets[o][r].count
  BY DEF AttemptRow
<1> HIDE DEF t, ts, x
<1>7. \A q, r : q # o \/ r \notin Submitted(o) => RowsOf(q, r)' = RowsOf(q, r)
  BY <1>4, <1>6 DEF RowsOf
<1>8. \A r \in Submitted(o) :
        /\ x(r) \notin RowsOf(o, r) /\ x(r).number = targets[o][r].count
        /\ RowsOf(o, r)' = RowsOf(o, r) \cup {x(r)}
  BY <1>4, <1>5, <1>6 DEF RowsOf, Recorded
<1>9. CASE p # o
  BY <1>2, <1>7, <1>9 DEF Moved, Same
<1>10. CASE p = o
  <2>1. \A r \in Submitted(o) : Answers(o, r)
    BY <1>2, <1>3, <1>8 DEF Answers, AllOutcomes, TargetStates, RetryableOutcome
  <2>2. Concluding(o)
    BY <1>2, <1>3, <1>7, <2>1 DEF Concluding
  <2> QED
    BY <1>10, <2>2 DEF Moved
<1> QED
  BY <1>9, <1>10

(* So does a recorded answer: the target it is for is the one in flight. *)
LEMMA RecordMoves ==
    ASSUME OutboxTypeOK, SoleFlight, NEW w \in Workers, NEW t \in Times, NEW delay \in Nat,
           Record(w, t, delay), NEW p \in Outboxes
    PROVE  Moved(p)
<1>0. PICK o \in Outboxes, r \in Targets : o = wrk[w].held /\ r = wrk[w].target
  BY WorkerFacts DEF Record
<1> DEFINE ts == TargetsAfter(w, t, delay)
           x == AttemptRow(o, r, wrk[w].owner, t, wrk[w].answer)
<1>1. wrk[w].pc = "record" /\ Recordable(w, t, delay)
  BY DEF Record
<1>2. /\ o \in Outboxes /\ ts \in [Targets -> Target] /\ HasDisposition(ts)
      /\ rows[o].state = "leased"
      /\ rows'[o].state = Disposition(ts).state /\ rows'[o].next = Disposition(ts).next
      /\ rows'[o].revision = rows[o].revision + 1 /\ targets'[o] = ts
      /\ \A q \in Outboxes : q # o => rows'[q] = rows[q] /\ targets'[q] = targets[q]
  BY <1>0, RecordTypes
<1>3. /\ r \in Targets /\ r \in Submitted(o) /\ targets[o][r] = wrk[w].entry
      /\ \A q \in Targets \ {r} : ts[q] = targets[o][q]
      /\ ts[r].state \in AllOutcomes /\ ts[r].count = targets[o][r].count
      /\ ts[r].next # Null => RetryableOutcome(ts[r].state) /\ ts[r].count < MaxAttempts
  BY <1>0, <1>1, AnsweredFacts
<1>4. Submitted(o) = {r}
  BY <1>2, <1>3 DEF SoleFlight
<1>5. attempts' = attempts \cup {x}
  BY <1>0 DEF Record
<1>6. ~Recorded(o, r, targets[o][r].count)
  BY <1>0, <1>1, <1>3 DEF Recordable, AlreadyRecorded
<1>7. x.outbox = o /\ x.target = r /\ x.number = targets[o][r].count
  BY DEF AttemptRow
<1> HIDE DEF ts, x
<1>8. \A q, s : q # o \/ s # r => RowsOf(q, s)' = RowsOf(q, s)
  BY <1>5, <1>7 DEF RowsOf
<1>9. /\ x \notin RowsOf(o, r) /\ x.number = targets[o][r].count
      /\ RowsOf(o, r)' = RowsOf(o, r) \cup {x}
  BY <1>5, <1>6, <1>7 DEF RowsOf, Recorded
<1>10. CASE p # o
  BY <1>2, <1>8, <1>10 DEF Moved, Same
<1>11. CASE p = o
  <2>1. Answers(o, r)
    BY <1>2, <1>3, <1>9 DEF Answers
  <2>2. Concluding(o)
    BY <1>2, <1>3, <1>4, <1>8, <2>1 DEF Concluding
  <2> QED
    BY <1>11, <2>2 DEF Moved
<1> QED
  BY <1>10, <1>11

(* Every step is, for every outbox, one of the moves. *)
LEMMA Moves ==
    ASSUME OutboxTypeOK, SoleFlight, [Next]_vars, NEW p \in Outboxes
    PROVE  Moved(p) /\ (retries' = retries \/ retries' = retries + 1)
<1>1. CASE UNCHANGED vars
  BY <1>1, SameTables DEF vars, Moved
<1>2. ASSUME NEW o \in Outboxes, NEW t \in Times, NEW a \in Authorities, Insert(o, t, a)
      PROVE  Moved(p) /\ retries' = retries
  <2>1. /\ rows'[o] = InsertedRow(t, a)
        /\ \A r \in Targets : targets'[o][r] = InsertedTarget(t)
        /\ \A q \in Outboxes \ {o} : rows'[q] = rows[q] /\ targets'[q] = targets[q]
    BY <1>2 DEF Insert, OutboxTypeOK
  <2>2. \A q, r : RowsOf(q, r)' = RowsOf(q, r)
    BY <1>2 DEF Insert, RowsOf
  <2>3. /\ rows'[o].state = "pending" /\ rows'[o].revision = 1 /\ rows'[o].next = t
        /\ \A r \in Targets :
             /\ targets'[o][r].state = "pending" /\ targets'[o][r].count = 0
             /\ targets'[o][r].next = t
    BY <2>1, InsertedFacts
  <2>4. CASE p = o
    <3>1. Committed(o)
      BY <1>2, <2>2, <2>3 DEF Insert, Committed
    <3> QED
      BY <1>2, <2>4, <3>1 DEF Moved, Insert
  <2>5. CASE p # o
    BY <1>2, <2>1, <2>2, <2>5 DEF Moved, Same, Insert
  <2> QED
    BY <1>2, <2>4, <2>5 DEF Insert
<1>3. ASSUME NEW o \in Outboxes, NEW t \in Times, PublicationRetry(o, t)
      PROVE  Moved(p) /\ retries' = retries + 1
  <2>1. \A q, r : RowsOf(q, r)' = RowsOf(q, r)
    BY <1>3 DEF PublicationRetry, RowsOf
  <2>2. /\ rows'[o] = ReopenedRow(rows[o], t)
        /\ \A r \in Targets : targets'[o][r] = ReopenedTarget(targets[o][r], t)
        /\ \A q \in Outboxes : q # o => rows'[q] = rows[q] /\ targets'[q] = targets[q]
    BY <1>3, RetryTypes
  <2>3. rows[o] \in Row /\ \A r \in Targets : targets[o][r] \in Target
    BY DEF OutboxTypeOK
  <2>4. /\ rows'[o].state = "pending" /\ rows'[o].revision = rows[o].revision + 1
        /\ rows'[o].next = t
    BY <2>2, <2>3, ReopenedRowFacts
  <2>5. \A r \in Targets :
          /\ targets[o][r].state = "accepted" => targets'[o][r] = targets[o][r]
          /\ targets[o][r].state # "accepted" =>
               /\ targets'[o][r].state = "pending" /\ targets'[o][r].next = t
               /\ targets'[o][r].count = targets[o][r].count
    BY <2>2, <2>3, ReopenedTargetFacts
  <2>6. rows[o].state = "blocked" /\ retries' = retries + 1
    BY <1>3 DEF PublicationRetry
  <2>7. CASE p = o
    <3>1. Reopening(o)
      BY <2>1, <2>4, <2>5, <2>6 DEF Reopening
    <3> QED
      BY <2>6, <2>7, <3>1 DEF Moved
  <2>8. CASE p # o
    BY <2>1, <2>2, <2>6, <2>8 DEF Moved, Same
  <2> QED
    BY <2>6, <2>7, <2>8
<1>4. ASSUME NEW w \in Workers, WorkerStep(w)
      PROVE  Moved(p) /\ retries' = retries
  <2>1. CASE Recover(w)
    BY <2>1, RecoverMoves DEF Recover
  <2>2. ASSUME NEW o \in Outboxes, Claim(w, o)
        PROVE  Moved(p) /\ retries' = retries
    <3>1. /\ rows'[o] = ClaimedRow(rows[o], wrk[w].owner, wrk[w].now)
          /\ \A q \in Outboxes : q # o => rows'[q] = rows[q]
      BY <2>2, ClaimTypes
    <3>2. /\ rows[o] \in Row /\ wrk[w].owner \in Owners /\ wrk[w].now \in Times
          /\ rows[o].state = "pending" /\ wrk[w].now + AttemptDeadline <= MaxTime
      BY <2>2, WorkerFacts DEF OutboxTypeOK, Claim, ClaimAdmissible, NextDue, DueOutboxes
    <3>3. rows'[o].state = "leased" /\ rows'[o].revision = rows[o].revision + 1
      BY <3>1, <3>2, ClaimedFacts
    <3>4. /\ targets' = targets /\ retries' = retries
          /\ \A q, r : RowsOf(q, r)' = RowsOf(q, r)
      BY <2>2 DEF Claim, RowsOf
    <3>5. CASE p = o
      BY <3>2, <3>3, <3>4, <3>5 DEF Moved, Claimed
    <3>6. CASE p # o
      BY <3>1, <3>4, <3>6 DEF Moved, Same
    <3> QED
      BY <3>4, <3>5, <3>6
  <2>3. ASSUME NEW r \in Targets, Prepare(w, r)
        PROVE  Moved(p) /\ retries' = retries
    <3>1. PICK o \in Outboxes : o = wrk[w].held
      BY <2>3, WorkerFacts DEF Prepare
    <3>2. /\ targets'[o][r] = SubmittedTarget(targets[o][r], wrk[w].now)
          /\ \A q \in Outboxes, s \in Targets :
               <<q, s>> # <<o, r>> => targets'[q][s] = targets[q][s]
          /\ targets' \in [Outboxes -> [Targets -> Target]]
      BY <2>3, <3>1, PrepareTypes DEF OutboxTypeOK
    <3>3. /\ wrk[w].pc = "prepare" /\ Exact(w) /\ rows[o].state = "leased"
          /\ RetryableState(targets[o][r]) /\ rows' = rows /\ retries' = retries
          /\ \A q, s : RowsOf(q, s)' = RowsOf(q, s)
      BY <2>3, <3>1 DEF Prepare, ExactLease, FirstDue, DueTargets, TargetIsDue, Exact,
                        Holding, RowsOf
    <3>4. wrk'[w].pc = "submit"
      BY <2>3, WorkerFacts DEF Prepare, OutboxTypeOK, Worker
    <3>5. targets[o][r] \in Target /\ wrk[w].now \in Times
      BY WorkerFacts DEF OutboxTypeOK
    <3>6. /\ targets'[o][r].state = "submitted" /\ targets'[o][r].next = Null
          /\ targets'[o][r].count = targets[o][r].count + 1
      BY <3>2, <3>5, SubmittedFacts
    <3>7. CASE p = o
      <4>1. Sending(o)
        BY <3>1, <3>2, <3>3, <3>4, <3>6 DEF Sending
      <4> QED
        BY <3>3, <3>7, <4>1 DEF Moved
    <3>8. CASE p # o
      <4>1. targets'[p] = targets[p]
        BY <3>2, <3>8 DEF OutboxTypeOK
      <4> QED
        BY <3>3, <4>1 DEF Moved, Same
    <3> QED
      BY <3>7, <3>8
  <2>4. CASE \E answer \in Outcomes, kept \in BOOLEAN : Submit(w, answer, kept)
    BY <2>4, SameTables DEF Submit, Moved
  <2>5. CASE \E t \in Times, delay \in 0 .. MaximumBackoff : Record(w, t, delay)
    <3>1. PICK t \in Times, delay \in 0 .. MaximumBackoff : Record(w, t, delay)
      BY <2>5
    <3>2. delay \in Nat /\ retries' = retries
      BY <3>1 DEF Record
    <3> QED
      BY <3>1, <3>2, RecordMoves
  <2>6. CASE UNCHANGED <<tables, relay, sent, retries>>
    BY <2>6, SameTables DEF Moved
  <2> QED
    BY <1>4, <2>1, <2>2, <2>3, <2>4, <2>5, <2>6, QuietTypes DEF WorkerStep
<1> QED
  BY <1>1, <1>2, <1>3, <1>4 DEF Next

(* A worker that holds an outbox held it before, at the row it leased, or *)
(* has just claimed it, and no other worker moved.                        *)
LEMMA HolderCases ==
    ASSUME OutboxTypeOK, [Next]_vars, NEW w \in Workers,
           wrk'[w].pc \in {"prepare", "submit", "record"}
    PROVE  \/ /\ Holding(w) /\ wrk[w].held \in Outboxes
              /\ wrk'[w].held = wrk[w].held /\ wrk'[w].row = wrk[w].row
              /\ wrk'[w].pc = "prepare" => wrk[w].pc = "prepare"
           \/ Claiming(w) /\ \A v \in Workers \ {w} : wrk'[v] = wrk[v]
<1>1. Holding(w) => wrk[w].held \in Outboxes
  BY WorkerFacts DEF Holding
<1>2. CASE wrk'[w] = wrk[w]
  BY <1>1, <1>2 DEF Holding
<1>3. CASE Preparing(w) \/ Submitting(w)
  BY <1>3 DEF Preparing, Submitting, GoesOn, Holding
<1> QED
  BY <1>2, <1>3, ProcessSteps DEF ProcessStep, Rested

-----------------------------------------------------------------------------
(* The parts of the invariant, each over the moves *)

(* A move leaves the row alone or raises its revision. *)
LEMMA MovedRow ==
    ASSUME OutboxTypeOK, AbsentIsBlank, NEW o \in Outboxes, Moved(o)
    PROVE  rows'[o] = rows[o] \/ rows'[o].revision = rows[o].revision + 1
<1>1. CASE Committed(o)
  <2>1. rows[o].revision = 0
    BY <1>1, NoRowFacts DEF Committed, AbsentIsBlank
  <2> QED
    BY <1>1, <2>1 DEF Committed
<1> QED
  BY <1>1 DEF Moved, Same, Claimed, Sending, Concluding, Reopening

(* A move that leaves the row and moves the targets is a preparation. *)
LEMMA MovedTargets ==
    ASSUME OutboxTypeOK, AbsentIsBlank, NEW o \in Outboxes, Moved(o), rows'[o] = rows[o]
    PROVE  targets'[o] = targets[o] \/ Sending(o)
<1>1. rows[o].revision \in Nat
  BY DEF OutboxTypeOK, Row
<1>2. rows'[o].revision # rows[o].revision + 1
  BY <1>1
<1> QED
  BY <1>2 DEF Moved, Same, Committed, Claimed, Concluding, Reopening

(* Nothing is in flight but by a preparation. *)
LEMMA FlightMoves ==
    ASSUME OutboxTypeOK, SoleFlight, LeaseFence, NEW o \in Outboxes, Moved(o)
    PROVE  /\ \A q, r \in Submitted(o)' : q = r
           /\ Submitted(o)' # {} => rows'[o].state = "leased"
<1>1. Submitted(o)' = {r \in Targets : targets'[o][r].state = "submitted"}
  BY DEF Submitted
<1>2. CASE Same(o) \/ Claimed(o)
  <2>1. Submitted(o)' = Submitted(o)
    BY <1>1, <1>2 DEF Same, Claimed, Submitted
  <2> QED
    BY <1>2, <2>1 DEF SoleFlight, Same, Claimed
<1>3. CASE Committed(o) \/ Reopening(o)
  <2>1. Submitted(o)' = {}
    BY <1>1, <1>3 DEF Committed, Reopening
  <2> QED
    BY <2>1
<1>4. CASE Sending(o)
  <2>1. PICK w \in Workers, r \in Targets :
          /\ wrk[w].pc = "prepare" /\ Exact(w) /\ wrk[w].held = o
          /\ rows[o].state = "leased" /\ rows'[o] = rows[o]
          /\ \A q \in Targets \ {r} : targets'[o][q] = targets[o][q]
    BY <1>4 DEF Sending
  <2>2. Submitted(o) = {}
    BY <2>1 DEF LeaseFence
  <2>3. Submitted(o)' \subseteq {r}
    BY <1>1, <2>1, <2>2 DEF Submitted
  <2> QED
    BY <2>1, <2>3
<1>5. CASE Concluding(o)
  <2>1. Submitted(o)' = {}
    BY <1>1, <1>5 DEF Concluding, Answers, Submitted, AllOutcomes
  <2> QED
    BY <2>1
<1> QED
  BY <1>2, <1>3, <1>4, <1>5 DEF Moved

(* The flights stay single and leased. *)
LEMMA FlightStep ==
    ASSUME OutboxTypeOK, SoleFlight, LeaseFence, [Next]_vars
    PROVE  SoleFlight'
<1>1. ASSUME NEW o \in Outboxes
      PROVE  /\ \A q, r \in Submitted(o)' : q = r
             /\ Submitted(o)' # {} => rows'[o].state = "leased"
  BY Moves, FlightMoves
<1> QED
  BY <1>1 DEF SoleFlight

(* A worker that is exact after a step was exact before it, or claims. *)
LEMMA ExactCases ==
    ASSUME OutboxTypeOK, AbsentIsBlank, SoleFlight, LeaseFence, [Next]_vars,
           NEW w \in Workers, wrk'[w].pc \in {"prepare", "submit", "record"},
           rows'[wrk'[w].held] = wrk'[w].row
    PROVE  \/ /\ Exact(w) /\ wrk[w].held \in Outboxes
              /\ wrk'[w].held = wrk[w].held /\ rows'[wrk[w].held] = rows[wrk[w].held]
              /\ wrk'[w].pc = "prepare" => wrk[w].pc = "prepare"
           \/ Claiming(w) /\ \A v \in Workers \ {w} : wrk'[v] = wrk[v]
<1> SUFFICES ASSUME Holding(w), wrk[w].held \in Outboxes, wrk'[w].held = wrk[w].held,
                    wrk'[w].row = wrk[w].row
             PROVE  Exact(w) /\ rows'[wrk[w].held] = rows[wrk[w].held]
  BY HolderCases
<1>1. PICK o \in Outboxes : o = wrk[w].held
  OBVIOUS
<1>2. rows[o].revision \in Nat /\ wrk[w].row.revision <= rows[o].revision
  BY <1>1 DEF OutboxTypeOK, Row, LeaseFence
<1>3. rows'[o].revision = wrk[w].row.revision
  BY <1>1
<1>4. wrk[w].row.revision \in Nat
  BY WorkerFacts DEF Row
<1>5. rows'[o] = rows[o]
  BY <1>2, <1>3, <1>4, Moves, MovedRow
<1> QED
  BY <1>1, <1>5 DEF Exact

(* The fence holds: a claim raises the revision above every row held before *)
(* it, and only an exact worker prepares.                                   *)
LEMMA FenceStep ==
    ASSUME OutboxTypeOK, AbsentIsBlank, SoleFlight, LeaseFence, [Next]_vars
    PROVE  LeaseFence'
<1>0. \A w \in Workers :
        /\ Holding(w)' <=> wrk'[w].pc \in {"prepare", "submit", "record"}
        /\ Exact(w)' <=> Holding(w)' /\ rows'[wrk'[w].held] = wrk'[w].row
  BY DEF Holding, Exact
<1>1. ASSUME NEW w \in Workers, Holding(w)'
      PROVE  wrk'[w].row.revision <= rows'[wrk'[w].held].revision
  <2>1. CASE Claiming(w)
    <3>1. /\ wrk'[w].row = rows'[wrk'[w].held] /\ wrk'[w].held \in Outboxes
          /\ rows'[wrk'[w].held].revision = rows[wrk'[w].held].revision + 1
      BY <2>1 DEF Claiming
    <3>2. rows[wrk'[w].held].revision \in Nat
      BY <3>1 DEF OutboxTypeOK, Row
    <3> QED
      BY <3>1, <3>2
  <2>2. CASE /\ Holding(w) /\ wrk[w].held \in Outboxes
             /\ wrk'[w].held = wrk[w].held /\ wrk'[w].row = wrk[w].row
    <3>1. PICK o \in Outboxes : o = wrk[w].held
      BY <2>2
    <3>2. rows[o].revision \in Nat /\ wrk[w].row.revision <= rows[o].revision
      BY <2>2, <3>1 DEF OutboxTypeOK, Row, LeaseFence
    <3>3. wrk[w].row.revision \in Nat
      BY WorkerFacts DEF Row
    <3>4. rows'[o] = rows[o] \/ rows'[o].revision = rows[o].revision + 1
      BY Moves, MovedRow
    <3> QED
      BY <2>2, <3>1, <3>2, <3>3, <3>4
  <2> QED
    BY <1>0, <1>1, <2>1, <2>2, HolderCases
<1>2. ASSUME NEW v \in Workers, NEW w \in Workers, v # w, Claiming(w),
             \A u \in Workers \ {w} : wrk'[u] = wrk[u],
             Exact(v)', wrk'[v].held = wrk'[w].held
      PROVE  FALSE
  <2>1. PICK o \in Outboxes : o = wrk'[w].held
    BY <1>2 DEF Claiming
  <2>2. Holding(v) /\ wrk[v].held = o /\ wrk[v].row = rows'[o]
    BY <1>0, <1>2, <2>1 DEF Holding
  <2>3. rows'[o].revision = rows[o].revision + 1 /\ rows[o].revision \in Nat
    BY <1>2, <2>1 DEF Claiming, OutboxTypeOK, Row
  <2>4. wrk[v].row.revision <= rows[o].revision
    BY <2>2 DEF LeaseFence
  <2> QED
    BY <2>2, <2>3, <2>4
<1>3. ASSUME NEW v \in Workers, NEW w \in Workers, Exact(v)', Exact(w)',
             wrk'[v].held = wrk'[w].held
      PROVE  v = w
  <2>1. CASE Exact(v) /\ wrk'[v].held = wrk[v].held /\ Exact(w) /\ wrk'[w].held = wrk[w].held
    BY <1>3, <2>1 DEF LeaseFence
  <2> QED
    BY <1>0, <1>2, <1>3, <2>1, ExactCases
<1>4. ASSUME NEW w \in Workers, Exact(w)', wrk'[w].pc = "prepare"
      PROVE  {r \in Targets : targets'[wrk'[w].held][r].state = "submitted"} = {}
  <2>1. CASE Claiming(w)
    BY <2>1 DEF Claiming, SoleFlight, Submitted
  <2>2. CASE /\ Exact(w) /\ wrk[w].held \in Outboxes
             /\ wrk'[w].held = wrk[w].held /\ rows'[wrk[w].held] = rows[wrk[w].held]
             /\ wrk[w].pc = "prepare"
    <3>1. PICK o \in Outboxes : o = wrk[w].held
      BY <2>2
    <3>2. Submitted(o) = {}
      BY <2>2, <3>1 DEF LeaseFence
    <3>3. ~Sending(o)
      <4>1. ASSUME NEW v \in Workers, wrk[v].pc = "prepare", Exact(v), wrk[v].held = o,
                   wrk'[v].pc = "submit"
            PROVE  FALSE
        BY <1>4, <2>2, <3>1, <4>1 DEF LeaseFence
      <4> QED
        BY <4>1 DEF Sending
    <3>4. targets'[o] = targets[o]
      BY <2>2, <3>1, <3>3, Moves, MovedTargets
    <3> QED
      BY <2>2, <3>1, <3>2, <3>4 DEF Submitted
  <2> QED
    BY <1>0, <1>4, <2>1, <2>2, ExactCases
<1> QED
  BY <1>1, <1>3, <1>4 DEF LeaseFence, Submitted

(* A further row extends gapless evidence by one. *)
LEMMA AppendedRow ==
    ASSUME NEW S, NEW x, IsFiniteSet(S), x \notin S, NEW n \in Nat, x.number = n,
           {a.number : a \in S} = 1 .. n - 1, Cardinality(S) = n - 1
    PROVE  /\ IsFiniteSet(S \cup {x}) /\ {a.number : a \in S \cup {x}} = 1 .. n
           /\ Cardinality(S \cup {x}) = n
<1>1. IsFiniteSet(S \cup {x}) /\ Cardinality(S \cup {x}) = Cardinality(S) + 1
  BY FS_AddElement
<1>2. n - 1 \in Nat
  BY FS_CardinalityType
<1>3. {a.number : a \in S \cup {x}} = {a.number : a \in S} \cup {n}
  OBVIOUS
<1>4. (1 .. n - 1) \cup {n} = 1 .. n
  BY <1>2
<1> QED
  BY <1>1, <1>2, <1>3, <1>4

(* Every move keeps the attempt rows gapless. *)
LEMMA EvidenceMoves ==
    ASSUME OutboxTypeOK, AbsentIsBlank, SoleFlight, LeaseFence, Evidence,
           NEW o \in Outboxes, NEW r \in Targets, Moved(o)
    PROVE  /\ IsFiniteSet(RowsOf(o, r)')
           /\ {a.number : a \in RowsOf(o, r)'} = 1 .. LastRecorded(o, r)'
           /\ Cardinality(RowsOf(o, r)') = LastRecorded(o, r)'
<1> DEFINE n == targets[o][r].count
<1>1. n \in Nat
  BY DEF OutboxTypeOK, Target
<1>2. /\ IsFiniteSet(RowsOf(o, r))
      /\ {a.number : a \in RowsOf(o, r)} = 1 .. LastRecorded(o, r)
      /\ Cardinality(RowsOf(o, r)) = LastRecorded(o, r)
  BY DEF Evidence
<1>3. /\ LastRecorded(o, r) = IF targets[o][r].state = "submitted" THEN n - 1 ELSE n
      /\ LastRecorded(o, r)' = IF targets'[o][r].state = "submitted"
                               THEN targets'[o][r].count - 1 ELSE targets'[o][r].count
      /\ r \in Submitted(o) <=> targets[o][r].state = "submitted"
  BY DEF LastRecorded, Submitted
<1> SUFFICES ASSUME r \notin Submitted(o) \/ ~Concluding(o)
             PROVE  RowsOf(o, r)' = RowsOf(o, r) /\ LastRecorded(o, r)' = LastRecorded(o, r)
  <2>1. ASSUME r \in Submitted(o), Concluding(o)
        PROVE  /\ IsFiniteSet(RowsOf(o, r)')
               /\ {a.number : a \in RowsOf(o, r)'} = 1 .. LastRecorded(o, r)'
               /\ Cardinality(RowsOf(o, r)') = LastRecorded(o, r)'
    <3>1. PICK x : /\ x \notin RowsOf(o, r) /\ x.number = n
                   /\ RowsOf(o, r)' = RowsOf(o, r) \cup {x}
      BY <2>1 DEF Concluding, Answers
    <3>2. LastRecorded(o, r) = n - 1 /\ LastRecorded(o, r)' = n
      BY <1>3, <2>1 DEF Concluding, Answers, AllOutcomes
    <3> HIDE DEF n
    <3>3. /\ {a.number : a \in RowsOf(o, r)} = 1 .. n - 1
          /\ Cardinality(RowsOf(o, r)) = n - 1
      BY <1>2, <3>2
    <3>4. LET S == RowsOf(o, r) \cup {x}
          IN  IsFiniteSet(S) /\ {a.number : a \in S} = 1 .. n /\ Cardinality(S) = n
      BY <1>1, <1>2, <3>1, <3>3, AppendedRow
    <3> QED
      BY <3>1, <3>2, <3>4
  <2> QED
    BY <1>2, <2>1
<1>4. CASE Same(o) \/ Claimed(o)
  BY <1>3, <1>4 DEF Same, Claimed
<1>5. CASE Committed(o)
  <2>1. targets[o][r].state = "pending" /\ n = 0
    BY <1>5, NoTargetFacts DEF Committed, AbsentIsBlank
  <2> QED
    BY <1>3, <1>5, <2>1 DEF Committed
<1>6. CASE Sending(o)
  <2>1. PICK s \in Targets :
          /\ RetryableState(targets[o][s]) /\ targets'[o][s].state = "submitted"
          /\ targets'[o][s].count = targets[o][s].count + 1
          /\ \A q \in Targets \ {s} : targets'[o][q] = targets[o][q]
          /\ \A q \in Targets : RowsOf(o, q)' = RowsOf(o, q)
    BY <1>6 DEF Sending
  <2>2. CASE s = r
    <3>1. targets[o][r].state # "submitted"
      BY <2>1, <2>2 DEF RetryableState
    <3> QED
      BY <1>1, <1>3, <2>1, <2>2, <3>1
  <2>3. CASE s # r
    BY <1>3, <2>1, <2>3
  <2> QED
    BY <2>2, <2>3
<1>7. CASE Concluding(o)
  BY <1>3, <1>7 DEF Concluding
<1>8. CASE Reopening(o)
  <2>1. targets[o][r].state # "submitted"
    BY <1>3, <1>8 DEF Reopening, SoleFlight
  <2> QED
    BY <1>3, <1>8, <2>1 DEF Reopening
<1> QED
  BY <1>4, <1>5, <1>6, <1>7, <1>8 DEF Moved

(* The evidence stays gapless. *)
LEMMA EvidenceStep ==
    ASSUME OutboxTypeOK, AbsentIsBlank, SoleFlight, LeaseFence, Evidence, [Next]_vars
    PROVE  Evidence'
<1>1. ASSUME NEW o \in Outboxes, NEW r \in Targets
      PROVE  /\ IsFiniteSet(RowsOf(o, r)')
             /\ {a.number : a \in RowsOf(o, r)'} = 1 .. LastRecorded(o, r)'
             /\ Cardinality(RowsOf(o, r)') = LastRecorded(o, r)'
  BY Moves, EvidenceMoves
<1> QED
  BY <1>1 DEF Evidence

(* Every move keeps the schedules fitting. *)
LEMMA SchedulesStep ==
    ASSUME OutboxTypeOK, AbsentIsBlank, SoleFlight, SchedulesFit, [Next]_vars
    PROVE  SchedulesFit'
<1>1. retries \in Nat
  BY OutboxBounds DEF OutboxTypeOK
<1>2. ASSUME NEW o \in Outboxes, NEW r \in Targets, targets'[o][r].next # Null
      PROVE  /\ RetryableState(targets'[o][r])
             /\ retries' = 0 => targets'[o][r].count < MaxAttempts
  <2>0. Moved(o) /\ (retries' = 0 => retries = 0 /\ retries' # retries + 1)
    BY <1>1, Moves
  <2>1. CASE targets'[o][r] = targets[o][r]
    BY <1>2, <2>0, <2>1 DEF SchedulesFit
  <2>2. CASE Committed(o)
    BY <2>2, AuthorityAssumption DEF Committed, RetryableState
  <2>3. CASE Reopening(o)
    BY <2>0, <2>1, <2>3 DEF Reopening, RetryableState
  <2>4. CASE Concluding(o)
    BY <1>2, <2>1, <2>4 DEF Concluding, Answers, RetryableState, RetryableOutcome
  <2>5. CASE Sending(o)
    BY <1>2, <2>1, <2>5 DEF Sending
  <2> QED
    BY <2>0, <2>1, <2>2, <2>3, <2>4, <2>5 DEF Moved, Same, Claimed
<1>3. ASSUME NEW o \in Outboxes
      PROVE  /\ rows'[o].state # "absent" => rows'[o].revision > 0
             /\ rows'[o].state = "blocked" => rows'[o].revision > 1
  <2>0. Moved(o) /\ rows[o].revision \in Nat
    BY Moves DEF OutboxTypeOK, Row
  <2>1. CASE rows'[o] = rows[o]
    BY <2>1 DEF SchedulesFit
  <2>2. CASE Concluding(o)
    <3>1. rows[o].state = "leased" /\ rows'[o].revision = rows[o].revision + 1
      BY <2>2 DEF Concluding
    <3>2. rows[o].revision > 0
      BY <3>1 DEF SchedulesFit
    <3> QED
      BY <2>0, <3>1, <3>2
  <2>3. CASE Claimed(o) \/ Reopening(o)
    <3>1. rows'[o].state # "blocked" /\ rows'[o].revision = rows[o].revision + 1
      BY <2>3 DEF Claimed, Reopening
    <3> QED
      BY <2>0, <3>1
  <2> QED
    BY <2>0, <2>1, <2>2, <2>3 DEF Moved, Same, Committed, Sending
<1> QED
  BY <1>2, <1>3 DEF SchedulesFit

(* What disposition makes of a pending outbox: its schedule is that of a *)
(* required target.                                                      *)
LEMMA PendingDisposition ==
    ASSUME NEW ts \in [Targets -> Target], HasDisposition(ts),
           Disposition(ts).state = "pending"
    PROVE  \E r \in Required : ts[r].next = Disposition(ts).next /\ ts[r].next # Null
<1>1. ~AllRequired(ts) /\ ~(\E r \in Required : TargetIsBlocking(ts[r]))
  BY DEF Disposition
<1>2. Schedules(ts) # {} /\ Schedules(ts) \subseteq Nat
  <2>1. Schedules(ts) # {}
    BY <1>1 DEF HasDisposition
  <2>2. \A r \in Required : ts[r].next \in Times \cup {Null}
    BY RequiredFacts DEF Target
  <2> QED
    BY <2>1, <2>2, TimesFacts DEF Schedules
<1> DEFINE m == CHOOSE t \in Schedules(ts) : \A u \in Schedules(ts) : t <= u
<1>3. m \in Schedules(ts)
  BY <1>2, LeastElement
<1>4. Disposition(ts).next = m
  BY <1>1 DEF Disposition
<1> HIDE DEF m
<1> QED
  BY <1>3, <1>4 DEF Schedules

(* The disposition after an operator's retry: every open required target is *)
(* due at the retry, and nothing blocks.                                    *)
LEMMA ReopenedDisposition ==
    ASSUME NEW ts, NEW t \in Times, ~AllRequired(ts),
           \A r \in Required :
             \/ ts[r].state = "accepted" /\ ts[r].next = Null
             \/ ts[r].state = "pending" /\ ts[r].next = t
    PROVE  HasDisposition(ts) /\ Disposition(ts) = [state |-> "pending", next |-> t]
<1>1. ~(\E r \in Required : TargetIsBlocking(ts[r]))
  BY TimesFacts DEF TargetIsBlocking, RetryableState
<1>2. Schedules(ts) = {t}
  <2>1. PICK r \in Required : ts[r].state # "accepted"
    BY DEF AllRequired
  <2> QED
    BY <2>1, TimesFacts DEF Schedules
<1>3. (CHOOSE u \in Schedules(ts) : \A v \in Schedules(ts) : u <= v) = t
  <2>1. t <= t
    BY TimesFacts
  <2> QED
    BY <1>2, <2>1
<1> QED
  BY <1>1, <1>2, <1>3 DEF HasDisposition, Disposition

(* Every step leaves an unleased row as disposition has it. *)
LEMMA DispositionStep ==
    ASSUME OutboxTypeOK, SoleFlight, SchedulesFit, DispositionAgrees, [Next]_vars
    PROVE  DispositionAgrees'
<1> SUFFICES ASSUME NEW o \in Outboxes, rows'[o].state \in {"pending", "blocked", "complete"},
                    rows'[o].revision > 1
             PROVE  /\ HasDisposition(targets'[o])
                    /\ rows'[o].state = Disposition(targets'[o]).state
                    /\ rows'[o].next = Disposition(targets'[o]).next
  BY DEF DispositionAgrees
<1>1. Moved(o)
  BY Moves
<1>2. CASE Same(o)
  BY <1>2 DEF Same, DispositionAgrees
<1>3. CASE Concluding(o)
  BY <1>3 DEF Concluding
<1>4. CASE Reopening(o)
  <2>1. PICK t \in Times : t = rows'[o].next
    BY <1>4 DEF Reopening
  <2>2. ~AllRequired(targets[o])
    <3>1. rows[o].state = "blocked" /\ rows[o].revision > 1
      BY <1>4 DEF Reopening, SchedulesFit
    <3>2. Disposition(targets[o]).state = "blocked"
      BY <3>1 DEF DispositionAgrees
    <3> QED
      BY <3>2 DEF Disposition
  <2>3. ~AllRequired(targets'[o])
    BY <1>4, <2>2, RequiredFacts DEF AllRequired, Reopening
  <2>4. \A r \in Required :
          \/ targets'[o][r].state = "accepted" /\ targets'[o][r].next = Null
          \/ targets'[o][r].state = "pending" /\ targets'[o][r].next = t
    <3>1. \A r \in Targets : targets[o][r].state = "accepted" => targets[o][r].next = Null
      BY DEF SchedulesFit, RetryableState
    <3> QED
      BY <1>4, <2>1, <3>1, RequiredFacts DEF Reopening
  <2>5. /\ HasDisposition(targets'[o])
        /\ Disposition(targets'[o]) = [state |-> "pending", next |-> t]
    BY <2>3, <2>4, ReopenedDisposition
  <2> QED
    BY <1>4, <2>1, <2>5 DEF Reopening
<1> QED
  BY <1>1, <1>2, <1>3, <1>4 DEF Moved, Committed, Claimed, Sending

(* Until an operator intervenes, a due outbox has a due target. *)
LEMMA DueStep ==
    ASSUME OutboxTypeOK, OutboxTypeOK', SoleFlight, SchedulesFit', DueOutboxHasDueTarget,
           [Next]_vars, retries = 0, retries' = 0
    PROVE  DueOutboxHasDueTarget'
<1> SUFFICES ASSUME NEW o \in Outboxes, rows'[o].state = "pending"
             PROVE  \E r \in Targets : TargetIsDue(targets'[o][r], rows'[o].next)
  BY DEF DueOutboxHasDueTarget, DueTargets
<1>1. Moved(o)
  BY Moves
<1>2. \A r \in Targets : targets'[o][r].next = rows'[o].next /\ rows'[o].next # Null =>
        TargetIsDue(targets'[o][r], rows'[o].next)
  <2>1. \A r \in Targets : targets'[o][r].next # Null =>
          /\ RetryableState(targets'[o][r]) /\ targets'[o][r].count < MaxAttempts
    BY DEF SchedulesFit
  <2>2. rows'[o].next \in Times \cup {Null}
    BY DEF OutboxTypeOK, Row
  <2>3. ASSUME NEW r \in Targets, targets'[o][r].next = rows'[o].next, rows'[o].next # Null
        PROVE  TargetIsDue(targets'[o][r], rows'[o].next)
    <3> DEFINE e == targets'[o][r]
               t == rows'[o].next
    <3>1. RetryableState(e) /\ e.count < MaxAttempts /\ e.next = t /\ e.next # Null
      BY <2>1, <2>3
    <3>2. t \in Nat
      BY <2>2, <2>3, TimesFacts, Zenon
    <3> HIDE DEF e, t
    <3>3. TargetIsDue(e, t)
      BY <3>1, <3>2 DEF TargetIsDue
    <3> QED
      BY <3>3 DEF e, t
  <2> QED
    BY <2>3
<1>3. CASE Same(o)
  BY <1>3 DEF Same, DueOutboxHasDueTarget, DueTargets
<1>4. CASE Committed(o)
  BY <1>2, <1>4, RequiredFacts, TimesFacts DEF Committed
<1>5. CASE Concluding(o)
  <2>1. targets'[o] \in [Targets -> Target]
    BY DEF OutboxTypeOK
  <2>2. /\ HasDisposition(targets'[o]) /\ Disposition(targets'[o]).state = "pending"
        /\ rows'[o].next = Disposition(targets'[o]).next
    BY <1>5 DEF Concluding
  <2>3. PICK r \in Required : targets'[o][r].next = rows'[o].next /\ targets'[o][r].next # Null
    BY <2>1, <2>2, PendingDisposition
  <2> QED
    BY <1>2, <2>3, RequiredFacts
<1> QED
  BY <1>1, <1>3, <1>4, <1>5 DEF Moved, Claimed, Sending, Reopening

-----------------------------------------------------------------------------
(* The theorems *)

TablesIInv ==
    /\ AbsentIsBlank /\ SoleFlight /\ LeaseFence /\ Evidence /\ SchedulesFit
    /\ DispositionAgrees /\ (retries = 0 => DueOutboxHasDueTarget)

(* The inductive invariant of the tables holds. *)
LEMMA TablesHold == Spec => []TablesIInv
<1>1. Init => TablesIInv
  <2> SUFFICES ASSUME Init PROVE TablesIInv
    OBVIOUS
  <2>1. /\ \A o \in Outboxes : rows[o] = NoRow /\ rows[o].state = "absent"
        /\ \A o \in Outboxes, r \in Targets : targets[o][r] = NoTarget
    BY NoRowFacts DEF Init
  <2>2. AbsentIsBlank /\ DispositionAgrees /\ DueOutboxHasDueTarget
    BY <2>1 DEF AbsentIsBlank, DispositionAgrees, DueOutboxHasDueTarget
  <2>3. \A o \in Outboxes : Submitted(o) = {}
    BY <2>1, NoTargetFacts DEF Submitted
  <2>4. SoleFlight /\ SchedulesFit
    BY <2>1, <2>3, NoTargetFacts DEF SoleFlight, SchedulesFit
  <2>5. LeaseFence
    BY DEF Init, Resting, LeaseFence, Holding, Exact
  <2>6. Evidence
    <3>1. ASSUME NEW o \in Outboxes, NEW r \in Targets
          PROVE  RowsOf(o, r) = {} /\ LastRecorded(o, r) = 0
      BY <2>1, <2>3, NoTargetFacts DEF Init, RowsOf, LastRecorded
    <3>2. {a.number : a \in {}} = 1 .. 0
      OBVIOUS
    <3> QED
      BY <3>1, <3>2, FS_EmptySet DEF Evidence
  <2> QED
    BY <2>2, <2>4, <2>5, <2>6 DEF TablesIInv
<1>2. OutboxTypeOK /\ OutboxTypeOK' /\ TablesIInv /\ [Next]_vars => TablesIInv'
  <2> SUFFICES ASSUME OutboxTypeOK, OutboxTypeOK', TablesIInv, [Next]_vars
               PROVE  TablesIInv'
    OBVIOUS
  <2>1. AbsentIsBlank' /\ SoleFlight' /\ LeaseFence' /\ Evidence'
    BY AbsentStep, FlightStep, FenceStep, EvidenceStep DEF TablesIInv
  <2>2. SchedulesFit' /\ DispositionAgrees'
    BY SchedulesStep, DispositionStep DEF TablesIInv
  <2>3. ASSUME retries' = 0, NEW o \in Outboxes
        PROVE  retries = 0
    BY <2>3, Moves, OutboxBounds DEF TablesIInv, OutboxTypeOK
  <2>4. retries' = 0 => DueOutboxHasDueTarget'
    <3>1. CASE Outboxes = {}
      BY <3>1 DEF DueOutboxHasDueTarget
    <3>2. CASE retries' = 0 /\ Outboxes # {}
      <4>1. retries = 0
        BY <2>3, <3>2
      <4> QED
        BY <2>2, <3>2, <4>1, DueStep DEF TablesIInv
    <3> QED
      BY <3>1, <3>2
  <2> QED
    BY <2>1, <2>2, <2>4 DEF TablesIInv
<1> QED
  BY <1>1, <1>2, OutboxTypeCorrect, PTL DEF Spec

(* The inductive invariant is at least what the run checks. *)
LEMMA TablesImply ==
    ASSUME TablesIInv
    PROVE  /\ OneInFlight /\ EvidenceIsGapless /\ DispositionAgrees
           /\ retries = 0 => TablesAgree
<1>1. OneInFlight
  <2>1. ASSUME NEW o \in Outboxes
        PROVE  Cardinality(Submitted(o)) <= 1
    <3>1. CASE Submitted(o) = {}
      BY <3>1, FS_EmptySet
    <3>2. CASE Submitted(o) # {}
      <4>1. PICK r \in Submitted(o) : TRUE
        BY <3>2
      <4>2. Submitted(o) = {r}
        BY <4>1 DEF TablesIInv, SoleFlight
      <4>3. Cardinality({r}) = 1
        BY FS_Singleton
      <4> QED
        BY <4>2, <4>3
    <3> QED
      BY <3>1, <3>2
  <2> QED
    BY <2>1 DEF OneInFlight, TablesIInv, SoleFlight
<1>2. EvidenceIsGapless
  BY DEF EvidenceIsGapless, TablesIInv, Evidence, RowsOf, LastRecorded
<1> QED
  BY <1>1, <1>2 DEF TablesIInv, TablesAgree

(* At most one target of an outbox is in flight, and only under a lease; the *)
(* attempt rows of a target are numbered 1 to its count without a gap or a   *)
(* repetition; an unleased row is what disposition makes of its targets.     *)
(* Late recorders, recoveries, crashes and operator retries included.        *)
THEOREM TablesStayConsistent ==
    Spec => [](OneInFlight /\ EvidenceIsGapless /\ DispositionAgrees)
<1>1. TablesIInv => OneInFlight /\ EvidenceIsGapless /\ DispositionAgrees
  BY TablesImply
<1> QED
  BY <1>1, TablesHold, PTL

(* Until an operator retries, a claim is not made in vain either: the tables *)
(* agree in every part.                                                      *)
THEOREM TablesAgreeHolds == Spec => [](retries = 0 => TablesAgree)
<1>1. TablesIInv => (retries = 0 => TablesAgree)
  BY TablesImply
<1> QED
  BY <1>1, TablesHold, PTL
=============================================================================
