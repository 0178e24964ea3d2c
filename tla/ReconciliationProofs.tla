------------------------ MODULE ReconciliationProofs ------------------------
(***************************************************************************)
(* What the job queue guarantees for every set of trades, owners and       *)
(* policies, every generation and time bound and every clock, and then     *)
(* what the daemon around it guarantees for every set of sources too,      *)
(* whatever it interleaves and wherever it crashes.  The daemon takes over *)
(* everything about the queue itself through ImplementsQueue.              *)
(***************************************************************************)
EXTENDS ReconciliationPipeline, DoctorProbes, FiniteSetTheorems, WellFoundedInduction, TLAPS

-----------------------------------------------------------------------------
(* The row updates, field by field.  The later proofs cite these lemmas and *)
(* never look inside the updates again.                                     *)

(* Every admitted policy has positive natural fields. *)
LEMMA PolicyFields ==
    ASSUME NEW p \in Policies
    PROVE  /\ p.lease \in Nat /\ p.max \in Nat /\ p.capacity \in Nat
           /\ p.renewal \in Nat /\ p.max > 0 /\ p.lease > 0
BY PoliciesAssumption DEF ValidPolicy

(* The absent row is a row. *)
LEMMA NoRowType == NoRow \in Row
<1>1. (CHOOSE p \in Policies : TRUE) \in Policies
  BY PoliciesAssumption
<1>2. 0 \in Times
  BY BoundsAssumption DEF Times
<1> QED
  BY <1>1, <1>2 DEF NoRow, Row, States

(* The inserted row is a row. *)
LEMMA NewRowType ==
    ASSUME NEW p \in Policies, NEW t \in Times
    PROVE  NewRow(p, t) \in Row
BY DEF NewRow, Row, States

(* What every update that gives a lease up leaves behind. *)
ReleasedFields(new, row, s, t) ==
    /\ new \in Row
    /\ new.state = s /\ new.revision = row.revision + 1
    /\ new.attempt = row.attempt /\ new.policy = row.policy
    /\ new.owner = NoOwner /\ new.expires = Null
    /\ new.created = row.created /\ new.updated = t

(* The columns every releasing statement writes, and the ones it keeps. *)
LEMMA ReleasedFacts ==
    ASSUME NEW row \in Row, NEW t \in Times, NEW s \in States
    PROVE  /\ ReleasedFields(Released(row, s, t), row, s, t)
           /\ Released(row, s, t).next = Null
           /\ Released(row, s, t).failure = row.failure
<1> DEFINE r == row.revision + 1
<1>1. r \in Nat
  BY DEF Row
<1>2. Released(row, s, t) =
        [row EXCEPT !.state = s, !.revision = r, !.next = Null,
                    !.owner = NoOwner, !.expires = Null, !.updated = t]
  BY DEF Released
<1> HIDE DEF r
<1>3. /\ Released(row, s, t) \in Row
      /\ Released(row, s, t).state = s /\ Released(row, s, t).revision = r
      /\ Released(row, s, t).attempt = row.attempt
      /\ Released(row, s, t).policy = row.policy
      /\ Released(row, s, t).owner = NoOwner
      /\ Released(row, s, t).expires = Null
      /\ Released(row, s, t).created = row.created
      /\ Released(row, s, t).updated = t
      /\ Released(row, s, t).next = Null
      /\ Released(row, s, t).failure = row.failure
  BY <1>1, <1>2 DEF Row
<1> QED
  BY <1>3 DEF ReleasedFields, r

(* What SUPERSEDE_JOB_SQL stores. *)
LEMMA SupersededFacts ==
    ASSUME NEW row \in Row, NEW t \in Times
    PROVE  /\ ReleasedFields(SupersededRow(row, t), row, "superseded", t)
           /\ SupersededRow(row, t).next = Null
           /\ SupersededRow(row, t).failure = row.failure
BY ReleasedFacts DEF SupersededRow, States

(* What COMPLETE_JOB_SQL stores. *)
LEMMA CompletedFacts ==
    ASSUME NEW row \in Row, NEW t \in Times
    PROVE  /\ ReleasedFields(CompletedRow(row, t), row, "completed", t)
           /\ CompletedRow(row, t).next = Null
           /\ CompletedRow(row, t).failure = row.failure
BY ReleasedFacts DEF CompletedRow, States

(* What EXHAUST_JOB_SQL stores. *)
LEMMA ExhaustedFacts ==
    ASSUME NEW row \in Row, NEW t \in Times
    PROVE  /\ ReleasedFields(ExhaustedRow(row, t), row, "exhausted", t)
           /\ ExhaustedRow(row, t).next = Null
           /\ ExhaustedRow(row, t).failure = row.failure + 1
<1> DEFINE base == Released(row, "exhausted", t)
           f == row.failure + 1
<1>1. /\ ReleasedFields(base, row, "exhausted", t)
      /\ base.next = Null /\ base.failure = row.failure
  BY ReleasedFacts DEF States
<1>2. ExhaustedRow(row, t) = [base EXCEPT !.failure = f]
  BY <1>1 DEF ExhaustedRow
<1>3. f \in Nat
  BY DEF Row
<1> HIDE DEF base, f
<1>4. ReleasedFields(ExhaustedRow(row, t), row, "exhausted", t)
      /\ ExhaustedRow(row, t).next = Null /\ ExhaustedRow(row, t).failure = f
  BY <1>1, <1>2, <1>3 DEF ReleasedFields, Row
<1> QED
  BY <1>4 DEF f

(* What EXHAUST_EXPIRED_SQL stores. *)
LEMMA ExpiredFacts ==
    ASSUME NEW row \in Row, NEW t \in Times
    PROVE  /\ ReleasedFields(ExpiredRow(row, t), row, "exhausted", t)
           /\ ExpiredRow(row, t).next = Null
           /\ ExpiredRow(row, t).failure = row.attempt
<1> DEFINE base == Released(row, "exhausted", t)
<1>1. /\ ReleasedFields(base, row, "exhausted", t)
      /\ base.next = Null /\ base.failure = row.failure
  BY ReleasedFacts DEF States
<1>2. ExpiredRow(row, t) = [base EXCEPT !.failure = row.attempt]
  BY DEF ExpiredRow
<1>3. row.attempt \in Nat
  BY DEF Row
<1> HIDE DEF base
<1> QED
  BY <1>1, <1>2, <1>3 DEF ReleasedFields, Row

(* What RETRY_JOB_SQL stores. *)
LEMMA RetriedFacts ==
    ASSUME NEW row \in Row, NEW t \in Times, NEW next \in Times
    PROVE  /\ ReleasedFields(RetriedRow(row, next, t), row, "ready", t)
           /\ RetriedRow(row, next, t).next = next
           /\ RetriedRow(row, next, t).failure = row.failure + 1
<1> DEFINE base == Released(row, "ready", t)
           f == row.failure + 1
<1>1. /\ ReleasedFields(base, row, "ready", t)
      /\ base.next = Null /\ base.failure = row.failure
  BY ReleasedFacts DEF States
<1>2. RetriedRow(row, next, t) = [base EXCEPT !.failure = f, !.next = next]
  BY <1>1 DEF RetriedRow
<1>3. f \in Nat
  BY DEF Row
<1> HIDE DEF base, f
<1>4. ReleasedFields(RetriedRow(row, next, t), row, "ready", t)
      /\ RetriedRow(row, next, t).next = next
      /\ RetriedRow(row, next, t).failure = f
  BY <1>1, <1>2, <1>3 DEF ReleasedFields, Row
<1> QED
  BY <1>4 DEF f

(* What a claim and a renewal store. *)
LEMMA ClaimedFacts ==
    ASSUME NEW row \in Row, NEW t \in Times, NEW owner \in Owners,
           ExpiryFits(row, t)
    PROVE  LET new == ClaimedRow(row, owner, t)
           IN  /\ new \in Row /\ new.state = "leased"
               /\ new.revision = row.revision + 1
               /\ new.attempt = row.attempt + 1 /\ new.failure = row.failure
               /\ new.policy = row.policy /\ new.next = Null
               /\ new.owner = owner /\ new.expires = t + row.policy.lease
               /\ new.created = row.created /\ new.updated = t
<1> DEFINE r == row.revision + 1
           a == row.attempt + 1
           e == t + row.policy.lease
           new == ClaimedRow(row, owner, t)
<1>1. r \in Nat /\ a \in Nat
  BY DEF Row
<1>2. row.policy \in Policies /\ row.policy.lease \in Nat
  BY PolicyFields DEF Row
<1>3. e \in Times
  BY <1>2, BoundsAssumption DEF ExpiryFits, Times
<1>4. new = [row EXCEPT !.state = "leased", !.revision = r, !.attempt = a,
                        !.next = Null, !.owner = owner, !.expires = e,
                        !.updated = t]
  BY DEF ClaimedRow
<1> HIDE DEF r, a, e, new
<1>5. /\ new \in Row /\ new.state = "leased" /\ new.revision = r
      /\ new.attempt = a /\ new.failure = row.failure
      /\ new.policy = row.policy /\ new.next = Null
      /\ new.owner = owner /\ new.expires = e
      /\ new.created = row.created /\ new.updated = t
  BY <1>1, <1>3, <1>4 DEF Row, States
<1> QED
  BY <1>5 DEF r, a, e, new

(* What RENEW_JOB_SQL stores: the claim's row with a later expiry. *)
LEMMA RenewedFacts ==
    ASSUME NEW row \in Row, NEW t \in Times, NEW e \in Times
    PROVE  LET new == RenewedRow(row, e, t)
           IN  /\ new \in Row /\ new.state = row.state
               /\ new.revision = row.revision + 1
               /\ new.attempt = row.attempt /\ new.failure = row.failure
               /\ new.policy = row.policy /\ new.next = row.next
               /\ new.owner = row.owner /\ new.expires = e
               /\ new.created = row.created /\ new.updated = t
<1> DEFINE r == row.revision + 1
           new == RenewedRow(row, e, t)
<1>1. r \in Nat
  BY DEF Row
<1>2. new = [row EXCEPT !.revision = r, !.expires = e, !.updated = t]
  BY DEF RenewedRow
<1> HIDE DEF r, new
<1>3. /\ new \in Row /\ new.state = row.state /\ new.revision = r
      /\ new.attempt = row.attempt /\ new.failure = row.failure
      /\ new.policy = row.policy /\ new.next = row.next
      /\ new.owner = row.owner /\ new.expires = e
      /\ new.created = row.created /\ new.updated = t
  BY <1>1, <1>2 DEF Row
<1> QED
  BY <1>3 DEF r, new

-----------------------------------------------------------------------------
(* What one step of Next does to one row. *)

RowKept(id) == jobs'[id] = jobs[id]

RowInserted(id) ==
    /\ jobs[id].state = "absent"
    /\ id[2] = dirty[id[1]]
    /\ dirty' = dirty
    /\ \E p \in Policies, t \in Times : jobs'[id] = NewRow(p, t)

RowDropped(id, t) ==
    /\ NotRegressed(id, t)
    /\ \/ Active(id) /\ jobs'[id] = SupersededRow(jobs[id], t)
       \/ ExpiredFinally(id, t) /\ jobs'[id] = ExpiredRow(jobs[id], t)

RowLeased(id, t) ==
    /\ NotRegressed(id, t)
    /\ \/ /\ Claimable(id, t) /\ ExpiryFits(jobs[id], t)
          /\ \E owner \in Owners : jobs'[id] = ClaimedRow(jobs[id], owner, t)
       \/ /\ jobs[id].state = "leased"
          /\ \E e \in Times \ {0} : jobs'[id] = RenewedRow(jobs[id], e, t)

RowClosed(id, t) ==
    /\ NotRegressed(id, t)
    /\ jobs[id].state = "leased"
    /\ \/ /\ jobs[id].attempt >= jobs[id].policy.max
          /\ jobs'[id] = ExhaustedRow(jobs[id], t)
       \/ /\ jobs[id].attempt < jobs[id].policy.max
          /\ \E next \in Times : jobs'[id] = RetriedRow(jobs[id], next, t)
       \/ jobs'[id] = CompletedRow(jobs[id], t)

RowStep(id) ==
    \/ RowKept(id)
    \/ RowInserted(id)
    \/ \E t \in Times : RowDropped(id, t) \/ RowLeased(id, t) \/ RowClosed(id, t)

(* Every step of the queue is, for each row, one of the above. *)
LEMMA RowSteps ==
    ASSUME TypeOK, [Next]_vars, NEW id \in JobIds
    PROVE  RowStep(id)
<1> USE DEF TypeOK
<1>1. ASSUME NEW trade \in Trades, AdvanceDirty(trade)
      PROVE  RowStep(id)
  BY <1>1 DEF AdvanceDirty, RowStep, RowKept
<1>2. ASSUME NEW trade \in Trades, NEW p \in Policies, NEW t \in Times,
             Schedule(trade, p, t)
      PROVE  RowStep(id)
  <2>1. CASE id = CurrentId(trade)
    <3>1. jobs'[id] = NewRow(p, t)
      BY <1>2, <2>1 DEF Schedule, AfterSupersede
    <3>2. jobs[id].state = "absent" /\ dirty' = dirty
      BY <1>2, <2>1 DEF Schedule, Schedulable
    <3>3. id[2] = dirty[id[1]]
      BY <2>1 DEF CurrentId
    <3> QED
      BY <3>1, <3>2, <3>3 DEF RowStep, RowInserted
  <2>2. CASE id # CurrentId(trade) /\ id \in ActiveOf(trade)
    <3>1. jobs'[id] = SupersededRow(jobs[id], t)
      BY <1>2, <2>2 DEF Schedule, AfterSupersede
    <3>2. Active(id) /\ NotRegressed(id, t)
      BY <1>2, <2>2 DEF Schedule, Schedulable, ActiveOf, ActiveIds
    <3> QED
      BY <3>1, <3>2 DEF RowStep, RowDropped
  <2>3. CASE id # CurrentId(trade) /\ id \notin ActiveOf(trade)
    BY <1>2, <2>3 DEF Schedule, AfterSupersede, RowStep, RowKept
  <2> QED
    BY <2>1, <2>2, <2>3
<1>3. ASSUME NEW t \in Times, jobs'[id] = AfterExhaust(t)[id]
      PROVE  RowStep(id)
  <2>1. CASE ExpiredFinally(id, t)
    <3>1. jobs'[id] = ExpiredRow(jobs[id], t)
      BY <1>3, <2>1 DEF AfterExhaust
    <3> QED
      BY <3>1, <2>1 DEF RowStep, RowDropped, ExpiredFinally
  <2>2. CASE ~ExpiredFinally(id, t)
    BY <1>3, <2>2 DEF AfterExhaust, RowStep, RowKept
  <2> QED
    BY <2>1, <2>2
<1>4. ASSUME NEW owner \in Owners, NEW t \in Times, NEW c \in JobIds,
             Claim(owner, t, c)
      PROVE  RowStep(id)
  <2>1. CASE id = c
    <3>1. jobs'[id] = ClaimedRow(jobs[id], owner, t)
      BY <1>4, <2>1 DEF Claim, AfterExhaust
    <3> QED
      BY <1>4, <2>1, <3>1 DEF Claim, Eligible, Claimable, RowStep, RowLeased
  <2>2. CASE id # c
    BY <1>3, <1>4, <2>2 DEF Claim, AfterExhaust
  <2> QED
    BY <2>1, <2>2
<1>5. ASSUME NEW t \in Times, ClaimNothing(t)
      PROVE  RowStep(id)
  BY <1>3, <1>5 DEF ClaimNothing
<1>6. ASSUME NEW l \in leases, NEW t \in Times, Renew(l, t)
      PROVE  RowStep(id)
  <2>1. l.id \in JobIds /\ l.row \in Row /\ l.row.policy \in Policies
    BY DEF Lease, Row
  <2>2. t + l.row.policy.lease \in Times \ {0}
    BY <1>6, <2>1, PolicyFields, BoundsAssumption DEF Renew, ExpiryFits, Times
  <2>3. CASE id = l.id
    <3>1. jobs'[id] = RenewedRow(jobs[id], t + l.row.policy.lease, t)
      BY <1>6, <2>3 DEF Renew
    <3>2. jobs[id].state = "leased" /\ NotRegressed(id, t)
      BY <1>6, <2>3 DEF Renew, CasLease
    <3> QED
      BY <2>2, <3>1, <3>2 DEF RowStep, RowLeased
  <2>4. CASE id # l.id
    BY <1>6, <2>4 DEF Renew, RowStep, RowKept
  <2> QED
    BY <2>3, <2>4
<1>7. ASSUME NEW l \in leases, NEW t \in Times, NEW delay \in Delays,
             RecordFailure(l, t, delay)
      PROVE  RowStep(id)
  <2>1. CASE id = l.id
    <3>1. jobs[id].state = "leased" /\ NotRegressed(id, t)
      BY <1>7, <2>1 DEF RecordFailure, CasLease
    <3>2. \/ /\ jobs[id].attempt >= jobs[id].policy.max
             /\ jobs'[id] = ExhaustedRow(jobs[id], t)
          \/ /\ jobs[id].attempt < jobs[id].policy.max
             /\ t + delay <= MaxTime
             /\ jobs'[id] = RetriedRow(jobs[id], t + delay, t)
      BY <1>7, <2>1 DEF RecordFailure
    <3>3. t + delay <= MaxTime => t + delay \in Times
      BY BoundsAssumption DEF Times, Delays
    <3> QED
      BY <3>1, <3>2, <3>3 DEF RowStep, RowClosed
  <2>2. CASE id # l.id
    BY <1>7, <2>2 DEF RecordFailure, RowStep, RowKept
  <2> QED
    BY <2>1, <2>2
<1>8. ASSUME NEW l \in leases, NEW t \in Times, Complete(l, t)
      PROVE  RowStep(id)
  <2>1. CASE id = l.id
    <3>1. /\ jobs[id].state = "leased" /\ NotRegressed(id, t)
          /\ jobs'[id] = CompletedRow(jobs[id], t)
      BY <1>8, <2>1 DEF Complete, FinalizationFence, CasLease
    <3> QED
      BY <3>1 DEF RowStep, RowClosed
  <2>2. CASE id # l.id
    BY <1>8, <2>2 DEF Complete, FinalizationFence, RowStep, RowKept
  <2> QED
    BY <2>1, <2>2
<1>9. CASE UNCHANGED vars
  BY <1>9 DEF vars, RowStep, RowKept
<1> QED
  BY <1>1, <1>2, <1>4, <1>5, <1>6, <1>7, <1>8, <1>9 DEF Next

(* What a step does to the set of leases: it grows by at most one, whose    *)
(* row is the one just stored.                                              *)
LEMMA LeaseSteps ==
    ASSUME TypeOK, [Next]_vars, NEW l \in leases'
    PROVE  \/ l \in leases
           \/ \E c \in JobIds : /\ l = [id |-> c, row |-> jobs'[c]]
                                /\ jobs'[c].state = "leased"
<1> USE DEF TypeOK
<1>1. ASSUME NEW owner \in Owners, NEW t \in Times, NEW c \in JobIds,
             Claim(owner, t, c), l \notin leases
      PROVE  \E d \in JobIds : /\ l = [id |-> d, row |-> jobs'[d]]
                               /\ jobs'[d].state = "leased"
  <2>1. l = [id |-> c, row |-> ClaimedRow(jobs[c], owner, t)]
    BY <1>1 DEF Claim
  <2>2. jobs'[c] = ClaimedRow(jobs[c], owner, t)
    BY <1>1 DEF Claim, AfterExhaust
  <2>3. jobs'[c].state = "leased"
    BY <1>1, <2>2, ClaimedFacts DEF Claim
  <2> QED
    BY <2>1, <2>2, <2>3
<1>2. ASSUME NEW m \in leases, NEW t \in Times, Renew(m, t), l \notin leases
      PROVE  \E d \in JobIds : /\ l = [id |-> d, row |-> jobs'[d]]
                               /\ jobs'[d].state = "leased"
  <2>1. m.id \in JobIds
    BY DEF Lease
  <2>2. l = [id |-> m.id, row |-> RenewedRow(jobs[m.id], t + m.row.policy.lease, t)]
    BY <1>2 DEF Renew
  <2>3. jobs'[m.id] = RenewedRow(jobs[m.id], t + m.row.policy.lease, t)
    BY <1>2, <2>1 DEF Renew
  <2>4. jobs'[m.id].state = "leased"
    <3>1. m.row.policy \in Policies /\ jobs[m.id] \in Row
      BY <2>1 DEF Lease, Row
    <3>2. t + m.row.policy.lease \in Times
      BY <1>2, <3>1, PolicyFields, BoundsAssumption DEF Renew, ExpiryFits, Times
    <3>3. jobs[m.id].state = "leased"
      BY <1>2 DEF Renew, CasLease
    <3> QED
      BY <2>3, <3>1, <3>2, <3>3, RenewedFacts
  <2> QED
    BY <2>1, <2>2, <2>3, <2>4
<1>3. CASE leases' = leases
  BY <1>3
<1> QED
  BY <1>1, <1>2, <1>3
  DEF Next, vars, AdvanceDirty, Schedule, ClaimNothing, RecordFailure, Complete

-----------------------------------------------------------------------------
(* Type correctness *)

(* Each of those row changes yields a row of the table's type. *)
LEMMA RowTypes ==
    ASSUME TypeOK, NEW id \in JobIds, RowStep(id)
    PROVE  jobs'[id] \in Row
<1>1. jobs[id] \in Row
  BY DEF TypeOK
<1>2. CASE RowKept(id)
  BY <1>1, <1>2 DEF RowKept
<1>3. CASE RowInserted(id)
  BY <1>3, NewRowType DEF RowInserted
<1>4. ASSUME NEW t \in Times, RowDropped(id, t)
      PROVE  jobs'[id] \in Row
  BY <1>1, <1>4, SupersededFacts, ExpiredFacts DEF RowDropped, ReleasedFields
<1>5. ASSUME NEW t \in Times, RowLeased(id, t)
      PROVE  jobs'[id] \in Row
  BY <1>1, <1>5, ClaimedFacts, RenewedFacts DEF RowLeased
<1>6. ASSUME NEW t \in Times, RowClosed(id, t)
      PROVE  jobs'[id] \in Row
  <2>1. ExhaustedRow(jobs[id], t) \in Row /\ CompletedRow(jobs[id], t) \in Row
    BY <1>1, ExhaustedFacts, CompletedFacts DEF ReleasedFields
  <2>2. \A next \in Times : RetriedRow(jobs[id], next, t) \in Row
    BY <1>1, RetriedFacts DEF ReleasedFields
  <2> QED
    BY <1>6, <2>1, <2>2 DEF RowClosed
<1> QED
  BY <1>2, <1>3, <1>4, <1>5, <1>6 DEF RowStep

(* No operation leaves the types of the table, the dirty rows or the leases. *)
LEMMA TypeStep ==
    ASSUME TypeOK, [Next]_vars
    PROVE  TypeOK'
<1> USE DEF TypeOK
<1>1. dirty' \in [Trades -> 0 .. MaxGeneration]
  <2>1. ASSUME NEW trade \in Trades, AdvanceDirty(trade)
        PROVE  dirty' \in [Trades -> 0 .. MaxGeneration]
    BY <2>1, BoundsAssumption DEF AdvanceDirty
  <2>2. CASE dirty' = dirty
    BY <2>2
  <2> QED
    BY <2>1, <2>2
    DEF Next, vars, Schedule, Claim, ClaimNothing, Renew, RecordFailure, Complete
<1>2. jobs' \in [JobIds -> Row]
  <2>1. jobs' = [id \in JobIds |-> jobs'[id]]
    BY DEF Next, vars, AdvanceDirty, Schedule, Claim, ClaimNothing, Renew,
           RecordFailure, Complete, AfterSupersede, AfterExhaust
  <2>2. \A id \in JobIds : jobs'[id] \in Row
    BY RowSteps, RowTypes
  <2> QED
    BY <2>1, <2>2
<1>3. leases' \subseteq Lease
  <2> SUFFICES ASSUME NEW l \in leases' PROVE l \in Lease
    OBVIOUS
  <2>1. CASE l \in leases
    BY <2>1
  <2>2. ASSUME NEW c \in JobIds, l = [id |-> c, row |-> jobs'[c]]
        PROVE  l \in Lease
    BY <1>2, <2>2 DEF Lease
  <2> QED
    BY <2>1, <2>2, LeaseSteps
<1> QED
  BY <1>1, <1>2, <1>3

(* Every reachable state of the queue is well typed, for every instance. *)
THEOREM TypeCorrect == Spec => []TypeOK
<1>1. Init => TypeOK
  BY NoRowType, BoundsAssumption DEF Init, TypeOK
<1>2. TypeOK /\ [Next]_vars => TypeOK'
  BY TypeStep
<1> QED
  BY <1>1, <1>2, PTL DEF Spec

-----------------------------------------------------------------------------
(* The lifecycle of a row *)

(* The placeholder for a missing row is absent. *)
LEMMA StateOfNoRow ==
    /\ NoRow.state = "absent" /\ NoRow.revision = 0 /\ NoRow.updated = 0
    /\ NoRow.attempt = 0 /\ NoRow.failure = 0 /\ NoRow.created = 0
    /\ NoRow.next = Null /\ NoRow.owner = NoOwner /\ NoRow.expires = Null
BY DEF NoRow

(* What INSERT_JOB_SQL stores. *)
LEMMA NewRowFacts ==
    ASSUME NEW p, NEW t
    PROVE  LET new == NewRow(p, t)
           IN  /\ new.state = "ready" /\ new.revision = 1 /\ new.attempt = 0
               /\ new.failure = 0 /\ new.policy = p /\ new.next = t
               /\ new.owner = NoOwner /\ new.expires = Null
               /\ new.created = t /\ new.updated = t
BY DEF NewRow

(* An id with no row carries the columns of NoRow, so that inserting a row  *)
(* is an ordinary revision step from 0 to 1.                                *)
AbsentIsNoRow ==
    \A id \in JobIds : jobs[id].state = "absent" => jobs[id] = NoRow

(* A missing row stays the placeholder until schedule inserts it. *)
LEMMA AbsentStep ==
    ASSUME TypeOK, AbsentIsNoRow, [Next]_vars
    PROVE  AbsentIsNoRow'
<1> SUFFICES ASSUME NEW id \in JobIds, jobs'[id].state = "absent"
             PROVE  jobs'[id] = NoRow
  BY DEF AbsentIsNoRow
<1>1. RowStep(id) /\ jobs[id] \in Row
  BY RowSteps DEF TypeOK
<1>2. CASE RowKept(id)
  BY <1>2 DEF RowKept, AbsentIsNoRow
<1>3. CASE RowInserted(id)
  BY <1>3, NewRowFacts DEF RowInserted
<1>4. ASSUME NEW t \in Times, RowDropped(id, t)
      PROVE  FALSE
  BY <1>1, <1>4, SupersededFacts, ExpiredFacts DEF RowDropped, ReleasedFields
<1>5. ASSUME NEW t \in Times, RowLeased(id, t)
      PROVE  FALSE
  BY <1>1, <1>5, ClaimedFacts, RenewedFacts DEF RowLeased
<1>6. ASSUME NEW t \in Times, RowClosed(id, t)
      PROVE  FALSE
  <2>1. /\ ExhaustedRow(jobs[id], t).state = "exhausted"
        /\ CompletedRow(jobs[id], t).state = "completed"
    BY <1>1, ExhaustedFacts, CompletedFacts DEF ReleasedFields
  <2>2. \A next \in Times : RetriedRow(jobs[id], next, t).state = "ready"
    BY <1>1, RetriedFacts DEF ReleasedFields
  <2> QED
    BY <1>6, <2>1, <2>2 DEF RowClosed
<1> QED
  BY <1>1, <1>2, <1>3, <1>4, <1>5, <1>6 DEF RowStep

(* Every change of a row is one the guard_update trigger admits. *)
LEMMA JobSteps ==
    ASSUME TypeOK, AbsentIsNoRow, [Next]_vars, NEW id \in JobIds
    PROVE  JobStep(id)
<1> USE DEF LegalTransitions
<1>1. RowStep(id) /\ jobs[id] \in Row
  BY RowSteps DEF TypeOK
<1>2. CASE RowKept(id)
  BY <1>2 DEF RowKept, JobStep
<1>3. CASE RowInserted(id)
  <2>1. PICK p \in Policies, t \in Times : jobs'[id] = NewRow(p, t)
    BY <1>3 DEF RowInserted
  <2>2. jobs[id] = NoRow
    BY <1>3 DEF RowInserted, AbsentIsNoRow
  <2>3. t >= 0
    BY BoundsAssumption DEF Times
  <2> QED
    BY <2>1, <2>2, <2>3, StateOfNoRow, NewRowFacts DEF JobStep
<1>4. ASSUME NEW t \in Times, RowDropped(id, t)
      PROVE  JobStep(id)
  <2>1. t >= jobs[id].updated
    BY <1>1, <1>4 DEF RowDropped, NotRegressed, Row, Times
  <2>2. CASE Active(id) /\ jobs'[id] = SupersededRow(jobs[id], t)
    BY <1>1, <2>1, <2>2, SupersededFacts DEF Active, ReleasedFields, JobStep
  <2>3. CASE ExpiredFinally(id, t) /\ jobs'[id] = ExpiredRow(jobs[id], t)
    BY <1>1, <2>1, <2>3, ExpiredFacts DEF ExpiredFinally, ReleasedFields, JobStep
  <2> QED
    BY <1>4, <2>2, <2>3 DEF RowDropped
<1>5. ASSUME NEW t \in Times, RowLeased(id, t)
      PROVE  JobStep(id)
  <2>1. t >= jobs[id].updated
    BY <1>1, <1>5 DEF RowLeased, NotRegressed, Row, Times
  <2>2. ASSUME NEW owner \in Owners, Claimable(id, t), ExpiryFits(jobs[id], t),
               jobs'[id] = ClaimedRow(jobs[id], owner, t)
        PROVE  JobStep(id)
    BY <1>1, <2>1, <2>2, ClaimedFacts DEF Claimable, JobStep
  <2>3. ASSUME NEW e \in Times, jobs[id].state = "leased",
               jobs'[id] = RenewedRow(jobs[id], e, t)
        PROVE  JobStep(id)
    BY <1>1, <2>1, <2>3, RenewedFacts DEF JobStep
  <2> QED
    BY <1>5, <2>2, <2>3 DEF RowLeased
<1>6. ASSUME NEW t \in Times, RowClosed(id, t)
      PROVE  JobStep(id)
  <2>1. t >= jobs[id].updated /\ jobs[id].state = "leased"
    BY <1>1, <1>6 DEF RowClosed, NotRegressed, Row, Times
  <2>2. CASE jobs'[id] = ExhaustedRow(jobs[id], t)
    BY <1>1, <2>1, <2>2, ExhaustedFacts DEF ReleasedFields, JobStep
  <2>3. ASSUME NEW next \in Times, jobs'[id] = RetriedRow(jobs[id], next, t)
        PROVE  JobStep(id)
    BY <1>1, <2>1, <2>3, RetriedFacts DEF ReleasedFields, JobStep
  <2>4. CASE jobs'[id] = CompletedRow(jobs[id], t)
    BY <1>1, <2>1, <2>4, CompletedFacts DEF ReleasedFields, JobStep
  <2> QED
    BY <1>6, <2>2, <2>3, <2>4 DEF RowClosed
<1> QED
  BY <1>1, <1>2, <1>3, <1>4, <1>5, <1>6 DEF RowStep

(* The guard_update trigger of reconciliation_jobs never aborts a statement *)
(* for an illegal transition, a wrong revision or a changed immutable       *)
(* column: no operation asks for one.                                       *)
THEOREM LifecycleHolds == Spec => JobLifecycle
<1>1. Init => AbsentIsNoRow
  BY DEF Init, AbsentIsNoRow
<1>2. TypeOK /\ AbsentIsNoRow /\ [Next]_vars => AbsentIsNoRow'
  BY AbsentStep
<1>3. TypeOK /\ AbsentIsNoRow /\ [Next]_vars => [\A id \in JobIds : JobStep(id)]_vars
  BY JobSteps
<1> QED
  BY <1>1, <1>2, <1>3, TypeCorrect, PTL DEF Spec, JobLifecycle

-----------------------------------------------------------------------------
(* Fencing *)

(* No operation lets an old lease catch up with the stored revision. *)
LEMMA FencingStep ==
    ASSUME TypeOK, AbsentIsNoRow, LeaseFencing, [Next]_vars
    PROVE  LeaseFencing'
<1> SUFFICES ASSUME NEW l \in leases'
             PROVE  /\ l.row.revision <= jobs'[l.id].revision
                    /\ l.row.revision = jobs'[l.id].revision => jobs'[l.id] = l.row
  BY DEF LeaseFencing
<1>1. TypeOK'
  BY TypeStep
<1>2. CASE l \in leases
  <2>1. /\ l.id \in JobIds /\ l.row \in Row
        /\ jobs[l.id] \in Row /\ jobs'[l.id] \in Row
    BY <1>1, <1>2 DEF TypeOK, Lease
  <2>2. /\ l.row.revision \in Nat
        /\ jobs[l.id].revision \in Nat /\ jobs'[l.id].revision \in Nat
    BY <2>1 DEF Row
  <2>3. /\ l.row.revision <= jobs[l.id].revision
        /\ l.row.revision = jobs[l.id].revision => jobs[l.id] = l.row
    BY <1>2 DEF LeaseFencing
  <2>4. \/ jobs'[l.id] = jobs[l.id]
        \/ jobs'[l.id].revision = jobs[l.id].revision + 1
    BY <2>1, JobSteps DEF JobStep
  <2> QED
    BY <2>2, <2>3, <2>4
<1>3. ASSUME NEW c \in JobIds, l = [id |-> c, row |-> jobs'[c]]
      PROVE  /\ l.row.revision <= jobs'[l.id].revision
             /\ l.row.revision = jobs'[l.id].revision => jobs'[l.id] = l.row
  <2>1. jobs'[c].revision \in Nat
    BY <1>1 DEF TypeOK, Row
  <2> QED
    BY <1>3, <2>1
<1> QED
  BY <1>2, <1>3, LeaseSteps

(* Of all leases ever issued for a job at most one can pass a               *)
(* compare-and-swap, for any number of holders and any clock.               *)
THEOREM FencingHolds == Spec => []LeaseFencing
<1>1. Init => AbsentIsNoRow /\ LeaseFencing
  BY DEF Init, AbsentIsNoRow, LeaseFencing
<1>2. /\ TypeOK /\ AbsentIsNoRow /\ LeaseFencing /\ [Next]_vars
      => AbsentIsNoRow' /\ LeaseFencing'
  BY AbsentStep, FencingStep
<1> QED
  BY <1>1, <1>2, TypeCorrect, PTL DEF Spec

-----------------------------------------------------------------------------
(* One active job per trade, and it is the newest *)

(* A job's generation never runs ahead of the trade's dirty generation.  It *)
(* makes NewestIsActive inductive: an inserted job is newer than all others.*)
JobsFollowDirty ==
    \A id \in JobIds : jobs[id].state # "absent" => id[2] <= dirty[id[1]]

(* A dirty generation never goes back. *)
LEMMA DirtyGrows ==
    ASSUME TypeOK, [Next]_vars, NEW trade \in Trades
    PROVE  dirty'[trade] >= dirty[trade]
<1>1. dirty[trade] \in Int
  BY DEF TypeOK
<1>2. ASSUME NEW other \in Trades, AdvanceDirty(other)
      PROVE  dirty'[trade] >= dirty[trade]
  BY <1>1, <1>2 DEF AdvanceDirty, TypeOK
<1> QED
  BY <1>1, <1>2 DEF Next, vars, Schedule, Claim, ClaimNothing, Renew,
                    RecordFailure, Complete

(* A row that is active after a step was active before it, or was inserted. *)
LEMMA ActiveOrigin ==
    ASSUME TypeOK, AbsentIsNoRow, [Next]_vars, NEW id \in JobIds
    PROVE  /\ Active(id)' => Active(id) \/ RowInserted(id)
           /\ jobs'[id].state # "absent" =>
                 jobs[id].state # "absent" \/ RowInserted(id)
<1>1. RowStep(id) /\ jobs[id] \in Row /\ JobStep(id)
  BY RowSteps, JobSteps DEF TypeOK
<1>2. CASE jobs'[id] = jobs[id]
  BY <1>2 DEF Active
<1>3. CASE jobs'[id] # jobs[id] /\ jobs[id].state # "absent"
  BY <1>1, <1>3 DEF JobStep, LegalTransitions, Active
<1>4. CASE jobs'[id] # jobs[id] /\ jobs[id].state = "absent"
  <2>1. ASSUME NEW t \in Times
        PROVE  ~RowDropped(id, t) /\ ~RowLeased(id, t) /\ ~RowClosed(id, t)
    BY <1>4 DEF RowDropped, RowLeased, RowClosed, Active, ExpiredFinally, Claimable
  <2> QED
    BY <1>1, <1>4, <2>1 DEF RowStep, RowKept
<1> QED
  BY <1>2, <1>3, <1>4

(* Only schedule inserts a row, for the trade's current generation. *)
LEMMA InsertedBySchedule ==
    ASSUME TypeOK, [Next]_vars, NEW new \in JobIds, RowInserted(new)
    PROVE  \E trade \in Trades, p \in Policies, t \in Times :
               Schedule(trade, p, t) /\ new = CurrentId(trade)
<1>1. jobs'[new] # jobs[new]
  BY NewRowFacts DEF RowInserted
<1>2. PICK trade \in Trades, p \in Policies, t \in Times : Schedule(trade, p, t)
  <2>1. jobs[new].state = "absent"
    BY DEF RowInserted
  <2>2. \A t \in Times : ~ExpiredFinally(new, t) /\ ~Eligible(new, t)
    BY <2>1 DEF ExpiredFinally, Eligible, Claimable
  <2>3. \A l \in leases : CasLease(l) => l.id # new
    BY <2>1 DEF CasLease
  <2> QED
    BY <1>1, <2>2, <2>3
    DEF Next, vars, AdvanceDirty, Claim, ClaimNothing, AfterExhaust, Renew,
        RecordFailure, Complete, FinalizationFence, TypeOK
<1>3. new = CurrentId(trade)
  <2>1. CASE new \in ActiveOf(trade)
    BY <2>1 DEF ActiveOf, ActiveIds, Active, RowInserted
  <2>2. CASE new \notin ActiveOf(trade) /\ new # CurrentId(trade)
    BY <1>1, <1>2, <2>2 DEF Schedule, AfterSupersede
  <2> QED
    BY <2>1, <2>2
<1> QED
  BY <1>2, <1>3

(* When a job is inserted, every active job of its trade is superseded.     *)
LEMMA InsertSupersedes ==
    ASSUME TypeOK, AbsentIsNoRow, JobsFollowDirty, [Next]_vars,
           NEW new \in JobIds, RowInserted(new),
           NEW old \in JobIds, old # new, old[1] = new[1]
    PROVE  ~Active(old)'
<1>1. PICK trade \in Trades, p \in Policies, t \in Times :
         Schedule(trade, p, t) /\ new = CurrentId(trade)
  BY InsertedBySchedule
<1>2. new = CurrentId(trade)
  BY <1>1
<1>3. new[1] = trade
  BY <1>2 DEF CurrentId
<1>4. jobs[old] \in Row
  BY DEF TypeOK
<1>5. CASE old \in ActiveOf(trade)
  <2>1. jobs'[old] = SupersededRow(jobs[old], t)
    BY <1>1, <1>2, <1>5 DEF Schedule, AfterSupersede
  <2> QED
    BY <1>4, <2>1, SupersededFacts DEF ReleasedFields, Active
<1>6. CASE old \notin ActiveOf(trade)
  <2>1. jobs'[old] = jobs[old]
    BY <1>1, <1>2, <1>6 DEF Schedule, AfterSupersede
  <2>2. ~Active(old)
    BY <1>3, <1>6 DEF ActiveOf, ActiveIds
  <2> QED
    BY <2>1, <2>2 DEF Active
<1> QED
  BY <1>5, <1>6

(* No operation revives an older job or runs ahead of the dirty generation. *)
LEMMA NewestStep ==
    ASSUME TypeOK, AbsentIsNoRow, JobsFollowDirty, NewestIsActive, [Next]_vars
    PROVE  JobsFollowDirty' /\ NewestIsActive'
<1>1. \A id \in JobIds : id[1] \in Trades /\ id[2] \in Nat
  BY BoundsAssumption DEF JobIds, Generations
<1>2. \A trade \in Trades : dirty[trade] \in Int /\ dirty'[trade] \in Int
  BY TypeStep DEF TypeOK
<1>3. JobsFollowDirty'
  <2> SUFFICES ASSUME NEW id \in JobIds, jobs'[id].state # "absent"
               PROVE  id[2] <= dirty'[id[1]]
    BY DEF JobsFollowDirty
  <2>1. CASE jobs[id].state # "absent"
    BY <1>1, <1>2, <2>1, DirtyGrows DEF JobsFollowDirty
  <2>2. CASE RowInserted(id)
    BY <1>1, <1>2, <2>2 DEF RowInserted
  <2> QED
    BY <2>1, <2>2, ActiveOrigin
<1>4. NewestIsActive'
  <2> SUFFICES ASSUME NEW old \in JobIds, NEW new \in JobIds,
                      old[1] = new[1], old[2] < new[2],
                      jobs'[new].state # "absent"
               PROVE  ~Active(old)'
    BY DEF NewestIsActive
  <2>1. CASE RowInserted(new)
    BY <1>1, <2>1, InsertSupersedes
  <2>2. CASE RowInserted(old)
    <3>1. old[2] = dirty[old[1]] /\ jobs[new].state = "absent"
      BY <1>1, <1>2, <2>2 DEF RowInserted, JobsFollowDirty
    <3> QED
      BY <2>1, <3>1, ActiveOrigin
  <2>3. CASE jobs[new].state # "absent" /\ ~RowInserted(old)
    BY <2>3, ActiveOrigin DEF NewestIsActive
  <2> QED
    BY <2>1, <2>2, <2>3, ActiveOrigin
<1> QED
  BY <1>3, <1>4

(* A trade's only active job is its newest one, in every interleaving of    *)
(* schedules, claims, renewals, failures and completions.                   *)
THEOREM NewestHolds == Spec => []NewestIsActive
<1>1. Init => AbsentIsNoRow /\ JobsFollowDirty /\ NewestIsActive
  BY StateOfNoRow DEF Init, AbsentIsNoRow, JobsFollowDirty, NewestIsActive
<1>2. /\ TypeOK /\ AbsentIsNoRow /\ JobsFollowDirty /\ NewestIsActive
      /\ [Next]_vars
      => AbsentIsNoRow' /\ JobsFollowDirty' /\ NewestIsActive'
  BY AbsentStep, NewestStep
<1> QED
  BY <1>1, <1>2, TypeCorrect, PTL DEF Spec

-----------------------------------------------------------------------------
(* Claims wait for the expiry or the backoff *)

(* Only a claim counts an attempt, and it comes after the stored time. *)
LEMMA TimingStep ==
    ASSUME TypeOK, AbsentIsNoRow, [Next]_vars, NEW id \in JobIds
    PROVE  AttemptTiming(id)
<1>1. RowStep(id) /\ jobs[id] \in Row /\ jobs[id].attempt \in Nat
  BY RowSteps DEF TypeOK, Row
<1>2. CASE jobs'[id].attempt = jobs[id].attempt
  BY <1>1, <1>2 DEF AttemptTiming
<1>3. CASE RowInserted(id)
  BY <1>2, <1>3, NewRowFacts, StateOfNoRow DEF RowInserted, AbsentIsNoRow
<1>4. ASSUME NEW t \in Times, RowDropped(id, t)
      PROVE  AttemptTiming(id)
  BY <1>1, <1>2, <1>4, SupersededFacts, ExpiredFacts DEF RowDropped, ReleasedFields
<1>5. ASSUME NEW t \in Times, RowLeased(id, t)
      PROVE  AttemptTiming(id)
  <2>1. ASSUME NEW owner \in Owners, Claimable(id, t), ExpiryFits(jobs[id], t),
               jobs'[id] = ClaimedRow(jobs[id], owner, t)
        PROVE  AttemptTiming(id)
    <3>1. jobs'[id].attempt = jobs[id].attempt + 1 /\ jobs'[id].updated = t
      BY <1>1, <2>1, ClaimedFacts
    <3>2. /\ jobs[id].state = "leased" => t >= jobs[id].expires
          /\ jobs[id].state = "ready" => t >= jobs[id].next
      BY <1>1, <2>1, BoundsAssumption DEF Claimable, Row, Times, Null
    <3> QED
      BY <3>1, <3>2 DEF AttemptTiming
  <2>2. ASSUME NEW e \in Times, jobs'[id] = RenewedRow(jobs[id], e, t)
        PROVE  AttemptTiming(id)
    BY <1>1, <1>2, <2>2, RenewedFacts
  <2> QED
    BY <1>5, <2>1, <2>2 DEF RowLeased
<1>6. ASSUME NEW t \in Times, RowClosed(id, t)
      PROVE  AttemptTiming(id)
  <2>1. /\ ExhaustedRow(jobs[id], t).attempt = jobs[id].attempt
        /\ CompletedRow(jobs[id], t).attempt = jobs[id].attempt
    BY <1>1, ExhaustedFacts, CompletedFacts DEF ReleasedFields
  <2>2. \A next \in Times : RetriedRow(jobs[id], next, t).attempt = jobs[id].attempt
    BY <1>1, RetriedFacts DEF ReleasedFields
  <2> QED
    BY <1>2, <1>6, <2>1, <2>2 DEF RowClosed
<1> QED
  BY <1>1, <1>2, <1>3, <1>4, <1>5, <1>6 DEF RowStep, RowKept

(* A lease ends exhausted in two ways: its expiry has passed a claimer by,  *)
(* or its holder recorded the failure of the last attempt.                  *)
LEMMA ExhaustionSteps ==
    ASSUME TypeOK, [Next]_vars, NEW id \in JobIds,
           jobs[id].state = "leased", jobs'[id].state = "exhausted"
    PROVE  \/ \E t \in Times : /\ ExpiredFinally(id, t)
                              /\ jobs'[id] = ExpiredRow(jobs[id], t)
           \/ /\ jobs'[id].failure = jobs[id].failure + 1
              /\ leases' = leases
              /\ \A other \in JobIds \ {id} : jobs'[other] = jobs[other]
<1> USE DEF TypeOK
<1>1. jobs[id] \in Row /\ jobs'[id] # jobs[id]
  OBVIOUS
<1>2. ASSUME NEW trade \in Trades, NEW p \in Policies, NEW t \in Times,
             Schedule(trade, p, t)
      PROVE  FALSE
  <2>1. jobs'[id] \in {NewRow(p, t), SupersededRow(jobs[id], t), jobs[id]}
    BY <1>2 DEF Schedule, AfterSupersede
  <2>2. /\ NewRow(p, t).state = "ready"
        /\ SupersededRow(jobs[id], t).state = "superseded"
    BY <1>1, SupersededFacts DEF NewRow, ReleasedFields
  <2> QED
    BY <1>1, <2>1, <2>2
<1>3. ASSUME NEW t \in Times, jobs'[id] = AfterExhaust(t)[id]
      PROVE  ExpiredFinally(id, t) /\ jobs'[id] = ExpiredRow(jobs[id], t)
  BY <1>1, <1>3 DEF AfterExhaust
<1>4. ASSUME NEW owner \in Owners, NEW t \in Times, NEW c \in JobIds,
             Claim(owner, t, c)
      PROVE  ExpiredFinally(id, t) /\ jobs'[id] = ExpiredRow(jobs[id], t)
  <2>1. c # id
    <3>1. ClaimedRow(jobs[c], owner, t).state = "leased"
      BY <1>4, ClaimedFacts DEF Claim
    <3>2. jobs'[c] = ClaimedRow(jobs[c], owner, t)
      BY <1>4 DEF Claim, AfterExhaust
    <3> QED
      BY <3>1, <3>2
  <2> QED
    BY <1>3, <1>4, <2>1 DEF Claim, AfterExhaust
<1>5. ASSUME NEW l \in leases, NEW t \in Times, Renew(l, t)
      PROVE  FALSE
  <2>1. l.row.policy \in Policies
    BY DEF Lease, Row
  <2>2. t + l.row.policy.lease \in Times
    BY <1>5, <2>1, PolicyFields, BoundsAssumption DEF Renew, ExpiryFits, Times
  <2>3. RenewedRow(jobs[id], t + l.row.policy.lease, t).state = "leased"
    BY <1>1, <2>2, RenewedFacts
  <2> QED
    BY <1>1, <1>5, <2>3 DEF Renew
<1>6. ASSUME NEW l \in leases, NEW t \in Times, NEW delay \in Delays,
             RecordFailure(l, t, delay)
      PROVE  /\ jobs'[id].failure = jobs[id].failure + 1
             /\ leases' = leases
             /\ \A other \in JobIds \ {id} : jobs'[other] = jobs[other]
  <2>1. l.id = id
    BY <1>1, <1>6 DEF RecordFailure
  <2>2. ASSUME jobs' = [jobs EXCEPT ![id] = RetriedRow(jobs[id], t + delay, t)],
               t + delay <= MaxTime
        PROVE  FALSE
    <3>1. t + delay \in Times
      BY <2>2, BoundsAssumption DEF Times, Delays
    <3>2. RetriedRow(jobs[id], t + delay, t).state = "ready"
      BY <1>1, <3>1, RetriedFacts DEF ReleasedFields
    <3> QED
      BY <2>2, <3>2
  <2>3. jobs' = [jobs EXCEPT ![id] = ExhaustedRow(jobs[id], t)]
    BY <1>6, <2>1, <2>2 DEF RecordFailure
  <2>4. ExhaustedRow(jobs[id], t).failure = jobs[id].failure + 1
    BY <1>1, ExhaustedFacts
  <2> QED
    BY <1>6, <2>3, <2>4 DEF RecordFailure
<1>7. ASSUME NEW l \in leases, NEW t \in Times, Complete(l, t)
      PROVE  FALSE
  <2>1. CompletedRow(jobs[id], t).state = "completed"
    BY <1>1, CompletedFacts DEF ReleasedFields
  <2> QED
    BY <1>1, <1>7, <2>1 DEF Complete
<1> QED
  BY <1>1, <1>2, <1>3, <1>4, <1>5, <1>6, <1>7
  DEF Next, vars, AdvanceDirty, ClaimNothing

(* Exhausting an expired lease is not early; a recorded failure may be.     *)
LEMMA ExhaustionStep ==
    ASSUME TypeOK, [Next]_vars, NEW id \in JobIds
    PROVE  ExhaustionTiming(id)
<1> SUFFICES ASSUME jobs[id].state = "leased", jobs'[id].state = "exhausted",
                    jobs'[id].updated < jobs[id].expires
             PROVE  /\ jobs'[id].failure = jobs[id].failure + 1
                    /\ leases' = leases
                    /\ \A other \in JobIds \ {id} : jobs'[other] = jobs[other]
  BY DEF ExhaustionTiming
<1>1. ASSUME NEW t \in Times, ExpiredFinally(id, t),
             jobs'[id] = ExpiredRow(jobs[id], t)
      PROVE  FALSE
  <2>1. jobs[id] \in Row /\ jobs'[id].updated = t
    BY <1>1, ExpiredFacts DEF TypeOK, ReleasedFields
  <2>2. jobs[id].expires <= t /\ jobs[id].expires \in Int /\ t \in Int
    BY <1>1, <2>1, BoundsAssumption DEF ExpiredFinally, Row, Times, Null
  <2> QED
    BY <2>1, <2>2
<1> QED
  BY <1>1, ExhaustionSteps

(* A new attempt never cuts a live lease or a backoff short and counts      *)
(* exactly one, and a live final lease is given up by its holder's failure  *)
(* alone, whatever the claimers' clocks read.                               *)
THEOREM ClaimsWaitHolds == Spec => ClaimsWaitTheirTurn
<1>1. Init => AbsentIsNoRow
  BY DEF Init, AbsentIsNoRow
<1>2. TypeOK /\ AbsentIsNoRow /\ [Next]_vars => AbsentIsNoRow'
  BY AbsentStep
<1>3. TypeOK /\ AbsentIsNoRow /\ [Next]_vars
      => [\A id \in JobIds : AttemptTiming(id) /\ ExhaustionTiming(id)]_vars
  BY TimingStep, ExhaustionStep
<1> QED
  BY <1>1, <1>2, <1>3, TypeCorrect, PTL DEF Spec, ClaimsWaitTheirTurn

-----------------------------------------------------------------------------
(* What the readers of the table find *)

(* A stored row that every reader accepts.  Beyond the shape it says where  *)
(* the counters stand: a lease has one attempt more than failures, so that  *)
(* recording its failure cannot overtake the attempts.                      *)
RowSound(row) ==
    /\ ShapeGuard(row)
    /\ row.revision >= 1
    /\ row.attempt <= row.policy.max
    /\ row.failure <= row.attempt
    /\ row.state = "leased" => row.failure < row.attempt
    /\ row.created <= row.updated
    /\ row.state = "exhausted" => row.attempt = row.policy.max

RowsAreSound ==
    \A id \in JobIds : jobs[id].state # "absent" => RowSound(jobs[id])

(* The numbers of a row. *)
LEMMA RowNumbers ==
    ASSUME NEW row \in Row
    PROVE  /\ row.revision \in Nat /\ row.attempt \in Nat /\ row.failure \in Nat
           /\ row.created \in Nat /\ row.updated \in Nat
           /\ row.policy \in Policies /\ row.policy.max \in Nat /\ row.policy.max > 0
           /\ row.policy.lease \in Nat /\ row.policy.lease > 0
BY PolicyFields, BoundsAssumption DEF Row, Times

(* A final state keeps a sound row sound. *)
LEMMA FinalIsSound ==
    ASSUME NEW row \in Row, RowSound(row), NEW t \in Times, row.updated <= t,
           NEW s \in {"superseded", "completed", "exhausted"},
           NEW new, ReleasedFields(new, row, s, t), new.next = Null,
           new.failure <= row.attempt,
           s = "exhausted" => row.attempt >= row.policy.max
    PROVE  RowSound(new)
<1>1. /\ new.state = s /\ new.revision = row.revision + 1
      /\ new.attempt = row.attempt /\ new.policy = row.policy
      /\ new.owner = NoOwner /\ new.expires = Null
      /\ new.created = row.created /\ new.updated = t
  BY DEF ReleasedFields
<1>2. ShapeGuard(new)
  BY <1>1 DEF ShapeGuard
<1>3. new.revision >= 1 /\ new.created <= new.updated
  BY <1>1, RowNumbers, BoundsAssumption DEF RowSound, Times
<1>4. new.attempt <= new.policy.max /\ new.failure <= new.attempt
  BY <1>1 DEF RowSound
<1>5. new.state = "exhausted" => new.attempt = new.policy.max
  BY <1>1, RowNumbers DEF RowSound
<1>6. new.state # "leased"
  BY <1>1
<1> QED
  BY <1>2, <1>3, <1>4, <1>5, <1>6 DEF RowSound

(* Inserted, claimed, renewed and retried rows are sound. *)
LEMMA InsertedIsSound ==
    ASSUME NEW p \in Policies, NEW t \in Times
    PROVE  RowSound(NewRow(p, t))
<1>1. p.max \in Nat /\ p.max > 0 /\ t \in Nat
  BY PolicyFields, BoundsAssumption DEF Times
<1> QED
  BY <1>1, NewRowFacts DEF RowSound, ShapeGuard

(* A claim counts its attempt before it can fail. *)
LEMMA ClaimedIsSound ==
    ASSUME NEW row \in Row, RowSound(row), NEW t \in Times, row.updated <= t,
           NEW owner \in Owners, ExpiryFits(row, t), row.attempt < row.policy.max
    PROVE  RowSound(ClaimedRow(row, owner, t))
<1> DEFINE new == ClaimedRow(row, owner, t)
<1>1. /\ new \in Row /\ new.state = "leased"
      /\ new.revision = row.revision + 1
      /\ new.attempt = row.attempt + 1 /\ new.failure = row.failure
      /\ new.policy = row.policy /\ new.next = Null
      /\ new.owner = owner /\ new.expires = t + row.policy.lease
      /\ new.created = row.created /\ new.updated = t
  BY ClaimedFacts
<1> HIDE DEF new
<1>2. t + row.policy.lease \in Times \ {0}
  BY RowNumbers, BoundsAssumption DEF ExpiryFits, Times
<1>3. /\ row.attempt \in Nat /\ row.failure \in Nat /\ row.policy.max \in Nat
      /\ row.revision \in Nat /\ row.created \in Nat /\ row.updated \in Nat /\ t \in Nat
  BY RowNumbers, BoundsAssumption DEF Times
<1>4. new.attempt \in 1 .. new.policy.max
  BY <1>1, <1>3
<1>5. ShapeGuard(new)
  BY <1>1, <1>2, <1>4 DEF ShapeGuard
<1>6. /\ new.revision >= 1 /\ new.attempt <= new.policy.max
      /\ new.failure < new.attempt /\ new.failure <= new.attempt
      /\ new.created <= new.updated
  BY <1>1, <1>3 DEF RowSound
<1> QED
  BY <1>1, <1>5, <1>6 DEF RowSound, new

(* A renewal moves only the expiry. *)
LEMMA RenewedIsSound ==
    ASSUME NEW row \in Row, RowSound(row), NEW t \in Times, row.updated <= t,
           NEW e \in Times \ {0}, row.state = "leased"
    PROVE  RowSound(RenewedRow(row, e, t))
<1> DEFINE new == RenewedRow(row, e, t)
<1>1. /\ new \in Row /\ new.state = row.state
      /\ new.revision = row.revision + 1
      /\ new.attempt = row.attempt /\ new.failure = row.failure
      /\ new.policy = row.policy /\ new.next = row.next
      /\ new.owner = row.owner /\ new.expires = e
      /\ new.created = row.created /\ new.updated = t
  BY RenewedFacts
<1> HIDE DEF new
<1>2. /\ row.revision \in Nat /\ row.created \in Nat /\ row.updated \in Nat /\ t \in Nat
  BY RowNumbers, BoundsAssumption DEF Times
<1>3. ShapeGuard(new)
  BY <1>1 DEF RowSound, ShapeGuard
<1>4. new.revision >= 1 /\ new.created <= new.updated
  BY <1>1, <1>2 DEF RowSound
<1> QED
  BY <1>1, <1>3, <1>4 DEF RowSound, new

(* A retry is scheduled while attempts are left. *)
LEMMA RetriedIsSound ==
    ASSUME NEW row \in Row, RowSound(row), NEW t \in Times, row.updated <= t,
           NEW next \in Times, row.state = "leased", row.attempt < row.policy.max
    PROVE  RowSound(RetriedRow(row, next, t))
<1> DEFINE new == RetriedRow(row, next, t)
<1>1. /\ new.state = "ready" /\ new.revision = row.revision + 1
      /\ new.attempt = row.attempt /\ new.policy = row.policy
      /\ new.owner = NoOwner /\ new.expires = Null
      /\ new.created = row.created /\ new.updated = t
      /\ new.next = next /\ new.failure = row.failure + 1
  BY RetriedFacts DEF ReleasedFields
<1> HIDE DEF new
<1>2. /\ row.attempt \in Nat /\ row.failure \in Nat /\ row.policy.max \in Nat
      /\ row.revision \in Nat /\ row.created \in Nat /\ row.updated \in Nat /\ t \in Nat
  BY RowNumbers, BoundsAssumption DEF Times
<1>3. ShapeGuard(new)
  BY <1>1 DEF ShapeGuard
<1>4. /\ new.revision >= 1 /\ new.attempt <= new.policy.max
      /\ new.failure <= new.attempt /\ new.created <= new.updated
  BY <1>1, <1>2 DEF RowSound
<1> QED
  BY <1>1, <1>3, <1>4 DEF RowSound, new

(* No operation stores a row that a reader refuses. *)
LEMMA SoundStep ==
    ASSUME TypeOK, RowsAreSound, [Next]_vars
    PROVE  RowsAreSound'
<1> SUFFICES ASSUME NEW id \in JobIds, jobs'[id].state # "absent"
             PROVE  RowSound(jobs'[id])
  BY DEF RowsAreSound
<1>1. RowStep(id) /\ jobs[id] \in Row
  BY RowSteps DEF TypeOK
<1>2. CASE RowKept(id)
  BY <1>2 DEF RowKept, RowsAreSound
<1>3. CASE RowInserted(id)
  BY <1>3, InsertedIsSound DEF RowInserted
<1> DEFINE row == jobs[id]
<1>4. ASSUME NEW t \in Times, RowDropped(id, t)
      PROVE  RowSound(jobs'[id])
  <2>1. row.updated <= t /\ row.state # "absent"
    BY <1>4 DEF RowDropped, NotRegressed, Active, ExpiredFinally
  <2>2. row \in Row /\ RowSound(row) /\ row.failure <= row.attempt
    BY <1>1, <2>1 DEF RowsAreSound, RowSound
  <2>3. CASE jobs'[id] = SupersededRow(row, t)
    BY <2>1, <2>2, <2>3, SupersededFacts, FinalIsSound
  <2>4. CASE ExpiredFinally(id, t) /\ jobs'[id] = ExpiredRow(row, t)
    <3>1. row.attempt >= row.policy.max /\ row.attempt <= row.attempt
      BY <2>2, <2>4, RowNumbers DEF ExpiredFinally
    <3> QED
      BY <2>1, <2>2, <2>4, <3>1, ExpiredFacts, FinalIsSound
  <2> QED
    BY <1>4, <2>3, <2>4 DEF RowDropped
<1>5. ASSUME NEW t \in Times, RowLeased(id, t)
      PROVE  RowSound(jobs'[id])
  <2>1. row.updated <= t /\ row.state # "absent"
    BY <1>5 DEF RowLeased, NotRegressed, Claimable
  <2>2. row \in Row /\ RowSound(row)
    BY <1>1, <2>1 DEF RowsAreSound
  <2> QED
    BY <1>5, <2>1, <2>2, ClaimedIsSound, RenewedIsSound DEF RowLeased, Claimable
<1>6. ASSUME NEW t \in Times, RowClosed(id, t)
      PROVE  RowSound(jobs'[id])
  <2>1. row.updated <= t /\ row.state = "leased"
    BY <1>6 DEF RowClosed, NotRegressed
  <2>2. row \in Row /\ RowSound(row)
    BY <1>1, <2>1 DEF RowsAreSound
  <2>3. row.failure + 1 <= row.attempt /\ row.failure <= row.attempt
    BY <2>1, <2>2, RowNumbers DEF RowSound
  <2>4. CASE row.attempt >= row.policy.max /\ jobs'[id] = ExhaustedRow(row, t)
    BY <2>1, <2>2, <2>3, <2>4, ExhaustedFacts, FinalIsSound
  <2>5. CASE /\ row.attempt < row.policy.max
             /\ \E next \in Times : jobs'[id] = RetriedRow(row, next, t)
    BY <2>1, <2>2, <2>5, RetriedIsSound
  <2>6. CASE jobs'[id] = CompletedRow(row, t)
    BY <2>1, <2>2, <2>3, <2>6, CompletedFacts, FinalIsSound
  <2> QED
    BY <1>6, <2>4, <2>5, <2>6 DEF RowClosed
<1> QED
  BY <1>1, <1>2, <1>3, <1>4, <1>5, <1>6 DEF RowStep

-----------------------------------------------------------------------------
(* The queue stays within the capacity of a policy it was scheduled under *)

QueueFits ==
    /\ IsFiniteSet(ActiveIds)
    /\ \E p \in Policies : Cardinality(ActiveIds) <= p.capacity

(* Only schedule adds an active job, and it counts the others first. *)
LEMMA CapacityStep ==
    ASSUME TypeOK, AbsentIsNoRow, QueueFits, [Next]_vars
    PROVE  QueueFits'
<1> DEFINE active == ActiveIds
           after == ActiveIds'
<1>1. IsFiniteSet(active) /\ Cardinality(active) \in Nat
  BY FS_CardinalityType DEF QueueFits
<1>2. PICK q \in Policies : Cardinality(active) <= q.capacity
  BY DEF QueueFits
<1>3. ASSUME NEW trade \in Trades, NEW p \in Policies, NEW t \in Times, Schedule(trade, p, t)
      PROVE  QueueFits'
  <2> DEFINE others == ActiveAfterSupersede(trade)
             here == CurrentId(trade)
  <2>1. after \subseteq others \cup {here}
    <3> SUFFICES ASSUME NEW id \in JobIds, Active(id)', id # here
                 PROVE  id \in others
      BY DEF ActiveIds
    <3>1. CASE id \in ActiveOf(trade)
      <4>1. jobs'[id] = SupersededRow(jobs[id], t) /\ jobs[id] \in Row
        BY <1>3, <3>1 DEF Schedule, AfterSupersede, TypeOK
      <4> QED
        BY <4>1, SupersededFacts DEF ReleasedFields, Active
    <3>2. CASE id \notin ActiveOf(trade)
      <4>1. jobs'[id] = jobs[id]
        BY <1>3, <3>2 DEF Schedule, AfterSupersede
      <4> QED
        BY <3>2, <4>1 DEF ActiveAfterSupersede, ActiveIds, Active
    <3> QED
      BY <3>1, <3>2
  <2>2. others \subseteq active /\ Cardinality(others) < p.capacity
    BY <1>3 DEF Schedule, Schedulable, ActiveAfterSupersede
  <2> HIDE DEF others, here, active, after
  <2>3. IsFiniteSet(others) /\ Cardinality(others) \in Nat
    BY <1>1, <2>2, FS_Subset, FS_CardinalityType
  <2>4. /\ IsFiniteSet(others \cup {here})
        /\ Cardinality(others \cup {here}) <= Cardinality(others) + 1
    BY <2>3, FS_AddElement
  <2>5. /\ IsFiniteSet(after) /\ Cardinality(after) <= Cardinality(others \cup {here})
        /\ Cardinality(after) \in Nat /\ Cardinality(others \cup {here}) \in Nat
    BY <2>1, <2>4, FS_Subset, FS_CardinalityType
  <2>6. Cardinality(after) <= p.capacity
    BY <2>2, <2>3, <2>4, <2>5, PolicyFields
  <2> QED
    BY <2>5, <2>6 DEF QueueFits, after
<1>4. CASE \A id \in JobIds : ~RowInserted(id)
  <2>1. after \subseteq active
    BY <1>4, ActiveOrigin DEF ActiveIds
  <2> HIDE DEF active, after
  <2>2. /\ IsFiniteSet(after) /\ Cardinality(after) <= Cardinality(active)
        /\ Cardinality(after) \in Nat
    BY <1>1, <2>1, FS_Subset, FS_CardinalityType
  <2>3. Cardinality(after) <= q.capacity
    BY <1>1, <1>2, <2>2, PolicyFields
  <2> QED
    BY <2>2, <2>3 DEF QueueFits, after
<1> QED
  BY <1>3, <1>4, InsertedBySchedule

-----------------------------------------------------------------------------
(* One owner per attempt *)

(* A lease never names an attempt that was not made, and the one under way  *)
(* is the stored owner's.                                                   *)
LeasesFollow ==
    \A l \in leases :
        /\ l.row.attempt <= jobs[l.id].attempt
        /\ jobs[l.id].state = "leased" /\ l.row.attempt = jobs[l.id].attempt =>
              l.row.owner = jobs[l.id].owner

(* A claim takes a number no lease has; a renewal keeps number and owner. *)
LEMMA OwnerStep ==
    ASSUME TypeOK, AbsentIsNoRow, LeasesFollow, AttemptHasOneOwner, [Next]_vars
    PROVE  LeasesFollow' /\ AttemptHasOneOwner'
<1>1. TypeOK'
  BY TypeStep
<1> DEFINE Follows(l) ==
       /\ l.row.attempt <= jobs'[l.id].attempt
       /\ jobs'[l.id].state = "leased" /\ l.row.attempt = jobs'[l.id].attempt =>
             l.row.owner = jobs'[l.id].owner
<1>2. ASSUME NEW l \in leases
      PROVE  Follows(l)
  <2>1. l.id \in JobIds /\ l.row \in Row /\ jobs[l.id] \in Row
    BY DEF TypeOK, Lease
  <2>2. PICK id \in JobIds : id = l.id
    BY <2>1
  <2>3. l.row.attempt \in Nat /\ jobs[id].attempt \in Nat /\ jobs[id] \in Row
    BY <2>1, <2>2, RowNumbers
  <2>4. /\ l.row.attempt <= jobs[id].attempt
        /\ jobs[id].state = "leased" /\ l.row.attempt = jobs[id].attempt =>
              l.row.owner = jobs[id].owner
    BY <2>2 DEF LeasesFollow
  <2>5. RowStep(id)
    BY RowSteps
  <2>6. CASE RowKept(id)
    BY <2>2, <2>4, <2>6 DEF RowKept
  <2>7. CASE RowInserted(id)
    <3>1. jobs[id].attempt = 0 /\ jobs'[id].attempt = 0 /\ jobs'[id].state = "ready"
      BY <2>7, StateOfNoRow, NewRowFacts DEF RowInserted, AbsentIsNoRow
    <3> QED
      BY <2>2, <2>4, <3>1
  <2>8. ASSUME NEW t \in Times, RowDropped(id, t)
        PROVE  Follows(l)
    <3>1. jobs'[id].attempt = jobs[id].attempt /\ jobs'[id].state # "leased"
      BY <2>3, <2>8, SupersededFacts, ExpiredFacts DEF RowDropped, ReleasedFields
    <3> QED
      BY <2>2, <2>4, <3>1
  <2>9. ASSUME NEW t \in Times, RowLeased(id, t)
        PROVE  Follows(l)
    <3>1. ASSUME NEW owner \in Owners, ExpiryFits(jobs[id], t),
                 jobs'[id] = ClaimedRow(jobs[id], owner, t)
          PROVE  Follows(l)
      <4>1. jobs'[id].attempt = jobs[id].attempt + 1
        BY <2>3, <3>1, ClaimedFacts
      <4> QED
        BY <2>2, <2>3, <2>4, <4>1
    <3>2. ASSUME NEW e \in Times, jobs[id].state = "leased",
                 jobs'[id] = RenewedRow(jobs[id], e, t)
          PROVE  Follows(l)
      <4>1. jobs'[id].attempt = jobs[id].attempt /\ jobs'[id].owner = jobs[id].owner
        BY <2>3, <3>2, RenewedFacts
      <4> QED
        BY <2>2, <2>4, <3>2, <4>1
    <3> QED
      BY <2>9, <3>1, <3>2 DEF RowLeased
  <2>10. ASSUME NEW t \in Times, RowClosed(id, t)
         PROVE  Follows(l)
    <3>1. /\ ExhaustedRow(jobs[id], t).attempt = jobs[id].attempt
          /\ ExhaustedRow(jobs[id], t).state # "leased"
          /\ CompletedRow(jobs[id], t).attempt = jobs[id].attempt
          /\ CompletedRow(jobs[id], t).state # "leased"
      BY <2>3, ExhaustedFacts, CompletedFacts DEF ReleasedFields
    <3>2. \A next \in Times : /\ RetriedRow(jobs[id], next, t).attempt = jobs[id].attempt
                              /\ RetriedRow(jobs[id], next, t).state # "leased"
      BY <2>3, RetriedFacts DEF ReleasedFields
    <3>3. jobs'[id].attempt = jobs[id].attempt /\ jobs'[id].state # "leased"
      BY <2>10, <3>1, <3>2 DEF RowClosed
    <3> QED
      BY <2>2, <2>4, <3>3
  <2> QED
    BY <2>5, <2>6, <2>7, <2>8, <2>9, <2>10 DEF RowStep
<1>3. ASSUME NEW l \in leases', l \notin leases
      PROVE  /\ l.id \in JobIds /\ l.row = jobs'[l.id]
             /\ l.row.attempt \in Nat /\ l.row.state = "leased"
  <2>1. PICK c \in JobIds : l = [id |-> c, row |-> jobs'[c]] /\ jobs'[c].state = "leased"
    BY <1>3, LeaseSteps
  <2>2. jobs'[c] \in Row
    BY <1>1 DEF TypeOK
  <2>3. jobs'[c].attempt \in Nat
    BY <2>2 DEF Row
  <2> QED
    BY <2>1, <2>3
<1>4. \A l \in leases' : Follows(l)
  <2> SUFFICES ASSUME NEW l \in leases', l \notin leases
               PROVE  Follows(l)
    BY <1>2
  <2> QED
    BY <1>3
<1>5. LeasesFollow'
  BY <1>4 DEF LeasesFollow
<1>6. AttemptHasOneOwner'
  <2> SUFFICES ASSUME NEW l \in leases', NEW m \in leases',
                      l.id = m.id, l.row.attempt = m.row.attempt
               PROVE  l.row.owner = m.row.owner
    BY DEF AttemptHasOneOwner
  <2>1. CASE l \in leases /\ m \in leases
    BY <2>1 DEF AttemptHasOneOwner
  <2>2. CASE l \notin leases
    <3>1. l.row = jobs'[l.id] /\ l.row.state = "leased"
      BY <1>3, <2>2
    <3>2. Follows(m)
      BY <1>4
    <3> QED
      BY <3>1, <3>2
  <2>3. CASE m \notin leases
    <3>1. m.row = jobs'[m.id] /\ m.row.state = "leased"
      BY <1>3, <2>3
    <3>2. Follows(l)
      BY <1>4
    <3> QED
      BY <3>1, <3>2
  <2> QED
    BY <2>1, <2>2, <2>3
<1> QED
  BY <1>5, <1>6

-----------------------------------------------------------------------------
(* The doctor *)

(* The only check that is ever skipped is an optional one. *)
LEMMA RequiredChecks ==
    \A i \in DOMAIN CHECK_DEFINITIONS :
        CHECK_DEFINITIONS[i][2] => CHECK_DEFINITIONS[i][1] # "clock_skew"
<1>1. DOMAIN CHECK_DEFINITIONS = 1 .. 15
  BY DEF CHECK_DEFINITIONS
<1>2. \A i \in 1 .. 14 : CHECK_DEFINITIONS[i][1] # "clock_skew"
  <2> SUFFICES ASSUME NEW i \in {1, 2, 3, 4, 5, 6, 7, 8, 9, 10, 11, 12, 13, 14}
               PROVE  CHECK_DEFINITIONS[i][1] # "clock_skew"
    OBVIOUS
  <2> QED
    BY DEF CHECK_DEFINITIONS
<1>3. CHECK_DEFINITIONS[15][2] = FALSE
  BY DEF CHECK_DEFINITIONS
<1>4. \A i \in 1 .. 15 : i \in 1 .. 14 \/ i = 15
  OBVIOUS
<1> QED
  BY <1>1, <1>2, <1>3, <1>4

(* A table whose two invariant queries find nothing leaves exit code 0. *)
LEMMA DoctorExits ==
    ASSUME NEW capacity, InvalidLeases = {}, ~InvalidBacklog(capacity)
    PROVE  ExitCode(AggregateStatus(Results(capacity))) = 0
<1>1. ASSUME NEW i \in DOMAIN CHECK_DEFINITIONS, CHECK_DEFINITIONS[i][2]
      PROVE  CheckStatus(CHECK_DEFINITIONS[i],
                         Observation(CHECK_DEFINITIONS[i][1], capacity)) = "pass"
  <2>1. CHECK_DEFINITIONS[i][1] # "clock_skew"
    BY <1>1, RequiredChecks
  <2>2. Observation(CHECK_DEFINITIONS[i][1], capacity) = "pass"
    BY <2>1 DEF Observation
  <2> QED
    BY <2>2 DEF CheckStatus
<1>2. ASSUME NEW r \in Results(capacity), r[1]
      PROVE  r[2] = "pass"
  <2>1. PICK i \in DOMAIN CHECK_DEFINITIONS :
           r = <<CHECK_DEFINITIONS[i][2],
                 CheckStatus(CHECK_DEFINITIONS[i],
                             Observation(CHECK_DEFINITIONS[i][1], capacity))>>
    BY DEF Results
  <2> QED
    BY <1>1, <1>2, <2>1
<1>3. AggregateStatus(Results(capacity)) # "fail"
  BY <1>2 DEF AggregateStatus
<1> QED
  BY <1>3 DEF ExitCode

(* Sound rows and a queue that fits are what every reader asks for. *)
LEMMA ReadersAccept ==
    ASSUME TypeOK, RowsAreSound, QueueFits
    PROVE  DoctorAcceptsJobs
<1>1. ASSUME NEW row \in Rows
      PROVE  row \in Row /\ RowSound(row) /\ row.state # "absent"
  BY DEF Rows, RowsAreSound, TypeOK
<1>2. ASSUME NEW row \in Rows
      PROVE  Decodable(row) /\ ShapeGuard(row)
  <2>1. ShapeGuard(row) /\ row.failure <= row.attempt /\ row.created <= row.updated
    BY <1>1 DEF RowSound
  <2>2. /\ row.attempt \in Nat /\ row.policy.max \in Nat
        /\ NoOwner \notin Owners /\ Null \notin Times
    BY <1>1, RowNumbers, OwnersAssumption, BoundsAssumption DEF Null, Times
  <2>3. Decodable(row)
    BY <2>1, <2>2 DEF Decodable, ShapeGuard
  <2> QED
    BY <2>1, <2>3
<1>3. InvalidLeases = {}
  <2> SUFFICES ASSUME NEW row \in InvalidLeases
               PROVE  FALSE
    OBVIOUS
  <2>1. row \in Row /\ RowSound(row) /\ row.state # "absent"
    BY <1>1 DEF InvalidLeases
  <2>2. /\ row.attempt \in 0 .. row.policy.max /\ row.failure \in 0 .. row.attempt
        /\ ~(row.revision < 1)
    BY <2>1, RowNumbers DEF RowSound
  <2>3. row.state = "leased" =>
           row.owner # NoOwner /\ row.expires \in Times \ {0} /\ row.next = Null
    BY <2>1, OwnersAssumption DEF RowSound, ShapeGuard
  <2>4. row.state # "leased" => row.owner = NoOwner /\ row.expires = Null
    BY <2>1 DEF RowSound, ShapeGuard
  <2> QED
    BY <2>2, <2>3, <2>4 DEF InvalidLeases
<1>4. PICK p \in Policies : Cardinality(ActiveIds) <= p.capacity
  BY DEF QueueFits
<1>5. ~InvalidBacklog(p.capacity)
  <2>1. ~(Cardinality(ActiveIds) > p.capacity)
    BY <1>4, PolicyFields, FS_CardinalityType DEF QueueFits
  <2>2. ASSUME NEW row \in Rows
        PROVE  /\ row.state = "ready" => row.next # Null /\ ~(row.attempt >= row.policy.max)
               /\ row.state \in {"exhausted", "superseded", "completed"} => row.next = Null
    <3>1. /\ row.attempt \in Nat /\ row.policy.max \in Nat /\ Null \notin Times
      BY <1>1, RowNumbers, BoundsAssumption DEF Null, Times
    <3> QED
      BY <1>1, <3>1 DEF RowSound, ShapeGuard
  <2> QED
    BY <2>1, <2>2 DEF InvalidBacklog
<1>6. ExitCode(AggregateStatus(Results(p.capacity))) = 0
  BY <1>3, <1>5, DoctorExits
<1> QED
  BY <1>2, <1>6 DEF DoctorAcceptsJobs

(* Wherever the daemon stops, every reader accepts the table it leaves, an  *)
(* attempt names one claim of one owner, and a job is given up only when    *)
(* all its attempts were: for every number of trades, owners, policies,     *)
(* attempts and clock readings.                                             *)
THEOREM JobsAreSoundHolds == Spec => []JobsAreSound
<1> DEFINE Inv == /\ AbsentIsNoRow /\ RowsAreSound /\ QueueFits
                  /\ LeasesFollow /\ AttemptHasOneOwner
<1>1. ASSUME Init PROVE Inv
  <2>1. \A id \in JobIds : jobs[id] = NoRow /\ jobs[id].state = "absent"
    BY <1>1, StateOfNoRow DEF Init
  <2>2. ActiveIds = {}
    BY <2>1 DEF ActiveIds, Active
  <2>3. QueueFits
    BY <2>2, FS_EmptySet, PoliciesAssumption, PolicyFields DEF QueueFits
  <2>4. leases = {}
    BY <1>1 DEF Init
  <2> QED
    BY <2>1, <2>3, <2>4 DEF AbsentIsNoRow, RowsAreSound, LeasesFollow, AttemptHasOneOwner
<1>2. ASSUME TypeOK, Inv, [Next]_vars PROVE Inv'
  BY <1>2, AbsentStep, SoundStep, CapacityStep, OwnerStep
<1>3. ASSUME TypeOK, Inv PROVE JobsAreSound
  <2>1. ExhaustedMeansSpent
    BY <1>3 DEF RowsAreSound, RowSound, ExhaustedMeansSpent
  <2> QED
    BY <1>3, <2>1, ReadersAccept DEF JobsAreSound
<1> QED
  BY <1>1, <1>2, <1>3, TypeCorrect, PTL DEF Spec

-----------------------------------------------------------------------------
(* Greatest and least elements *)

(* A nonempty set of numbers up to n has a greatest element, which is Max. *)
LEMMA MaxFacts ==
    ASSUME NEW n \in Nat, NEW S \in SUBSET (0 .. n), S # {}
    PROVE  Max(S) \in S /\ \A x \in S : x <= Max(S)
<1> DEFINE T == {n - x : x \in S}
           R == OpToRel(<, Nat)
<1>1. T \in SUBSET Nat /\ T # {}
  <2>1. \A x \in S : n - x \in Nat
    OBVIOUS
  <2>2. PICK x \in S : TRUE
    OBVIOUS
  <2>3. n - x \in T
    BY <2>2
  <2> QED
    BY <2>1, <2>3
<1>2. IsWellFoundedOn(R, Nat)
  BY NatLessThanWellFounded
<1>3. PICK m \in T : \A u \in T : ~(<<u, m>> \in R)
  <2> HIDE DEF R, T
  <2> QED
    BY <1>1, <1>2, WFMin
<1>4. \A u \in T : ~(u < m)
  BY <1>1, <1>3 DEF OpToRel
<1>5. PICK g \in S : m = n - g
  OBVIOUS
<1>6. \A y \in S : g >= y
  <2> SUFFICES ASSUME NEW y \in S
               PROVE  g >= y
    OBVIOUS
  <2>1. ~(n - y < n - g)
    BY <1>4, <1>5
  <2> QED
    BY <2>1
<1>7. Max(S) \in S /\ \A y \in S : Max(S) >= y
  BY <1>6 DEF Max
<1> QED
  BY <1>7

(* The greatest element is the only upper bound in the set. *)
LEMMA MaxIs ==
    ASSUME NEW n \in Nat, NEW S \in SUBSET (0 .. n),
           NEW m \in S, \A x \in S : x <= m
    PROVE  Max(S) = m
<1> DEFINE g == Max(S)
<1>1. g \in S /\ \A x \in S : x <= g
  BY MaxFacts
<1> HIDE DEF g
<1>2. g \in 0 .. n /\ m \in 0 .. n
  BY <1>1
<1>3. g <= m /\ m <= g
  BY <1>1
<1>4. g = m
  BY <1>2, <1>3
<1> QED
  BY <1>4 DEF g

(* The lesser of two numbers, as the deadlines are computed. *)
LEMMA MinPair ==
    ASSUME NEW a \in Int, NEW b \in Int
    PROVE  /\ Min({a, b}) \in {a, b}
           /\ Min({a, b}) <= a /\ Min({a, b}) <= b
<1>1. CASE a <= b
  <2>1. a \in {a, b} /\ \A y \in {a, b} : a <= y
    BY <1>1
  <2> QED
    BY <2>1 DEF Min
<1>2. CASE b <= a
  <2>1. b \in {a, b} /\ \A y \in {a, b} : b <= y
    BY <1>2
  <2> QED
    BY <2>1 DEF Min
<1> QED
  BY <1>1, <1>2

-----------------------------------------------------------------------------
(* What the tasks hold between two transactions *)

Checkpoint == [pos : 0 .. MaxEvent, at : Times]

SubType ==
    /\ sub.pc \in {"idle", "read", "commit", "schedule"}
    /\ sub.pc # "idle" => sub.trade \in Trades /\ sub.at \in Times
    /\ sub.pc \in {"read", "commit"} => sub.source \in Sources /\ sub.event \in Events

AdmType == adm.pc \in {"idle", "schedule"} /\ (adm.pc = "schedule" => adm.trade \in Trades)

Attempt == [pc : {"fetch", "prepare", "tip", "finalize", "unanswered", "failed"}, owner : Owners,
            lease : Lease, started : Times, got : [Sources -> Result],
            at : Times, tip : 0 .. MaxGeneration]

(* A working worker holds a lease the queue handed out, with its expiry *)
WrkType ==
    \/ wrk.pc = "idle" /\ wrk.owner \in Owners
    \/ /\ wrk \in Attempt
       /\ wrk.lease \in leases /\ wrk.lease.row.expires \in Times

TaskType ==
    /\ clock \in Times /\ policy \in Policies /\ mode \in PublicationModes
    /\ SubType /\ AdmType /\ WrkType

QueueInv == TypeOK /\ TaskType

(* The generations and evidence tables an operation may leave alone *)
durableVars == <<dirty, born, seen, cursor, dirtyAt, attempts, reports>>

(* What the daemon does to the queue outside commit_finalization *)
QuietMove ==
    \/ UNCHANGED vars
    \/ \E trade \in Trades : AdvanceDirty(trade)
    \/ \E trade \in Trades, p \in Policies, t \in Times : Schedule(trade, p, t)
    \/ \E owner \in Owners, t \in Times, id \in JobIds : Claim(owner, t, id)
    \/ \E t \in Times : ClaimNothing(t)
    \/ \E l \in leases, t \in Times, delay \in Delays : RecordFailure(l, t, delay)

Finalizes == \E acknowledged \in BOOLEAN : WrkFinalize(acknowledged)

(* Persisting evidence leaves the queue alone or advances the generation. *)
LEMMA PersistMoves ==
    ASSUME NEW trade \in Trades, NEW facts, NEW at, Persist(trade, facts, at)
    PROVE  QuietMove
BY DEF Persist, QuietMove

(* The subscription moves the queue only as an anonymous caller may, and    *)
(* touches evidence only in commit_source_result.                           *)
LEMMA SubMoves ==
    ASSUME QueueInv, SubNext
    PROVE  QuietMove /\ (SubCommit \/ UNCHANGED durableVars)
<1> USE DEF QueueInv, TaskType, SubType, durableVars, evidenceVars, vars, Schedule
<1>1. ASSUME NEW trade \in Trades, NEW s \in Sources, NEW e \in Events,
             SubReceive(trade, s, e)
      PROVE  UNCHANGED vars /\ UNCHANGED durableVars
  BY <1>1 DEF SubReceive
<1>2. CASE SubRead
  BY <1>2 DEF SubRead, QuietMove
<1>3. CASE SubCommit
  BY <1>3, PersistMoves DEF SubCommit
<1>4. CASE SubConflict
  BY <1>4 DEF SubConflict, QuietMove
<1>5. CASE SubSchedule
  BY <1>5 DEF SubSchedule, QuietMove
<1>6. CASE SubScheduleFails
  BY <1>6 DEF SubScheduleFails, QuietMove
<1> QED
  BY <1>1, <1>2, <1>3, <1>4, <1>5, <1>6 DEF SubNext, QuietMove

(* So does the operator's refresh, which commits no evidence at all. *)
LEMMA AdmMoves ==
    ASSUME QueueInv, AdmNext
    PROVE  QuietMove /\ UNCHANGED durableVars /\ UNCHANGED wrk
<1> USE DEF QueueInv, TaskType, AdmType, durableVars, evidenceVars, vars, Schedule
<1>1. ASSUME NEW trade \in Trades, AdmRead(trade)
      PROVE  UNCHANGED vars /\ UNCHANGED durableVars /\ UNCHANGED wrk
  BY <1>1 DEF AdmRead
<1>2. CASE AdmSchedule
  BY <1>2 DEF AdmSchedule, QuietMove
<1> QED
  BY <1>1, <1>2 DEF AdmNext, QuietMove

(* Every other step of the worker changes nothing but what it holds. *)
LEMMA WrkPrivate ==
    ASSUME WrkNext
    PROVE  \/ \E id \in JobIds : WrkClaim(id)
           \/ WrkClaimNothing \/ WrkCommit \/ WrkLeaseLost
           \/ \E acknowledged \in BOOLEAN : WrkFinalize(acknowledged)
           \/ \E delay \in Delays : WrkRecordFailure(delay)
           \/ OnlyWrk
<1>1. ASSUME NEW s, NEW class, NEW facts, WrkFetch(s, class, facts)
      PROVE  OnlyWrk
  BY <1>1 DEF WrkFetch
<1>2. ASSUME NEW s, WrkReadCursor(s) \/ WrkFetchRefused(s)
      PROVE  OnlyWrk
  BY <1>2 DEF WrkReadCursor, WrkFetchRefused
<1>3. WrkError \/ WrkCommitRefused \/ WrkPrepare \/ WrkReadTip => OnlyWrk
  BY DEF WrkError, WrkCommitRefused, WrkPrepare, WrkReadTip
<1>4. WrkFinalizeAgain \/ WrkFinalizeRefused => OnlyWrk
  BY DEF WrkFinalizeAgain, WrkFinalizeRefused
<1> QED
  BY <1>1, <1>2, <1>3, <1>4 DEF WrkNext

(* The worker claims, fails and completes under its own lease; evidence is  *)
(* touched by commit_source_replays and commit_finalization only.           *)
LEMMA WrkMoves ==
    ASSUME QueueInv, WrkNext
    PROVE  \/ QuietMove /\ (WrkCommit \/ UNCHANGED durableVars)
           \/ Finalizes
<1> USE DEF QueueInv, TaskType, WrkType, durableVars, evidenceVars, vars
<1>1. wrk.owner \in Owners
  BY DEF Attempt
<1>2. wrk.pc # "idle" => wrk.lease \in leases /\ Trade \in Trades
  BY DEF Attempt, TypeOK, Lease, JobIds, Trade
<1>3. ASSUME NEW id \in JobIds, WrkClaim(id)
      PROVE  QuietMove /\ UNCHANGED durableVars
  BY <1>1, <1>3 DEF WrkClaim, QuietMove, Claim
<1>4. CASE WrkClaimNothing
  BY <1>4 DEF WrkClaimNothing, QuietMove, ClaimNothing
<1>5. ASSUME OnlyWrk
      PROVE  QuietMove /\ UNCHANGED durableVars
  BY <1>5 DEF OnlyWrk, QuietMove
<1>6. CASE WrkCommit
  BY <1>2, <1>6, PersistMoves DEF WrkCommit
<1>7. ASSUME NEW delay \in Delays, WrkRecordFailure(delay)
      PROVE  QuietMove /\ UNCHANGED durableVars
  BY <1>2, <1>7 DEF WrkRecordFailure, QuietMove, RecordFailure
<1>8. CASE WrkLeaseLost
  BY <1>8 DEF WrkLeaseLost, QuietMove
<1> QED
  BY <1>3, <1>4, <1>5, <1>6, <1>7, <1>8, WrkPrivate DEF Finalizes

(* The clock, the relays, crashes and restarts change neither. *)
LEMMA EnvMoves ==
    ASSUME EnvNext
    PROVE  UNCHANGED vars /\ UNCHANGED durableVars
BY DEF EnvNext, Tick, Crash, Restart, RelayGains, PublicationCompletes,
       durableVars, evidenceVars, vars

(* Every step of the daemon, sorted by what it writes. *)
LEMMA StepKinds ==
    ASSUME QueueInv, [PipelineNext]_pipelineVars
    PROVE  \/ QuietMove /\ (SubCommit \/ WrkCommit \/ UNCHANGED durableVars)
           \/ Finalizes
<1>1. CASE UNCHANGED pipelineVars
  BY <1>1 DEF pipelineVars, durableVars, evidenceVars, vars, QuietMove
<1> QED
  BY <1>1, SubMoves, AdmMoves, WrkMoves, EnvMoves DEF PipelineNext, QuietMove

(* What the daemon does to the queue, the queue's specification allows. *)
LEMMA QueueStep ==
    ASSUME QueueInv, [PipelineNext]_pipelineVars
    PROVE  [Next]_vars
<1>1. QuietMove => [Next]_vars
  BY DEF QuietMove, Next
<1>2. Finalizes => [Next]_vars
  <2> SUFFICES ASSUME Finalizes
               PROVE  Next
    OBVIOUS
  <2>1. wrk.pc = "finalize" /\ Complete(wrk.lease, wrk.at)
    BY DEF Finalizes, WrkFinalize
  <2>2. wrk.lease \in leases /\ wrk.at \in Times
    BY <2>1 DEF QueueInv, TaskType, WrkType, Attempt
  <2> QED
    BY <2>1, <2>2 DEF Next
<1> QED
  BY <1>1, <1>2, StepKinds

-----------------------------------------------------------------------------
(* The tasks keep their types *)

(* Clock readings are naturals. *)
LEMMA TimesFacts ==
    /\ 0 \in Times /\ 1 \in Times /\ Times \subseteq Nat
    /\ \A t \in Nat : t <= MaxTime => t \in Times
BY BoundsAssumption, PipelineAssumption DEF Times

(* A lease once handed out is handed out for ever. *)
LEMMA LeasesGrow ==
    ASSUME [Next]_vars
    PROVE  leases \subseteq leases'
BY DEF Next, vars, AdvanceDirty, Schedule, Claim, ClaimNothing, Renew,
       RecordFailure, Complete

(* A worker that rests, or keeps what it holds, keeps its type. *)
LEMMA WrkKept ==
    ASSUME WrkType, [Next]_vars, UNCHANGED wrk \/ wrk' = Resting(wrk.owner)
    PROVE  WrkType'
<1>1. wrk.owner \in Owners
  BY DEF WrkType, Attempt
<1>2. CASE wrk' = Resting(wrk.owner)
  BY <1>1, <1>2 DEF WrkType, Resting
<1>3. CASE UNCHANGED wrk
  BY <1>3, LeasesGrow DEF WrkType
<1> QED
  BY <1>2, <1>3

(* The subscription's variables are set from its inputs and the tables. *)
LEMMA SubTasks ==
    ASSUME QueueInv, SubNext, [Next]_vars
    PROVE  TaskType'
<1> USE DEF QueueInv, TaskType, SubType, AdmType
<1>1. ASSUME NEW trade \in Trades, NEW s \in Sources, NEW e \in Events,
             SubReceive(trade, s, e)
      PROVE  TaskType'
  BY <1>1, WrkKept DEF SubReceive
<1>2. CASE SubRead
  BY <1>2, WrkKept DEF SubRead
<1>3. CASE SubCommit
  BY <1>3, WrkKept DEF SubCommit, Idle
<1>4. CASE SubConflict
  BY <1>4, WrkKept DEF SubConflict, Stop, Idle
<1>5. CASE SubSchedule
  BY <1>5, WrkKept DEF SubSchedule, Idle
<1>6. CASE SubScheduleFails
  BY <1>6, WrkKept DEF SubScheduleFails, Stop, Idle
<1> QED
  BY <1>1, <1>2, <1>3, <1>4, <1>5, <1>6 DEF SubNext

(* So are the refresh's, and the environment only empties them. *)
LEMMA OtherTasks ==
    ASSUME QueueInv, AdmNext \/ EnvNext, [Next]_vars
    PROVE  TaskType'
<1> USE DEF QueueInv, TaskType, SubType, AdmType
<1>1. ASSUME NEW trade \in Trades, AdmRead(trade)
      PROVE  TaskType'
  BY <1>1, WrkKept DEF AdmRead
<1>2. CASE AdmSchedule
  BY <1>2, WrkKept DEF AdmSchedule, Idle
<1>3. CASE Tick
  <2>1. clock' \in Times
    BY <1>3, TimesFacts, BoundsAssumption DEF Tick, Times
  <2> QED
    BY <1>3, <2>1, WrkKept DEF Tick
<1>4. CASE Crash
  BY <1>4, WrkKept DEF Crash, Stop, Idle
<1>5. ASSUME NEW owner \in Owners, NEW p \in Policies,
             NEW m \in PublicationModes, Restart(owner, p, m)
      PROVE  TaskType'
  BY <1>5 DEF Restart, WrkType, Resting
<1>6. ASSUME NEW trade \in Trades, NEW s \in Sources, NEW e \in Events,
             RelayGains(trade, s, e)
      PROVE  TaskType'
  BY <1>6, WrkKept DEF RelayGains, taskVars
<1>7. ASSUME NEW id \in JobIds, PublicationCompletes(id)
      PROVE  TaskType'
  BY <1>7, WrkKept DEF PublicationCompletes, taskVars
<1> QED
  BY <1>1, <1>2, <1>3, <1>4, <1>5, <1>6, <1>7 DEF AdmNext, EnvNext

(* Writing one source's result keeps an attempt an attempt. *)
LEMMA GotUpdate ==
    ASSUME wrk \in Attempt, NEW s \in Sources, NEW r \in Result
    PROVE  /\ [wrk EXCEPT !.got[s] = r] \in Attempt
           /\ [wrk EXCEPT !.got[s] = r].lease = wrk.lease
           /\ [wrk EXCEPT !.got[s] = r].pc = wrk.pc
<1> DEFINE g == [wrk.got EXCEPT ![s] = r]
<1>1. g \in [Sources -> Result]
  BY DEF Attempt
<1>2. [wrk EXCEPT !.got[s] = r] = [wrk EXCEPT !.got = g]
  BY DEF Attempt
<1> HIDE DEF g
<1> QED
  BY <1>1, <1>2 DEF Attempt

(* Moving on keeps an attempt an attempt. *)
LEMMA GotoType ==
    ASSUME wrk \in Attempt, NEW pc \in {"fetch", "prepare", "tip", "finalize", "unanswered", "failed"}
    PROVE  /\ Goto(pc) \in Attempt /\ Goto(pc).lease = wrk.lease
           /\ Goto(pc).got = wrk.got /\ Goto(pc).pc = pc
BY DEF Attempt, Goto

(* A source's deadline is a time and never past the lease's expiry. *)
LEMMA DeadlineType ==
    ASSUME wrk \in Attempt, wrk.lease.row.expires \in Times
    PROVE  SourceDeadline \in Times /\ SourceDeadline <= wrk.lease.row.expires
<1> DEFINE a == wrk.started + Deadline
           b == wrk.lease.row.expires
<1>1. a \in Nat /\ b \in Nat /\ b <= MaxTime
  BY TimesFacts, PipelineAssumption DEF Attempt, Times
<1>2. SourceDeadline = Min({a, b})
  BY DEF SourceDeadline
<1> HIDE DEF a, b
<1>3. Min({a, b}) \in {a, b} /\ Min({a, b}) <= b
  <2>1. a \in Int /\ b \in Int
    BY <1>1
  <2> QED
    BY <2>1, MinPair, Zenon
<1>4. SourceDeadline \in Nat /\ SourceDeadline <= b
  BY <1>1, <1>2, <1>3
<1>5. SourceDeadline <= MaxTime
  BY <1>1, <1>4, BoundsAssumption
<1> QED
  BY <1>4, <1>5, TimesFacts DEF b

(* What a fetch leaves is a result, finished by the deadline. *)
LEMMA FetchType ==
    ASSUME clock \in Times, wrk \in Attempt, wrk.lease.row.expires \in Times,
           NEW s \in Sources, NEW class \in {"complete", "timeout", "incomplete"},
           NEW facts \in SUBSET Events
    PROVE  [wrk.got[s] EXCEPT !.class = class, !.facts = facts,
                              !.finished = Min({clock, SourceDeadline})] \in Result
<1> DEFINE f == Min({clock, SourceDeadline})
<1>1. SourceDeadline \in Times
  BY DeadlineType
<1>2. f \in {clock, SourceDeadline}
  <2>1. clock \in Int /\ SourceDeadline \in Int
    BY <1>1, TimesFacts
  <2> QED
    BY <2>1, MinPair, Zenon
<1>3. f \in Times
  BY <1>1, <1>2
<1>4. wrk.got[s] \in Result
  BY DEF Attempt
<1> HIDE DEF f
<1>5. [wrk.got[s] EXCEPT !.class = class, !.facts = facts, !.finished = f] \in Result
  BY <1>3, <1>4 DEF Result
<1> QED
  BY <1>5 DEF f

(* A fetch writes the result of its one source and nothing else. *)
LEMMA FetchKeeps ==
    ASSUME clock \in Times, wrk.pc # "idle" => wrk \in Attempt /\ wrk.lease.row.expires \in Times,
           NEW s \in Sources, NEW class \in {"complete", "timeout", "incomplete"},
           NEW facts \in SUBSET Events, WrkFetch(s, class, facts)
    PROVE  OnlyWrk /\ wrk.pc # "idle" /\ wrk' \in Attempt /\ wrk'.lease = wrk.lease
<1> DEFINE r == [wrk.got[s] EXCEPT !.class = class, !.facts = facts,
                            !.finished = Min({clock, SourceDeadline})]
<1>1. wrk.pc # "idle" /\ OnlyWrk
  BY DEF WrkFetch
<1>2. r \in Result
  BY <1>1, FetchType
<1>3. wrk' = [wrk EXCEPT !.got[s] = r]
  BY DEF WrkFetch
<1> HIDE DEF r
<1> QED
  BY <1>1, <1>2, <1>3, GotUpdate

(* The generations of reports, with 0 for none, have a greatest one. *)
LEMMA GreatestReport ==
    ASSUME reports \subseteq [id : JobIds, attempt : Nat, facts : SUBSET Events,
                          covered : SUBSET Sources, supersedes : 0 .. MaxGeneration,
                          published : BOOLEAN],
           NEW R \in SUBSET reports
    PROVE  LET S == {0} \cup {r.id[2] : r \in R}
           IN  /\ S \in SUBSET (0 .. MaxGeneration)
               /\ Max(S) \in S /\ Max(S) \in 0 .. MaxGeneration
               /\ \A x \in S : x <= Max(S)
<1> DEFINE S == {0} \cup {r.id[2] : r \in R}
<1>1. \A r \in R : r.id[2] \in 0 .. MaxGeneration
  BY BoundsAssumption DEF JobIds, Generations
<1>2. S \in SUBSET (0 .. MaxGeneration) /\ S # {}
  BY <1>1, BoundsAssumption
<1> HIDE DEF S
<1>3. Max(S) \in S /\ \A x \in S : x <= Max(S)
  BY <1>2, MaxFacts, BoundsAssumption
<1> QED
  BY <1>2, <1>3 DEF S

(* The worker's lease is one claim_next returned; the rest comes from the   *)
(* clock, the relays and the tables.                                        *)
LEMMA WrkTasks ==
    ASSUME PipelineTypeOK, TaskType, WrkNext, [Next]_vars
    PROVE  TaskType'
<1> USE DEF TaskType, PipelineTypeOK
<1>0. wrk.owner \in Owners
  BY DEF WrkType, Attempt
<1>a. wrk.pc # "idle" => /\ wrk \in Attempt /\ wrk.lease \in leases
                         /\ wrk.lease.row.expires \in Times
                         /\ Trade \in Trades
  BY DEF WrkType, Attempt, TypeOK, Lease, JobIds, Trade
<1>b. leases \subseteq leases'
  BY LeasesGrow
<1>c. ASSUME OnlyWrk, wrk' \in Attempt, wrk'.lease = wrk.lease, wrk.pc # "idle"
      PROVE  TaskType'
  BY <1>a, <1>b, <1>c DEF OnlyWrk, WrkType, SubType, AdmType, vars
<1>1. ASSUME NEW id \in JobIds, WrkClaim(id)
      PROVE  TaskType'
  <2>1. /\ ExpiryFits(jobs[id], clock) /\ jobs[id] \in Row
        /\ jobs'[id] = ClaimedRow(jobs[id], wrk.owner, clock)
        /\ [id |-> id, row |-> jobs'[id]] \in leases'
    BY <1>1 DEF WrkClaim, Claim, AfterExhaust, TypeOK
  <2>2. /\ jobs'[id] \in Row /\ jobs'[id].expires = clock + jobs[id].policy.lease
        /\ clock \in Times
    BY <1>0, <2>1, ClaimedFacts
  <2>3. jobs'[id].expires \in Times
    <3>1. jobs[id].policy.lease \in Nat
      BY <2>1, PolicyFields DEF Row
    <3>2. clock \in Nat
      BY TimesFacts
    <3>3. jobs'[id].expires \in Nat /\ jobs'[id].expires <= MaxTime
      BY <2>1, <2>2, <3>1, <3>2 DEF ExpiryFits
    <3> QED
      BY <3>3, TimesFacts
  <2>4. [s \in Sources |-> NoResult] \in [Sources -> Result]
    BY TimesFacts, PipelineAssumption DEF NoResult, Result, NoEvent
  <2>5. [id |-> id, row |-> jobs'[id]] \in Lease
    BY <2>2 DEF Lease
  <2>6. 0 \in 0 .. MaxGeneration
    BY BoundsAssumption
  <2>7. wrk' \in Attempt /\ wrk'.lease = [id |-> id, row |-> jobs'[id]]
    BY <1>0, <1>1, <2>2, <2>4, <2>5, <2>6, TimesFacts DEF WrkClaim, Attempt
  <2> QED
    BY <1>1, <2>1, <2>3, <2>7 DEF WrkClaim, WrkType, SubType, AdmType
<1>2. CASE WrkClaimNothing
  BY <1>2, WrkKept DEF WrkClaimNothing, taskVars, SubType, AdmType
<1>3. ASSUME NEW s \in Sources, WrkReadCursor(s)
      PROVE  TaskType'
  <2>1. wrk.pc # "idle" /\ cursor[Trade][s].pos \in 0 .. MaxEvent
    BY <1>3, <1>a DEF WrkReadCursor
  <2>2. [class |-> "pending", facts |-> {}, prior |-> cursor[Trade][s].pos,
         finished |-> clock] \in Result
    BY <2>1 DEF Result
  <2> QED
    BY <1>3, <1>a, <1>c, <2>1, <2>2, GotUpdate DEF WrkReadCursor
<1>4. ASSUME NEW s \in Sources, NEW class \in {"complete", "timeout", "incomplete"},
             NEW facts \in SUBSET Events, WrkFetch(s, class, facts)
      PROVE  TaskType'
  BY <1>4, <1>a, <1>c, FetchKeeps
<1>5. ASSUME OnlyWrk, wrk.pc # "idle",
             NEW pc \in {"fetch", "prepare", "tip", "finalize", "unanswered", "failed"}, wrk' = Goto(pc)
      PROVE  TaskType'
  BY <1>5, <1>a, <1>c, GotoType
<1>6. CASE WrkCommit
  <2>1. wrk.pc # "idle" /\ \E pc \in {"prepare", "failed"} : wrk' = Goto(pc)
    BY <1>6 DEF WrkCommit
  <2>2. wrk' \in Attempt /\ wrk'.lease = wrk.lease
    BY <1>a, <2>1, GotoType
  <2> QED
    BY <1>6, <1>a, <1>b, <2>1, <2>2 DEF WrkCommit, WrkType, SubType, AdmType
<1>7. CASE WrkPrepare
  <2>1. wrk.pc # "idle" /\ OnlyWrk
    BY <1>7 DEF WrkPrepare
  <2>2. wrk' \in Attempt /\ wrk'.lease = wrk.lease
    BY <1>7, <1>a, <2>1 DEF WrkPrepare, Attempt, Goto
  <2> QED
    BY <1>c, <2>1, <2>2
<1>8. CASE WrkReadTip
  <2> DEFINE m == Max({0} \cup {r.id[2] : r \in Tips(Trade)})
  <2>1. wrk.pc # "idle" /\ OnlyWrk
    BY <1>8 DEF WrkReadTip
  <2>2. m \in 0 .. MaxGeneration
    <3>1. Tips(Trade) \in SUBSET reports
      BY DEF Tips, ReportsOf
    <3> QED
      BY <3>1, GreatestReport
  <2>3. wrk' = Goto("failed") \/ wrk' = [wrk EXCEPT !.pc = "finalize", !.tip = m]
    BY <1>8 DEF WrkReadTip, TipRead
  <2> HIDE DEF m
  <2>4. wrk' \in Attempt /\ wrk'.lease = wrk.lease
    BY <1>a, <2>1, <2>2, <2>3 DEF Attempt, Goto
  <2> QED
    BY <1>c, <2>1, <2>4
<1>9. ASSUME NEW acknowledged \in BOOLEAN, WrkFinalize(acknowledged)
      PROVE  TaskType'
  <2>1. wrk.pc # "idle" /\ (wrk' = Resting(wrk.owner) \/ wrk' = Goto("unanswered"))
    BY <1>9 DEF WrkFinalize
  <2>2. WrkType'
    <3>1. CASE wrk' = Resting(wrk.owner)
      BY <1>0, <3>1 DEF WrkType, Resting
    <3>2. CASE wrk' = Goto("unanswered")
      BY <1>a, <1>b, <2>1, <3>2, GotoType DEF WrkType
    <3> QED
      BY <2>1, <3>1, <3>2
  <2> QED
    BY <1>9, <2>2 DEF WrkFinalize, SubType, AdmType
<1>10. ASSUME NEW delay \in Delays, WrkRecordFailure(delay)
       PROVE  TaskType'
  BY <1>10, WrkKept DEF WrkRecordFailure, SubType, AdmType
<1>11. CASE WrkLeaseLost
  BY <1>11, WrkKept DEF WrkLeaseLost, Stop, Idle, SubType, AdmType
<1>12. CASE WrkFinalizeAgain
  <2>1. OnlyWrk /\ wrk.pc # "idle" /\ (wrk' = Resting(wrk.owner) \/ wrk' = Goto("failed"))
    BY <1>12 DEF WrkFinalizeAgain
  <2>2. CASE wrk' = Resting(wrk.owner)
    BY <2>1, <2>2, WrkKept DEF OnlyWrk, SubType, AdmType
  <2>3. CASE wrk' = Goto("failed")
    BY <1>5, <2>1, <2>3
  <2> QED
    BY <2>1, <2>2, <2>3
<1> QED
  BY <1>1, <1>2, <1>3, <1>4, <1>5, <1>6, <1>7, <1>8, <1>9, <1>10, <1>11, <1>12
  DEF WrkNext, WrkFetchRefused, WrkError, WrkCommitRefused, WrkFinalizeAgain,
      WrkFinalizeRefused

-----------------------------------------------------------------------------
(* Types of the tables *)

EvidenceType ==
    /\ born \in [Trades -> [Events -> 0 .. MaxGeneration]]
    /\ seen \in [Trades -> [Sources -> SUBSET Events]]
    /\ cursor \in [Trades -> [Sources -> Checkpoint]]
    /\ dirtyAt \in [Trades -> Times]

RecordType ==
    /\ attempts \subseteq [id : JobIds, attempt : Nat, got : [Sources -> Result]]
    /\ reports \subseteq [id : JobIds, attempt : Nat, facts : SUBSET Events,
                          covered : SUBSET Sources, supersedes : 0 .. MaxGeneration,
                          published : BOOLEAN]

(* The parts of PipelineTypeOK. *)
LEMMA PipelineTypeParts ==
    PipelineTypeOK <=> /\ TypeOK /\ EvidenceType /\ RecordType
                       /\ clock \in Times /\ up \in BOOLEAN /\ policy \in Policies /\ mode \in PublicationModes
                       /\ relay \in [Trades -> [Sources -> SUBSET Events]]
                       /\ outbox \subseteq JobIds
BY DEF PipelineTypeOK, EvidenceType, RecordType, Checkpoint

(* Persist, event by event: an event is stored once, under the generation   *)
(* its transaction creates, and the generation advances iff one is stored.  *)
LEMMA PersistFacts ==
    ASSUME TypeOK, EvidenceType, NEW trade \in Trades, NEW facts \in SUBSET Events,
           NEW at \in Times, Persist(trade, facts, at)
    PROVE  /\ born' \in [Trades -> [Events -> 0 .. MaxGeneration]]
           /\ dirtyAt' \in [Trades -> Times]
           /\ \A t \in Trades : t # trade => born'[t] = born[t] /\ dirty'[t] = dirty[t]
           /\ \A e \in Events :
                 born'[trade][e] = IF e \in facts /\ born[trade][e] = 0
                                   THEN dirty[trade] + 1 ELSE born[trade][e]
           /\ dirty'[trade] = IF \E e \in facts : born[trade][e] = 0
                              THEN dirty[trade] + 1 ELSE dirty[trade]
<1> DEFINE new == NewEvidence(trade, facts)
           b == [e \in Events |-> IF e \in new THEN dirty[trade] + 1
                                  ELSE born[trade][e]]
<1>1. /\ dirty[trade] \in 0 .. MaxGeneration /\ born[trade] \in [Events -> 0 .. MaxGeneration]
      /\ \A e \in Events : born[trade][e] \in 0 .. MaxGeneration
  BY DEF TypeOK, EvidenceType
<1>2. \A e \in Events : e \in new <=> e \in facts /\ born[trade][e] = 0
  BY <1>1 DEF NewEvidence, Stored
<1>3. new \subseteq Events
  BY DEF NewEvidence
<1>4. born' = [born EXCEPT ![trade] = b]
  BY DEF Persist, EvidenceType
<1>5. new = {} => dirty' = dirty /\ dirtyAt' = dirtyAt
  BY DEF Persist, vars
<1>6. new # {} => /\ dirty[trade] < MaxGeneration
                  /\ dirty' = [dirty EXCEPT ![trade] = @ + 1]
                  /\ dirtyAt' = [dirtyAt EXCEPT ![trade] = at]
  BY DEF Persist, AdvanceDirty
<1>7. \A e \in Events : (IF e \in new THEN dirty[trade] + 1 ELSE born[trade][e])
                         \in 0 .. MaxGeneration
  BY <1>1, <1>6, BoundsAssumption
<1>8. b \in [Events -> 0 .. MaxGeneration]
  BY <1>7
<1>9. \A e \in Events : b[e] = IF e \in facts /\ born[trade][e] = 0
                               THEN dirty[trade] + 1 ELSE born[trade][e]
  BY <1>2
<1>10. (\E e \in facts : born[trade][e] = 0) <=> new # {}
  BY <1>2, <1>3
<1> HIDE DEF b, new
<1>11. /\ born' \in [Trades -> [Events -> 0 .. MaxGeneration]]
       /\ born'[trade] = b
       /\ \A t \in Trades : t # trade => born'[t] = born[t]
  BY <1>4, <1>8 DEF EvidenceType
<1>12. dirtyAt' \in [Trades -> Times]
  BY <1>5, <1>6 DEF EvidenceType
<1>13. /\ \A t \in Trades : t # trade => dirty'[t] = dirty[t]
       /\ dirty'[trade] = IF new # {} THEN dirty[trade] + 1 ELSE dirty[trade]
  BY <1>5, <1>6 DEF TypeOK
<1> QED
  BY <1>9, <1>10, <1>11, <1>12, <1>13

(* What an attempt has collected is a set of events, and it finished at a   *)
(* time before MaxTime.                                                     *)
LEMMA CollectedType ==
    ASSUME wrk \in Attempt
    PROVE  /\ Facts \in SUBSET Events /\ Finished \in Times
           /\ \A s \in Sources : wrk.got[s] \in Result
<1>1. \A s \in Sources : wrk.got[s] \in Result
  BY DEF Attempt
<1>2. Facts \in SUBSET Events
  BY <1>1 DEF Facts, Result
<1>3. Finished \in Times
  <2> DEFINE S == {wrk.got[s].finished : s \in Sources}
  <2>1. S \in SUBSET (0 .. MaxTime)
    BY <1>1 DEF Result, Times
  <2>2. S # {}
    <3>1. PICK s \in Sources : TRUE
      BY PipelineAssumption
    <3>2. wrk.got[s].finished \in S
      OBVIOUS
    <3> QED
      BY <3>2
  <2> HIDE DEF S
  <2>3. Max(S) \in S
    BY <2>1, <2>2, MaxFacts, BoundsAssumption
  <2>4. Max(S) \in Times
    BY <2>1, <2>3 DEF Times
  <2> QED
    BY <2>4 DEF S, Finished
<1> QED
  BY <1>1, <1>2, <1>3

(* An eligible cursor is an event of a complete result, beyond the cursor   *)
(* the attempt read.                                                        *)
LEMMA EligibleFacts ==
    ASSUME NEW r \in Result
    PROVE  /\ EligibleCursor(r) \in 0 .. MaxEvent
           /\ EligibleCursor(r) # NoEvent =>
                /\ r.class = "complete" /\ EligibleCursor(r) \in r.facts
                /\ EligibleCursor(r) > r.prior
                /\ \A e \in r.facts : e <= EligibleCursor(r)
<1>1. r.facts \in SUBSET (0 .. MaxEvent) /\ MaxEvent \in Nat
  BY PipelineAssumption DEF Result, Events
<1>2. r.facts # {} => Max(r.facts) \in r.facts /\ \A e \in r.facts : e <= Max(r.facts)
  BY <1>1, MaxFacts
<1> QED
  BY <1>1, <1>2 DEF EligibleCursor, NoEvent

-----------------------------------------------------------------------------
(* The two evidence-committing transactions *)

(* A stored event keeps the generation it was stored under *)
BornKept ==
    \A t \in Trades, e \in Events : born[t][e] > 0 => born'[t][e] = born[t][e]

(* Persisting stores all the facts, forgets none, and counts itself iff it  *)
(* stored something.                                                        *)
LEMMA PersistKeeps ==
    ASSUME TypeOK, EvidenceType, GenerationsCountEvidence, NEW trade \in Trades,
           NEW facts \in SUBSET Events, NEW at \in Times, Persist(trade, facts, at)
    PROVE  /\ BornKept
           /\ \A e \in facts : born'[trade][e] > 0
           /\ GenerationsCountEvidence'
<1>1. /\ born' \in [Trades -> [Events -> 0 .. MaxGeneration]]
      /\ \A t \in Trades : t # trade => born'[t] = born[t] /\ dirty'[t] = dirty[t]
      /\ \A e \in Events :
            born'[trade][e] = IF e \in facts /\ born[trade][e] = 0
                              THEN dirty[trade] + 1 ELSE born[trade][e]
      /\ dirty'[trade] = IF \E e \in facts : born[trade][e] = 0
                         THEN dirty[trade] + 1 ELSE dirty[trade]
  BY PersistFacts
<1>2. \A t \in Trades : /\ dirty[t] \in Nat
                        /\ \A e \in Events : born[t][e] \in Nat
  BY BoundsAssumption DEF TypeOK, EvidenceType
<1>3. BornKept
  BY <1>1, <1>2 DEF BornKept
<1>4. \A e \in facts : born'[trade][e] > 0
  BY <1>1, <1>2
<1>5. ASSUME NEW t \in Trades
      PROVE  {born'[t][e] : e \in {f \in Events : born'[t][f] > 0}} = 1 .. dirty'[t]
  <2>1. {born[t][e] : e \in {f \in Events : born[t][f] > 0}} = 1 .. dirty[t]
    BY DEF GenerationsCountEvidence, Stored
  <2>2. CASE t # trade
    BY <1>1, <2>1, <2>2
  <2>3. CASE t = trade
    <3>1. \A e \in Events : born[t][e] > 0 => born[t][e] \in 1 .. dirty[t]
      BY <2>1
    <3>2. ASSUME NEW e \in Events, born'[t][e] > 0
          PROVE  born'[t][e] \in 1 .. dirty'[t]
      <4>1. CASE e \in facts /\ born[t][e] = 0
        BY <1>1, <1>2, <2>3, <4>1
      <4>2. CASE ~(e \in facts /\ born[t][e] = 0)
        BY <1>1, <1>2, <2>3, <3>1, <3>2, <4>2
      <4> QED
        BY <4>1, <4>2
    <3>3. ASSUME NEW g \in 1 .. dirty'[t]
          PROVE  \E e \in Events : born'[t][e] > 0 /\ born'[t][e] = g
      <4>1. CASE g \in 1 .. dirty[t]
        <5>1. PICK e \in Events : born[t][e] > 0 /\ born[t][e] = g
          BY <2>1, <4>1
        <5> QED
          BY <1>3, <5>1 DEF BornKept
      <4>2. CASE g \notin 1 .. dirty[t]
        <5>1. PICK e \in facts : born[t][e] = 0
          BY <1>1, <1>2, <2>3, <4>2
        <5>2. dirty'[t] = dirty[t] + 1
          BY <1>1, <2>3, <5>1
        <5>3. g = dirty[t] + 1
          BY <1>2, <4>2, <5>2
        <5> QED
          BY <1>1, <1>2, <2>3, <5>1, <5>3
      <4> QED
        BY <4>1, <4>2
    <3>4. ASSUME NEW g
          PROVE  g \in {born'[t][e] : e \in {f \in Events : born'[t][f] > 0}}
                   <=> g \in 1 .. dirty'[t]
      BY <3>2, <3>3
    <3> QED
      BY <3>4
  <2> QED
    BY <2>2, <2>3
<1> QED
  BY <1>3, <1>4, <1>5 DEF GenerationsCountEvidence, Stored

(* commit_source_result moves the checkpoint onto the event it stores and   *)
(* observes.                                                                *)
LEMMA SubCommitKeeps ==
    ASSUME PipelineTypeOK, TaskType, CheckpointsAreBacked, GenerationsCountEvidence,
           SubCommit
    PROVE  /\ EvidenceType' /\ BornKept
           /\ CheckpointsAreBacked' /\ GenerationsCountEvidence'
<1> DEFINE t == sub.trade
           s == sub.source
           e == sub.event
<1>1. /\ t \in Trades /\ s \in Sources /\ e \in Events /\ sub.at \in Times
      /\ Persist(t, {e}, sub.at)
  BY DEF SubCommit, TaskType, SubType
<1>2. TypeOK /\ EvidenceType
  BY PipelineTypeParts
<1>3. {e} \in SUBSET Events
  BY <1>1
<1> HIDE DEF t, s, e
<1>4. /\ born' \in [Trades -> [Events -> 0 .. MaxGeneration]]
      /\ dirtyAt' \in [Trades -> Times]
  BY <1>1, <1>2, <1>3, PersistFacts
<1>5. BornKept /\ born'[t][e] > 0 /\ GenerationsCountEvidence'
  BY <1>1, <1>2, <1>3, PersistKeeps
<1>6. seen' = [seen EXCEPT ![t][s] = @ \cup {e}]
  BY DEF SubCommit, SubSeen, t, s, e
<1>7. cursor' = cursor \/ cursor' = [cursor EXCEPT ![t][s] = [pos |-> e, at |-> sub.at]]
  BY DEF SubCommit, SubCursor, t, s, e
<1>8. [pos |-> e, at |-> sub.at] \in Checkpoint
  BY <1>1 DEF Checkpoint, Events
<1>9. EvidenceType'
  <2>1. seen' \in [Trades -> [Sources -> SUBSET Events]]
    BY <1>1, <1>2, <1>6 DEF EvidenceType
  <2>2. cursor' \in [Trades -> [Sources -> Checkpoint]]
    <3> DEFINE c == [pos |-> e, at |-> sub.at]
    <3>1. c \in Checkpoint
      BY <1>8
    <3>2. cursor' = cursor \/ cursor' = [cursor EXCEPT ![t][s] = c]
      BY <1>7
    <3> HIDE DEF c
    <3>3. cursor \in [Trades -> [Sources -> Checkpoint]]
      BY <1>2 DEF EvidenceType
    <3>4. [cursor[t] EXCEPT ![s] = c] \in [Sources -> Checkpoint]
      BY <1>1, <3>1, <3>3
    <3>5. [cursor EXCEPT ![t][s] = c] \in [Trades -> [Sources -> Checkpoint]]
      BY <1>1, <3>3, <3>4
    <3> QED
      BY <3>2, <3>3, <3>5
  <2> QED
    BY <1>4, <2>1, <2>2 DEF EvidenceType
<1>10. ASSUME NEW u \in Trades, NEW r \in Sources
       PROVE  /\ \A f \in seen'[u][r] : f \in Events /\ born'[u][f] > 0
              /\ cursor'[u][r].pos # NoEvent => cursor'[u][r].pos \in seen'[u][r]
  <2>1. /\ \A f \in seen[u][r] : f \in Events /\ born[u][f] > 0
        /\ cursor[u][r].pos # NoEvent => cursor[u][r].pos \in seen[u][r]
    BY DEF CheckpointsAreBacked, Stored
  <2>2. \A f \in seen[u][r] : born'[u][f] > 0
    BY <1>5, <2>1 DEF BornKept
  <2>3. CASE u = t /\ r = s
    <3>1. seen'[u][r] = seen[u][r] \cup {e}
      BY <1>1, <1>2, <1>6, <2>3 DEF EvidenceType
    <3>2. cursor'[u][r] = cursor[u][r] \/ cursor'[u][r].pos = e
      BY <1>1, <1>2, <1>7, <2>3 DEF EvidenceType
    <3> QED
      BY <1>1, <1>5, <2>1, <2>2, <2>3, <3>1, <3>2
  <2>4. CASE ~(u = t /\ r = s)
    <3>1. seen'[u][r] = seen[u][r]
      BY <1>1, <1>2, <1>6, <2>4 DEF EvidenceType
    <3>2. cursor'[u][r] = cursor[u][r]
      BY <1>1, <1>2, <1>7, <2>4 DEF EvidenceType
    <3> QED
      BY <2>1, <2>2, <3>1, <3>2
  <2> QED
    BY <2>3, <2>4
<1>11. CheckpointsAreBacked'
  BY <1>10 DEF CheckpointsAreBacked, Stored
<1> QED
  BY <1>5, <1>9, <1>11

(* commit_source_replays moves each checkpoint onto the newest event of a   *)
(* complete result, all of which it stores and observes.                    *)
LEMMA WrkCommitKeeps ==
    ASSUME PipelineTypeOK, TaskType, CheckpointsAreBacked, GenerationsCountEvidence,
           WrkCommit
    PROVE  /\ EvidenceType' /\ BornKept
           /\ CheckpointsAreBacked' /\ GenerationsCountEvidence'
           /\ \A e \in Facts : born'[Trade][e] > 0
<1> DEFINE t == Trade
           Seen == [s \in Sources |-> seen[t][s] \cup wrk.got[s].facts]
           Moved(s) == IF EligibleCursor(wrk.got[s]) = NoEvent THEN cursor[t][s]
                       ELSE [pos |-> EligibleCursor(wrk.got[s]), at |-> wrk.got[s].finished]
           Cursors == [s \in Sources |-> Moved(s)]
<1>1. wrk \in Attempt /\ t \in Trades
  BY DEF WrkCommit, TaskType, WrkType, Attempt, Lease, JobIds, Trade
<1>2. TypeOK /\ EvidenceType
  BY PipelineTypeParts
<1>3. /\ Facts \in SUBSET Events /\ Finished \in Times
      /\ \A s \in Sources : wrk.got[s] \in Result
  BY <1>1, CollectedType
<1>4. /\ Persist(t, Facts, Finished)
      /\ seen' = [seen EXCEPT ![t] = Seen]
      /\ cursor' = [cursor EXCEPT ![t] = Cursors]
  BY DEF WrkCommit
<1>5. /\ born' \in [Trades -> [Events -> 0 .. MaxGeneration]]
      /\ dirtyAt' \in [Trades -> Times]
  BY <1>1, <1>2, <1>3, <1>4, PersistFacts
<1>6. BornKept /\ (\A e \in Facts : born'[t][e] > 0) /\ GenerationsCountEvidence'
  BY <1>1, <1>2, <1>3, <1>4, PersistKeeps
<1>7. \A s \in Sources : wrk.got[s].facts \subseteq Facts /\ wrk.got[s].facts \subseteq Events
  BY <1>3 DEF Facts, Result
<1>8. ASSUME NEW s \in Sources
      PROVE  Moved(s) \in Checkpoint
  <2>1. EligibleCursor(wrk.got[s]) \in 0 .. MaxEvent
    BY <1>3, EligibleFacts
  <2>2. wrk.got[s].finished \in Times
    BY <1>3 DEF Result
  <2>3. cursor[t][s] \in Checkpoint
    BY <1>1, <1>2 DEF EvidenceType
  <2>4. [pos |-> EligibleCursor(wrk.got[s]), at |-> wrk.got[s].finished] \in Checkpoint
    BY <2>1, <2>2 DEF Checkpoint
  <2> QED
    BY <2>3, <2>4
<1>9. Cursors \in [Sources -> Checkpoint]
  BY <1>8
<1>10. Seen \in [Sources -> SUBSET Events]
  BY <1>1, <1>2, <1>7 DEF EvidenceType
<1>11. ASSUME NEW r \in Sources
       PROVE  /\ Seen[r] = seen[t][r] \cup wrk.got[r].facts
              /\ \/ Cursors[r] = cursor[t][r]
                 \/ Cursors[r].pos \in wrk.got[r].facts
  BY <1>3, EligibleFacts
<1> HIDE DEF Seen, Cursors, Moved, t
<1>12. EvidenceType'
  BY <1>1, <1>2, <1>4, <1>5, <1>9, <1>10 DEF EvidenceType
<1>13. ASSUME NEW u \in Trades, NEW r \in Sources
       PROVE  /\ \A f \in seen'[u][r] : f \in Events /\ born'[u][f] > 0
              /\ cursor'[u][r].pos # NoEvent => cursor'[u][r].pos \in seen'[u][r]
  <2>1. /\ \A f \in seen[u][r] : f \in Events /\ born[u][f] > 0
        /\ cursor[u][r].pos # NoEvent => cursor[u][r].pos \in seen[u][r]
    BY DEF CheckpointsAreBacked, Stored
  <2>2. \A f \in seen[u][r] : born'[u][f] > 0
    BY <1>6, <2>1 DEF BornKept
  <2>3. CASE u = t
    <3>1. seen'[u][r] = Seen[r] /\ cursor'[u][r] = Cursors[r]
      BY <1>1, <1>2, <1>4, <2>3 DEF EvidenceType
    <3> QED
      BY <1>6, <1>7, <1>11, <2>1, <2>2, <2>3, <3>1
  <2>4. CASE u # t
    <3>1. seen'[u][r] = seen[u][r] /\ cursor'[u][r] = cursor[u][r]
      BY <1>1, <1>2, <1>4, <2>4 DEF EvidenceType
    <3> QED
      BY <2>1, <2>2, <3>1
  <2> QED
    BY <2>3, <2>4
<1>14. CheckpointsAreBacked'
  BY <1>13 DEF CheckpointsAreBacked, Stored
<1> QED
  BY <1>6, <1>12, <1>14 DEF t

-----------------------------------------------------------------------------
(* What each step does to a job's attempts, to its completion, and to what  *)
(* the worker holds                                                         *)

(* A job's attempt count never falls. *)
LEMMA AttemptsGrow ==
    ASSUME TypeOK, AbsentIsNoRow, [Next]_vars, NEW id \in JobIds
    PROVE  jobs[id].attempt <= jobs'[id].attempt
<1>1. RowStep(id) /\ jobs[id] \in Row
  BY RowSteps DEF TypeOK
<1>2. jobs[id].attempt \in Nat
  BY <1>1 DEF Row
<1>3. CASE RowKept(id)
  BY <1>2, <1>3 DEF RowKept
<1>4. CASE RowInserted(id)
  BY <1>4, NewRowFacts, StateOfNoRow DEF RowInserted, AbsentIsNoRow
<1>5. ASSUME NEW u \in Times, RowDropped(id, u)
      PROVE  jobs'[id].attempt = jobs[id].attempt
  BY <1>1, <1>5, SupersededFacts, ExpiredFacts DEF RowDropped, ReleasedFields
<1>6. ASSUME NEW u \in Times, RowLeased(id, u)
      PROVE  jobs'[id].attempt \in {jobs[id].attempt, jobs[id].attempt + 1}
  BY <1>1, <1>6, ClaimedFacts, RenewedFacts DEF RowLeased
<1>7. ASSUME NEW u \in Times, RowClosed(id, u)
      PROVE  jobs'[id].attempt = jobs[id].attempt
  <2>1. /\ ExhaustedRow(jobs[id], u).attempt = jobs[id].attempt
        /\ CompletedRow(jobs[id], u).attempt = jobs[id].attempt
    BY <1>1, ExhaustedFacts, CompletedFacts DEF ReleasedFields
  <2>2. \A next \in Times : RetriedRow(jobs[id], next, u).attempt = jobs[id].attempt
    BY <1>1, RetriedFacts DEF ReleasedFields
  <2> QED
    BY <1>7, <2>1, <2>2 DEF RowClosed
<1> QED
  BY <1>1, <1>2, <1>3, <1>4, <1>5, <1>6, <1>7 DEF RowStep

(* Outside commit_finalization no job becomes, or stops being, completed. *)
LEMMA CompletedKept ==
    ASSUME TypeOK, QuietMove, NEW id \in JobIds
    PROVE  jobs'[id].state = "completed" <=> jobs[id].state = "completed"
<1> USE DEF TypeOK
<1>0. jobs[id] \in Row
  OBVIOUS
<1>1. CASE UNCHANGED jobs
  BY <1>1
<1>2. ASSUME NEW trade \in Trades, NEW p \in Policies, NEW t \in Times,
             Schedule(trade, p, t)
      PROVE  jobs'[id].state = "completed" <=> jobs[id].state = "completed"
  <2>1. CASE id = CurrentId(trade)
    BY <1>2, <2>1, NewRowFacts DEF Schedule, Schedulable, AfterSupersede
  <2>2. CASE id # CurrentId(trade)
    <3>1. \/ jobs'[id] = jobs[id]
          \/ Active(id) /\ jobs'[id] = SupersededRow(jobs[id], t)
      BY <1>2, <2>2 DEF Schedule, AfterSupersede, ActiveOf, ActiveIds
    <3> QED
      BY <1>0, <3>1, SupersededFacts DEF Active, ReleasedFields
  <2> QED
    BY <2>1, <2>2
<1>3. ASSUME NEW t \in Times, jobs'[id] = AfterExhaust(t)[id]
      PROVE  jobs'[id].state = "completed" <=> jobs[id].state = "completed"
  BY <1>0, <1>3, ExpiredFacts DEF AfterExhaust, ExpiredFinally, ReleasedFields
<1>4. ASSUME NEW owner \in Owners, NEW t \in Times, NEW c \in JobIds, Claim(owner, t, c)
      PROVE  jobs'[id].state = "completed" <=> jobs[id].state = "completed"
  <2>1. CASE id = c
    <3>1. jobs'[id] = ClaimedRow(jobs[id], owner, t) /\ ExpiryFits(jobs[id], t)
      BY <1>4, <2>1 DEF Claim, AfterExhaust
    <3>2. jobs[id].state \in {"ready", "leased"}
      BY <1>4, <2>1 DEF Claim, Eligible, Claimable
    <3> QED
      BY <1>0, <3>1, <3>2, ClaimedFacts
  <2>2. CASE id # c
    BY <1>3, <1>4, <2>2 DEF Claim, AfterExhaust
  <2> QED
    BY <2>1, <2>2
<1>5. ASSUME NEW l \in leases, NEW t \in Times, NEW delay \in Delays,
             RecordFailure(l, t, delay)
      PROVE  jobs'[id].state = "completed" <=> jobs[id].state = "completed"
  <2>1. l.id \in JobIds /\ jobs[l.id].state = "leased"
    BY <1>5 DEF RecordFailure, CasLease, Lease
  <2>2. CASE id # l.id
    BY <1>5, <2>1, <2>2 DEF RecordFailure
  <2>3. CASE id = l.id
    <3>1. \/ jobs'[id] = ExhaustedRow(jobs[id], t)
          \/ t + delay <= MaxTime /\ jobs'[id] = RetriedRow(jobs[id], t + delay, t)
      BY <1>5, <2>3 DEF RecordFailure
    <3>2. t + delay <= MaxTime => t + delay \in Times
      BY TimesFacts, BoundsAssumption DEF Delays, Times
    <3>3. ExhaustedRow(jobs[id], t).state = "exhausted"
      BY <1>0, ExhaustedFacts DEF ReleasedFields
    <3>4. \A next \in Times : RetriedRow(jobs[id], next, t).state = "ready"
      BY <1>0, RetriedFacts DEF ReleasedFields
    <3> QED
      BY <2>1, <2>3, <3>1, <3>2, <3>3, <3>4
  <2> QED
    BY <2>2, <2>3
<1> QED
  BY <1>1, <1>2, <1>3, <1>4, <1>5 DEF QuietMove, vars, AdvanceDirty, ClaimNothing

(* A worker in mid-attempt stays where it is, gives up, or takes the next   *)
(* stage of the attempt under the lease and the results it holds.           *)
WrkStage ==
    \/ UNCHANGED wrk
    \/ wrk'.pc \in {"idle", "failed"}
    \/ \E id \in JobIds : WrkClaim(id)
    \/ wrk.pc = "fetch" /\ wrk'.pc = "fetch" /\ wrk'.lease = wrk.lease
    \/ WrkCommit
    \/ /\ wrk.pc = "prepare" /\ wrk'.pc = "tip"
       /\ wrk'.lease = wrk.lease /\ wrk'.got = wrk.got
    \/ /\ wrk.pc = "tip" /\ wrk'.pc = "finalize"
       /\ wrk'.lease = wrk.lease /\ wrk'.got = wrk.got
       /\ wrk'.tip = Max({0} \cup {r.id[2] : r \in Tips(Trade)})
    \/ Finalizes /\ wrk' = Goto("unanswered")

(* Every step of the daemon moves the worker by a stage of its attempt. *)
LEMMA WrkStages ==
    ASSUME TaskType, [PipelineNext]_pipelineVars
    PROVE  WrkStage
<1>0. wrk.pc # "idle" => wrk \in Attempt
  BY DEF TaskType, WrkType
<1>1. CASE UNCHANGED pipelineVars
  BY <1>1 DEF pipelineVars, taskVars, WrkStage
<1>2. CASE SubNext \/ AdmNext \/ EnvNext
  BY <1>2 DEF SubNext, AdmNext, EnvNext, SubReceive, SubRead, SubCommit, SubConflict,
     SubSchedule, SubScheduleFails, AdmRead, AdmSchedule, Tick, Crash, Restart, RelayGains,
     PublicationCompletes, Stop, Resting, taskVars, WrkStage
<1>3. CASE WrkNext
  <2>1. ASSUME NEW s \in Sources, WrkReadCursor(s)
        PROVE  WrkStage
    BY <1>0, <2>1 DEF WrkReadCursor, Attempt, WrkStage
  <2>2. ASSUME NEW s \in Sources, NEW class, NEW facts, WrkFetch(s, class, facts)
        PROVE  WrkStage
    BY <1>0, <2>2 DEF WrkFetch, Attempt, WrkStage
  <2>3. ASSUME wrk.pc # "idle", wrk' = Goto("failed")
        PROVE  WrkStage
    BY <1>0, <2>3, GotoType DEF WrkStage
  <2>4. CASE WrkPrepare
    BY <1>0, <2>4 DEF WrkPrepare, Attempt, Goto, WrkStage
  <2>5. CASE WrkReadTip
    <3> DEFINE m == Max({0} \cup {r.id[2] : r \in Tips(Trade)})
    <3>1. /\ wrk.pc = "tip"
          /\ wrk' = Goto("failed") \/ wrk' = [wrk EXCEPT !.pc = "finalize", !.tip = m]
      BY <2>5 DEF WrkReadTip, TipRead
    <3> HIDE DEF m
    <3>2. \/ wrk' = Goto("failed")
          \/ /\ wrk'.pc = "finalize" /\ wrk'.tip = m
             /\ wrk'.lease = wrk.lease /\ wrk'.got = wrk.got
      BY <1>0, <3>1 DEF Attempt
    <3> QED
      BY <2>3, <3>1, <3>2 DEF WrkStage, m
  <2>6. ASSUME NEW acknowledged \in BOOLEAN, WrkFinalize(acknowledged)
        PROVE  WrkStage
    BY <2>6 DEF WrkFinalize, Finalizes, WrkStage, Resting
  <2>7. ASSUME NEW delay \in Delays, WrkRecordFailure(delay)
        PROVE  WrkStage
    BY <2>7 DEF WrkRecordFailure, WrkStage, Resting
  <2>8. CASE WrkClaimNothing \/ WrkLeaseLost
    BY <2>8 DEF WrkClaimNothing, taskVars, WrkLeaseLost, Stop, WrkStage, Resting
  <2>9. CASE (\E id \in JobIds : WrkClaim(id)) \/ WrkCommit
    BY <2>9 DEF WrkStage
  <2>10. CASE WrkFinalizeAgain
    BY <2>3, <2>10 DEF WrkFinalizeAgain, WrkStage, Resting
  <2> QED
    BY <1>3, <2>1, <2>2, <2>3, <2>4, <2>5, <2>6, <2>7, <2>8, <2>9, <2>10
    DEF WrkNext, WrkFetchRefused, WrkError, WrkCommitRefused, WrkFinalizeRefused
<1> QED
  BY <1>1, <1>2, <1>3 DEF PipelineNext

-----------------------------------------------------------------------------
(* The inductive invariant *)

(* No committed attempt is ahead of its job's attempt count *)
AttemptsCounted == \A a \in attempts : a.attempt <= jobs[a.id].attempt

(* The attempt the worker is on, as commit_source_replays records it *)
Current == [id |-> wrk.lease.id, attempt |-> wrk.lease.row.attempt, got |-> wrk.got]

(* Between two transactions the worker relies on what it did before: until  *)
(* its commit no attempt has its number; afterwards its evidence is stored  *)
(* and its attempt on record; and the tip it read is still the newest.      *)
WorkerHolds ==
    /\ wrk.pc = "fetch" => \A a \in attempts :
         a.id = wrk.lease.id => a.attempt < wrk.lease.row.attempt
    /\ wrk.pc \in {"prepare", "tip", "finalize"} =>
         (\A e \in Facts : born[Trade][e] > 0) /\ Current \in attempts
    /\ wrk.pc = "finalize" =>
         wrk.tip = Max({0} \cup {r.id[2] : r \in ReportsOf(Trade)})

DaemonIInv ==
    /\ PipelineTypeOK /\ TaskType
    /\ AbsentIsNoRow /\ JobsFollowDirty
    /\ CheckpointsAreBacked /\ GenerationsCountEvidence
    /\ AttemptsCounted /\ WorkerHolds
    /\ AttemptsAreUnique /\ ReportsAreFinal /\ RepeatsAreExact
    /\ ReportsRestOnTheirGeneration /\ ReportsFormAChain

(* The queue's own invariants carry over. *)
LEMMA QueueKept ==
    ASSUME DaemonIInv, [PipelineNext]_pipelineVars
    PROVE  /\ [Next]_vars /\ TypeOK' /\ AbsentIsNoRow' /\ TaskType'
<1>1. TypeOK /\ QueueInv /\ AbsentIsNoRow
  BY PipelineTypeParts DEF DaemonIInv, QueueInv
<1>2. [Next]_vars
  BY <1>1, QueueStep
<1>3. TypeOK' /\ AbsentIsNoRow'
  BY <1>1, <1>2, TypeStep, AbsentStep
<1>4. TaskType'
  <2>1. CASE UNCHANGED pipelineVars
    <3>1. TaskType
      BY DEF DaemonIInv
    <3> QED
      BY <2>1, <3>1 DEF TaskType, pipelineVars, taskVars, vars, SubType, AdmType, WrkType
  <2> QED
    BY <1>1, <1>2, <2>1, SubTasks, OtherTasks, WrkTasks DEF DaemonIInv, PipelineNext
<1> QED
  BY <1>2, <1>3, <1>4

(* A job with a row keeps a generation up to the dirty one. *)
LEMMA DirtyKept ==
    ASSUME DaemonIInv, [PipelineNext]_pipelineVars
    PROVE  JobsFollowDirty'
<1>1. [Next]_vars /\ TypeOK' /\ TypeOK /\ AbsentIsNoRow /\ JobsFollowDirty
  BY QueueKept, PipelineTypeParts DEF DaemonIInv
<1> SUFFICES ASSUME NEW id \in JobIds, jobs'[id].state # "absent"
             PROVE  id[2] <= dirty'[id[1]]
  BY DEF JobsFollowDirty
<1>2. id[1] \in Trades /\ id[2] \in Nat
  BY BoundsAssumption DEF JobIds, Generations
<1>3. dirty[id[1]] \in Int /\ dirty'[id[1]] \in Int /\ dirty'[id[1]] >= dirty[id[1]]
  BY <1>1, <1>2, DirtyGrows DEF TypeOK
<1>4. CASE jobs[id].state # "absent"
  BY <1>1, <1>2, <1>3, <1>4 DEF JobsFollowDirty
<1>5. CASE RowInserted(id)
  BY <1>2, <1>3, <1>5 DEF RowInserted
<1> QED
  BY <1>1, <1>4, <1>5, ActiveOrigin

(* What commit_finalization writes: one report, one completed job. *)
LEMMA FinalizeFacts ==
    ASSUME DaemonIInv, Finalizes
    PROVE  /\ wrk.pc = "finalize" /\ wrk \in Attempt /\ wrk.lease \in Lease
           /\ wrk.lease.id \in JobIds /\ Trade \in Trades
           /\ reports' = reports \cup {Report}
           /\ UNCHANGED <<dirty, born, seen, cursor, dirtyAt, attempts, relay>>
           /\ outbox' \subseteq outbox \cup {wrk.lease.id}
           /\ jobs[wrk.lease.id] = wrk.lease.row /\ jobs[wrk.lease.id].state = "leased"
           /\ dirty[Trade] = wrk.lease.id[2]
           /\ jobs'[wrk.lease.id].state = "completed"
           /\ \A id \in JobIds : id # wrk.lease.id => jobs'[id] = jobs[id]
<1>1. PICK acknowledged \in BOOLEAN : WrkFinalize(acknowledged)
  BY DEF Finalizes
<1>2. wrk.pc = "finalize" /\ Complete(wrk.lease, wrk.at)
  BY <1>1 DEF WrkFinalize
<1>3. /\ wrk \in Attempt /\ wrk.lease \in Lease /\ wrk.at \in Times
      /\ wrk.lease.id \in JobIds /\ Trade \in Trades
  BY <1>2 DEF DaemonIInv, TaskType, WrkType, Attempt, Lease, JobIds, Trade
<1>4. /\ jobs[wrk.lease.id] = wrk.lease.row /\ jobs[wrk.lease.id].state = "leased"
      /\ dirty[Trade] = wrk.lease.id[2]
  BY <1>2 DEF Complete, FinalizationFence, ExactLease, Trade
<1>5. jobs \in [JobIds -> Row]
  BY DEF DaemonIInv, PipelineTypeOK, TypeOK
<1>6. jobs' = [jobs EXCEPT ![wrk.lease.id] = CompletedRow(@, wrk.at)]
  BY <1>2 DEF Complete
<1>7. jobs'[wrk.lease.id].state = "completed"
  <2>1. jobs'[wrk.lease.id] = CompletedRow(jobs[wrk.lease.id], wrk.at)
    BY <1>3, <1>5, <1>6
  <2> QED
    BY <1>3, <1>5, <2>1, CompletedFacts DEF ReleasedFields
<1>8. \A id \in JobIds : id # wrk.lease.id => jobs'[id] = jobs[id]
  BY <1>3, <1>5, <1>6
<1> QED
  BY <1>1, <1>2, <1>3, <1>4, <1>7, <1>8 DEF WrkFinalize, Complete

(* Evidence, checkpoints and generations, whatever the step. *)
LEMMA EvidenceKept ==
    ASSUME DaemonIInv, [PipelineNext]_pipelineVars
    PROVE  /\ EvidenceType' /\ BornKept
           /\ CheckpointsAreBacked' /\ GenerationsCountEvidence'
<1>1. /\ PipelineTypeOK /\ TaskType /\ CheckpointsAreBacked /\ GenerationsCountEvidence
      /\ QueueInv /\ EvidenceType
  BY PipelineTypeParts DEF DaemonIInv, QueueInv
<1>2. ASSUME UNCHANGED <<dirty, born, seen, cursor, dirtyAt>>
      PROVE  /\ EvidenceType' /\ BornKept
             /\ CheckpointsAreBacked' /\ GenerationsCountEvidence'
  BY <1>1, <1>2 DEF EvidenceType, BornKept, CheckpointsAreBacked, GenerationsCountEvidence,
                    Stored
<1>3. CASE Finalizes
  BY <1>2, <1>3, FinalizeFacts
<1>4. CASE UNCHANGED durableVars
  BY <1>2, <1>4 DEF durableVars
<1> QED
  BY <1>1, <1>3, <1>4, StepKinds, SubCommitKeeps, WrkCommitKeeps

(* What commit_source_replays records of the attempt, under its lease. *)
LEMMA CommitFacts ==
    ASSUME DaemonIInv, WrkCommit
    PROVE  /\ wrk.pc = "fetch" /\ wrk \in Attempt /\ wrk.lease.id \in JobIds
           /\ Current \in [id : JobIds, attempt : Nat, got : [Sources -> Result]]
           /\ attempts' = attempts \cup {Current} /\ reports' = reports
           /\ jobs[wrk.lease.id] = wrk.lease.row
           /\ wrk'.lease = wrk.lease /\ wrk'.got = wrk.got
           /\ wrk'.pc \in {"prepare", "failed"}
<1>1. wrk.pc = "fetch" /\ wrk \in Attempt
  BY DEF WrkCommit, DaemonIInv, TaskType, WrkType
<1>2. /\ wrk.lease.id \in JobIds /\ wrk.lease.row.attempt \in Nat
      /\ wrk.got \in [Sources -> Result]
  BY <1>1 DEF Attempt, Lease, Row
<1>3. attempts' = attempts \cup {Current} /\ reports' = reports
  BY DEF WrkCommit, Current
<1>4. jobs[wrk.lease.id] = wrk.lease.row
  BY DEF WrkCommit, ReplayAdmissible, ReplayFence, ExactLease
<1>5. \E pc \in {"prepare", "failed"} : wrk' = Goto(pc)
  BY DEF WrkCommit
<1>6. Current \in [id : JobIds, attempt : Nat, got : [Sources -> Result]]
  BY <1>2 DEF Current
<1> QED
  BY <1>1, <1>2, <1>3, <1>4, <1>5, <1>6, GotoType

(* The attempts on record change in commit_source_replays only. *)
LEMMA AttemptsUntouched ==
    ASSUME DaemonIInv, [PipelineNext]_pipelineVars, ~WrkCommit
    PROVE  attempts' = attempts
<1>1. QueueInv
  BY PipelineTypeParts DEF DaemonIInv, QueueInv
<1> QED
  BY <1>1, StepKinds, FinalizeFacts DEF SubCommit, durableVars

(* The reports change in commit_finalization only. *)
LEMMA ReportsUntouched ==
    ASSUME DaemonIInv, [PipelineNext]_pipelineVars, ~Finalizes
    PROVE  reports' = reports /\ QuietMove
<1>1. QueueInv
  BY PipelineTypeParts DEF DaemonIInv, QueueInv
<1> QED
  BY <1>1, StepKinds DEF SubCommit, WrkCommit, durableVars

(* An attempt is recorded under a number nobody used and its job has        *)
(* reached.                                                                 *)
LEMMA AttemptsKept ==
    ASSUME DaemonIInv, [PipelineNext]_pipelineVars
    PROVE  /\ attempts' \subseteq [id : JobIds, attempt : Nat, got : [Sources -> Result]]
           /\ AttemptsCounted' /\ AttemptsAreUnique'
<1> DEFINE A == [id : JobIds, attempt : Nat, got : [Sources -> Result]]
<1>1. attempts \subseteq A /\ AttemptsCounted /\ AttemptsAreUnique /\ WorkerHolds
      /\ TypeOK /\ AbsentIsNoRow
  BY DEF DaemonIInv, PipelineTypeOK
<1>2. [Next]_vars /\ TypeOK'
  BY QueueKept
<1>3. \A id \in JobIds : /\ jobs[id].attempt \in Nat /\ jobs'[id].attempt \in Nat
                         /\ jobs[id].attempt <= jobs'[id].attempt
  BY <1>1, <1>2, AttemptsGrow DEF TypeOK, Row
<1>4. \A a \in attempts : /\ a.id \in JobIds /\ a.attempt \in Nat
                          /\ a.attempt <= jobs'[a.id].attempt
  <2> SUFFICES ASSUME NEW a \in attempts
               PROVE  /\ a.id \in JobIds /\ a.attempt \in Nat
                      /\ a.attempt <= jobs'[a.id].attempt
    OBVIOUS
  <2>1. a.id \in JobIds /\ a.attempt \in Nat
    BY <1>1
  <2>2. a.attempt <= jobs[a.id].attempt
    BY <1>1 DEF AttemptsCounted
  <2> QED
    BY <1>3, <2>1, <2>2
<1>5. CASE ~WrkCommit
  BY <1>1, <1>4, <1>5, AttemptsUntouched DEF AttemptsCounted, AttemptsAreUnique
<1>6. CASE WrkCommit
  <2>1. /\ wrk.pc = "fetch" /\ wrk.lease.id \in JobIds /\ Current \in A
        /\ attempts' = attempts \cup {Current}
        /\ jobs[wrk.lease.id] = wrk.lease.row
    BY <1>6, CommitFacts
  <2>2. Current.id = wrk.lease.id /\ Current.attempt = wrk.lease.row.attempt
    BY DEF Current
  <2>3. \A a \in attempts : a.id = Current.id => a.attempt < Current.attempt
    BY <1>1, <2>1, <2>2 DEF WorkerHolds
  <2>4. Current.attempt <= jobs'[Current.id].attempt
    BY <1>3, <2>1, <2>2
  <2>5. Current.attempt \in Nat
    BY <2>1
  <2> HIDE DEF A
  <2>6. AttemptsCounted'
    BY <1>4, <2>1, <2>4 DEF AttemptsCounted
  <2>7. ASSUME NEW a \in attempts', NEW b \in attempts', a.id = b.id,
               a.attempt = b.attempt
        PROVE  a = b
    <3>1. \A c \in attempts : c.id = Current.id => c.attempt # Current.attempt
      BY <1>4, <2>3, <2>5
    <3> QED
      BY <1>1, <2>1, <2>7, <3>1 DEF AttemptsAreUnique
  <2> QED
    BY <1>1, <2>1, <2>6, <2>7 DEF AttemptsAreUnique, A
<1> QED
  BY <1>5, <1>6

(* The newest report is a tip: nothing supersedes it, because a report only *)
(* supersedes an older one.  So the tip that is read is the newest report.  *)
LEMMA TipIsNewest ==
    ASSUME DaemonIInv, NEW trade \in Trades
    PROVE  Max({0} \cup {r.id[2] : r \in Tips(trade)})
             = Max({0} \cup {r.id[2] : r \in ReportsOf(trade)})
<1> DEFINE S == {0} \cup {r.id[2] : r \in Tips(trade)}
           T == {0} \cup {r.id[2] : r \in ReportsOf(trade)}
<1>1. /\ reports \subseteq [id : JobIds, attempt : Nat, facts : SUBSET Events,
                          covered : SUBSET Sources, supersedes : 0 .. MaxGeneration,
                          published : BOOLEAN]
      /\ ReportsFormAChain
  BY DEF DaemonIInv, PipelineTypeOK
<1>2. Tips(trade) \in SUBSET reports /\ ReportsOf(trade) \in SUBSET reports
  BY DEF Tips, ReportsOf
<1>3. /\ S \in SUBSET (0 .. MaxGeneration) /\ T \in SUBSET (0 .. MaxGeneration)
      /\ Max(T) \in T /\ \A x \in T : x <= Max(T)
  BY <1>1, <1>2, GreatestReport
<1>4. S \subseteq T
  BY DEF Tips
<1>5. Max(T) \in S
  <2>1. CASE Max(T) = 0
    BY <2>1
  <2>2. CASE Max(T) # 0
    <3>1. PICK r \in ReportsOf(trade) : r.id[2] = Max(T)
      BY <1>3, <2>2
    <3>2. ASSUME NEW q \in ReportsOf(trade), q.supersedes = r.id[2]
          PROVE  FALSE
      <4> DEFINE O == {o \in ReportsOf(q.id[1]) : o.id[2] < q.id[2]}
                 U == {0} \cup {o.id[2] : o \in O}
      <4>1. q.supersedes = Max(U) /\ q.id[1] = trade
        BY <1>1 DEF ReportsFormAChain, ReportsOf
      <4>2. O \in SUBSET reports
        BY DEF ReportsOf
      <4>3. Max(U) \in U
        BY <1>1, <4>2, GreatestReport
      <4>4. PICK o \in O : o.id[2] = Max(T)
        BY <2>2, <3>1, <3>2, <4>1, <4>3
      <4>5. Max(T) < q.id[2]
        BY <4>4
      <4>6. q.id[2] <= Max(T)
        BY <1>3
      <4>7. q.id[2] \in Int /\ Max(T) \in Int
        BY <1>1, <1>2, <1>3 DEF JobIds, Generations
      <4> QED
        BY <4>5, <4>6, <4>7
    <3>3. r \in Tips(trade)
      BY <3>2 DEF Tips
    <3> QED
      BY <3>1, <3>3
  <2> QED
    BY <2>1, <2>2
<1> HIDE DEF S, T
<1>6. Max(S) = Max(T)
  BY <1>3, <1>4, <1>5, MaxIs, BoundsAssumption
<1> QED
  BY <1>6 DEF S, T

(* What the worker relies on survives every step of every other task, and   *)
(* is established by the worker's own.                                      *)
LEMMA WorkerKept ==
    ASSUME DaemonIInv, [PipelineNext]_pipelineVars
    PROVE  WorkerHolds'
<1>1. /\ TypeOK /\ TaskType /\ WorkerHolds /\ AttemptsCounted
      /\ attempts \subseteq [id : JobIds, attempt : Nat, got : [Sources -> Result]]
  BY DEF DaemonIInv, PipelineTypeOK
<1>2. BornKept
  BY EvidenceKept
<1>3. WrkStage
  BY <1>1, WrkStages
<1>4. wrk.pc # "idle" => wrk \in Attempt /\ Facts \in SUBSET Events /\ Trade \in Trades
  BY <1>1, CollectedType DEF TaskType, WrkType, Attempt, Lease, JobIds, Trade
<1>5. ASSUME wrk.pc \in {"prepare", "tip", "finalize"}
      PROVE  /\ \A e \in Facts : born'[Trade][e] > 0
             /\ Current \in attempts'
  <2>1. attempts' = attempts
    BY <1>5, AttemptsUntouched DEF WrkCommit
  <2> QED
    BY <1>1, <1>2, <1>4, <1>5, <2>1 DEF WorkerHolds, BornKept
<1>6. ASSUME wrk'.lease = wrk.lease, wrk'.got = wrk.got
      PROVE  Facts' = Facts /\ Trade' = Trade /\ Current' = Current
  BY <1>6 DEF Facts, Trade, Current
<1>7. CASE wrk'.pc \in {"idle", "failed"}
  BY <1>7 DEF WorkerHolds
<1>8. CASE UNCHANGED wrk
  <2>1. Facts' = Facts /\ Trade' = Trade /\ Current' = Current
    BY <1>6, <1>8
  <2>2. wrk.pc = "fetch" => attempts' = attempts
    <3>1. CASE WrkCommit /\ wrk.pc = "fetch"
      BY <1>8, <3>1, CommitFacts
    <3> QED
      BY <3>1, AttemptsUntouched
  <2>3. wrk.pc = "finalize" => reports' = reports
    <3>1. CASE Finalizes
      BY <1>4, <1>8, <3>1, FinalizeFacts, GotoType DEF Finalizes, WrkFinalize, Resting
    <3> QED
      BY <3>1, ReportsUntouched
  <2>4. wrk'.pc = wrk.pc /\ wrk'.tip = wrk.tip /\ wrk'.lease = wrk.lease
    BY <1>8
  <2>5. wrk.pc = "finalize" => ReportsOf(Trade)' = ReportsOf(Trade)
    BY <2>1, <2>3 DEF ReportsOf
  <2> QED
    BY <1>1, <1>5, <2>1, <2>2, <2>4, <2>5 DEF WorkerHolds
<1>9. ASSUME NEW id \in JobIds, WrkClaim(id)
      PROVE  WorkerHolds'
  <2>1. /\ jobs'[id] = ClaimedRow(jobs[id], wrk.owner, clock) /\ jobs[id] \in Row
        /\ ExpiryFits(jobs[id], clock)
    BY <1>1, <1>9 DEF WrkClaim, Claim, AfterExhaust, TypeOK
  <2>2. wrk.owner \in Owners /\ clock \in Times
    BY <1>1 DEF TaskType, WrkType, Attempt
  <2>3. jobs'[id].attempt = jobs[id].attempt + 1 /\ jobs[id].attempt \in Nat
    BY <2>1, <2>2, ClaimedFacts DEF Row
  <2>4. /\ wrk'.pc \in {"fetch", "failed"}
        /\ wrk'.lease.id = id /\ wrk'.lease.row = jobs'[id]
    BY <1>9 DEF WrkClaim
  <2>5. attempts' = attempts
    BY <1>9 DEF WrkClaim, evidenceVars
  <2>6. \A a \in attempts : a.id = id => a.attempt < jobs'[id].attempt
    BY <1>1, <2>3 DEF AttemptsCounted
  <2> QED
    BY <2>4, <2>5, <2>6 DEF WorkerHolds
<1>10. CASE wrk.pc = "fetch" /\ wrk'.pc = "fetch" /\ wrk'.lease = wrk.lease
  <2>1. ~WrkCommit
    BY <1>10, CommitFacts
  <2> QED
    BY <1>1, <1>10, <2>1, AttemptsUntouched DEF WorkerHolds
<1>11. CASE WrkCommit
  <2>1. /\ attempts' = attempts \cup {Current} /\ wrk'.pc \in {"prepare", "failed"}
        /\ Facts' = Facts /\ Trade' = Trade /\ Current' = Current
    BY <1>6, <1>11, CommitFacts
  <2>2. \A e \in Facts : born'[Trade][e] > 0
    BY <1>11, WrkCommitKeeps DEF DaemonIInv
  <2> QED
    BY <2>1, <2>2 DEF WorkerHolds
<1>12. CASE /\ wrk.pc = "prepare" /\ wrk'.pc = "tip"
            /\ wrk'.lease = wrk.lease /\ wrk'.got = wrk.got
  BY <1>5, <1>6, <1>12 DEF WorkerHolds
<1>13. CASE /\ wrk.pc = "tip" /\ wrk'.pc = "finalize"
            /\ wrk'.lease = wrk.lease /\ wrk'.got = wrk.got
            /\ wrk'.tip = Max({0} \cup {r.id[2] : r \in Tips(Trade)})
  <2>1. reports' = reports
    BY <1>13, FinalizeFacts, ReportsUntouched
  <2>2. ReportsOf(Trade)' = ReportsOf(Trade)
    BY <1>6, <1>13, <2>1 DEF ReportsOf
  <2>3. wrk'.tip = Max({0} \cup {r.id[2] : r \in ReportsOf(Trade)})
    BY <1>4, <1>13, TipIsNewest
  <2> QED
    BY <1>5, <1>6, <1>13, <2>2, <2>3 DEF WorkerHolds
<1>14. CASE Finalizes /\ wrk' = Goto("unanswered")
  <2>1. wrk'.pc = "unanswered"
    BY <1>14, FinalizeFacts, GotoType
  <2> QED
    BY <2>1 DEF WorkerHolds
<1> QED
  BY <1>3, <1>7, <1>8, <1>9, <1>10, <1>11, <1>12, <1>13, <1>14 DEF WrkStage

(* The report of an attempt that passed the fences. *)
LEMMA NewReport ==
    ASSUME DaemonIInv, Finalizes
    PROVE  /\ Report \in [id : JobIds, attempt : Nat, facts : SUBSET Events,
                           covered : SUBSET Sources, supersedes : 0 .. MaxGeneration,
                          published : BOOLEAN]
           /\ Report.id = wrk.lease.id /\ Report.facts = Facts
           /\ Report.attempt = wrk.lease.row.attempt /\ Report.supersedes = wrk.tip
<1>1. wrk \in Attempt /\ wrk.lease.id \in JobIds /\ wrk.lease \in Lease
  BY FinalizeFacts
<1>2. wrk.lease.row.attempt \in Nat /\ wrk.tip \in 0 .. MaxGeneration
  BY <1>1 DEF Attempt, Lease, Row
<1>3. Facts \in SUBSET Events
  BY <1>1, CollectedType
<1>4. {s \in Sources : wrk.got[s].class = "complete"} \in SUBSET Sources
  OBVIOUS
<1> QED
  BY <1>1, <1>2, <1>3, <1>4 DEF Report

(* A report is inserted with the completion of its job, from an attempt on  *)
(* record, and nothing else completes a job.                                *)
LEMMA FinalKept ==
    ASSUME DaemonIInv, [PipelineNext]_pipelineVars
    PROVE  ReportsAreFinal'
<1>1. TypeOK /\ ReportsAreFinal /\ WorkerHolds
  BY DEF DaemonIInv, PipelineTypeOK
<1>2. \A a \in attempts : a \in attempts'
  BY CommitFacts, AttemptsUntouched
<1>3. \A r \in reports : \E a \in attempts' :
        /\ a.id = r.id /\ a.attempt = r.attempt
        /\ r.facts = UNION {a.got[s].facts : s \in Sources}
  BY <1>1, <1>2 DEF ReportsAreFinal
<1>4. CASE ~Finalizes
  <2>1. reports' = reports /\ QuietMove
    BY <1>4, ReportsUntouched
  <2>2. \A id \in JobIds :
          jobs'[id].state = "completed" <=> jobs[id].state = "completed"
    BY <1>1, <2>1, CompletedKept
  <2> QED
    BY <1>1, <1>3, <2>1, <2>2 DEF ReportsAreFinal
<1>5. CASE Finalizes
  <2> DEFINE l == wrk.lease
  <2>1. /\ l.id \in JobIds /\ wrk.pc = "finalize"
        /\ reports' = reports \cup {Report}
        /\ jobs[l.id].state = "leased" /\ jobs'[l.id].state = "completed"
        /\ \A id \in JobIds : id # l.id => jobs'[id] = jobs[id]
    BY <1>5, FinalizeFacts
  <2>2. Report.id = l.id /\ Report.facts = Facts /\ Report.attempt = l.row.attempt
    BY <1>5, NewReport
  <2>3. \A r \in reports : r.id # l.id
    BY <1>1, <2>1 DEF ReportsAreFinal
  <2>4. Current \in attempts'
    BY <1>1, <1>2, <2>1 DEF WorkerHolds
  <2>5. /\ Current.id = Report.id /\ Current.attempt = Report.attempt
        /\ Report.facts = UNION {Current.got[s].facts : s \in Sources}
    BY <2>2 DEF Current, Facts
  <2> HIDE DEF l
  <2>6. ASSUME NEW id \in JobIds
        PROVE  jobs'[id].state = "completed" <=> \E r \in reports' : r.id = id
    BY <1>1, <2>1, <2>2, <2>3 DEF ReportsAreFinal
  <2>7. ASSUME NEW q \in reports', NEW r \in reports', q.id = r.id
        PROVE  q = r
    BY <1>1, <2>1, <2>2, <2>3, <2>7 DEF ReportsAreFinal
  <2>8. ASSUME NEW r \in reports'
        PROVE  \E a \in attempts' :
                 /\ a.id = r.id /\ a.attempt = r.attempt
                 /\ r.facts = UNION {a.got[s].facts : s \in Sources}
    <3>1. CASE r = Report
      BY <2>4, <2>5, <3>1
    <3> QED
      BY <1>3, <2>1, <2>8, <3>1
  <2> QED
    BY <2>6, <2>7, <2>8 DEF ReportsAreFinal
<1> QED
  BY <1>4, <1>5

(* Only a restart changes the publication mode, and it forgets the worker. *)
LEMMA ModeKept ==
    ASSUME [PipelineNext]_pipelineVars
    PROVE  mode' = mode \/ wrk'.pc = "idle"
<1>1. ASSUME NEW owner, NEW p, NEW m, Restart(owner, p, m)
      PROVE  wrk'.pc = "idle"
  BY <1>1 DEF Restart, Resting
<1>2. SubNext \/ AdmNext => mode' = mode
  BY DEF SubNext, AdmNext, Stop, SubReceive, SubRead, SubCommit, SubConflict,
         SubSchedule, SubScheduleFails, AdmRead, AdmSchedule
<1>3. WrkNext => mode' = mode
  BY WrkPrivate DEF taskVars, Stop, WrkClaim, WrkClaimNothing, OnlyWrk, WrkCommit,
                    WrkFinalize, WrkRecordFailure, WrkLeaseLost
<1> QED
  BY <1>1, <1>2, <1>3 DEF PipelineNext, EnvNext, pipelineVars, taskVars, Stop, Tick, Crash,
                          RelayGains, PublicationCompletes

(* What makes a repeated finalization exact is never taken back: completed  *)
(* rows, reports and attempts stay as they are.                             *)
LEMMA ExactStays ==
    ASSUME DaemonIInv, [PipelineNext]_pipelineVars, wrk.pc = "unanswered",
           UNCHANGED wrk
    PROVE  ExactRepeat'
<1> DEFINE l == wrk.lease
<1>1. /\ TypeOK /\ AbsentIsNoRow /\ ExactRepeat /\ wrk \in Attempt
      /\ l.id \in JobIds /\ l.row \in Row
  BY DEF DaemonIInv, PipelineTypeOK, RepeatsAreExact, TaskType, WrkType, Attempt, Lease
<1>2. mode' = mode
  BY ModeKept
<1>3. Report' = Report
  BY <1>2 DEF Report, Facts
<1>4. reports' = reports
  BY ReportsUntouched, FinalizeFacts
<1>5. attempts \subseteq attempts'
  BY AttemptsUntouched, CommitFacts
<1>6. jobs'[l.id] = jobs[l.id]
  <2>1. JobStep(l.id)
    BY <1>1, QueueKept, JobSteps
  <2>2. jobs[l.id].state = "completed"
    BY <1>1 DEF ExactRepeat, CompletedJobMatches
  <2> QED
    BY <2>1, <2>2 DEF JobStep, LegalTransitions
<1>7. CompletedJobMatches(l.id, l.row)'
  BY <1>1, <1>6 DEF ExactRepeat, CompletedJobMatches
<1>8. CommittedAttempt(l)'
  BY <1>1, <1>5 DEF ExactRepeat, CommittedAttempt
<1>9. SupersededIsStored'
  BY <1>1, <1>4 DEF ExactRepeat, SupersededIsStored, ReportsOf, Trade
<1> QED
  BY <1>1, <1>3, <1>4, <1>7, <1>8, <1>9 DEF ExactRepeat

(* A commit leaves exactly what its repetition looks for, and nothing else  *)
(* takes it back.                                                           *)
LEMMA RepeatKept ==
    ASSUME DaemonIInv, [PipelineNext]_pipelineVars
    PROVE  RepeatsAreExact'
<1> SUFFICES ASSUME wrk'.pc = "unanswered"
             PROVE  ExactRepeat'
  BY DEF RepeatsAreExact
<1>1. WrkStage
  BY WrkStages DEF DaemonIInv
<1>2. CASE UNCHANGED wrk
  BY <1>2, ExactStays
<1>3. CASE Finalizes /\ wrk' = Goto("unanswered")
  <2> DEFINE l == wrk.lease
  <2>1. /\ wrk \in Attempt /\ l.id \in JobIds /\ l.row \in Row
        /\ jobs[l.id] = l.row /\ reports' = reports \cup {Report}
        /\ attempts' = attempts
    BY <1>3, FinalizeFacts DEF Lease
  <2>2. PICK acknowledged \in BOOLEAN : WrkFinalize(acknowledged)
    BY <1>3 DEF Finalizes
  <2>3. /\ jobs' = [jobs EXCEPT ![l.id] = CompletedRow(@, wrk.at)]
        /\ mode' = mode /\ CommittedAttempt(l) /\ SupersededIsStored
    BY <2>2 DEF WrkFinalize, Complete, Finalizable
  <2>4. /\ wrk'.lease = l /\ wrk'.got = wrk.got /\ wrk'.tip = wrk.tip
    BY <1>3, <2>1 DEF Goto, Attempt
  <2>5. Report' = Report
    BY <2>3, <2>4 DEF Report, Facts
  <2>6. CompletedJobMatches(l.id, l.row)'
    <3>1. jobs'[l.id] = CompletedRow(l.row, wrk.at) /\ wrk.at \in Times
      BY <2>1, <2>3 DEF DaemonIInv, PipelineTypeOK, TypeOK, Attempt
    <3>2. /\ ReleasedFields(CompletedRow(l.row, wrk.at), l.row, "completed", wrk.at)
          /\ CompletedRow(l.row, wrk.at).failure = l.row.failure
      BY <2>1, <3>1, CompletedFacts
    <3> QED
      BY <2>4, <3>1, <3>2 DEF CompletedJobMatches, ReleasedFields
  <2>7. CommittedAttempt(l)'
    BY <2>1, <2>3, <2>4 DEF CommittedAttempt
  <2>8. SupersededIsStored'
    BY <2>1, <2>3, <2>4 DEF SupersededIsStored, ReportsOf, Trade
  <2> QED
    BY <2>1, <2>4, <2>5, <2>6, <2>7, <2>8 DEF ExactRepeat
<1>4. \A id \in JobIds : WrkClaim(id) => wrk'.pc # "unanswered"
  BY DEF WrkClaim
<1>5. WrkCommit => wrk'.pc # "unanswered"
  BY CommitFacts
<1> QED
  BY <1>1, <1>2, <1>3, <1>4, <1>5 DEF WrkStage

(* A report rests on stored evidence of its own or an older generation, and *)
(* stored evidence never changes its generation.                            *)
LEMMA RestKept ==
    ASSUME DaemonIInv, [PipelineNext]_pipelineVars
    PROVE  ReportsRestOnTheirGeneration'
<1>1. /\ ReportsRestOnTheirGeneration /\ WorkerHolds /\ GenerationsCountEvidence
      /\ reports \subseteq [id : JobIds, attempt : Nat, facts : SUBSET Events,
                          covered : SUBSET Sources, supersedes : 0 .. MaxGeneration,
                          published : BOOLEAN]
  BY DEF DaemonIInv, PipelineTypeOK
<1>2. BornKept
  BY EvidenceKept
<1>3. ASSUME NEW r \in reports, NEW e \in r.facts
      PROVE  born'[r.id[1]][e] \in 1 .. r.id[2]
  <2>1. r.id[1] \in Trades /\ e \in Events
    BY <1>1 DEF JobIds
  <2>2. born[r.id[1]][e] \in 1 .. r.id[2]
    BY <1>1 DEF ReportsRestOnTheirGeneration
  <2> QED
    BY <1>2, <2>1, <2>2 DEF BornKept
<1>4. CASE ~Finalizes
  BY <1>3, <1>4, ReportsUntouched DEF ReportsRestOnTheirGeneration
<1>5. CASE Finalizes
  <2>1. /\ wrk.pc = "finalize" /\ wrk \in Attempt /\ Trade \in Trades
        /\ reports' = reports \cup {Report} /\ born' = born
        /\ dirty[Trade] = wrk.lease.id[2]
    BY <1>5, FinalizeFacts
  <2>2. Report.id = wrk.lease.id /\ Report.facts = Facts
    BY <1>5, NewReport
  <2>3. Facts \in SUBSET Events
    BY <2>1, CollectedType
  <2>4. ASSUME NEW e \in Facts
        PROVE  born'[Trade][e] \in 1 .. wrk.lease.id[2]
    <3>1. e \in Stored(Trade)
      BY <1>1, <2>1, <2>3 DEF WorkerHolds, Stored
    <3>2. {born[Trade][f] : f \in Stored(Trade)} = 1 .. dirty[Trade]
      BY <1>1, <2>1 DEF GenerationsCountEvidence
    <3> QED
      BY <2>1, <3>1, <3>2
  <2> QED
    BY <1>3, <2>1, <2>2, <2>4 DEF ReportsRestOnTheirGeneration, Trade
<1> QED
  BY <1>4, <1>5

(* A new report is newer than every report of its trade, and supersedes the *)
(* newest of them.                                                          *)
LEMMA ChainKept ==
    ASSUME DaemonIInv, [PipelineNext]_pipelineVars
    PROVE  ReportsFormAChain'
<1> DEFINE Older(R, r) == {o \in {q \in R : q.id[1] = r.id[1]} : o.id[2] < r.id[2]}
           Gens(O) == {0} \cup {q.id[2] : q \in O}
<1>1. /\ ReportsFormAChain /\ WorkerHolds /\ ReportsAreFinal /\ JobsFollowDirty
      /\ reports \subseteq [id : JobIds, attempt : Nat, facts : SUBSET Events,
                          covered : SUBSET Sources, supersedes : 0 .. MaxGeneration,
                          published : BOOLEAN]
  BY DEF DaemonIInv, PipelineTypeOK
<1>2. \A r \in reports : r.supersedes = Max(Gens(Older(reports, r)))
  BY <1>1 DEF ReportsFormAChain, ReportsOf
<1>3. CASE ~Finalizes
  BY <1>1, <1>3, ReportsUntouched DEF ReportsFormAChain, ReportsOf
<1>4. CASE Finalizes
  <2>1. /\ wrk.pc = "finalize" /\ reports' = reports \cup {Report}
        /\ wrk.lease.id \in JobIds
        /\ jobs[wrk.lease.id].state = "leased" /\ dirty[Trade] = wrk.lease.id[2]
    BY <1>4, FinalizeFacts
  <2>2. Report.id = wrk.lease.id /\ Report.supersedes = wrk.tip
    BY <1>4, NewReport
  <2>3. ASSUME NEW r \in reports, r.id[1] = Report.id[1]
        PROVE  r.id[2] < Report.id[2]
    <3>1. r.id \in JobIds /\ jobs[r.id].state = "completed"
      BY <1>1 DEF ReportsAreFinal
    <3>2. r.id[2] <= dirty[r.id[1]]
      BY <1>1, <3>1 DEF JobsFollowDirty
    <3>3. r.id[2] <= Report.id[2]
      BY <2>1, <2>2, <2>3, <3>2 DEF Trade
    <3>4. r.id # Report.id
      BY <2>1, <2>2, <3>1
    <3>5. r.id[2] # Report.id[2]
      BY <2>1, <2>2, <2>3, <3>1, <3>4 DEF JobIds
    <3>6. r.id[2] \in Int /\ Report.id[2] \in Int
      BY <2>1, <2>2, <3>1 DEF JobIds, Generations
    <3> QED
      BY <3>3, <3>5, <3>6
  <2>4. Older(reports', Report) = ReportsOf(Trade)
    <3>1. Report.id[2] \in Int
      BY <2>1, <2>2 DEF JobIds, Generations
    <3> QED
      BY <2>1, <2>2, <2>3, <3>1 DEF ReportsOf, Trade
  <2>5. Report.supersedes = Max(Gens(Older(reports', Report)))
    BY <1>1, <2>1, <2>2, <2>4 DEF WorkerHolds
  <2>6. ASSUME NEW r \in reports
        PROVE  Older(reports', r) = Older(reports, r)
    <3>1. r.id[2] \in Int /\ Report.id[2] \in Int
      BY <1>1, <2>1, <2>2 DEF JobIds, Generations
    <3>2. Report.id[1] = r.id[1] => ~(Report.id[2] < r.id[2])
      BY <2>3, <3>1
    <3> QED
      BY <2>1, <3>2
  <2>7. ASSUME NEW r \in reports'
        PROVE  r.supersedes = Max(Gens(Older(reports', r)))
    <3>1. CASE r = Report
      BY <2>5, <3>1
    <3>2. CASE r \in reports
      BY <1>2, <2>6, <3>2
    <3> QED
      BY <2>1, <3>1, <3>2
  <2> QED
    BY <2>7 DEF ReportsFormAChain, ReportsOf
<1> QED
  BY <1>3, <1>4

(* The remaining variables: the relays' holdings, the outbox and the flag. *)
LEMMA RestTypes ==
    ASSUME DaemonIInv, [PipelineNext]_pipelineVars
    PROVE  /\ relay' \in [Trades -> [Sources -> SUBSET Events]]
           /\ outbox' \subseteq JobIds /\ up' \in BOOLEAN
<1>1. /\ relay \in [Trades -> [Sources -> SUBSET Events]]
      /\ outbox \subseteq JobIds /\ up \in BOOLEAN
  BY DEF DaemonIInv, PipelineTypeOK
<1>2. relay' \in [Trades -> [Sources -> SUBSET Events]]
  <2>1. ASSUME NEW trade \in Trades, NEW s \in Sources, NEW e \in Events,
               RelayGains(trade, s, e)
        PROVE  relay' \in [Trades -> [Sources -> SUBSET Events]]
    <3>1. relay' = [relay EXCEPT ![trade] = [relay[trade] EXCEPT ![s] = @ \cup {e}]]
      BY <1>1, <2>1 DEF RelayGains
    <3>2. [relay[trade] EXCEPT ![s] = @ \cup {e}] \in [Sources -> SUBSET Events]
      BY <1>1
    <3> QED
      BY <1>1, <3>1, <3>2
  <2>2. CASE relay' = relay
    BY <1>1, <2>2
  <2> QED
    BY <2>1, <2>2 DEF PipelineNext, SubNext, AdmNext, WrkNext, EnvNext, pipelineVars,
       evidenceVars, SubReceive, SubRead, SubCommit, SubConflict, SubSchedule,
       SubScheduleFails, AdmRead, AdmSchedule, Tick, Crash, Restart,
       PublicationCompletes, WrkClaim, WrkClaimNothing, OnlyWrk, WrkReadCursor, WrkFetch,
       WrkFetchRefused, WrkError, WrkCommit, WrkCommitRefused, WrkPrepare, WrkReadTip,
       WrkFinalize, WrkFinalizeAgain, WrkFinalizeRefused, WrkRecordFailure, WrkLeaseLost
<1>3. outbox' \subseteq JobIds
  <2>1. CASE Finalizes
    BY <1>1, <2>1, FinalizeFacts
  <2>2. CASE outbox' \subseteq outbox
    BY <1>1, <2>2
  <2> QED
    BY <2>1, <2>2 DEF PipelineNext, SubNext, AdmNext, WrkNext, EnvNext, pipelineVars,
       evidenceVars, SubReceive, SubRead, SubCommit, SubConflict, SubSchedule,
       SubScheduleFails, AdmRead, AdmSchedule, Tick, Crash, Restart, RelayGains,
       PublicationCompletes, WrkClaim, WrkClaimNothing, OnlyWrk, WrkReadCursor, WrkFetch,
       WrkFetchRefused, WrkError, WrkCommit, WrkCommitRefused, WrkPrepare, WrkReadTip,
       Finalizes, WrkFinalizeAgain, WrkFinalizeRefused, WrkRecordFailure, WrkLeaseLost
<1>4. up' \in BOOLEAN
  <2>1. CASE up' = up \/ up' = TRUE \/ up' = FALSE
    BY <1>1, <2>1
  <2> QED
    BY <2>1 DEF PipelineNext, SubNext, AdmNext, WrkNext, EnvNext, pipelineVars, taskVars,
       Stop, SubReceive, SubRead, SubCommit, SubConflict, SubSchedule, SubScheduleFails,
       AdmRead, AdmSchedule, Tick, Crash, Restart, RelayGains,
       PublicationCompletes, WrkClaim, WrkClaimNothing, OnlyWrk, WrkReadCursor, WrkFetch,
       WrkFetchRefused, WrkError, WrkCommit, WrkCommitRefused, WrkPrepare, WrkReadTip,
       WrkFinalize, WrkFinalizeAgain, WrkFinalizeRefused, WrkRecordFailure, WrkLeaseLost
<1> QED
  BY <1>2, <1>3, <1>4

(* The invariant is inductive. *)
LEMMA DaemonStep ==
    ASSUME DaemonIInv, [PipelineNext]_pipelineVars
    PROVE  DaemonIInv'
<1>1. TypeOK' /\ AbsentIsNoRow' /\ TaskType'
  BY QueueKept
<1>2. EvidenceType' /\ CheckpointsAreBacked' /\ GenerationsCountEvidence'
  BY EvidenceKept
<1>3. /\ attempts' \subseteq [id : JobIds, attempt : Nat, got : [Sources -> Result]]
      /\ AttemptsCounted' /\ AttemptsAreUnique'
  BY AttemptsKept
<1>4. reports' \subseteq [id : JobIds, attempt : Nat, facts : SUBSET Events,
                          covered : SUBSET Sources, supersedes : 0 .. MaxGeneration,
                          published : BOOLEAN]
  <2>1. reports \subseteq [id : JobIds, attempt : Nat, facts : SUBSET Events,
                          covered : SUBSET Sources, supersedes : 0 .. MaxGeneration,
                          published : BOOLEAN]
    BY DEF DaemonIInv, PipelineTypeOK
  <2>2. CASE Finalizes
    BY <2>1, <2>2, FinalizeFacts, NewReport
  <2> QED
    BY <2>1, <2>2, ReportsUntouched
<1>5. PipelineTypeOK'
  <2>1. (clock \in Times /\ policy \in Policies /\ mode \in PublicationModes)'
    BY <1>1 DEF TaskType
  <2> QED
    BY <1>1, <1>2, <1>3, <1>4, <2>1, RestTypes
    DEF PipelineTypeOK, EvidenceType, Checkpoint
<1> QED
  BY <1>1, <1>2, <1>3, <1>5, DirtyKept, WorkerKept, FinalKept, RepeatKept, RestKept,
     ChainKept
  DEF DaemonIInv

(* It holds of a new database and an idle process. *)
LEMMA DaemonStart ==
    ASSUME PipelineInit
    PROVE  DaemonIInv
<1> USE DEF PipelineInit, Init
<1>0. /\ 0 \in Times /\ 1 \in Times /\ 0 \in 0 .. MaxGeneration /\ 0 \in 0 .. MaxEvent
  BY TimesFacts, BoundsAssumption, PipelineAssumption
<1>1. TypeOK
  BY <1>0, NoRowType DEF TypeOK
<1>2. TaskType
  BY <1>0 DEF TaskType, SubType, AdmType, WrkType, Idle, Resting
<1>3. AbsentIsNoRow /\ JobsFollowDirty
  BY StateOfNoRow DEF AbsentIsNoRow, JobsFollowDirty
<1>4. EvidenceType
  <2>1. [pos |-> NoEvent, at |-> 0] \in Checkpoint
    BY <1>0 DEF NoEvent, Checkpoint
  <2> QED
    BY <1>0, <2>1 DEF EvidenceType
<1>5. RecordType /\ PipelineTypeOK
  BY <1>0, <1>1, <1>2, <1>4, PipelineTypeParts DEF RecordType, TaskType
<1>6. CheckpointsAreBacked
  BY DEF CheckpointsAreBacked, NoEvent
<1>7. GenerationsCountEvidence
  <2> SUFFICES ASSUME NEW trade \in Trades
               PROVE  {born[trade][e] : e \in Stored(trade)} = 1 .. dirty[trade]
    BY DEF GenerationsCountEvidence
  <2>1. Stored(trade) = {}
    BY DEF Stored
  <2>2. dirty[trade] = 0 /\ 1 .. 0 = {}
    OBVIOUS
  <2> QED
    BY <2>1, <2>2
<1>8. WorkerHolds /\ RepeatsAreExact
  BY DEF WorkerHolds, RepeatsAreExact, Resting
<1>9. /\ AttemptsCounted /\ AttemptsAreUnique
      /\ ReportsRestOnTheirGeneration /\ ReportsFormAChain
  BY DEF AttemptsCounted, AttemptsAreUnique, ReportsRestOnTheirGeneration, ReportsFormAChain
<1>10. ReportsAreFinal
  BY StateOfNoRow DEF ReportsAreFinal
<1> QED
  BY <1>2, <1>3, <1>5, <1>6, <1>7, <1>8, <1>9, <1>10 DEF DaemonIInv

-----------------------------------------------------------------------------
(* The theorems *)

(* The inductive invariant holds in every reachable state. *)
LEMMA DaemonInvariant == PipelineSpec => []DaemonIInv
<1>1. PipelineInit => DaemonIInv
  BY DaemonStart
<1>2. DaemonIInv /\ [PipelineNext]_pipelineVars => DaemonIInv'
  BY DaemonStep
<1> QED
  BY <1>1, <1>2, PTL DEF PipelineSpec

(* The subscription, the worker and the refresh of runtime_graph.rs, with   *)
(* their crashes and restarts, use the job queue only as its specification  *)
(* for arbitrary callers allows: every theorem about Spec is one about the  *)
(* daemon.                                                                  *)
THEOREM ImplementsQueueHolds == PipelineSpec => ImplementsQueue
<1>1. PipelineInit => Init
  BY DEF PipelineInit
<1>2. DaemonIInv /\ [PipelineNext]_pipelineVars => [Next]_vars
  BY QueueKept
<1> QED
  BY <1>1, <1>2, DaemonInvariant, PTL DEF PipelineSpec, Spec, ImplementsQueue

(* The durable record of the daemon is consistent in every reachable state: *)
(* checkpoints rest on stored observations of their own source, generations *)
(* count exactly the transactions that stored evidence, an attempt number   *)
(* is committed once, a job is completed exactly with its one report, and a *)
(* finalization whose answer was lost is recognised when it is repeated.    *)
THEOREM PipelineInvHolds == PipelineSpec => []PipelineInv
<1>1. DaemonIInv => PipelineInv
  BY DEF DaemonIInv, PipelineInv
<1> QED
  BY <1>1, DaemonInvariant, PTL

(* A report never rests on evidence newer than the generation it is for,    *)
(* although evidence is committed and the report finalized in different     *)
(* transactions (validate_finalization_identity).                           *)
THEOREM ReportsRestHolds == PipelineSpec => []ReportsRestOnTheirGeneration
<1>1. DaemonIInv => ReportsRestOnTheirGeneration
  BY DEF DaemonIInv
<1> QED
  BY <1>1, DaemonInvariant, PTL

(* The reports of a trade form one chain, each superseding the newest older *)
(* one, although the tip is read in another transaction than the one that   *)
(* inserts its successor (current_verified_supersession).                   *)
THEOREM ChainHolds == PipelineSpec => []ReportsFormAChain
<1>1. DaemonIInv => ReportsFormAChain
  BY DEF DaemonIInv
<1> QED
  BY <1>1, DaemonInvariant, PTL
=============================================================================
