------------------------- MODULE PresenceOutboxProofs -------------------------
(***************************************************************************)
(* What PresenceOutbox guarantees for every sequence of configurations,    *)
(* every retry policy and every number of relays and crashes: the types    *)
(* and shapes, the evidence, supersession, that only the desired           *)
(* generation goes out, and the refinement of WithdrawablePromise.         *)
(***************************************************************************)
EXTENDS PresenceOutbox, FiniteSetTheorems, WellFoundedInduction, TLAPS

-----------------------------------------------------------------------------
(* Constants, columns and dispositions *)

(* The numbers of the configuration. *)
LEMMA ConstantFacts ==
    /\ MaxAttempts \in Nat \ {0} /\ AttemptDeadline \in Nat \ {0}
    /\ MaxGeneration \in Nat \ {0} /\ MaximumBackoff \in Nat
    /\ Required \subseteq Targets /\ 0 \in Targets
BY PresenceAssumption DEF Targets

(* Ticks left are naturals, and SQL NULL is none of them. *)
LEMMA TickFacts ==
    /\ 0 .. MaximumBackoff \subseteq Nat /\ 0 .. AttemptDeadline \subseteq Nat
    /\ 0 \in 0 .. MaximumBackoff /\ AttemptDeadline \in 0 .. AttemptDeadline
    /\ Null \notin Nat
BY ConstantFacts DEF Null

(* A tick takes one from what is left, and nothing from nothing. *)
LEMMA SoonerFacts ==
    ASSUME NEW k \in Nat, NEW n \in 0 .. k \cup {Null}
    PROVE  Sooner(n) \in 0 .. k \cup {Null} /\ (Sooner(n) = Null <=> n = Null)
BY DEF Sooner, Null

(* A nonempty set of naturals has a least element: min() of disposition. *)
LEMMA LeastElement ==
    ASSUME NEW S \in SUBSET Nat, S # {}
    PROVE  \E m \in S : \A u \in S : m <= u
<1> DEFINE R == OpToRel(<, Nat)
<1>1. IsWellFoundedOn(R, Nat)
  BY NatLessThanWellFounded
<1>2. PICK m \in S : \A u \in S : ~(<<u, m>> \in R)
  <2> HIDE DEF R
  <2> QED
    BY <1>1, WFMin
<1>3. \A u \in S : ~(u < m)
  BY <1>2 DEF OpToRel
<1> QED
  BY <1>3

(* valid_outbox_shape: a lease exactly in "leased", a schedule in "pending". *)
RowShape(row) ==
    /\ row.state = "leased" <=> row.lease # Null
    /\ row.state = "pending" <=> row.next # Null

(* A released row has no lease, and a schedule exactly when it is pending. *)
LEMMA ReleasedFacts ==
    ASSUME NEW state \in OutboxStates \ {"leased"},
           NEW next \in 0 .. MaximumBackoff \cup {Null},
           state = "pending" <=> next # Null
    PROVE  /\ Released(state, next) \in Row /\ RowShape(Released(state, next))
           /\ Released(state, next).state = state
BY TickFacts DEF Released, Row, RowShape

(* disposition finds a schedule where it needs one: min().ok_or(Invariant) *)
HasDisposition(ts) ==
    \/ \A r \in Required : ts[r].state = "accepted"
    \/ \E r \in Required : TargetIsBlocking(ts[r])
    \/ Schedules(ts) # {}

(* The row a disposition makes of the targets. *)
LEMMA DispositionFacts ==
    ASSUME NEW ts \in [Targets -> Target], HasDisposition(ts)
    PROVE  LET d == Disposition(ts)
           IN  /\ d \in Row /\ RowShape(d) /\ d.state \in {"pending", "blocked", "complete"}
               /\ d.state = "complete" <=> \A r \in Required : ts[r].state = "accepted"
<1>1. CASE \A r \in Required : ts[r].state = "accepted"
  <2>1. Disposition(ts) = Released("complete", Null)
    BY <1>1 DEF Disposition
  <2> QED
    BY <1>1, <2>1, ReleasedFacts DEF OutboxStates
<1>2. CASE /\ ~(\A r \in Required : ts[r].state = "accepted")
           /\ \E r \in Required : TargetIsBlocking(ts[r])
  <2>1. Disposition(ts) = Released("blocked", Null)
    BY <1>2 DEF Disposition
  <2>2. /\ Released("blocked", Null) \in Row /\ RowShape(Released("blocked", Null))
        /\ Released("blocked", Null).state = "blocked"
    BY ReleasedFacts DEF OutboxStates
  <2> QED
    BY <1>2, <2>1, <2>2, Zenon
<1>3. CASE /\ ~(\A r \in Required : ts[r].state = "accepted")
           /\ ~(\E r \in Required : TargetIsBlocking(ts[r]))
  <2> DEFINE m == CHOOSE t \in Schedules(ts) : \A u \in Schedules(ts) : t <= u
  <2>1. Disposition(ts) = Released("pending", m)
    BY <1>3 DEF Disposition
  <2>2. Schedules(ts) \subseteq 0 .. MaximumBackoff
    BY ConstantFacts DEF Schedules, Target
  <2>3. Schedules(ts) # {} /\ Schedules(ts) \subseteq Nat
    BY <1>3, <2>2, TickFacts DEF HasDisposition
  <2>4. m \in Schedules(ts)
    BY <2>3, LeastElement
  <2> HIDE DEF m
  <2>5. m \in 0 .. MaximumBackoff /\ m # Null
    BY <2>2, <2>4, TickFacts
  <2> QED
    BY <1>3, <2>1, <2>5, ReleasedFacts DEF OutboxStates
<1> QED
  BY <1>1, <1>2, <1>3

(* What an outcome makes of a target. *)
LEMMA ConcludedFacts ==
    ASSUME NEW e \in Target, NEW outcome \in AllOutcomes, NEW delay \in 0 .. MaximumBackoff
    PROVE  LET new == ConcludedTarget(e, outcome, delay)
           IN  /\ new \in Target /\ new.state = outcome /\ new.count = e.count
               /\ new.next # Null <=> RetryableOutcome(outcome) /\ e.count < MaxAttempts
<1> DEFINE n == IF RetryableOutcome(outcome) /\ e.count < MaxAttempts THEN delay ELSE Null
           new == ConcludedTarget(e, outcome, delay)
<1>1. /\ n \in 0 .. MaximumBackoff \cup {Null}
      /\ n # Null <=> RetryableOutcome(outcome) /\ e.count < MaxAttempts
  BY TickFacts
<1>2. new = [e EXCEPT !.state = outcome, !.next = n]
  BY DEF ConcludedTarget
<1> HIDE DEF n, new
<1>3. new \in Target /\ new.state = outcome /\ new.count = e.count /\ new.next = n
  BY <1>1, <1>2 DEF Target, AllOutcomes
<1> QED
  BY <1>1, <1>3 DEF new

-----------------------------------------------------------------------------
(* The inductive invariant *)

EvidenceOf(o, r) == {a \in attempts : a.outbox = o /\ a.target = r}
LastConcluded(o, r) == targets[o][r].count - (IF r \in Submitted(o) THEN 1 ELSE 0)

(* The types, without the process. *)
TablesType ==
    /\ desired \in Desired /\ rows \in [Outboxes -> Row]
    /\ targets \in [Outboxes -> [Targets -> Target]]
    /\ attempts \subseteq Attempt /\ stamped \subseteq Kinds
    /\ \A o \in Outboxes : RowShape(rows[o])

(* valid_target_shape, and more: a target of a committed outbox is scheduled *)
(* exactly while a try is left to it, and in flight only under a lease.      *)
TargetShapes ==
    \A o \in Outboxes, r \in Targets :
      LET e == targets[o][r]
      IN  /\ rows[o].state # "absent" =>
               ((e.next # Null) <=> (RetryableState(e) /\ e.count < MaxAttempts))
          /\ rows[o].state = "absent" => e.state = "pending" /\ e.count = 0 /\ e.next = Null
          /\ e.state = "submitted" => e.count >= 1 /\ rows[o].state = "leased"

(* Nothing is committed for a generation that is not yet desired. *)
FutureIsAbsent ==
    \A o \in Outboxes : o[1] > desired.generation => rows[o].state = "absent"

(* What the process holds is leased, and between claim and record desired, *)
(* with nothing in flight but the target it prepared.                      *)
WorkerHolds ==
    /\ proc.pc = "starting" => Matches(proc.authority) \/ desired.generation < MaxGeneration
    /\ proc.pc \in {"recover", "prepare", "submit", "sent"} =>
         proc.held \in Outboxes /\ rows[proc.held].state = "leased"
    /\ proc.pc = "recover" => proc.current = IsCurrent(proc.held)
    /\ proc.pc \in {"prepare", "submit", "sent"} => IsCurrent(proc.held)
    /\ proc.pc = "prepare" => Submitted(proc.held) = {}
    /\ proc.pc \in {"submit", "sent"} => Submitted(proc.held) = {proc.target}
    /\ proc.pc = "sent" => proc.answer \in AllOutcomes

(* PresenceEvidenceIsGapless with the finiteness its cardinality needs, and *)
(* no attempt row of the attempt in flight.                                 *)
EvidenceCounts ==
    \A o \in Outboxes, r \in Targets :
      /\ IsFiniteSet(EvidenceOf(o, r))
      /\ Cardinality(EvidenceOf(o, r)) = LastConcluded(o, r)
      /\ \A a \in EvidenceOf(o, r) : a.number <= LastConcluded(o, r)

(* PresenceTypeOK is its parts. *)
LEMMA TypeParts == PresenceTypeOK <=> TablesType /\ proc \in Process
BY DEF PresenceTypeOK, TablesType, RowShape

(* The same of the next state. *)
LEMMA NextTypeParts ==
    ASSUME TablesType', proc' \in Process
    PROVE  PresenceTypeOK'
BY DEF PresenceTypeOK, TablesType, RowShape

(* Typed columns. *)
LEMMA ColumnFacts ==
    ASSUME PresenceTypeOK, NEW o \in Outboxes
    PROVE  /\ rows[o] \in Row /\ targets[o] \in [Targets -> Target] /\ RowShape(rows[o])
           /\ \A r \in Targets : targets[o][r] \in Target /\ targets[o][r].count \in 0 .. MaxAttempts
BY DEF PresenceTypeOK, RowShape, Target

-----------------------------------------------------------------------------
(* What one step does to the tables of one outbox *)

(* Nothing, or a tick. *)
Stayed(o) ==
    /\ rows'[o].state = rows[o].state
    /\ \A r \in Targets :
         /\ targets'[o][r].state = targets[o][r].state
         /\ targets'[o][r].count = targets[o][r].count
         /\ targets'[o][r].next = Null <=> targets[o][r].next = Null
         /\ EvidenceOf(o, r)' = EvidenceOf(o, r)

RowOnly(o, from, to) ==
    /\ rows[o].state \in from /\ rows'[o].state = to
    /\ targets'[o] = targets[o]
    /\ \A r \in Targets : EvidenceOf(o, r)' = EvidenceOf(o, r)

Withdrawn(o) == o[1] # desired.generation /\ RowOnly(o, {"pending", "blocked"}, "superseded")
Claimed(o) == IsCurrent(o) /\ RowOnly(o, {"pending"}, "leased")
Reopened(o) == o[1] = desired.generation /\ RowOnly(o, {"blocked"}, "pending")

Offered(o) ==
    /\ IsCurrent(o) /\ rows[o].state = "absent" /\ rows'[o].state = "pending"
    /\ \A r \in Targets :
         /\ targets'[o][r].state = "pending" /\ targets'[o][r].count = 0
         /\ targets'[o][r].next = 0 /\ EvidenceOf(o, r)' = EvidenceOf(o, r)
    /\ \A p \in Stale : rows'[p].state \notin {"pending", "blocked", "leased"}

Sending(o) ==
    /\ proc.pc = "prepare" /\ proc.held = o
    /\ proc'.pc = "submit" /\ proc'.held = o /\ proc'.target \in Targets
    /\ rows'[o].state = rows[o].state
    /\ LET r == proc'.target
       IN  /\ TargetIsDue(targets[o][r])
           /\ targets'[o][r].state = "submitted" /\ targets'[o][r].next = Null
           /\ targets'[o][r].count = targets[o][r].count + 1
           /\ \A q \in Targets \ {r} : targets'[o][q] = targets[o][q]
    /\ \A q \in Targets : EvidenceOf(o, q)' = EvidenceOf(o, q)

Answers(o, r) ==
    /\ targets'[o][r].state \in AllOutcomes
    /\ targets'[o][r].count = targets[o][r].count
    /\ targets'[o][r].next # Null <=>
         RetryableOutcome(targets'[o][r].state) /\ targets[o][r].count < MaxAttempts
    /\ \E x : /\ x.number = targets[o][r].count
              /\ EvidenceOf(o, r)' = EvidenceOf(o, r) \cup {x}

Concluding(o) ==
    /\ rows[o].state = "leased" /\ proc'.pc \in {"claim", "idle"}
    /\ IF IsCurrent(o)
       THEN /\ rows'[o].state \in {"pending", "blocked", "complete"}
            /\ rows'[o].state = "complete" <=>
                 \A r \in Required : targets'[o][r].state = "accepted"
       ELSE rows'[o].state = "superseded"
    /\ \A r \in Targets \ Submitted(o) :
         targets'[o][r] = targets[o][r] /\ EvidenceOf(o, r)' = EvidenceOf(o, r)
    /\ \A r \in Submitted(o) : Answers(o, r)
    /\ \E s \in Targets : \A r \in Submitted(o) \ {s} : targets'[o][r].state # "accepted"
    /\ ~IsCurrent(o) => \A r \in Submitted(o) : targets'[o][r].state # "accepted"

Moved(o) ==
    \/ Stayed(o) \/ Withdrawn(o) \/ Claimed(o) \/ Reopened(o)
    \/ Offered(o) \/ Sending(o) \/ Concluding(o)

(* One step: work goes on, a commit, a refresh, or the end of one attempt. *)
TablesStep ==
    \/ \A o \in Outboxes : Stayed(o) \/ Claimed(o) \/ Sending(o)
    \/ \A o \in Outboxes : Stayed(o) \/ Withdrawn(o) \/ Offered(o)
    \/ \A o \in Outboxes : Stayed(o) \/ Reopened(o)
    \/ \E o \in Outboxes : Concluding(o) /\ \A p \in Outboxes : p # o => Stayed(p)

(* Whatever the step, every outbox moved in one of these ways. *)
LEMMA EveryOutboxMoved ==
    ASSUME TablesStep
    PROVE  \A o \in Outboxes : Moved(o)
BY DEF TablesStep, Moved

(* Targets none of which is in flight have a disposition. *)
LEMMA ShapedDisposition ==
    ASSUME NEW ts \in [Targets -> Target],
           \A r \in Targets :
             /\ ts[r].state # "submitted"
             /\ ts[r].next # Null <=> RetryableState(ts[r]) /\ ts[r].count < MaxAttempts
    PROVE  HasDisposition(ts)
<1>1. ASSUME NEW r \in Required, ts[r].state # "accepted", ~TargetIsBlocking(ts[r])
      PROVE  ts[r].next # Null
  <2> DEFINE e == ts[r]
  <2>1. e \in Target /\ e.state # "submitted" /\ e.state # "accepted"
    BY <1>1, ConstantFacts
  <2>2. e.next # Null <=> RetryableState(e) /\ e.count < MaxAttempts
    BY ConstantFacts
  <2>3. ~TargetIsBlocking(e)
    BY <1>1
  <2> HIDE DEF e
  <2>4. RetryableState(e)
    BY <2>1, <2>3 DEF TargetIsBlocking, RetryableState, Target, TargetStates
  <2>5. e.count \in Nat
    BY <2>1, ConstantFacts DEF Target
  <2>6. e.next # Null
    BY <2>2, <2>3, <2>4, <2>5, ConstantFacts DEF TargetIsBlocking
  <2> QED
    BY <2>6 DEF e
<1> SUFFICES ASSUME NEW r \in Required, ts[r].state # "accepted",
                    \A q \in Required : ~TargetIsBlocking(ts[q])
             PROVE  Schedules(ts) # {}
  BY DEF HasDisposition
<1>2. ts[r].next # Null
  BY <1>1
<1> QED
  BY <1>2 DEF Schedules

(* The tables stay as they are. *)
LEMMA QuietTables ==
    ASSUME PresenceTypeOK, UNCHANGED <<rows, targets, attempts>>
    PROVE  TablesStep
BY DEF TablesStep, Stayed, EvidenceOf

(* A commit offers the documents of the desired generation and withdraws the *)
(* open work of every other.                                                 *)
LEMMA CommitTables ==
    ASSUME PresenceTypeOK, TargetShapes, CommitSigned
    PROVE  TablesType' /\ desired' = desired /\ TablesStep
<1>1. /\ desired' = desired /\ attempts' = attempts
      /\ rows' = [o \in Outboxes |-> RowAfterCommit(o)]
      /\ targets' = [o \in Outboxes |->
           IF IsCurrent(o)
           THEN [t \in Targets |-> [state |-> "pending", count |-> 0, next |-> 0]]
           ELSE targets[o]]
  BY DEF CommitSigned
<1>2. \A o, r : EvidenceOf(o, r)' = EvidenceOf(o, r)
  BY <1>1 DEF EvidenceOf
<1>3. RowsOf(desired.generation) = {} /\ \A o \in Stale : rows[o].state # "leased"
  BY DEF CommitSigned, Committable, Rendered
<1>4. /\ Released("superseded", Null) \in Row /\ RowShape(Released("superseded", Null))
      /\ Released("pending", 0) \in Row /\ RowShape(Released("pending", 0))
  BY ReleasedFacts, TickFacts DEF OutboxStates
<1>5. ASSUME NEW o \in Outboxes
      PROVE  /\ RowAfterCommit(o) \in Row /\ RowShape(RowAfterCommit(o))
             /\ IsCurrent(o) => rows[o].state = "absent" /\ RowAfterCommit(o).state = "pending"
             /\ ~IsCurrent(o) =>
                  \/ RowAfterCommit(o) = rows[o]
                  \/ /\ o[1] # desired.generation
                     /\ rows[o].state \in {"pending", "blocked"}
                     /\ RowAfterCommit(o).state = "superseded"
             /\ o[1] # desired.generation =>
                  RowAfterCommit(o).state \notin {"pending", "blocked", "leased"}
  <2>1. rows[o] \in Row /\ RowShape(rows[o])
    BY ColumnFacts
  <2>2. o[1] = desired.generation => rows[o].state = "absent"
    BY <1>3 DEF RowsOf
  <2>3. o[1] # desired.generation => rows[o].state # "leased"
    BY <1>3 DEF Stale
  <2> QED
    BY <1>4, <2>1, <2>2, <2>3 DEF RowAfterCommit, IsCurrent, SignedNow, Released
<1>6. \A o \in Outboxes : rows'[o] = RowAfterCommit(o)
  BY <1>1
<1>7. ASSUME NEW o \in Outboxes, IsCurrent(o)
      PROVE  targets'[o] = [t \in Targets |-> [state |-> "pending", count |-> 0, next |-> 0]]
  BY <1>1, <1>7
<1>8. ASSUME NEW o \in Outboxes, ~IsCurrent(o)
      PROVE  targets'[o] = targets[o]
  BY <1>1, <1>8
<1>9. TablesType'
  <2>1. [state |-> "pending", count |-> 0, next |-> 0] \in Target
    BY TickFacts, ConstantFacts DEF Target, TargetStates
  <2>2. \A o \in Outboxes : targets'[o] \in [Targets -> Target]
    BY <1>7, <1>8, <2>1, ColumnFacts
  <2>3. targets' \in [Outboxes -> [Targets -> Target]]
    BY <1>1, <2>2
  <2>4. rows' \in [Outboxes -> Row] /\ \A o \in Outboxes : RowShape(rows'[o])
    BY <1>1, <1>5, <1>6
  <2>5. stamped' \subseteq Kinds
    <3>1. desired.authority \in Authorities \cup {NoAuthority}
      BY DEF PresenceTypeOK, Desired
    <3>2. \A s \in Sections : s.kinds \subseteq Kinds
      BY PresenceAssumption
    <3>3. ASSUME NEW a \in Authorities
          PROVE  a.kinds \subseteq Kinds
      <4>1. PICK s \in Sections : a = Authority(s)
        BY DEF Authorities
      <4>2. a.kinds = s.kinds
        BY <4>1 DEF Authority
      <4> QED
        BY <3>2, <4>2
    <3>4. NoAuthority.kinds \subseteq Kinds
      BY DEF NoAuthority
    <3>5. desired.authority.kinds \subseteq Kinds
      BY <3>1, <3>3, <3>4
    <3> QED
      BY <3>5 DEF CommitSigned, SignedNow, PresenceTypeOK
  <2> QED
    BY <1>1, <2>3, <2>4, <2>5 DEF TablesType, PresenceTypeOK
<1>10. ASSUME NEW o \in Outboxes
       PROVE  Stayed(o) \/ Withdrawn(o) \/ Offered(o)
  <2>1. CASE IsCurrent(o)
    BY <1>2, <1>5, <1>6, <1>7, <2>1 DEF Offered, Stale
  <2>2. CASE ~IsCurrent(o) /\ RowAfterCommit(o) = rows[o]
    BY <1>2, <1>6, <1>8, <2>2 DEF Stayed
  <2>3. CASE /\ ~IsCurrent(o) /\ o[1] # desired.generation
             /\ rows[o].state \in {"pending", "blocked"}
             /\ RowAfterCommit(o).state = "superseded"
    BY <1>2, <1>6, <1>8, <2>3 DEF Withdrawn, RowOnly
  <2> QED
    BY <1>5, <2>1, <2>2, <2>3
<1> QED
  BY <1>1, <1>9, <1>10 DEF TablesStep

(* What a release stores: the new targets, their row, and the new evidence. *)
LEMMA ReleaseTables ==
    ASSUME PresenceTypeOK, NEW o \in Outboxes, NEW ts \in [Targets -> Target],
           NEW row \in Row, RowShape(row), attempts' \subseteq Attempt,
           targets' = [targets EXCEPT ![o] = ts], rows' = [rows EXCEPT ![o] = row],
           UNCHANGED <<desired, stamped>>
    PROVE  /\ TablesType' /\ rows'[o] = row /\ targets'[o] = ts
           /\ \A p \in Outboxes : p # o => rows'[p] = rows[p] /\ targets'[p] = targets[p]
<1>1. /\ rows' \in [Outboxes -> Row] /\ rows'[o] = row
      /\ \A p \in Outboxes : p # o => rows'[p] = rows[p]
  BY DEF PresenceTypeOK
<1>2. /\ targets' \in [Outboxes -> [Targets -> Target]] /\ targets'[o] = ts
      /\ \A p \in Outboxes : p # o => targets'[p] = targets[p]
  BY DEF PresenceTypeOK
<1> QED
  BY <1>1, <1>2 DEF PresenceTypeOK, TablesType, RowShape

(* The evidence of a target in flight is of an attempt. *)
LEMMA EvidenceType ==
    ASSUME PresenceTypeOK, TargetShapes, NEW o \in Outboxes, NEW r \in Submitted(o),
           NEW outcome \in AllOutcomes
    PROVE  LET x == Evidence(o, r, outcome)
           IN  /\ x \in Attempt /\ x.outbox = o /\ x.target = r
               /\ x.number = targets[o][r].count
<1>1. r \in Targets /\ targets[o][r].count \in 1 .. MaxAttempts
  BY ColumnFacts, ConstantFacts DEF Submitted, TargetShapes
<1> QED
  BY <1>1 DEF Evidence, Attempt

(* A recovery concludes what was in flight as unknown. *)
LEMMA RecoverTables ==
    ASSUME PresenceTypeOK, TargetShapes, WorkerHolds, Recover
    PROVE  TablesType' /\ desired' = desired /\ TablesStep
<1>1. PICK o \in Outboxes : o = proc.held
  BY DEF Recover, WorkerHolds
<1>2. /\ rows[o].state = "leased" /\ proc.current = IsCurrent(o)
      /\ proc.delay \in 0 .. MaximumBackoff
  BY <1>1 DEF Recover, WorkerHolds, PresenceTypeOK, Process
<1> DEFINE ts == RecoveredTargets(o, proc.delay)
           row == RecoveredRow(o, proc.current, ts)
           x(r) == Evidence(o, r, "unknown")
<1>3. /\ attempts' = attempts \cup {x(r) : r \in Submitted(o)}
      /\ targets' = [targets EXCEPT ![o] = ts] /\ rows' = [rows EXCEPT ![o] = row]
      /\ UNCHANGED <<desired, stamped>>
  BY <1>1 DEF Recover
<1>4. proc'.pc = "claim"
  BY DEF Recover, Idle, At
<1>5. "unknown" \in AllOutcomes /\ RetryableOutcome("unknown")
  BY DEF AllOutcomes, TargetStates, RetryableOutcome
<1>6. \A r \in Targets : targets[o][r] \in Target
  BY ColumnFacts
<1>7. \A r \in Submitted(o) : r \in Targets /\ targets[o][r].state = "submitted"
  BY DEF Submitted
<1>8. ASSUME NEW r \in Submitted(o)
      PROVE  /\ ts[r] \in Target /\ ts[r].state = "unknown"
             /\ ts[r].count = targets[o][r].count
             /\ ts[r].next # Null <=> targets[o][r].count < MaxAttempts
  <2> DEFINE e == targets[o][r]
             d == proc.delay
  <2>1. ts[r] = ConcludedTarget(e, "unknown", d)
    BY <1>7 DEF RecoveredTargets
  <2>2. e \in Target /\ d \in 0 .. MaximumBackoff
    BY <1>2, <1>6, <1>7
  <2> HIDE DEF e, d, ts
  <2>3. LET new == ConcludedTarget(e, "unknown", d)
        IN  /\ new \in Target /\ new.state = "unknown" /\ new.count = e.count
            /\ new.next # Null <=> e.count < MaxAttempts
    BY <1>5, <2>2, ConcludedFacts
  <2> QED
    BY <2>1, <2>3 DEF e
<1>9. \A r \in Targets \ Submitted(o) : ts[r] = targets[o][r]
  BY DEF RecoveredTargets
<1>10. ts \in [Targets -> Target]
  <2>1. ts = [r \in Targets |-> ts[r]]
    BY DEF RecoveredTargets
  <2> HIDE DEF ts
  <2>2. \A r \in Targets : ts[r] \in Target
    BY <1>6, <1>8, <1>9
  <2> QED
    BY <2>1, <2>2
<1> HIDE DEF ts
<1>11. HasDisposition(ts)
  <2>1. ASSUME NEW r \in Targets
        PROVE  /\ ts[r].state # "submitted"
               /\ ts[r].next # Null <=> RetryableState(ts[r]) /\ ts[r].count < MaxAttempts
    <3>1. CASE r \in Submitted(o)
      BY <1>8, <3>1 DEF RetryableState
    <3>2. CASE r \notin Submitted(o)
      BY <1>2, <1>9, <3>2 DEF TargetShapes, Submitted
    <3> QED
      BY <3>1, <3>2
  <2> QED
    BY <1>10, <2>1, ShapedDisposition
<1>12. /\ row \in Row /\ RowShape(row)
       /\ IsCurrent(o) => /\ row.state \in {"pending", "blocked", "complete"}
                          /\ row.state = "complete" <=>
                               \A r \in Required : ts[r].state = "accepted"
       /\ ~IsCurrent(o) => row.state = "superseded"
  <2>1. CASE IsCurrent(o)
    <3>1. row = Disposition(ts)
      BY <1>2, <2>1 DEF RecoveredRow
    <3> HIDE DEF row
    <3> QED
      BY <1>10, <1>11, <2>1, <3>1, DispositionFacts
  <2>2. CASE ~IsCurrent(o)
    <3>1. row = Released("superseded", Null)
      BY <1>2, <2>2 DEF RecoveredRow
    <3> HIDE DEF row
    <3> QED
      BY <2>2, <3>1, ReleasedFacts DEF OutboxStates
  <2> QED
    BY <2>1, <2>2
<1> HIDE DEF row
<1>13. \A r \in Submitted(o) :
         x(r) \in Attempt /\ x(r).outbox = o /\ x(r).target = r
         /\ x(r).number = targets[o][r].count
  BY <1>5, EvidenceType
<1> HIDE DEF x
<1>14. attempts' \subseteq Attempt
  BY <1>3, <1>13 DEF PresenceTypeOK
<1>15. /\ TablesType' /\ rows'[o] = row /\ targets'[o] = ts
       /\ \A p \in Outboxes : p # o => rows'[p] = rows[p] /\ targets'[p] = targets[p]
  BY <1>3, <1>10, <1>12, <1>14, ReleaseTables
<1>16. \A p, r : p # o \/ r \notin Submitted(o) => EvidenceOf(p, r)' = EvidenceOf(p, r)
  BY <1>3, <1>13 DEF EvidenceOf
<1>17. \A r \in Submitted(o) : EvidenceOf(o, r)' = EvidenceOf(o, r) \cup {x(r)}
  BY <1>3, <1>13 DEF EvidenceOf
<1>18. \A r \in Submitted(o) : Answers(o, r)
  BY <1>5, <1>8, <1>13, <1>15, <1>17 DEF Answers
<1>19. \A r \in Submitted(o) : targets'[o][r].state # "accepted"
  BY <1>8, <1>15
<1>20. Concluding(o)
  BY <1>2, <1>4, <1>9, <1>12, <1>15, <1>16, <1>18, <1>19, ConstantFacts DEF Concluding
<1>21. \A p \in Outboxes : p # o => Stayed(p)
  BY <1>15, <1>16 DEF Stayed
<1> QED
  BY <1>3, <1>15, <1>20, <1>21 DEF TablesStep

(* A recorded answer concludes the target it is for, the only one in flight. *)
LEMMA RecordTables ==
    ASSUME PresenceTypeOK, TargetShapes, WorkerHolds, NEW delay \in 0 .. MaximumBackoff,
           Record(delay)
    PROVE  TablesType' /\ desired' = desired /\ TablesStep
<1>1. PICK o \in Outboxes, r \in Targets : o = proc.held /\ r = proc.target
  BY DEF Record, WorkerHolds, PresenceTypeOK, Process
<1>2. /\ rows[o].state = "leased" /\ IsCurrent(o) /\ Submitted(o) = {r}
      /\ proc.answer \in AllOutcomes
  BY <1>1 DEF Record, WorkerHolds
<1> DEFINE e == targets[o][r]
           c == ConcludedTarget(e, proc.answer, delay)
           ts == [targets[o] EXCEPT ![r] = c]
           row == Disposition(ts)
           x == Evidence(o, r, proc.answer)
<1>3. /\ attempts' = attempts \cup {x}
      /\ targets' = [targets EXCEPT ![o] = ts] /\ rows' = [rows EXCEPT ![o] = row]
      /\ UNCHANGED <<desired, stamped>>
  BY <1>1 DEF Record
<1>4. proc'.pc = "idle"
  BY DEF Record, Idle, At
<1>5. targets[o] \in [Targets -> Target] /\ e \in Target
  BY ColumnFacts
<1>6. /\ c \in Target /\ c.state = proc.answer /\ c.count = e.count
      /\ c.next # Null <=> RetryableOutcome(proc.answer) /\ e.count < MaxAttempts
  <2> DEFINE answer == proc.answer
  <2>1. answer \in AllOutcomes
    BY <1>2
  <2> HIDE DEF e, answer
  <2>2. LET new == ConcludedTarget(e, answer, delay)
        IN  /\ new \in Target /\ new.state = answer /\ new.count = e.count
            /\ new.next # Null <=> RetryableOutcome(answer) /\ e.count < MaxAttempts
    BY <1>5, <2>1, ConcludedFacts
  <2> QED
    BY <2>2 DEF answer
<1>7. x \in Attempt /\ x.outbox = o /\ x.target = r /\ x.number = e.count
  BY <1>2, EvidenceType
<1> HIDE DEF c, x
<1>8. /\ ts \in [Targets -> Target] /\ ts[r] = c
      /\ \A q \in Targets \ {r} : ts[q] = targets[o][q]
  BY <1>5, <1>6
<1> HIDE DEF ts
<1>9. HasDisposition(ts)
  <2>1. ASSUME NEW q \in Targets
        PROVE  /\ ts[q].state # "submitted"
               /\ ts[q].next # Null <=> RetryableState(ts[q]) /\ ts[q].count < MaxAttempts
    <3>1. CASE q = r
      BY <1>2, <1>6, <1>8, <3>1 DEF RetryableState, RetryableOutcome, AllOutcomes, TargetStates
    <3>2. CASE q # r
      <4>1. q \notin Submitted(o)
        BY <1>2, <3>2
      <4> QED
        BY <1>2, <1>8, <3>2, <4>1 DEF TargetShapes, Submitted
    <3> QED
      BY <3>1, <3>2
  <2> QED
    BY <1>8, <2>1, ShapedDisposition
<1>10. /\ row \in Row /\ RowShape(row) /\ row.state \in {"pending", "blocked", "complete"}
       /\ row.state = "complete" <=> \A q \in Required : ts[q].state = "accepted"
  BY <1>8, <1>9, DispositionFacts
<1> HIDE DEF row
<1>11. attempts' \subseteq Attempt
  BY <1>3, <1>7 DEF PresenceTypeOK
<1>12. /\ TablesType' /\ rows'[o] = row /\ targets'[o] = ts
       /\ \A p \in Outboxes : p # o => rows'[p] = rows[p] /\ targets'[p] = targets[p]
  BY <1>3, <1>8, <1>10, <1>11, ReleaseTables
<1>13. \A p, q : p # o \/ q # r => EvidenceOf(p, q)' = EvidenceOf(p, q)
  BY <1>3, <1>7 DEF EvidenceOf
<1>14. EvidenceOf(o, r)' = EvidenceOf(o, r) \cup {x}
  BY <1>3, <1>7 DEF EvidenceOf
<1>15. Answers(o, r)
  BY <1>2, <1>6, <1>7, <1>8, <1>12, <1>14 DEF Answers
<1>16. Concluding(o)
  BY <1>2, <1>4, <1>8, <1>10, <1>12, <1>13, <1>15 DEF Concluding
<1>17. \A p \in Outboxes : p # o => Stayed(p)
  BY <1>12, <1>13 DEF Stayed
<1> QED
  BY <1>3, <1>12, <1>16, <1>17 DEF TablesStep

(* A claim leases a due outbox of the desired generation. *)
LEMMA ClaimTables ==
    ASSUME PresenceTypeOK, NEW o \in Outboxes, Claim(o)
    PROVE  /\ TablesType' /\ desired' = desired /\ TablesStep
           /\ IsCurrent(o) /\ rows[o].state = "pending" /\ rows'[o].state = "leased"
<1> DEFINE row == [state |-> "leased", next |-> Null, lease |-> AttemptDeadline]
<1>1. /\ rows' = [rows EXCEPT ![o] = row] /\ targets' = targets /\ attempts' = attempts
      /\ UNCHANGED <<desired, stamped>> /\ rows[o].state = "pending" /\ IsCurrent(o)
  BY DEF Claim, Due
<1>2. row \in Row /\ RowShape(row) /\ row.state = "leased"
  BY TickFacts DEF Row, RowShape, OutboxStates
<1> HIDE DEF row
<1>3. /\ rows' \in [Outboxes -> Row] /\ rows'[o] = row
      /\ \A p \in Outboxes : p # o => rows'[p] = rows[p]
  BY <1>1, <1>2 DEF PresenceTypeOK
<1>4. TablesType'
  BY <1>1, <1>2, <1>3 DEF PresenceTypeOK, TablesType, RowShape
<1>5. \A p, r : EvidenceOf(p, r)' = EvidenceOf(p, r)
  BY <1>1 DEF EvidenceOf
<1>6. Claimed(o)
  BY <1>1, <1>2, <1>3, <1>5 DEF Claimed, RowOnly
<1>7. \A p \in Outboxes : p # o => Stayed(p)
  BY <1>1, <1>3, <1>5 DEF Stayed
<1> QED
  BY <1>1, <1>2, <1>3, <1>4, <1>6, <1>7 DEF TablesStep

(* A prepared target is in flight, its attempt counted. *)
LEMMA PrepareTables ==
    ASSUME PresenceTypeOK, WorkerHolds, NEW r \in Targets, Prepare(r)
    PROVE  TablesType' /\ desired' = desired /\ TablesStep /\ Sending(proc.held)
<1>1. PICK o \in Outboxes : o = proc.held
  BY DEF Prepare, WorkerHolds
<1> DEFINE e == targets[o][r]
           new == [state |-> "submitted", count |-> e.count + 1, next |-> Null]
<1>2. /\ targets' = [targets EXCEPT ![o] = [targets[o] EXCEPT ![r] = new]]
      /\ rows' = rows /\ attempts' = attempts /\ UNCHANGED <<desired, stamped>>
  BY <1>1 DEF Prepare, PresenceTypeOK
<1>3. TargetIsDue(e)
  BY <1>1 DEF Prepare, DueTargets
<1>4. e.count \in 0 .. MaxAttempts /\ e.count < MaxAttempts
  BY <1>3, ColumnFacts DEF TargetIsDue
<1>5. /\ new \in Target /\ new.state = "submitted" /\ new.next = Null
      /\ new.count = e.count + 1
  BY <1>4, ConstantFacts DEF Target, TargetStates
<1> HIDE DEF new
<1> DEFINE ts == [targets[o] EXCEPT ![r] = new]
<1>6. /\ ts \in [Targets -> Target] /\ ts[r] = new
      /\ \A q \in Targets \ {r} : ts[q] = targets[o][q]
  BY <1>5, ColumnFacts
<1>7. targets' = [targets EXCEPT ![o] = ts]
  BY <1>2
<1> HIDE DEF ts
<1>8. /\ targets' \in [Outboxes -> [Targets -> Target]] /\ targets'[o] = ts
      /\ \A p \in Outboxes : p # o => targets'[p] = targets[p]
  BY <1>6, <1>7 DEF PresenceTypeOK
<1>9. TablesType'
  BY <1>2, <1>8 DEF PresenceTypeOK, TablesType, RowShape
<1>10. \A p, q : EvidenceOf(p, q)' = EvidenceOf(p, q)
  BY <1>2 DEF EvidenceOf
<1>11. /\ proc.pc = "prepare" /\ proc'.pc = "submit" /\ proc'.held = proc.held
       /\ proc'.target = r
  BY DEF Prepare, PresenceTypeOK, Process
<1>12. Sending(o)
  BY <1>1, <1>2, <1>3, <1>5, <1>6, <1>8, <1>10, <1>11 DEF Sending
<1>13. \A p \in Outboxes : p # o => Stayed(p)
  BY <1>2, <1>8, <1>10 DEF Stayed
<1> QED
  BY <1>1, <1>2, <1>9, <1>12, <1>13 DEF TablesStep

(* A refresh makes the blocked rows of the generation pending. *)
LEMMA RefreshTables ==
    ASSUME PresenceTypeOK, Refresh
    PROVE  TablesType' /\ desired' = desired /\ TablesStep
<1> DEFINE new(o) == [rows[o] EXCEPT !.state = "pending", !.next = 0]
<1>1. /\ rows' = [o \in Outboxes |-> IF o \in BlockedNow THEN new(o) ELSE rows[o]]
      /\ targets' = targets /\ attempts' = attempts /\ UNCHANGED <<desired, stamped>>
  BY DEF Refresh
<1>2. ASSUME NEW o \in BlockedNow
      PROVE  /\ o \in Outboxes /\ o[1] = desired.generation /\ rows[o].state = "blocked"
             /\ new(o) \in Row /\ RowShape(new(o)) /\ new(o).state = "pending"
  <2>1. o \in Outboxes /\ o[1] = desired.generation /\ rows[o].state = "blocked"
    BY DEF BlockedNow, RowsOf
  <2> QED
    BY <2>1, ColumnFacts, TickFacts DEF Row, RowShape, OutboxStates
<1> HIDE DEF new
<1>3. \A o \in Outboxes : rows'[o] = IF o \in BlockedNow THEN new(o) ELSE rows[o]
  BY <1>1
<1>4. rows' \in [Outboxes -> Row] /\ \A o \in Outboxes : RowShape(rows'[o])
  BY <1>1, <1>2, <1>3, ColumnFacts
<1>5. TablesType'
  BY <1>1, <1>4 DEF PresenceTypeOK, TablesType
<1>6. \A p, q : EvidenceOf(p, q)' = EvidenceOf(p, q)
  BY <1>1 DEF EvidenceOf
<1>7. \A o \in Outboxes : Stayed(o) \/ Reopened(o)
  BY <1>1, <1>2, <1>3, <1>6 DEF Stayed, Reopened, RowOnly
<1> QED
  BY <1>1, <1>5, <1>7 DEF TablesStep

(* A tick brings every schedule and every lease closer, and ends none. *)
LEMMA TickTables ==
    ASSUME PresenceTypeOK, Tick
    PROVE  TablesType' /\ desired' = desired /\ TablesStep
<1> DEFINE row(o) == [rows[o] EXCEPT !.next = Sooner(@), !.lease = Sooner(@)]
           new(o, r) == [targets[o][r] EXCEPT !.next = Sooner(@)]
<1>1. /\ rows' = [o \in Outboxes |-> row(o)]
      /\ targets' = [o \in Outboxes |-> [r \in Targets |-> new(o, r)]]
      /\ attempts' = attempts /\ UNCHANGED <<desired, stamped>>
  BY DEF Tick
<1>2. ASSUME NEW o \in Outboxes
      PROVE  row(o) \in Row /\ RowShape(row(o)) /\ row(o).state = rows[o].state
  <2> DEFINE e == rows[o]
             n == Sooner(e.next)
             l == Sooner(e.lease)
  <2>1. e \in Row /\ RowShape(e)
    BY ColumnFacts
  <2>2. row(o) = [e EXCEPT !.next = n, !.lease = l]
    OBVIOUS
  <2> HIDE DEF e
  <2>3. /\ n \in 0 .. MaximumBackoff \cup {Null} /\ l \in 0 .. AttemptDeadline \cup {Null}
        /\ n = Null <=> e.next = Null
        /\ l = Null <=> e.lease = Null
    BY <2>1, ConstantFacts, SoonerFacts DEF Row
  <2> HIDE DEF n, l, row
  <2>4. row(o) \in Row /\ RowShape(row(o)) /\ row(o).state = e.state
    BY <2>1, <2>2, <2>3 DEF Row, RowShape
  <2> QED
    BY <2>4 DEF e
<1>3. ASSUME NEW o \in Outboxes, NEW r \in Targets
      PROVE  LET e == targets[o][r]
             IN  /\ new(o, r) \in Target /\ new(o, r).state = e.state
                 /\ new(o, r).count = e.count /\ (new(o, r).next = Null <=> e.next = Null)
  <2> DEFINE e == targets[o][r]
             n == Sooner(e.next)
  <2>1. e \in Target
    BY ColumnFacts
  <2>2. new(o, r) = [e EXCEPT !.next = n]
    OBVIOUS
  <2> HIDE DEF e
  <2>3. n \in 0 .. MaximumBackoff \cup {Null} /\ (n = Null <=> e.next = Null)
    BY <2>1, ConstantFacts, SoonerFacts DEF Target
  <2> HIDE DEF n, new
  <2>4. /\ new(o, r) \in Target /\ new(o, r).state = e.state
        /\ new(o, r).count = e.count /\ (new(o, r).next = Null <=> e.next = Null)
    BY <2>1, <2>2, <2>3 DEF Target
  <2> QED
    BY <2>4 DEF e
<1> HIDE DEF row, new
<1>4. rows' \in [Outboxes -> Row] /\ \A o \in Outboxes : RowShape(rows'[o])
  BY <1>1, <1>2
<1>5. targets' \in [Outboxes -> [Targets -> Target]]
  BY <1>1, <1>3
<1>6. TablesType'
  BY <1>1, <1>4, <1>5 DEF PresenceTypeOK, TablesType
<1>7. \A p, q : EvidenceOf(p, q)' = EvidenceOf(p, q)
  BY <1>1 DEF EvidenceOf
<1>8. \A o \in Outboxes : Stayed(o)
  BY <1>1, <1>2, <1>3, <1>7 DEF Stayed
<1> QED
  BY <1>1, <1>6, <1>8 DEF TablesStep

-----------------------------------------------------------------------------
(* What one step does to the process and to the desired state *)

Rested == proc'.pc \in {"idle", "claim", "down", "stopped", "render"}

Starting ==
    /\ proc'.pc = "starting" /\ desired' = desired
    /\ Matches(proc'.authority) \/ desired.generation < MaxGeneration

Recovering ==
    /\ proc'.pc = "recover" /\ UNCHANGED tables
    /\ proc'.held \in Outboxes /\ rows[proc'.held].state = "leased"
    /\ proc'.current = IsCurrent(proc'.held)

Claiming ==
    /\ proc'.pc = "prepare" /\ desired' = desired /\ targets' = targets
    /\ proc'.held \in Outboxes /\ IsCurrent(proc'.held)
    /\ rows[proc'.held].state = "pending" /\ rows'[proc'.held].state = "leased"

Submitting ==
    /\ proc.pc = "submit" /\ proc'.pc = "sent" /\ UNCHANGED tables
    /\ proc'.held = proc.held /\ proc'.target = proc.target /\ proc'.answer \in AllOutcomes

ProcessStep ==
    \/ proc' = proc /\ desired' = desired
    \/ Rested \/ Starting \/ Recovering \/ Claiming \/ Submitting
    \/ Sending(proc.held) /\ desired' = desired

DesiredStep ==
    \/ desired' = desired
    \/ /\ desired'.generation = desired.generation + 1
       /\ UNCHANGED <<rows, targets, attempts>> /\ proc'.pc = "render"

Step == TablesType' /\ proc' \in Process /\ TablesStep /\ ProcessStep /\ DesiredStep

(* A process at rest. *)
LEMMA AtFacts ==
    ASSUME NEW pc \in {"down", "stopped", "starting", "render", "idle", "claim"},
           NEW a \in Authorities
    PROVE  At(pc, a) \in Process /\ At(pc, a).pc = pc /\ At(pc, a).authority = a
BY ConstantFacts, TickFacts DEF At, Process, None

(* The desired state after a change of configuration. *)
LEMMA DesiredFacts ==
    ASSUME PresenceTypeOK, WorkerHolds, DesiredChanged
    PROVE  desired' \in Desired /\ desired'.generation = desired.generation + 1
<1>1. proc.authority \in Authorities /\ desired.generation \in 0 .. MaxGeneration
  BY DEF PresenceTypeOK, Process, Desired
<1>2. desired.generation < MaxGeneration
  BY DEF DesiredChanged, WorkerHolds
<1> QED
  BY <1>1, <1>2, ConstantFacts DEF DesiredChanged, DesiredAfter, Desired

(* A step that leaves the tables alone. *)
LEMMA StillTables ==
    ASSUME PresenceTypeOK, UNCHANGED <<tables, stamped>>
    PROVE  TablesType' /\ TablesStep /\ desired' = desired
BY QuietTables DEF tables, PresenceTypeOK, TablesType, RowShape

(* The same of a step of the process alone. *)
LEMMA QuietStep ==
    ASSUME PresenceTypeOK, UNCHANGED <<tables, stamped>>, proc' \in Process, ProcessStep
    PROVE  Step
BY StillTables DEF Step, DesiredStep

(* A step that rests the process. *)
LEMMA RestingStep ==
    ASSUME NEW pc \in {"down", "stopped", "idle", "claim"}, NEW a \in Authorities,
           proc' = At(pc, a), TablesType', TablesStep, desired' = desired
    PROVE  Step
<1>1. proc' \in Process /\ proc'.pc = pc
  BY AtFacts
<1> QED
  BY <1>1 DEF Step, ProcessStep, DesiredStep, Rested

(* A step that leaves the process alone. *)
LEMMA OperatorStep ==
    ASSUME PresenceTypeOK, proc' = proc, TablesType', TablesStep, desired' = desired
    PROVE  Step
BY DEF Step, ProcessStep, DesiredStep, PresenceTypeOK

(* The same of a start. *)
LEMMA StartupSteps ==
    ASSUME PresenceTypeOK, TargetShapes, WorkerHolds, StartupStep
    PROVE  Step
<1>1. proc \in Process /\ proc.authority \in Authorities
  BY DEF PresenceTypeOK, Process
<1>2. ASSUME NEW a \in Authorities, Start(a)
      PROVE  Step
  <2>1. proc' \in Process /\ proc'.pc = "starting" /\ proc'.authority = a
    BY <1>2, AtFacts DEF Start
  <2>2. ProcessStep
    BY <1>2, <2>1 DEF Start, ProcessStep, Starting, tables
  <2> QED
    BY <1>2, <2>1, <2>2, QuietStep DEF Start
<1>3. CASE DesiredUnchanged
  <2>1. TablesType' /\ TablesStep /\ desired' = desired
    BY <1>3, StillTables DEF DesiredUnchanged
  <2> QED
    BY <1>1, <1>3, <2>1, RestingStep DEF DesiredUnchanged, Idle
<1>4. CASE DesiredChanged
  <2>1. /\ proc' \in Process /\ proc'.pc = "render"
        /\ UNCHANGED <<rows, targets, attempts, stamped>>
    BY <1>1, <1>4 DEF DesiredChanged, Process
  <2>2. desired' \in Desired /\ desired'.generation = desired.generation + 1
    BY <1>4, DesiredFacts
  <2>3. TablesType'
    BY <2>1, <2>2 DEF PresenceTypeOK, TablesType, RowShape
  <2>4. TablesStep
    BY <2>1, QuietTables
  <2> QED
    BY <2>1, <2>2, <2>3, <2>4 DEF Step, ProcessStep, DesiredStep, Rested
<1>5. CASE InitialCommit
  <2>1. TablesType' /\ desired' = desired /\ TablesStep
    BY <1>5, CommitTables DEF InitialCommit
  <2> QED
    BY <1>1, <1>5, <2>1, RestingStep DEF InitialCommit, Idle
<1>6. CASE InitialCommitRefused
  <2>1. TablesType' /\ TablesStep /\ desired' = desired
    BY <1>6, StillTables DEF InitialCommitRefused
  <2> QED
    BY <1>1, <1>6, <2>1, RestingStep DEF InitialCommitRefused
<1> QED
  BY <1>2, <1>3, <1>4, <1>5, <1>6 DEF StartupStep

(* And of the worker. *)
LEMMA WorkerSteps ==
    ASSUME PresenceTypeOK, TargetShapes, WorkerHolds, WorkerStep
    PROVE  Step
<1>1. proc \in Process /\ proc.authority \in Authorities
  BY DEF PresenceTypeOK, Process
<1>3. CASE BeginNothingExpired
  <2>1. proc' \in Process /\ proc'.pc = "claim"
    BY <1>1, <1>3 DEF BeginNothingExpired, Process
  <2> QED
    BY <1>3, <2>1, QuietStep DEF BeginNothingExpired, ProcessStep, Rested
<1>4. ASSUME NEW o \in Outboxes, BeginRecovery(o)
      PROVE  Step
  <2>1. PICK delay \in 0 .. MaximumBackoff :
          proc' = [proc EXCEPT !.pc = "recover", !.held = o, !.delay = delay,
                               !.current = IsCurrent(o)]
    BY <1>4 DEF BeginRecovery
  <2>2. IsCurrent(o) \in BOOLEAN
    BY DEF IsCurrent
  <2>3. /\ proc' \in Process /\ proc'.pc = "recover" /\ proc'.held = o
        /\ proc'.current = IsCurrent(o)
    BY <1>1, <2>1, <2>2 DEF Process
  <2>4. ProcessStep
    BY <1>4, <2>3 DEF BeginRecovery, Expired, ProcessStep, Recovering
  <2> QED
    BY <1>4, <2>3, <2>4, QuietStep DEF BeginRecovery
<1>5. CASE Recover
  <2>1. TablesType' /\ desired' = desired /\ TablesStep
    BY <1>5, RecoverTables
  <2>2. proc' = At("claim", proc.authority)
    BY <1>5 DEF Recover, Idle, At
  <2> QED
    BY <1>1, <2>1, <2>2, RestingStep
<1>6. ASSUME NEW o \in Outboxes, Claim(o)
      PROVE  Step
  <2>1. /\ TablesType' /\ desired' = desired /\ TablesStep
        /\ IsCurrent(o) /\ rows[o].state = "pending" /\ rows'[o].state = "leased"
    BY <1>6, ClaimTables
  <2>2. proc' \in Process /\ proc'.pc = "prepare" /\ proc'.held = o /\ targets' = targets
    BY <1>1, <1>6 DEF Claim, Process
  <2> QED
    BY <2>1, <2>2 DEF Step, ProcessStep, DesiredStep, Claiming
<1>7. CASE ClaimNothing
  <2>1. TablesType' /\ TablesStep /\ desired' = desired
    BY <1>7, StillTables DEF ClaimNothing
  <2> QED
    BY <1>1, <1>7, <2>1, RestingStep DEF ClaimNothing, Idle
<1>8. ASSUME NEW r \in Targets, Prepare(r)
      PROVE  Step
  <2>1. TablesType' /\ desired' = desired /\ TablesStep /\ Sending(proc.held)
    BY <1>8, PrepareTables
  <2>2. proc' \in Process
    BY <1>1, <1>8 DEF Prepare, Process
  <2> QED
    BY <2>1, <2>2 DEF Step, ProcessStep, DesiredStep
<1>9. CASE PrepareRefused
  <2>1. TablesType' /\ TablesStep /\ desired' = desired
    BY <1>9, StillTables DEF PrepareRefused
  <2> QED
    BY <1>1, <1>9, <2>1, RestingStep DEF PrepareRefused, Down
<1>10. ASSUME NEW answer \in Outcomes, Submit(answer)
       PROVE  Step
  <2>1. answer \in AllOutcomes
    BY PresenceAssumption
  <2>2. /\ proc.pc = "submit" /\ proc'.pc = "sent" /\ proc' \in Process
        /\ proc'.held = proc.held /\ proc'.target = proc.target /\ proc'.answer = answer
    BY <1>1, <1>10, <2>1 DEF Submit, Process
  <2>3. ProcessStep
    BY <1>10, <2>1, <2>2 DEF Submit, ProcessStep, Submitting
  <2> QED
    BY <1>10, <2>2, <2>3, QuietStep DEF Submit
<1>11. ASSUME NEW delay \in 0 .. MaximumBackoff, Record(delay)
       PROVE  Step
  <2>1. TablesType' /\ desired' = desired /\ TablesStep
    BY <1>11, RecordTables
  <2> QED
    BY <1>1, <1>11, <2>1, RestingStep DEF Record, Idle
<1>12. ASSUME NEW delay \in 0 .. MaximumBackoff, RecordRefused(delay)
       PROVE  Step
  <2>1. TablesType' /\ TablesStep /\ desired' = desired
    BY <1>12, StillTables DEF RecordRefused
  <2> QED
    BY <1>1, <1>12, <2>1, RestingStep DEF RecordRefused, Down
<1> QED
  BY <1>3, <1>4, <1>5, <1>6, <1>7, <1>8, <1>9, <1>10, <1>11, <1>12 DEF WorkerStep

(* Every step of the specification is one. *)
LEMMA Steps ==
    ASSUME PresenceTypeOK, TargetShapes, WorkerHolds, [Next]_vars
    PROVE  Step
<1>1. proc \in Process /\ proc.authority \in Authorities
  BY DEF PresenceTypeOK, Process
<1>2. CASE UNCHANGED vars
  BY <1>1, <1>2, QuietStep DEF vars, tables, ProcessStep
<1>3. CASE Render
  BY <1>3, CommitTables, OperatorStep DEF Render
<1>4. CASE Refresh
  BY <1>4, RefreshTables, OperatorStep DEF Refresh
<1>5. CASE Tick
  BY <1>5, TickTables, OperatorStep DEF Tick
<1>6. CASE Second
  <2>1. TablesType' /\ TablesStep /\ desired' = desired
    BY <1>6, QuietTables DEF Second, tables, PresenceTypeOK, TablesType, RowShape
  <2> QED
    BY <1>6, <2>1, OperatorStep DEF Second
<1>7. CASE Crash
  <2>1. TablesType' /\ TablesStep /\ desired' = desired
    BY <1>7, StillTables DEF Crash
  <2> QED
    BY <1>1, <1>7, <2>1, RestingStep DEF Crash, Down
<1> QED
  BY <1>2, <1>3, <1>4, <1>5, <1>6, <1>7, StartupSteps, WorkerSteps DEF Next

-----------------------------------------------------------------------------
(* The steps keep the invariant *)

(* Generations and the numbers of a target are naturals. *)
LEMMA NumberFacts ==
    ASSUME PresenceTypeOK
    PROVE  /\ desired.generation \in Nat /\ \A o \in Outboxes : o[1] \in Nat
           /\ \A o \in Outboxes, r \in Targets : targets[o][r].count \in Nat
BY ColumnFacts, ConstantFacts DEF PresenceTypeOK, Desired, Outboxes

(* The shapes are kept by every move. *)
LEMMA ShapesStep ==
    ASSUME PresenceTypeOK, TargetShapes, WorkerHolds, Step
    PROVE  TargetShapes'
<1> SUFFICES ASSUME NEW o \in Outboxes, NEW r \in Targets
             PROVE  LET e == targets'[o][r]
                    IN  /\ rows'[o].state # "absent" =>
                             ((e.next # Null) <=> (RetryableState(e) /\ e.count < MaxAttempts))
                        /\ rows'[o].state = "absent" =>
                             e.state = "pending" /\ e.count = 0 /\ e.next = Null
                        /\ e.state = "submitted" => e.count >= 1 /\ rows'[o].state = "leased"
  BY DEF TargetShapes
<1> DEFINE old == targets[o][r]
           new == targets'[o][r]
<1>1. Moved(o)
  BY EveryOutboxMoved DEF Step
<1>2. old \in Target /\ old.count \in Nat
  BY ColumnFacts, NumberFacts
<1>3. /\ rows[o].state # "absent" =>
           ((old.next # Null) <=> (RetryableState(old) /\ old.count < MaxAttempts))
      /\ rows[o].state = "absent" => old.state = "pending" /\ old.count = 0 /\ old.next = Null
      /\ old.state = "submitted" => old.count >= 1 /\ rows[o].state = "leased"
  BY DEF TargetShapes
<1>4. CASE Stayed(o)
  <2>1. /\ rows'[o].state = rows[o].state /\ new.state = old.state /\ new.count = old.count
        /\ new.next = Null <=> old.next = Null
    BY <1>4 DEF Stayed
  <2> QED
    BY <1>3, <2>1 DEF RetryableState
<1>5. CASE Withdrawn(o) \/ Claimed(o) \/ Reopened(o)
  <2>1. /\ new = old /\ rows[o].state \in {"pending", "blocked"}
        /\ rows'[o].state \in {"superseded", "leased", "pending"}
    BY <1>5 DEF Withdrawn, Claimed, Reopened, RowOnly
  <2> QED
    BY <1>3, <2>1
<1>6. CASE Offered(o)
  <2>1. /\ rows'[o].state = "pending" /\ new.state = "pending" /\ new.count = 0
        /\ new.next = 0
    BY <1>6 DEF Offered
  <2> QED
    BY <2>1, ConstantFacts, TickFacts DEF RetryableState
<1>7. CASE Sending(o)
  <2>1. rows'[o].state = rows[o].state /\ rows[o].state = "leased"
    BY <1>7 DEF Sending, WorkerHolds
  <2>2. CASE r = proc'.target
    <3>1. new.state = "submitted" /\ new.next = Null /\ new.count = old.count + 1
      BY <1>7, <2>2 DEF Sending
    <3> QED
      BY <1>2, <2>1, <3>1 DEF RetryableState
  <2>3. CASE r # proc'.target
    <3>1. new = old
      BY <1>7, <2>3 DEF Sending
    <3> QED
      BY <1>3, <2>1, <3>1
  <2> QED
    BY <2>2, <2>3
<1>8. CASE Concluding(o)
  <2>1. rows[o].state = "leased" /\ rows'[o].state # "absent"
    BY <1>8 DEF Concluding
  <2>2. CASE r \in Submitted(o)
    <3>1. /\ new.state \in AllOutcomes /\ new.count = old.count
          /\ new.next # Null <=> RetryableOutcome(new.state) /\ old.count < MaxAttempts
      BY <1>8, <2>2 DEF Concluding, Answers
    <3> QED
      BY <2>1, <3>1 DEF RetryableState, RetryableOutcome, AllOutcomes, TargetStates
  <2>3. CASE r \notin Submitted(o)
    <3>1. new = old /\ old.state # "submitted"
      BY <1>8, <2>3 DEF Concluding, Submitted
    <3> QED
      BY <1>3, <2>1, <3>1
  <2> QED
    BY <2>2, <2>3
<1> QED
  BY <1>1, <1>4, <1>5, <1>6, <1>7, <1>8 DEF Moved

(* Nothing is committed ahead of the desired generation. *)
LEMMA FutureStep ==
    ASSUME PresenceTypeOK, FutureIsAbsent, Step
    PROVE  FutureIsAbsent'
<1> SUFFICES ASSUME NEW o \in Outboxes, o[1] > desired'.generation
             PROVE  rows'[o].state = "absent"
  BY DEF FutureIsAbsent
<1>1. o[1] > desired.generation
  BY NumberFacts DEF Step, DesiredStep
<1>2. rows[o].state = "absent" /\ o[1] # desired.generation
  BY <1>1, NumberFacts DEF FutureIsAbsent
<1>3. Moved(o) /\ ~IsCurrent(o)
  BY <1>2, EveryOutboxMoved DEF Step, IsCurrent
<1>4. ~Sending(o) \/ rows'[o].state = "absent"
  BY <1>2 DEF Sending
<1> QED
  BY <1>2, <1>3, <1>4 DEF Moved, Stayed, Withdrawn, Claimed, Reopened, Offered, RowOnly, Concluding

(* What the process holds stays leased, desired and the only one in flight. *)
LEMMA HoldsStep ==
    ASSUME PresenceTypeOK, TargetShapes, WorkerHolds, Step
    PROVE  WorkerHolds'
<1>1. \A o : IsCurrent(o)' <=> o[1] = desired'.generation /\ o[2] \in desired'.authority.kinds
  BY DEF IsCurrent
<1>2. \A o : Submitted(o)' = {r \in Targets : targets'[o][r].state = "submitted"}
  BY DEF Submitted
<1>3. desired' = desired => \A a : Matches(a)' = Matches(a)
  BY DEF Matches
<1>4. CASE proc' = proc /\ desired' = desired
  <2>1. ASSUME proc.pc \in {"recover", "prepare", "submit", "sent"}
        PROVE  Stayed(proc.held)
    <3>1. PICK o \in Outboxes : o = proc.held
      BY <2>1 DEF WorkerHolds
    <3>2. rows[o].state = "leased" /\ Moved(o)
      BY <2>1, <3>1, EveryOutboxMoved DEF WorkerHolds, Step
    <3>3. Stayed(o)
      BY <1>4, <2>1, <3>2 DEF Moved, Withdrawn, Claimed, Reopened, Offered, RowOnly,
                              Concluding, Sending
    <3> QED
      BY <3>1, <3>3
  <2>2. ASSUME NEW o \in Outboxes, Stayed(o)
        PROVE  Submitted(o)' = Submitted(o) /\ rows'[o].state = rows[o].state
    BY <1>2, <2>2 DEF Stayed, Submitted
  <2>3. desired' = desired /\ \A o : IsCurrent(o)' = IsCurrent(o)
    BY <1>4 DEF IsCurrent
  <2>4. CASE proc.pc \in {"recover", "prepare", "submit", "sent"}
    <3>1. PICK o \in Outboxes : o = proc.held
      BY <2>4 DEF WorkerHolds
    <3>2. Submitted(o)' = Submitted(o) /\ rows'[o].state = "leased" /\ rows[o].state = "leased"
      BY <2>1, <2>2, <2>4, <3>1 DEF WorkerHolds
    <3> QED
      BY <1>4, <2>3, <2>4, <3>1, <3>2 DEF WorkerHolds
  <2>5. CASE proc.pc \notin {"recover", "prepare", "submit", "sent"}
    BY <1>3, <1>4, <2>5 DEF WorkerHolds
  <2> QED
    BY <2>4, <2>5
<1>5. CASE Rested
  BY <1>5 DEF Rested, WorkerHolds
<1>6. CASE Starting
  BY <1>3, <1>6 DEF Starting, WorkerHolds
<1>7. CASE Recovering
  <2>1. \A o : IsCurrent(o)' = IsCurrent(o)
    BY <1>7 DEF Recovering, IsCurrent, tables
  <2> QED
    BY <1>7, <2>1 DEF Recovering, WorkerHolds, tables
<1>8. CASE Claiming
  <2>1. PICK o \in Outboxes : o = proc'.held
    BY <1>8 DEF Claiming
  <2>2. /\ rows[o].state = "pending" /\ rows'[o].state = "leased" /\ targets' = targets
        /\ IsCurrent(o) /\ desired' = desired /\ proc'.pc = "prepare"
    BY <1>8, <2>1 DEF Claiming
  <2>3. Submitted(o)' = {}
    BY <1>2, <2>2 DEF TargetShapes
  <2>4. IsCurrent(o)'
    BY <2>2 DEF IsCurrent
  <2> QED
    BY <2>1, <2>2, <2>3, <2>4 DEF WorkerHolds
<1>9. CASE Submitting
  <2>1. PICK o \in Outboxes : o = proc.held
    BY <1>9 DEF Submitting, WorkerHolds
  <2>2. /\ rows'[o].state = "leased" /\ Submitted(o)' = {proc'.target} /\ proc'.held = o
        /\ proc'.pc = "sent" /\ proc'.answer \in AllOutcomes
    BY <1>2, <1>9, <2>1 DEF Submitting, WorkerHolds, Submitted, tables
  <2>3. IsCurrent(o)'
    BY <1>9, <2>1 DEF Submitting, WorkerHolds, IsCurrent, tables
  <2> QED
    BY <2>1, <2>2, <2>3 DEF WorkerHolds
<1>10. CASE Sending(proc.held) /\ desired' = desired
  <2>1. PICK o \in Outboxes : o = proc.held
    BY <1>10 DEF Sending, WorkerHolds
  <2>2. /\ rows[o].state = "leased" /\ IsCurrent(o) /\ Submitted(o) = {}
        /\ proc'.pc = "submit" /\ proc'.held = o /\ proc'.target \in Targets
        /\ rows'[o].state = rows[o].state
    BY <1>10, <2>1 DEF Sending, WorkerHolds
  <2>3. Submitted(o)' = {proc'.target}
    BY <1>2, <1>10, <2>1, <2>2 DEF Sending, Submitted
  <2>4. IsCurrent(o)'
    BY <1>10, <2>2 DEF IsCurrent
  <2> QED
    BY <2>1, <2>2, <2>3, <2>4 DEF WorkerHolds
<1> QED
  BY <1>4, <1>5, <1>6, <1>7, <1>8, <1>9, <1>10 DEF Step, ProcessStep

(* Older work stays settled, and a commit settles it. *)
LEMMA OlderStep ==
    ASSUME PresenceTypeOK, FutureIsAbsent, OlderWorkIsSettled, Step
    PROVE  OlderWorkIsSettled'
<1>1. Rendered' <=> \E p \in Outboxes : p[1] = desired'.generation /\ rows'[p].state # "absent"
  BY DEF Rendered, RowsOf
<1> SUFFICES ASSUME NEW o \in Outboxes, o[1] # desired'.generation, Rendered',
                    o[1] < desired'.generation
             PROVE  rows'[o].state \in {"absent", "complete", "superseded"}
  BY DEF OlderWorkIsSettled, Stale
<1>2. PICK p \in Outboxes : p[1] = desired'.generation /\ rows'[p].state # "absent"
  BY <1>1
<1>3. desired' = desired
  <2>1. CASE desired'.generation = desired.generation + 1 /\ rows' = rows
    <3>1. p[1] > desired.generation
      BY <1>2, <2>1, NumberFacts
    <3> QED
      BY <1>2, <2>1, <3>1 DEF FutureIsAbsent
  <2> QED
    BY <2>1 DEF Step, DesiredStep
<1>4. o \in Stale /\ ~IsCurrent(o)
  BY <1>3 DEF Stale, IsCurrent
<1>5. Moved(o) /\ Moved(p)
  BY EveryOutboxMoved DEF Step
<1>6. CASE rows[p].state = "absent"
  <2>1. Offered(p)
    BY <1>2, <1>5, <1>6 DEF Moved, Stayed, Withdrawn, Claimed, Reopened, RowOnly,
                            Concluding, Sending
  <2>2. rows'[o].state \notin {"pending", "blocked", "leased"}
    BY <1>4, <2>1 DEF Offered
  <2>3. rows'[o].state \in OutboxStates
    BY DEF Step, TablesType, Row
  <2> QED
    BY <2>2, <2>3 DEF OutboxStates
<1>7. CASE rows[p].state # "absent"
  <2>1. Rendered
    BY <1>2, <1>3, <1>7 DEF Rendered, RowsOf
  <2>2. rows[o].state \in {"absent", "complete", "superseded"}
    BY <1>3, <1>4, <2>1 DEF OlderWorkIsSettled
  <2>3. rows'[o].state = rows[o].state
    BY <1>4, <1>5, <2>2 DEF Moved, Stayed, Withdrawn, Claimed, Reopened, RowOnly,
                            Offered, Concluding, Sending
  <2> QED
    BY <2>2, <2>3
<1> QED
  BY <1>6, <1>7

(* Evidence is added for the attempt that is concluded, and for no other. *)
LEMMA EvidenceStep ==
    ASSUME PresenceTypeOK, TargetShapes, EvidenceCounts, Step
    PROVE  EvidenceCounts'
<1> SUFFICES ASSUME NEW o \in Outboxes, NEW r \in Targets
             PROVE  /\ IsFiniteSet(EvidenceOf(o, r)')
                    /\ Cardinality(EvidenceOf(o, r)') = LastConcluded(o, r)'
                    /\ \A a \in EvidenceOf(o, r)' : a.number <= LastConcluded(o, r)'
  BY DEF EvidenceCounts
<1>1. /\ IsFiniteSet(EvidenceOf(o, r))
      /\ Cardinality(EvidenceOf(o, r)) = LastConcluded(o, r)
      /\ \A a \in EvidenceOf(o, r) : a.number <= LastConcluded(o, r)
  BY DEF EvidenceCounts
<1> DEFINE old == targets[o][r]
           new == targets'[o][r]
<1>2. /\ LastConcluded(o, r) = old.count - (IF old.state = "submitted" THEN 1 ELSE 0)
      /\ LastConcluded(o, r)' = new.count - (IF new.state = "submitted" THEN 1 ELSE 0)
  BY DEF LastConcluded, Submitted
<1>3. old.count \in Nat /\ (old.state = "submitted" => old.count >= 1)
  BY NumberFacts DEF TargetShapes
<1>4. ASSUME EvidenceOf(o, r)' = EvidenceOf(o, r), LastConcluded(o, r)' = LastConcluded(o, r)
      PROVE  /\ IsFiniteSet(EvidenceOf(o, r)')
             /\ Cardinality(EvidenceOf(o, r)') = LastConcluded(o, r)'
             /\ \A a \in EvidenceOf(o, r)' : a.number <= LastConcluded(o, r)'
  BY <1>1, <1>4
<1>5. Moved(o)
  BY EveryOutboxMoved DEF Step
<1>6. CASE Stayed(o) \/ Withdrawn(o) \/ Claimed(o) \/ Reopened(o)
  <2>1. /\ EvidenceOf(o, r)' = EvidenceOf(o, r)
        /\ new.count = old.count /\ new.state = old.state
    BY <1>6 DEF Stayed, Withdrawn, Claimed, Reopened, RowOnly
  <2> QED
    BY <1>2, <1>4, <2>1
<1>7. CASE Offered(o)
  <2>1. old.state = "pending" /\ old.count = 0
    BY <1>7 DEF Offered, TargetShapes
  <2>2. /\ new.state = "pending" /\ new.count = 0
        /\ EvidenceOf(o, r)' = EvidenceOf(o, r)
    BY <1>7 DEF Offered
  <2> QED
    BY <1>2, <1>4, <2>1, <2>2
<1>8. CASE Sending(o)
  <2>1. EvidenceOf(o, r)' = EvidenceOf(o, r)
    BY <1>8 DEF Sending
  <2>2. CASE r = proc'.target
    <3>1. new.state = "submitted" /\ new.count = old.count + 1 /\ old.state # "submitted"
      BY <1>8, <2>2 DEF Sending, TargetIsDue, RetryableState
    <3>2. LastConcluded(o, r)' = LastConcluded(o, r)
      BY <1>2, <1>3, <3>1
    <3> QED
      BY <1>4, <2>1, <3>2
  <2>3. CASE r # proc'.target
    <3>1. new = old
      BY <1>8, <2>3 DEF Sending
    <3>2. LastConcluded(o, r)' = LastConcluded(o, r)
      BY <1>2, <3>1
    <3> QED
      BY <1>4, <2>1, <3>2
  <2> QED
    BY <2>2, <2>3
<1>9. CASE Concluding(o)
  <2>1. CASE r \notin Submitted(o)
    <3>1. new = old /\ EvidenceOf(o, r)' = EvidenceOf(o, r)
      BY <1>9, <2>1 DEF Concluding
    <3>2. LastConcluded(o, r)' = LastConcluded(o, r)
      BY <1>2, <3>1
    <3> QED
      BY <1>4, <3>1, <3>2
  <2>2. CASE r \in Submitted(o)
    <3>1. Answers(o, r)
      BY <1>9, <2>2 DEF Concluding
    <3>2. PICK x : x.number = old.count /\ EvidenceOf(o, r)' = EvidenceOf(o, r) \cup {x}
      BY <3>1 DEF Answers
    <3>3. old.state = "submitted" /\ new.count = old.count /\ new.state # "submitted"
      BY <2>2, <3>1 DEF Submitted, Answers, AllOutcomes
    <3>4. LastConcluded(o, r) = old.count - 1 /\ LastConcluded(o, r)' = old.count
      BY <1>2, <1>3, <3>3
    <3>5. x \notin EvidenceOf(o, r)
      BY <1>1, <1>3, <3>2, <3>4
    <3> DEFINE E == EvidenceOf(o, r)
    <3>6. IsFiniteSet(E \cup {x}) /\ Cardinality(E \cup {x}) = Cardinality(E) + 1
      <4>1. IsFiniteSet(E) /\ x \notin E
        BY <1>1, <3>5
      <4> HIDE DEF E
      <4> QED
        BY <4>1, FS_AddElement
    <3>7. \A a \in E : a.number <= old.count
      <4>1. \A a \in E : a.number \in Nat
        BY DEF EvidenceOf, PresenceTypeOK, Attempt
      <4> QED
        BY <1>1, <1>3, <3>4, <4>1
    <3> QED
      BY <1>1, <1>3, <3>2, <3>4, <3>6, <3>7
  <2> QED
    BY <2>1, <2>2
<1> QED
  BY <1>5, <1>6, <1>7, <1>8, <1>9 DEF Moved

-----------------------------------------------------------------------------
(* The theorems *)

PresenceIInv ==
    /\ PresenceTypeOK /\ TargetShapes /\ FutureIsAbsent /\ WorkerHolds
    /\ EvidenceCounts /\ OlderWorkIsSettled

(* An empty database has the shapes and no evidence. *)
LEMMA PresenceInitially ==
    ASSUME Init
    PROVE  PresenceIInv
<1>1. /\ \A o \in Outboxes : rows[o] = NoRow
      /\ \A o \in Outboxes, r \in Targets : targets[o][r] = NoTarget
  BY DEF Init
<1>2. NoRow \in Row /\ RowShape(NoRow) /\ NoRow.state = "absent"
  BY DEF NoRow, Row, RowShape, OutboxStates
<1>3. /\ NoTarget \in Target /\ NoTarget.state = "pending" /\ NoTarget.count = 0
      /\ NoTarget.next = Null
  BY ConstantFacts DEF NoTarget, Target, TargetStates
<1>4. PICK a \in Authorities : proc = At("down", a)
  BY DEF Init
<1>5. proc \in Process /\ proc.pc = "down"
  BY <1>4, AtFacts
<1>6. TablesType
  <2>1. desired \in Desired
    BY ConstantFacts DEF Init, Desired
  <2>2. rows \in [Outboxes -> Row] /\ targets \in [Outboxes -> [Targets -> Target]]
    BY <1>2, <1>3 DEF Init
  <2> QED
    BY <1>1, <1>2, <2>1, <2>2 DEF Init, TablesType
<1>7. PresenceTypeOK
  BY <1>5, <1>6, TypeParts
<1>8. TargetShapes
  BY <1>1, <1>2, <1>3 DEF TargetShapes
<1>9. FutureIsAbsent /\ OlderWorkIsSettled
  BY <1>1, <1>2 DEF FutureIsAbsent, OlderWorkIsSettled, Stale
<1>10. WorkerHolds
  BY <1>5 DEF WorkerHolds
<1>11. EvidenceCounts
  <2>1. ASSUME NEW o \in Outboxes, NEW r \in Targets
        PROVE  EvidenceOf(o, r) = {} /\ LastConcluded(o, r) = 0
    BY <1>1, <1>3 DEF Init, EvidenceOf, LastConcluded, Submitted
  <2> QED
    BY <2>1, FS_EmptySet DEF EvidenceCounts
<1> QED
  BY <1>7, <1>8, <1>9, <1>10, <1>11 DEF PresenceIInv

(* The inductive invariant holds: the type of the next state comes from the *)
(* shapes of this one, and the rest from how each outbox moved.             *)
LEMMA PresenceInductive == Spec => []PresenceIInv
<1>1. PresenceIInv /\ [Next]_vars => PresenceIInv'
  <2> SUFFICES ASSUME PresenceIInv, [Next]_vars
               PROVE  PresenceIInv'
    OBVIOUS
  <2>1. /\ PresenceTypeOK /\ TargetShapes /\ FutureIsAbsent /\ WorkerHolds
        /\ EvidenceCounts /\ OlderWorkIsSettled
    BY DEF PresenceIInv
  <2>2. Step
    BY <2>1, Steps
  <2>3. PresenceTypeOK'
    BY <2>2, NextTypeParts DEF Step
  <2> QED
    BY <2>1, <2>2, <2>3, ShapesStep, FutureStep, HoldsStep, OlderStep, EvidenceStep
       DEF PresenceIInv
<1> QED
  BY <1>1, PresenceInitially, PTL DEF Spec

(* Types, evidence and supersession hold together whatever crashes, late    *)
(* answers, refusals and changes of configuration do: every concluded       *)
(* attempt has its one row, and a rendered generation leaves no older work. *)
THEOREM PresenceInvHolds == Spec => []PresenceInv
<1>1. PresenceIInv => PresenceInv
  <2> SUFFICES ASSUME PresenceIInv
               PROVE  PresenceEvidenceIsGapless
    BY DEF PresenceIInv, PresenceInv
  <2> SUFFICES ASSUME NEW o \in Outboxes, NEW r \in Targets
               PROVE  /\ r \in Submitted(o) => rows[o].state = "leased"
                      /\ Cardinality(EvidenceOf(o, r)) = LastConcluded(o, r)
                      /\ \A a \in EvidenceOf(o, r) : a.number <= targets[o][r].count
    BY DEF PresenceEvidenceIsGapless, EvidenceOf, LastConcluded
  <2>1. PresenceTypeOK /\ TargetShapes /\ EvidenceCounts
    BY DEF PresenceIInv
  <2>2. targets[o][r].count \in Nat
    BY <2>1, NumberFacts
  <2>3. \A a \in EvidenceOf(o, r) : a.number \in Nat
    BY <2>1 DEF EvidenceOf, PresenceTypeOK, Attempt
  <2> QED
    BY <2>1, <2>2, <2>3 DEF TargetShapes, EvidenceCounts, Submitted, LastConcluded
<1> QED
  BY <1>1, PresenceInductive, PTL

(* Nothing but documents of the desired generation goes out, through every *)
(* restart, interrupted start and recovery.                                *)
THEOREM OnlyDesiredGoesOutHolds == Spec => []OnlyDesiredGoesOut
<1>1. PresenceIInv => OnlyDesiredGoesOut
  BY DEF PresenceIInv, WorkerHolds, OnlyDesiredGoesOut
<1> QED
  BY <1>1, PresenceInductive, PTL

-----------------------------------------------------------------------------
(* The promise *)

(* The refinement mapping, before and after a step. *)
LEMMA MappingFacts ==
    ASSUME NEW o \in Outboxes
    PROVE  /\ PhaseOf(o) = IF rows[o].state \in {"pending", "leased"} THEN "open"
                           ELSE IF rows[o].state = "superseded" THEN "withdrawn"
                           ELSE rows[o].state
           /\ PhaseOf(o)' = IF rows'[o].state \in {"pending", "leased"} THEN "open"
                            ELSE IF rows'[o].state = "superseded" THEN "withdrawn"
                            ELSE rows'[o].state
           /\ AcceptedBy(o)' = {r \in Targets : targets'[o][r].state = "accepted"}
BY DEF PhaseOf, AcceptedBy

(* What the promise sees of a move. *)
Same(o) == PhaseOf(o)' = PhaseOf(o) /\ AcceptedBy(o)' = AcceptedBy(o)
Seen(o, from, to) ==
    PhaseOf(o) \in from /\ PhaseOf(o)' = to /\ AcceptedBy(o)' = AcceptedBy(o)

(* Leases and submissions are not seen; the other moves are what they say. *)
LEMMA MappedMoves ==
    ASSUME PresenceTypeOK, TargetShapes, NEW o \in Outboxes
    PROVE  /\ Stayed(o) \/ Claimed(o) \/ Sending(o) => Same(o)
           /\ Withdrawn(o) => Seen(o, {"open", "blocked"}, "withdrawn")
           /\ Offered(o) => Seen(o, {"absent"}, "open")
           /\ Reopened(o) => Seen(o, {"blocked"}, "open")
           /\ Concluding(o) /\ ~IsCurrent(o) => Seen(o, {"open", "blocked"}, "withdrawn")
<1> USE MappingFacts
<1>1. ASSUME Stayed(o) \/ Claimed(o)
      PROVE  Same(o)
  BY <1>1 DEF Same, AcceptedBy, Stayed, Claimed, RowOnly
<1>2. ASSUME Sending(o)
      PROVE  Same(o)
  <2>1. /\ targets[o][proc'.target].state # "accepted"
        /\ targets'[o][proc'.target].state # "accepted"
        /\ \A q \in Targets : q # proc'.target => targets'[o][q] = targets[o][q]
    BY <1>2 DEF Sending, TargetIsDue, RetryableState
  <2>2. AcceptedBy(o)' = AcceptedBy(o)
    BY <2>1 DEF AcceptedBy
  <2> QED
    BY <1>2, <2>2 DEF Same, Sending
<1>3. ASSUME Withdrawn(o)
      PROVE  Seen(o, {"open", "blocked"}, "withdrawn")
  BY <1>3 DEF Seen, AcceptedBy, Withdrawn, RowOnly
<1>4. ASSUME Offered(o)
      PROVE  Seen(o, {"absent"}, "open")
  <2>1. \A r \in Targets : targets[o][r].state # "accepted" /\ targets'[o][r].state # "accepted"
    BY <1>4 DEF Offered, TargetShapes
  <2> QED
    BY <1>4, <2>1 DEF Seen, AcceptedBy, Offered
<1>5. ASSUME Reopened(o)
      PROVE  Seen(o, {"blocked"}, "open")
  BY <1>5 DEF Seen, AcceptedBy, Reopened, RowOnly
<1>6. ASSUME Concluding(o), ~IsCurrent(o)
      PROVE  Seen(o, {"open", "blocked"}, "withdrawn")
  <2>1. \A r \in Targets :
          targets'[o][r].state = "accepted" <=> targets[o][r].state = "accepted"
    BY <1>6 DEF Concluding, Submitted
  <2> QED
    BY <1>6, <2>1 DEF Seen, AcceptedBy, Concluding
<1> QED
  BY <1>1, <1>2, <1>3, <1>4, <1>5, <1>6

(* The end of an attempt is an offer to at most one target. *)
LEMMA MappedOffer ==
    ASSUME NEW o \in Outboxes, Concluding(o), IsCurrent(o)
    PROVE  /\ PhaseOf(o) = "open" /\ PhaseOf(o)' \in {"open", "blocked", "complete"}
           /\ PhaseOf(o)' = "complete" <=> Required \subseteq AcceptedBy(o)'
           /\ \E ts \in {{}} \cup {{t} : t \in Targets} :
                AcceptedBy(o)' = AcceptedBy(o) \cup ts
<1>1. PhaseOf(o) = "open" /\ PhaseOf(o)' \in {"open", "blocked", "complete"}
  BY MappingFacts DEF Concluding
<1>2. PhaseOf(o)' = "complete" <=> Required \subseteq AcceptedBy(o)'
  BY MappingFacts, ConstantFacts DEF Concluding
<1>3. PICK s \in Targets : \A r \in Submitted(o) \ {s} : targets'[o][r].state # "accepted"
  BY DEF Concluding
<1>4. AcceptedBy(o) \subseteq AcceptedBy(o)'
  BY MappingFacts DEF Concluding, Submitted, AcceptedBy
<1>5. AcceptedBy(o)' \subseteq AcceptedBy(o) \cup {s}
  BY <1>3, MappingFacts DEF Concluding, AcceptedBy
<1>6. AcceptedBy(o)' = AcceptedBy(o) \cup {} \/ AcceptedBy(o)' = AcceptedBy(o) \cup {s}
  BY <1>4, <1>5
<1> QED
  BY <1>1, <1>2, <1>6

(* The presence outbox implements WithdrawablePromise: an item completes with *)
(* the answer that makes its last required relay accept, is withdrawn only by *)
(* a change of the desired presence and then left alone, and the leases,      *)
(* crashes, late answers and clock between are invisible.                     *)
THEOREM PresencePromiseKept == Spec => KeepsPresencePromise
<1> DEFINE phase == [o \in Outboxes |-> PhaseOf(o)]
           accepted == [o \in Outboxes |-> AcceptedBy(o)]
<1>1. Init => Promise!PromiseInit
  <2> SUFFICES ASSUME Init
               PROVE  Promise!PromiseInit
    OBVIOUS
  <2>1. /\ \A o \in Outboxes : rows[o].state = "absent"
        /\ \A o \in Outboxes, r \in Targets : targets[o][r].state = "pending"
    BY DEF Init, NoRow, NoTarget
  <2>2. \A o \in Outboxes : PhaseOf(o) = "absent" /\ AcceptedBy(o) = {}
    BY <2>1, MappingFacts DEF AcceptedBy
  <2> QED
    BY <2>2 DEF Promise!PromiseInit
<1>2. PresenceIInv /\ [Next]_vars => [Promise!WithdrawableNext]_(Promise!promiseVars)
  <2> SUFFICES ASSUME PresenceTypeOK, TargetShapes, TablesStep
               PROVE  [Promise!WithdrawableNext]_(Promise!promiseVars)
    BY Steps DEF PresenceIInv, Step
  <2>1. /\ Promise!promiseVars = <<phase, accepted>>
        /\ (Promise!promiseVars)' = <<phase', accepted'>>
    BY DEF Promise!promiseVars
  <2>2. ASSUME \A o \in Outboxes : Same(o)
        PROVE  phase' = phase /\ accepted' = accepted
    BY <2>2 DEF Same
  <2>3. CASE \A o \in Outboxes : Stayed(o) \/ Claimed(o) \/ Sending(o)
    BY <2>1, <2>2, <2>3, MappedMoves
  <2>4. ASSUME NEW items \in SUBSET Outboxes, NEW fresh \in SUBSET Outboxes,
               \A o \in items : Seen(o, {"open", "blocked"}, "withdrawn"),
               \A o \in fresh : Seen(o, {"absent"}, "open"),
               \A o \in Outboxes : o \notin items \cup fresh => Same(o)
        PROVE  Promise!Withdraw(items)
    <3>1. accepted' = accepted
      BY <2>4 DEF Seen, Same
    <3>2. fresh \in SUBSET {i \in Outboxes : phase[i] = "absent"}
      BY <2>4 DEF Seen
    <3>3. \A i \in items : phase[i] \in {"open", "blocked"}
      BY <2>4 DEF Seen
    <3>4. phase' = [i \in Outboxes |-> IF i \in items THEN "withdrawn"
                                       ELSE IF i \in fresh THEN "open" ELSE phase[i]]
      BY <2>4 DEF Seen, Same
    <3> QED
      BY <3>1, <3>2, <3>3, <3>4 DEF Promise!Withdraw
  <2>5. CASE \A o \in Outboxes : Stayed(o) \/ Withdrawn(o) \/ Offered(o)
    <3> DEFINE items == {o \in Outboxes : Withdrawn(o)}
               fresh == {o \in Outboxes : Offered(o)}
    <3>1. /\ items \in SUBSET Outboxes /\ fresh \in SUBSET Outboxes
          /\ \A o \in items : Seen(o, {"open", "blocked"}, "withdrawn")
          /\ \A o \in fresh : Seen(o, {"absent"}, "open")
          /\ \A o \in Outboxes : o \notin items \cup fresh => Same(o)
      BY <2>5, MappedMoves
    <3> HIDE DEF items, fresh
    <3>2. Promise!Withdraw(items)
      BY <2>4, <3>1
    <3> QED
      BY <3>1, <3>2 DEF Promise!WithdrawableNext
  <2>6. CASE \A o \in Outboxes : Stayed(o) \/ Reopened(o)
    <3> DEFINE items == {o \in Outboxes : Reopened(o)}
    <3>1. /\ \A o \in items : Seen(o, {"blocked"}, "open")
          /\ \A o \in Outboxes : o \notin items => Same(o)
      BY <2>6, MappedMoves
    <3> HIDE DEF items
    <3>2. items \in SUBSET Outboxes
      BY DEF items
    <3>3. accepted' = accepted
      BY <3>1, <3>2 DEF Seen, Same
    <3>4. \A i \in items : phase[i] = "blocked"
      BY <3>1, <3>2 DEF Seen
    <3>5. phase' = [i \in Outboxes |-> IF i \in items THEN "open" ELSE phase[i]]
      BY <3>1, <3>2 DEF Seen, Same
    <3>6. Promise!ReopenAll(items)
      BY <3>3, <3>4, <3>5 DEF Promise!ReopenAll
    <3> QED
      BY <3>2, <3>6 DEF Promise!WithdrawableNext
  <2>7. ASSUME NEW o \in Outboxes, Concluding(o), \A p \in Outboxes : p # o => Stayed(p)
        PROVE  Promise!WithdrawableNext
    <3>1. \A p \in Outboxes : p # o => Same(p)
      BY <2>7, MappedMoves
    <3>2. CASE ~IsCurrent(o)
      <4>1. Seen(o, {"open", "blocked"}, "withdrawn")
        BY <2>7, <3>2, MappedMoves
      <4>2. Promise!Withdraw({o})
        <5> DEFINE items == {o}
                   fresh == {}
        <5>1. /\ items \in SUBSET Outboxes /\ fresh \in SUBSET Outboxes
              /\ \A p \in items : Seen(p, {"open", "blocked"}, "withdrawn")
              /\ \A p \in fresh : Seen(p, {"absent"}, "open")
              /\ \A p \in Outboxes : p \notin items \cup fresh => Same(p)
          BY <3>1, <4>1
        <5> HIDE DEF items, fresh
        <5>2. Promise!Withdraw(items)
          BY <2>4, <5>1
        <5> QED
          BY <5>2 DEF items
      <4> QED
        BY <4>2 DEF Promise!WithdrawableNext
    <3>3. CASE IsCurrent(o)
      <4>1. /\ phase[o] = PhaseOf(o) /\ accepted[o] = AcceptedBy(o)
            /\ accepted'[o] = AcceptedBy(o)'
            /\ phase' = [phase EXCEPT ![o] = PhaseOf(o)']
            /\ accepted' = [accepted EXCEPT ![o] = AcceptedBy(o)']
        BY <3>1 DEF Same
      <4>2. Promise!Offer(o)
        BY <2>7, <3>3, <4>1, MappedOffer DEF Promise!Offer
      <4> QED
        BY <4>2 DEF Promise!WithdrawableNext
    <3> QED
      BY <3>2, <3>3
  <2> QED
    BY <2>3, <2>5, <2>6, <2>7 DEF TablesStep
<1> QED
  BY <1>1, <1>2, PresenceInductive, PTL DEF Spec, KeepsPresencePromise, Promise!WithdrawableSpec
=============================================================================
