-------------------------- MODULE PublicationOutbox --------------------------
(***************************************************************************)
(* The durable publication outbox of src/src/publication_execution.rs, the *)
(* worker loop of runtime_graph.rs over it and the operator's              *)
(* publication.retry of runtime_admin.rs.                                  *)
(*                                                                         *)
(* execute_next_publication is four transactions and one relay round trip: *)
(* read an expired lease, recover it, claim, prepare, submit, record.      *)
(* Each transaction is one action; what the worker carries from one to the *)
(* next (its clock reading, the row it leased, the target it prepared, the *)
(* relay's answer) is in wrk and may be stale when used.  The wall clock   *)
(* is any reading: it may stand still, jump or step back.  Any error ends  *)
(* the critical task and with it the daemon: pc "failed".                  *)
(*                                                                         *)
(* A definition named for a fault stands before the one it would break;    *)
(* no action uses it.                                                      *)
(***************************************************************************)
EXTENDS Integers, FiniteSets

CONSTANTS
    Outboxes,      \* outbox identifiers, one per signed report
    TargetCount,   \* write relays of the publication authority
    Required,      \* ordinals of the required ones
    MaxAttempts,   \* publication.retry.max_attempts
    InitialBackoff, MaximumBackoff,   \* publication.retry, full jitter
    AttemptDeadline,                  \* attempt_deadline_ms: also the lease
    MaxTime,       \* MAX_UNIX_MILLISECONDS
    MaxRevision,   \* bound: rows past it are not claimed
    MaxRetries,    \* bound: operator retries
    Workers,       \* publication workers
    Owners, NoOwner,   \* lease owners: 16 random bytes per worker start
    Authorities,   \* digests of the publication authorities configured over time
    Outcomes       \* what the relay sink may answer

Targets == 0 .. TargetCount - 1
Times == 0 .. MaxTime
Null == -1                           \* SQL NULL in a timestamp column
None == "none"                       \* a worker that holds nothing

OutboxStates == {"absent", "pending", "leased", "complete", "blocked"}
TargetStates == {"pending", "submitted", "accepted", "rejected", "rate_limited",
                 "auth_required", "failed", "unknown"}
AllOutcomes == TargetStates \ {"pending", "submitted"}

ASSUME AuthorityAssumption ==
    /\ TargetCount \in Nat \ {0} /\ Required \subseteq Targets
    /\ MaxAttempts \in Nat \ {0}
    /\ InitialBackoff \in Nat \ {0} /\ MaximumBackoff \in Nat
    /\ InitialBackoff <= MaximumBackoff
    /\ AttemptDeadline \in Nat \ {0}
ASSUME OutboxBounds == MaxTime \in Nat /\ MaxRevision \in Nat /\ MaxRetries \in Nat
ASSUME OutboxNames ==
    /\ NoOwner \notin Owners /\ None \notin Outboxes
    /\ Authorities # {} /\ Owners # {}
    /\ Outcomes \subseteq AllOutcomes

(* One row of publication_outbox and one of publication_targets. *)
Row == [state : OutboxStates, revision : Nat, next : Times \cup {Null},
        owner : Owners \cup {NoOwner}, expires : Times \cup {Null},
        created : Times, updated : Times, authority : Authorities]
Target == [state : TargetStates, revision : Nat, count : Nat,
           next : Times \cup {Null}, updated : Times]

(* One row of publication_attempts; attempt_id hashes its first three fields. *)
Attempt == [outbox : Outboxes, target : Targets, number : Nat, owner : Owners,
            started : Times, finished : Times, outcome : AllOutcomes]

NoRow == [state |-> "absent", revision |-> 0, next |-> Null, owner |-> NoOwner,
          expires |-> Null, created |-> 0, updated |-> 0,
          authority |-> CHOOSE a \in Authorities : TRUE]
NoTarget == [state |-> "pending", revision |-> 0, count |-> 0, next |-> Null,
             updated |-> 0]

VARIABLES
    rows,      \* publication_outbox
    targets,   \* publication_targets
    attempts,  \* publication_attempts
    wrk,       \* spawn_publication_worker and execute_next_publication
    relay,     \* <<outbox, target>>: the relay holds the event (external)
    sent,      \* <<outbox, target, number>>: attempts that went out (history)
    retries    \* operator retries so far (bound)

tables == <<rows, targets, attempts>>
vars == <<tables, wrk, relay, sent, retries>>

(* held and row are the recovery candidate or the lease: an outbox and its row *)
(* as read; delay is the recovery's jitter, entry the prepared target's row,   *)
(* answer what the relay said.                                                 *)
Worker == [pc : {"idle", "recover", "claim", "prepare", "submit", "record",
                 "failed", "crashed"},
           owner : Owners, authority : Authorities, now : Times,
           held : Outboxes \cup {None}, row : Row, delay : Nat,
           target : Targets, entry : Target, answer : AllOutcomes \cup {None}]

Resting(pc, owner, authority) ==
    [pc |-> pc, owner |-> owner, authority |-> authority, now |-> 0, held |-> None,
     row |-> NoRow, delay |-> 0, target |-> 0, entry |-> NoTarget, answer |-> None]

Idle(w) == Resting("idle", wrk[w].owner, wrk[w].authority)
Failed(w) == Resting("failed", wrk[w].owner, wrk[w].authority)

Init ==
    /\ rows = [o \in Outboxes |-> NoRow]
    /\ targets = [o \in Outboxes |-> [t \in Targets |-> NoTarget]]
    /\ attempts = {}
    /\ relay = {} /\ sent = {} /\ retries = 0
    /\ wrk \in [Workers -> {Resting("crashed", o, a) : o \in Owners, a \in Authorities}]

-----------------------------------------------------------------------------
(* Schedules and dispositions *)

RetryableState(e) == e.state \in {"pending", "failed", "rate_limited", "unknown"}
RetryableOutcome(outcome) == outcome \in {"failed", "rate_limited", "unknown"}

(* initial * 2^(number - 1), capped *)
RetryUpperBound(number) ==
    LET raw == InitialBackoff * 2^(number - 1)
    IN  IF raw <= MaximumBackoff THEN raw ELSE MaximumBackoff

TargetIsDue(e, t) ==
    RetryableState(e) /\ e.count < MaxAttempts /\ e.next # Null /\ e.next <= t

TargetIsBlocking(e) ==
    \/ e.state \in {"rejected", "auth_required"}
    \/ RetryableState(e) /\ e.count >= MaxAttempts /\ e.next = Null

(* target_outcome_schedule: what it refuses, and what it computes *)
Schedulable(number, outcome, t, delay) ==
    IF RetryableOutcome(outcome) /\ number < MaxAttempts
    THEN delay <= RetryUpperBound(number) /\ t + delay <= MaxTime
    ELSE delay = 0

UnboundedSchedule(number, outcome, t, delay) ==
    IF RetryableOutcome(outcome) THEN t + delay ELSE Null

NextAttempt(number, outcome, t, delay) ==
    IF RetryableOutcome(outcome) /\ number < MaxAttempts THEN t + delay ELSE Null

(* execute_next samples full jitter for every retryable answer *)
SampledDelays(number, outcome) ==
    IF RetryableOutcome(outcome) THEN 0 .. RetryUpperBound(number) ELSE {0}

Schedules(ts) == {ts[r].next : r \in Required} \ {Null}

AnyRequired(ts) == \E r \in Required : ts[r].state = "accepted"
AllRequired(ts) == \A r \in Required : ts[r].state = "accepted"

Disposition(ts) ==
    IF AllRequired(ts) THEN [state |-> "complete", next |-> Null]
    ELSE IF \E r \in Required : TargetIsBlocking(ts[r])
         THEN [state |-> "blocked", next |-> Null]
         ELSE [state |-> "pending",
               next |-> CHOOSE t \in Schedules(ts) : \A u \in Schedules(ts) : t <= u]

(* min().ok_or(Invariant) *)
HasDisposition(ts) ==
    \/ AllRequired(ts)
    \/ \E r \in Required : TargetIsBlocking(ts[r])
    \/ Schedules(ts) # {}

(* The row after an attempt or a recovery: disposition and lease release *)
LeaseKept(row, d, t) ==
    [row EXCEPT !.state = d.state, !.revision = @ + 1, !.next = d.next, !.updated = t]

ReleasedRow(row, d, t) ==
    [row EXCEPT !.state = d.state, !.revision = @ + 1, !.next = d.next,
                !.owner = NoOwner, !.expires = Null, !.updated = t]

(* UPDATE_TARGET_OUTCOME_SQL *)
ConcludedTarget(e, outcome, next, t) ==
    [e EXCEPT !.state = outcome, !.revision = @ + 1, !.next = next, !.updated = t]

-----------------------------------------------------------------------------
(* The report's finalization commits the outbox with all its targets.  The  *)
(* transaction itself is ReconciliationPipeline's WrkFinalize.              *)
InsertedRow(t, a) ==
    [state |-> "pending", revision |-> 1, next |-> t, owner |-> NoOwner,
     expires |-> Null, created |-> t, updated |-> t, authority |-> a]
InsertedTarget(t) ==
    [state |-> "pending", revision |-> 1, count |-> 0, next |-> t, updated |-> t]

Insert(o, t, a) ==
    /\ rows[o].state = "absent"
    /\ rows' = [rows EXCEPT ![o] = InsertedRow(t, a)]
    /\ targets' = [targets EXCEPT ![o] = [r \in Targets |-> InsertedTarget(t)]]
    /\ UNCHANGED <<attempts, wrk, relay, sent, retries>>

-----------------------------------------------------------------------------
(* recover_one_expired_publication, first transaction *)

Expired(t) == {o \in Outboxes : rows[o].state = "leased" /\ rows[o].expires <= t}

(* ORDER BY lease_expires, created_at, outbox_id; identifiers are hashes, so *)
(* either of two equals may come first                                       *)
ExpiresBefore(o, p) ==
    \/ rows[o].expires < rows[p].expires
    \/ rows[o].expires = rows[p].expires /\ rows[o].created <= rows[p].created
OldestExpired(t) == {o \in Expired(t) : \A p \in Expired(t) : ExpiresBefore(o, p)}

Submitted(o) == {r \in Targets : targets[o][r].state = "submitted"}

(* The cap of the recovery's delay: 0 with nothing in flight or no try left *)
RecoveryCap(o) ==
    LET open == {r \in Submitted(o) : targets[o][r].count < MaxAttempts}
    IN  IF open = {} THEN 0 ELSE RetryUpperBound(targets[o][CHOOSE r \in open : TRUE].count)

BeginNothingExpired(w, t) ==
    /\ wrk[w].pc = "idle"
    /\ Expired(t) = {}
    /\ wrk' = [wrk EXCEPT ![w].pc = "claim", ![w].now = t]
    /\ UNCHANGED <<tables, relay, sent, retries>>

BeginRecovery(w, t, o) ==
    /\ wrk[w].pc = "idle"
    /\ o \in OldestExpired(t)
    /\ rows[o].authority = wrk[w].authority
    /\ Cardinality(Submitted(o)) <= 1
    /\ \E delay \in 0 .. RecoveryCap(o) :
         wrk' = [wrk EXCEPT ![w].pc = "recover", ![w].now = t, ![w].held = o,
                            ![w].row = rows[o], ![w].delay = delay]
    /\ UNCHANGED <<tables, relay, sent, retries>>

BeginRefused(w, t, o) ==
    /\ wrk[w].pc = "idle"
    /\ o \in OldestExpired(t)
    /\ rows[o].authority # wrk[w].authority \/ Cardinality(Submitted(o)) > 1
    /\ wrk' = [wrk EXCEPT ![w] = Failed(w)]
    /\ UNCHANGED <<tables, relay, sent, retries>>

(* recover_one_expired_publication, second transaction *)

NumberedAhead(o, r, owner, t, outcome) ==
    [outbox |-> o, target |-> r, number |-> targets[o][r].count + 1, owner |-> owner,
     started |-> targets[o][r].updated, finished |-> t, outcome |-> outcome]

AttemptRow(o, r, owner, t, outcome) ==
    [outbox |-> o, target |-> r, number |-> targets[o][r].count, owner |-> owner,
     started |-> targets[o][r].updated, finished |-> t, outcome |-> outcome]

Recorded(o, r, number) ==
    \E a \in attempts : a.outbox = o /\ a.target = r /\ a.number = number

RecoveredTargets(o, t, delay) ==
    [r \in Targets |->
       IF r \in Submitted(o)
       THEN ConcludedTarget(targets[o][r], "unknown",
              NextAttempt(targets[o][r].count, "unknown", t, delay), t)
       ELSE targets[o][r]]

Recoverable(w) ==
    LET o == wrk[w].held  t == wrk[w].now  delay == wrk[w].delay
    IN  /\ rows[o] = wrk[w].row
        /\ rows[o].state = "leased" /\ rows[o].expires <= t
        /\ rows[o].updated <= t
        /\ \A r \in Submitted(o) :
             /\ targets[o][r].updated <= t
             /\ ~Recorded(o, r, targets[o][r].count)
             /\ Schedulable(targets[o][r].count, "unknown", t, delay)
        /\ HasDisposition(RecoveredTargets(o, t, delay))

Recover(w) ==
    LET o == wrk[w].held  t == wrk[w].now
        ts == RecoveredTargets(o, t, wrk[w].delay)
    IN  /\ wrk[w].pc = "recover"
        /\ Recoverable(w)
        /\ attempts' = attempts \cup
             {AttemptRow(o, r, rows[o].owner, t, "unknown") : r \in Submitted(o)}
        /\ targets' = [targets EXCEPT ![o] = ts]
        /\ rows' = [rows EXCEPT ![o] = ReleasedRow(@, Disposition(ts), t)]
        /\ wrk' = [wrk EXCEPT ![w] = [Idle(w) EXCEPT !.pc = "claim", !.now = t]]
        /\ UNCHANGED <<relay, sent, retries>>

RecoverRefused(w) ==
    /\ wrk[w].pc = "recover"
    /\ ~Recoverable(w)
    /\ wrk' = [wrk EXCEPT ![w] = Failed(w)]
    /\ UNCHANGED <<tables, relay, sent, retries>>

-----------------------------------------------------------------------------
(* claim_next_publication *)

DueOutboxes(t) == {o \in Outboxes : rows[o].state = "pending" /\ rows[o].next <= t}
DueBefore(o, p) ==
    \/ rows[o].next < rows[p].next
    \/ rows[o].next = rows[p].next /\ rows[o].created <= rows[p].created
NextDue(t) == {o \in DueOutboxes(t) : \A p \in DueOutboxes(t) : DueBefore(o, p)}

ClockUnchecked(w, o) ==
    /\ rows[o].authority = wrk[w].authority
    /\ wrk[w].now + AttemptDeadline <= MaxTime

AuthorityUnchecked(w, o) ==
    /\ wrk[w].now + AttemptDeadline <= MaxTime
    /\ rows[o].updated <= wrk[w].now

ClaimAdmissible(w, o) ==
    /\ rows[o].authority = wrk[w].authority
    /\ wrk[w].now + AttemptDeadline <= MaxTime
    /\ rows[o].updated <= wrk[w].now

ClaimedRow(row, owner, t) ==
    [row EXCEPT !.state = "leased", !.revision = @ + 1, !.next = Null,
                !.owner = owner, !.expires = t + AttemptDeadline, !.updated = t]

Claim(w, o) ==
    /\ wrk[w].pc = "claim"
    /\ o \in NextDue(wrk[w].now)
    /\ ClaimAdmissible(w, o)
    /\ rows[o].revision < MaxRevision
    /\ rows' = [rows EXCEPT ![o] = ClaimedRow(@, wrk[w].owner, wrk[w].now)]
    /\ wrk' = [wrk EXCEPT ![w].pc = "prepare", ![w].held = o, ![w].row = rows'[o]]
    /\ UNCHANGED <<targets, attempts, relay, sent, retries>>

ClaimNothing(w) ==
    /\ wrk[w].pc = "claim"
    /\ DueOutboxes(wrk[w].now) = {}
    /\ wrk' = [wrk EXCEPT ![w] = Idle(w)]
    /\ UNCHANGED <<tables, relay, sent, retries>>

ClaimRefused(w, o) ==
    /\ wrk[w].pc = "claim"
    /\ o \in NextDue(wrk[w].now)
    /\ ~ClaimAdmissible(w, o)
    /\ wrk' = [wrk EXCEPT ![w] = Failed(w)]
    /\ UNCHANGED <<tables, relay, sent, retries>>

-----------------------------------------------------------------------------
(* prepare_next_publication_target *)

(* validate_lease: the row is the leased one, and the lease runs at t *)
ExactLease(w, t) ==
    /\ rows[wrk[w].held] = wrk[w].row
    /\ wrk[w].row.state = "leased" /\ wrk[w].row.owner = wrk[w].owner
    /\ t < wrk[w].row.expires

DueTargets(o, t) == {r \in Targets : TargetIsDue(targets[o][r], t)}

(* find: the first due target in ordinal order, required or not; the CAS that *)
(* follows also compares its updated_at                                       *)
FirstDue(o, t) ==
    {r \in DueTargets(o, t) : /\ \A q \in DueTargets(o, t) : r <= q
                              /\ targets[o][r].updated <= t}

CountKept(e, t) ==
    [e EXCEPT !.state = "submitted", !.revision = @ + 1, !.next = Null, !.updated = t,
              !.count = IF e.state = "failed" THEN @ ELSE @ + 1]

SubmittedTarget(e, t) ==
    [e EXCEPT !.state = "submitted", !.revision = @ + 1, !.count = @ + 1,
              !.next = Null, !.updated = t]

Prepare(w, r) ==
    LET o == wrk[w].held  t == wrk[w].now
    IN  /\ wrk[w].pc = "prepare"
        /\ ExactLease(w, t)
        /\ r \in FirstDue(o, t)
        /\ targets' = [targets EXCEPT ![o][r] = SubmittedTarget(@, t)]
        /\ wrk' = [wrk EXCEPT ![w].pc = "submit", ![w].target = r,
                              ![w].entry = targets'[o][r]]
        /\ UNCHANGED <<rows, attempts, relay, sent, retries>>

(* LeaseLost, or NotReady: no target of the claimed outbox is due *)
PrepareRefused(w) ==
    /\ wrk[w].pc = "prepare"
    /\ ~ExactLease(w, wrk[w].now) \/ FirstDue(wrk[w].held, wrk[w].now) = {}
    /\ wrk' = [wrk EXCEPT ![w] = Failed(w)]
    /\ UNCHANGED <<tables, relay, sent, retries>>

-----------------------------------------------------------------------------
(* sink.submit_exact, outside any transaction.  The relay may keep the event *)
(* whatever it answers, and an answer of acceptance means that it did; the   *)
(* same event again changes nothing there.  An answer of Submitted is turned *)
(* into unknown.                                                             *)
Submit(w, answer, kept) ==
    LET o == wrk[w].held  r == wrk[w].target
    IN  /\ wrk[w].pc = "submit"
        /\ answer = "accepted" => kept
        /\ relay' = IF kept THEN relay \cup {<<o, r>>} ELSE relay
        /\ sent' = sent \cup {<<o, r, wrk[w].entry.count>>}
        /\ wrk' = [wrk EXCEPT ![w].pc = "record", ![w].answer = answer]
        /\ UNCHANGED <<tables, retries>>

-----------------------------------------------------------------------------
(* record_publication_outcome at the clock reading t with a sampled delay *)

PreparedTarget(w) ==
    /\ targets[wrk[w].held][wrk[w].target] = wrk[w].entry
    /\ wrk[w].entry.state = "submitted" /\ wrk[w].entry.updated = wrk[w].now

TargetsAfter(w, t, delay) ==
    [targets[wrk[w].held] EXCEPT ![wrk[w].target] =
       ConcludedTarget(@, wrk[w].answer,
         NextAttempt(wrk[w].entry.count, wrk[w].answer, t, delay), t)]

AlreadyRecorded(w) == Recorded(wrk[w].held, wrk[w].target, wrk[w].entry.count)

Recordable(w, t, delay) ==
    /\ wrk[w].now <= t
    /\ ~AlreadyRecorded(w)
    /\ ExactLease(w, t)
    /\ wrk[w].row.updated <= t
    /\ PreparedTarget(w)
    /\ Schedulable(wrk[w].entry.count, wrk[w].answer, t, delay)
    /\ HasDisposition(TargetsAfter(w, t, delay))

(* reconcile_recorded: the attempt row exists already.  Success only if it, *)
(* the target and the outbox are exactly what this call would have written. *)
Reconcilable(w, t, delay) ==
    LET o == wrk[w].held  r == wrk[w].target  e == wrk[w].entry
        d == Disposition(targets[o])
    IN  /\ wrk[w].now <= t
        /\ AlreadyRecorded(w)
        /\ [outbox |-> o, target |-> r, number |-> e.count, owner |-> wrk[w].owner,
            started |-> wrk[w].now, finished |-> t, outcome |-> wrk[w].answer] \in attempts
        /\ rows[o] = ReleasedRow(wrk[w].row, [state |-> rows[o].state, next |-> rows[o].next], t)
        /\ Schedulable(e.count, wrk[w].answer, t, delay)
        /\ targets[o][r] = ConcludedTarget(e, wrk[w].answer,
                             NextAttempt(e.count, wrk[w].answer, t, delay), t)
        /\ HasDisposition(targets[o])
        /\ rows[o].state = d.state /\ rows[o].next = d.next

Record(w, t, delay) ==
    LET o == wrk[w].held  r == wrk[w].target
        ts == TargetsAfter(w, t, delay)
    IN  /\ wrk[w].pc = "record"
        /\ delay \in SampledDelays(wrk[w].entry.count, wrk[w].answer)
        /\ Recordable(w, t, delay)
        /\ attempts' = attempts \cup {AttemptRow(o, r, wrk[w].owner, t, wrk[w].answer)}
        /\ targets' = [targets EXCEPT ![o] = ts]
        /\ rows' = [rows EXCEPT ![o] = ReleasedRow(@, Disposition(ts), t)]
        /\ wrk' = [wrk EXCEPT ![w] = Idle(w)]
        /\ UNCHANGED <<relay, sent, retries>>

RecordReconciled(w, t, delay) ==
    /\ wrk[w].pc = "record"
    /\ delay \in SampledDelays(wrk[w].entry.count, wrk[w].answer)
    /\ Reconcilable(w, t, delay)
    /\ wrk' = [wrk EXCEPT ![w] = Idle(w)]
    /\ UNCHANGED <<tables, relay, sent, retries>>

(* A late answer, a clock step, a schedule that is refused *)
RecordRefused(w, t, delay) ==
    /\ wrk[w].pc = "record"
    /\ delay \in SampledDelays(wrk[w].entry.count, wrk[w].answer)
    /\ ~Recordable(w, t, delay) /\ ~Reconcilable(w, t, delay)
    /\ wrk' = [wrk EXCEPT ![w] = Failed(w)]
    /\ UNCHANGED <<tables, relay, sent, retries>>

-----------------------------------------------------------------------------
(* The process: a crash or cancellation at any point, and a start with a new *)
(* owner under the configuration of the day                                  *)
Crash(w) ==
    /\ wrk[w].pc \notin {"crashed", "failed"}
    /\ wrk' = [wrk EXCEPT ![w] = Resting("crashed", wrk[w].owner, wrk[w].authority)]
    /\ UNCHANGED <<tables, relay, sent, retries>>

Start(w, owner, a) ==
    /\ wrk[w].pc \in {"crashed", "failed"}
    /\ wrk' = [wrk EXCEPT ![w] = Resting("idle", owner, a)]
    /\ UNCHANGED <<tables, relay, sent, retries>>

(* publication_retry: one transaction of the admin server, admitted at the *)
(* revision the operator saw.  The triggers refuse a regressed clock.      *)
AcceptedReopened(e, t) ==
    [e EXCEPT !.state = "pending", !.revision = @ + 1, !.next = t, !.updated = t]

ReopenedTarget(e, t) ==
    IF e.state = "accepted" THEN e
    ELSE [e EXCEPT !.state = "pending", !.revision = @ + 1, !.next = t, !.updated = t]

ReopenedRow(row, t) ==
    [row EXCEPT !.state = "pending", !.revision = @ + 1, !.next = t, !.updated = t]

PublicationRetry(o, t) ==
    /\ retries < MaxRetries
    /\ rows[o].state = "blocked"
    /\ rows[o].updated <= t
    /\ \A r \in Targets : targets[o][r].state # "accepted" => targets[o][r].updated <= t
    /\ targets' = [targets EXCEPT ![o] =
                      [r \in Targets |-> ReopenedTarget(targets[o][r], t)]]
    /\ rows' = [rows EXCEPT ![o] = ReopenedRow(@, t)]
    /\ retries' = retries + 1
    /\ UNCHANGED <<attempts, wrk, relay, sent>>

WorkerStep(w) ==
    \/ \E t \in Times : BeginNothingExpired(w, t)
    \/ \E t \in Times, o \in Outboxes : BeginRecovery(w, t, o)
    \/ \E t \in Times, o \in Outboxes : BeginRefused(w, t, o)
    \/ Recover(w)
    \/ RecoverRefused(w)
    \/ \E o \in Outboxes : Claim(w, o)
    \/ ClaimNothing(w)
    \/ \E o \in Outboxes : ClaimRefused(w, o)
    \/ \E r \in Targets : Prepare(w, r)
    \/ PrepareRefused(w)
    \/ \E answer \in Outcomes, kept \in BOOLEAN : Submit(w, answer, kept)
    \/ \E t \in Times, delay \in 0 .. MaximumBackoff : Record(w, t, delay)
    \/ \E t \in Times, delay \in 0 .. MaximumBackoff : RecordReconciled(w, t, delay)
    \/ \E t \in Times, delay \in 0 .. MaximumBackoff : RecordRefused(w, t, delay)
    \/ Crash(w)
    \/ \E owner \in Owners, a \in Authorities : Start(w, owner, a)

Next ==
    \/ \E o \in Outboxes, t \in Times, a \in Authorities : Insert(o, t, a)
    \/ \E w \in Workers : WorkerStep(w)
    \/ \E o \in Outboxes, t \in Times : PublicationRetry(o, t)

Spec == Init /\ [][Next]_vars

-----------------------------------------------------------------------------
(* Properties *)

(* Types, and the shapes valid_outbox_shape and the table's CHECK admit: the *)
(* lease columns are set exactly in "leased", the schedule in "pending".     *)
OutboxTypeOK ==
    /\ rows \in [Outboxes -> Row]
    /\ targets \in [Outboxes -> [Targets -> Target]]
    /\ attempts \subseteq Attempt
    /\ wrk \in [Workers -> Worker]
    /\ relay \subseteq Outboxes \X Targets
    /\ sent \subseteq Outboxes \X Targets \X Nat
    /\ retries \in 0 .. MaxRetries
    /\ \A w \in Workers :
         /\ wrk[w].pc \in {"recover", "prepare", "submit", "record"} => wrk[w].held # None
         /\ wrk[w].pc = "record" => wrk[w].answer # None
    /\ \A o \in Outboxes :
         /\ (rows[o].state = "leased") = (rows[o].owner # NoOwner)
         /\ (rows[o].state = "leased") = (rows[o].expires # Null)
         /\ (rows[o].state = "pending") = (rows[o].next # Null)

(* At most one target of an outbox is in flight, and only under a lease: what *)
(* read_expired_candidate answers with Invariant, for ever, if it is not so.  *)
OneInFlight ==
    \A o \in Outboxes :
      /\ Cardinality(Submitted(o)) <= 1
      /\ Submitted(o) # {} => rows[o].state = "leased"

(* publication_attempts holds attempts 1 .. attempt_count of every target, one *)
(* row each; only the one in flight is still missing.  No answer, recovery,    *)
(* late recorder or operator retry loses, repeats or skips one.                *)
EvidenceIsGapless ==
    \A o \in Outboxes, r \in Targets :
      LET rowsOf == {a \in attempts : a.outbox = o /\ a.target = r}
          last == IF r \in Submitted(o) THEN targets[o][r].count - 1 ELSE targets[o][r].count
      IN  /\ {a.number : a \in rowsOf} = 1 .. last
          /\ Cardinality(rowsOf) = last

(* An attempt number is durable before its bytes go out: no two submissions, *)
(* of whatever process, carry the same attempt identity.                     *)
AttemptsGoOutOnce ==
    \A w \in Workers : wrk[w].pc = "submit" =>
      <<wrk[w].held, wrk[w].target, wrk[w].entry.count>> \notin sent

(* Nothing goes out under another publication authority than the one the       *)
(* report was committed with, however the configuration changes between starts *)
ServedUnderItsAuthority ==
    \A w \in Workers : wrk[w].pc \in {"submit", "record"} =>
      rows[wrk[w].held].authority = wrk[w].authority

(* No attempt row claims more than was tried: an outcome other than unknown   *)
(* is evidence of an attempt that really went out.                            *)
EvidenceIsObserved ==
    \A a \in attempts : a.outcome # "unknown" => <<a.outbox, a.target, a.number>> \in sent

(* A complete outbox is held by every required relay. *)
CompleteIsDelivered ==
    \A o \in Outboxes : rows[o].state = "complete" =>
      \A r \in Required : <<o, r>> \in relay

(* Outside a lease the outbox row is what disposition makes of its targets, *)
(* however it got there: record, recovery, or the operator's retry.  (A new *)
(* outbox without required targets is pending until its first attempt.)     *)
DispositionAgrees ==
    \A o \in Outboxes :
      rows[o].state \in {"pending", "blocked", "complete"} /\ rows[o].revision > 1 =>
        /\ HasDisposition(targets[o])
        /\ rows[o].state = Disposition(targets[o]).state
        /\ rows[o].next = Disposition(targets[o]).next

(* A claim is not made in vain: when a pending outbox comes due, so does one *)
(* of its targets.  Otherwise prepare_next answers NotReady and the daemon   *)
(* stops, once per lease, for ever.                                          *)
DueOutboxHasDueTarget ==
    \A o \in Outboxes : rows[o].state = "pending" => DueTargets(o, rows[o].next) # {}

(* The three tables tell one story between any two transactions of any two  *)
(* workers: what the attempt rows record, the targets count and schedule    *)
(* and the outbox row promises.  (The operator's retry of a spent outbox    *)
(* breaks the last part: see the README.)                                   *)
TablesAgree ==
    /\ OneInFlight
    /\ EvidenceIsGapless
    /\ DispositionAgrees
    /\ DueOutboxHasDueTarget

(* contracts/.../publication_execution.v1.json, outbox_disposition: blocked is  *)
(* "any_required_target_terminal_nonaccepted_or_attempts_exhausted".  A required *)
(* target without a try left keeps an unleased outbox blocked.                   *)
ExhaustedIsBlocked ==
    \A o \in Outboxes :
      rows[o].state = "pending" =>
        ~ \E r \in Required : RetryableState(targets[o][r]) /\ targets[o][r].count >= MaxAttempts

(* contracts/.../publication_execution.v1.json, cancellation_and_recovery:      *)
(* "after_claim_before_submitted": "expired_lease_releases_to_existing_schedule". *)
(* A lease that expires before anything was submitted changes nothing but the   *)
(* lease: the outbox is pending again.                                          *)
ReleasesToSchedule ==
    [][\A o \in Outboxes :
         rows[o].state = "leased" /\ rows'[o].state # "leased" /\ Submitted(o) = {} =>
           /\ rows'[o].state = "pending"
           /\ targets'[o] = targets[o]]_vars

(* README, "Durable exact-byte publication execution": observed outcomes     *)
(* append one immutable attempt row.  While the lease is held and unexpired, *)
(* whatever delay the worker samples, its answer can be recorded.            *)
ObservedOutcomesAppend ==
    \A w \in Workers : wrk[w].pc = "record" =>
      \A t \in wrk[w].now .. MaxTime, delay \in SampledDelays(wrk[w].entry.count, wrk[w].answer) :
        ExactLease(w, t) /\ t + delay <= MaxTime => Recordable(w, t, delay)

(* What the two guard_update triggers demand of every statement: one revision *)
(* at a time, time does not run back, accepted targets are never touched,     *)
(* attempt counts only count up, an outbox moves only along the lifecycle.    *)
OutboxLifecycle ==
    [][/\ \A o \in Outboxes : rows'[o] # rows[o] =>
            /\ rows'[o].revision = rows[o].revision + 1
            /\ rows'[o].updated >= rows[o].updated
            /\ <<rows[o].state, rows'[o].state>> \in
                 {<<"absent", "pending">>, <<"pending", "leased">>, <<"leased", "pending">>,
                  <<"leased", "complete">>, <<"leased", "blocked">>, <<"blocked", "pending">>}
       /\ \A o \in Outboxes, r \in Targets : targets'[o][r] # targets[o][r] =>
            /\ targets[o][r].state # "accepted"
            /\ targets'[o][r].revision = targets[o][r].revision + 1
            /\ targets'[o][r].count \in {targets[o][r].count, targets[o][r].count + 1}
            /\ targets'[o][r].updated >= targets[o][r].updated
      ]_vars

-----------------------------------------------------------------------------
(* The promise: leases, clocks, attempts and processes hidden *)

PhaseOf(o) == IF rows[o].state \in {"pending", "leased"} THEN "open" ELSE rows[o].state
AcceptedBy(o) == {r \in Targets : targets[o][r].state = "accepted"}

Promise == INSTANCE DeliveryPromise WITH
    Items <- Outboxes,
    phase <- [o \in Outboxes |-> PhaseOf(o)],
    accepted <- [o \in Outboxes |-> AcceptedBy(o)]

(* Every step of workers, crashes and the operator is a step of the promise or *)
(* invisible to it: an outbox completes with the answer that makes the last    *)
(* required target accept, never otherwise, and is then left alone.            *)
KeepsThePromise == Promise!PromiseSpec
=============================================================================
