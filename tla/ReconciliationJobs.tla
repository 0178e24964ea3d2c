------------------------- MODULE ReconciliationJobs -------------------------
(***************************************************************************)
(* The durable reconciliation-job queue of src/src/reconciliation_job.rs   *)
(* and the trade_dirty_generations rows it is scheduled from.              *)
(*                                                                         *)
(* Every repository method runs in one SQLite transaction, so each one is  *)
(* one action.  The wall clock is an argument of every method: an action   *)
(* takes any reading t, so what is shown here holds however the clock      *)
(* behaves (stale readings and steps backwards included).  A lease is a    *)
(* copyable value; the set of all leases ever handed out stays in `leases` *)
(* and any of them may be presented at any later time.                     *)
(*                                                                         *)
(* Beside some definitions stands a faulty variant of it (named for the    *)
(* fault) that no action uses: the fault a property must be able to see.   *)
(***************************************************************************)
EXTENDS Integers, FiniteSets

CONSTANTS
    Trades,         \* trade identifiers
    MaxGeneration,  \* largest dirty generation (i64::MAX in the schema)
    MaxTime,        \* MAX_UNIX_MILLISECONDS
    Owners,         \* lease owners: 16 random bytes per worker start
    NoOwner,        \* SQL NULL in lease_owner
    Policies        \* scheduling policies a configuration may carry

Generations == 1 .. MaxGeneration
Times == 0 .. MaxTime
JobIds == Trades \X Generations      \* job_id hashes (trade, generation)
Null == -1                           \* SQL NULL in a timestamp column

States == {"absent", "ready", "leased", "exhausted", "superseded", "completed"}

(* RhiReconciliationJobPolicy::new *)
ValidPolicy(p) ==
    /\ p \in [capacity : Nat, lease : Nat, renewal : Nat,
              max : Nat, initial : Nat, maximum : Nat]
    /\ p.capacity > 0
    /\ 0 < p.renewal /\ p.renewal < p.lease
    /\ p.max > 0
    /\ 0 < p.initial /\ p.initial <= p.maximum

ASSUME BoundsAssumption == MaxGeneration \in Nat /\ MaxTime \in Nat
ASSUME OwnersAssumption == NoOwner \notin Owners
ASSUME PoliciesAssumption == Policies # {} /\ \A p \in Policies : ValidPolicy(p)

(* One row of reconciliation_jobs; an id with no row is "absent". *)
Row == [state : States, revision : Nat, attempt : Nat, failure : Nat,
        policy : Policies, next : Times \cup {Null},
        owner : Owners \cup {NoOwner}, expires : Times \cup {Null},
        created : Times, updated : Times]

(* The non-forgeable value returned by claim_next and renew. *)
Lease == [id : JobIds, row : Row]

VARIABLES
    dirty,    \* trade_dirty_generations.generation, 0 when the trade has no row
    jobs,     \* reconciliation_jobs
    leases    \* every RhiReconciliationLease ever returned to a caller

vars == <<dirty, jobs, leases>>

TypeOK ==
    /\ dirty \in [Trades -> 0 .. MaxGeneration]
    /\ jobs \in [JobIds -> Row]
    /\ leases \subseteq Lease

NoRow ==
    [state |-> "absent", revision |-> 0, attempt |-> 0, failure |-> 0,
     policy |-> CHOOSE p \in Policies : TRUE, next |-> Null,
     owner |-> NoOwner, expires |-> Null, created |-> 0, updated |-> 0]

Init ==
    /\ dirty = [trade \in Trades |-> 0]
    /\ jobs = [id \in JobIds |-> NoRow]
    /\ leases = {}

-----------------------------------------------------------------------------
(* Queries *)

Active(id) == jobs[id].state \in {"ready", "leased"}
ActiveIds == {id \in JobIds : Active(id)}
ActiveOf(trade) == {id \in ActiveIds : id[1] = trade}

(* The row the dirty generation of a trade is scheduled under. *)
CurrentId(trade) == <<trade, dirty[trade]>>

(* validate_exact_lease: the stored row is, field by field, the leased one. *)
ExactLease(l) == jobs[l.id] = l.row /\ l.row.state = "leased"

(* The compare-and-swap every update by a lease holder carries in its WHERE *)
CasLease(l) ==
    /\ jobs[l.id].state = "leased"
    /\ jobs[l.id].revision = l.row.revision
    /\ jobs[l.id].owner = l.row.owner
    /\ jobs[l.id].expires = l.row.expires

(* The timestamp clause of the guard_update trigger.  Its other clauses are *)
(* never violated by the statements below: property JobLifecycle.           *)
NotRegressed(id, t) == jobs[id].updated <= t

(* checked_add(lease_duration).filter(<= MAX_UNIX_MILLISECONDS) *)
UncheckedExpiry(row, t) == TRUE
ExpiryFits(row, t) == t + row.policy.lease <= MaxTime

RenewalDue(l) ==
    IF l.row.expires > l.row.policy.renewal
    THEN l.row.expires - l.row.policy.renewal ELSE 0

(* initial_backoff * 2^failures, saturating, capped by maximum_backoff *)
RetryDelayUpperBound(p, failures) ==
    LET exponent == IF failures < 63 THEN failures ELSE 63
        scaled   == p.initial * 2 ^ exponent
    IN  IF scaled < p.maximum THEN scaled ELSE p.maximum

-----------------------------------------------------------------------------
(* Row updates, one per UPDATE/INSERT statement *)

NewRow(p, t) ==
    [state |-> "ready", revision |-> 1, attempt |-> 0, failure |-> 0,
     policy |-> p, next |-> t, owner |-> NoOwner, expires |-> Null,
     created |-> t, updated |-> t]

Released(row, state, t) ==
    [row EXCEPT !.state = state, !.revision = @ + 1, !.next = Null,
                !.owner = NoOwner, !.expires = Null, !.updated = t]

SupersededRow(row, t) == Released(row, "superseded", t)
CompletedRow(row, t) == Released(row, "completed", t)
ExhaustedRow(row, t) == [Released(row, "exhausted", t) EXCEPT !.failure = @ + 1]
ExpiredRow(row, t) ==
    [Released(row, "exhausted", t) EXCEPT !.failure = row.attempt]

RetriedRow(row, next, t) ==
    [Released(row, "ready", t) EXCEPT !.failure = @ + 1, !.next = next]

ClaimedRow(row, owner, t) ==
    [row EXCEPT !.state = "leased", !.revision = @ + 1, !.attempt = @ + 1,
                !.next = Null, !.owner = owner,
                !.expires = t + row.policy.lease, !.updated = t]

RevisionKept(row, expires, t) == [row EXCEPT !.expires = expires, !.updated = t]

RenewedRow(row, expires, t) ==
    [row EXCEPT !.revision = @ + 1, !.expires = expires, !.updated = t]

-----------------------------------------------------------------------------
(* Operations *)

(* advance_dirty_generation, called by both evidence-committing paths *)
AdvanceDirty(trade) ==
    /\ dirty[trade] < MaxGeneration
    /\ dirty' = [dirty EXCEPT ![trade] = @ + 1]
    /\ UNCHANGED <<jobs, leases>>

SupersedeForgotten(trade, t) == jobs

SupersedeAnyState(trade, t) ==
    [id \in JobIds |-> IF id[1] = trade /\ jobs[id].state # "absent"
                       THEN SupersededRow(jobs[id], t) ELSE jobs[id]]

(* The table after an older active job of the trade has been superseded *)
AfterSupersede(trade, t) ==
    [id \in JobIds |-> IF id \in ActiveOf(trade)
                       THEN SupersededRow(jobs[id], t) ELSE jobs[id]]

LeasedUncounted(trade) ==
    {id \in ActiveIds : jobs[id].state = "ready"} \ ActiveOf(trade)

(* The active rows ACTIVE_JOB_COUNT_SQL counts after that update *)
ActiveAfterSupersede(trade) == ActiveIds \ ActiveOf(trade)

(* schedule: refused without a dirty row, for a generation that already has *)
(* a job in any state, when an active job is not older, and at capacity.    *)
Schedulable(trade, p, t) ==
    /\ dirty[trade] > 0
    /\ jobs[CurrentId(trade)].state = "absent"
    /\ \A id \in ActiveOf(trade) : id[2] < dirty[trade] /\ NotRegressed(id, t)
    /\ Cardinality(ActiveAfterSupersede(trade)) < p.capacity

Schedule(trade, p, t) ==
    /\ Schedulable(trade, p, t)
    /\ jobs' = [AfterSupersede(trade, t) EXCEPT ![CurrentId(trade)] = NewRow(p, t)]
    /\ UNCHANGED <<dirty, leases>>

FinalWithoutExpiry(id, t) ==
    /\ jobs[id].state = "leased"
    /\ jobs[id].attempt >= jobs[id].policy.max
    /\ NotRegressed(id, t)

(* Rows EXHAUST_EXPIRED_SQL rewrites: the last permitted attempt was lost *)
ExpiredFinally(id, t) ==
    /\ jobs[id].state = "leased" /\ jobs[id].expires <= t
    /\ jobs[id].attempt >= jobs[id].policy.max
    /\ NotRegressed(id, t)

AfterExhaust(t) ==
    [id \in JobIds |-> IF ExpiredFinally(id, t)
                       THEN ExpiredRow(jobs[id], t) ELSE jobs[id]]

ClaimableEarly(id, t) ==
    /\ jobs[id].attempt < jobs[id].policy.max
    /\ NotRegressed(id, t)
    /\ \/ jobs[id].state = "ready" /\ jobs[id].next <= t + 1
       \/ jobs[id].state = "leased" /\ jobs[id].expires <= t + 1

Claimable(id, t) ==
    /\ jobs[id].attempt < jobs[id].policy.max
    /\ NotRegressed(id, t)
    /\ \/ jobs[id].state = "ready" /\ jobs[id].next <= t
       \/ jobs[id].state = "leased" /\ jobs[id].expires <= t

(* READ_CLAIMABLE_SQL runs after EXHAUST_EXPIRED_SQL, in its transaction *)
Eligible(id, t) == Claimable(id, t) /\ ~ExpiredFinally(id, t)

DueAt(id) == IF jobs[id].state = "ready" THEN jobs[id].next ELSE jobs[id].expires

(* ORDER BY due time, creation time; the final key, a hash, is arbitrary *)
NotAfter(a, b) ==
    \/ DueAt(a) < DueAt(b)
    \/ DueAt(a) = DueAt(b) /\ jobs[a].created <= jobs[b].created

(* claim_next when an eligible job exists: the same transaction exhausts    *)
(* expired final attempts first.  An expiry beyond MaxTime aborts it all.   *)
Claim(owner, t, id) ==
    /\ Eligible(id, t)
    /\ \A other \in JobIds : Eligible(other, t) => NotAfter(id, other)
    /\ ExpiryFits(jobs[id], t)
    /\ LET row == ClaimedRow(jobs[id], owner, t)
       IN  /\ jobs' = [AfterExhaust(t) EXCEPT ![id] = row]
           /\ leases' = leases \cup {[id |-> id, row |-> row]}
    /\ UNCHANGED dirty

(* claim_next when nothing is eligible: returns None, still exhausts *)
ClaimNothing(t) ==
    /\ \A id \in JobIds : ~Eligible(id, t)
    /\ jobs' = AfterExhaust(t)
    /\ UNCHANGED <<dirty, leases>>

(* renew: only between the renewal point and expiry, and only forward *)
Renew(l, t) ==
    /\ t < l.row.expires /\ t >= RenewalDue(l)
    /\ t + l.row.policy.lease > l.row.expires
    /\ ExpiryFits(l.row, t)
    /\ CasLease(l) /\ NotRegressed(l.id, t)
    /\ LET row == RenewedRow(jobs[l.id], t + l.row.policy.lease, t)
       IN  /\ jobs' = [jobs EXCEPT ![l.id] = row]
           /\ leases' = leases \cup {[id |-> l.id, row |-> row]}
    /\ UNCHANGED dirty

(* record_failure: back to ready after a bounded delay, or exhausted *)
RecordFailure(l, t, delay) ==
    /\ t < l.row.expires
    /\ delay <= RetryDelayUpperBound(l.row.policy, l.row.failure)
    /\ CasLease(l) /\ NotRegressed(l.id, t)
    /\ LET row == jobs[l.id]
       IN  \/ /\ l.row.attempt >= l.row.policy.max /\ row.attempt >= row.policy.max
              /\ jobs' = [jobs EXCEPT ![l.id] = ExhaustedRow(row, t)]
           \/ /\ l.row.attempt < l.row.policy.max /\ row.attempt < row.policy.max
              /\ t + delay <= MaxTime
              /\ jobs' = [jobs EXCEPT ![l.id] = RetriedRow(row, t + delay, t)]
    /\ UNCHANGED <<dirty, leases>>

GenerationUnfenced(l, t) == t < l.row.expires /\ ExactLease(l)

(* validate_finalization_identity: time, lease and generation fences *)
FinalizationFence(l, t) ==
    /\ t < l.row.expires
    /\ ExactLease(l)
    /\ dirty[l.id[1]] = l.id[2]

(* The job's part of commit_finalization: the fence, then COMPLETE_JOB_SQL *)
Complete(l, t) ==
    /\ FinalizationFence(l, t)
    /\ CasLease(l) /\ NotRegressed(l.id, t)
    /\ jobs' = [jobs EXCEPT ![l.id] = CompletedRow(@, t)]
    /\ UNCHANGED <<dirty, leases>>

Delays == 0 .. MaxTime

Next ==
    \/ \E trade \in Trades : AdvanceDirty(trade)
    \/ \E trade \in Trades, p \in Policies, t \in Times : Schedule(trade, p, t)
    \/ \E owner \in Owners, t \in Times, id \in JobIds : Claim(owner, t, id)
    \/ \E t \in Times : ClaimNothing(t)
    \/ \E l \in leases, t \in Times : Renew(l, t)
    \/ \E l \in leases, t \in Times, delay \in Delays : RecordFailure(l, t, delay)
    \/ \E l \in leases, t \in Times : Complete(l, t)

Spec == Init /\ [][Next]_vars
-----------------------------------------------------------------------------
(* Safety *)

(* What decode_job accepts (valid_state_fields, counter and timestamp       *)
(* order).  A row that fails it makes every later read of that job, and     *)
(* every claim that reaches it, return Storage for ever.                    *)
Decodable(row) ==
    /\ row.failure <= row.attempt /\ row.created <= row.updated
    /\ CASE row.state = "ready" ->
              /\ row.attempt < row.policy.max /\ row.next # Null
              /\ row.owner = NoOwner /\ row.expires = Null
         [] row.state = "leased" ->
              /\ 0 < row.attempt /\ row.attempt <= row.policy.max
              /\ row.next = Null /\ row.owner # NoOwner /\ row.expires # Null
         [] OTHER ->
              row.next = Null /\ row.owner = NoOwner /\ row.expires = Null

(* A trade never has two active jobs, and an active job is the newest job   *)
(* of its trade: scheduling a newer dirty generation supersedes the older   *)
(* one in the same transaction and nothing revives it (schedule 748-821).   *)
NewestIsActive ==
    \A old, new \in JobIds :
        /\ old[1] = new[1] /\ old[2] < new[2] /\ jobs[new].state # "absent"
        => ~Active(old)

(* Fencing: the stored revision is never behind a lease, and a lease with   *)
(* the stored revision is the stored row.  Of all leases ever issued for a  *)
(* job at most one can therefore pass a compare-and-swap, whatever its      *)
(* holders do and whatever their clocks say (claim_next, renew,             *)
(* record_failure, validate_exact_lease).                                   *)
LeaseFencing ==
    \A l \in leases :
        /\ l.row.revision <= jobs[l.id].revision
        /\ l.row.revision = jobs[l.id].revision => jobs[l.id] = l.row

(* One attempt number is never shared by two owners: the attempt id, which  *)
(* is derived from (job, attempt_count), names one claim.                   *)
AttemptHasOneOwner ==
    \A l, m \in leases :
        l.id = m.id /\ l.row.attempt = m.row.attempt => l.row.owner = m.row.owner

(* A job is given up only after max_attempts claims, whether its last lease *)
(* failed (record_failure) or was lost and expired (claim_next's exhaust).  *)
ExhaustedMeansSpent ==
    \A id \in JobIds :
        jobs[id].state = "exhausted" => jobs[id].attempt = jobs[id].policy.max

(* What a step may do to a job: the transitions, the single revision        *)
(* increment and the immutable columns that the guard_update trigger would  *)
(* otherwise abort the transaction for.                                     *)
LegalTransitions ==
    {<<"absent", "ready">>, <<"ready", "leased">>, <<"ready", "superseded">>,
     <<"leased", "leased">>, <<"leased", "ready">>, <<"leased", "exhausted">>,
     <<"leased", "superseded">>, <<"leased", "completed">>}

JobStep(id) ==
    jobs'[id] # jobs[id] =>
        /\ <<jobs[id].state, jobs'[id].state>> \in LegalTransitions
        /\ jobs'[id].revision = jobs[id].revision + 1
        /\ jobs'[id].updated >= jobs[id].updated
        /\ jobs[id].state # "absent" =>
              /\ jobs'[id].policy = jobs[id].policy
              /\ jobs'[id].created = jobs[id].created

JobLifecycle == [][\A id \in JobIds : JobStep(id)]_vars

(* A new attempt on a job starts no earlier than the expiry or the          *)
(* next_attempt time that the previous transaction stored (updated_at is    *)
(* the reading the step was made with).                                     *)
AttemptTiming(id) ==
    jobs'[id].attempt > jobs[id].attempt =>
        /\ jobs[id].state = "leased" => jobs'[id].updated >= jobs[id].expires
        /\ jobs[id].state = "ready" => jobs'[id].updated >= jobs[id].next
        /\ jobs'[id].attempt = jobs[id].attempt + 1

(* A final attempt given up before its expiry is one whose failure was      *)
(* recorded: the counter moves by one and nothing else in the table moves.  *)
ExhaustionTiming(id) ==
    /\ jobs[id].state = "leased" /\ jobs'[id].state = "exhausted"
    /\ jobs'[id].updated < jobs[id].expires
    =>  /\ jobs'[id].failure = jobs[id].failure + 1
        /\ leases' = leases
        /\ \A other \in JobIds \ {id} : jobs'[other] = jobs[other]

(* A live lease is not stolen, a backoff is not cut short, and a claimer's  *)
(* exhaust statement (claim_next) leaves a live final lease alone: before   *)
(* its expiry only record_failure gives it up.                              *)
ClaimsWaitTheirTurn ==
    [][\A id \in JobIds : AttemptTiming(id) /\ ExhaustionTiming(id)]_vars
=============================================================================
