----------------------- MODULE ReconciliationPipeline -----------------------
(***************************************************************************)
(* The daemon of src/src/runtime_graph.rs around the job queue: the source *)
(* subscription, the reconciliation worker and the operator's refresh,     *)
(* over the evidence tables, with crashes and restarts.                    *)
(*                                                                         *)
(* Each SQLite transaction is one action; everything a task keeps between  *)
(* two transactions is in sub, wrk or adm and may be stale when used.  All *)
(* three tasks read one forward-moving clock.  A critical task that fails  *)
(* stops the daemon: Stop.                                                 *)
(*                                                                         *)
(* Evidence is abstract: event e of a trade is the e-th in cursor order    *)
(* (authored second, event id), event 1 is the proposal the lineage is     *)
(* rooted in.  One event stands for its mutation and its signed event.     *)
(***************************************************************************)
EXTENDS ReconciliationJobs, FiniteSetsExt

CONSTANTS
    Sources,              \* configured evidence sources
    MaxEvent,             \* events a relay may hold for one trade
    Overlap,              \* overlap_seconds, in cursor positions
    Deadline,             \* source and attempt deadline
    PublicationCapacity   \* publication queue capacity

ASSUME PipelineAssumption ==
    /\ Sources # {} /\ IsFiniteSet(Sources)
    /\ MaxEvent \in Nat \ {0} /\ MaxEvent <= MaxGeneration
    /\ Overlap \in Nat /\ Deadline \in Nat \ {0}
    /\ PublicationCapacity \in Nat \ {0}
    /\ MaxTime > 0

Events == 1 .. MaxEvent
PublicationModes == {"disabled", "required"}
Root == 1
NoEvent == 0

VARIABLES
    clock,     \* the process's UTC seconds
    up,        \* is the daemon running?
    policy,    \* the job policy of the configuration it runs with
    mode,      \* its publication mode
    relay,     \* relay[trade][source]: what the relay holds (external)
    born,      \* born[trade][e]: the generation whose transaction stored e, 0: none
    seen,      \* source observations
    cursor,    \* relay_checkpoints: position and completed_at
    dirtyAt,   \* trade_dirty_generations.updated_at
    attempts,  \* evidence_reconciliations and its sources
    reports,   \* evidence_manifests, trade_projections, attestation_reports
    outbox,    \* publication_outbox rows that are not complete
    sub,       \* run_source_subscription
    wrk,       \* run_reconciliation_worker
    adm        \* reconciliation_refresh

evidenceVars == <<relay, born, seen, cursor, dirtyAt, attempts, reports, outbox>>
taskVars == <<clock, up, policy, mode, sub, wrk, adm>>
pipelineVars == <<vars, evidenceVars, taskVars>>

Stored(trade) == {e \in Events : born[trade][e] > 0}

(* What an attempt holds of one source: nothing yet, the cursor it read and *)
(* when its fetch began ("pending"), or a result.  "incomplete" stands for  *)
(* unavailable, resource limit, unknown and unsupported.                    *)
Result == [class : {"none", "pending", "complete", "timeout", "incomplete"},
           facts : SUBSET Events, prior : 0 .. MaxEvent, finished : Times]
NoResult == [class |-> "none", facts |-> {}, prior |-> NoEvent, finished |-> 0]

Idle == [pc |-> "idle"]
Resting(owner) == [pc |-> "idle", owner |-> owner]

PipelineInit ==
    /\ Init
    /\ clock = 1 /\ up = TRUE /\ policy \in Policies /\ mode \in PublicationModes
    /\ relay = [trade \in Trades |-> [s \in Sources |-> {}]]
    /\ born = [trade \in Trades |-> [e \in Events |-> 0]]
    /\ seen = relay
    /\ cursor = [trade \in Trades |-> [s \in Sources |-> [pos |-> NoEvent, at |-> 0]]]
    /\ dirtyAt = [trade \in Trades |-> 0]
    /\ attempts = {} /\ reports = {} /\ outbox = {}
    /\ sub = Idle /\ adm = Idle
    /\ \E owner \in Owners : wrk = Resting(owner)

-----------------------------------------------------------------------------
(* The environment and the process *)

Tick ==
    /\ clock < MaxTime
    /\ clock' = clock + 1
    /\ UNCHANGED <<vars, evidenceVars, up, policy, mode, sub, wrk, adm>>

RelayGains(trade, s, e) ==
    /\ e \notin relay[trade][s]
    /\ relay' = [relay EXCEPT ![trade][s] = @ \cup {e}]
    /\ UNCHANGED <<vars, born, seen, cursor, dirtyAt, attempts, reports, outbox,
                   taskVars>>

(* The publication worker completes an outbox row *)
PublicationCompletes(id) ==
    /\ up /\ id \in outbox
    /\ outbox' = outbox \ {id}
    /\ UNCHANGED <<vars, relay, born, seen, cursor, dirtyAt, attempts, reports,
                   taskVars>>

(* What the tasks hold in memory is gone *)
Stop ==
    /\ up' = FALSE
    /\ sub' = Idle /\ adm' = Idle /\ wrk' = Resting(wrk.owner)
    /\ UNCHANGED <<clock, policy, mode>>

(* A crash, a shutdown, or a critical task failing on storage or transport *)
Crash ==
    /\ up /\ Stop
    /\ UNCHANGED <<vars, evidenceVars>>

RestartReleases(owner, p, m) ==
    /\ ~up
    /\ up' = TRUE /\ policy' = p /\ mode' = m /\ wrk' = Resting(owner)
    /\ jobs' = [id \in JobIds |-> IF jobs[id].state = "leased"
                                  THEN RetriedRow(jobs[id], clock, clock) ELSE jobs[id]]
    /\ UNCHANGED <<dirty, leases, evidenceVars, clock, sub, adm>>

(* A new process draws a new lease owner and reads its configuration *)
Restart(owner, p, m) ==
    /\ ~up
    /\ up' = TRUE /\ policy' = p /\ mode' = m /\ wrk' = Resting(owner)
    /\ UNCHANGED <<vars, evidenceVars, clock, sub, adm>>

-----------------------------------------------------------------------------
(* Shared by both evidence-committing transactions *)

(* Facts whose mutation or signed event was not stored yet *)
NewEvidence(trade, facts) == facts \ Stored(trade)

(* New evidence advances the dirty generation once, whatever its number *)
Persist(trade, facts, at) ==
    LET new == NewEvidence(trade, facts)
    IN  /\ born' = [born EXCEPT ![trade] = [e \in Events |->
                       IF e \in new THEN dirty[trade] + 1 ELSE @[e]]]
        /\ IF new = {}
           THEN UNCHANGED <<vars, dirtyAt>>
           ELSE AdvanceDirty(trade) /\ dirtyAt' = [dirtyAt EXCEPT ![trade] = at]

(* The checkpoint trigger refuses a regressed cursor or completion time *)
CheckpointGuard(old, pos, at) == old.pos = NoEvent \/ (pos > old.pos /\ at >= old.at)

(* advance_dirty_generation refuses a regressed observation time *)
DirtyTimeFits(trade, facts, at) ==
    NewEvidence(trade, facts) = {} \/ dirty[trade] = 0 \/ at >= dirtyAt[trade]

-----------------------------------------------------------------------------
(* run_source_subscription *)

SubReceive(trade, s, e) ==
    /\ up /\ sub.pc = "idle"
    /\ e \in relay[trade][s]
    /\ sub' = [pc |-> "read", trade |-> trade, source |-> s, event |-> e, at |-> clock]
    /\ UNCHANGED <<vars, evidenceVars, clock, up, policy, mode, wrk, adm>>

(* read_initial_state *)
SubRead ==
    /\ sub.pc = "read"
    /\ sub' = [pc |-> "commit", trade |-> sub.trade, source |-> sub.source,
               event |-> sub.event, at |-> sub.at,
               cursor |-> cursor[sub.trade][sub.source],
               dirty |-> dirty[sub.trade]]
    /\ UNCHANGED <<vars, evidenceVars, clock, up, policy, mode, wrk, adm>>

(* commit_source_result: the state read before is still the stored one *)
SubFence ==
    /\ cursor[sub.trade][sub.source] = sub.cursor
    /\ dirty[sub.trade] = sub.dirty

SubAdmissible ==
    /\ SubFence
    /\ DirtyTimeFits(sub.trade, {sub.event}, sub.at)
    /\ sub.event > sub.cursor.pos
         => CheckpointGuard(cursor[sub.trade][sub.source], sub.event, sub.at)

ObservationSkipped ==
    IF sub.event \in Stored(sub.trade) THEN seen
    ELSE [seen EXCEPT ![sub.trade][sub.source] = @ \cup {sub.event}]

SubSeen == [seen EXCEPT ![sub.trade][sub.source] = @ \cup {sub.event}]

SubCursor ==
    IF sub.event > sub.cursor.pos
    THEN [cursor EXCEPT ![sub.trade][sub.source] = [pos |-> sub.event, at |-> sub.at]]
    ELSE cursor

SubCommit ==
    /\ sub.pc = "commit" /\ SubAdmissible
    /\ Persist(sub.trade, {sub.event}, sub.at)
    /\ seen' = SubSeen
    /\ cursor' = SubCursor
    /\ sub' = IF NewEvidence(sub.trade, {sub.event}) = {} THEN Idle
              ELSE [pc |-> "schedule", trade |-> sub.trade, at |-> sub.at]
    /\ UNCHANGED <<relay, attempts, reports, outbox, clock, up, policy, mode, wrk, adm>>

SubConflict ==
    /\ sub.pc = "commit" /\ ~SubAdmissible
    /\ Stop /\ UNCHANGED <<vars, evidenceVars>>

(* schedule_trade with the time read when the event arrived *)
SubSchedule ==
    /\ sub.pc = "schedule"
    /\ \/ Schedule(sub.trade, policy, sub.at)
       \/ jobs[CurrentId(sub.trade)].state # "absent" /\ UNCHANGED vars
    /\ sub' = Idle
    /\ UNCHANGED <<evidenceVars, clock, up, policy, mode, wrk, adm>>

SubScheduleFails ==
    /\ sub.pc = "schedule"
    /\ jobs[CurrentId(sub.trade)].state = "absent"
    /\ ~Schedulable(sub.trade, policy, sub.at)
    /\ Stop /\ UNCHANGED <<vars, evidenceVars>>

-----------------------------------------------------------------------------
(* reconciliation_refresh: the fence is read in one transaction, the job is *)
(* scheduled in another                                                     *)

AdmRead(trade) ==
    /\ up /\ adm.pc = "idle" /\ dirty[trade] > 0
    /\ adm' = [pc |-> "schedule", trade |-> trade]
    /\ UNCHANGED <<vars, evidenceVars, clock, up, policy, mode, sub, wrk>>

AdmSchedule ==
    /\ adm.pc = "schedule"
    /\ \/ Schedule(adm.trade, policy, clock)
       \/ ~Schedulable(adm.trade, policy, clock) /\ UNCHANGED vars
    /\ adm' = Idle
    /\ UNCHANGED <<evidenceVars, clock, up, policy, mode, sub, wrk>>

-----------------------------------------------------------------------------
(* run_reconciliation_worker and execute_reconciliation_attempt *)

(* attempt_policy_matches: everything but the queue's capacity *)
AttemptPolicyMatches(p, q) ==
    /\ p.lease = q.lease /\ p.renewal = q.renewal /\ p.max = q.max
    /\ p.initial = q.initial /\ p.maximum = q.maximum

(* claim_next, then from_claim: a job retained under another policy fails *)
WrkClaim(id) ==
    /\ up /\ wrk.pc = "idle"
    /\ Claim(wrk.owner, clock, id)
    /\ wrk' = [pc |-> IF AttemptPolicyMatches(jobs[id].policy, policy)
                      THEN "fetch" ELSE "failed",
               owner |-> wrk.owner, lease |-> [id |-> id, row |-> jobs'[id]],
               started |-> clock, got |-> [s \in Sources |-> NoResult],
               at |-> 0, tip |-> 0]
    /\ UNCHANGED <<evidenceVars, clock, up, policy, mode, sub, adm>>

WrkClaimNothing ==
    /\ up /\ wrk.pc = "idle"
    /\ ClaimNothing(clock)
    /\ UNCHANGED <<evidenceVars, taskVars>>

Trade == wrk.lease.id[1]
Goto(pc) == [wrk EXCEPT !.pc = pc]
OnlyWrk == UNCHANGED <<vars, evidenceVars, clock, up, policy, mode, sub, adm>>

(* Every deadline runs from the start of the attempt and ends by the lease *)
SourceDeadline == Min({wrk.started + Deadline, wrk.lease.row.expires})

(* read_committed_reconciliation_cursor; sources are queried one at a time *)
WrkReadCursor(s) ==
    /\ wrk.pc = "fetch" /\ wrk.got[s].class = "none"
    /\ \A r \in Sources : wrk.got[r].class # "pending"
    /\ wrk' = [wrk EXCEPT !.got[s] =
                 [class |-> "pending", facts |-> {},
                  prior |-> cursor[Trade][s].pos, finished |-> clock]]
    /\ OnlyWrk

(* What the relay can return: everything, or from the cursor less Overlap *)
Window(s) ==
    {e \in relay[Trade][s] :
        wrk.got[s].prior = NoEvent \/ e >= wrk.got[s].prior - Overlap}

(* RhiReconciliationSourceResult::new refuses a fetch begun at the deadline *)
BegunInTime(s) == wrk.got[s].finished < SourceDeadline

(* fetch_reconciliation_source: the answer comes before the deadline, or the *)
(* deadline passes first and is the recorded finish                          *)
WrkFetch(s, class, facts) ==
    /\ wrk.pc = "fetch" /\ wrk.got[s].class = "pending"
    /\ BegunInTime(s)
    /\ facts \subseteq Window(s)
    /\ class = "complete" => facts = Window(s)
    /\ (class = "timeout") = (clock >= SourceDeadline)
    /\ wrk' = [wrk EXCEPT !.got[s] =
                 [@ EXCEPT !.class = class, !.facts = facts,
                           !.finished = Min({clock, SourceDeadline})]]
    /\ OnlyWrk

WrkFetchRefused(s) ==
    /\ wrk.pc = "fetch" /\ wrk.got[s].class = "pending"
    /\ ~BegunInTime(s)
    /\ wrk' = Goto("failed")
    /\ OnlyWrk

(* Storage, entropy, signing and reducer errors end an attempt anywhere *)
WrkError ==
    /\ wrk.pc \in {"fetch", "prepare", "tip", "finalize", "unanswered"}
    /\ wrk' = Goto("failed")
    /\ OnlyWrk

(* eligible_cursor: only complete evidence, only a strictly newer event *)
EligibleCursor(r) ==
    IF r.class = "complete" /\ r.facts # {} /\ Max(r.facts) > r.prior
    THEN Max(r.facts) ELSE NoEvent

Facts == UNION {wrk.got[s].facts : s \in Sources}
Finished == Max({wrk.got[s].finished : s \in Sources})

(* commit_source_replays revalidates lease, generation and prior cursors *)
ReplayFence(l) ==
    /\ ExactLease(l)
    /\ dirty[l.id[1]] = l.id[2]
    /\ \A s \in Sources : cursor[l.id[1]][s].pos = wrk.got[s].prior

ReplayAdmissible ==
    /\ \A s \in Sources : wrk.got[s].finished < wrk.lease.row.expires
    /\ ReplayFence(wrk.lease)
    /\ DirtyTimeFits(Trade, Facts, Finished)
    /\ \A s \in Sources : EligibleCursor(wrk.got[s]) # NoEvent
                            => CheckpointGuard(cursor[Trade][s], EligibleCursor(wrk.got[s]),
                                               wrk.got[s].finished)

Fetched == \A s \in Sources : wrk.got[s].class \notin {"none", "pending"}

WrkCommit ==
    /\ wrk.pc = "fetch" /\ Fetched /\ ReplayAdmissible
    /\ Persist(Trade, Facts, Finished)
    /\ seen' = [seen EXCEPT ![Trade] = [s \in Sources |-> @[s] \cup wrk.got[s].facts]]
    /\ cursor' = [cursor EXCEPT ![Trade] = [s \in Sources |->
                    IF EligibleCursor(wrk.got[s]) = NoEvent THEN @[s]
                    ELSE [pos |-> EligibleCursor(wrk.got[s]), at |-> wrk.got[s].finished]]]
    /\ attempts' = attempts \cup
         {[id |-> wrk.lease.id, attempt |-> wrk.lease.row.attempt, got |-> wrk.got]}
    /\ wrk' = Goto(IF Root \in Facts THEN "prepare" ELSE "failed")
    /\ UNCHANGED <<relay, reports, outbox, clock, up, policy, mode, sub, adm>>

WrkCommitRefused ==
    /\ wrk.pc = "fetch" /\ Fetched /\ ~ReplayAdmissible
    /\ wrk' = Goto("failed")
    /\ OnlyWrk

(* MATCH_COMMITTED_ATTEMPT_SQL *)
CommittedAttempt(l) ==
    \E a \in attempts : a.id = l.id /\ a.attempt = l.row.attempt

(* prepare_finalization, with the time that commit_finalization will use *)
WrkPrepare ==
    /\ wrk.pc = "prepare"
    /\ wrk' = IF FinalizationFence(wrk.lease, clock) /\ CommittedAttempt(wrk.lease)
              THEN [wrk EXCEPT !.pc = "tip", !.at = clock] ELSE Goto("failed")
    /\ OnlyWrk

ReportsOf(trade) == {r \in reports : r.id[1] = trade}
Tips(trade) ==
    {r \in ReportsOf(trade) : \A q \in ReportsOf(trade) : q.supersedes # r.id[2]}

SupersessionUnread == wrk' = [wrk EXCEPT !.pc = "finalize"]

(* current_verified_supersession: no tip (0), the one tip, or a failure *)
TipRead ==
    wrk' = IF Cardinality(Tips(Trade)) > 1 THEN Goto("failed")
           ELSE [wrk EXCEPT !.pc = "finalize",
                            !.tip = Max({0} \cup {r.id[2] : r \in Tips(Trade)})]

WrkReadTip == wrk.pc = "tip" /\ TipRead /\ OnlyWrk

(* validate_advanced_checkpoints: nobody moved a cursor this attempt set *)
CheckpointsHeld ==
    \A s \in Sources :
        LET c == EligibleCursor(wrk.got[s])
        IN  c # NoEvent => cursor[Trade][s].pos = c

(* attestation_reports_one_successor *)
SoleSuccessor == wrk.tip = 0 \/ \A r \in ReportsOf(Trade) : r.supersedes # wrk.tip

(* validate_supersession *)
SupersededIsStored == wrk.tip # 0 => \E r \in ReportsOf(Trade) : r.id[2] = wrk.tip

(* reconcile_existing looks for any trace of this result first *)
Footprint ==
    \/ jobs[wrk.lease.id].state = "completed"
    \/ \E r \in reports : r.id = wrk.lease.id /\ r.attempt = wrk.lease.row.attempt

Finalizable ==
    /\ ~Footprint
    /\ FinalizationFence(wrk.lease, wrk.at) /\ CommittedAttempt(wrk.lease)
    /\ CheckpointsHeld
    /\ SupersededIsStored /\ SoleSuccessor
    /\ mode = "required" => Cardinality(outbox) < PublicationCapacity
    /\ NotRegressed(wrk.lease.id, wrk.at)

(* The report is built from the attempt's manifest, not from the store; it  *)
(* stands for its outbox row too, which remains when delivery is complete.  *)
Report ==
    [id |-> wrk.lease.id, attempt |-> wrk.lease.row.attempt, facts |-> Facts,
     covered |-> {s \in Sources : wrk.got[s].class = "complete"},
     supersedes |-> wrk.tip, published |-> (mode = "required")]

(* completed_job_matches: the row the leased one became *)
CompletedJobMatches(id, row) ==
    /\ jobs[id].state = "completed" /\ jobs[id].revision = row.revision + 1
    /\ jobs[id].attempt = row.attempt /\ jobs[id].failure = row.failure

RepeatAfterFence == FinalizationFence(wrk.lease, wrk.at) /\ Report \in reports

(* reconcile_existing finds the very result that is presented *)
ExactRepeat ==
    /\ Report \in reports
    /\ CompletedJobMatches(wrk.lease.id, wrk.lease.row)
    /\ CommittedAttempt(wrk.lease) /\ SupersededIsStored

(* commit_finalization.  The commit's acknowledgement may be lost: the next *)
(* state is then the same, with a worker that does not know it.             *)
WrkFinalize(acknowledged) ==
    /\ wrk.pc = "finalize" /\ Finalizable
    /\ Complete(wrk.lease, wrk.at)
    /\ reports' = reports \cup {Report}
    /\ outbox' = IF mode = "required" THEN outbox \cup {wrk.lease.id} ELSE outbox
    /\ wrk' = IF acknowledged THEN Resting(wrk.owner) ELSE Goto("unanswered")
    /\ UNCHANGED <<relay, born, seen, cursor, dirtyAt, attempts, clock, up, policy, mode,
                   sub, adm>>

(* The sealed result is presented once more.  The repository promises this  *)
(* to a caller; the daemon's worker takes the failed path, WrkError.        *)
WrkFinalizeAgain ==
    /\ wrk.pc = "unanswered"
    /\ wrk' = IF ExactRepeat THEN Resting(wrk.owner) ELSE Goto("failed")
    /\ OnlyWrk

WrkFinalizeRefused ==
    /\ wrk.pc = "finalize" /\ ~Finalizable
    /\ wrk' = Goto("failed")
    /\ OnlyWrk

(* record_failure with a jittered delay; a lost lease stops the daemon *)
WrkRecordFailure(delay) ==
    /\ wrk.pc = "failed"
    /\ RecordFailure(wrk.lease, clock, delay)
    /\ wrk' = Resting(wrk.owner)
    /\ UNCHANGED <<evidenceVars, clock, up, policy, mode, sub, adm>>

WrkLeaseLost ==
    /\ wrk.pc = "failed"
    /\ \/ clock >= wrk.lease.row.expires
       \/ ~CasLease(wrk.lease)
       \/ ~NotRegressed(wrk.lease.id, clock)
    /\ Stop /\ UNCHANGED <<vars, evidenceVars>>

-----------------------------------------------------------------------------
SubNext ==
    \/ \E trade \in Trades, s \in Sources, e \in Events : SubReceive(trade, s, e)
    \/ SubRead
    \/ SubCommit
    \/ SubConflict
    \/ SubSchedule
    \/ SubScheduleFails

AdmNext == (\E trade \in Trades : AdmRead(trade)) \/ AdmSchedule

WrkNext ==
    \/ \E id \in JobIds : WrkClaim(id)
    \/ WrkClaimNothing
    \/ \E s \in Sources : WrkReadCursor(s)
    \/ \E s \in Sources, class \in {"complete", "timeout", "incomplete"},
          facts \in SUBSET Events : WrkFetch(s, class, facts)
    \/ \E s \in Sources : WrkFetchRefused(s)
    \/ WrkError
    \/ WrkCommit
    \/ WrkCommitRefused
    \/ WrkPrepare
    \/ WrkReadTip
    \/ \E acknowledged \in BOOLEAN : WrkFinalize(acknowledged)
    \/ WrkFinalizeAgain
    \/ WrkFinalizeRefused
    \/ \E delay \in Delays : WrkRecordFailure(delay)
    \/ WrkLeaseLost

EnvNext ==
    \/ Tick
    \/ Crash
    \/ \E owner \in Owners, p \in Policies, m \in PublicationModes : Restart(owner, p, m)
    \/ \E trade \in Trades, s \in Sources, e \in Events : RelayGains(trade, s, e)
    \/ \E id \in JobIds : PublicationCompletes(id)

PipelineNext == SubNext \/ AdmNext \/ WrkNext \/ EnvNext

PipelineSpec == PipelineInit /\ [][PipelineNext]_pipelineVars

-----------------------------------------------------------------------------
(* Properties *)

PipelineTypeOK ==
    /\ TypeOK
    /\ clock \in Times /\ up \in BOOLEAN /\ policy \in Policies /\ mode \in PublicationModes
    /\ relay \in [Trades -> [Sources -> SUBSET Events]]
    /\ born \in [Trades -> [Events -> 0 .. MaxGeneration]]
    /\ seen \in [Trades -> [Sources -> SUBSET Events]]
    /\ cursor \in [Trades -> [Sources -> [pos : 0 .. MaxEvent, at : Times]]]
    /\ dirtyAt \in [Trades -> Times]
    /\ attempts \subseteq [id : JobIds, attempt : Nat, got : [Sources -> Result]]
    /\ reports \subseteq [id : JobIds, attempt : Nat, facts : SUBSET Events,
                          covered : SUBSET Sources, supersedes : 0 .. MaxGeneration,
                          published : BOOLEAN]
    /\ outbox \subseteq JobIds

(* A checkpoint names an event that was stored and observed at that very    *)
(* source, in the transaction that moved it (commit_source_result 748-852,  *)
(* commit 322-405).                                                         *)
CheckpointsAreBacked ==
    \A trade \in Trades, s \in Sources :
        /\ seen[trade][s] \subseteq Stored(trade)
        /\ cursor[trade][s].pos # NoEvent => cursor[trade][s].pos \in seen[trade][s]

(* The dirty generation counts exactly the transactions that stored new     *)
(* evidence: every generation introduced some event and every stored event  *)
(* belongs to a generation.  Replays, repeated observations and refused     *)
(* commits leave no trace in it.                                            *)
GenerationsCountEvidence ==
    \A trade \in Trades :
        {born[trade][e] : e \in Stored(trade)} = 1 .. dirty[trade]

(* A report of generation g rests on nothing newer than g: an attempt that  *)
(* itself brings in evidence, or that is overtaken by the subscription,     *)
(* cannot be finalized (validate_finalization_identity).                    *)
ReportsRestOnTheirGeneration ==
    \A r \in reports : \A e \in r.facts :
        born[r.id[1]][e] \in 1 .. r.id[2]

(* A job is completed exactly when it has a report, it has one, and the     *)
(* report's attempt was committed with the same evidence: commit_finalization*)
(* is one transaction whatever happens to its acknowledgement.              *)
ReportsAreFinal ==
    /\ \A id \in JobIds :
        jobs[id].state = "completed" <=> \E r \in reports : r.id = id
    /\ \A q, r \in reports : q.id = r.id => q = r
    /\ \A r \in reports : \E a \in attempts :
        /\ a.id = r.id /\ a.attempt = r.attempt
        /\ r.facts = UNION {a.got[s].facts : s \in Sources}

(* Evidence is committed at most once under one attempt id, (job, attempt   *)
(* number), across retries, lost leases and restarts.                       *)
AttemptsAreUnique ==
    \A a, b \in attempts : a.id = b.id /\ a.attempt = b.attempt => a = b

(* The reports of a trade form one chain: each supersedes the newest older  *)
(* one, although the tip is read in another transaction than the one that   *)
(* inserts its successor.  (current_verified_supersession fails for ever    *)
(* once a trade has two tips.)                                              *)
ReportsFormAChain ==
    \A r \in reports :
        r.supersedes = Max({0} \cup {q.id[2] : q \in
                            {o \in ReportsOf(r.id[1]) : o.id[2] < r.id[2]}})

(* A result presented again after it took effect is recognised, whatever    *)
(* evidence, newer jobs, deliveries and time came in between: commit looks  *)
(* for it before it checks the lease, which the first commit consumed.      *)
RepeatsAreExact == wrk.pc = "unanswered" => ExactRepeat

(* The daemon's tasks use the queue as its specification allows, so what    *)
(* holds of the queue for arbitrary callers holds of the daemon.            *)
ImplementsQueue == Spec

(* The durable record is consistent whatever died between two transactions: *)
(* checkpoints rest on observations, generations on evidence, attempts are  *)
(* committed once, and a completed job is one with its one report, which a  *)
(* repeated finalization finds.                                             *)
PipelineInv ==
    /\ PipelineTypeOK
    /\ CheckpointsAreBacked
    /\ GenerationsCountEvidence
    /\ AttemptsAreUnique
    /\ ReportsAreFinal
    /\ RepeatsAreExact

(* README: "Timeout, unavailable, resource-limited, unknown, and            *)
(* unsupported results remain durable".  One source's timeout leaves the    *)
(* sources after it a fetch that can still be recorded.                     *)
TimeoutsRemainRecordable ==
    wrk.pc = "fetch" =>
        \A r, s \in Sources :
            wrk.got[r].class = "timeout" /\ wrk.got[s].class = "pending"
            => BegunInTime(s)
=============================================================================
