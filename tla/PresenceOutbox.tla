---------------------------- MODULE PresenceOutbox ----------------------------
(***************************************************************************)
(* The desired presence of src/src/presence_desired.rs, the exact-byte     *)
(* outbox of presence_publication.rs, initialize_presence and the worker   *)
(* of runtime_graph.rs, and the operator's presence routes.                *)
(*                                                                         *)
(* One daemon owns the database (the foundation's writer authority), and   *)
(* the configuration changes only between two of its lives, so a leased    *)
(* row is touched by nobody but its worker and, after that worker's death, *)
(* by recovery.  Time is relative: a scheduled attempt and a lease carry   *)
(* the ticks they have left, one tick being the initial backoff.  Local    *)
(* transactions take no tick; relay I/O, idling and being down do.  (The   *)
(* clock's own misbehaviour is PublicationOutbox's subject, whose worker   *)
(* has the same shape.)                                                    *)
(***************************************************************************)
EXTENDS Integers, FiniteSets

CONSTANTS
    Sections,      \* presence sections of the configurations applied over time
    TargetCount, Required,
    MaxAttempts, InitialBackoff, MaximumBackoff, AttemptDeadline,
    MaxGeneration, \* bound: desired generations
    MaxCrashes,    \* bound: crashes (failures are not bounded)
    MaxRefreshes,  \* bound: operator refreshes
    Outcomes       \* what the sink may answer

Kinds == {"profile", "handler"}
Targets == 0 .. TargetCount - 1
Outboxes == (1 .. MaxGeneration) \X Kinds        \* UNIQUE (desired_generation, document_kind)
Null == -1
None == <<0, "none">>

OutboxStates == {"absent", "pending", "leased", "complete", "blocked", "superseded"}
TargetStates == {"pending", "submitted", "accepted", "rejected", "rate_limited",
                 "auth_required", "failed", "unknown"}
AllOutcomes == TargetStates \ {"pending", "submitted"}

ASSUME PresenceAssumption ==
    /\ Sections \subseteq [enabled : BOOLEAN, kinds : SUBSET Kinds, relays : STRING]
    /\ TargetCount \in Nat \ {0} /\ Required \subseteq Targets
    /\ {MaxAttempts, InitialBackoff, AttemptDeadline, MaxGeneration} \subseteq Nat \ {0}
    /\ MaximumBackoff \in Nat /\ InitialBackoff <= MaximumBackoff
    /\ MaxCrashes \in Nat /\ MaxRefreshes \in Nat
    /\ Outcomes \subseteq AllOutcomes

(* derive_authority: a disabled section may ask for nothing, an enabled one must ask *)
(* for a document; the digest covers what the section asks for and its relays       *)
Admitted(s) == s.enabled = (s.kinds # {})
Authority(s) == [kinds |-> s.kinds, relays |-> IF s.enabled THEN s.relays ELSE "none"]
Authorities == {Authority(s) : s \in {t \in Sections : Admitted(t)}}
NoAuthority == [kinds |-> {}, relays |-> "never committed"]

(* One row of each table; attempt_id hashes outbox, target and number. *)
Row == [state : OutboxStates, next : 0 .. MaximumBackoff \cup {Null},
        lease : 0 .. AttemptDeadline \cup {Null}]
Target == [state : TargetStates, count : 0 .. MaxAttempts,
           next : 0 .. MaximumBackoff \cup {Null}]
Attempt == [outbox : Outboxes, target : Targets, number : 1 .. MaxAttempts,
            outcome : AllOutcomes]
Desired == [generation : 0 .. MaxGeneration, authority : Authorities \cup {NoAuthority}]

NoRow == [state |-> "absent", next |-> Null, lease |-> Null]
NoTarget == [state |-> "pending", count |-> 0, next |-> Null]

VARIABLES
    desired,   \* presence_desired_state: at most one row, generation 0 for none
    rows,      \* presence_outbox
    targets,   \* presence_targets
    attempts,  \* presence_attempts
    stamped,   \* kinds whose newest document was authored in the current second
    proc,      \* the daemon: startup, then the presence worker
    spent      \* crashes and refreshes so far (bounds)

tables == <<desired, rows, targets, attempts>>
vars == <<tables, stamped, proc, spent>>

Process == [pc : {"down", "stopped", "starting", "render", "idle", "recover", "claim", "prepare",
                  "submit", "sent"},
            authority : Authorities, held : Outboxes \cup {None}, current : BOOLEAN,
            delay : 0 .. MaximumBackoff, target : Targets,
            answer : AllOutcomes \cup {"none"}]

At(pc, a) == [pc |-> pc, authority |-> a, held |-> None, current |-> FALSE,
              delay |-> 0, target |-> 0, answer |-> "none"]
Idle == At("idle", proc.authority)
Down == At("down", proc.authority)
Running == proc.pc \notin {"down", "stopped", "starting", "render"}

Init ==
    /\ desired = [generation |-> 0, authority |-> NoAuthority]
    /\ rows = [o \in Outboxes |-> NoRow]
    /\ targets = [o \in Outboxes |-> [t \in Targets |-> NoTarget]]
    /\ attempts = {} /\ stamped = {}
    /\ proc \in {At("down", a) : a \in Authorities}
    /\ spent = [crashes |-> 0, refreshes |-> 0]

-----------------------------------------------------------------------------
(* Desired state *)

Matches(a) == desired.generation # 0 /\ desired.authority = a

(* commit_desired, a new generation for every semantic change *)
DesiredAfter(a) == [generation |-> desired.generation + 1, authority |-> a]

(* desired_matches_outbox *)
IsCurrent(o) ==
    /\ o[1] = desired.generation
    /\ o[2] \in desired.authority.kinds

RowsOf(g) == {o \in Outboxes : o[1] = g /\ rows[o].state # "absent"}
Stale == {o \in Outboxes : o[1] # desired.generation}

(* generation_matches: rows of the generation exist; a second signing has other bytes *)
Rendered == RowsOf(desired.generation) # {}

(* build_rhi_signed_presence_documents: one document a kind, authored this second *)
SignedNow == desired.authority.kinds

(* validate_document_set and READ_MAX_AUTHORED_SQL: later than every earlier document *)
Later == SignedNow \cap stamped = {}

LeasesIgnored == ~Rendered /\ Later

(* commit_signed refuses a rendered generation, the second of an earlier document *)
(* and a stale lease                                                               *)
Committable == ~Rendered /\ Later /\ \A o \in Stale : rows[o].state # "leased"

(* SUPERSEDE_OUTBOX_SQL, then one row and its targets per document *)
RowAfterCommit(o) ==
    IF o[1] = desired.generation
    THEN IF o[2] \in SignedNow
         THEN [state |-> "pending", next |-> 0, lease |-> Null] ELSE rows[o]
    ELSE IF rows[o].state \in {"pending", "blocked"}
         THEN [state |-> "superseded", next |-> Null, lease |-> Null] ELSE rows[o]

CommitSigned ==
    /\ Committable
    /\ rows' = [o \in Outboxes |-> RowAfterCommit(o)]
    /\ targets' = [o \in Outboxes |->
         IF IsCurrent(o)
         THEN [t \in Targets |-> [state |-> "pending", count |-> 0, next |-> 0]]
         ELSE targets[o]]
    /\ stamped' = stamped \cup SignedNow
    /\ UNCHANGED <<desired, attempts>>

-----------------------------------------------------------------------------
(* Startup: initialize_presence *)

Start(a) ==
    /\ proc.pc \in {"down", "stopped"}
    /\ Matches(a) \/ desired.generation < MaxGeneration
    /\ proc' = At("starting", a)
    /\ UNCHANGED <<tables, stamped, spent>>

(* commit: an exact replay changes nothing, and nothing is rendered *)
DesiredUnchanged ==
    /\ proc.pc = "starting"
    /\ Matches(proc.authority)
    /\ proc' = Idle
    /\ UNCHANGED <<tables, stamped, spent>>

DesiredChanged ==
    /\ proc.pc = "starting"
    /\ ~Matches(proc.authority)
    /\ desired' = DesiredAfter(proc.authority)
    /\ proc' = [proc EXCEPT !.pc = "render"]
    /\ UNCHANGED <<rows, targets, attempts, stamped, spent>>

InitialCommit ==
    /\ proc.pc = "render"
    /\ CommitSigned
    /\ proc' = Idle
    /\ UNCHANGED spent

(* A start that fails on its state ends with the exit status the service unit *)
(* does not restart on                                                        *)
InitialCommitRefused ==
    /\ proc.pc = "render"
    /\ ~Committable
    /\ proc' = At("stopped", proc.authority)
    /\ UNCHANGED <<tables, stamped, spent>>

-----------------------------------------------------------------------------
(* Schedules and dispositions *)

RetryableState(e) == e.state \in {"pending", "failed", "rate_limited", "unknown"}
RetryableOutcome(outcome) == outcome \in {"failed", "rate_limited", "unknown"}

RetryUpperBound(number) ==
    LET raw == InitialBackoff * 2^(number - 1)
    IN  IF raw <= MaximumBackoff THEN raw ELSE MaximumBackoff

TargetIsDue(e) == RetryableState(e) /\ e.count < MaxAttempts /\ e.next = 0

TargetIsBlocking(e) ==
    \/ e.state \in {"rejected", "auth_required"}
    \/ RetryableState(e) /\ e.count >= MaxAttempts /\ e.next = Null

(* target_outcome_schedule: refuses a delay the attempt may not have *)
Schedulable(number, outcome, delay) ==
    IF RetryableOutcome(outcome) /\ number < MaxAttempts
    THEN delay <= RetryUpperBound(number)
    ELSE delay = 0

ConcludedTarget(e, outcome, delay) ==
    [e EXCEPT !.state = outcome,
              !.next = IF RetryableOutcome(outcome) /\ e.count < MaxAttempts
                       THEN delay ELSE Null]

Schedules(ts) == {ts[r].next : r \in Required} \ {Null}

(* disposition with the lease released; only required targets count *)
Released(state, next) == [state |-> state, next |-> next, lease |-> Null]

AnyAccepted(ts) ==
    IF \E r \in Targets : ts[r].state = "accepted" THEN Released("complete", Null)
    ELSE IF \E r \in Required : TargetIsBlocking(ts[r]) THEN Released("blocked", Null)
    ELSE Released("pending", CHOOSE t \in Schedules(ts) : \A u \in Schedules(ts) : t <= u)

Disposition(ts) ==
    IF \A r \in Required : ts[r].state = "accepted" THEN Released("complete", Null)
    ELSE IF \E r \in Required : TargetIsBlocking(ts[r]) THEN Released("blocked", Null)
    ELSE Released("pending", CHOOSE t \in Schedules(ts) : \A u \in Schedules(ts) : t <= u)

Evidence(o, r, outcome) ==
    [outbox |-> o, target |-> r, number |-> targets[o][r].count, outcome |-> outcome]

-----------------------------------------------------------------------------
(* The worker: execute_next_presence *)

ExpiredOfDesired == {o \in Outboxes : rows[o].state = "leased" /\ rows[o].lease = 0 /\ IsCurrent(o)}
Expired == {o \in Outboxes : rows[o].state = "leased" /\ rows[o].lease = 0}
Submitted(o) == {r \in Targets : targets[o][r].state = "submitted"}

(* No retry is sampled for superseded work, nor past the last attempt *)
RecoveryCap(o) ==
    LET open == {r \in Submitted(o) : targets[o][r].count < MaxAttempts}
    IN  IF IsCurrent(o) /\ open # {}
        THEN RetryUpperBound(targets[o][CHOOSE r \in open : TRUE].count) ELSE 0

BeginNothingExpired ==
    /\ proc.pc = "idle"
    /\ Expired = {}
    /\ proc' = [proc EXCEPT !.pc = "claim"]
    /\ UNCHANGED <<tables, stamped, spent>>

(* read_expired_candidate: which of several expired first is forgotten *)
BeginRecovery(o) ==
    /\ proc.pc = "idle"
    /\ o \in Expired
    /\ \E delay \in 0 .. MaximumBackoff :
         /\ delay <= RecoveryCap(o)
         /\ proc' = [proc EXCEPT !.pc = "recover", !.held = o, !.delay = delay,
                                 !.current = IsCurrent(o)]
    /\ UNCHANGED <<tables, stamped, spent>>

RecoveredTargets(o, delay) ==
    [r \in Targets |-> IF r \in Submitted(o)
                       THEN ConcludedTarget(targets[o][r], "unknown", delay)
                       ELSE targets[o][r]]

RecoveredRow(o, current, ts) ==
    IF current THEN Disposition(ts) ELSE Released("superseded", Null)

(* recover_expired: Unknown for what was in flight, then the disposition of a  *)
(* current outbox or the end of a superseded one                               *)
Recover ==
    LET o == proc.held
        ts == RecoveredTargets(o, proc.delay)
    IN  /\ proc.pc = "recover"
        /\ o \in Expired
        /\ attempts' = attempts \cup {Evidence(o, r, "unknown") : r \in Submitted(o)}
        /\ targets' = [targets EXCEPT ![o] = ts]
        /\ rows' = [rows EXCEPT ![o] = RecoveredRow(o, proc.current, ts)]
        /\ proc' = [Idle EXCEPT !.pc = "claim"]
        /\ UNCHANGED <<desired, stamped, spent>>

(* READ_CLAIMABLE_OUTBOX_SQL joins the desired row: stale work is never due *)
DueOfAnyGeneration == {o \in Outboxes : rows[o].state = "pending" /\ rows[o].next = 0}
Due == {o \in Outboxes : rows[o].state = "pending" /\ rows[o].next = 0 /\ IsCurrent(o)}

Claim(o) ==
    /\ proc.pc = "claim"
    /\ o \in Due
    /\ rows' = [rows EXCEPT ![o] =
                  [state |-> "leased", next |-> Null, lease |-> AttemptDeadline]]
    /\ proc' = [proc EXCEPT !.pc = "prepare", !.held = o]
    /\ UNCHANGED <<desired, targets, attempts, stamped, spent>>

ClaimNothing ==
    /\ proc.pc = "claim"
    /\ Due = {}
    /\ proc' = Idle
    /\ UNCHANGED <<tables, stamped, spent>>

DueTargets(o) == {r \in Targets : TargetIsDue(targets[o][r])}

(* prepare_next: the first due target, Submitted before its bytes are exposed *)
Prepare(r) ==
    /\ proc.pc = "prepare"
    /\ r \in DueTargets(proc.held) /\ \A u \in DueTargets(proc.held) : r <= u
    /\ targets' = [targets EXCEPT ![proc.held][r] =
                     [state |-> "submitted", count |-> @.count + 1, next |-> Null]]
    /\ proc' = [proc EXCEPT !.pc = "submit", !.target = r]
    /\ UNCHANGED <<desired, rows, attempts, stamped, spent>>

(* NotReady ends the critical task and the daemon with it *)
PrepareRefused ==
    /\ proc.pc = "prepare"
    /\ DueTargets(proc.held) = {}
    /\ proc' = Down
    /\ UNCHANGED <<tables, stamped, spent>>

(* sink.submit_exact, outside any transaction *)
Submit(answer) ==
    /\ proc.pc = "submit"
    /\ proc' = [proc EXCEPT !.pc = "sent", !.answer = answer]
    /\ UNCHANGED <<tables, stamped, spent>>

SampledDelays(number, outcome) ==
    IF RetryableOutcome(outcome) THEN 0 .. RetryUpperBound(number) ELSE {0}

Recordable(delay) ==
    /\ rows[proc.held].state = "leased" /\ rows[proc.held].lease > 0
    /\ Schedulable(targets[proc.held][proc.target].count, proc.answer, delay)

Record(delay) ==
    LET o == proc.held  r == proc.target
        ts == [targets[o] EXCEPT ![r] = ConcludedTarget(@, proc.answer, delay)]
    IN  /\ proc.pc = "sent"
        /\ delay \in SampledDelays(targets[o][r].count, proc.answer)
        /\ Recordable(delay)
        /\ attempts' = attempts \cup {Evidence(o, r, proc.answer)}
        /\ targets' = [targets EXCEPT ![o] = ts]
        /\ rows' = [rows EXCEPT ![o] = Disposition(ts)]
        /\ proc' = Idle
        /\ UNCHANGED <<desired, stamped, spent>>

(* A late answer, or a delay after the last attempt, is lost with the daemon *)
RecordRefused(delay) ==
    /\ proc.pc = "sent"
    /\ delay \in SampledDelays(targets[proc.held][proc.target].count, proc.answer)
    /\ ~Recordable(delay)
    /\ proc' = Down
    /\ UNCHANGED <<tables, stamped, spent>>

-----------------------------------------------------------------------------
(* The operator *)

(* presence_render: signs again for a generation that has no documents *)
Render ==
    /\ Running
    /\ CommitSigned
    /\ UNCHANGED <<proc, spent>>

BlockedNow == {o \in RowsOf(desired.generation) : rows[o].state = "blocked"}

(* presence_refresh: every blocked row of the generation, and no target *)
Refresh ==
    /\ Running
    /\ spent.refreshes < MaxRefreshes
    /\ desired.authority.kinds # {} /\ BlockedNow # {}
    /\ rows' = [o \in Outboxes |->
                  IF o \in BlockedNow
                  THEN [rows[o] EXCEPT !.state = "pending", !.next = 0] ELSE rows[o]]
    /\ spent' = [spent EXCEPT !.refreshes = @ + 1]
    /\ UNCHANGED <<desired, targets, attempts, stamped, proc>>

-----------------------------------------------------------------------------
(* Time and failure *)

Sooner(n) == IF n > 0 THEN n - 1 ELSE n

Tick ==
    /\ proc.pc \in {"idle", "sent", "down", "stopped"}
    /\ rows' = [o \in Outboxes |-> [rows[o] EXCEPT !.next = Sooner(@), !.lease = Sooner(@)]]
    /\ targets' = [o \in Outboxes |->
                     [r \in Targets |-> [targets[o][r] EXCEPT !.next = Sooner(@)]]]
    /\ UNCHANGED <<desired, attempts, stamped, proc, spent>>

Second ==
    /\ stamped # {}
    /\ stamped' = {}
    /\ UNCHANGED <<tables, proc, spent>>

Crash ==
    /\ proc.pc \notin {"down", "stopped"}
    /\ spent.crashes < MaxCrashes
    /\ spent' = [spent EXCEPT !.crashes = @ + 1]
    /\ proc' = Down
    /\ UNCHANGED <<tables, stamped>>

WorkerStep ==
    \/ BeginNothingExpired
    \/ \E o \in Outboxes : BeginRecovery(o)
    \/ Recover
    \/ \E o \in Outboxes : Claim(o)
    \/ ClaimNothing
    \/ \E r \in Targets : Prepare(r)
    \/ PrepareRefused
    \/ \E answer \in Outcomes : Submit(answer)
    \/ \E delay \in 0 .. MaximumBackoff : Record(delay)
    \/ \E delay \in 0 .. MaximumBackoff : RecordRefused(delay)

StartupStep ==
    \/ \E a \in Authorities : Start(a)
    \/ DesiredUnchanged
    \/ DesiredChanged
    \/ InitialCommit
    \/ InitialCommitRefused

Next == StartupStep \/ WorkerStep \/ Render \/ Refresh \/ Tick \/ Second \/ Crash

(* The service manager restarts a daemon that crashed or lost a critical task, the *)
(* operator starts one that stopped on its state again, the runtime polls its      *)
(* tasks and time passes.  Nobody need ever render or refresh.                     *)
Spec ==
    /\ Init /\ [][Next]_vars
    /\ WF_vars(StartupStep) /\ WF_vars(WorkerStep)
    /\ SF_vars(Tick) /\ WF_vars(Second)

-----------------------------------------------------------------------------
(* Properties *)

(* Types, and the shapes valid_outbox_shape and valid_target_shape admit. *)
PresenceTypeOK ==
    /\ desired \in Desired
    /\ rows \in [Outboxes -> Row]
    /\ targets \in [Outboxes -> [Targets -> Target]]
    /\ attempts \subseteq Attempt
    /\ stamped \subseteq Kinds
    /\ proc \in Process
    /\ \A o \in Outboxes :
         /\ (rows[o].state = "leased") = (rows[o].lease # Null)
         /\ (rows[o].state = "pending") = (rows[o].next # Null)

(* Only documents of the desired generation go out: a configuration that was   *)
(* replaced, or presence that was switched off, stays silent through restarts, *)
(* interrupted starts and recoveries, though its rows may still be pending.    *)
OnlyDesiredGoesOut ==
    proc.pc \in {"submit", "sent"} => IsCurrent(proc.held)

(* Once a generation has its documents no older one has work left: all of it *)
(* was delivered or superseded, whatever was leased or blocked at the change. *)
OlderWorkIsSettled ==
    \A o \in Stale :
      Rendered /\ o[1] < desired.generation =>
        rows[o].state \in {"absent", "complete", "superseded"}

(* The attempts of a target are 1 .. attempt_count, each with one outcome; only *)
(* the one in flight, of a leased outbox, is missing.                           *)
PresenceEvidenceIsGapless ==
    \A o \in Outboxes, r \in Targets :
      LET evidence == {a \in attempts : a.outbox = o /\ a.target = r}
          flying == r \in Submitted(o)
      IN  /\ flying => rows[o].state = "leased"
          /\ Cardinality(evidence) = targets[o][r].count - (IF flying THEN 1 ELSE 0)
          /\ \A a \in evidence : a.number <= targets[o][r].count

(* Types, evidence and supersession hold together at every crash point. *)
PresenceInv ==
    /\ PresenceTypeOK
    /\ PresenceEvidenceIsGapless
    /\ OlderWorkIsSettled

(* A lease is always released, whoever held it and whatever became of the *)
(* daemon and of the desired state since.                                 *)
LeasesAreReleased ==
    \A o \in Outboxes : (rows[o].state = "leased") ~> (rows[o].state # "leased")

(* A desired document is delivered, blocked or superseded in the end: no retry *)
(* schedule, refusal, restart or refresh leaves it pending for ever.           *)
DesiredWorkSettles ==
    \A o \in Outboxes :
      (rows[o].state = "pending" /\ IsCurrent(o)) ~>
        (rows[o].state \in {"complete", "blocked", "superseded"} \/ ~IsCurrent(o))

(* Both: nothing the daemon takes up is held or owed for ever. *)
PresenceSettles == LeasesAreReleased /\ DesiredWorkSettles

(* README, "Durable exact-byte presence publication": expired work of a superseded *)
(* generation is superseded, "preventing stale leases from blocking the current    *)
(* generation forever".  The desired generation gets its documents.                *)
DesiredIsRendered ==
    \A g \in 1 .. MaxGeneration :
      (desired.generation = g /\ desired.authority.kinds # {}) ~>
        (RowsOf(g) # {} \/ desired.generation # g)

(* The promise *)
PhaseOf(o) ==
    CASE rows[o].state \in {"pending", "leased"} -> "open"
      [] rows[o].state = "superseded" -> "withdrawn"
      [] OTHER -> rows[o].state

AcceptedBy(o) == {r \in Targets : targets[o][r].state = "accepted"}

Promise == INSTANCE WithdrawablePromise WITH
    Items <- Outboxes,
    phase <- [o \in Outboxes |-> PhaseOf(o)],
    accepted <- [o \in Outboxes |-> AcceptedBy(o)]

(* An outbox completes exactly when its last required relay accepts, is withdrawn *)
(* only by a change of the desired presence, and is then left alone.              *)
KeepsPresencePromise == Promise!WithdrawableSpec
=============================================================================
