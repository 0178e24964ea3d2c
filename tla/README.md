# Verification of rhi

rhi is a daemon that watches Nostr relays for signed trade events, keeps them as
durable evidence, reconciles each trade into a signed attestation report, and
publishes the exact report bytes, and a presence document of its own, to its
write relays. All durable state is one SQLite database; every change is a
transaction guarded by compare-and-swap statements and triggers. This directory
holds TLA+ models of the parts that carry that logic, TLC configurations that
check them on small instances, and TLAPS proofs of what holds for every
instance. `PROJECT.json` maps each definition to the source lines it
translates. Paths below are relative to the repository.

## 1. Inventory

### Components, their state and operations

| component | state | operations |
|---|---|---|
| job queue, `src/reconciliation_job.rs` | `reconciliation_jobs`, `trade_dirty_generations` | `schedule_trade`, `claim_next`, `renew`, `record_failure`, completion inside the finalization |
| sources, `src/source_ingest.rs`, `src/trade_ingest.rs`, `src/state_trade.rs`, `src/runtime_graph.rs` | mutations, signed events, observations, checkpoints, dirty generations | a paged, bounded query and its fenced commit; a live event, committed with its checkpoint, then scheduled |
| reconciliation worker, `src/runtime_graph.rs`, `src/reconciliation_{attempt,replay,commit,finalization,finalization_commit}.rs` | `evidence_reconciliations` and its sources, manifests, projections, `attestation_reports`, the outbox insert | claim, read checkpoints, query sources in turn, commit evidence, read the tip, finalize, or record the failure |
| manifest, reducer, attestation, `src/reconciliation_{manifest,reducer,attestation}.rs` | none (pure) | canonicalize a replay, freeze a manifest, reduce, evaluate the claim, sign |
| publication outbox and worker, `src/publication*.rs` | `publication_outbox`, `publication_targets`, `publication_attempts` | read an expired lease, recover it, claim, prepare, submit, record, reconcile a repeated record |
| presence, `src/presence_desired.rs`, `src/presence_publication.rs` | the desired state with its generation, presence outbox, targets, attempts | commit a desired state, sign and commit its documents superseding older ones, recover, claim, prepare, submit, record, render, refresh |
| admin service, `src/admin_v1.rs`, `src/runtime_admin.rs`, `src/state_admin.rs` | `rhi_admin_operations`, the accepting flag, cursor keys | admit a request, check its generation, prepare, work, complete; or all in one transaction; list pages |
| installation, `src/state_{host,config,metadata,maintenance}.rs`, `src/config_loader.rs`, `src/identity_*.rs` | configuration file, envelope file, database file, binding history, writer authority, backup | `config init`, `config apply`, `state init/verify/migrate/restore`, `identity init`, `run` |
| configuration document, `src/config_v1.rs` | none (pure) | schema, defaults, relationships, effective projection; each consumer's own bounds |
| daemon supervision, `src/runtime_{graph,foundation,signal,context}.rs`, `src/status_v1.rs` | tasks, readiness, two status caches, shutdown phase | ordered start, select loop, phased shutdown, process result |
| doctor, `src/doctor_v1.rs`, `src/system_doctor.rs` | none | bounded checks, aggregation, exit code |
| transport, CLI, admin framing, operations server, diagnostics | mostly none | I/O, parsing and read-only projections |

### How they interact

The subscription and the worker share the evidence tables and meet in the job
queue: a transaction that stores new evidence advances the trade's dirty
generation, a second transaction schedules a job for it, the worker claims that
job, commits its own evidence under a replay fence, and finalizes only if the
generation is still the one it was claimed for. The finalization inserts the
report and its outbox in one transaction; from there the publication worker owns
it. The presence worker serves a second outbox that the configuration fills when
the daemon starts. The operator reaches all of them through the admin server,
whose journal makes each mutation retriable. The commands of the CLI and the
daemon meet in the database file, over which one process at a time has the
writer's authority, and in the binding history that ties the database to one
configuration document. Tasks share nothing in memory that matters here, apart
from the health channel, the status caches and the accepting flag: they
communicate through rows, and between two of their transactions what they know
may be stale.

### What is hard

Leases held across relay I/O while the row moves on; a process that dies between
two transactions, or between a file and its directory; clock readings that are
stale, equal or step back; answers that arrive at the deadline, or after recovery
has spoken for them; two transactions where one was meant; a result that is cut
short; an operator who retries what may already be done; counters and sums at
their limits; cached verdicts that several writers must keep in agreement; bounds
that two parts of the code both check and must agree on. `PROJECT.json`,
"hazards", lists each with its line and the property that watches it. A hazard
with no property says why.

### What correctness means

- Queue: at most one job of a trade is active and it is the newest; a lease whose
  row moved on changes nothing; an attempt number is never shared, reclaimed
  early or given up early; the capacity holds; every reader accepts the rows.
- Evidence: a query that moves the checkpoint leaves nothing of its window
  unseen; the checkpoint never goes back; neither the manifest nor the material
  depends on the order of arrival; a verdict rests on every required source, and
  the same events decide the same from whichever sources they came.
- Pipeline: checkpoints name observed evidence; generations count evidence;
  a report rests on evidence no newer than its generation, is committed exactly
  once, and the reports of a trade form one chain.
- Publication: an attempt identity goes out once; the evidence of attempts has
  no gap and no duplicate; the outbox row agrees with its targets; complete
  means every required relay holds the event; old bytes never go out under a new
  authority.
- Presence: only documents of the desired generation go out; once they are
  committed no older one has work left; nothing is held or owed for ever.
- Admin: the work of a retained operation is done at most once; success is
  answered only from a durable receipt; a walk through an append-only list shows
  all it promised.
- Installation: a serving daemon is the one the database is bound to; every
  build that may open a state can read its history; dirty trades are under the
  bound policy; a file reported as created stays, but for a window in its
  neighbours' cleanups (section 6).
- Daemon: readiness follows the subscription; nothing starts once Stopping can be
  seen; exit 0 is a clean stop; a stop order ends the process.
- Configuration: defaults change no meaning; what is admitted runs.

## 2. Modules

| module | what it is |
|---|---|
| `ReconciliationJobs` | the job queue for arbitrary callers, clocks and leases |
| `DoctorProbes` | the readers that judge its rows: triggers, doctor probes, aggregation (EXTENDS the queue) |
| `ReconciliationPipeline` | composes the queue (EXTENDS) with subscription, worker, refresh, crash and restart |
| `SourceIngest` | one source and one trade: page loop, fenced commit, live events |
| `EvidenceEvaluation` | replay, manifest, coverage, evaluation, attestation |
| `Evidence` | composes the two: a behaviour is one of the sources or takes one input to its verdict |
| `DeliveryPromise` | abstract specification of an outbox |
| `PublicationOutbox` | the detailed outbox, its workers and the operator's retry; instantiates `DeliveryPromise` |
| `WithdrawablePromise` | `DeliveryPromise` with withdrawal (EXTENDS it) |
| `PresenceOutbox` | desired presence, its outbox, the daemon's start and worker, under fairness; instantiates `WithdrawablePromise` |
| `AdminJournal`, `AdminPages` | the operator's mutations and lists |
| `Installation` | the files and the database as the commands leave them |
| `DaemonLifecycle` | start, select loop, shutdown, status, under fairness |
| `Configuration` | admission of a document and the bounds applied to it later |
| `ReconciliationProofs`, `EvidenceProofs`, `PublicationOutboxProofs`, `PresenceOutboxProofs`, `AdminProofs`, `InstallationProofs`, `DaemonLifecycleProofs`, `ConfigurationProofs` | the theorems: of the queue with its readers and the pipeline, of the sources and the evaluation, of the journal and the pages, and of the module each other is named for |
| `MC*` | TLC instances: `MCReconciliationJobs`, `MCReconciliationPipeline`, `MCPublicationOutbox` (contention), `MCPublicationTargets` (answers), `MCPresenceOutbox`, `MCAdmin`, `MCEvidence`, `MCInstallation`, `MCDaemonLifecycle`, `MCConfiguration` |

One SQLite transaction is one action. What a task carries from one transaction
to the next is in its own record, so a model state between two actions is
exactly a program state between two transactions, stale copies included.
Definitions keep the source's names where possible. Beside some definitions
stands a variant named for a fault (`LeasedUncounted`, `LeasesIgnored`,
`CleanupByName`, ...). No action uses these: each is a plausible slip in the code
that one property is known to catch.

### ReconciliationJobs and DoctorProbes

`jobs` is the table, keyed by trade and generation (the job identifier is a hash
of the two); `dirty` the generation of each trade; `leases` every lease value
ever returned. `Schedule`, `Claim`, `ClaimNothing`, `Renew`, `RecordFailure` and
`Complete` are the repository's methods with their early errors as guards, and
`AdvanceDirty` is the write of the ingest transactions. Every method takes its
clock reading as an argument in the code, so every action takes any reading; any
lease ever issued may be presented at any time. What holds here therefore
depends on no clock, no task structure and no caller discipline. `Claim` is the
whole method: it first exhausts expired final attempts, then takes the first
eligible job in the code's order. Ties the code breaks by hash are free choices.

`DoctorProbes` states, from their own sources, what three independent readers ask
of a row: `decode_job`, the shape triggers of the catalog, and the doctor's two
SQL probes with the aggregation into an exit code. `JobsAreSound` says they agree
in every reachable state.

### ReconciliationPipeline

`sub` is `run_source_subscription` (receive, read the checkpoint, commit, then
schedule), `wrk` is `run_reconciliation_worker` with
`execute_reconciliation_attempt` (claim, a checkpoint read and a fetch per
source, commit, prepare, read the tip, finalize, or record the failure), `adm`
the operator's refresh. `Stop`, `Crash` and `Restart` are the daemon: a failing
critical task takes everything down, a restart draws an owner, a policy and a
publication mode. A claim is refused for a job of another attempt policy; the
queue's capacity is no part of that (`AttemptPolicyMatches`). The answer of a
finalization may be lost (`WrkFinalize(FALSE)`): the worker then either takes the
failed path, as the daemon does, or presents the sealed result again, as
`commit_finalization` documents (`WrkFinalizeAgain`), and `ExactRepeat` is what
`reconcile_existing` compares. The
three tasks read one forward-moving clock. Evidence is abstract: event e of a
trade is the e-th in cursor order and event 1 roots the lineage; `born[e]` is
the generation whose transaction stored it. Relays gain events at any time.
Transport results are classed complete, timeout or incomplete.

### SourceIngest and EvidenceEvaluation

`SourceIngest` opens up what the pipeline keeps abstract. `walk` is one query of
either kind ("ingest" of `ingest_rhi_trade_source`, "reconcile" of
`fetch_reconciliation_source`): they differ in the clock events are admitted at,
in what they count against the limit, and in whether the deadline is looked at
again. A page is any set the selector matches, no larger than was asked for; it
may be the last, be followed by more, exceed a limit, be partial or cancelled, or
not come at all. Admission is a conjunction of the code's checks, of which each
event may fail one, and the authored-time policy. `Commit` compares checkpoint
and generation with what `Begin` read; `Live` is the subscription beside it. The
walk remembers the clock and the relay as they were when it began (`at`,
`began`), which is what `QueriesStrandNothing` is about.

`EvidenceEvaluation` takes one input through the stages after the queries. The
replay half sorts, removes duplicates and builds the reducer's material; its
reference is that every permutation of the arrivals gives the same result.
`Material` is the code's loop as a function of how many facts it has consumed. The
verdict half merges what the sources returned, in their order (`Gathered`),
computes coverage from every combination of their results, lets the external
reducer say anything, and classifies. What the reducer is given is recorded
(`Given`), since that, with a pure reducer, is all a projection can depend on.
The events of an optional source that nobody else has may change the verdict;
the policy wants that ("include_admitted_evidence"), so nothing is claimed of it.

### PublicationOutbox

`rows`, `targets` and `attempts` are the three tables; `wrk[w]` is a worker:
its clock reading, the candidate or lease it holds as it read it, the target it
prepared, the relay's answer. `BeginNothingExpired`, `BeginRecovery` and
`BeginRefused` are the first transaction of `recover_one_expired_publication`,
`Recover`/`RecoverRefused` its second; `Claim*` is `claim_next`, `Prepare*`
`prepare_next`, `Submit` the sink, `Record`, `RecordReconciled` and
`RecordRefused` the recording transaction; `PublicationRetry` is the operator.
A refused step ends the critical task: pc `"failed"`, from which only `Start`
leads on. The clock is any reading at every point where the code takes one. The
relay may keep an event whatever it answers. `Insert` is the outbox part of the
finalization, which is modelled in full as `WrkFinalize` in the pipeline.
Several workers are allowed because the publication contract names concurrent
workers, and because two daemons over one database are what leases are for.

`DeliveryPromise` knows only the phase of an item and who accepted it.
`KeepsThePromise` maps `pending` and `leased` to open and a target's state
`accepted` to membership.

### PresenceOutbox

The tables are those of the publication, joined to the one desired row. A
document is identified by generation and kind. `Start`, `DesiredUnchanged`,
`DesiredChanged`, `InitialCommit` and `InitialCommitRefused` are
`initialize_presence`, two transactions with a signature in between; the worker
has the steps of `execute_next_presence`; `Render` and `Refresh` are the
operator's. Here time is relative (ticks left), because the subject is what
eventually happens; the misbehaviour of a wall clock is `PublicationOutbox`'s.
Documents are authored in whole seconds, and a commit within the second of an
earlier document of its kind is refused: `stamped` and `Second`. A daemon that
lost a critical task or crashed is restarted by its service unit; one whose start
failed on its state is not (`stopped`), and waits for the operator.

### AdminJournal and AdminPages

`AdminJournal` has the three ways a mutation goes: refused at admission; check
the generation, prepare, work, complete, each a step of its own with failures and
commits whose outcome the host cannot learn; or everything in one transaction.
What the work is belongs to the other modules; here it has a number, so that work
done twice, or a receipt of other work, shows. `AdminPages` has the lists: rows
are appended (reports), rewritten (jobs, backlog, targets) or fixed (sources)
between two pages of an operator's walk. A row's place is the number of rows the
ORDER BY puts before it, and a page (LIMIT and OFFSET) is the set of the rows
whose place lies in its interval. The two share no state, and `MCAdmin` runs one
or the other.

### Installation

Processes execute commands step by step over two create-once files, the database
with its schema version, binding history and dirty trades, and a backup. A file
is created, written, synced; `inode` is who created what the name leads to,
`durable` whether its directory was synced, `told` which creations were reported.
A command that fails compares the inode (`Cleanup`) and then unlinks the name in a
step of its own (`Unlink`), whatever the name leads to by then; `swept` records
where the operator removed the file in between.
Every command samples a clock and runs some build, both free: the clock may have
stepped back, the operator may have upgraded or downgraded. `Crash` kills one
process, `PowerLoss` all, with what was not synced.

### DaemonLifecycle

The main task goes through the startup steps with the errors each can return,
announces itself, selects among signals, health changes, task exits and ticks,
and shuts down in phases. Tasks and requests step between any two of its steps.
Publishing a status is two steps, the operations projection and the detail. All
of it is finite, so nothing is bounded.

### Configuration

A document is a function from JSON pointers to values. `DEFAULTS` joins the tables
of the sections, each field with what the schema allows and its default. The
stages are the code's: header, schema (with the types of the switches, the modes
and the target lists), defaults, schema again, relationships, projection; then what the
daemon asks of the admitted document when it starts, when an event arrives, when
an attempt is planned and when its report is stored. The question is whether the
bounds agree. `MCConfiguration` enumerates, for each group of related fields,
every combination of values at, just inside and just outside each bound, absent
values included, about 36 thousand states in all.

## 3. Runs

| run | instance | shows |
|---|---|---|
| `jobs` | 2 generations, 2 owners, times 0..4, 2 attempts; or 2 trades, capacity 1, times 0..2 | types; newest active; fencing; sound rows and attempts; lifecycle; claim timing |
| `pipeline` | 1 trade; 2 events, 2 generations, times 0..3, 1 attempt; or 1 event, 2 attempts, times 0..5; or 2 sources with one event, times 0..3; publication required, switched between attempts, or disabled | reports rest on their generation, form a chain, are final and recognised when presented again; checkpoints, generations and attempts are backed; every daemon step is a queue step |
| `publication` | 1 outbox, 2 attempts, 2 workers, 2 owners, 2 authorities, times 0..2 | single submission, observed evidence, agreement of the three tables, authority fence, lifecycle |
| `publication_targets` | 2 required targets, every outcome, 1 operator retry | delivery and the promise |
| `presence` | 3 admitted sections, 2 generations, 2 targets of which 1 required, 2 attempts, 2 crashes, 2 refreshes | silence of replaced documents, settled older work, the promise, liveness |
| `admin` | 2 clients, 2 operation ids, an external and a database route, times 0..2; 3 rows on pages of 1 | work once, bounded journal, durable success; complete lists |
| `evidence` | 4 events, times 0..4, limit 2, pages of 2; up to 4 arrivals of 5 facts; 2 sources with every requirement and result and 5 replays, 32 answers of the reducer | nothing stranded by a query, monotone checkpoint, order of arrival, what a verdict rests on |
| `installation` | 2 documents, 2 processes, 5 commands, 2 builds, 2 clock readings | bound service, readable history, policy of dirty trades, reported files |
| `daemon` | 5 tasks, 1 connection, 1 kind of signal | readiness (safety and liveness), refusal when stopping, clean exit, termination |
| `configuration` | boundary documents under both profiles | neutral defaults, exact projection, admitted documents start, ingest and, but for the long deadline, reconcile |
| `evidence_live`, `configuration_attempt` | as above | expected violations, section 6 |

Several listed properties are conjunctions of named parts, so that one run of one
instance carries what belongs together: `JobsAreSound` (`DoctorAcceptsJobs`,
`AttemptHasOneOwner`, `ExhaustedMeansSpent`), `PipelineInv` (`PipelineTypeOK`,
`CheckpointsAreBacked`, `GenerationsCountEvidence`, `AttemptsAreUnique`,
`ReportsAreFinal`, `RepeatsAreExact`), `TablesAgree` (`OneInFlight`, `EvidenceIsGapless`,
`DispositionAgrees`, `DueOutboxHasDueTarget`), `PresenceInv`, `PresenceSettles`,
`JournalInv`, `EvidenceInv`, `InstallationInv`, `DaemonInv`,
`ConfigurationIsFaithful` and `AdmittedRuns`. Each part has its own comment in
its module.

### Bounds and why they are enough

Two generations are enough to supersede, and a second supersession repeats the
first. Two owners and two attempts give an old and a new lease of one row, a
retry and a last attempt. The lease is two ticks in the queue, so that a renewal
can fall in its last tick and a later time still exist. In the publication
runs the deadline is one tick and the backoff at most one, and time 0..2 holds a
claim, its expiry, a recovery with a delay, a second claim and its expiry; `MaxTime` itself
is the code's millisecond limit, so sums that do not fit happen. `MaxRevision`
stops claims, not other steps: 6 admits two full attempts with a recovery each
on one target, 10 two targets with an operator retry. Two targets are what
disposition distinguishes: all, some, none accepted.

Two instances have several scopes, chosen in the initial state (`scope`, in the
pipeline the daemon's policy), because the product is out of reach and nothing
needs it: contention for one row does not involve a second row, and competition
of two rows for a place does not involve contention. The MC modules say what each
scope leaves out. `publication` has one outbox: its properties speak of one
outbox at a time, and the order in which due or expired ones are taken, which a
second would show, changes none of them. The theorems hold for any number. In
`presence` two refreshes are enough to meet the refresh that finds no target to
try, which ends the daemon (`PrepareRefused`).

The journal has two ids, a capacity of two and one prepared row, so every limit is
met by one retry or one other operation; the clock's last reading is one at which
a receipt's expiry no longer fits. The evidence run has two events in one second,
one refused event, one far behind and one in the future, and a limit that two
events meet and three exceed. Its deadline is longer than its overlap and two seconds
more, so the event that is in the future on one page and past on the next happens
(section 6). The installation's five commands are enough for
initialize, apply, restart, back up, restore, or for two commands racing over a
file with a third retrying; two bindings fill the history.

Symmetry is used only over owners, workers, clients, ids and processes that
nothing compares or orders, and over the two documents of the installation
together with what they name; never where a liveness property is checked.
Deadlock is checked except in `admin`, `installation` and `configuration`, where
a behaviour really ends: counted work and commands run out, a walk is done, a
document has gone its way.

### Fairness

`PresenceOutbox`: weak fairness of the start and of the worker's steps (the
service unit restarts the daemon, the runtime polls its tasks, each transaction
returns), strong fairness of the tick, weak of the second. Strong, because a
daemon may be busy at every moment one looks and time passes all the same.
Nothing is assumed of the operator's mutations or of the relay's answers; a
daemon that stopped on its state is started again by someone.

`DaemonLifecycle`: weak fairness of what the main task does outside its select,
where every await of the start and the shutdown has a deadline; strong fairness of
the signal, health and join branches, because tokio's select is unbiased and
ticks may disable and enable a branch for ever. Nothing is assumed of tasks,
relays and administrators: a task may ignore its cancellation, which the grace
period ends.

The remaining modules state safety only. With wall-clock readings that may stand
still or step back nothing must eventually come due in them.

## 4. Proofs

Eight modules hold theorems; `PROJECT.json`, "theorems", lists them. They hold
for every value of the constants: any number of trades, owners, policies,
outboxes, targets, workers, clients, documents and processes, every retry policy
and bound, every clock. They use only the named assumptions of the modules, which
TLC evaluates on every run: bounds are naturals, policies are the ones
`RhiReconciliationJobPolicy::new` admits, null values are not identifiers and not
rows, required targets are targets, outcomes are known. Four deserve a word.
`MaxTime > 0` in the pipeline: the clock has more than one reading. `IsFiniteSet(Ids)`
in the journal: rows are counted, and a table is finite. `None` is neither a file
nor a database in the installation: absence is not content. A configuration
document is a function, of which nothing else is assumed: not which pointers it
has, nor what their values are.

Every safety proof has the same shape. The property is not inductive, since it
speaks of durable rows and the danger lies in what a task still carries from its
last transaction; the inductive invariant adds, for each program point, what the
task knows there and why nobody else can have made it untrue (a fence, a lease,
the writer's authority, a number already taken). It was checked by TLC on the
instance of the run before it was proved. One lemma per action then shows that the
action keeps it, frame lemmas that what an action does not touch stays.

`ReconciliationProofs`, first part (queue and doctor's probes)
- `TypeCorrect`, `LifecycleHolds`, `ClaimsWaitHolds`: each update has a lemma
  giving its columns; `RowSteps` says that a step does one of six things to a row;
  the proofs argue from those. A row becomes exhausted in only two of its updates,
  and `ExhaustionSteps` says what each has read before. The lifecycle needs that an absent id carries blank
  columns.
- `FencingHolds`: a lease never has a larger revision than its row, and one of
  equal revision is the row. Inductive together with the lifecycle.
- `NewestHolds`: strengthened by "no job is ahead of its trade's dirty
  generation", without which a job could appear behind the active one.
- `JobsAreSoundHolds`: inductive as `AbsentIsNoRow`, `RowsAreSound` (each row by
  itself, with "a leased row failed fewer times than it was attempted"),
  `QueueFits` (the active rows are finitely many and within some policy's
  capacity: the doctor counts them), `LeasesFollow` and `AttemptHasOneOwner`.

`ReconciliationProofs`, second part (pipeline), invariant `DaemonIInv`
- `ImplementsQueueHolds`: each step of subscription, worker, refresh, crash and
  restart is a step of `ReconciliationJobs` or leaves its variables alone, so the
  queue's theorems apply to the daemon. It needs the invariant: a queue step asks
  for a lease that was issued and a generation that exists.
- `PipelineInvHolds`, `ReportsRestHolds`, `ChainHolds`: `DaemonIInv` adds what
  the worker relies on between its transactions (`WorkerHolds`: before its commit
  no attempt on record has its number, afterwards its evidence is stored and its
  attempt on record, and the tip it read is still the newest report) and that no
  attempt on record is ahead of its job (`AttemptsCounted`). Nobody else writes
  reports, and the finalization's generation fence ties the evidence to the
  generation the report is stored under. A completed job, its report and its
  committed attempt never change again (`ExactStays`), so a repeat is exact
  whenever it comes.

`PublicationOutboxProofs`
- `OutboxTypeCorrect`: the schedule of a pending outbox is the least of a
  nonempty set of naturals (`LeastElement`, from well-foundedness of `<`), and
  `HasDisposition`, the code's `ok_or(Invariant)`, is what makes the set
  nonempty.
- `TableSteps` (six cases for the tables of one outbox) and `ProcessSteps` (five
  for a worker) carry the remaining proofs.
- `OutboxLifecycleHolds` and `PromiseKept` (refinement of `DeliveryPromise`)
  need `AbsentIsBlank`: an outbox that is not committed has blank targets. For
  the refinement, insert is Commit, recovery and recording are Offer, the
  operator's retry is Reopen and everything else stutters.
- `CompleteDelivered` by `Delivery`: an accepted target, and a recorder about to
  record acceptance, have their event at the relay; complete means all required
  accepted.
- `AttemptsGoOutOnceHolds` and `EvidenceIsObservedHolds` by `CountsBound` (every
  number sent or in flight is at most the durable count) and `Distinct` (two
  workers in flight carry different attempts; a recorder's went out). Prepare
  raises the count in the transaction that hands the number out, so a new number
  exceeds every old one.
- `ServedUnderItsAuthorityHolds` by `HeldUnderAuthority`: from its claim on a
  worker holds a committed outbox of its authority, and a committed outbox keeps
  its authority.

`PublicationOutboxProofs`, last part, invariant `TablesIInv`
- `TablesStayConsistent`: at most one attempt is in flight and only on a leased
  outbox, the attempt rows of a target are exactly its count less the one in
  flight, the outbox row is the disposition of its targets. True of every
  reachable state.
- `TablesAgreeHolds`: the fourth part of `TablesAgree`, that a due outbox has a
  due target, is false after the operator retries an outbox whose attempts are
  spent (finding 5); the theorem says that it holds until the first retry. The
  run has the same scope.

`PresenceOutboxProofs`, invariant `PresenceIInv`
- `PresenceInvHolds`, `OnlyDesiredGoesOutHolds`: the desired row changes only
  while no worker is between its claim and its record, so what was current at the
  claim is current at the submission (`WorkerHolds`); nothing exists of a
  generation not yet desired (`FutureIsAbsent`), and a commit of documents settles
  every older row in the same transaction. `EvidenceCounts` is the evidence with
  its cardinality.
- `PresencePromiseKept`: refinement of `WithdrawablePromise` along the argument of
  `PromiseKept`, supersession being Withdraw.

`AdminProofs`, invariants `JournalIInv` and `PagesIInv`
- `JournalInvHolds`: no two handlers work under one row (`SoleWorker`), since
  admission never hands a prepared row to a second one, and a handler at work
  carries its request and its result (`HandlersCarry`), so the work is done once.
  The limits hold because count and insert are one transaction.
- `SuccessIsOnRecordHolds` follows step by step.
- `PagesMissNothingHolds`: what a walk owes has been shown or is still `Coming`,
  at the cursor's offset or after it. A report finalized in between moves the rows
  of the snapshot to the same or a later place and never to an earlier one, and the
  rows of a list occupy its places one to one, so a page that is not full is the
  last (`LastPageShowsTheRest`). For jobs the middle step fails, which is finding 9.

`DaemonLifecycleProofs`, invariant `DaemonIInv`
- `ReadinessIsCurrentHolds`: the health channel holds the last change until the
  loop takes it (`HealthIsSent`, `HealthIsTaken`), and both caches follow what was
  taken (`CachesFollow`).
- `DaemonInvHolds` (`CleanExit`): what each phase of the shutdown leaves behind
  (`EarlierPhasesAreOver`, `CompletedIsClean`, `WorkIsTraced`, `SuccessIsEarned`).
- `StoppingRefusesMutationsHolds` by `StoppingIsSaidLast`: the accepting flag
  falls before either cache says Stopping.

`InstallationProofs`, invariant `InstallationIInv`
- The state half: a process between taking the writer's authority and giving it
  up is alone (`SoleWorker`), so what it read of schema and binding is still true
  (`WorkOk`). With lemmas that every transaction leaves a sound database sound
  (`MigratedIsSound`, `BoundIsSound`, `AppliedIsSound`, `IngestedIsSound`) this
  gives `InstallationInvHolds`, `ServesWhatIsBoundHolds` and
  `DirtyFollowsPolicyHolds`.
- The files half: a name that leads to the inode a process created holds what it
  wrote, and a reported file is durable and nobody's (`ToldAreSettled`). A process
  about to unlink a name that was not swept finds its own file there, or a document
  the operator put over it, and is the only one about to unlink it (`FileOk`,
  `NoRivals`). This gives `ReportedFilesStayHolds`.

`EvidenceProofs`, invariants `SourceInv`, `VerdictInv` and `ReplayInv`
- `SourceInvariant`: what a query holds after some pages is all that was
  admissible of what was delivered, and a result is complete only if the window
  that was on the relay at the start was delivered.
- `CheckpointsAdvance`: a commit compares the checkpoint with the one the query
  read, and the candidate is the greatest admitted cursor
  (`GreatestElement`, from well-foundedness).
- `QueriesStrandNothingHolds`: an event the next query would not ask for lies
  before the new checkpoint by more than the overlap. The checkpoint was admitted
  before the deadline, so with a deadline of at most the overlap and two seconds
  the event was already past when the query began; no page refused it, and it is
  in the committed result. "ingest" admits all pages as of its start and needs no
  such bound. Without it TLC shows the event left behind, and the property says so.
- `RequiredSourcesDecideHolds`: a satisfied coverage is the required sources
  complete and nothing else (`Satisfied`), and merging source after source keeps
  the least event of each mutation (`GatheredFacts`, over `MergedFacts`), of which
  there is one material for one set of events (`SameCarriers`).
- `EvidenceInvHolds`: types, and that the order of arrival is irrelevant for
  replays of every length. The sort is by counting (`Rank`), so the fact at place
  k is described by how many facts lie before it, which no permutation changes;
  equal keys of one replay are the same fact. What the material loop computes is
  shown for every prefix by its least counterexample, since induction cannot be
  cited: each mutation stands under the least event that carries it.

`ConfigurationProofs`, invariant `ConfigurationIInv`
- `ConfigurationIsFaithfulHolds`: every default is allowed by the schema
  (`DefaultsAllowed`), the tables that hang on a switch share no pointer with the
  others (`SectionsApart`) and no switch is a defaulted field (`DefaultsFree`), so
  filling keeps the document valid, adds nothing a second time and undoes the
  omission of a default.
- `AdmittedRunsHolds`: the relationships turn a valid document into an
  `Admissible` one, and each consumer's bounds follow from that, with the two
  exceptions the property names: relays of two transports under the repo-local
  profile, and the attempt deadline above 30 s.

### Only model-checked

- Liveness: `PresenceSettles`, `ReadinessFollows`, `StopsWhenTold`. Fairness and
  ENABLED are outside what the prover can do.
- `DueOutboxHasDueTarget` in behaviours with an operator retry: it is false there.
- The violated properties of section 6: their counterexamples are the result.

Every other property of the passing runs is stated by a theorem.

## 5. Abstractions

- Identifiers, digests and signatures are model values; a hash of a tuple is the
  tuple. Order by hash is a free choice.
- One tick is one millisecond in the queue and the outbox, one second in the
  pipeline and the sources, the initial backoff in the presence outbox.
- One trade's mutation and its signed event are one event in the pipeline and the
  sources; `EvidenceEvaluation` tells them apart.
- In the pipeline the lookback window covers everything a relay holds and the
  overlap is in cursor positions; `SourceIngest` has both in time.
- A live event's two transactions are one step in `SourceIngest`, two in the
  pipeline.
- The evidence-policy digest is constant in the pipeline; `Installation` changes
  it.
- The pipeline has one subscription and one worker, as the daemon starts them.
- A report of the pipeline stands for its manifest, projection, event and outbox
  row, which one transaction writes; outboxes complete there by an action of the
  environment, and in full in `PublicationOutbox`.
- Errors of SQLite itself (I/O, busy) are crashes between transactions; in
  `AdminJournal`, where the caller lives on, they are answers.
- `AdminJournal` reads the accepting flag (`src/runtime_admin.rs:153`) in the step
  of a handler's first transaction. Only the refusal of other requests reads the
  flag, so a stop that falls between the two can as well follow the transaction;
  `DaemonLifecycle` has the two apart (a request that is `working`).

## 6. Findings

Each is one property that quotes the repository; TLC's counterexample is the
evidence. The first two are runs of `PROJECT.json`.

1. `evidence_live`, `MovesStrandNothing`: a live event is committed as a complete
   source result and moves the checkpoint with no query completed; older events
   the relay holds fall behind the overlap of every later query.
   `contracts/services_hardening/evidence_policy.v1.json:63`: "commit":
   "only_with_generation_fenced_reconciliation_commit_after_source_completion".
2. `configuration_attempt`, `AdmittedReconciles`: a document with an attempt
   deadline above 30000 ms is admitted (the schema allows 300000) and every
   attempt is then refused with InvalidConfiguration until its job is exhausted.

The others are reproduced by hand, `tlc -config <cfg> <module>`:

3. `MCReconciliationPipelineTimeout.cfg` (`MCReconciliationPipeline`),
   `TimeoutsRemainRecordable`: all source deadlines run from the attempt's start
   while sources are queried in turn; after one timeout the next source starts at
   its deadline, its result is refused, and no result of the attempt is durable.
   README: "Timeout, unavailable, resource-limited, unknown, and unsupported
   results remain durable".
4. `MCPublicationTargetsExhausted.cfg` (`MCPublicationTargets`),
   `ObservedOutcomesAppend`: on the last attempt a sampled nonzero delay is
   refused by the recording transaction; the answer is lost and the daemon stops.
   The presence outbox has the same code (`RecordRefused`).
5. `MCPublicationTargetsStranded.cfg`, `ExhaustedIsBlocked`: the operator's retry
   after exhaustion makes the outbox pending with no attempt left; it is claimed,
   refused, and recovered for ever. `publication_execution.v1.json`: blocked is
   "any_required_target_terminal_nonaccepted_or_attempts_exhausted".
6. `MCPublicationTargetsOptional.cfg`, `ReleasesToSchedule`: with optional targets
   only, a lease that expires before anything was submitted completes the outbox,
   where the contract has "expired_lease_releases_to_existing_schedule".
7. `MCPresenceOutboxRendered.cfg` (`MCPresenceOutbox`), `DesiredIsRendered`: the
   desired generation is durable before its documents are; a crash, a stale lease
   or a start within the same second leaves it without documents, and every later
   start finds the desired state unchanged and renders nothing. The README says
   of superseded work that stale leases do not block "the current generation
   forever".
8. `MCAdminReuse.cfg` (`MCAdmin`), `ReuseReturnsOriginal`: the external mutations
   compare the generation before they ask the journal, so a retry whose first
   answer was lost gets a conflict once the subject has moved, although its
   receipt is retained. `operator_contract.v1.json`:
   "identical_operation_id_reuse": "return_original_committed_result".
9. `MCAdminPages.cfg` (`MCAdmin`), `JobPagesMissNothing`: pages are cut by offset
   over a table that is rewritten in between; a job that did not change is shown
   on no page when one before it did. `operator_contract.v1.json`:
   "maximum_job_sequence_fixed_by_first_page_cursor".
### Observations

Modelled as the code has it, or met on the way; no document decides these.

- The operator's refresh compares the expected generation in one transaction and
  schedules in another, so it may schedule a newer generation than was named.
- The query of an attempt admits each page as of that page's arrival. An event
  authored ahead of the clock may be refused on one page while a later event is
  taken from the next and moves the checkpoint; if the deadline exceeds the overlap
  by more than two seconds the first event falls behind the window and stays
  there. The documented bounds (overlap from 1 s, deadline to 30 s) allow that. The
  boundary was found in proving `QueriesStrandNothing`.
- A crash between an event's commit and its schedule leaves a dirty trade without
  a job until the next event or a refresh.
- A generation that does not match in the publication retry or the presence
  refresh is answered `operation_id_conflict`, the code of a reused id.
- `config apply` binds the candidate before its file is installed: until then the
  old file opens nothing, and a retry of the apply is a conflict. After a change
  of policy the dirty trades have no job until their next event or a refresh, and
  jobs of the old policy fail each attempt.
- Restoring a backup from before an apply makes the current document unusable and
  rewinds the attestation chain. `state restore` has to open the damaged state,
  although the doctor advises it for one.
- `cleanup` (`src/config_loader.rs:418-436`, `cleanup_owned` for the envelope)
  compares the inode of the file it opened and unlinks the name in a later call.
  When the operator removes the unwritten file in between, the next `config init`
  creates, syncs and reports its own under the name, and the first command's unlink
  takes it away: `MCInstallationCleanup.cfg` (`MCInstallation`) violates
  `CleanupSparesOthers`, and `ReportedFilesStay` leaves these names out. A document
  the operator installs over a written file in the same window goes too.
- A crash inside a create-once command leaves an empty file, which the next
  command answers with AlreadyExists until someone removes it.
- A failing status refresh ends the daemon without the graceful shutdown. Signals
  during the start are seen at the loop; after a shutdown that a failure began,
  a second signal does nothing, but the grace period bounds it.
- A repo-local document that reads from a plaintext and from a TLS relay is
  admitted and passes the doctor, and the daemon cannot open its subscription
  (the exception in `AdmittedStarts`).
- The doctor never probes the clock, so its best result is "degraded" (exit 0).
  Its state checks take the writer's authority: they fail beside a running daemon
  and can make a starting one exit. Lowering `queue_capacity` makes its backlog
  check fail until the queue has drained.
- The CLI gives one exit code to conflicts and to `service_unavailable` and
  `internal_error`, after which the work may have been committed.
- Admitted fields nothing reads: `database/busy_timeout_ms`,
  `database/max_connections`, the retention table, `queues/ingress`,
  `queues/reconciliation`, `network/dns_answer_limit`, metrics and logging.

## 7. Plan

Done: the models of every component above, and a theorem for every safety
property of the runs.

What is left, in this order:

1. A timer-based variant of the queue for liveness: a due job is attempted. The
   queue as it is takes any clock reading, so nothing in it has to come due.
2. The strand of a live event (finding 1) and that of a future event (section 6) as
   one property, once the code decides which events the checkpoint may pass.
3. `DueOutboxHasDueTarget` across retries, once an exhausted outbox is blocked or
   its attempts are renewed (finding 5).

### Not modelled, and why

Cryptography and the encoding of key files (no state machine; creating and
opening the files is modelled); HTTP framing and the document codecs of the admin
server, argument parsing and output of the CLI (pure); metrics, log records and
the doctor's probes of paths, integrity, sockets and DNS (read-only); the SQL of
schema migrations (straight-line; that they run, and when, is modelled); relay
sessions (an external crate, modelled by its possible answers); the trade reducer
(an external crate, modelled as any answer); the release tooling under `tools/`
(no part of the running system).
