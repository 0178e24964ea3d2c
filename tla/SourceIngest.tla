---------------------------- MODULE SourceIngest ----------------------------
(***************************************************************************)
(* One configured relay source and one trade: the page loop that queries   *)
(* the relay from the source's checkpoint, the admission of what it        *)
(* returns, the fenced transaction that commits evidence and checkpoint,   *)
(* and the live subscription that commits single events beside it.         *)
(*                                                                         *)
(* An event is a number, ordered as its id; its authored time and whether  *)
(* admission can accept it are constants.  Two queries share the loop:     *)
(* "ingest" (ingest_rhi_trade_source) and "reconcile" (the fetch of a      *)
(* reconciliation attempt, fetch_reconciliation_source).                   *)
(***************************************************************************)
EXTENDS Naturals, FiniteSets, FiniteSetsExt

CONSTANTS
    Events,         \* what the relay may hold under the trade's filter
    AuthoredAt,     \* authored time of each event
    Defect,         \* what is wrong with each event, or "none"
    Overlap,        \* overlap_seconds
    Lookback,       \* lookback_seconds
    Deadline,       \* deadline_ms
    MaximumEvents,  \* resource_limits/source_results/events
    PageEvents,     \* FETCH_PAGE_MAX_EVENTS
    LastTime        \* bound on the clock

ASSUME SourceAssumption ==
    /\ Events \subseteq Nat \ {0} /\ IsFiniteSet(Events)
    /\ Defect \in [Events -> {"none", "shape", "tags", "signature", "mutation"}]
    /\ AuthoredAt \in [Events -> Nat]
    /\ Overlap \in Nat \ {0} /\ Lookback \in Nat /\ Overlap <= Lookback
    /\ {MaximumEvents, PageEvents, Deadline} \subseteq Nat \ {0}
    /\ LastTime \in Nat

VARIABLES
    relay,       \* events the relay stores
    evidence,    \* signed_trade_events of the trade
    checkpoint,  \* source_checkpoints: the event at the cursor, or NoEvent
    dirty,       \* trade_dirty_generations
    now,         \* wall clock, whole seconds
    walk         \* the query under way

sourceVars == <<relay, evidence, checkpoint, dirty, now, walk>>

NoEvent == 0
Kinds == {"ingest", "reconcile"}

(* RhiTradeSourceCompletion *)
Completions == {"complete", "timeout", "unavailable", "resource_limit", "unknown",
                "unsupported"}

Resting == [pc |-> "rest"]
Querying ==
    [pc : {"page"}, kind : Kinds, prior : Events \cup {NoEvent}, dirty : Nat, since : Nat,
     began : SUBSET Events, at : Nat, delivered : SUBSET Events, got : SUBSET Events,
     counted : Nat]
Fetched ==
    [pc : {"commit"}, kind : Kinds, prior : Events \cup {NoEvent}, dirty : Nat, since : Nat,
     began : SUBSET Events, at : Nat, got : SUBSET Events, class : Completions]

SourceInit ==
    /\ relay = {} /\ evidence = {} /\ checkpoint = NoEvent /\ dirty = 0
    /\ now = 0 /\ walk = Resting

-----------------------------------------------------------------------------
(* Cursors and admission *)

(* compare_cursor: authored time, then event id; no checkpoint is before all *)
Before(c, d) ==
    \/ c = NoEvent /\ d # NoEvent
    \/ /\ c # NoEvent /\ d # NoEvent
       /\ \/ AuthoredAt[c] < AuthoredAt[d]
          \/ AuthoredAt[c] = AuthoredAt[d] /\ c < d

(* saturating_sub *)
Monus(a, b) == IF a > b THEN a - b ELSE 0

(* The inclusive start of a query *)
Since(c, t) ==
    IF c = NoEvent THEN Monus(t, Lookback) ELSE Monus(AuthoredAt[c], Overlap)

(* preflight_wire: fields present once, in number and size within the limits *)
WellFormed(e) == Defect[e] # "shape"
(* measure_tags *)
TagsWithinLimits(e) == Defect[e] # "tags"
(* verify_id and verify *)
Verified(e) == Defect[e] # "signature"
(* a trade mutation of the queried trade by its typed author *)
MutationOfTrade(e) == Defect[e] # "mutation"

(* enforce_authored_time_policy, with no future allowance *)
AuthoredBy(e, t) == AuthoredAt[e] <= t

(* admit_rhi_trade_mutation_event *)
Admissible(e) ==
    WellFormed(e) /\ TagsWithinLimits(e) /\ Verified(e) /\ MutationOfTrade(e)
Admitted(events, t) == {e \in events : Admissible(e) /\ AuthoredBy(e, t)}

(* The greatest admitted cursor *)
Candidate(events) ==
    IF events = {} THEN NoEvent
    ELSE CHOOSE e \in events : \A f \in events : f = e \/ Before(f, e)

-----------------------------------------------------------------------------
(* The relay and the clock *)

RelayGains(e) ==
    /\ e \notin relay
    /\ relay' = relay \cup {e}
    /\ UNCHANGED <<evidence, checkpoint, dirty, now, walk>>

Tick ==
    /\ now < LastTime
    /\ now' = now + 1
    /\ UNCHANGED <<relay, evidence, checkpoint, dirty, walk>>

-----------------------------------------------------------------------------
(* A query: read the checkpoint and the generation, then page by page *)

Begin(kind) ==
    /\ walk.pc = "rest"
    /\ walk' = [pc |-> "page", kind |-> kind, prior |-> checkpoint, dirty |-> dirty,
                since |-> Since(checkpoint, now), began |-> relay, at |-> now,
                delivered |-> {}, got |-> {}, counted |-> 0]
    /\ UNCHANGED <<relay, evidence, checkpoint, dirty, now>>

(* What the selector matches *)
Matching == {e \in relay : AuthoredAt[e] >= walk.since}

(* Each page asks for one event more than the result may still hold *)
RequestLimit == Min({PageEvents, Monus(MaximumEvents, walk.counted) + 1})

(* validate_for_request: no page is larger, or outside the selector *)
Pages == UNION {kSubset(n, Matching) : n \in 0 .. RequestLimit}

(* "ingest" admits as of its start, "reconcile" as of the page's arrival *)
AdmittedOf(events) == Admitted(events, IF walk.kind = "ingest" THEN walk.at ELSE now)

(* "ingest" counts what it receives, "reconcile" what it admits *)
CountOf(events) ==
    walk.counted + Cardinality(IF walk.kind = "ingest" THEN events ELSE AdmittedOf(events))

(* The page leaves the result within its event limit *)
Fits(events) ==
    /\ CountOf(events) <= MaximumEvents
    /\ walk.kind = "reconcile" => walk.counted < MaximumEvents \/ events = {}

(* The loop breaks with a completion; "reconcile" looks at its deadline again *)
Break(class, got) ==
    walk' = [pc |-> "commit", kind |-> walk.kind, prior |-> walk.prior,
             dirty |-> walk.dirty, since |-> walk.since, began |-> walk.began,
             at |-> walk.at, got |-> got,
             class |-> IF walk.kind = "reconcile" /\ now >= walk.at + Deadline
                       THEN "timeout" ELSE class]

OnlyWalk == UNCHANGED <<relay, evidence, checkpoint, dirty, now>>

Taken(events) == walk.got \cup AdmittedOf(events)

(* The page that ends the result: the relay has sent all it stored when the *)
(* query began (EOSE from the exact target)                                 *)
LastPage(events) ==
    /\ walk.pc = "page" /\ Fits(events)
    /\ Matching \cap walk.began \subseteq walk.delivered \cup events
    /\ Break("complete", Taken(events))
    /\ OnlyWalk

(* More to come, under an adapter cursor not seen before *)
MorePages(events) ==
    /\ walk.pc = "page" /\ Fits(events) /\ events # {}
    /\ walk' = [walk EXCEPT !.delivered = @ \cup events, !.got = Taken(events),
                            !.counted = CountOf(events)]
    /\ OnlyWalk

LimitIgnored(events, taken) ==
    /\ walk.pc = "page" /\ events # {}
    /\ taken \subseteq events
    /\ Break("complete", Taken(taken))
    /\ OnlyWalk

(* The page exceeds the event or the byte limit: what came before is kept *)
OverLimit(events, taken) ==
    /\ walk.pc = "page" /\ events # {}
    /\ taken \subseteq events /\ taken # events /\ Fits(taken)
    /\ Break("resource_limit", Taken(taken))
    /\ OnlyWalk

(* A partial page, a repeated cursor, or an empty page with a cursor *)
PartialPage(events) ==
    /\ walk.pc = "page" /\ Fits(events)
    /\ Break("unknown", Taken(events))
    /\ OnlyWalk

(* The page was cancelled at the deadline, after some of its events *)
CancelledPage(events) ==
    /\ walk.pc = "page" /\ Fits(events)
    /\ Break("timeout", Taken(events))
    /\ OnlyWalk

(* No usable page: transport error, malformed page, unavailable or failed    *)
(* target.  An unsupported "reconcile" forgets what earlier pages brought.   *)
NoPage(class) ==
    /\ walk.pc = "page"
    /\ class \in {"unavailable", "unknown", "timeout", "unsupported"}
    /\ Break(class, IF class = "unsupported" /\ walk.kind = "reconcile"
                    THEN {} ELSE walk.got)
    /\ OnlyWalk

-----------------------------------------------------------------------------
(* commit_source_result; commit_source_replays for a reconciliation attempt *)

FenceMissing == TRUE
Fence == checkpoint = walk.prior /\ dirty = walk.dirty

(* New evidence advances the generation once *)
Persist(events) ==
    /\ evidence' = evidence \cup events
    /\ dirty' = IF events \subseteq evidence THEN dirty ELSE dirty + 1

(* allows_checkpoint and a strictly newer candidate *)
Moved(class, events, prior) ==
    IF class = "complete" /\ Before(prior, Candidate(events))
    THEN Candidate(events) ELSE checkpoint

Commit ==
    /\ walk.pc = "commit" /\ Fence
    /\ Persist(walk.got)
    /\ checkpoint' = Moved(walk.class, walk.got, walk.prior)
    /\ walk' = Resting
    /\ UNCHANGED <<relay, now>>

(* GenerationConflict: nothing is written *)
Conflict ==
    /\ walk.pc = "commit" /\ ~Fence
    /\ walk' = Resting
    /\ OnlyWalk

(* The process stops: the query is gone *)
Abandon ==
    /\ walk.pc # "rest"
    /\ walk' = Resting
    /\ OnlyWalk

-----------------------------------------------------------------------------
(* ingest_rhi_subscribed_trade_event.  Its two transactions are one step      *)
(* here; ReconciliationPipeline has them apart.                               *)

Live(e) ==
    /\ e \in Admitted(relay, now)
    /\ Persist({e})
    /\ checkpoint' = Moved("complete", {e}, checkpoint)
    /\ UNCHANGED <<relay, now, walk>>

-----------------------------------------------------------------------------
SourceNext ==
    \/ \E e \in Events : RelayGains(e) \/ Live(e)
    \/ Tick
    \/ \E kind \in Kinds : Begin(kind)
    \/ walk.pc = "page" /\ \E events \in Pages :
          \/ LastPage(events) \/ MorePages(events)
          \/ PartialPage(events) \/ CancelledPage(events)
          \/ \E taken \in SUBSET events : OverLimit(events, taken)
    \/ \E class \in Completions : NoPage(class)
    \/ Commit \/ Conflict \/ Abandon

-----------------------------------------------------------------------------
SourceTypeOK ==
    /\ relay \subseteq Events /\ evidence \subseteq Events
    /\ checkpoint \in Events \cup {NoEvent} /\ dirty \in Nat /\ now \in 0 .. LastTime
    /\ walk \in {Resting} \cup Querying \cup Fetched

(* Events no later query will ask for, once the checkpoint is c *)
Behind(events, c) ==
    {e \in events : Admissible(e) /\ c # NoEvent /\ AuthoredAt[e] < Monus(AuthoredAt[c], Overlap)}

(* A query that moves the checkpoint leaves nothing behind it: every event    *)
(* that was on the relay when it began, inside its window, is evidence or is  *)
(* still inside the window of the next query.  Limits, partial pages and late *)
(* answers are where this goes wrong.  What it says of an event authored      *)
(* after the query began rests on the configuration: "reconcile" refuses the  *)
(* event on one page and may take a later one from the next, so the overlap   *)
(* has to cover the deadline.                                                 *)
QueriesStrandNothing ==
    [][walk.pc = "commit" /\ walk'.pc = "rest" /\ checkpoint' # checkpoint
         => \A e \in Behind(walk.began, checkpoint') :
                /\ AuthoredAt[e] >= walk.since
                /\ \/ AuthoredBy(e, walk.at) \/ walk.kind = "ingest"
                   \/ Deadline <= Overlap + 2
                => e \in evidence']_sourceVars

(* The checkpoint never moves back, although a live event may be committed    *)
(* between the read and the commit of a query.                                *)
CheckpointsOnlyAdvance ==
    [][checkpoint' # checkpoint => Before(checkpoint, checkpoint')]_sourceVars

(* README 113-116 and evidence_policy.v1.json ("commit":                      *)
(* "only_with_generation_fenced_reconciliation_commit_after_source_           *)
(* completion"): whatever moves the checkpoint, no event the relay held       *)
(* within the lookback falls behind it unseen.                                *)
MovesStrandNothing ==
    [][checkpoint' # checkpoint
         => \A e \in Behind(relay, checkpoint') :
                AuthoredAt[e] >= Since(checkpoint, now) => e \in evidence']_sourceVars
=============================================================================
