------------------------- MODULE EvidenceEvaluation -------------------------
(***************************************************************************)
(* From what the sources of one attempt returned to the verdict of the     *)
(* report: canonicalization of each source's replay, the frozen manifest   *)
(* with its coverage, the reduction, the evaluation of the claim and the   *)
(* attestation.  All of it is pure; one behaviour takes one input through  *)
(* the stages, and any of them may refuse it.                              *)
(*                                                                         *)
(* The shared trade reducer and the manifest's coverage rule live outside  *)
(* this repository.  The reducer is pure and gives any answer; the         *)
(* coverage rule is the one evidence_policy.v1.json fixes.                 *)
(***************************************************************************)
EXTENDS Naturals, FiniteSets, Sequences, SequencesExt

CONSTANTS
    SourceCount,   \* evidence sources, configured in the order of their ids
    Replayed,      \* facts a source may return: records of the type below
    Replies,       \* canonical replays of a source, for the attempts with all sources
    Answers,       \* what the reducer may say of the claim, a subset of Projections
    MaximumFacts,  \* request.maximum_events
    MaximumBytes,  \* request.maximum_bytes
    Moments,       \* seconds the manifest may be observed at
    Finishes       \* half seconds a source may finish at

ASSUME EvaluationAssumption ==
    /\ SourceCount \in Nat \ {0}
    /\ Replies \subseteq Seq(Replayed)
    /\ Replayed \subseteq [event : Nat, sig : Nat, mutation : Nat, authored : Nat,
                           observed : Nat, bytes : Nat]
    /\ {MaximumFacts, MaximumBytes} \subseteq Nat /\ Moments \cup Finishes \subseteq Nat

VARIABLES
    input,   \* what the attempt's sources returned
    stage,   \* how far this attempt is
    result   \* what the last stage produced

evaluationVars == <<input, stage, result>>

Sources == 1 .. SourceCount

Classes == {"complete", "timeout", "unavailable", "resource_limit", "unknown",
            "unsupported"}
EvidenceStates == {"missing", "query_partial", "complete", "unsupported_version"}

(* What the reducer says of the claim *)
Projections ==
    [evidence : EvidenceStates, digest : BOOLEAN, issue : BOOLEAN, present : BOOLEAN,
     active : BOOLEAN, contested : BOOLEAN, cancelled : BOOLEAN, agreed : BOOLEAN]

ASSUME AnswersAssumption == Answers \subseteq Projections

-----------------------------------------------------------------------------
(* Replay canonicalization *)

ArrivalBreaksTies(f) == <<f.authored, f.event, f.sig, 0, 0>>

(* compare_fact: authored time, event id, signature, observation, length *)
Key(f) == <<f.authored, f.event, f.sig, f.observed, f.bytes>>

Precedes(k, l) ==
    \E n \in DOMAIN k : k[n] < l[n] /\ \A p \in 1 .. n - 1 : k[p] = l[p]

(* sort_by is stable: equal keys keep their order of arrival *)
Rank(s, i) ==
    1 + Cardinality({j \in DOMAIN s : \/ Precedes(Key(s[j]), Key(s[i]))
                                      \/ Key(s[j]) = Key(s[i]) /\ j < i})
Sorted(s) == [k \in DOMAIN s |-> s[CHOOSE i \in DOMAIN s : Rank(s, i) = k]]

SameEvent(f, g) == f.event = g.event /\ f.sig = g.sig

(* The first of each signed event in canonical order *)
Kept(s) == {k \in DOMAIN s : \A j \in 1 .. k - 1 : ~SameEvent(s[j], s[k])}

Bytes(s) == FoldSeq(LAMBDA f, n : f.bytes + n, 0, s)

(* ingest_bounded_facts, on what arrived and in the order it arrived *)
Bounded(s) == Len(s) <= MaximumFacts /\ Bytes(s) <= MaximumBytes

(* One event id is one mutation, one mutation id one content *)
Conflicting(s) ==
    \E i, j \in DOMAIN s : s[i].event = s[j].event /\ s[i].mutation # s[j].mutation

Greatest(facts) ==
    CHOOSE f \in facts : \A g \in facts :
        ~Precedes(<<f.authored, f.event>>, <<g.authored, g.event>>)

(* What is kept, in canonical order *)
Distinct(t) ==
    [n \in 1 .. Cardinality(Kept(t)) |->
        t[CHOOSE k \in Kept(t) : Cardinality(Kept(t) \cap 1 .. k) = n]]

Canonical(s) ==
    LET facts == Distinct(Sorted(s))
    IN  [facts |-> facts,
         duplicates |-> Len(s) - Len(facts),
         bytes |-> Bytes(facts),
         candidate |-> IF facts = <<>> THEN <<>>
                       ELSE <<Greatest(ToSet(facts)).authored, Greatest(ToSet(facts)).event>>,
         first |-> IF facts = <<>> THEN 0
                   ELSE Min({f.observed : f \in ToSet(facts)})]

-----------------------------------------------------------------------------
(* The manifest *)

TimeoutCompletes(class) ==
    CASE class \in {"complete", "timeout"} -> "complete"
      [] class = "unsupported" -> "unsupported"
      [] OTHER                 -> "incomplete"

(* map_completion *)
Completion(class) ==
    CASE class = "complete"    -> "complete"
      [] class = "unsupported" -> "unsupported"
      [] OTHER                 -> "incomplete"

(* The reducer's material: each mutation once.  A later fact replaces the    *)
(* event that carries it only when its own id is lower.                       *)
Carried(material, f) ==
    IF f.mutation \in DOMAIN material /\ material[f.mutation] <= f.event THEN material
    ELSE [m \in DOMAIN material \cup {f.mutation} |->
            IF m = f.mutation THEN f.event ELSE material[m]]

Merged(material, facts) ==
    LET after[n \in 0 .. Len(facts)] ==
            IF n = 0 THEN material ELSE Carried(after[n - 1], facts[n])
    IN  after[Len(facts)]

Material(facts) == Merged(<<>>, facts)

GatheredWhenComplete(sources) ==
    LET after[n \in 0 .. SourceCount] ==
            IF n = 0 THEN <<>>
            ELSE IF sources[n].class # "complete" THEN after[n - 1]
            ELSE Merged(after[n - 1], sources[n].facts)
    IN  after[SourceCount]

(* One source after the other, whatever became of its query *)
Gathered(sources) ==
    LET after[n \in 0 .. SourceCount] ==
            IF n = 0 THEN <<>> ELSE Merged(after[n - 1], sources[n].facts)
    IN  after[SourceCount]

(* The observation time is not before any source's finish, rounded up *)
ObservableAt(at, finished) == 2 * at >= finished

(* External: coverage of the manifest, its prerequisites satisfied *)
Coverage(sources) ==
    LET required == {s \in Sources : sources[s].required}
        done(s)  == Completion(sources[s].class)
    IN  IF \E s \in required : done(s) = "unsupported" THEN "unsupported"
        ELSE IF \A s \in required : done(s) = "complete" THEN "scope_satisfied"
        ELSE IF \E s \in Sources : done(s) = "complete" \/ sources[s].facts # <<>>
             THEN "partial" ELSE "missing"

-----------------------------------------------------------------------------
(* Reduction and evaluation *)

(* evidence_state: what the reducer is told *)
EvidenceState(coverage) ==
    CASE coverage = "missing"         -> "missing"
      [] coverage = "partial"         -> "query_partial"
      [] coverage = "scope_satisfied" -> "complete"
      [] coverage = "unsupported"     -> "unsupported_version"

(* The input of the shared reducer, but for the trade and the time *)
Given(sources) ==
    [material |-> Gathered(sources), told |-> EvidenceState(Coverage(sources))]

(* classify_evaluation, in its order of precedence *)
Outcome(coverage, p) ==
    IF \/ coverage # "scope_satisfied" \/ ~p.digest \/ p.evidence # "complete"
       \/ p.issue \/ p.contested \/ (p.active /\ p.cancelled) \/ ~p.present
    THEN "indeterminate"
    ELSE IF p.active /\ p.agreed THEN "valid"
    ELSE IF p.cancelled /\ ~p.active THEN "invalid" ELSE "indeterminate"

-----------------------------------------------------------------------------
(* The stages *)

Arrivals == UNION {[1 .. n -> Replayed] : n \in 0 .. MaximumFacts + 1}

(* RhiReconciliationSourceResult::new: unsupported comes with nothing *)
SourceResults ==
    {r \in [required : BOOLEAN, class : Classes, facts : Replies] :
        r.class = "unsupported" => r.facts = <<>>}

(* One source replays, or every source's result is at hand.  Configuration   *)
(* requires a required source.                                               *)
EvaluationInit ==
    /\ \/ \E s \in Arrivals : input = [arrived |-> s] /\ stage = "replay"
       \/ \E r \in [Sources -> SourceResults] :
             /\ \E s \in Sources : r[s].required
             /\ input = [sources |-> r] /\ stage = "reduce"
    /\ result = [none |-> TRUE]

Refuse == stage' = "failed" /\ UNCHANGED <<input, result>>

(* RhiReconciliationSourceReplayPlan::finish *)
Replay ==
    /\ stage = "replay" /\ Bounded(input.arrived) /\ ~Conflicting(input.arrived)
    /\ result' = Canonical(input.arrived)
    /\ stage' = "replayed" /\ UNCHANGED input

ReplayRefused ==
    /\ stage = "replay"
    /\ ~Bounded(input.arrived) \/ Conflicting(input.arrived)
    /\ Refuse

(* into_evidence_manifest, when the clock has passed every finish *)
Freeze(at, finished) ==
    /\ stage = "replayed" /\ ObservableAt(at, finished)
    /\ result' = [replay |-> result, material |-> Material(result.facts)]
    /\ stage' = "frozen" /\ UNCHANGED input

FreezeRefused(at, finished) ==
    /\ stage = "replayed" /\ ~ObservableAt(at, finished)
    /\ Refuse

(* reduce_rhi_reconciliation_manifest: the reducer may lower the evidence    *)
(* state it is told, and nothing bounds what it says of the claim            *)
Reduce(p) ==
    /\ stage = "reduce"
    /\ p.evidence \in {Given(input.sources).told, "unsupported_version"}
    /\ result' = [given |-> Given(input.sources), projection |-> p,
                  coverage |-> Coverage(input.sources)]
    /\ stage' = "evaluate" /\ UNCHANGED input

(* No root mutation, or material the manifest does not observe *)
ReduceRefused == stage = "reduce" /\ Refuse

(* evaluate_rhi_reconciliation_claim *)
Evaluate ==
    /\ stage = "evaluate"
    /\ result' = [given |-> result.given, projection |-> result.projection,
                  coverage |-> result.coverage,
                  outcome |-> Outcome(result.coverage, result.projection)]
    /\ stage' = "attest" /\ UNCHANGED input

(* finalization_identity needs the digest; signing and verification may fail *)
Attest ==
    /\ stage = "attest" /\ result.projection.digest
    /\ stage' = "attested" /\ UNCHANGED <<input, result>>

AttestRefused == stage = "attest" /\ Refuse

Done == stage \in {"frozen", "attested", "failed"} /\ UNCHANGED evaluationVars

EvaluationNext ==
    \/ Replay \/ ReplayRefused
    \/ \E at \in Moments, t \in Finishes : Freeze(at, t) \/ FreezeRefused(at, t)
    \/ \E p \in Answers : Reduce(p)
    \/ ReduceRefused \/ Evaluate \/ Attest \/ AttestRefused \/ Done

-----------------------------------------------------------------------------
(* Neither a replay nor the reducer's material depends on the order in which *)
(* the relay's answers came in: the facts kept, their provenance, the cursor *)
(* candidate, the counts and the event that carries each mutation are those  *)
(* of every permutation of the arrivals.                                     *)
ArrivalOrderIsIrrelevant ==
    stage = "frozen" =>
        \A q \in Bijection(DOMAIN input.arrived, DOMAIN input.arrived) :
            LET other == [k \in DOMAIN input.arrived |-> input.arrived[q[k]]]
            IN  Canonical(other) = result.replay /\ Material(other) = result.material

(* The events, and the mutations they carry, that the sources returned *)
Returned(sources) ==
    UNION {{<<sources[s].facts[i].mutation, sources[s].facts[i].event>> :
               i \in DOMAIN sources[s].facts} : s \in Sources}

(* The required sources decide whether there is a verdict, and the evidence  *)
(* what it is.  A verdict rests on a complete answer of every required       *)
(* source, whatever the reducer says; and as long as the required sources    *)
(* are complete, what any source adds to evidence others returned, and how   *)
(* an optional one's query ended, changes nothing of what the pure reducer   *)
(* is given, so nothing of the outcome.  (An optional source that is alone   *)
(* with an event may change the verdict: optional_complete is                *)
(* "include_admitted_evidence_without_substituting_for_required_source".)    *)
RequiredSourcesDecide ==
    stage = "attested" =>
        /\ result.outcome # "indeterminate" =>
              \A s \in Sources : input.sources[s].required => input.sources[s].class = "complete"
        /\ \A s \in Sources, reply \in SourceResults :
              LET other == [input.sources EXCEPT ![s] = reply]
              IN  /\ result.coverage = "scope_satisfied"
                  /\ reply.required = input.sources[s].required
                  /\ reply.required => reply.class = "complete"
                  /\ Returned(other) = Returned(input.sources)
                  => /\ Given(other) = result.given
                     /\ Outcome(Coverage(other), result.projection) = result.outcome
=============================================================================
