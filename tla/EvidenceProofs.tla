--------------------------- MODULE EvidenceProofs ---------------------------
(***************************************************************************)
(* What the evidence modules guarantee for every set of events, every      *)
(* overlap, deadline and limit, any number of sources and facts, and       *)
(* whatever the relay answers: queries that move the checkpoint leave      *)
(* nothing of their window behind, the checkpoint never regresses, the     *)
(* required sources decide whether there is a verdict, and the order of    *)
(* arrival does not matter.                                                *)
(***************************************************************************)
EXTENDS Evidence, FiniteSetTheorems, WellFoundedInduction, TLAPS

-----------------------------------------------------------------------------
(* Greatest elements *)

(* A nonempty set of numbers up to n has a greatest element. *)
LEMMA GreatestElement ==
    ASSUME NEW n \in Nat, NEW S \in SUBSET (0 .. n), S # {}
    PROVE  \E g \in S : \A x \in S : x <= g
<1> DEFINE T == {n - x : x \in S}
           R == OpToRel(<, Nat)
<1>1. T \in SUBSET Nat
  OBVIOUS
<1>2. T # {}
  OBVIOUS
<1>3. IsWellFoundedOn(R, Nat)
  BY NatLessThanWellFounded
<1>4. PICK m \in T : \A u \in T : ~(<<u, m>> \in R)
  <2> HIDE DEF R, T
  <2> QED
    BY <1>1, <1>2, <1>3, WFMin
<1>5. \A u \in T : ~(u < m)
  BY <1>1, <1>4 DEF OpToRel
<1>6. PICK g \in S : m = n - g
  OBVIOUS
<1>7. \A y \in S : y <= g
  <2> SUFFICES ASSUME NEW y \in S
               PROVE  y <= g
    OBVIOUS
  <2>1. ~(n - y < n - g)
    BY <1>5, <1>6
  <2> QED
    BY <2>1
<1> QED
  BY <1>7

(* Events and their times are numbers. *)
LEMMA EventFacts ==
    /\ \A e \in Events : e \in Nat /\ e # 0 /\ AuthoredAt[e] \in Nat
    /\ IsFiniteSet(Events) /\ NoEvent \notin Events
    /\ Overlap \in Nat \ {0} /\ Deadline \in Nat \ {0} /\ LastTime \in Nat /\ Lookback \in Nat
    /\ MaximumEvents \in Nat /\ PageEvents \in Nat
BY SourceAssumption DEF NoEvent

(* compare_cursor orders the events totally. *)
LEMMA CursorOrder ==
    /\ \A e \in Events : ~Before(e, e)
    /\ \A e, f \in Events : e = f \/ Before(e, f) \/ Before(f, e)
    /\ \A e, f, g \in Events : Before(e, f) /\ Before(f, g) => Before(e, g)
<1> USE EventFacts
<1>1. \A e, f \in Events : Before(e, f) <=> \/ AuthoredAt[e] < AuthoredAt[f]
                                            \/ AuthoredAt[e] = AuthoredAt[f] /\ e < f
  BY DEF Before
<1>2. \A e \in Events : ~Before(e, e)
  BY <1>1
<1>3. \A e, f \in Events : e = f \/ Before(e, f) \/ Before(f, e)
  BY <1>1
<1>4. ASSUME NEW e \in Events, NEW f \in Events, NEW g \in Events, Before(e, f), Before(f, g)
      PROVE  Before(e, g)
  BY <1>1, <1>4
<1> QED
  BY <1>2, <1>3, <1>4

(* The greatest cursor of a nonempty set exists: it is the event with the    *)
(* most events before it.                                                     *)
LEMMA CandidateGreatest ==
    ASSUME NEW S \in SUBSET Events, S # {}
    PROVE  /\ Candidate(S) \in S
           /\ \A f \in S : f = Candidate(S) \/ Before(f, Candidate(S))
<1> DEFINE under(e) == {f \in S : Before(f, e)}
           count(e) == Cardinality(under(e))
           K == {count(e) : e \in S}
<1>1. IsFiniteSet(S) /\ Cardinality(S) \in Nat
  BY EventFacts, FS_Subset, FS_CardinalityType
<1>2. ASSUME NEW e \in S
      PROVE  IsFiniteSet(under(e)) /\ count(e) \in Nat /\ count(e) <= Cardinality(S)
  <2>1. under(e) \in SUBSET S
    OBVIOUS
  <2> HIDE DEF under
  <2> QED
    BY <1>1, <2>1, FS_Subset, FS_CardinalityType
<1>3. K \in SUBSET (0 .. Cardinality(S)) /\ K # {}
  <2> HIDE DEF count
  <2>1. \A e \in S : count(e) \in 0 .. Cardinality(S)
    <3> SUFFICES ASSUME NEW e \in S
                 PROVE  count(e) \in 0 .. Cardinality(S)
      OBVIOUS
    <3>1. count(e) \in Nat /\ count(e) <= Cardinality(S)
      BY <1>2
    <3> QED
      BY <1>1, <3>1
  <2> QED
    BY <2>1
<1>4. PICK m \in K : \A x \in K : x <= m
  <2> HIDE DEF K
  <2> QED
    BY <1>1, <1>3, GreatestElement
<1>5. PICK e \in S : m = count(e)
  OBVIOUS
<1>6. ASSUME NEW g \in S, g # e, ~Before(g, e)
      PROVE  FALSE
  <2>1. Before(e, g)
    BY <1>6, CursorOrder
  <2>2. under(e) \cup {e} \in SUBSET under(g)
    BY <2>1, CursorOrder
  <2>3. e \notin under(e)
    BY CursorOrder
  <2> HIDE DEF under
  <2>4. Cardinality(under(e) \cup {e}) = count(e) + 1
    BY <1>2, <2>3, FS_AddElement
  <2>5. count(e) + 1 <= count(g)
    BY <1>2, <2>2, <2>4, FS_Subset
  <2>6. count(g) <= count(e)
    BY <1>4, <1>5
  <2> QED
    BY <1>2, <2>5, <2>6
<1>7. \A f \in S : f = e \/ Before(f, e)
  BY <1>6
<1> QED
  BY <1>7 DEF Candidate

-----------------------------------------------------------------------------
(* The page loop *)

(* What a page brings lies in the query's window, on the relay. *)
PageInv ==
    walk.pc = "page" =>
        /\ walk.began \subseteq relay
        /\ walk.at <= now
        /\ \A e \in walk.got : /\ AuthoredBy(e, now)
                               /\ walk.kind = "ingest" => AuthoredBy(e, walk.at)
        /\ \A e \in walk.delivered : Admissible(e) /\ AuthoredBy(e, walk.at) => e \in walk.got

(* A complete result holds what the window offered when the query began, and *)
(* its cursors are of the time before the deadline.                           *)
ResultInv ==
    walk.pc = "commit" /\ walk.class = "complete" =>
        /\ \A e \in walk.began :
              AuthoredAt[e] >= walk.since /\ Admissible(e) /\ AuthoredBy(e, walk.at)
                  => e \in walk.got
        /\ \A e \in walk.got : /\ walk.kind = "ingest" => AuthoredBy(e, walk.at)
                               /\ walk.kind = "reconcile" => AuthoredAt[e] < walk.at + Deadline

SourceInv == SourceTypeOK /\ PageInv /\ ResultInv

(* The three shapes of a query, by its program counter. *)
LEMMA WalkShapes ==
    ASSUME SourceTypeOK
    PROVE  /\ walk.pc \in {"rest", "page", "commit"}
           /\ walk.pc = "rest" <=> walk = Resting
           /\ walk.pc = "page" <=> walk \in Querying
           /\ walk.pc = "commit" <=> walk \in Fetched
BY DEF SourceTypeOK, Resting, Querying, Fetched

(* What the fields of a query under way hold. *)
LEMMA QueryFields ==
    ASSUME SourceTypeOK, walk.pc = "page"
    PROVE  /\ walk.kind \in Kinds /\ walk.prior \in Events \cup {NoEvent} /\ walk.dirty \in Nat
           /\ walk.since \in Nat /\ walk.began \subseteq Events /\ walk.at \in Nat
           /\ walk.delivered \subseteq Events /\ walk.got \subseteq Events /\ walk.counted \in Nat
BY WalkShapes DEF Querying

(* What the fields of a result hold. *)
LEMMA ResultFields ==
    ASSUME SourceTypeOK, walk.pc = "commit"
    PROVE  /\ walk.kind \in Kinds /\ walk.prior \in Events \cup {NoEvent} /\ walk.dirty \in Nat
           /\ walk.since \in Nat /\ walk.began \subseteq Events /\ walk.at \in Nat
           /\ walk.got \subseteq Events /\ walk.class \in Completions
BY WalkShapes DEF Fetched

(* A page holds matching events, and what it adds is admitted. *)
LEMMA PageFacts ==
    ASSUME SourceTypeOK, walk.pc = "page", NEW events \in SUBSET Matching
    PROVE  /\ events \subseteq relay /\ events \subseteq Events
           /\ AdmittedOf(events) \subseteq events
           /\ \A e \in AdmittedOf(events) :
                 Admissible(e) /\ AuthoredBy(e, IF walk.kind = "ingest" THEN walk.at ELSE now)
           /\ \A e \in events :
                 Admissible(e) /\ AuthoredBy(e, IF walk.kind = "ingest" THEN walk.at ELSE now)
                     => e \in AdmittedOf(events)
           /\ CountOf(events) \in Nat
<1>1. events \subseteq relay /\ events \subseteq Events
  BY DEF Matching, SourceTypeOK
<1>2. AdmittedOf(events) \subseteq events
  BY DEF AdmittedOf, Admitted
<1>3. IsFiniteSet(events) /\ IsFiniteSet(AdmittedOf(events))
  BY <1>1, <1>2, EventFacts, FS_Subset
<1>4. Cardinality(events) \in Nat /\ Cardinality(AdmittedOf(events)) \in Nat
  BY <1>3, FS_CardinalityType
<1>5. CountOf(events) \in Nat
  BY <1>4, QueryFields DEF CountOf
<1> QED
  BY <1>1, <1>2, <1>5 DEF AdmittedOf, Admitted

(* Breaking out of the loop keeps the types. *)
LEMMA BreakFacts ==
    ASSUME SourceTypeOK, walk.pc = "page", NEW class \in Completions,
           NEW got \in SUBSET Events, Break(class, got)
    PROVE  /\ walk' \in Fetched
           /\ walk'.kind = walk.kind /\ walk'.since = walk.since /\ walk'.began = walk.began
           /\ walk'.at = walk.at /\ walk'.got = got
           /\ walk'.class = "complete" =>
                 /\ class = "complete"
                 /\ walk.kind = "reconcile" => ~(now >= walk.at + Deadline)
<1> USE QueryFields DEF Break
<1>1. (IF walk.kind = "reconcile" /\ now >= walk.at + Deadline THEN "timeout" ELSE class)
          \in Completions
  BY DEF Completions
<1>2. walk' \in Fetched
  BY <1>1 DEF Fetched
<1> QED
  BY <1>2

(* What the query holds after a page: all of it authored by now, and of what *)
(* was delivered everything admissible that was authored before it began.    *)
LEMMA TakenFacts ==
    ASSUME SourceInv, walk.pc = "page", NEW events \in SUBSET Matching
    PROVE  /\ Taken(events) \in SUBSET Events
           /\ \A e \in Taken(events) : /\ AuthoredBy(e, now)
                                       /\ walk.kind = "ingest" => AuthoredBy(e, walk.at)
           /\ \A e \in walk.delivered \cup events :
                 Admissible(e) /\ AuthoredBy(e, walk.at) => e \in Taken(events)
<1> USE DEF SourceInv
<1>1. /\ walk.got \subseteq Events /\ walk.at \in Nat /\ now \in Nat
      /\ walk.delivered \subseteq Events /\ walk.at <= now
  BY QueryFields DEF PageInv, SourceTypeOK
<1>2. events \subseteq Events /\ AdmittedOf(events) \subseteq events
  BY PageFacts
<1>3. Taken(events) \in SUBSET Events
  BY <1>1, <1>2 DEF Taken
<1>4. ASSUME NEW e \in Events, AuthoredBy(e, walk.at)
      PROVE  AuthoredBy(e, now)
  <2>1. AuthoredAt[e] \in Nat
    BY EventFacts
  <2> QED
    BY <1>1, <1>4, <2>1 DEF AuthoredBy
<1>5. ASSUME NEW e \in Taken(events)
      PROVE  AuthoredBy(e, now) /\ (walk.kind = "ingest" => AuthoredBy(e, walk.at))
  <2>1. CASE e \in walk.got
    BY <2>1 DEF PageInv
  <2>2. CASE e \in AdmittedOf(events)
    <3>1. AuthoredBy(e, IF walk.kind = "ingest" THEN walk.at ELSE now)
      BY <2>2, PageFacts
    <3> QED
      BY <1>2, <1>4, <2>2, <3>1
  <2> QED
    BY <1>5, <2>1, <2>2 DEF Taken
<1>6. ASSUME NEW e \in walk.delivered \cup events, Admissible(e), AuthoredBy(e, walk.at)
      PROVE  e \in Taken(events)
  <2>1. CASE e \in walk.delivered
    BY <1>6, <2>1 DEF PageInv, Taken
  <2>2. CASE e \in events
    <3>1. AuthoredBy(e, IF walk.kind = "ingest" THEN walk.at ELSE now)
      BY <1>2, <1>4, <1>6, <2>2
    <3>2. e \in AdmittedOf(events)
      BY <1>6, <2>2, <3>1, PageFacts
    <3> QED
      BY <3>2 DEF Taken
  <2> QED
    BY <1>6, <2>1, <2>2
<1> QED
  BY <1>3, <1>5, <1>6

(* The loop breaks with a sound result. *)
LEMMA BreakKeeps ==
    ASSUME SourceInv, walk.pc = "page", OnlyWalk, NEW class \in Completions,
           NEW got \in SUBSET Events, Break(class, got),
           class = "complete" =>
               /\ \A e \in got : /\ AuthoredBy(e, now)
                                 /\ walk.kind = "ingest" => AuthoredBy(e, walk.at)
               /\ \A e \in walk.began :
                     AuthoredAt[e] >= walk.since /\ Admissible(e) /\ AuthoredBy(e, walk.at)
                         => e \in got
    PROVE  SourceInv'
<1>1. /\ walk' \in Fetched
      /\ walk'.kind = walk.kind /\ walk'.since = walk.since /\ walk'.began = walk.began
      /\ walk'.at = walk.at /\ walk'.got = got
      /\ walk'.class = "complete" =>
            class = "complete" /\ (walk.kind = "reconcile" => ~(now >= walk.at + Deadline))
  BY BreakFacts DEF SourceInv
<1>2. walk'.pc = "commit"
  BY <1>1 DEF Fetched
<1>3. SourceTypeOK'
  BY <1>1 DEF SourceInv, SourceTypeOK, OnlyWalk
<1>4. PageInv'
  BY <1>2 DEF PageInv
<1>5. ResultInv'
  <2> SUFFICES ASSUME walk'.class = "complete"
               PROVE  /\ \A e \in walk'.began :
                           /\ AuthoredAt[e] >= walk'.since
                           /\ Admissible(e)
                           /\ AuthoredBy(e, walk'.at)
                           => e \in walk'.got
                      /\ \A e \in walk'.got :
                            /\ walk'.kind = "ingest" => AuthoredBy(e, walk'.at)
                            /\ walk'.kind = "reconcile" => AuthoredAt[e] < walk'.at + Deadline
    BY DEF ResultInv
  <2>1. class = "complete" /\ (walk.kind = "reconcile" => ~(now >= walk.at + Deadline))
    BY <1>1
  <2>2. now \in Nat /\ walk.at \in Nat /\ Deadline \in Nat
    BY QueryFields, EventFacts DEF SourceInv, SourceTypeOK
  <2>3. ASSUME NEW e \in got, walk.kind = "reconcile"
        PROVE  AuthoredAt[e] < walk.at + Deadline
    <3>1. AuthoredAt[e] \in Nat
      BY EventFacts
    <3>2. AuthoredAt[e] <= now
      BY <2>1 DEF AuthoredBy
    <3> QED
      BY <2>1, <2>2, <2>3, <3>1, <3>2
  <2> QED
    BY <1>1, <2>1, <2>3
<1> QED
  BY <1>3, <1>4, <1>5 DEF SourceInv

(* The actions that leave the query alone keep the invariant. *)
LEMMA BesideKeeps ==
    ASSUME SourceInv, UNCHANGED walk, SourceTypeOK', relay \subseteq relay', now <= now'
    PROVE  SourceInv'
<1> USE DEF SourceInv
<1>1. ResultInv'
  BY DEF ResultInv
<1>2. PageInv'
  <2> SUFFICES ASSUME walk.pc = "page"
               PROVE  /\ walk.began \subseteq relay'
                      /\ walk.at <= now'
                      /\ \A e \in walk.got : AuthoredBy(e, now')
    BY DEF PageInv
  <2>1. now \in Nat /\ now' \in Nat /\ walk.at \in Nat /\ walk.got \subseteq Events
    BY QueryFields, EventFacts DEF SourceTypeOK
  <2>2. ASSUME NEW e \in walk.got
        PROVE  AuthoredBy(e, now')
    <3>1. AuthoredAt[e] \in Nat /\ AuthoredAt[e] <= now
      BY <2>1, EventFacts DEF PageInv, AuthoredBy
    <3> QED
      BY <2>1, <3>1 DEF AuthoredBy
  <2> QED
    BY <2>1, <2>2 DEF PageInv
<1> QED
  BY <1>1, <1>2

(* Resting asks nothing more of the state. *)
LEMMA RestKeeps ==
    ASSUME walk' = Resting, SourceTypeOK'
    PROVE  SourceInv'
BY DEF SourceInv, PageInv, ResultInv, Resting

(* The initial state satisfies the invariant. *)
LEMMA SourceStarts == SourceInit => SourceInv
<1> SUFFICES ASSUME SourceInit
             PROVE  SourceInv
  OBVIOUS
<1>1. SourceTypeOK
  BY EventFacts DEF SourceInit, SourceTypeOK
<1>2. walk = Resting
  BY DEF SourceInit
<1> QED
  BY <1>1, <1>2 DEF SourceInv, PageInv, ResultInv, Resting

(* Since is a number whatever the checkpoint. *)
LEMMA SinceType ==
    ASSUME SourceTypeOK
    PROVE  Since(checkpoint, now) \in Nat
<1>1. \A a, b \in Nat : Monus(a, b) \in Nat
  BY DEF Monus
<1>2. now \in Nat /\ (checkpoint # NoEvent => AuthoredAt[checkpoint] \in Nat)
  BY EventFacts DEF SourceTypeOK
<1> QED
  BY <1>1, <1>2, EventFacts DEF Since

(* The relay gains an event, or time passes. *)
LEMMA SurroundingsKeep ==
    ASSUME SourceInv, Tick \/ \E e \in Events : RelayGains(e)
    PROVE  SourceInv'
<1>1. SourceTypeOK
  BY DEF SourceInv
<1>2. CASE Tick
  <2>1. now \in 0 .. LastTime /\ now < LastTime /\ LastTime \in Nat /\ now' = now + 1
    BY <1>1, <1>2, EventFacts DEF Tick, SourceTypeOK
  <2>2. now' \in 0 .. LastTime /\ now <= now'
    BY <2>1
  <2>3. UNCHANGED <<relay, evidence, checkpoint, dirty, walk>>
    BY <1>2 DEF Tick
  <2>4. SourceTypeOK'
    BY <1>1, <2>2, <2>3 DEF SourceTypeOK
  <2> QED
    BY <2>2, <2>3, <2>4, BesideKeeps
<1>3. CASE \E e \in Events : RelayGains(e)
  <2>1. PICK e \in Events : RelayGains(e)
    BY <1>3
  <2>2. relay' = relay \cup {e} /\ UNCHANGED <<evidence, checkpoint, dirty, now, walk>>
    BY <2>1 DEF RelayGains
  <2>3. SourceTypeOK'
    BY <1>1, <2>2 DEF SourceTypeOK
  <2>4. now <= now'
    BY <1>1, <2>2 DEF SourceTypeOK
  <2> QED
    BY <2>2, <2>3, <2>4, BesideKeeps
<1> QED
  BY <1>2, <1>3

(* What is persisted is well typed. *)
LEMMA PersistFacts ==
    ASSUME SourceTypeOK, NEW events \in SUBSET Events, Persist(events)
    PROVE  evidence' \subseteq Events /\ dirty' \in Nat
BY DEF SourceTypeOK, Persist

(* The checkpoint is an event the result holds, or stays. *)
LEMMA MovedFacts ==
    ASSUME SourceTypeOK, NEW class, NEW events \in SUBSET Events,
           NEW prior \in Events \cup {NoEvent}
    PROVE  /\ Moved(class, events, prior) \in Events \cup {NoEvent}
           /\ Moved(class, events, prior) # checkpoint =>
                 /\ class = "complete" /\ events # {}
                 /\ Moved(class, events, prior) = Candidate(events)
                 /\ Candidate(events) \in events
                 /\ Before(prior, Candidate(events))
<1>1. CASE events = {}
  <2>1. Candidate(events) = NoEvent
    BY <1>1 DEF Candidate
  <2>2. ~Before(prior, NoEvent)
    BY DEF Before
  <2>3. Moved(class, events, prior) = checkpoint
    BY <2>1, <2>2 DEF Moved
  <2> QED
    BY <2>3 DEF SourceTypeOK
<1>2. CASE events # {}
  <2>1. Candidate(events) \in events
    BY <1>2, CandidateGreatest
  <2> QED
    BY <1>2, <2>1 DEF Moved, SourceTypeOK
<1> QED
  BY <1>1, <1>2

(* A live event leaves the query alone. *)
LEMMA LiveKeeps ==
    ASSUME SourceInv, NEW e \in Events, Live(e)
    PROVE  SourceInv'
<1>1. SourceTypeOK
  BY DEF SourceInv
<1>2. /\ Persist({e}) /\ checkpoint' = Moved("complete", {e}, checkpoint)
      /\ UNCHANGED <<relay, now, walk>>
  BY DEF Live
<1>3. evidence' \subseteq Events /\ dirty' \in Nat
  BY <1>1, <1>2, PersistFacts
<1>4. checkpoint' \in Events \cup {NoEvent}
  BY <1>1, <1>2, MovedFacts DEF SourceTypeOK
<1>5. SourceTypeOK'
  BY <1>1, <1>2, <1>3, <1>4 DEF SourceTypeOK
<1>6. now <= now'
  BY <1>1, <1>2 DEF SourceTypeOK
<1> QED
  BY <1>2, <1>5, <1>6, BesideKeeps

(* A query begins with nothing delivered. *)
LEMMA BeginKeeps ==
    ASSUME SourceInv, NEW kind \in Kinds, Begin(kind)
    PROVE  SourceInv'
<1>1. SourceTypeOK
  BY DEF SourceInv
<1>2. now \in Nat /\ Since(checkpoint, now) \in Nat
  BY <1>1, SinceType DEF SourceTypeOK
<1>3. walk' \in Querying
  BY <1>1, <1>2 DEF Begin, Querying, SourceTypeOK
<1>4. SourceTypeOK'
  BY <1>1, <1>3 DEF Begin, SourceTypeOK
<1>5. /\ walk'.pc = "page" /\ walk'.began = relay /\ walk'.at = now /\ walk'.got = {}
      /\ walk'.delivered = {} /\ relay' = relay /\ now' = now
  BY DEF Begin
<1>6. PageInv'
  BY <1>2, <1>5 DEF PageInv
<1>7. ResultInv'
  BY <1>5 DEF ResultInv
<1> QED
  BY <1>4, <1>6, <1>7 DEF SourceInv

(* A page is of matching events. *)
LEMMA PagesMatch ==
    ASSUME NEW events \in Pages
    PROVE  events \in SUBSET Matching
BY DEF Pages, kSubset

(* Another page: what is admissible of it is taken. *)
LEMMA MorePagesKeeps ==
    ASSUME SourceInv, NEW events \in SUBSET Matching, MorePages(events)
    PROVE  SourceInv'
<1>1. SourceTypeOK /\ walk.pc = "page" /\ OnlyWalk
  BY DEF SourceInv, MorePages
<1>2. /\ Taken(events) \in SUBSET Events
      /\ \A e \in Taken(events) : /\ AuthoredBy(e, now)
                                  /\ walk.kind = "ingest" => AuthoredBy(e, walk.at)
      /\ \A e \in walk.delivered \cup events :
            Admissible(e) /\ AuthoredBy(e, walk.at) => e \in Taken(events)
  BY <1>1, TakenFacts
<1>3. CountOf(events) \in Nat /\ events \subseteq Events
  BY <1>1, PageFacts
<1>4. walk \in Querying
  BY <1>1, WalkShapes
<1>5. walk' = [walk EXCEPT !.delivered = @ \cup events, !.got = Taken(events),
                           !.counted = CountOf(events)]
  BY DEF MorePages
<1>6. walk' \in Querying
  BY <1>2, <1>3, <1>4, <1>5 DEF Querying
<1>7. /\ walk'.pc = "page" /\ walk'.kind = walk.kind /\ walk'.began = walk.began
      /\ walk'.at = walk.at /\ walk'.delivered = walk.delivered \cup events
      /\ walk'.got = Taken(events)
  BY <1>4, <1>5 DEF Querying
<1>8. SourceTypeOK'
  BY <1>1, <1>6 DEF SourceTypeOK, OnlyWalk
<1>9. PageInv'
  BY <1>1, <1>2, <1>7 DEF PageInv, SourceInv, OnlyWalk
<1>10. ResultInv'
  BY <1>7 DEF ResultInv
<1> QED
  BY <1>8, <1>9, <1>10 DEF SourceInv

(* The last page: the window that was offered has been delivered. *)
LEMMA LastPageKeeps ==
    ASSUME SourceInv, NEW events \in SUBSET Matching, LastPage(events)
    PROVE  SourceInv'
<1>1. SourceTypeOK /\ walk.pc = "page" /\ OnlyWalk /\ Break("complete", Taken(events))
  BY DEF SourceInv, LastPage
<1>2. /\ Taken(events) \in SUBSET Events
      /\ \A e \in Taken(events) : /\ AuthoredBy(e, now)
                                  /\ walk.kind = "ingest" => AuthoredBy(e, walk.at)
      /\ \A e \in walk.delivered \cup events :
            Admissible(e) /\ AuthoredBy(e, walk.at) => e \in Taken(events)
  BY <1>1, TakenFacts
<1>3. walk.began \subseteq relay
  BY <1>1 DEF SourceInv, PageInv
<1>4. \A e \in walk.began : AuthoredAt[e] >= walk.since => e \in walk.delivered \cup events
  BY <1>3 DEF LastPage, Matching
<1>5. "complete" \in Completions
  BY DEF Completions
<1> QED
  BY <1>1, <1>2, <1>4, <1>5, BreakKeeps

(* Every other end of the loop is not complete. *)
LEMMA IncompleteKeeps ==
    ASSUME SourceInv, walk.pc = "page", OnlyWalk,
           NEW class \in Completions \ {"complete"},
           NEW got \in SUBSET Events, Break(class, got)
    PROVE  SourceInv'
BY BreakKeeps

(* The ends of the loop, one by one. *)
LEMMA PageStepsKeep ==
    ASSUME SourceInv, walk.pc = "page", NEW events \in Pages,
           \/ LastPage(events) \/ MorePages(events)
           \/ PartialPage(events) \/ CancelledPage(events)
           \/ \E taken \in SUBSET events : OverLimit(events, taken)
    PROVE  SourceInv'
<1>1. events \in SUBSET Matching
  BY PagesMatch
<1>2. Taken(events) \in SUBSET Events
  BY <1>1, TakenFacts
<1>3. CASE LastPage(events)
  BY <1>1, <1>3, LastPageKeeps
<1>4. CASE MorePages(events)
  BY <1>1, <1>4, MorePagesKeeps
<1>5. CASE PartialPage(events)
  <2>1. Break("unknown", Taken(events)) /\ OnlyWalk
    BY <1>5 DEF PartialPage
  <2>2. "unknown" \in Completions \ {"complete"}
    BY DEF Completions
  <2> QED
    BY <1>2, <2>1, <2>2, IncompleteKeeps
<1>6. CASE CancelledPage(events)
  <2>1. Break("timeout", Taken(events)) /\ OnlyWalk
    BY <1>6 DEF CancelledPage
  <2>2. "timeout" \in Completions \ {"complete"}
    BY DEF Completions
  <2> QED
    BY <1>2, <2>1, <2>2, IncompleteKeeps
<1>7. CASE \E taken \in SUBSET events : OverLimit(events, taken)
  <2>1. PICK taken \in SUBSET events : OverLimit(events, taken)
    BY <1>7
  <2>2. Break("resource_limit", Taken(taken)) /\ OnlyWalk
    BY <2>1 DEF OverLimit
  <2>3. taken \in SUBSET Matching
    BY <1>1
  <2>4. Taken(taken) \in SUBSET Events
    BY <2>3, TakenFacts
  <2>5. "resource_limit" \in Completions \ {"complete"}
    BY DEF Completions
  <2> QED
    BY <2>2, <2>4, <2>5, IncompleteKeeps
<1> QED
  BY <1>3, <1>4, <1>5, <1>6, <1>7

(* No page came: nothing is complete. *)
LEMMA NoPageKeeps ==
    ASSUME SourceInv, NEW class \in Completions, NoPage(class)
    PROVE  SourceInv'
<1> DEFINE got == IF class = "unsupported" /\ walk.kind = "reconcile" THEN {} ELSE walk.got
<1>1. walk.pc = "page" /\ OnlyWalk /\ class # "complete" /\ Break(class, got)
  BY DEF NoPage
<1>2. got \in SUBSET Events
  BY <1>1, QueryFields DEF SourceInv
<1> QED
  BY <1>1, <1>2, IncompleteKeeps

(* Committing, losing the fence and stopping all end at rest. *)
LEMMA EndsKeep ==
    ASSUME SourceInv, Commit \/ Conflict \/ Abandon
    PROVE  SourceInv'
<1>1. SourceTypeOK
  BY DEF SourceInv
<1>2. CASE Commit
  <2>1. /\ walk.pc = "commit" /\ Persist(walk.got)
        /\ checkpoint' = Moved(walk.class, walk.got, walk.prior)
        /\ walk' = Resting /\ UNCHANGED <<relay, now>>
    BY <1>2 DEF Commit
  <2>2. walk.got \in SUBSET Events /\ walk.prior \in Events \cup {NoEvent}
    BY <1>1, <2>1, ResultFields
  <2>3. evidence' \subseteq Events /\ dirty' \in Nat
    BY <1>1, <2>1, <2>2, PersistFacts
  <2>4. checkpoint' \in Events \cup {NoEvent}
    BY <1>1, <2>1, <2>2, MovedFacts
  <2>5. SourceTypeOK'
    BY <1>1, <2>1, <2>3, <2>4 DEF SourceTypeOK
  <2> QED
    BY <2>1, <2>5, RestKeeps
<1>3. CASE Conflict \/ Abandon
  <2>1. walk' = Resting /\ UNCHANGED <<relay, evidence, checkpoint, dirty, now>>
    BY <1>3 DEF Conflict, Abandon, OnlyWalk
  <2>2. SourceTypeOK'
    BY <1>1, <2>1 DEF SourceTypeOK
  <2> QED
    BY <2>1, <2>2, RestKeeps
<1> QED
  BY <1>2, <1>3

(* Every step of the source keeps its invariant. *)
LEMMA SourceStepKeeps == SourceInv /\ SourceNext => SourceInv'
<1> SUFFICES ASSUME SourceInv, SourceNext
             PROVE  SourceInv'
  OBVIOUS
<1>1. CASE \E e \in Events : RelayGains(e) \/ Live(e)
  BY <1>1, SurroundingsKeep, LiveKeeps
<1>2. CASE Tick
  BY <1>2, SurroundingsKeep
<1>3. CASE \E kind \in Kinds : Begin(kind)
  BY <1>3, BeginKeeps
<1>4. CASE walk.pc = "page" /\ \E events \in Pages :
              \/ LastPage(events) \/ MorePages(events)
              \/ PartialPage(events) \/ CancelledPage(events)
              \/ \E taken \in SUBSET events : OverLimit(events, taken)
  BY <1>4, PageStepsKeep
<1>5. CASE \E class \in Completions : NoPage(class)
  BY <1>5, NoPageKeeps
<1>6. CASE Commit \/ Conflict \/ Abandon
  BY <1>6, EndsKeep
<1> QED
  BY <1>1, <1>2, <1>3, <1>4, <1>5, <1>6 DEF SourceNext

-----------------------------------------------------------------------------
(* What the specification guarantees of the source *)

evidenceVars == <<sourceVars, evaluationVars, part>>

(* A stuttering step of the source changes nothing it is judged by. *)
LEMMA SourceStutters ==
    ASSUME SourceInv, UNCHANGED sourceVars
    PROVE  SourceInv'
BY DEF SourceInv, SourceTypeOK, PageInv, ResultInv, sourceVars, Admissible, WellFormed,
       TagsWithinLimits, Verified, MutationOfTrade, AuthoredBy, Resting, Querying, Fetched

(* The page loop keeps its types, takes all that is admissible of what was  *)
(* delivered, and calls complete only a result that covers its window.       *)
THEOREM SourceInvariant == EvidenceSpec => []SourceInv
<1>1. EvidenceInit => SourceInv
  BY SourceStarts DEF EvidenceInit
<1>2. SourceInv /\ [EvidenceNext]_evidenceVars => SourceInv'
  BY SourceStepKeeps, SourceStutters DEF EvidenceNext, evidenceVars
<1> QED
  BY <1>1, <1>2, PTL DEF EvidenceSpec, evidenceVars

(* A step of the source that moves the checkpoint moves it forward: the      *)
(* fence holds the checkpoint where the query read it.                        *)
LEMMA CheckpointStep ==
    ASSUME SourceInv, SourceNext, checkpoint' # checkpoint
    PROVE  Before(checkpoint, checkpoint')
<1>1. SourceTypeOK
  BY DEF SourceInv
<1>2. CASE \E e \in Events : Live(e)
  <2>1. PICK e \in Events : Live(e)
    BY <1>2
  <2>2. checkpoint' = Moved("complete", {e}, checkpoint) /\ {e} \in SUBSET Events
    BY <2>1 DEF Live
  <2> QED
    BY <1>1, <2>2, MovedFacts DEF SourceTypeOK
<1>3. CASE Commit
  <2>1. /\ walk.pc = "commit" /\ checkpoint = walk.prior
        /\ checkpoint' = Moved(walk.class, walk.got, walk.prior)
    BY <1>3 DEF Commit, Fence
  <2>2. walk.got \in SUBSET Events /\ walk.prior \in Events \cup {NoEvent}
    BY <1>1, <2>1, ResultFields
  <2> QED
    BY <1>1, <2>1, <2>2, MovedFacts
<1>4. ASSUME ~(\E e \in Events : Live(e)), ~Commit
      PROVE  FALSE
  BY <1>4 DEF SourceNext, RelayGains, Tick, Begin, LastPage, MorePages, PartialPage,
              CancelledPage, OverLimit, NoPage, Conflict, Abandon, OnlyWalk
<1> QED
  BY <1>2, <1>3, <1>4

(* The checkpoint never moves back, for every set of events and whatever is  *)
(* committed between the read and the commit of a query.                      *)
THEOREM CheckpointsAdvance == EvidenceSpec => CheckpointsOnlyAdvance
<1>1. SourceInv /\ [EvidenceNext]_evidenceVars
          => [checkpoint' # checkpoint => Before(checkpoint, checkpoint')]_sourceVars
  BY CheckpointStep DEF EvidenceNext, evidenceVars, sourceVars
<1> QED
  BY <1>1, SourceInvariant, PTL DEF EvidenceSpec, evidenceVars, CheckpointsOnlyAdvance

(* The commit of a complete result strands nothing of its window. *)
LEMMA CommitStrandsNothing ==
    ASSUME SourceInv, Commit, checkpoint' # checkpoint,
           NEW e \in Behind(walk.began, checkpoint'), AuthoredAt[e] >= walk.since,
           AuthoredBy(e, walk.at) \/ walk.kind = "ingest" \/ Deadline <= Overlap + 2
    PROVE  e \in evidence'
<1>1. SourceTypeOK
  BY DEF SourceInv
<1>2. /\ walk.pc = "commit" /\ checkpoint = walk.prior /\ Persist(walk.got)
      /\ checkpoint' = Moved(walk.class, walk.got, walk.prior)
  BY DEF Commit, Fence
<1>3. /\ walk.got \in SUBSET Events /\ walk.prior \in Events \cup {NoEvent}
      /\ walk.began \subseteq Events /\ walk.at \in Nat /\ walk.kind \in Kinds
  BY <1>1, <1>2, ResultFields
<1>4. walk.class = "complete" /\ checkpoint' \in walk.got
  BY <1>1, <1>2, <1>3, MovedFacts
<1>5. PICK c \in walk.got : c = checkpoint'
  BY <1>4
<1>6. c \in Events /\ e \in Events /\ AuthoredAt[c] \in Nat /\ AuthoredAt[e] \in Nat
  BY <1>3, EventFacts DEF Behind
<1>7. /\ e \in walk.began /\ Admissible(e)
      /\ AuthoredAt[e] < Monus(AuthoredAt[c], Overlap)
  BY <1>5 DEF Behind
<1>8. Overlap \in Nat /\ Deadline \in Nat
  BY EventFacts
<1>9. AuthoredAt[e] + Overlap < AuthoredAt[c]
  BY <1>6, <1>7, <1>8 DEF Monus
<1>10. /\ walk.kind = "ingest" => AuthoredAt[c] <= walk.at
       /\ walk.kind = "reconcile" => AuthoredAt[c] < walk.at + Deadline
  BY <1>2, <1>4, <1>5 DEF SourceInv, ResultInv, AuthoredBy
<1>11. AuthoredBy(e, walk.at)
  <2>1. CASE AuthoredBy(e, walk.at)
    BY <2>1
  <2>2. CASE walk.kind = "ingest"
    BY <1>3, <1>6, <1>8, <1>9, <1>10, <2>2 DEF AuthoredBy
  <2>3. CASE walk.kind = "reconcile" /\ Deadline <= Overlap + 2
    BY <1>3, <1>6, <1>8, <1>9, <1>10, <2>3 DEF AuthoredBy
  <2> QED
    BY <1>3, <2>1, <2>2, <2>3 DEF Kinds
<1>12. e \in walk.got
  BY <1>2, <1>4, <1>7, <1>11 DEF SourceInv, ResultInv
<1> QED
  BY <1>2, <1>12 DEF Persist

(* A query that moves the checkpoint strands nothing of its window, however  *)
(* the relay pages, truncates or fails, and whatever the limits are.          *)
THEOREM QueriesStrandNothingHolds == EvidenceSpec => QueriesStrandNothing
<1> DEFINE Act == walk.pc = "commit" /\ walk'.pc = "rest" /\ checkpoint' # checkpoint
                    => \A e \in Behind(walk.began, checkpoint') :
                           /\ AuthoredAt[e] >= walk.since
                           /\ \/ AuthoredBy(e, walk.at) \/ walk.kind = "ingest"
                              \/ Deadline <= Overlap + 2
                           => e \in evidence'
<1>1. SourceInv /\ [EvidenceNext]_evidenceVars => [Act]_sourceVars
  <2> SUFFICES ASSUME SourceInv, [EvidenceNext]_evidenceVars, ~UNCHANGED sourceVars,
                      walk.pc = "commit", walk'.pc = "rest", checkpoint' # checkpoint
               PROVE  Act
    OBVIOUS
  <2>1. SourceNext
    BY DEF EvidenceNext, evidenceVars
  <2>2. walk' # walk
    OBVIOUS
  <2>3. Commit
    BY <2>1, <2>2 DEF SourceNext, RelayGains, Live, Tick, Begin, LastPage, MorePages,
                      PartialPage, CancelledPage, OverLimit, NoPage, Conflict, Abandon, OnlyWalk
  <2> QED
    BY <2>3, CommitStrandsNothing
<1>2. QueriesStrandNothing <=> [][Act]_sourceVars
  BY DEF QueriesStrandNothing
<1> HIDE DEF Act
<1> QED
  BY <1>1, <1>2, SourceInvariant, PTL DEF EvidenceSpec, evidenceVars

-----------------------------------------------------------------------------
(* From the sources' results to the verdict *)

(* What each stage rests on: the projection agrees with the coverage of the *)
(* sources, or the reducer lowered it, and the outcome is theirs.            *)
VerdictInv ==
    /\ part = "query" => stage = "idle"
    /\ stage \in {"reduce", "evaluate", "attest", "attested"}
          => input.sources \in [Sources -> SourceResults]
    /\ stage \in {"evaluate", "attest", "attested"}
          => /\ result.given = Given(input.sources)
             /\ result.projection.evidence
                   \in {EvidenceState(Coverage(input.sources)), "unsupported_version"}
             /\ result.coverage = Coverage(input.sources)
    /\ stage \in {"attest", "attested"}
          => result.outcome = Outcome(result.coverage, result.projection)

(* Both kinds of input start the stages. *)
LEMMA VerdictStarts == EvidenceInit => VerdictInv
<1> SUFFICES ASSUME EvidenceInit
             PROVE  VerdictInv
  OBVIOUS
<1>1. CASE stage = "idle" /\ part = "query"
  BY <1>1 DEF VerdictInv
<1>2. CASE part = "verdict" /\ EvaluationInit
  <2>1. CASE stage = "replay"
    BY <1>2, <2>1 DEF VerdictInv
  <2>2. CASE \E r \in [Sources -> SourceResults] : input = [sources |-> r] /\ stage = "reduce"
    BY <1>2, <2>2 DEF VerdictInv
  <2> QED
    BY <1>2, <2>1, <2>2 DEF EvaluationInit
<1> QED
  BY <1>1, <1>2 DEF EvidenceInit

(* Every stage hands on what the next one rests on. *)
LEMMA VerdictStepKeeps == VerdictInv /\ [EvidenceNext]_evidenceVars => VerdictInv'
<1> SUFFICES ASSUME VerdictInv, [EvidenceNext]_evidenceVars
             PROVE  VerdictInv'
  OBVIOUS
<1>1. CASE UNCHANGED <<evaluationVars, part>>
  BY <1>1 DEF VerdictInv, evaluationVars
<1>2. CASE part = "verdict" /\ EvaluationNext /\ part' = part
  <2>1. CASE Replay \/ \E at \in Moments, t \in Finishes : Freeze(at, t)
    BY <1>2, <2>1 DEF VerdictInv, Replay, Freeze
  <2>2. CASE Refuse
    BY <1>2, <2>2 DEF VerdictInv, Refuse
  <2>3. CASE \E p \in Answers : Reduce(p)
    <3>1. PICK p \in Answers : Reduce(p)
      BY <2>3
    <3>2. /\ stage = "reduce" /\ stage' = "evaluate" /\ input' = input
          /\ p.evidence \in {EvidenceState(Coverage(input.sources)), "unsupported_version"}
          /\ result' = [given |-> Given(input.sources), projection |-> p,
                        coverage |-> Coverage(input.sources)]
      BY <3>1 DEF Reduce, Given
    <3>3. /\ result'.given = Given(input.sources) /\ result'.projection = p
          /\ result'.coverage = Coverage(input.sources)
      BY <3>2
    <3> QED
      BY <1>2, <3>2, <3>3 DEF VerdictInv
  <2>4. CASE Evaluate
    <3>1. /\ stage = "evaluate" /\ stage' = "attest" /\ input' = input
          /\ result' = [given |-> result.given, projection |-> result.projection,
                        coverage |-> result.coverage,
                        outcome |-> Outcome(result.coverage, result.projection)]
      BY <2>4 DEF Evaluate
    <3>2. /\ result'.given = result.given /\ result'.projection = result.projection
          /\ result'.coverage = result.coverage
          /\ result'.outcome = Outcome(result.coverage, result.projection)
      BY <3>1
    <3> QED
      BY <1>2, <3>1, <3>2 DEF VerdictInv
  <2>5. CASE Attest
    BY <1>2, <2>5 DEF VerdictInv, Attest
  <2>6. CASE Done
    BY <1>2, <2>6 DEF VerdictInv, Done, evaluationVars
  <2>7. CASE ReplayRefused \/ (\E at \in Moments, t \in Finishes : FreezeRefused(at, t))
                \/ ReduceRefused \/ AttestRefused
    BY <2>2, <2>7 DEF ReplayRefused, FreezeRefused, ReduceRefused, AttestRefused
  <2> QED
    BY <1>2, <2>1, <2>3, <2>4, <2>5, <2>6, <2>7 DEF EvaluationNext
<1> QED
  BY <1>1, <1>2 DEF EvidenceNext, evidenceVars

(* Anything but scope_satisfied leaves the claim undecided. *)
LEMMA UncoveredUndecided ==
    ASSUME NEW coverage, coverage # "scope_satisfied", NEW p
    PROVE  Outcome(coverage, p) = "indeterminate"
BY DEF Outcome

(* Coverage is satisfied by the required sources alone, all of them complete. *)
LEMMA Satisfied ==
    ASSUME NEW sources
    PROVE  Coverage(sources) = "scope_satisfied" <=>
               \A s \in Sources : sources[s].required => Completion(sources[s].class) = "complete"
BY DEF Coverage

-----------------------------------------------------------------------------
(* The canonical order of a replay *)

FactRecords == [event : Nat, sig : Nat, mutation : Nat, authored : Nat,
                observed : Nat, bytes : Nat]
IsReplay(s) == \E n \in Nat : s \in [1 .. n -> FactRecords]

(* compare_fact, written out. *)
Earlier(f, g) ==
    \/ f.authored < g.authored
    \/ f.authored = g.authored /\ f.event < g.event
    \/ f.authored = g.authored /\ f.event = g.event /\ f.sig < g.sig
    \/ /\ f.authored = g.authored /\ f.event = g.event /\ f.sig = g.sig
       /\ f.observed < g.observed
    \/ /\ f.authored = g.authored /\ f.event = g.event /\ f.sig = g.sig
       /\ f.observed = g.observed /\ f.bytes < g.bytes

(* The keys of two facts, field by field. *)
LEMMA KeyEquality ==
    ASSUME NEW f \in FactRecords, NEW g \in FactRecords
    PROVE  Key(f) = Key(g) <=>
               /\ f.authored = g.authored /\ f.event = g.event /\ f.sig = g.sig
               /\ f.observed = g.observed /\ f.bytes = g.bytes
BY DEF Key

(* The lexicographic order of the keys. *)
LEMMA KeyOrder ==
    ASSUME NEW f \in FactRecords, NEW g \in FactRecords
    PROVE  Precedes(Key(f), Key(g)) <=> Earlier(f, g)
<1> DEFINE k == Key(f)
           l == Key(g)
<1>1. /\ DOMAIN k = 1 .. 5
      /\ k[1] = f.authored /\ k[2] = f.event /\ k[3] = f.sig /\ k[4] = f.observed
      /\ k[5] = f.bytes
  BY DEF Key
<1>2. /\ l[1] = g.authored /\ l[2] = g.event /\ l[3] = g.sig /\ l[4] = g.observed
      /\ l[5] = g.bytes
  BY DEF Key
<1> HIDE DEF k, l
<1> DEFINE less(n) == k[n] < l[n] /\ \A p \in 1 .. n - 1 : k[p] = l[p]
<1>3. Precedes(k, l) <=> less(1) \/ less(2) \/ less(3) \/ less(4) \/ less(5)
  <2>1. \A n \in 1 .. 5 : n = 1 \/ n = 2 \/ n = 3 \/ n = 4 \/ n = 5
    OBVIOUS
  <2> QED
    BY <1>1, <2>1 DEF Precedes
<1>4. less(1) <=> k[1] < l[1]
  OBVIOUS
<1>5. less(2) <=> k[1] = l[1] /\ k[2] < l[2]
  <2>1. \A p \in 1 .. 2 - 1 : p = 1
    OBVIOUS
  <2> QED
    BY <2>1
<1>6. less(3) <=> k[1] = l[1] /\ k[2] = l[2] /\ k[3] < l[3]
  <2>1. \A p \in 1 .. 3 - 1 : p = 1 \/ p = 2
    OBVIOUS
  <2> QED
    BY <2>1
<1>7. less(4) <=> k[1] = l[1] /\ k[2] = l[2] /\ k[3] = l[3] /\ k[4] < l[4]
  <2>1. \A p \in 1 .. 4 - 1 : p = 1 \/ p = 2 \/ p = 3
    OBVIOUS
  <2> QED
    BY <2>1
<1>8. less(5) <=> /\ k[1] = l[1] /\ k[2] = l[2] /\ k[3] = l[3] /\ k[4] = l[4]
                  /\ k[5] < l[5]
  <2>1. \A p \in 1 .. 5 - 1 : p = 1 \/ p = 2 \/ p = 3 \/ p = 4
    OBVIOUS
  <2> QED
    BY <2>1
<1> HIDE DEF less
<1> QED
  BY <1>1, <1>2, <1>3, <1>4, <1>5, <1>6, <1>7, <1>8 DEF k, l, Earlier

(* Facts are ordered totally up to their keys. *)
LEMMA EarlierOrder ==
    ASSUME NEW f \in FactRecords, NEW g \in FactRecords, NEW h \in FactRecords
    PROVE  /\ Precedes(Key(f), Key(g)) \/ Key(f) = Key(g) \/ Precedes(Key(g), Key(f))
           /\ Precedes(Key(f), Key(g)) => Key(f) # Key(g) /\ ~Precedes(Key(g), Key(f))
           /\ Precedes(Key(f), Key(g)) /\ Precedes(Key(g), Key(h)) => Precedes(Key(f), Key(h))
<1> USE DEF FactRecords
<1>1. Earlier(f, g) \/ Key(f) = Key(g) \/ Earlier(g, f)
  BY KeyEquality DEF Earlier
<1>2. Earlier(f, g) => Key(f) # Key(g) /\ ~Earlier(g, f)
  BY KeyEquality DEF Earlier
<1>3. Earlier(f, g) /\ Earlier(g, h) => Earlier(f, h)
  BY DEF Earlier
<1> USE DEF FactRecords
<1> QED
  BY <1>1, <1>2, <1>3, KeyOrder

(* The arrivals before the i-th in the stable order. *)
AheadOf(s, i) ==
    {j \in DOMAIN s : \/ Precedes(Key(s[j]), Key(s[i]))
                      \/ Key(s[j]) = Key(s[i]) /\ j < i}

(* The stable order is total, and what is ahead of the earlier of two is     *)
(* ahead of the later.                                                        *)
LEMMA StableOrder ==
    ASSUME NEW n \in Nat, NEW s \in [1 .. n -> FactRecords], NEW i \in 1 .. n, NEW j \in 1 .. n
    PROVE  /\ i \notin AheadOf(s, i)
           /\ i = j \/ i \in AheadOf(s, j) \/ j \in AheadOf(s, i)
           /\ i \in AheadOf(s, j) => AheadOf(s, i) \cup {i} \in SUBSET AheadOf(s, j)
<1>1. s[i] \in FactRecords /\ s[j] \in FactRecords /\ DOMAIN s = 1 .. n
  OBVIOUS
<1>2. i \notin AheadOf(s, i)
  BY <1>1, EarlierOrder DEF AheadOf
<1>3. i = j \/ i \in AheadOf(s, j) \/ j \in AheadOf(s, i)
  BY <1>1, EarlierOrder DEF AheadOf
<1>4. ASSUME i \in AheadOf(s, j), NEW x \in AheadOf(s, i)
      PROVE  x \in AheadOf(s, j)
  <2>1. x \in 1 .. n /\ s[x] \in FactRecords
    BY <1>1, <1>4 DEF AheadOf
  <2>2. \/ Precedes(Key(s[i]), Key(s[j]))
        \/ Key(s[i]) = Key(s[j]) /\ i < j
    BY <1>4 DEF AheadOf
  <2>3. \/ Precedes(Key(s[x]), Key(s[i]))
        \/ Key(s[x]) = Key(s[i]) /\ x < i
    BY <1>4 DEF AheadOf
  <2>4. Precedes(Key(s[x]), Key(s[i])) /\ Precedes(Key(s[i]), Key(s[j]))
            => Precedes(Key(s[x]), Key(s[j]))
    BY <1>1, <2>1, EarlierOrder
  <2>5. \/ Precedes(Key(s[x]), Key(s[j]))
        \/ Key(s[x]) = Key(s[j]) /\ x < j
    BY <1>1, <2>1, <2>2, <2>3, <2>4
  <2> QED
    BY <1>1, <2>1, <2>5 DEF AheadOf
<1> QED
  BY <1>2, <1>3, <1>4

(* The rank counts what is ahead, and grows along the order. *)
LEMMA RankFacts ==
    ASSUME NEW n \in Nat, NEW s \in [1 .. n -> FactRecords]
    PROVE  /\ \A i \in 1 .. n : /\ Rank(s, i) \in 1 .. n
                                /\ Rank(s, i) = 1 + Cardinality(AheadOf(s, i))
                                /\ IsFiniteSet(AheadOf(s, i))
                                /\ Cardinality(AheadOf(s, i)) \in Nat
           /\ \A i, j \in 1 .. n : Rank(s, i) = Rank(s, j) => i = j
<1>1. IsFiniteSet(1 .. n) /\ Cardinality(1 .. n) = n
  BY FS_Interval
<1>2. ASSUME NEW i \in 1 .. n
      PROVE  /\ IsFiniteSet(AheadOf(s, i)) /\ Cardinality(AheadOf(s, i)) \in Nat
             /\ Rank(s, i) = 1 + Cardinality(AheadOf(s, i))
             /\ Rank(s, i) \in 1 .. n
  <2>1. AheadOf(s, i) \in SUBSET ((1 .. n) \ {i})
    BY StableOrder DEF AheadOf
  <2>2. IsFiniteSet((1 .. n) \ {i}) /\ Cardinality((1 .. n) \ {i}) = n - 1
    BY <1>1, FS_RemoveElement
  <2>3. IsFiniteSet(AheadOf(s, i)) /\ Cardinality(AheadOf(s, i)) <= n - 1
    BY <2>1, <2>2, FS_Subset
  <2>4. Cardinality(AheadOf(s, i)) \in Nat
    BY <2>3, FS_CardinalityType
  <2>5. Rank(s, i) = 1 + Cardinality(AheadOf(s, i))
    BY DEF Rank, AheadOf
  <2> QED
    BY <2>3, <2>4, <2>5
<1>3. ASSUME NEW i \in 1 .. n, NEW j \in 1 .. n, i \in AheadOf(s, j)
      PROVE  Rank(s, i) < Rank(s, j)
  <2>1. AheadOf(s, i) \cup {i} \in SUBSET AheadOf(s, j) /\ i \notin AheadOf(s, i)
    BY <1>3, StableOrder
  <2>2. Cardinality(AheadOf(s, i) \cup {i}) = Cardinality(AheadOf(s, i)) + 1
    BY <1>2, <2>1, FS_AddElement
  <2>3. Cardinality(AheadOf(s, i) \cup {i}) <= Cardinality(AheadOf(s, j))
    BY <1>2, <2>1, FS_Subset
  <2> QED
    BY <1>2, <2>2, <2>3
<1>4. ASSUME NEW i \in 1 .. n, NEW j \in 1 .. n, Rank(s, i) = Rank(s, j)
      PROVE  i = j
  <2>1. Rank(s, i) \in 1 .. n /\ Rank(s, j) \in 1 .. n
    BY <1>2
  <2>2. ~(i \in AheadOf(s, j)) /\ ~(j \in AheadOf(s, i))
    <3>1. i \in AheadOf(s, j) => Rank(s, i) < Rank(s, j)
      BY <1>3
    <3>2. j \in AheadOf(s, i) => Rank(s, j) < Rank(s, i)
      BY <1>3
    <3> QED
      BY <1>4, <2>1, <3>1, <3>2
  <2> QED
    BY <2>2, StableOrder
<1> QED
  BY <1>2, <1>4

(* An injection of a finite interval into itself is onto. *)
LEMMA OntoInterval ==
    ASSUME NEW n \in Nat, NEW f \in [1 .. n -> 1 .. n],
           \A i, j \in 1 .. n : f[i] = f[j] => i = j
    PROVE  \A k \in 1 .. n : \E i \in 1 .. n : f[i] = k
<1>1. IsFiniteSet(1 .. n)
  BY FS_Interval
<1>2. f \in Injection(1 .. n, 1 .. n)
  BY DEF Injection, IsInjective
<1>3. f \in Surjection(1 .. n, 1 .. n)
  BY <1>1, <1>2, FS_Injection
<1> QED
  BY <1>3 DEF Surjection

(* Every place of the sorted replay holds the arrival of that rank. *)
LEMMA SortedFacts ==
    ASSUME NEW n \in Nat, NEW s \in [1 .. n -> FactRecords]
    PROVE  /\ Sorted(s) \in [1 .. n -> FactRecords]
           /\ \A k \in 1 .. n : \E i \in 1 .. n : Rank(s, i) = k /\ Sorted(s)[k] = s[i]
           /\ \A i \in 1 .. n : \E k \in 1 .. n : Sorted(s)[k] = s[i]
<1> DEFINE f == [i \in 1 .. n |-> Rank(s, i)]
<1>1. f \in [1 .. n -> 1 .. n] /\ \A i, j \in 1 .. n : f[i] = f[j] => i = j
  BY RankFacts
<1>2. \A k \in 1 .. n : \E i \in 1 .. n : f[i] = k
  <2> HIDE DEF f
  <2> QED
    BY <1>1, OntoInterval
<1>3. DOMAIN s = 1 .. n
  OBVIOUS
<1>4. ASSUME NEW k \in 1 .. n
      PROVE  \E i \in 1 .. n : Rank(s, i) = k /\ Sorted(s)[k] = s[i]
  <2> DEFINE i == CHOOSE x \in 1 .. n : Rank(s, x) = k
  <2>1. \E x \in 1 .. n : Rank(s, x) = k
    BY <1>2
  <2>2. i \in 1 .. n /\ Rank(s, i) = k
    BY <2>1
  <2>3. Sorted(s)[k] = s[i]
    BY <1>3 DEF Sorted
  <2> QED
    BY <2>2, <2>3
<1>5. Sorted(s) \in [1 .. n -> FactRecords]
  <2>1. DOMAIN Sorted(s) = 1 .. n /\ Sorted(s) = [k \in 1 .. n |-> Sorted(s)[k]]
    BY <1>3 DEF Sorted
  <2>2. \A k \in 1 .. n : Sorted(s)[k] \in FactRecords
    BY <1>4
  <2> QED
    BY <2>1, <2>2
<1>6. ASSUME NEW i \in 1 .. n
      PROVE  \E k \in 1 .. n : Sorted(s)[k] = s[i]
  <2>1. Rank(s, i) \in 1 .. n
    BY RankFacts
  <2>2. PICK x \in 1 .. n : Rank(s, x) = Rank(s, i) /\ Sorted(s)[Rank(s, i)] = s[x]
    BY <1>4, <2>1
  <2>3. x = i
    BY <2>2, RankFacts
  <2> QED
    BY <2>1, <2>2, <2>3
<1> QED
  BY <1>4, <1>5, <1>6

-----------------------------------------------------------------------------
(* The order of arrival does not matter to the canonical order *)

(* The arrivals before a key, and those not after it. *)
Under(s, f) == {j \in DOMAIN s : Precedes(Key(s[j]), Key(f))}
UpTo(s, f) == {j \in DOMAIN s : Precedes(Key(s[j]), Key(f)) \/ Key(s[j]) = Key(f)}

Permuted(s, q) == [k \in DOMAIN s |-> s[q[k]]]

(* A permutation of an interval is one to one. *)
LEMMA PermutationFacts ==
    ASSUME NEW n \in Nat, NEW q \in Bijection(1 .. n, 1 .. n)
    PROVE  /\ q \in [1 .. n -> 1 .. n]
           /\ \A w \in 1 .. n : \E v \in 1 .. n : q[v] = w
           /\ \A i, j \in 1 .. n : q[i] = q[j] => i = j
BY DEF Bijection, Injection, Surjection, IsInjective

(* Counting the arrivals that satisfy a property of the fact alone. *)
LEMMA PermutedCount ==
    ASSUME NEW n \in Nat, NEW q \in Bijection(1 .. n, 1 .. n),
           NEW S \in SUBSET (1 .. n), NEW T \in SUBSET (1 .. n),
           \A j \in 1 .. n : j \in T <=> q[j] \in S
    PROVE  Cardinality(T) = Cardinality(S)
<1> DEFINE g == [j \in T |-> q[j]]
<1>1. /\ q \in [1 .. n -> 1 .. n]
      /\ \A w \in 1 .. n : \E v \in 1 .. n : q[v] = w
      /\ \A i, j \in 1 .. n : q[i] = q[j] => i = j
  BY PermutationFacts
<1>2. g \in [T -> S]
  BY <1>1
<1>3. \A a, b \in T : g[a] = g[b] => a = b
  BY <1>1
<1>4. \A w \in S : \E v \in T : g[v] = w
  BY <1>1
<1> HIDE DEF g
<1>5. g \in Bijection(T, S)
  BY <1>2, <1>3, <1>4 DEF Bijection, Injection, Surjection, IsInjective
<1>6. ExistsBijection(T, S)
  BY <1>5 DEF ExistsBijection
<1>7. IsFiniteSet(T)
  <2>1. IsFiniteSet(1 .. n)
    BY FS_Interval
  <2> QED
    BY <2>1, FS_Subset
<1> QED
  BY <1>6, <1>7, FS_Bijection

(* The key at place k is the one with fewer than k arrivals before it and k *)
(* or more not after it.                                                     *)
LEMMA PlaceOfKey ==
    ASSUME NEW n \in Nat, NEW s \in [1 .. n -> FactRecords], NEW k \in 1 .. n
    PROVE  /\ \A f \in FactRecords : /\ IsFiniteSet(Under(s, f)) /\ IsFiniteSet(UpTo(s, f))
                                     /\ Cardinality(Under(s, f)) \in Nat
                                     /\ Cardinality(UpTo(s, f)) \in Nat
           /\ Cardinality(Under(s, Sorted(s)[k])) < k
           /\ k <= Cardinality(UpTo(s, Sorted(s)[k]))
<1>1. DOMAIN s = 1 .. n /\ IsFiniteSet(1 .. n)
  BY FS_Interval
<1>2. ASSUME NEW f \in FactRecords
      PROVE  /\ IsFiniteSet(Under(s, f)) /\ IsFiniteSet(UpTo(s, f))
             /\ Cardinality(Under(s, f)) \in Nat /\ Cardinality(UpTo(s, f)) \in Nat
  <2>1. Under(s, f) \in SUBSET (1 .. n) /\ UpTo(s, f) \in SUBSET (1 .. n)
    BY <1>1 DEF Under, UpTo
  <2>2. IsFiniteSet(Under(s, f)) /\ IsFiniteSet(UpTo(s, f))
    BY <1>1, <2>1, FS_Subset
  <2> QED
    BY <2>2, FS_CardinalityType
<1>3. PICK i \in 1 .. n : Rank(s, i) = k /\ Sorted(s)[k] = s[i]
  BY SortedFacts
<1>4. /\ k = 1 + Cardinality(AheadOf(s, i)) /\ IsFiniteSet(AheadOf(s, i))
      /\ Cardinality(AheadOf(s, i)) \in Nat
  BY <1>3, RankFacts
<1>5. s[i] \in FactRecords
  OBVIOUS
<1>6. Cardinality(Under(s, s[i])) <= Cardinality(AheadOf(s, i))
  <2>1. Under(s, s[i]) \in SUBSET AheadOf(s, i)
    BY DEF Under, AheadOf
  <2> QED
    BY <1>4, <2>1, FS_Subset
<1>7. Cardinality(AheadOf(s, i)) + 1 <= Cardinality(UpTo(s, s[i]))
  <2>1. AheadOf(s, i) \cup {i} \in SUBSET UpTo(s, s[i])
    BY <1>1 DEF UpTo, AheadOf
  <2>2. i \notin AheadOf(s, i)
    BY StableOrder
  <2>3. Cardinality(AheadOf(s, i) \cup {i}) = Cardinality(AheadOf(s, i)) + 1
    BY <1>4, <2>2, FS_AddElement
  <2>4. Cardinality(AheadOf(s, i) \cup {i}) <= Cardinality(UpTo(s, s[i]))
    BY <1>2, <1>5, <2>1, FS_Subset
  <2> QED
    BY <2>3, <2>4
<1>8. Cardinality(Under(s, s[i])) \in Nat /\ Cardinality(UpTo(s, s[i])) \in Nat
  BY <1>2, <1>5
<1>9. Cardinality(Under(s, s[i])) < k /\ k <= Cardinality(UpTo(s, s[i]))
  BY <1>4, <1>6, <1>7, <1>8
<1> QED
  BY <1>2, <1>3, <1>9

(* Two keys cannot both have the place k. *)
LEMMA PlaceIsOfOneKey ==
    ASSUME NEW n \in Nat, NEW s \in [1 .. n -> FactRecords], NEW k \in 1 .. n,
           NEW f \in FactRecords, NEW g \in FactRecords,
           k <= Cardinality(UpTo(s, f)), Cardinality(Under(s, g)) < k
    PROVE  ~Precedes(Key(f), Key(g))
<1> SUFFICES ASSUME Precedes(Key(f), Key(g))
             PROVE  FALSE
  OBVIOUS
<1>1. UpTo(s, f) \in SUBSET Under(s, g)
  <2> SUFFICES ASSUME NEW j \in UpTo(s, f)
               PROVE  j \in Under(s, g)
    OBVIOUS
  <2>1. j \in DOMAIN s /\ s[j] \in FactRecords
    BY DEF UpTo
  <2>2. Precedes(Key(s[j]), Key(g))
    BY <2>1, EarlierOrder DEF UpTo
  <2> QED
    BY <2>1, <2>2 DEF Under
<1>2. /\ IsFiniteSet(Under(s, g))
      /\ Cardinality(Under(s, g)) \in Nat /\ Cardinality(UpTo(s, f)) \in Nat
  BY PlaceOfKey
<1>3. Cardinality(UpTo(s, f)) <= Cardinality(Under(s, g))
  BY <1>1, <1>2, FS_Subset
<1> QED
  BY <1>2, <1>3

(* Facts of one replay with one key are one fact: an event carries one       *)
(* mutation.                                                                  *)
LEMMA OneFactPerKey ==
    ASSUME NEW n \in Nat, NEW s \in [1 .. n -> FactRecords], ~Conflicting(s),
           NEW i \in 1 .. n, NEW j \in 1 .. n, Key(s[i]) = Key(s[j])
    PROVE  s[i] = s[j]
<1>1. s[i] \in FactRecords /\ s[j] \in FactRecords
  OBVIOUS
<1>2. s[i].event = s[j].event => s[i].mutation = s[j].mutation
  BY DEF Conflicting
<1>3. /\ s[i].authored = s[j].authored /\ s[i].event = s[j].event /\ s[i].sig = s[j].sig
      /\ s[i].observed = s[j].observed /\ s[i].bytes = s[j].bytes
  BY <1>1, KeyEquality
<1>4. \A f \in FactRecords :
          f = [event |-> f.event, sig |-> f.sig, mutation |-> f.mutation,
               authored |-> f.authored, observed |-> f.observed, bytes |-> f.bytes]
  BY DEF FactRecords
<1>5. /\ s[i] = [event |-> s[i].event, sig |-> s[i].sig, mutation |-> s[i].mutation,
                 authored |-> s[i].authored, observed |-> s[i].observed, bytes |-> s[i].bytes]
      /\ s[j] = [event |-> s[j].event, sig |-> s[j].sig, mutation |-> s[j].mutation,
                 authored |-> s[j].authored, observed |-> s[j].observed, bytes |-> s[j].bytes]
  BY <1>1, <1>4
<1> QED
  BY <1>2, <1>3, <1>5, Zenon

(* The canonical order is that of every permutation of the arrivals. *)
LEMMA SortedOfPermutation ==
    ASSUME NEW n \in Nat, NEW s \in [1 .. n -> FactRecords], ~Conflicting(s),
           NEW q \in Bijection(1 .. n, 1 .. n)
    PROVE  /\ Permuted(s, q) \in [1 .. n -> FactRecords]
           /\ Sorted(Permuted(s, q)) = Sorted(s)
<1>1. q \in [1 .. n -> 1 .. n] /\ \A w \in 1 .. n : \E v \in 1 .. n : q[v] = w
  BY PermutationFacts
<1>2. DOMAIN s = 1 .. n
  OBVIOUS
<1>3. PICK o : o = Permuted(s, q)
  OBVIOUS
<1>4. o \in [1 .. n -> FactRecords] /\ \A k \in 1 .. n : o[k] = s[q[k]]
  BY <1>1, <1>2, <1>3 DEF Permuted
<1>5. DOMAIN o = 1 .. n
  BY <1>4
<1>6. ASSUME NEW f \in FactRecords
      PROVE  /\ Cardinality(Under(o, f)) = Cardinality(Under(s, f))
             /\ Cardinality(UpTo(o, f)) = Cardinality(UpTo(s, f))
  <2>1. /\ Under(o, f) \in SUBSET (1 .. n) /\ Under(s, f) \in SUBSET (1 .. n)
        /\ UpTo(o, f) \in SUBSET (1 .. n) /\ UpTo(s, f) \in SUBSET (1 .. n)
    BY <1>2, <1>5 DEF Under, UpTo
  <2>2. \A j \in 1 .. n : j \in Under(o, f) <=> q[j] \in Under(s, f)
    BY <1>1, <1>2, <1>4, <1>5 DEF Under
  <2>3. \A j \in 1 .. n : j \in UpTo(o, f) <=> q[j] \in UpTo(s, f)
    BY <1>1, <1>2, <1>4, <1>5 DEF UpTo
  <2> QED
    BY <2>1, <2>2, <2>3, PermutedCount
<1>7. ASSUME NEW k \in 1 .. n
      PROVE  Sorted(o)[k] = Sorted(s)[k]
  <2>1. PICK i \in 1 .. n : Sorted(s)[k] = s[i]
    BY SortedFacts
  <2>2. PICK j \in 1 .. n : Sorted(o)[k] = o[j]
    BY <1>4, SortedFacts
  <2>3. s[i] \in FactRecords /\ o[j] \in FactRecords /\ q[j] \in 1 .. n /\ o[j] = s[q[j]]
    BY <1>1, <1>4
  <2>4. Cardinality(Under(s, s[i])) < k /\ k <= Cardinality(UpTo(s, s[i]))
    BY <2>1, PlaceOfKey
  <2>5. Cardinality(Under(o, o[j])) < k /\ k <= Cardinality(UpTo(o, o[j]))
    BY <1>4, <2>2, PlaceOfKey
  <2>6. Cardinality(Under(s, o[j])) < k /\ k <= Cardinality(UpTo(s, o[j]))
    BY <1>6, <2>3, <2>5
  <2>7. ~Precedes(Key(s[i]), Key(o[j])) /\ ~Precedes(Key(o[j]), Key(s[i]))
    BY <2>3, <2>4, <2>6, PlaceIsOfOneKey
  <2>8. Key(s[i]) = Key(o[j])
    BY <2>3, <2>7, EarlierOrder
  <2>9. s[i] = s[q[j]]
    BY <2>3, <2>8, OneFactPerKey
  <2> QED
    BY <2>1, <2>2, <2>3, <2>9
<1>8. Sorted(o) \in [1 .. n -> FactRecords] /\ Sorted(s) \in [1 .. n -> FactRecords]
  BY <1>4, SortedFacts
<1>9. Sorted(o) = Sorted(s)
  BY <1>7, <1>8
<1> QED
  BY <1>3, <1>4, <1>9

(* A replay is made of its canonical order and its length. *)
LEMMA CanonicalOfPermutation ==
    ASSUME NEW n \in Nat, NEW s \in [1 .. n -> FactRecords], ~Conflicting(s),
           NEW q \in Bijection(1 .. n, 1 .. n)
    PROVE  Canonical(Permuted(s, q)) = Canonical(s)
<1>1. PICK o : o = Permuted(s, q)
  OBVIOUS
<1>2. o \in [1 .. n -> FactRecords] /\ Sorted(o) = Sorted(s)
  BY <1>1, SortedOfPermutation
<1>3. Len(o) = n /\ Len(s) = n
  BY <1>2
<1>4. Canonical(o) = Canonical(s)
  BY <1>2, <1>3, Zenon DEF Canonical
<1> QED
  BY <1>1, <1>4

-----------------------------------------------------------------------------
(* What is kept covers what arrived *)

(* A nonempty set of numbers has a least element. *)
LEMMA LeastNumber ==
    ASSUME NEW S \in SUBSET Nat, S # {}
    PROVE  \E m \in S : \A x \in S : m <= x
<1> DEFINE R == OpToRel(<, Nat)
<1>1. IsWellFoundedOn(R, Nat)
  BY NatLessThanWellFounded
<1>2. PICK m \in S : \A u \in S : ~(<<u, m>> \in R)
  <2> HIDE DEF R
  <2> QED
    BY <1>1, WFMin
<1>3. \A u \in S : ~(u < m)
  BY <1>2 DEF OpToRel
<1> QED
  BY <1>3

(* The places of the kept facts are counted off one by one. *)
LEMMA DistinctFacts ==
    ASSUME NEW n \in Nat, NEW t \in [1 .. n -> FactRecords]
    PROVE  /\ Distinct(t) \in [1 .. Cardinality(Kept(t)) -> FactRecords]
           /\ Cardinality(Kept(t)) \in Nat
           /\ \A p \in 1 .. Cardinality(Kept(t)) : \E k \in Kept(t) : Distinct(t)[p] = t[k]
           /\ \A k \in Kept(t) : \E p \in 1 .. Cardinality(Kept(t)) : Distinct(t)[p] = t[k]
<1> DEFINE K == Kept(t)
           c == Cardinality(K)
           at(k) == Cardinality(K \cap 1 .. k)
<1>1. K \in SUBSET (1 .. n) /\ IsFiniteSet(1 .. n)
  BY FS_Interval DEF Kept
<1>2. IsFiniteSet(K) /\ c \in Nat
  BY <1>1, FS_Subset, FS_CardinalityType
<1> HIDE DEF K
<1>3. ASSUME NEW k \in K
      PROVE  /\ IsFiniteSet(K \cap 1 .. k) /\ at(k) \in 1 .. c
  <2>1. K \cap 1 .. k \in SUBSET K /\ k \in K \cap 1 .. k
    BY <1>1
  <2>2. IsFiniteSet(K \cap 1 .. k) /\ at(k) <= c
    BY <1>2, <2>1, FS_Subset
  <2>3. at(k) \in Nat
    BY <2>2, FS_CardinalityType
  <2>4. at(k) # 0
    BY <2>1, <2>2, FS_EmptySet
  <2> QED
    BY <1>2, <2>2, <2>3, <2>4
<1>4. ASSUME NEW j \in K, NEW k \in K, j < k
      PROVE  at(j) < at(k)
  <2>1. (K \cap 1 .. j) \cup {k} \in SUBSET (K \cap 1 .. k) /\ k \notin K \cap 1 .. j
    BY <1>1, <1>4
  <2>2. Cardinality((K \cap 1 .. j) \cup {k}) = at(j) + 1
    BY <1>3, <2>1, FS_AddElement
  <2>3. Cardinality((K \cap 1 .. j) \cup {k}) <= at(k)
    BY <1>3, <2>1, FS_Subset
  <2>4. at(j) \in 1 .. c /\ at(k) \in 1 .. c
    BY <1>3
  <2> QED
    BY <2>2, <2>3, <2>4
<1>5. \A j, k \in K : at(j) = at(k) => j = k
  <2> SUFFICES ASSUME NEW j \in K, NEW k \in K, at(j) = at(k), j # k
               PROVE  FALSE
    OBVIOUS
  <2>1. j < k \/ k < j
    BY <1>1
  <2>2. at(j) < at(k) \/ at(k) < at(j)
    BY <1>4, <2>1
  <2>3. at(j) \in 1 .. c
    BY <1>3
  <2> QED
    BY <2>2, <2>3
<1>6. \A p \in 1 .. c : \E k \in K : at(k) = p
  <2> DEFINE f == [k \in K |-> at(k)]
  <2>1. f \in [K -> 1 .. c]
    BY <1>3
  <2>2. \A j, k \in K : f[j] = f[k] => j = k
    BY <1>5
  <2>3. \A k \in K : f[k] = at(k)
    OBVIOUS
  <2> HIDE DEF f
  <2>4. f \in Injection(K, 1 .. c)
    BY <2>1, <2>2 DEF Injection, IsInjective
  <2>5. IsFiniteSet(1 .. c) /\ Cardinality(1 .. c) = c
    BY <1>2, FS_Interval
  <2>6. f \in Surjection(K, 1 .. c)
    BY <2>4, <2>5, FS_Injection
  <2> QED
    BY <2>3, <2>6 DEF Surjection
<1>7. ASSUME NEW p \in 1 .. c
      PROVE  \E k \in K : at(k) = p /\ Distinct(t)[p] = t[k]
  <2> DEFINE k == CHOOSE x \in K : at(x) = p
  <2>1. k \in K /\ at(k) = p
    BY <1>6
  <2>2. Distinct(t)[p] = t[k]
    BY DEF Distinct, K
  <2> QED
    BY <2>1, <2>2
<1>8. Distinct(t) \in [1 .. c -> FactRecords]
  <2>1. Distinct(t) = [p \in 1 .. c |-> Distinct(t)[p]]
    BY DEF Distinct, K
  <2>2. \A p \in 1 .. c : Distinct(t)[p] \in FactRecords
    BY <1>1, <1>7
  <2> QED
    BY <2>1, <2>2
<1>9. ASSUME NEW k \in K
      PROVE  \E p \in 1 .. c : Distinct(t)[p] = t[k]
  <2>1. at(k) \in 1 .. c
    BY <1>3
  <2>2. PICK j \in K : at(j) = at(k) /\ Distinct(t)[at(k)] = t[j]
    BY <1>7, <2>1
  <2>3. j = k
    BY <1>5, <2>2
  <2> QED
    BY <2>1, <2>2, <2>3
<1> QED
  BY <1>2, <1>7, <1>8, <1>9 DEF K

(* Of every signed event one fact is kept, the first in canonical order. *)
LEMMA KeptCovers ==
    ASSUME NEW n \in Nat, NEW t \in [1 .. n -> FactRecords], NEW j \in 1 .. n
    PROVE  \E k \in Kept(t) : k \in 1 .. n /\ SameEvent(t[k], t[j])
<1> DEFINE S == {i \in 1 .. n : SameEvent(t[i], t[j])}
<1>1. S \in SUBSET Nat /\ j \in S
  BY DEF SameEvent
<1>2. PICK k \in S : \A x \in S : k <= x
  <2> HIDE DEF S
  <2>1. S # {}
    BY <1>1
  <2> QED
    BY <1>1, <2>1, LeastNumber
<1>3. k \in 1 .. n /\ SameEvent(t[k], t[j])
  OBVIOUS
<1>4. \A i \in 1 .. k - 1 : ~SameEvent(t[i], t[k])
  <2> SUFFICES ASSUME NEW i \in 1 .. k - 1, SameEvent(t[i], t[k])
               PROVE  FALSE
    OBVIOUS
  <2>1. i \in 1 .. n /\ SameEvent(t[i], t[j])
    BY <1>3 DEF SameEvent
  <2> QED
    BY <1>2, <1>3, <2>1
<1> QED
  BY <1>3, <1>4 DEF Kept

-----------------------------------------------------------------------------
(* The reducer's material *)

(* The material after each fact, as the loop builds it. *)
Builds(g, start, s, n) ==
    g = [k \in 0 .. n |-> IF k = 0 THEN start ELSE Carried(g[k - 1], s[k])]

(* The loop defines the material after every fact. *)
LEMMA LoopBuilds ==
    ASSUME NEW n \in Nat, NEW start, NEW s
    PROVE  \E g : Builds(g, start, s, n)
<1> DEFINE S == {k \in 0 .. n : ~\E g : Builds(g, start, s, k)}
<1>1. SUFFICES ASSUME S # {}
               PROVE  FALSE
  <2>1. n \in 0 .. n
    OBVIOUS
  <2> QED
    BY <1>1, <2>1
<1>2. S \in SUBSET Nat
  OBVIOUS
<1>3. PICK k \in S : \A x \in S : k <= x
  <2> HIDE DEF S
  <2> QED
    BY <1>1, <1>2, LeastNumber
<1>4. k \in 0 .. n /\ ~\E g : Builds(g, start, s, k)
  OBVIOUS
<1>5. CASE k = 0
  <2> DEFINE g == [m \in 0 .. 0 |-> start]
  <2>1. Builds(g, start, s, 0)
    BY DEF Builds
  <2> QED
    BY <1>4, <1>5, <2>1
<1>6. CASE k # 0
  <2>1. k - 1 \in 0 .. n /\ k - 1 \notin S
    BY <1>3, <1>4, <1>6
  <2>2. PICK h : Builds(h, start, s, k - 1)
    BY <2>1
  <2> DEFINE g == [m \in 0 .. k |-> IF m < k THEN h[m] ELSE Carried(h[k - 1], s[k])]
  <2>3. \A m \in 0 .. k - 1 : h[m] = IF m = 0 THEN start ELSE Carried(h[m - 1], s[m])
    BY <2>2 DEF Builds
  <2>4. ASSUME NEW m \in 0 .. k
        PROVE  g[m] = IF m = 0 THEN start ELSE Carried(g[m - 1], s[m])
    <3>1. CASE m < k
      <4>1. m \in 0 .. k - 1 /\ g[m] = h[m] /\ (m # 0 => g[m - 1] = h[m - 1])
        BY <1>4, <3>1
      <4> QED
        BY <2>3, <4>1
    <3>2. CASE m = k
      <4>1. g[m - 1] = h[k - 1] /\ g[m] = Carried(h[k - 1], s[k])
        BY <1>4, <1>6, <3>2
      <4> QED
        BY <1>6, <3>2, <4>1
    <3> QED
      BY <1>4, <3>1, <3>2
  <2>5. g = [m \in 0 .. k |-> g[m]]
    OBVIOUS
  <2> HIDE DEF g
  <2>6. Builds(g, start, s, k)
    BY <2>4, <2>5 DEF Builds
  <2> QED
    BY <1>4, <2>6
<1> QED
  BY <1>5, <1>6

(* The material holds each mutation under the least event that carries it;   *)
(* the pairs are of mutations and events.                                     *)
LeastOf(material, pairs) ==
    /\ material \in [{p[1] : p \in pairs} -> Nat]
    /\ \A p \in pairs : material[p[1]] <= p[2]
    /\ \A m \in DOMAIN material : <<m, material[m]>> \in pairs

Pairs(s, n) == {<<s[i].mutation, s[i].event>> : i \in 1 .. n}

(* One fact more. *)
LEMMA CarriedFacts ==
    ASSUME NEW P \in SUBSET (Nat \X Nat), NEW f \in FactRecords,
           NEW material, LeastOf(material, P)
    PROVE  LeastOf(Carried(material, f), P \cup {<<f.mutation, f.event>>})
<1> DEFINE D == {p[1] : p \in P}
           Q == P \cup {<<f.mutation, f.event>>}
           E == {p[1] : p \in Q}
<1>1. f.mutation \in Nat /\ f.event \in Nat /\ Q \subseteq Nat \X Nat
  BY DEF FactRecords
<1>2. /\ material \in [D -> Nat] /\ DOMAIN material = D
      /\ \A p \in P : material[p[1]] <= p[2]
      /\ \A m \in D : <<m, material[m]>> \in P
  BY DEF LeastOf
<1>3. E = D \cup {f.mutation}
  <2>1. PICK pair : pair = <<f.mutation, f.event>>
    OBVIOUS
  <2>2. pair[1] = f.mutation
    BY <2>1
  <2>3. {p[1] : p \in P \cup {pair}} = D \cup {pair[1]}
    BY Zenon
  <2> QED
    BY <2>1, <2>2, <2>3
<1>4. \A p \in P : p[1] \in D /\ p[2] \in Nat
  <2>1. \A p \in P : p[2] \in Nat
    OBVIOUS
  <2>2. \A p \in P : p[1] \in D
    BY Zenon
  <2> QED
    BY <2>1, <2>2
<1>5. CASE f.mutation \in D /\ material[f.mutation] <= f.event
  <2>1. Carried(material, f) = material
    BY <1>2, <1>5 DEF Carried
  <2>2. material \in [E -> Nat]
    <3>1. E = D
      BY <1>3, <1>5
    <3> QED
      BY <1>2, <3>1
  <2>3. \A p \in Q : material[p[1]] <= p[2]
    BY <1>2, <1>5
  <2>4. \A m \in DOMAIN material : <<m, material[m]>> \in Q
    BY <1>2
  <2> QED
    BY <2>1, <2>2, <2>3, <2>4 DEF LeastOf
<1>6. CASE ~(f.mutation \in D /\ material[f.mutation] <= f.event)
  <2>1. PICK next : next = Carried(material, f)
    OBVIOUS
  <2>2. next = [m \in D \cup {f.mutation} |->
                  IF m = f.mutation THEN f.event ELSE material[m]]
    BY <1>2, <1>6, <2>1 DEF Carried
  <2>3. next \in [E -> Nat] /\ DOMAIN next = D \cup {f.mutation}
    <3>1. \A m \in D : material[m] \in Nat
      BY <1>2
    <3>2. next \in [D \cup {f.mutation} -> Nat]
      BY <1>1, <2>2, <3>1
    <3> QED
      BY <1>3, <3>2
  <2>4. ASSUME NEW p \in Q
        PROVE  next[p[1]] <= p[2]
    <3>1. CASE p = <<f.mutation, f.event>>
      BY <1>1, <2>2, <3>1
    <3>2. CASE p \in P /\ p[1] # f.mutation
      <4>1. next[p[1]] = material[p[1]]
        BY <1>4, <2>2, <3>2
      <4> QED
        BY <1>2, <3>2, <4>1
    <3>3. CASE p \in P /\ p[1] = f.mutation
      <4>1. f.mutation \in D /\ material[f.mutation] \in Nat
        BY <1>2, <1>4, <3>3
      <4>2. material[f.mutation] <= p[2] /\ p[2] \in Nat
        BY <1>2, <1>4, <3>3
      <4>3. next[p[1]] = f.event
        BY <2>2, <3>3
      <4>4. f.event < material[f.mutation]
        BY <1>1, <1>6, <4>1
      <4> QED
        BY <1>1, <4>1, <4>2, <4>3, <4>4
    <3> QED
      BY <3>1, <3>2, <3>3
  <2>5. ASSUME NEW m \in DOMAIN next
        PROVE  <<m, next[m]>> \in Q
    <3>1. CASE m = f.mutation
      BY <2>2, <3>1
    <3>2. CASE m \in D /\ m # f.mutation
      <4>1. next[m] = material[m]
        BY <2>2, <3>2
      <4> QED
        BY <1>2, <3>2, <4>1
    <3> QED
      BY <2>3, <3>1, <3>2
  <2> QED
    BY <2>1, <2>3, <2>4, <2>5 DEF LeastOf
<1> QED
  BY <1>5, <1>6

(* The pairs of one fact more. *)
LEMMA PairsGrow ==
    ASSUME NEW n \in Nat, NEW s \in [1 .. n -> FactRecords], NEW k \in 1 .. n
    PROVE  /\ Pairs(s, k) = Pairs(s, k - 1) \cup {<<s[k].mutation, s[k].event>>}
           /\ Pairs(s, k) \subseteq Nat \X Nat /\ Pairs(s, 0) = {}
<1>1. \A i \in 1 .. k : (i = k \/ i \in 1 .. k - 1) /\ i \in 1 .. n
  OBVIOUS
<1>2. 1 .. k - 1 \subseteq 1 .. k /\ k \in 1 .. k
  OBVIOUS
<1>3. \A i \in 1 .. n : s[i].mutation \in Nat /\ s[i].event \in Nat
  BY DEF FactRecords
<1>4. Pairs(s, k) = Pairs(s, k - 1) \cup {<<s[k].mutation, s[k].event>>}
  BY <1>1, <1>2 DEF Pairs
<1>5. Pairs(s, k) \subseteq Nat \X Nat
  BY <1>1, <1>3 DEF Pairs
<1> QED
  BY <1>4, <1>5 DEF Pairs

(* The facts of one source, merged into the material so far. *)
LEMMA MergedFacts ==
    ASSUME NEW n \in Nat, NEW s \in [1 .. n -> FactRecords],
           NEW P \in SUBSET (Nat \X Nat), NEW start, LeastOf(start, P)
    PROVE  LeastOf(Merged(start, s), P \cup Pairs(s, n))
<1>1. Len(s) = n
  OBVIOUS
<1> DEFINE a == CHOOSE g : Builds(g, start, s, n)
<1>2. Builds(a, start, s, n)
  BY LoopBuilds
<1>3. Merged(start, s) = a[n]
  BY <1>1 DEF Merged, Builds
<1> HIDE DEF a
<1>4. \A k \in 0 .. n : a[k] = IF k = 0 THEN start ELSE Carried(a[k - 1], s[k])
  BY <1>2 DEF Builds
<1> DEFINE S == {k \in 0 .. n : ~LeastOf(a[k], P \cup Pairs(s, k))}
<1>5. SUFFICES ASSUME S # {}
               PROVE  FALSE
  <2>1. n \in 0 .. n
    OBVIOUS
  <2> QED
    BY <1>3, <1>5, <2>1
<1>6. S \in SUBSET Nat
  OBVIOUS
<1>7. PICK k \in S : \A x \in S : k <= x
  <2> HIDE DEF S
  <2> QED
    BY <1>5, <1>6, LeastNumber
<1>8. k \in 0 .. n /\ ~LeastOf(a[k], P \cup Pairs(s, k))
  OBVIOUS
<1>9. CASE k = 0
  <2>1. a[0] = start
    BY <1>4, <1>8, <1>9
  <2>2. P \cup Pairs(s, 0) = P
    BY DEF Pairs
  <2> QED
    BY <1>8, <1>9, <2>1, <2>2
<1>10. CASE k # 0
  <2>1. k - 1 \in 0 .. n /\ k - 1 \notin S
    <3>1. k - 1 \in 0 .. n /\ ~(k <= k - 1)
      BY <1>8, <1>10
    <3> HIDE DEF S
    <3> QED
      BY <1>7, <3>1
  <2>2. LeastOf(a[k - 1], P \cup Pairs(s, k - 1))
    BY <2>1
  <2>3. a[k] = Carried(a[k - 1], s[k])
    BY <1>4, <1>8, <1>10
  <2>4. k \in 1 .. n /\ s[k] \in FactRecords
    BY <1>8, <1>10
  <2>5. /\ Pairs(s, k) = Pairs(s, k - 1) \cup {<<s[k].mutation, s[k].event>>}
        /\ Pairs(s, k) \subseteq Nat \X Nat
    BY <2>4, PairsGrow
  <2>6. P \cup Pairs(s, k - 1) \in SUBSET (Nat \X Nat)
    BY <2>5
  <2>7. LeastOf(Carried(a[k - 1], s[k]),
                (P \cup Pairs(s, k - 1)) \cup {<<s[k].mutation, s[k].event>>})
    BY <2>2, <2>4, <2>6, CarriedFacts
  <2>8. (P \cup Pairs(s, k - 1)) \cup {<<s[k].mutation, s[k].event>>} = P \cup Pairs(s, k)
    BY <2>5
  <2> QED
    BY <1>8, <2>3, <2>7, <2>8
<1> QED
  BY <1>9, <1>10

(* No material carries nothing. *)
LEMMA NothingCarried == LeastOf(<<>>, {})
BY DEF LeastOf

(* The facts of one source alone. *)
LEMMA MaterialFacts ==
    ASSUME NEW n \in Nat, NEW s \in [1 .. n -> FactRecords]
    PROVE  LeastOf(Material(s), Pairs(s, n))
<1>1. {} \in SUBSET (Nat \X Nat) /\ {} \cup Pairs(s, n) = Pairs(s, n)
  OBVIOUS
<1>2. LeastOf(Merged(<<>>, s), {} \cup Pairs(s, n))
  BY <1>1, NothingCarried, MergedFacts
<1> QED
  BY <1>1, <1>2 DEF Material

(* Of two numbers not above each other. *)
LEMMA Antisymmetric == \A x, y \in Nat : x <= y /\ y <= x => x = y
OBVIOUS

(* Only one material holds the least events of given pairs. *)
LEMMA SameCarriers ==
    ASSUME NEW P, NEW a, LeastOf(a, P), NEW b, LeastOf(b, P)
    PROVE  a = b
<1> DEFINE D == {p[1] : p \in P}
<1>1. a \in [D -> Nat] /\ b \in [D -> Nat]
  BY DEF LeastOf
<1>2. ASSUME NEW m \in D
      PROVE  a[m] = b[m]
  <2>1. a[m] \in Nat /\ b[m] \in Nat /\ DOMAIN a = D /\ DOMAIN b = D
    BY <1>1
  <2>2. <<m, a[m]>> \in P /\ <<m, b[m]>> \in P
    BY <2>1 DEF LeastOf
  <2>3. b[m] <= a[m] /\ a[m] <= b[m]
    BY <2>2 DEF LeastOf
  <2> QED
    BY <2>1, <2>3, Antisymmetric, Zenon
<1> QED
  BY <1>1, <1>2

(* The material of the canonical facts is that of the arrivals in any order. *)
LEMMA MaterialOfPermutation ==
    ASSUME NEW n \in Nat, NEW s \in [1 .. n -> FactRecords], ~Conflicting(s),
           NEW q \in Bijection(1 .. n, 1 .. n)
    PROVE  Material(Permuted(s, q)) = Material(Canonical(s).facts)
<1>1. PICK o : o = Permuted(s, q)
  OBVIOUS
<1>2. PICK t : t = Sorted(s)
  OBVIOUS
<1>3. PICK c : c = Cardinality(Kept(t))
  OBVIOUS
<1>4. PICK f : f = Distinct(t)
  OBVIOUS
<1>5. /\ o \in [1 .. n -> FactRecords] /\ \A i \in 1 .. n : o[i] = s[q[i]]
  BY <1>1, SortedOfPermutation DEF Permuted
<1>6. /\ q \in [1 .. n -> 1 .. n] /\ \A w \in 1 .. n : \E v \in 1 .. n : q[v] = w
  BY PermutationFacts
<1>7. /\ t \in [1 .. n -> FactRecords]
      /\ \A k \in 1 .. n : \E i \in 1 .. n : t[k] = s[i]
      /\ \A i \in 1 .. n : \E k \in 1 .. n : t[k] = s[i]
  BY <1>2, SortedFacts
<1>8. /\ f \in [1 .. c -> FactRecords] /\ c \in Nat
      /\ \A p \in 1 .. c : \E k \in Kept(t) : f[p] = t[k]
      /\ \A k \in Kept(t) : \E p \in 1 .. c : f[p] = t[k]
  BY <1>3, <1>4, <1>7, DistinctFacts
<1>9. Kept(t) \subseteq 1 .. n
  BY <1>7 DEF Kept
<1>10. ASSUME NEW i \in 1 .. n
       PROVE  \E p \in 1 .. c : f[p].mutation = o[i].mutation /\ f[p].event = o[i].event
  <2>1. q[i] \in 1 .. n /\ o[i] = s[q[i]]
    BY <1>5, <1>6
  <2>2. PICK j \in 1 .. n : t[j] = s[q[i]]
    BY <1>7, <2>1
  <2>3. PICK k \in Kept(t) : k \in 1 .. n /\ SameEvent(t[k], t[j])
    BY <1>7, KeptCovers
  <2>4. PICK x \in 1 .. n : t[k] = s[x]
    BY <1>7, <2>3
  <2>5. s[x].event = s[q[i]].event
    BY <2>2, <2>3, <2>4 DEF SameEvent
  <2>6. s[x].mutation = s[q[i]].mutation
    BY <2>1, <2>5 DEF Conflicting
  <2>7. PICK p \in 1 .. c : f[p] = t[k]
    BY <1>8
  <2> QED
    BY <2>1, <2>4, <2>5, <2>6, <2>7
<1>11. ASSUME NEW p \in 1 .. c
       PROVE  \E i \in 1 .. n : o[i].mutation = f[p].mutation /\ o[i].event = f[p].event
  <2>1. PICK k \in Kept(t) : f[p] = t[k]
    BY <1>8
  <2>2. PICK x \in 1 .. n : t[k] = s[x]
    BY <1>7, <1>9
  <2>3. PICK v \in 1 .. n : q[v] = x
    BY <1>6
  <2> QED
    BY <1>5, <2>1, <2>2, <2>3
<1>12. LeastOf(Material(o), Pairs(o, n)) /\ LeastOf(Material(f), Pairs(f, c))
  BY <1>5, <1>8, MaterialFacts
<1>13. Material(o) = Material(f)
  <2>1. Pairs(o, n) = Pairs(f, c)
    <3>1. ASSUME NEW i \in 1 .. n
          PROVE  <<o[i].mutation, o[i].event>> \in Pairs(f, c)
      <4>1. PICK p \in 1 .. c : f[p].mutation = o[i].mutation /\ f[p].event = o[i].event
        BY <1>10
      <4>2. <<f[p].mutation, f[p].event>> \in Pairs(f, c)
        BY DEF Pairs
      <4> QED
        BY <4>1, <4>2
    <3>2. ASSUME NEW p \in 1 .. c
          PROVE  <<f[p].mutation, f[p].event>> \in Pairs(o, n)
      <4>1. PICK i \in 1 .. n : o[i].mutation = f[p].mutation /\ o[i].event = f[p].event
        BY <1>11
      <4>2. <<o[i].mutation, o[i].event>> \in Pairs(o, n)
        BY DEF Pairs
      <4> QED
        BY <4>1, <4>2
    <3>3. Pairs(o, n) \subseteq Pairs(f, c)
      BY <3>1, Zenon DEF Pairs
    <3>4. Pairs(f, c) \subseteq Pairs(o, n)
      BY <3>2, Zenon DEF Pairs
    <3> QED
      BY <3>3, <3>4
  <2> QED
    BY <1>12, <2>1, SameCarriers
<1>14. Canonical(s).facts = f
  BY <1>2, <1>4 DEF Canonical
<1> QED
  BY <1>1, <1>13, <1>14

-----------------------------------------------------------------------------
(* The verdict, whichever source returned what *)

(* The material after each source. *)
Gathers(g, sources, n) ==
    g = [k \in 0 .. n |-> IF k = 0 THEN <<>> ELSE Merged(g[k - 1], sources[k].facts)]

(* The loop defines the material after every source. *)
LEMMA LoopGathers ==
    ASSUME NEW n \in Nat, NEW sources
    PROVE  \E g : Gathers(g, sources, n)
<1> DEFINE S == {k \in 0 .. n : ~\E g : Gathers(g, sources, k)}
<1>1. SUFFICES ASSUME S # {}
               PROVE  FALSE
  <2>1. n \in 0 .. n
    OBVIOUS
  <2> QED
    BY <1>1, <2>1
<1>2. S \in SUBSET Nat
  OBVIOUS
<1>3. PICK k \in S : \A x \in S : k <= x
  <2> HIDE DEF S
  <2> QED
    BY <1>1, <1>2, LeastNumber
<1>4. k \in 0 .. n /\ ~\E g : Gathers(g, sources, k)
  OBVIOUS
<1>5. CASE k = 0
  <2> DEFINE g == [m \in 0 .. 0 |-> <<>>]
  <2>1. Gathers(g, sources, 0)
    BY DEF Gathers
  <2> QED
    BY <1>4, <1>5, <2>1
<1>6. CASE k # 0
  <2>1. k - 1 \in 0 .. n /\ k - 1 \notin S
    BY <1>3, <1>4, <1>6
  <2>2. PICK h : Gathers(h, sources, k - 1)
    BY <2>1
  <2> DEFINE g == [m \in 0 .. k |-> IF m < k THEN h[m] ELSE Merged(h[k - 1], sources[k].facts)]
  <2>3. \A m \in 0 .. k - 1 : h[m] = IF m = 0 THEN <<>> ELSE Merged(h[m - 1], sources[m].facts)
    BY <2>2 DEF Gathers
  <2>4. ASSUME NEW m \in 0 .. k
        PROVE  g[m] = IF m = 0 THEN <<>> ELSE Merged(g[m - 1], sources[m].facts)
    <3>1. CASE m < k
      <4>1. m \in 0 .. k - 1 /\ g[m] = h[m] /\ (m # 0 => g[m - 1] = h[m - 1])
        BY <1>4, <3>1
      <4> QED
        BY <2>3, <4>1
    <3>2. CASE m = k
      <4>1. g[m - 1] = h[k - 1] /\ g[m] = Merged(h[k - 1], sources[k].facts)
        BY <1>4, <1>6, <3>2
      <4> QED
        BY <1>6, <3>2, <4>1
    <3> QED
      BY <1>4, <3>1, <3>2
  <2>5. g = [m \in 0 .. k |-> g[m]]
    OBVIOUS
  <2> HIDE DEF g
  <2>6. Gathers(g, sources, k)
    BY <2>4, <2>5 DEF Gathers
  <2> QED
    BY <1>4, <2>6
<1> QED
  BY <1>5, <1>6

(* What the first n sources returned. *)
ReturnedBy(sources, n) ==
    UNION {{<<sources[s].facts[i].mutation, sources[s].facts[i].event>> :
               i \in DOMAIN sources[s].facts} : s \in 1 .. n}

(* The facts of one source are a sequence of records. *)
LEMMA ReplyFacts ==
    ASSUME NEW sources \in [Sources -> SourceResults], NEW k \in Sources
    PROVE  \E n \in Nat : /\ sources[k].facts \in [1 .. n -> FactRecords]
                          /\ DOMAIN sources[k].facts = 1 .. n
<1>1. sources[k].facts \in Seq(FactRecords)
  <2>1. sources[k].facts \in Replies
    BY DEF SourceResults
  <2>2. sources[k].facts \in Seq(Replayed) /\ Replayed \subseteq FactRecords
    BY <2>1, EvaluationAssumption DEF FactRecords
  <2> QED
    BY <2>2
<1>2. PICK t : t = sources[k].facts
  OBVIOUS
<1>3. t \in [1 .. Len(t) -> FactRecords] /\ Len(t) \in Nat /\ DOMAIN t = 1 .. Len(t)
  BY <1>1, <1>2
<1> QED
  BY <1>2, <1>3

(* Merging source after source keeps the least event of each mutation. *)
LEMMA GatheredFacts ==
    ASSUME NEW sources \in [Sources -> SourceResults]
    PROVE  LeastOf(Gathered(sources), Returned(sources))
<1> DEFINE n == SourceCount
           a == CHOOSE g : Gathers(g, sources, n)
<1>1. n \in Nat /\ Sources = 1 .. n
  BY EvaluationAssumption DEF Sources
<1>2. Gathers(a, sources, n)
  BY <1>1, LoopGathers
<1>3. Gathered(sources) = a[n]
  BY <1>1 DEF Gathered, Gathers
<1> HIDE DEF a, n
<1>4. \A k \in 0 .. n : a[k] = IF k = 0 THEN <<>> ELSE Merged(a[k - 1], sources[k].facts)
  BY <1>2 DEF Gathers
<1>5. \A k \in 1 .. n : ReturnedBy(sources, k) \subseteq Nat \X Nat
  <2> SUFFICES ASSUME NEW k \in 1 .. n, NEW s \in 1 .. k, NEW i \in DOMAIN sources[s].facts
               PROVE  <<sources[s].facts[i].mutation, sources[s].facts[i].event>> \in Nat \X Nat
    BY DEF ReturnedBy
  <2>1. s \in Sources
    BY <1>1
  <2>2. sources[s].facts[i] \in FactRecords
    BY <2>1, ReplyFacts
  <2> QED
    BY <2>2 DEF FactRecords
<1> DEFINE S == {k \in 0 .. n : ~LeastOf(a[k], ReturnedBy(sources, k))}
<1>6. SUFFICES ASSUME S # {}
               PROVE  FALSE
  <2>1. n \in 0 .. n
    BY <1>1
  <2>2. Returned(sources) = ReturnedBy(sources, n)
    BY <1>1 DEF Returned, ReturnedBy
  <2> QED
    BY <1>3, <1>6, <2>1, <2>2
<1>7. S \in SUBSET Nat
  BY <1>1
<1>8. PICK k \in S : \A x \in S : k <= x
  <2> HIDE DEF S
  <2> QED
    BY <1>6, <1>7, LeastNumber
<1>9. k \in 0 .. n /\ ~LeastOf(a[k], ReturnedBy(sources, k))
  OBVIOUS
<1>10. CASE k = 0
  <2>1. a[0] = <<>>
    BY <1>4, <1>9, <1>10
  <2>2. ReturnedBy(sources, 0) = {}
    BY DEF ReturnedBy
  <2> QED
    BY <1>9, <1>10, <2>1, <2>2, NothingCarried
<1>11. CASE k # 0
  <2>1. k - 1 \in 0 .. n /\ k - 1 \notin S /\ k \in 1 .. n
    BY <1>1, <1>8, <1>9, <1>11
  <2>2. LeastOf(a[k - 1], ReturnedBy(sources, k - 1))
    BY <2>1
  <2>3. a[k] = Merged(a[k - 1], sources[k].facts)
    BY <1>4, <1>9, <1>11
  <2>4. PICK c \in Nat : /\ sources[k].facts \in [1 .. c -> FactRecords]
                         /\ DOMAIN sources[k].facts = 1 .. c
    BY <1>1, <2>1, ReplyFacts
  <2>5. ReturnedBy(sources, k) = ReturnedBy(sources, k - 1) \cup Pairs(sources[k].facts, c)
    <3>1. \A s \in 1 .. k : s = k \/ s \in 1 .. k - 1
      BY <1>1, <2>1
    <3>2. 1 .. k - 1 \subseteq 1 .. k /\ k \in 1 .. k
      BY <1>1, <2>1
    <3>3. Pairs(sources[k].facts, c)
             = {<<sources[k].facts[i].mutation, sources[k].facts[i].event>> :
                   i \in DOMAIN sources[k].facts}
      BY <2>4 DEF Pairs
    <3> QED
      BY <3>1, <3>2, <3>3 DEF ReturnedBy
  <2>6. ReturnedBy(sources, k - 1) \in SUBSET (Nat \X Nat)
    BY <1>5, <2>1, <2>5
  <2>7. LeastOf(Merged(a[k - 1], sources[k].facts),
                ReturnedBy(sources, k - 1) \cup Pairs(sources[k].facts, c))
    BY <2>2, <2>4, <2>6, MergedFacts
  <2> QED
    BY <1>9, <2>3, <2>5, <2>7
<1> QED
  BY <1>10, <1>11

(* The same evidence under complete required sources is the same input of    *)
(* the reducer and the same coverage, whoever returned it.                    *)
LEMMA SameGiven ==
    ASSUME NEW sources \in [Sources -> SourceResults], Coverage(sources) = "scope_satisfied",
           NEW s \in Sources, NEW reply \in SourceResults,
           reply.required = sources[s].required,
           reply.required => reply.class = "complete",
           NEW other, other = [sources EXCEPT ![s] = reply],
           Returned(other) = Returned(sources)
    PROVE  Given(other) = Given(sources) /\ Coverage(other) = "scope_satisfied"
<1>1. /\ other \in [Sources -> SourceResults] /\ other[s] = reply
      /\ \A t \in Sources : t # s => other[t] = sources[t]
  OBVIOUS
<1>2. LeastOf(Gathered(other), Returned(other)) /\ LeastOf(Gathered(sources), Returned(sources))
  BY <1>1, GatheredFacts
<1>3. Gathered(other) = Gathered(sources)
  BY <1>2, SameCarriers
<1>4. \A t \in Sources : sources[t].required => Completion(sources[t].class) = "complete"
  BY Satisfied
<1>5. \A t \in Sources : other[t].required => Completion(other[t].class) = "complete"
  <2>1. Completion("complete") = "complete"
    BY DEF Completion
  <2> QED
    BY <1>1, <1>4, <2>1
<1>6. Coverage(other) = "scope_satisfied"
  BY <1>5, Satisfied
<1> QED
  BY <1>3, <1>6 DEF Given

(* A verdict rests on every required source, and the same evidence decides   *)
(* the same from whichever sources it came, for any number of sources and of *)
(* facts and every reducer.                                                   *)
THEOREM RequiredSourcesDecideHolds == EvidenceSpec => []RequiredSourcesDecide
<1>1. VerdictInv => RequiredSourcesDecide
  <2> SUFFICES ASSUME VerdictInv, stage = "attested"
               PROVE  RequiredSourcesDecide
    BY DEF RequiredSourcesDecide
  <2>1. /\ input.sources \in [Sources -> SourceResults]
        /\ result.given = Given(input.sources) /\ result.coverage = Coverage(input.sources)
        /\ result.outcome = Outcome(result.coverage, result.projection)
    BY DEF VerdictInv
  <2>2. ASSUME result.outcome # "indeterminate", NEW s \in Sources, input.sources[s].required
        PROVE  input.sources[s].class = "complete"
    <3>1. Coverage(input.sources) = "scope_satisfied"
      BY <2>1, <2>2, UncoveredUndecided
    <3>2. Completion(input.sources[s].class) = "complete"
      BY <2>2, <3>1, Satisfied
    <3> QED
      BY <3>2 DEF Completion
  <2>3. ASSUME NEW s \in Sources, NEW reply \in SourceResults,
               NEW other, other = [input.sources EXCEPT ![s] = reply],
               result.coverage = "scope_satisfied",
               reply.required = input.sources[s].required,
               reply.required => reply.class = "complete",
               Returned(other) = Returned(input.sources)
        PROVE  /\ Given(other) = result.given
               /\ Outcome(Coverage(other), result.projection) = result.outcome
    <3>1. Given(other) = Given(input.sources) /\ Coverage(other) = "scope_satisfied"
      <4>1. Coverage(input.sources) = "scope_satisfied"
        BY <2>1, <2>3
      <4>2. PICK sources : sources = input.sources
        OBVIOUS
      <4> QED
        BY <2>1, <2>3, <4>1, <4>2, SameGiven
    <3> QED
      BY <2>1, <2>3, <3>1
  <2> QED
    BY <2>2, <2>3 DEF RequiredSourcesDecide
<1> QED
  BY <1>1, VerdictStarts, VerdictStepKeeps, PTL DEF EvidenceSpec, evidenceVars

-----------------------------------------------------------------------------
(* The replay, whatever the order of arrival *)

(* What the stages of a replay hold. *)
ReplayInv ==
    /\ part = "query" => stage = "idle"
    /\ stage \in {"replay", "replayed", "frozen"} => input.arrived \in Arrivals
    /\ stage \in {"replayed", "frozen"} => ~Conflicting(input.arrived)
    /\ stage = "replayed" => result = Canonical(input.arrived)
    /\ stage = "frozen" => /\ result.replay = Canonical(input.arrived)
                           /\ result.material = Material(Canonical(input.arrived).facts)

(* A replay starts with some arrivals. *)
LEMMA ReplayStarts == EvidenceInit => ReplayInv
<1> SUFFICES ASSUME EvidenceInit
             PROVE  ReplayInv
  OBVIOUS
<1>1. CASE stage = "idle" /\ part = "query"
  BY <1>1 DEF ReplayInv
<1>2. CASE part = "verdict" /\ EvaluationInit
  <2>1. CASE stage = "reduce"
    BY <1>2, <2>1 DEF ReplayInv
  <2>2. CASE \E s \in Arrivals : input = [arrived |-> s] /\ stage = "replay"
    BY <1>2, <2>2 DEF ReplayInv
  <2> QED
    BY <1>2, <2>1, <2>2 DEF EvaluationInit
<1> QED
  BY <1>1, <1>2 DEF EvidenceInit

(* The replay is canonicalized, then frozen with its material. *)
LEMMA ReplayStepKeeps == ReplayInv /\ [EvidenceNext]_evidenceVars => ReplayInv'
<1> SUFFICES ASSUME ReplayInv, [EvidenceNext]_evidenceVars
             PROVE  ReplayInv'
  OBVIOUS
<1>1. CASE UNCHANGED <<evaluationVars, part>>
  BY <1>1 DEF ReplayInv, evaluationVars
<1>2. CASE part = "verdict" /\ EvaluationNext /\ part' = part
  <2>1. CASE Replay
    BY <1>2, <2>1 DEF ReplayInv, Replay
  <2>2. CASE \E at \in Moments, t \in Finishes : Freeze(at, t)
    <3>1. /\ stage = "replayed" /\ stage' = "frozen" /\ input' = input
          /\ result' = [replay |-> result, material |-> Material(result.facts)]
      BY <2>2 DEF Freeze
    <3>2. result'.replay = result /\ result'.material = Material(result.facts)
      BY <3>1
    <3> QED
      BY <1>2, <3>1, <3>2 DEF ReplayInv
  <2>3. CASE stage' \in {"failed", "evaluate", "attest", "attested"} /\ input' = input
    BY <1>2, <2>3 DEF ReplayInv
  <2>4. CASE Done
    BY <1>2, <2>4 DEF ReplayInv, Done, evaluationVars
  <2>5. CASE \/ ReplayRefused \/ (\E at \in Moments, t \in Finishes : FreezeRefused(at, t))
             \/ ReduceRefused \/ AttestRefused \/ (\E p \in Answers : Reduce(p))
             \/ Evaluate \/ Attest
    BY <2>3, <2>5 DEF ReplayRefused, FreezeRefused, ReduceRefused, AttestRefused, Refuse,
                      Reduce, Evaluate, Attest
  <2> QED
    BY <1>2, <2>1, <2>2, <2>4, <2>5 DEF EvaluationNext
<1> QED
  BY <1>1, <1>2 DEF EvidenceNext, evidenceVars

(* Neither the replay nor the material depends on the order of arrival. *)
LEMMA FrozenForEveryOrder ==
    ASSUME ReplayInv, stage = "frozen",
           NEW q \in Bijection(DOMAIN input.arrived, DOMAIN input.arrived)
    PROVE  LET other == [k \in DOMAIN input.arrived |-> input.arrived[q[k]]]
           IN  Canonical(other) = result.replay /\ Material(other) = result.material
<1>1. PICK s : s = input.arrived
  OBVIOUS
<1>2. s \in Arrivals /\ ~Conflicting(s)
  BY <1>1 DEF ReplayInv
<1>3. PICK n \in 0 .. MaximumFacts + 1 : s \in [1 .. n -> Replayed]
  BY <1>2 DEF Arrivals
<1>4. n \in Nat /\ s \in [1 .. n -> FactRecords] /\ DOMAIN s = 1 .. n
  BY <1>3, EvaluationAssumption DEF FactRecords
<1>5. q \in Bijection(1 .. n, 1 .. n)
  BY <1>1, <1>4
<1>6. Permuted(s, q) = [k \in DOMAIN input.arrived |-> input.arrived[q[k]]]
  BY <1>1 DEF Permuted
<1>7. /\ Canonical(Permuted(s, q)) = Canonical(s)
      /\ Material(Permuted(s, q)) = Material(Canonical(s).facts)
  BY <1>2, <1>4, <1>5, CanonicalOfPermutation, MaterialOfPermutation
<1>8. result.replay = Canonical(s) /\ result.material = Material(Canonical(s).facts)
  BY <1>1 DEF ReplayInv
<1> QED
  BY <1>6, <1>7, <1>8

(* The source keeps its types, and every order of arrival of any number of   *)
(* facts gives one replay and one material.                                   *)
THEOREM EvidenceInvHolds == EvidenceSpec => []EvidenceInv
<1>1. ReplayInv => ArrivalOrderIsIrrelevant
  BY FrozenForEveryOrder DEF ArrivalOrderIsIrrelevant
<1>2. SourceInv /\ ReplayInv => EvidenceInv
  BY <1>1 DEF EvidenceInv, SourceInv
<1>3. EvidenceSpec => []ReplayInv
  BY ReplayStarts, ReplayStepKeeps, PTL DEF EvidenceSpec, evidenceVars
<1> QED
  BY <1>2, <1>3, SourceInvariant, PTL
=============================================================================
