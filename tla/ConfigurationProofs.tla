------------------------ MODULE ConfigurationProofs ------------------------
(***************************************************************************)
(* What the admission of a configuration guarantees for every document an  *)
(* operator can write, not only for those around the bounds: the safe      *)
(* defaults change nothing that was written, the projection tells what is  *)
(* in force, and no part of the daemon that starts or handles an event     *)
(* refuses what the admission let through.                                 *)
(***************************************************************************)
EXTENDS Configuration, TLAPS

-----------------------------------------------------------------------------
(* The table of defaults, section by section *)

(* One table after another. *)
LEMMA JoinFacts ==
    ASSUME NEW f, NEW g
    PROVE  /\ DOMAIN (f ++ g) = DOMAIN f \union DOMAIN g
           /\ \A p \in DOMAIN f : (f ++ g)[p] = f[p]
           /\ \A p \in DOMAIN g : p \notin DOMAIN f => (f ++ g)[p] = g[p]
BY DEF ++

(* Every default is a value the schema allows, and a bound of one section. *)
Sound(f) == \A p \in DOMAIN f : f[p].default \in f[p].allowed

LEMMA JoinSound ==
    ASSUME NEW f, NEW g, Sound(f), Sound(g)
    PROVE  Sound(f ++ g)
<1> SUFFICES ASSUME NEW p \in DOMAIN (f ++ g)
             PROVE  (f ++ g)[p].default \in (f ++ g)[p].allowed
  BY DEF Sound
<1> QED
  BY DEF Sound, ++

LEMMA FieldSound ==
    ASSUME NEW p, NEW lo \in Nat, NEW hi \in Nat, NEW default \in lo..hi
    PROVE  Sound(Field(p, lo, hi, default))
BY DEF Sound, Field, Choice

LEMMA ChoiceSound ==
    ASSUME NEW p, NEW values, NEW default \in values
    PROVE  Sound(Choice(p, values, default))
BY DEF Sound, Choice

LEMMA DefaultsAllowed == Sound(DEFAULTS)
<1>1. Sound(ServiceDefaults)
  BY JoinSound, FieldSound, ChoiceSound DEF ServiceDefaults
<1>2. Sound(OperationsDefaults)
  BY JoinSound, FieldSound DEF OperationsDefaults
<1>3. Sound(HostDefaults)
  BY JoinSound, FieldSound DEF HostDefaults
<1>4. Sound(ReconciliationDefaults)
  BY JoinSound, FieldSound DEF ReconciliationDefaults
<1>5. Sound(PublicationDefaults)
  BY JoinSound, FieldSound DEF PublicationDefaults
<1>6. Sound(AdminDefaults)
  BY JoinSound, FieldSound DEF AdminDefaults
<1>7. Sound(EventDefaults)
  BY JoinSound, FieldSound DEF EventDefaults
<1>8. Sound(QueueDefaults)
  BY JoinSound, FieldSound DEF QueueDefaults
<1> QED
  BY <1>1, <1>2, <1>3, <1>4, <1>5, <1>6, <1>7, <1>8, JoinSound DEF DEFAULTS

(* A pointer a table has an entry for, with these bounds, or none. *)
Entry(f, p, lo, hi) == p \in DOMAIN f /\ f[p].allowed = lo..hi
Lacks(f, p) == p \notin DOMAIN f

LEMMA FieldEntry ==
    ASSUME NEW p, NEW lo, NEW hi, NEW default
    PROVE  Entry(Field(p, lo, hi, default), p, lo, hi)
BY DEF Entry, Field, Choice

LEMMA FieldLacks ==
    ASSUME NEW p, NEW q, p # q, NEW lo, NEW hi, NEW default
    PROVE  Lacks(Field(p, lo, hi, default), q)
BY DEF Lacks, Field, Choice

LEMMA ChoiceLacks ==
    ASSUME NEW p, NEW q, p # q, NEW values, NEW default
    PROVE  Lacks(Choice(p, values, default), q)
BY DEF Lacks, Choice

LEMMA JoinLacks ==
    ASSUME NEW f, NEW g, NEW p, Lacks(f, p), Lacks(g, p)
    PROVE  Lacks(f ++ g, p)
BY DEF Lacks, ++

LEMMA JoinFirst ==
    ASSUME NEW f, NEW g, NEW p, NEW lo, NEW hi, Entry(f, p, lo, hi)
    PROVE  Entry(f ++ g, p, lo, hi)
BY DEF Entry, ++

LEMMA JoinSecond ==
    ASSUME NEW f, NEW g, NEW p, NEW lo, NEW hi, Lacks(f, p), Entry(g, p, lo, hi)
    PROVE  Entry(f ++ g, p, lo, hi)
BY DEF Entry, Lacks, ++

(* The bounds the job policy meets again. *)
LEMMA ReconciliationEntries ==
    /\ Entry(DEFAULTS, "/reconciliation/queue_capacity", 1, 65536)
    /\ Entry(DEFAULTS, "/reconciliation/lease_ms", 1000, 300000)
    /\ Entry(DEFAULTS, "/reconciliation/lease_renewal_ms", 100, 150000)
    /\ Entry(DEFAULTS, "/reconciliation/max_attempts", 1, 100)
    /\ Entry(DEFAULTS, "/reconciliation/initial_backoff_ms", 1, 60000)
    /\ Entry(DEFAULTS, "/reconciliation/maximum_backoff_ms", 1, 3600000)
    /\ Entry(DEFAULTS, "/reconciliation/attempt_deadline_ms", 100, 300000)
<1>1. Entry(DEFAULTS, "/reconciliation/queue_capacity", 1, 65536)
  <2>1. Entry(ReconciliationDefaults, "/reconciliation/queue_capacity", 1, 65536)
    BY JoinFirst, JoinSecond, FieldEntry, JoinLacks, FieldLacks DEF ReconciliationDefaults
  <2>2. /\ Lacks(ServiceDefaults, "/reconciliation/queue_capacity")
        /\ Lacks(OperationsDefaults, "/reconciliation/queue_capacity")
        /\ Lacks(HostDefaults, "/reconciliation/queue_capacity")
    BY JoinLacks, FieldLacks, ChoiceLacks
       DEF ServiceDefaults, OperationsDefaults, HostDefaults
  <2> QED
    BY <2>1, <2>2, JoinFirst, JoinSecond, JoinLacks DEF DEFAULTS
<1>2. Entry(DEFAULTS, "/reconciliation/lease_ms", 1000, 300000)
  <2>1. Entry(ReconciliationDefaults, "/reconciliation/lease_ms", 1000, 300000)
    BY JoinFirst, JoinSecond, FieldEntry, JoinLacks, FieldLacks DEF ReconciliationDefaults
  <2>2. /\ Lacks(ServiceDefaults, "/reconciliation/lease_ms")
        /\ Lacks(OperationsDefaults, "/reconciliation/lease_ms")
        /\ Lacks(HostDefaults, "/reconciliation/lease_ms")
    BY JoinLacks, FieldLacks, ChoiceLacks
       DEF ServiceDefaults, OperationsDefaults, HostDefaults
  <2> QED
    BY <2>1, <2>2, JoinFirst, JoinSecond, JoinLacks DEF DEFAULTS
<1>3. Entry(DEFAULTS, "/reconciliation/lease_renewal_ms", 100, 150000)
  <2>1. Entry(ReconciliationDefaults, "/reconciliation/lease_renewal_ms", 100, 150000)
    BY JoinFirst, JoinSecond, FieldEntry, JoinLacks, FieldLacks DEF ReconciliationDefaults
  <2>2. /\ Lacks(ServiceDefaults, "/reconciliation/lease_renewal_ms")
        /\ Lacks(OperationsDefaults, "/reconciliation/lease_renewal_ms")
        /\ Lacks(HostDefaults, "/reconciliation/lease_renewal_ms")
    BY JoinLacks, FieldLacks, ChoiceLacks
       DEF ServiceDefaults, OperationsDefaults, HostDefaults
  <2> QED
    BY <2>1, <2>2, JoinFirst, JoinSecond, JoinLacks DEF DEFAULTS
<1>4. Entry(DEFAULTS, "/reconciliation/max_attempts", 1, 100)
  <2>1. Entry(ReconciliationDefaults, "/reconciliation/max_attempts", 1, 100)
    BY JoinFirst, JoinSecond, FieldEntry, JoinLacks, FieldLacks DEF ReconciliationDefaults
  <2>2. /\ Lacks(ServiceDefaults, "/reconciliation/max_attempts")
        /\ Lacks(OperationsDefaults, "/reconciliation/max_attempts")
        /\ Lacks(HostDefaults, "/reconciliation/max_attempts")
    BY JoinLacks, FieldLacks, ChoiceLacks
       DEF ServiceDefaults, OperationsDefaults, HostDefaults
  <2> QED
    BY <2>1, <2>2, JoinFirst, JoinSecond, JoinLacks DEF DEFAULTS
<1>5. Entry(DEFAULTS, "/reconciliation/initial_backoff_ms", 1, 60000)
  <2>1. Entry(ReconciliationDefaults, "/reconciliation/initial_backoff_ms", 1, 60000)
    BY JoinFirst, JoinSecond, FieldEntry, JoinLacks, FieldLacks DEF ReconciliationDefaults
  <2>2. /\ Lacks(ServiceDefaults, "/reconciliation/initial_backoff_ms")
        /\ Lacks(OperationsDefaults, "/reconciliation/initial_backoff_ms")
        /\ Lacks(HostDefaults, "/reconciliation/initial_backoff_ms")
    BY JoinLacks, FieldLacks, ChoiceLacks
       DEF ServiceDefaults, OperationsDefaults, HostDefaults
  <2> QED
    BY <2>1, <2>2, JoinFirst, JoinSecond, JoinLacks DEF DEFAULTS
<1>6. Entry(DEFAULTS, "/reconciliation/maximum_backoff_ms", 1, 3600000)
  <2>1. Entry(ReconciliationDefaults, "/reconciliation/maximum_backoff_ms", 1, 3600000)
    BY JoinFirst, JoinSecond, FieldEntry, JoinLacks, FieldLacks DEF ReconciliationDefaults
  <2>2. /\ Lacks(ServiceDefaults, "/reconciliation/maximum_backoff_ms")
        /\ Lacks(OperationsDefaults, "/reconciliation/maximum_backoff_ms")
        /\ Lacks(HostDefaults, "/reconciliation/maximum_backoff_ms")
    BY JoinLacks, FieldLacks, ChoiceLacks
       DEF ServiceDefaults, OperationsDefaults, HostDefaults
  <2> QED
    BY <2>1, <2>2, JoinFirst, JoinSecond, JoinLacks DEF DEFAULTS
<1>7. Entry(DEFAULTS, "/reconciliation/attempt_deadline_ms", 100, 300000)
  <2>1. Entry(ReconciliationDefaults, "/reconciliation/attempt_deadline_ms", 100, 300000)
    BY JoinFirst, JoinSecond, FieldEntry, JoinLacks, FieldLacks DEF ReconciliationDefaults
  <2>2. /\ Lacks(ServiceDefaults, "/reconciliation/attempt_deadline_ms")
        /\ Lacks(OperationsDefaults, "/reconciliation/attempt_deadline_ms")
        /\ Lacks(HostDefaults, "/reconciliation/attempt_deadline_ms")
    BY JoinLacks, FieldLacks, ChoiceLacks
       DEF ServiceDefaults, OperationsDefaults, HostDefaults
  <2> QED
    BY <2>1, <2>2, JoinFirst, JoinSecond, JoinLacks DEF DEFAULTS
<1> QED
  BY <1>1, <1>2, <1>3, <1>4, <1>5, <1>6, <1>7

(* The bounds the publication authority meets again. *)
LEMMA PublicationEntries ==
    /\ Entry(DEFAULTS, "/publication/retry/max_attempts", 1, 100)
    /\ Entry(DEFAULTS, "/publication/retry/initial_backoff_ms", 1, 60000)
    /\ Entry(DEFAULTS, "/publication/retry/maximum_backoff_ms", 1, 3600000)
    /\ Entry(DEFAULTS, "/publication/retry/attempt_deadline_ms", 100, 30000)
<1>1. Entry(DEFAULTS, "/publication/retry/max_attempts", 1, 100)
  <2>1. Entry(PublicationDefaults, "/publication/retry/max_attempts", 1, 100)
    BY JoinFirst, JoinSecond, FieldEntry, JoinLacks, FieldLacks DEF PublicationDefaults
  <2>2. /\ Lacks(ServiceDefaults, "/publication/retry/max_attempts")
        /\ Lacks(OperationsDefaults, "/publication/retry/max_attempts")
        /\ Lacks(HostDefaults, "/publication/retry/max_attempts")
        /\ Lacks(ReconciliationDefaults, "/publication/retry/max_attempts")
    BY JoinLacks, FieldLacks, ChoiceLacks
       DEF ServiceDefaults, OperationsDefaults, HostDefaults,
           ReconciliationDefaults
  <2> QED
    BY <2>1, <2>2, JoinFirst, JoinSecond, JoinLacks DEF DEFAULTS
<1>2. Entry(DEFAULTS, "/publication/retry/initial_backoff_ms", 1, 60000)
  <2>1. Entry(PublicationDefaults, "/publication/retry/initial_backoff_ms", 1, 60000)
    BY JoinFirst, JoinSecond, FieldEntry, JoinLacks, FieldLacks DEF PublicationDefaults
  <2>2. /\ Lacks(ServiceDefaults, "/publication/retry/initial_backoff_ms")
        /\ Lacks(OperationsDefaults, "/publication/retry/initial_backoff_ms")
        /\ Lacks(HostDefaults, "/publication/retry/initial_backoff_ms")
        /\ Lacks(ReconciliationDefaults, "/publication/retry/initial_backoff_ms")
    BY JoinLacks, FieldLacks, ChoiceLacks
       DEF ServiceDefaults, OperationsDefaults, HostDefaults,
           ReconciliationDefaults
  <2> QED
    BY <2>1, <2>2, JoinFirst, JoinSecond, JoinLacks DEF DEFAULTS
<1>3. Entry(DEFAULTS, "/publication/retry/maximum_backoff_ms", 1, 3600000)
  <2>1. Entry(PublicationDefaults, "/publication/retry/maximum_backoff_ms", 1, 3600000)
    BY JoinFirst, JoinSecond, FieldEntry, JoinLacks, FieldLacks DEF PublicationDefaults
  <2>2. /\ Lacks(ServiceDefaults, "/publication/retry/maximum_backoff_ms")
        /\ Lacks(OperationsDefaults, "/publication/retry/maximum_backoff_ms")
        /\ Lacks(HostDefaults, "/publication/retry/maximum_backoff_ms")
        /\ Lacks(ReconciliationDefaults, "/publication/retry/maximum_backoff_ms")
    BY JoinLacks, FieldLacks, ChoiceLacks
       DEF ServiceDefaults, OperationsDefaults, HostDefaults,
           ReconciliationDefaults
  <2> QED
    BY <2>1, <2>2, JoinFirst, JoinSecond, JoinLacks DEF DEFAULTS
<1>4. Entry(DEFAULTS, "/publication/retry/attempt_deadline_ms", 100, 30000)
  <2>1. Entry(PublicationDefaults, "/publication/retry/attempt_deadline_ms", 100, 30000)
    BY JoinFirst, JoinSecond, FieldEntry, JoinLacks, FieldLacks DEF PublicationDefaults
  <2>2. /\ Lacks(ServiceDefaults, "/publication/retry/attempt_deadline_ms")
        /\ Lacks(OperationsDefaults, "/publication/retry/attempt_deadline_ms")
        /\ Lacks(HostDefaults, "/publication/retry/attempt_deadline_ms")
        /\ Lacks(ReconciliationDefaults, "/publication/retry/attempt_deadline_ms")
    BY JoinLacks, FieldLacks, ChoiceLacks
       DEF ServiceDefaults, OperationsDefaults, HostDefaults,
           ReconciliationDefaults
  <2> QED
    BY <2>1, <2>2, JoinFirst, JoinSecond, JoinLacks DEF DEFAULTS
<1> QED
  BY <1>1, <1>2, <1>3, <1>4

(* The capacities of the two outboxes. *)
LEMMA QueueEntries ==
    /\ Entry(DEFAULTS, "/resource_limits/queues/publication", 1, 65536)
    /\ Entry(DEFAULTS, "/resource_limits/queues/presence", 1, 4096)
<1>1. Entry(DEFAULTS, "/resource_limits/queues/publication", 1, 65536)
  <2>1. Entry(QueueDefaults, "/resource_limits/queues/publication", 1, 65536)
    BY JoinFirst, JoinSecond, FieldEntry, JoinLacks, FieldLacks DEF QueueDefaults
  <2>2. /\ Lacks(ServiceDefaults, "/resource_limits/queues/publication")
        /\ Lacks(OperationsDefaults, "/resource_limits/queues/publication")
        /\ Lacks(HostDefaults, "/resource_limits/queues/publication")
        /\ Lacks(ReconciliationDefaults, "/resource_limits/queues/publication")
        /\ Lacks(PublicationDefaults, "/resource_limits/queues/publication")
        /\ Lacks(AdminDefaults, "/resource_limits/queues/publication")
        /\ Lacks(EventDefaults, "/resource_limits/queues/publication")
    BY JoinLacks, FieldLacks, ChoiceLacks
       DEF ServiceDefaults, OperationsDefaults, HostDefaults,
           ReconciliationDefaults, PublicationDefaults, AdminDefaults, EventDefaults
  <2> QED
    BY <2>1, <2>2, JoinFirst, JoinSecond, JoinLacks DEF DEFAULTS
<1>2. Entry(DEFAULTS, "/resource_limits/queues/presence", 1, 4096)
  <2>1. Entry(QueueDefaults, "/resource_limits/queues/presence", 1, 4096)
    BY JoinFirst, JoinSecond, FieldEntry, JoinLacks, FieldLacks DEF QueueDefaults
  <2>2. /\ Lacks(ServiceDefaults, "/resource_limits/queues/presence")
        /\ Lacks(OperationsDefaults, "/resource_limits/queues/presence")
        /\ Lacks(HostDefaults, "/resource_limits/queues/presence")
        /\ Lacks(ReconciliationDefaults, "/resource_limits/queues/presence")
        /\ Lacks(PublicationDefaults, "/resource_limits/queues/presence")
        /\ Lacks(AdminDefaults, "/resource_limits/queues/presence")
        /\ Lacks(EventDefaults, "/resource_limits/queues/presence")
    BY JoinLacks, FieldLacks, ChoiceLacks
       DEF ServiceDefaults, OperationsDefaults, HostDefaults,
           ReconciliationDefaults, PublicationDefaults, AdminDefaults, EventDefaults
  <2> QED
    BY <2>1, <2>2, JoinFirst, JoinSecond, JoinLacks DEF DEFAULTS
<1> QED
  BY <1>1, <1>2

(* Tables without a common pointer. *)
Apart(f, g) == \A p \in DOMAIN f : Lacks(g, p)

LEMMA FieldApart ==
    ASSUME NEW g, NEW p, NEW lo, NEW hi, NEW default, Lacks(g, p)
    PROVE  Apart(Field(p, lo, hi, default), g)
BY DEF Apart, Field, Choice

LEMMA JoinApart ==
    ASSUME NEW f, NEW g, NEW h, Apart(f, h), Apart(g, h)
    PROVE  Apart(f ++ g, h)
BY DEF Apart, ++

LEMMA SectionsApart ==
    /\ Apart(OperationsDefaults, PublicationDefaults)
    /\ Apart(AdminDefaults, OperationsDefaults)
    /\ Apart(AdminDefaults, PublicationDefaults)
    /\ Apart(EventDefaults, ServiceDefaults)
    /\ Apart(EventDefaults, OperationsDefaults)
    /\ Apart(EventDefaults, PublicationDefaults)
<1>1. Apart(OperationsDefaults, PublicationDefaults)
  BY JoinApart, FieldApart, JoinLacks, FieldLacks DEF OperationsDefaults, PublicationDefaults
<1>2. Apart(AdminDefaults, OperationsDefaults)
  BY JoinApart, FieldApart, JoinLacks, FieldLacks DEF AdminDefaults, OperationsDefaults
<1>3. Apart(AdminDefaults, PublicationDefaults)
  BY JoinApart, FieldApart, JoinLacks, FieldLacks DEF AdminDefaults, PublicationDefaults
<1>4. Apart(EventDefaults, ServiceDefaults)
  BY JoinApart, FieldApart, JoinLacks, FieldLacks, ChoiceLacks DEF EventDefaults, ServiceDefaults
<1>5. Apart(EventDefaults, OperationsDefaults)
  BY JoinApart, FieldApart, JoinLacks, FieldLacks DEF EventDefaults, OperationsDefaults
<1>6. Apart(EventDefaults, PublicationDefaults)
  BY JoinApart, FieldApart, JoinLacks, FieldLacks DEF EventDefaults, PublicationDefaults
<1> QED
  BY <1>1, <1>2, <1>3, <1>4, <1>5, <1>6

(* A section of the table is in the table. *)
Within(h, f) == \A p \in DOMAIN h : p \in DOMAIN f

LEMMA JoinWithin ==
    ASSUME NEW f, NEW g, NEW h, Within(h, f) \/ Within(h, g)
    PROVE  Within(h, f ++ g)
BY DEF Within, ++

LEMMA SectionsWithin ==
    /\ Within(OperationsDefaults, DEFAULTS) /\ Within(PublicationDefaults, DEFAULTS)
    /\ Within(AdminDefaults, DEFAULTS) /\ Within(EventDefaults, DEFAULTS)
<1>1. \A f : Within(f, f)
  BY DEF Within
<1> QED
  BY <1>1, JoinWithin DEF DEFAULTS

(* No number the schema allows is zero: checked_limit of the event limits needs it. *)
PositiveAt(f, p) == p \in DOMAIN f => \A v \in f[p].allowed : v > 0
Positive(f) == \A p : PositiveAt(f, p)

LEMMA FieldPositive ==
    ASSUME NEW p, NEW lo \in Nat, lo > 0, NEW hi \in Nat, NEW default
    PROVE  Positive(Field(p, lo, hi, default))
BY DEF Positive, PositiveAt, Field, Choice

LEMMA JoinPositiveAt ==
    ASSUME NEW f, NEW g, NEW p, PositiveAt(f, p), PositiveAt(g, p)
    PROVE  PositiveAt(f ++ g, p)
BY DEF PositiveAt, ++

LEMMA JoinPositive ==
    ASSUME NEW f, NEW g, Positive(f), Positive(g)
    PROVE  Positive(f ++ g)
BY JoinPositiveAt DEF Positive

LEMMA EventLimits ==
    ASSUME NEW p \in DOMAIN EventDefaults
    PROVE  /\ p \in DOMAIN DEFAULTS
           /\ \A v \in DEFAULTS[p].allowed : v > 0
<1>1. p \in DOMAIN DEFAULTS
  BY SectionsWithin DEF Within
<1>2. PositiveAt(ServiceDefaults, p)
  BY SectionsApart DEF Apart, Lacks, PositiveAt
<1>3. Positive(OperationsDefaults)
  BY JoinPositive, FieldPositive DEF OperationsDefaults
<1>4. Positive(HostDefaults)
  BY JoinPositive, FieldPositive DEF HostDefaults
<1>5. Positive(ReconciliationDefaults)
  BY JoinPositive, FieldPositive DEF ReconciliationDefaults
<1>6. Positive(PublicationDefaults)
  BY JoinPositive, FieldPositive DEF PublicationDefaults
<1>7. Positive(AdminDefaults)
  BY JoinPositive, FieldPositive DEF AdminDefaults
<1>8. Positive(EventDefaults)
  BY JoinPositive, FieldPositive DEF EventDefaults
<1>9. Positive(QueueDefaults)
  BY JoinPositive, FieldPositive DEF QueueDefaults
<1>10. /\ PositiveAt(OperationsDefaults, p) /\ PositiveAt(HostDefaults, p)
       /\ PositiveAt(ReconciliationDefaults, p) /\ PositiveAt(PublicationDefaults, p)
       /\ PositiveAt(AdminDefaults, p) /\ PositiveAt(EventDefaults, p)
       /\ PositiveAt(QueueDefaults, p)
  BY <1>3, <1>4, <1>5, <1>6, <1>7, <1>8, <1>9 DEF Positive
<1>11. PositiveAt(DEFAULTS, p)
  BY <1>2, <1>10, JoinPositiveAt DEF DEFAULTS
<1> QED
  BY <1>1, <1>11 DEF PositiveAt

(* What the operator has to write, and what is redacted, has no default. *)
Outside == Required \union Operations \union Publication \union TargetLists \union Redacted
Free(f) == \A p \in DOMAIN f : p \notin Outside

LEMMA FieldFree ==
    ASSUME NEW p, p \notin Outside, NEW lo, NEW hi, NEW default
    PROVE  Free(Field(p, lo, hi, default))
BY DEF Free, Field, Choice

LEMMA ChoiceFree ==
    ASSUME NEW p, p \notin Outside, NEW values, NEW default
    PROVE  Free(Choice(p, values, default))
BY DEF Free, Choice

LEMMA JoinFree ==
    ASSUME NEW f, NEW g, Free(f), Free(g)
    PROVE  Free(f ++ g)
BY DEF Free, ++

LEMMA DefaultsFree == Free(DEFAULTS)
<1>1. Free(ServiceDefaults)
  BY JoinFree, FieldFree, ChoiceFree
     DEF ServiceDefaults, Outside, Required, Retentions, Operations, Publication,
         TargetLists, Redacted
<1>2. Free(OperationsDefaults)
  BY JoinFree, FieldFree
     DEF OperationsDefaults, Outside, Required, Retentions, Operations, Publication,
         TargetLists, Redacted
<1>3. Free(HostDefaults)
  BY JoinFree, FieldFree
     DEF HostDefaults, Outside, Required, Retentions, Operations, Publication,
         TargetLists, Redacted
<1>4. Free(ReconciliationDefaults)
  BY JoinFree, FieldFree
     DEF ReconciliationDefaults, Outside, Required, Retentions, Operations, Publication,
         TargetLists, Redacted
<1>5. Free(PublicationDefaults)
  BY JoinFree, FieldFree
     DEF PublicationDefaults, Outside, Required, Retentions, Operations, Publication,
         TargetLists, Redacted
<1>6. Free(AdminDefaults)
  BY JoinFree, FieldFree
     DEF AdminDefaults, Outside, Required, Retentions, Operations, Publication,
         TargetLists, Redacted
<1>7. Free(EventDefaults)
  BY JoinFree, FieldFree
     DEF EventDefaults, Outside, Required, Retentions, Operations, Publication,
         TargetLists, Redacted
<1>8. Free(QueueDefaults)
  BY JoinFree, FieldFree
     DEF QueueDefaults, Outside, Required, Retentions, Operations, Publication,
         TargetLists, Redacted
<1> QED
  BY <1>1, <1>2, <1>3, <1>4, <1>5, <1>6, <1>7, <1>8, JoinFree DEF DEFAULTS

-----------------------------------------------------------------------------
(* The document with its defaults *)

AFunction(d) == d = [p \in DOMAIN d |-> d[p]]
Added(d) == {q \in DOMAIN DEFAULTS : DefaultIsEnabled(d, q)}

LEMMA FilledFacts ==
    ASSUME NEW d
    PROVE  /\ DOMAIN ApplyDefaults(d) = DOMAIN d \union Added(d)
           /\ \A p \in DOMAIN d : ApplyDefaults(d)[p] = d[p]
           /\ \A p \in Added(d) : p \notin DOMAIN d =>
                ApplyDefaults(d)[p] = DEFAULTS[p].default
           /\ AFunction(ApplyDefaults(d))
BY DEF ApplyDefaults, ++, Added, AFunction

(* What must be written is not in the table. *)
LEMMA WrittenFacts ==
    ASSUME NEW d, SchemaValid(d)
    PROVE  /\ Required \subseteq DOMAIN d
           /\ \A p \in Outside : p \notin DOMAIN DEFAULTS
           /\ \A p \in Required : ApplyDefaults(d)[p] = d[p]
           /\ {"/operations/enabled", "/publication/mode", "/presence/enabled",
               "/presence/profile", "/presence/application_handler", "/relays",
               "/evidence/sources", "/retention/audit"} \subseteq Required
           /\ Retentions \subseteq Required
           /\ Required \subseteq Outside /\ Operations \subseteq Outside
           /\ Publication \subseteq Outside /\ TargetLists \subseteq Outside
<1>1. Required \subseteq DOMAIN d
  BY DEF SchemaValid
<1>2. \A p \in Outside : p \notin DOMAIN DEFAULTS
  BY DefaultsFree DEF Free
<1>3. \A p \in Required : ApplyDefaults(d)[p] = d[p]
  BY <1>1, FilledFacts
<1>4. {"/operations/enabled", "/publication/mode", "/presence/enabled",
       "/presence/profile", "/presence/application_handler", "/relays",
       "/evidence/sources", "/retention/audit"} \subseteq Required
  BY DEF Required
<1>5. Retentions \subseteq Required
  BY DEF Required
<1>6. /\ Required \subseteq Outside /\ Operations \subseteq Outside
      /\ Publication \subseteq Outside /\ TargetLists \subseteq Outside
  BY DEF Outside
<1> QED
  BY <1>1, <1>2, <1>3, <1>4, <1>5, <1>6

(* A section that is off stays empty, one that is on keeps its parts. *)
LEMMA SectionKept ==
    ASSUME NEW d, NEW on, NEW parts, NEW fields, Section(d, on, parts, fields),
           parts \subseteq Outside, \A p \in Outside : p \notin DOMAIN DEFAULTS,
           ~on => \A p \in DOMAIN fields : p \notin Added(d)
    PROVE  Section(ApplyDefaults(d), on, parts, fields)
<1>1. DOMAIN ApplyDefaults(d) = DOMAIN d \union Added(d)
  BY FilledFacts
<1>2. CASE on
  BY <1>1, <1>2 DEF Section
<1>3. CASE ~on
  <2>1. \A p \in Added(d) : p \in DOMAIN DEFAULTS
    BY DEF Added
  <2> QED
    BY <1>1, <1>3, <2>1 DEF Section
<1> QED
  BY <1>2, <1>3

(* A valid document is valid with its defaults. *)
LEMMA FilledValid ==
    ASSUME NEW d, SchemaValid(d)
    PROVE  SchemaValid(ApplyDefaults(d))
<1> DEFINE n == ApplyDefaults(d)
<1>1. /\ DOMAIN n = DOMAIN d \union Added(d)
      /\ \A p \in DOMAIN d : n[p] = d[p]
      /\ \A p \in Added(d) : p \notin DOMAIN d => n[p] = DEFAULTS[p].default
  BY FilledFacts
<1>2. /\ Required \subseteq DOMAIN d
      /\ \A p \in Outside : p \notin DOMAIN DEFAULTS
      /\ \A p \in Required : n[p] = d[p]
      /\ {"/operations/enabled", "/publication/mode", "/presence/enabled",
          "/presence/profile", "/presence/application_handler", "/relays",
          "/evidence/sources", "/retention/audit"} \subseteq Required
      /\ Retentions \subseteq Required /\ Operations \subseteq Outside
      /\ Publication \subseteq Outside /\ TargetLists \subseteq Outside
  BY WrittenFacts
<1>3. \A p \in Added(d) : p \in DOMAIN DEFAULTS /\ DefaultIsEnabled(d, p)
  BY DEF Added
<1> HIDE DEF n
<1>4. \A p \in DOMAIN n \intersect DOMAIN DEFAULTS : n[p] \in DEFAULTS[p].allowed
  <2>1. SUFFICES ASSUME NEW p \in DOMAIN n, p \in DOMAIN DEFAULTS
                 PROVE  n[p] \in DEFAULTS[p].allowed
    OBVIOUS
  <2>2. CASE p \in DOMAIN d
    BY <1>1, <2>1, <2>2 DEF SchemaValid
  <2>3. CASE p \notin DOMAIN d
    BY <1>1, <2>1, <2>3, DefaultsAllowed DEF Sound
  <2> QED
    BY <2>2, <2>3
<1>5. /\ n["/operations/enabled"] = d["/operations/enabled"]
      /\ n["/publication/mode"] = d["/publication/mode"]
      /\ n["/presence/enabled"] = d["/presence/enabled"]
      /\ n["/presence/profile"] = d["/presence/profile"]
      /\ n["/presence/application_handler"] = d["/presence/application_handler"]
      /\ n["/relays"] = d["/relays"] /\ n["/evidence/sources"] = d["/evidence/sources"]
  BY <1>2
<1>6. \A p \in Retentions \union {"/retention/audit"} : n[p] \in 1..AYear
  <2>1. \A p \in Retentions \union {"/retention/audit"} : d[p] \in 1..AYear
    BY DEF SchemaValid
  <2>2. \A p \in Retentions \union {"/retention/audit"} : n[p] = d[p]
    BY <1>2
  <2> QED
    BY <2>1, <2>2
<1>7. \A p \in TargetLists \intersect DOMAIN n : Len(n[p]) \in 1..32 /\ Distinct(n[p])
  <2>1. \A p \in TargetLists \intersect DOMAIN n : p \in DOMAIN d /\ n[p] = d[p]
    BY <1>1, <1>2, <1>3
  <2>2. \A p \in TargetLists \intersect DOMAIN d : Len(d[p]) \in 1..32 /\ Distinct(d[p])
    BY DEF SchemaValid
  <2> QED
    BY <2>1, <2>2
<1>8. Section(n, d["/operations/enabled"], Operations, OperationsDefaults)
  <2>1. Section(d, d["/operations/enabled"], Operations, OperationsDefaults)
    BY DEF SchemaValid
  <2>2. ~d["/operations/enabled"] => \A p \in DOMAIN OperationsDefaults : p \notin Added(d)
    BY <1>3 DEF DefaultIsEnabled
  <2> QED
    BY <1>2, <2>1, <2>2, SectionKept DEF n
<1>9. Section(n, d["/publication/mode"] = "required", Publication, PublicationDefaults)
  <2>1. Section(d, d["/publication/mode"] = "required", Publication, PublicationDefaults)
    BY DEF SchemaValid
  <2>2. d["/publication/mode"] # "required"
          => \A p \in DOMAIN PublicationDefaults : p \notin Added(d)
    BY <1>3 DEF DefaultIsEnabled
  <2> QED
    BY <1>2, <2>1, <2>2, SectionKept DEF n
<1>10. Section(n, d["/presence/enabled"], {"/presence/target_relay_ids"}, <<>>)
  <2>1. Section(d, d["/presence/enabled"], {"/presence/target_relay_ids"}, <<>>)
    BY DEF SchemaValid
  <2>2. {"/presence/target_relay_ids"} \subseteq Outside
    BY <1>2 DEF TargetLists
  <2>3. \A p \in DOMAIN <<>> : p \notin Added(d)
    OBVIOUS
  <2> QED
    BY <1>2, <2>1, <2>2, <2>3, SectionKept DEF n
<1>11. Required \subseteq DOMAIN n
  BY <1>1, <1>2
<1>12. /\ \A p \in {"/operations/enabled", "/presence/enabled", "/presence/profile",
                   "/presence/application_handler"} : n[p] \in BOOLEAN
       /\ n["/publication/mode"] \in {"required", "disabled"}
       /\ Len(n["/relays"]) \in 1..32 /\ Len(n["/evidence/sources"]) \in 1..16
       /\ \A s \in ToSet(n["/evidence/sources"]) : SourceValid(s)
  BY <1>5 DEF SchemaValid
<1>13. SchemaValid(n)
  BY <1>4, <1>5, <1>6, <1>7, <1>8, <1>9, <1>10, <1>11, <1>12 DEF SchemaValid
<1> QED
  BY <1>13 DEF n

(* Which defaults apply depends only on two values the operator writes. *)
LEMMA SameAdded ==
    ASSUME NEW c, NEW d, c["/operations/enabled"] = d["/operations/enabled"],
           c["/publication/mode"] = d["/publication/mode"]
    PROVE  Added(c) = Added(d)
BY DEF Added, DefaultIsEnabled

(* Two functions with the same values are one. *)
LEMMA SameFunction ==
    ASSUME NEW f, NEW g, AFunction(f), AFunction(g), DOMAIN f = DOMAIN g,
           \A p \in DOMAIN f : f[p] = g[p]
    PROVE  f = g
BY DEF AFunction

(* In a valid document only defaults that apply can be written out. *)
LEMMA WrittenApplies ==
    ASSUME NEW d, SchemaValid(d), NEW p \in DOMAIN d, p \in DOMAIN DEFAULTS
    PROVE  p \in Added(d)
<1>1. /\ Section(d, d["/operations/enabled"], Operations, OperationsDefaults)
      /\ Section(d, d["/publication/mode"] = "required", Publication, PublicationDefaults)
  BY DEF SchemaValid
<1>2. p \in DOMAIN OperationsDefaults => d["/operations/enabled"]
  BY <1>1 DEF Section
<1>3. p \in DOMAIN PublicationDefaults => d["/publication/mode"] = "required"
  BY <1>1 DEF Section
<1> QED
  BY <1>2, <1>3 DEF Added, DefaultIsEnabled

(* Filling in the defaults again adds nothing, and a value that equals its *)
(* default may as well be left out.                                        *)
LEMMA FilledSettled ==
    ASSUME NEW d, AFunction(d), SchemaValid(d)
    PROVE  LET n == ApplyDefaults(d)
           IN  /\ Added(n) \subseteq DOMAIN n
               /\ ApplyDefaults(n) = n
               /\ \A p \in DOMAIN n \intersect DOMAIN DEFAULTS :
                    n[p] = DEFAULTS[p].default =>
                      ApplyDefaults([q \in DOMAIN n \ {p} |-> n[q]]) = n
<1> DEFINE n == ApplyDefaults(d)
<1>1. /\ DOMAIN n = DOMAIN d \union Added(d) /\ AFunction(n)
      /\ \A p \in DOMAIN d : n[p] = d[p]
      /\ SchemaValid(n)
  BY FilledFacts, FilledValid
<1>2. /\ n["/operations/enabled"] = d["/operations/enabled"]
      /\ n["/publication/mode"] = d["/publication/mode"]
      /\ "/operations/enabled" \in Outside /\ "/publication/mode" \in Outside
      /\ "/operations/enabled" \in DOMAIN n /\ "/publication/mode" \in DOMAIN n
      /\ \A p \in Outside : p \notin DOMAIN DEFAULTS
  BY <1>1, WrittenFacts
<1> HIDE DEF n
<1>3. Added(n) = Added(d)
  BY <1>2, SameAdded
<1>4. Added(n) \subseteq DOMAIN n
  BY <1>1, <1>3
<1>5. ApplyDefaults(n) = n
  <2>1. /\ DOMAIN ApplyDefaults(n) = DOMAIN n \union Added(n)
        /\ \A p \in DOMAIN n : ApplyDefaults(n)[p] = n[p]
        /\ AFunction(ApplyDefaults(n))
    BY FilledFacts
  <2> QED
    BY <1>1, <1>4, <2>1, SameFunction
<1>6. ASSUME NEW p \in DOMAIN n, p \in DOMAIN DEFAULTS, n[p] = DEFAULTS[p].default
      PROVE  ApplyDefaults([q \in DOMAIN n \ {p} |-> n[q]]) = n
  <2> DEFINE m == [q \in DOMAIN n \ {p} |-> n[q]]
  <2>1. DOMAIN m = DOMAIN n \ {p} /\ \A q \in DOMAIN m : m[q] = n[q]
    OBVIOUS
  <2> HIDE DEF m
  <2>2. Added(m) = Added(n)
    <3>1. /\ m["/operations/enabled"] = n["/operations/enabled"]
          /\ m["/publication/mode"] = n["/publication/mode"]
      BY <1>2, <1>6, <2>1
    <3> QED
      BY <3>1, SameAdded
  <2>3. p \in Added(n)
    BY <1>1, <1>6, WrittenApplies
  <2>4. /\ DOMAIN ApplyDefaults(m) = DOMAIN m \union Added(m)
        /\ \A q \in DOMAIN m : ApplyDefaults(m)[q] = m[q]
        /\ \A q \in Added(m) : q \notin DOMAIN m => ApplyDefaults(m)[q] = DEFAULTS[q].default
        /\ AFunction(ApplyDefaults(m))
    BY FilledFacts
  <2>5. DOMAIN ApplyDefaults(m) = DOMAIN n
    BY <1>4, <2>1, <2>2, <2>3, <2>4
  <2>6. \A q \in DOMAIN n : ApplyDefaults(m)[q] = n[q]
    <3>1. ApplyDefaults(m)[p] = n[p]
      BY <1>6, <2>1, <2>2, <2>3, <2>4
    <3>2. \A q \in DOMAIN n : q # p => ApplyDefaults(m)[q] = n[q]
      BY <2>1, <2>4
    <3> QED
      BY <3>1, <3>2
  <2>7. ApplyDefaults(m) = n
    BY <1>1, <2>4, <2>5, <2>6, SameFunction
  <2> QED
    BY <2>7 DEF m
<1> QED
  BY <1>4, <1>5, <1>6 DEF n

-----------------------------------------------------------------------------
(* What the admission tells the parts of the daemon *)

(* A document that passed: valid, complete and related. *)
Admissible(d, prof) ==
    /\ SchemaValid(d) /\ Added(d) \subseteq DOMAIN d
    /\ ValidateRelationships(d, prof) /\ prof \in {"production", "repo_local"}

(* A default that applies is there, and its value is one the schema allows. *)
LEMMA AppliedValue ==
    ASSUME NEW d, SchemaValid(d), Added(d) \subseteq DOMAIN d,
           NEW p \in DOMAIN DEFAULTS,
           p \in DOMAIN OperationsDefaults => d["/operations/enabled"],
           p \in DOMAIN PublicationDefaults => d["/publication/mode"] = "required"
    PROVE  p \in DOMAIN d /\ d[p] \in DEFAULTS[p].allowed
<1>1. p \in DOMAIN d
  BY DEF Added, DefaultIsEnabled
<1> QED
  BY <1>1 DEF SchemaValid

LEMMA AdaptersBuilt ==
    ASSUME NEW d, NEW prof, Admissible(d, prof)
    PROVE  BuildsAdapters(d, prof)
BY DEF Admissible, ValidateRelationships, ValidateRelays, CanonicalRelayUrl, BuildsAdapters

LEMMA ProductionHasOneTransport ==
    ASSUME NEW d, NEW prof, Admissible(d, prof), prof # "repo_local"
    PROVE  OneTransport(d)
<1>1. \A r \in ToSet(d["/relays"]) : r.url.scheme = "wss"
  BY DEF Admissible, ValidateRelationships, ValidateRelays, CanonicalRelayUrl
<1> QED
  BY <1>1 DEF OneTransport

LEMMA TargetsDerived ==
    ASSUME NEW d, NEW prof, Admissible(d, prof), NEW p \in TargetLists, p \in DOMAIN d,
           ValidateRelayTargets(d, p)
    PROVE  DerivesTargets(d, p)
<1>1. Len(d[p]) \in 1..32 /\ Distinct(d[p])
  BY DEF Admissible, SchemaValid
<1> QED
  BY <1>1 DEF ValidateRelayTargets, DerivesTargets

LEMMA SourcesConfigured ==
    ASSUME NEW d, NEW prof, Admissible(d, prof)
    PROVE  ConfiguredSources(d)
BY DEF Admissible, ValidateRelationships, ValidateEvidence, ConfiguredSources

(* Outside the two conditional sections every default applies. *)
LEMMA EntryValue ==
    ASSUME NEW d, SchemaValid(d), Added(d) \subseteq DOMAIN d,
           NEW p, NEW lo, NEW hi, Entry(DEFAULTS, p, lo, hi),
           Lacks(OperationsDefaults, p),
           Lacks(PublicationDefaults, p) \/ d["/publication/mode"] = "required"
    PROVE  p \in DOMAIN d /\ Between(d[p], lo, hi)
<1>1. /\ p \in DOMAIN DEFAULTS /\ DEFAULTS[p].allowed = lo..hi
      /\ p \in DOMAIN OperationsDefaults => d["/operations/enabled"]
      /\ p \in DOMAIN PublicationDefaults => d["/publication/mode"] = "required"
  BY DEF Entry, Lacks
<1> QED
  BY <1>1, AppliedValue DEF Between

LEMMA BetweenFacts ==
    ASSUME NEW lo \in Int, NEW hi \in Int, NEW v, Between(v, lo, hi)
    PROVE  v \in Int /\ lo <= v /\ v <= hi
BY DEF Between

LEMMA BetweenBound ==
    ASSUME NEW lo \in Int, NEW v \in Int, NEW m \in Int, lo <= v, v <= m
    PROVE  Between(v, lo, m)
BY DEF Between

LEMMA CapacityFacts ==
    ASSUME NEW d, NEW prof, Admissible(d, prof)
    PROVE  /\ Between(d["/resource_limits/queues/publication"], 1, 65536)
           /\ Between(d["/resource_limits/queues/presence"], 1, 4096)
<1>1. /\ Lacks(OperationsDefaults, "/resource_limits/queues/publication")
      /\ Lacks(PublicationDefaults, "/resource_limits/queues/publication")
      /\ Lacks(OperationsDefaults, "/resource_limits/queues/presence")
      /\ Lacks(PublicationDefaults, "/resource_limits/queues/presence")
  BY JoinLacks, FieldLacks DEF OperationsDefaults, PublicationDefaults
<1> QED
  BY <1>1, QueueEntries, EntryValue DEF Admissible

LEMMA RetryFacts ==
    ASSUME NEW d, NEW prof, Admissible(d, prof), d["/publication/mode"] = "required"
    PROVE  /\ Between(d["/publication/retry/max_attempts"], 1, 100)
           /\ Between(d["/publication/retry/initial_backoff_ms"], 1, 60000)
           /\ Between(d["/publication/retry/maximum_backoff_ms"], 1, 3600000)
           /\ Between(d["/publication/retry/attempt_deadline_ms"], 100, 30000)
<1>1. /\ Lacks(OperationsDefaults, "/publication/retry/max_attempts")
      /\ Lacks(OperationsDefaults, "/publication/retry/initial_backoff_ms")
      /\ Lacks(OperationsDefaults, "/publication/retry/maximum_backoff_ms")
      /\ Lacks(OperationsDefaults, "/publication/retry/attempt_deadline_ms")
  BY JoinLacks, FieldLacks DEF OperationsDefaults
<1> QED
  BY <1>1, PublicationEntries, EntryValue DEF Admissible

LEMMA PublicationDerived ==
    ASSUME NEW d, NEW prof, Admissible(d, prof)
    PROVE  PublicationAuthority(d)
<1>1. Between(d["/resource_limits/queues/publication"], 1, 65536)
  BY CapacityFacts
<1>2. /\ Section(d, d["/publication/mode"] = "required", Publication, PublicationDefaults)
      /\ d["/publication/mode"] \in {"required", "disabled"}
  BY DEF Admissible, SchemaValid
<1>3. CASE d["/publication/mode"] = "disabled"
  <2>1. DOMAIN d \intersect (Publication \union DOMAIN PublicationDefaults) = {}
    BY <1>2, <1>3 DEF Section
  <2> QED
    BY <1>1, <1>3, <2>1 DEF PublicationAuthority
<1>4. CASE d["/publication/mode"] = "required"
  <2>1. "/publication/target_relay_ids" \in DOMAIN d
    BY <1>2, <1>4 DEF Section, Publication
  <2>2. /\ ValidateRelayTargets(d, "/publication/target_relay_ids")
        /\ d["/publication/retry/initial_backoff_ms"]
             <= d["/publication/retry/maximum_backoff_ms"]
    BY <1>4 DEF Admissible, ValidateRelationships, ValidatePublication
  <2>3. DerivesTargets(d, "/publication/target_relay_ids")
    BY <2>1, <2>2, TargetsDerived DEF TargetLists
  <2>4. /\ Between(d["/publication/retry/max_attempts"], 1, 100)
        /\ Between(d["/publication/retry/initial_backoff_ms"], 1, 60000)
        /\ Between(d["/publication/retry/maximum_backoff_ms"], 1, 3600000)
        /\ Between(d["/publication/retry/attempt_deadline_ms"], 100, 30000)
    BY <1>4, RetryFacts
  <2>5. /\ Between(d["/publication/retry/initial_backoff_ms"], 1,
                 d["/publication/retry/maximum_backoff_ms"])
        /\ d["/publication/retry/maximum_backoff_ms"] <= 3600000
    BY <2>2, <2>4, BetweenFacts, BetweenBound
  <2>6. d["/publication/mode"] # "disabled"
    BY <1>4
  <2> QED
    BY <1>1, <2>3, <2>4, <2>5, <2>6 DEF PublicationAuthority
<1> QED
  BY <1>2, <1>3, <1>4

LEMMA PresenceDerived ==
    ASSUME NEW d, NEW prof, Admissible(d, prof)
    PROVE  PresenceAuthority(d)
<1>1. Between(d["/resource_limits/queues/presence"], 1, 4096)
  BY CapacityFacts
<1>2. /\ Section(d, d["/presence/enabled"], {"/presence/target_relay_ids"}, <<>>)
      /\ ValidatePresence(d)
  BY DEF Admissible, SchemaValid, ValidateRelationships
<1>3. CASE d["/presence/enabled"]
  <2>1. "/presence/target_relay_ids" \in DOMAIN d
    BY <1>2, <1>3 DEF Section
  <2>2. /\ ValidateRelayTargets(d, "/presence/target_relay_ids")
        /\ d["/presence/profile"] \/ d["/presence/application_handler"]
    BY <1>2, <1>3 DEF ValidatePresence
  <2>3. DerivesTargets(d, "/presence/target_relay_ids")
    BY <2>1, <2>2, TargetsDerived DEF TargetLists
  <2> QED
    BY <1>1, <1>3, <2>2, <2>3 DEF PresenceAuthority
<1>4. CASE ~d["/presence/enabled"]
  <2>1. "/presence/target_relay_ids" \notin DOMAIN d
    BY <1>2, <1>4 DEF Section
  <2>2. ~(d["/presence/profile"] \/ d["/presence/application_handler"])
    BY <1>2, <1>4 DEF ValidatePresence
  <2> QED
    BY <1>1, <1>4, <2>1, <2>2 DEF PresenceAuthority
<1> QED
  BY <1>3, <1>4

LEMMA ListenerConfigured ==
    ASSUME NEW d, NEW prof, Admissible(d, prof)
    PROVE  ListenerConfig(d)
<1>1. SUFFICES ASSUME d["/operations/enabled"] PROVE ListenerConfig(d)
  BY DEF ListenerConfig
<1>2. /\ d["/operations/listen"].parses /\ d["/operations/listen"].port # 0
      /\ \/ d["/operations/listen"].loopback
         \/ d["/operations/bind_policy"] = "explicit_public"
  BY <1>1 DEF Admissible, ValidateRelationships, ValidateOperations
<1>3. \A p \in DOMAIN OperationsDefaults : p \in Added(d)
  BY <1>1, SectionsWithin, SectionsApart DEF Within, Apart, Lacks, Added, DefaultIsEnabled
<1>4. DOMAIN OperationsDefaults \subseteq DOMAIN d
  BY <1>3 DEF Admissible
<1> QED
  BY <1>2, <1>4 DEF ListenerConfig

LEMMA AdminLimited ==
    ASSUME NEW d, NEW prof, Admissible(d, prof)
    PROVE  AdminTransportLimits(d)
<1>1. \A p \in DOMAIN AdminDefaults : p \in Added(d)
  BY SectionsWithin, SectionsApart DEF Within, Apart, Lacks, Added, DefaultIsEnabled
<1> QED
  BY <1>1 DEF Admissible, AdminTransportLimits

LEMMA EventsLimited ==
    ASSUME NEW d, NEW prof, Admissible(d, prof)
    PROVE  AdmissionLimits(d)
<1>1. SUFFICES ASSUME NEW p \in DOMAIN EventDefaults
               PROVE  p \in DOMAIN d /\ d[p] > 0
  BY DEF AdmissionLimits
<1>2. p \in DOMAIN DEFAULTS /\ \A v \in DEFAULTS[p].allowed : v > 0
  BY EventLimits
<1>3. p \notin DOMAIN OperationsDefaults /\ p \notin DOMAIN PublicationDefaults
  BY SectionsApart DEF Apart, Lacks
<1>4. p \in DOMAIN d /\ d[p] \in DEFAULTS[p].allowed
  BY <1>2, <1>3, AppliedValue DEF Admissible
<1> QED
  BY <1>2, <1>4

LEMMA SourcesAccepted ==
    ASSUME NEW d, NEW prof, Admissible(d, prof), NEW s \in ToSet(d["/evidence/sources"])
    PROVE  ConfiguredSource(d, s)
<1>1. SourceValid(s)
  BY DEF Admissible, SchemaValid
<1>2. /\ \E r \in ToSet(d["/relays"]) : r.id = s.relay_id /\ r.read
      /\ s.overlap_seconds <= s.lookback_seconds
  BY DEF Admissible, ValidateRelationships, ValidateEvidence
<1>3. /\ d["/resource_limits/source_results/events"] = 4096
      /\ d["/resource_limits/source_results/bytes"] = 8388608
  BY DEF Admissible, ValidateRelationships, ValidateExactPolicyLimits
<1>4. /\ Between(d["/resource_limits/source_results/events"], 1, 4096)
      /\ Between(d["/resource_limits/source_results/bytes"], 1, 8388608)
  BY <1>3, BetweenBound
<1> QED
  BY <1>1, <1>2, <1>4 DEF ConfiguredSource

LEMMA ReconciliationFacts ==
    ASSUME NEW d, NEW prof, Admissible(d, prof)
    PROVE  /\ Between(d["/reconciliation/queue_capacity"], 1, 65536)
           /\ Between(d["/reconciliation/lease_ms"], 1000, 300000)
           /\ Between(d["/reconciliation/lease_renewal_ms"], 100, 150000)
           /\ Between(d["/reconciliation/max_attempts"], 1, 100)
           /\ Between(d["/reconciliation/initial_backoff_ms"], 1, 60000)
           /\ Between(d["/reconciliation/maximum_backoff_ms"], 1, 3600000)
           /\ Between(d["/reconciliation/attempt_deadline_ms"], 100, 300000)
<1>1. \A p \in {"/reconciliation/queue_capacity", "/reconciliation/lease_ms",
               "/reconciliation/lease_renewal_ms", "/reconciliation/max_attempts",
               "/reconciliation/initial_backoff_ms", "/reconciliation/maximum_backoff_ms",
               "/reconciliation/attempt_deadline_ms"} :
        Lacks(OperationsDefaults, p) /\ Lacks(PublicationDefaults, p)
  BY JoinLacks, FieldLacks DEF OperationsDefaults, PublicationDefaults
<1>2. SchemaValid(d) /\ Added(d) \subseteq DOMAIN d
  BY DEF Admissible
<1> QED
  BY <1>1, <1>2, ReconciliationEntries, EntryValue

LEMMA PolicyAccepted ==
    ASSUME NEW d, NEW prof, Admissible(d, prof)
    PROVE  JobPolicy(d)
<1>1. /\ d["/reconciliation/lease_renewal_ms"] < d["/reconciliation/lease_ms"]
      /\ d["/reconciliation/initial_backoff_ms"] <= d["/reconciliation/maximum_backoff_ms"]
  BY DEF Admissible, ValidateRelationships, ValidateReconciliation
<1> QED
  BY <1>1, ReconciliationFacts DEF JobPolicy

LEMMA AttemptAccepted ==
    ASSUME NEW d, NEW prof, Admissible(d, prof), ~AttemptPlan(d)
    PROVE  d["/reconciliation/attempt_deadline_ms"] > 30000
<1>1. JobPolicy(d)
  BY PolicyAccepted
<1>2. Between(d["/reconciliation/attempt_deadline_ms"], 100, 300000)
  BY ReconciliationFacts
<1>3. \A s \in ToSet(d["/evidence/sources"]) :
        /\ Between(s.deadline_ms, 100, 30000)
        /\ s.deadline_ms <= d["/reconciliation/attempt_deadline_ms"]
        /\ Between(s.lookback_seconds, 60, 2678400)
  <2>1. \A s \in ToSet(d["/evidence/sources"]) : SourceValid(s)
    BY DEF Admissible, SchemaValid
  <2>2. \A s \in ToSet(d["/evidence/sources"]) :
          s.deadline_ms <= d["/reconciliation/attempt_deadline_ms"]
    BY DEF Admissible, ValidateRelationships, ValidateReconciliation
  <2> QED
    BY <2>1, <2>2 DEF SourceValid
<1>4. /\ d["/resource_limits/source_results/events"] = 4096
      /\ d["/resource_limits/source_results/bytes"] = 8388608
  BY DEF Admissible, ValidateRelationships, ValidateExactPolicyLimits
<1>5. /\ Between(d["/resource_limits/source_results/events"], 1, 4096)
      /\ Between(d["/resource_limits/source_results/bytes"], 1, 8388608)
  BY <1>4, BetweenBound
<1>6. ~Between(d["/reconciliation/attempt_deadline_ms"], 100, 30000)
  BY <1>1, <1>3, <1>5 DEF AttemptPlan
<1> QED
  BY <1>2, <1>6, BetweenFacts, BetweenBound

LEMMA OutboxAccepted ==
    ASSUME NEW d, NEW prof, Admissible(d, prof)
    PROVE  OutboxRow(d)
BY RetryFacts DEF OutboxRow

-----------------------------------------------------------------------------
(* The admission, stage by stage *)

Filled == {"filled", "complete", "related", "admitted", "running", "scheduled", "planned"}
Related == {"related", "admitted", "running", "scheduled", "planned"}

ConfigurationIInv ==
    /\ document \in Documents /\ profile \in Profiles
    /\ stage \in {"header", "valid"} => normalized = document
    /\ stage \in {"valid"} \union Filled => SchemaValid(document)
    /\ stage \in Filled => normalized = ApplyDefaults(document)
    /\ stage \in Related => ValidateRelationships(normalized, profile)
    /\ stage = "admitted" => effective = BuildEffective(normalized, document)
    /\ AdmittedRuns

(* From the relationships on, the document is admissible. *)
LEMMA RelatedAdmissible ==
    ASSUME ConfigurationIInv, stage \in Related
    PROVE  Admissible(normalized, profile)
<1>1. /\ SchemaValid(document) /\ normalized = ApplyDefaults(document)
      /\ ValidateRelationships(normalized, profile)
  BY DEF ConfigurationIInv, Related, Filled
<1>2. AFunction(document) /\ profile \in {"production", "repo_local"}
  BY ConfigurationAssumption DEF ConfigurationIInv, AFunction
<1>3. SchemaValid(normalized)
  BY <1>1, FilledValid
<1>4. Added(normalized) \subseteq DOMAIN normalized
  BY <1>1, <1>2, FilledSettled
<1> QED
  BY <1>1, <1>2, <1>3, <1>4 DEF Admissible

LEMMA ConfigurationStarts == Init => ConfigurationIInv
BY DEF Init, ConfigurationIInv, Filled, Related, AdmittedRuns, AdmittedStarts, AdmittedIngests,
       OnlyTheDeadlineStalls

(* Start refuses an admitted document only for its mixed relays. *)
LEMMA StartAccepts ==
    ASSUME ConfigurationIInv, Start
    PROVE  stage' = "start_failed" => profile = "repo_local" /\ ~OneTransport(normalized)
<1>1. stage = "admitted"
  BY DEF Start, Pass
<1>2. Admissible(normalized, profile)
  BY <1>1, RelatedAdmissible DEF Related
<1>3. /\ BuildsAdapters(normalized, profile) /\ PublicationAuthority(normalized)
      /\ PresenceAuthority(normalized) /\ ConfiguredSources(normalized)
      /\ ListenerConfig(normalized) /\ AdminTransportLimits(normalized)
  BY <1>2, AdaptersBuilt, PublicationDerived, PresenceDerived, SourcesConfigured,
     ListenerConfigured, AdminLimited
<1>4. profile # "repo_local" => OneTransport(normalized)
  BY <1>2, ProductionHasOneTransport
<1> QED
  BY <1>3, <1>4 DEF Start, Pass

LEMMA IngestAccepts ==
    ASSUME ConfigurationIInv, IngestEvent
    PROVE  stage' = "scheduled"
<1>1. Admissible(normalized, profile)
  BY RelatedAdmissible DEF IngestEvent, Pass, Related
<1>2. /\ AdmissionLimits(normalized) /\ JobPolicy(normalized)
      /\ \A s \in ToSet(normalized["/evidence/sources"]) : ConfiguredSource(normalized, s)
  BY <1>1, EventsLimited, PolicyAccepted, SourcesAccepted
<1> QED
  BY <1>2 DEF IngestEvent, Pass

LEMMA AttemptAccepts ==
    ASSUME ConfigurationIInv, PlanAttempt \/ StoreReport, stage' = "attempt_failed"
    PROVE  normalized["/reconciliation/attempt_deadline_ms"] > 30000
<1>1. Admissible(normalized, profile)
  BY RelatedAdmissible DEF PlanAttempt, StoreReport, Pass, Related
<1>2. OutboxRow(normalized)
  BY <1>1, OutboxAccepted
<1>3. ~AttemptPlan(normalized)
  BY <1>2 DEF PlanAttempt, StoreReport, Pass
<1> QED
  BY <1>1, <1>3, AttemptAccepted

LEMMA ConfigurationStepKeeps == ConfigurationIInv /\ [Next]_vars => ConfigurationIInv'
<1> SUFFICES ASSUME ConfigurationIInv, [Next]_vars PROVE ConfigurationIInv'
  OBVIOUS
<1> USE DEF ConfigurationIInv, Filled, Related, AdmittedRuns, AdmittedStarts, AdmittedIngests,
            OnlyTheDeadlineStalls
<1>1. CASE ReadHeader
  BY <1>1 DEF ReadHeader, Pass
<1>2. CASE CheckSchema
  BY <1>2 DEF CheckSchema, Pass
<1>3. CASE FillDefaults
  BY <1>3 DEF FillDefaults, Pass
<1>4. CASE CheckSchemaAgain
  BY <1>4 DEF CheckSchemaAgain, Pass
<1>5. CASE CheckRelationships
  BY <1>5 DEF CheckRelationships, Pass
<1>6. CASE Admit
  BY <1>6 DEF Admit, Pass
<1>7. CASE Start
  <2>1. UNCHANGED <<document, profile, normalized, effective>>
    BY <1>7 DEF Start
  <2>2. stage = "admitted" /\ stage' \in {"running", "start_failed"}
    BY <1>7 DEF Start, Pass
  <2>3. stage' = "start_failed" => profile = "repo_local" /\ ~OneTransport(normalized)
    BY <1>7, StartAccepts
  <2>4. OneTransport(normalized)' <=> OneTransport(normalized)
    BY <2>1 DEF OneTransport
  <2> QED
    BY <2>1, <2>2, <2>3, <2>4
<1>8. CASE IngestEvent
  <2>1. /\ UNCHANGED <<document, profile, normalized, effective>>
        /\ stage = "running" /\ stage' = "scheduled"
    BY <1>8, IngestAccepts DEF IngestEvent, Pass
  <2> QED
    BY <2>1
<1>9. CASE PlanAttempt \/ StoreReport
  <2>1. /\ UNCHANGED <<document, profile, normalized, effective>>
        /\ stage \in {"scheduled", "planned"}
        /\ stage = "scheduled" => stage' \in {"planned", "attempt_failed"}
        /\ stage = "planned" => stage' \in {"stored", "attempt_failed"}
        /\ stage' = "attempt_failed"
             => normalized["/reconciliation/attempt_deadline_ms"] > 30000
    BY <1>9, AttemptAccepts DEF PlanAttempt, StoreReport, Pass
  <2> QED
    BY <2>1
<1>10. CASE UNCHANGED vars
  <2>1. UNCHANGED <<document, profile, normalized, effective, stage>>
    BY <1>10 DEF vars
  <2>2. OneTransport(normalized)' <=> OneTransport(normalized)
    BY <2>1 DEF OneTransport
  <2> QED
    BY <2>1, <2>2
<1> QED
  BY <1>1, <1>2, <1>3, <1>4, <1>5, <1>6, <1>7, <1>8, <1>9, <1>10 DEF Next

LEMMA ConfigurationInductive == Spec => []ConfigurationIInv
BY ConfigurationStarts, ConfigurationStepKeeps, PTL DEF Spec

(* Whatever document an operator hands in, under either profile: what the      *)
(* admission lets through starts the daemon, never kills the subscription and  *)
(* never fails an attempt, but for the mixed relays and the long deadline that *)
(* the property names.                                                         *)
THEOREM AdmittedRunsHolds == Spec => []AdmittedRuns
<1>1. ConfigurationIInv => AdmittedRuns
  BY DEF ConfigurationIInv
<1> QED
  BY <1>1, ConfigurationInductive, PTL

(* Whatever document an operator hands in: the defaults keep what was written *)
(* and settle at once, and the projection tells the value in force and where  *)
(* it comes from.                                                             *)
THEOREM ConfigurationIsFaithfulHolds == Spec => []ConfigurationIsFaithful
<1>1. ASSUME ConfigurationIInv PROVE DefaultsAreNeutral
  <2>1. SUFFICES ASSUME stage = "filled" PROVE DefaultsAreNeutral
    BY DEF DefaultsAreNeutral
  <2>2. PICK d : d = document
    OBVIOUS
  <2>3. AFunction(d) /\ SchemaValid(d) /\ normalized = ApplyDefaults(d)
    BY <1>1, <2>1, <2>2, ConfigurationAssumption DEF ConfigurationIInv, Filled, AFunction
  <2>4. SchemaValid(normalized)
    BY <2>3, FilledValid
  <2>5. \A p \in DOMAIN d : normalized[p] = d[p]
    BY <2>3, FilledFacts
  <2>6. /\ ApplyDefaults(normalized) = normalized
        /\ \A p \in DOMAIN normalized \intersect DOMAIN DEFAULTS :
             normalized[p] = DEFAULTS[p].default =>
               ApplyDefaults([q \in DOMAIN normalized \ {p} |-> normalized[q]]) = normalized
    BY <2>3, FilledSettled
  <2> QED
    BY <2>2, <2>4, <2>5, <2>6 DEF DefaultsAreNeutral
<1>2. ASSUME ConfigurationIInv PROVE EffectiveExplains
  <2>1. SUFFICES ASSUME stage = "admitted", NEW p \in DOMAIN effective
                 PROVE  /\ effective[p].source = "toml" <=> p \in DOMAIN document
                        /\ effective[p].shown # <<>> => effective[p].shown = <<normalized[p]>>
                        /\ effective[p].source = "safe_default"
                             => effective[p].shown = <<DEFAULTS[p].default>>
    BY DEF EffectiveExplains
  <2>2. /\ normalized = ApplyDefaults(document)
        /\ effective = BuildEffective(normalized, document)
    BY <1>2, <2>1 DEF ConfigurationIInv, Filled
  <2>3. /\ p \in DOMAIN normalized
        /\ effective[p] =
             [source |-> IF p \in DOMAIN DEFAULTS /\ p \notin DOMAIN document
                         THEN "safe_default" ELSE "toml",
              shown |-> IF p \in Redacted THEN <<>> ELSE <<normalized[p]>>]
    BY <2>1, <2>2 DEF BuildEffective
  <2>4. /\ p \in DOMAIN document \/ p \in Added(document)
        /\ p \in Added(document) => p \in DOMAIN DEFAULTS
        /\ p \in Added(document) /\ p \notin DOMAIN document
             => normalized[p] = DEFAULTS[p].default
    BY <2>2, <2>3, FilledFacts DEF Added
  <2>5. p \in DOMAIN DEFAULTS => p \notin Redacted
    BY DefaultsFree DEF Free, Outside
  <2> QED
    BY <2>3, <2>4, <2>5
<1> QED
  BY <1>1, <1>2, ConfigurationInductive, PTL DEF ConfigurationIsFaithful
=============================================================================
