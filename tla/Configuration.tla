--------------------------- MODULE Configuration ---------------------------
(* Admission of the operator's configuration document (config_v1.rs) and   *)
(* what the daemon does with the admitted one.  The document passes the    *)
(* schema, receives the safe defaults, passes the schema again and then    *)
(* the cross-field relationships; every component later reads the          *)
(* normalized document again and applies bounds of its own, some while the *)
(* daemon starts, some on every event, some on every attempt.  The module  *)
(* asks whether these bounds agree.                                        *)
(*                                                                         *)
(* A document is a function from the JSON pointers it sets to their        *)
(* values.  The tables "/operations/limits" and "/publication/retry",      *)
(* whose presence the schema asks for, are pointers with the value Table.  *)
(* Retention is counted in seconds, where the document has milliseconds.   *)
EXTENDS Integers, Sequences, SequencesExt

CONSTANTS
    Documents,    \* the documents the operator may hand in
    Profiles,     \* the bootstrap profiles: "production", "repo_local"
    Table         \* the value of a pointer that names a table

ASSUME ConfigurationAssumption ==
    /\ Profiles \subseteq {"production", "repo_local"}
    /\ \A d \in Documents : d = [p \in DOMAIN d |-> d[p]]

VARIABLES
    document,     \* the TOML document, pointer by pointer
    profile,      \* the profile the bootstrap selected
    normalized,   \* the JSON value parse_rhi_config_v1 works on
    effective,    \* the projection `config effective` prints
    stage         \* how far the document has come

vars == <<document, profile, normalized, effective, stage>>

-----------------------------------------------------------------------------
(* The governed fields: what the schema allows and the default.             *)

Choice(p, values, default) == [q \in {p} |-> [allowed |-> values, default |-> default]]

\* A range check.
Between(v, lo, hi) == v \in lo..hi

Field(p, lo, hi, default) == Choice(p, lo..hi, default)

f ++ g == [p \in DOMAIN f \union DOMAIN g |-> IF p \in DOMAIN f THEN f[p] ELSE g[p]]

ServiceDefaults ==
    Field("/service/shutdown_grace_ms", 1000, 300000, 30000)
 ++ Choice("/logging/level", {"error", "warn", "info", "debug", "trace"}, "info")
 ++ Choice("/logging/format", {"json", "text"}, "json")

OperationsDefaults ==
    Field("/operations/limits/header_count", 1, 64, 32)
 ++ Field("/operations/limits/header_bytes", 8192, 32768, 16384)
 ++ Field("/operations/limits/response_body_utf8_bytes", 1, 1048576, 1048576)
 ++ Field("/operations/limits/concurrent_connections", 1, 64, 32)
 ++ Field("/operations/limits/request_deadline_ms", 1, 30000, 15000)
 ++ Field("/operations/limits/idle_timeout_ms", 1, 60000, 30000)

HostDefaults ==
    Field("/database/busy_timeout_ms", 1, 60000, 5000)
 ++ Field("/database/max_connections", 1, 8, 8)
 ++ Field("/network/connect_deadline_ms", 100, 30000, 10000)
 ++ Field("/network/dns_answer_limit", 1, 64, 16)

ReconciliationDefaults ==
    Field("/reconciliation/concurrency", 1, 64, 8)
 ++ Field("/reconciliation/queue_capacity", 1, 65536, 4096)
 ++ Field("/reconciliation/lease_ms", 1000, 300000, 30000)
 ++ Field("/reconciliation/lease_renewal_ms", 100, 150000, 10000)
 ++ Field("/reconciliation/max_attempts", 1, 100, 10)
 ++ Field("/reconciliation/initial_backoff_ms", 1, 60000, 250)
 ++ Field("/reconciliation/maximum_backoff_ms", 1, 3600000, 30000)
 ++ Field("/reconciliation/attempt_deadline_ms", 100, 300000, 30000)

PublicationDefaults ==
    Field("/publication/retry/max_attempts", 1, 100, 10)
 ++ Field("/publication/retry/initial_backoff_ms", 1, 60000, 250)
 ++ Field("/publication/retry/maximum_backoff_ms", 1, 3600000, 30000)
 ++ Field("/publication/retry/attempt_deadline_ms", 100, 30000, 15000)

AdminDefaults ==
    Field("/resource_limits/admin/header_count", 1, 64, 32)
 ++ Field("/resource_limits/admin/header_bytes", 8192, 32768, 16384)
 ++ Field("/resource_limits/admin/request_body_utf8_bytes", 1, 65536, 65536)
 ++ Field("/resource_limits/admin/response_body_utf8_bytes", 512, 1048576, 1048576)
 ++ Field("/resource_limits/admin/concurrent_connections", 1, 64, 32)
 ++ Field("/resource_limits/admin/request_deadline_ms", 1, 30000, 15000)
 ++ Field("/resource_limits/admin/idle_timeout_ms", 1, 60000, 30000)
 ++ Field("/resource_limits/admin/query_items", 1, 200, 100)

EventDefaults ==
    Field("/resource_limits/events/wire_bytes", 1, 524288, 262144)
 ++ Field("/resource_limits/events/content_bytes", 1, 131072, 131072)
 ++ Field("/resource_limits/events/tag_count", 1, 1024, 1024)
 ++ Field("/resource_limits/events/tag_total_elements", 1, 4096, 4096)
 ++ Field("/resource_limits/events/tag_element_bytes", 1, 4096, 4096)
 ++ Field("/resource_limits/events/tag_total_bytes", 1, 131072, 131072)
 ++ Field("/resource_limits/source_results/events", 1, 4096, 4096)
 ++ Field("/resource_limits/source_results/bytes", 1, 8388608, 8388608)

QueueDefaults ==
    Field("/resource_limits/queues/ingress", 1, 65536, 1024)
 ++ Field("/resource_limits/queues/reconciliation", 1, 65536, 4096)
 ++ Field("/resource_limits/queues/publication", 1, 65536, 4096)
 ++ Field("/resource_limits/queues/presence", 1, 4096, 64)
 ++ Field("/resource_limits/metrics/descriptors", 1, 64, 64)
 ++ Field("/resource_limits/metrics/samples", 1, 512, 512)
 ++ Field("/resource_limits/metrics/labels_per_sample", 1, 8, 8)
 ++ Field("/resource_limits/metrics/render_utf8_bytes", 1, 1048576, 1048576)
 ++ Field("/resource_limits/runtime/worker_threads", 2, 32, 4)
 ++ Field("/resource_limits/runtime/blocking_threads", 1, 32, 8)

DEFAULTS ==
    ServiceDefaults ++ OperationsDefaults ++ HostDefaults ++ ReconciliationDefaults
 ++ PublicationDefaults ++ AdminDefaults ++ EventDefaults ++ QueueDefaults

AYear == 365 * 24 * 3600   \* the longest retention

Retentions ==
    {"/retention/duplicate_observations", "/retention/completed_jobs",
     "/retention/terminal_publication_attempts",
     "/retention/terminal_presence_attempts", "/retention/operation_dedup"}

-----------------------------------------------------------------------------
(* The JSON schema.                                                         *)

Operations == {"/operations/listen", "/operations/bind_policy", "/operations/limits"}

Publication == {"/publication/target_relay_ids", "/publication/retry"}

TargetLists == {"/publication/target_relay_ids", "/presence/target_relay_ids"}

Required ==
    {"/schema_version", "/identity/service/envelope_path",
     "/identity/service/expected_public_key", "/relays", "/evidence/sources",
     "/operations/enabled", "/publication/mode", "/presence/enabled",
     "/presence/profile", "/presence/application_handler", "/retention/audit"}
    \union Retentions

\* A conditional section is complete when it is on and empty when it is off.
Section(d, on, parts, fields) ==
    IF on THEN parts \subseteq DOMAIN d
          ELSE DOMAIN d \intersect (parts \union DOMAIN fields) = {}

\* One evidence source of the document.
SourceValid(s) ==
    /\ Between(s.deadline_ms, 100, 30000)
    /\ Between(s.lookback_seconds, 60, 2678400)
    /\ Between(s.overlap_seconds, 1, 86400)

Distinct(seq) == \A i, j \in DOMAIN seq : seq[i] = seq[j] => i = j

SchemaValid(d) ==
    /\ Required \subseteq DOMAIN d
    /\ \A p \in {"/operations/enabled", "/presence/enabled", "/presence/profile",
                "/presence/application_handler"} : d[p] \in BOOLEAN
    /\ d["/publication/mode"] \in {"required", "disabled"}
    /\ \A p \in DOMAIN d \intersect DOMAIN DEFAULTS : d[p] \in DEFAULTS[p].allowed
    /\ \A p \in Retentions \union {"/retention/audit"} : d[p] \in 1..AYear
    /\ Len(d["/relays"]) \in 1..32 /\ Len(d["/evidence/sources"]) \in 1..16
    /\ \A s \in ToSet(d["/evidence/sources"]) : SourceValid(s)
    /\ \A p \in TargetLists \intersect DOMAIN d : Len(d[p]) \in 1..32 /\ Distinct(d[p])
    /\ Section(d, d["/operations/enabled"], Operations, OperationsDefaults)
    /\ Section(d, d["/publication/mode"] = "required", Publication, PublicationDefaults)
    /\ Section(d, d["/presence/enabled"], {"/presence/target_relay_ids"}, <<>>)

-----------------------------------------------------------------------------
(* The header and the safe defaults.                                        *)

ValidateHeader(d) ==
    /\ "/schema" \in DOMAIN d /\ d["/schema"] = "radroots.rhi.config"
    /\ "/schema_version" \in DOMAIN d /\ d["/schema_version"] = 1

\* Fault: the retry defaults are not conditional on the publication mode.
DefaultIsEnabledAlways(d, p) ==
    p \in DOMAIN OperationsDefaults => d["/operations/enabled"]

DefaultIsEnabled(d, p) ==
    /\ p \in DOMAIN OperationsDefaults => d["/operations/enabled"]
    /\ p \in DOMAIN PublicationDefaults => d["/publication/mode"] = "required"

ApplyDefaults(d) ==
    d ++ [p \in {q \in DOMAIN DEFAULTS : DefaultIsEnabled(d, q)} |-> DEFAULTS[p].default]

-----------------------------------------------------------------------------
(* The cross-field relationships.                                           *)

ValidateIdentity(d) ==
    /\ d["/identity/service/envelope_path"] = "canonical"
    /\ d["/identity/service/expected_public_key"] = "on_curve"

CanonicalRelayUrl(url, prof) ==
    /\ url.canonical
    /\ \/ url.scheme = "wss"
       \/ prof = "repo_local" /\ url.scheme = "ws" /\ url.loopback

Column(seq, Op(_)) == [i \in DOMAIN seq |-> Op(seq[i])]

ValidateRelays(d, prof) ==
    LET relays == d["/relays"]
    IN  /\ \A r \in ToSet(relays) : CanonicalRelayUrl(r.url, prof) /\ (r.read \/ r.write)
        /\ Distinct(Column(relays, LAMBDA r : r.id))
        /\ Distinct(Column(relays, LAMBDA r : r.url))

\* Sources are listed in the order of their ids, each on a relay of its own
\* (kind and selector are constants of the schema), and one is required.
ValidateEvidence(d) ==
    LET sources == d["/evidence/sources"]
    IN  /\ \A i \in 1..Len(sources) - 1 : sources[i].source_id < sources[i + 1].source_id
        /\ Distinct(Column(sources, LAMBDA s : s.relay_id))
        /\ \A s \in ToSet(sources) :
               /\ \E r \in ToSet(d["/relays"]) : r.id = s.relay_id /\ r.read
               /\ s.overlap_seconds <= s.lookback_seconds
        /\ \E s \in ToSet(sources) : s.required

\* Fault: a lease may be renewed exactly when it expires.
ValidateReconciliationLoosely(d) ==
    /\ d["/reconciliation/lease_renewal_ms"] <= d["/reconciliation/lease_ms"]
    /\ d["/reconciliation/initial_backoff_ms"] <= d["/reconciliation/maximum_backoff_ms"]
    /\ \A s \in ToSet(d["/evidence/sources"]) :
           s.deadline_ms <= d["/reconciliation/attempt_deadline_ms"]

ValidateReconciliation(d) ==
    /\ d["/reconciliation/lease_renewal_ms"] < d["/reconciliation/lease_ms"]
    /\ d["/reconciliation/initial_backoff_ms"] <= d["/reconciliation/maximum_backoff_ms"]
    /\ \A s \in ToSet(d["/evidence/sources"]) :
           s.deadline_ms <= d["/reconciliation/attempt_deadline_ms"]

ValidateRelayTargets(d, pointer) ==
    \A t \in ToSet(d[pointer]) : \E r \in ToSet(d["/relays"]) : r.id = t /\ r.write

ValidatePublication(d) ==
    d["/publication/mode"] = "required" =>
        /\ ValidateRelayTargets(d, "/publication/target_relay_ids")
        /\ d["/publication/retry/initial_backoff_ms"]
               <= d["/publication/retry/maximum_backoff_ms"]

ValidatePresence(d) ==
    LET wanted == d["/presence/profile"] \/ d["/presence/application_handler"]
    IN  IF d["/presence/enabled"]
        THEN wanted /\ ValidateRelayTargets(d, "/presence/target_relay_ids")
        ELSE ~wanted

ValidateOperations(d) ==
    d["/operations/enabled"] =>
        /\ d["/operations/listen"].parses
        /\ d["/operations/listen"].port # 0
        /\ \/ d["/operations/listen"].loopback
           \/ d["/operations/bind_policy"] = "explicit_public"

ValidateRetention(d) == \A p \in Retentions : d[p] <= d["/retention/audit"]

ValidateExactPolicyLimits(d) ==
    /\ d["/resource_limits/source_results/events"] = 4096
    /\ d["/resource_limits/source_results/bytes"] = 8388608

ValidateRelationships(d, prof) ==
    /\ ValidateIdentity(d)
    /\ ValidateRelays(d, prof)
    /\ ValidateEvidence(d)
    /\ ValidateReconciliation(d)
    /\ ValidatePublication(d)
    /\ ValidatePresence(d)
    /\ ValidateOperations(d)
    /\ ValidateRetention(d)
    /\ ValidateExactPolicyLimits(d)

-----------------------------------------------------------------------------
(* The effective projection: where each value comes from, and the value      *)
(* itself unless it would identify a key, a path, a relay or an address.     *)

Redacted ==
    {"/identity/service/envelope_path", "/identity/service/expected_public_key",
     "/operations/listen", "/relays", "/evidence/sources",
     "/publication/target_relay_ids", "/presence/target_relay_ids"}

BuildEffective(n, original) ==
    [p \in {q \in DOMAIN n : n[q] # Table} |->
        [source |-> IF p \in DOMAIN DEFAULTS /\ p \notin DOMAIN original
                    THEN "safe_default" ELSE "toml",
         shown  |-> IF p \in Redacted THEN <<>> ELSE <<n[p]>>]]

-----------------------------------------------------------------------------
(* What each consumer of the admitted document asks of it again.             *)

\* build_rhi_nostr_adapters: every relay has an access and a transport.
BuildsAdapters(d, prof) ==
    /\ \A r \in ToSet(d["/relays"]) :
           /\ r.write \/ r.read
           /\ \/ r.url.scheme = "wss"
              \/ prof = "repo_local" /\ r.url.scheme = "ws"
    /\ Distinct(Column(d["/relays"], LAMBDA r : r.id))
    /\ Distinct(Column(d["/relays"], LAMBDA r : r.url))

\* The targets of publication and of presence, resolved against the relays.
DerivesTargets(d, pointer) ==
    /\ pointer \in DOMAIN d
    /\ Len(d[pointer]) \in 1..32 /\ Distinct(d[pointer])
    /\ \A t \in ToSet(d[pointer]) : \E r \in ToSet(d["/relays"]) : r.id = t /\ r.write

PublicationAuthority(d) ==
    /\ Between(d["/resource_limits/queues/publication"], 1, 65536)
    /\ IF d["/publication/mode"] = "disabled"
       THEN DOMAIN d \intersect (Publication \union DOMAIN PublicationDefaults) = {}
       ELSE /\ DerivesTargets(d, "/publication/target_relay_ids")
            /\ Between(d["/publication/retry/max_attempts"], 1, 100)
            /\ Between(d["/publication/retry/initial_backoff_ms"], 1,
                       d["/publication/retry/maximum_backoff_ms"])
            /\ d["/publication/retry/maximum_backoff_ms"] <= 3600000
            /\ Between(d["/publication/retry/attempt_deadline_ms"], 100, 30000)

\* What the CHECK constraints of publication_outbox accept of the authority.
OutboxRow(d) ==
    d["/publication/mode"] = "required" =>
        /\ Between(d["/publication/retry/initial_backoff_ms"], 1, 60000)
        /\ Between(d["/publication/retry/maximum_backoff_ms"], 1, 3600000)
        /\ Between(d["/publication/retry/max_attempts"], 1, 100)

PresenceAuthority(d) ==
    LET wanted == d["/presence/profile"] \/ d["/presence/application_handler"]
    IN  /\ Between(d["/resource_limits/queues/presence"], 1, 4096)
        /\ IF d["/presence/enabled"]
           THEN wanted /\ DerivesTargets(d, "/presence/target_relay_ids")
           ELSE ~wanted /\ "/presence/target_relay_ids" \notin DOMAIN d

\* The subscription's sources, each with the URL of its relay.
ConfiguredSources(d) ==
    \A s \in ToSet(d["/evidence/sources"]) :
        \E r \in ToSet(d["/relays"]) : r.id = s.relay_id

\* One subscription covers every source, and RhiNostrTransport serves a
\* request only from one transport: public relays and local ones never mix.
OneTransport(d) ==
    \A s, t \in ToSet(d["/evidence/sources"]) : \A q, r \in ToSet(d["/relays"]) :
        q.id = s.relay_id /\ r.id = t.relay_id => q.url.scheme = r.url.scheme

\* The operations listener, when it is enabled.
ListenerConfig(d) ==
    d["/operations/enabled"] =>
        /\ d["/operations/listen"].parses /\ d["/operations/listen"].port # 0
        /\ d["/operations/bind_policy"] = "loopback_only"
               => d["/operations/listen"].loopback
        /\ DOMAIN OperationsDefaults \subseteq DOMAIN d

AdminTransportLimits(d) == DOMAIN AdminDefaults \subseteq DOMAIN d

\* RhiTradeMutationAdmissionLimits::from_config
AdmissionLimits(d) ==
    \A p \in DOMAIN EventDefaults : p \in DOMAIN d /\ d[p] > 0

\* ConfiguredSource::new, for every source of the document.
ConfiguredSource(d, s) ==
    /\ \E r \in ToSet(d["/relays"]) : r.id = s.relay_id /\ r.read
    /\ SourceValid(s)
    /\ s.overlap_seconds <= s.lookback_seconds
    /\ Between(d["/resource_limits/source_results/events"], 1, 4096)
    /\ Between(d["/resource_limits/source_results/bytes"], 1, 8388608)

\* RhiReconciliationJobPolicy::from_configuration
JobPolicy(d) ==
    /\ Between(d["/reconciliation/queue_capacity"], 1, 65536)
    /\ Between(d["/reconciliation/lease_ms"], 1000, 300000)
    /\ Between(d["/reconciliation/lease_renewal_ms"], 100, 150000)
    /\ d["/reconciliation/lease_renewal_ms"] < d["/reconciliation/lease_ms"]
    /\ Between(d["/reconciliation/max_attempts"], 1, 100)
    /\ Between(d["/reconciliation/initial_backoff_ms"], 1, 60000)
    /\ Between(d["/reconciliation/maximum_backoff_ms"], 1, 3600000)
    /\ d["/reconciliation/initial_backoff_ms"] <= d["/reconciliation/maximum_backoff_ms"]

\* RhiReconciliationAttemptPlan::from_claim, on a live lease of a job that was
\* scheduled under this document.
AttemptPlan(d) ==
    /\ JobPolicy(d)
    /\ Between(d["/reconciliation/attempt_deadline_ms"], 100, 30000)
    /\ Between(d["/resource_limits/source_results/events"], 1, 4096)
    /\ Between(d["/resource_limits/source_results/bytes"], 1, 8388608)
    /\ \A s \in ToSet(d["/evidence/sources"]) :
           /\ Between(s.deadline_ms, 100, 30000)
           /\ s.deadline_ms <= d["/reconciliation/attempt_deadline_ms"]
           /\ Between(s.lookback_seconds, 60, 2678400)

-----------------------------------------------------------------------------
Init ==
    /\ document \in Documents
    /\ profile \in Profiles
    /\ normalized = <<>> /\ effective = <<>>
    /\ stage = "received"

Pass(from, accepted, to, otherwise) ==
    /\ stage = from
    /\ stage' = IF accepted THEN to ELSE otherwise

ReadHeader ==
    /\ Pass("received", ValidateHeader(document), "header", "refused")
    /\ normalized' = document
    /\ UNCHANGED <<document, profile, effective>>

CheckSchema ==
    /\ Pass("header", SchemaValid(normalized), "valid", "refused")
    /\ UNCHANGED <<document, profile, normalized, effective>>

FillDefaults ==
    /\ Pass("valid", TRUE, "filled", "refused")
    /\ normalized' = ApplyDefaults(normalized)
    /\ UNCHANGED <<document, profile, effective>>

CheckSchemaAgain ==
    /\ Pass("filled", SchemaValid(normalized), "complete", "refused")
    /\ UNCHANGED <<document, profile, normalized, effective>>

CheckRelationships ==
    /\ Pass("complete", ValidateRelationships(normalized, profile), "related", "refused")
    /\ UNCHANGED <<document, profile, normalized, effective>>

Admit ==
    /\ Pass("related", TRUE, "admitted", "refused")
    /\ effective' = BuildEffective(normalized, document)
    /\ UNCHANGED <<document, profile, normalized>>

\* The daemon composes itself from the admitted document (run_rhi_daemon_inner).
Start ==
    /\ Pass("admitted",
            /\ BuildsAdapters(normalized, profile)
            /\ PublicationAuthority(normalized)
            /\ PresenceAuthority(normalized)
            /\ ConfiguredSources(normalized)
            /\ OneTransport(normalized)
            /\ ListenerConfig(normalized)
            /\ AdminTransportLimits(normalized),
            "running", "start_failed")
    /\ UNCHANGED <<document, profile, normalized, effective>>

\* A live event arrives: its limits, its source and its job.
IngestEvent ==
    /\ Pass("running",
            /\ AdmissionLimits(normalized)
            /\ \A s \in ToSet(normalized["/evidence/sources"]) :
                   ConfiguredSource(normalized, s)
            /\ JobPolicy(normalized),
            "scheduled", "task_failed")
    /\ UNCHANGED <<document, profile, normalized, effective>>

\* The worker claims the job and plans its attempt.
PlanAttempt ==
    /\ Pass("scheduled", AttemptPlan(normalized), "planned", "attempt_failed")
    /\ UNCHANGED <<document, profile, normalized, effective>>

\* The attempt's report is stored with its outbox.
StoreReport ==
    /\ Pass("planned", OutboxRow(normalized), "stored", "attempt_failed")
    /\ UNCHANGED <<document, profile, normalized, effective>>

Next ==
    \/ ReadHeader \/ CheckSchema \/ FillDefaults \/ CheckSchemaAgain
    \/ CheckRelationships \/ Admit \/ Start \/ IngestEvent \/ PlanAttempt \/ StoreReport

Spec == Init /\ [][Next]_vars

-----------------------------------------------------------------------------
(* A document that apply_defaults has completed still satisfies the schema,  *)
(* keeps every value the operator gave, and means the same when it is        *)
(* spelled out or when a value that equals its default is left out: the      *)
(* configuration digest that binds the state file depends on none of this.   *)
DefaultsAreNeutral ==
    stage = "filled" =>
        /\ SchemaValid(normalized)
        /\ \A p \in DOMAIN document : normalized[p] = document[p]
        /\ ApplyDefaults(normalized) = normalized
        /\ \A p \in DOMAIN normalized \intersect DOMAIN DEFAULTS :
               normalized[p] = DEFAULTS[p].default =>
                   ApplyDefaults([q \in DOMAIN normalized \ {p} |-> normalized[q]])
                       = normalized

(* The projection gives every leaf's exact origin and, unless redacted, the  *)
(* value in force: a reader can tell which values change with the release    *)
(* that changes a default (build_effective).                                 *)
EffectiveExplains ==
    stage = "admitted" =>
        \A p \in DOMAIN effective :
            /\ effective[p].source = "toml" <=> p \in DOMAIN document
            /\ effective[p].shown # <<>> => effective[p].shown = <<normalized[p]>>
            /\ effective[p].source = "safe_default"
                   => effective[p].shown = <<DEFAULTS[p].default>>

(* What is shown, what is bound and what was written are one configuration.  *)
ConfigurationIsFaithful == DefaultsAreNeutral /\ EffectiveExplains

(* A document the admission accepts starts the daemon: adapters, both        *)
(* authorities, subscription, listener and admin limits find their own       *)
(* bounds satisfied, so `config validate` never passes a file on which the   *)
(* daemon then dies.  The one exception is a repo-local document that reads  *)
(* from a plaintext relay and from a TLS one: run_rhi_daemon_inner cannot    *)
(* open the subscription that covers both.                                   *)
AdmittedStarts ==
    stage = "start_failed" => profile = "repo_local" /\ ~OneTransport(normalized)

(* No live event kills the subscription task over the configuration: the     *)
(* admission limits, the source and the job policy that are derived anew for *)
(* every event accept every admitted document.                               *)
AdmittedIngests == stage # "task_failed"

(* The one admitted value that no reconciliation attempt can live with is an  *)
(* attempt deadline above 30000 ms: with any other, from_claim plans every    *)
(* attempt and publication_outbox takes every report's row.                   *)
OnlyTheDeadlineStalls ==
    stage = "attempt_failed" => normalized["/reconciliation/attempt_deadline_ms"] > 30000

(* The admission is the last check that refuses: nothing it let through is   *)
(* refused by the startup, by the handling of an event or, but for the       *)
(* deadline above, by an attempt.                                            *)
AdmittedRuns == AdmittedStarts /\ AdmittedIngests /\ OnlyTheDeadlineStalls

(* config.v1.schema.json:235 lets attempt_deadline_ms range to 300000; every *)
(* attempt under an admitted document can be planned and stored.             *)
AdmittedReconciles == stage # "attempt_failed"
=============================================================================
