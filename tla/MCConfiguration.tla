-------------------------- MODULE MCConfiguration --------------------------
(* Documents around every bound that two parts of the code both check: a     *)
(* base document, and for each group of related fields the base with every   *)
(* combination of boundary values, absent values included.                   *)
EXTENDS Configuration, TLC

CONSTANT Absent

Url(name, scheme, loopback, canonical) ==
    [name |-> name, scheme |-> scheme, loopback |-> loopback, canonical |-> canonical]

Relay(id, url, read, write) == [id |-> id, url |-> url, read |-> read, write |-> write]

Source(id, relay, required, deadline, lookback, overlap) ==
    [source_id |-> id, relay_id |-> relay, required |-> required,
     deadline_ms |-> deadline, lookback_seconds |-> lookback, overlap_seconds |-> overlap]

Wss == Url("u1", "wss", FALSE, TRUE)
Both == Relay("alpha", Wss, TRUE, TRUE)

Base ==
    ("/schema" :> "radroots.rhi.config") @@ ("/schema_version" :> 1)
 @@ ("/identity/service/envelope_path" :> "canonical")
 @@ ("/identity/service/expected_public_key" :> "on_curve")
 @@ ("/relays" :> <<Both>>)
 @@ ("/evidence/sources" :> <<Source(1, "alpha", TRUE, 10000, 86400, 300)>>)
 @@ ("/operations/enabled" :> FALSE)
 @@ ("/publication/mode" :> "disabled")
 @@ ("/presence/enabled" :> FALSE) @@ ("/presence/profile" :> FALSE)
 @@ ("/presence/application_handler" :> FALSE)
 @@ ("/retention/audit" :> 86400)
 @@ [p \in Retentions |-> 3600]

\* The base with some values replaced, and those that are Absent left out.
With(changes) ==
    LET all == changes @@ Base
    IN  [p \in {q \in DOMAIN all : all[q] # Absent} |-> all[p]]

Headers ==
    {("/schema" :> s) @@ ("/schema_version" :> v) :
        s \in {Absent, "radroots.rhi.config", "radroots.other"}, v \in {Absent, 0, 1, 2}}

Reconciliations ==
    {("/reconciliation/lease_ms" :> l) @@ ("/reconciliation/lease_renewal_ms" :> r)
     @@ ("/reconciliation/initial_backoff_ms" :> i)
     @@ ("/reconciliation/maximum_backoff_ms" :> x)
     @@ ("/reconciliation/queue_capacity" :> c) :
        l \in {Absent, 1000, 10000, 300000, 300001}, r \in {Absent, 99, 100, 1000, 150000},
        i \in {Absent, 0, 1, 60000}, x \in {Absent, 1, 60000, 3600000},
        c \in {Absent, 65536}}

Deadlines ==
    {("/reconciliation/attempt_deadline_ms" :> a)
     @@ ("/evidence/sources" :> <<Source(1, "alpha", TRUE, d, k, o)>>) :
        a \in {Absent, 99, 100, 30000, 30001, 300000, 300001},
        d \in {99, 100, 30000, 30001}, k \in {59, 60, 2678400}, o \in {0, 1, 60, 61, 86400}}

Publications ==
    {("/publication/mode" :> m) @@ ("/publication/target_relay_ids" :> t)
     @@ ("/publication/retry" :> y)
     @@ ("/publication/retry/initial_backoff_ms" :> IF y = Absent THEN Absent ELSE i)
     @@ ("/publication/retry/maximum_backoff_ms" :> IF y = Absent THEN Absent ELSE x)
     @@ ("/publication/retry/attempt_deadline_ms" :> IF y = Absent THEN Absent ELSE a)
     @@ ("/resource_limits/queues/publication" :> q) :
        m \in {"required", "disabled"},
        t \in {Absent, <<>>, <<"alpha">>, <<"alpha", "alpha">>, <<"beta">>},
        y \in {Absent, Table}, i \in {Absent, 1, 60000}, x \in {Absent, 1, 3600000},
        a \in {Absent, 100, 30000, 30001}, q \in {Absent, 65536}}

Presences ==
    {("/presence/enabled" :> e) @@ ("/presence/profile" :> p)
     @@ ("/presence/application_handler" :> h) @@ ("/presence/target_relay_ids" :> t)
     @@ ("/resource_limits/queues/presence" :> q) :
        e, p, h \in BOOLEAN, t \in {Absent, <<>>, <<"alpha">>, <<"alpha", "alpha">>, <<"beta">>},
        q \in {Absent, 4096, 4097}}

\* Two relays that can or cannot read and write, with publication to the second
\* and a source on each.
Relays ==
    {("/relays" :> <<Relay("alpha", u, r1, w1), Relay(id, v, r2, w2)>>)
     @@ ("/evidence/sources" :> <<Source(1, "alpha", q, 10000, 86400, 300),
                                  Source(n, "beta", FALSE, 10000, 86400, 300)>>)
     @@ ("/publication/mode" :> "required") @@ ("/publication/retry" :> Table)
     @@ ("/publication/target_relay_ids" :> <<"beta">>)
     @@ ("/presence/enabled" :> TRUE) @@ ("/presence/profile" :> TRUE)
     @@ ("/presence/target_relay_ids" :> <<"alpha">>) :
        u \in {Wss, Url("u2", "ws", TRUE, TRUE)}, r1, w1, r2, w2, q \in BOOLEAN,
        id \in {"alpha", "beta"}, n \in {1, 2},
        v \in {Wss, Url("u3", "wss", FALSE, TRUE), Url("u4", "wss", FALSE, FALSE),
               Url("u5", "ws", FALSE, TRUE), Url("u6", "ws", TRUE, TRUE)}}

Listeners ==
    {("/operations/enabled" :> e) @@ ("/operations/bind_policy" :> b)
     @@ ("/operations/listen" :> IF l = Absent THEN Absent ELSE
            [parses |-> l # "text", port |-> IF l = "portless" THEN 0 ELSE 9000,
             loopback |-> l = "local"])
     @@ ("/operations/limits" :> t)
     @@ ("/operations/limits/header_bytes" :> IF t = Absent THEN Absent ELSE n) :
        e \in BOOLEAN, b \in {Absent, "loopback_only", "explicit_public"},
        l \in {Absent, "text", "portless", "local", "public"}, t \in {Absent, Table},
        n \in {Absent, 8191, 8192}}

Others ==
    {("/identity/service/envelope_path" :> p)
     @@ ("/identity/service/expected_public_key" :> k)
     @@ ("/resource_limits/source_results/events" :> v)
     @@ ("/resource_limits/events/tag_count" :> g)
     @@ ("/retention/operation_dedup" :> o) :
        p \in {"canonical", "root", "dotted"}, k \in {"on_curve", "off_curve"},
        v \in {Absent, 4095, 4096}, g \in {Absent, 0, 1}, o \in {Absent, 86400, 86401}}

MCDocuments ==
    {With(c) : c \in Headers \union Reconciliations \union Deadlines \union Publications
                     \union Presences \union Relays \union Listeners \union Others}
=============================================================================
