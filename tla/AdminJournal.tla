----------------------------- MODULE AdminJournal -----------------------------
(***************************************************************************)
(* The operator's mutations: admission and dispatch (src/src/admin_v1.rs), *)
(* their handlers (runtime_admin.rs) and the operation journal that makes  *)
(* them retriable (state_admin.rs, table rhi_admin_operations).            *)
(*                                                                         *)
(* A mutation names an operation and the generation it was decided on.     *)
(* backup, refresh and render do their work outside the journal's          *)
(* transactions: check the generation, prepare, work, complete.  The       *)
(* publication retry and the presence refresh do all of it in one.  What   *)
(* the work is belongs to the other modules; here it is done or not, and   *)
(* its result has a number.  Every transaction has its own clock reading.  *)
(***************************************************************************)
EXTENDS Integers, FiniteSets

CONSTANTS
    Clients,         \* concurrent admin connections
    Ids,             \* operation identifiers
    Routes,          \* mutation routes in use
    CompletedLimit, PreparedLimit, Retention,
    LastTime,        \* the last millisecond SQLite can hold
    MaxGeneration,   \* bound: generations of a route's subject
    MaxEffects       \* bound: pieces of work done

External == {"backup", "refresh", "render"}
Database == {"retry", "presence_refresh"}
Null == -1
Times == 0 .. LastTime

(* Evidence and publication attempts move these at any time.  The others follow *)
(* the configuration, which changes only between two runs of the daemon.        *)
Moving == Routes \cap {"refresh", "retry"}

ASSUME JournalAssumption ==
    /\ IsFiniteSet(Ids) /\ Routes \subseteq External \cup Database
    /\ {CompletedLimit, PreparedLimit, Retention, MaxGeneration, MaxEffects} \subseteq Nat \ {0}
    /\ LastTime \in Nat

(* What request_digest covers.  Null stands for a body that lacks the generation *)
Request == [id : Ids, route : Routes, expected : 1 .. MaxGeneration \cup {Null}]
NoRequest == [route |-> "none"]
Row == [state : {"absent", "prepared", "completed"}, request : Request \cup {NoRequest},
        at : Times \cup {Null}, expires : Times \cup {Null},
        response : 1 .. MaxEffects \cup {Null}]
Absent == [state |-> "absent", request |-> NoRequest, at |-> Null, expires |-> Null, response |-> Null]

Handler == [pc : {"idle", "admitted", "prepare", "work", "complete"},
            request : Request \cup {NoRequest}, at : Times \cup {Null},
            response : 1 .. MaxEffects \cup {Null},
            answer : {"none", "success", "invalid_request", "operation_conflict",
                      "operation_id_conflict", "service_unavailable", "internal_error"}]
Waiting == [pc |-> "idle", request |-> NoRequest, at |-> Null, response |-> Null, answer |-> "none"]

VARIABLES
    journal,      \* rhi_admin_operations
    generation,   \* route |-> generation its subject has now
    handlers,     \* client |-> its connection's handler
    accepting,    \* accepting_mutations
    effects,      \* pieces of work done so far
    applied       \* id |-> pieces of work done under its present row

vars == <<journal, generation, handlers, accepting, effects, applied>>

Init ==
    /\ journal = [i \in Ids |-> Absent]
    /\ generation = [r \in Routes |-> 1]
    /\ handlers = [c \in Clients |-> Waiting]
    /\ accepting = TRUE
    /\ effects = 0 /\ applied = [i \in Ids |-> 0]

Answer(c, answer, response) ==
    handlers' = [handlers EXCEPT ![c] =
      [Waiting EXCEPT !.answer = answer, !.response = response]]

Goto(c, pc) == handlers' = [handlers EXCEPT ![c].pc = pc]

-----------------------------------------------------------------------------
(* admin_v1: dispatch_route and request_document, then handle_inner *)

(* A client that has its answer may send anything, the same request included *)
Send(c, request) ==
    /\ handlers[c].pc = "idle"
    /\ handlers' = [handlers EXCEPT ![c] = [Waiting EXCEPT !.pc = "admitted", !.request = request]]
    /\ UNCHANGED <<journal, generation, accepting, effects, applied>>

Refuse(c) ==
    /\ handlers[c].pc = "admitted"
    /\ \/ handlers[c].request.expected = Null /\ Answer(c, "invalid_request", Null)
       \/ /\ handlers[c].request.expected # Null /\ ~accepting
          /\ Answer(c, "service_unavailable", Null)
    /\ UNCHANGED <<journal, generation, accepting, effects, applied>>

Admissible(c) ==
    /\ handlers[c].pc = "admitted" /\ handlers[c].request.expected # Null
    /\ accepting

(* The external routes compare the generation before they ask the journal *)
CheckGeneration(c) ==
    LET request == handlers[c].request
    IN  /\ Admissible(c) /\ request.route \in External
        /\ IF request.expected = generation[request.route] THEN Goto(c, "prepare")
           ELSE Answer(c, "operation_conflict", Null)
        /\ UNCHANGED <<journal, generation, accepting, effects, applied>>

-----------------------------------------------------------------------------
(* The journal's operations *)

Expired(row, now) == row.state = "completed" /\ row.expires <= now

(* prune_expired *)
Pruned(now) == [i \in Ids |-> IF Expired(journal[i], now) THEN Absent ELSE journal[i]]
AppliedAfter(j) == [i \in Ids |-> IF j[i].state = "absent" THEN 0 ELSE applied[i]]

In(j, state) == Cardinality({i \in Ids : j[i].state = state})

HasRoom(j) ==
    /\ In(j, "completed") + In(j, "prepared") < CompletedLimit
    /\ In(j, "prepared") < PreparedLimit

(* prepare_operation after pruning: what the row of the operation says *)
ResumesPrepared(j, request) ==
    LET row == j[request.id]
    IN  IF row.state = "absent" THEN IF HasRoom(j) THEN "prepared" ELSE "service_unavailable"
        ELSE IF row.request # request THEN "operation_id_conflict"
        ELSE IF row.state = "prepared" THEN "prepared" ELSE "success"

IdAlone(j, request) ==
    LET row == j[request.id]
    IN  IF row.state = "absent" THEN IF HasRoom(j) THEN "prepared" ELSE "service_unavailable"
        ELSE IF row.state = "prepared" THEN "service_unavailable" ELSE "success"

Admission(j, request) ==
    LET row == j[request.id]
    IN  IF row.state = "absent" THEN IF HasRoom(j) THEN "prepared" ELSE "service_unavailable"
        ELSE IF row.request # request THEN "operation_id_conflict"
        ELSE IF row.state = "prepared" THEN "service_unavailable" ELSE "success"

(* complete_operation on the row of this very preparation *)
Completable(now, at) == at <= now /\ now + Retention \in Times

CompletedRow(row, now, response) ==
    [row EXCEPT !.state = "completed", !.expires = now + Retention, !.response = response]

-----------------------------------------------------------------------------
(* External mutations *)

(* prepare_admin_operation.  A refusal rolls back.  A commit whose outcome the *)
(* host cannot learn (~known) answers unavailable, although the row is there.  *)
Prepare(c, now, known) ==
    LET request == handlers[c].request
        j == Pruned(now)
        verdict == Admission(j, request)
    IN  /\ handlers[c].pc = "prepare"
        /\ CASE verdict = "prepared" ->
                  /\ journal' = [j EXCEPT ![request.id] =
                       [Absent EXCEPT !.state = "prepared", !.request = request, !.at = now]]
                  /\ IF known THEN handlers' = [handlers EXCEPT ![c].pc = "work", ![c].at = now]
                     ELSE Answer(c, "service_unavailable", Null)
                  /\ applied' = AppliedAfter(j)
             [] verdict = "success" ->
                  /\ journal' = j /\ applied' = AppliedAfter(j)
                  /\ IF known THEN Answer(c, "success", j[request.id].response)
                     ELSE Answer(c, "service_unavailable", Null)
             [] OTHER ->
                  /\ Answer(c, verdict, Null)
                  /\ UNCHANGED <<journal, applied>>
        /\ UNCHANGED <<generation, accepting, effects>>

(* capture_online_backup, schedule_trade or commit_signed_presence *)
Work(c) ==
    /\ handlers[c].pc = "work"
    /\ effects < MaxEffects
    /\ effects' = effects + 1
    /\ applied' = [applied EXCEPT ![handlers[c].request.id] = @ + 1]
    /\ handlers' = [handlers EXCEPT ![c].pc = "complete", ![c].response = effects + 1]
    /\ UNCHANGED <<journal, generation, accepting>>

(* A conflicting job, a full queue, a refused path, a failed signature: *)
(* the prepared row stays                                               *)
WorkFails(c) ==
    /\ handlers[c].pc = "work"
    /\ \E answer \in {"operation_conflict", "service_unavailable", "internal_error"} :
         Answer(c, answer, Null)
    /\ UNCHANGED <<journal, generation, accepting, effects, applied>>

(* complete_admin_operation; that the row is still the prepared one is part of *)
(* WorkIsDoneOnce, that a receipt still fits follows from JournalBounded.      *)
Complete(c, now, known) ==
    LET id == handlers[c].request.id
    IN  /\ handlers[c].pc = "complete"
        /\ IF Completable(now, handlers[c].at)
           THEN /\ journal' = [journal EXCEPT ![id] = CompletedRow(@, now, handlers[c].response)]
                /\ IF known THEN Answer(c, "success", handlers[c].response)
                   ELSE Answer(c, "service_unavailable", Null)
           ELSE Answer(c, "internal_error", Null) /\ UNCHANGED journal
        /\ UNCHANGED <<generation, accepting, effects, applied>>

-----------------------------------------------------------------------------
(* What publication_retry and presence_refresh do in the transaction.  ready: the *)
(* rows are in a state the work applies to (blocked, enabled, targets as now).    *)
Applies(request, ready) == ready /\ request.expected = generation[request.route]
GenerationAfter(route) ==
    [generation EXCEPT ![route] = IF route = "retry" THEN @ + 1 ELSE @]

(* execute_database_admin_operation: one transaction for the replay, the check, *)
(* the work and the receipt; any refusal rolls all of it back.  The work's own  *)
(* conflict shares the journal's error, and so its code.                        *)
Execute(c, now, ready, known) ==
    LET request == handlers[c].request
        j == Pruned(now)
        verdict == Admission(j, request)
    IN  /\ Admissible(c) /\ request.route \in Database
        /\ CASE now + Retention \notin Times ->
                  /\ Answer(c, "internal_error", Null)
                  /\ UNCHANGED <<journal, applied, effects, generation>>
             [] now + Retention \in Times /\ verdict = "prepared" /\ Applies(request, ready) ->
                  /\ effects < MaxEffects /\ generation[request.route] < MaxGeneration
                  /\ effects' = effects + 1
                  /\ generation' = GenerationAfter(request.route)
                  /\ journal' = [j EXCEPT ![request.id] = CompletedRow(
                       [Absent EXCEPT !.request = request, !.at = now], now, effects + 1)]
                  /\ applied' = [AppliedAfter(j) EXCEPT ![request.id] = @ + 1]
                  /\ IF known THEN Answer(c, "success", effects + 1)
                     ELSE Answer(c, "service_unavailable", Null)
             [] now + Retention \in Times /\ verdict = "success" ->
                  /\ journal' = j /\ applied' = AppliedAfter(j)
                  /\ IF known THEN Answer(c, "success", j[request.id].response)
                     ELSE Answer(c, "service_unavailable", Null)
                  /\ UNCHANGED <<effects, generation>>
             [] OTHER ->
                  /\ Answer(c, IF verdict = "prepared" THEN "operation_id_conflict" ELSE verdict, Null)
                  /\ UNCHANGED <<journal, applied, effects, generation>>
        /\ UNCHANGED <<accepting>>

(* Any of these transactions fails without committing *)
TransactionFails(c) ==
    /\ \/ handlers[c].pc \in {"prepare", "complete"}
       \/ Admissible(c) /\ handlers[c].request.route \in Database
    /\ \E answer \in {"internal_error", "service_unavailable"} : Answer(c, answer, Null)
    /\ UNCHANGED <<journal, generation, accepting, effects, applied>>

-----------------------------------------------------------------------------
(* Surroundings *)

(* Evidence arrives, or a publication attempt is recorded *)
Advance(r) ==
    /\ r \in Moving /\ generation[r] < MaxGeneration
    /\ generation' = [generation EXCEPT ![r] = @ + 1]
    /\ UNCHANGED <<journal, handlers, accepting, effects, applied>>

(* RejectNewMutations of the shutdown *)
StopAccepting ==
    /\ accepting
    /\ accepting' = FALSE
    /\ UNCHANGED <<journal, generation, handlers, effects, applied>>

(* The daemon dies and starts again, perhaps under another configuration; *)
(* only the database survives                                             *)
Crash(reconfigured) ==
    /\ handlers' = [c \in Clients |-> Waiting]
    /\ accepting' = TRUE
    /\ generation' = [r \in Routes |->
         IF reconfigured /\ r \notin Moving /\ generation[r] < MaxGeneration
         THEN generation[r] + 1 ELSE generation[r]]
    /\ UNCHANGED <<journal, effects, applied>>

Next ==
    \/ \E c \in Clients, request \in Request : Send(c, request)
    \/ \E c \in Clients : Refuse(c) \/ CheckGeneration(c) \/ Work(c) \/ WorkFails(c)
                            \/ TransactionFails(c)
    \/ \E c \in Clients, now \in Times, known \in BOOLEAN :
         \/ Prepare(c, now, known)
         \/ Complete(c, now, known)
         \/ \E ready \in BOOLEAN : Execute(c, now, ready, known)
    \/ \E r \in Routes : Advance(r)
    \/ StopAccepting
    \/ \E reconfigured \in BOOLEAN : Crash(reconfigured)

Spec == Init /\ [][Next]_vars

-----------------------------------------------------------------------------
(* Properties *)

(* Types, and the CHECK of the table: a receipt exactly when completed, never *)
(* completed before it was prepared, never past what SQLite can hold.         *)
JournalTypeOK ==
    /\ journal \in [Ids -> Row]
    /\ handlers \in [Clients -> Handler]
    /\ \A i \in Ids :
         /\ (journal[i].state = "completed") = (journal[i].response # Null)
         /\ journal[i].state = "completed" => journal[i].at + Retention <= journal[i].expires

(* Whatever is retried, by however many clients, across crashes and failures:    *)
(* the work of a retained operation is done at most once, a completed one did it, *)
(* work whose outcome is not known stays on record, and the row a handler works   *)
(* under is the one it prepared.                                                  *)
WorkIsDoneOnce ==
    /\ \A c \in Clients : handlers[c].pc \in {"work", "complete"} =>
         LET row == journal[handlers[c].request.id]
         IN  /\ row.state = "prepared" /\ row.request = handlers[c].request
             /\ row.at = handlers[c].at
             /\ applied[handlers[c].request.id] = IF handlers[c].pc = "work" THEN 0 ELSE 1
    /\ \A i \in Ids :
         /\ applied[i] <= 1
         /\ journal[i].state = "completed" => applied[i] = 1
         /\ journal[i].state = "absent" => applied[i] = 0

(* Success is answered only once receipt and work are durable, and a retry gets *)
(* the very result of the first: response_only_after_local_authoritative_commit. *)
SuccessIsOnRecord ==
    [][\A c \in Clients :
         handlers[c].answer # "success" /\ handlers'[c].answer = "success" =>
           LET row == journal'[handlers[c].request.id]
           IN  /\ row.state = "completed" /\ row.request = handlers[c].request
               /\ row.response = handlers'[c].response]_vars

(* Receipts fill the table and unresolved work its share of it, but no further; *)
(* the count is taken before the insert, in the transaction that inserts.       *)
JournalBounded ==
    /\ In(journal, "completed") + In(journal, "prepared") <= CompletedLimit
    /\ In(journal, "prepared") <= PreparedLimit

(* The journal in every state a crash can leave it in: rows that decode, its *)
(* limits, and work done once.                                               *)
JournalInv ==
    /\ JournalTypeOK
    /\ JournalBounded
    /\ WorkIsDoneOnce

(* operator_contract.v1.json, mutation_contract: "identical_operation_id_reuse": *)
(* "return_original_committed_result".  A request whose receipt is retained is   *)
(* never told that it conflicts with the present state.                          *)
ReuseReturnsOriginal ==
    [][\A c \in Clients :
         handlers[c].answer # "operation_conflict" /\ handlers'[c].answer = "operation_conflict" =>
           journal[handlers[c].request.id].request # handlers[c].request
             \/ journal[handlers[c].request.id].state # "completed"]_vars
=============================================================================
