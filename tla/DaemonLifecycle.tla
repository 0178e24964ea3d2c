--------------------------- MODULE DaemonLifecycle ----------------------------
(***************************************************************************)
(* The daemon of src/src/runtime_graph.rs: its ordered startup, the six    *)
(* supervised tasks, the select loop that turns signals, lost              *)
(* subscriptions and dead tasks into a published status or a shutdown, the *)
(* phased shutdown, and the passive status cache of status_v1.rs.          *)
(*                                                                         *)
(* The tasks and the administrators' requests run on other threads than    *)
(* the loop: each of their steps may fall between any two steps of it.     *)
(* What the tasks do to the database is the subject of the other modules;  *)
(* here a task runs, loses and regains its subscription, fails, returns    *)
(* when cancelled, or is aborted.  Every state is finite, so no counter    *)
(* needs a bound: losses, signals, requests and refreshes never run out.   *)
(***************************************************************************)
EXTENDS Naturals, Sequences

CONSTANTS
    Tasks,               \* the tasks spawned (operations_server when it is enabled)
    Requests,            \* connections the admin server serves at once
    Signals              \* kinds of stop signal (one of each kind can be waiting)

(* task_metadata: who is critical, and the phase that cancels each *)
Phases == <<"CancelIngress", "DrainOperations", "PersistRecoverableWork", "CloseSockets">>
CancelledIn ==
    [source_subscription   |-> "CancelIngress",
     reconciliation_worker |-> "DrainOperations",
     publication_worker    |-> "PersistRecoverableWork",
     presence_worker       |-> "PersistRecoverableWork",
     admin_server          |-> "CloseSockets",
     operations_server     |-> "CloseSockets"]
Critical == Tasks \ {"operations_server"}

ASSUME DaemonAssumption ==
    /\ Tasks \subseteq DOMAIN CancelledIn
    /\ {"source_subscription", "admin_server"} \subseteq Tasks
    /\ Requests # {} /\ Signals # {}

(* The steps of run_rhi_daemon_inner before its loop, with the errors each can return. *)
Step(name, errors) == [name |-> name, errors |-> errors]
Startup == <<
    Step("build_rhi_nostr_adapters", {"Transport"}),
    Step("open_rhi_runtime_foundation", {"State", "Identity"}),
    Step("from_config", {"Runtime"}),
    Step("initialize_presence", {"State"}),
    Step("open_initial_subscription", {"Transport"}),
    Step("refresh_state", {"State"}),
    Step("rhi_status_cache", {"Runtime"}),
    Step("bind_admin", {"Admin"}),
    Step("bind_operations", IF "operations_server" \in Tasks THEN {"Operations"} ELSE {}),
    Step("spawn", {"Runtime"}) >>
StartPoints == {Startup[i].name : i \in DOMAIN Startup}

(* RhiDaemonError::process_result *)
ProcessResult(error) ==
    CASE error \in {"State", "Identity"} -> "StateOrIdentityUnavailable"
      [] error \in {"Transport", "Admin", "Operations"} -> "ServiceOrDependencyUnavailable"
      [] error = "Runtime" -> "UnexpectedInternal"

TaskStates == {"absent", "running", "returned", "failed", "joined", "aborted"}
RequestStates == {"idle", "working", "cut"}
Status == [phase : {"Starting", "Ready", "Degraded", "Stopping"}, ready : BOOLEAN]
Nothing == [phase |-> "None", ready |-> FALSE]
Points == StartPoints \cup {"announce", "loop", "shutdown", "drain", "close", "exited"}

VARIABLES
    at,          \* where the main task is
    status,      \* [operations, detail: the two caches, writing: what publish has yet to put in detail]
    ready,       \* the handler's flags: [transport, operations]
    health,      \* the watch channel: [value, unseen]
    subscribed,  \* whether the source task's subscription is live
    task,        \* task -> its state, as the supervisor sees it
    phase,       \* shutdown phases entered (an index of Phases; 0 before)
    accepting,   \* the accepting_mutations flag
    request,     \* admin connection -> what its mutation is doing
    signals,     \* kinds delivered and not yet received (a kind is delivered once)
    stopping,    \* why the loop ended: "no", "signal", "failure"
    summary,     \* the disposition the graceful shutdown reports
    database,    \* "absent", "open", "closed" (explicitly), "dropped" (by an early return)
    result       \* the process result ("none" while it runs)

daemonVars == <<at, status, ready, health, subscribed, task, phase, accepting, request,
                signals, stopping, summary, database, result>>
loopVars == <<ready, phase, accepting, stopping, summary, database, result>>
workVars == <<subscribed, health, task, request>>

Init ==
    /\ at = Startup[1].name
    /\ status = [operations |-> Nothing, detail |-> Nothing, writing |-> Nothing]
    /\ ready = [transport |-> TRUE, operations |-> TRUE]
    /\ health = [value |-> TRUE, unseen |-> FALSE]
    /\ subscribed = FALSE
    /\ task = [t \in Tasks |-> "absent"]
    /\ phase = 0
    /\ accepting = FALSE
    /\ request = [r \in Requests |-> "idle"]
    /\ signals = {}
    /\ stopping = "no" /\ summary = "none" /\ database = "absent" /\ result = "none"

-----------------------------------------------------------------------------
(* The status cache. *)

(* observation: what the handler's flags say at this phase *)
Observation(ph, transport) ==
    [phase |-> ph, ready |-> ph \in {"Ready", "Degraded"} /\ transport]

(* running_phase *)
RunningPhase(flags) == IF flags.transport /\ flags.operations THEN "Ready" ELSE "Degraded"

(* into_cached, with the lifecycle rule of the host library: a status that claims more *)
(* than the transport supports is refused                                              *)
Publishable(s, transport) ==
    /\ s.ready => transport /\ s.phase \in {"Ready", "Degraded"}
    /\ s.phase = "Ready" => transport

(* An early return drops the foundation: its tasks are aborted, nothing is closed. *)
Return(error, tasks) ==
    /\ at' = "exited"
    /\ result' = ProcessResult(error)
    /\ database' = IF database = "open" THEN "dropped" ELSE database
    /\ task' = [t \in Tasks |-> IF tasks[t] = "running" THEN "aborted" ELSE tasks[t]]
    /\ request' = [r \in Requests |-> IF request[r] = "working" THEN "cut" ELSE request[r]]

(* RhiStatusPublisher::publish: the operations projection first, the detail second *)
Publish(flags, ph, next, tasks) ==
    LET s == Observation(ph, flags.transport)
    IN  IF Publishable(s, flags.transport)
        THEN /\ status' = [status EXCEPT !.operations = s, !.writing = s]
             /\ at' = next
             /\ task' = tasks
             /\ UNCHANGED <<result, database, request>>
        ELSE /\ Return("Runtime", tasks)
             /\ UNCHANGED status

PublishDetail ==
    /\ status.writing # Nothing
    /\ status' = [status EXCEPT !.detail = status.writing, !.writing = Nothing]
    /\ UNCHANGED <<at, signals>> /\ UNCHANGED loopVars /\ UNCHANGED workVars

(* The main task runs one statement at a time: no other before publish has returned. *)
MainAt(point) == at = point /\ status.writing = Nothing

-----------------------------------------------------------------------------
(* Startup. *)

StartStep(i) ==
    /\ at = Startup[i].name
    /\ at' = IF i = Len(Startup) THEN "announce" ELSE Startup[i + 1].name
    /\ database' = IF at = "open_rhi_runtime_foundation" THEN "open" ELSE database
    /\ subscribed' = (subscribed \/ at = "open_initial_subscription")
    /\ status' = IF at = "rhi_status_cache"
                 THEN LET s == Observation("Starting", TRUE)
                      IN  [status EXCEPT !.operations = s, !.detail = s]
                 ELSE status
    /\ accepting' = (accepting \/ at = "bind_admin")
    /\ task' = [t \in Tasks |-> IF at = "spawn" THEN "running" ELSE task[t]]
    /\ UNCHANGED <<ready, health, phase, request, signals, stopping, summary, result>>

StartFails(i) ==
    /\ at = Startup[i].name
    /\ \E error \in Startup[i].errors : Return(error, task)
    /\ UNCHANGED <<status, ready, health, subscribed, phase, accepting, signals, stopping, summary>>

(* The tasks already run: what they report meanwhile waits in the channel. *)
Announce ==
    /\ MainAt("announce")
    /\ Publish(ready, "Ready", "loop", task)
    /\ UNCHANGED <<ready, health, subscribed, phase, accepting, signals, stopping, summary>>

-----------------------------------------------------------------------------
(* The tasks and the requests. *)

Running(t) == task[t] = "running"
Cancelled(t) == \E i \in 1 .. phase : Phases[i] = CancelledIn[t]

(* run_source_subscription: the relay ends or breaks the subscription ... *)
SubscriptionLost ==
    /\ Running("source_subscription") /\ subscribed
    /\ subscribed' = FALSE
    /\ health' = [value |-> FALSE, unseen |-> TRUE]
    /\ UNCHANGED <<at, status, task, request, signals>> /\ UNCHANGED loopVars

\* Fault: the recovery is not sent.
ResubscribeSilently ==
    /\ Running("source_subscription") /\ ~subscribed
    /\ subscribed' = TRUE
    /\ UNCHANGED <<at, status, health, task, request, signals>> /\ UNCHANGED loopVars

(* ... and after the idle time it is opened again.  subscribe_sources runs to its end *)
(* even when the task has been cancelled since.                                       *)
Resubscribe ==
    /\ Running("source_subscription") /\ ~subscribed
    /\ subscribed' = TRUE
    /\ health' = [value |-> TRUE, unseen |-> TRUE]
    /\ UNCHANGED <<at, status, task, request, signals>> /\ UNCHANGED loopVars

(* A failed ingest, claim, lease or accept ends the task that made it; the sender of *)
(* the health channel goes with its task.                                            *)
TaskFails(t) ==
    /\ Running(t)
    /\ task' = [task EXCEPT ![t] = "failed"]
    /\ request' = [r \in Requests |-> IF t = "admin_server" /\ request[r] = "working"
                                      THEN "cut" ELSE request[r]]
    /\ UNCHANGED <<at, status, health, subscribed, signals>> /\ UNCHANGED loopVars

(* A cancelled task returns at its next cancellation point; the admin server first *)
(* awaits the connections it serves.                                               *)
TaskReturns(t) ==
    /\ Running(t) /\ Cancelled(t)
    /\ t = "admin_server" => \A r \in Requests : request[r] # "working"
    /\ task' = [task EXCEPT ![t] = "returned"]
    /\ UNCHANGED <<at, status, health, subscribed, request, signals>> /\ UNCHANGED loopVars

(* handle_inner: a mutation is refused, or starts and runs to its end *)
MutationStarts(r) ==
    /\ Running("admin_server") /\ ~Cancelled("admin_server")
    /\ request[r] = "idle" /\ accepting
    /\ request' = [request EXCEPT ![r] = "working"]
    /\ UNCHANGED <<at, status, health, subscribed, task, signals>> /\ UNCHANGED loopVars

MutationEnds(r) ==
    /\ Running("admin_server")
    /\ request[r] = "working"
    /\ request' = [request EXCEPT ![r] = "idle"]
    /\ UNCHANGED <<at, status, health, subscribed, task, signals>> /\ UNCHANGED loopVars

(* A signal of a kind not yet received merges with the one that is waiting. *)
SignalArrives(kind) ==
    /\ at # "exited"
    /\ kind \notin signals
    /\ signals' = signals \cup {kind}
    /\ UNCHANGED <<at, status>> /\ UNCHANGED loopVars /\ UNCHANGED workVars

-----------------------------------------------------------------------------
(* The select loop: any branch that is ready may be taken. *)

Break(why) ==
    /\ stopping' = why
    /\ at' = "shutdown"

(* ProcessSignalAdapter: the first signal asks for a graceful stop *)
OnSignal ==
    /\ MainAt("loop")
    /\ \E kind \in signals : signals' = signals \ {kind}
    /\ Break("signal")
    /\ UNCHANGED <<status, ready, phase, accepting, summary, database, result>>
    /\ UNCHANGED workVars

\* Fault: waits for a ready value instead of any change.
OnHealthRecovered ==
    /\ MainAt("loop")
    /\ health.unseen /\ health.value
    /\ health' = [health EXCEPT !.unseen = FALSE]
    /\ ready' = [ready EXCEPT !.transport = health.value]
    /\ Publish(ready', RunningPhase(ready'), "loop", task)
    /\ UNCHANGED <<subscribed, phase, accepting, signals, stopping, summary>>

(* The watch keeps only the last value; a change is seen once, whatever happened between. *)
OnHealth ==
    /\ MainAt("loop")
    /\ health.unseen
    /\ health' = [health EXCEPT !.unseen = FALSE]
    /\ ready' = [ready EXCEPT !.transport = health.value]
    /\ Publish(ready', RunningPhase(ready'), "loop", task)
    /\ UNCHANGED <<subscribed, phase, accepting, signals, stopping, summary>>

(* ... and its sender is gone once the source task has ended. *)
OnHealthClosed ==
    /\ MainAt("loop")
    /\ ~health.unseen /\ ~Running("source_subscription")
    /\ Break("failure")
    /\ UNCHANGED <<status, ready, phase, accepting, summary, database, result, signals>>
    /\ UNCHANGED workVars

\* Fault: treats every exit as an optional one.
OnAnyExitDegrades(t) ==
    /\ MainAt("loop")
    /\ task[t] \in {"failed", "returned"}
    /\ ready' = [ready EXCEPT !.operations = FALSE]
    /\ Publish(ready', RunningPhase(ready'), "loop", [task EXCEPT ![t] = "joined"])
    /\ UNCHANGED <<health, subscribed, phase, accepting, signals, stopping, summary>>

(* join_next: losing the optional operations server only degrades the daemon *)
OnExit(t) ==
    /\ MainAt("loop")
    /\ task[t] \in {"failed", "returned"}
    /\ IF t = "operations_server"
       THEN /\ ready' = [ready EXCEPT !.operations = FALSE]
            /\ Publish(ready', RunningPhase(ready'), "loop", [task EXCEPT ![t] = "joined"])
            /\ UNCHANGED stopping
       ELSE /\ Break("failure")
            /\ task' = [task EXCEPT ![t] = "joined"]
            /\ UNCHANGED <<ready, status, request, database, result>>
    /\ UNCHANGED <<health, subscribed, phase, accepting, signals, summary>>

(* status_refresh: the counts are read again and the running phase republished *)
OnTick ==
    /\ MainAt("loop")
    /\ Publish(ready, RunningPhase(ready), "loop", task)
    /\ UNCHANGED <<ready, health, subscribed, phase, accepting, signals, stopping, summary>>

OnTickFails ==
    /\ MainAt("loop")
    /\ Return("State", task)
    /\ UNCHANGED <<status, ready, health, subscribed, phase, accepting, signals, stopping, summary>>

-----------------------------------------------------------------------------
(* The shutdown: GracefulShutdown (host library) drives the phases, the handler's *)
(* enter answers the first of them.                                              *)

RejectNewMutations ==
    /\ MainAt("shutdown") /\ accepting
    /\ accepting' = FALSE
    /\ UNCHANGED <<at, status, ready, phase, stopping, summary, database, result, signals>>
    /\ UNCHANGED workVars

\* Fault: says Stopping before it refuses mutations.
PublishStoppingFirst ==
    /\ MainAt("shutdown")
    /\ Publish(ready, "Stopping", "drain", task)
    /\ UNCHANGED <<ready, health, subscribed, phase, accepting, signals, stopping, summary>>

PublishStopping ==
    /\ MainAt("shutdown") /\ ~accepting
    /\ Publish(ready, "Stopping", "drain", task)
    /\ UNCHANGED <<ready, health, subscribed, phase, accepting, signals, stopping, summary>>

Over(t) == task[t] # "running"
PhaseDone == phase > 0 => \A t \in Tasks : CancelledIn[t] = Phases[phase] => Over(t)

EnterPhase ==
    /\ MainAt("drain") /\ PhaseDone /\ phase < Len(Phases)
    /\ phase' = phase + 1
    /\ UNCHANGED <<at, status, ready, accepting, stopping, summary, database, result, signals>>
    /\ UNCHANGED workVars

(* A critical task that failed meanwhile leaves no Completed summary. *)
Drained ==
    /\ MainAt("drain") /\ PhaseDone /\ phase = Len(Phases)
    /\ summary' \in IF \E t \in Critical : task[t] = "failed"
                    THEN {"Failed", "Error"} ELSE {"Completed"}
    /\ at' = "close"
    /\ UNCHANGED <<status, ready, phase, accepting, stopping, database, result, signals>>
    /\ UNCHANGED workVars

(* The grace period ends, or a second signal comes while a signalled shutdown drains: *)
(* what still runs is aborted.                                                        *)
ForcedEnd(sgs) ==
    /\ MainAt("drain") /\ \E t \in Tasks : Running(t)
    /\ signals' = sgs
    /\ task' = [t \in Tasks |-> IF Running(t) THEN "aborted" ELSE task[t]]
    /\ request' = [r \in Requests |-> IF request[r] = "working" THEN "cut" ELSE request[r]]
    /\ summary' = "Forced"
    /\ at' = "close"
    /\ UNCHANGED <<status, ready, health, subscribed, phase, accepting, stopping, database, result>>

GraceExpires == ForcedEnd(signals)
SecondSignal == stopping = "signal" /\ \E kind \in signals : ForcedEnd(signals \ {kind})

(* Arc::try_unwrap: the tasks, each holding the state until it is over, and the main *)
(* task until it drops its own                                                      *)
Holders == {t \in Tasks : Running(t)}

\* Fault: a signalled shutdown is a success however it ended.
CloseWithoutDisposition ==
    /\ MainAt("close")
    /\ at' = "exited"
    /\ database' = "closed"
    /\ result' = IF stopping = "signal" THEN "Success" ELSE ProcessResult("Runtime")
    /\ UNCHANGED <<task, request>>
    /\ UNCHANGED <<status, ready, health, subscribed, phase, accepting, signals, stopping, summary>>

(* foundation.shutdown and the result.  A shutdown that answered an error returns before it. *)
Close ==
    /\ MainAt("close")
    /\ IF summary = "Error"
       THEN Return("Runtime", task)
       ELSE /\ at' = "exited"
            /\ database' \in IF Holders = {} THEN {"closed", "failed"} ELSE {"failed"}
            /\ result' = IF database' = "failed" THEN ProcessResult("State")
                         ELSE IF stopping = "signal" /\ summary = "Completed" THEN "Success"
                         ELSE ProcessResult("Runtime")
            /\ UNCHANGED <<task, request>>
    /\ UNCHANGED <<status, ready, health, subscribed, phase, accepting, signals, stopping, summary>>

-----------------------------------------------------------------------------
Start == \E i \in DOMAIN Startup : StartStep(i) \/ StartFails(i)
(* Everything the main task does outside the select of its loop. *)
Proceeds ==
    \/ Start \/ Announce \/ PublishDetail
    \/ RejectNewMutations \/ PublishStopping \/ EnterPhase \/ Drained
    \/ GraceExpires \/ Close
Joins == \E t \in Tasks : OnExit(t)
Main ==
    \/ Proceeds \/ Joins \/ SecondSignal
    \/ OnSignal \/ OnHealth \/ OnHealthClosed \/ OnTick \/ OnTickFails
Work ==
    \/ SubscriptionLost \/ Resubscribe
    \/ \E t \in Tasks : TaskFails(t) \/ TaskReturns(t)
    \/ \E r \in Requests : MutationStarts(r) \/ MutationEnds(r)
Next == Main \/ Work \/ \E kind \in Signals : SignalArrives(kind)

(* Every await of the startup and of the shutdown has a deadline, and the unbiased select *)
(* takes a branch that is ready again and again.  Nothing is assumed of the relays, the   *)
(* tasks or the administrators.                                                           *)
Fairness ==
    /\ WF_daemonVars(Proceeds)
    /\ SF_daemonVars(OnSignal) /\ SF_daemonVars(OnHealth) /\ SF_daemonVars(Joins)

Spec == Init /\ [][Next]_daemonVars /\ Fairness

-----------------------------------------------------------------------------
(* The variables keep their types; the phases a shutdown has entered exist. *)
DaemonTypeOK ==
    /\ at \in Points
    /\ LET Cached == Status \cup {Nothing}
       IN  status \in [operations : Cached, detail : Cached, writing : Cached]
    /\ ready \in [transport : BOOLEAN, operations : BOOLEAN]
    /\ health \in [value : BOOLEAN, unseen : BOOLEAN]
    /\ task \in [Tasks -> TaskStates] /\ request \in [Requests -> RequestStates]
    /\ phase \in 0 .. Len(Phases) /\ signals \subseteq Signals
    /\ subscribed \in BOOLEAN /\ accepting \in BOOLEAN
    /\ stopping \in {"no", "signal", "failure"}
    /\ summary \in {"none", "Completed", "Failed", "Forced", "Error"}
    /\ database \in {"absent", "open", "closed", "failed", "dropped"}

(* When the select loop has taken the last change of the health channel and no publication *)
(* is half done, both caches say ready exactly when the source task has a subscription:    *)
(* no loss or recovery is forgotten, whether it came before the loop, while another branch *)
(* published, or merged with its opposite in the channel.                                  *)
ReadinessIsCurrent ==
    MainAt("loop") /\ ~health.unseen /\ Running("source_subscription") =>
        /\ status.detail.ready = subscribed
        /\ status.operations = status.detail

(* Exit code 0 is kept for a completed graceful shutdown that a signal asked for: every    *)
(* task came back by itself, no mutation an administrator was told nothing of was cut      *)
(* short, and the database was closed explicitly.                                          *)
CleanExit ==
    result = "Success" =>
        /\ stopping = "signal"
        /\ database = "closed"
        /\ \A t \in Tasks : task[t] # "aborted"
        /\ \A r \in Requests : request[r] = "idle"

(* Types, and what an exit code may claim.                                                 *)
DaemonInv == DaemonTypeOK /\ CleanExit

(* From the moment a reader of either cache can see Stopping, no mutation starts: the flag *)
(* falls before the status says so.                                                        *)
StoppingRefusesMutations ==
    [][\A r \in Requests :
          request[r] = "idle" /\ request'[r] = "working" =>
              "Stopping" \notin {status.operations.phase, status.detail.phase}]_daemonVars

(* A lost subscription is eventually reported as not ready, and a recovered one as ready,  *)
(* unless it changes again first or the daemon stops - however often ticks and other       *)
(* branches win the select.                                                                *)
ReadinessFollows ==
    /\ (at = "loop" /\ ~subscribed) ~> (~status.detail.ready \/ subscribed \/ at = "exited")
    /\ (at = "loop" /\ subscribed) ~> (status.detail.ready \/ ~subscribed \/ at # "loop")

(* A signal, at whatever point of the startup, the loop or another shutdown it arrives,    *)
(* and the end of a critical task both lead to the end of the process, even if no task     *)
(* answers its cancellation and no second signal comes.                                    *)
StopsWhenTold ==
    (signals # {} \/ \E t \in Critical : task[t] \in {"failed", "joined"}) ~> (at = "exited")
=============================================================================
