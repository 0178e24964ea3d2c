------------------------ MODULE DaemonLifecycleProofs ------------------------
(***************************************************************************)
(* What the daemon says of itself, proved for every set of tasks that has  *)
(* the source subscription and the admin server, every number of           *)
(* connections and every set of signals: exit code 0 is kept for a clean   *)
(* stop (DaemonInv), the published readiness is the subscription's own     *)
(* once the loop has taken the last change (ReadinessIsCurrent), and no    *)
(* mutation starts once a reader can see Stopping                          *)
(* (StoppingRefusesMutations).                                             *)
(*                                                                         *)
(* None of the three is inductive.  The readiness needs the two hops a     *)
(* change makes (task to channel, channel to flags) and the half-written   *)
(* publication as invariants of their own; the exit code needs what every  *)
(* phase of the shutdown has already brought to an end, and where the      *)
(* evidence of a mutation cut short survives until the result is chosen.   *)
(***************************************************************************)
EXTENDS DaemonLifecycle, TLAPS

(* The start points behind open_initial_subscription. *)
AfterSubscription ==
    {"refresh_state", "rhi_status_cache", "bind_admin", "bind_operations", "spawn"}

(* Before the tasks are spawned nothing has been reported, announced or cancelled, and the *)
(* first subscription is open before anything is served.                                   *)
Starting ==
    /\ at \in StartPoints =>
          /\ phase = 0
          /\ \A t \in Tasks : task[t] = "absent"
          /\ health.value /\ ready.transport
          /\ status.writing = Nothing
    /\ at \in AfterSubscription => subscribed

(* The first hop of a change: the source task has sent what its subscription is. *)
HealthIsSent == Running("source_subscription") => health.value = subscribed

(* The second hop: what the loop has seen of the channel is in the handler's flags. *)
HealthIsTaken == ~health.unseen => ready.transport = health.value

(* The third: what the flags say is in both caches, or in one and on its way to the other. *)
CachesFollow ==
    at = "loop" =>
        /\ status.writing # Nothing =>
              status.operations = status.writing /\ status.writing.ready = ready.transport
        /\ status.writing = Nothing =>
              status.operations = status.detail /\ status.detail.ready = ready.transport

(* While a mutation could still be accepted, or will be, nothing says Stopping. *)
StoppingIsSaidLast ==
    accepting \/ at \in StartPoints =>
        /\ status.operations.phase # "Stopping"
        /\ status.detail.phase # "Stopping"
        /\ status.writing.phase # "Stopping"

(* What the shutdown has behind it: nothing is aborted or summed up before the phases are  *)
(* over, the reason to stop is given by the loop, every phase left behind has its tasks    *)
(* over, and a Completed summary means that every task came back by itself.                *)
Undecided ==
    /\ at \notin {"close", "exited"} => summary = "none" /\ \A t \in Tasks : task[t] # "aborted"
    /\ at \in StartPoints \cup {"announce", "loop"} => stopping = "no"
EarlierPhasesAreOver ==
    \A t \in Tasks, i \in 1 .. 4 : i < phase /\ CancelledIn[t] = Phases[i] => Over(t)
CompletedIsClean ==
    summary = "Completed" =>
        \A t \in Tasks : /\ task[t] \notin {"running", "aborted"}
                         /\ t \in Critical => task[t] # "failed"

(* A mutation works only under a running admin server, and one that was cut short leaves a *)
(* trace that rules out the exit code 0.                                                   *)
WorkIsTraced ==
    \A r \in Requests :
        /\ request[r] = "working" => Running("admin_server")
        /\ request[r] = "cut" => \/ task["admin_server"] = "failed"
                                 \/ stopping = "failure"
                                 \/ summary = "Forced"
                                 \/ at = "exited" /\ result # "Success"

(* The exit code 0 is given once, at the exit. *)
SuccessIsEarned ==
    /\ at # "exited" => result # "Success"
    /\ result = "Success" => stopping = "signal" /\ database = "closed" /\ summary = "Completed"

DaemonIInv ==
    /\ DaemonTypeOK /\ Starting /\ HealthIsSent /\ HealthIsTaken /\ CachesFollow
    /\ StoppingIsSaidLast /\ Undecided /\ EarlierPhasesAreOver /\ CompletedIsClean
    /\ WorkIsTraced /\ SuccessIsEarned

-----------------------------------------------------------------------------
(* The tables of the module. *)

Errors == {"State", "Identity", "Transport", "Admin", "Operations", "Runtime"}

(* The names of the startup steps, in their order. *)
LEMMA StartupNames ==
    /\ Len(Startup) = 10 /\ DOMAIN Startup = 1 .. 10
    /\ Startup[1].name = "build_rhi_nostr_adapters"
    /\ Startup[2].name = "open_rhi_runtime_foundation"
    /\ Startup[3].name = "from_config"
    /\ Startup[4].name = "initialize_presence"
    /\ Startup[5].name = "open_initial_subscription"
    /\ Startup[6].name = "refresh_state"
    /\ Startup[7].name = "rhi_status_cache"
    /\ Startup[8].name = "bind_admin"
    /\ Startup[9].name = "bind_operations"
    /\ Startup[10].name = "spawn"
BY DEF Startup, Step

(* The start points are the ten names and none of the later points. *)
LEMMA StartPointNames ==
    /\ StartPoints = {"build_rhi_nostr_adapters", "open_rhi_runtime_foundation", "from_config",
                      "initialize_presence", "open_initial_subscription", "refresh_state",
                      "rhi_status_cache", "bind_admin", "bind_operations", "spawn"}
    /\ \A p \in {"announce", "loop", "shutdown", "drain", "close", "exited"} : p \notin StartPoints
<1>1. ASSUME NEW i \in 1 .. 10
      PROVE  Startup[i].name \in
                {"build_rhi_nostr_adapters", "open_rhi_runtime_foundation", "from_config",
                 "initialize_presence", "open_initial_subscription", "refresh_state",
                 "rhi_status_cache", "bind_admin", "bind_operations", "spawn"}
  <2>1. i \in {1, 2, 3, 4, 5, 6, 7, 8, 9, 10}
    OBVIOUS
  <2> QED BY <2>1, StartupNames
<1>2. StartPoints = {Startup[i].name : i \in 1 .. 10}
  BY StartupNames DEF StartPoints
<1>3. {Startup[i].name : i \in 1 .. 10} =
            {"build_rhi_nostr_adapters", "open_rhi_runtime_foundation", "from_config",
             "initialize_presence", "open_initial_subscription", "refresh_state",
             "rhi_status_cache", "bind_admin", "bind_operations", "spawn"}
  <2>1. {1, 2, 3, 4, 5, 6, 7, 8, 9, 10} \subseteq 1 .. 10
    OBVIOUS
  <2> QED BY <1>1, <2>1, StartupNames
<1> QED BY <1>2, <1>3

(* Every error of the startup has a process result, and none is a success. *)
LEMMA StartupErrors ==
    /\ \A i \in 1 .. 10 : Startup[i].errors \subseteq Errors
    /\ \A e \in Errors : ProcessResult(e) # "Success"
<1>1. ASSUME NEW i \in 1 .. 10
      PROVE  Startup[i].errors \subseteq Errors
  <2>1. CASE i = 1 BY <2>1 DEF Startup, Step, Errors
  <2>2. CASE i = 2 BY <2>2 DEF Startup, Step, Errors
  <2>3. CASE i = 3 BY <2>3 DEF Startup, Step, Errors
  <2>4. CASE i = 4 BY <2>4 DEF Startup, Step, Errors
  <2>5. CASE i = 5 BY <2>5 DEF Startup, Step, Errors
  <2>6. CASE i = 6 BY <2>6 DEF Startup, Step, Errors
  <2>7. CASE i = 7 BY <2>7 DEF Startup, Step, Errors
  <2>8. CASE i = 8 BY <2>8 DEF Startup, Step, Errors
  <2>9. CASE i = 9 BY <2>9 DEF Startup, Step, Errors
  <2>10. CASE i = 10 BY <2>10 DEF Startup, Step, Errors
  <2> QED BY <2>1, <2>2, <2>3, <2>4, <2>5, <2>6, <2>7, <2>8, <2>9, <2>10
<1>2. \A e \in Errors : ProcessResult(e) # "Success"
  BY DEF ProcessResult, Errors
<1> QED BY <1>1, <1>2

(* What a step of the startup leads to. *)
LEMMA StartupOrder ==
    ASSUME NEW i \in 1 .. 10, NEW here, NEW there,
           here = Startup[i].name,
           there = IF i = Len(Startup) THEN "announce" ELSE Startup[i + 1].name
    PROVE  /\ here \in StartPoints
           /\ there \in StartPoints \cup {"announce"}
           /\ there = "announce" <=> here = "spawn"
           /\ there \in AfterSubscription =>
                 here \in AfterSubscription \cup {"open_initial_subscription"}
<1>1. i \in {1, 2, 3, 4, 5, 6, 7, 8, 9, 10}
  OBVIOUS
<1>2. here \in StartPoints /\ there \in StartPoints \cup {"announce"}
  BY <1>1, StartupNames, StartPointNames
<1>3. there = "announce" <=> here = "spawn"
  BY <1>1, StartupNames
<1>4. there \in AfterSubscription => here \in AfterSubscription \cup {"open_initial_subscription"}
  BY <1>1, StartupNames DEF AfterSubscription
<1> QED BY <1>2, <1>3, <1>4

(* Every task is cancelled in one of the four phases. *)
LEMMA EveryTaskHasAPhase ==
    /\ Len(Phases) = 4
    /\ \A t \in Tasks : \E i \in 1 .. 4 : CancelledIn[t] = Phases[i]
    /\ "source_subscription" \in Tasks /\ "admin_server" \in Tasks
    /\ "admin_server" \in Critical
BY DaemonAssumption DEF CancelledIn, Phases, Critical

-----------------------------------------------------------------------------
(* The two ways a statement of the main task can go: the early return and the publication. *)

Flags == [transport : BOOLEAN, operations : BOOLEAN]
Cached == Status \cup {Nothing}

(* What an early return leaves: no task runs, no mutation works, no success is claimed. *)
Exits ==
    /\ at' = "exited" /\ result' # "Success"
    /\ database' \in {"absent", "open", "closed", "failed", "dropped"}
    /\ task' \in [Tasks -> TaskStates] /\ \A t \in Tasks : task'[t] # "running"
    /\ request' \in [Requests -> RequestStates] /\ \A r \in Requests : request'[r] # "working"

(* What a publication leaves: the operations cache written, the detail yet to come. *)
Publishes(s, next) ==
    /\ at' = next
    /\ s \in Status
    /\ status' \in [operations : Cached, detail : Cached, writing : Cached]
    /\ status'.operations = s /\ status'.writing = s /\ status'.detail = status.detail
    /\ UNCHANGED <<result, database, request>>

(* Return is such an exit. *)
LEMMA ReturnExits ==
    ASSUME DaemonTypeOK, NEW error \in Errors, NEW tasks \in [Tasks -> TaskStates],
           Return(error, tasks)
    PROVE  Exits
<1>1. at' = "exited" /\ result' # "Success"
  BY StartupErrors DEF Return
<1>2. database' \in {"absent", "open", "closed", "failed", "dropped"}
  BY DEF Return, DaemonTypeOK
<1>3. task' \in [Tasks -> TaskStates] /\ \A t \in Tasks : task'[t] # "running"
  BY DEF Return, TaskStates
<1>4. request' \in [Requests -> RequestStates] /\ \A r \in Requests : request'[r] # "working"
  BY DEF Return, RequestStates, DaemonTypeOK
<1> QED BY <1>1, <1>2, <1>3, <1>4 DEF Exits

(* Publish is such a publication, of the new flags at this phase, or such an exit. *)
LEMMA PublishOrExit ==
    ASSUME DaemonTypeOK, NEW flags \in Flags, flags = ready',
           NEW ph \in {"Starting", "Ready", "Degraded", "Stopping"},
           NEW next, NEW tasks \in [Tasks -> TaskStates],
           Publish(flags, ph, next, tasks)
    PROVE  \/ Publishes(Observation(ph, flags.transport), next) /\ task' = tasks
           \/ Exits /\ UNCHANGED status
<1> DEFINE s == Observation(ph, flags.transport)
<1>1. CASE Publishable(s, flags.transport)
  <2>1. /\ status' = [status EXCEPT !.operations = s, !.writing = s]
        /\ at' = next /\ task' = tasks /\ UNCHANGED <<result, database, request>>
    BY <1>1 DEF Publish
  <2>2. s \in Status
    BY DEF Observation, Status, Flags
  <2>3. status \in [operations : Cached, detail : Cached, writing : Cached]
    BY DEF DaemonTypeOK, Cached
  <2>4. s \in Cached
    BY <2>2 DEF Cached
  <2> HIDE DEF s
  <2>5. /\ status' \in [operations : Cached, detail : Cached, writing : Cached]
        /\ status'.operations = s /\ status'.writing = s /\ status'.detail = status.detail
    BY <2>1, <2>3, <2>4
  <2>6. Publishes(s, next)
    BY <2>1, <2>2, <2>5 DEF Publishes
  <2> QED BY <2>1, <2>6 DEF s
<1>2. CASE ~Publishable(s, flags.transport)
  <2>1. Return("Runtime", tasks) /\ UNCHANGED status
    BY <1>2 DEF Publish
  <2> QED BY <2>1, ReturnExits DEF Errors
<1> QED BY <1>1, <1>2

(* The running phase is one that keeps the transport's word. *)
LEMMA RunningPhases ==
    ASSUME NEW flags \in Flags
    PROVE  /\ RunningPhase(flags) \in {"Ready", "Degraded"}
           /\ Observation(RunningPhase(flags), flags.transport).ready = flags.transport
           /\ Observation(RunningPhase(flags), flags.transport).phase # "Stopping"
           /\ Observation("Ready", flags.transport).ready = flags.transport
           /\ Observation("Ready", flags.transport).phase # "Stopping"
BY DEF RunningPhase, Observation, Flags

(* Nothing is no status. *)
LEMMA NothingIsNoStatus == Nothing \notin Status /\ Nothing.phase # "Stopping"
BY DEF Nothing, Status

-----------------------------------------------------------------------------
(* The exit preserves the invariant: from everywhere but a completed shutdown. *)
LEMMA ExitKeeps ==
    ASSUME DaemonIInv, Exits, summary # "Completed",
           UNCHANGED <<status, subscribed, phase, accepting, stopping, summary, signals>>,
           ready' \in Flags, health' \in [value : BOOLEAN, unseen : BOOLEAN],
           HealthIsTaken'
    PROVE  DaemonIInv'
<1>1. DaemonTypeOK'
  BY DEF DaemonIInv, DaemonTypeOK, Exits, Flags, Points
<1>2. "exited" \notin StartPoints /\ "exited" \notin AfterSubscription
  BY StartPointNames DEF AfterSubscription
<1>3. Starting' /\ CachesFollow' /\ Undecided'
  BY <1>2 DEF Exits, Starting, CachesFollow, Undecided
<1>4. HealthIsSent' /\ EarlierPhasesAreOver'
  BY EveryTaskHasAPhase DEF Exits, HealthIsSent, EarlierPhasesAreOver, Running, Over
<1>5. StoppingIsSaidLast'
  BY <1>2 DEF Exits, StoppingIsSaidLast, DaemonIInv
<1>6. CompletedIsClean'
  BY DEF CompletedIsClean
<1>7. WorkIsTraced' /\ SuccessIsEarned'
  BY DEF WorkIsTraced, SuccessIsEarned, Exits
<1> QED BY <1>1, <1>3, <1>4, <1>5, <1>6, <1>7 DEF DaemonIInv

(* A publication of the running state into the loop preserves it; the tasks change at most *)
(* by the joining of one that is over and is not the admin server.                         *)
LEMMA RunningPublicationKeeps ==
    ASSUME DaemonIInv, at \in {"announce", "loop"}, NEW s,
           Publishes(s, "loop"), s.ready = ready'.transport, s.phase # "Stopping",
           UNCHANGED <<subscribed, phase, accepting, stopping, summary, signals>>,
           ready' \in Flags, health' \in [value : BOOLEAN, unseen : BOOLEAN],
           health'.value = health.value, HealthIsTaken',
           task' \in [Tasks -> TaskStates],
           \A t \in Tasks : \/ task'[t] = task[t]
                            \/ t # "admin_server" /\ task[t] # "running" /\ task'[t] = "joined"
    PROVE  DaemonIInv'
<1>1. DaemonTypeOK'
  BY DEF DaemonIInv, DaemonTypeOK, Publishes, Flags, Cached, Points
<1>2. "loop" \notin StartPoints /\ "loop" \notin AfterSubscription
  BY StartPointNames DEF AfterSubscription
<1>3. Starting'
  BY <1>2 DEF Publishes, Starting
<1>4. s # Nothing
  BY NothingIsNoStatus DEF Publishes
<1>5. CachesFollow'
  BY <1>4 DEF Publishes, CachesFollow
<1>6. \A t \in Tasks : Running(t)' => Running(t)
  BY DEF Running
<1>7. HealthIsSent'
  BY <1>6, EveryTaskHasAPhase DEF DaemonIInv, HealthIsSent
<1>8. StoppingIsSaidLast'
  BY <1>2 DEF DaemonIInv, StoppingIsSaidLast, Publishes
<1>9. Undecided' /\ CompletedIsClean'
  BY <1>2 DEF DaemonIInv, Undecided, CompletedIsClean, Publishes
<1>10. EarlierPhasesAreOver'
  BY <1>6 DEF DaemonIInv, EarlierPhasesAreOver, Running, Over
<1>11. task'["admin_server"] = task["admin_server"]
  BY EveryTaskHasAPhase
<1>12. WorkIsTraced' /\ SuccessIsEarned'
  BY <1>11 DEF DaemonIInv, WorkIsTraced, SuccessIsEarned, Publishes, Running
<1> QED BY <1>1, <1>3, <1>5, <1>7, <1>8, <1>9, <1>10, <1>12 DEF DaemonIInv

-----------------------------------------------------------------------------
(* The steps of the startup. *)

(* A step of the startup keeps the invariant; the last one spawns the tasks. *)
LEMMA StartStepKeeps ==
    ASSUME DaemonIInv, NEW i \in 1 .. 10, StartStep(i)
    PROVE  DaemonIInv'
<1>1. /\ at \in StartPoints
      /\ at' \in StartPoints \cup {"announce"}
      /\ (at' = "announce") <=> (at = "spawn")
      /\ at' \in AfterSubscription => at \in AfterSubscription \cup {"open_initial_subscription"}
  <2>1. /\ at = Startup[i].name
        /\ at' = IF i = Len(Startup) THEN "announce" ELSE Startup[i + 1].name
    BY DEF StartStep
  <2>2. PICK here, there : here = at /\ there = at'
    OBVIOUS
  <2> QED BY <2>1, <2>2, StartupOrder
<1>2. "announce" \notin StartPoints /\ "announce" \notin AfterSubscription
  BY StartPointNames DEF AfterSubscription
<1>3. /\ \A t \in Tasks : task[t] = "absent"
      /\ phase = 0 /\ health.value /\ ready.transport
      /\ status.writing = Nothing
  BY <1>1 DEF DaemonIInv, Starting
<1>4. /\ task' \in [Tasks -> {"absent", "running"}]
      /\ \A t \in Tasks : task'[t] = IF at = "spawn" THEN "running" ELSE "absent"
  BY <1>3 DEF StartStep
<1>5. /\ status' \in [operations : Cached, detail : Cached, writing : Cached]
      /\ status'.writing = Nothing
      /\ status'.operations.phase # "Stopping" /\ status'.detail.phase # "Stopping"
  <2>1. status \in [operations : Cached, detail : Cached, writing : Cached]
    BY DEF DaemonIInv, DaemonTypeOK, Cached
  <2>2. status.operations.phase # "Stopping" /\ status.detail.phase # "Stopping"
    BY <1>1 DEF DaemonIInv, StoppingIsSaidLast
  <2>3. Observation("Starting", TRUE) \in Cached /\ Observation("Starting", TRUE).phase # "Stopping"
    BY DEF Observation, Cached, Status
  <2>4. \/ status' = [status EXCEPT !.operations = Observation("Starting", TRUE),
                                    !.detail = Observation("Starting", TRUE)]
        \/ status' = status
    BY DEF StartStep
  <2> QED BY <2>1, <2>2, <2>3, <2>4, <1>3
<1>6. DaemonTypeOK'
  <2>1. at' \in Points
    BY <1>1 DEF Points
  <2>2. database' \in {"absent", "open", "closed", "failed", "dropped"}
    BY DEF StartStep, DaemonIInv, DaemonTypeOK
  <2>3. subscribed' \in BOOLEAN /\ accepting' \in BOOLEAN
    BY DEF StartStep
  <2> QED BY <1>4, <1>5, <2>1, <2>2, <2>3
          DEF DaemonIInv, DaemonTypeOK, Cached, StartStep, TaskStates
<1>7. at \in AfterSubscription \cup {"open_initial_subscription"} => subscribed'
  BY DEF StartStep, DaemonIInv, Starting
<1>8. Starting'
  <2>1. at' \in StartPoints => at # "spawn"
    BY <1>1, <1>2
  <2> QED BY <1>1, <1>3, <1>4, <1>5, <1>7, <2>1 DEF StartStep, Starting
<1>9. HealthIsSent'
  <2>1. Running("source_subscription")' => at = "spawn"
    BY <1>4, EveryTaskHasAPhase DEF Running
  <2>2. at = "spawn" => subscribed'
    BY <1>7 DEF AfterSubscription
  <2>3. health'.value /\ health.value \in BOOLEAN /\ subscribed' \in BOOLEAN
    BY <1>3, <1>6 DEF StartStep, DaemonIInv, DaemonTypeOK
  <2> QED BY <2>1, <2>2, <2>3 DEF HealthIsSent
<1>10. HealthIsTaken'
  BY DEF DaemonIInv, HealthIsTaken, StartStep
<1>11. at' # "loop"
  BY <1>1, StartPointNames
<1>12. CachesFollow'
  BY <1>11 DEF CachesFollow
<1>13. StoppingIsSaidLast'
  BY <1>5, NothingIsNoStatus DEF StoppingIsSaidLast
<1>14. Undecided' /\ CompletedIsClean'
  <2>1. summary = "none" /\ stopping = "no"
    BY <1>1, StartPointNames DEF DaemonIInv, Undecided
  <2>2. summary' = "none" /\ stopping' = "no"
    BY <2>1 DEF StartStep
  <2> QED BY <1>4, <2>2 DEF Undecided, CompletedIsClean
<1>15. EarlierPhasesAreOver'
  BY <1>3 DEF EarlierPhasesAreOver, StartStep
<1>16. WorkIsTraced'
  <2>1. at # "exited"
    BY <1>1, StartPointNames
  <2>2. summary = "none" /\ stopping = "no"
    BY <1>1, StartPointNames DEF DaemonIInv, Undecided
  <2>3. \A r \in Requests : request[r] \notin {"working", "cut"}
    BY <1>3, <2>1, <2>2, EveryTaskHasAPhase DEF DaemonIInv, WorkIsTraced, Running
  <2> QED BY <2>3 DEF WorkIsTraced, StartStep
<1>17. SuccessIsEarned'
  <2>1. at # "exited"
    BY <1>1, StartPointNames
  <2> QED BY <2>1 DEF DaemonIInv, SuccessIsEarned, StartStep
<1> QED BY <1>6, <1>8, <1>9, <1>10, <1>12, <1>13, <1>14, <1>15, <1>16, <1>17 DEF DaemonIInv

(* A failed step of the startup returns its error. *)
LEMMA StartFailsKeeps ==
    ASSUME DaemonIInv, NEW i \in 1 .. 10, StartFails(i)
    PROVE  DaemonIInv'
<1>1. PICK error \in Errors : Return(error, task)
  BY StartupErrors DEF StartFails
<1>2. task \in [Tasks -> TaskStates] /\ DaemonTypeOK
  BY DEF DaemonIInv, DaemonTypeOK
<1>3. Exits
  <2>1. PICK tasks \in [Tasks -> TaskStates] : tasks = task
    BY <1>2
  <2>2. Return(error, tasks)
    BY <1>1, <2>1 DEF Return
  <2> QED BY <1>2, <2>2, ReturnExits
<1>4. at \in StartPoints
  BY StartupNames DEF StartFails, StartPoints
<1>5. summary # "Completed"
  BY <1>4, StartPointNames DEF DaemonIInv, Undecided
<1>6. UNCHANGED <<status, ready, health, subscribed, phase, accepting, signals, stopping, summary>>
  BY DEF StartFails
<1>7. HealthIsTaken' /\ ready' \in Flags /\ health' \in [value : BOOLEAN, unseen : BOOLEAN]
  BY <1>6 DEF DaemonIInv, DaemonTypeOK, HealthIsTaken, Flags
<1> QED BY <1>3, <1>5, <1>6, <1>7, ExitKeeps

(* The first publication finds the flags as the startup left them. *)
LEMMA AnnounceKeeps ==
    ASSUME DaemonIInv, Announce
    PROVE  DaemonIInv'
<1>1. /\ at = "announce" /\ Publish(ready, "Ready", "loop", task)
      /\ UNCHANGED <<ready, health, subscribed, phase, accepting, signals, stopping, summary>>
  BY DEF Announce, MainAt
<1>2. /\ DaemonTypeOK /\ ready \in Flags /\ task \in [Tasks -> TaskStates]
      /\ health' \in [value : BOOLEAN, unseen : BOOLEAN] /\ HealthIsTaken'
  BY <1>1 DEF DaemonIInv, DaemonTypeOK, Flags, HealthIsTaken
<1>3. PICK flags \in Flags, tasks \in [Tasks -> TaskStates] : flags = ready' /\ tasks = task
  BY <1>1, <1>2
<1>4. Publish(flags, "Ready", "loop", tasks)
  BY <1>1, <1>3 DEF Publish, Return
<1>5. \/ Publishes(Observation("Ready", flags.transport), "loop") /\ task' = tasks
      \/ Exits /\ UNCHANGED status
  BY <1>2, <1>3, <1>4, PublishOrExit
<1>6. CASE Publishes(Observation("Ready", flags.transport), "loop") /\ task' = tasks
  <2> DEFINE s == Observation("Ready", flags.transport)
  <2>1. s.ready = ready'.transport /\ s.phase # "Stopping"
    BY <1>3, RunningPhases
  <2> HIDE DEF s
  <2> QED BY <1>1, <1>2, <1>3, <1>6, <2>1, RunningPublicationKeeps DEF s
<1>7. CASE Exits /\ UNCHANGED status
  <2>1. summary # "Completed"
    BY <1>1 DEF DaemonIInv, Undecided
  <2> QED BY <1>1, <1>2, <1>7, <2>1, ExitKeeps
<1> QED BY <1>5, <1>6, <1>7

(* The second half of a publication: what was on its way has arrived. *)
LEMMA PublishDetailKeeps ==
    ASSUME DaemonIInv, PublishDetail
    PROVE  DaemonIInv'
<1>1. /\ status.writing # Nothing
      /\ status' = [status EXCEPT !.detail = status.writing, !.writing = Nothing]
      /\ UNCHANGED <<at, signals>> /\ UNCHANGED loopVars /\ UNCHANGED workVars
  BY DEF PublishDetail
<1>2. status \in [operations : Cached, detail : Cached, writing : Cached] /\ Nothing \in Cached
  BY DEF DaemonIInv, DaemonTypeOK, Cached
<1>3. /\ status' \in [operations : Cached, detail : Cached, writing : Cached]
      /\ status'.operations = status.operations
      /\ status'.detail = status.writing /\ status'.writing = Nothing
  BY <1>1, <1>2
<1>4. DaemonTypeOK'
  BY <1>1, <1>3 DEF DaemonIInv, DaemonTypeOK, Cached, loopVars, workVars
<1>5. Starting'
  BY <1>1, <1>3 DEF DaemonIInv, Starting, loopVars, workVars
<1>6. CachesFollow'
  BY <1>1, <1>3 DEF DaemonIInv, CachesFollow, loopVars
<1>7. StoppingIsSaidLast'
  BY <1>1, <1>3, NothingIsNoStatus DEF DaemonIInv, StoppingIsSaidLast, loopVars
<1>8. HealthIsSent' /\ HealthIsTaken' /\ Undecided' /\ EarlierPhasesAreOver'
  BY <1>1 DEF DaemonIInv, HealthIsSent, HealthIsTaken, Undecided, EarlierPhasesAreOver,
              Running, Over, loopVars, workVars
<1>9. CompletedIsClean' /\ WorkIsTraced' /\ SuccessIsEarned'
  BY <1>1 DEF DaemonIInv, CompletedIsClean, WorkIsTraced, SuccessIsEarned, Running,
              loopVars, workVars
<1> QED BY <1>4, <1>5, <1>6, <1>7, <1>8, <1>9 DEF DaemonIInv

-----------------------------------------------------------------------------
(* The tasks and the requests. *)

(* A task runs only once it was spawned. *)
LEMMA RunningIsSpawned ==
    ASSUME DaemonIInv, NEW t \in Tasks, Running(t)
    PROVE  at \notin StartPoints /\ summary # "Completed"
BY DEF DaemonIInv, Starting, CompletedIsClean, Running

(* A lost or regained subscription is sent in the same step. *)
LEMMA SubscriptionStepKeeps ==
    ASSUME DaemonIInv, SubscriptionLost \/ Resubscribe
    PROVE  DaemonIInv'
<1>1. /\ Running("source_subscription")
      /\ health' = [value |-> subscribed', unseen |-> TRUE] /\ subscribed' \in BOOLEAN
      /\ UNCHANGED <<at, status, task, request, signals>> /\ UNCHANGED loopVars
  BY DEF SubscriptionLost, Resubscribe
<1>2. at \notin StartPoints /\ at \notin AfterSubscription
  BY <1>1, RunningIsSpawned, EveryTaskHasAPhase, StartPointNames DEF AfterSubscription
<1>3. health'.value = subscribed' /\ health'.unseen = TRUE
      /\ health' \in [value : BOOLEAN, unseen : BOOLEAN]
  BY <1>1
<1>4. DaemonTypeOK'
  BY <1>1, <1>3 DEF DaemonIInv, DaemonTypeOK, loopVars
<1>5. Starting' /\ HealthIsSent' /\ HealthIsTaken'
  BY <1>1, <1>2, <1>3 DEF Starting, HealthIsSent, HealthIsTaken
<1>6. CachesFollow' /\ StoppingIsSaidLast'
  BY <1>1 DEF DaemonIInv, CachesFollow, StoppingIsSaidLast, loopVars
<1>7. Undecided' /\ EarlierPhasesAreOver'
  BY <1>1 DEF DaemonIInv, Undecided, EarlierPhasesAreOver, Over, loopVars
<1>8. CompletedIsClean' /\ WorkIsTraced' /\ SuccessIsEarned'
  BY <1>1 DEF DaemonIInv, CompletedIsClean, WorkIsTraced, SuccessIsEarned, Running, loopVars
<1> QED BY <1>4, <1>5, <1>6, <1>7, <1>8 DEF DaemonIInv

(* The end of one running task: the admin server takes its mutations with it when it fails *)
(* and has none left when it returns.                                                      *)
LEMMA TaskEndsKeeps ==
    ASSUME DaemonIInv, NEW t \in Tasks, Running(t), NEW end \in {"failed", "returned"},
           task' = [task EXCEPT ![t] = end],
           request' \in [Requests -> RequestStates],
           \A r \in Requests :
               \/ request'[r] = request[r] /\ (t = "admin_server" => request[r] # "working")
               \/ t = "admin_server" /\ end = "failed" /\ request'[r] = "cut",
           UNCHANGED <<at, status, health, subscribed, signals>>, UNCHANGED loopVars
    PROVE  DaemonIInv'
<1>1. at \notin StartPoints /\ at \notin AfterSubscription /\ summary # "Completed"
  BY RunningIsSpawned, StartPointNames DEF AfterSubscription
<1>2. /\ task' \in [Tasks -> TaskStates] /\ task'[t] = end
      /\ \A u \in Tasks : u # t => task'[u] = task[u]
  BY DEF DaemonIInv, DaemonTypeOK, TaskStates
<1>3. task[t] = "running" /\ \A u \in Tasks : task'[u] = "running" => task[u] = "running"
  BY <1>2 DEF Running
<1>4. DaemonTypeOK'
  BY <1>2 DEF DaemonIInv, DaemonTypeOK, loopVars
<1>5. Starting' /\ HealthIsSent' /\ HealthIsTaken'
  BY <1>1, <1>3, EveryTaskHasAPhase
     DEF DaemonIInv, Starting, HealthIsSent, HealthIsTaken, Running, loopVars
<1>6. CachesFollow' /\ StoppingIsSaidLast'
  BY DEF DaemonIInv, CachesFollow, StoppingIsSaidLast, loopVars
<1>7. Undecided' /\ CompletedIsClean' /\ SuccessIsEarned'
  BY <1>1, <1>2 DEF DaemonIInv, Undecided, CompletedIsClean, SuccessIsEarned, loopVars
<1>8. EarlierPhasesAreOver'
  BY <1>3 DEF DaemonIInv, EarlierPhasesAreOver, Over, loopVars
<1>9. WorkIsTraced'
  <2>1. task["admin_server"] # task'["admin_server"] => t = "admin_server"
    BY <1>2, EveryTaskHasAPhase
  <2>2. ASSUME NEW r \in Requests, request'[r] = "working"
        PROVE  task'["admin_server"] = "running"
    BY <2>1, <2>2, EveryTaskHasAPhase DEF DaemonIInv, WorkIsTraced, Running
  <2>3. ASSUME NEW r \in Requests, request'[r] = "cut"
        PROVE  \/ task'["admin_server"] = "failed"
               \/ stopping = "failure" \/ summary = "Forced"
               \/ at = "exited" /\ result # "Success"
    BY <1>2, <1>3, <2>1, <2>3, EveryTaskHasAPhase DEF DaemonIInv, WorkIsTraced
  <2> QED BY <2>2, <2>3 DEF WorkIsTraced, Running, loopVars
<1> QED BY <1>4, <1>5, <1>6, <1>7, <1>8, <1>9 DEF DaemonIInv

(* A task that fails ends so, the mutations of the admin server with it. *)
LEMMA TaskFailsKeeps ==
    ASSUME DaemonIInv, NEW t \in Tasks, TaskFails(t)
    PROVE  DaemonIInv'
<1>1. request' \in [Requests -> RequestStates]
  BY DEF TaskFails, DaemonIInv, DaemonTypeOK, RequestStates
<1>2. \A r \in Requests :
         \/ request'[r] = request[r] /\ (t = "admin_server" => request[r] # "working")
         \/ t = "admin_server" /\ request'[r] = "cut"
  BY DEF TaskFails
<1> QED BY <1>1, <1>2, TaskEndsKeeps DEF TaskFails

(* A task that returns ends so, and no mutation works any more under it. *)
LEMMA TaskReturnsKeeps ==
    ASSUME DaemonIInv, NEW t \in Tasks, TaskReturns(t)
    PROVE  DaemonIInv'
<1>1. request' \in [Requests -> RequestStates]
  BY DEF TaskReturns, DaemonIInv, DaemonTypeOK
<1>2. \A r \in Requests :
         request'[r] = request[r] /\ (t = "admin_server" => request[r] # "working")
  BY DEF TaskReturns
<1> QED BY <1>1, <1>2, TaskEndsKeeps DEF TaskReturns

(* A mutation starts or ends under a running admin server. *)
LEMMA MutationKeeps ==
    ASSUME DaemonIInv, NEW r \in Requests, MutationStarts(r) \/ MutationEnds(r)
    PROVE  DaemonIInv'
<1>1. PICK next \in {"working", "idle"} :
         /\ Running("admin_server")
         /\ request' = [request EXCEPT ![r] = next]
         /\ UNCHANGED <<at, status, health, subscribed, task, signals>> /\ UNCHANGED loopVars
  BY DEF MutationStarts, MutationEnds
<1>2. /\ request' \in [Requests -> RequestStates] /\ request'[r] = next
      /\ \A q \in Requests : q # r => request'[q] = request[q]
  BY <1>1 DEF DaemonIInv, DaemonTypeOK, RequestStates
<1>3. DaemonTypeOK'
  BY <1>1, <1>2 DEF DaemonIInv, DaemonTypeOK, loopVars
<1>4. Starting' /\ HealthIsSent' /\ HealthIsTaken'
  BY <1>1 DEF DaemonIInv, Starting, HealthIsSent, HealthIsTaken, Running, loopVars
<1>5. CachesFollow' /\ StoppingIsSaidLast'
  BY <1>1 DEF DaemonIInv, CachesFollow, StoppingIsSaidLast, loopVars
<1>6. Undecided' /\ EarlierPhasesAreOver' /\ CompletedIsClean' /\ SuccessIsEarned'
  BY <1>1 DEF DaemonIInv, Undecided, EarlierPhasesAreOver, CompletedIsClean, SuccessIsEarned,
              Over, loopVars
<1>7. WorkIsTraced'
  BY <1>1, <1>2 DEF DaemonIInv, WorkIsTraced, Running, loopVars
<1> QED BY <1>3, <1>4, <1>5, <1>6, <1>7 DEF DaemonIInv

(* Steps that change neither the flags, the caches nor the work leave the invariant alone. *)
LEMMA SignalArrivesKeeps ==
    ASSUME DaemonIInv, NEW kind \in Signals, SignalArrives(kind)
    PROVE  DaemonIInv'
<1>1. /\ signals' \subseteq Signals
      /\ UNCHANGED <<at, status>> /\ UNCHANGED loopVars /\ UNCHANGED workVars
  BY DEF SignalArrives, DaemonIInv, DaemonTypeOK
<1>2. DaemonTypeOK'
  BY <1>1 DEF DaemonIInv, DaemonTypeOK, loopVars, workVars
<1>3. Starting' /\ HealthIsSent' /\ HealthIsTaken' /\ CachesFollow' /\ StoppingIsSaidLast'
  BY <1>1 DEF DaemonIInv, Starting, HealthIsSent, HealthIsTaken, CachesFollow,
              StoppingIsSaidLast, Running, loopVars, workVars
<1>4. Undecided' /\ EarlierPhasesAreOver' /\ CompletedIsClean' /\ WorkIsTraced' /\ SuccessIsEarned'
  BY <1>1 DEF DaemonIInv, Undecided, EarlierPhasesAreOver, CompletedIsClean, WorkIsTraced,
              SuccessIsEarned, Running, Over, loopVars, workVars
<1> QED BY <1>2, <1>3, <1>4 DEF DaemonIInv

-----------------------------------------------------------------------------
(* The select loop. *)

(* The loop ends for a reason; a task joined by its end is the reason, and a failure. *)
LEMMA BreakKeeps ==
    ASSUME DaemonIInv, at = "loop", NEW why \in {"signal", "failure"}, Break(why),
           signals' \subseteq Signals,
           UNCHANGED <<status, ready, health, subscribed, phase, accepting, request, summary,
                       database, result>>,
           task' \in [Tasks -> TaskStates],
           \A t \in Tasks :
               \/ task'[t] = task[t]
               \/ task[t] # "running" /\ task'[t] = "joined" /\ why = "failure"
    PROVE  DaemonIInv'
<1>1. at' = "shutdown" /\ stopping' = why
  BY DEF Break
<1>2. "shutdown" \notin StartPoints /\ "shutdown" \notin AfterSubscription
  BY StartPointNames DEF AfterSubscription
<1>3. /\ summary = "none" /\ stopping = "no"
      /\ \A t \in Tasks : task[t] # "aborted"
  BY DEF DaemonIInv, Undecided
<1>4. DaemonTypeOK'
  BY <1>1 DEF DaemonIInv, DaemonTypeOK, Points
<1>5. Starting' /\ CachesFollow'
  BY <1>1, <1>2 DEF Starting, CachesFollow
<1>6. HealthIsSent' /\ HealthIsTaken' /\ EarlierPhasesAreOver'
  BY EveryTaskHasAPhase
     DEF DaemonIInv, HealthIsSent, HealthIsTaken, EarlierPhasesAreOver, Running, Over
<1>7. StoppingIsSaidLast'
  BY <1>1, <1>2 DEF DaemonIInv, StoppingIsSaidLast
<1>8. Undecided' /\ CompletedIsClean'
  BY <1>1, <1>2, <1>3 DEF Undecided, CompletedIsClean
<1>9. WorkIsTraced'
  <2>1. ASSUME NEW r \in Requests, request[r] = "working"
        PROVE  task'["admin_server"] = "running"
    BY <2>1, EveryTaskHasAPhase DEF DaemonIInv, WorkIsTraced, Running
  <2>2. ASSUME NEW r \in Requests, request[r] = "cut"
        PROVE  task'["admin_server"] = "failed" \/ stopping' = "failure"
    BY <1>1, <1>3, <2>2, EveryTaskHasAPhase DEF DaemonIInv, WorkIsTraced
  <2> QED BY <2>1, <2>2 DEF WorkIsTraced, Running
<1>10. SuccessIsEarned'
  BY <1>1 DEF DaemonIInv, SuccessIsEarned
<1> QED BY <1>4, <1>5, <1>6, <1>7, <1>8, <1>9, <1>10 DEF DaemonIInv

(* A signal ends the loop. *)
LEMMA OnSignalKeeps ==
    ASSUME DaemonIInv, OnSignal
    PROVE  DaemonIInv'
<1>1. at = "loop" /\ Break("signal") /\ signals' \subseteq Signals
  BY DEF OnSignal, MainAt, DaemonIInv, DaemonTypeOK
<1>2. UNCHANGED <<status, ready, health, subscribed, phase, accepting, request, summary,
                  database, result, task>>
  BY DEF OnSignal, workVars
<1>3. task' \in [Tasks -> TaskStates] /\ \A t \in Tasks : task'[t] = task[t]
  BY <1>2 DEF DaemonIInv, DaemonTypeOK
<1> QED BY <1>1, <1>2, <1>3, BreakKeeps

(* A health channel whose sender is gone ends the loop. *)
LEMMA OnHealthClosedKeeps ==
    ASSUME DaemonIInv, OnHealthClosed
    PROVE  DaemonIInv'
<1>1. at = "loop" /\ Break("failure") /\ signals' \subseteq Signals
  BY DEF OnHealthClosed, MainAt, DaemonIInv, DaemonTypeOK
<1>2. UNCHANGED <<status, ready, health, subscribed, phase, accepting, request, summary,
                  database, result, task>>
  BY DEF OnHealthClosed, workVars
<1>3. task' \in [Tasks -> TaskStates] /\ \A t \in Tasks : task'[t] = task[t]
  BY <1>2 DEF DaemonIInv, DaemonTypeOK
<1> QED BY <1>1, <1>2, <1>3, BreakKeeps

(* What a branch of the loop publishes from the flags it leaves behind. *)
LEMMA LoopPublishKeeps ==
    ASSUME DaemonIInv, at = "loop", NEW tasks \in [Tasks -> TaskStates],
           ready' \in Flags, Publish(ready', RunningPhase(ready'), "loop", tasks),
           UNCHANGED <<subscribed, phase, accepting, stopping, summary, signals>>,
           health' \in [value : BOOLEAN, unseen : BOOLEAN],
           health'.value = health.value, HealthIsTaken',
           \A t \in Tasks : \/ tasks[t] = task[t]
                            \/ t # "admin_server" /\ task[t] # "running" /\ tasks[t] = "joined"
    PROVE  DaemonIInv'
<1>1. PICK flags \in Flags : flags = ready'
  OBVIOUS
<1>2. PICK ph \in {"Ready", "Degraded"} : ph = RunningPhase(flags)
  BY RunningPhases
<1>3. Publish(flags, ph, "loop", tasks)
  BY <1>1, <1>2 DEF Publish, Return
<1>4. DaemonTypeOK
  BY DEF DaemonIInv
<1>5. \/ Publishes(Observation(ph, flags.transport), "loop") /\ task' = tasks
      \/ Exits /\ UNCHANGED status
  BY <1>1, <1>2, <1>3, <1>4, PublishOrExit
<1>6. CASE Publishes(Observation(ph, flags.transport), "loop") /\ task' = tasks
  <2> DEFINE s == Observation(ph, flags.transport)
  <2>1. s.ready = ready'.transport /\ s.phase # "Stopping"
    BY <1>1, <1>2, RunningPhases
  <2>2. Publishes(s, "loop")
    BY <1>6
  <2> HIDE DEF s
  <2>3. /\ task' \in [Tasks -> TaskStates]
        /\ \A t \in Tasks : \/ task'[t] = task[t]
                            \/ t # "admin_server" /\ task[t] # "running" /\ task'[t] = "joined"
    BY <1>6
  <2> QED BY <2>1, <2>2, <2>3, RunningPublicationKeeps
<1>7. CASE Exits /\ UNCHANGED status
  <2>1. summary # "Completed"
    BY DEF DaemonIInv, Undecided
  <2> QED BY <1>7, <2>1, ExitKeeps
<1> QED BY <1>5, <1>6, <1>7

(* A change of the health channel is taken into the flags and published. *)
LEMMA OnHealthKeeps ==
    ASSUME DaemonIInv, OnHealth
    PROVE  DaemonIInv'
<1>1. /\ at = "loop"
      /\ health' = [health EXCEPT !.unseen = FALSE]
      /\ ready' = [ready EXCEPT !.transport = health.value]
      /\ Publish(ready', RunningPhase(ready'), "loop", task)
      /\ UNCHANGED <<subscribed, phase, accepting, signals, stopping, summary>>
  BY DEF OnHealth, MainAt
<1>2. /\ ready \in Flags /\ health \in [value : BOOLEAN, unseen : BOOLEAN]
      /\ task \in [Tasks -> TaskStates]
  BY DEF DaemonIInv, DaemonTypeOK, Flags
<1>3. /\ ready' \in Flags /\ ready'.transport = health.value
      /\ health' \in [value : BOOLEAN, unseen : BOOLEAN] /\ health'.value = health.value
  BY <1>1, <1>2 DEF Flags
<1>4. HealthIsTaken'
  BY <1>3 DEF HealthIsTaken
<1>5. PICK tasks \in [Tasks -> TaskStates] : tasks = task
  BY <1>2
<1>6. Publish(ready', RunningPhase(ready'), "loop", tasks)
  BY <1>1, <1>5 DEF Publish, Return
<1> QED BY <1>1, <1>3, <1>4, <1>5, <1>6, LoopPublishKeeps

(* A tick publishes the flags again. *)
LEMMA OnTickKeeps ==
    ASSUME DaemonIInv, OnTick
    PROVE  DaemonIInv'
<1>1. /\ at = "loop"
      /\ Publish(ready, RunningPhase(ready), "loop", task)
      /\ UNCHANGED <<ready, health, subscribed, phase, accepting, signals, stopping, summary>>
  BY DEF OnTick, MainAt
<1>2. /\ ready' \in Flags /\ health' \in [value : BOOLEAN, unseen : BOOLEAN]
      /\ task \in [Tasks -> TaskStates] /\ HealthIsTaken'
  BY <1>1 DEF DaemonIInv, DaemonTypeOK, Flags, HealthIsTaken
<1>3. PICK tasks \in [Tasks -> TaskStates] : tasks = task
  BY <1>2
<1>4. Publish(ready', RunningPhase(ready'), "loop", tasks)
  BY <1>1, <1>3 DEF Publish, Return
<1> QED BY <1>1, <1>2, <1>3, <1>4, LoopPublishKeeps

(* A tick that cannot read the database ends the daemon. *)
LEMMA OnTickFailsKeeps ==
    ASSUME DaemonIInv, OnTickFails
    PROVE  DaemonIInv'
<1>1. /\ at = "loop" /\ Return("State", task)
      /\ UNCHANGED <<status, ready, health, subscribed, phase, accepting, signals, stopping, summary>>
  BY DEF OnTickFails, MainAt
<1>2. /\ DaemonTypeOK /\ ready' \in Flags /\ health' \in [value : BOOLEAN, unseen : BOOLEAN]
      /\ task \in [Tasks -> TaskStates] /\ HealthIsTaken' /\ summary # "Completed"
  BY <1>1 DEF DaemonIInv, DaemonTypeOK, Flags, HealthIsTaken, Undecided
<1>3. PICK tasks \in [Tasks -> TaskStates] : tasks = task
  BY <1>2
<1>4. Return("State", tasks)
  BY <1>1, <1>3 DEF Return
<1>5. Exits
  BY <1>2, <1>4, ReturnExits DEF Errors
<1> QED BY <1>1, <1>2, <1>5, ExitKeeps

(* The end of the operations server is published, that of another task ends the loop. *)
LEMMA OnExitKeeps ==
    ASSUME DaemonIInv, NEW t \in Tasks, OnExit(t)
    PROVE  DaemonIInv'
<1>1. /\ at = "loop" /\ task[t] \in {"failed", "returned"}
      /\ UNCHANGED <<health, subscribed, phase, accepting, signals, summary>>
  BY DEF OnExit, MainAt
<1>2. PICK tasks \in [Tasks -> TaskStates] : tasks = [task EXCEPT ![t] = "joined"]
  BY DEF DaemonIInv, DaemonTypeOK, TaskStates
<1>3. \A u \in Tasks : \/ tasks[u] = task[u]
                       \/ u = t /\ task[u] # "running" /\ tasks[u] = "joined"
  BY <1>1, <1>2 DEF DaemonIInv, DaemonTypeOK
<1>4. CASE t = "operations_server"
  <2>1. /\ ready' = [ready EXCEPT !.operations = FALSE]
        /\ Publish(ready', RunningPhase(ready'), "loop", [task EXCEPT ![t] = "joined"])
        /\ UNCHANGED stopping
    BY <1>4 DEF OnExit
  <2>2. ready \in Flags /\ health' \in [value : BOOLEAN, unseen : BOOLEAN]
    BY <1>1 DEF DaemonIInv, DaemonTypeOK, Flags
  <2>3. ready' \in Flags /\ ready'.transport = ready.transport
    BY <2>1, <2>2 DEF Flags
  <2>4. HealthIsTaken'
    BY <1>1, <2>3 DEF DaemonIInv, HealthIsTaken
  <2>5. Publish(ready', RunningPhase(ready'), "loop", tasks)
    BY <1>2, <2>1 DEF Publish, Return
  <2>6. \A u \in Tasks : \/ tasks[u] = task[u]
                         \/ u # "admin_server" /\ task[u] # "running" /\ tasks[u] = "joined"
    BY <1>3, <1>4
  <2> QED BY <1>1, <2>1, <2>2, <2>3, <2>4, <2>5, <2>6, LoopPublishKeeps
<1>5. CASE t # "operations_server"
  <2>1. /\ Break("failure") /\ task' = [task EXCEPT ![t] = "joined"]
        /\ UNCHANGED <<ready, status, request, database, result>>
    BY <1>5 DEF OnExit
  <2>2. signals' \subseteq Signals
    BY <1>1 DEF DaemonIInv, DaemonTypeOK
  <2>3. /\ task' \in [Tasks -> TaskStates]
        /\ \A u \in Tasks : \/ task'[u] = task[u]
                            \/ task[u] # "running" /\ task'[u] = "joined"
    BY <1>2, <1>3, <2>1
  <2> QED BY <1>1, <2>1, <2>2, <2>3, BreakKeeps
<1> QED BY <1>4, <1>5

-----------------------------------------------------------------------------
(* The shutdown. *)

(* The flag falls before anything else of the shutdown. *)
LEMMA RejectNewMutationsKeeps ==
    ASSUME DaemonIInv, RejectNewMutations
    PROVE  DaemonIInv'
<1>1. /\ accepting' = FALSE /\ at = "shutdown"
      /\ UNCHANGED <<at, status, ready, phase, stopping, summary, database, result, signals>>
      /\ UNCHANGED workVars
  BY DEF RejectNewMutations, MainAt
<1>2. DaemonTypeOK'
  <2>1. accepting' \in BOOLEAN
    BY <1>1
  <2>2. /\ UNCHANGED <<at, status, ready, phase, stopping, summary, database, result, signals>>
        /\ UNCHANGED workVars
    BY <1>1
  <2> QED BY <2>1, <2>2 DEF DaemonIInv, DaemonTypeOK, workVars
<1>3. Starting' /\ HealthIsSent' /\ HealthIsTaken' /\ CachesFollow' /\ StoppingIsSaidLast'
  BY <1>1, StartPointNames
     DEF DaemonIInv, Starting, HealthIsSent, HealthIsTaken, CachesFollow, StoppingIsSaidLast,
         Running, workVars
<1>4. Undecided' /\ EarlierPhasesAreOver' /\ CompletedIsClean' /\ WorkIsTraced' /\ SuccessIsEarned'
  BY <1>1 DEF DaemonIInv, Undecided, EarlierPhasesAreOver, CompletedIsClean, WorkIsTraced,
              SuccessIsEarned, Running, Over, workVars
<1> QED BY <1>2, <1>3, <1>4 DEF DaemonIInv

(* Stopping is said after the flag has fallen. *)
LEMMA PublishStoppingKeeps ==
    ASSUME DaemonIInv, PublishStopping
    PROVE  DaemonIInv'
<1>1. /\ at = "shutdown" /\ ~accepting /\ Publish(ready, "Stopping", "drain", task)
      /\ UNCHANGED <<ready, health, subscribed, phase, accepting, signals, stopping, summary>>
  BY DEF PublishStopping, MainAt
<1>2. /\ DaemonTypeOK /\ ready \in Flags /\ task \in [Tasks -> TaskStates]
      /\ health' \in [value : BOOLEAN, unseen : BOOLEAN] /\ HealthIsTaken'
  BY <1>1 DEF DaemonIInv, DaemonTypeOK, Flags, HealthIsTaken
<1>3. PICK flags \in Flags, tasks \in [Tasks -> TaskStates] : flags = ready' /\ tasks = task
  BY <1>1, <1>2
<1>4. Publish(flags, "Stopping", "drain", tasks)
  BY <1>1, <1>3 DEF Publish, Return
<1>5. \/ Publishes(Observation("Stopping", flags.transport), "drain") /\ task' = tasks
      \/ Exits /\ UNCHANGED status
  BY <1>2, <1>3, <1>4, PublishOrExit
<1>6. CASE Publishes(Observation("Stopping", flags.transport), "drain") /\ task' = tasks
  <2>1. /\ at' = "drain" /\ task' = task /\ UNCHANGED <<result, database, request>>
        /\ status' \in [operations : Cached, detail : Cached, writing : Cached]
    BY <1>3, <1>6 DEF Publishes
  <2>2. "drain" \notin StartPoints /\ "drain" \notin AfterSubscription
    BY StartPointNames DEF AfterSubscription
  <2>3. DaemonTypeOK'
    BY <1>1, <2>1 DEF DaemonIInv, DaemonTypeOK, Cached, Points
  <2>4. Starting' /\ CachesFollow' /\ StoppingIsSaidLast'
    BY <1>1, <2>1, <2>2 DEF Starting, CachesFollow, StoppingIsSaidLast
  <2>5. HealthIsSent' /\ EarlierPhasesAreOver' /\ CompletedIsClean'
    BY <1>1, <2>1 DEF DaemonIInv, HealthIsSent, EarlierPhasesAreOver, CompletedIsClean,
                      Running, Over
  <2>6. Undecided'
    BY <1>1, <2>1, <2>2 DEF DaemonIInv, Undecided
  <2>7. WorkIsTraced' /\ SuccessIsEarned'
    BY <1>1, <2>1 DEF DaemonIInv, WorkIsTraced, SuccessIsEarned, Running
  <2> QED BY <1>2, <2>3, <2>4, <2>5, <2>6, <2>7 DEF DaemonIInv
<1>7. CASE Exits /\ UNCHANGED status
  <2>1. summary # "Completed" /\ ready' \in Flags
    BY <1>1, <1>2 DEF DaemonIInv, Undecided
  <2> QED BY <1>1, <1>2, <1>7, <2>1, ExitKeeps
<1> QED BY <1>5, <1>6, <1>7

(* A phase is entered when the tasks of the one before it are over. *)
LEMMA EnterPhaseKeeps ==
    ASSUME DaemonIInv, EnterPhase
    PROVE  DaemonIInv'
<1>1. /\ at = "drain" /\ PhaseDone /\ phase < 4 /\ phase' = phase + 1
      /\ UNCHANGED <<at, status, ready, accepting, stopping, summary, database, result, signals>>
      /\ UNCHANGED workVars
  BY EveryTaskHasAPhase DEF EnterPhase, MainAt
<1>2. phase \in 0 .. 4
  BY EveryTaskHasAPhase DEF DaemonIInv, DaemonTypeOK
<1>3. DaemonTypeOK'
  BY <1>1, <1>2, EveryTaskHasAPhase DEF DaemonIInv, DaemonTypeOK, workVars
<1>4. at \notin StartPoints /\ at \notin AfterSubscription
  BY <1>1, StartPointNames DEF AfterSubscription
<1>5. Starting'
  BY <1>1, <1>4 DEF Starting
<1>6. EarlierPhasesAreOver'
  <2> SUFFICES ASSUME NEW t \in Tasks, NEW i \in 1 .. 4, i < phase + 1, CancelledIn[t] = Phases[i]
               PROVE  Over(t)
    BY <1>1 DEF EarlierPhasesAreOver, Over, workVars
  <2>1. CASE i < phase
    BY <2>1 DEF DaemonIInv, EarlierPhasesAreOver
  <2>2. CASE i = phase
    BY <1>1, <2>2 DEF PhaseDone
  <2> QED BY <1>2, <2>1, <2>2
<1>7. HealthIsSent' /\ HealthIsTaken' /\ CachesFollow' /\ StoppingIsSaidLast'
  BY <1>1 DEF DaemonIInv, HealthIsSent, HealthIsTaken, CachesFollow, StoppingIsSaidLast,
              Running, workVars
<1>8. Undecided' /\ CompletedIsClean' /\ WorkIsTraced' /\ SuccessIsEarned'
  BY <1>1 DEF DaemonIInv, Undecided, CompletedIsClean, WorkIsTraced, SuccessIsEarned,
              Running, workVars
<1> QED BY <1>3, <1>5, <1>6, <1>7, <1>8 DEF DaemonIInv

(* After the last phase every task is over, so Completed says what it means. *)
LEMMA DrainedKeeps ==
    ASSUME DaemonIInv, Drained
    PROVE  DaemonIInv'
<1>1. /\ at = "drain" /\ PhaseDone /\ phase = 4 /\ at' = "close"
      /\ summary' \in {"Failed", "Error", "Completed"}
      /\ summary' = "Completed" => \A t \in Critical : task[t] # "failed"
      /\ UNCHANGED <<status, ready, phase, accepting, stopping, database, result, signals>>
      /\ UNCHANGED workVars
  BY EveryTaskHasAPhase DEF Drained, MainAt
<1>2. \A t \in Tasks : task[t] # "running"
  <2> SUFFICES ASSUME NEW t \in Tasks PROVE task[t] # "running"
    OBVIOUS
  <2>1. PICK i \in 1 .. 4 : CancelledIn[t] = Phases[i]
    BY EveryTaskHasAPhase
  <2>2. CASE i < phase
    BY <2>1, <2>2 DEF DaemonIInv, EarlierPhasesAreOver, Over
  <2>3. CASE i = phase
    BY <1>1, <2>1, <2>3 DEF PhaseDone, Over
  <2> QED BY <1>1, <2>2, <2>3
<1>3. summary = "none" /\ \A t \in Tasks : task[t] # "aborted"
  BY <1>1 DEF DaemonIInv, Undecided
<1>4. "close" \notin StartPoints /\ "close" \notin AfterSubscription
  BY StartPointNames DEF AfterSubscription
<1>5. DaemonTypeOK'
  BY <1>1 DEF DaemonIInv, DaemonTypeOK, Points, workVars
<1>6. Starting' /\ CachesFollow' /\ Undecided'
  BY <1>1, <1>4 DEF Starting, CachesFollow, Undecided
<1>7. HealthIsSent' /\ HealthIsTaken' /\ EarlierPhasesAreOver'
  BY <1>1 DEF DaemonIInv, HealthIsSent, HealthIsTaken, EarlierPhasesAreOver, Running, Over,
              workVars
<1>8. StoppingIsSaidLast'
  BY <1>1, <1>4 DEF DaemonIInv, StoppingIsSaidLast
<1>9. CompletedIsClean'
  BY <1>1, <1>2, <1>3 DEF CompletedIsClean, workVars
<1>10. WorkIsTraced' /\ SuccessIsEarned'
  BY <1>1, <1>3 DEF DaemonIInv, WorkIsTraced, SuccessIsEarned, Running, workVars
<1> QED BY <1>5, <1>6, <1>7, <1>8, <1>9, <1>10 DEF DaemonIInv

(* A forced end aborts what runs and says so. *)
LEMMA ForcedEndKeeps ==
    ASSUME DaemonIInv, NEW sgs, sgs \subseteq Signals, ForcedEnd(sgs)
    PROVE  DaemonIInv'
<1>1. /\ at = "drain" /\ signals' = sgs /\ summary' = "Forced" /\ at' = "close"
      /\ task' = [t \in Tasks |-> IF Running(t) THEN "aborted" ELSE task[t]]
      /\ request' = [r \in Requests |-> IF request[r] = "working" THEN "cut" ELSE request[r]]
      /\ UNCHANGED <<status, ready, health, subscribed, phase, accepting, stopping, database, result>>
  BY DEF ForcedEnd, MainAt
<1>2. task' \in [Tasks -> TaskStates] /\ \A t \in Tasks : task'[t] # "running"
  BY <1>1 DEF DaemonIInv, DaemonTypeOK, TaskStates, Running
<1>3. request' \in [Requests -> RequestStates] /\ \A r \in Requests : request'[r] # "working"
  BY <1>1 DEF DaemonIInv, DaemonTypeOK, RequestStates
<1>4. "close" \notin StartPoints /\ "close" \notin AfterSubscription
  BY StartPointNames DEF AfterSubscription
<1>5. DaemonTypeOK'
  BY <1>1, <1>2, <1>3 DEF DaemonIInv, DaemonTypeOK, Points
<1>6. Starting' /\ CachesFollow' /\ Undecided' /\ CompletedIsClean'
  BY <1>1, <1>4 DEF Starting, CachesFollow, Undecided, CompletedIsClean
<1>7. HealthIsSent' /\ HealthIsTaken' /\ EarlierPhasesAreOver'
  BY <1>1, <1>2, EveryTaskHasAPhase
     DEF DaemonIInv, HealthIsSent, HealthIsTaken, EarlierPhasesAreOver, Running, Over
<1>8. StoppingIsSaidLast'
  BY <1>1, <1>4 DEF DaemonIInv, StoppingIsSaidLast
<1>9. WorkIsTraced' /\ SuccessIsEarned'
  BY <1>1, <1>3 DEF DaemonIInv, WorkIsTraced, SuccessIsEarned
<1> QED BY <1>5, <1>6, <1>7, <1>8, <1>9 DEF DaemonIInv

(* The end of the grace period is a forced end. *)
LEMMA GraceExpiresKeeps ==
    ASSUME DaemonIInv, GraceExpires
    PROVE  DaemonIInv'
<1>1. PICK sgs : sgs \subseteq Signals /\ sgs = signals
  BY DEF DaemonIInv, DaemonTypeOK
<1>2. ForcedEnd(sgs)
  BY <1>1 DEF GraceExpires, ForcedEnd
<1> QED BY <1>1, <1>2, ForcedEndKeeps

(* A second signal is a forced end. *)
LEMMA SecondSignalKeeps ==
    ASSUME DaemonIInv, SecondSignal
    PROVE  DaemonIInv'
<1>1. PICK kind \in signals : ForcedEnd(signals \ {kind})
  BY DEF SecondSignal
<1>2. PICK sgs : sgs \subseteq Signals /\ sgs = signals \ {kind}
  BY DEF DaemonIInv, DaemonTypeOK
<1>3. ForcedEnd(sgs)
  BY <1>1, <1>2 DEF ForcedEnd
<1> QED BY <1>2, <1>3, ForcedEndKeeps

(* The exit chooses the result from the reason, the summary and the close. *)
LEMMA CloseKeeps ==
    ASSUME DaemonIInv, Close
    PROVE  DaemonIInv'
<1>1. /\ at = "close"
      /\ UNCHANGED <<status, ready, health, subscribed, phase, accepting, signals, stopping, summary>>
  BY DEF Close, MainAt
<1>2. CASE summary = "Error"
  <2>1. Return("Runtime", task)
    BY <1>2 DEF Close
  <2>2. /\ DaemonTypeOK /\ ready' \in Flags /\ health' \in [value : BOOLEAN, unseen : BOOLEAN]
        /\ task \in [Tasks -> TaskStates] /\ HealthIsTaken'
    BY <1>1 DEF DaemonIInv, DaemonTypeOK, Flags, HealthIsTaken
  <2>3. PICK tasks \in [Tasks -> TaskStates] : tasks = task
    BY <2>2
  <2>4. Return("Runtime", tasks)
    BY <2>1, <2>3 DEF Return
  <2>5. Exits
    BY <2>2, <2>4, ReturnExits DEF Errors
  <2> QED BY <1>1, <1>2, <2>2, <2>5, ExitKeeps
<1>3. CASE summary # "Error"
  <2>1. /\ at' = "exited" /\ database' \in {"closed", "failed"}
        /\ UNCHANGED <<task, request>>
        /\ result' = IF database' = "failed" THEN ProcessResult("State")
                     ELSE IF stopping = "signal" /\ summary = "Completed" THEN "Success"
                     ELSE ProcessResult("Runtime")
    BY <1>3 DEF Close
  <2>2. result' = "Success" => /\ database' = "closed"
                               /\ stopping = "signal" /\ summary = "Completed"
    BY <2>1, StartupErrors DEF Errors
  <2>3. "exited" \notin StartPoints /\ "exited" \notin AfterSubscription
    BY StartPointNames DEF AfterSubscription
  <2>4. DaemonTypeOK'
    BY <1>1, <2>1 DEF DaemonIInv, DaemonTypeOK, Points
  <2>5. Starting' /\ CachesFollow' /\ Undecided'
    BY <2>1, <2>3 DEF Starting, CachesFollow, Undecided
  <2>6. HealthIsSent' /\ HealthIsTaken' /\ EarlierPhasesAreOver' /\ CompletedIsClean'
    BY <1>1, <2>1 DEF DaemonIInv, HealthIsSent, HealthIsTaken, EarlierPhasesAreOver,
                      CompletedIsClean, Running, Over
  <2>7. StoppingIsSaidLast'
    BY <1>1, <2>1, <2>3 DEF DaemonIInv, StoppingIsSaidLast
  <2>8. SuccessIsEarned'
    BY <1>1, <2>1, <2>2 DEF SuccessIsEarned
  <2>9. WorkIsTraced'
    BY <1>1, <2>1, <2>2 DEF DaemonIInv, WorkIsTraced, Running
  <2> QED BY <2>4, <2>5, <2>6, <2>7, <2>8, <2>9 DEF DaemonIInv
<1> QED BY <1>2, <1>3

-----------------------------------------------------------------------------
(* The theorems. *)

(* The process starts in the invariant. *)
LEMMA InitIsSound ==
    ASSUME Init
    PROVE  DaemonIInv
<1>1. at \in StartPoints /\ at \notin AfterSubscription
      /\ at \notin {"announce", "loop", "shutdown", "drain", "close", "exited"}
  BY StartupNames, StartPointNames DEF Init, AfterSubscription
<1>2. DaemonTypeOK
  <2>1. status \in [operations : Cached, detail : Cached, writing : Cached]
    BY DEF Init, Cached
  <2>2. task \in [Tasks -> TaskStates] /\ request \in [Requests -> RequestStates]
    BY DEF Init, TaskStates, RequestStates
  <2>3. ready \in Flags /\ health \in [value : BOOLEAN, unseen : BOOLEAN]
    BY DEF Init, Flags
  <2>4. at \in Points /\ phase \in 0 .. Len(Phases)
    BY <1>1, EveryTaskHasAPhase DEF Init, Points
  <2> QED BY <2>1, <2>2, <2>3, <2>4 DEF Init, DaemonTypeOK, Cached, Flags
<1>3. Starting /\ HealthIsSent /\ HealthIsTaken /\ CachesFollow
  BY <1>1, EveryTaskHasAPhase
     DEF Init, Starting, HealthIsSent, HealthIsTaken, CachesFollow, Running
<1>4. StoppingIsSaidLast
  BY NothingIsNoStatus DEF Init, StoppingIsSaidLast
<1>5. Undecided /\ EarlierPhasesAreOver /\ CompletedIsClean
  BY DEF Init, Undecided, EarlierPhasesAreOver, CompletedIsClean
<1>6. WorkIsTraced /\ SuccessIsEarned
  BY DEF Init, WorkIsTraced, SuccessIsEarned
<1> QED BY <1>2, <1>3, <1>4, <1>5, <1>6 DEF DaemonIInv

(* Every step of the daemon, its tasks and its administrators preserves the invariant. *)
LEMMA NextIsSound ==
    ASSUME DaemonIInv, [Next]_daemonVars
    PROVE  DaemonIInv'
<1>1. CASE Start
  <2>1. PICK i \in 1 .. 10 : StartStep(i) \/ StartFails(i)
    BY <1>1, StartupNames DEF Start
  <2> QED BY <2>1, StartStepKeeps, StartFailsKeeps
<1>2. CASE Announce BY <1>2, AnnounceKeeps
<1>3. CASE PublishDetail BY <1>3, PublishDetailKeeps
<1>4. CASE RejectNewMutations BY <1>4, RejectNewMutationsKeeps
<1>5. CASE PublishStopping BY <1>5, PublishStoppingKeeps
<1>6. CASE EnterPhase BY <1>6, EnterPhaseKeeps
<1>7. CASE Drained BY <1>7, DrainedKeeps
<1>8. CASE GraceExpires BY <1>8, GraceExpiresKeeps
<1>9. CASE Close BY <1>9, CloseKeeps
<1>10. CASE Joins BY <1>10, OnExitKeeps DEF Joins
<1>11. CASE SecondSignal BY <1>11, SecondSignalKeeps
<1>12. CASE OnSignal BY <1>12, OnSignalKeeps
<1>13. CASE OnHealth BY <1>13, OnHealthKeeps
<1>14. CASE OnHealthClosed BY <1>14, OnHealthClosedKeeps
<1>15. CASE OnTick BY <1>15, OnTickKeeps
<1>16. CASE OnTickFails BY <1>16, OnTickFailsKeeps
<1>17. CASE Work
  BY <1>17, SubscriptionStepKeeps, TaskFailsKeeps, TaskReturnsKeeps, MutationKeeps DEF Work
<1>18. CASE \E kind \in Signals : SignalArrives(kind)
  BY <1>18, SignalArrivesKeeps
<1>19. CASE UNCHANGED daemonVars
  <2>1. DaemonTypeOK'
    BY <1>19 DEF daemonVars, DaemonIInv, DaemonTypeOK
  <2>2. Starting' /\ HealthIsSent' /\ HealthIsTaken' /\ CachesFollow' /\ StoppingIsSaidLast'
    BY <1>19 DEF daemonVars, DaemonIInv, Starting, HealthIsSent, HealthIsTaken, CachesFollow,
                 StoppingIsSaidLast, Running
  <2>3. /\ Undecided' /\ EarlierPhasesAreOver' /\ CompletedIsClean'
        /\ WorkIsTraced' /\ SuccessIsEarned'
    BY <1>19 DEF daemonVars, DaemonIInv, Undecided, EarlierPhasesAreOver, CompletedIsClean,
                 WorkIsTraced, SuccessIsEarned, Running, Over
  <2> QED BY <2>1, <2>2, <2>3 DEF DaemonIInv
<1> QED BY <1>1, <1>2, <1>3, <1>4, <1>5, <1>6, <1>7, <1>8, <1>9, <1>10, <1>11, <1>12, <1>13,
           <1>14, <1>15, <1>16, <1>17, <1>18, <1>19 DEF Next, Main, Proceeds

(* The strengthened invariant of the daemon of runtime_graph.rs. *)
LEMMA DaemonIInvHolds == Spec => []DaemonIInv
BY InitIsSound, NextIsSound, PTL DEF Spec

(* Exit code 0 is only returned by a signalled, completed shutdown with every task back by *)
(* itself, no mutation cut short and the database closed: whatever tasks, connections and  *)
(* signals there are, and however they interleave with the loop.                           *)
THEOREM DaemonInvHolds == Spec => []DaemonInv
<1>1. ASSUME DaemonIInv PROVE DaemonInv
  <2>1. CleanExit
    <3> SUFFICES ASSUME result = "Success" PROVE CleanExit
      BY DEF CleanExit
    <3>1. stopping = "signal" /\ database = "closed" /\ summary = "Completed"
      BY <1>1 DEF DaemonIInv, SuccessIsEarned
    <3>2. \A t \in Tasks : task[t] \notin {"running", "aborted"} /\ (t \in Critical => task[t] # "failed")
      BY <1>1, <3>1 DEF DaemonIInv, CompletedIsClean
    <3>3. ASSUME NEW r \in Requests PROVE request[r] = "idle"
      <4>1. request[r] # "working"
        BY <1>1, <3>2, EveryTaskHasAPhase DEF DaemonIInv, WorkIsTraced, Running
      <4>2. request[r] # "cut"
        BY <1>1, <3>1, <3>2, EveryTaskHasAPhase DEF DaemonIInv, WorkIsTraced
      <4>3. request[r] \in RequestStates
        BY <1>1 DEF DaemonIInv, DaemonTypeOK
      <4> QED BY <4>1, <4>2, <4>3 DEF RequestStates
    <3> QED BY <3>1, <3>2, <3>3 DEF CleanExit
  <2> QED BY <1>1, <2>1 DEF DaemonIInv, DaemonInv
<1> QED BY <1>1, DaemonIInvHolds, PTL

(* Once the loop has taken the last change of the health channel, both caches report ready *)
(* exactly when the source task is subscribed: no loss or recovery is forgotten.           *)
THEOREM ReadinessIsCurrentHolds == Spec => []ReadinessIsCurrent
<1>1. ASSUME DaemonIInv PROVE ReadinessIsCurrent
  <2> SUFFICES ASSUME MainAt("loop"), ~health.unseen, Running("source_subscription")
               PROVE  status.detail.ready = subscribed /\ status.operations = status.detail
    BY DEF ReadinessIsCurrent
  <2>1. status.operations = status.detail /\ status.detail.ready = ready.transport
    BY <1>1 DEF DaemonIInv, CachesFollow, MainAt
  <2>2. ready.transport = health.value /\ health.value = subscribed
    BY <1>1 DEF DaemonIInv, HealthIsTaken, HealthIsSent
  <2> QED BY <2>1, <2>2
<1> QED BY <1>1, DaemonIInvHolds, PTL

(* No mutation of any connection starts once either cache says Stopping. *)
THEOREM StoppingRefusesMutationsHolds == Spec => StoppingRefusesMutations
<1> DEFINE Refuses ==
       \A r \in Requests :
          request[r] = "idle" /\ request'[r] = "working" =>
              "Stopping" \notin {status.operations.phase, status.detail.phase}
<1>1. ASSUME DaemonIInv, [Next]_daemonVars PROVE [Refuses]_daemonVars
  <2> SUFFICES ASSUME Next, NEW r \in Requests, request[r] = "idle", request'[r] = "working"
               PROVE  "Stopping" \notin {status.operations.phase, status.detail.phase}
    BY <1>1
  <2>1. PICK q \in Requests : MutationStarts(q)
    <3>1. ASSUME NEW error, NEW tasks, Return(error, tasks) PROVE FALSE
      BY <3>1 DEF Return
    <3>2. ~Start
      BY <3>1 DEF Start, StartStep, StartFails
    <3>3. ~Announce /\ ~OnTick /\ ~PublishStopping
      BY DEF Announce, OnTick, PublishStopping, Publish, Return
    <3>4. ~OnHealth /\ ~Joins
      BY DEF OnHealth, Joins, OnExit, Publish, Return
    <3>5. ~OnTickFails /\ ~Close
      BY DEF OnTickFails, Close, Return
    <3>6. ~GraceExpires /\ ~SecondSignal
      BY DEF GraceExpires, SecondSignal, ForcedEnd
    <3>7. ~PublishDetail /\ ~RejectNewMutations /\ ~EnterPhase /\ ~Drained
      BY DEF PublishDetail, RejectNewMutations, EnterPhase, Drained, workVars
    <3>8. ~OnSignal /\ ~OnHealthClosed /\ \A kind \in Signals : ~SignalArrives(kind)
      BY DEF OnSignal, OnHealthClosed, SignalArrives, workVars
    <3>9. ~SubscriptionLost /\ ~Resubscribe /\ \A t \in Tasks : ~TaskFails(t) /\ ~TaskReturns(t)
      BY DEF SubscriptionLost, Resubscribe, TaskFails, TaskReturns
    <3>10. \A q \in Requests : ~MutationEnds(q)
      BY <1>1 DEF MutationEnds, DaemonIInv, DaemonTypeOK
    <3> QED BY <3>2, <3>3, <3>4, <3>5, <3>6, <3>7, <3>8, <3>9, <3>10
            DEF Next, Main, Proceeds, Work
  <2>2. accepting
    BY <2>1 DEF MutationStarts
  <2> QED BY <1>1, <2>2 DEF DaemonIInv, StoppingIsSaidLast
<1> QED BY <1>1, DaemonIInvHolds, PTL DEF Spec, StoppingRefusesMutations
=============================================================================
