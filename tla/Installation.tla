---------------------------- MODULE Installation ----------------------------
(***************************************************************************)
(* One installation of rhi as its commands leave it on disk: the           *)
(* configuration document and the identity envelope (files created once),  *)
(* the state database with its schema version, its append-only             *)
(* history of configuration bindings and its dirty trades, the writer's    *)
(* authority over it, and a backup.  Processes run `config init`, `config  *)
(* apply`, `state init`, `state verify`/`migrate`, `state restore`,        *)
(* `identity init` and `run`, each step by step, so that two commands      *)
(* interleave, a process dies between two steps, and the machine loses     *)
(* power before a directory is synced.                                     *)
(*                                                                         *)
(* A document is a model value; DocPolicy, DocKey and DocPath are what the *)
(* digests, the expected public key and the envelope path read from it.    *)
(* Every command samples its wall clock and runs some build: the clock may *)
(* have stepped back and an operator may have upgraded or downgraded, so   *)
(* both are free, and are chosen where the command first uses them.        *)
(***************************************************************************)
EXTENDS Naturals, Sequences, SequencesExt

CONSTANTS
    Docs,           \* admitted configuration documents
    DocPolicy,      \* [Docs -> evidence policy digest]
    DocKey,         \* [Docs -> expected public key]
    DocPath,        \* [Docs -> path of the encrypted envelope]
    ConfigPath,     \* where the configuration document is kept
    Empty,          \* the content of a file that was created and not written
    None,
    Trades,
    Procs,
    MaxVersion,     \* RHI_STATE_SCHEMA_VERSION of the newest build
    MaxTime,        \* bound on clock readings
    MaxBindings,    \* RHI_CONFIG_BINDING_MAX_GENERATIONS
    MaxGeneration,  \* the largest dirty generation
    MaxCommands     \* bound on commands ever started

\* What the code derives from a document: where its envelope is, whose key it
\* expects, and the digest of its evidence sources.
Paths == {DocPath[d] : d \in Docs}
Keys == {DocKey[d] : d \in Docs}
Policies == {DocPolicy[d] : d \in Docs}

\* The schema versions of the builds there are, and the clock readings.
Versions == 1..MaxVersion
Times == 0..MaxTime

\* What stands on disk: a create-once file, by the process that created it and has
\* not reported it yet; a row of the dirty trades; a binding; the database.
Bodies == Docs \cup Keys \cup {Empty}
File == [inode : Procs \cup {None}, body : Bodies, durable : BOOLEAN]
DirtyRow == [generation : 0..MaxGeneration, policy : Policies \cup {None}, at : Times]
Binding == [doc : Docs, version : Versions, at : Times]
State == [version : Versions, history : Seq(Binding), dirty : [Trades -> DirtyRow]]

ASSUME InstallationAssumption ==
    /\ {MaxVersion, MaxBindings, MaxGeneration} \subseteq Nat \ {0}
    /\ {MaxTime, MaxCommands} \subseteq Nat
    /\ ConfigPath \notin Paths
    /\ None \notin Docs \cup Keys \cup Policies \cup Procs \cup Paths \cup {ConfigPath}
    /\ None \notin File /\ None \notin State
    /\ Empty \notin Docs \cup Keys

VARIABLES
    files,      \* [path -> None or the file there]
    db,         \* None or the state database
    holder,     \* the process with the writer's authority, or None
    backup,     \* None or a database as a backup bundle holds it
    proc,       \* [process -> the command it is executing]
    told,       \* paths whose creation a command has reported as done
    swept,      \* history: paths the operator swept under a cleanup under way
    commands    \* how many commands were started

vars == <<files, db, holder, backup, proc, told, swept, commands>>

Idle == [pc |-> "idle", cmd |-> "none", doc |-> None, version |-> 0, at |-> 0,
         path |-> None, body |-> None]

CleanRow == [generation |-> 0, policy |-> None, at |-> 0]

\* A document the operator or the package put in place.
Installed(d) == [inode |-> None, body |-> d, durable |-> TRUE]

Init ==
    /\ \E config \in {None} \cup {Installed(d) : d \in Docs} :
          files = [f \in Paths \cup {ConfigPath} |-> IF f = ConfigPath THEN config ELSE None]
    /\ db = None /\ backup = None /\ holder = None
    /\ proc = [p \in Procs |-> Idle]
    /\ told = {} /\ swept = {} /\ commands = 0

-----------------------------------------------------------------------------
(* Create-once files: the configuration document and the envelope.         *)

\* A reader accepts what was written in full; a file of length zero, or cut
\* short, does not decode.
Readable(f) == files[f] # None /\ files[f].body # Empty

\* The process is done, whatever it answers; its authority goes with it.
Release(p) == holder' = IF holder = p THEN None ELSE holder
Finish(p) == proc' = [proc EXCEPT ![p] = Idle] /\ Release(p)

\* The name still leads to the inode this process created (validate_current).
HoldsName(p) == LET f == proc[p].path IN files[f] # None /\ files[f].inode = p

\* Fault: goes on to the unlink whoever created what the name leads to.
CleanupByName(p) == proc' = [proc EXCEPT ![p].pc = "unlink"] /\ UNCHANGED holder

\* cleanup, first calls: the name is opened and its inode compared.  It goes on only
\* while the name leads to the inode created here, and may fail to learn it.
Cleanup(p) ==
    \/ HoldsName(p) /\ proc' = [proc EXCEPT ![p].pc = "unlink"] /\ UNCHANGED holder
    \/ Finish(p)

\* openat with O_EXCL: an existing name is AlreadyExists and nothing changes.
CreateFile(p) ==
    /\ proc[p].pc = "create"
    /\ LET f == proc[p].path IN
       \/ /\ files[f] = None
          /\ files' = [files EXCEPT ![f] = [inode |-> p, body |-> Empty, durable |-> FALSE]]
          /\ proc' = [proc EXCEPT ![p].pc = "write"]
          /\ UNCHANGED holder
       \/ files[f] # None /\ Finish(p) /\ UNCHANGED files
    /\ UNCHANGED <<db, backup, told, swept, commands>>

\* fchmod, write, sync and the first validation: the bytes reach the inode that
\* was created; if the name no longer leads to it the command cleans up and fails.
WriteFile(p) ==
    /\ proc[p].pc = "write"
    /\ LET f == proc[p].path IN
       \/ /\ HoldsName(p)
          /\ files' = [files EXCEPT ![f].body = proc[p].body]
          /\ proc' = [proc EXCEPT ![p].pc = "sync"]
          /\ UNCHANGED holder
       \/ Cleanup(p) /\ UNCHANGED files
    /\ UNCHANGED <<db, backup, told, swept, commands>>

\* The directory is synced, the file validated once more, and only then is
\* success reported.  Nobody holds the inode afterwards.
SyncParent(p) ==
    /\ proc[p].pc = "sync"
    /\ LET f == proc[p].path IN
       \/ /\ HoldsName(p)
          /\ files' = [files EXCEPT ![f].durable = TRUE, ![f].inode = None]
          /\ told' = told \cup {f}
          /\ Finish(p)
       \/ Cleanup(p) /\ UNCHANGED <<files, told>>
    /\ UNCHANGED <<db, backup, swept, commands>>

\* cleanup, last call: unlinkat takes the name away, whatever it leads to by now.
\* One that fails leaves what a process that dies here leaves.
Unlink(p) ==
    /\ proc[p].pc = "unlink"
    /\ files' = [files EXCEPT ![proc[p].path] = None]
    /\ Finish(p)
    /\ UNCHANGED <<db, backup, told, swept, commands>>

-----------------------------------------------------------------------------
(* Starting a command.                                                     *)

Commands == {"state_init", "verify", "apply", "identity_init", "restore", "run"}

\* Where a command is, by the step it takes next.
Steps == {"idle", "open", "migrate", "bind", "append", "stage", "finalize", "unlock", "serving",
          "create", "write", "sync", "unlink"}
Process == [pc : Steps, cmd : Commands \cup {"config_init", "none"}, doc : Docs \cup {None},
            version : Versions \cup {0}, at : Times,
            path : Paths \cup {ConfigPath, None}, body : Bodies \cup {None}]

\* `config init`: the bytes are parsed before the file is created.
StartConfigInit(p) ==
    /\ proc[p] = Idle /\ commands < MaxCommands
    /\ \E d \in Docs :
          proc' = [proc EXCEPT ![p] = [Idle EXCEPT !.pc = "create", !.cmd = "config_init",
                                                   !.path = ConfigPath, !.body = d]]
    /\ commands' = commands + 1
    /\ UNCHANGED <<files, db, holder, backup, told, swept>>

\* Every other command loads the current document first.
Start(p, cmd) ==
    /\ proc[p] = Idle /\ commands < MaxCommands
    /\ Readable(ConfigPath)
    /\ proc' = [proc EXCEPT ![p] = [Idle EXCEPT !.pc = "open", !.cmd = cmd,
                                                !.doc = files[ConfigPath].body]]
    /\ commands' = commands + 1
    /\ UNCHANGED <<files, db, holder, backup, told, swept>>

-----------------------------------------------------------------------------
(* Opening the state.                                                      *)

\* initialize_database: never over an existing one; the empty catalog is at the
\* base schema version.  A later step migrates it, a third binds it.
Initialize(p) ==
    /\ proc[p].pc = "open" /\ proc[p].cmd = "state_init"
    /\ \/ /\ db = None /\ holder = None
          /\ db' = [version |-> 1, history |-> <<>>, dirty |-> [t \in Trades |-> CleanRow]]
          /\ holder' = p
          /\ proc' = [proc EXCEPT ![p].pc = "migrate"]
       \/ (db # None \/ holder # None) /\ Finish(p) /\ UNCHANGED db
    /\ UNCHANGED <<files, backup, told, swept, commands>>

\* Governed migrations up to the build's schema, in their own transaction.
MigrateTo(p, v) ==
    /\ db' = [db EXCEPT !.version = v]
    /\ proc' = [proc EXCEPT ![p].pc = "bind", ![p].version = v]

Migrate(p) ==
    /\ proc[p].pc = "migrate"
    /\ \E v \in Versions : MigrateTo(p, v)
    /\ UNCHANGED <<files, holder, backup, told, swept, commands>>

\* A database exists, nobody else writes to it, and build v knows its schema.
MayOpen(v) == db # None /\ holder = None /\ db.version <= v

\* open_read_write_existing_with_intent takes the writer's authority and migrates,
\* or is refused.
Open(p) ==
    /\ proc[p].pc = "open" /\ proc[p].cmd # "state_init"
    /\ \E v \in Versions :
          \/ MayOpen(v) /\ holder' = p /\ MigrateTo(p, v)
          \/ ~MayOpen(v) /\ Finish(p) /\ UNCHANGED db
    /\ UNCHANGED <<files, backup, told, swept, commands>>

\* validate_history as a build of version v reads it; generation = index + 1 is
\* the position in the sequence.
ValidHistory(h, v) ==
    \A i \in 1..Len(h) : h[i].version \in 1..v /\ (i > 1 => h[i].at >= h[i - 1].at)

Entry(d, v, at) == [doc |-> d, version |-> v, at |-> at]

\* Fault: a clock that stepped back is recorded as it reads.
InsertedAtAnyTime(h, e) == IF Len(h) < MaxBindings THEN {Append(h, e)} ELSE {}

\* A binding is taken within the capacity and not earlier than the last: both
\* callers check it, and rhi_config_bindings_guard_insert once more.
Inserted(h, e) ==
    IF Len(h) < MaxBindings /\ (h # <<>> => e.at >= Last(h).at) THEN {Append(h, e)} ELSE {}

\* Fault: any document the state was ever bound to passes.
BindEverBound(h, d, v, at) ==
    IF h = <<>> THEN Inserted(h, Entry(d, v, at))
    ELSE IF ~ValidHistory(h, v) \/ \A i \in 1..Len(h) : h[i].doc # d THEN {}
    ELSE IF Last(h).version = v THEN {h}
    ELSE Inserted(h, Entry(d, v, at))

\* bind_or_verify: the histories it may commit, none when it refuses.  An empty
\* table is an interrupted initialization and takes the first binding; a binding
\* of an older build is carried forward; any other difference is refused.
BindOrVerify(h, d, v, at) ==
    IF h = <<>> THEN Inserted(h, Entry(d, v, at))
    ELSE IF ~ValidHistory(h, v) \/ Last(h).doc # d \/ Last(h).version > v THEN {}
    ELSE IF Last(h).version = v THEN {h}
    ELSE Inserted(h, Entry(d, v, at))

\* What `identity init` will create for document d: provisioning refuses material
\* whose key is not the expected one, and a seal that does not open again.
Envelope(d) == [path |-> DocPath[d], body |-> DocKey[d]]

\* What the command does once its state is open and bound.
AfterBind(p) ==
    CASE proc[p].cmd = "run" -> "unlock"
      [] proc[p].cmd = "apply" -> "append"
      [] proc[p].cmd = "identity_init" -> "create"
      [] proc[p].cmd = "restore" -> "stage"
      [] OTHER -> "idle"

\* `identity init` and `restore` close the state here; `state init` and `state
\* verify` are done.
Bind(p) ==
    /\ proc[p].pc = "bind"
    /\ \E at \in Times :
       LET me == proc[p]
           bound == BindOrVerify(db.history, me.doc, me.version, at)
           file == IF me.cmd = "identity_init" THEN Envelope(me.doc)
                   ELSE [path |-> None, body |-> None]
       IN
       \/ /\ \E h \in bound : db' = [db EXCEPT !.history = h]
          /\ proc' = [proc EXCEPT ![p] =
                IF AfterBind(p) = "idle" THEN Idle
                ELSE [me EXCEPT !.pc = AfterBind(p),
                                !.at = IF me.cmd = "apply" THEN at ELSE 0,
                                !.path = file.path, !.body = file.body]]
          /\ holder' = IF AfterBind(p) \in {"unlock", "append"} THEN p ELSE None
       \/ bound = {} /\ Finish(p) /\ UNCHANGED db
    /\ UNCHANGED <<files, backup, told, swept, commands>>

-----------------------------------------------------------------------------
(* config apply, state restore, run.                                       *)

\* Fault: the trades keep the policy they were marked under.
PolicyNotAdvanced(dirty, policy, at) == {dirty}

\* advance_dirty_policy: every row of another policy moves to the next generation
\* under the new one; one row at the limit or from the future refuses them all.
AdvanceDirtyPolicy(dirty, policy, at) ==
    LET stale == {t \in Trades : dirty[t].generation > 0 /\ dirty[t].policy # policy} IN
    IF \E t \in stale : dirty[t].generation >= MaxGeneration \/ at < dirty[t].at
    THEN {}
    ELSE {[t \in Trades |-> IF t \in stale
                            THEN [generation |-> dirty[t].generation + 1, policy |-> policy, at |-> at]
                            ELSE dirty[t]]}

\* append_configuration: the databases it may commit, none when it refuses.
AppendConfiguration(d, current, candidate, v, at) ==
    IF ~ValidHistory(d.history, v) \/ Last(d.history).doc # current \/ Last(d.history).version # v
    THEN {}
    ELSE IF candidate = current THEN {d}
    ELSE {[version |-> d.version, history |-> h, dirty |-> rows] :
             h \in Inserted(d.history, Entry(candidate, v, at)),
             rows \in IF DocPolicy[current] = DocPolicy[candidate] THEN {d.dirty}
                      ELSE AdvanceDirtyPolicy(d.dirty, DocPolicy[candidate], at)}

\* The file itself is not replaced: installing the candidate is the operator's.
ConfigApply(p) ==
    /\ proc[p].pc = "append"
    /\ \E candidate \in Docs :
       LET after == AppendConfiguration(db, proc[p].doc, candidate, proc[p].version, proc[p].at) IN
       \/ \E d \in after : db' = d
       \/ after = {} /\ UNCHANGED db
    /\ Finish(p)
    /\ UNCHANGED <<files, backup, told, swept, commands>>

\* verify_rhi_state_backup, then staging under the writer's authority, taken anew.
Stage(p) ==
    /\ proc[p].pc = "stage"
    /\ \/ /\ backup # None /\ backup.version <= proc[p].version
          /\ holder = None
          /\ holder' = p
          /\ proc' = [proc EXCEPT ![p].pc = "finalize"]
       \/ Finish(p)
    /\ UNCHANGED <<files, db, backup, told, swept, commands>>

\* finalize_rhi_state_restore installs the staged copy in one step.
FinalizeRestore(p) ==
    /\ proc[p].pc = "finalize"
    /\ db' = backup
    /\ Finish(p)
    /\ UNCHANGED <<files, backup, told, swept, commands>>

\* The envelope at f decodes, names this document's identity as its context and
\* holds the key the document expects.
OpensFor(f, d) == Readable(f) /\ files[f].body = DocKey[d]

\* The wrapping credential is an artifact of the deployment: it resolves or not.
Credentials == {"resolved", "refused"}

\* The daemon opens its identity after the binding is verified; on any failure it
\* closes the state and does not start.
Unlock(p) ==
    /\ proc[p].pc = "unlock"
    /\ \E credential \in Credentials :
       LET f == DocPath[proc[p].doc]
           opens == credential = "resolved" /\ OpensFor(f, proc[p].doc) IN
       \/ /\ opens
          /\ proc' = [proc EXCEPT ![p].pc = "serving", ![p].body = files[f].body]
          /\ UNCHANGED holder
       \/ ~opens /\ Finish(p)
    /\ UNCHANGED <<files, db, backup, told, swept, commands>>

Serving(p) == proc[p].pc = "serving"

\* A committed source result advances its trade under the daemon's policy
\* (advance_dirty_generation); a row of another policy, or from the future,
\* refuses it.
Ingest(p, t) ==
    /\ Serving(p)
    /\ db.dirty[t].generation > 0 => db.dirty[t].policy = DocPolicy[proc[p].doc]
    /\ db.dirty[t].generation < MaxGeneration
    /\ \E at \in db.dirty[t].at..MaxTime :
          db' = [db EXCEPT !.dirty[t] = [generation |-> @.generation + 1,
                                         policy |-> DocPolicy[proc[p].doc], at |-> at]]
    /\ UNCHANGED <<files, holder, backup, proc, told, swept, commands>>

\* The running daemon writes a backup of its own state.
Backup(p) ==
    /\ Serving(p)
    /\ backup' = db
    /\ UNCHANGED <<files, db, holder, proc, told, swept, commands>>

Stop(p) ==
    /\ Serving(p)
    /\ Finish(p)
    /\ UNCHANGED <<files, db, backup, told, swept, commands>>

-----------------------------------------------------------------------------
(* The operator and the machine.                                           *)

\* The operator installs a document as the configuration file, atomically.
InstallDocument ==
    /\ Readable(ConfigPath)
    /\ \E d \in Docs \ {files[ConfigPath].body} :
          files' = [files EXCEPT ![ConfigPath] = Installed(d)]
    /\ UNCHANGED <<db, holder, backup, proc, told, swept, commands>>

\* A cleanup has compared the inode at f and has not unlinked the name.
UnderCleanup(f) ==
    \E p \in Procs : proc[p].pc = "unlink" /\ proc[p].path = f /\ HoldsName(p)

\* The operator removes what an interrupted command left behind, or what a command
\* that is still cleaning up is about to remove.
RemoveUnwritten(f) ==
    /\ files[f] # None /\ files[f].body = Empty
    /\ files' = [files EXCEPT ![f] = None]
    /\ swept' = IF UnderCleanup(f) THEN swept \cup {f} ELSE swept
    /\ UNCHANGED <<db, holder, backup, proc, told, commands>>

\* A process dies; the operating system releases its locks.
Crash(p) ==
    /\ proc[p] # Idle
    /\ Finish(p)
    /\ UNCHANGED <<files, db, backup, told, swept, commands>>

\* The machine stops.  A name whose directory was not synced may be gone, or lead
\* to a file without its bytes.
PowerLoss ==
    /\ \E p \in Procs : proc[p] # Idle
    /\ \E fs \in [DOMAIN files -> {"kept", "lost", "emptied"}] :
          /\ \A f \in DOMAIN files : fs[f] # "kept" => files[f] # None /\ ~files[f].durable
          /\ files' = [f \in DOMAIN files |->
                         IF files[f] = None \/ fs[f] = "lost" THEN None
                         ELSE [inode |-> None, durable |-> TRUE,
                               body |-> IF fs[f] = "emptied" THEN Empty ELSE files[f].body]]
    /\ proc' = [p \in Procs |-> Idle]
    /\ holder' = None
    /\ UNCHANGED <<db, backup, told, swept, commands>>

Next ==
    \/ \E p \in Procs :
          \/ StartConfigInit(p) \/ \E cmd \in Commands : Start(p, cmd)
          \/ CreateFile(p) \/ WriteFile(p) \/ SyncParent(p) \/ Unlink(p)
          \/ Initialize(p) \/ Open(p) \/ Migrate(p) \/ Bind(p)
          \/ ConfigApply(p) \/ Stage(p) \/ FinalizeRestore(p)
          \/ Unlock(p) \/ Backup(p) \/ Stop(p) \/ \E t \in Trades : Ingest(p, t)
          \/ Crash(p)
    \/ InstallDocument \/ PowerLoss
    \/ \E f \in DOMAIN files : RemoveUnwritten(f)

Spec == Init /\ [][Next]_vars
-----------------------------------------------------------------------------
(* Properties.                                                             *)

\* Files, database, backup and processes have the shapes the code decodes.
InstallationTypeOK ==
    /\ files \in [Paths \cup {ConfigPath} -> File \cup {None}]
    /\ \A d \in {db, backup} \ {None} : d \in State /\ Len(d.history) <= MaxBindings
    /\ holder \in Procs \cup {None}
    /\ told \subseteq DOMAIN files /\ swept \subseteq DOMAIN files
    /\ proc \in [Procs -> Process]

\* A daemon that serves holds the writer's authority over a database whose last
\* binding is its own document and build, and signs with the key that document
\* expects: no apply, upgrade, restore or initialization came between the moment it
\* verified the binding and now (run_rhi_daemon, bind_or_verify).
ServesWhatIsBound ==
    \A p \in Procs : Serving(p) =>
        LET b == Last(db.history) IN
        /\ holder = p
        /\ b.doc = proc[p].doc /\ b.version = proc[p].version /\ db.version = b.version
        /\ proc[p].body = DocKey[b.doc]

\* Every build that may open the state can read its binding history: generations
\* within the capacity, times in order, no version newer than the schema
\* (validate_history).  A history that fails here closes the state for good.
HistoryStaysReadable ==
    \A d \in {db, backup} \ {None} : ValidHistory(d.history, d.version)

\* The state and its backup keep the shape every later command can open.
InstallationInv == InstallationTypeOK /\ HistoryStaysReadable

\* Every dirty trade is under the evidence policy of the last binding, across
\* applies, upgrades and restores: advance_dirty_generation refuses any other, so
\* a row left behind would stop the subscription of every later daemon.
DirtyFollowsPolicy ==
    \A d \in {db, backup} \ {None} : \A t \in Trades :
        d.dirty[t].generation > 0 =>
            d.history # <<>> /\ d.dirty[t].policy = DocPolicy[Last(d.history).doc]

\* A file whose creation was reported as done is there, whole, whatever crashes,
\* power losses, cleanups and later commands follow (persist_create_new), except at
\* a name the operator swept between the two calls of a cleanup: the unlink that is
\* still to come takes it from whoever creates it next.
ReportedFilesStay == \A f \in told \ swept : Readable(f)

\* Without that exception, what comparing the inode first is there for (cleanup):
\* nothing but the file a failed command created itself goes with it.
CleanupSparesOthers == \A f \in told : Readable(f)
=============================================================================
