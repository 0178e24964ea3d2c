------------------------- MODULE InstallationProofs -------------------------
(***************************************************************************)
(* What the commands of an installation keep, proved for any documents,    *)
(* trades and processes, any number of builds, bindings and clock          *)
(* readings, under crashes and power loss between any two steps: the state *)
(* and its backup stay readable (InstallationInv), a serving daemon is the *)
(* bound one (ServesWhatIsBound), dirty trades follow the bound policy     *)
(* (DirtyFollowsPolicy), and a reported file stays (ReportedFilesStay).    *)
(*                                                                         *)
(* The argument has two halves that share only the processes.  The state:  *)
(* between taking the writer's authority and giving it up a process is     *)
(* alone, so what it has read of the database (that it exists, its schema, *)
(* its last binding) is still true at its later steps.  The files: a name  *)
(* that leads to the inode a process created holds what that process wrote *)
(* there, a reported file belongs to nobody, and whoever is about to       *)
(* unlink a name found its own file there, which only the operator can     *)
(* have taken away since.                                                  *)
(***************************************************************************)
EXTENDS Installation, TLAPS

-----------------------------------------------------------------------------
(* Histories of bindings. *)

(* An inserted binding is the last one, within the capacity, and leaves a readable history *)
(* readable for every build that knows its version.                                        *)
LEMMA InsertedFacts ==
    ASSUME NEW h \in Seq(Binding), NEW e \in Binding, NEW g \in Inserted(h, e)
    PROVE  /\ g \in Seq(Binding) /\ Len(g) <= MaxBindings
           /\ g # <<>> /\ Last(g) = e
           /\ \A v \in Versions : ValidHistory(h, v) /\ e.version <= v => ValidHistory(g, v)
<1>1. /\ Len(h) < MaxBindings /\ g = Append(h, e)
      /\ h # <<>> => e.at >= Last(h).at
  BY DEF Inserted
<1>2. MaxBindings \in Nat /\ Len(h) \in Nat
  BY InstallationAssumption
<1>3. /\ g \in Seq(Binding) /\ Len(g) = Len(h) + 1 /\ g[Len(h) + 1] = e
      /\ \A i \in 1..Len(h) : g[i] = h[i]
  BY <1>1
<1>4. g # <<>> /\ Last(g) = e /\ Len(g) <= MaxBindings
  BY <1>1, <1>2, <1>3 DEF Last
<1>5. ASSUME NEW v \in Versions, ValidHistory(h, v), e.version <= v
      PROVE  ValidHistory(g, v)
  <2> SUFFICES ASSUME NEW i \in 1..Len(g)
               PROVE  g[i].version \in 1..v /\ (i > 1 => g[i].at >= g[i - 1].at)
    BY DEF ValidHistory
  <2>1. CASE i \in 1..Len(h)
    <3>1. h[i].version \in 1..v /\ (i > 1 => h[i].at >= h[i - 1].at)
      BY <1>5, <2>1 DEF ValidHistory
    <3>2. g[i] = h[i] /\ (i > 1 => g[i - 1] = h[i - 1])
      BY <1>2, <1>3, <2>1
    <3> QED BY <3>1, <3>2
  <2>2. CASE i = Len(h) + 1
    <3>1. e.version \in 1..v
      BY <1>5 DEF Binding, Versions
    <3>2. i > 1 => h # <<>> /\ g[i - 1] = Last(h)
      BY <1>2, <1>3, <2>2 DEF Last
    <3> QED BY <1>1, <1>3, <2>2, <3>1, <3>2
  <2> QED BY <1>2, <1>3, <2>1, <2>2
<1> QED BY <1>3, <1>4, <1>5

(* A binding by this document, build and clock is one. *)
LEMMA EntryFacts ==
    ASSUME NEW d \in Docs, NEW v \in Versions, NEW at \in Times
    PROVE  /\ Entry(d, v, at) \in Binding
           /\ Entry(d, v, at).doc = d /\ Entry(d, v, at).version = v
BY DEF Entry, Binding

(* bind_or_verify leaves a history that ends with this document and build, and replaces no *)
(* other document's binding.                                                               *)
LEMMA BindFacts ==
    ASSUME NEW h \in Seq(Binding), NEW d \in Docs, NEW v \in Versions, NEW at \in Times,
           NEW g \in BindOrVerify(h, d, v, at),
           ValidHistory(h, v), Len(h) <= MaxBindings
    PROVE  /\ g \in Seq(Binding) /\ Len(g) <= MaxBindings /\ ValidHistory(g, v)
           /\ g # <<>> /\ Last(g).doc = d /\ Last(g).version = v
           /\ h # <<>> => Last(h).doc = d
<1> DEFINE e == Entry(d, v, at)
<1>1. e \in Binding /\ e.doc = d /\ e.version = v /\ e.version <= v
  BY EntryFacts DEF Versions
<1>2. CASE h = <<>> \/ (Last(h).doc = d /\ g \in Inserted(h, e))
  <2>1. g \in Inserted(h, e)
    BY <1>2 DEF BindOrVerify
  <2> HIDE DEF e
  <2> QED BY <1>1, <1>2, <2>1, InsertedFacts
<1>3. CASE h # <<>> /\ Last(h).doc = d /\ Last(h).version = v /\ g = h
  BY <1>3
<1>4. h # <<>> => Last(h).doc = d /\ (g \in Inserted(h, e) \/ (Last(h).version = v /\ g = h))
  BY DEF BindOrVerify
<1> QED BY <1>2, <1>3, <1>4

-----------------------------------------------------------------------------
(* The state and its backup. *)

(* Every dirty trade of d is under the policy of its last binding. *)
DirtyAgrees(d) ==
    \A t \in Trades : d.dirty[t].generation > 0 =>
        d.history # <<>> /\ d.dirty[t].policy = DocPolicy[Last(d.history).doc]

(* A database that every later command can open. *)
Sound(d) ==
    /\ d \in State /\ Len(d.history) <= MaxBindings
    /\ ValidHistory(d.history, d.version)
    /\ DirtyAgrees(d)

StateIsSound ==
    /\ db # None => Sound(db)
    /\ backup # None => Sound(backup)

(* A newer build reads what an older one could. *)
LEMMA NewerBuildReads ==
    ASSUME NEW h \in Seq(Binding), NEW v \in Versions, NEW w \in Versions, v <= w,
           ValidHistory(h, v)
    PROVE  ValidHistory(h, w)
BY DEF ValidHistory, Versions

(* A migration keeps the state sound. *)
LEMMA MigratedIsSound ==
    ASSUME NEW d, Sound(d), NEW v \in Versions, d.version <= v
    PROVE  /\ Sound([d EXCEPT !.version = v])
           /\ [d EXCEPT !.version = v].version = v
           /\ [d EXCEPT !.version = v].history = d.history
<1> DEFINE e == [d EXCEPT !.version = v]
<1>1. d \in State
  BY DEF Sound
<1>2. e \in State /\ e.version = v /\ e.history = d.history /\ e.dirty = d.dirty
  BY <1>1 DEF State
<1> HIDE DEF e
<1>3. d.history \in Seq(Binding) /\ d.version \in Versions
  BY <1>1 DEF State
<1>4. ValidHistory(e.history, e.version)
  BY <1>2, <1>3, NewerBuildReads DEF Sound
<1>5. DirtyAgrees(e)
  BY <1>2 DEF Sound, DirtyAgrees
<1>6. Sound(e)
  BY <1>2, <1>4, <1>5 DEF Sound
<1> QED BY <1>2, <1>6 DEF e

(* The first catalog is sound. *)
LEMMA FreshIsSound ==
    LET d == [version |-> 1, history |-> <<>>, dirty |-> [t \in Trades |-> CleanRow]]
    IN  Sound(d) /\ d.version = 1
<1> DEFINE d == [version |-> 1, history |-> <<>>, dirty |-> [t \in Trades |-> CleanRow]]
<1>1. CleanRow \in DirtyRow /\ CleanRow.generation = 0
  BY InstallationAssumption DEF CleanRow, DirtyRow, Times
<1>2. 1 \in Versions /\ <<>> \in Seq(Binding) /\ Len(<<>>) <= MaxBindings
  BY InstallationAssumption DEF Versions
<1>3. d \in State
  BY <1>1, <1>2 DEF State
<1>4. ValidHistory(d.history, d.version)
  BY DEF ValidHistory
<1>5. DirtyAgrees(d)
  BY <1>1 DEF DirtyAgrees
<1> QED BY <1>2, <1>3, <1>4, <1>5 DEF Sound

(* A bound history keeps the state sound: it never changes the document under dirty trades. *)
LEMMA BoundIsSound ==
    ASSUME NEW d, Sound(d), NEW doc \in Docs, NEW at \in Times,
           NEW h \in BindOrVerify(d.history, doc, d.version, at)
    PROVE  /\ Sound([d EXCEPT !.history = h])
           /\ [d EXCEPT !.history = h].version = d.version
           /\ [d EXCEPT !.history = h].history = h
           /\ h # <<>> /\ Last(h).doc = doc /\ Last(h).version = d.version
<1> DEFINE e == [d EXCEPT !.history = h]
<1>1. d \in State /\ d.history \in Seq(Binding) /\ d.version \in Versions
  BY DEF Sound, State
<1>2. /\ h \in Seq(Binding) /\ Len(h) <= MaxBindings /\ ValidHistory(h, d.version)
      /\ h # <<>> /\ Last(h).doc = doc /\ Last(h).version = d.version
      /\ d.history # <<>> => Last(d.history).doc = doc
  BY <1>1, BindFacts DEF Sound
<1>3. e \in State /\ e.version = d.version /\ e.history = h /\ e.dirty = d.dirty
  BY <1>1, <1>2 DEF State
<1> HIDE DEF e
<1>4. DirtyAgrees(e)
  BY <1>2, <1>3 DEF Sound, DirtyAgrees
<1>5. Sound(e)
  BY <1>2, <1>3, <1>4 DEF Sound
<1> QED BY <1>2, <1>3, <1>5 DEF e

(* advance_dirty_policy leaves every dirty trade under the policy it was asked for. *)
LEMMA AdvancedFacts ==
    ASSUME NEW dirty \in [Trades -> DirtyRow], NEW policy \in Policies, NEW at \in Times,
           NEW rows \in AdvanceDirtyPolicy(dirty, policy, at)
    PROVE  /\ rows \in [Trades -> DirtyRow]
           /\ \A t \in Trades : rows[t].generation > 0 => rows[t].policy = policy
<1> DEFINE stale == {t \in Trades : dirty[t].generation > 0 /\ dirty[t].policy # policy}
           next(t) == [generation |-> dirty[t].generation + 1, policy |-> policy, at |-> at]
<1>1. /\ \A t \in stale : ~(dirty[t].generation >= MaxGeneration)
      /\ rows = [t \in Trades |-> IF t \in stale THEN next(t) ELSE dirty[t]]
  BY DEF AdvanceDirtyPolicy
<1>2. ASSUME NEW t \in Trades
      PROVE  rows[t] \in DirtyRow /\ (rows[t].generation > 0 => rows[t].policy = policy)
  <2>1. dirty[t] \in DirtyRow /\ dirty[t].generation \in 0..MaxGeneration
    BY DEF DirtyRow
  <2>2. CASE t \in stale
    <3>1. dirty[t].generation + 1 \in 0..MaxGeneration
      <4>1. MaxGeneration \in Nat /\ ~(dirty[t].generation >= MaxGeneration)
        BY <1>1, <2>2, InstallationAssumption
      <4> HIDE DEF stale
      <4> QED BY <2>1, <4>1
    <3>2. next(t) \in DirtyRow /\ next(t).policy = policy
      BY <3>1 DEF DirtyRow
    <3> QED BY <1>1, <2>2, <3>2
  <2>3. CASE t \notin stale
    <3>1. rows[t] = dirty[t] /\ (dirty[t].generation > 0 => dirty[t].policy = policy)
      BY <1>1, <2>3
    <3> QED BY <2>1, <3>1
  <2> QED BY <2>2, <2>3
<1> QED BY <1>1, <1>2

(* append_configuration keeps the state sound: when the candidate's policy is another, *)
(* every dirty trade moves to it in the same transaction.                              *)
LEMMA AppliedIsSound ==
    ASSUME NEW d, Sound(d), d.history # <<>>, NEW current \in Docs, NEW candidate \in Docs,
           NEW at \in Times, NEW e \in AppendConfiguration(d, current, candidate, d.version, at)
    PROVE  Sound(e)
<1>1. /\ d \in State /\ d.history \in Seq(Binding) /\ d.version \in Versions
      /\ d.dirty \in [Trades -> DirtyRow] /\ ValidHistory(d.history, d.version)
  BY DEF Sound, State
<1> DEFINE H == Inserted(d.history, Entry(candidate, d.version, at))
           R == IF DocPolicy[current] = DocPolicy[candidate] THEN {d.dirty}
                ELSE AdvanceDirtyPolicy(d.dirty, DocPolicy[candidate], at)
           refused == ~ValidHistory(d.history, d.version) \/ Last(d.history).doc # current
                         \/ Last(d.history).version # d.version
           written == {[version |-> d.version, history |-> h, dirty |-> rows] : h \in H, rows \in R}
<1>a. e \in IF refused THEN {} ELSE IF candidate = current THEN {d} ELSE written
  BY DEF AppendConfiguration
<1>b. ~refused /\ (candidate = current => e = d) /\ (candidate # current => e \in written)
  <2> HIDE DEF refused, written
  <2> QED BY <1>a
<1>2. Last(d.history).doc = current /\ (e = d \/ candidate # current)
  BY <1>b
<1>3. ASSUME candidate # current
      PROVE  \E h \in H : \E rows \in R : e = [version |-> d.version, history |-> h, dirty |-> rows]
  <2> HIDE DEF H, R
  <2> QED BY <1>b, <1>3
<1>4. CASE candidate # current
  <2>1. PICK h \in H, rows \in R : e = [version |-> d.version, history |-> h, dirty |-> rows]
    BY <1>3, <1>4
  <2> DEFINE entry == Entry(candidate, d.version, at)
  <2>2. /\ entry \in Binding /\ entry.doc = candidate /\ entry.version <= d.version
    BY <1>1, EntryFacts DEF Versions
  <2>3. h \in Inserted(d.history, entry)
    BY <2>1
  <2> HIDE DEF entry
  <2>4. /\ h \in Seq(Binding) /\ Len(h) <= MaxBindings /\ h # <<>> /\ Last(h).doc = candidate
        /\ ValidHistory(h, d.version)
    BY <1>1, <2>2, <2>3, InsertedFacts
  <2>5. /\ rows \in [Trades -> DirtyRow]
        /\ \A t \in Trades : rows[t].generation > 0 => rows[t].policy = DocPolicy[candidate]
    <3>1. CASE DocPolicy[current] = DocPolicy[candidate]
      <4>1. rows = d.dirty
        BY <2>1, <3>1
      <4> QED BY <1>1, <1>2, <3>1, <4>1 DEF Sound, DirtyAgrees
    <3>2. CASE DocPolicy[current] # DocPolicy[candidate]
      <4>1. rows \in AdvanceDirtyPolicy(d.dirty, DocPolicy[candidate], at)
        BY <2>1, <3>2
      <4>2. DocPolicy[candidate] \in Policies
        BY DEF Policies
      <4> QED BY <1>1, <4>1, <4>2, AdvancedFacts
    <3> QED BY <3>1, <3>2
  <2>6. e \in State /\ e.version = d.version /\ e.history = h /\ e.dirty = rows
    BY <1>1, <2>1, <2>4, <2>5 DEF State
  <2>7. DirtyAgrees(e)
    BY <2>4, <2>5, <2>6 DEF DirtyAgrees
  <2> QED BY <2>4, <2>6, <2>7 DEF Sound
<1> QED BY <1>2, <1>4

(* A source result under the policy of the last binding keeps the state sound. *)
LEMMA IngestedIsSound ==
    ASSUME NEW d, Sound(d), d.history # <<>>, NEW t \in Trades, NEW at \in Times,
           d.dirty[t].generation < MaxGeneration, Last(d.history).doc \in Docs
    PROVE  LET row == [generation |-> d.dirty[t].generation + 1,
                       policy |-> DocPolicy[Last(d.history).doc], at |-> at]
               e == [d EXCEPT !.dirty = [@ EXCEPT ![t] = row]]
           IN  Sound(e) /\ e.history = d.history /\ e.version = d.version
<1> DEFINE row == [generation |-> d.dirty[t].generation + 1,
                   policy |-> DocPolicy[Last(d.history).doc], at |-> at]
           rows == [d.dirty EXCEPT ![t] = row]
           e == [d EXCEPT !.dirty = rows]
<1>1. /\ d \in State /\ d.history \in Seq(Binding) /\ d.version \in Versions
      /\ d.dirty \in [Trades -> DirtyRow] /\ ValidHistory(d.history, d.version)
  BY DEF Sound, State
<1>2. d.dirty[t].generation + 1 \in 0..MaxGeneration
  BY <1>1, InstallationAssumption DEF DirtyRow
<1>3. row \in DirtyRow /\ row.policy = DocPolicy[Last(d.history).doc]
  BY <1>2 DEF DirtyRow, Policies
<1> HIDE DEF row
<1>4. rows \in [Trades -> DirtyRow] /\ \A u \in Trades : rows[u] = IF u = t THEN row ELSE d.dirty[u]
  BY <1>1, <1>3
<1> HIDE DEF rows
<1>5. e \in State /\ e.version = d.version /\ e.history = d.history /\ e.dirty = rows
  BY <1>1, <1>4 DEF State
<1> HIDE DEF e
<1>6. DirtyAgrees(e)
  BY <1>3, <1>4, <1>5 DEF Sound, DirtyAgrees
<1>7. Sound(e) /\ e.history = d.history /\ e.version = d.version
  BY <1>1, <1>5, <1>6 DEF Sound
<1> QED BY <1>7 DEF e, rows, row

-----------------------------------------------------------------------------
(* The inductive invariant. *)

(* The steps a process takes with the writer's authority, and those with a file it is making. *)
AtWork == {"migrate", "bind", "append", "unlock", "serving", "finalize"}
Creating == {"create", "write", "sync", "unlink"}

(* What a process that has the authority knows of the state, by its step. *)
WorkOk(p) ==
    LET me == proc[p]
        b == Last(db.history) IN
    /\ me.pc \in AtWork => holder = p
    /\ me.pc \in AtWork \cup {"open", "stage"} => me.doc \in Docs
    /\ me.pc \in AtWork \ {"finalize"} => db # None
    /\ me.pc = "migrate" => db.version = 1
    /\ me.pc \in AtWork \ {"finalize", "migrate"} =>
          me.version \in Versions /\ db.version = me.version
    /\ me.pc \in {"append", "unlock", "serving"} =>
          db.history # <<>> /\ b.doc = me.doc /\ b.version = me.version
    /\ me.pc = "finalize" => backup # None
    /\ me.pc = "serving" => me.body = DocKey[me.doc]

(* A process that makes a file knows where and with what; when it has written it and the *)
(* name still leads to its inode, the bytes are there.  When it is about to unlink a name *)
(* nobody swept, what is there was reported by nobody: its own file, or a document the    *)
(* operator put over it.                                                                  *)
FileOk(p) ==
    LET me == proc[p] IN
    /\ me.pc \in Creating =>
          /\ me.path \in Paths \cup {ConfigPath} /\ me.body \in Docs \cup Keys
          /\ me.path = ConfigPath => me.body \in Docs
    /\ me.pc = "sync" /\ HoldsName(p) => files[me.path].body # Empty
    /\ me.pc = "unlink" /\ me.path \notin swept =>
          /\ me.path \notin told /\ files[me.path] # None
          /\ files[me.path].inode \in {p, None}
          /\ files[me.path].inode = None => files[me.path].body # Empty

(* Two processes about to unlink one name, which nobody swept. *)
Rivals(p, q) ==
    /\ proc[p].pc = "unlink" /\ proc[q].pc = "unlink"
    /\ proc[p].path = proc[q].path /\ proc[p].path \notin swept

NoRivals == \A p \in Procs : \A q \in Procs \ {p} : ~Rivals(p, q)

ConfigIsADocument == files[ConfigPath] # None => files[ConfigPath].body \in Docs \cup {Empty}

(* A reported file, at a name that was not swept, is whole, survives a power loss, and no *)
(* process takes it for its own.                                                         *)
ToldAreSettled ==
    \A f \in told \ swept : Readable(f) /\ files[f].inode = None /\ files[f].durable

FilesHalf ==
    /\ files \in [Paths \cup {ConfigPath} -> File \cup {None}]
    /\ told \subseteq Paths \cup {ConfigPath} /\ swept \subseteq Paths \cup {ConfigPath}
    /\ \A p \in Procs : FileOk(p)
    /\ NoRivals
    /\ ConfigIsADocument
    /\ ToldAreSettled

StateHalf ==
    /\ holder \in Procs \cup {None}
    /\ StateIsSound
    /\ \A p \in Procs : WorkOk(p)

InstallationIInv == proc \in [Procs -> Process] /\ FilesHalf /\ StateHalf

-----------------------------------------------------------------------------
(* What a step leaves alone. *)

(* The step is p's alone. *)
Moved(p) ==
    /\ proc' \in [Procs -> Process]
    /\ \A q \in Procs \ {p} : proc'[q] = proc[q]

(* One process' record changes. *)
LEMMA MoveFacts ==
    ASSUME NEW p \in Procs, NEW r \in Process, proc \in [Procs -> Process],
           proc' = [proc EXCEPT ![p] = r]
    PROVE  Moved(p) /\ proc'[p] = r
BY DEF Moved

(* The record of no command is one. *)
LEMMA IdleFacts ==
    /\ Idle \in Process
    /\ Idle.pc = "idle" /\ Idle.cmd = "none" /\ Idle.doc = None /\ Idle.version = 0
    /\ Idle.at = 0 /\ Idle.path = None /\ Idle.body = None
BY InstallationAssumption DEF Idle, Process, Steps, Times

(* A process that finishes is idle, and no other loses its authority. *)
LEMMA FinishFacts ==
    ASSUME NEW p \in Procs, proc \in [Procs -> Process], holder \in Procs \cup {None}, Finish(p)
    PROVE  /\ Moved(p) /\ proc'[p].pc = "idle"
           /\ holder' \in Procs \cup {None}
           /\ \A q \in Procs \ {p} : holder = q => holder' = q
<1>1. proc' = [proc EXCEPT ![p] = Idle]
  BY DEF Finish
<1>2. Moved(p) /\ proc'[p] = Idle
  BY <1>1, IdleFacts, MoveFacts
<1>3. holder' = IF holder = p THEN None ELSE holder
  BY DEF Finish, Release
<1> QED BY <1>2, <1>3, IdleFacts

(* Whoever is at work has the authority: a step that needs it disturbs nobody's work. *)
LEMMA SoleWorker ==
    ASSUME NEW p \in Procs, StateHalf, holder = p \/ holder = None
    PROVE  \A q \in Procs \ {p} : proc[q].pc \notin AtWork
BY InstallationAssumption DEF StateHalf, WorkOk

(* The state half survives when p's own part does and nobody at work is disturbed. *)
LEMMA StateKept ==
    ASSUME NEW p \in Procs, StateHalf, Moved(p),
           holder' \in Procs \cup {None}, StateIsSound', WorkOk(p)',
           \A q \in Procs \ {p} :
               proc[q].pc \in AtWork => holder' = holder /\ db' = db /\ backup' = backup
    PROVE  StateHalf'
<1>1. ASSUME NEW q \in Procs \ {p} PROVE WorkOk(q)'
  <2>1. WorkOk(q) /\ proc'[q] = proc[q]
    BY DEF StateHalf, Moved
  <2>2. CASE proc[q].pc \in AtWork
    BY <2>1, <2>2 DEF WorkOk
  <2>3. CASE proc[q].pc \notin AtWork
    BY <2>1, <2>3 DEF WorkOk, AtWork
  <2> QED BY <2>2, <2>3
<1> QED BY <1>1 DEF StateHalf

(* A step that leaves the database and the backup alone, and ends p's work, keeps the state half. *)
LEMMA StateRests ==
    ASSUME NEW p \in Procs, StateHalf, Moved(p), db' = db, backup' = backup,
           holder' \in Procs \cup {None},
           \A q \in Procs \ {p} : holder = q => holder' = q,
           proc'[p].pc \notin AtWork,
           proc'[p].pc \in {"open", "stage"} => proc'[p].doc \in Docs
    PROVE  StateHalf'
<1>1. StateIsSound'
  BY DEF StateHalf, StateIsSound
<1>2. WorkOk(p)'
  BY DEF WorkOk, AtWork
<1>3. \A q \in Procs \ {p} :
         proc[q].pc \in AtWork => holder' = holder /\ db' = db /\ backup' = backup
  BY DEF StateHalf, WorkOk
<1> QED BY <1>1, <1>2, <1>3, StateKept

(* The files half survives when p's own part does, p goes to unlink only a name that is   *)
(* nobody else's, and no file another process made, or is about to unlink, changes under  *)
(* it.                                                                                    *)
LEMMA FilesKept ==
    ASSUME NEW p \in Procs, FilesHalf, Moved(p), swept' = swept,
           files' \in [Paths \cup {ConfigPath} -> File \cup {None}],
           told' \subseteq Paths \cup {ConfigPath},
           FileOk(p)', ConfigIsADocument', ToldAreSettled',
           \A q \in Procs \ {p} : ~Rivals(p, q)',
           \A q \in Procs \ {p} : \A f \in Paths \cup {ConfigPath} :
               files'[f] # None /\ files'[f].inode = q => files'[f] = files[f],
           \A q \in Procs \ {p} : proc[q].pc = "unlink" /\ proc[q].path \notin swept =>
               /\ files'[proc[q].path] = files[proc[q].path]
               /\ proc[q].path \in told' => proc[q].path \in told
    PROVE  FilesHalf'
<1>1. ASSUME NEW q \in Procs \ {p} PROVE FileOk(q)'
  <2>1. FileOk(q) /\ proc'[q] = proc[q]
    BY DEF FilesHalf, Moved
  <2> QED BY <2>1 DEF FileOk, HoldsName, Creating
<1>2. NoRivals'
  <2>1. ASSUME NEW q \in Procs, NEW r \in Procs \ {q}, Rivals(q, r)' PROVE FALSE
    <3>1. CASE q = p \/ r = p
      BY <2>1, <3>1 DEF Rivals
    <3>2. CASE q # p /\ r # p
      <4>1. proc'[q] = proc[q] /\ proc'[r] = proc[r]
        BY <3>2 DEF Moved
      <4> QED BY <2>1, <4>1 DEF Rivals, NoRivals, FilesHalf
    <3> QED BY <3>1, <3>2
  <2> QED BY <2>1 DEF NoRivals
<1> QED BY <1>1, <1>2 DEF FilesHalf

(* A step that leaves the files alone and makes none keeps the files half. *)
LEMMA FilesRest ==
    ASSUME NEW p \in Procs, FilesHalf, Moved(p), UNCHANGED <<files, told, swept>>,
           proc'[p].pc \notin Creating
    PROVE  FilesHalf'
<1>1. FileOk(p)'
  BY DEF FileOk, Creating
<1>2. ConfigIsADocument' /\ ToldAreSettled'
  BY DEF FilesHalf, ConfigIsADocument, ToldAreSettled, Readable
<1>3. \A q \in Procs \ {p} : ~Rivals(p, q)'
  BY DEF Rivals, Creating
<1> QED BY <1>1, <1>2, <1>3, FilesKept DEF FilesHalf

-----------------------------------------------------------------------------
(* Initial states, and the steps that end or begin a command. *)

(* A document in place is a file that is written, nobody's and durable. *)
LEMMA InstalledFacts ==
    ASSUME NEW d \in Docs
    PROVE  /\ Installed(d) \in File /\ Installed(d).body = d
           /\ Installed(d).inode = None /\ Installed(d).durable
BY DEF Installed, File, Bodies

(* The invariant holds initially. *)
LEMMA InitEstablishes == Init => InstallationIInv
<1> SUFFICES ASSUME Init PROVE InstallationIInv
  OBVIOUS
<1>1. PICK config \in {None} \cup {Installed(d) : d \in Docs} :
         files = [f \in Paths \cup {ConfigPath} |-> IF f = ConfigPath THEN config ELSE None]
  BY DEF Init
<1>2. /\ config \in File \cup {None}
      /\ config # None => config.body \in Docs
  <2>1. \A d \in Docs : Installed(d) \in File /\ Installed(d).body = d
    BY InstalledFacts
  <2> QED BY <2>1
<1>3. files \in [Paths \cup {ConfigPath} -> File \cup {None}]
  BY <1>1, <1>2
<1>4. /\ db = None /\ backup = None /\ holder = None /\ told = {} /\ swept = {}
      /\ proc = [p \in Procs |-> Idle]
  BY DEF Init
<1>5. \A p \in Procs : proc[p].pc = "idle"
  BY <1>4, IdleFacts
<1>6. ConfigIsADocument /\ ToldAreSettled
  BY <1>1, <1>2, <1>4 DEF ConfigIsADocument, ToldAreSettled
<1>7. NoRivals /\ \A p \in Procs : FileOk(p) /\ WorkOk(p)
  BY <1>5 DEF FileOk, WorkOk, Creating, AtWork, NoRivals, Rivals
<1> QED BY <1>3, <1>4, <1>6, <1>7, IdleFacts
        DEF InstallationIInv, FilesHalf, StateHalf, StateIsSound

(* A process that ends without touching a file or the state: a refusal, a stop, a crash. *)
LEMMA EndKeeps ==
    ASSUME InstallationIInv, NEW p \in Procs, Finish(p), UNCHANGED <<files, db, backup, told, swept>>
    PROVE  InstallationIInv'
<1>1. /\ Moved(p) /\ proc'[p].pc = "idle"
      /\ holder' \in Procs \cup {None} /\ \A q \in Procs \ {p} : holder = q => holder' = q
  BY FinishFacts DEF InstallationIInv, StateHalf
<1>2. StateHalf'
  BY <1>1, StateRests DEF InstallationIInv, AtWork
<1>3. FilesHalf'
  BY <1>1, FilesRest DEF InstallationIInv, Creating
<1> QED BY <1>1, <1>2, <1>3 DEF InstallationIInv, Moved

(* `config init` starts. *)
LEMMA StartConfigInitKeeps ==
    ASSUME InstallationIInv, NEW p \in Procs, StartConfigInit(p)
    PROVE  InstallationIInv'
<1>1. PICK d \in Docs :
         proc' = [proc EXCEPT ![p] = [Idle EXCEPT !.pc = "create", !.cmd = "config_init",
                                                  !.path = ConfigPath, !.body = d]]
  BY DEF StartConfigInit
<1> DEFINE r == [Idle EXCEPT !.pc = "create", !.cmd = "config_init",
                             !.path = ConfigPath, !.body = d]
<1>2. r \in Process /\ r.pc = "create" /\ r.path = ConfigPath /\ r.body = d
  BY IdleFacts DEF Idle, Process, Steps, Bodies
<1> HIDE DEF r
<1>3. Moved(p) /\ proc'[p] = r
  BY <1>1, <1>2, MoveFacts DEF InstallationIInv, r
<1>4. UNCHANGED <<files, db, holder, backup, told, swept>>
  BY DEF StartConfigInit
<1>5. StateHalf'
  BY <1>2, <1>3, <1>4, StateRests DEF InstallationIInv, StateHalf, AtWork
<1>6. FileOk(p)'
  BY <1>2, <1>3 DEF FileOk, Creating
<1>7. ConfigIsADocument' /\ ToldAreSettled'
  BY <1>4 DEF InstallationIInv, FilesHalf, ConfigIsADocument, ToldAreSettled, Readable
<1>8. FilesHalf'
  <2>1. \A q \in Procs \ {p} : ~Rivals(p, q)'
    BY <1>2, <1>3 DEF Rivals
  <2> QED BY <1>3, <1>4, <1>6, <1>7, <2>1, FilesKept DEF InstallationIInv, FilesHalf
<1> QED BY <1>3, <1>5, <1>8 DEF InstallationIInv, Moved

(* Any other command starts, with the document it has read. *)
LEMMA StartKeeps ==
    ASSUME InstallationIInv, NEW p \in Procs, NEW cmd \in Commands, Start(p, cmd)
    PROVE  InstallationIInv'
<1> DEFINE d == files[ConfigPath].body
           r == [Idle EXCEPT !.pc = "open", !.cmd = cmd, !.doc = d]
<1>1. d \in Docs
  BY DEF Start, Readable, InstallationIInv, FilesHalf, ConfigIsADocument
<1>2. proc' = [proc EXCEPT ![p] = r]
  BY DEF Start
<1> HIDE DEF d
<1>3. r \in Process /\ r.pc = "open" /\ r.doc \in Docs
  BY <1>1, IdleFacts DEF Idle, Process, Steps
<1> HIDE DEF r
<1>4. Moved(p) /\ proc'[p] = r
  BY <1>2, <1>3, MoveFacts DEF InstallationIInv
<1>5. UNCHANGED <<files, db, holder, backup, told, swept>>
  BY DEF Start
<1>6. StateHalf'
  BY <1>3, <1>4, <1>5, StateRests DEF InstallationIInv, StateHalf, AtWork
<1>7. FilesHalf'
  BY <1>3, <1>4, <1>5, FilesRest DEF InstallationIInv, Creating
<1> QED BY <1>4, <1>6, <1>7 DEF InstallationIInv, Moved

-----------------------------------------------------------------------------
(* Create-once files. *)

(* A name that leads to the file p made is one no other process is about to unlink, unless *)
(* it was swept.                                                                           *)
LEMMA OwnNameIsFree ==
    ASSUME FilesHalf, NEW p \in Procs, NEW q \in Procs \ {p}, NEW f,
           files[f] = None \/ files[f].inode = p,
           proc[q].pc = "unlink", proc[q].path = f
    PROVE  f \in swept
<1>1. FileOk(q) /\ p # None
  BY InstallationAssumption DEF FilesHalf
<1> QED BY <1>1 DEF FileOk

(* A cleanup that finds its own file there goes on to the unlink, alone; any other ends. *)
LEMMA CleanupKeeps ==
    ASSUME InstallationIInv, NEW p \in Procs, Cleanup(p), proc[p].pc \in {"write", "sync"},
           UNCHANGED <<files, db, backup, told, swept>>
    PROVE  InstallationIInv'
<1>1. CASE Finish(p)
  BY <1>1, EndKeeps
<1>2. CASE HoldsName(p) /\ proc' = [proc EXCEPT ![p].pc = "unlink"] /\ UNCHANGED holder
  <2>1. /\ Moved(p) /\ proc'[p].pc = "unlink"
        /\ proc'[p].path = proc[p].path /\ proc'[p].body = proc[p].body
    BY <1>2 DEF InstallationIInv, Moved, Process, Steps
  <2> DEFINE f == proc[p].path
  <2>2. files[f] # None /\ files[f].inode = p /\ p # None
    BY <1>2, InstallationAssumption DEF HoldsName
  <2>3. FileOk(p)'
    <3>1. FileOk(p) /\ f \notin told \ swept
      BY <2>2 DEF InstallationIInv, FilesHalf, ToldAreSettled
    <3> QED BY <2>1, <2>2, <3>1 DEF FileOk, Creating
  <2>4. \A q \in Procs \ {p} : ~Rivals(p, q)'
    <3>1. \A q \in Procs \ {p} : proc[q].pc = "unlink" /\ proc[q].path = f => f \in swept
      BY <2>2, OwnNameIsFree DEF InstallationIInv
    <3> QED BY <2>1, <3>1 DEF Rivals, Moved
  <2>5. StateHalf'
    BY <1>2, <2>1, StateRests DEF InstallationIInv, StateHalf, AtWork
  <2>6. ConfigIsADocument' /\ ToldAreSettled'
    BY DEF InstallationIInv, FilesHalf, ConfigIsADocument, ToldAreSettled, Readable
  <2>7. FilesHalf'
    BY <2>1, <2>3, <2>4, <2>6, FilesKept DEF InstallationIInv, FilesHalf
  <2> QED BY <2>1, <2>5, <2>7 DEF InstallationIInv, Moved
<1> QED BY <1>1, <1>2 DEF Cleanup

(* The unlink: of a name that was swept, or of one that nobody else reported or is about to *)
(* unlink.                                                                                  *)
LEMMA UnlinkKeeps ==
    ASSUME InstallationIInv, NEW p \in Procs, Unlink(p)
    PROVE  InstallationIInv'
<1> DEFINE f == proc[p].path
<1>1. /\ proc[p].pc = "unlink" /\ files' = [files EXCEPT ![f] = None]
      /\ Finish(p) /\ UNCHANGED <<db, backup, told, swept>>
  BY DEF Unlink
<1>2. f \in Paths \cup {ConfigPath} /\ (f \in swept \/ f \notin told)
  BY <1>1 DEF InstallationIInv, FilesHalf, FileOk, Creating
<1>3. /\ Moved(p) /\ proc'[p].pc = "idle"
      /\ holder' \in Procs \cup {None} /\ \A q \in Procs \ {p} : holder = q => holder' = q
  BY <1>1, FinishFacts DEF InstallationIInv, StateHalf
<1>4. StateHalf'
  BY <1>1, <1>3, StateRests DEF InstallationIInv, AtWork
<1>5. \A q \in Procs \ {p} : proc[q].pc = "unlink" /\ proc[q].path \notin swept => proc[q].path # f
  BY <1>1 DEF InstallationIInv, FilesHalf, NoRivals, Rivals
<1> HIDE DEF f
<1>6. /\ files' \in [Paths \cup {ConfigPath} -> File \cup {None}]
      /\ files'[f] = None
      /\ \A g : g # f => files'[g] = files[g]
  BY <1>1, <1>2 DEF InstallationIInv, FilesHalf
<1>7. FileOk(p)' /\ \A q \in Procs \ {p} : ~Rivals(p, q)'
  BY <1>3 DEF FileOk, Creating, Rivals
<1>8. ConfigIsADocument'
  BY <1>6 DEF InstallationIInv, FilesHalf, ConfigIsADocument
<1>9. ToldAreSettled'
  <2>1. \A g \in told \ swept : g # f /\ files'[g] = files[g]
    BY <1>2, <1>6
  <2> QED BY <1>1, <2>1 DEF InstallationIInv, FilesHalf, ToldAreSettled, Readable
<1>10. \A q \in Procs \ {p} : \A g \in Paths \cup {ConfigPath} :
          files'[g] # None /\ files'[g].inode = q => files'[g] = files[g]
  BY <1>6
<1>11. \A q \in Procs \ {p} : proc[q].pc = "unlink" /\ proc[q].path \notin swept =>
          /\ files'[proc[q].path] = files[proc[q].path]
          /\ proc[q].path \in told' => proc[q].path \in told
  BY <1>1, <1>5, <1>6
<1>12. FilesHalf'
  BY <1>1, <1>3, <1>6, <1>7, <1>8, <1>9, <1>10, <1>11, FilesKept DEF InstallationIInv, FilesHalf
<1> QED BY <1>3, <1>4, <1>12 DEF InstallationIInv, Moved

(* The file half after one name changes: a name that was free or led to p's own inode. *)
LEMMA OwnFileKept ==
    ASSUME FilesHalf, NEW p \in Procs, Moved(p),
           NEW f \in Paths \cup {ConfigPath}, NEW file \in File,
           files' = [files EXCEPT ![f] = file],
           files[f] = None \/ files[f].inode = p,
           file.inode \in {p, None},
           f = ConfigPath => file.body \in Docs \cup {Empty},
           told' = told \/ (told' = told \cup {f} /\ file.body # Empty /\ file.inode = None /\ file.durable),
           swept' = swept, FileOk(p)', proc'[p].pc # "unlink"
    PROVE  FilesHalf'
<1>1. /\ files' \in [Paths \cup {ConfigPath} -> File \cup {None}]
      /\ files'[f] = file /\ file # None
      /\ \A g \in (Paths \cup {ConfigPath}) \ {f} : files'[g] = files[g]
  BY InstallationAssumption DEF FilesHalf
<1>2. told' \subseteq Paths \cup {ConfigPath}
  BY DEF FilesHalf
<1>3. ConfigIsADocument'
  BY <1>1 DEF FilesHalf, ConfigIsADocument
<1>4. f \notin told \ swept
  BY InstallationAssumption DEF FilesHalf, ToldAreSettled, Readable
<1>5. \A g \in told \ swept : g # f /\ files'[g] = files[g]
  BY <1>1, <1>4 DEF FilesHalf
<1>6. ToldAreSettled'
  <2> SUFFICES ASSUME NEW g \in told' \ swept
               PROVE  files'[g] # None /\ files'[g].body # Empty /\ files'[g].inode = None /\ files'[g].durable
    BY DEF ToldAreSettled, Readable
  <2>1. CASE g \in told
    BY <1>5, <2>1 DEF FilesHalf, ToldAreSettled, Readable
  <2>2. CASE g \notin told
    BY <1>1, <2>2
  <2> QED BY <2>1, <2>2
<1>7. ASSUME NEW q \in Procs \ {p}, NEW g \in Paths \cup {ConfigPath},
             files'[g] # None, files'[g].inode = q
      PROVE  files'[g] = files[g]
  BY <1>1, <1>7, InstallationAssumption
<1>8. ASSUME NEW q \in Procs \ {p}, proc[q].pc = "unlink", proc[q].path \notin swept
      PROVE  /\ files'[proc[q].path] = files[proc[q].path]
             /\ proc[q].path \in told' => proc[q].path \in told
  <2>1. proc[q].path # f
    BY <1>8, OwnNameIsFree
  <2>2. proc[q].path \in Paths \cup {ConfigPath}
    BY <1>8 DEF FilesHalf, FileOk, Creating
  <2> QED BY <1>1, <2>1, <2>2
<1>9. \A q \in Procs \ {p} : ~Rivals(p, q)'
  BY DEF Rivals
<1> QED BY <1>1, <1>2, <1>3, <1>6, <1>7, <1>8, <1>9, FilesKept

(* openat with O_EXCL. *)
LEMMA CreateFileKeeps ==
    ASSUME InstallationIInv, NEW p \in Procs, CreateFile(p)
    PROVE  InstallationIInv'
<1> DEFINE f == proc[p].path
           made == [inode |-> p, body |-> Empty, durable |-> FALSE]
<1>1. CASE files[f] # None /\ Finish(p) /\ UNCHANGED files
  BY <1>1, EndKeeps DEF CreateFile
<1>2. CASE /\ files[f] = None /\ files' = [files EXCEPT ![f] = made]
           /\ proc' = [proc EXCEPT ![p].pc = "write"] /\ UNCHANGED holder
  <2>1. proc[p].pc = "create" /\ UNCHANGED <<db, backup, told, swept, holder>>
    BY <1>2 DEF CreateFile
  <2>2. f \in Paths \cup {ConfigPath} /\ FileOk(p)
    BY <2>1 DEF InstallationIInv, FilesHalf, FileOk, Creating
  <2>3. made \in File /\ made.inode = p /\ made.body = Empty
    BY DEF File, Bodies
  <2> HIDE DEF made
  <2>4. /\ Moved(p) /\ proc'[p].pc = "write"
        /\ proc'[p].path = proc[p].path /\ proc'[p].body = proc[p].body
    BY <1>2 DEF InstallationIInv, Moved, Process, Steps
  <2>5. FileOk(p)'
    BY <2>1, <2>2, <2>4 DEF FileOk, Creating
  <2>6. StateHalf'
    BY <2>1, <2>4, StateRests DEF InstallationIInv, StateHalf, AtWork
  <2> HIDE DEF f
  <2>7. FilesHalf'
    BY <1>2, <2>1, <2>2, <2>3, <2>4, <2>5, OwnFileKept DEF InstallationIInv
  <2> QED BY <2>4, <2>6, <2>7 DEF InstallationIInv, Moved
<1> QED BY <1>1, <1>2 DEF CreateFile

(* The bytes are written to the inode this process created. *)
LEMMA WriteFileKeeps ==
    ASSUME InstallationIInv, NEW p \in Procs, WriteFile(p)
    PROVE  InstallationIInv'
<1> DEFINE f == proc[p].path
           written == [files[f] EXCEPT !.body = proc[p].body]
<1>1. CASE Cleanup(p) /\ UNCHANGED files
  BY <1>1, CleanupKeeps DEF WriteFile
<1>2. CASE /\ HoldsName(p) /\ files' = [files EXCEPT ![f].body = proc[p].body]
           /\ proc' = [proc EXCEPT ![p].pc = "sync"] /\ UNCHANGED holder
  <2>1. proc[p].pc = "write" /\ UNCHANGED <<db, backup, told, swept, holder>>
    BY <1>2 DEF WriteFile
  <2>2. /\ f \in Paths \cup {ConfigPath} /\ FileOk(p)
        /\ proc[p].body \in Docs \cup Keys /\ (f = ConfigPath => proc[p].body \in Docs)
    BY <2>1 DEF InstallationIInv, FilesHalf, FileOk, Creating
  <2>3. files[f] \in File /\ files[f] # None /\ files[f].inode = p
    BY <1>2, <2>2 DEF HoldsName, InstallationIInv, FilesHalf
  <2>4. written \in File /\ written.inode = p /\ written.body = proc[p].body
    BY <2>2, <2>3 DEF File, Bodies
  <2>5. files' = [files EXCEPT ![f] = written]
    BY <1>2
  <2> HIDE DEF written
  <2>6. /\ Moved(p) /\ proc'[p].pc = "sync"
        /\ proc'[p].path = proc[p].path /\ proc'[p].body = proc[p].body
    BY <1>2 DEF InstallationIInv, Moved, Process, Steps
  <2>7. files'[f] = written
    BY <2>2, <2>5 DEF InstallationIInv, FilesHalf
  <2>8. FileOk(p)'
    <3>1. files'[proc'[p].path].body # Empty
      BY <2>2, <2>4, <2>6, <2>7, InstallationAssumption
    <3> QED BY <2>1, <2>2, <2>6, <3>1 DEF FileOk, Creating
  <2>9. StateHalf'
    BY <2>1, <2>6, StateRests DEF InstallationIInv, StateHalf, AtWork
  <2> HIDE DEF f
  <2>10. FilesHalf'
    BY <2>1, <2>2, <2>3, <2>4, <2>5, <2>6, <2>8, OwnFileKept DEF InstallationIInv
  <2> QED BY <2>6, <2>9, <2>10 DEF InstallationIInv, Moved
<1> QED BY <1>1, <1>2 DEF WriteFile

(* The directory is synced, and the creation reported. *)
LEMMA SyncParentKeeps ==
    ASSUME InstallationIInv, NEW p \in Procs, SyncParent(p)
    PROVE  InstallationIInv'
<1> DEFINE f == proc[p].path
           synced == [[files[f] EXCEPT !.durable = TRUE] EXCEPT !.inode = None]
<1>1. CASE Cleanup(p) /\ UNCHANGED <<files, told>>
  BY <1>1, CleanupKeeps DEF SyncParent
<1>2. CASE /\ HoldsName(p) /\ files' = [files EXCEPT ![f].durable = TRUE, ![f].inode = None]
           /\ told' = told \cup {f} /\ Finish(p)
  <2>1. proc[p].pc = "sync" /\ UNCHANGED <<db, backup, swept>>
    BY DEF SyncParent
  <2>2. /\ f \in Paths \cup {ConfigPath} /\ FileOk(p)
    BY <2>1 DEF InstallationIInv, FilesHalf, FileOk, Creating
  <2>3. /\ files[f] \in File /\ files[f] # None /\ files[f].inode = p /\ files[f].body # Empty
        /\ f = ConfigPath => files[f].body \in Docs
    BY <1>2, <2>1, <2>2 DEF HoldsName, InstallationIInv, FilesHalf, FileOk, ConfigIsADocument
  <2>4. /\ synced \in File /\ synced.inode = None /\ synced.durable
        /\ synced.body = files[f].body
    BY <2>3 DEF File
  <2>5. files' = [files EXCEPT ![f] = synced]
    BY <1>2, <2>2 DEF InstallationIInv, FilesHalf
  <2> HIDE DEF synced
  <2>6. /\ Moved(p) /\ proc'[p].pc = "idle"
        /\ holder' \in Procs \cup {None} /\ \A q \in Procs \ {p} : holder = q => holder' = q
    BY <1>2, FinishFacts DEF InstallationIInv, StateHalf
  <2>7. FileOk(p)'
    BY <2>6 DEF FileOk, Creating
  <2>8. StateHalf'
    BY <2>1, <2>6, StateRests DEF InstallationIInv, AtWork
  <2> HIDE DEF f
  <2>9. FilesHalf'
    BY <1>2, <2>1, <2>2, <2>3, <2>4, <2>5, <2>6, <2>7, OwnFileKept DEF InstallationIInv
  <2> QED BY <2>6, <2>8, <2>9 DEF InstallationIInv, Moved
<1> QED BY <1>1, <1>2 DEF SyncParent

-----------------------------------------------------------------------------
(* The operator and the machine. *)

(* What the operator does to one name: a document in place, or nothing there. *)
LEMMA OperatorKeeps ==
    ASSUME InstallationIInv, NEW f \in Paths \cup {ConfigPath}, NEW x \in File \cup {None},
           files' = [files EXCEPT ![f] = x],
           x # None => x.inode = None /\ x.durable /\ x.body \in Docs,
           x = None => \A q \in Procs : proc[q].pc = "unlink" /\ proc[q].path = f => f \in swept',
           f \in told \ swept => x # None,
           swept \subseteq swept', swept' \subseteq Paths \cup {ConfigPath},
           UNCHANGED <<db, holder, backup, proc, told>>
    PROVE  InstallationIInv'
<1>1. /\ files' \in [Paths \cup {ConfigPath} -> File \cup {None}]
      /\ files'[f] = x
      /\ \A g \in (Paths \cup {ConfigPath}) \ {f} : files'[g] = files[g]
  BY DEF InstallationIInv, FilesHalf
<1>2. ConfigIsADocument'
  BY <1>1 DEF InstallationIInv, FilesHalf, ConfigIsADocument
<1>3. ToldAreSettled'
  <2> SUFFICES ASSUME NEW g \in told \ swept
               PROVE  files'[g] # None /\ files'[g].body # Empty /\ files'[g].inode = None /\ files'[g].durable
    BY DEF ToldAreSettled, Readable
  <2>1. CASE g = f
    BY <1>1, <2>1, InstallationAssumption
  <2>2. CASE g # f
    BY <1>1, <2>2 DEF InstallationIInv, FilesHalf, ToldAreSettled, Readable
  <2> QED BY <2>1, <2>2
<1>4. ASSUME NEW q \in Procs PROVE FileOk(q)'
  <2>1. FileOk(q)
    BY DEF InstallationIInv, FilesHalf
  <2>2. \A g \in Paths \cup {ConfigPath} :
           files'[g] # None /\ files'[g].inode = q => files'[g] = files[g]
    BY <1>1, InstallationAssumption
  <2>3. proc[q].pc = "unlink" => proc[q].path \in Paths \cup {ConfigPath}
    BY <2>1 DEF FileOk, Creating
  <2>4. (proc[q].pc = "unlink" /\ proc[q].path \notin swept') =>
           LET g == proc[q].path IN
           /\ g \notin told /\ files'[g] # None
           /\ files'[g].inode \in {q, None}
           /\ files'[g].inode = None => files'[g].body # Empty
    <3>1. CASE proc[q].path = f
      BY <1>1, <2>1, <3>1, InstallationAssumption DEF FileOk
    <3>2. CASE proc[q].path # f
      BY <1>1, <2>1, <2>3, <3>2 DEF FileOk
    <3> QED BY <3>1, <3>2
  <2>5. /\ proc[q].pc \in Creating =>
              /\ proc[q].path \in Paths \cup {ConfigPath} /\ proc[q].body \in Docs \cup Keys
              /\ proc[q].path = ConfigPath => proc[q].body \in Docs
        /\ proc[q].pc = "sync" /\ HoldsName(q)' => files'[proc[q].path].body # Empty
    BY <2>1, <2>2 DEF FileOk, HoldsName, Creating
  <2> QED BY <2>4, <2>5 DEF FileOk
<1>5. FilesHalf'
  <2>1. NoRivals'
    BY DEF InstallationIInv, FilesHalf, NoRivals, Rivals
  <2> QED BY <1>1, <1>2, <1>3, <1>4, <2>1 DEF InstallationIInv, FilesHalf
<1>6. StateHalf'
  BY DEF InstallationIInv, StateHalf, StateIsSound, WorkOk
<1> QED BY <1>5, <1>6 DEF InstallationIInv

(* The operator installs a document. *)
LEMMA InstallDocumentKeeps ==
    ASSUME InstallationIInv, InstallDocument
    PROVE  InstallationIInv'
<1>1. PICK d \in Docs : files' = [files EXCEPT ![ConfigPath] = Installed(d)]
  BY DEF InstallDocument
<1> DEFINE x == Installed(d)
<1>2. x \in File /\ x.inode = None /\ x.durable /\ x.body \in Docs /\ x # None
  BY InstalledFacts, InstallationAssumption
<1>3. /\ files' = [files EXCEPT ![ConfigPath] = x]
      /\ UNCHANGED <<db, holder, backup, proc, told, swept>>
      /\ swept \subseteq Paths \cup {ConfigPath}
  BY <1>1 DEF InstallDocument, InstallationIInv, FilesHalf
<1> HIDE DEF x
<1> QED BY <1>2, <1>3, OperatorKeeps

(* The operator removes a file without its bytes: no reported one is, and the name it takes *)
(* from a cleanup under way is swept.                                                       *)
LEMMA RemoveUnwrittenKeeps ==
    ASSUME InstallationIInv, NEW f \in DOMAIN files, RemoveUnwritten(f)
    PROVE  InstallationIInv'
<1>1. f \in Paths \cup {ConfigPath} /\ files[f].body = Empty
  BY DEF InstallationIInv, FilesHalf, RemoveUnwritten
<1>2. f \notin told \ swept
  BY <1>1 DEF InstallationIInv, FilesHalf, ToldAreSettled, Readable
<1>3. /\ files' = [files EXCEPT ![f] = None] /\ UNCHANGED <<db, holder, backup, proc, told>>
      /\ swept' = IF UnderCleanup(f) THEN swept \cup {f} ELSE swept
  BY DEF RemoveUnwritten
<1>4. ASSUME NEW q \in Procs, proc[q].pc = "unlink", proc[q].path = f
      PROVE  f \in swept'
  <2>1. f \in swept \/ UnderCleanup(f)
    BY <1>1, <1>4 DEF InstallationIInv, FilesHalf, FileOk, UnderCleanup, HoldsName
  <2> QED BY <1>3, <2>1
<1>5. swept \subseteq swept' /\ swept' \subseteq Paths \cup {ConfigPath}
  BY <1>1, <1>3 DEF InstallationIInv, FilesHalf
<1> QED BY <1>1, <1>2, <1>3, <1>4, <1>5, OperatorKeeps

(* The machine stops: what was synced is still there. *)
LEMMA PowerLossKeeps ==
    ASSUME InstallationIInv, PowerLoss
    PROVE  InstallationIInv'
<1> DEFINE after(f, fate) ==
              IF files[f] = None \/ fate = "lost" THEN None
              ELSE [inode |-> None, durable |-> TRUE,
                    body |-> IF fate = "emptied" THEN Empty ELSE files[f].body]
<1>1. PICK fs \in [DOMAIN files -> {"kept", "lost", "emptied"}] :
         /\ \A f \in DOMAIN files : fs[f] # "kept" => files[f] # None /\ ~files[f].durable
         /\ files' = [f \in DOMAIN files |-> after(f, fs[f])]
  BY DEF PowerLoss
<1>2. DOMAIN files = Paths \cup {ConfigPath}
  BY DEF InstallationIInv, FilesHalf
<1>3. \A f \in Paths \cup {ConfigPath} : files[f] \in File \cup {None}
  BY DEF InstallationIInv, FilesHalf
<1>4. ASSUME NEW f \in Paths \cup {ConfigPath}
      PROVE  /\ files'[f] = after(f, fs[f])
             /\ files'[f] \in File \cup {None}
             /\ files'[f] # None => files[f] # None /\ files'[f].body \in {files[f].body, Empty}
             /\ files[f] # None /\ files[f].durable =>
                   /\ files'[f] # None /\ files'[f].inode = None /\ files'[f].durable
                   /\ files'[f].body = files[f].body
  <2>1. files'[f] = after(f, fs[f])
    BY <1>1, <1>2
  <2>2. CASE files[f] = None \/ fs[f] = "lost"
    <3>1. files'[f] = None
      BY <2>1, <2>2
    <3> QED BY <1>1, <1>2, <2>1, <2>2, <3>1
  <2>3. CASE files[f] # None /\ fs[f] # "lost"
    <3> DEFINE b == IF fs[f] = "emptied" THEN Empty ELSE files[f].body
               x == [inode |-> None, durable |-> TRUE, body |-> b]
    <3>1. files'[f] = x
      BY <2>1, <2>3
    <3>2. files[f] \in File
      BY <1>3, <2>3
    <3>3. b \in Bodies /\ b \in {files[f].body, Empty}
      BY <3>2 DEF File, Bodies
    <3>4. files[f].durable => b = files[f].body
      BY <1>1, <1>2, <2>3
    <3> HIDE DEF b
    <3>5. x \in File /\ x.inode = None /\ x.durable /\ x.body = b
      BY <3>3 DEF File
    <3> HIDE DEF x
    <3>6. x # None
      BY <3>5, InstallationAssumption
    <3> HIDE DEF after
    <3> QED BY <2>1, <2>3, <3>1, <3>3, <3>4, <3>5, <3>6
  <2> QED BY <2>2, <2>3
<1> HIDE DEF after
<1>5. files' \in [Paths \cup {ConfigPath} -> File \cup {None}]
  <2>1. files' = [f \in Paths \cup {ConfigPath} |-> after(f, fs[f])]
    BY <1>1, <1>2
  <2> QED BY <1>4, <2>1
<1>6. ConfigIsADocument'
  BY <1>4 DEF InstallationIInv, FilesHalf, ConfigIsADocument
<1>7. ToldAreSettled'
  <2>1. told' = told /\ swept' = swept /\ told \subseteq Paths \cup {ConfigPath}
    BY DEF PowerLoss, InstallationIInv, FilesHalf
  <2> QED BY <1>4, <2>1 DEF InstallationIInv, FilesHalf, ToldAreSettled, Readable
<1>8. /\ proc' = [p \in Procs |-> Idle] /\ holder' = None
      /\ UNCHANGED <<db, backup, told, swept>>
  BY DEF PowerLoss
<1>9. proc' \in [Procs -> Process] /\ \A p \in Procs : proc'[p].pc = "idle"
  BY <1>8, IdleFacts
<1>10. NoRivals' /\ \A p \in Procs : FileOk(p)' /\ WorkOk(p)'
  BY <1>9 DEF FileOk, WorkOk, Creating, AtWork, NoRivals, Rivals
<1>11. StateIsSound'
  BY <1>8 DEF InstallationIInv, StateHalf, StateIsSound
<1> QED BY <1>5, <1>6, <1>7, <1>8, <1>9, <1>10, <1>11 DEF InstallationIInv, FilesHalf, StateHalf

-----------------------------------------------------------------------------
(* The state. *)

(* A step of p that makes no file and that no worker but p can notice. *)
LEMMA WorkKeeps ==
    ASSUME InstallationIInv, NEW p \in Procs, Moved(p), UNCHANGED <<files, told, swept>>,
           holder = p \/ holder = None,
           holder' \in Procs \cup {None}, StateIsSound', WorkOk(p)',
           proc'[p].pc \notin Creating
    PROVE  InstallationIInv'
<1>1. \A q \in Procs \ {p} : proc[q].pc \notin AtWork
  BY SoleWorker DEF InstallationIInv
<1>2. StateHalf'
  BY <1>1, StateKept DEF InstallationIInv
<1>3. FilesHalf'
  BY FilesRest DEF InstallationIInv
<1> QED BY <1>2, <1>3 DEF InstallationIInv, Moved

(* What a process with the authority knows, and that the state is sound. *)
LEMMA WorkFacts ==
    ASSUME InstallationIInv, NEW p \in Procs
    PROVE  /\ WorkOk(p) /\ proc[p] \in Process
           /\ db # None => Sound(db)
           /\ backup # None => Sound(backup)
           /\ holder \in Procs \cup {None}
BY DEF InstallationIInv, StateHalf, StateIsSound

(* initialize_database. *)
LEMMA InitializeKeeps ==
    ASSUME InstallationIInv, NEW p \in Procs, Initialize(p)
    PROVE  InstallationIInv'
<1> DEFINE d == [version |-> 1, history |-> <<>>, dirty |-> [t \in Trades |-> CleanRow]]
<1>1. CASE Finish(p) /\ UNCHANGED db
  BY <1>1, EndKeeps DEF Initialize
<1>2. CASE /\ db = None /\ holder = None /\ db' = d /\ holder' = p
           /\ proc' = [proc EXCEPT ![p].pc = "migrate"]
  <2>1. Sound(d) /\ d.version = 1
    BY FreshIsSound
  <2> HIDE DEF d
  <2>2. Sound(db') /\ db'.version = 1 /\ db' # None
    BY <1>2, <2>1, InstallationAssumption DEF Sound
  <2>3. proc[p].pc = "open" /\ UNCHANGED <<files, backup, told, swept>>
    BY DEF Initialize
  <2>4. proc[p].doc \in Docs
    BY <2>3, WorkFacts DEF WorkOk
  <2>5. Moved(p) /\ proc'[p].pc = "migrate" /\ proc'[p].doc = proc[p].doc
    BY <1>2, <2>3 DEF InstallationIInv, Moved, Process, Steps
  <2>6. StateIsSound'
    <3>1. Sound(db)'
      BY <2>2 DEF Sound, DirtyAgrees
    <3>2. (backup # None => Sound(backup))'
      BY <2>3, WorkFacts DEF Sound, DirtyAgrees
    <3> QED BY <3>1, <3>2 DEF StateIsSound
  <2>7. WorkOk(p)'
    BY <1>2, <2>2, <2>4, <2>5 DEF WorkOk, AtWork
  <2> QED BY <1>2, <2>3, <2>5, <2>6, <2>7, WorkKeeps DEF Creating
<1> QED BY <1>1, <1>2 DEF Initialize

(* A migration by the process that has the authority, or takes it. *)
LEMMA MigrateToKeeps ==
    ASSUME InstallationIInv, NEW p \in Procs, NEW v \in Versions, MigrateTo(p, v),
           db # None, db.version <= v, proc[p].doc \in Docs,
           holder = p \/ holder = None, holder' = p, UNCHANGED <<files, backup, told, swept>>
    PROVE  InstallationIInv'
<1> DEFINE d == [db EXCEPT !.version = v]
<1>1. Sound(db)
  BY WorkFacts
<1>2. Sound(d) /\ d.version = v
  BY <1>1, MigratedIsSound
<1>3. db' = d
  BY DEF MigrateTo
<1> HIDE DEF d
<1>4. Sound(db') /\ db'.version = v /\ db' # None
  BY <1>2, <1>3, InstallationAssumption DEF Sound
<1> DEFINE r == [[proc[p] EXCEPT !.pc = "bind"] EXCEPT !.version = v]
<1>5. r \in Process /\ r.pc = "bind" /\ r.version = v /\ r.doc = proc[p].doc
  BY WorkFacts DEF Process, Steps
<1>6. proc' = [proc EXCEPT ![p] = r]
  BY DEF MigrateTo, InstallationIInv
<1> HIDE DEF r
<1>7. Moved(p) /\ proc'[p] = r
  BY <1>5, <1>6, MoveFacts DEF InstallationIInv
<1>8. StateIsSound'
  <2>1. Sound(db)'
    BY <1>4 DEF Sound, DirtyAgrees
  <2>2. (backup # None => Sound(backup))'
    BY WorkFacts DEF Sound, DirtyAgrees
  <2> QED BY <2>1, <2>2 DEF StateIsSound
<1>9. WorkOk(p)'
  BY <1>4, <1>5, <1>7 DEF WorkOk, AtWork
<1> QED BY <1>5, <1>7, <1>8, <1>9, WorkKeeps DEF Creating

(* The migration of a fresh catalog. *)
LEMMA MigrateKeeps ==
    ASSUME InstallationIInv, NEW p \in Procs, Migrate(p)
    PROVE  InstallationIInv'
<1>1. PICK v \in Versions : MigrateTo(p, v)
  BY DEF Migrate
<1>2. proc[p].pc = "migrate" /\ UNCHANGED <<files, holder, backup, told, swept>>
  BY DEF Migrate
<1>3. holder = p /\ db # None /\ db.version = 1 /\ proc[p].doc \in Docs
  BY <1>2, WorkFacts DEF WorkOk, AtWork
<1>4. db.version <= v
  BY <1>3 DEF Versions
<1> QED BY <1>1, <1>2, <1>3, <1>4, MigrateToKeeps

(* open_read_write_existing_with_intent. *)
LEMMA OpenKeeps ==
    ASSUME InstallationIInv, NEW p \in Procs, Open(p)
    PROVE  InstallationIInv'
<1>1. proc[p].pc = "open" /\ UNCHANGED <<files, backup, told, swept>>
  BY DEF Open
<1>2. PICK v \in Versions :
         \/ MayOpen(v) /\ holder' = p /\ MigrateTo(p, v)
         \/ ~MayOpen(v) /\ Finish(p) /\ UNCHANGED db
  BY DEF Open
<1>3. CASE Finish(p) /\ UNCHANGED db
  BY <1>1, <1>3, EndKeeps
<1>4. CASE MayOpen(v) /\ holder' = p /\ MigrateTo(p, v)
  <2>1. proc[p].doc \in Docs
    BY <1>1, WorkFacts DEF WorkOk
  <2> QED BY <1>1, <1>4, <2>1, MigrateToKeeps DEF MayOpen
<1> QED BY <1>2, <1>3, <1>4

(* What the process goes on with after a binding, and whose the authority is. *)
AfterRecord(p, at) ==
    LET me == proc[p]
        file == IF me.cmd = "identity_init" THEN Envelope(me.doc)
                ELSE [path |-> None, body |-> None]
    IN  IF AfterBind(p) = "idle" THEN Idle
        ELSE [me EXCEPT !.pc = AfterBind(p), !.at = IF me.cmd = "apply" THEN at ELSE 0,
                        !.path = file.path, !.body = file.body]

(* The record after a binding: the command's next step, and for `identity init` where the *)
(* envelope goes and which key it holds.                                                  *)
LEMMA AfterRecordFacts ==
    ASSUME NEW p \in Procs, proc[p] \in Process, proc[p].doc \in Docs, NEW at \in Times
    PROVE  LET r == AfterRecord(p, at) IN
           /\ r \in Process
           /\ r.pc = AfterBind(p) /\ r.pc \in {"unlock", "append", "create", "stage", "idle"}
           /\ r.pc # "idle" => r.doc = proc[p].doc /\ r.version = proc[p].version
           /\ r.pc = "create" => r.path \in Paths /\ r.body \in Keys
<1> DEFINE me == proc[p]
           file == IF me.cmd = "identity_init" THEN Envelope(me.doc)
                   ELSE [path |-> None, body |-> None]
           n == IF me.cmd = "apply" THEN at ELSE 0
           r == [me EXCEPT !.pc = AfterBind(p), !.at = n, !.path = file.path, !.body = file.body]
<1>1. /\ AfterBind(p) \in {"unlock", "append", "create", "stage", "idle"}
      /\ AfterBind(p) = "create" => me.cmd = "identity_init"
  BY DEF AfterBind
<1>2. /\ file.path \in Paths \cup {None} /\ file.body \in Keys \cup {None}
      /\ AfterBind(p) = "create" => file.path \in Paths /\ file.body \in Keys
  <2>1. CASE me.cmd = "identity_init"
    BY <2>1 DEF Envelope, Paths, Keys
  <2>2. CASE me.cmd # "identity_init"
    BY <1>1, <2>2
  <2> QED BY <2>1, <2>2
<1>3. n \in Times
  BY InstallationAssumption DEF Times
<1> HIDE DEF file, n
<1>4. CASE AfterBind(p) = "idle"
  <2>1. AfterRecord(p, at) = Idle
    BY <1>4 DEF AfterRecord
  <2> QED BY <1>4, <2>1, IdleFacts
<1>5. CASE AfterBind(p) # "idle"
  <2>1. AfterRecord(p, at) = r
    BY <1>5 DEF AfterRecord, file, n
  <2>2. /\ r.pc = AfterBind(p) /\ r.path = file.path /\ r.body = file.body
        /\ r.doc = me.doc /\ r.version = me.version /\ r \in Process
    <3>1. AfterBind(p) \in Steps /\ file.path \in Paths \cup {ConfigPath, None}
      BY <1>1, <1>2 DEF Steps
    <3>2. file.body \in Bodies \cup {None}
      BY <1>2 DEF Bodies
    <3>3. PICK a, b, c : a = AfterBind(p) /\ b = file.path /\ c = file.body
      OBVIOUS
    <3>4. r = [me EXCEPT !.pc = a, !.at = n, !.path = b, !.body = c]
      BY <3>3
    <3>5. a \in Steps /\ b \in Paths \cup {ConfigPath, None} /\ c \in Bodies \cup {None}
      BY <3>1, <3>2, <3>3
    <3> HIDE DEF r
    <3>6. /\ r.pc = a /\ r.path = b /\ r.body = c
          /\ r.doc = me.doc /\ r.version = me.version /\ r \in Process
      BY <1>3, <3>4, <3>5 DEF Process
    <3> QED BY <3>3, <3>6
  <2> HIDE DEF r
  <2> QED BY <1>1, <1>2, <2>1, <2>2
<1> QED BY <1>4, <1>5

(* bind_or_verify, and what the command does next. *)
LEMMA BindKeeps ==
    ASSUME InstallationIInv, NEW p \in Procs, Bind(p)
    PROVE  InstallationIInv'
<1>1. proc[p].pc = "bind" /\ UNCHANGED <<files, backup, told, swept>>
  BY DEF Bind
<1>2. /\ holder = p /\ db # None /\ Sound(db) /\ proc[p].doc \in Docs
      /\ proc[p].version \in Versions /\ db.version = proc[p].version
  BY <1>1, WorkFacts DEF WorkOk, AtWork
<1>3. PICK at \in Times :
         \/ /\ \E h \in BindOrVerify(db.history, proc[p].doc, proc[p].version, at) :
                  db' = [db EXCEPT !.history = h]
            /\ proc' = [proc EXCEPT ![p] = AfterRecord(p, at)]
            /\ holder' = IF AfterBind(p) \in {"unlock", "append"} THEN p ELSE None
         \/ Finish(p) /\ UNCHANGED db
  BY DEF Bind, AfterRecord
<1>4. CASE Finish(p) /\ UNCHANGED db
  BY <1>1, <1>4, EndKeeps
<1>5. CASE /\ \E h \in BindOrVerify(db.history, proc[p].doc, proc[p].version, at) :
                  db' = [db EXCEPT !.history = h]
           /\ proc' = [proc EXCEPT ![p] = AfterRecord(p, at)]
           /\ holder' = IF AfterBind(p) \in {"unlock", "append"} THEN p ELSE None
  <2>1. PICK h \in BindOrVerify(db.history, proc[p].doc, db.version, at) :
           db' = [db EXCEPT !.history = h]
    BY <1>2, <1>5
  <2> DEFINE d == [db EXCEPT !.history = h]
  <2>2. /\ Sound(d) /\ d.version = db.version /\ d.history = h
        /\ h # <<>> /\ Last(h).doc = proc[p].doc /\ Last(h).version = db.version
    BY <1>2, BoundIsSound
  <2>3. db' = d
    BY <2>1
  <2> HIDE DEF d
  <2>4. /\ Sound(db') /\ db' # None /\ db'.version = db.version
        /\ db'.history # <<>> /\ Last(db'.history).doc = proc[p].doc
        /\ Last(db'.history).version = db.version
    BY <2>2, <2>3, InstallationAssumption DEF Sound
  <2> DEFINE r == AfterRecord(p, at)
  <2>5. /\ r \in Process
        /\ r.pc = AfterBind(p) /\ r.pc \in {"unlock", "append", "create", "stage", "idle"}
        /\ r.pc # "idle" => r.doc = proc[p].doc /\ r.version = proc[p].version
        /\ r.pc = "create" => r.path \in Paths /\ r.body \in Keys
    BY <1>2, WorkFacts, AfterRecordFacts
  <2>6. proc' = [proc EXCEPT ![p] = r]
    BY <1>5
  <2>7. holder' = IF r.pc \in {"unlock", "append"} THEN p ELSE None
    BY <1>5, <2>5
  <2> HIDE DEF r
  <2>8. Moved(p) /\ proc'[p] = r
    BY <2>5, <2>6, MoveFacts DEF InstallationIInv
  <2>9. StateIsSound'
    <3>1. Sound(db)'
      BY <2>4 DEF Sound, DirtyAgrees
    <3>2. (backup # None => Sound(backup))'
      BY <1>1, WorkFacts DEF Sound, DirtyAgrees
    <3> QED BY <3>1, <3>2 DEF StateIsSound
  <2>10. WorkOk(p)'
    BY <1>2, <2>4, <2>5, <2>7, <2>8 DEF WorkOk, AtWork
  <2>11. \A q \in Procs \ {p} : proc[q].pc \notin AtWork
    BY <1>2, SoleWorker DEF InstallationIInv
  <2>12. StateHalf'
    BY <2>7, <2>8, <2>9, <2>10, <2>11, StateKept DEF InstallationIInv
  <2>13. FileOk(p)'
    BY <2>5, <2>8, InstallationAssumption DEF FileOk, Creating
  <2>14. ConfigIsADocument' /\ ToldAreSettled'
    BY <1>1 DEF InstallationIInv, FilesHalf, ConfigIsADocument, ToldAreSettled, Readable
  <2>15. FilesHalf'
    <3>1. \A q \in Procs \ {p} : ~Rivals(p, q)'
      BY <2>5, <2>8 DEF Rivals
    <3> QED BY <1>1, <2>8, <2>13, <2>14, <3>1, FilesKept DEF InstallationIInv, FilesHalf
  <2> QED BY <2>8, <2>12, <2>15 DEF InstallationIInv, Moved
<1> QED BY <1>3, <1>4, <1>5

(* A step that ends p's work and leaves a sound state behind. *)
LEMMA WorkEnds ==
    ASSUME InstallationIInv, NEW p \in Procs, Finish(p), holder = p,
           UNCHANGED <<files, backup, told, swept>>, db' = None \/ Sound(db')
    PROVE  InstallationIInv'
<1>1. Moved(p) /\ proc'[p].pc = "idle" /\ holder' \in Procs \cup {None}
  BY FinishFacts DEF InstallationIInv, StateHalf
<1>2. StateIsSound'
  <2>1. (db # None => Sound(db))'
    BY DEF Sound, DirtyAgrees
  <2>2. (backup # None => Sound(backup))'
    BY WorkFacts DEF Sound, DirtyAgrees
  <2> QED BY <2>1, <2>2 DEF StateIsSound
<1>3. WorkOk(p)'
  BY <1>1 DEF WorkOk, AtWork
<1> QED BY <1>1, <1>2, <1>3, WorkKeeps DEF Creating

(* `config apply`. *)
LEMMA ConfigApplyKeeps ==
    ASSUME InstallationIInv, NEW p \in Procs, ConfigApply(p)
    PROVE  InstallationIInv'
<1>1. proc[p].pc = "append" /\ Finish(p) /\ UNCHANGED <<files, backup, told, swept>>
  BY DEF ConfigApply
<1>2. /\ holder = p /\ db # None /\ Sound(db) /\ proc[p].doc \in Docs
      /\ db.version = proc[p].version /\ db.history # <<>> /\ proc[p].at \in Times
  BY <1>1, WorkFacts DEF WorkOk, AtWork, Process
<1>3. PICK candidate \in Docs :
         \/ db' \in AppendConfiguration(db, proc[p].doc, candidate, db.version, proc[p].at)
         \/ UNCHANGED db
  BY <1>2 DEF ConfigApply
<1>4. Sound(db')
  <2>1. PICK e : e = db'
    OBVIOUS
  <2>2. e \in AppendConfiguration(db, proc[p].doc, candidate, db.version, proc[p].at) => Sound(e)
    BY <1>2, AppliedIsSound
  <2> QED BY <1>2, <1>3, <2>1, <2>2
<1> QED BY <1>1, <1>2, <1>4, WorkEnds

(* Staging a restore. *)
LEMMA StageKeeps ==
    ASSUME InstallationIInv, NEW p \in Procs, Stage(p)
    PROVE  InstallationIInv'
<1>1. CASE Finish(p)
  BY <1>1, EndKeeps DEF Stage
<1>2. CASE /\ backup # None /\ holder = None /\ holder' = p
           /\ proc' = [proc EXCEPT ![p].pc = "finalize"]
  <2>1. proc[p].pc = "stage" /\ UNCHANGED <<files, db, backup, told, swept>>
    BY DEF Stage
  <2>2. Moved(p) /\ proc'[p].pc = "finalize" /\ proc'[p].doc = proc[p].doc
    BY <1>2 DEF InstallationIInv, Moved, Process, Steps
  <2>3. proc[p].doc \in Docs
    BY <2>1, WorkFacts DEF WorkOk
  <2>4. WorkOk(p)'
    BY <1>2, <2>1, <2>2, <2>3 DEF WorkOk, AtWork
  <2>5. StateIsSound'
    BY <2>1 DEF InstallationIInv, StateHalf, StateIsSound
  <2> QED BY <1>2, <2>1, <2>2, <2>4, <2>5, WorkKeeps DEF Creating
<1> QED BY <1>1, <1>2 DEF Stage

(* Installing the staged copy. *)
LEMMA FinalizeRestoreKeeps ==
    ASSUME InstallationIInv, NEW p \in Procs, FinalizeRestore(p)
    PROVE  InstallationIInv'
<1>1. proc[p].pc = "finalize" /\ Finish(p) /\ db' = backup /\ UNCHANGED <<files, backup, told, swept>>
  BY DEF FinalizeRestore
<1>2. holder = p /\ Sound(backup)
  BY <1>1, WorkFacts DEF WorkOk, AtWork
<1> QED BY <1>1, <1>2, WorkEnds

(* The daemon opens its identity. *)
LEMMA UnlockKeeps ==
    ASSUME InstallationIInv, NEW p \in Procs, Unlock(p)
    PROVE  InstallationIInv'
<1> DEFINE f == DocPath[proc[p].doc]
<1>1. proc[p].pc = "unlock" /\ UNCHANGED <<files, db, backup, told, swept>>
  BY DEF Unlock
<1>2. \/ /\ OpensFor(f, proc[p].doc)
         /\ proc' = [proc EXCEPT ![p].pc = "serving", ![p].body = files[f].body]
         /\ UNCHANGED holder
      \/ Finish(p)
  BY DEF Unlock
<1>3. CASE Finish(p)
  BY <1>1, <1>3, EndKeeps
<1>4. CASE /\ OpensFor(f, proc[p].doc)
           /\ proc' = [proc EXCEPT ![p].pc = "serving", ![p].body = files[f].body]
           /\ UNCHANGED holder
  <2> DEFINE k == DocKey[proc[p].doc]
             r == [[proc[p] EXCEPT !.pc = "serving"] EXCEPT !.body = k]
  <2>1. proc' = [proc EXCEPT ![p] = r]
    BY <1>4 DEF OpensFor, InstallationIInv
  <2>2. WorkOk(p) /\ proc[p] \in Process
    BY WorkFacts
  <2>3. holder = p /\ proc[p].doc \in Docs
    BY <1>1, <2>2 DEF WorkOk, AtWork
  <2>4. k \in Keys
    BY <2>3 DEF Keys
  <2>5. /\ r \in Process /\ r.pc = "serving" /\ r.body = k
        /\ r.doc = proc[p].doc /\ r.version = proc[p].version
    BY <2>2, <2>4 DEF Process, Steps, Bodies
  <2> HIDE DEF r
  <2>6. Moved(p) /\ proc'[p] = r
    BY <2>1, <2>5, MoveFacts DEF InstallationIInv
  <2>7. WorkOk(p)'
    BY <1>1, <1>4, <2>2, <2>5, <2>6 DEF WorkOk, AtWork
  <2>8. StateIsSound'
    BY <1>1 DEF InstallationIInv, StateHalf, StateIsSound
  <2>9. holder' \in Procs \cup {None}
    BY <1>4, WorkFacts
  <2> QED BY <1>1, <2>3, <2>5, <2>6, <2>7, <2>8, <2>9, WorkKeeps DEF Creating
<1> QED BY <1>2, <1>3, <1>4

(* A source result of the serving daemon. *)
LEMMA IngestKeeps ==
    ASSUME InstallationIInv, NEW p \in Procs, NEW t \in Trades, Ingest(p, t)
    PROVE  InstallationIInv'
<1>1. proc[p].pc = "serving" /\ UNCHANGED <<files, holder, backup, proc, told, swept>>
  BY DEF Ingest, Serving
<1>2. WorkOk(p) /\ proc[p] \in Process
  BY WorkFacts
<1>3. /\ holder = p /\ db # None /\ db.history # <<>> /\ proc[p].doc \in Docs
      /\ Last(db.history).doc = proc[p].doc
  BY <1>1, <1>2 DEF WorkOk, AtWork
<1>4. Sound(db)
  BY <1>3, WorkFacts
<1>5. db \in State /\ db.dirty \in [Trades -> DirtyRow] /\ db.dirty[t].at \in Times
  BY <1>4 DEF Sound, State, DirtyRow
<1>6. PICK at \in db.dirty[t].at..MaxTime :
         db' = [db EXCEPT !.dirty[t] = [generation |-> @.generation + 1,
                                        policy |-> DocPolicy[proc[p].doc], at |-> at]]
  BY DEF Ingest
<1>7. at \in Times
  BY <1>5, InstallationAssumption DEF Times
<1> DEFINE row == [generation |-> db.dirty[t].generation + 1,
                   policy |-> DocPolicy[Last(db.history).doc], at |-> at]
           d == [db EXCEPT !.dirty = [@ EXCEPT ![t] = row]]
<1>8. Sound(d) /\ d.history = db.history /\ d.version = db.version
  <2>1. db.dirty[t].generation < MaxGeneration
    BY DEF Ingest
  <2> QED BY <1>3, <1>4, <1>7, <2>1, IngestedIsSound
<1>9. db' = d
  BY <1>3, <1>5, <1>6 DEF State
<1> HIDE DEF d
<1>10. Sound(db') /\ db' # None /\ db'.history = db.history /\ db'.version = db.version
  BY <1>8, <1>9, InstallationAssumption DEF Sound
<1>11. StateIsSound'
  <2>1. Sound(db)'
    BY <1>10 DEF Sound, DirtyAgrees
  <2>2. (backup # None => Sound(backup))'
    BY <1>1, WorkFacts DEF Sound, DirtyAgrees
  <2> QED BY <2>1, <2>2 DEF StateIsSound
<1>12. WorkOk(p)'
  BY <1>1, <1>2, <1>10 DEF WorkOk, AtWork
<1>13. Moved(p) /\ holder' \in Procs \cup {None}
  BY <1>1 DEF InstallationIInv, StateHalf, Moved
<1> QED BY <1>1, <1>3, <1>11, <1>12, <1>13, WorkKeeps DEF Creating

(* The daemon backs up its state. *)
LEMMA BackupKeeps ==
    ASSUME InstallationIInv, NEW p \in Procs, Backup(p)
    PROVE  InstallationIInv'
<1>1. proc[p].pc = "serving" /\ backup' = db /\ UNCHANGED <<files, db, holder, proc, told, swept>>
  BY DEF Backup, Serving
<1>2. WorkOk(p)
  BY WorkFacts
<1>3. holder = p
  BY <1>1, <1>2 DEF WorkOk, AtWork
<1>4. StateIsSound'
  BY <1>1 DEF InstallationIInv, StateHalf, StateIsSound
<1>5. WorkOk(p)'
  BY <1>1, <1>2 DEF WorkOk, AtWork
<1>6. Moved(p) /\ holder' \in Procs \cup {None}
  BY <1>1 DEF InstallationIInv, StateHalf, Moved
<1> QED BY <1>1, <1>3, <1>4, <1>5, <1>6, WorkKeeps DEF Creating

-----------------------------------------------------------------------------
(* The invariant, and the properties it gives. *)

(* Every step of every process, of the operator and of the machine keeps the invariant. *)
LEMMA NextKeeps == InstallationIInv /\ [Next]_vars => InstallationIInv'
<1> SUFFICES ASSUME InstallationIInv, [Next]_vars PROVE InstallationIInv'
  OBVIOUS
<1>1. ASSUME NEW p \in Procs, StartConfigInit(p) PROVE InstallationIInv'
  BY <1>1, StartConfigInitKeeps
<1>2. ASSUME NEW p \in Procs, NEW cmd \in Commands, Start(p, cmd) PROVE InstallationIInv'
  BY <1>2, StartKeeps
<1>3. ASSUME NEW p \in Procs, CreateFile(p) PROVE InstallationIInv'
  BY <1>3, CreateFileKeeps
<1>4. ASSUME NEW p \in Procs, WriteFile(p) PROVE InstallationIInv'
  BY <1>4, WriteFileKeeps
<1>5. ASSUME NEW p \in Procs, SyncParent(p) PROVE InstallationIInv'
  BY <1>5, SyncParentKeeps
<1>6. ASSUME NEW p \in Procs, Initialize(p) PROVE InstallationIInv'
  BY <1>6, InitializeKeeps
<1>7. ASSUME NEW p \in Procs, Open(p) PROVE InstallationIInv'
  BY <1>7, OpenKeeps
<1>8. ASSUME NEW p \in Procs, Migrate(p) PROVE InstallationIInv'
  BY <1>8, MigrateKeeps
<1>9. ASSUME NEW p \in Procs, Bind(p) PROVE InstallationIInv'
  BY <1>9, BindKeeps
<1>10. ASSUME NEW p \in Procs, ConfigApply(p) PROVE InstallationIInv'
  BY <1>10, ConfigApplyKeeps
<1>11. ASSUME NEW p \in Procs, Stage(p) PROVE InstallationIInv'
  BY <1>11, StageKeeps
<1>12. ASSUME NEW p \in Procs, FinalizeRestore(p) PROVE InstallationIInv'
  BY <1>12, FinalizeRestoreKeeps
<1>13. ASSUME NEW p \in Procs, Unlock(p) PROVE InstallationIInv'
  BY <1>13, UnlockKeeps
<1>14. ASSUME NEW p \in Procs, Backup(p) PROVE InstallationIInv'
  BY <1>14, BackupKeeps
<1>15. ASSUME NEW p \in Procs, Stop(p) PROVE InstallationIInv'
  BY <1>15, EndKeeps DEF Stop
<1>16. ASSUME NEW p \in Procs, NEW t \in Trades, Ingest(p, t) PROVE InstallationIInv'
  BY <1>16, IngestKeeps
<1>17. ASSUME NEW p \in Procs, Crash(p) PROVE InstallationIInv'
  BY <1>17, EndKeeps DEF Crash
<1>18. CASE InstallDocument
  BY <1>18, InstallDocumentKeeps
<1>19. CASE PowerLoss
  BY <1>19, PowerLossKeeps
<1>20. ASSUME NEW f \in DOMAIN files, RemoveUnwritten(f) PROVE InstallationIInv'
  BY <1>20, RemoveUnwrittenKeeps
<1>21. ASSUME NEW p \in Procs, Unlink(p) PROVE InstallationIInv'
  BY <1>21, UnlinkKeeps
<1>22. CASE UNCHANGED vars
  BY <1>22 DEF vars, InstallationIInv, FilesHalf, StateHalf, StateIsSound, Sound, DirtyAgrees,
               WorkOk, FileOk, HoldsName, NoRivals, Rivals, ConfigIsADocument, ToldAreSettled,
               Readable
<1> QED BY <1>1, <1>2, <1>3, <1>4, <1>5, <1>6, <1>7, <1>8, <1>9, <1>10, <1>11, <1>12, <1>13,
           <1>14, <1>15, <1>16, <1>17, <1>18, <1>19, <1>20, <1>21,
           <1>22 DEF Next

(* The invariant holds in every reachable state. *)
LEMMA InstallationIInvHolds == Spec => []InstallationIInv
<1> QED BY InitEstablishes, NextKeeps, PTL DEF Spec

(* The state and its backup keep the shape every later command can open: whatever commands  *)
(* interleave and wherever a process dies, their binding histories stay within the capacity, *)
(* in order of time, and readable by every build that may open them (validate_history).      *)
THEOREM InstallationInvHolds == Spec => []InstallationInv
<1>1. InstallationIInv => InstallationInv
  <2> SUFFICES ASSUME InstallationIInv PROVE InstallationInv
    OBVIOUS
  <2>1. \A d \in {db, backup} \ {None} : Sound(d)
    BY DEF InstallationIInv, StateHalf, StateIsSound
  <2>2. InstallationTypeOK
    <3>1. told \subseteq DOMAIN files /\ swept \subseteq DOMAIN files
      BY DEF InstallationIInv, FilesHalf
    <3> QED BY <2>1, <3>1 DEF InstallationTypeOK, InstallationIInv, FilesHalf, StateHalf, Sound
  <2>3. HistoryStaysReadable
    BY <2>1 DEF HistoryStaysReadable, Sound
  <2> QED BY <2>2, <2>3 DEF InstallationInv
<1> QED BY <1>1, InstallationIInvHolds, PTL

(* A serving daemon has the authority over a database whose last binding is its own document *)
(* and build, and signs with the key that document expects: what bind_or_verify and the      *)
(* unlocking established stays true for as long as it serves (run_rhi_daemon).               *)
THEOREM ServesWhatIsBoundHolds == Spec => []ServesWhatIsBound
<1>1. InstallationIInv => ServesWhatIsBound
  <2> SUFFICES ASSUME InstallationIInv, NEW p \in Procs, proc[p].pc = "serving"
               PROVE  LET b == Last(db.history) IN
                      /\ holder = p
                      /\ b.doc = proc[p].doc /\ b.version = proc[p].version
                      /\ db.version = b.version
                      /\ proc[p].body = DocKey[b.doc]
    BY DEF ServesWhatIsBound, Serving
  <2>1. WorkOk(p)
    BY WorkFacts
  <2> QED BY <2>1 DEF WorkOk, AtWork
<1> QED BY <1>1, InstallationIInvHolds, PTL

(* Every dirty trade of the state and of its backup is under the policy of the last binding, *)
(* across applies, migrations and restores (append_configuration, advance_dirty_policy).     *)
THEOREM DirtyFollowsPolicyHolds == Spec => []DirtyFollowsPolicy
<1>1. InstallationIInv => DirtyFollowsPolicy
  <2> SUFFICES ASSUME InstallationIInv PROVE DirtyFollowsPolicy
    OBVIOUS
  <2>1. \A d \in {db, backup} \ {None} : DirtyAgrees(d)
    BY DEF InstallationIInv, StateHalf, StateIsSound, Sound
  <2> QED BY <2>1 DEF DirtyFollowsPolicy, DirtyAgrees
<1> QED BY <1>1, InstallationIInvHolds, PTL

(* A file whose creation was reported stays whole, whatever crashes, power losses, cleanups *)
(* and later commands follow, except at a name the operator swept between the two calls of  *)
(* a cleanup (persist_create_new, cleanup).                                                 *)
THEOREM ReportedFilesStayHolds == Spec => []ReportedFilesStay
<1>1. InstallationIInv => ReportedFilesStay
  BY DEF InstallationIInv, FilesHalf, ToldAreSettled, ReportedFilesStay
<1> QED BY <1>1, InstallationIInvHolds, PTL
=============================================================================
