----------------------------- MODULE AdminProofs -----------------------------
(***************************************************************************)
(* What the admin service guarantees for any number of clients,            *)
(* identifiers and rows, any retention and any limits: the journal decodes *)
(* and keeps its limits, the work of an operation is done once, success is *)
(* on record before it is answered, and the pages of a list leave nothing  *)
(* of their snapshot out.                                                  *)
(***************************************************************************)
EXTENDS AdminJournal, AdminPages, FiniteSetTheorems, TLAPS

-----------------------------------------------------------------------------
(* Rows, handlers and counts *)

Results == 1 .. MaxEffects
AnswerCodes == {"none", "success", "invalid_request", "operation_conflict",
                "operation_id_conflict", "service_unavailable", "internal_error"}
Holding(j, state) == {i \in Ids : j[i].state = state}

(* The numbers of the configuration; SQL NULL is none of them. *)
LEMMA ConstantFacts ==
    /\ LastTime \in Nat /\ Retention \in Nat \ {0} /\ MaxEffects \in Nat \ {0}
    /\ CompletedLimit \in Nat \ {0} /\ PreparedLimit \in Nat \ {0}
    /\ Times \subseteq Nat /\ Null \notin Nat /\ Null \notin Results
BY JournalAssumption DEF Times, Null, Results

(* Counts are of finite sets. *)
LEMMA CountFacts ==
    ASSUME NEW j, NEW state
    PROVE  /\ IsFiniteSet(Holding(j, state))
           /\ In(j, state) = Cardinality(Holding(j, state)) /\ In(j, state) \in Nat
<1>1. IsFiniteSet(Ids) /\ Holding(j, state) \subseteq Ids
  BY JournalAssumption DEF Holding
<1>2. IsFiniteSet(Holding(j, state))
  BY <1>1, FS_Subset
<1> QED
  BY <1>2, FS_CardinalityType DEF In, Holding

(* Fewer rows count less. *)
LEMMA CountsShrink ==
    ASSUME NEW j, NEW k, NEW state, Holding(k, state) \subseteq Holding(j, state)
    PROVE  In(k, state) <= In(j, state)
BY CountFacts, FS_Subset

(* One more row counts one more, one less one less. *)
LEMMA CountsMove ==
    ASSUME NEW j, NEW k, NEW state, NEW i
    PROVE  /\ i \notin Holding(j, state) /\ Holding(k, state) = Holding(j, state) \cup {i}
                => In(k, state) = In(j, state) + 1
           /\ i \in Holding(j, state) /\ Holding(k, state) = Holding(j, state) \ {i}
                => In(k, state) = In(j, state) - 1
<1> DEFINE A == Holding(j, state)
           B == Holding(k, state)
<1>1. /\ IsFiniteSet(A) /\ In(j, state) = Cardinality(A) /\ In(k, state) = Cardinality(B)
  BY CountFacts
<1> HIDE DEF A, B
<1>2. i \notin A => Cardinality(A \cup {i}) = Cardinality(A) + 1
  BY <1>1, FS_AddElement
<1>3. i \in A => Cardinality(A \ {i}) = Cardinality(A) - 1
  BY <1>1, FS_RemoveElement
<1> QED
  BY <1>1, <1>2, <1>3 DEF A, B

(* The CHECK of rhi_admin_operations. *)
RowShape(row) ==
    /\ (row.state = "completed") = (row.response # Null)
    /\ row.state = "completed" => row.at + Retention <= row.expires

(* No row. *)
LEMMA AbsentFacts == Absent \in Row /\ RowShape(Absent) /\ Absent.state = "absent"
BY DEF Absent, Row, RowShape

(* A row as prepare_operation inserts it. *)
LEMMA PreparedFacts ==
    ASSUME NEW request \in Request, NEW now \in Times
    PROVE  LET row == [Absent EXCEPT !.state = "prepared", !.request = request, !.at = now]
           IN  /\ row \in Row /\ RowShape(row) /\ row.state = "prepared"
               /\ row.request = request /\ row.at = now
BY DEF Absent, Row, RowShape

(* A row as complete_operation leaves it. *)
LEMMA CompletedFacts ==
    ASSUME NEW row \in Row, NEW now \in Times, NEW response \in Results,
           row.at \in Times, Completable(now, row.at)
    PROVE  LET new == CompletedRow(row, now, response)
           IN  /\ new \in Row /\ RowShape(new) /\ new.state = "completed"
               /\ new.request = row.request /\ new.response = response
<1> DEFINE e == now + Retention
           t == row.at
           new == CompletedRow(row, now, response)
<1>1. t \in Nat /\ now \in Nat /\ Retention \in Nat
  BY ConstantFacts
<1>2. t <= now /\ e \in Times
  BY DEF Completable
<1>3. t + Retention <= e
  BY <1>1, <1>2
<1>4. new = [row EXCEPT !.state = "completed", !.expires = e, !.response = response]
  BY DEF CompletedRow
<1> HIDE DEF e, new
<1>5. /\ new \in Row /\ new.state = "completed" /\ new.expires = e
      /\ new.request = row.request /\ new.response = response /\ new.at = t
  BY <1>2, <1>4 DEF Row, Results
<1>6. RowShape(new)
  BY <1>3, <1>5, ConstantFacts DEF RowShape
<1> QED
  BY <1>5, <1>6 DEF new

-----------------------------------------------------------------------------
(* The inductive invariant *)

Busy(c) == handlers[c].pc \in {"work", "complete"}

(* The types of JournalTypeOK, and of the work it counts. *)
Types ==
    /\ journal \in [Ids -> Row] /\ handlers \in [Clients -> Handler]
    /\ effects \in 0 .. MaxEffects /\ applied \in [Ids -> Nat]
    /\ \A i \in Ids : RowShape(journal[i])

(* A handler that is not idle has a request; one at work the clock reading *)
(* of its preparation, and one that has worked its result.                 *)
HandlersCarry ==
    \A c \in Clients :
      /\ handlers[c].pc # "idle" => handlers[c].request \in Request
      /\ Busy(c) => handlers[c].at \in Times
      /\ handlers[c].pc = "complete" => handlers[c].response \in Results

(* No two handlers work under one row. *)
SoleWorker ==
    \A c, d \in Clients :
      Busy(c) /\ Busy(d) /\ c # d => handlers[c].request.id # handlers[d].request.id

JournalIInv ==
    /\ Types /\ HandlersCarry /\ SoleWorker
    /\ JournalBounded /\ WorkIsDoneOnce

(* A request names an operation. *)
LEMMA RequestFacts ==
    ASSUME NEW request \in Request
    PROVE  request.id \in Ids /\ request.route \in Routes
BY DEF Request

(* Only one client's handler moves. *)
Others(c) == \A d \in Clients : d # c => handlers'[d] = handlers[d]

(* An answer ends the handler's request. *)
LEMMA AnswerFacts ==
    ASSUME Types, NEW c \in Clients, NEW answer \in AnswerCodes,
           NEW response \in Results \cup {Null}, Answer(c, answer, response)
    PROVE  /\ handlers' \in [Clients -> Handler] /\ Others(c) /\ handlers'[c].pc = "idle"
           /\ handlers'[c].answer = answer /\ handlers'[c].response = response
<1> DEFINE h == [Waiting EXCEPT !.answer = answer, !.response = response]
<1>1. h \in Handler /\ h.pc = "idle" /\ h.answer = answer /\ h.response = response
  BY DEF Waiting, Handler, AnswerCodes, Results
<1>2. handlers' = [handlers EXCEPT ![c] = h]
  BY DEF Answer
<1> HIDE DEF h
<1> QED
  BY <1>1, <1>2 DEF Types, Others

(* The columns of an operation. *)
LEMMA RowFacts ==
    ASSUME Types, NEW i \in Ids
    PROVE  journal[i] \in Row /\ RowShape(journal[i]) /\ applied[i] \in Nat
BY DEF Types

(* A row stays, or its receipt is pruned. *)
Kept(i) == journal'[i] = journal[i] /\ applied'[i] = applied[i]
Dropped(i) == journal[i].state = "completed" /\ journal'[i] = Absent /\ applied'[i] = 0

(* prune_expired drops receipts, and nothing that is prepared. *)
LEMMA PruneFacts ==
    ASSUME JournalIInv, NEW now
    PROVE  LET j == Pruned(now)
               a == AppliedAfter(j)
           IN  /\ j \in [Ids -> Row] /\ a \in [Ids -> Nat]
               /\ \A i \in Ids :
                    \/ j[i] = journal[i] /\ a[i] = applied[i]
                    \/ journal[i].state = "completed" /\ j[i] = Absent /\ a[i] = 0
<1> DEFINE j == Pruned(now)
           a == AppliedAfter(j)
<1>1. ASSUME NEW i \in Ids
      PROVE  j[i] = IF Expired(journal[i], now) THEN Absent ELSE journal[i]
  BY DEF Pruned
<1>2. ASSUME NEW i \in Ids
      PROVE  a[i] = IF j[i].state = "absent" THEN 0 ELSE applied[i]
  BY DEF AppliedAfter
<1>3. \A i \in Ids : journal[i] \in Row /\ applied[i] \in Nat
  BY RowFacts DEF JournalIInv
<1>4. \A i \in Ids : journal[i].state = "absent" => applied[i] = 0
  BY DEF JournalIInv, WorkIsDoneOnce
<1>5. j = [i \in Ids |-> j[i]] /\ a = [i \in Ids |-> a[i]]
  BY DEF Pruned, AppliedAfter
<1> HIDE DEF j, a
<1>6. ASSUME NEW i \in Ids
      PROVE  \/ j[i] = journal[i] /\ a[i] = applied[i]
             \/ journal[i].state = "completed" /\ j[i] = Absent /\ a[i] = 0
  BY <1>1, <1>2, <1>4, AbsentFacts DEF Expired
<1>7. \A i \in Ids : j[i] \in Row /\ a[i] \in Nat
  BY <1>3, <1>6, AbsentFacts
<1>8. j \in [Ids -> Row] /\ a \in [Ids -> Nat]
  BY <1>5, <1>7
<1> QED
  BY <1>6, <1>8 DEF j, a

(* JournalBounded speaks of the counts. *)
LEMMA BoundFacts ==
    JournalBounded' <=> /\ In(journal', "completed") + In(journal', "prepared") <= CompletedLimit
                        /\ In(journal', "prepared") <= PreparedLimit
BY DEF JournalBounded, In

(* Fewer receipts and the same preparations keep the limits. *)
LEMMA PruningKeepsBounds ==
    ASSUME JournalBounded, \A i \in Ids : Kept(i) \/ Dropped(i)
    PROVE  JournalBounded'
<1>1. /\ Holding(journal', "completed") \subseteq Holding(journal, "completed")
      /\ Holding(journal', "prepared") \subseteq Holding(journal, "prepared")
  BY AbsentFacts DEF Holding, Kept, Dropped
<1>2. /\ In(journal', "completed") <= In(journal, "completed")
      /\ In(journal', "prepared") <= In(journal, "prepared")
  BY <1>1, CountsShrink
<1>3. /\ In(journal', "completed") \in Nat /\ In(journal', "prepared") \in Nat
      /\ In(journal, "completed") \in Nat /\ In(journal, "prepared") \in Nat
  BY CountFacts
<1> QED
  BY <1>2, <1>3, BoundFacts, ConstantFacts DEF JournalBounded

(* What a handler at work is guaranteed, in the next state. *)
HeldAfter(c) ==
    LET h == handlers'[c]
        row == journal'[h.request.id]
    IN  /\ row.state = "prepared" /\ row.request = h.request /\ row.at = h.at
        /\ applied'[h.request.id] = IF h.pc = "work" THEN 0 ELSE 1

(* The invariant in the next state, part by part. *)
LEMMA NextParts ==
    ASSUME Types', HandlersCarry', SoleWorker', JournalBounded',
           \A c \in Clients : handlers'[c].pc \in {"work", "complete"} => HeldAfter(c),
           \A i \in Ids : /\ applied'[i] <= 1
                          /\ journal'[i].state = "completed" => applied'[i] = 1
                          /\ journal'[i].state = "absent" => applied'[i] = 0
    PROVE  JournalIInv'
BY DEF JournalIInv, WorkIsDoneOnce, HeldAfter

(* A handler that was at work is still at work under its row. *)
LEMMA StillHeld ==
    ASSUME JournalIInv, NEW c \in Clients, Busy(c), handlers'[c] = handlers[c],
           Kept(handlers[c].request.id) \/ Dropped(handlers[c].request.id)
    PROVE  HeldAfter(c)
BY DEF JournalIInv, WorkIsDoneOnce, Busy, HeldAfter, Kept, Dropped

(* A step that does no work: receipts may be pruned, handlers move on or end. *)
LEMMA QuietStep ==
    ASSUME JournalIInv, handlers' \in [Clients -> Handler], effects' = effects,
           journal' \in [Ids -> Row], applied' \in [Ids -> Nat],
           \A i \in Ids : Kept(i) \/ Dropped(i),
           \A c \in Clients :
             \/ handlers'[c] = handlers[c]
             \/ /\ handlers'[c].pc \notin {"work", "complete"}
                /\ handlers'[c].pc # "idle" => handlers'[c].request \in Request
    PROVE  JournalIInv'
<1>1. Types /\ HandlersCarry /\ SoleWorker /\ JournalBounded /\ WorkIsDoneOnce
  BY DEF JournalIInv
<1>2. Types'
  BY <1>1, RowFacts, AbsentFacts DEF Types, Kept, Dropped
<1>3. HandlersCarry'
  BY <1>1 DEF HandlersCarry, Busy
<1>4. SoleWorker'
  BY <1>1 DEF SoleWorker, Busy
<1>5. ASSUME NEW c \in Clients, handlers'[c].pc \in {"work", "complete"}
      PROVE  HeldAfter(c)
  <2>1. handlers'[c] = handlers[c] /\ Busy(c)
    BY <1>5 DEF Busy
  <2>2. handlers[c].request.id \in Ids
    BY <1>1, <2>1, RequestFacts DEF HandlersCarry, Busy
  <2> QED
    BY <2>1, <2>2, StillHeld
<1>6. \A i \in Ids : /\ applied'[i] <= 1
                     /\ journal'[i].state = "completed" => applied'[i] = 1
                     /\ journal'[i].state = "absent" => applied'[i] = 0
  BY <1>1, AbsentFacts DEF Kept, Dropped, WorkIsDoneOnce
<1> QED
  BY <1>1, <1>2, <1>3, <1>4, <1>5, <1>6, NextParts, PruningKeepsBounds

(* A step that writes the row of one operation for one handler, which nobody *)
(* else works under.                                                         *)
LEMMA RowStep ==
    ASSUME JournalIInv, NEW c \in Clients, NEW id \in Ids,
           handlers' \in [Clients -> Handler], Others(c), effects' \in 0 .. MaxEffects,
           journal' \in [Ids -> Row], applied' \in [Ids -> Nat],
           \A i \in Ids : i # id => Kept(i) \/ Dropped(i),
           \A d \in Clients : d # c /\ Busy(d) => handlers[d].request.id # id,
           RowShape(journal'[id]), journal'[id].state # "absent", applied'[id] <= 1,
           journal'[id].state = "completed" => applied'[id] = 1,
           \/ handlers'[c].pc = "idle"
           \/ /\ handlers'[c].pc \in {"work", "complete"} /\ HeldAfter(c)
              /\ handlers'[c].request \in Request /\ handlers'[c].request.id = id
              /\ handlers'[c].at \in Times
              /\ handlers'[c].pc = "complete" => handlers'[c].response \in Results,
           JournalBounded'
    PROVE  JournalIInv'
<1>1. Types /\ HandlersCarry /\ SoleWorker /\ JournalBounded /\ WorkIsDoneOnce
  BY DEF JournalIInv
<1>2. Types'
  <2>1. ASSUME NEW i \in Ids
        PROVE  RowShape(journal'[i])
    <3>1. CASE i = id
      BY <3>1
    <3>2. CASE i # id
      <4>1. RowShape(journal[i])
        BY <1>1, RowFacts
      <4> QED
        BY <3>2, <4>1, AbsentFacts DEF Kept, Dropped
    <3> QED
      BY <3>1, <3>2
  <2> QED
    BY <2>1 DEF Types
<1>3. HandlersCarry'
  BY <1>1 DEF HandlersCarry, Busy, Others
<1>4. SoleWorker'
  <2> SUFFICES ASSUME NEW a \in Clients, NEW b \in Clients, a # b,
                      handlers'[a].pc \in {"work", "complete"},
                      handlers'[b].pc \in {"work", "complete"}
               PROVE  handlers'[a].request.id # handlers'[b].request.id
    BY DEF SoleWorker, Busy
  <2>1. CASE a = c
    BY <2>1 DEF Others, Busy
  <2>2. CASE b = c
    BY <2>2 DEF Others, Busy
  <2>3. CASE a # c /\ b # c
    BY <1>1, <2>3 DEF Others, SoleWorker, Busy
  <2> QED
    BY <2>1, <2>2, <2>3
<1>5. ASSUME NEW d \in Clients, handlers'[d].pc \in {"work", "complete"}
      PROVE  HeldAfter(d)
  <2>1. CASE d = c
    BY <1>5, <2>1
  <2>2. CASE d # c
    <3>1. handlers'[d] = handlers[d] /\ Busy(d)
      BY <1>5, <2>2 DEF Others, Busy
    <3>2. handlers[d].request.id \in Ids /\ handlers[d].request.id # id
      BY <1>1, <2>2, <3>1, RequestFacts DEF HandlersCarry, Busy
    <3> QED
      BY <3>1, <3>2, StillHeld
  <2> QED
    BY <2>1, <2>2
<1>6. \A i \in Ids : /\ applied'[i] <= 1
                     /\ journal'[i].state = "completed" => applied'[i] = 1
                     /\ journal'[i].state = "absent" => applied'[i] = 0
  BY <1>1, AbsentFacts DEF Kept, Dropped, WorkIsDoneOnce
<1> QED
  BY <1>2, <1>3, <1>4, <1>5, <1>6, NextParts

-----------------------------------------------------------------------------
(* The actions *)

(* The step SuccessIsOnRecord allows. *)
OnRecord(c) ==
    LET row == journal'[handlers[c].request.id]
    IN  /\ row.state = "completed" /\ row.request = handlers[c].request
        /\ row.response = handlers'[c].response

Recorded ==
    \A c \in Clients : handlers[c].answer # "success" /\ handlers'[c].answer = "success" => OnRecord(c)

(* Handlers that get no success need no record. *)
LEMMA RecordedFor ==
    ASSUME NEW c \in Clients, Others(c), handlers'[c].answer = "success" => OnRecord(c)
    PROVE  Recorded
BY DEF Recorded, Others

(* A handler's place changes, and nothing else of it. *)
LEMMA GotoFacts ==
    ASSUME JournalIInv, NEW c \in Clients, NEW pc \in {"prepare"}, Goto(c, pc)
    PROVE  /\ handlers' \in [Clients -> Handler] /\ Others(c) /\ handlers'[c].pc = pc
           /\ handlers'[c].request = handlers[c].request
           /\ handlers'[c].answer = handlers[c].answer
BY DEF Goto, JournalIInv, Types, Handler, Others

(* The verdicts of prepare_operation. *)
LEMMA AdmissionFacts ==
    ASSUME NEW j \in [Ids -> Row], NEW request \in Request
    PROVE  LET row == j[request.id]
               verdict == Admission(j, request)
           IN  /\ verdict \in {"prepared", "success", "service_unavailable", "operation_id_conflict"}
               /\ verdict = "prepared" => row.state = "absent" /\ HasRoom(j)
               /\ verdict = "success" => row.state = "completed" /\ row.request = request
<1>1. j[request.id] \in Row
  BY RequestFacts
<1> QED
  BY <1>1 DEF Admission, Row

(* A row inserted into the pruned journal: nobody works under its identifier, *)
(* and the limits, counted before the insert, are kept.                       *)
LEMMA InsertFacts ==
    ASSUME JournalIInv, NEW now, NEW request \in Request, NEW row \in Row,
           Admission(Pruned(now), request) = "prepared", row.state \in {"prepared", "completed"},
           journal' = [Pruned(now) EXCEPT ![request.id] = row],
           \A i \in Ids : i # request.id => applied'[i] = AppliedAfter(Pruned(now))[i]
    PROVE  /\ journal' \in [Ids -> Row] /\ journal'[request.id] = row
           /\ AppliedAfter(Pruned(now))[request.id] = 0
           /\ \A i \in Ids : i # request.id => Kept(i) \/ Dropped(i)
           /\ \A d \in Clients : Busy(d) => handlers[d].request.id # request.id
           /\ JournalBounded'
<1> DEFINE j == Pruned(now)
           a == AppliedAfter(j)
           id == request.id
<1>1. id \in Ids
  BY RequestFacts
<1>2. /\ j \in [Ids -> Row]
      /\ \A i \in Ids : \/ j[i] = journal[i] /\ a[i] = applied[i]
                        \/ journal[i].state = "completed" /\ j[i] = Absent /\ a[i] = 0
  BY PruneFacts
<1>3. j[id].state = "absent" /\ HasRoom(j)
  BY <1>2, AdmissionFacts
<1>4. a[id] = 0
  BY <1>1, <1>3 DEF AppliedAfter
<1>5. \A d \in Clients : Busy(d) => journal[handlers[d].request.id].state = "prepared"
  BY DEF JournalIInv, WorkIsDoneOnce, Busy
<1>6. journal' = [j EXCEPT ![id] = row] /\ \A i \in Ids : i # id => applied'[i] = a[i]
  OBVIOUS
<1> HIDE DEF j, a, id
<1>7. /\ journal' \in [Ids -> Row] /\ journal'[id] = row
      /\ \A i \in Ids : i # id => journal'[i] = j[i]
  BY <1>1, <1>2, <1>6
<1>8. \A i \in Ids : i # id => Kept(i) \/ Dropped(i)
  BY <1>2, <1>6, <1>7 DEF Kept, Dropped
<1>9. \A d \in Clients : Busy(d) => handlers[d].request.id # id
  BY <1>1, <1>2, <1>3, <1>5
<1>10. JournalBounded'
  <2>1. /\ In(j, "completed") + In(j, "prepared") < CompletedLimit
        /\ In(j, "prepared") < PreparedLimit
    BY <1>3 DEF HasRoom
  <2>2. ASSUME NEW state \in {"prepared", "completed"}
        PROVE  /\ id \notin Holding(j, state)
               /\ state = row.state => Holding(journal', state) = Holding(j, state) \cup {id}
               /\ state # row.state => Holding(journal', state) = Holding(j, state)
    BY <1>1, <1>3, <1>7 DEF Holding
  <2>3. ASSUME NEW state \in {"prepared", "completed"}
        PROVE  /\ state = row.state => In(journal', state) = In(j, state) + 1
               /\ state # row.state => In(journal', state) = In(j, state)
    <3>1. ASSUME state = row.state
          PROVE  In(journal', state) = In(j, state) + 1
      <4>1. id \notin Holding(j, state) /\ Holding(journal', state) = Holding(j, state) \cup {id}
        BY <2>2, <3>1
      <4> QED
        BY <4>1, CountsMove, Zenon
    <3>2. ASSUME state # row.state
          PROVE  In(journal', state) = In(j, state)
      <4>1. Holding(journal', state) = Holding(j, state)
        BY <2>2, <3>2
      <4> QED
        BY <4>1 DEF In, Holding
    <3> QED
      BY <3>1, <3>2
  <2>4. In(j, "completed") \in Nat /\ In(j, "prepared") \in Nat
    BY CountFacts
  <2> QED
    BY <2>1, <2>3, <2>4, BoundFacts, ConstantFacts
<1> QED
  BY <1>4, <1>7, <1>8, <1>9, <1>10 DEF j, a, id

(* Pruned receipts and an answer. *)
LEMMA PrunedStep ==
    ASSUME JournalIInv, NEW c \in Clients, NEW now, journal' = Pruned(now),
           applied' = AppliedAfter(Pruned(now)), effects' = effects,
           handlers' \in [Clients -> Handler], Others(c), handlers'[c].pc = "idle"
    PROVE  JournalIInv'
<1>1. /\ journal' \in [Ids -> Row] /\ applied' \in [Ids -> Nat]
      /\ \A i \in Ids : Kept(i) \/ Dropped(i)
  BY PruneFacts DEF Kept, Dropped
<1> QED
  BY <1>1, QuietStep DEF Others

(* An answer and nothing else. *)
LEMMA RefusalStep ==
    ASSUME JournalIInv, NEW c \in Clients, NEW answer \in AnswerCodes \ {"success"},
           Answer(c, answer, Null), UNCHANGED <<journal, effects, applied>>
    PROVE  JournalIInv' /\ Recorded
<1>1. /\ handlers' \in [Clients -> Handler] /\ Others(c) /\ handlers'[c].pc = "idle"
      /\ handlers'[c].answer = answer
  BY AnswerFacts DEF JournalIInv
<1>2. /\ journal' \in [Ids -> Row] /\ applied' \in [Ids -> Nat] /\ effects' = effects
      /\ \A i \in Ids : Kept(i)
  BY DEF JournalIInv, Types, Kept
<1> QED
  BY <1>1, <1>2, QuietStep, RecordedFor DEF Others

(* Requests are received, refused or checked. *)
LEMMA SendStep ==
    ASSUME JournalIInv, NEW c \in Clients, NEW request \in Request, Send(c, request)
    PROVE  JournalIInv' /\ Recorded
<1> DEFINE h == [Waiting EXCEPT !.pc = "admitted", !.request = request]
<1>1. /\ h \in Handler /\ h.pc = "admitted" /\ h.request = request /\ h.answer = "none"
  BY DEF Waiting, Handler
<1>2. handlers' = [handlers EXCEPT ![c] = h] /\ UNCHANGED <<journal, effects, applied>>
  BY DEF Send
<1> HIDE DEF h
<1>3. handlers' \in [Clients -> Handler] /\ Others(c) /\ handlers'[c] = h
  BY <1>1, <1>2 DEF JournalIInv, Types, Others
<1>4. /\ journal' \in [Ids -> Row] /\ applied' \in [Ids -> Nat] /\ effects' = effects
      /\ \A i \in Ids : Kept(i)
  BY <1>2 DEF JournalIInv, Types, Kept
<1>5. JournalIInv'
  BY <1>1, <1>3, <1>4, QuietStep DEF Others
<1> QED
  BY <1>1, <1>3, <1>5, RecordedFor

(* A refused admission. *)
LEMMA RefuseStep ==
    ASSUME JournalIInv, NEW c \in Clients,
           Refuse(c) \/ WorkFails(c) \/ TransactionFails(c)
    PROVE  JournalIInv' /\ Recorded
<1>1. /\ UNCHANGED <<journal, effects, applied>>
      /\ \E answer \in AnswerCodes \ {"success"} : Answer(c, answer, Null)
  BY DEF Refuse, WorkFails, TransactionFails, AnswerCodes
<1> QED
  BY <1>1, RefusalStep

(* A handler that is not idle has a request, which names an operation. *)
LEMMA HandlerFacts ==
    ASSUME JournalIInv, NEW c \in Clients, handlers[c].pc # "idle"
    PROVE  /\ handlers[c] \in Handler /\ handlers[c].request \in Request
           /\ handlers[c].request.id \in Ids
BY RequestFacts DEF JournalIInv, Types, HandlersCarry

(* The generation check of the external routes. *)
LEMMA CheckStep ==
    ASSUME JournalIInv, NEW c \in Clients, CheckGeneration(c)
    PROVE  JournalIInv' /\ Recorded
<1>1. handlers[c].pc = "admitted" /\ UNCHANGED <<journal, effects, applied>>
  BY DEF CheckGeneration, Admissible
<1>2. CASE Goto(c, "prepare")
  <2>1. /\ handlers' \in [Clients -> Handler] /\ Others(c) /\ handlers'[c].pc = "prepare"
        /\ handlers'[c].request = handlers[c].request
        /\ handlers'[c].answer = handlers[c].answer
    BY <1>2, GotoFacts
  <2>2. /\ journal' \in [Ids -> Row] /\ applied' \in [Ids -> Nat] /\ effects' = effects
        /\ \A i \in Ids : Kept(i)
    BY <1>1 DEF JournalIInv, Types, Kept
  <2>3. handlers'[c].request \in Request
    BY <1>1, <2>1, HandlerFacts
  <2>4. JournalIInv'
    BY <2>1, <2>2, <2>3, QuietStep DEF Others
  <2>5. Recorded
    BY <2>1 DEF Recorded, Others
  <2> QED
    BY <2>4, <2>5
<1>3. CASE Answer(c, "operation_conflict", Null)
  BY <1>1, <1>3, RefusalStep DEF AnswerCodes
<1> QED
  BY <1>2, <1>3 DEF CheckGeneration

(* prepare_admin_operation *)
LEMMA PrepareStep ==
    ASSUME JournalIInv, NEW c \in Clients, NEW now \in Times, NEW known \in BOOLEAN,
           Prepare(c, now, known)
    PROVE  JournalIInv' /\ Recorded
<1> DEFINE request == handlers[c].request
           j == Pruned(now)
           verdict == Admission(j, request)
           row == [Absent EXCEPT !.state = "prepared", !.request = request, !.at = now]
<1>1. handlers[c].pc = "prepare" /\ effects' = effects /\ effects \in 0 .. MaxEffects
  BY DEF Prepare, JournalIInv, Types
<1>2. handlers[c] \in Handler /\ request \in Request /\ request.id \in Ids
  BY <1>1, HandlerFacts
<1>3. j \in [Ids -> Row] /\ AppliedAfter(j) \in [Ids -> Nat]
  BY PruneFacts
<1>4. /\ verdict \in {"prepared", "success", "service_unavailable", "operation_id_conflict"}
      /\ verdict = "success" => j[request.id].state = "completed" /\ j[request.id].request = request
  BY <1>2, <1>3, AdmissionFacts
<1>5. CASE verdict = "prepared"
  <2>1. /\ journal' = [j EXCEPT ![request.id] = row] /\ applied' = AppliedAfter(j)
        /\ IF known THEN handlers' = [handlers EXCEPT ![c].pc = "work", ![c].at = now]
           ELSE Answer(c, "service_unavailable", Null)
    BY <1>5 DEF Prepare
  <2>2. /\ row \in Row /\ RowShape(row) /\ row.state = "prepared"
        /\ row.request = request /\ row.at = now
    BY <1>2, PreparedFacts
  <2> HIDE DEF row
  <2>3. /\ journal' \in [Ids -> Row] /\ journal'[request.id] = row
        /\ applied' \in [Ids -> Nat] /\ applied'[request.id] = 0
        /\ \A i \in Ids : i # request.id => Kept(i) \/ Dropped(i)
        /\ \A d \in Clients : Busy(d) => handlers[d].request.id # request.id
        /\ JournalBounded'
    <3>1. \A i \in Ids : i # request.id => applied'[i] = AppliedAfter(j)[i]
      BY <2>1
    <3>2. /\ journal' \in [Ids -> Row] /\ journal'[request.id] = row
          /\ AppliedAfter(j)[request.id] = 0
          /\ \A i \in Ids : i # request.id => Kept(i) \/ Dropped(i)
          /\ \A d \in Clients : Busy(d) => handlers[d].request.id # request.id
          /\ JournalBounded'
      <4>1. journal' = [j EXCEPT ![request.id] = row]
        BY <2>1
      <4>2. Admission(j, request) = "prepared" /\ row.state \in {"prepared", "completed"}
        BY <1>5, <2>2
      <4>3. row \in Row
        BY <2>2
      <4> HIDE DEF request, j
      <4> QED
        BY <1>2, <3>1, <4>1, <4>2, <4>3, InsertFacts DEF j
    <3> QED
      BY <1>3, <2>1, <3>2
  <2>4. CASE known
    <3> DEFINE h == [handlers[c] EXCEPT !.pc = "work", !.at = now]
    <3>1. /\ h \in Handler /\ h.pc = "work" /\ h.at = now /\ h.request = request
          /\ h.answer = handlers[c].answer
      BY <1>2 DEF Handler
    <3>2. handlers' = [handlers EXCEPT ![c] = h]
      BY <2>1, <2>4 DEF JournalIInv, Types
    <3> HIDE DEF h
    <3>3. /\ handlers' \in [Clients -> Handler] /\ Others(c) /\ handlers'[c].pc = "work"
          /\ handlers'[c].at = now /\ handlers'[c].request = request
          /\ handlers'[c].answer = handlers[c].answer
      BY <3>1, <3>2 DEF JournalIInv, Types, Others
    <3>4. HeldAfter(c)
      BY <2>2, <2>3, <3>3 DEF HeldAfter
    <3>5. JournalIInv'
      <4> HIDE DEF request
      <4> QED
        BY <1>1, <1>2, <2>2, <2>3, <3>3, <3>4, RowStep
    <3>6. Recorded
      BY <3>3 DEF Recorded, Others
    <3> QED
      BY <3>5, <3>6
  <2>5. CASE ~known
    <3>1. /\ handlers' \in [Clients -> Handler] /\ Others(c) /\ handlers'[c].pc = "idle"
          /\ handlers'[c].answer = "service_unavailable"
      BY <2>1, <2>5, AnswerFacts DEF JournalIInv, AnswerCodes
    <3>2. JournalIInv'
      <4> HIDE DEF request
      <4> QED
        BY <1>1, <1>2, <2>2, <2>3, <3>1, RowStep
    <3> QED
      BY <3>1, <3>2, RecordedFor
  <2> QED
    BY <2>4, <2>5
<1>6. CASE verdict = "success"
  <2> DEFINE response == j[request.id].response
  <2>1. /\ journal' = j /\ applied' = AppliedAfter(j)
        /\ IF known THEN Answer(c, "success", response)
           ELSE Answer(c, "service_unavailable", Null)
    BY <1>6 DEF Prepare
  <2>2. response \in Results \cup {Null}
    BY <1>2, <1>3 DEF Row, Results
  <2>3. /\ handlers' \in [Clients -> Handler] /\ Others(c) /\ handlers'[c].pc = "idle"
        /\ handlers'[c].answer = "success" => handlers'[c].response = response
    <3> HIDE DEF response
    <3> QED
      BY <2>1, <2>2, AnswerFacts DEF JournalIInv, AnswerCodes
  <2>4. JournalIInv'
    BY <1>1, <2>1, <2>3, PrunedStep
  <2>5. handlers'[c].answer = "success" => OnRecord(c)
    BY <1>4, <1>6, <2>1, <2>3 DEF OnRecord
  <2> QED
    BY <2>3, <2>4, <2>5, RecordedFor
<1>7. CASE verdict \notin {"prepared", "success"}
  <2>1. Answer(c, verdict, Null) /\ UNCHANGED <<journal, applied>>
    BY <1>7 DEF Prepare
  <2>2. verdict \in AnswerCodes \ {"success"}
    BY <1>4, <1>7 DEF AnswerCodes
  <2> HIDE DEF verdict
  <2> QED
    BY <1>1, <2>1, <2>2, RefusalStep
<1> QED
  BY <1>5, <1>6, <1>7

(* The work of a prepared operation *)
LEMMA WorkStep ==
    ASSUME JournalIInv, NEW c \in Clients, Work(c)
    PROVE  JournalIInv' /\ Recorded
<1> DEFINE request == handlers[c].request
           id == request.id
<1>1. /\ handlers[c].pc = "work" /\ effects < MaxEffects /\ effects' = effects + 1
      /\ applied' = [applied EXCEPT ![id] = @ + 1] /\ journal' = journal
      /\ handlers' = [handlers EXCEPT ![c].pc = "complete", ![c].response = effects + 1]
  BY DEF Work
<1>2. handlers[c] \in Handler /\ request \in Request /\ id \in Ids /\ Busy(c)
  BY <1>1, HandlerFacts DEF Busy
<1>3. /\ Types /\ HandlersCarry /\ SoleWorker /\ JournalBounded /\ WorkIsDoneOnce
      /\ effects \in 0 .. MaxEffects
  BY DEF JournalIInv, Types
<1>4. effects + 1 \in Results /\ effects' \in 0 .. MaxEffects
  BY <1>1, <1>3, ConstantFacts DEF Results
<1>5. /\ journal[id].state = "prepared" /\ journal[id].request = request
      /\ journal[id].at = handlers[c].at /\ applied[id] = 0 /\ handlers[c].at \in Times
  BY <1>1, <1>2, <1>3 DEF WorkIsDoneOnce, HandlersCarry
<1>6. /\ handlers' \in [Clients -> Handler] /\ Others(c) /\ handlers'[c].pc = "complete"
      /\ handlers'[c].request = request /\ handlers'[c].at = handlers[c].at
      /\ handlers'[c].response = effects + 1 /\ handlers'[c].answer = handlers[c].answer
  BY <1>1, <1>2, <1>3, <1>4 DEF Types, Handler, Others, Results
<1>7. /\ applied' \in [Ids -> Nat] /\ applied'[id] = 1
      /\ \A i \in Ids : i # id => Kept(i)
  BY <1>1, <1>2, <1>3, <1>5 DEF Types, Kept
<1>8. \A d \in Clients : d # c /\ Busy(d) => handlers[d].request.id # id
  BY <1>2, <1>3 DEF SoleWorker
<1>9. JournalBounded' /\ RowShape(journal'[id]) /\ journal' \in [Ids -> Row]
  BY <1>1, <1>2, <1>3, RowFacts, BoundFacts DEF JournalBounded, Types
<1>10. HeldAfter(c)
  BY <1>1, <1>5, <1>6, <1>7 DEF HeldAfter
<1>11. JournalIInv'
  <2>1. journal'[id].state = "prepared" /\ handlers'[c].request.id = id
    BY <1>1, <1>5, <1>6
  <2> HIDE DEF request, id
  <2> QED
    BY <1>2, <1>4, <1>5, <1>6, <1>7, <1>8, <1>9, <1>10, <2>1, RowStep
<1>12. Recorded
  BY <1>6 DEF Recorded, Others
<1> QED
  BY <1>11, <1>12

(* complete_admin_operation *)
LEMMA CompleteStep ==
    ASSUME JournalIInv, NEW c \in Clients, NEW now \in Times, NEW known \in BOOLEAN,
           Complete(c, now, known)
    PROVE  JournalIInv' /\ Recorded
<1> DEFINE request == handlers[c].request
           id == request.id
           response == handlers[c].response
           row == CompletedRow(journal[id], now, response)
<1>1. handlers[c].pc = "complete" /\ UNCHANGED <<effects, applied>>
  BY DEF Complete
<1>2. handlers[c] \in Handler /\ request \in Request /\ id \in Ids /\ Busy(c)
  BY <1>1, HandlerFacts DEF Busy
<1>3. /\ Types /\ HandlersCarry /\ SoleWorker /\ JournalBounded /\ WorkIsDoneOnce
      /\ effects \in 0 .. MaxEffects
  BY DEF JournalIInv, Types
<1>4. /\ journal[id].state = "prepared" /\ journal[id].request = request
      /\ journal[id].at = handlers[c].at /\ applied[id] = 1
      /\ handlers[c].at \in Times /\ response \in Results
  BY <1>1, <1>2, <1>3 DEF WorkIsDoneOnce, HandlersCarry
<1>5. CASE Completable(now, handlers[c].at)
  <2>1. /\ journal' = [journal EXCEPT ![id] = row]
        /\ IF known THEN Answer(c, "success", response)
           ELSE Answer(c, "service_unavailable", Null)
    BY <1>5 DEF Complete
  <2>2. /\ row \in Row /\ RowShape(row) /\ row.state = "completed"
        /\ row.request = request /\ row.response = response
    <3> DEFINE old == journal[id]
    <3>1. old \in Row /\ old.at \in Times /\ Completable(now, old.at) /\ old.request = request
      BY <1>2, <1>3, <1>4, <1>5, RowFacts
    <3> HIDE DEF old, request, response
    <3>2. LET new == CompletedRow(old, now, response)
          IN  /\ new \in Row /\ RowShape(new) /\ new.state = "completed"
              /\ new.request = old.request /\ new.response = response
      BY <1>4, <3>1, CompletedFacts
    <3> QED
      BY <3>1, <3>2 DEF old
  <2> HIDE DEF row
  <2>3. /\ journal' \in [Ids -> Row] /\ journal'[id] = row
        /\ \A i \in Ids : i # id => journal'[i] = journal[i]
    BY <1>2, <1>3, <2>1, <2>2 DEF Types
  <2>4. /\ applied' \in [Ids -> Nat] /\ applied'[id] = 1
        /\ \A i \in Ids : i # id => Kept(i)
    BY <1>1, <1>3, <1>4, <2>3 DEF Types, Kept
  <2>5. \A d \in Clients : d # c /\ Busy(d) => handlers[d].request.id # id
    BY <1>2, <1>3 DEF SoleWorker
  <2>6. JournalBounded'
    <3> HIDE DEF id, request, response
    <3>1. /\ id \in Holding(journal, "prepared")
          /\ Holding(journal', "prepared") = Holding(journal, "prepared") \ {id}
      BY <1>2, <1>4, <2>2, <2>3 DEF Holding
    <3>2. /\ id \notin Holding(journal, "completed")
          /\ Holding(journal', "completed") = Holding(journal, "completed") \cup {id}
      BY <1>2, <1>4, <2>2, <2>3 DEF Holding
    <3>3. In(journal', "prepared") = In(journal, "prepared") - 1
      BY <3>1, CountsMove, Zenon
    <3>4. In(journal', "completed") = In(journal, "completed") + 1
      BY <3>2, CountsMove, Zenon
    <3>5. In(journal, "completed") \in Nat /\ In(journal, "prepared") \in Nat
      BY CountFacts
    <3> QED
      BY <1>3, <3>3, <3>4, <3>5, BoundFacts, ConstantFacts DEF JournalBounded
  <2>7. /\ handlers' \in [Clients -> Handler] /\ Others(c) /\ handlers'[c].pc = "idle"
        /\ handlers'[c].answer = "success" => handlers'[c].response = response
    <3> HIDE DEF response
    <3> QED
      BY <1>3, <1>4, <2>1, AnswerFacts DEF AnswerCodes
  <2>8. JournalIInv'
    <3> HIDE DEF id, request, response
    <3> QED
      BY <1>1, <1>2, <1>3, <2>2, <2>3, <2>4, <2>5, <2>6, <2>7, RowStep
  <2>9. handlers'[c].answer = "success" => OnRecord(c)
    BY <2>2, <2>3, <2>7 DEF OnRecord
  <2> QED
    BY <2>7, <2>8, <2>9, RecordedFor
<1>6. CASE ~Completable(now, handlers[c].at)
  BY <1>1, <1>6, RefusalStep DEF Complete, AnswerCodes
<1> QED
  BY <1>5, <1>6

(* execute_database_admin_operation *)
LEMMA ExecuteStep ==
    ASSUME JournalIInv, NEW c \in Clients, NEW now \in Times, NEW ready \in BOOLEAN,
           NEW known \in BOOLEAN, Execute(c, now, ready, known)
    PROVE  JournalIInv' /\ Recorded
<1> DEFINE request == handlers[c].request
           id == request.id
           j == Pruned(now)
           verdict == Admission(j, request)
           applies == now + Retention \in Times /\ verdict = "prepared" /\ Applies(request, ready)
           replays == now + Retention \in Times /\ verdict = "success"
<1>1. handlers[c].pc = "admitted"
  BY DEF Execute, Admissible
<1>2. handlers[c] \in Handler /\ request \in Request /\ id \in Ids
  BY <1>1, HandlerFacts
<1>3. /\ j \in [Ids -> Row] /\ AppliedAfter(j) \in [Ids -> Nat]
      /\ Types /\ effects \in 0 .. MaxEffects
  BY PruneFacts DEF JournalIInv, Types
<1>4. /\ verdict \in {"prepared", "success", "service_unavailable", "operation_id_conflict"}
      /\ verdict = "success" => j[id].state = "completed" /\ j[id].request = request
  BY <1>2, <1>3, AdmissionFacts
<1>5. CASE applies
  <2> DEFINE n == effects + 1
             new == [Absent EXCEPT !.request = request, !.at = now]
             row == CompletedRow(new, now, n)
  <2>1. /\ effects < MaxEffects /\ effects' = n
        /\ journal' = [j EXCEPT ![id] = row]
        /\ applied' = [AppliedAfter(j) EXCEPT ![id] = @ + 1]
        /\ IF known THEN Answer(c, "success", n) ELSE Answer(c, "service_unavailable", Null)
    BY <1>5 DEF Execute
  <2>2. n \in Results /\ n \in 0 .. MaxEffects
    BY <1>3, <2>1, ConstantFacts DEF Results
  <2>3. new \in Row /\ new.at = now /\ new.request = request
    BY <1>2 DEF Absent, Row
  <2>4. Completable(now, new.at)
    BY <1>5, <2>3, ConstantFacts DEF Completable
  <2> HIDE DEF new, n
  <2>5. /\ row \in Row /\ RowShape(row) /\ row.state = "completed"
        /\ row.request = request /\ row.response = n
    <3> HIDE DEF request
    <3> QED
      BY <2>2, <2>3, <2>4, CompletedFacts
  <2> HIDE DEF row
  <2>6. /\ applied' \in [Ids -> Nat]
        /\ \A i \in Ids : i # id => applied'[i] = AppliedAfter(j)[i]
        /\ applied'[id] = AppliedAfter(j)[id] + 1
    BY <1>2, <1>3, <2>1
  <2>7. /\ journal' \in [Ids -> Row] /\ journal'[id] = row
        /\ AppliedAfter(j)[id] = 0
        /\ \A i \in Ids : i # id => Kept(i) \/ Dropped(i)
        /\ \A d \in Clients : Busy(d) => handlers[d].request.id # id
        /\ JournalBounded'
    <3>1. verdict = "prepared"
      BY <1>5
    <3> QED
      BY <1>2, <2>1, <2>5, <2>6, <3>1, InsertFacts
  <2>8. /\ handlers' \in [Clients -> Handler] /\ Others(c) /\ handlers'[c].pc = "idle"
        /\ handlers'[c].answer = "success" => handlers'[c].response = n
    BY <1>3, <2>1, <2>2, AnswerFacts DEF AnswerCodes
  <2>9. JournalIInv'
    <3>1. applied'[id] = 1
      BY <2>6, <2>7
    <3> HIDE DEF id, request, j
    <3> QED
      BY <1>2, <2>1, <2>2, <2>5, <2>6, <2>7, <2>8, <3>1, RowStep
  <2>10. handlers'[c].answer = "success" => OnRecord(c)
    BY <2>5, <2>7, <2>8 DEF OnRecord
  <2> QED
    BY <2>8, <2>9, <2>10, RecordedFor
<1>6. CASE replays
  <2> DEFINE response == j[id].response
  <2>1. /\ journal' = j /\ applied' = AppliedAfter(j) /\ effects' = effects
        /\ IF known THEN Answer(c, "success", response)
           ELSE Answer(c, "service_unavailable", Null)
    BY <1>6 DEF Execute
  <2>2. response \in Results \cup {Null}
    BY <1>2, <1>3 DEF Row, Results
  <2>3. /\ handlers' \in [Clients -> Handler] /\ Others(c) /\ handlers'[c].pc = "idle"
        /\ handlers'[c].answer = "success" => handlers'[c].response = response
    <3> HIDE DEF response
    <3> QED
      BY <1>3, <2>1, <2>2, AnswerFacts DEF AnswerCodes
  <2>4. JournalIInv'
    BY <2>1, <2>3, PrunedStep
  <2>5. handlers'[c].answer = "success" => OnRecord(c)
    BY <1>4, <1>6, <2>1, <2>3 DEF OnRecord
  <2> QED
    BY <2>3, <2>4, <2>5, RecordedFor
<1>7. CASE ~applies /\ ~replays
  <2>1. /\ UNCHANGED <<journal, applied, effects>>
        /\ \/ Answer(c, "internal_error", Null)
           \/ /\ now + Retention \in Times
              /\ Answer(c, IF verdict = "prepared" THEN "operation_id_conflict" ELSE verdict, Null)
    BY <1>7 DEF Execute
  <2>2. \E answer \in AnswerCodes \ {"success"} : Answer(c, answer, Null)
    BY <1>4, <1>7, <2>1 DEF AnswerCodes
  <2> QED
    BY <2>1, <2>2, RefusalStep
<1> QED
  BY <1>5, <1>6, <1>7

-----------------------------------------------------------------------------
(* The theorems *)

(* Every step keeps the invariant, and answers success only on record. *)
LEMMA Steps ==
    ASSUME JournalIInv, [Next]_vars
    PROVE  JournalIInv' /\ Recorded
<1>1. ASSUME UNCHANGED <<journal, handlers, effects, applied>>
      PROVE  JournalIInv' /\ Recorded
  <2>1. /\ handlers' \in [Clients -> Handler] /\ effects' = effects
        /\ journal' \in [Ids -> Row] /\ applied' \in [Ids -> Nat]
        /\ \A i \in Ids : Kept(i)
    BY <1>1 DEF JournalIInv, Types, Kept
  <2> QED
    BY <1>1, <2>1, QuietStep DEF Recorded
<1>2. CASE UNCHANGED vars
  BY <1>1, <1>2 DEF vars
<1>3. CASE \E r \in Routes : Advance(r)
  BY <1>1, <1>3 DEF Advance
<1>4. CASE StopAccepting
  BY <1>1, <1>4 DEF StopAccepting
<1>5. ASSUME NEW reconfigured \in BOOLEAN, Crash(reconfigured)
      PROVE  JournalIInv' /\ Recorded
  <2>1. Waiting \in Handler /\ Waiting.pc = "idle" /\ Waiting.answer = "none"
    BY DEF Waiting, Handler
  <2>2. /\ handlers' \in [Clients -> Handler] /\ effects' = effects
        /\ \A c \in Clients : handlers'[c] = Waiting
        /\ journal' \in [Ids -> Row] /\ applied' \in [Ids -> Nat]
        /\ \A i \in Ids : Kept(i)
    BY <1>5, <2>1 DEF Crash, JournalIInv, Types, Kept
  <2> QED
    BY <2>1, <2>2, QuietStep DEF Recorded
<1> QED
  BY <1>2, <1>3, <1>4, <1>5, SendStep, RefuseStep, CheckStep, WorkStep, PrepareStep,
     CompleteStep, ExecuteStep DEF Next

(* An empty journal. *)
LEMMA JournalInitially ==
    ASSUME Init
    PROVE  JournalIInv
<1>1. /\ \A i \in Ids : journal[i] = Absent /\ applied[i] = 0
      /\ \A c \in Clients : handlers[c] = Waiting
  BY DEF Init
<1>2. Waiting \in Handler /\ Waiting.pc = "idle"
  BY DEF Waiting, Handler
<1>3. Types
  BY <1>1, <1>2, AbsentFacts, ConstantFacts DEF Init, Types
<1>4. HandlersCarry /\ SoleWorker
  BY <1>1, <1>2 DEF HandlersCarry, SoleWorker, Busy
<1>5. JournalBounded
  <2>1. Holding(journal, "completed") = {} /\ Holding(journal, "prepared") = {}
    BY <1>1, AbsentFacts DEF Holding
  <2>2. In(journal, "completed") = 0 /\ In(journal, "prepared") = 0
    BY <2>1, CountFacts, FS_EmptySet
  <2> QED
    BY <2>2, ConstantFacts DEF JournalBounded
<1>6. WorkIsDoneOnce
  BY <1>1, <1>2, AbsentFacts DEF WorkIsDoneOnce
<1> QED
  BY <1>3, <1>4, <1>5, <1>6 DEF JournalIInv

(* The inductive invariant holds. *)
LEMMA JournalInductive == Spec => []JournalIInv
<1>1. JournalIInv /\ [Next]_vars => JournalIInv'
  BY Steps
<1> QED
  BY <1>1, JournalInitially, PTL DEF Spec

(* In every state a crash can leave it in, the journal decodes and keeps its *)
(* limits, and the work of every retained operation was done at most once,   *)
(* whoever retried it.                                                       *)
THEOREM JournalInvHolds == Spec => []JournalInv
<1>1. JournalIInv => JournalInv
  BY DEF JournalIInv, JournalInv, JournalTypeOK, Types, RowShape
<1> QED
  BY <1>1, JournalInductive, PTL

(* No client is told of success before the receipt with that very result and *)
(* the request it answers are in the journal.                                *)
THEOREM SuccessIsOnRecordHolds == Spec => SuccessIsOnRecord
<1>1. JournalIInv /\ [Next]_vars =>
        [\A c \in Clients :
           handlers[c].answer # "success" /\ handlers'[c].answer = "success" =>
             LET row == journal'[handlers[c].request.id]
             IN  /\ row.state = "completed" /\ row.request = handlers[c].request
                 /\ row.response = handlers'[c].response]_vars
  BY Steps DEF Recorded, OnRecord
<1> QED
  BY <1>1, JournalInductive, PTL DEF Spec, SuccessIsOnRecord

-----------------------------------------------------------------------------
(* The order of a list and the places of its rows *)

RowRecords == [at : 0 .. MaxMoment, open : BOOLEAN]
TableOK == table \in [RowIds -> RowRecords]
Ahead(query, snapshot, r) == {s \in Matching(query, snapshot) : Before(s, r)}

LEMMA PagesConstants ==
    /\ RowIds \subseteq Nat /\ IsFiniteSet(RowIds)
    /\ Limit \in Nat \ {0} /\ MaxMoment \in Nat \ {0} /\ MaxOffset \in Nat \ {0}
BY PagesAssumption

(* Newest first, and within a moment by identifier: a strict total order of the rows. *)
LEMMA BeforeOrders ==
    ASSUME TableOK
    PROVE  /\ \A r \in RowIds : ~Before(r, r)
           /\ \A r, s, t \in RowIds : Before(r, s) /\ Before(s, t) => Before(r, t)
           /\ \A r, s \in RowIds : r # s => Before(r, s) \/ Before(s, r)
<1>1. \A r \in RowIds : r \in Nat /\ table[r].at \in Nat
  BY PagesConstants DEF TableOK, RowRecords
<1>2. ASSUME NEW r \in RowIds
      PROVE  ~Before(r, r)
  BY <1>1 DEF Before
<1>3. ASSUME NEW r \in RowIds, NEW s \in RowIds, NEW t \in RowIds, Before(r, s), Before(s, t)
      PROVE  Before(r, t)
  BY <1>1, <1>3 DEF Before
<1>4. ASSUME NEW r \in RowIds, NEW s \in RowIds, r # s
      PROVE  Before(r, s) \/ Before(s, r)
  BY <1>1, <1>4 DEF Before
<1> QED
  BY <1>2, <1>3, <1>4

(* Every row of a list has a place below the list's length, no two the same. *)
LEMMA PlaceFacts ==
    ASSUME TableOK, NEW query, NEW snapshot
    PROVE  /\ IsFiniteSet(Matching(query, snapshot))
           /\ Cardinality(Matching(query, snapshot)) \in Nat
           /\ \A r \in Matching(query, snapshot) :
                /\ Place(query, snapshot, r) \in Nat
                /\ Place(query, snapshot, r) < Cardinality(Matching(query, snapshot))
           /\ \A r, s \in Matching(query, snapshot) :
                Place(query, snapshot, r) = Place(query, snapshot, s) => r = s
<1> DEFINE M == Matching(query, snapshot)
<1>1. M \subseteq RowIds /\ IsFiniteSet(M) /\ Cardinality(M) \in Nat
  <2>1. M \in SUBSET RowIds
    BY DEF Matching
  <2> QED
    BY <2>1, PagesConstants, FS_Subset, FS_CardinalityType
<1>2. ASSUME NEW r \in M
      PROVE  /\ IsFiniteSet(Ahead(query, snapshot, r))
             /\ Place(query, snapshot, r) = Cardinality(Ahead(query, snapshot, r))
             /\ Place(query, snapshot, r) \in Nat
             /\ Place(query, snapshot, r) < Cardinality(M)
  <2>1. Ahead(query, snapshot, r) \in SUBSET (M \ {r})
    BY <1>1, BeforeOrders DEF Ahead
  <2> HIDE DEF M
  <2>2. IsFiniteSet(M \ {r}) /\ Cardinality(M \ {r}) = Cardinality(M) - 1
    BY <1>1, <1>2, FS_RemoveElement
  <2>3. /\ IsFiniteSet(Ahead(query, snapshot, r))
        /\ Cardinality(Ahead(query, snapshot, r)) <= Cardinality(M) - 1
    BY <2>1, <2>2, FS_Subset
  <2>4. Cardinality(Ahead(query, snapshot, r)) \in Nat
    BY <2>3, FS_CardinalityType
  <2>5. Place(query, snapshot, r) = Cardinality(Ahead(query, snapshot, r))
    BY DEF Place, Ahead
  <2> QED
    BY <1>1, <2>3, <2>4, <2>5
<1>3. ASSUME NEW r \in M, NEW s \in M, Before(r, s)
      PROVE  Place(query, snapshot, r) < Place(query, snapshot, s)
  <2>1. /\ Ahead(query, snapshot, r) \cup {r} \in SUBSET Ahead(query, snapshot, s)
        /\ r \notin Ahead(query, snapshot, r)
    BY <1>1, <1>3, BeforeOrders DEF Ahead
  <2>2. /\ IsFiniteSet(Ahead(query, snapshot, r)) /\ IsFiniteSet(Ahead(query, snapshot, s))
        /\ Place(query, snapshot, r) = Cardinality(Ahead(query, snapshot, r))
        /\ Place(query, snapshot, s) = Cardinality(Ahead(query, snapshot, s))
        /\ Place(query, snapshot, r) \in Nat /\ Place(query, snapshot, s) \in Nat
    BY <1>2
  <2>3. Cardinality(Ahead(query, snapshot, r) \cup {r})
          = Cardinality(Ahead(query, snapshot, r)) + 1
    BY <2>1, <2>2, FS_AddElement
  <2>4. Cardinality(Ahead(query, snapshot, r) \cup {r})
          <= Cardinality(Ahead(query, snapshot, s))
    BY <2>1, <2>2, FS_Subset
  <2> QED
    BY <2>2, <2>3, <2>4
<1>4. ASSUME NEW r \in M, NEW s \in M, Place(query, snapshot, r) = Place(query, snapshot, s)
      PROVE  r = s
  <2>1. Place(query, snapshot, r) \in Nat /\ Place(query, snapshot, s) \in Nat
    BY <1>2
  <2>2. Before(r, s) => Place(query, snapshot, r) < Place(query, snapshot, s)
    BY <1>3
  <2>3. Before(s, r) => Place(query, snapshot, s) < Place(query, snapshot, r)
    BY <1>3
  <2>4. ~Before(r, s) /\ ~Before(s, r)
    BY <1>4, <2>1, <2>2, <2>3
  <2> QED
    BY <1>1, <2>4, BeforeOrders
<1> QED
  BY <1>1, <1>2, <1>4

(* Every place below the list's length is some row's. *)
LEMMA PlacesAreTaken ==
    ASSUME TableOK, NEW query, NEW snapshot,
           NEW k \in Nat, k < Cardinality(Matching(query, snapshot))
    PROVE  \E r \in Matching(query, snapshot) : Place(query, snapshot, r) = k
<1> DEFINE M == Matching(query, snapshot)
           N == Cardinality(M)
           f == [r \in M |-> Place(query, snapshot, r)]
<1>1. /\ IsFiniteSet(M) /\ N \in Nat
      /\ \A r \in M : Place(query, snapshot, r) \in Nat /\ Place(query, snapshot, r) < N
      /\ \A r, s \in M : Place(query, snapshot, r) = Place(query, snapshot, s) => r = s
  BY PlaceFacts
<1>2. f \in [M -> 0 .. N - 1] /\ \A r, s \in M : f[r] = f[s] => r = s
  BY <1>1
<1>3. f \in Injection(M, 0 .. N - 1)
  BY <1>2 DEF Injection, IsInjective
<1>4. /\ \A r \in M : f[r] = Place(query, snapshot, r)
      /\ k \in 0 .. N - 1
  BY <1>1
<1> HIDE DEF M, N, f
<1>5. IsFiniteSet(0 .. N - 1) /\ Cardinality(0 .. N - 1) = N
  BY <1>1, FS_Interval
<1>6. f \in Surjection(M, 0 .. N - 1)
  BY <1>1, <1>3, <1>5, FS_Injection DEF N
<1>7. \E r \in M : f[r] = k
  BY <1>4, <1>6 DEF Surjection
<1> QED
  BY <1>4, <1>7 DEF M

(* What is not on a page that ends the list does not come after it either: had *)
(* it, the probe would have found one row more than the page shows.            *)
LEMMA LastPageShowsTheRest ==
    ASSUME TableOK, NEW query, NEW snapshot, NEW offset \in Nat,
           Cardinality(Fetched(query, snapshot, offset, Limit + 1)) <= Limit,
           NEW r \in Matching(query, snapshot), offset <= Place(query, snapshot, r)
    PROVE  r \in Fetched(query, snapshot, offset, Limit)
<1> DEFINE F == Fetched(query, snapshot, offset, Limit + 1)
           I == offset .. offset + Limit
           f == [s \in F |-> Place(query, snapshot, s)]
           N == Cardinality(Matching(query, snapshot))
<1>1. /\ Place(query, snapshot, r) \in Nat /\ Place(query, snapshot, r) < N
      /\ N \in Nat /\ Limit \in Nat
  BY PlaceFacts, PagesConstants
<1>2. SUFFICES ASSUME offset + Limit <= Place(query, snapshot, r) PROVE FALSE
  BY <1>1 DEF Fetched
<1>3. ASSUME NEW k \in I
      PROVE  \E s \in F : f[s] = k
  <2>1. k \in Nat /\ k < N
    BY <1>1, <1>2
  <2>2. PICK s \in Matching(query, snapshot) : Place(query, snapshot, s) = k
    BY <2>1, PlacesAreTaken
  <2>3. s \in F
    BY <1>1, <2>2 DEF Fetched
  <2> QED
    BY <2>2, <2>3
<1>4. f \in [F -> I]
  BY <1>1, PlaceFacts DEF Fetched
<1>5. f \in Surjection(F, I)
  BY <1>3, <1>4 DEF Surjection
<1>6. IsFiniteSet(F)
  <2>1. F \in SUBSET Matching(query, snapshot)
    BY DEF Fetched
  <2> QED
    BY <2>1, PlaceFacts, FS_Subset
<1>7. Cardinality(F) <= Limit
  OBVIOUS
<1> HIDE DEF F, f
<1>8. Cardinality(I) <= Cardinality(F) /\ Cardinality(F) \in Nat
  BY <1>5, <1>6, FS_Surjection, FS_CardinalityType
<1>9. Cardinality(I) = Limit + 1
  <2>1. Cardinality(I) = offset + Limit - offset + 1
    BY <1>1, FS_Interval
  <2> QED
    BY <1>1, <2>1
<1> QED
  BY <1>1, <1>7, <1>8, <1>9

-----------------------------------------------------------------------------
(* A walk through a list *)

(* A row the walk has shown, or will: it is in the list, at the cursor or after it. *)
Coming(query, snapshot, offset, r) ==
    r \in Matching(query, snapshot) /\ offset <= Place(query, snapshot, r)

PagesIInv ==
    /\ TableOK /\ clock \in Moments
    /\ walk.state \in {"resting", "walking", "done"}
    /\ walk.state # "resting" => walk.cursor.query.listing = listing
    /\ walk.state = "walking" =>
         /\ walk.cursor.offset \in Nat
         /\ listing # "jobs" =>
              \A owed \in walk.owed :
                \/ owed[1] \in walk.seen
                \/ Coming(walk.cursor.query, walk.cursor.snapshot, walk.cursor.offset, owed[1])
    /\ PagesMissNothing

(* A finalized report moves the rows of a snapshot back, never forward. *)
LEMMA InsertedLater ==
    ASSUME TableOK, NEW i \in RowIds, NEW observed \in Moments, NEW open \in BOOLEAN,
           InsertReport(i, observed, open), TableOK',
           NEW query, NEW snapshot, NEW offset \in Nat, NEW r,
           Coming(query, snapshot, offset, r)
    PROVE  Coming(query, snapshot, offset, r)'
<1>1. /\ listing = "reports" /\ listing' = listing /\ table[i].at = None
      /\ \A s \in RowIds : s # i => table'[s] = table[s]
  BY DEF InsertReport, TableOK
<1>2. \A s \in Matching(query, snapshot) : s \in Matching(query, snapshot)' /\ s # i
  BY <1>1 DEF Matching
<1>3. \A s, t \in RowIds : s # i /\ t # i /\ Before(s, t) => Before(s, t)'
  BY <1>1 DEF Before
<1>4. r \in Matching(query, snapshot) /\ offset <= Place(query, snapshot, r)
  BY DEF Coming
<1>5. Ahead(query, snapshot, r) \in SUBSET (Ahead(query, snapshot, r)')
  <2>1. Matching(query, snapshot) \subseteq RowIds
    BY DEF Matching
  <2> QED
    BY <1>2, <1>3, <1>4, <2>1 DEF Ahead
<1>6. IsFiniteSet(Ahead(query, snapshot, r)')
  <2>1. Ahead(query, snapshot, r)' \in SUBSET RowIds
    BY DEF Ahead, Matching
  <2> QED
    BY <2>1, PagesConstants, FS_Subset
<1>7. Cardinality(Ahead(query, snapshot, r)) <= Cardinality(Ahead(query, snapshot, r)')
  BY <1>5, <1>6, FS_Subset
<1>8. /\ Place(query, snapshot, r) = Cardinality(Ahead(query, snapshot, r))
      /\ Place(query, snapshot, r)' = Cardinality(Ahead(query, snapshot, r)')
  BY DEF Place, Ahead
<1>9. Place(query, snapshot, r) \in Nat /\ Place(query, snapshot, r)' \in Nat
  <2>1. IsFiniteSet(Ahead(query, snapshot, r))
    BY <1>5, <1>6, FS_Subset
  <2> QED
    BY <1>6, <1>8, <2>1, FS_CardinalityType
<1>10. offset <= Place(query, snapshot, r)'
  BY <1>4, <1>7, <1>8, <1>9
<1> QED
  BY <1>2, <1>4, <1>10 DEF Coming

(* A page shows its rows and goes on from the row after them, or ends the walk *)
(* with everything shown.                                                      *)
LEMMA PageKeeps ==
    ASSUME PagesIInv, UNCHANGED <<listing, table, clock, key>>,
           NEW query, NEW snapshot, NEW offset \in Nat, NEW owed,
           query.listing = listing,
           listing # "jobs" => \A o \in owed :
             o[1] \in walk.seen \/ Coming(query, snapshot, offset, o[1]),
           Page(query, snapshot, offset, owed)
    PROVE  PagesIInv'
<1> DEFINE shown == Fetched(query, snapshot, offset, Limit)
           probe == Fetched(query, snapshot, offset, Limit + 1)
<1>1. TableOK /\ TableOK' /\ (clock \in Moments)' /\ listing' = listing /\ table' = table
  BY DEF PagesIInv, TableOK
<1>2. Limit \in Nat /\ \A r \in Matching(query, snapshot) : Place(query, snapshot, r) \in Nat
  BY <1>1, PlaceFacts, PagesConstants
<1>3. CASE Cardinality(probe) <= Limit
  <2>1. walk' = [state |-> "done", cursor |-> [NoCursor EXCEPT !.query = query],
                 owed |-> owed, seen |-> walk.seen \cup shown]
    BY <1>3 DEF Page
  <2>2. /\ walk'.state = "done" /\ walk'.cursor.query = query
        /\ walk'.owed = owed /\ walk'.seen = walk.seen \cup shown
    BY <2>1 DEF NoCursor
  <2>3. ASSUME listing # "jobs", NEW o \in owed
        PROVE  o[1] \in walk'.seen
    <3>1. CASE o[1] \in walk.seen
      BY <2>2, <3>1
    <3>2. CASE Coming(query, snapshot, offset, o[1])
      <4>1. o[1] \in shown
        BY <1>1, <1>3, <3>2, LastPageShowsTheRest DEF Coming
      <4> QED
        BY <2>2, <4>1
    <3> QED
      BY <2>3, <3>1, <3>2
  <2> QED
    BY <1>1, <2>2, <2>3 DEF PagesIInv, PagesMissNothing
<1>4. CASE ~(Cardinality(probe) <= Limit)
  <2>1. walk' = [state |-> "walking", owed |-> owed, seen |-> walk.seen \cup shown,
                 cursor |-> [query |-> query, snapshot |-> snapshot,
                             offset |-> NextOffset(offset), key |-> key]]
    BY <1>4 DEF Page
  <2>2. /\ walk'.state = "walking" /\ walk'.cursor.query = query
        /\ walk'.cursor.snapshot = snapshot /\ walk'.cursor.offset = offset + Limit
        /\ walk'.owed = owed /\ walk'.seen = walk.seen \cup shown
    BY <2>1 DEF NextOffset
  <2>3. ASSUME listing # "jobs", NEW o \in owed
        PROVE  o[1] \in walk'.seen \/ Coming(query, snapshot, offset + Limit, o[1])
    <3>1. CASE o[1] \in walk.seen
      BY <2>2, <3>1
    <3>2. CASE Coming(query, snapshot, offset, o[1])
      BY <1>2, <2>2, <3>2 DEF Coming, Fetched
    <3> QED
      BY <2>3, <3>1, <3>2
  <2>4. \A r : Coming(query, snapshot, offset + Limit, r)
                 => Coming(query, snapshot, offset + Limit, r)'
    BY <1>1 DEF Coming, Place, Matching, Before
  <2>5. offset + Limit \in Nat
    BY <1>2
  <2>6. listing' # "jobs" =>
          \A o \in walk'.owed :
            o[1] \in walk'.seen
            \/ Coming(walk.cursor.query, walk.cursor.snapshot, walk.cursor.offset, o[1])'
    BY <1>1, <2>2, <2>3, <2>4
  <2> QED
    BY <1>1, <2>2, <2>5, <2>6 DEF PagesIInv, PagesMissNothing
<1> QED
  BY <1>3, <1>4

LEMMA RowStepsKeep ==
    ASSUME PagesIInv, walk' = walk, TableOK', (clock \in Moments)',
           \/ \E i \in RowIds, open \in BOOLEAN : WriteJob(i, open)
           \/ \E i \in RowIds, open \in BOOLEAN, observed \in Moments :
                InsertReport(i, observed, open)
           \/ UNCHANGED <<listing, table>>
    PROVE  PagesIInv'
<1>1. listing' = listing
  BY DEF WriteJob, InsertReport
<1>2. ASSUME walk.state = "walking", listing # "jobs", NEW owed \in walk.owed,
             owed[1] \notin walk.seen
      PROVE  Coming(walk.cursor.query, walk.cursor.snapshot, walk.cursor.offset, owed[1])'
  <2>1. PICK q, n, k, r :
          q = walk.cursor.query /\ n = walk.cursor.snapshot
          /\ k = walk.cursor.offset /\ r = owed[1]
    OBVIOUS
  <2>2. TableOK /\ k \in Nat /\ Coming(q, n, k, r)
    BY <1>2, <2>1 DEF PagesIInv
  <2>3. CASE \E i \in RowIds, open \in BOOLEAN, observed \in Moments :
               InsertReport(i, observed, open)
    <3>1. PICK i \in RowIds, open \in BOOLEAN, observed \in Moments :
            InsertReport(i, observed, open)
      BY <2>3
    <3>2. Coming(q, n, k, r)'
      BY <2>2, <3>1, InsertedLater
    <3> QED
      BY <2>1, <3>2
  <2>4. CASE UNCHANGED <<listing, table>>
    <3>1. Coming(q, n, k, r)'
      BY <2>2, <2>4 DEF Coming, Place, Matching, Before
    <3> QED
      BY <2>1, <3>1
  <2> QED
    BY <1>2, <2>3, <2>4 DEF WriteJob
<1> QED
  BY <1>1, <1>2 DEF PagesIInv, PagesMissNothing

LEMMA PagesStart == PagesInit => PagesIInv
<1> SUFFICES ASSUME PagesInit PROVE PagesIInv
  OBVIOUS
<1>1. TableOK /\ clock \in Moments
  BY PagesConstants DEF PagesInit, TableOK, RowRecords, NoRow, None, Moments
<1>2. walk.state = "resting"
  BY DEF PagesInit, Resting
<1> QED
  BY <1>1, <1>2 DEF PagesIInv, PagesMissNothing

LEMMA PagesStepKeeps == PagesIInv /\ [PagesNext]_pvars => PagesIInv'
<1> SUFFICES ASSUME PagesIInv, [PagesNext]_pvars PROVE PagesIInv'
  OBVIOUS
<1>1. TableOK /\ clock \in Moments /\ Moments \subseteq 0 .. MaxMoment
  BY PagesConstants DEF PagesIInv, Moments
<1>2. ASSUME NEW r \in RowIds, NEW open \in BOOLEAN, WriteJob(r, open)
      PROVE  PagesIInv'
  <2>1. TableOK' /\ (clock \in Moments)' /\ walk' = walk
    BY <1>1, <1>2 DEF WriteJob, TableOK, RowRecords
  <2> QED
    BY <1>2, <2>1, RowStepsKeep
<1>3. ASSUME NEW r \in RowIds, NEW open \in BOOLEAN, NEW observed \in Moments,
             InsertReport(r, observed, open)
      PROVE  PagesIInv'
  <2>1. TableOK' /\ (clock \in Moments)' /\ walk' = walk
    BY <1>1, <1>3 DEF InsertReport, TableOK, RowRecords
  <2> QED
    BY <1>3, <2>1, RowStepsKeep
<1>4. ASSUME Tick \/ Restart \/ UNCHANGED pvars
      PROVE  PagesIInv'
  <2>1. TableOK' /\ walk' = walk /\ UNCHANGED <<listing, table>>
    BY <1>1, <1>4 DEF Tick, Restart, pvars, TableOK
  <2>2. (clock \in Moments)'
    BY <1>1, <1>4, PagesConstants DEF Tick, Restart, pvars, Moments
  <2> QED
    BY <2>1, <2>2, RowStepsKeep
<1>5. ASSUME NEW query \in Query, FirstPage(query)
      PROVE  PagesIInv'
  <2> DEFINE owed == {<<r, table[r].at>> : r \in Matching(query, clock)}
  <2>1. PICK n, o : n = clock /\ o = owed
    OBVIOUS
  <2>2. /\ UNCHANGED <<listing, table, clock, key>> /\ query.listing = listing
        /\ Page(query, n, 0, o)
    BY <1>5, <2>1 DEF FirstPage
  <2>3. \A d \in o : Coming(query, n, 0, d[1])
    <3>1. \A r \in Matching(query, n) : Place(query, n, r) \in Nat
      BY <1>1, PlaceFacts
    <3> QED
      BY <2>1, <3>1 DEF Coming
  <2> HIDE DEF owed
  <2> QED
    BY <2>2, <2>3, PageKeeps
<1>6. ASSUME NEW query \in Query, NextPage(query)
      PROVE  PagesIInv'
  <2>1. PICK n, k, o : n = walk.cursor.snapshot /\ k = walk.cursor.offset /\ o = walk.owed
    OBVIOUS
  <2>2. /\ UNCHANGED <<listing, table, clock, key>> /\ walk.state = "walking"
        /\ walk.cursor.query = query /\ Page(query, n, k, o)
    BY <1>6, <2>1 DEF NextPage, Valid
  <2>3. /\ k \in Nat /\ query.listing = listing
        /\ listing # "jobs" => \A d \in o : d[1] \in walk.seen \/ Coming(query, n, k, d[1])
    BY <2>1, <2>2 DEF PagesIInv
  <2> QED
    BY <2>2, <2>3, PageKeeps
<1>7. ASSUME NEW query \in Query, RefuseCursor(query)
      PROVE  PagesIInv'
  <2>1. TableOK' /\ (clock \in Moments)' /\ walk'.state = "resting"
    BY <1>1, <1>7 DEF RefuseCursor, Resting, TableOK
  <2> QED
    BY <2>1 DEF PagesIInv, PagesMissNothing
<1> QED
  BY <1>2, <1>3, <1>4, <1>5, <1>6, <1>7 DEF PagesNext

(* However many rows there are and however short a page is: whatever is      *)
(* appended between two pages, a completed walk through the reports or the   *)
(* sources has shown every row its first page's snapshot had.                *)
THEOREM PagesMissNothingHolds == PagesSpec => []PagesMissNothing
<1>1. PagesIInv => PagesMissNothing
  BY DEF PagesIInv
<1> QED
  BY <1>1, PagesStart, PagesStepKeeps, PTL DEF PagesSpec
=============================================================================
