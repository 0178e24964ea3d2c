------------------------------ MODULE AdminPages ------------------------------
(***************************************************************************)
(* The operator's lists: the paged read routes of src/src/runtime_admin.rs. *)
(*                                                                         *)
(* A page is one transaction; the next page is asked for with a cursor the *)
(* daemon authenticates under a key drawn at its start.  The cursor holds  *)
(* the clock at the first page and an offset, and every page reads the     *)
(* table as it is then, newest first, rows changed after that clock left   *)
(* out.  Reports are only appended, jobs and publications are rewritten,   *)
(* sources are what the configuration lists.                               *)
(***************************************************************************)
EXTENDS Integers, FiniteSets

CONSTANTS
    RowIds,       \* identifiers, in the order of their digests
    Limit,        \* page_limit: every page but the last has this many rows
    MaxMoment,    \* bound: clock readings
    MaxOffset     \* the last offset a cursor can hold

ASSUME PagesAssumption ==
    /\ RowIds \subseteq Nat /\ IsFiniteSet(RowIds)
    /\ {Limit, MaxMoment, MaxOffset} \subseteq Nat \ {0}

Listings == {"reports", "jobs", "sources"}   \* "jobs" stands for backlog and targets too
Filters == {"all", "open"}
Moments == 1 .. MaxMoment
None == 0

(* query_digest: the whole request but its cursor *)
Query == [listing : Listings, filter : Filters]
NoCursor == [query |-> [listing |-> "none", filter |-> "all"], snapshot |-> None, offset |-> 0, key |-> None]

VARIABLES
    listing,  \* the list the operator walks through; the tables are independent
    table,    \* its rows: time (None: no row) and whether it is open
    clock,    \* the wall clock
    key,      \* which of two keys the daemon now signs cursors with
    walk      \* the operator's walk through a list

pvars == <<listing, table, clock, key, walk>>

NoRow == [at |-> None, open |-> FALSE]
Resting == [state |-> "resting", cursor |-> NoCursor, owed |-> {}, seen |-> {}]

PagesInit ==
    /\ listing \in Listings
    /\ table = [r \in RowIds |->
                  IF listing = "sources" THEN [at |-> 1, open |-> TRUE] ELSE NoRow]
    /\ clock = 1 /\ key = 1 /\ walk = Resting

-----------------------------------------------------------------------------
(* The rows *)

(* A report is finalized.  Its observed_at is the attempt's clock, which may lie *)
(* a little before the commit.                                                   *)
InsertReport(r, observed, open) ==
    /\ listing = "reports" /\ table[r].at = None
    /\ observed \in {clock - 1, clock} \cap Moments
    /\ table' = [table EXCEPT ![r] = [at |-> observed, open |-> open]]
    /\ UNCHANGED <<listing, clock, key, walk>>

(* A job is scheduled, claimed, completed: each rewrites updated_at *)
WriteJob(r, open) ==
    /\ listing = "jobs" /\ table[r] # [at |-> clock, open |-> open]
    /\ table' = [table EXCEPT ![r] = [at |-> clock, open |-> open]]
    /\ UNCHANGED <<listing, clock, key, walk>>

Tick ==
    /\ clock < MaxMoment
    /\ clock' = clock + 1
    /\ UNCHANGED <<listing, table, key, walk>>

(* Another process has another key; the operator keeps its cursor *)
Restart ==
    /\ key = 1
    /\ key' = 2
    /\ UNCHANGED <<listing, table, clock, walk>>

-----------------------------------------------------------------------------
(* A page *)

Matching(query, snapshot) ==
    {r \in RowIds : LET row == table[r]
                    IN  /\ row.at # None /\ row.at <= snapshot
                        /\ query.filter = "open" => row.open}

(* ORDER BY time DESC, id DESC; the sources are in the order of the configuration *)
Before(r, s) ==
    IF listing = "sources" THEN r < s
    ELSE \/ table[r].at > table[s].at
         \/ table[r].at = table[s].at /\ r > s

(* How many rows come before a row of the list *)
Place(query, snapshot, r) ==
    Cardinality({s \in Matching(query, snapshot) : Before(s, r)})

(* LIMIT count OFFSET offset *)
Fetched(query, snapshot, offset, count) ==
    {r \in Matching(query, snapshot) :
        offset <= Place(query, snapshot, r) /\ Place(query, snapshot, r) < offset + count}

ProbeCounts(offset) == offset + Limit + 1
NextOffset(offset) == offset + Limit

(* cursor_or_new, decode_runtime_cursor *)
Valid(cursor, query) == cursor.key = key /\ cursor.query = query

(* One row more than is shown tells whether to go on *)
Page(query, snapshot, offset, owed) ==
    LET rows == Fetched(query, snapshot, offset, Limit + 1)
        seen == walk.seen \cup Fetched(query, snapshot, offset, Limit)
    IN  IF Cardinality(rows) <= Limit
        THEN walk' = [state |-> "done", cursor |-> [NoCursor EXCEPT !.query = query],
                      owed |-> owed, seen |-> seen]
        ELSE /\ NextOffset(offset) <= MaxOffset
             /\ walk' = [state |-> "walking", owed |-> owed, seen |-> seen,
                         cursor |-> [query |-> query, snapshot |-> snapshot,
                                     offset |-> NextOffset(offset), key |-> key]]

FirstPage(query) ==
    /\ walk.state = "resting" /\ query.listing = listing
    /\ Page(query, clock, 0, {<<r, table[r].at>> : r \in Matching(query, clock)})
    /\ UNCHANGED <<listing, table, clock, key>>

NextPage(query) ==
    /\ walk.state = "walking" /\ Valid(walk.cursor, query)
    /\ Page(query, walk.cursor.snapshot, walk.cursor.offset, walk.owed)
    /\ UNCHANGED <<listing, table, clock, key>>

(* invalid_cursor: another list or filter, or a cursor of the process before *)
RefuseCursor(query) ==
    /\ walk.state = "walking" /\ ~Valid(walk.cursor, query)
    /\ walk' = Resting
    /\ UNCHANGED <<listing, table, clock, key>>

PagesNext ==
    \/ \E r \in RowIds, open \in BOOLEAN :
         \/ WriteJob(r, open)
         \/ \E observed \in Moments : InsertReport(r, observed, open)
    \/ Tick
    \/ Restart
    \/ \E query \in Query : FirstPage(query) \/ NextPage(query) \/ RefuseCursor(query)

PagesSpec == PagesInit /\ [][PagesNext]_pvars

-----------------------------------------------------------------------------
(* Properties *)

(* Whatever is appended between two pages, a completed walk through the reports *)
(* or the sources has shown every row its first page's snapshot had.            *)
PagesMissNothing ==
    walk.state = "done" /\ walk.cursor.query.listing # "jobs" =>
      \A owed \in walk.owed : owed[1] \in walk.seen

(* operator_contract.v1.json, pagination: "jobs_snapshot":                    *)
(* "maximum_job_sequence_fixed_by_first_page_cursor".  A job that was there   *)
(* and matched at the first page, and has not changed since, is on some page. *)
JobPagesMissNothing ==
    walk.state = "done" /\ walk.cursor.query.listing = "jobs" =>
      \A owed \in walk.owed : owed[2] = table[owed[1]].at => owed[1] \in walk.seen
=============================================================================
