---------------------------- MODULE DoctorProbes ----------------------------
(***************************************************************************)
(* The readers of a reconciliation_jobs row that judge it on their own:    *)
(* the triggers of state_catalog.rs that guard its shape, and the doctor   *)
(* (doctor_v1.rs, system_doctor.rs), whose queries look for leases and a   *)
(* backlog that no run of the queue should leave.  The third reader,       *)
(* decode_job, is Decodable in ReconciliationJobs.                         *)
(***************************************************************************)
EXTENDS ReconciliationJobs

(* reconciliation_jobs_shape_guard_insert and _update: a statement that *)
(* leaves another shape aborts its transaction.                         *)
ShapeGuard(row) ==
    \/ /\ row.state = "ready"
       /\ row.attempt < row.policy.max
       /\ row.next \in Times
       /\ row.owner = NoOwner /\ row.expires = Null
    \/ /\ row.state = "leased"
       /\ row.attempt \in 1 .. row.policy.max
       /\ row.next = Null
       /\ row.owner \in Owners /\ row.expires \in Times \ {0}
    \/ /\ row.state \in {"exhausted", "superseded", "completed"}
       /\ row.next = Null /\ row.owner = NoOwner /\ row.expires = Null

Rows == {jobs[id] : id \in {i \in JobIds : jobs[i].state # "absent"}}

(* RECONCILIATION_LEASE_INVARIANTS_SQL: the rows it counts *)
InvalidLeases ==
    {row \in Rows :
       \/ /\ row.state = "leased"
          /\ \/ row.owner = NoOwner
             \/ row.expires \notin Times \ {0}
             \/ row.next # Null
       \/ row.state # "leased" /\ (row.owner # NoOwner \/ row.expires # Null)
       \/ row.attempt \notin 0 .. row.policy.max
       \/ row.failure \notin 0 .. row.attempt
       \/ row.revision < 1}

(* RECONCILIATION_BACKLOG_INVARIANTS_SQL, bound to the configured capacity *)
InvalidBacklog(capacity) ==
    \/ Cardinality(ActiveIds) > capacity
    \/ \E row \in Rows :
         row.state = "ready" /\ (row.next = Null \/ row.attempt >= row.policy.max)
    \/ \E row \in Rows :
         row.state \in {"exhausted", "superseded", "completed"} /\ row.next # Null

(* CHECK_DEFINITIONS: <<id, required>> in the order they run *)
CHECK_DEFINITIONS ==
    <<<<"paths_permissions", TRUE>>, <<"writer_lock", TRUE>>, <<"sqlite_schema", TRUE>>,
      <<"sqlite_integrity", TRUE>>, <<"sqlite_free_space", TRUE>>,
      <<"identity_binding", TRUE>>, <<"admin_bind_policy", TRUE>>,
      <<"operations_bind_policy", TRUE>>, <<"network_policy", TRUE>>,
      <<"required_sources", TRUE>>, <<"cursor_checkpoint", TRUE>>,
      <<"reconciliation_leases", TRUE>>, <<"reconciliation_backlog", TRUE>>,
      <<"publication_invariants", TRUE>>, <<"clock_skew", FALSE>>>>

(* RhiSystemDoctorProbe on a machine where everything but the job table is in *)
(* order; the skew of the clock is never probed                               *)
Observation(id, capacity) ==
    CASE id = "clock_skew" -> "skipped"
      [] id = "reconciliation_leases" -> IF InvalidLeases = {} THEN "pass" ELSE "fail"
      [] id = "reconciliation_backlog" -> IF InvalidBacklog(capacity) THEN "fail" ELSE "pass"
      [] OTHER -> "pass"

(* Only an optional check may be skipped *)
CheckStatus(check, observation) ==
    IF observation = "skipped" /\ check[2] THEN "fail" ELSE observation

Results(capacity) ==
    {<<check[2], CheckStatus(check, Observation(check[1], capacity))>> :
       check \in {CHECK_DEFINITIONS[i] : i \in DOMAIN CHECK_DEFINITIONS}}

AggregateStatus(results) ==
    IF \E r \in results : r[1] /\ r[2] # "pass" THEN "fail"
    ELSE IF \E r \in results : r[2] # "pass" THEN "degraded"
    ELSE "pass"

ExitCode(status) == IF status = "fail" THEN 6 ELSE 0

(* Wherever the daemon stops, killed included, the database it leaves passes *)
(* every reader: decode_job reads each row (one it refused would fail every  *)
(* claim that meets it, for ever), no statement was ever aborted for its     *)
(* shape, and `doctor`, run under a configuration that the queue has seen,   *)
(* exits 0.                                                                  *)
DoctorAcceptsJobs ==
    /\ \A row \in Rows : Decodable(row) /\ ShapeGuard(row)
    /\ \E p \in Policies : ExitCode(AggregateStatus(Results(p.capacity))) = 0

(* What the rows say of the attempts is true, under any interleaving of      *)
(* owners, reclaims and newer generations: every reader accepts them, an     *)
(* attempt number names one claim of one owner, and a job is given up only   *)
(* when all its attempts were.                                               *)
JobsAreSound ==
    /\ DoctorAcceptsJobs
    /\ AttemptHasOneOwner
    /\ ExhaustedMeansSpent
=============================================================================
