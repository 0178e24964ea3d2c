------------------------ MODULE MCReconciliationJobs ------------------------
(***************************************************************************)
(* A small instance of ReconciliationJobs for TLC.  Two trades with two    *)
(* owners and a long clock are out of reach together, so a behaviour has   *)
(* one of two scopes: one trade under contention, or two trades that       *)
(* compete for the queue under one owner and a short clock.                *)
(***************************************************************************)
EXTENDS DoctorProbes, TLC

CONSTANTS Spare,     \* the trade that only the second scope uses
          ShortTime  \* the last time of the second scope

VARIABLE scope

(* Two attempts, a two-tick lease renewable in its last tick, backoff 1-2. *)
(* A queue of one: the second trade finds it full, and a newer generation  *)
(* of the first must still get in by superseding.                          *)
StandardPolicy ==
    [capacity |-> 1, lease |-> 2, renewal |-> 1, max |-> 2,
     initial |-> 1, maximum |-> 2]

OnePolicy == {StandardPolicy}

OwnerPerms == Permutations(Owners)

InScope ==
    \/ scope = "contention" /\ dirty'[Spare] = 0
    \/ /\ scope = "queue"
       /\ \A id \in JobIds :
            {jobs'[id].updated, jobs'[id].next, jobs'[id].expires} \subseteq
                0 .. ShortTime \cup {Null}
       /\ \A l, k \in leases' : l.row.owner = k.row.owner

MCInit == Init /\ scope \in {"contention", "queue"}
MCNext == Next /\ InScope /\ UNCHANGED scope
MCSpec == MCInit /\ [][MCNext]_<<vars, scope>>
=============================================================================
