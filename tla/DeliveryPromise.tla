--------------------------- MODULE DeliveryPromise ---------------------------
(***************************************************************************)
(* What a publication outbox promises, without leases, clocks, attempts or *)
(* processes: a committed item is offered to its targets until every       *)
(* required one has accepted it, or it is set aside until an operator      *)
(* reopens it.  What a target accepted stays accepted, and nothing happens *)
(* to an item that is complete.                                            *)
(***************************************************************************)
CONSTANTS Items, Targets, Required

VARIABLES
    phase,     \* phase[i]: absent, open, blocked or complete
    accepted   \* accepted[i]: the targets that accepted it

promiseVars == <<phase, accepted>>

PromiseInit ==
    /\ phase = [i \in Items |-> "absent"]
    /\ accepted = [i \in Items |-> {}]

Commit(i) ==
    /\ phase[i] = "absent"
    /\ phase' = [phase EXCEPT ![i] = "open"]
    /\ UNCHANGED accepted

(* One offer to at most one target; completion is decided with it. *)
Offer(i) ==
    /\ phase[i] = "open"
    /\ \E ts \in {{}} \cup {{t} : t \in Targets} :
         accepted' = [accepted EXCEPT ![i] = @ \cup ts]
    /\ \E p \in {"open", "blocked", "complete"} :
         /\ (p = "complete") <=> (Required \subseteq accepted'[i])
         /\ phase' = [phase EXCEPT ![i] = p]

Reopen(i) ==
    /\ phase[i] = "blocked"
    /\ phase' = [phase EXCEPT ![i] = "open"]
    /\ UNCHANGED accepted

PromiseNext == \E i \in Items : Commit(i) \/ Offer(i) \/ Reopen(i)

PromiseSpec == PromiseInit /\ [][PromiseNext]_promiseVars
=============================================================================
