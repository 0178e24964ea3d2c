------------------------------- MODULE MCAdmin -------------------------------
(***************************************************************************)
(* Instances of the admin service for TLC.  The mutations (AdminJournal)   *)
(* and the lists (AdminPages) share no state, so their product would show  *)
(* nothing that each alone does not: a behaviour exercises one of the two. *)
(***************************************************************************)
EXTENDS AdminJournal, AdminPages, TLC

VARIABLE part

NameSymmetry == Permutations(Clients) \cup Permutations(Ids)

AdminInit == Init /\ PagesInit /\ part \in {"mutations", "lists"}

AdminNext ==
    \/ part = "mutations" /\ Next /\ UNCHANGED <<pvars, part>>
    \/ part = "lists" /\ PagesNext /\ UNCHANGED <<vars, part>>

AdminSpec == AdminInit /\ [][AdminNext]_<<vars, pvars, part>>
=============================================================================
