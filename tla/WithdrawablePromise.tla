------------------------- MODULE WithdrawablePromise -------------------------
(***************************************************************************)
(* What the presence outbox promises: a DeliveryPromise whose items may    *)
(* also be withdrawn, once and for all, because the desired presence has   *)
(* moved on.  A complete item is past withdrawing.                         *)
(***************************************************************************)
EXTENDS DeliveryPromise

(* One transaction withdraws every open or blocked item of older generations, *)
(* and commits the items of the new one; a recovery withdraws a single item.  *)
Withdraw(items) ==
    /\ \A i \in items : phase[i] \in {"open", "blocked"}
    /\ \E fresh \in SUBSET {i \in Items : phase[i] = "absent"} :
         phase' = [i \in Items |-> IF i \in items THEN "withdrawn"
                                   ELSE IF i \in fresh THEN "open" ELSE phase[i]]
    /\ UNCHANGED accepted

(* One operator step reopens every blocked item of a generation. *)
ReopenAll(items) ==
    /\ \A i \in items : phase[i] = "blocked"
    /\ phase' = [i \in Items |-> IF i \in items THEN "open" ELSE phase[i]]
    /\ UNCHANGED accepted

WithdrawableNext ==
    \/ \E i \in Items : Offer(i)
    \/ \E items \in SUBSET Items : Withdraw(items) \/ ReopenAll(items)

WithdrawableSpec == PromiseInit /\ [][WithdrawableNext]_promiseVars
=============================================================================
