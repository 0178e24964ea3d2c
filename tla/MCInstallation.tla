--------------------------- MODULE MCInstallation ---------------------------
(* Two documents that differ in policy and key and name one envelope path. *)
EXTENDS Installation, TLC

CONSTANTS d1, d2, policyA, policyB, keyA, keyB, envelope, p1, p2

MCDocPolicy == d1 :> policyA @@ d2 :> policyB
MCDocKey == d1 :> keyA @@ d2 :> keyB
MCDocPath == d1 :> envelope @@ d2 :> envelope

\* The documents may change places together with what they name.
DocSwap == d1 :> d2 @@ d2 :> d1 @@ policyA :> policyB @@ policyB :> policyA
             @@ keyA :> keyB @@ keyB :> keyA
MCSymmetry == Permutations({p1, p2}) \cup {DocSwap}
=============================================================================
