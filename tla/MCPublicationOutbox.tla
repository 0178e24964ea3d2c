------------------------- MODULE MCPublicationOutbox -------------------------
(* PublicationOutbox for TLC: two workers contend for one outbox while the *)
(* publication authority changes between starts.                           *)
EXTENDS PublicationOutbox, TLC

FirstRequired == {0}

(* What RhiNostrExactSink answers *)
Answers == {"accepted", "rejected", "failed", "unknown"}

(* Workers and owners are interchangeable: nothing compares or orders them *)
Symmetry == Permutations(Workers) \cup Permutations(Owners)
=============================================================================
