------------------------ MODULE MCPublicationTargets ------------------------
(* PublicationOutbox for TLC: one outbox, one worker, the targets' answers. *)
EXTENDS PublicationOutbox

FirstRequired == {0}
BothRequired == {0, 1}
NoneRequired == {}

(* What RhiNostrExactSink answers; what the sink's contract admits *)
Answers == {"accepted", "rejected", "failed", "unknown"}
AnyAnswer == AllOutcomes
=============================================================================
