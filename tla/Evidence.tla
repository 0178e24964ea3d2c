------------------------------ MODULE Evidence ------------------------------
(***************************************************************************)
(* Evidence from the relay to the verdict.  SourceIngest runs, or one      *)
(* input goes through EvidenceEvaluation: they share no state.             *)
(***************************************************************************)
EXTENDS SourceIngest, EvidenceEvaluation

VARIABLE part

EvidenceInit ==
    \/ part = "query" /\ SourceInit /\ input = <<>> /\ stage = "idle" /\ result = <<>>
    \/ part = "verdict" /\ SourceInit /\ EvaluationInit

EvidenceNext ==
    \/ part = "query" /\ SourceNext /\ UNCHANGED <<evaluationVars, part>>
    \/ part = "verdict" /\ EvaluationNext /\ UNCHANGED <<sourceVars, part>>

EvidenceSpec == EvidenceInit /\ [][EvidenceNext]_<<sourceVars, evaluationVars, part>>

(* SourceIngest keeps its types beside the first property of the evaluation. *)
EvidenceInv == SourceTypeOK /\ ArrivalOrderIsIrrelevant
=============================================================================
