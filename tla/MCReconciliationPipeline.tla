---------------------- MODULE MCReconciliationPipeline ----------------------
(***************************************************************************)
(* A small instance of ReconciliationPipeline for TLC.  The policy of the  *)
(* daemon selects the scope of a behaviour: with one attempt per job, two  *)
(* generations and so two reports within a short clock; with two attempts, *)
(* one generation that is claimed, lost and retried under a longer one;    *)
(* with the larger queue, two sources that return the same event.  In the  *)
(* first two the second source is asked first and has nothing; the         *)
(* operator acts in the first.                                             *)
(***************************************************************************)
EXTENDS ReconciliationPipeline, TLC

CONSTANTS ShortTime,   \* the last tick of the first and the third scope
          Spare        \* the source that has events only in the third

TwoAttempts ==
    [capacity |-> 1, lease |-> 2, renewal |-> 1, max |-> 2,
     initial |-> 1, maximum |-> 1]
OneAttempt == [TwoAttempts EXCEPT !.max = 1]
TwoSources == [OneAttempt EXCEPT !.capacity = 2]

AllPolicies == {OneAttempt, TwoAttempts, TwoSources}

Asked(s) == wrk'.got[s].class \notin {"none", "pending"}

SpareIsEmpty ==
    /\ \A t \in Trades : relay'[t][Spare] = {}
    /\ wrk'.pc # "idle" =>
         /\ wrk'.got[Spare].class \in {"none", "pending", "complete"}
         /\ Asked(Spare) => wrk'.got[Spare].finished = wrk'.started
         /\ \A s \in Sources \ {Spare} : wrk'.got[s].class # "none" => Asked(Spare)

InShortTime == clock' <= ShortTime /\ \A id \in JobIds : jobs'[id].expires <= ShortTime
OneEvent == \A t \in Trades, s \in Sources : relay'[t][s] \subseteq {1}

(* A process of the second scope may come back under the other publication  *)
(* mode once a row waits; the first scope always publishes, the third never *)
(* does.                                                                    *)
ModeInScope ==
    CASE policy' = OneAttempt -> mode' = "required"
      [] policy' = TwoAttempts -> mode' = mode \/ outbox # {}
      [] policy' = TwoSources -> mode' = "disabled"

(* The answer that is lost: of the older report in the first scope, where a *)
(* newer generation may follow, and of a retried attempt in the second.     *)
AnswerInScope ==
    wrk'.pc = "unanswered" =>
        CASE policy = OneAttempt -> wrk'.lease.id[2] < MaxGeneration
          [] policy = TwoAttempts -> wrk'.lease.row.attempt = 2
          [] policy = TwoSources -> FALSE

(* The operator of the first scope acts while the worker rests. *)
OperatorInScope == adm'.pc # "idle" => wrk'.pc = "idle"

InScope ==
    /\ policy' = policy
    /\ ModeInScope /\ AnswerInScope
    /\ CASE policy = OneAttempt -> SpareIsEmpty /\ InShortTime /\ OperatorInScope
         [] policy = TwoAttempts -> SpareIsEmpty /\ OneEvent /\ adm' = Idle
         [] policy = TwoSources -> InShortTime /\ OneEvent /\ adm' = Idle

MCPipelineInit == PipelineInit /\ mode = IF policy = TwoSources THEN "disabled" ELSE "required"

MCPipelineSpec == MCPipelineInit /\ [][PipelineNext /\ InScope]_pipelineVars
=============================================================================
