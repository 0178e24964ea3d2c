----------------------------- MODULE MCEvidence -----------------------------
(***************************************************************************)
(* An instance of Evidence for TLC.                                        *)
(***************************************************************************)
EXTENDS Evidence

(* Two events of one second, one of them refused; one long before them and  *)
(* one that is still in the future for most of a behaviour                  *)
MCEvents == 1 .. 4
MCAuthoredAt == <<1, 3, 3, 4>>
MCDefect == <<"none", "none", "signature", "none">>

(* One signed event seen twice with other provenance, the same event under  *)
(* another signature, and a later event with a lower id for its mutation    *)
Fact(event, sig, mutation, authored, observed, bytes) ==
    [event |-> event, sig |-> sig, mutation |-> mutation, authored |-> authored,
     observed |-> observed, bytes |-> bytes]
MCReplayed == {Fact(3, 1, 1, 1, 7, 1), Fact(3, 1, 1, 1, 8, 2), Fact(3, 2, 1, 1, 7, 1),
               Fact(2, 1, 1, 2, 8, 1), Fact(4, 1, 2, 2, 7, 1)}

(* Each of two events for one mutation alone, both in canonical order, an   *)
(* event of another mutation, or nothing                                    *)
Older == Fact(3, 1, 1, 1, 7, 1)
Newer == Fact(2, 1, 1, 2, 8, 1)
MCReplies == {<<>>, <<Older>>, <<Newer>>, <<Older, Newer>>, <<Fact(4, 1, 2, 2, 7, 1)>>}

(* An agreed claim, and what may be said instead of one part or another     *)
Agreed ==
    [evidence |-> "complete", digest |-> TRUE, issue |-> FALSE, present |-> TRUE,
     active |-> TRUE, contested |-> FALSE, cancelled |-> FALSE, agreed |-> TRUE]
Claims ==
    {Agreed, [Agreed EXCEPT !.digest = FALSE], [Agreed EXCEPT !.issue = TRUE],
     [Agreed EXCEPT !.contested = TRUE], [Agreed EXCEPT !.cancelled = TRUE],
     [Agreed EXCEPT !.agreed = FALSE],
     [Agreed EXCEPT !.active = FALSE, !.cancelled = TRUE, !.agreed = FALSE],
     [Agreed EXCEPT !.active = FALSE, !.present = FALSE, !.agreed = FALSE]}
MCAnswers == {[c EXCEPT !.evidence = e] : c \in Claims, e \in EvidenceStates}
=============================================================================
