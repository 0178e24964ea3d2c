--------------------------- MODULE MCPresenceOutbox ---------------------------
(* Instances of PresenceOutbox for TLC. *)
EXTENDS PresenceOutbox

Section(kinds, relays) == [enabled |-> kinds # {}, kinds |-> kinds, relays |-> relays]
Off == Section({}, "first")

(* Two sections that ask for one document of different relays, one that disables *)
(* presence, and one no configuration may hold                                   *)
Changes == {Section({"profile"}, "first"), Section({"profile"}, "second"), Off,
            [Off EXCEPT !.enabled = TRUE]}

FirstRequired == {0}
Answers == {"accepted", "rejected", "unknown"}
=============================================================================
