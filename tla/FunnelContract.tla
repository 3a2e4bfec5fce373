--------------------------- MODULE FunnelContract ---------------------------
(***************************************************************************)
(* What Core may know of the applicant's negotiations: facts.  Each is      *)
(* about a negotiation there is, says of it what was once true, is entered  *)
(* once and stays.                                                          *)
(***************************************************************************)
CONSTANTS Vacancies, Open

VARIABLES past,   \* past[v]: the states the negotiation about v has been in
          facts   \* facts[v]: the state Core has of it, or "absent"

Init == /\ past = [v \in Vacancies |-> {}]
        /\ facts = [v \in Vacancies |-> "absent"]

\* A negotiation begins or changes.
Happen(v) ==
    /\ \E s \in Open : past' = [past EXCEPT ![v] = @ \cup {s}]
    /\ UNCHANGED facts

\* Core hears of one it does not know.
Learn(v) ==
    /\ facts[v] = "absent"
    /\ \E s \in past[v] : facts' = [facts EXCEPT ![v] = s]
    /\ UNCHANGED past

Next == \E v \in Vacancies : Happen(v) \/ Learn(v)

Spec == Init /\ [][Next]_<<past, facts>>
=============================================================================
