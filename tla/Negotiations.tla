---------------------------- MODULE Negotiations ----------------------------
(***************************************************************************)
(* The applicant's negotiations at HH, as limited apply, application sync   *)
(* and metrics sync use them (external): one for each vacancy applied to,   *)
(* in a state that the employer changes, listed in one page or in parts.    *)
(***************************************************************************)
EXTENDS Integers, FiniteSets

CONSTANTS Vacancies,
          PageSize,     \* negotiations that a listing returns (per_page=50)
          MaxListed,    \* bound: entries of a listing that is made of parts
          MaxChanges    \* bound: changes of state by employers

ASSUME VacanciesFinite  == IsFiniteSet(Vacancies)
ASSUME PageSizePositive == PageSize \in Nat \ {0}
ASSUME ListedNatural    == MaxListed \in Nat
ASSUME ChangesNatural   == MaxChanges \in Nat

Open   == {"response", "discard"}
States == Open \cup {"absent"}

VARIABLES
    state,    \* state[v]: the state of the negotiation about v
    had,      \* had[v]: the states it has been in (history)
    changes   \* changes of state so far

hh == <<state, had, changes>>

HhTypeOK ==
    /\ state \in [Vacancies -> States]
    /\ had \in [Vacancies -> SUBSET Open]
    /\ changes \in 0..MaxChanges

HhInit ==
    /\ state = [v \in Vacancies |-> "absent"]
    /\ had = [v \in Vacancies |-> {}]
    /\ changes = 0

Applied == {v \in Vacancies : state[v] # "absent"}

Enter(v, s) ==
    /\ state' = [state EXCEPT ![v] = s]
    /\ had' = [had EXCEPT ![v] = @ \cup {s}]

\* POST /negotiations, accepted: once for a vacancy.
Post(v) ==
    /\ v \notin Applied
    /\ Enter(v, "response")
    /\ UNCHANGED changes

\* The employer declines, or takes that back.
Change(v) ==
    /\ v \in Applied
    /\ changes < MaxChanges
    /\ Enter(v, IF state[v] = "response" THEN "discard" ELSE "response")
    /\ changes' = changes + 1

\* GET /negotiations answers with `items`: list_applications takes this page, if there is
\* something on it, and reads no other.  What is on it is up to HH.
FirstPage ==
    {page \in SUBSET Applied \ {{}} : \/ Cardinality(page) = PageSize
                                      \/ page = Applied /\ Cardinality(page) < PageSize}

\* It answers with `collections`, or with no items: the listing is put together of parts, the
\* items nested in a collection and the pages read under a collection's url or, when nothing
\* has come of it, under the first url again.  Each is what HH answers at its own moment, and
\* names a negotiation once; which ones is up to HH.
Parts == SUBSET Applied
=============================================================================
