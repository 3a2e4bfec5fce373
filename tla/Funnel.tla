------------------------------- MODULE Funnel -------------------------------
(***************************************************************************)
(* Limited apply and application sync over the same negotiations: what      *)
(* apply posts is not stored in Core by apply (core_application_created is  *)
(* always false), but found by the next sync.                               *)
(***************************************************************************)
EXTENDS LimitedApply, ApplicationSync

CONSTANTS Steady,   \* the syncs that are repeated
          Served    \* the vacancies whose calls go well some time

ASSUME SteadySyncers   == Steady \subseteq Syncers
ASSUME ServedVacancies == Served \subseteq Vacancies

funnel == <<hh, apply, core, sync>>

TypeOK == HhTypeOK /\ ApplyTypeOK /\ SyncTypeOK

Init == HhInit /\ ApplyInit /\ SyncInit

Next ==
    \/ ApplyNext /\ UNCHANGED <<core, sync>>
    \/ SyncNext /\ UNCHANGED apply
    \/ \E v \in Vacancies : Change(v) /\ UNCHANGED <<apply, core, sync>>

Spec == Init /\ [][Next]_funnel

\* Nothing but the sync moves.
BySync(A) == A /\ UNCHANGED <<hh, apply>>

\* The syncs of Steady are started again and again and go on, however they end.  A listing
\* that could have a vacancy of Served often enough has it some time, and a call that is made
\* for the vacancy often enough goes well some time.
Fairness ==
    \A s \in Steady :
        /\ WF_funnel(BySync(\/ ListEnds(s) \/ Resolve(s) \/ CreateVacancy(s)
                            \/ CreateApplication(s) \/ (EndSync(s) /\ Left(s) = {})))
        /\ \A v \in Served :
              /\ SF_funnel(BySync(ListPage(s) \/ ListEnds(s)) /\ v \in Left(s)')
              /\ SF_funnel(BySync(Resolve(s)) /\ item'[s] = v)
              /\ SF_funnel(BySync(CreateVacancy(s)) /\ item'[s] = v)
              /\ SF_funnel(BySync(CreateApplication(s)) /\ v \in synced'[s] \ synced[s])

FairSpec == Spec /\ Fairness
-----------------------------------------------------------------------------
(* Properties.                                                             *)

\* Core's applications are facts about HH's negotiations, whatever runs overlap and
\* whatever answers are lost.
Contract == INSTANCE FunnelContract WITH past <- had, facts <- applications
ImplementsContract == Contract!Spec

\* An application gets into Core, also one whose answer was lost or whose run died, if syncs
\* are repeated, the first page holds them all, and the calls for this one go well some time,
\* whatever becomes of those for others.
EveryApplicationArrives ==
    \A v \in Served :
        v \in Applied /\ Cardinality(Vacancies) <= PageSize
            ~> v \in Imported \/ v \notin vacancies \cup Embedded
=============================================================================
