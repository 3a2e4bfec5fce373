-------------------------- MODULE ApplicationSync ---------------------------
(***************************************************************************)
(* applications sync (sync.py, normalize.py, providers.py): HH's            *)
(* negotiations, listed once, into Core's vacancies and applications.  Runs *)
(* may overlap; nothing but Core's idempotency keys keeps them apart.       *)
(*                                                                          *)
(* A listing made of parts may have one negotiation twice, in two states:   *)
(* each is an item.  (Twice in one state is twice the same call, with the   *)
(* same key, and is one item here.)                                         *)
(*                                                                          *)
(* Core is external: a key it has seen is answered from what it stored, and *)
(* changes nothing.  A vacancy also gets there by other ways.               *)
(*                                                                          *)
(* A definition named Mutant... is the one that follows it with a plausible *)
(* bug; no specification uses it.                                           *)
(***************************************************************************)
EXTENDS Negotiations

CONSTANTS Syncers,
          Embedded,    \* vacancies whose negotiation carries their title
          NoVacancy

ASSUME EmbeddedVacancies == Embedded \subseteq Vacancies
ASSUME NoVacancyIsNone   == NoVacancy \notin Vacancies

VARIABLES
    vacancies,     \* Core: the vacancies it has
    applications,  \* Core: applications[v], the state the application of v was stored with
    spc,           \* spc[s]: where the sync s stands
    items,         \* items[s]: the items left: the states each negotiation was listed in
    item,          \* item[s]: the item at hand
    synced         \* synced[s]: report, items (what is listed and not synced is an error)

core == <<vacancies, applications>>
sync == <<spc, items, item, synced>>

SyncTypeOK ==
    /\ vacancies \subseteq Vacancies
    /\ applications \in [Vacancies -> States]
    /\ spc \in [Syncers -> {"idle", "list", "next", "vacancy", "application"}]
    /\ items \in [Syncers -> [Vacancies -> SUBSET Open]]
    /\ item \in [Syncers -> Vacancies \cup {NoVacancy}]
    /\ synced \in [Syncers -> SUBSET Vacancies]
    /\ \A s \in Syncers :
          item[s] \in Vacancies <=> spc[s] \in {"vacancy", "application"}

NoItems == [v \in Vacancies |-> {}]

SyncInit ==
    /\ vacancies = {} /\ applications = [v \in Vacancies |-> "absent"]
    /\ spc = [s \in Syncers |-> "idle"]
    /\ items = [s \in Syncers |-> NoItems]
    /\ item = [s \in Syncers |-> NoVacancy]
    /\ synced = [s \in Syncers |-> {}]

Imported == {v \in Vacancies : applications[v] # "absent"}
Left(s)  == {v \in Vacancies : items[s][v] # {}}
-----------------------------------------------------------------------------
\* The items of a page, in the states they have at this moment.
ItemsOf(page) == [v \in Vacancies |-> IF v \in page THEN {state[v]} ELSE {}]

\* The sync s goes on to where, with the listing so far.
Listing(s, from, where, listed) ==
    /\ spc[s] = from
    /\ spc' = [spc EXCEPT ![s] = where]
    /\ items' = [items EXCEPT ![s] = listed]
    /\ UNCHANGED <<item, synced, core>>

\* list_applications: a page of items is all.
ListPage(s) == \E page \in FirstPage : Listing(s, "idle", "next", ItemsOf(page))

\* Otherwise it is made of parts, one request after the other.
ListCollections(s) == Listing(s, "idle", "list", NoItems)

ListPart(s) ==
    \E page \in Parts :
        LET listed == [v \in Vacancies |-> items[s][v] \cup ItemsOf(page)[v]]
        IN  /\ Cardinality({e \in Vacancies \X Open : e[2] \in listed[e[1]]}) <= MaxListed
            /\ Listing(s, "list", "list", listed)

ListEnds(s) == Listing(s, "list", "next", items[s])

List(s) == ListPage(s) \/ ListCollections(s) \/ ListPart(s) \/ ListEnds(s)

MutantSkip(s, v, t) ==                            \* the item goes on without a vacancy
    /\ items' = [items EXCEPT ![s][v] = @ \ {t}]
    /\ item' = [item EXCEPT ![s] = NoVacancy]
    /\ spc' = [spc EXCEPT ![s] = "application"]
    /\ UNCHANGED synced

\* The item, v as listed in t, is an error.
Skip(s, v, t) ==
    /\ items' = [items EXCEPT ![s][v] = @ \ {t}]
    /\ item' = [item EXCEPT ![s] = NoVacancy]
    /\ spc' = [spc EXCEPT ![s] = "next"]
    /\ UNCHANGED synced

MutantResolve(s) ==                               \* no vacancy is made of the negotiation
    /\ spc[s] = "next"
    /\ \E v \in Left(s) :
          \/ /\ v \in vacancies
             /\ item' = [item EXCEPT ![s] = v]
             /\ spc' = [spc EXCEPT ![s] = "application"]
             /\ UNCHANGED <<items, synced>>
          \/ \E t \in items[s][v] : Skip(s, v, t)
    /\ UNCHANGED core

\* _resolve_vacancy_id: in Core's list, or made of what the negotiation carries; without
\* either, or without Core's list, the item is an error.
Resolve(s) ==
    /\ spc[s] = "next"
    /\ \E v \in Left(s) :
          \/ /\ v \in vacancies \cup Embedded
             /\ item' = [item EXCEPT ![s] = v]
             /\ spc' = [spc EXCEPT ![s] = IF v \in vacancies THEN "application" ELSE "vacancy"]
             /\ UNCHANGED <<items, synced>>
          \/ \E t \in items[s][v] : Skip(s, v, t)
    /\ UNCHANGED core

\* create_vacancy: stored, or stored without an answer, or refused.
CreateVacancy(s) ==
    /\ spc[s] = "vacancy"
    /\ \/ /\ vacancies' = vacancies \cup {item[s]}
          /\ spc' = [spc EXCEPT ![s] = "application"]
          /\ UNCHANGED <<items, item, synced>>
       \/ /\ vacancies' \in {vacancies, vacancies \cup {item[s]}}
          /\ \E t \in items[s][item[s]] : Skip(s, item[s], t)
    /\ UNCHANGED applications

MutantStore(v, t) ==                              \* a key of its own for each state
    applications' = [applications EXCEPT ![v] = t]

\* What Core does with an application, under the key of its negotiation.
Store(v, t) ==
    applications' = IF v \in Imported THEN applications ELSE [applications EXCEPT ![v] = t]

MutantCreateApplication(s) ==                     \* a failed call counts as done
    /\ spc[s] = "application"
    /\ \E t \in items[s][item[s]] :
          /\ \/ Store(item[s], t)
             \/ UNCHANGED applications
          /\ synced' = [synced EXCEPT ![s] = @ \cup {item[s]}]
          /\ items' = [items EXCEPT ![s][item[s]] = @ \ {t}]
    /\ item' = [item EXCEPT ![s] = NoVacancy]
    /\ spc' = [spc EXCEPT ![s] = "next"]
    /\ UNCHANGED vacancies

\* create_application: stored, or stored without an answer, or refused.
CreateApplication(s) ==
    /\ spc[s] = "application"
    /\ \E t \in items[s][item[s]] :
          \/ /\ Store(item[s], t)
             /\ synced' = [synced EXCEPT ![s] = @ \cup {item[s]}]
             /\ items' = [items EXCEPT ![s][item[s]] = @ \ {t}]
             /\ item' = [item EXCEPT ![s] = NoVacancy]
             /\ spc' = [spc EXCEPT ![s] = "next"]
          \/ Store(item[s], t) /\ Skip(s, item[s], t)
          \/ UNCHANGED applications /\ Skip(s, item[s], t)
    /\ UNCHANGED vacancies

\* The report is out, or the process is killed on the way.
EndSync(s) ==
    /\ spc[s] # "idle"
    /\ spc' = [spc EXCEPT ![s] = "idle"]
    /\ items' = [items EXCEPT ![s] = NoItems]
    /\ item' = [item EXCEPT ![s] = NoVacancy]
    /\ synced' = [synced EXCEPT ![s] = {}]
    /\ UNCHANGED core

SyncApplications(s) ==
    /\ \/ List(s) \/ Resolve(s) \/ CreateVacancy(s) \/ CreateApplication(s)
       \/ EndSync(s)
    /\ UNCHANGED hh

\* A search run ingests the vacancy, or sync_vacancies creates it under its key.
Ingest(v) ==
    /\ v \notin vacancies
    /\ vacancies' = vacancies \cup {v}
    /\ UNCHANGED <<hh, applications, sync>>

SyncNext ==
    \/ \E s \in Syncers : SyncApplications(s)
    \/ \E v \in Vacancies : Ingest(v)
-----------------------------------------------------------------------------
(* Properties.                                                             *)

\* What a sync reports as synced is in Core, over vacancies that are.
SyncedIsThere ==
    \A s \in Syncers : synced[s] \subseteq Imported \cap vacancies
=============================================================================
