---------------------------- MODULE MetricsSync -----------------------------
(***************************************************************************)
(* metrics sync (sync.py, normalize.py, providers.py): counts of HH's       *)
(* negotiations, and the views of the resumes where HH gives them, into     *)
(* Core's metric of one day, under a key made of the day and the values.    *)
(* Runs may overlap.                                                        *)
(*                                                                          *)
(* What is counted need not be of one moment.  A listing may consist of     *)
(* several answers, between which negotiations begin and change: one that   *)
(* is in two of them counts twice, one that is in none does not count.  The *)
(* views are read with another request after it; they are no part of the    *)
(* state, but make a key new.                                               *)
(*                                                                          *)
(* Core is external: a key it has seen is answered from what it stored, and *)
(* changes nothing.                                                         *)
(*                                                                          *)
(* A definition named Mutant... is the one that follows it with a plausible *)
(* bug; no specification uses it.                                           *)
(***************************************************************************)
EXTENDS Negotiations

CONSTANTS Meters,
          Steady,     \* the syncs that are repeated
          MaxParts    \* bound: parts of a listing (collections, and pages of each)

ASSUME SteadyMeters == Steady \subseteq Meters
ASSUME PartsNatural == MaxParts \in Nat \ {0}

VARIABLES
    metric,    \* Core: the snapshot of the day
    keys,      \* Core: the counts it has been sent, under whatever views
    place,     \* place[m]: where the metrics sync m stands
    snapshot   \* snapshot[m]: what it has counted

day   == <<metric, keys>>
meter == <<place, snapshot>>
vars  == <<hh, day, meter>>

\* Counts of the entries of a listing, with the parts it was made of (history: Core is not
\* told).  Applications and rejections are counted over the same entries.
Counts    == 0..(MaxParts * Cardinality(Vacancies))
Snapshots == {s \in [applications : Counts, rejections : Counts, parts : 0..MaxParts] :
                 s.rejections <= s.applications}
NoMetric  == [applications |-> 0, rejections |-> 0, parts |-> 0]

TypeOK ==
    /\ HhTypeOK
    /\ metric \in Snapshots
    /\ keys \subseteq [applications : Counts, rejections : Counts]
    /\ place \in [Meters -> {"idle", "list", "views", "put"}]
    /\ snapshot \in [Meters -> Snapshots]

Init ==
    /\ HhInit
    /\ metric = NoMetric /\ keys = {}
    /\ place = [m \in Meters |-> "idle"]
    /\ snapshot = [m \in Meters |-> NoMetric]
-----------------------------------------------------------------------------
Declined(page) == {v \in page : state[v] = "discard"}

MutantCounted(s, page) ==                         \* a rejection counts as one more
    [applications |-> s.applications + Cardinality(page) + Cardinality(Declined(page)),
     rejections   |-> s.rejections + Cardinality(Declined(page)),
     parts        |-> s.parts + 1]

\* A page, or another part, is counted: len, and the sum over the states it is listed with.
Counted(s, page) ==
    [applications |-> s.applications + Cardinality(page),
     rejections   |-> s.rejections + Cardinality(Declined(page)),
     parts        |-> s.parts + 1]

\* The sync m goes on to where, with the listing so far.
Listing(m, from, where, s) ==
    /\ place[m] = from
    /\ place' = [place EXCEPT ![m] = where]
    /\ snapshot' = [snapshot EXCEPT ![m] = s]
    /\ UNCHANGED <<hh, day>>

\* list_applications: a page of items is all.
ListPage(m) == \E page \in FirstPage : Listing(m, "idle", "views", Counted(NoMetric, page))

\* Otherwise it is made of parts, one request after the other.
ListCollections(m) == Listing(m, "idle", "list", NoMetric)

ListPart(m) ==
    /\ snapshot[m].parts < MaxParts
    /\ \E page \in Parts :
          /\ snapshot[m].applications + Cardinality(page) <= MaxListed
          /\ Listing(m, "list", "list", Counted(snapshot[m], page))

ListEnds(m) == Listing(m, "list", "views", snapshot[m])

MutantAddViews(m) ==                              \* the rejections are of another listing
    /\ place[m] = "views"
    /\ place' = [place EXCEPT ![m] = "put"]
    /\ snapshot' = [snapshot EXCEPT ![m].rejections = Cardinality(Declined(Applied))]
    /\ UNCHANGED <<hh, day>>

\* resume_view_totals: with the views, or without them on a 403.  The counts stay.
AddViews(m) ==
    /\ place[m] = "views"
    /\ place' = [place EXCEPT ![m] = "put"]
    /\ UNCHANGED <<snapshot, hh, day>>

MutantKeyOf(s) == [applications |-> s.applications, rejections |-> 0]    \* left out

\* metric_idempotency_key: the values, here the counts of negotiations.
KeyOf(s) == [applications |-> s.applications, rejections |-> s.rejections]

\* upsert_metric: a key that Core has seen changes nothing.  Counts that have been sent before
\* come under a new key if the views are others by now.
Upsert(s) ==
    /\ keys' = keys \cup {KeyOf(s)}
    /\ metric' \in IF KeyOf(s) \in keys THEN {metric, s} ELSE {s}

End(m) ==
    /\ place' = [place EXCEPT ![m] = "idle"]
    /\ snapshot' = [snapshot EXCEPT ![m] = NoMetric]
    /\ UNCHANGED hh

\* Core stores it, whether its answer arrives or not.
Put(m) == place[m] = "put" /\ Upsert(snapshot[m]) /\ End(m)

\* HH refuses the views otherwise, Core is not reached or refuses, or the process is killed.
Fails(m) == place[m] # "idle" /\ End(m) /\ UNCHANGED day

MetricsNext ==
    \E m \in Meters : \/ ListPage(m) \/ ListCollections(m) \/ ListPart(m) \/ ListEnds(m)
                      \/ AddViews(m) \/ Put(m) \/ Fails(m)

HhNext == \E v \in Vacancies : Post(v) \/ Change(v)

Next == MetricsNext \/ (HhNext /\ UNCHANGED <<day, meter>>)

Spec == Init /\ [][Next]_vars

\* What HH shows.
Shown(s) ==
    s.applications = Cardinality(Applied) /\ s.rejections = Cardinality(Declined(Applied))

\* Syncs are started again and again and go on, however they end; HH answers with a page of
\* items some time, if asked often enough, and a call that is made often enough with what it
\* shows goes well some time.
Fairness ==
    \A m \in Steady : /\ WF_vars(ListEnds(m) \/ AddViews(m) \/ Put(m) \/ Fails(m))
                      /\ SF_vars(ListPage(m))
                      /\ SF_vars(AddViews(m) /\ Shown(snapshot[m]))
                      /\ SF_vars(Put(m) /\ Shown(snapshot[m]))

FairSpec == Spec /\ Fairness
-----------------------------------------------------------------------------
(* Properties.                                                             *)

EverDeclined == {v \in Applied : "discard" \in had[v]}

\* Each part has added a negotiation once, and as a rejection only if it ever was one.
Backed(s) ==
    /\ s.applications <= s.parts * Cardinality(Applied)
    /\ s.rejections <= s.parts * Cardinality(EverDeclined)

\* What Core shows of the day was counted: however late a sync writes, whatever overtakes it
\* and whatever employers take back meanwhile, its counts are no higher than the parts its
\* listing was made of can have shown, and so for what is on its way.  Of one page that is:
\* no negotiations that are not there, no rejections that never were.
CountsAreBacked == Backed(metric) /\ \A m \in Meters : Backed(snapshot[m])

\* What HH shows does not stay out of Core: no refused, unanswered, killed or slower sync, and
\* no listing in parts, keeps counts out that no sync has sent this day, if a page holds them.
\* (Counts that were sent before may stay out: their key is seen.)
NewCountsArrive ==
    Cardinality(Vacancies) <= PageSize => []<>(\E s \in keys \cup {metric} : Shown(s))
=============================================================================
