------------------------- MODULE MetricsSync_proofs -------------------------
(***************************************************************************)
(* What Core shows of the day counts nothing that was not listed, for any   *)
(* number of vacancies, page size, number of overlapping metrics syncs and  *)
(* any bounds on the parts and the entries of a listing.                    *)
(***************************************************************************)
EXTENDS MetricsSync, FiniteSetTheorems, TLAPS

LEMMA Cardinalities ==
    ASSUME NEW S \in SUBSET Vacancies, NEW T \in SUBSET S
    PROVE  /\ Cardinality(S) \in Nat /\ Cardinality(T) \in Nat
           /\ Cardinality(T) <= Cardinality(S)
<1>1. IsFiniteSet(S)
  BY VacanciesFinite, FS_Subset
<1>2. IsFiniteSet(T) /\ Cardinality(T) <= Cardinality(S)
  BY <1>1, FS_Subset
<1> QED
  BY <1>1, <1>2, FS_CardinalityType

\* A sum of one more part stays within the product.
LEMMA OneMorePart ==
    ASSUME NEW sum \in Nat, NEW parts \in Nat, NEW old \in Nat, NEW most \in Nat,
           NEW part \in Nat, sum <= parts * old, old <= most, part <= most
    PROVE  sum + part <= (parts + 1) * most
<1>1. parts * old <= parts * most
  BY SMT
<1>2. (parts + 1) * most = parts * most + most
  BY SMT
<1>3. parts * old \in Nat /\ parts * most \in Nat
  BY SMT
<1> QED
  BY <1>1, <1>2, <1>3

\* More parts are less than as many as there may be.
LEMMA ProductsGrow ==
    ASSUME NEW p \in Nat, NEW q \in Nat, NEW n \in Nat, NEW k \in Nat, p <= q, n <= k
    PROVE  p * n <= q * k
<1>1. p * n <= p * k
  BY SMT
<1>2. p * k <= q * k
  BY SMT
<1>3. p * n \in Nat /\ p * k \in Nat /\ q * k \in Nat
  BY SMT
<1> QED
  BY <1>1, <1>2, <1>3
-----------------------------------------------------------------------------
(* HH remembers, and only gains.                                           *)

\* HH's history has the state a negotiation is in.
HadDeclined == \A v \in Vacancies : state[v] = "discard" => "discard" \in had[v]

\* A negotiation stays, and what it has been it has been.
Grows == Applied \subseteq Applied' /\ EverDeclined \subseteq EverDeclined'

LEMMA HhStepGrows ==
    ASSUME HhTypeOK, HadDeclined, HhNext
    PROVE  HhTypeOK' /\ HadDeclined' /\ Grows
<1>1. PICK v \in Vacancies : Post(v) \/ Change(v)
  BY DEF HhNext
<1>2. HhTypeOK'
  BY <1>1, ChangesNatural DEF HhTypeOK, Post, Change, Enter, States, Open
<1>3. HadDeclined' /\ Applied \subseteq Applied'
  BY <1>1 DEF HhTypeOK, HadDeclined, Post, Change, Enter, Applied
<1>4. \A w \in Vacancies : had[w] \subseteq had'[w]
  BY <1>1 DEF HhTypeOK, Post, Change, Enter
<1> QED
  BY <1>2, <1>3, <1>4 DEF Grows, EverDeclined, Applied

LEMMA HhRests ==
    ASSUME HhTypeOK, HadDeclined, UNCHANGED hh
    PROVE  HhTypeOK' /\ HadDeclined' /\ Grows
BY DEF HhTypeOK, HadDeclined, Grows, EverDeclined, Applied, hh

LEMMA Sizes ==
    /\ Cardinality(Applied) \in Nat /\ Cardinality(EverDeclined) \in Nat
    /\ Cardinality(EverDeclined) <= Cardinality(Applied)
    /\ Cardinality(Applied) <= Cardinality(Vacancies)
    /\ Cardinality(Vacancies) \in Nat
<1>1. Applied \in SUBSET Vacancies /\ EverDeclined \in SUBSET Applied
  BY DEF Applied, EverDeclined
<1> QED
  BY <1>1, Cardinalities

LEMMA SizesGrow ==
    ASSUME Grows
    PROVE  /\ Cardinality(Applied') \in Nat /\ Cardinality(EverDeclined') \in Nat
           /\ Cardinality(Applied) <= Cardinality(Applied')
           /\ Cardinality(EverDeclined) <= Cardinality(EverDeclined')
<1>1. Applied' \in SUBSET Vacancies /\ EverDeclined' \in SUBSET Vacancies
  BY DEF Applied, EverDeclined
<1> QED
  BY <1>1, Cardinalities DEF Grows
-----------------------------------------------------------------------------
(* The counts of a snapshot.                                               *)

\* The counts of s are within those of its parts, for so many negotiations and rejections.
Within(s, n, declined) ==
    s.applications <= s.parts * n /\ s.rejections <= s.parts * declined

\* What was backed stays so.
LEMMA StaysBacked ==
    ASSUME Grows, NEW s \in Snapshots, Backed(s)
    PROVE  Within(s, Cardinality(Applied'), Cardinality(EverDeclined'))
<1>1. s.parts \in Nat /\ s.applications \in Nat /\ s.rejections \in Nat
  BY Sizes, PartsNatural DEF Snapshots, Counts
<1>2. /\ s.parts * Cardinality(Applied) <= s.parts * Cardinality(Applied')
      /\ s.parts * Cardinality(EverDeclined) <= s.parts * Cardinality(EverDeclined')
  BY <1>1, Sizes, SizesGrow, ProductsGrow
<1>3. /\ s.parts * Cardinality(Applied) \in Nat /\ s.parts * Cardinality(Applied') \in Nat
      /\ s.parts * Cardinality(EverDeclined) \in Nat
      /\ s.parts * Cardinality(EverDeclined') \in Nat
  BY <1>1, Sizes, SizesGrow, SMT
<1> QED
  BY <1>1, <1>2, <1>3 DEF Backed, Within

\* Counting a part adds to a snapshot what the part may hold.
LEMMA CountedIsBacked ==
    ASSUME HadDeclined, NEW s \in Snapshots, Backed(s), s.parts < MaxParts,
           NEW page \in Parts
    PROVE  Counted(s, page) \in Snapshots /\ Backed(Counted(s, page))
<1> DEFINE a == s.applications
           r == s.rejections
           p == s.parts
           n == Cardinality(Applied)
           d == Cardinality(EverDeclined)
           part == Cardinality(page)
           rejected == Cardinality(Declined(page))
<1>1. /\ a \in Nat /\ r \in Nat /\ p \in Nat /\ r <= a /\ p + 1 \in 0..MaxParts
      /\ s = [applications |-> a, rejections |-> r, parts |-> p]
  BY Sizes, PartsNatural DEF Snapshots, Counts
<1>2. part \in Nat /\ part <= n /\ rejected \in Nat /\ rejected <= part
  <2>1. page \in SUBSET Applied /\ Declined(page) \in SUBSET page
    BY DEF Parts, Declined
  <2> QED
    BY <2>1, Cardinalities DEF Applied
<1>3. rejected <= d
  <2>1. Declined(page) \in SUBSET EverDeclined /\ EverDeclined \in SUBSET Vacancies
    BY DEF Parts, Declined, EverDeclined, HadDeclined, Applied
  <2> QED
    BY <2>1, Cardinalities
<1>4. a <= p * n /\ r <= p * d
  BY DEF Backed
<1>5. Counted(s, page) = [applications |-> a + part, rejections |-> r + rejected,
                          parts |-> p + 1]
  BY DEF Counted
<1>6. n \in Nat /\ d \in Nat /\ n <= Cardinality(Vacancies) /\ Cardinality(Vacancies) \in Nat
  BY Sizes
<1> HIDE DEF a, r, p, n, d, part, rejected
<1>7. a + part <= (p + 1) * n /\ r + rejected <= (p + 1) * d
  BY <1>1, <1>2, <1>3, <1>4, <1>6, OneMorePart
<1>8. Backed(Counted(s, page))
  BY <1>5, <1>7 DEF Backed, n, d
<1>9. Counted(s, page) \in Snapshots
  <2>1. (p + 1) * n <= MaxParts * Cardinality(Vacancies)
    BY <1>1, <1>6, PartsNatural, ProductsGrow
  <2>2. (p + 1) * n \in Nat /\ MaxParts * Cardinality(Vacancies) \in Nat
    BY <1>1, <1>6, PartsNatural, SMT
  <2>3. a + part \in Counts /\ r + rejected \in Counts /\ r + rejected <= a + part
    BY <1>1, <1>2, <1>7, <2>1, <2>2 DEF Counts
  <2> QED
    BY <1>1, <1>5, <2>3 DEF Snapshots
<1> QED
  BY <1>8, <1>9

LEMMA NothingIsBacked == NoMetric \in Snapshots /\ Backed(NoMetric)
<1>1. 0 \in Counts /\ 0 \in 0..MaxParts
  <2>1. MaxParts * Cardinality(Vacancies) \in Nat
    BY Sizes, PartsNatural, SMT
  <2> QED
    BY <2>1, PartsNatural DEF Counts
<1>2. 0 * Cardinality(Applied) = 0 /\ 0 * Cardinality(EverDeclined) = 0
  BY Sizes, SMT
<1> QED
  BY <1>1, <1>2 DEF NoMetric, Snapshots, Backed
-----------------------------------------------------------------------------
(* The steps.                                                              *)

Inv == TypeOK /\ HadDeclined /\ CountsAreBacked

\* Where the counts of a step come from.
FromCounts(s) ==
    \/ s \in {metric, NoMetric} \/ \E m \in Meters : s = snapshot[m]
    \/ \E t \in Snapshots : /\ Backed(t) /\ t.parts < MaxParts
                            /\ \E page \in Parts : s = Counted(t, page)

LEMMA FromCountsIsBacked ==
    ASSUME Inv, NEW s, FromCounts(s)
    PROVE  s \in Snapshots /\ Backed(s)
BY NothingIsBacked, CountedIsBacked DEF Inv, FromCounts, TypeOK, CountsAreBacked

LEMMA PageCounted ==
    ASSUME NEW page \in FirstPage
    PROVE  FromCounts(Counted(NoMetric, page))
<1>1. page \in Parts /\ NoMetric.parts < MaxParts
  BY PartsNatural DEF FirstPage, Parts, NoMetric
<1> QED
  BY <1>1, NothingIsBacked DEF FromCounts

\* A step of a sync: its snapshot, Core's metric and the keys.
LEMMA MeterSteps ==
    ASSUME Inv, NEW m \in Meters,
           \/ ListPage(m) \/ ListCollections(m) \/ ListPart(m) \/ ListEnds(m)
           \/ AddViews(m) \/ Put(m) \/ Fails(m)
    PROVE  /\ UNCHANGED hh
           /\ place' \in [Meters -> {"idle", "list", "views", "put"}]
           /\ \E s : FromCounts(s) /\ snapshot' = [snapshot EXCEPT ![m] = s]
           /\ metric' \in {metric, snapshot[m]}
           /\ keys' \in {keys, keys \cup {KeyOf(snapshot[m])}}
<1>0. /\ place \in [Meters -> {"idle", "list", "views", "put"}]
      /\ snapshot \in [Meters -> Snapshots]
  BY DEF Inv, TypeOK
<1>1. FromCounts(NoMetric) /\ FromCounts(snapshot[m])
  BY DEF FromCounts
<1>2. CASE ListPage(m)
  BY <1>0, <1>2, PageCounted DEF ListPage, Listing, day
<1>3. CASE ListCollections(m) \/ ListEnds(m)
  BY <1>0, <1>1, <1>3 DEF ListCollections, ListEnds, Listing, day
<1>4. CASE ListPart(m)
  <2>1. PICK page \in Parts : Listing(m, "list", "list", Counted(snapshot[m], page))
    BY <1>4 DEF ListPart
  <2>2. FromCounts(Counted(snapshot[m], page))
    BY <1>0, <1>4 DEF ListPart, FromCounts, Inv, CountsAreBacked
  <2> QED
    BY <1>0, <2>1, <2>2 DEF Listing, day
<1>5. CASE AddViews(m)
  <2>1. snapshot' = [snapshot EXCEPT ![m] = snapshot[m]]
    BY <1>0, <1>5 DEF AddViews
  <2> QED
    BY <1>0, <1>1, <1>5, <2>1 DEF AddViews, day
<1>6. CASE Put(m)
  BY <1>0, <1>1, <1>6 DEF Put, Upsert, End
<1>7. CASE Fails(m)
  BY <1>0, <1>1, <1>7 DEF Fails, End, day
<1> QED
  BY <1>2, <1>3, <1>4, <1>5, <1>6, <1>7

LEMMA KeysFit ==
    ASSUME NEW s \in Snapshots
    PROVE  KeyOf(s) \in [applications : Counts, rejections : Counts]
BY DEF KeyOf, Snapshots

LEMMA MeterKeeps ==
    ASSUME Inv, MetricsNext
    PROVE  Inv'
<1>1. PICK m \in Meters : \/ ListPage(m) \/ ListCollections(m) \/ ListPart(m) \/ ListEnds(m)
                          \/ AddViews(m) \/ Put(m) \/ Fails(m)
  BY DEF MetricsNext
<1>2. PICK s : FromCounts(s) /\ snapshot' = [snapshot EXCEPT ![m] = s]
  BY <1>1, MeterSteps
<1>3. s \in Snapshots /\ Backed(s)
  BY <1>2, FromCountsIsBacked
<1>4. UNCHANGED hh /\ HhTypeOK' /\ HadDeclined' /\ Grows
  BY <1>1, MeterSteps, HhRests DEF Inv, TypeOK
<1>5. snapshot[m] \in Snapshots /\ Backed(snapshot[m]) /\ metric \in Snapshots /\ Backed(metric)
  BY DEF Inv, TypeOK, CountsAreBacked
<1>6. metric' \in Snapshots /\ Backed(metric)'
  <2>1. metric' \in {metric, snapshot[m]}
    BY <1>1, MeterSteps
  <2>2. Within(metric', Cardinality(Applied'), Cardinality(EverDeclined'))
    BY <1>4, <1>5, <2>1, StaysBacked
  <2> QED
    BY <1>5, <2>1, <2>2 DEF Within, Backed
<1>7. snapshot' \in [Meters -> Snapshots]
  BY <1>2, <1>3 DEF Inv, TypeOK
<1>8. ASSUME NEW n \in Meters PROVE Backed(snapshot[n])'
  <2>1. snapshot'[n] \in Snapshots /\ Backed(snapshot'[n])
    BY <1>2, <1>3 DEF Inv, TypeOK, CountsAreBacked
  <2>2. Within(snapshot'[n], Cardinality(Applied'), Cardinality(EverDeclined'))
    BY <1>4, <2>1, StaysBacked
  <2> QED
    BY <2>2 DEF Within, Backed
<1>9. TypeOK'
  <2>1. keys' \subseteq [applications : Counts, rejections : Counts]
    BY <1>1, <1>5, MeterSteps, KeysFit DEF Inv, TypeOK
  <2>2. place' \in [Meters -> {"idle", "list", "views", "put"}]
    BY <1>1, MeterSteps
  <2> QED
    BY <1>4, <1>6, <1>7, <2>1, <2>2 DEF TypeOK
<1> QED
  BY <1>4, <1>6, <1>8, <1>9 DEF Inv, CountsAreBacked

\* HH moves on, or nothing does: what has been counted stays backed.
LEMMA OthersKeep ==
    ASSUME Inv, UNCHANGED <<day, meter>>, HhTypeOK', HadDeclined', Grows
    PROVE  Inv'
<1>1. UNCHANGED <<metric, keys, place, snapshot>>
  BY DEF day, meter
<1>2. TypeOK'
  BY <1>1 DEF Inv, TypeOK
<1>3. Backed(metric)'
  <2>1. Within(metric, Cardinality(Applied'), Cardinality(EverDeclined'))
    BY StaysBacked DEF Inv, TypeOK, CountsAreBacked
  <2> QED
    BY <1>1, <2>1 DEF Within, Backed
<1>4. ASSUME NEW n \in Meters PROVE Backed(snapshot[n])'
  <2>1. Within(snapshot[n], Cardinality(Applied'), Cardinality(EverDeclined'))
    BY StaysBacked DEF Inv, TypeOK, CountsAreBacked
  <2> QED
    BY <1>1, <2>1 DEF Within, Backed
<1> QED
  BY <1>2, <1>3, <1>4 DEF Inv, CountsAreBacked

LEMMA Invariant == Spec => []Inv
<1>1. Init => Inv
  <2> SUFFICES ASSUME Init PROVE Inv
    OBVIOUS
  <2>1. TypeOK
    BY ChangesNatural, NothingIsBacked DEF Init, HhInit, TypeOK, HhTypeOK, States
  <2>2. HadDeclined
    BY DEF Init, HhInit, HadDeclined
  <2>3. CountsAreBacked
    BY NothingIsBacked DEF Init, CountsAreBacked
  <2> QED
    BY <2>1, <2>2, <2>3 DEF Inv
<1>2. Inv /\ [Next]_vars => Inv'
  <2> SUFFICES ASSUME Inv, [Next]_vars PROVE Inv'
    OBVIOUS
  <2>0. HhTypeOK /\ HadDeclined
    BY DEF Inv, TypeOK
  <2>1. CASE MetricsNext
    BY <2>1, MeterKeeps
  <2>2. CASE HhNext /\ UNCHANGED <<day, meter>>
    BY <2>0, <2>2, HhStepGrows, OthersKeep
  <2>3. CASE UNCHANGED vars
    BY <2>0, <2>3, HhRests, OthersKeep DEF vars
  <2> QED
    BY <2>1, <2>2, <2>3 DEF Next
<1> QED
  BY <1>1, <1>2, PTL DEF Spec
-----------------------------------------------------------------------------
(* The theorems.                                                           *)

\* Every variable keeps its type, so that the rejections of a snapshot and of Core's metric
\* are counted among its applications; a listing has no more entries than its parts can
\* hold.  Nothing is said of the moment they were counted at: it may be several.
THEOREM MetricsTypeCorrect == Spec => []TypeOK
<1>1. Inv => TypeOK
  BY DEF Inv
<1> QED
  BY <1>1, Invariant, PTL

\* However many syncs overlap, write late or list in parts while negotiations begin and
\* change: Core's metric, and every snapshot on its way there, counts no negotiation more
\* often than its listing had parts, and as a rejection none that never was one.
THEOREM MetricCountsAreBacked == Spec => []CountsAreBacked
<1>1. Inv => CountsAreBacked
  BY DEF Inv
<1> QED
  BY <1>1, Invariant, PTL
=============================================================================
