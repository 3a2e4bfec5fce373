---------------------------- MODULE Funnel_proofs ----------------------------
(***************************************************************************)
(* What Funnel promises, for any vacancies, plans, limits, numbers of runs  *)
(* and syncs: the reports of limited apply are true, what a sync reports is *)
(* in Core, and Core's applications implement FunnelContract.               *)
(***************************************************************************)
EXTENDS Funnel, FiniteSetTheorems, TLAPS

\* What HH shows is part of what it remembers.
HhInv == HhTypeOK /\ \A v \in Vacancies : state[v] # "absent" => state[v] \in had[v]

\* The items of a run: what is still to be posted, has been posted, or has failed.
Accounted(a) ==
    failed[a] = {} =>
        \A x \in selected[a] : x \in submitted[a] \/ \E i \in 1..Len(todo[a]) : todo[a][i] = x

\* What a run has made and may still make is selected, and within the limit.
Bounded(a) ==
    /\ mine[a] \subseteq selected[a]
    /\ \A i \in 1..Len(todo[a]) : todo[a][i] \in selected[a]
    /\ Cardinality(mine[a]) + Len(todo[a]) <= limit[a]

RunInv(a) ==
    /\ submitted[a] \subseteq mine[a]
    /\ mine[a] \subseteq submitted[a] \cup failed[a]
    /\ mine[a] # {} => a \in attempted
    /\ mine[a] \subseteq Applied
    /\ a \notin running => failed[a] = {} /\ selected[a] = {}
    /\ Accounted(a)
    /\ Bounded(a)

ApplyInv == ApplyTypeOK /\ \A a \in Appliers : RunInv(a)

\* A sync carries states that HH has shown; its item is in hand until it is done with.
SyncerInv(s) ==
    /\ \A v \in Vacancies : items[s][v] \subseteq had[v]
    /\ spc[s] = "application" => item[s] \in vacancies
    /\ synced[s] \subseteq Imported \cap vacancies

SyncInv == SyncTypeOK /\ \A s \in Syncers : SyncerInv(s)

Inv == HhInv /\ ApplyInv /\ SyncInv

\* HH forgets nothing.
Grows == /\ \A v \in Vacancies : had[v] \subseteq had'[v]
         /\ Applied \subseteq Applied'
-----------------------------------------------------------------------------
(* HH.                                                                     *)

LEMMA PostKeeps ==
    ASSUME HhInv, NEW v \in Vacancies, Post(v)
    PROVE  HhInv' /\ Grows /\ v \in Applied'
BY DEF HhInv, HhTypeOK, Post, Enter, Grows, Applied, States, Open

LEMMA ChangeKeeps ==
    ASSUME HhInv, NEW v \in Vacancies, Change(v)
    PROVE  HhInv' /\ Grows
BY ChangesNatural DEF HhInv, HhTypeOK, Change, Enter, Grows, Applied, States, Open

LEMMA HhRests ==
    ASSUME HhInv, UNCHANGED hh
    PROVE  HhInv' /\ Grows
BY DEF HhInv, HhTypeOK, Grows, Applied, hh

-----------------------------------------------------------------------------
(* Limited apply.                                                          *)

\* The first items of a plan are items, as many as the limit at most.
LEMMA SelectedItems ==
    ASSUME NEW plan \in Seq(Items), NEW n \in Nat
    PROVE  /\ Selected(plan, n) \in Seq(Items)
           /\ Len(Selected(plan, n)) <= n
BY DEF Selected

LEMMA ClampedIsPositive == \A n \in Int : Clamped(n) \in Nat \ {0}
BY DEF Clamped

\* The items of a sequence are its head and those of its tail.
LEMMA HeadOrTail ==
    ASSUME NEW q \in Seq(Items), q # <<>>
    PROVE  /\ Head(q) \in Items
           /\ Tail(q) \in Seq(Items)
           /\ \A i \in 1..Len(q) : q[i] = Head(q) \/ \E j \in 1..Len(Tail(q)) : Tail(q)[j] = q[i]
<1>1. Head(q) = q[1] /\ Len(q) \in Nat /\ Len(q) > 0 /\ q[1] \in Items
  OBVIOUS
<1>2. Tail(q) \in Seq(Items) /\ Len(Tail(q)) = Len(q) - 1
  OBVIOUS
<1>3. \A i \in 2..Len(q) : i - 1 \in 1..Len(Tail(q)) /\ Tail(q)[i - 1] = q[i]
  BY <1>1, <1>2
<1> QED
  BY <1>1, <1>2, <1>3

LEMMA TailShifts ==
    ASSUME NEW q \in Seq(Items), q # <<>>
    PROVE  /\ Len(q) \in Nat \ {0} /\ Len(Tail(q)) = Len(q) - 1
           /\ Head(q) = q[1]
           /\ \A j \in 1..Len(Tail(q)) : Tail(q)[j] = q[j + 1]
<1>1. Len(q) \in Nat /\ Len(q) > 0 /\ Head(q) = q[1] /\ Len(Tail(q)) = Len(q) - 1
  OBVIOUS
<1>2. ASSUME NEW j \in 1..Len(Tail(q)) PROVE Tail(q)[j] = q[j + 1]
  BY <1>1
<1> QED
  BY <1>1, <1>2

\* A negotiation more counts once.
LEMMA OneMore ==
    ASSUME NEW S \in SUBSET Vacancies, NEW v
    PROVE  /\ Cardinality(S) \in Nat
           /\ Cardinality(S \cup {v}) <= Cardinality(S) + 1
<1>1. IsFiniteSet(S)
  BY VacanciesFinite, FS_Subset
<1>2. Cardinality(S) \in Nat
  BY <1>1, FS_CardinalityType
<1>3. CASE v \in S
  <2>1. S \cup {v} = S
    BY <1>3
  <2>2. Cardinality(S) <= Cardinality(S) + 1
    BY <1>2
  <2>3. Cardinality(S \cup {v}) = Cardinality(S)
    BY <2>1
  <2> QED
    BY <1>2, <2>2, <2>3
<1>4. CASE v \notin S
  <2>1. Cardinality(S \cup {v}) = Cardinality(S) + 1
    BY <1>1, <1>4, FS_AddElement
  <2> QED
    BY <1>2, <2>1
<1> QED
  BY <1>3, <1>4

\* An item is taken from those to be posted, and at most a negotiation about it is made.
LEMMA ItemTaken ==
    ASSUME ApplyInv, ApplyTypeOK', NEW a \in Appliers, Working(a),
           todo'[a] = Tail(todo[a]) \/ todo'[a] = <<>>,
           mine'[a] = mine[a] \/ mine'[a] = mine[a] \cup {Head(todo[a])},
           selected'[a] = selected[a], limit'[a] = limit[a]
    PROVE  Bounded(a)'
<1>1. /\ todo[a] \in Seq(Items) /\ todo[a] # <<>> /\ Bounded(a) /\ limit[a] \in Nat
      /\ mine[a] \in SUBSET Vacancies
  BY DEF ApplyInv, ApplyTypeOK, RunInv, Working
<1>2. /\ Head(todo[a]) \in selected[a]
      /\ \A j \in 1..Len(Tail(todo[a])) : Tail(todo[a])[j] \in selected[a]
      /\ Len(Tail(todo[a])) = Len(todo[a]) - 1 /\ Len(todo[a]) \in Nat \ {0}
  <2>1. Len(todo[a]) \in Nat \ {0} /\ Len(Tail(todo[a])) = Len(todo[a]) - 1
    BY <1>1, TailShifts
  <2>2. 1 \in 1..Len(todo[a])
        /\ \A j \in 1..Len(Tail(todo[a])) : j + 1 \in 1..Len(todo[a])
    BY <2>1
  <2>3. todo[a][1] = Head(todo[a])
        /\ \A j \in 1..Len(Tail(todo[a])) : Tail(todo[a])[j] = todo[a][j + 1]
    BY <1>1, TailShifts
  <2> QED
    BY <1>1, <2>1, <2>2, <2>3 DEF Bounded
<1>3. mine'[a] \subseteq selected'[a]
  BY <1>1, <1>2 DEF Bounded
<1>4. \A i \in 1..Len(todo'[a]) : todo'[a][i] \in selected'[a]
  <2>1. CASE todo'[a] = Tail(todo[a])
    BY <1>2, <2>1
  <2>2. CASE todo'[a] = <<>>
    <3>1. Len(todo'[a]) = 0
      BY <2>2
    <3> QED
      BY <3>1
  <2> QED
    BY <2>1, <2>2
<1>5. Cardinality(mine'[a]) + Len(todo'[a]) <= limit'[a]
  <2>1. /\ Cardinality(mine[a]) \in Nat /\ Cardinality(mine'[a]) \in Nat
        /\ Cardinality(mine'[a]) <= Cardinality(mine[a]) + 1
    <3>1. /\ Cardinality(mine[a]) \in Nat
          /\ Cardinality(mine[a] \cup {Head(todo[a])}) <= Cardinality(mine[a]) + 1
      BY <1>1, OneMore
    <3>2. mine'[a] \in SUBSET Vacancies
      BY DEF ApplyTypeOK
    <3>3. Cardinality(mine'[a]) \in Nat
      BY <3>2, OneMore
    <3>4. CASE mine'[a] = mine[a]
      BY <3>1, <3>4
    <3>5. CASE mine'[a] = mine[a] \cup {Head(todo[a])}
      BY <3>1, <3>3, <3>5
    <3> QED
      BY <3>4, <3>5
  <2>2. Len(todo'[a]) <= Len(todo[a]) - 1 /\ Len(todo'[a]) \in Nat
    <3>1. CASE todo'[a] = Tail(todo[a])
      BY <1>2, <3>1
    <3>2. CASE todo'[a] = <<>>
      <4>1. Len(todo'[a]) = 0
        BY <3>2
      <4> QED
        BY <1>2, <4>1
    <3> QED
      BY <3>1, <3>2
  <2>3. Cardinality(mine[a]) + Len(todo[a]) <= limit[a]
    BY <1>1 DEF Bounded
  <2> QED
    BY <1>1, <1>2, <2>1, <2>2, <2>3
<1> QED
  BY <1>3, <1>4, <1>5 DEF Bounded

LEMMA StartKeeps ==
    ASSUME ApplyInv, NEW a \in Appliers, Start(a)
    PROVE  ApplyInv'
<1>1. PICK plan \in Plans, asked \in Limits :
         LET chosen == Selected(plan, Clamped(asked))
         IN  /\ limit' = [limit EXCEPT ![a] = Clamped(asked)]
             /\ todo' = [todo EXCEPT ![a] = chosen]
             /\ selected' = [selected EXCEPT ![a] = {chosen[i] : i \in 1..Len(chosen)}]
  BY DEF Start
<1> DEFINE n == Clamped(asked)
           chosen == Selected(plan, n)
<1>2. chosen \in Seq(Items) /\ n \in Nat /\ Len(chosen) <= n
  BY SelectedItems, ClampedIsPositive, PlansOfItems, LimitsInt DEF Items
<1>3. {chosen[i] : i \in 1..Len(chosen)} \subseteq Items
  BY <1>2
<1>a. /\ limit' = [limit EXCEPT ![a] = n]
      /\ todo' = [todo EXCEPT ![a] = chosen]
      /\ selected' = [selected EXCEPT ![a] = {chosen[i] : i \in 1..Len(chosen)}]
  BY <1>1
<1> HIDE DEF chosen, n
<1>4. ApplyTypeOK'
  BY <1>a, <1>2, <1>3 DEF ApplyInv, ApplyTypeOK, Start, report
<1>5. ASSUME NEW b \in Appliers PROVE RunInv(b)'
  <2>1. RunInv(b)
    BY DEF ApplyInv
  <2>2. Applied' = Applied
    BY DEF Start, hh, Applied
  <2>3. CASE b = a
    <3>1. selected'[a] = {chosen[i] : i \in 1..Len(chosen)} /\ todo'[a] = chosen
      BY <1>a DEF ApplyInv, ApplyTypeOK
    <3>2. Accounted(a)'
      BY <3>1 DEF Accounted
    <3>3. Bounded(a)'
      <4>1. mine'[a] = {}
        BY <2>1, <2>3 DEF RunInv, Start, ApplyInv, ApplyTypeOK
      <4>2. Cardinality({}) = 0 /\ limit'[a] = n
        BY <1>a, FS_EmptySet DEF ApplyInv, ApplyTypeOK
      <4>3. Len(chosen) \in Nat
        BY <1>2
      <4> QED
        BY <1>2, <3>1, <4>1, <4>2, <4>3 DEF Bounded
    <3> QED
      BY <2>1, <2>2, <2>3, <3>2, <3>3 DEF RunInv, Start, report
  <2>4. CASE b # a
    BY <2>1, <2>2, <2>4, <1>a
       DEF RunInv, Accounted, Bounded, Start, report, ApplyInv, ApplyTypeOK
  <2> QED
    BY <2>3, <2>4
<1> QED
  BY <1>4, <1>5 DEF ApplyInv

\* An item is posted or fails: whatever else happens, the run accounts for it.
LEMMA ItemDone ==
    ASSUME ApplyInv, NEW a \in Appliers, Working(a),
           NEW done, NEW lost,
           done = submitted'[a], lost = failed'[a],
           todo'[a] = Tail(todo[a]),
           submitted[a] \subseteq done, failed[a] \subseteq lost,
           Head(todo[a]) \in done \cup lost,
           selected'[a] = selected[a]
    PROVE  Accounted(a)'
<1>1. todo[a] \in Seq(Items) /\ todo[a] # <<>> /\ Accounted(a)
  BY DEF ApplyInv, ApplyTypeOK, RunInv, Working
<1>2. ASSUME lost = {}, NEW x \in selected[a]
      PROVE  x \in done \/ \E j \in 1..Len(Tail(todo[a])) : Tail(todo[a])[j] = x
  <2>1. x \in submitted[a] \/ \E i \in 1..Len(todo[a]) : todo[a][i] = x
    BY <1>1, <1>2 DEF Accounted
  <2>2. Head(todo[a]) \in done
    BY <1>2
  <2> QED
    BY <2>1, <2>2, <1>1, HeadOrTail
<1> QED
  BY <1>2 DEF Accounted

LEMMA SubmitKeeps ==
    ASSUME HhInv, ApplyInv, NEW a \in Appliers, Submit(a)
    PROVE  HhInv' /\ Grows /\ ApplyInv'
<1> DEFINE v == Head(todo[a])
<1>1. todo[a] \in Seq(Items) /\ todo[a] # <<>> /\ Tail(todo[a]) \in Seq(Items)
  BY HeadOrTail DEF ApplyInv, ApplyTypeOK, Submit, Working
<1>2. v \in Vacancies /\ Post(v)
  BY DEF Submit
<1>3. HhInv' /\ Grows /\ v \in Applied'
  BY <1>2, PostKeeps
<1>4. /\ submitted' = [submitted EXCEPT ![a] = @ \cup {v}]
      /\ mine' = [mine EXCEPT ![a] = @ \cup {v}]
      /\ todo' = [todo EXCEPT ![a] = Tail(@)]
      /\ attempted' = attempted \cup {a}
      /\ a \in running
      /\ UNCHANGED <<running, selected, limit, failed, execution>>
  BY <1>2 DEF Submit, Attempt, Working
<1> HIDE DEF v
<1>5. ApplyTypeOK'
  BY <1>1, <1>2, <1>4 DEF ApplyInv, ApplyTypeOK
<1>6. ASSUME NEW b \in Appliers PROVE RunInv(b)'
  <2>1. RunInv(b) /\ ApplyTypeOK
    BY DEF ApplyInv
  <2>2. CASE b = a
    <3>1. Accounted(a)'
      BY <1>4, ItemDone, <2>1 DEF Submit, v, ApplyTypeOK
    <3>2. Bounded(a)'
      BY <1>4, <1>5, ItemTaken, <2>1 DEF Submit, v, ApplyTypeOK
    <3> QED
      BY <1>2, <1>3, <1>4, <2>1, <2>2, <3>1, <3>2 DEF RunInv, ApplyTypeOK, Grows
  <2>3. CASE b # a
    BY <1>3, <1>4, <2>1, <2>3 DEF RunInv, ApplyTypeOK, Grows, Accounted, Bounded
  <2> QED
    BY <2>2, <2>3
<1> QED
  BY <1>3, <1>5, <1>6 DEF ApplyInv

\* A failed item: what HH did with it is in mine, or nothing happened there.
LEMMA FailKeeps ==
    ASSUME ApplyInv, NEW a \in Appliers, Working(a),
           NEW ending \in {"failed", "stopped_captcha"}, Fail(a, ending),
           Applied \subseteq Applied',
           \/ mine' = mine
           \/ /\ Head(todo[a]) \in Vacancies \cap Applied'
              /\ mine' = [mine EXCEPT ![a] = @ \cup {Head(todo[a])}]
    PROVE  ApplyInv'
<1> DEFINE x == Head(todo[a])
<1>1. todo[a] \in Seq(Items) /\ todo[a] # <<>> /\ x \in Items /\ Tail(todo[a]) \in Seq(Items)
  BY HeadOrTail DEF ApplyInv, ApplyTypeOK, Working
<1>2. /\ failed' = [failed EXCEPT ![a] = @ \cup {x}]
      /\ execution' = [execution EXCEPT ![a] = ending]
      /\ todo' = [todo EXCEPT ![a] = IF ending = "stopped_captcha" THEN <<>> ELSE Tail(@)]
      /\ attempted \subseteq attempted' /\ attempted' \subseteq attempted \cup {a}
      /\ x \in Vacancies => a \in attempted'
      /\ a \in running
      /\ UNCHANGED <<running, selected, limit, submitted>>
  BY DEF Fail, Attempt, Working
<1>3. mine' = mine \/ (x \in Vacancies \cap Applied' /\ mine' = [mine EXCEPT ![a] = @ \cup {x}])
  OBVIOUS
<1> HIDE DEF x
<1>4. todo'[a] \in Seq(Items) /\ todo' = [todo EXCEPT ![a] = todo'[a]]
  BY <1>1, <1>2 DEF ApplyInv, ApplyTypeOK
<1>5. ApplyTypeOK'
  <2>1. mine' \in [Appliers -> SUBSET Vacancies]
    <3>1. mine \in [Appliers -> SUBSET Vacancies]
      BY DEF ApplyInv, ApplyTypeOK
    <3>2. CASE x \in Vacancies /\ mine' = [mine EXCEPT ![a] = @ \cup {x}]
      BY <3>1, <3>2
    <3> QED
      BY <1>3, <3>1, <3>2
  <2> QED
    BY <1>1, <1>2, <1>4, <2>1 DEF ApplyInv, ApplyTypeOK
<1>6. ASSUME NEW b \in Appliers PROVE RunInv(b)'
  <2>1. RunInv(b) /\ ApplyTypeOK
    BY DEF ApplyInv
  <2>2. CASE b = a
    <3>1. failed'[a] = failed[a] \cup {x} /\ submitted'[a] = submitted[a]
      BY <1>2, <2>1 DEF ApplyTypeOK
    <3>2. mine'[a] = mine[a] \/ (x \in Vacancies \cap Applied' /\ mine'[a] = mine[a] \cup {x})
      BY <1>3, <2>1 DEF ApplyTypeOK
    <3>3. Accounted(a)'
      BY <3>1 DEF Accounted
    <3>4. Bounded(a)'
      <4>1. todo'[a] = Tail(todo[a]) \/ todo'[a] = <<>>
        BY <1>2, <2>1 DEF ApplyTypeOK
      <4>2. mine'[a] = mine[a] \/ mine'[a] = mine[a] \cup {Head(todo[a])}
        BY <3>2 DEF x
      <4> QED
        BY <1>2, <1>5, <4>1, <4>2, ItemTaken
    <3> QED
      BY <1>2, <2>1, <2>2, <3>1, <3>2, <3>3, <3>4 DEF RunInv
  <2>3. CASE b # a
    BY <1>2, <1>3, <2>1, <2>3 DEF RunInv, ApplyTypeOK, Accounted, Bounded
  <2> QED
    BY <2>2, <2>3
<1> QED
  BY <1>5, <1>6 DEF ApplyInv

LEMMA SubmitLostKeeps ==
    ASSUME HhInv, ApplyInv, NEW a \in Appliers, SubmitLost(a)
    PROVE  HhInv' /\ Grows /\ ApplyInv'
<1>1. Head(todo[a]) \in Vacancies /\ Post(Head(todo[a]))
  BY DEF SubmitLost
<1>2. HhInv' /\ Grows /\ Head(todo[a]) \in Applied'
  BY <1>1, PostKeeps
<1> QED
  BY <1>1, <1>2, FailKeeps DEF SubmitLost, Grows

LEMMA SubmitFailsKeeps ==
    ASSUME HhInv, ApplyInv, NEW a \in Appliers, SubmitFails(a)
    PROVE  HhInv' /\ Grows /\ ApplyInv'
<1>1. HhInv' /\ Grows
  BY HhRests DEF SubmitFails
<1> QED
  BY <1>1, FailKeeps DEF SubmitFails, Grows

\* A run that is over leaves nothing.
LEMMA ResetKeeps ==
    ASSUME ApplyInv, NEW a \in Appliers, Reset(a), running' = running \ {a},
           Applied \subseteq Applied'
    PROVE  ApplyInv'
<1>1. ApplyTypeOK'
  BY DEF ApplyInv, ApplyTypeOK, Reset
<1>2. ASSUME NEW b \in Appliers PROVE RunInv(b)'
  <2>1. RunInv(b) /\ ApplyTypeOK
    BY DEF ApplyInv
  <2>2. CASE b = a
    <3>1. Cardinality({}) = 0 /\ Len(<<>>) = 0
      BY FS_EmptySet
    <3>2. Bounded(a)'
      BY <2>1, <3>1 DEF Bounded, Reset, ApplyTypeOK
    <3> QED
      BY <2>1, <2>2, <3>2 DEF RunInv, Reset, ApplyTypeOK, Accounted
  <2>3. CASE b # a
    BY <2>1, <2>3 DEF RunInv, Reset, ApplyTypeOK, Accounted, Bounded
  <2> QED
    BY <2>2, <2>3
<1> QED
  BY <1>1, <1>2 DEF ApplyInv

LEMMA ApplyKeeps ==
    ASSUME HhInv, ApplyInv, ApplyNext
    PROVE  HhInv' /\ Grows /\ ApplyInv'
<1>1. PICK a \in Appliers : \/ Start(a) \/ Submit(a) \/ SubmitLost(a) \/ SubmitFails(a)
                            \/ Finish(a) \/ Die(a)
  BY DEF ApplyNext
<1>2. CASE Start(a)
  BY <1>2, StartKeeps, HhRests DEF Start
<1>3. CASE Finish(a)
  BY <1>3, ResetKeeps, HhRests DEF Finish, Grows
<1>4. CASE Die(a)
  <2>1. HhInv' /\ Grows
    BY <1>4, PostKeeps, HhRests DEF Die
  <2> QED
    BY <1>4, <2>1, ResetKeeps DEF Die, Grows
<1> QED
  BY <1>1, <1>2, <1>3, <1>4, SubmitKeeps, SubmitLostKeeps, SubmitFailsKeeps

\* A run is not disturbed by what else happens.
LEMMA ApplyRests ==
    ASSUME ApplyInv, UNCHANGED apply, Grows
    PROVE  ApplyInv'
<1>1. ApplyTypeOK'
  BY DEF ApplyInv, ApplyTypeOK, apply, report
<1>2. ASSUME NEW a \in Appliers PROVE RunInv(a)'
  BY DEF ApplyInv, RunInv, Accounted, Bounded, apply, report, Grows
<1> QED
  BY <1>1, <1>2 DEF ApplyInv
-----------------------------------------------------------------------------
(* Application sync.                                                       *)

\* What the sync s keeps, from what a step does to its own state, Core and HH.
LEMMA SyncerKept ==
    ASSUME SyncInv, Grows, NEW s \in Syncers,
           vacancies \subseteq vacancies', Imported \subseteq Imported',
           spc'[s] = spc[s], items'[s] = items[s], item'[s] = item[s], synced'[s] = synced[s]
    PROVE  SyncerInv(s)'
<1>1. SyncerInv(s)
  BY DEF SyncInv
<1> QED
  BY <1>1 DEF SyncerInv, Grows

\* Core only gains.
CoreGrows == vacancies \subseteq vacancies' /\ Imported \subseteq Imported'

\* Storing the item at hand.
LEMMA StoreStores ==
    ASSUME SyncInv, NEW s \in Syncers, spc[s] = "application",
           NEW t \in items[s][item[s]], Store(item[s], t)
    PROVE  /\ applications' \in [Vacancies -> States]
           /\ Imported \subseteq Imported'
           /\ item[s] \in Imported' \cap vacancies
<1>1. item[s] \in Vacancies /\ item[s] \in vacancies
  BY DEF SyncInv, SyncTypeOK, SyncerInv
<1>2. t \in States /\ t # "absent"
  BY <1>1 DEF SyncInv, SyncTypeOK, States, Open
<1>3. applications \in [Vacancies -> States]
  BY DEF SyncInv, SyncTypeOK
<1> QED
  BY <1>1, <1>2, <1>3 DEF Store, Imported

\* A step of s alone.
LEMMA OthersKept ==
    ASSUME SyncInv, Grows, CoreGrows, NEW s \in Syncers, SyncTypeOK',
           \A r \in Syncers \ {s} : /\ spc'[r] = spc[r] /\ items'[r] = items[r]
                                    /\ item'[r] = item[r] /\ synced'[r] = synced[r],
           SyncerInv(s)'
    PROVE  SyncInv'
<1>1. ASSUME NEW r \in Syncers, r # s PROVE SyncerInv(r)'
  BY <1>1, SyncerKept DEF CoreGrows
<1> QED
  BY <1>1 DEF SyncInv

\* What a page shows is what HH has it in.
LEMMA ItemsAreHad ==
    ASSUME HhInv, NEW page \in Parts
    PROVE  /\ ItemsOf(page) \in [Vacancies -> SUBSET Open]
           /\ \A v \in Vacancies : ItemsOf(page)[v] \subseteq had[v]
<1>1. \A v \in page : v \in Vacancies /\ state[v] \in Open /\ state[v] \in had[v]
  BY DEF Parts, Applied, HhInv, HhTypeOK, States
<1> QED
  BY <1>1 DEF ItemsOf

\* A listing goes on with items in states that HH has had them in.
LEMMA ListingKeeps ==
    ASSUME HhInv, SyncInv, UNCHANGED hh, NEW s \in Syncers,
           NEW from \in {"idle", "list"}, NEW where \in {"list", "next"},
           NEW listed \in [Vacancies -> SUBSET Open], Listing(s, from, where, listed),
           \A v \in Vacancies : listed[v] \subseteq had[v]
    PROVE  SyncInv'
<1>1. Grows /\ CoreGrows
  BY HhRests DEF Listing, core, CoreGrows, Imported
<1>2. item[s] \notin Vacancies
  BY DEF Listing, SyncInv, SyncTypeOK
<1>3. SyncTypeOK'
  BY <1>2 DEF Listing, SyncInv, SyncTypeOK, core
<1>4. items'[s] = listed /\ spc'[s] = where
  BY DEF Listing, SyncInv, SyncTypeOK
<1>5. SyncerInv(s)'
  BY <1>4 DEF SyncerInv, Listing, SyncInv, SyncTypeOK, core, Imported, hh
<1> QED
  BY <1>1, <1>3, <1>5, OthersKept DEF Listing, SyncInv, SyncTypeOK

LEMMA ListKeeps ==
    ASSUME HhInv, SyncInv, NEW s \in Syncers, List(s), UNCHANGED hh
    PROVE  SyncInv'
<1>0. /\ items[s] \in [Vacancies -> SUBSET Open]
      /\ \A v \in Vacancies : items[s][v] \subseteq had[v]
  BY DEF SyncInv, SyncTypeOK, SyncerInv
<1>1. CASE ListPage(s)
  <2>1. PICK page \in FirstPage : Listing(s, "idle", "next", ItemsOf(page))
    BY <1>1 DEF ListPage
  <2>2. page \in Parts
    BY DEF FirstPage, Parts
  <2> QED
    BY <2>1, <2>2, ItemsAreHad, ListingKeeps
<1>2. CASE ListCollections(s)
  <2>1. NoItems \in [Vacancies -> SUBSET Open] /\ \A v \in Vacancies : NoItems[v] \subseteq had[v]
    BY DEF NoItems
  <2> QED
    BY <1>2, <2>1, ListingKeeps DEF ListCollections
<1>3. CASE ListPart(s)
  <2>1. PICK page \in Parts :
           Listing(s, "list", "list", [v \in Vacancies |-> items[s][v] \cup ItemsOf(page)[v]])
    BY <1>3 DEF ListPart
  <2> DEFINE listed == [v \in Vacancies |-> items[s][v] \cup ItemsOf(page)[v]]
  <2>2. /\ listed \in [Vacancies -> SUBSET Open]
        /\ \A v \in Vacancies : listed[v] \subseteq had[v]
    BY <1>0, ItemsAreHad
  <2> HIDE DEF listed
  <2>3. Listing(s, "list", "list", listed)
    BY <2>1 DEF listed
  <2> QED
    BY <2>2, <2>3, ListingKeeps
<1>4. CASE ListEnds(s)
  BY <1>0, <1>4, ListingKeeps DEF ListEnds
<1> QED
  BY <1>1, <1>2, <1>3, <1>4 DEF List

\* An item that is an error.
LEMMA SkipKeeps ==
    ASSUME SyncInv, Grows, CoreGrows, vacancies' \subseteq Vacancies,
           applications' \in [Vacancies -> States],
           NEW s \in Syncers, NEW v \in Vacancies, NEW t, Skip(s, v, t)
    PROVE  SyncInv'
<1>1. SyncTypeOK'
  BY NoVacancyIsNone DEF Skip, SyncInv, SyncTypeOK
<1>2. items'[s] = [items[s] EXCEPT ![v] = @ \ {t}]
  BY DEF Skip, SyncInv, SyncTypeOK
<1>3. \A w \in Vacancies : items'[s][w] \subseteq items[s][w]
  BY <1>2 DEF SyncInv, SyncTypeOK
<1>4. SyncerInv(s)'
  BY <1>3, NoVacancyIsNone DEF SyncerInv, Skip, SyncInv, SyncTypeOK, Grows, CoreGrows
<1> QED
  BY <1>1, <1>4, OthersKept DEF Skip, SyncInv, SyncTypeOK

LEMMA ResolveKeeps ==
    ASSUME HhInv, SyncInv, NEW s \in Syncers, Resolve(s), UNCHANGED hh
    PROVE  SyncInv'
<1>1. Grows /\ CoreGrows
  BY HhRests DEF Resolve, core, CoreGrows, Imported
<1>2. PICK v \in Left(s) :
         \/ /\ v \in vacancies \cup Embedded
            /\ item' = [item EXCEPT ![s] = v]
            /\ spc' = [spc EXCEPT ![s] = IF v \in vacancies THEN "application" ELSE "vacancy"]
            /\ UNCHANGED <<items, synced>>
         \/ \E t \in items[s][v] : Skip(s, v, t)
  BY DEF Resolve
<1>3. v \in Vacancies
  BY DEF Left
<1>4. CASE \E t \in items[s][v] : Skip(s, v, t)
  BY <1>1, <1>3, <1>4, SkipKeeps DEF Resolve, core, SyncInv, SyncTypeOK
<1>5. CASE ~\E t \in items[s][v] : Skip(s, v, t)
  <2>1. SyncTypeOK'
    BY <1>2, <1>3, <1>5 DEF Resolve, core, SyncInv, SyncTypeOK
  <2>2. SyncerInv(s)'
    BY <1>2, <1>3, <1>5, <1>1
       DEF SyncerInv, SyncInv, SyncTypeOK, Grows, CoreGrows, Resolve, core
  <2> QED
    BY <1>1, <1>2, <1>5, <2>1, <2>2, OthersKept DEF SyncInv, SyncTypeOK
<1> QED
  BY <1>4, <1>5

LEMMA CreateVacancyKeeps ==
    ASSUME HhInv, SyncInv, NEW s \in Syncers, CreateVacancy(s), UNCHANGED hh
    PROVE  SyncInv'
<1>1. item[s] \in Vacancies /\ SyncerInv(s)
  BY DEF SyncInv, SyncTypeOK, CreateVacancy
<1>2. /\ Grows /\ CoreGrows
      /\ vacancies' \subseteq Vacancies /\ applications' \in [Vacancies -> States]
  BY <1>1, HhRests DEF CreateVacancy, CoreGrows, Imported, SyncInv, SyncTypeOK
<1>3. CASE \E t \in items[s][item[s]] : Skip(s, item[s], t)
  BY <1>1, <1>2, <1>3, SkipKeeps
<1>4. CASE ~\E t \in items[s][item[s]] : Skip(s, item[s], t)
  <2>1. /\ vacancies' = vacancies \cup {item[s]}
        /\ spc' = [spc EXCEPT ![s] = "application"]
        /\ UNCHANGED <<items, item, synced>>
    BY <1>4 DEF CreateVacancy
  <2>2. SyncTypeOK'
    BY <1>1, <1>2, <2>1 DEF SyncInv, SyncTypeOK
  <2>3. SyncerInv(s)'
    BY <1>1, <1>2, <2>1 DEF SyncerInv, SyncInv, SyncTypeOK, Grows, CoreGrows
  <2> QED
    BY <1>2, <2>1, <2>2, <2>3, OthersKept DEF SyncInv, SyncTypeOK
<1> QED
  BY <1>3, <1>4

LEMMA CreateApplicationKeeps ==
    ASSUME HhInv, SyncInv, NEW s \in Syncers, CreateApplication(s), UNCHANGED hh
    PROVE  SyncInv'
<1>1. item[s] \in Vacancies /\ SyncerInv(s) /\ spc[s] = "application"
  BY DEF SyncInv, SyncTypeOK, CreateApplication
<1>2. Grows /\ vacancies' = vacancies /\ vacancies \subseteq Vacancies
  BY HhRests DEF CreateApplication, SyncInv, SyncTypeOK
<1>a. PICK t \in items[s][item[s]] :
         \/ /\ Store(item[s], t)
            /\ synced' = [synced EXCEPT ![s] = @ \cup {item[s]}]
            /\ items' = [items EXCEPT ![s][item[s]] = @ \ {t}]
            /\ item' = [item EXCEPT ![s] = NoVacancy]
            /\ spc' = [spc EXCEPT ![s] = "next"]
         \/ Store(item[s], t) /\ Skip(s, item[s], t)
         \/ UNCHANGED applications /\ Skip(s, item[s], t)
  BY DEF CreateApplication
<1>3. CASE UNCHANGED applications /\ Skip(s, item[s], t)
  BY <1>1, <1>2, <1>3, SkipKeeps DEF CoreGrows, Imported, SyncInv, SyncTypeOK
<1>4. CASE Store(item[s], t) /\ Skip(s, item[s], t)
  BY <1>1, <1>2, <1>4, SkipKeeps, StoreStores DEF CoreGrows
<1>5. CASE /\ Store(item[s], t)
           /\ synced' = [synced EXCEPT ![s] = @ \cup {item[s]}]
           /\ items' = [items EXCEPT ![s][item[s]] = @ \ {t}]
           /\ item' = [item EXCEPT ![s] = NoVacancy]
           /\ spc' = [spc EXCEPT ![s] = "next"]
  <2>1. /\ applications' \in [Vacancies -> States]
        /\ CoreGrows
        /\ item[s] \in Imported' \cap vacancies'
    BY <1>1, <1>2, <1>5, StoreStores DEF CoreGrows
  <2>2. SyncTypeOK'
    BY <1>1, <1>2, <1>5, <2>1, NoVacancyIsNone DEF SyncInv, SyncTypeOK, States
  <2>3. items'[s] = [items[s] EXCEPT ![item[s]] = @ \ {t}]
    BY <1>5 DEF SyncInv, SyncTypeOK
  <2>4. \A w \in Vacancies : items'[s][w] \subseteq items[s][w]
    BY <2>3 DEF SyncInv, SyncTypeOK
  <2>5. SyncerInv(s)'
    BY <1>1, <1>5, <2>1, <2>4, <1>2, NoVacancyIsNone
       DEF SyncerInv, SyncInv, SyncTypeOK, Grows, CoreGrows
  <2> QED
    BY <1>2, <1>5, <2>1, <2>2, <2>5, OthersKept DEF SyncInv, SyncTypeOK
<1> QED
  BY <1>a, <1>3, <1>4, <1>5

LEMMA EndSyncKeeps ==
    ASSUME HhInv, SyncInv, NEW s \in Syncers, EndSync(s), UNCHANGED hh
    PROVE  SyncInv'
<1>1. Grows /\ CoreGrows
  BY HhRests DEF EndSync, core, CoreGrows, Imported
<1>2. SyncTypeOK'
  BY NoVacancyIsNone DEF EndSync, SyncInv, SyncTypeOK, core, NoItems
<1>3. SyncerInv(s)'
  BY NoVacancyIsNone DEF EndSync, SyncInv, SyncTypeOK, SyncerInv, NoItems
<1> QED
  BY <1>1, <1>2, <1>3, OthersKept DEF EndSync, SyncInv, SyncTypeOK

\* A sync is not disturbed by what else happens.
LEMMA SyncRests ==
    ASSUME SyncInv, Grows, UNCHANGED sync, CoreGrows, vacancies' \subseteq Vacancies,
           UNCHANGED applications
    PROVE  SyncInv'
<1>1. SyncTypeOK'
  BY DEF SyncInv, SyncTypeOK, sync
<1>2. \A s \in Syncers : SyncerInv(s)'
  BY SyncerKept DEF CoreGrows, sync
<1> QED
  BY <1>1, <1>2 DEF SyncInv

LEMMA SyncKeeps ==
    ASSUME HhInv, SyncInv, SyncNext
    PROVE  HhInv' /\ Grows /\ SyncInv'
<1>1. UNCHANGED hh
  BY DEF SyncNext, SyncApplications, Ingest
<1>2. HhInv' /\ Grows
  BY <1>1, HhRests
<1>3. ASSUME NEW s \in Syncers, SyncApplications(s) PROVE SyncInv'
  BY <1>1, <1>3, ListKeeps, ResolveKeeps, CreateVacancyKeeps, CreateApplicationKeeps,
     EndSyncKeeps DEF SyncApplications
<1>4. ASSUME NEW v \in Vacancies, Ingest(v) PROVE SyncInv'
  BY <1>2, <1>4, SyncRests DEF Ingest, CoreGrows, Imported, SyncInv, SyncTypeOK
<1> QED
  BY <1>2, <1>3, <1>4 DEF SyncNext
-----------------------------------------------------------------------------
(* The theorems.                                                           *)

LEMMA Initially ==
    ASSUME Init
    PROVE  Inv
<1>1. HhInv
  BY ChangesNatural DEF Init, HhInit, HhInv, HhTypeOK, States
<1>2. ApplyInv
  <2>1. Cardinality({}) = 0 /\ Len(<<>>) = 0
    BY FS_EmptySet
  <2>2. ApplyTypeOK
    BY DEF Init, ApplyInit, ApplyTypeOK
  <2>3. ASSUME NEW a \in Appliers PROVE RunInv(a)
    <3>1. /\ submitted[a] = {} /\ mine[a] = {} /\ failed[a] = {} /\ selected[a] = {}
          /\ todo[a] = <<>> /\ limit[a] = 0
      BY DEF Init, ApplyInit
    <3> QED
      BY <2>1, <3>1 DEF RunInv, Accounted, Bounded
  <2> QED
    BY <2>2, <2>3 DEF ApplyInv
<1>3. SyncInv
  BY NoVacancyIsNone
     DEF Init, SyncInit, SyncInv, SyncTypeOK, SyncerInv, NoItems, States
<1> QED
  BY <1>1, <1>2, <1>3 DEF Inv

LEMMA StepKeeps ==
    ASSUME Inv, [Next]_funnel
    PROVE  Inv'
<1>1. HhInv /\ ApplyInv /\ SyncInv
  BY DEF Inv
<1>2. vacancies \subseteq Vacancies
  BY <1>1 DEF SyncInv, SyncTypeOK
<1>3. CASE ApplyNext /\ UNCHANGED <<core, sync>>
  BY <1>1, <1>2, <1>3, ApplyKeeps, SyncRests DEF core, CoreGrows, Imported, Inv
<1>4. CASE SyncNext /\ UNCHANGED apply
  BY <1>1, <1>4, SyncKeeps, ApplyRests DEF Inv
<1>5. CASE \E v \in Vacancies : Change(v) /\ UNCHANGED <<apply, core, sync>>
  BY <1>1, <1>2, <1>5, ChangeKeeps, ApplyRests, SyncRests DEF core, CoreGrows, Imported, Inv
<1>6. CASE UNCHANGED funnel
  BY <1>1, <1>2, <1>6, HhRests, ApplyRests, SyncRests
     DEF funnel, core, CoreGrows, Imported, Inv
<1> QED
  BY <1>3, <1>4, <1>5, <1>6 DEF Next

LEMMA Invariant == Spec => []Inv
<1>1. Init => Inv
  BY Initially
<1>2. Inv /\ [Next]_funnel => Inv'
  BY StepKeeps
<1> QED
  BY <1>1, <1>2, PTL DEF Spec

\* Every variable keeps its type; the item a sync has in hand goes with where it stands.
THEOREM FunnelTypeCorrect == Spec => []TypeOK
<1>1. Inv => TypeOK
  BY DEF Inv, HhInv, ApplyInv, SyncInv, TypeOK
<1> QED
  BY <1>1, Invariant, PTL

\* A run of limited apply makes no more negotiations than its limit, whatever its plan,
\* its failures and other runs; its report tells of each, and of no other.
THEOREM ReportsAreTrue == Spec => []ReportIsTrue
<1>1. Inv => ReportIsTrue
  <2> SUFFICES ASSUME Inv, NEW a \in Appliers
               PROVE  /\ mine[a] \subseteq selected[a] /\ Cardinality(mine[a]) <= limit[a]
                      /\ Reports(a) => /\ submitted[a] \subseteq mine[a]
                                       /\ mine[a] \subseteq submitted[a] \cup failed[a]
                                       /\ mine[a] # {} => a \in attempted
    BY DEF ReportIsTrue
  <2>1. RunInv(a) /\ ApplyTypeOK
    BY DEF Inv, ApplyInv
  <2>2. Cardinality(mine[a]) \in Nat
    <3>1. mine[a] \in SUBSET Vacancies
      BY <2>1 DEF ApplyTypeOK
    <3> QED
      BY <3>1, OneMore
  <2>3. Len(todo[a]) \in Nat /\ limit[a] \in Nat
    <3>1. todo[a] \in Seq(Items) /\ limit[a] \in Nat
      BY <2>1 DEF ApplyTypeOK
    <3> QED
      BY <3>1
  <2> QED
    BY <2>1, <2>2, <2>3 DEF RunInv, Bounded
<1> QED
  BY <1>1, Invariant, PTL

\* An ok envelope of limited apply means that HH has every selected application.
THEOREM OkMeansApplied == Spec => []OkIsApplied
<1>1. Inv => OkIsApplied
  <2> SUFFICES ASSUME Inv, NEW a \in Appliers, Ok(a), NEW x \in selected[a]
               PROVE  x \in Applied
    BY DEF OkIsApplied
  <2>1. failed[a] = {} /\ todo[a] = <<>> /\ RunInv(a)
    BY DEF Ok, Reports, Inv, ApplyInv
  <2>2. x \in submitted[a]
    BY <2>1 DEF RunInv, Accounted
  <2> QED
    BY <2>1, <2>2 DEF RunInv
<1> QED
  BY <1>1, Invariant, PTL

\* What a sync reports as synced is in Core.
THEOREM SyncedIsInCore == Spec => []SyncedIsThere
<1>1. Inv => SyncedIsThere
  BY DEF Inv, SyncInv, SyncerInv, SyncedIsThere
<1> QED
  BY <1>1, Invariant, PTL
-----------------------------------------------------------------------------
(* The refinement.                                                         *)

Facts == <<had, applications>>

\* A negotiation begins, or changes.
LEMMA EnterHappens ==
    ASSUME NEW v \in Vacancies, NEW t \in Open, Enter(v, t), UNCHANGED applications
    PROVE  Contract!Next
<1>1. Contract!Happen(v)
  BY DEF Contract!Happen, Enter
<1> QED
  BY <1>1 DEF Contract!Next

\* All that apply does to had is a Post.
LEMMA ApplyHappens ==
    ASSUME ApplyNext, UNCHANGED core
    PROVE  [Contract!Next]_Facts
<1>1. UNCHANGED hh \/ \E v \in Vacancies : Post(v)
  BY DEF ApplyNext, Start, Submit, SubmitLost, SubmitFails, Finish, Die
<1>2. ASSUME NEW v \in Vacancies, Post(v) PROVE Contract!Next
  BY <1>2, EnterHappens DEF Post, Open, core
<1> QED
  BY <1>1, <1>2 DEF hh, core, Facts

\* Storing is learning, or hearing again.
LEMMA StoreLearns ==
    ASSUME SyncInv, NEW s \in Syncers, spc[s] = "application",
           NEW t \in items[s][item[s]], Store(item[s], t), UNCHANGED hh
    PROVE  [Contract!Next]_Facts
<1>1. item[s] \in Vacancies /\ t \in had[item[s]]
  BY DEF SyncInv, SyncTypeOK, SyncerInv
<1>2. CASE item[s] \in Imported
  BY <1>2 DEF Store, hh, Facts
<1>3. CASE item[s] \notin Imported
  <2>1. Contract!Learn(item[s])
    BY <1>1, <1>3 DEF Contract!Learn, Store, Imported, hh
  <2> QED
    BY <1>1, <2>1 DEF Contract!Next
<1> QED
  BY <1>2, <1>3

LEMMA SyncLearns ==
    ASSUME SyncInv, SyncNext
    PROVE  [Contract!Next]_Facts
<1>1. ASSUME NEW s \in Syncers, SyncApplications(s), CreateApplication(s)
      PROVE  [Contract!Next]_Facts
  BY <1>1, StoreLearns DEF SyncApplications, CreateApplication, hh, Facts
<1>2. ASSUME NEW s \in Syncers, SyncApplications(s), ~CreateApplication(s)
      PROVE  [Contract!Next]_Facts
  BY <1>2 DEF SyncApplications, List, ListPage, ListCollections, ListPart, ListEnds, Listing,
                 Resolve, CreateVacancy, EndSync, core, hh, Facts
<1>3. ASSUME NEW v \in Vacancies, Ingest(v) PROVE [Contract!Next]_Facts
  BY <1>3 DEF Ingest, hh, Facts
<1> QED
  BY <1>1, <1>2, <1>3 DEF SyncNext

\* Funnel implements FunnelContract: what Core has of a negotiation was once true of it, was
\* entered once and stays, whatever runs overlap, die or lose answers.
THEOREM FunnelImplementsContract == Spec => ImplementsContract
<1>1. Init => Contract!Init
  BY DEF Init, HhInit, SyncInit, Contract!Init
<1>2. ASSUME Inv, [Next]_funnel PROVE [Contract!Next]_Facts
  <2>1. CASE ApplyNext /\ UNCHANGED <<core, sync>>
    BY <2>1, ApplyHappens
  <2>2. CASE SyncNext /\ UNCHANGED apply
    BY <1>2, <2>2, SyncLearns DEF Inv
  <2>3. CASE \E v \in Vacancies : Change(v) /\ UNCHANGED <<apply, core, sync>>
    BY <2>3, EnterHappens DEF Change, Open, core
  <2>4. CASE UNCHANGED funnel
    BY <2>4 DEF funnel, hh, core, Facts
  <2> QED
    BY <1>2, <2>1, <2>2, <2>3, <2>4 DEF Next
<1> QED
  BY <1>1, <1>2, Invariant, PTL DEF Spec, ImplementsContract, Contract!Spec, Facts
=============================================================================
