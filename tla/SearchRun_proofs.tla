--------------------------- MODULE SearchRun_proofs ---------------------------
(***************************************************************************)
(* Proofs about SearchRun, for any runs, vacancies, page bound, detail     *)
(* limit and any set of failing Core calls.                                *)
(***************************************************************************)
EXTENDS SearchRun, TLAPS

\* Where a run stands bounds what its local state can be.
Located ==
    \A r \in Runs :
        /\ pc[r] \in {"idle", "gate", "serp"} => page[r] \in Pages
        /\ pc[r] = "record" => pending[r] \in PendingItems

Started   == {"gate", "serp", "filter", "details", "acquired", "abort",
              "lookup", "items", "record", "finalize"}
Acquiring == {"idle", "gate", "serp", "filter", "details", "acquired", "abort", "lookup"}

\* The SearchRun is running in Core exactly while its handler works on it.
RunMatchesHandler ==
    \A r \in Runs :
        /\ pc[r] = "idle" => coreRun[r] = "none"
        /\ pc[r] \in Started => coreRun[r] = "running"
        /\ coreRun[r] \in Terminal => pc[r] = "done"

\* No item is counted or recorded before _process_unique_items.
NothingCountedYet ==
    \A r \in Runs : pc[r] \in Acquiring =>
        /\ itemOk[r] = {} /\ itemErrors[r] = {}
        /\ \A id \in Ids : coreItems[r][id] = "none"

\* Every summary is still to process or counted, never both, never twice.
ItemsPartition ==
    \A r \in Runs :
        /\ itemOk[r] \cap itemErrors[r] = {}
        /\ pc[r] \in {"items", "record", "finalize"} =>
            /\ todo[r] \cap (itemOk[r] \cup itemErrors[r]) = {}
            /\ summaries[r] \subseteq todo[r] \cup itemOk[r] \cup itemErrors[r]
        /\ pc[r] = "finalize" => todo[r] = {}

\* A recorded item was counted, with the outcome it was counted for; the one about
\* to be recorded is counted and not recorded yet.
RecordedIsCounted ==
    \A r \in Runs :
        /\ \A id \in Ids :
            /\ coreItems[r][id] \in GoodOutcomes => id \in itemOk[r]
            /\ coreItems[r][id] = "error" => id \in itemErrors[r]
        /\ pc[r] = "record" =>
            /\ coreItems[r][pending[r].id] = "none"
            /\ pending[r].outcome = "error" => pending[r].id \in itemErrors[r]
            /\ pending[r].outcome # "error" => pending[r].id \in itemOk[r]

\* Core stores whatever it reported as its own, and whatever was counted as ok.
CountedIsStored ==
    \A r \in Runs : known[r] \subseteq Present /\ itemOk[r] \subseteq Present

\* A run that got past Classify with a CAPTCHA wall has a good page.
CaptchaHasPage ==
    \A r \in Runs :
        pc[r] \in {"lookup", "items", "record", "finalize"} /\ acquired[r] = "action_required"
            => okPages[r] # {}

\* What the terminal status in Core says of the counts.
VerdictMatchesCounts ==
    \A r \in Runs :
        /\ coreRun[r] = "failed" => itemOk[r] = {} /\ itemErrors[r] = {}
        /\ coreRun[r] = "success" => itemErrors[r] = {} /\ summaries[r] \subseteq itemOk[r]

\* After its last lookup a run misses exactly what was stored and not reported, and
\* it updates nothing else.
MissedIsUnknown ==
    \A r \in Runs :
        /\ pc[r] \in {"items", "record"} => Present \subseteq known[r] \cup missed[r]
        /\ pc[r] = "record" /\ pending[r].outcome = "updated" => pending[r].id \in missed[r]
        /\ \A id \in Ids : coreItems[r][id] = "updated" => id \in missed[r]

\* The runs that created a vacancy, whether the item is recorded or about to be.
Claims(r, id) == \/ coreItems[r][id] = "created"
                 \/ pc[r] = "record" /\ pending[r] = [id |-> id, outcome |-> "created"]

\* Creating needs the vacancy to be absent, and it never is again.
OneCreator ==
    \A id \in Ids, r \in Runs : Claims(r, id) =>
        /\ id \in Present
        /\ \A q \in Runs : Claims(q, id) => q = r

\* A run past Classify saw the suitable heading or hit a wall, and so did every run
\* that counted an item, even after it ended.
PastGuard == {"lookup", "items", "record", "finalize"}
GuardPassed ==
    \A r \in Suitable :
        pc[r] \in PastGuard \/ itemOk[r] \cup itemErrors[r] # {} =>
            heading[r] = "suitable" \/ wall[r] # "none"

\* Pages are read one after the other until a wall, and what is found of them and of the
\* cards when a run is classified is what the run goes on with.
Complete(r) ==
    /\ pc[r] \in {"idle", "gate", "serp", "filter", "details"} =>
          wall[r] = "none" /\ okPages[r] \cup failedPages[r] = 1..(page[r] - 1)
    /\ pc[r] \in {"filter", "details"} => page[r] = MaxPages + 1
    /\ pc[r] \in {"acquired"} \cup PastGuard /\ wall[r] = "none" =>
          okPages[r] \cup failedPages[r] = Pages
    /\ pc[r] \in PastGuard =>
          acquired[r] = AcquireStatus(r) /\ ~Blocked(r, AcquireStatus(r))

AcquiredIsComplete == \A r \in Runs : Complete(r)

IInv == /\ TypeOK
        /\ Located
        /\ RunMatchesHandler
        /\ NothingCountedYet
        /\ ItemsPartition
        /\ RecordedIsCounted
        /\ CountedIsStored
        /\ CaptchaHasPage
        /\ VerdictMatchesCounts
        /\ MissedIsUnknown
        /\ OneCreator
        /\ GuardPassed
        /\ ResponseIsHonest
        /\ AcquiredIsComplete
        /\ VerdictIsTrue
-----------------------------------------------------------------------------
\* No handler leaves a variable outside its domain.
LEMMA TypeStep == IInv /\ [Next]_vars => TypeOK'
<1> SUFFICES ASSUME IInv, [Next]_vars PROVE TypeOK'
  OBVIOUS
<1> USE DEF IInv, TypeOK, Goto, Places
<1>1. ASSUME NEW r \in Runs, StartRun(r)
      PROVE  TypeOK'
  BY <1>1 DEF StartRun, local, itemVars
<1>2. ASSUME NEW r \in Runs, StartFails(r)
      PROVE  TypeOK'
  BY <1>2 DEF StartFails, Respond, local, itemVars, Terminal
<1>3. ASSUME NEW r \in Runs, Gate(r)
      PROVE  TypeOK'
  <2>1. acquired' \in [Runs -> Statuses \cup {"none"}]
    BY <1>3 DEF Gate, Statuses
  <2>2. QED
    BY <1>3, <2>1 DEF Gate, local, itemVars, coreVars
<1>4. ASSUME NEW r \in Runs, PageOk(r)
      PROVE  TypeOK'
  <2>1. page[r] \in Pages
    BY <1>4 DEF PageOk, Located
  <2>2. page' \in [Runs -> 1..(MaxPages + 1)] /\ pc' \in [Runs -> Places]
    BY <1>4, <2>1, PagesAssumption DEF PageOk, AfterPage, Pages
  <2>3. okPages' \in [Runs -> SUBSET Pages] /\ summaries' \in [Runs -> SUBSET Ids]
    BY <1>4, <2>1 DEF PageOk
  <2>4. heading' \in [Runs -> {"none", "suitable", "other"}]
    BY <1>4 DEF PageOk
  <2>5. QED
    BY <1>4, <2>2, <2>3, <2>4 DEF PageOk, itemVars, coreVars
<1>5. ASSUME NEW r \in Runs, PageFails(r)
      PROVE  TypeOK'
  <2>1. page[r] \in Pages
    BY <1>5 DEF PageFails, Located
  <2>2. page' \in [Runs -> 1..(MaxPages + 1)] /\ pc' \in [Runs -> Places]
    BY <1>5, <2>1, PagesAssumption DEF PageFails, AfterPage, Pages
  <2>3. QED
    BY <1>5, <2>1, <2>2 DEF PageFails, itemVars, coreVars
<1>6. ASSUME NEW r \in Runs, NEW w \in Walls, HitWall(r, w)
      PROVE  TypeOK'
  BY <1>6 DEF HitWall, itemVars, coreVars
<1>7. ASSUME NEW r \in Runs, FilterDetails(r)
      PROVE  TypeOK'
  <2>1. pc' \in [Runs -> Places]
    <3>1. Goto(r, "acquired") \/ Goto(r, "details")
      BY <1>7, Zenon DEF FilterDetails
    <3>2. QED
      BY <3>1
  <2>2. \/ known' = known /\ targets' = targets
        \/ \E found \in LookupAnswers(summaries[r]) :
              /\ known' = [known EXCEPT ![r] = @ \cup found]
              /\ \E chosen \in FirstOf(summaries[r] \ known'[r], DetailLimit) :
                    targets' = [targets EXCEPT ![r] = chosen]
    <3>1. CASE summaries[r] = {}
      BY <1>7, <3>1 DEF FilterDetails
    <3>2. CASE summaries[r] # {}
      BY <1>7, <3>2, Zenon DEF FilterDetails
    <3>3. QED
      BY <3>1, <3>2
  <2>3. LookupAnswers(summaries[r]) \subseteq SUBSET Ids
    BY DEF LookupAnswers, Present
  <2>4. FirstOf(summaries[r] \ known'[r], DetailLimit) \subseteq SUBSET Ids
    BY DEF FirstOf
  <2>5. known' \in [Runs -> SUBSET Ids] /\ targets' \in [Runs -> SUBSET Ids]
    <3>1. CASE known' = known /\ targets' = targets
      BY <3>1
    <3>2. ASSUME NEW found \in SUBSET Ids, NEW chosen \in SUBSET Ids,
                 known' = [known EXCEPT ![r] = @ \cup found],
                 targets' = [targets EXCEPT ![r] = chosen]
          PROVE  known' \in [Runs -> SUBSET Ids] /\ targets' \in [Runs -> SUBSET Ids]
      BY <3>2
    <3>3. QED
      BY <2>2, <2>3, <2>4, <3>1, <3>2
  <2>6. QED
    BY <1>7, <2>1, <2>5 DEF FilterDetails, itemVars, coreVars
<1>8. ASSUME NEW r \in Runs, NEW id \in Ids, OpenDetail(r, id)
      PROVE  TypeOK'
  BY <1>8 DEF OpenDetail, itemVars, coreVars
<1>9. ASSUME NEW r \in Runs, DetailsDone(r)
      PROVE  TypeOK'
  BY <1>9 DEF DetailsDone, local, itemVars, coreVars
<1>10. ASSUME NEW r \in Runs, ReaderFails(r)
       PROVE  TypeOK'
  BY <1>10 DEF ReaderFails, itemVars, coreVars, Statuses, Details
<1>11. ASSUME NEW r \in Runs, Classify(r)
       PROVE  TypeOK'
  <2>1. AcquireStatus(r) \in Statuses
    BY DEF AcquireStatus, WallStatus, Statuses, Walls
  <2>2. QED
    BY <1>11, <2>1 DEF Classify, local, itemVars, coreVars
<1>12. ASSUME NEW r \in Runs, AbortRun(r)
       PROVE  TypeOK'
  BY <1>12 DEF AbortRun, Respond, local, itemVars, Terminal
<1>13. ASSUME NEW r \in Runs, LookupAgain(r)
       PROVE  TypeOK'
  BY <1>13 DEF LookupAgain, LookupAnswers, local, Present
<1>14. ASSUME NEW r \in Runs, NEW id \in Ids, SkipKnown(r, id)
       PROVE  TypeOK'
  BY <1>14 DEF SkipKnown, Settle, local, PendingItems, ItemOutcomes, GoodOutcomes
<1>15. ASSUME NEW r \in Runs, NEW id \in Ids, NoUsableDetail(r, id)
       PROVE  TypeOK'
  BY <1>15 DEF NoUsableDetail, Settle, local, PendingItems, ItemOutcomes
<1>16. ASSUME NEW r \in Runs, NEW id \in Ids, Ingest(r, id)
       PROVE  TypeOK'
  <2>1. IngestOutcome(id, details[r][id]) \in ItemOutcomes /\ "error" \in ItemOutcomes
    BY DEF IngestOutcome, ItemOutcomes, GoodOutcomes
  <2>2. PICK o \in ItemOutcomes : Settle(r, id, o)
    BY <1>16, <2>1 DEF Ingest
  <2>3. pending' \in [Runs -> PendingItems \cup {NoItem}]
    BY <2>2 DEF Settle, PendingItems
  <2>4. /\ pc' \in [Runs -> Places] /\ todo' \in [Runs -> SUBSET Ids]
        /\ itemOk' \in [Runs -> SUBSET Ids] /\ itemErrors' \in [Runs -> SUBSET Ids]
    BY <2>2 DEF Settle
  <2>5. vacancies' \in [Ids -> Contents \cup {NoVacancy}] /\ missed' \in [Runs -> SUBSET Ids]
    <3>1. CASE UNCHANGED <<vacancies, missed>>
      BY <3>1
    <3>2. CASE StoreVacancy(id, details[r][id]) /\ details[r][id] \in Contents
      BY <3>2 DEF StoreVacancy
    <3>3. QED
      BY <1>16, <3>1, <3>2 DEF Ingest
  <2>6. QED
    BY <2>2, <2>3, <2>4, <2>5 DEF Settle, local
<1>17. ASSUME NEW r \in Runs, RecordItem(r)
       PROVE  TypeOK'
  <2>1. pending[r].id \in Ids /\ pending[r].outcome \in ItemOutcomes
    BY <1>17 DEF RecordItem, Located, PendingItems
  <2>2. coreItems' \in [Runs -> [Ids -> ItemOutcomes \cup {"none"}]]
    <3>1. CASE UNCHANGED coreItems
      BY <3>1
    <3>2. CASE coreItems' = [coreItems EXCEPT ![r][pending[r].id] = pending[r].outcome]
      BY <2>1, <3>2
    <3>3. QED
      BY <1>17, <3>1, <3>2 DEF RecordItem
  <2>3. QED
    BY <1>17, <2>2 DEF RecordItem, local
<1>18. ASSUME NEW r \in Runs, ItemsDone(r)
       PROVE  TypeOK'
  BY <1>18 DEF ItemsDone, local, itemVars, coreVars
<1>19. ASSUME NEW r \in Runs, FinalizeRun(r)
       PROVE  TypeOK'
  <2>1. TerminalStatus(r) \in Terminal
    BY DEF TerminalStatus, CaptchaTerminal, Terminal
  <2>2. coreRun' \in [Runs -> Terminal \cup {"running", "none"}]
    BY <1>19, <2>1 DEF FinalizeRun
  <2>3. report' \in [Runs -> Terminal \cup {"action_required", "none"}] /\ pc' \in [Runs -> Places]
    <3>1. \E s \in Terminal \cup {"action_required"} : Respond(r, s)
      BY <1>19, <2>1 DEF FinalizeRun, Terminal
    <3>2. QED
      BY <3>1 DEF Respond
  <2>4. QED
    BY <1>19, <2>2, <2>3 DEF FinalizeRun, local, itemVars
<1>20. ASSUME NEW r \in Runs, Crash(r)
       PROVE  TypeOK'
  BY <1>20 DEF Crash, local, itemVars, coreVars
<1>21. ASSUME NEW id \in Ids, OtherWriter(id)
       PROVE  TypeOK'
  BY <1>21 DEF OtherWriter, StoreVacancy, local, itemVars
<1>22. CASE UNCHANGED vars
  BY <1>22 DEF vars, local, itemVars, coreVars
<1>23. QED
  BY <1>1, <1>2, <1>3, <1>4, <1>5, <1>6, <1>7, <1>8, <1>9, <1>10, <1>11, <1>12, <1>13,
     <1>14, <1>15, <1>16, <1>17, <1>18, <1>19, <1>20, <1>21, <1>22
     DEF Next, Step

\* The page index and the pending item stay where the handler is.
LEMMA LocatedStep == IInv /\ [Next]_vars => Located'
<1> SUFFICES ASSUME IInv, [Next]_vars PROVE Located'
  OBVIOUS
<1>a. /\ pc \in [Runs -> Places]
      /\ page \in [Runs -> 1..(MaxPages + 1)]
      /\ pending \in [Runs -> PendingItems \cup {NoItem}]
  BY DEF IInv, TypeOK
<1>b. Located
  BY DEF IInv, TypeOK
<1> USE <1>a, <1>b DEF Located, Places, Goto
<1>1. ASSUME NEW r \in Runs,
             StartRun(r) \/ StartFails(r) \/ Gate(r) \/
             (\E w \in Walls : HitWall(r, w)) \/ FilterDetails(r) \/
             (\E id \in Ids : OpenDetail(r, id)) \/ DetailsDone(r) \/ ReaderFails(r) \/
             Classify(r) \/ AbortRun(r)
      PROVE  Located'
  BY <1>1 DEF StartRun, StartFails, Respond, Gate, HitWall, FilterDetails, FirstOf,
          LookupAnswers, OpenDetail, DetailsDone, ReaderFails, Classify, AbortRun,
          local, itemVars, coreVars
<1>2. ASSUME NEW r \in Runs, PageOk(r)
      PROVE  Located'
  BY <1>2, PagesAssumption DEF PageOk, AfterPage, itemVars, coreVars, Pages
<1>3. ASSUME NEW r \in Runs, PageFails(r)
      PROVE  Located'
  BY <1>3, PagesAssumption DEF PageFails, AfterPage, itemVars, coreVars, Pages
<1>4. ASSUME NEW r \in Runs,
             LookupAgain(r) \/ ItemsDone(r) \/ FinalizeRun(r) \/ Crash(r)
      PROVE  Located'
  BY <1>4 DEF LookupAgain, LookupAnswers, ItemsDone, FinalizeRun, Respond, Crash,
          local, itemVars, coreVars
<1>5. ASSUME NEW r \in Runs, NEW id \in Ids, SkipKnown(r, id)
      PROVE  Located'
  <2>1. PICK o \in ItemOutcomes : Settle(r, id, o)
    BY <1>5 DEF SkipKnown, ItemOutcomes, GoodOutcomes
  <2>2. QED
    BY <2>1 DEF Settle, PendingItems, local
<1>6. ASSUME NEW r \in Runs, NEW id \in Ids, NoUsableDetail(r, id)
      PROVE  Located'
  <2>1. PICK o \in ItemOutcomes : Settle(r, id, o)
    BY <1>6 DEF NoUsableDetail, ItemOutcomes
  <2>2. QED
    BY <2>1 DEF Settle, PendingItems, local
<1>7. ASSUME NEW r \in Runs, NEW id \in Ids, Ingest(r, id)
      PROVE  Located'
  <2>1. PICK o \in ItemOutcomes : Settle(r, id, o)
    BY <1>7 DEF Ingest, IngestOutcome, ItemOutcomes, GoodOutcomes
  <2>2. QED
    BY <2>1 DEF Settle, PendingItems, local
<1>8. ASSUME NEW r \in Runs, RecordItem(r)
      PROVE  Located'
  BY <1>8 DEF RecordItem, local
<1>9. ASSUME NEW id \in Ids, OtherWriter(id)
      PROVE  Located'
  BY <1>9 DEF OtherWriter, StoreVacancy, local, itemVars
<1>10. CASE UNCHANGED vars
  BY <1>10 DEF vars, local, itemVars, coreVars
<1>11. QED
  BY <1>1, <1>2, <1>3, <1>4, <1>5, <1>6, <1>7, <1>8, <1>9, <1>10 DEF Next, Step

\* Core's run follows its handler, through every failing start and finalize.
LEMMA RunMatchesHandlerStep == IInv /\ [Next]_vars => RunMatchesHandler'
<1> SUFFICES ASSUME IInv, [Next]_vars PROVE RunMatchesHandler'
  OBVIOUS
<1>a. /\ pc \in [Runs -> Places]
      /\ coreRun \in [Runs -> Terminal \cup {"running", "none"}]
  BY DEF IInv, TypeOK
<1>b. RunMatchesHandler
  BY DEF IInv, TypeOK
<1> USE <1>a, <1>b DEF RunMatchesHandler, Started, Terminal, Places, Goto
<1>1. ASSUME NEW r \in Runs,
             StartRun(r) \/ StartFails(r) \/ Gate(r) \/ PageOk(r) \/ PageFails(r) \/
             (\E w \in Walls : HitWall(r, w)) \/ FilterDetails(r) \/
             (\E id \in Ids : OpenDetail(r, id)) \/ DetailsDone(r) \/ ReaderFails(r) \/
             Classify(r) \/ AbortRun(r)
      PROVE  RunMatchesHandler'
  BY <1>1 DEF StartRun, StartFails, Respond, Gate, PageOk, AfterPage, PageFails,
          HitWall, FilterDetails, FirstOf, LookupAnswers, OpenDetail, DetailsDone,
          ReaderFails, Classify, AbortRun, local, itemVars, coreVars
<1>2. ASSUME NEW r \in Runs,
             LookupAgain(r) \/ ItemsDone(r) \/ FinalizeRun(r) \/ Crash(r)
      PROVE  RunMatchesHandler'
  BY <1>2 DEF LookupAgain, LookupAnswers, ItemsDone, FinalizeRun, Respond, Crash,
          local, itemVars, coreVars
<1>3. ASSUME NEW r \in Runs,
             (\E id \in Ids : SkipKnown(r, id)) \/
             (\E id \in Ids : NoUsableDetail(r, id))
      PROVE  RunMatchesHandler'
  BY <1>3 DEF SkipKnown, Settle, NoUsableDetail, local
<1>4. ASSUME NEW r \in Runs, NEW id \in Ids, Ingest(r, id)
      PROVE  RunMatchesHandler'
  BY <1>4 DEF Ingest, StoreVacancy, Settle, local
<1>5. ASSUME NEW r \in Runs, RecordItem(r)
      PROVE  RunMatchesHandler'
  BY <1>5 DEF RecordItem, local
<1>6. ASSUME NEW id \in Ids, OtherWriter(id)
      PROVE  RunMatchesHandler'
  BY <1>6 DEF OtherWriter, StoreVacancy, local, itemVars
<1>7. CASE UNCHANGED vars
  BY <1>7 DEF vars, local, itemVars, coreVars
<1>8. QED
  BY <1>1, <1>2, <1>3, <1>4, <1>5, <1>6, <1>7 DEF Next, Step

\* Acquisition counts and records nothing.
LEMMA NothingCountedYetStep == IInv /\ [Next]_vars => NothingCountedYet'
<1> SUFFICES ASSUME IInv, [Next]_vars PROVE NothingCountedYet'
  OBVIOUS
<1>a. /\ pc \in [Runs -> Places]
      /\ itemOk \in [Runs -> SUBSET Ids]
      /\ itemErrors \in [Runs -> SUBSET Ids]
      /\ coreItems \in [Runs -> [Ids -> ItemOutcomes \cup {"none"}]]
  BY DEF IInv, TypeOK
<1>b. NothingCountedYet
  BY DEF IInv, TypeOK
<1> USE <1>a, <1>b DEF NothingCountedYet, Acquiring, Places, Goto
<1>1. ASSUME NEW r \in Runs,
             StartRun(r) \/ StartFails(r) \/ Gate(r) \/ PageOk(r) \/ PageFails(r) \/
             (\E w \in Walls : HitWall(r, w)) \/ FilterDetails(r) \/
             (\E id \in Ids : OpenDetail(r, id)) \/ DetailsDone(r) \/ ReaderFails(r) \/
             Classify(r) \/ AbortRun(r)
      PROVE  NothingCountedYet'
  BY <1>1 DEF StartRun, StartFails, Respond, Gate, PageOk, AfterPage, PageFails,
          HitWall, FilterDetails, FirstOf, LookupAnswers, OpenDetail, DetailsDone,
          ReaderFails, Classify, AbortRun, local, itemVars, coreVars
<1>2. ASSUME NEW r \in Runs,
             LookupAgain(r) \/ ItemsDone(r) \/ FinalizeRun(r) \/ Crash(r)
      PROVE  NothingCountedYet'
  BY <1>2 DEF LookupAgain, LookupAnswers, ItemsDone, FinalizeRun, Respond, Crash,
          local, itemVars, coreVars
<1>3. ASSUME NEW r \in Runs,
             (\E id \in Ids : SkipKnown(r, id)) \/
             (\E id \in Ids : NoUsableDetail(r, id))
      PROVE  NothingCountedYet'
  BY <1>3 DEF SkipKnown, Settle, NoUsableDetail, local
<1>4. ASSUME NEW r \in Runs, NEW id \in Ids, Ingest(r, id)
      PROVE  NothingCountedYet'
  BY <1>4 DEF Ingest, StoreVacancy, Settle, local
<1>5. ASSUME NEW r \in Runs, RecordItem(r)
      PROVE  NothingCountedYet'
  BY <1>5 DEF RecordItem, local
<1>6. ASSUME NEW id \in Ids, OtherWriter(id)
      PROVE  NothingCountedYet'
  BY <1>6 DEF OtherWriter, StoreVacancy, local, itemVars
<1>7. CASE UNCHANGED vars
  BY <1>7 DEF vars, local, itemVars, coreVars
<1>8. QED
  BY <1>1, <1>2, <1>3, <1>4, <1>5, <1>6, <1>7 DEF Next, Step

\* Every summary is processed once.
LEMMA ItemsPartitionStep == IInv /\ [Next]_vars => ItemsPartition'
<1> SUFFICES ASSUME IInv, [Next]_vars PROVE ItemsPartition'
  OBVIOUS
<1>a. /\ pc \in [Runs -> Places]
      /\ itemOk \in [Runs -> SUBSET Ids]
      /\ itemErrors \in [Runs -> SUBSET Ids]
      /\ todo \in [Runs -> SUBSET Ids]
      /\ summaries \in [Runs -> SUBSET Ids]
  BY DEF IInv, TypeOK
<1>b. ItemsPartition /\ NothingCountedYet
  BY DEF IInv, TypeOK
<1> USE <1>a, <1>b DEF ItemsPartition, Places, Goto
<1>1. ASSUME NEW r \in Runs,
             StartRun(r) \/ StartFails(r) \/ Gate(r) \/ PageOk(r) \/ PageFails(r) \/
             (\E w \in Walls : HitWall(r, w)) \/ FilterDetails(r) \/
             (\E id \in Ids : OpenDetail(r, id)) \/ DetailsDone(r) \/ ReaderFails(r) \/
             Classify(r) \/ AbortRun(r)
      PROVE  ItemsPartition'
  BY <1>1 DEF StartRun, StartFails, Respond, Gate, PageOk, AfterPage, PageFails,
          HitWall, FilterDetails, FirstOf, LookupAnswers, OpenDetail, DetailsDone,
          ReaderFails, Classify, AbortRun, local, itemVars, coreVars
<1>2. ASSUME NEW r \in Runs, LookupAgain(r)
      PROVE  ItemsPartition'
  <2>1. itemOk[r] = {} /\ itemErrors[r] = {}
    BY <1>2 DEF LookupAgain, NothingCountedYet, Acquiring
  <2>2. QED
    BY <1>2, <2>1 DEF LookupAgain, local
<1>3. ASSUME NEW r \in Runs,
             (\E id \in Ids : SkipKnown(r, id)) \/
             (\E id \in Ids : NoUsableDetail(r, id))
      PROVE  ItemsPartition'
  BY <1>3 DEF SkipKnown, Settle, NoUsableDetail, local
<1>4. ASSUME NEW r \in Runs, NEW id \in Ids, Ingest(r, id)
      PROVE  ItemsPartition'
  BY <1>4 DEF Ingest, StoreVacancy, Settle, local
<1>5. ASSUME NEW r \in Runs, RecordItem(r)
      PROVE  ItemsPartition'
  BY <1>5 DEF RecordItem, local
<1>6. ASSUME NEW r \in Runs,
             ItemsDone(r) \/ FinalizeRun(r) \/ Crash(r)
      PROVE  ItemsPartition'
  BY <1>6 DEF ItemsDone, FinalizeRun, Respond, Crash, local, itemVars, coreVars
<1>7. ASSUME NEW id \in Ids, OtherWriter(id)
      PROVE  ItemsPartition'
  BY <1>7 DEF OtherWriter, StoreVacancy, local, itemVars
<1>8. CASE UNCHANGED vars
  BY <1>8 DEF vars, local, itemVars, coreVars
<1>9. QED
  BY <1>1, <1>2, <1>3, <1>4, <1>5, <1>6, <1>7, <1>8 DEF Next, Step

\* Items are recorded with the outcome they were counted for, and once.
LEMMA RecordedIsCountedStep == IInv /\ [Next]_vars => RecordedIsCounted'
<1> SUFFICES ASSUME IInv, [Next]_vars PROVE RecordedIsCounted'
  OBVIOUS
<1>a. /\ pc \in [Runs -> Places]
      /\ itemOk \in [Runs -> SUBSET Ids]
      /\ itemErrors \in [Runs -> SUBSET Ids]
      /\ coreItems \in [Runs -> [Ids -> ItemOutcomes \cup {"none"}]]
      /\ pending \in [Runs -> PendingItems \cup {NoItem}]
      /\ todo \in [Runs -> SUBSET Ids]
  BY DEF IInv, TypeOK
<1>b. RecordedIsCounted /\ ItemsPartition /\ Located
  BY DEF IInv, TypeOK
<1> USE <1>a, <1>b DEF RecordedIsCounted, Places, Goto
<1>1. ASSUME NEW r \in Runs,
             StartRun(r) \/ StartFails(r) \/ Gate(r) \/ PageOk(r) \/ PageFails(r) \/
             (\E w \in Walls : HitWall(r, w)) \/ FilterDetails(r) \/
             (\E id \in Ids : OpenDetail(r, id)) \/ DetailsDone(r) \/ ReaderFails(r) \/
             Classify(r) \/ AbortRun(r)
      PROVE  RecordedIsCounted'
  BY <1>1 DEF StartRun, StartFails, Respond, Gate, PageOk, AfterPage, PageFails,
          HitWall, FilterDetails, FirstOf, LookupAnswers, OpenDetail, DetailsDone,
          ReaderFails, Classify, AbortRun, local, itemVars, coreVars
<1>2. ASSUME NEW r \in Runs,
             LookupAgain(r) \/ ItemsDone(r) \/ FinalizeRun(r) \/ Crash(r)
      PROVE  RecordedIsCounted'
  BY <1>2 DEF LookupAgain, LookupAnswers, ItemsDone, FinalizeRun, Respond, Crash,
          local, itemVars, coreVars
<1>3. ASSUME NEW r \in Runs, NEW id \in Ids, SkipKnown(r, id)
      PROVE  RecordedIsCounted'
  <2>1. PICK o \in ItemOutcomes : Settle(r, id, o)
    BY <1>3 DEF SkipKnown, ItemOutcomes, GoodOutcomes
  <2>2. id \in todo[r] /\ pc[r] = "items"
    BY <1>3 DEF SkipKnown
  <2>3. coreItems[r][id] = "none"
    BY <2>2 DEF ItemsPartition, ItemOutcomes
  <2>4. QED
    BY <2>1, <2>3 DEF Settle, local
<1>4. ASSUME NEW r \in Runs, NEW id \in Ids, NoUsableDetail(r, id)
      PROVE  RecordedIsCounted'
  <2>1. PICK o \in ItemOutcomes : Settle(r, id, o)
    BY <1>4 DEF NoUsableDetail, ItemOutcomes
  <2>2. id \in todo[r] /\ pc[r] = "items"
    BY <1>4 DEF NoUsableDetail
  <2>3. coreItems[r][id] = "none"
    BY <2>2 DEF ItemsPartition, ItemOutcomes
  <2>4. QED
    BY <2>1, <2>3 DEF Settle, local
<1>5. ASSUME NEW r \in Runs, NEW id \in Ids, Ingest(r, id)
      PROVE  RecordedIsCounted'
  <2>1. PICK o \in ItemOutcomes : Settle(r, id, o)
    BY <1>5 DEF Ingest, IngestOutcome, ItemOutcomes, GoodOutcomes
  <2>2. id \in todo[r] /\ pc[r] = "items"
    BY <1>5 DEF Ingest
  <2>3. coreItems[r][id] = "none"
    BY <2>2 DEF ItemsPartition, ItemOutcomes
  <2>4. QED
    BY <2>1, <2>3 DEF Settle, local
<1>6. ASSUME NEW r \in Runs, RecordItem(r)
      PROVE  RecordedIsCounted'
  <2>1. pending[r].id \in Ids /\ pending[r].outcome \in ItemOutcomes /\ pc[r] = "record"
    BY <1>6 DEF RecordItem, Located, PendingItems
  <2>2. "error" \notin GoodOutcomes
    BY DEF GoodOutcomes
  <2>3. CASE UNCHANGED coreItems
    BY <1>6, <2>3 DEF RecordItem, local
  <2>4. CASE coreItems' = [coreItems EXCEPT ![r][pending[r].id] = pending[r].outcome]
    BY <1>6, <2>1, <2>2, <2>4 DEF RecordItem, local
  <2>5. QED
    BY <1>6, <2>3, <2>4 DEF RecordItem
<1>7. ASSUME NEW id \in Ids, OtherWriter(id)
      PROVE  RecordedIsCounted'
  BY <1>7 DEF OtherWriter, StoreVacancy, local, itemVars
<1>8. CASE UNCHANGED vars
  BY <1>8 DEF vars, local, itemVars, coreVars
<1>9. QED
  BY <1>1, <1>2, <1>3, <1>4, <1>5, <1>6, <1>7, <1>8 DEF Next, Step

\* Core forgets no vacancy, and only what it stored is counted as ok.
LEMMA CountedIsStoredStep == IInv /\ [Next]_vars => CountedIsStored'
<1> SUFFICES ASSUME IInv, [Next]_vars PROVE CountedIsStored'
  OBVIOUS
<1>a. /\ pc \in [Runs -> Places]
      /\ itemOk \in [Runs -> SUBSET Ids]
      /\ known \in [Runs -> SUBSET Ids]
      /\ vacancies \in [Ids -> Contents \cup {NoVacancy}]
      /\ details \in [Runs -> [Ids -> Details]]
  BY DEF IInv, TypeOK
<1>b. CountedIsStored
  BY DEF IInv, TypeOK
<1> USE <1>a, <1>b DEF CountedIsStored, Present, Goto
<1>1. ASSUME NEW r \in Runs,
             StartRun(r) \/ StartFails(r) \/ Gate(r) \/ PageOk(r) \/ PageFails(r) \/
             (\E w \in Walls : HitWall(r, w)) \/ FilterDetails(r) \/
             (\E id \in Ids : OpenDetail(r, id)) \/ DetailsDone(r) \/ ReaderFails(r) \/
             Classify(r) \/ AbortRun(r)
      PROVE  CountedIsStored'
  BY <1>1 DEF StartRun, StartFails, Respond, Gate, PageOk, AfterPage, PageFails,
          HitWall, FilterDetails, FirstOf, LookupAnswers, OpenDetail, DetailsDone,
          ReaderFails, Classify, AbortRun, local, itemVars, coreVars
<1>2. ASSUME NEW r \in Runs,
             LookupAgain(r) \/ ItemsDone(r) \/ FinalizeRun(r) \/ Crash(r)
      PROVE  CountedIsStored'
  BY <1>2 DEF LookupAgain, LookupAnswers, ItemsDone, FinalizeRun, Respond, Crash,
          local, itemVars, coreVars
<1>3. ASSUME NEW r \in Runs,
             (\E id \in Ids : SkipKnown(r, id)) \/
             (\E id \in Ids : NoUsableDetail(r, id))
      PROVE  CountedIsStored'
  BY <1>3 DEF SkipKnown, Settle, NoUsableDetail, local
<1>4. ASSUME NEW r \in Runs, NEW id \in Ids, Ingest(r, id)
      PROVE  CountedIsStored'
  <2>1. PICK o \in ItemOutcomes : Settle(r, id, o)
    BY <1>4 DEF Ingest, IngestOutcome, ItemOutcomes, GoodOutcomes
  <2>2. details[r][id] \in Contents
    BY <1>4 DEF Ingest
  <2>3. CASE UNCHANGED vacancies /\ Settle(r, id, "error")
    BY <1>4, <2>3 DEF Settle, local
  <2>4. CASE vacancies' = [vacancies EXCEPT ![id] = details[r][id]]
    BY <2>1, <2>2, <2>4, ContentAssumption DEF Settle, local
  <2>5. QED
    BY <1>4, <2>3, <2>4 DEF Ingest, StoreVacancy
<1>5. ASSUME NEW r \in Runs, RecordItem(r)
      PROVE  CountedIsStored'
  BY <1>5 DEF RecordItem, local
<1>6. ASSUME NEW id \in Ids, OtherWriter(id)
      PROVE  CountedIsStored'
  BY <1>6, ContentAssumption DEF OtherWriter, StoreVacancy, local, itemVars
<1>7. CASE UNCHANGED vars
  BY <1>7 DEF vars, local, itemVars, coreVars
<1>8. QED
  BY <1>1, <1>2, <1>3, <1>4, <1>5, <1>6, <1>7 DEF Next, Step

\* A CAPTCHA without a good page blocks the run before the items.
LEMMA CaptchaHasPageStep == IInv /\ [Next]_vars => CaptchaHasPage'
<1> SUFFICES ASSUME IInv, [Next]_vars PROVE CaptchaHasPage'
  OBVIOUS
<1>a. /\ pc \in [Runs -> Places]
      /\ acquired \in [Runs -> Statuses \cup {"none"}]
      /\ okPages \in [Runs -> SUBSET Pages]
  BY DEF IInv, TypeOK
<1>b. CaptchaHasPage
  BY DEF IInv, TypeOK
<1> USE <1>a, <1>b DEF CaptchaHasPage, Places, Goto
<1>1. ASSUME NEW r \in Runs,
             StartRun(r) \/ StartFails(r) \/ Gate(r) \/ PageOk(r) \/ PageFails(r) \/
             (\E w \in Walls : HitWall(r, w)) \/ FilterDetails(r) \/
             (\E id \in Ids : OpenDetail(r, id)) \/ DetailsDone(r) \/ ReaderFails(r) \/
             AbortRun(r)
      PROVE  CaptchaHasPage'
  BY <1>1 DEF StartRun, StartFails, Respond, Gate, PageOk, AfterPage, PageFails,
          HitWall, FilterDetails, FirstOf, LookupAnswers, OpenDetail, DetailsDone,
          ReaderFails, AbortRun, local, itemVars, coreVars
<1>2. ASSUME NEW r \in Runs, Classify(r)
      PROVE  CaptchaHasPage'
  <2>1. pc'[r] = "lookup" /\ acquired'[r] = "action_required" => okPages[r] # {}
    BY <1>2 DEF Classify, Blocked
  <2>2. QED
    BY <1>2, <2>1 DEF Classify, local, itemVars, coreVars
<1>3. ASSUME NEW r \in Runs,
             LookupAgain(r) \/ ItemsDone(r) \/ FinalizeRun(r) \/ Crash(r)
      PROVE  CaptchaHasPage'
  BY <1>3 DEF LookupAgain, LookupAnswers, ItemsDone, FinalizeRun, Respond, Crash,
          local, itemVars, coreVars
<1>4. ASSUME NEW r \in Runs,
             (\E id \in Ids : SkipKnown(r, id)) \/
             (\E id \in Ids : NoUsableDetail(r, id))
      PROVE  CaptchaHasPage'
  BY <1>4 DEF SkipKnown, Settle, NoUsableDetail, local
<1>5. ASSUME NEW r \in Runs, NEW id \in Ids, Ingest(r, id)
      PROVE  CaptchaHasPage'
  BY <1>5 DEF Ingest, StoreVacancy, Settle, local
<1>6. ASSUME NEW r \in Runs, RecordItem(r)
      PROVE  CaptchaHasPage'
  BY <1>6 DEF RecordItem, local
<1>7. ASSUME NEW id \in Ids, OtherWriter(id)
      PROVE  CaptchaHasPage'
  BY <1>7 DEF OtherWriter, StoreVacancy, local, itemVars
<1>8. CASE UNCHANGED vars
  BY <1>8 DEF vars, local, itemVars, coreVars
<1>9. QED
  BY <1>1, <1>2, <1>3, <1>4, <1>5, <1>6, <1>7, <1>8 DEF Next, Step

\* The status a run is finalized with agrees with its counts.
LEMMA VerdictMatchesCountsStep == IInv /\ [Next]_vars => VerdictMatchesCounts'
<1> SUFFICES ASSUME IInv, [Next]_vars PROVE VerdictMatchesCounts'
  OBVIOUS
<1>a. /\ pc \in [Runs -> Places]
      /\ coreRun \in [Runs -> Terminal \cup {"running", "none"}]
      /\ itemOk \in [Runs -> SUBSET Ids]
      /\ itemErrors \in [Runs -> SUBSET Ids]
      /\ summaries \in [Runs -> SUBSET Ids]
      /\ todo \in [Runs -> SUBSET Ids]
  BY DEF IInv, TypeOK
<1>b. VerdictMatchesCounts /\ NothingCountedYet /\ ItemsPartition /\
      RunMatchesHandler /\ CaptchaHasPage
  BY DEF IInv, TypeOK
<1> USE <1>a, <1>b DEF VerdictMatchesCounts, Places, Goto
<1>1. ASSUME NEW r \in Runs,
             StartRun(r) \/ StartFails(r) \/ Gate(r) \/ PageFails(r) \/
             (\E w \in Walls : HitWall(r, w)) \/ FilterDetails(r) \/
             (\E id \in Ids : OpenDetail(r, id)) \/ DetailsDone(r) \/ ReaderFails(r) \/
             Classify(r)
      PROVE  VerdictMatchesCounts'
  BY <1>1 DEF StartRun, StartFails, Respond, Gate, PageFails, AfterPage, HitWall,
          FilterDetails, FirstOf, LookupAnswers, OpenDetail, DetailsDone, ReaderFails,
          Classify, local, itemVars, coreVars
<1>2. ASSUME NEW r \in Runs, PageOk(r)
      PROVE  VerdictMatchesCounts'
  <2>1. coreRun[r] = "running"
    BY <1>2 DEF PageOk, RunMatchesHandler, Started
  <2>2. QED
    BY <1>2, <2>1 DEF PageOk, itemVars, coreVars
<1>3. ASSUME NEW r \in Runs, AbortRun(r)
      PROVE  VerdictMatchesCounts'
  <2>1. itemOk[r] = {} /\ itemErrors[r] = {}
    BY <1>3 DEF AbortRun, NothingCountedYet, Acquiring
  <2>2. QED
    BY <1>3, <2>1 DEF AbortRun, local, itemVars
<1>4. ASSUME NEW r \in Runs,
             LookupAgain(r) \/ ItemsDone(r) \/ Crash(r)
      PROVE  VerdictMatchesCounts'
  BY <1>4 DEF LookupAgain, LookupAnswers, ItemsDone, Crash, local, itemVars, coreVars
<1>5. ASSUME NEW r \in Runs, NEW id \in Ids, SkipKnown(r, id)
      PROVE  VerdictMatchesCounts'
  <2>1. PICK o \in ItemOutcomes : Settle(r, id, o)
    BY <1>5 DEF SkipKnown, ItemOutcomes, GoodOutcomes
  <2>2. coreRun[r] = "running"
    BY <1>5 DEF SkipKnown, RunMatchesHandler, Started
  <2>3. QED
    BY <2>1, <2>2 DEF Settle, local
<1>6. ASSUME NEW r \in Runs, NEW id \in Ids, NoUsableDetail(r, id)
      PROVE  VerdictMatchesCounts'
  <2>1. PICK o \in ItemOutcomes : Settle(r, id, o)
    BY <1>6 DEF NoUsableDetail, ItemOutcomes
  <2>2. coreRun[r] = "running"
    BY <1>6 DEF NoUsableDetail, RunMatchesHandler, Started
  <2>3. QED
    BY <2>1, <2>2 DEF Settle, local
<1>7. ASSUME NEW r \in Runs, NEW id \in Ids, Ingest(r, id)
      PROVE  VerdictMatchesCounts'
  <2>1. PICK o \in ItemOutcomes : Settle(r, id, o)
    BY <1>7 DEF Ingest, IngestOutcome, ItemOutcomes, GoodOutcomes
  <2>2. coreRun[r] = "running"
    BY <1>7 DEF Ingest, RunMatchesHandler, Started
  <2>3. QED
    BY <2>1, <2>2 DEF Settle, local
<1>8. ASSUME NEW r \in Runs, RecordItem(r)
      PROVE  VerdictMatchesCounts'
  BY <1>8 DEF RecordItem, local
<1>9. ASSUME NEW r \in Runs, FinalizeRun(r)
      PROVE  VerdictMatchesCounts'
  <2>1. TerminalStatus(r) \in Terminal /\ pc[r] = "finalize"
    BY <1>9 DEF FinalizeRun, TerminalStatus, CaptchaTerminal, Terminal
  <2>2. TerminalStatus(r) # "failed"
    BY <2>1 DEF TerminalStatus, CaptchaTerminal, CaptchaHit, CaptchaHasPage
  <2>3. TerminalStatus(r) = "success" => itemErrors[r] = {} /\ summaries[r] \subseteq itemOk[r]
    BY <2>1 DEF TerminalStatus, CaptchaTerminal, ItemsPartition
  <2>4. coreRun' \in {coreRun, [coreRun EXCEPT ![r] = TerminalStatus(r)]}
    BY <1>9 DEF FinalizeRun
  <2>5. QED
    BY <1>9, <2>2, <2>3, <2>4 DEF FinalizeRun, local, itemVars
<1>10. ASSUME NEW id \in Ids, OtherWriter(id)
       PROVE  VerdictMatchesCounts'
  BY <1>10 DEF OtherWriter, StoreVacancy, local, itemVars
<1>11. CASE UNCHANGED vars
  BY <1>11 DEF vars, local, itemVars, coreVars
<1>12. QED
  BY <1>1, <1>2, <1>3, <1>4, <1>5, <1>6, <1>7, <1>8, <1>9, <1>10, <1>11 DEF Next, Step

\* A run updates only what its last lookup did not report.
LEMMA MissedIsUnknownStep == IInv /\ [Next]_vars => MissedIsUnknown'
<1> SUFFICES ASSUME IInv, [Next]_vars PROVE MissedIsUnknown'
  OBVIOUS
<1>a. /\ pc \in [Runs -> Places]
      /\ pending \in [Runs -> PendingItems \cup {NoItem}]
      /\ coreItems \in [Runs -> [Ids -> ItemOutcomes \cup {"none"}]]
      /\ known \in [Runs -> SUBSET Ids]
      /\ vacancies \in [Ids -> Contents \cup {NoVacancy}]
      /\ details \in [Runs -> [Ids -> Details]]
  BY DEF IInv, TypeOK
<1>b. MissedIsUnknown /\ missed \in [Runs -> SUBSET Ids]
  BY DEF IInv, TypeOK
<1> USE <1>a, <1>b DEF MissedIsUnknown, Present, Places, Goto
<1>1. ASSUME NEW r \in Runs,
             StartRun(r) \/ StartFails(r) \/ Gate(r) \/ PageOk(r) \/ PageFails(r) \/
             (\E w \in Walls : HitWall(r, w)) \/ FilterDetails(r) \/
             (\E id \in Ids : OpenDetail(r, id)) \/ DetailsDone(r) \/ ReaderFails(r) \/
             Classify(r) \/ AbortRun(r)
      PROVE  MissedIsUnknown'
  BY <1>1 DEF StartRun, StartFails, Respond, Gate, PageOk, AfterPage, PageFails,
          HitWall, FilterDetails, FirstOf, LookupAnswers, OpenDetail, DetailsDone,
          ReaderFails, Classify, AbortRun, local, itemVars, coreVars
<1>2. ASSUME NEW r \in Runs, LookupAgain(r)
      PROVE  MissedIsUnknown'
  <2>1. \A id \in Ids : coreItems[r][id] = "none"
    BY <1>2 DEF LookupAgain, IInv, NothingCountedYet, Acquiring
  <2>2. QED
    BY <1>2, <2>1 DEF LookupAgain, LookupAnswers, local
<1>3. ASSUME NEW r \in Runs,
             (\E id \in Ids : SkipKnown(r, id)) \/
             (\E id \in Ids : NoUsableDetail(r, id))
      PROVE  MissedIsUnknown'
  BY <1>3 DEF SkipKnown, Settle, NoUsableDetail, local
<1>4. ASSUME NEW r \in Runs, NEW id \in Ids, Ingest(r, id)
      PROVE  MissedIsUnknown'
  BY <1>4 DEF Ingest, StoreVacancy, Settle, local
<1>5. ASSUME NEW r \in Runs, RecordItem(r)
      PROVE  MissedIsUnknown'
  BY <1>5 DEF RecordItem, local
<1>6. ASSUME NEW r \in Runs,
             ItemsDone(r) \/ FinalizeRun(r) \/ Crash(r)
      PROVE  MissedIsUnknown'
  BY <1>6 DEF ItemsDone, FinalizeRun, Respond, Crash, local, itemVars, coreVars
<1>7. ASSUME NEW id \in Ids, OtherWriter(id)
      PROVE  MissedIsUnknown'
  BY <1>7 DEF OtherWriter, StoreVacancy, local, itemVars
<1>8. CASE UNCHANGED vars
  BY <1>8 DEF vars, local, itemVars, coreVars
<1>9. QED
  BY <1>1, <1>2, <1>3, <1>4, <1>5, <1>6, <1>7, <1>8 DEF Next, Step

\* No two runs create the same vacancy.
LEMMA OneCreatorStep == IInv /\ [Next]_vars => OneCreator'
<1> SUFFICES ASSUME IInv, [Next]_vars PROVE OneCreator'
  OBVIOUS
<1>a. /\ pc \in [Runs -> Places]
      /\ pending \in [Runs -> PendingItems \cup {NoItem}]
      /\ coreItems \in [Runs -> [Ids -> ItemOutcomes \cup {"none"}]]
      /\ vacancies \in [Ids -> Contents \cup {NoVacancy}]
      /\ details \in [Runs -> [Ids -> Details]]
  BY DEF IInv, TypeOK
<1>b. OneCreator
  BY DEF IInv, TypeOK
<1> USE <1>a, <1>b DEF Places, Goto
<1>1. ASSUME NEW r \in Runs,
             StartRun(r) \/ StartFails(r) \/ Gate(r) \/ PageOk(r) \/ PageFails(r) \/
             (\E w \in Walls : HitWall(r, w)) \/ FilterDetails(r) \/
             (\E id \in Ids : OpenDetail(r, id)) \/ DetailsDone(r) \/ ReaderFails(r) \/
             Classify(r) \/ AbortRun(r)
      PROVE  OneCreator'
  BY <1>1 DEF StartRun, StartFails, Respond, Gate, PageOk, AfterPage, PageFails,
          HitWall, FilterDetails, FirstOf, LookupAnswers, OpenDetail, DetailsDone,
          ReaderFails, Classify, AbortRun, local, itemVars, coreVars, OneCreator, Claims, Present
<1>2. ASSUME NEW r \in Runs,
             LookupAgain(r) \/ ItemsDone(r) \/ FinalizeRun(r) \/ Crash(r)
      PROVE  OneCreator'
  BY <1>2 DEF LookupAgain, LookupAnswers, ItemsDone, FinalizeRun, Respond, Crash,
          local, itemVars, coreVars, OneCreator, Claims, Present
<1>3. ASSUME NEW r \in Runs, NEW id \in Ids, SkipKnown(r, id)
      PROVE  OneCreator'
  BY <1>3 DEF SkipKnown, Settle, local, OneCreator, Claims, Present
<1>4. ASSUME NEW r \in Runs, NEW id \in Ids, NoUsableDetail(r, id)
      PROVE  OneCreator'
  BY <1>4 DEF NoUsableDetail, Settle, local, OneCreator, Claims, Present
<1>5. ASSUME NEW r \in Runs, NEW id \in Ids, Ingest(r, id)
      PROVE  OneCreator'
  <2> DEFINE outcome == IngestOutcome(id, details[r][id])
  <2>1. details[r][id] \in Contents /\ pc[r] = "items"
    BY <1>5 DEF Ingest
  <2>2. Present \subseteq Present' /\ (vacancies' # vacancies => id \in Present')
    BY <1>5, <2>1, ContentAssumption DEF Ingest, StoreVacancy, Present
  <2>3. PICK o : Settle(r, id, o) /\ (o = "created" => id \in Present' /\ id \notin Present)
    <3>1. CASE StoreVacancy(id, details[r][id]) /\ Settle(r, id, outcome)
      BY <2>1, <3>1, ContentAssumption DEF StoreVacancy, IngestOutcome, Present
    <3>2. CASE Settle(r, id, "error")
      BY <3>2
    <3>3. QED
      BY <1>5, <3>1, <3>2 DEF Ingest
  <2>4. \A q \in Runs, x \in Ids :
           Claims(q, x)' => Claims(q, x) \/ (q = r /\ x = id /\ o = "created")
    BY <2>1, <2>3 DEF Settle, Claims
  <2>5. QED
    BY <2>2, <2>3, <2>4 DEF OneCreator
<1>6. ASSUME NEW r \in Runs, RecordItem(r)
      PROVE  OneCreator'
  <2>1. pc[r] = "record" /\ pending[r] \in PendingItems
    BY <1>6 DEF RecordItem, IInv, Located
  <2>2. Present' = Present
    BY <1>6 DEF RecordItem, Present
  <2>3. \A q \in Runs, x \in Ids : Claims(q, x)' => Claims(q, x)
    BY <1>6, <2>1 DEF RecordItem, Claims, PendingItems
  <2>4. QED
    BY <2>2, <2>3 DEF OneCreator
<1>7. ASSUME NEW id \in Ids, OtherWriter(id)
      PROVE  OneCreator'
  <2>1. Present \subseteq Present'
    BY <1>7, ContentAssumption DEF OtherWriter, StoreVacancy, Present
  <2>2. \A q \in Runs, x \in Ids : Claims(q, x)' <=> Claims(q, x)
    BY <1>7 DEF OtherWriter, itemVars, Claims
  <2>3. QED
    BY <2>1, <2>2 DEF OneCreator
<1>8. CASE UNCHANGED vars
  BY <1>8 DEF vars, local, itemVars, coreVars, OneCreator, Claims, Present
<1>9. QED
  BY <1>1, <1>2, <1>3, <1>4, <1>5, <1>6, <1>7, <1>8 DEF Next, Step

\* The guard answers before the first lookup of _process_unique_items, and nothing of
\* the acquisition changes afterwards.
LEMMA GuardPassedStep == IInv /\ [Next]_vars => GuardPassed'
<1> SUFFICES ASSUME IInv, [Next]_vars PROVE GuardPassed'
  OBVIOUS
<1>a. /\ pc \in [Runs -> Places]
      /\ heading \in [Runs -> {"none", "suitable", "other"}]
      /\ wall \in [Runs -> Walls \cup {"none"}]
      /\ itemOk \in [Runs -> SUBSET Ids]
      /\ itemErrors \in [Runs -> SUBSET Ids]
  BY DEF IInv, TypeOK
<1>b. GuardPassed /\ NothingCountedYet
  BY DEF IInv
<1> USE <1>a, <1>b, KindAssumption DEF GuardPassed, PastGuard, Places, Goto
<1>1. ASSUME NEW r \in Runs,
             StartRun(r) \/ StartFails(r) \/ Gate(r) \/ PageFails(r) \/ FilterDetails(r) \/
             (\E id \in Ids : OpenDetail(r, id)) \/ DetailsDone(r) \/ AbortRun(r)
      PROVE  GuardPassed'
  BY <1>1 DEF StartRun, StartFails, Respond, Gate, PageFails, AfterPage, FilterDetails,
          OpenDetail, DetailsDone, AbortRun, local, itemVars, coreVars
<1>2. ASSUME NEW r \in Runs,
             PageOk(r) \/ (\E w \in Walls : HitWall(r, w)) \/ ReaderFails(r)
      PROVE  GuardPassed'
  <2>1. itemOk[r] = {} /\ itemErrors[r] = {}
    BY <1>2 DEF PageOk, HitWall, ReaderFails, NothingCountedYet, Acquiring
  <2>2. /\ pc' = [pc EXCEPT ![r] = pc'[r]]
        /\ pc'[r] \notin PastGuard
        /\ UNCHANGED itemVars
    BY <1>2 DEF PageOk, AfterPage, HitWall, ReaderFails
  <2>3. \A q \in Runs \ {r} : heading'[q] = heading[q] /\ wall'[q] = wall[q]
    BY <1>2 DEF PageOk, HitWall, ReaderFails
  <2>4. QED
    BY <2>1, <2>2, <2>3 DEF itemVars
<1>3. ASSUME NEW r \in Runs, Classify(r)
      PROVE  GuardPassed'
  <2>1. ASSUME r \in Suitable, heading[r] # "suitable", wall[r] = "none"
        PROVE  Blocked(r, AcquireStatus(r))
    <3>1. CASE okPages[r] = {}
      BY <2>1, <3>1 DEF AcquireStatus, Blocked
    <3>2. CASE okPages[r] # {}
      BY <2>1, <3>2 DEF AcquireStatus, Blocked, GuardRejects
    <3>3. QED
      BY <3>1, <3>2
  <2>2. QED
    BY <1>3, <2>1 DEF Classify, local, itemVars
<1>4. ASSUME NEW r \in Runs,
             LookupAgain(r) \/ RecordItem(r) \/ ItemsDone(r) \/ FinalizeRun(r) \/ Crash(r)
      PROVE  GuardPassed'
  BY <1>4 DEF LookupAgain, RecordItem, ItemsDone, FinalizeRun, Respond, Crash,
          local, itemVars, coreVars
<1>5. ASSUME NEW r \in Runs, NEW id \in Ids,
             SkipKnown(r, id) \/ NoUsableDetail(r, id) \/ Ingest(r, id)
      PROVE  GuardPassed'
  BY <1>5 DEF SkipKnown, NoUsableDetail, Ingest, Settle, local
<1>6. ASSUME NEW id \in Ids, OtherWriter(id)
      PROVE  GuardPassed'
  BY <1>6 DEF OtherWriter, local, itemVars
<1>7. CASE UNCHANGED vars
  BY <1>7 DEF vars, local, itemVars, coreVars
<1>8. QED
  BY <1>1, <1>2, <1>3, <1>4, <1>5, <1>6, <1>7 DEF Next, Step

\* The three places that answer say no more than Core was told.
LEMMA ResponseIsHonestStep == IInv /\ [Next]_vars => ResponseIsHonest'
<1> SUFFICES ASSUME IInv, [Next]_vars PROVE ResponseIsHonest'
  OBVIOUS
<1>a. /\ pc \in [Runs -> Places]
      /\ coreRun \in [Runs -> Terminal \cup {"running", "none"}]
      /\ report \in [Runs -> Terminal \cup {"action_required", "none"}]
  BY DEF IInv, TypeOK
<1>b. ResponseIsHonest
  BY DEF IInv
<1> USE <1>a, <1>b DEF ResponseIsHonest, Places, Goto
<1>1. ASSUME NEW r \in Runs, StartFails(r) \/ AbortRun(r)
      PROVE  ResponseIsHonest'
  BY <1>1 DEF StartFails, AbortRun, Respond
<1>2. ASSUME NEW r \in Runs, FinalizeRun(r)
      PROVE  ResponseIsHonest'
  <2> DEFINE status == TerminalStatus(r)
             answer == IF CaptchaHit(r) THEN "action_required" ELSE status
  <2>1. pc[r] = "finalize"
    BY <1>2 DEF FinalizeRun
  <2>2. status \in {"success", "partial"} /\ (CaptchaHit(r) => status = "partial")
    BY <2>1 DEF TerminalStatus, CaptchaTerminal, CaptchaHit, IInv, CaptchaHasPage
  <2>3. CASE coreRun' = [coreRun EXCEPT ![r] = status] /\ Respond(r, answer)
    <3>1. coreRun'[r] = status /\ report'[r] = answer
      BY <2>3 DEF Respond
    <3>2. \A q \in Runs \ {r} :
             pc'[q] = pc[q] /\ coreRun'[q] = coreRun[q] /\ report'[q] = report[q]
      BY <2>3 DEF Respond
    <3>3. QED
      BY <2>2, <3>1, <3>2
  <2>4. CASE coreRun' \in {coreRun, [coreRun EXCEPT ![r] = status]} /\ Respond(r, "failed")
    <3>1. report'[r] = "failed"
      BY <2>4 DEF Respond
    <3>2. \A q \in Runs \ {r} :
             pc'[q] = pc[q] /\ coreRun'[q] = coreRun[q] /\ report'[q] = report[q]
      BY <2>4 DEF Respond
    <3>3. QED
      BY <3>1, <3>2
  <2>5. QED
    BY <1>2, <2>3, <2>4 DEF FinalizeRun
<1>3. ASSUME NEW r \in Runs,
             \/ StartRun(r) \/ Gate(r) \/ PageOk(r) \/ PageFails(r)
             \/ (\E w \in Walls : HitWall(r, w)) \/ FilterDetails(r)
             \/ (\E id \in Ids : OpenDetail(r, id)) \/ DetailsDone(r)
             \/ ReaderFails(r) \/ Classify(r)
      PROVE  ResponseIsHonest'
  BY <1>3 DEF StartRun, Gate, PageOk, AfterPage, PageFails, HitWall, FilterDetails,
          OpenDetail, DetailsDone, ReaderFails, Classify, coreVars
<1>4. ASSUME NEW r \in Runs,
             LookupAgain(r) \/ RecordItem(r) \/ ItemsDone(r) \/ Crash(r)
      PROVE  ResponseIsHonest'
  BY <1>4 DEF LookupAgain, RecordItem, ItemsDone, Crash, coreVars
<1>5. ASSUME NEW r \in Runs, NEW id \in Ids,
             SkipKnown(r, id) \/ NoUsableDetail(r, id) \/ Ingest(r, id)
      PROVE  ResponseIsHonest'
  BY <1>5 DEF SkipKnown, NoUsableDetail, Ingest, Settle
<1>6. ASSUME NEW id \in Ids, OtherWriter(id)
      PROVE  ResponseIsHonest'
  BY <1>6 DEF OtherWriter
<1>7. CASE UNCHANGED vars
  BY <1>7 DEF vars, coreVars
<1>8. QED
  BY <1>1, <1>2, <1>3, <1>4, <1>5, <1>6, <1>7 DEF Next, Step

\* A run writes nothing another one works on; they meet in Core only.
LEMMA OthersRest ==
  ASSUME TypeOK, NEW q \in Runs, Step(q) \/ Crash(q), NEW r \in Runs, r # q
  PROVE  UNCHANGED HandlerState(r)
<1> USE DEF HandlerState, TypeOK, Goto, local, itemVars
<1>1. CASE StartRun(q) \/ StartFails(q) \/ Gate(q) \/ Classify(q) \/ DetailsDone(q) \/ Crash(q)
  BY <1>1 DEF StartRun, StartFails, Respond, Gate, Classify, DetailsDone, Crash
<1>2. CASE PageOk(q) \/ PageFails(q) \/ ReaderFails(q) \/ \E w \in Walls : HitWall(q, w)
  BY <1>2 DEF PageOk, PageFails, ReaderFails, HitWall
<1>3. CASE FilterDetails(q)
  <2>1. \/ pc' = [pc EXCEPT ![q] = "acquired"]
        \/ pc' = [pc EXCEPT ![q] = "details"]
    BY <1>3, Zenon DEF FilterDetails
  <2>2. known'[r] = known[r] /\ targets'[r] = targets[r]
    <3>1. \/ UNCHANGED <<known, targets>>
          \/ \E found \in LookupAnswers(summaries[q]) :
                /\ known' = [known EXCEPT ![q] = @ \cup found]
                /\ \E chosen \in FirstOf(summaries[q] \ known'[q], DetailLimit) :
                      targets' = [targets EXCEPT ![q] = chosen]
      BY <1>3, Zenon DEF FilterDetails
    <3>2. QED
      BY <3>1
  <2>3. QED
    BY <1>3, <2>1, <2>2 DEF FilterDetails
<1>4. CASE AbortRun(q) \/ LookupAgain(q) \/ RecordItem(q) \/ ItemsDone(q) \/ FinalizeRun(q)
  BY <1>4 DEF AbortRun, LookupAgain, RecordItem, ItemsDone, FinalizeRun, Respond
<1>5. ASSUME NEW id \in Ids, OpenDetail(q, id)
      PROVE  UNCHANGED HandlerState(r)
  BY <1>5 DEF OpenDetail
<1>6. ASSUME NEW id \in Ids, NEW outcome, Settle(q, id, outcome)
      PROVE  UNCHANGED HandlerState(r)
  BY <1>6 DEF Settle
<1>7. ASSUME NEW id \in Ids, SkipKnown(q, id) \/ NoUsableDetail(q, id) \/ Ingest(q, id)
      PROVE  UNCHANGED HandlerState(r)
  BY <1>6, <1>7 DEF SkipKnown, NoUsableDetail, Ingest
<1>8. QED
  BY <1>1, <1>2, <1>3, <1>4, <1>5, <1>7 DEF Step

\* What a run has acquired is what it read, as long as it uses it.
LEMMA AcquiredIsCompleteStep == IInv /\ [Next]_vars => AcquiredIsComplete'
<1> SUFFICES ASSUME IInv, [Next]_vars, NEW r \in Runs PROVE Complete(r)'
  BY DEF AcquiredIsComplete
<1>0. Complete(r) /\ TypeOK /\ Located
  BY DEF IInv, AcquiredIsComplete
<1>a. /\ pc \in [Runs -> Places] /\ page[r] \in Nat
      /\ page \in [Runs -> 1..(MaxPages + 1)]
      /\ pc[r] = "serp" => page[r] \in 1..MaxPages
      /\ okPages \in [Runs -> SUBSET Pages] /\ failedPages \in [Runs -> SUBSET Pages]
      /\ wall \in [Runs -> Walls \cup {"none"}]
      /\ acquired \in [Runs -> Statuses \cup {"none"}]
  BY <1>0, PagesAssumption DEF TypeOK, Located, Pages
<1> USE DEF Goto, PastGuard
\* The same reading gives the same status.
<1>1. ASSUME UNCHANGED <<okPages[r], failedPages[r], heading[r], wall[r], details[r]>>
      PROVE  /\ AcquireStatus(r)' = AcquireStatus(r)
             /\ Blocked(r, AcquireStatus(r))' = Blocked(r, AcquireStatus(r))
  <2>1. AcquireStatus(r)' = AcquireStatus(r)
    BY <1>1 DEF AcquireStatus, GuardRejects, DetailFailed
  <2>2. QED
    BY <1>1, <2>1 DEF Blocked
<1>2. ASSUME UNCHANGED HandlerState(r)
      PROVE  Complete(r)'
  BY <1>0, <1>1, <1>2 DEF HandlerState, Complete
<1>3. CASE PageOk(r) \/ PageFails(r)
  <2>1. /\ pc[r] = "serp" /\ page' = [page EXCEPT ![r] = @ + 1] /\ wall' = wall
        /\ pc' = [pc EXCEPT ![r] = AfterPage(r)]
        /\ \/ okPages' = [okPages EXCEPT ![r] = @ \cup {page[r]}] /\ failedPages' = failedPages
           \/ failedPages' = [failedPages EXCEPT ![r] = @ \cup {page[r]}] /\ okPages' = okPages
    BY <1>3 DEF PageOk, PageFails
  <2>2. okPages'[r] \cup failedPages'[r] = (1..(page[r] - 1)) \cup {page[r]}
    BY <1>0, <1>a, <2>1 DEF Complete
  <2>3. /\ page'[r] = page[r] + 1 /\ wall'[r] = "none"
        /\ pc'[r] = IF page[r] = MaxPages THEN "filter" ELSE "serp"
    BY <1>0, <1>a, <2>1 DEF AfterPage, Complete
  <2>4. (1..(page[r] - 1)) \cup {page[r]} = 1..(page'[r] - 1)
    BY <1>a, <2>1, <2>3
  <2>5. QED
    BY <2>2, <2>3, <2>4 DEF Complete
<1>4. CASE FilterDetails(r)
  <2>1. pc[r] = "filter" /\ UNCHANGED <<page, okPages, failedPages, wall>>
    BY <1>4 DEF FilterDetails
  <2>2. pc' = [pc EXCEPT ![r] = "acquired"] \/ pc' = [pc EXCEPT ![r] = "details"]
    BY <1>4, Zenon DEF FilterDetails
  <2>3. pc'[r] \in {"acquired", "details"}
    BY <1>a, <2>2
  <2>4. /\ wall[r] = "none" /\ page[r] = MaxPages + 1
        /\ okPages[r] \cup failedPages[r] = 1..(page[r] - 1)
    BY <1>0, <2>1 DEF Complete
  <2>5. okPages[r] \cup failedPages[r] = Pages
    BY <2>4, PagesAssumption DEF Pages
  <2>6. QED
    BY <2>1, <2>3, <2>4, <2>5 DEF Complete
<1>5. CASE (\E id \in Ids : OpenDetail(r, id)) \/ DetailsDone(r)
  <2>1. /\ pc[r] = "details" /\ UNCHANGED <<page, okPages, failedPages, wall>>
        /\ pc'[r] \in {"details", "acquired"}
    BY <1>a, <1>5 DEF OpenDetail, DetailsDone, local
  <2>2. /\ wall[r] = "none" /\ page[r] = MaxPages + 1
        /\ okPages[r] \cup failedPages[r] = 1..(page[r] - 1)
    BY <1>0, <2>1 DEF Complete
  <2>3. okPages[r] \cup failedPages[r] = Pages
    BY <2>2, PagesAssumption DEF Pages
  <2>4. QED
    BY <2>1, <2>2, <2>3 DEF Complete
<1>6. ASSUME NEW w \in Walls, HitWall(r, w)
      PROVE  Complete(r)'
  <2>1. pc'[r] = "acquired" /\ wall'[r] # "none"
    BY <1>a, <1>6 DEF HitWall, Walls
  <2>2. QED
    BY <2>1 DEF Complete
<1>7. CASE Classify(r)
  <2>1. /\ pc[r] = "acquired" /\ UNCHANGED <<page, okPages, failedPages, heading, wall, details>>
        /\ acquired'[r] = AcquireStatus(r)
        /\ pc'[r] = IF Blocked(r, AcquireStatus(r)) THEN "abort" ELSE "lookup"
    BY <1>a, <1>7 DEF Classify, local
  <2>2. QED
    BY <1>0, <1>1, <2>1 DEF Complete
<1>8. CASE StartRun(r) \/ Gate(r)
  <2>1. /\ pc[r] \in {"idle", "gate"} /\ pc'[r] \in {"gate", "serp", "abort"}
        /\ UNCHANGED <<page, okPages, failedPages, wall>>
    BY <1>a, <1>8 DEF StartRun, Gate, local
  <2>2. QED
    BY <1>0, <2>1 DEF Complete
<1>9. CASE StartFails(r) \/ ReaderFails(r) \/ AbortRun(r) \/ FinalizeRun(r) \/ Crash(r)
  <2>1. pc'[r] \in {"done", "abort", "crashed"}
    BY <1>a, <1>9 DEF StartFails, Respond, ReaderFails, AbortRun, FinalizeRun, Crash
  <2>2. QED
    BY <2>1 DEF Complete
<1>10. ASSUME pc[r] \in PastGuard, pc'[r] \in PastGuard, UNCHANGED <<local, acquired>>
       PROVE  Complete(r)'
  BY <1>0, <1>1, <1>10 DEF Complete, local
<1>11. CASE LookupAgain(r) \/ RecordItem(r) \/ ItemsDone(r)
  <2>1. pc[r] \in PastGuard /\ pc'[r] \in PastGuard /\ UNCHANGED <<local, acquired>>
    BY <1>a, <1>11 DEF LookupAgain, RecordItem, ItemsDone
  <2>2. QED
    BY <1>10, <2>1
<1>12. ASSUME NEW id \in Ids, SkipKnown(r, id) \/ NoUsableDetail(r, id) \/ Ingest(r, id)
       PROVE  Complete(r)'
  <2>1. pc[r] \in PastGuard /\ pc'[r] \in PastGuard /\ UNCHANGED <<local, acquired>>
    BY <1>a, <1>12 DEF SkipKnown, NoUsableDetail, Ingest, Settle
  <2>2. QED
    BY <1>10, <2>1
<1>13. ASSUME NEW q \in Runs, Step(q) \/ Crash(q), q # r
       PROVE  Complete(r)'
  BY <1>0, <1>2, <1>13, OthersRest
<1>14. ASSUME (\E id \in Ids : OtherWriter(id)) \/ UNCHANGED vars
       PROVE  Complete(r)'
  BY <1>2, <1>14 DEF OtherWriter, HandlerState, vars, local, itemVars
<1>15. CASE Step(r)
  BY <1>3, <1>4, <1>5, <1>6, <1>7, <1>8, <1>9, <1>11, <1>12, <1>15 DEF Step
<1>16. QED
  BY <1>9, <1>13, <1>14, <1>15 DEF Next

\* A run becomes successful with vacancies only if nothing of its acquisition failed.
LEMMA SuccessIsComplete ==
  ASSUME IInv, NEW r \in Runs, pc[r] = "finalize", TerminalStatus(r) = "success",
         itemOk[r] # {}
  PROVE  /\ okPages[r] = Pages /\ failedPages[r] = {} /\ wall[r] = "none"
         /\ ~DetailFailed(r)
<1>1. /\ failedPages[r] = {} /\ acquired[r] # "partial" /\ acquired[r] # "action_required"
  BY DEF TerminalStatus, CaptchaTerminal, CaptchaHit
<1>2. /\ Complete(r) /\ acquired[r] = AcquireStatus(r) /\ ~Blocked(r, acquired[r])
      /\ wall[r] \in Walls \cup {"none"}
  BY DEF IInv, TypeOK, AcquiredIsComplete, Complete, PastGuard
<1>3. okPages[r] # {}
  <2> SUFFICES ASSUME okPages[r] = {} PROVE FALSE
    OBVIOUS
  <2>1. CASE wall[r] = "none"
    BY <1>2, <2>1 DEF AcquireStatus, Blocked
  <2>2. CASE wall[r] # "none"
    <3>1. acquired[r] \in {"action_required", "not_authorized", "permission_blocked"}
      BY <1>2, <2>2 DEF AcquireStatus, WallStatus, Walls
    <3>2. QED
      BY <1>2, <3>1 DEF Blocked
  <2>3. QED
    BY <2>1, <2>2
<1>4. wall[r] = "none"
  <2>1. wall[r] # "none" => acquired[r] \in {"action_required", "partial"}
    BY <1>2, <1>3 DEF AcquireStatus, WallStatus, Walls
  <2>2. QED
    BY <1>1, <2>1
<1>5. okPages[r] = Pages
  BY <1>1, <1>2, <1>4 DEF Complete, PastGuard
<1>6. ~DetailFailed(r)
  <2>1. DetailFailed(r) => acquired[r] \in {"partial", "mismatch"}
    BY <1>2, <1>3, <1>4 DEF AcquireStatus
  <2>2. QED
    BY <1>1, <1>2, <2>1 DEF Blocked
<1>7. QED
  BY <1>1, <1>4, <1>5, <1>6

\* No step makes a verdict in Core untrue: a run that has one is done.
LEMMA VerdictIsTrueStep == IInv /\ [Next]_vars => VerdictIsTrue'
<1> SUFFICES ASSUME IInv, [Next]_vars, NEW r \in Runs,
                    coreRun'[r] = "success", itemOk'[r] # {}
             PROVE  /\ okPages'[r] = Pages /\ failedPages'[r] = {} /\ wall'[r] = "none"
                    /\ ~DetailFailed(r)'
  BY VerdictMatchesCountsStep DEF VerdictMatchesCounts, VerdictIsTrue
<1>0. /\ TypeOK /\ pc \in [Runs -> Places]
      /\ coreRun \in [Runs -> Terminal \cup {"running", "none"}]
      /\ coreRun[r] = "success" => pc[r] = "done"
  BY DEF IInv, TypeOK, RunMatchesHandler, Terminal
<1> USE DEF Goto
<1>1. ASSUME UNCHANGED HandlerState(r), coreRun'[r] = coreRun[r]
      PROVE  /\ okPages'[r] = Pages /\ failedPages'[r] = {} /\ wall'[r] = "none"
             /\ ~DetailFailed(r)'
  BY <1>1 DEF HandlerState, IInv, VerdictIsTrue, DetailFailed
<1>2. CASE FinalizeRun(r)
  <2>1. pc[r] = "finalize" /\ coreRun[r] # "success" /\ UNCHANGED <<local, itemVars>>
    BY <1>0, <1>2 DEF FinalizeRun
  <2>2. coreRun' = coreRun \/ coreRun' = [coreRun EXCEPT ![r] = TerminalStatus(r)]
    BY <1>2 DEF FinalizeRun
  <2>3. TerminalStatus(r) = "success" /\ itemOk[r] # {}
    BY <1>0, <2>1, <2>2 DEF itemVars
  <2>4. QED
    BY <2>1, <2>3, SuccessIsComplete DEF local, DetailFailed
<1>3. CASE AbortRun(r) \/ StartRun(r) \/ StartFails(r)
  <2>1. pc[r] # "done" /\ coreRun'[r] \in {coreRun[r], "failed", "running"}
    BY <1>0, <1>3 DEF AbortRun, StartRun, StartFails
  <2>2. QED
    BY <1>0, <2>1
<1>4. ASSUME \/ Gate(r) \/ PageOk(r) \/ PageFails(r) \/ (\E w \in Walls : HitWall(r, w))
             \/ FilterDetails(r) \/ (\E id \in Ids : OpenDetail(r, id)) \/ DetailsDone(r)
             \/ ReaderFails(r) \/ Classify(r) \/ LookupAgain(r) \/ RecordItem(r)
             \/ ItemsDone(r) \/ Crash(r)
      PROVE  FALSE
  <2>1. pc[r] # "done" /\ coreRun' = coreRun
    BY <1>4 DEF Gate, PageOk, PageFails, HitWall, FilterDetails, OpenDetail, DetailsDone,
                ReaderFails, Classify, LookupAgain, RecordItem, ItemsDone, Crash, coreVars
  <2>2. QED
    BY <1>0, <2>1
<1>5. ASSUME NEW id \in Ids, SkipKnown(r, id) \/ NoUsableDetail(r, id) \/ Ingest(r, id)
      PROVE  FALSE
  <2>1. pc[r] # "done" /\ coreRun' = coreRun
    BY <1>5 DEF SkipKnown, NoUsableDetail, Ingest, Settle
  <2>2. QED
    BY <1>0, <2>1
<1>6. ASSUME NEW q \in Runs, Step(q) \/ Crash(q), q # r
      PROVE  UNCHANGED HandlerState(r) /\ coreRun'[r] = coreRun[r]
  <2>1. UNCHANGED HandlerState(r)
    BY <1>0, <1>6, OthersRest
  <2>2. coreRun'[r] = coreRun[r]
    <3>1. ASSUME NEW id \in Ids, SkipKnown(q, id) \/ NoUsableDetail(q, id) \/ Ingest(q, id)
          PROVE  coreRun' = coreRun
      BY <3>1 DEF SkipKnown, NoUsableDetail, Ingest, Settle
    <3>2. CASE StartRun(q) \/ StartFails(q) \/ AbortRun(q) \/ FinalizeRun(q)
      BY <1>0, <1>6, <3>2 DEF StartRun, StartFails, AbortRun, FinalizeRun
    <3>3. CASE \/ Gate(q) \/ PageOk(q) \/ PageFails(q) \/ (\E w \in Walls : HitWall(q, w))
               \/ FilterDetails(q) \/ (\E id \in Ids : OpenDetail(q, id)) \/ DetailsDone(q)
               \/ ReaderFails(q) \/ Classify(q) \/ LookupAgain(q) \/ RecordItem(q)
               \/ ItemsDone(q) \/ Crash(q)
      BY <3>3 DEF Gate, PageOk, PageFails, HitWall, FilterDetails, OpenDetail, DetailsDone,
                  ReaderFails, Classify, LookupAgain, RecordItem, ItemsDone, Crash, coreVars
    <3>4. QED
      BY <1>6, <3>1, <3>2, <3>3 DEF Step
  <2>3. QED
    BY <2>1, <2>2
<1>7. ASSUME (\E id \in Ids : OtherWriter(id)) \/ UNCHANGED vars
      PROVE  UNCHANGED HandlerState(r) /\ coreRun'[r] = coreRun[r]
  BY <1>7 DEF OtherWriter, HandlerState, vars, local, itemVars, coreVars
<1>8. CASE Step(r)
  BY <1>2, <1>3, <1>4, <1>5, <1>8 DEF Step
<1>9. QED
  BY <1>1, <1>4, <1>6, <1>7, <1>8 DEF Next

-----------------------------------------------------------------------------
(* The inductive invariant and what follows from it.                       *)

\* The invariant holds before any run starts.
LEMMA InitIInv == Init => IInv
<1> SUFFICES ASSUME Init PROVE IInv
  OBVIOUS
<1>1. TypeOK /\ Located
  BY PagesAssumption DEF Init, TypeOK, Located, Places, NoItem, Details, Pages
<1>2. /\ RunMatchesHandler /\ NothingCountedYet /\ ItemsPartition
      /\ CountedIsStored /\ CaptchaHasPage /\ VerdictMatchesCounts
  BY DEF Init, RunMatchesHandler, NothingCountedYet, ItemsPartition, CountedIsStored,
         CaptchaHasPage, VerdictMatchesCounts, Started, Terminal, GoodOutcomes
<1>3. RecordedIsCounted
  BY DEF Init, RecordedIsCounted, GoodOutcomes
<1>4. MissedIsUnknown /\ OneCreator
  BY DEF Init, MissedIsUnknown, OneCreator, Claims
<1>5. GuardPassed /\ ResponseIsHonest
  BY KindAssumption DEF Init, GuardPassed, PastGuard, ResponseIsHonest
<1>6. AcquiredIsComplete /\ VerdictIsTrue
  BY DEF Init, AcquiredIsComplete, Complete, PastGuard, VerdictIsTrue
<1>7. QED
  BY <1>1, <1>2, <1>3, <1>4, <1>5, <1>6 DEF IInv

\* Every step of a run, a crash or another writer preserves the invariant.
LEMMA NextIInv == IInv /\ [Next]_vars => IInv'
  BY TypeStep, LocatedStep, RunMatchesHandlerStep, NothingCountedYetStep, ItemsPartitionStep,
     RecordedIsCountedStep, CountedIsStoredStep, CaptchaHasPageStep, VerdictMatchesCountsStep,
     MissedIsUnknownStep, OneCreatorStep, GuardPassedStep, ResponseIsHonestStep,
     AcquiredIsCompleteStep, VerdictIsTrueStep
     DEF IInv

\* Hence it holds in every reachable state.
LEMMA InductiveInvariant == Spec => []IInv
  BY InitIInv, NextIInv, PTL DEF Spec

\* The state has its type in every reachable state.
THEOREM TypeCorrect == Spec => []TypeOK
<1>1. IInv => TypeOK
  BY DEF IInv
<1>2. QED
  BY <1>1, InductiveInvariant, PTL

\* The status in Core is true of the acquisition: a failed run counted no vacancy, and a
\* successful one that has vacancies read every page and lost no card.
THEOREM VerdictsAreTrue == Spec => []VerdictIsTrue
<1>1. IInv => VerdictIsTrue
  BY DEF IInv
<1>2. QED
  BY <1>1, InductiveInvariant, PTL

\* Every created, updated or unchanged item, and every vacancy of a successful run,
\* is stored in Core.
THEOREM ClaimsAlwaysBacked == Spec => []ClaimsAreBacked
<1>1. IInv => ClaimsAreBacked
  BY DEF IInv, TypeOK, RecordedIsCounted, CountedIsStored, VerdictMatchesCounts, ClaimsAreBacked
<1>2. QED
  BY <1>1, InductiveInvariant, PTL

\* Create-only: only a vacancy that the last lookup of the run failed to report, or
\* that was stored after it, is ever updated.
THEOREM CreateOnlyUnlessMissed == Spec => []UpdatesOnlyMissed
<1>1. IInv => UpdatesOnlyMissed
  BY DEF IInv, MissedIsUnknown, UpdatesOnlyMissed
<1>2. QED
  BY <1>1, InductiveInvariant, PTL

\* Overlapping runs never both report a vacancy as created.
THEOREM CreatedAtMostOnce == Spec => []CreatedOnce
<1>1. IInv => CreatedOnce
  BY DEF IInv, OneCreator, Claims, CreatedOnce
<1>2. QED
  BY <1>1, InductiveInvariant, PTL

\* The response claims success or partial only as Core was told, a CAPTCHA answer goes
\* with a partial run, and a run that stays running in Core is answered as failed:
\* through every lost answer and every failing start or finalize.
THEOREM ResponsesAreHonest == Spec => []ResponseIsHonest
<1>1. IInv => ResponseIsHonest
  BY DEF IInv
<1>2. QED
  BY <1>1, InductiveInvariant, PTL

\* A resume_suitable run that no wall stopped counts a vacancy only under the heading of
\* the suitable vacancies.
THEOREM GuardRunsBeforeIngest == Spec => []GuardedUnlessWalled
<1>1. IInv => GuardedUnlessWalled
  BY DEF IInv, GuardPassed, GuardedUnlessWalled
<1>2. QED
  BY <1>1, InductiveInvariant, PTL

\* Each step of the orchestration is a step of the promised life cycle, or leaves
\* Core's run and items alone.
LEMMA StepImplementsContract ==
    IInv /\ [Next]_vars => [Contract!CNext]_(Contract!contractVars)
<1> SUFFICES ASSUME IInv, [Next]_vars
             PROVE  \/ Contract!CNext
                    \/ coreRun' = coreRun /\ coreItems' = coreItems
  BY DEF Contract!contractVars
<1> USE DEF Contract!CNext
<1>a. /\ coreRun \in [Runs -> Terminal \cup {"running", "none"}]
      /\ coreItems \in [Runs -> [Ids -> ItemOutcomes \cup {"none"}]]
  BY DEF IInv, TypeOK
<1>b. Contract!Terminal = Terminal /\ Contract!ItemOutcomes = ItemOutcomes
  BY DEF Contract!Terminal, Terminal, Contract!ItemOutcomes, ItemOutcomes,
         Contract!GoodOutcomes, GoodOutcomes
<1>1. ASSUME NEW r \in Runs, pc[r] = "idle",
             coreRun' = [coreRun EXCEPT ![r] = "running"], UNCHANGED coreItems
      PROVE  Contract!CNext
  BY <1>1 DEF Contract!Open, IInv, RunMatchesHandler
<1>2. ASSUME NEW r \in Runs, AbortRun(r)
      PROVE  Contract!CNext \/ (coreRun' = coreRun /\ coreItems' = coreItems)
  <2>1. CASE coreRun' = [coreRun EXCEPT ![r] = "failed"]
    <3>1. coreRun[r] = "running" /\ \A id \in Ids : coreItems[r][id] = "none"
      BY <1>2 DEF AbortRun, IInv, RunMatchesHandler, NothingCountedYet, Acquiring, Started
    <3>2. Contract!Close(r, "failed")
      BY <1>2, <2>1, <3>1 DEF AbortRun, Contract!Close
    <3>3. QED
      BY <3>2, <1>b DEF Terminal
  <2>2. CASE UNCHANGED coreRun
    BY <1>2, <2>2 DEF AbortRun
  <2>3. QED
    BY <1>2, <2>1, <2>2 DEF AbortRun
<1>3. ASSUME NEW r \in Runs, RecordItem(r)
      PROVE  Contract!CNext \/ (coreRun' = coreRun /\ coreItems' = coreItems)
  <2>1. CASE coreItems' = [coreItems EXCEPT ![r][pending[r].id] = pending[r].outcome]
    <3>1. /\ pending[r].id \in Ids /\ pending[r].outcome \in ItemOutcomes
          /\ coreRun[r] = "running" /\ coreItems[r][pending[r].id] = "none"
      BY <1>3 DEF RecordItem, IInv, Located, PendingItems, RunMatchesHandler, Started,
                  RecordedIsCounted
    <3>2. Contract!AddItem(r, pending[r].id)
      BY <1>3, <2>1, <3>1, <1>b DEF RecordItem, Contract!AddItem
    <3>3. QED
      BY <3>1, <3>2
  <2>2. CASE UNCHANGED coreItems
    BY <1>3, <2>2 DEF RecordItem
  <2>3. QED
    BY <1>3, <2>1, <2>2 DEF RecordItem
<1>4. ASSUME NEW r \in Runs, FinalizeRun(r)
      PROVE  Contract!CNext \/ (coreRun' = coreRun /\ coreItems' = coreItems)
  <2> DEFINE status == TerminalStatus(r)
  <2>1. CASE coreRun' = [coreRun EXCEPT ![r] = status]
    <3>1. status \in Terminal /\ coreRun[r] = "running"
      BY <1>4
         DEF FinalizeRun, TerminalStatus, CaptchaTerminal, Terminal, IInv,
             RunMatchesHandler, Started
    <3>2. status # "failed"
      BY <1>4 DEF FinalizeRun, TerminalStatus, CaptchaTerminal, CaptchaHit, IInv, CaptchaHasPage
    <3>3. status = "success" => \A id \in Ids : coreItems[r][id] # "error"
      BY <1>4 DEF FinalizeRun, TerminalStatus, CaptchaTerminal, IInv, RecordedIsCounted
    <3>4. Contract!Close(r, status)
      BY <1>4, <2>1, <3>1, <3>2, <3>3 DEF FinalizeRun, Contract!Close
    <3>5. QED
      BY <3>1, <3>4, <1>b
  <2>2. CASE UNCHANGED coreRun
    BY <1>4, <2>2 DEF FinalizeRun
  <2>3. QED
    BY <1>4, <2>1, <2>2 DEF FinalizeRun
<1>5. ASSUME NEW r \in Runs, StartRun(r) \/ StartFails(r)
      PROVE  Contract!CNext \/ (coreRun' = coreRun /\ coreItems' = coreItems)
  BY <1>1, <1>5 DEF StartRun, StartFails
<1>6. ASSUME NEW r \in Runs,
             \/ Gate(r) \/ PageOk(r) \/ PageFails(r) \/ (\E w \in Walls : HitWall(r, w))
             \/ FilterDetails(r) \/ (\E id \in Ids : OpenDetail(r, id)) \/ DetailsDone(r)
             \/ ReaderFails(r) \/ Classify(r) \/ LookupAgain(r) \/ ItemsDone(r) \/ Crash(r)
      PROVE  coreRun' = coreRun /\ coreItems' = coreItems
  BY <1>6 DEF Gate, PageOk, PageFails, HitWall, FilterDetails, OpenDetail, DetailsDone,
              ReaderFails, Classify, LookupAgain, ItemsDone, Crash, coreVars
<1>7. ASSUME NEW r \in Runs, NEW id \in Ids,
             SkipKnown(r, id) \/ NoUsableDetail(r, id) \/ Ingest(r, id)
      PROVE  coreRun' = coreRun /\ coreItems' = coreItems
  BY <1>7 DEF SkipKnown, NoUsableDetail, Ingest, Settle
<1>8. ASSUME NEW id \in Ids, OtherWriter(id)
      PROVE  coreRun' = coreRun /\ coreItems' = coreItems
  BY <1>8 DEF OtherWriter
<1>9. CASE UNCHANGED vars
  BY <1>9 DEF vars, coreVars
<1>10. QED
  BY <1>2, <1>3, <1>4, <1>5, <1>6, <1>7, <1>8, <1>9 DEF Next, Step

\* SearchRun implements SearchRunContract: runs open once, get each item at most once
\* while running, close at most once, fail only without items and succeed only
\* without error items.
THEOREM ContractImplemented == Spec => ImplementsContract
<1>1. Init => Contract!CInit
  BY DEF Init, Contract!CInit
<1>2. QED
  BY <1>1, StepImplementsContract, InductiveInvariant, PTL
     DEF Spec, ImplementsContract, Contract!CSpec
-----------------------------------------------------------------------------
(* Runs go onward.                                                         *)

\* Each step of a run leads it onward.
LEMMA OnwardStep ==
  ASSUME TypeOK, Located, NEW r \in Runs, Step(r) \/ Crash(r)
  PROVE  Onward(r)
<1>0. /\ pc \in [Runs -> Places] /\ page[r] \in Nat
      /\ pc[r] = "serp" => page[r] \in Pages
      /\ targets \in [Runs -> SUBSET Ids] /\ todo \in [Runs -> SUBSET Ids]
      /\ page \in [Runs -> 1..(MaxPages + 1)]
  BY PagesAssumption DEF TypeOK, Located
<1> USE DEF Goto
<1>1. CASE StartRun(r) \/ StartFails(r)
  <2>1. pc[r] = "idle" /\ pc'[r] \in {"gate", "done"}
    BY <1>0, <1>1 DEF StartRun, StartFails, Respond
  <2>2. QED
    BY <2>1 DEF Onward, Phase
<1>2. CASE Gate(r)
  <2>1. pc[r] = "gate" /\ pc'[r] \in {"serp", "abort"}
    BY <1>0, <1>2 DEF Gate
  <2>2. QED
    BY <2>1 DEF Onward, Phase
<1>3. CASE PageOk(r) \/ PageFails(r)
  <2>1. /\ pc[r] = "serp" /\ page' = [page EXCEPT ![r] = @ + 1]
        /\ pc' = [pc EXCEPT ![r] = AfterPage(r)]
    BY <1>3 DEF PageOk, PageFails
  <2>2. CASE page[r] = MaxPages
    BY <1>0, <2>1, <2>2 DEF AfterPage, Onward, Phase
  <2>3. CASE page[r] # MaxPages
    <3>1. pc'[r] = "serp" /\ page'[r] = page[r] + 1
      BY <1>0, <2>1, <2>3 DEF AfterPage
    <3>2. page'[r] \in (page[r] + 1)..MaxPages
      BY <1>0, <2>1, <2>3, <3>1, PagesAssumption DEF Pages
    <3>3. QED
      BY <2>1, <3>1, <3>2 DEF Onward
  <2>4. QED
    BY <2>2, <2>3
<1>4. ASSUME NEW w \in Walls, HitWall(r, w)
      PROVE  Onward(r)
  <2>1. pc[r] \in {"serp", "details"} /\ pc'[r] = "acquired"
    BY <1>0, <1>4 DEF HitWall
  <2>2. QED
    BY <2>1 DEF Onward, Phase
<1>5. CASE FilterDetails(r)
  <2>1. \/ pc' = [pc EXCEPT ![r] = "acquired"]
        \/ pc' = [pc EXCEPT ![r] = "details"]
    BY <1>5, Zenon DEF FilterDetails
  <2>2. pc[r] = "filter" /\ pc'[r] \in {"acquired", "details"}
    BY <1>0, <1>5, <2>1 DEF FilterDetails
  <2>3. QED
    BY <2>2 DEF Onward, Phase
<1>6. ASSUME NEW id \in Ids, OpenDetail(r, id)
      PROVE  Onward(r)
  BY <1>0, <1>6 DEF OpenDetail, Onward
<1>7. CASE DetailsDone(r)
  <2>1. pc[r] = "details" /\ pc'[r] = "acquired"
    BY <1>0, <1>7 DEF DetailsDone
  <2>2. QED
    BY <2>1 DEF Onward, Phase
<1>8. CASE ReaderFails(r)
  <2>1. pc[r] \in {"serp", "filter", "details", "acquired"} /\ pc'[r] = "abort"
    BY <1>0, <1>8 DEF ReaderFails
  <2>2. QED
    BY <2>1 DEF Onward, Phase
<1>9. CASE Classify(r)
  <2>1. pc[r] = "acquired" /\ pc'[r] \in {"abort", "lookup"}
    BY <1>0, <1>9 DEF Classify
  <2>2. QED
    BY <2>1 DEF Onward, Phase
<1>10. CASE AbortRun(r) \/ FinalizeRun(r)
  <2>1. pc[r] \in {"abort", "finalize"} /\ pc'[r] = "done"
    BY <1>0, <1>10 DEF AbortRun, FinalizeRun, Respond
  <2>2. QED
    BY <2>1 DEF Onward, Phase
<1>11. CASE LookupAgain(r)
  <2>1. pc[r] = "lookup" /\ pc'[r] = "items"
    BY <1>0, <1>11 DEF LookupAgain
  <2>2. QED
    BY <2>1 DEF Onward, Phase
<1>12. ASSUME NEW id \in Ids, SkipKnown(r, id) \/ NoUsableDetail(r, id) \/ Ingest(r, id)
       PROVE  Onward(r)
  <2>1. id \in todo[r] /\ pc[r] = "items" /\ \E outcome : Settle(r, id, outcome)
    BY <1>12 DEF SkipKnown, NoUsableDetail, Ingest
  <2>2. pc'[r] = "record" /\ todo'[r] = todo[r] \ {id}
    BY <1>0, <2>1 DEF Settle
  <2>3. QED
    BY <2>1, <2>2 DEF Onward
<1>13. CASE RecordItem(r)
  BY <1>0, <1>13 DEF RecordItem, Onward
<1>14. CASE ItemsDone(r)
  <2>1. pc[r] = "items" /\ pc'[r] = "finalize"
    BY <1>0, <1>14 DEF ItemsDone
  <2>2. QED
    BY <2>1 DEF Onward, Phase
<1>15. CASE Crash(r)
  <2>1. pc[r] \in Places \ {"idle", "done", "crashed"} /\ pc'[r] = "crashed"
    BY <1>0, <1>15 DEF Crash
  <2>2. QED
    BY <2>1 DEF Onward, Phase, Places
<1>16. QED
  BY <1>1, <1>2, <1>3, <1>4, <1>5, <1>6, <1>7, <1>8, <1>9, <1>10, <1>11, <1>12, <1>13, <1>14,
     <1>15 DEF Step

\* No run ever goes round, whatever HH and Core answer and however runs overlap: with
\* finitely many vacancies it ends after finitely many steps.
THEOREM NoRunGoesRound == Spec => RunsGoOnward
<1>1. IInv /\ [Next]_vars
         => [\A r \in Runs : Onward(r) \/ UNCHANGED HandlerState(r)]_vars
  <2> SUFFICES ASSUME IInv, Next, NEW r \in Runs
               PROVE  Onward(r) \/ UNCHANGED HandlerState(r)
    OBVIOUS
  <2>0. TypeOK /\ Located
    BY DEF IInv
  <2>1. ASSUME NEW q \in Runs, Step(q) \/ Crash(q)
        PROVE  Onward(r) \/ UNCHANGED HandlerState(r)
    BY <2>0, <2>1, OnwardStep, OthersRest
  <2>2. ASSUME NEW id \in Ids, OtherWriter(id)
        PROVE  UNCHANGED HandlerState(r)
    BY <2>2 DEF OtherWriter, HandlerState, local, itemVars
  <2>3. QED
    BY <2>1, <2>2 DEF Next
<1>2. QED
  BY <1>1, InductiveInvariant, PTL DEF Spec, RunsGoOnward
=============================================================================
