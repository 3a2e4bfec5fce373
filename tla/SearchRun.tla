------------------------------ MODULE SearchRun ------------------------------
(***************************************************************************)
(* SearchRun orchestration (search_run_orchestration.py) over the browser  *)
(* acquisition (vacancy_browser.py): start the run in Core, read the SERP  *)
(* pages, ask Core which vacancies it owns, open the detail page of the    *)
(* others, classify what was acquired, ask Core again, ingest and record   *)
(* every vacancy once, finalize.                                           *)
(*                                                                         *)
(* Several runs execute at once (the HTTP server is threaded and the       *)
(* profile lock is free during ingest), every Core call may be refused or  *)
(* have its answer lost, HH answers every page load with any outcome the   *)
(* reader tells apart, the process may be killed at any step, and other    *)
(* writers (refresh-content) store vacancies meanwhile.                    *)
(*                                                                         *)
(* Abstractions.  SERP order: the loops take the ids in any order.         *)
(* Progress reports, log lines, error_code and recovery hints are left     *)
(* out.  Access to the profile is the business of ProfileAccess: here the  *)
(* gate of acquire_vacancies lets a run pass or not.                       *)
(*                                                                         *)
(* Each definition named Mutant... is the one that follows it with a       *)
(* plausible bug; no specification uses it.  TLC runs with the mutated     *)
(* definition show which property catches the bug.                         *)
(***************************************************************************)
EXTENDS Naturals, FiniteSets

CONSTANTS Runs,          \* the executions of run_vacancy_search / run_resume_suitable_search
          Suitable,      \* those of kind resume_suitable (they carry a serp_guard)
          Ids,           \* vacancy external ids HH may list
          Contents,      \* values of a vacancy's content (Core compares hashes)
          NoVacancy,     \* Core has no such vacancy
          MaxPages,      \* policy.max_pages, after clamping
          DetailLimit,   \* detail_limit of acquire_vacancies
          CoreFaults,    \* the Core calls that may fail
          CanCrash,      \* whether the process may be killed
          OtherWriters   \* whether another client stores vacancies in Core

CoreCalls == {"profile", "start", "lookup", "ingest", "item", "finalize"}

ASSUME KindAssumption     == Suitable \subseteq Runs
ASSUME ContentAssumption  == NoVacancy \notin Contents
ASSUME ContentNames       == Contents \cap {"none", "failed", "unusable"} = {}
ASSUME PagesAssumption    == MaxPages \in Nat \ {0}
ASSUME LimitAssumption    == DetailLimit \in Nat
ASSUME FaultsAssumption   == CoreFaults \subseteq CoreCalls
ASSUME FlagsAssumption    == CanCrash \in BOOLEAN /\ OtherWriters \in BOOLEAN

Pages        == 1..MaxPages
GoodOutcomes == {"created", "updated", "unchanged"}
ItemOutcomes == GoodOutcomes \cup {"error"}
Terminal     == {"success", "partial", "failed"}
Walls        == {"login_required", "captcha_or_action_required", "permission_blocked"}
Statuses     == {"available", "partial", "action_required", "not_authorized",
                 "permission_blocked", "unavailable", "mismatch"}
Places       == {"idle", "gate", "serp", "filter", "details", "acquired", "abort",
                 "lookup", "items", "record", "finalize", "done", "crashed"}
NoItem       == [id |-> "none", outcome |-> "none"]
PendingItems == [id : Ids, outcome : ItemOutcomes]

VARIABLES
    \* local to a run
    pc,            \* where the run stands
    page,          \* index of the next SERP page
    okPages,       \* pages with status ok
    failedPages,   \* pages with any other status
    heading,       \* what the first heading read on a SERP says
    wall,          \* the wall that stopped the reader, or "none"
    summaries,     \* unique ids on the ok pages
    known,         \* existing_map: ids Core reported as its own
    targets,       \* detail_targets still to open
    details,       \* details[r][id]: not opened, failed, unusable or a content
    acquired,      \* status of the acquisition
    todo,          \* summaries still to process
    itemOk,        \* ids counted in item_ok
    itemErrors,    \* ids counted in item_errors
    pending,       \* the item about to be recorded
    report,        \* status of the response
    \* Core
    vacancies,     \* vacancies[id]: stored content or NoVacancy
    coreRun,       \* coreRun[r]: status of the SearchRun
    coreItems,     \* coreItems[r][id]: outcome of the SearchRunItem
    \* history
    missed         \* missed[r]: ids Core owns that the last lookup of r did not report

local    == <<page, okPages, failedPages, heading, wall, summaries, targets, details>>
itemVars == <<todo, itemOk, itemErrors, pending>>
coreVars == <<vacancies, coreRun, coreItems, missed>>
vars     == <<pc, local, known, acquired, itemVars, report, coreVars>>

Details == Contents \cup {"none", "failed", "unusable"}

TypeOK ==
    /\ pc \in [Runs -> Places]
    /\ page \in [Runs -> 1..(MaxPages + 1)]
    /\ okPages \in [Runs -> SUBSET Pages]
    /\ failedPages \in [Runs -> SUBSET Pages]
    /\ heading \in [Runs -> {"none", "suitable", "other"}]
    /\ wall \in [Runs -> Walls \cup {"none"}]
    /\ summaries \in [Runs -> SUBSET Ids]
    /\ known \in [Runs -> SUBSET Ids]
    /\ targets \in [Runs -> SUBSET Ids]
    /\ details \in [Runs -> [Ids -> Details]]
    /\ acquired \in [Runs -> Statuses \cup {"none"}]
    /\ todo \in [Runs -> SUBSET Ids]
    /\ itemOk \in [Runs -> SUBSET Ids]
    /\ itemErrors \in [Runs -> SUBSET Ids]
    /\ pending \in [Runs -> PendingItems \cup {NoItem}]
    /\ report \in [Runs -> Terminal \cup {"action_required", "none"}]
    /\ vacancies \in [Ids -> Contents \cup {NoVacancy}]
    /\ coreRun \in [Runs -> Terminal \cup {"running", "none"}]
    /\ coreItems \in [Runs -> [Ids -> ItemOutcomes \cup {"none"}]]
    /\ missed \in [Runs -> SUBSET Ids]

Init ==
    /\ pc = [r \in Runs |-> "idle"]
    /\ page = [r \in Runs |-> 1]
    /\ okPages = [r \in Runs |-> {}]
    /\ failedPages = [r \in Runs |-> {}]
    /\ heading = [r \in Runs |-> "none"]
    /\ wall = [r \in Runs |-> "none"]
    /\ summaries = [r \in Runs |-> {}]
    /\ known = [r \in Runs |-> {}]
    /\ targets = [r \in Runs |-> {}]
    /\ details = [r \in Runs |-> [id \in Ids |-> "none"]]
    /\ acquired = [r \in Runs |-> "none"]
    /\ todo = [r \in Runs |-> {}]
    /\ itemOk = [r \in Runs |-> {}]
    /\ itemErrors = [r \in Runs |-> {}]
    /\ pending = [r \in Runs |-> NoItem]
    /\ report = [r \in Runs |-> "none"]
    /\ vacancies \in [Ids -> Contents \cup {NoVacancy}]
    /\ coreRun = [r \in Runs |-> "none"]
    /\ coreItems = [r \in Runs |-> [id \in Ids |-> "none"]]
    /\ missed = [r \in Runs |-> {}]

Present == {id \in Ids : vacancies[id] # NoVacancy}
-----------------------------------------------------------------------------
(* Core calls: a failing write is refused, or done with its answer lost.   *)

Goto(r, place) == pc' = [pc EXCEPT ![r] = place]

Respond(r, status) == /\ Goto(r, "done")
                      /\ report' = [report EXCEPT ![r] = status]

CanFail(call) == call \in CoreFaults

MutantLookupAnswers(ids) ==                        \* a failed chunk reads as known
    IF CanFail("lookup") THEN SUBSET ids ELSE {ids \cap Present}

\* lookup_vacancies_by_external_ids, chunk by chunk: a failing chunk reports nothing.
LookupAnswers(ids) ==
    IF CanFail("lookup") THEN SUBSET (ids \cap Present) ELSE {ids \cap Present}

\* Identity-safe upsert of POST /vacancies/ingest.
IngestOutcome(id, content) ==
    IF vacancies[id] = NoVacancy THEN "created"
    ELSE IF vacancies[id] = content THEN "unchanged" ELSE "updated"

StoreVacancy(id, content) ==
    /\ vacancies' = [vacancies EXCEPT ![id] = content]
    /\ missed' = IF vacancies[id] = NoVacancy
                 THEN [r \in Runs |-> missed[r] \cup {id}] ELSE missed
-----------------------------------------------------------------------------
(* Start of the run.                                                       *)

StartRun(r) ==
    /\ pc[r] = "idle"
    /\ coreRun' = [coreRun EXCEPT ![r] = "running"]
    /\ Goto(r, "gate")
    /\ UNCHANGED <<local, known, acquired, itemVars, report, vacancies, coreItems, missed>>

\* search_profile_unavailable, active_resume_required or search_run_start_failed.
StartFails(r) ==
    /\ pc[r] = "idle"
    /\ \/ (CanFail("profile") \/ CanFail("start")) /\ UNCHANGED coreRun
       \/ CanFail("start") /\ coreRun' = [coreRun EXCEPT ![r] = "running"]
       \/ r \in Suitable /\ UNCHANGED coreRun
    /\ Respond(r, "failed")
    /\ UNCHANGED <<local, known, acquired, itemVars, vacancies, coreItems, missed>>
-----------------------------------------------------------------------------
(* acquire_vacancies: the gate, the SERP pages, the detail pages.          *)

Gate(r) ==
    /\ pc[r] = "gate"
    /\ \/ /\ Goto(r, "serp")
          /\ UNCHANGED acquired
       \/ /\ Goto(r, "abort")                      \* browser_login_required, profile_locked
          /\ \E s \in {"not_authorized", "unavailable"} :
                acquired' = [acquired EXCEPT ![r] = s]
       \/ /\ Goto(r, "abort")                      \* exception outside the reader
          /\ UNCHANGED acquired
    /\ UNCHANGED <<local, known, itemVars, report, coreVars>>

MutantAfterPage(r) == IF page[r] > MaxPages THEN "filter" ELSE "serp"   \* one page more

AfterPage(r) == IF page[r] = MaxPages THEN "filter" ELSE "serp"

PageOk(r) ==
    /\ pc[r] = "serp"
    /\ okPages' = [okPages EXCEPT ![r] = @ \cup {page[r]}]
    /\ \E items \in SUBSET Ids : summaries' = [summaries EXCEPT ![r] = @ \cup items]
    /\ IF r \in Suitable /\ heading[r] = "none"    \* only the guard reads it
       THEN \E h \in {"none", "suitable", "other"} : heading' = [heading EXCEPT ![r] = h]
       ELSE UNCHANGED heading
    /\ page' = [page EXCEPT ![r] = @ + 1]
    /\ Goto(r, AfterPage(r))
    /\ UNCHANGED <<failedPages, wall, targets, details, known, acquired, itemVars,
                   report, coreVars>>

MutantPageFails(r) ==                              \* a failing page is read again
    /\ pc[r] = "serp"
    /\ failedPages' = [failedPages EXCEPT ![r] = @ \cup {page[r]}]
    /\ UNCHANGED <<pc, page, okPages, heading, wall, summaries, targets, details, known,
                   acquired, itemVars, report, coreVars>>

\* Navigation or extraction raised, page not understood, or CAPTCHA evidence invalid.
PageFails(r) ==
    /\ pc[r] = "serp"
    /\ failedPages' = [failedPages EXCEPT ![r] = @ \cup {page[r]}]
    /\ page' = [page EXCEPT ![r] = @ + 1]
    /\ Goto(r, AfterPage(r))
    /\ UNCHANGED <<okPages, heading, wall, summaries, targets, details, known, acquired,
                   itemVars, report, coreVars>>

\* A wall ends the reader at once, keeping what was read.
HitWall(r, w) ==
    /\ pc[r] \in {"serp", "details"}
    /\ pc[r] = "details" => targets[r] # {}
    /\ wall' = [wall EXCEPT ![r] = w]
    /\ Goto(r, "acquired")
    /\ UNCHANGED <<page, okPages, failedPages, heading, summaries, targets, details, known,
                   acquired, itemVars, report, coreVars>>

FirstOf(ids, limit) ==
    {s \in SUBSET ids : IF Cardinality(ids) <= limit THEN s = ids
                        ELSE Cardinality(s) = limit}

\* detail_id_filter: open only the ids Core does not report, up to the limit.
FilterDetails(r) ==
    /\ pc[r] = "filter"
    /\ IF summaries[r] = {}
       THEN /\ Goto(r, "acquired")
            /\ UNCHANGED <<known, targets>>
       ELSE /\ Goto(r, "details")
            /\ \/ \E found \in LookupAnswers(summaries[r]) :
                    /\ known' = [known EXCEPT ![r] = @ \cup found]
                    /\ \E chosen \in FirstOf(summaries[r] \ known'[r], DetailLimit) :
                          targets' = [targets EXCEPT ![r] = chosen]
               \/ /\ CanFail("lookup")           \* the filter raised: no detail is opened
                  /\ UNCHANGED <<known, targets>>
    /\ UNCHANGED <<page, okPages, failedPages, heading, wall, summaries, details, acquired,
                   itemVars, report, coreVars>>

\* One card: its content, or a failure (exception, not parsed, CAPTCHA evidence
\* invalid), or a content that vacancy_detail_to_ingest will not accept.
OpenDetail(r, id) ==
    /\ pc[r] = "details"
    /\ id \in targets[r]
    /\ \E d \in Details \ {"none"} : details' = [details EXCEPT ![r][id] = d]
    /\ targets' = [targets EXCEPT ![r] = @ \ {id}]
    /\ UNCHANGED <<pc, page, okPages, failedPages, heading, wall, summaries, known, acquired,
                   itemVars, report, coreVars>>

DetailsDone(r) ==
    /\ pc[r] = "details"
    /\ targets[r] = {}
    /\ Goto(r, "acquired")
    /\ UNCHANGED <<local, known, acquired, itemVars, report, coreVars>>

\* Launching, the reader itself or context.close raised: what was read is lost.
ReaderFails(r) ==
    /\ pc[r] \in {"serp", "filter", "details", "acquired"}
    /\ acquired' = [acquired EXCEPT ![r] = "unavailable"]
    /\ okPages' = [okPages EXCEPT ![r] = {}]
    /\ failedPages' = [failedPages EXCEPT ![r] = {}]
    /\ summaries' = [summaries EXCEPT ![r] = {}]
    /\ targets' = [targets EXCEPT ![r] = {}]
    /\ details' = [details EXCEPT ![r] = [id \in Ids |-> "none"]]
    /\ wall' = [wall EXCEPT ![r] = "none"]
    /\ Goto(r, "abort")
    /\ UNCHANGED <<page, heading, known, itemVars, report, coreVars>>
-----------------------------------------------------------------------------
(* What acquire_vacancies makes of the pages and details it got.           *)

MutantGuardRejects(r) == FALSE                     \* the guard's answer is ignored

GuardRejects(r) == r \in Suitable /\ heading[r] # "suitable"

DetailFailed(r) == \E id \in Ids : details[r][id] = "failed"

WallStatus(w, anyPage) ==
    CASE w = "captcha_or_action_required" -> "action_required"
      [] w # "captcha_or_action_required" /\ anyPage -> "partial"
      [] w = "login_required" /\ ~anyPage -> "not_authorized"
      [] w = "permission_blocked" /\ ~anyPage -> "permission_blocked"

AcquireStatus(r) ==
    CASE wall[r] # "none" -> WallStatus(wall[r], okPages[r] # {})
      [] wall[r] = "none" /\ okPages[r] = {} -> "unavailable"
      [] wall[r] = "none" /\ okPages[r] # {} /\ GuardRejects(r) -> "mismatch"
      [] wall[r] = "none" /\ okPages[r] # {} /\ ~GuardRejects(r)
            -> IF failedPages[r] # {} \/ DetailFailed(r) THEN "partial" ELSE "available"

\* _BLOCKING_ACQUIRE without a good page, or the SERP of another resume.
Blocked(r, status) ==
    \/ status = "mismatch"
    \/ /\ status \in {"not_authorized", "action_required", "permission_blocked", "unavailable"}
       /\ okPages[r] = {}

Classify(r) ==
    /\ pc[r] = "acquired"
    /\ acquired' = [acquired EXCEPT ![r] = AcquireStatus(r)]
    /\ Goto(r, IF Blocked(r, AcquireStatus(r)) THEN "abort" ELSE "lookup")
    /\ UNCHANGED <<local, known, itemVars, report, coreVars>>

MutantAbortRun(r) ==                               \* returns without finalizing
    /\ pc[r] = "abort"
    /\ Respond(r, "failed")
    /\ UNCHANGED <<local, known, acquired, itemVars, coreVars>>

\* The early finalize: whatever Core answers, the response is the failure.
AbortRun(r) ==
    /\ pc[r] = "abort"
    /\ \/ coreRun' = [coreRun EXCEPT ![r] = "failed"]
       \/ CanFail("finalize") /\ UNCHANGED coreRun
    /\ Respond(r, "failed")
    /\ UNCHANGED <<local, known, acquired, itemVars, vacancies, coreItems, missed>>
-----------------------------------------------------------------------------
(* _process_unique_items                                                   *)

LookupAgain(r) ==
    /\ pc[r] = "lookup"
    /\ \E found \in LookupAnswers(summaries[r]) :
          /\ known' = [known EXCEPT ![r] = @ \cup found]
          /\ missed' = [missed EXCEPT ![r] = Present \ (known[r] \cup found)]
    /\ todo' = [todo EXCEPT ![r] = summaries[r]]
    /\ Goto(r, "items")
    /\ UNCHANGED <<local, acquired, itemOk, itemErrors, pending, report,
                   vacancies, coreRun, coreItems>>

\* Counts the item and hands it to _add_item.
Settle(r, id, outcome) ==
    /\ todo' = [todo EXCEPT ![r] = @ \ {id}]
    /\ pending' = [pending EXCEPT ![r] = [id |-> id, outcome |-> outcome]]
    /\ itemOk' = IF outcome = "error" THEN itemOk ELSE [itemOk EXCEPT ![r] = @ \cup {id}]
    /\ itemErrors' = IF outcome = "error" THEN [itemErrors EXCEPT ![r] = @ \cup {id}]
                     ELSE itemErrors
    /\ Goto(r, "record")
    /\ UNCHANGED <<local, known, acquired, report, coreRun, coreItems>>

SkipKnown(r, id) ==
    /\ pc[r] = "items"
    /\ id \in todo[r] \cap known[r]
    /\ Settle(r, id, "unchanged")
    /\ UNCHANGED <<vacancies, missed>>

NoUsableDetail(r, id) ==
    /\ pc[r] = "items"
    /\ id \in todo[r] \ known[r]
    /\ details[r][id] \notin Contents
    /\ Settle(r, id, "error")
    /\ UNCHANGED <<vacancies, missed>>

MutantIngestAsCreated(r, id) ==                    \* Core's outcome is not read
    /\ pc[r] = "items"
    /\ id \in todo[r] \ known[r]
    /\ details[r][id] \in Contents
    /\ StoreVacancy(id, details[r][id])
    /\ Settle(r, id, "created")

MutantIngestKnown(r, id) ==                        \* existing_map is not consulted
    /\ pc[r] = "items"
    /\ id \in todo[r]
    /\ details[r][id] \in Contents
    /\ StoreVacancy(id, details[r][id])
    /\ Settle(r, id, IngestOutcome(id, details[r][id]))

Ingest(r, id) ==
    /\ pc[r] = "items"
    /\ id \in todo[r] \ known[r]
    /\ details[r][id] \in Contents
    /\ \/ /\ StoreVacancy(id, details[r][id])
          /\ Settle(r, id, IngestOutcome(id, details[r][id]))
       \/ /\ CanFail("ingest")                     \* stored, answer lost or unusable
          /\ StoreVacancy(id, details[r][id])
          /\ Settle(r, id, "error")
       \/ /\ CanFail("ingest")                     \* refused
          /\ UNCHANGED <<vacancies, missed>>
          /\ Settle(r, id, "error")

\* _add_item swallows a CoreError.
RecordItem(r) ==
    /\ pc[r] = "record"
    /\ \/ coreItems' = [coreItems EXCEPT ![r][pending[r].id] = pending[r].outcome]
       \/ CanFail("item") /\ UNCHANGED coreItems
    /\ pending' = [pending EXCEPT ![r] = NoItem]
    /\ Goto(r, "items")
    /\ UNCHANGED <<local, known, acquired, todo, itemOk, itemErrors, report,
                   vacancies, coreRun, missed>>

ItemsDone(r) ==
    /\ pc[r] = "items"
    /\ todo[r] = {}
    /\ Goto(r, "finalize")
    /\ UNCHANGED <<local, known, acquired, itemVars, report, coreVars>>
-----------------------------------------------------------------------------
(* The terminal status matrix and the final response.                      *)

CaptchaHit(r) == acquired[r] = "action_required"

MutantCaptchaTerminal(r) == IF itemOk[r] = {} THEN "failed" ELSE "partial"   \* pages forgotten

\* _terminal_for_captcha
CaptchaTerminal(r) == IF okPages[r] = {} /\ itemOk[r] = {} THEN "failed" ELSE "partial"

MutantTerminalStatus(r) ==                         \* item errors are not counted
    IF CaptchaHit(r) THEN CaptchaTerminal(r)
    ELSE IF failedPages[r] # {} \/ acquired[r] = "partial" THEN "partial" ELSE "success"

\* The branch for no good page at all is left out: such a run was blocked above.
TerminalStatus(r) ==
    IF CaptchaHit(r)
    THEN CaptchaTerminal(r)
    ELSE IF itemOk[r] = {} /\ itemErrors[r] = {} THEN "success"
    ELSE IF itemErrors[r] # {} \/ failedPages[r] # {} \/ acquired[r] = "partial"
    THEN "partial"
    ELSE "success"

MutantFinalizeRun(r) ==                            \* the refusal is swallowed
    /\ pc[r] = "finalize"
    /\ coreRun' \in {coreRun, [coreRun EXCEPT ![r] = TerminalStatus(r)]}
    /\ Respond(r, IF CaptchaHit(r) THEN "action_required" ELSE TerminalStatus(r))
    /\ UNCHANGED <<local, known, acquired, itemVars, vacancies, coreItems, missed>>

FinalizeRun(r) ==
    /\ pc[r] = "finalize"
    /\ \/ /\ coreRun' = [coreRun EXCEPT ![r] = TerminalStatus(r)]
          /\ Respond(r, IF CaptchaHit(r) THEN "action_required" ELSE TerminalStatus(r))
       \/ /\ CanFail("finalize")                   \* search_run_finalize_failed
          /\ coreRun' \in {coreRun, [coreRun EXCEPT ![r] = TerminalStatus(r)]}
          /\ Respond(r, "failed")
    /\ UNCHANGED <<local, known, acquired, itemVars, vacancies, coreItems, missed>>
-----------------------------------------------------------------------------
Crash(r) ==
    /\ CanCrash
    /\ pc[r] \notin {"idle", "done", "crashed"}
    /\ Goto(r, "crashed")
    /\ UNCHANGED <<local, known, acquired, itemVars, report, coreVars>>

\* refresh-content, or another client of Core.
OtherWriter(id) ==
    /\ OtherWriters
    /\ \E content \in Contents : StoreVacancy(id, content)
    /\ UNCHANGED <<pc, local, known, acquired, itemVars, report, coreRun, coreItems>>

Step(r) ==
    \/ StartRun(r) \/ StartFails(r) \/ Gate(r)
    \/ PageOk(r) \/ PageFails(r) \/ (\E w \in Walls : HitWall(r, w))
    \/ FilterDetails(r) \/ (\E id \in Ids : OpenDetail(r, id)) \/ DetailsDone(r)
    \/ ReaderFails(r) \/ Classify(r) \/ AbortRun(r) \/ LookupAgain(r)
    \/ (\E id \in Ids : SkipKnown(r, id) \/ NoUsableDetail(r, id) \/ Ingest(r, id))
    \/ RecordItem(r) \/ ItemsDone(r) \/ FinalizeRun(r)

Next == \/ \E r \in Runs : Step(r) \/ Crash(r)
        \/ \E id \in Ids : OtherWriter(id)

Spec == Init /\ [][Next]_vars

\* A started handler runs until it returns: every HH call has a timeout and
\* urlopen has one for Core.  Nothing makes anyone start a run.
Fairness == \A r \in Runs : WF_vars(Step(r) /\ pc[r] # "idle")

FairSpec == Spec /\ Fairness
-----------------------------------------------------------------------------
(* Properties.                                                             *)

\* The status in Core is true of what was acquired, at whatever step and call something
\* failed: a failed run counted no vacancy, hence ingested and recorded none; a successful
\* one that has vacancies read all its pages, met no wall, and lost no card or item.
VerdictIsTrue ==
    \A r \in Runs :
        /\ coreRun[r] = "failed" => itemOk[r] \cup itemErrors[r] = {}
        /\ coreRun[r] = "success" /\ itemOk[r] # {} =>
              /\ okPages[r] = Pages /\ failedPages[r] = {} /\ wall[r] = "none"
              /\ ~DetailFailed(r) /\ itemErrors[r] = {}

\* What Core shows is backed by what Core stores: a vacancy an item reports as
\* created, updated or unchanged is stored, and so is every vacancy on the pages of
\* a successful run, although lookups, ingests and items may fail or be lost.
ClaimsAreBacked ==
    \A r \in Runs, id \in Ids :
        \/ coreItems[r][id] \in GoodOutcomes
        \/ coreRun[r] = "success" /\ id \in summaries[r]
        => id \in Present

\* Create-only: a run updates a vacancy only if its lookup failed to report it or
\* somebody stored it after that lookup.
UpdatesOnlyMissed ==
    \A r \in Runs, id \in Ids : coreItems[r][id] = "updated" => id \in missed[r]

\* Runs that overlap on the same SERP never both record a vacancy as created.
CreatedOnce ==
    \A r, q \in Runs : \A id \in Ids :
        coreItems[r][id] = "created" /\ coreItems[q][id] = "created" => r = q

\* The response never claims more than Core shows: success and partial are those of
\* the SearchRun, a CAPTCHA response goes with a partial run, and a run left
\* running in Core is answered as failed.
ResponseIsHonest ==
    \A r \in Runs : pc[r] = "done" =>
        /\ report[r] \in {"success", "partial"} => coreRun[r] = report[r]
        /\ report[r] = "action_required" => coreRun[r] = "partial"
        /\ coreRun[r] = "running" => report[r] = "failed"

\* A resume_suitable run that no wall stopped processes a vacancy only if the SERP
\* heading is that of the suitable vacancies (the guard ran before ingest).
GuardedUnlessWalled ==
    \A r \in Suitable :
        itemOk[r] \cup itemErrors[r] # {} => heading[r] = "suitable" \/ wall[r] # "none"

Contract == INSTANCE SearchRunContract

\* The orchestration implements the life cycle that docs/specs promises.
ImplementsContract == Contract!CSpec

\* The order in which a run goes through its places: there is no way back.
Phase(place) ==
    CASE place = "idle" -> 0     [] place = "gate" -> 1
      [] place = "serp" -> 2     [] place = "filter" -> 3
      [] place = "details" -> 4  [] place = "acquired" -> 5
      [] place \in {"abort", "lookup"} -> 6
      [] place \in {"items", "record"} -> 7
      [] place = "finalize" -> 8
      [] place \in {"done", "crashed"} -> 9

\* The run is in a later phase, on a later page, or has one card less to open or one
\* item less to settle, or is back from recording one.
Onward(r) ==
    \/ Phase(pc[r]) < Phase(pc'[r])
    \/ pc[r] = "serp"    /\ pc'[r] = "serp"    /\ page'[r] \in (page[r] + 1)..MaxPages
    \/ pc[r] = "details" /\ pc'[r] = "details" /\ targets'[r] \subseteq targets[r]
                                               /\ targets'[r] # targets[r]
    \/ pc[r] = "items"   /\ pc'[r] = "record"  /\ todo'[r] \subseteq todo[r]
                                               /\ todo'[r] # todo[r]
    \/ pc[r] = "record"  /\ pc'[r] = "items"   /\ todo'[r] = todo[r]

HandlerState(r) ==
    <<pc[r], page[r], okPages[r], failedPages[r], heading[r], wall[r], summaries[r], known[r],
      targets[r], details[r], acquired[r], todo[r], itemOk[r], itemErrors[r], pending[r],
      report[r]>>

\* No failure makes a run go round: whatever HH and Core answer, each step that changes
\* what a handler knows leads it onward, no other run changes that, and a handler that has
\* answered does nothing more.  So a run ends after finitely many steps, of which at most
\* MaxPages read a page.
RunsGoOnward == [][\A r \in Runs : Onward(r) \/ UNCHANGED HandlerState(r)]_vars

\* Whatever HH answers and whichever lookups, ingests or items fail, a started run
\* reaches a terminal status in Core (checked where start and finalize are answered
\* and the process is not killed).
EveryRunFinalized ==
    \A r \in Runs : coreRun[r] = "running" ~> coreRun[r] \in Terminal
-----------------------------------------------------------------------------
(* Claims of the repository that the code does not keep.                   *)

\* docs/specs/search-run-orchestration.md:80: a page failure after successful pages
\* makes the run partial.
PageFailureIsPartial ==
    \A r \in Runs : coreRun[r] = "success" => failedPages[r] = {}
=============================================================================
