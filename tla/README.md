# Formal models of job-search-hh

TLA+ models of the HH.ru connector in `src/job_search_hh`, model-checked with TLC
on small instances and, for the properties that matter most, proved with TLAPS for
every value of the constants. `PROJECT.json` is the index: every modelled definition
with the source lines it stands for, every run, mutant, hazard, finding and theorem.

## 1. The system and its parts

The program reads HH.ru through a Chromium profile that an operator has logged in
by hand, and writes what it read to a separate service, *Core*, over HTTP. It runs
as a threaded HTTP server (`api.py`) and as a command line (`cli.py`); both call the
same handlers, so handlers overlap.

| Component | Source | State it keeps | Operations |
|---|---|---|---|
| Search run orchestration | `search_run_orchestration.py`, `resume_suitable.py` | in Core: SearchRun, SearchRunItems, vacancies; local: counters, `existing_map` | `run_vacancy_search`, `run_resume_suitable_search`, `_lookup_existing_map`, `_process_unique_items`, `_add_item`, finalize |
| Vacancy acquisition | `vacancy_browser.py`, `vacancy_extractors.py`, `vacancy_dto.py` | none that outlives the call | gate, SERP pages, walls, detail filter and limit, detail pages, SERP guard |
| Profile lock, login, browser | `session.py`, `browser.py` | `.profile.lock`, `session.json`, `login-browser.pid`, Chromium's Singleton files | `ProfileLock.acquire/release/release_orphaned`, `open_login`, `confirm_login`, `clear_login` |
| Challenge hand-off | `challenge_handoff.py` | `challenge_active.json`, screenshot, `challenge-browser.pid` | capture, persist, open, confirm, begin, view |
| Content refresh, source status | `vacancy_content_refresh.py`, `vacancy_source_status.py` | Core vacancies | one detail page per call, ingest or report |
| Core client | `core_client.py`, `core_linkage.py` | none | one HTTP call each, idempotency keys, linkage of accounts |
| Resumes, content, file | `resumes.py`, `resume_content.py`, `resume_file_download.py` | downloaded file | list, read, download |
| Resume sync, active resume | `resume_sync.py`, `active_resume.py` | `active_resume.json`; Core resume versions and artifacts | select, clear, sync |
| OAuth | `oauth.py`, `oauth_callback.py`, `live_auth.py` | `hh_token.json` and its copy `access_token`; the loopback listener and `oauth-callback.pid` | load, refresh, exchange, set, clear; acquire, callback |
| Connection status | `connection.py`, `recovery.py`, `profile.py` | none | classify marker, token and lock into one status and one action; the account |
| Apply | `apply.py`, `apply_transport.py` | negotiations at HH; the report of a run | dry run, limited apply |
| Sync | `sync.py`, `providers.py`, `normalize.py` | Core vacancies, applications and the metric of a day | list negotiations, store them or their counts under idempotency keys |
| Query | `vacancy_query.py` | none | pure |
| HTTP API, CLI, config | `api.py`, `cli.py`, `config.py`, `egress.py`, `capabilities.py` | none | parse, call, wrap |

How they interact: a search run acquires vacancies (vacancy acquisition), which
locks the profile only while it reads HH; lookups, ingests and items go to Core with
the profile free, so another run, `refresh-content` or a login may start meanwhile.
Readers, login windows, `confirm_login` and the challenge hand-off meet in the files
of the profile and state volumes, which survive the container. Every authenticated
read, and the end of `confirm_login`, loads the token files and may renew them; the
connection status reads the marker and those files together. Limited apply writes to
HH and to nothing else: its negotiations get into Core with the next application sync.
Core is shared with other clients and every call to it may be refused or lose its
answer.

What is hard, and what must be right:

* **Search run.** Failure at any of a dozen points must leave a SearchRun whose
  status and items say no more than what was done; runs overlap on the same
  vacancies; the existence map is read long before it is used; walls, page failures,
  the detail limit and the SERP guard interact in what the terminal status becomes.
* **Profile access.** Test-then-act on files without atomic operations; owners that
  are killed by somebody else; an unconditional release; state that outlives the
  processes it describes.
* **Challenge hand-off.** The stored challenge is read, acted on for minutes, and
  written back or removed, while a reader may have stored a newer one.
* **OAuth and connection.** A refresh token is good once, and nothing keeps two
  refreshes apart; the file is truncated, filled and unlinked by calls that do not
  know of each other; a lost answer takes the login with it. What the status tells
  the operator must lead to a connection, not in circles. A callback may come late,
  twice or with another state.
* **Resume sync.** The text and the file of a resume come from two visits to HH and
  go to Core in two calls, each of which may fail; the owner edits meanwhile.
* **Apply and sync.** A write at HH whose answer is lost, a run that dies between the
  write and its report: what the report says, and what Core learns of it later from
  syncs that overlap, fail in the middle and are answered from idempotency keys.

## 2. Modules

| Module | What it is |
|---|---|
| `SearchRunContract` | abstract specification: the life cycle of a SearchRun and its items in Core |
| `SearchRun` | orchestration with acquisition inside, in detail; `ImplementsContract` says it refines the contract |
| `MCSearchRun` | symmetry for TLC |
| `SearchRun_proofs` | type correctness, six safety invariants, an action property, the refinement |
| `ProfileAccess` | lock file, marker, pid file, singleton and every process that touches them |
| `MCProfileAccess` | symmetry for TLC |
| `ProfileAccess_proofs` | type correctness, a lock has somebody to remove it, nothing left behind |
| `ChallengeHandoff` | the stored challenge: searches that capture, requests for the window, confirms |
| `MCChallengeHandoff` | symmetry for TLC |
| `ChallengeHandoff_proofs` | type correctness, two safety invariants |
| `ResumeContract` | abstract specification: what Core may hold of the resumes at HH |
| `ResumeSync` | the active resume and its link, versions and files in Core; `ImplementsContract` says it refines the contract |
| `MCResumeSync` | the instance for TLC |
| `ResumeSync_proofs` | type correctness, three safety invariants, the refinement |
| `OAuthTokens` | the token files, the calls that load, renew, set and clear them, and HH's grants |
| `OAuthTokens_proofs` | type correctness, a safety invariant, an action property |
| `Connection` | `OAuthTokens` with the login marker, the status made of both and an operator who follows it |
| `Connection_proofs` | it implements `OAuthTokens`, and keeps what that keeps; type correctness |
| `Negotiations` | HH's negotiations, as the next three modules use them |
| `LimitedApply` | runs of `apply limited` and their reports |
| `ApplicationSync` | runs of `applications sync` and Core's vacancies and applications |
| `FunnelContract` | abstract specification: what Core may know of negotiations |
| `Funnel` | composes the two; `ImplementsContract` says it refines the contract |
| `MCFunnel` | the instance for TLC |
| `Funnel_proofs` | type correctness, three safety invariants, the refinement |
| `MetricsSync` | runs of `metrics sync` and Core's metric of one day |
| `MetricsSync_proofs` | type correctness and a safety invariant |

### SearchRun

One process per run (`Runs`), those in `Suitable` being
`run_resume_suitable_search`, the others `run_vacancy_search`. `pc[r]` is the place
in the handler; `page`, `okPages`, `failedPages`, `heading`, `wall`, `summaries`,
`targets`, `details` are the locals of `_read_vacancy_pages` and of
`acquire_vacancies`; `known` is `existing_map` (the detail filter and
`_process_unique_items` share it); `todo`, `itemOk`, `itemErrors`, `pending` those of
`_process_unique_items`, `report` the status of the response. Counters are sets of
ids or pages, so that properties can say *which*. Core is `vacancies` (content per
id), `coreRun` and `coreItems`. `missed` is a history variable: what Core owned and
the last lookup of a run did not report, or what appeared since.

| Action | Code |
|---|---|
| `StartRun`, `StartFails` | profile fetch, active resume, `start_search_run` |
| `Gate` | `acquire_vacancies` up to the lock |
| `PageOk`, `PageFails`, `HitWall` | one SERP page; a wall may also come from a detail |
| `FilterDetails`, `OpenDetail`, `DetailsDone` | `detail_id_filter`, limit, the detail loop |
| `ReaderFails` | launch, reader or `context.close` raised |
| `Classify` | status of the acquisition, with the SERP guard in the place where the code has it: after the returns for walls |
| `AbortRun` | the early finalize as failed, whose own failure is swallowed |
| `LookupAgain` | second `_lookup_existing_map` |
| `SkipKnown`, `NoUsableDetail`, `Ingest`, `RecordItem`, `ItemsDone` | `_process_unique_items` and `_add_item` |
| `FinalizeRun` | terminal status matrix, finalize, response |
| `Crash`, `OtherWriter` | process killed or uncaught exception; another client of Core |

Every Core call in `CoreFaults` may fail in two ways: refused, or done with its
answer lost. A failing lookup chunk reports nothing, as in the code. The order of
ids on a page is abstracted: loops take them in any order and the detail limit cuts
any subset of the right size.

### ProfileAccess

Four kinds of processes: `Readers` (handlers that read HH), `Openers`
(`open_login` with detach), `Windows` (login windows, named by pid; also the
foreground login of the CLI) and `Confirmers` (`confirm_login`, `clear_login`).
The variables are the files (`lockFile`, `pidFile`, `marker`, `singleton`), the live
browsers (`chrome`), the login of the profile (`loggedIn`, which only the operator
changes) and, for the pids, the processes of the container that are no login window
(`strangers`).

Each file operation is one step, so that `path.exists()` and the `write_text` or
`unlink` after it are two; the look at the process list and the unlink it allows are
two as well. The operators of the lock (`AcquireTest`, `AcquireWrite`,
`ReleaseTest`, `ReleaseUnlink`, `OrphanTest`) and of the browser (`Launch`, `Close`,
`SingletonTest`, `SingletonClear`) are parameterised by the place they start from and
the places they lead to, so a handler is the list of its calls. `Restart` is the
container being recreated: every process dies, both volumes stay.

### ChallengeHandoff

Three kinds of handlers share `challenge_active.json` (`stored`) and
`challenge-browser.pid` (`pidFile`): `Captors` (searches that may meet a challenge),
`Openers` (`open_challenge_browser`, each with the window process it spawns,
`window`) and `Confirmers` (`confirm_challenge_cleared`). `read[a]` is the state a
handler has read or made and will write back. A challenge keeps what the handlers
decide by: what confirms it (`evidence`), `capture_status`, `recovery_available`, the
`handoff_pid` and the search it is of. The profile is one variable (`user`: lock and
live Chromium together), because `ProfileAccess` has its steps. `gated` is whether HH
asks for a CAPTCHA. `proven` is a history variable: the searches that have met no
challenge since the last good probe.

| Action | Code |
|---|---|
| `Capture`, `CaptureFails` | `capture_and_persist_live_challenge` on the live page, or its exception, after which the record is made with the URL and, of a vacancy page, the title |
| `CloseContext`, `File`, `FileAgain` | `context.close`, then the two writes of `begin_challenge_handoff` around the message to the operator |
| `OpenRead`, `SpawnWindow`, `OpenRefused`, `WriteOpened`, `OpenFails` | `open_challenge_browser`: read and test, lock test and `Popen`, 2.5 s later the write of what was read |
| `WindowLocks`, `WindowFails`, `WindowEnds` | the spawned `open-login --foreground` |
| `ConfirmRead`, `Inspect`, `WriteBack`, `Stop`, `Recheck` | `confirm_challenge_cleared` up to the probe; a killed window may leave a dying Chromium |
| `Probe`, `ProbeOk`, `ProbeFails` | `_probe_authenticated_session`, with the lock it takes and releases |
| `KeepChallenge`, `ClearChallenge` | the write of the state read at the start, or the removal of the file |
| `HHGates`, `Solve` | HH and the operator (external) |

### ResumeSync

`Selectors` are `PUT /api/v1/resumes/active` (or `resumes select`), `Syncers` are
`POST /api/v1/resumes/sync`. HH is `listed` (the resumes there are) and `revision`
(the content of each, a number that an edit raises); `selected` is
`active_resume.json`; `link`, `versions` and `artifacts` are Core. `target`,
`extracted` and `file` are what a sync holds, `code` and `fileOk` what it answers,
`linked` is the `core_linkage` of a select's answer. `InUse` are the resumes the operator
selects and syncs; the others are there, may be edited and deleted, and have cards. A visit to HH succeeds or fails;
a profile that is locked is one of the reasons, so that visits are one step each. A
call of Core is answered, refused, or done with its answer lost.

| Action | Code |
|---|---|
| `ReadList`, `StoreSelection`, `PutLink` | `_list_resumes_raw` with the checks of `set_active_resume`; `write_stored_external_id`; `sync_active_resume_link` |
| `ReadTarget`, `Request` | the id of the request or of the file; without either nothing happens |
| `Extract`, `ExtractFails` | `read_resume_content` |
| `Ingest` | `create_resume_version`, answered as created or not |
| `Download`, `DownloadFails` | `download_resume_file`; `CardOf` is the card it clicks. A Playwright error passes it and ends the sync without an answer |
| `Upload` | `create_resume_artifact` |
| `EditResume`, `DeleteResume` | the owner at HH (external) |

The title and the status sent with the link, the stale marker of a selection and the
half-written state of `active_resume.json` (which reads as no selection) are left
out. What a finished handler had in its locals is forgotten.

`ResumeContract` has the HH part of these variables and Core's versions and files. Its
`Learn` stores what a resume shows or has shown, `Attach` gives a version a file of the
same resume that is not older, or of another one if the owner has deleted its own:
`_resume_card_locator` falls back to another card, and this is how far that can go.

### OAuthTokens and Connection

Calls are `Users` (`load_access_token`, before every authenticated read),
`Confirmers` (the end of `confirm_login`) and `Operators` (`exchange-code`,
`oauth-acquire`, `set-token`, `clear-token`). A token is the number of the grant HH
issued it with. `jsonState` and `json` are `hh_token.json`, `plain` is `access_token`;
`issued`, `alive` and `expired` are HH; `parent[c]` is the refresh token a call has
sent, `held[c]` the record it is saving. `forgotten` is a history variable: grants that
HH replaced without anybody getting the successor. `Faults` says which faults may
happen: a process is `killed`, an answer is `lost`, or it is `bare` of a refresh token or of `expires_in`.

| Action | Code |
|---|---|
| `Load`, `ConfirmTokens` | `load_access_token` and the refresh of `confirm_login`: read, test the expiry, return or renew |
| `Reload` | `refresh_token_record` reads the file again |
| `Refresh`, `RefreshLost`, `RefreshFails` | the token request and its answer |
| `Exchange`, `SetToken` | `exchange_authorization_code`, `set_access_token` |
| `OpenJson`, `WriteJson`, `WritePlain` | `save_token_record`: the file is truncated, filled and closed, then the copy |
| `ClearJson`, `ClearPlain` | `clear_token_record` |
| `Kill`, `Expire` | the process; HH (external) |
| `Ask`, `Account`, `AccountRefused` | `GET /connection`, `fetch_account`: one status and one action; HH refuses the token of the account |
| `OpenLogin`, `TornMarker`, `Confirm`, `ConfirmIncomplete`, `ClearLogin` | the marker's part of `session.py`, and a write of it that is killed half-way |
| `Acquire`, `Read` | the operator's `oauth-acquire` or `exchange-code`; `require_authenticated_read` |

`Connection` EXTENDS `OAuthTokens` and adds the marker of `session.json` and `advice`,
the action the operator was last told. `Status` and `ActionOf` are
`_connection_status_raw`, case by case in the order of the code. A login window and
what is seen of it are outcomes of a step here: `ProfileAccess` has their steps.

### LimitedApply, ApplicationSync, Funnel

`Negotiations` is HH: `state[v]` is the negotiation about vacancy `v`, `had[v]` what it
has been (history). HH accepts one negotiation for a vacancy. A listing takes one of the
two ways of `list_applications`: HH answers with `items`, which is one page of one moment
(`FirstPage`); or with `collections`, or with nothing, and the listing is put together of
parts (`Parts`), the items nested in a collection and the pages read under its url or
under the first url again, with a step for each, between which HH goes on.

| Action | Code |
|---|---|
| `Start` | the gates and `plan[:max(1, limit)]` (`Clamped`, `Selected`) |
| `Submit`, `SubmitLost`, `SubmitFails` | one item of the loop of `limited_apply` with its POST: accepted; accepted with the answer lost; refused, unreachable, incomplete or a captcha, which ends the loop |
| `Finish`, `Die` | the report; the process killed before or after a POST |
| `ListPage` | `list_applications` with a page of items |
| `ListCollections`, `ListPart`, `ListEnds` | `_collect_from_payload` and `_paginate`, one part after the other; `items[s][v]` is the set of the states in which `v` was listed, and each is an item of its own |
| `Resolve`, `CreateVacancy` | `_resolve_vacancy_id`: in Core's list, made of the negotiation, or an error |
| `CreateApplication` | `create_application` under the key of the negotiation |
| `EndSync` | the report, or the process killed |
| `Ingest` | a search run, or `sync_vacancies` |
| `Change` | the employer (external) |

A run of apply writes nothing to Core (`core_application_created` is always false), so
`Funnel` composes the two over the same negotiations and asks whether Core gets to know
of them. A key that Core has seen is answered from what it stored: an application keeps
the state it was first stored with. `submitted`, `failed`, `execution` and `attempted`
are the fields of the report; `mine` is a history variable, the negotiations a run has
really made, which `ReportIsTrue` holds to the limit and to the report. What a finished run had is forgotten, and its vacancies are not.

### MetricsSync

`Meters` are runs of `metrics sync`: `ListPage` and `ListCollections`, `ListPart`,
`ListEnds` are the listing of `list_metrics`, as above, counted as it comes (`Counted`);
`AddViews` is the request for the views of the resumes, `Put` `upsert_metric` under
`metric_idempotency_key`, `Fails` any failure. `metric` is Core's snapshot of one day,
`keys` the counts that came under a key it has seen; `parts` is a history variable in a
snapshot, how many answers it was counted from. The model does not say that a snapshot is
of one moment, for it is not: the parts of a listing are of several, the views of another
one. The views themselves are not in the state; what they do is that counts which have
been sent before may come under a new key (`Upsert`).

## 3. Runs

| Run | Instance | Shows |
|---|---|---|
| `search_run_one` | one resume_suitable run, 2 pages, 2 vacancies, 2 contents, detail limit 1, every Core call failing, crashes, another writer | `TypeOK`, `VerdictIsTrue`, `ClaimsAreBacked`, `ResponseIsHonest`, `GuardedUnlessWalled`, the refinement `ImplementsContract`, and the action property `RunsGoOnward` |
| `search_run_two` | a profile_search and a resume_suitable run, 1 page, 1 vacancy, 2 contents, another writer, failing lookups, ingests and items | `CreatedOnce`, `UpdatesOnlyMissed`, and the liveness `EveryRunFinalized` |
| `search_run_page_failure` | one run, no fault | `PageFailureIsPartial` is violated |
| `profile_access` | a reader, an opener, a confirmer, a pid, one restart | `TypeOK`, `LockIsOwed`, and the liveness `LeftoverIsDropped` |
| `profile_two_readers` | two readers | `ExclusiveUse` is violated |
| `profile_window_unlocked` | an opener, a confirmer, two pids | `HeldWhileWindowOpen` is violated |
| `challenge_handoff` | two searches, an opener, a confirmer, one gate, one window | `TypeOK`, `OfferedRightly`, `ClearedIsProbed`, and the liveness `SolvedIsCleared` |
| `challenge_reclassified` | the same, no window | `ConfirmedIsCaptured` is violated |
| `resume_sync` | a selector, two syncers, two resumes of which one is in use, one change by the owner, every visit and call failing | `TypeOK`, `AnswerIsStored`, `FileNotOlder`, `LinkIsSelection`, the refinement `ImplementsContract`, and the liveness `FileCatchesUp` |
| `connection` | a user, a confirmer, an operator, three grants, every fault | `CTypeOK`, `StoredRefreshIsGood`, `LoginSurvives`, and the liveness `FollowingConnects` |
| `funnel` | one run of apply at a time, two syncs, two vacancies of which one carries its title, a plan of two items and one with an incomplete item, limits 0 and 2, listings of one page or of parts, one change by the employer | `TypeOK`, `ReportIsTrue`, `OkIsApplied`, `SyncedIsThere`, the refinement `ImplementsContract`, and the liveness `EveryApplicationArrives` |
| `metrics` | two metrics syncs, two vacancies, listings of one page or of at most two parts, one change by the employer | `TypeOK`, `CountsAreBacked`, and the liveness `NewCountsArrive` |

Bounds, and why they are enough. *Two pages* give every combination of an ok page,
a failed page and a wall before or after the other; the code treats the third page
like the second. *Two vacancies and a detail limit of one* give a vacancy that is
opened and one that is cut. *Two contents* give created, unchanged and updated. *Two
runs on one vacancy* give every race between a lookup and an ingest; ids do not
interact in the code except through the detail limit, which is in the other
instance. In `ProfileAccess` one process of each kind already meets every other
kind; two readers and two windows are in the instances that need them. *One restart*
(`MaxRestarts`) is enough to leave stale files to a new container. In
`ChallengeHandoff` *two searches* give a newer challenge that meets the handlers of
an older one, and an opener and a confirmer that have read either of them. The
operator asks for the window once (`MaxWindows`), which gives every race of a window
with a confirm, and confirms as often as he likes. HH raises the gate once
(`MaxGates`), before, between or after the searches; with `SolvedIsCleared` a second
gate adds nothing, since it makes the property hold at once. A second gate after a
good probe is covered by the theorem `ClearingIsProbed`. In `ResumeSync` *two syncers*
store the same or two versions in any order, and *one change* falls before, between
or after their visits. *One resume in use* keeps the liveness check small: syncs of
different resumes meet in nothing but the card that `CardOf` falls back to, for which the
second resume is there, and the theorems hold for any number. In `Connection` *three grants* (`MaxGrants`) are a first one, the
one a refresh puts in its place and one the operator obtains meanwhile; *one call of
each kind* gives two writers of the same file and a third that unlinks it. That refreshes
of any number of users keep the invariants is a theorem. `FollowingConnects` ends with
the last grant, as HH has no such end. In `Funnel` *two vacancies* give an item that is
synced and one that fails, with and without a title in the negotiation; *two syncs*
race for the same keys; *limits 0 and 2* are the clamp to one item and the whole plan.
*A page of two* holds all negotiations, which is the premise of the liveness; a shorter
page is covered by the theorems. *One change* (`MaxChanges`) falls before, between or
after the syncs, or between two parts of a listing. *Two entries of a listing made of
parts* (`MaxListed`) are the two vacancies, or one of them in both its states. In
`MetricsSync` *two vacancies* and *two parts* (`MaxParts`, `MaxListed`) give a negotiation
that is listed twice, as two applications and one rejection or two, and one that is
missed. The theorems of section 5 hold without any of these
bounds.

Deadlock is not checked where the system may stop: handlers return and nobody has to
start another one. In `profile_access`, `funnel` and `metrics` somebody may always
press a button or run a command, and it is checked.

Fairness. `SearchRun`: weak fairness of the steps of a *started* handler, which is
plain code in a thread with a timeout on every page load and every Core call; nothing
is assumed of who starts a run. `EveryRunFinalized` is checked where start and
finalize are answered and the process is not killed, since the code neither retries
a finalize nor reclaims a running run (see the hazards). `ProfileAccess`: weak
fairness of a started handler, of the death of a killed Chromium, and of the window
(its wait ends after an hour). `OpenLogin` is fair *including the request*: that is
the premise of `LeftoverIsDropped`, not a promise of the code. Nothing else drops the
lock of a dead container except a confirm. `ChallengeHandoff`: weak fairness of a
started search or open and of the window, as above. `Confirm` is fair including the
request (the operator confirms again while a challenge is stored), and a good probe
is strongly fair: HH answers the resumes page some time when it is asked often enough
and no challenge is up. Both are premises of `SolvedIsCleared`, not promises of the
code. What the code contributes is that no refusal, stale write or locked profile is
final. `ResumeSync`: one operator (`Patient`) syncs the selected resume again and
again, a started sync goes on, and each visit and call for this resume succeeds some
time if it is made often enough. These are the premises of `FileCatchesUp`; what the
code contributes is that a version that is already there does not end the sync before
its file.

`Connection`: a started handler goes on; the operator asks for the status and does what
it says, and does so until it is done; a refresh and an exchange succeed some time if
they are tried often enough. `Calm` adds that from some time on nothing is killed and
nobody logs out. What the code contributes is that the action leads to `connected` from
wherever overlapping calls have left marker and files. `Leads` is the part of the states
for which that is true (section 4 has the other). `Funnel`: the syncs of `Steady` are run
again and again (an operator or a timer, the code has neither), and each step of them
goes well for a vacancy of `Served` some time if it is made for it often enough: a listing
has the vacancy, be it of a page or of parts, and the two calls to Core succeed. Nothing is
assumed of the calls for other vacancies. The other syncs, every apply run and the employer
owe nothing. `MetricsSync`: the syncs of `Steady` are run again and again and go on; HH
answers with a page of items some time if it is asked often enough; and the request for the
views and the call to Core go well some time, if they are made often enough with the counts
HH shows. That HH answers with a page is a premise, and so is that counts are sent under a
key of their own: listings in parts may be wrong for ever.

Every property of a passing run has a mutant: the definition `Mutant...` that stands
before the one it changes is the same code with a plausible bug, and the run finds
the property violated with it.

## 4. Findings

Each is a run that TLC ends with a counterexample; the quoted text and the line are in
`PROJECT.json`.

1. *A failed page is forgotten when the other pages are empty*
   (`search_run_page_failure`): the branch for "nothing found" precedes the one that
   looks at failed pages. `VerdictIsTrue`, which is proved, says that this is the only
   such run: a successful one that has a single vacancy has read all its pages.
2. *Two readers acquire the profile* (`profile_two_readers`): exists, then write.
3. *A login window runs without its lock* (`profile_window_unlocked`): its lock is
   taken for an orphan before it has launched Chromium, or dropped by a confirm.
4. *A confirmed challenge is filed as invalid* (`challenge_reclassified`):
   `begin_challenge_handoff` classifies again by the URL alone, so a challenge that
   only the title or the DOM confirms vanishes from the operator's view.

More departures are in the models and not kept as runs of their own:

* *Batch acquisition updates vacancies* (`SearchRun`): existence is asked before, ingest
  is an upsert, nothing rechecks (`search_run_orchestration.py:571`;
  `docs/specs/search-run-orchestration.md:108` says otherwise). `UpdatesOnlyMissed` says
  exactly which vacancies can be hit; a failed lookup chunk has the same effect.
* *The SERP guard is skipped behind a wall* (`SearchRun`): the returns for walls come
  first, and the cards read so far are processed (`vacancy_browser.py:1035`).
  `GuardedUnlessWalled` says that this is the only hole.
* *Ids beyond `detail_limit`* become error items and turn an undisturbed run into a
  partial one (`SearchRun`).
* *A stale pid file stops another process* (`ProfileAccess`): after a restart the pid
  may belong to anything (`session.py:430`); a second `open_login` overwrites the pid of
  the first window, which can no longer be stopped (`session.py:300`).
* *Two Chromium on the profile* (`ProfileAccess`): the singleton is unlinked after a look
  at the process list (`browser.py:57`).
* *A login confirmed unseen* (`ProfileAccess`): without a pending marker `confirm_login`
  writes `present` without a look at the browser (`session.py:389`).
* *A challenge removed unprobed* (`ChallengeHandoff`): one that was stored without a URL
  is removed by a confirm without a probe (`challenge_handoff.py:621`). It says only that
  a capture failed, and `ClearedIsProbed` leaves it out.
* *Two selects at a time* may leave `active_resume.json` and Core with different resumes
  while both report `synced`, and the file stored for a version may be another resume's
  when the card is missing (`ResumeSync`).
* *An expired token that cannot be refreshed is never renewed by what the status says*
  (`Connection`): `expired` asks for `reconnect` (`connection.py:121`), which leads to a
  login in the browser and a `confirm_login`; neither obtains a token, and the status is
  `expired` again. `docs/specs/recovery-states.md:18` gives `reconnect` as the way out.
  This is why `FollowingConnects` is conditional on `Leads`.
* *The two token files may be of different grants* (`OAuthTokens`), after overlapping
  saves or a kill between the two writes, and `clear-token` is not final: a refresh that
  was on its way writes the copy back after it.
* *The first page only* (`ApplicationSync`, `MetricsSync`): a listing returns the first
  page that has items, so negotiations beyond it are neither synced nor counted. The
  liveness properties have that premise.
* *A listing of several moments* (`ApplicationSync`, `MetricsSync`): HH may answer with
  `collections`, which are read one request after the other (`providers.py:253-269`,
  `286-299`). A negotiation that an employer moves from one to another in between is listed
  twice or not at all. Metrics sync then counts it twice, or misses it; `CountsAreBacked` is
  how far that can go. Application sync sends it twice under one key, and Core keeps the
  state that came first.
* *A count that comes back stays out* (`MetricsSync`): when the counts of a day return to
  what they were before, the sync sends a key Core has seen, and Core keeps the counts in
  between. `docs/specs/metrics-sync.md:24-25` has identical snapshots replay and changed
  counts under a new key; `NewCountsArrive` is therefore about counts that no sync has
  sent this day.
* *A plan that is run again* may stop at its first item (`LimitedApply`): HH refuses the
  second application for a vacancy, and a 403 stops the run, so the items behind it are
  not reached.

## 5. Theorems

`SearchRun_proofs`, for any sets of runs, ids and contents, any page bound and
limit, any set of failing calls, with or without crashes and other writers:
`TypeCorrect`, `VerdictsAreTrue`, `ClaimsAlwaysBacked`, `CreateOnlyUnlessMissed`,
`CreatedAtMostOnce`, `ResponsesAreHonest`, `GuardRunsBeforeIngest`,
`ContractImplemented` and the action property `NoRunGoesRound`. They rest on the named assumptions of
`SearchRun`, which TLC evaluates in every run.

None of these is inductive. The invariant `IInv` adds what connects the place of a
handler with its data and with Core:

* `RunMatchesHandler`: a run is `running` in Core exactly while its handler works,
  so that only the handler's own finalize makes it terminal;
* `NothingCountedYet`: before `_process_unique_items` nothing is counted or
  recorded, which is why `AbortRun` may call the run failed;
* `ItemsPartition`, `RecordedIsCounted`: each summary is to do, ok or an error, and
  what Core shows of it is what was counted, so an item is added once;
* `CountedIsStored`: what Core reported as known and what was counted as ok is stored
  (vacancies are never removed);
* `CaptchaHasPage`: a run that got past `Classify` with a CAPTCHA has an ok page, so
  its terminal status is not failed;
* `GuardPassed`: a resume_suitable run that is behind `Classify`, or has counted
  something, has the right heading or met a wall; it carries `GuardedUnlessWalled` from
  the place where the guard runs to the one where vacancies are counted;
* `AcquiredIsComplete`: pages are read one after the other until a wall, so that each is
  either ok or failed, and a run goes on with the status that `AcquireStatus` gives to
  these pages and cards; the terminal status is made of it, which is where `VerdictIsTrue`
  comes from;
* `VerdictMatchesCounts`, `MissedIsUnknown`, `OneCreator`: what the terminal status,
  an update and a creation say of the counts, the last lookup and all other runs.

There is one lemma per conjunct, each split by action. `StepImplementsContract`
then maps every step to `Open`, `AddItem`, `Close` or a stutter of the contract.
`NoRunGoesRound` needs little of `IInv`, the types and `Located` (where a page is in hand): `OthersRest` shows that the steps of one
run leave what another knows alone, `OnwardStep` that its own lead to a later `Phase`, a
later page or a smaller rest. Since phases and pages are bounded and the rests finite,
a run ends after finitely many steps; that it takes them is fairness, and
`EveryRunFinalized` says where it then stands.

`ProfileAccess_proofs`, for any number of readers, openers, confirmers and pids:
`TypeCorrect`, `LocksAreOwed` and its corollary `NothingLeftBehind`. `LockIsOwed` is
inductive with the types: a lock file is that of a process which still has its release
before it, or else some confirmer has its own release before it. `Kill` takes the duty
from a window and `_stop_detached_login_browser` has it at that moment. A restart ends
this, and `LeftoverIsDropped` says what then becomes of the lock.

`ChallengeHandoff_proofs`, for any number of searches, windows and confirms and any
bounds: `TypeCorrect`, `RecoveryIsRight` and `ClearingIsProbed`. A property of the
stored file alone is not inductive, because every handler holds a copy it may write
back. The invariant therefore speaks of all copies: `Holding` (a handler at work has
a challenge in its hands), `CopiesSound` (each copy offers recovery rightly) and
`CopiesMet` (a copy of a confirmed challenge belongs to a search that has met its
last one, so that nothing takes the search out of `proven` after the probe). Lemma
`CopyStep` sorts all actions into three that make a record and the rest, which pass
copies on with at most another pid; `PassedOnKeeps` and `MadeCopies` treat each sort
once.

`ResumeSync_proofs`, for any number of selectors, syncers, resumes and changes:
`TypeCorrect`, `AnswersAreStored`, `FilesNotOlder` and `ContractImplemented`; with one
selector `LinkFollowsSelection`. The invariant `SyncsHold` says
what a sync holds at each point: a resume, no answer before Core gave one, a text no
newer than the page, and, before the upload, a file no older than the text. `Counted`
bounds the revisions by the changes. The two visits to HH are one lemma (`VisitStep`),
the two calls of Core one each. The refinement adds `FilesReady`: a sync that is about to
upload has a version that Core has, and a file that HH has shown, of another resume only
if its own is gone; other syncs and the owner keep it so (`ReadyKept`), as versions stay
and a deleted resume does not come back.

`LinkFollowsSelection` assumes that two selectors are the same one. Its invariant
`SelectHolds` says that the file holds what the select at work has written. Without the
assumption the property is false of the code (section 4); selects one after the other are
what an operator does, and nothing in the code keeps two requests apart.

`OAuthTokens_proofs`, for any number of calls and grants and any faults:
`TokensTypeCorrect`, `StoredRefreshStaysGood` and the action property `LoginIsKept`.
That the stored refresh token is good is not inductive: it says nothing of the tokens in
the hands of calls. The invariant adds `KnownGrants` (nothing is stored or sent that HH
has not issued), `NewInFlight` (a record that is on its way into the file has a good
refresh token, which neither the file nor another record on its way has) and
`NotSentYet` (nobody sends a refresh token that is still on its way into the file).
`LoginIsKept` rests on the same invariant: lemmas `RefreshKeeps`, `IssueKeeps`,
`IdleKeeps` and `SaveKeeps` show for each sort of action that a renewable record stays
or the step is one of `Disturbed`.

`Connection_proofs`: `ConnectionImplementsTokens` shows that every step of `Connection`
is a step of `OAuthTokens` or leaves its variables alone (`StepOfTokens`), so that the
theorems above hold of it; `ConnectionKeepsRefreshGood` and
`ConnectionKeepsLogin` are two of them, in the form in which the run checks them.
`ConnectionTypeCorrect` is about marker and advice: a status without a way out has the
action `none`.

`Funnel_proofs`, for any sets of vacancies, runs and plans, any limits and any page
size: `FunnelTypeCorrect`, `ReportsAreTrue`, `OkMeansApplied`, `SyncedIsInCore` and
`FunnelImplementsContract`. The invariant has a part for each module. `HhInv`: the state
of a negotiation is one it has had. `ApplyInv`: every selected item is still to do,
submitted or failed (`Accounted`), what a run made is in its report, and what it has made
and may still make is within its limit (`Bounded`): lost answers do not make it post more. `SyncInv`: what
is listed was once a state at HH, Core's applications are too, and what is counted as
synced is in Core. `Grows` (Core loses nothing, HH forgets nothing) carries one syncer's
part over the steps of the others. A step then maps to `Happen` (`EnterHappens`,
`ApplyHappens`), to `Learn` (`StoreLearns`, `SyncLearns`) or to a stutter of the contract.

`MetricsSync_proofs`, for any number of vacancies, syncs and parts of a listing and any
page size: `MetricsTypeCorrect` and `MetricCountsAreBacked`. The first says that no
snapshot, in a sync or in Core, has more rejections than entries, for both are counted over
the same list; it does not say that they are of one moment. The second bounds both by what
there is and was at HH, once for each part. One more part keeps it (`CountedIsBacked`), and
so does HH when it goes on (`StaysBacked`), because negotiations do not vanish, and one that
was declined has been, even if the employer takes that back.

Only model-checked: the liveness properties (`EveryRunFinalized`, `LeftoverIsDropped`,
`SolvedIsCleared`, `FileCatchesUp`, `FollowingConnects`, `EveryApplicationArrives`,
`NewCountsArrive`: temporal reasoning under fairness is beyond the prover used) and the
findings.

## 6. Not modelled, and the plan

Left out of the modelled parts: progress counters reported to Core during a run,
pagination metadata, DOM extraction, log files, display and egress checks,
screenshots, the message to the operator, the automatic opening of the window (no
caller asks for it), wording.

In `OAuthTokens` and `Connection`: the loopback listener (`oauth_callback.py`), of which
`Exchange` is the outcome, a token from the environment, the
profile lock and a capture in progress, which override the status for a time, a failed
read or egress check, which hide the action of one status (`connection.py:82-96`), and the
fields of the account. The account reads the files for the status and again for the token
(`profile.py:139`, `179`); that is one step, so its `access_token_missing`, for a token
cleared in between, is left out. In `MetricsSync`: the numbers of views, replies and
invitations, and the date, taken between two requests. In the funnel: which failure has which error code, the fields of the
report that no property is about, the normalisation of negotiations and the fixture and
public API providers, which change nothing; `dry_run_apply` and the fake transports
change nothing outside their report.

Next, in this order:

1. Proofs: that a lock of the profile is dropped only by its owner, an orphan test or a
   confirm.
2. The authorization by loopback: every request of the callback path ends the wait, in a
   thread of its own, so that a second one may put its error beside a good code, and
   `oauth_acquire` looks at the error first (`oauth_callback.py:189`); the `state` is by
   default a fixed word, so that a late callback of an older authorization is taken for
   the current one; `oauth-callback.pid` is written and never read.
3. Page bounds and continuation (`_clamp`, `start_page`) as operators against a
   reference definition; the SERP guard with redirected pages (it gets the URL that was
   asked for, `vacancy_browser.py:1082`).
4. The outcome classification of content refresh and source status.

Not planned: the HTTP and CLI layers, configuration, the pure query mapping and the
DOM extractors, which keep no state and have no order of steps to get wrong.
