----------------------------- MODULE ResumeSync -----------------------------
(***************************************************************************)
(* The operator's active resume, and its copy in Core (active_resume.py,   *)
(* core_linkage.py, resume_sync.py, resume_content.py,                     *)
(* resume_file_download.py).                                               *)
(*   - Selectors: PUT /api/v1/resumes/active, which reads HH's list, then  *)
(*     writes active_resume.json, then the link in Core;                   *)
(*   - Syncers: POST /api/v1/resumes/sync, which reads the resume page,    *)
(*     stores a version in Core, goes back to HH for the file, and stores  *)
(*     it as an artifact of the version.                                   *)
(* The owner edits and deletes resumes at HH meanwhile.  Each visit to HH  *)
(* may fail (no login, profile locked, challenge, another page), and each  *)
(* call of Core may be refused or lose its answer.                         *)
(*                                                                         *)
(* Abstractions.  The content of a resume is the number of its revision:   *)
(* an edit gives a content that was never there before.  Core is modelled  *)
(* from the answers the code expects of it.  The profile lock is one of    *)
(* the reasons a visit to HH fails; ProfileAccess has its steps.           *)
(*                                                                         *)
(* A definition named Mutant... is the one that follows it with a          *)
(* plausible bug; no specification uses it.                                *)
(***************************************************************************)
EXTENDS Naturals

CONSTANTS Selectors, Syncers,
          Resumes,
          InUse,         \* those of them that the operator selects and syncs
          None,          \* no resume, no answer
          Patient,       \* the syncer that is asked again and again
          Wished,        \* the resume it is asked for
          MaxChanges     \* bound: how often the owner edits or deletes

ASSUME DistinctHandlers == Selectors \cap Syncers = {}
ASSUME DistinctNone     == None \notin Resumes
ASSUME UsedAreResumes   == InUse \subseteq Resumes
ASSUME PatientSyncs     == Patient \in Syncers /\ Wished \in InUse
ASSUME ChangesNatural   == MaxChanges \in Nat

Handlers  == Selectors \cup Syncers
Revisions == 0..MaxChanges
Version   == [resume : Resumes, revision : Revisions]   \* also a file: what it shows
Artifact  == [version : Version, file : Version]
Outcomes  == {"ok", "refused", "lost"}
Codes     == {"none", "failed", "synced", "unchanged"}

VARIABLES
    pc,           \* where each handler stands
    listed,       \* HH: the resumes there are
    revision,     \* HH: the content of each
    changes,      \* how often the owner changed something
    selected,     \* active_resume.json: a resume, or None
    link,         \* Core: the resume linked to the candidate, or None
    versions,     \* Core: ResumeVersions
    artifacts,    \* Core: their files
    wanted,       \* wanted[s]: what the select asks for
    linked,       \* linked[s]: its core_linkage.ok
    target,       \* target[y]: the resume to sync, or None
    extracted,    \* extracted[y]: the revision it read
    file,         \* file[y]: what it downloaded
    code, fileOk  \* code[y], fileOk[y]: its answer

hh     == <<listed, revision, changes>>
core   == <<link, versions, artifacts>>
select == <<wanted, linked>>
answer == <<code, fileOk>>
sync   == <<target, extracted, file, answer>>
vars   == <<pc, hh, selected, core, select, sync>>

TypeOK ==
    /\ pc \in [Handlers -> {"idle", "store", "link",
                            "extract", "ingest", "download", "upload"}]
    /\ listed \subseteq Resumes
    /\ revision \in [Resumes -> Revisions]
    /\ changes \in 0..MaxChanges
    /\ selected \in Resumes \cup {None}
    /\ link \in Resumes \cup {None}
    /\ versions \subseteq Version
    /\ artifacts \subseteq Artifact
    /\ wanted \in [Selectors -> Resumes \cup {None}]
    /\ linked \in [Selectors -> BOOLEAN]
    /\ target \in [Syncers -> Resumes \cup {None}]
    /\ extracted \in [Syncers -> Revisions]
    /\ file \in [Syncers -> Version \cup {None}]
    /\ code \in [Syncers -> Codes]
    /\ fileOk \in [Syncers -> BOOLEAN]

Init ==
    /\ pc = [h \in Handlers |-> "idle"]
    /\ listed = Resumes /\ revision = [r \in Resumes |-> 0] /\ changes = 0
    /\ selected = None
    /\ link = None
    /\ versions = {} /\ artifacts = {}
    /\ wanted = [s \in Selectors |-> None]
    /\ linked = [s \in Selectors |-> FALSE]
    /\ target = [y \in Syncers |-> None]
    /\ extracted = [y \in Syncers |-> 0]
    /\ file = [y \in Syncers |-> None]
    /\ code = [y \in Syncers |-> "none"]
    /\ fileOk = [y \in Syncers |-> FALSE]

Move(h, from, to) == /\ pc[h] = from
                     /\ pc' = [pc EXCEPT ![h] = to]
-----------------------------------------------------------------------------
(* Selecting and clearing.                                                 *)

\* _list_resumes_raw and the checks of set_active_resume.  A clear needs no list; a
\* resume must be on it.
ReadList(s, want) ==
    /\ want \in listed \cup {None}
    /\ Move(s, "idle", "store")
    /\ wanted' = [wanted EXCEPT ![s] = want]
    /\ linked' = [linked EXCEPT ![s] = FALSE]
    /\ UNCHANGED <<hh, selected, core, sync>>

\* write_stored_external_id
StoreSelection(s) ==
    /\ Move(s, "store", "link")
    /\ selected' = wanted[s]
    /\ UNCHANGED <<hh, core, select, sync>>

MutantPutLink(s, outcome) ==                       \* the error is reported as success
    /\ Move(s, "link", "idle")
    /\ link' = IF outcome = "refused" THEN link ELSE wanted[s]
    /\ linked' = [linked EXCEPT ![s] = TRUE]
    /\ wanted' = [wanted EXCEPT ![s] = None]
    /\ UNCHANGED <<hh, selected, versions, artifacts, sync>>

\* sync_active_resume_link: best effort, it never fails the select.
PutLink(s, outcome) ==
    /\ Move(s, "link", "idle")
    /\ link' = IF outcome = "refused" THEN link ELSE wanted[s]
    /\ linked' = [linked EXCEPT ![s] = outcome = "ok"]
    /\ wanted' = [wanted EXCEPT ![s] = None]
    /\ UNCHANGED <<hh, selected, versions, artifacts, sync>>

Select(s) ==
    \/ \E want \in InUse \cup {None} : ReadList(s, want)
    \/ StoreSelection(s)
    \/ \E outcome \in Outcomes : PutLink(s, outcome)
-----------------------------------------------------------------------------
(* sync_resume_content                                                     *)

\* The version a sync has read, and stores.
VersionOf(y) == [resume |-> target[y], revision |-> extracted[y]]

Answer(y, c, ok) == /\ code' = [code EXCEPT ![y] = c]
                    /\ fileOk' = [fileOk EXCEPT ![y] = ok]

\* The sync is over and has nothing to show.
Fail(y, from) == /\ Move(y, from, "idle")
                 /\ Answer(y, "failed", FALSE)
                 /\ target' = [target EXCEPT ![y] = None]
                 /\ extracted' = [extracted EXCEPT ![y] = 0]
                 /\ file' = [file EXCEPT ![y] = None]

MutantReadTarget(y, r) ==                          \* the id goes where the file belongs
    /\ Move(y, "idle", "extract")
    /\ target' = [target EXCEPT ![y] = r]
    /\ extracted' = [extracted EXCEPT ![y] = 0]
    /\ file' = [file EXCEPT ![y] = r]
    /\ Answer(y, "none", FALSE)
    /\ UNCHANGED <<hh, selected, core, select>>

\* The resume of the request, or the selected one; without either nothing happens.
ReadTarget(y, r) ==
    /\ r # None
    /\ Move(y, "idle", "extract")
    /\ target' = [target EXCEPT ![y] = r]
    /\ extracted' = [extracted EXCEPT ![y] = 0]
    /\ file' = [file EXCEPT ![y] = None]
    /\ Answer(y, "none", FALSE)
    /\ UNCHANGED <<hh, selected, core, select>>

\* read_resume_content
Extract(y) ==
    /\ target[y] \in listed
    /\ Move(y, "extract", "ingest")
    /\ extracted' = [extracted EXCEPT ![y] = revision[target[y]]]
    /\ UNCHANGED <<hh, selected, core, select, target, file, answer>>

ExtractFails(y) ==
    /\ Fail(y, "extract")
    /\ UNCHANGED <<hh, selected, core, select>>

MutantStored(y) ==                                 \* a version seen before needs no file
    /\ Move(y, "ingest", IF VersionOf(y) \in versions THEN "idle" ELSE "download")
    /\ Answer(y, IF VersionOf(y) \in versions THEN "unchanged" ELSE "synced", FALSE)

\* create_resume_version was answered: Core says whether it created the version.
Stored(y) ==
    /\ Move(y, "ingest", "download")
    /\ Answer(y, IF VersionOf(y) \in versions THEN "unchanged" ELSE "synced", FALSE)

Ingest(y, outcome) ==
    /\ IF outcome = "ok" THEN Stored(y) /\ UNCHANGED <<target, extracted, file>>
                         ELSE Fail(y, "ingest")
    /\ versions' = IF outcome = "refused" THEN versions ELSE versions \cup {VersionOf(y)}
    /\ UNCHANGED <<hh, selected, link, artifacts, select>>

MutantCardOf(r) == listed                          \* the highlighted card, whatever its id

\* _resume_card_locator: without a card of the resume it takes the highlighted or the
\* first one.
CardOf(r) == IF r \in listed THEN {r} ELSE listed

MutantDownload(y) ==                               \* a file stored before is used again
    /\ Move(y, "download", "upload")
    /\ LET kept == {a.file : a \in {b \in artifacts : b.file.resume = target[y]}}
           page == {[resume |-> r, revision |-> revision[r]] : r \in CardOf(target[y])}
       IN  \E f \in (IF kept # {} THEN kept ELSE page) : file' = [file EXCEPT ![y] = f]
    /\ UNCHANGED <<hh, selected, core, select, target, extracted, answer>>

\* download_resume_file, which has a page of its own.
Download(y) ==
    /\ Move(y, "download", "upload")
    /\ \E r \in CardOf(target[y]) :
           file' = [file EXCEPT ![y] = [resume |-> r, revision |-> revision[r]]]
    /\ UNCHANGED <<hh, selected, core, select, target, extracted, answer>>

\* The sync is answered without a file; or Playwright raised, and there is no answer.
DownloadFails(y) ==
    /\ \/ Move(y, "download", "idle") /\ UNCHANGED sync
       \/ Fail(y, "download")
    /\ UNCHANGED <<hh, selected, core, select>>

MutantUpload(y, outcome) ==                        \* the error is reported as success
    /\ Move(y, "upload", "idle")
    /\ artifacts' = IF outcome = "refused" THEN artifacts
                    ELSE artifacts \cup {[version |-> VersionOf(y), file |-> file[y]]}
    /\ Answer(y, code[y], TRUE)
    /\ UNCHANGED <<hh, selected, link, versions, select, target, extracted, file>>

\* create_resume_artifact
Upload(y, outcome) ==
    /\ Move(y, "upload", "idle")
    /\ artifacts' = IF outcome = "refused" THEN artifacts
                    ELSE artifacts \cup {[version |-> VersionOf(y), file |-> file[y]]}
    /\ Answer(y, code[y], outcome = "ok")
    /\ UNCHANGED <<hh, selected, link, versions, select, target, extracted, file>>

Request(y) == \E r \in InUse \cup {selected} : ReadTarget(y, r)

Sync(y) ==
    \/ Request(y)
    \/ Extract(y) \/ ExtractFails(y)
    \/ \E outcome \in Outcomes : Ingest(y, outcome) \/ Upload(y, outcome)
    \/ Download(y) \/ DownloadFails(y)
-----------------------------------------------------------------------------
EditResume(r) ==
    /\ changes < MaxChanges /\ r \in listed
    /\ changes' = changes + 1
    /\ revision' = [revision EXCEPT ![r] = @ + 1]
    /\ UNCHANGED <<pc, listed, selected, core, select, sync>>

DeleteResume(r) ==
    /\ changes < MaxChanges /\ r \in listed
    /\ changes' = changes + 1
    /\ listed' = listed \ {r}
    /\ UNCHANGED <<pc, revision, selected, core, select, sync>>

Next ==
    \/ \E s \in Selectors : Select(s)
    \/ \E y \in Syncers : Sync(y)
    \/ \E r \in Resumes : EditResume(r) \/ DeleteResume(r)

Spec == Init /\ [][Next]_vars

\* A started sync goes on.  While the wished resume is selected, the operator syncs it again
\* and again, and HH and Core do what they are asked for it some time, if asked often enough.
Fairness ==
    /\ WF_vars(Sync(Patient) /\ pc[Patient] # "idle")
    /\ SF_vars(ReadTarget(Patient, Wished) /\ selected = Wished)
    /\ SF_vars(Extract(Patient) /\ target[Patient] = Wished)
    /\ SF_vars(Ingest(Patient, "ok") /\ target[Patient] = Wished)
    /\ SF_vars(Download(Patient) /\ target[Patient] = Wished)
    /\ SF_vars(Upload(Patient, "ok") /\ target[Patient] = Wished)

FairSpec == Spec /\ Fairness
-----------------------------------------------------------------------------
(* Properties.                                                             *)

\* What a sync answers is in Core, whatever other syncs and the owner did meanwhile: the
\* version, and with a file that is ok, the file as one of this version.
AnswerIsStored ==
    \A y \in Syncers :
        code[y] \in {"synced", "unchanged"} =>
            /\ VersionOf(y) \in versions
            /\ fileOk[y] => [version |-> VersionOf(y), file |-> file[y]] \in artifacts

\* The text of a version and its file come from two visits to HH.  The file is never
\* older than the text, so a file that differs shows an edit the next sync will find.
FileNotOlder ==
    \A a \in artifacts :
        a.file.resume = a.version.resume => a.file.revision >= a.version.revision

Contract == INSTANCE ResumeContract

\* Core's versions and files are what the contract allows, whatever fails, overlaps or is
\* edited between the two visits of a sync to HH: none is invented, none changes, and a
\* file of another resume gets in only after the owner has deleted the right one.
ImplementsContract == Contract!CSpec

\* After a select that reports the link as synced, local file and Core name the same
\* resume until the next select begins (with one select at a time).
LinkIsSelection == \A s \in Selectors : linked[s] => link = selected

HasFile(v) == \E a \in artifacts : a.version = v

\* A version whose file was not stored gets one, if the operator syncs its resume
\* again and it stays as it is: no failure is final, although the version exists.
FileCatchesUp ==
    \A n \in Revisions :
        LET v     == [resume |-> Wished, revision |-> n]
            Asked == /\ Wished \in listed /\ selected = Wished
                     /\ revision[Wished] = n /\ v \in versions
        IN  Asked ~> HasFile(v) \/ ~Asked
=============================================================================
