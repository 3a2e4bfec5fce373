-------------------------- MODULE ResumeSync_proofs --------------------------
(***************************************************************************)
(* Proofs about ResumeSync, for any number of selectors, syncers and       *)
(* resumes and any number of changes.                                      *)
(***************************************************************************)
EXTENDS ResumeSync, TLAPS

\* No resume was edited more often than the owner changed something.
Counted == \A r \in Resumes : revision[r] <= changes

\* What a sync holds at each point: a resume, no answer before Core gave one, a text
\* that was on the page, and a file that was there after the text.
Holds(y) ==
    /\ pc[y] \in {"extract", "ingest", "download", "upload"} => target[y] \in Resumes
    /\ pc[y] \in {"extract", "ingest"} => code[y] = "none"
    /\ pc[y] \in {"download", "upload"} => ~fileOk[y]
    /\ pc[y] \in {"ingest", "download", "upload"} => extracted[y] <= revision[target[y]]
    /\ pc[y] = "upload" =>
          /\ file[y] \in Version
          /\ file[y].resume = target[y] => file[y].revision >= extracted[y]

SyncsHold == \A y \in Syncers : Holds(y)

\* A select reports nothing before its end, and what it asks Core for is in the file.
SelectHolds ==
    \A s \in Selectors : /\ pc[s] \in {"store", "link"} => ~linked[s]
                         /\ pc[s] = "link" => selected = wanted[s]

IInv == TypeOK /\ Counted /\ SyncsHold /\ AnswerIsStored /\ FileNotOlder
-----------------------------------------------------------------------------
\* The initial states satisfy the inductive invariant.
LEMMA Start == Init => IInv
  BY DistinctHandlers, ChangesNatural
     DEF Init, IInv, TypeOK, Counted, SyncsHold, Holds, AnswerIsStored, FileNotOlder,
         Handlers, Revisions, Codes

\* What a sync holds makes a version, and its file an artifact.
LEMMA VersionTypes ==
  ASSUME TypeOK, SyncsHold, NEW y \in Syncers
  PROVE  /\ pc[y] \in {"extract", "ingest", "download", "upload"} =>
               VersionOf(y) \in Version
         /\ pc[y] = "upload" => [version |-> VersionOf(y), file |-> file[y]] \in Artifact
  BY DEF TypeOK, SyncsHold, Holds, VersionOf, Version, Artifact

\* A step of the sync y leaves what the other syncs hold.
LEMMA OthersHold ==
  ASSUME IInv, NEW y \in Syncers, Holds(y)',
         UNCHANGED revision,
         \A z \in Syncers \ {y} : /\ pc'[z] = pc[z] /\ target'[z] = target[z]
                                  /\ extracted'[z] = extracted[z] /\ file'[z] = file[z]
                                  /\ code'[z] = code[z] /\ fileOk'[z] = fileOk[z]
  PROVE  SyncsHold'
<1> SUFFICES ASSUME NEW z \in Syncers, z # y
             PROVE  Holds(z)'
  BY DEF SyncsHold
<1> QED
  BY DEF IInv, SyncsHold, Holds, Version, Revisions
-----------------------------------------------------------------------------
\* A select changes nothing a sync has or has stored.
LEMMA SelectStep ==
  ASSUME IInv, NEW s \in Selectors, Select(s)
  PROVE  IInv'
<1>0. s \in Handlers /\ s \notin Syncers
  BY DistinctHandlers DEF Handlers
<1>1. UNCHANGED <<hh, versions, artifacts, sync>>
  BY DEF Select, ReadList, StoreSelection, PutLink, core
<1>2. \A y \in Syncers : pc'[y] = pc[y]
  BY <1>0 DEF Select, ReadList, StoreSelection, PutLink, Move, IInv, TypeOK, Handlers
<1>3. TypeOK'
  <2>1. CASE \E want \in InUse \cup {None} : ReadList(s, want)
    BY <1>0, <1>1, <2>1, UsedAreResumes
       DEF ReadList, Move, IInv, TypeOK, hh, core, sync, answer
  <2>2. CASE StoreSelection(s)
    BY <1>0, <1>1, <2>2
       DEF StoreSelection, Move, IInv, TypeOK, hh, core, select, sync, answer
  <2>3. CASE \E outcome \in Outcomes : PutLink(s, outcome)
    BY <1>0, <1>1, <2>3 DEF PutLink, Move, IInv, TypeOK, hh, sync, answer
  <2>4. QED
    BY <2>1, <2>2, <2>3 DEF Select
<1>4. Counted'
  BY <1>1 DEF IInv, Counted, hh
<1>5. SyncsHold'
  BY <1>1, <1>2 DEF IInv, SyncsHold, Holds, hh, sync, answer
<1>6. AnswerIsStored' /\ FileNotOlder'
  BY <1>1 DEF IInv, AnswerIsStored, FileNotOlder, VersionOf, sync, answer
<1>7. QED
  BY <1>3, <1>4, <1>5, <1>6 DEF IInv

\* The owner edits or deletes a resume: the texts in the syncs' hands can only get older
\* than the page.
LEMMA OwnerStep ==
  ASSUME IInv, NEW r \in Resumes, EditResume(r) \/ DeleteResume(r)
  PROVE  IInv'
<1>1. /\ UNCHANGED <<pc, selected, core, select, sync>>
      /\ changes' \in Revisions /\ changes <= changes' /\ listed' \subseteq Resumes
  BY ChangesNatural DEF EditResume, DeleteResume, IInv, TypeOK, Revisions
<1>2. /\ revision' \in [Resumes -> Revisions]
      /\ \A q \in Resumes : revision[q] <= revision'[q] /\ revision'[q] <= changes'
  <2>1. CASE EditResume(r)
    BY <2>1, ChangesNatural DEF EditResume, IInv, TypeOK, Counted, Revisions
  <2>2. CASE DeleteResume(r)
    BY <2>2, ChangesNatural DEF DeleteResume, IInv, TypeOK, Counted, Revisions
  <2>3. QED
    BY <2>1, <2>2
<1>3. TypeOK'
  BY <1>1, <1>2 DEF IInv, TypeOK, Revisions, core, select, sync, answer
<1>4. Counted'
  BY <1>2 DEF Counted
<1>5. SyncsHold'
  <2> SUFFICES ASSUME NEW y \in Syncers
               PROVE  Holds(y)'
    BY DEF SyncsHold
  <2>1. Holds(y) /\ extracted[y] \in Nat /\ revision \in [Resumes -> Nat]
    BY DEF IInv, SyncsHold, TypeOK, Revisions
  <2>2. revision' \in [Resumes -> Nat]
    BY <1>2 DEF Revisions
  <2>3. QED
    BY <1>1, <1>2, <2>1, <2>2 DEF Holds, sync, answer
<1>6. AnswerIsStored' /\ FileNotOlder'
  BY <1>1 DEF IInv, AnswerIsStored, FileNotOlder, VersionOf, core, sync, answer
<1>7. QED
  BY <1>3, <1>4, <1>5, <1>6 DEF IInv
-----------------------------------------------------------------------------
\* Reading the target, and the visits to HH: a step of y that stores nothing in Core.
LEMMA VisitStep ==
  ASSUME IInv, NEW y \in Syncers,
         Request(y) \/ Extract(y) \/ ExtractFails(y) \/ Download(y) \/ DownloadFails(y)
  PROVE  IInv'
<1>0. /\ y \in Handlers /\ 0 \in Revisions /\ Holds(y)
      /\ \A r \in Resumes : /\ revision[r] \in Revisions
                            /\ [resume |-> r, revision |-> revision[r]] \in Version
  BY ChangesNatural DEF Handlers, Revisions, IInv, SyncsHold, TypeOK, Version
<1>1. UNCHANGED <<hh, selected, core, select>>
  BY DEF Request, ReadTarget, Extract, ExtractFails, Download, DownloadFails
<1>2. /\ TypeOK' /\ Holds(y)'
      /\ \A z \in Syncers \ {y} : /\ pc'[z] = pc[z] /\ target'[z] = target[z]
                                   /\ extracted'[z] = extracted[z] /\ file'[z] = file[z]
                                   /\ code'[z] = code[z] /\ fileOk'[z] = fileOk[z]
      /\ code'[y] \in {"synced", "unchanged"} =>
            /\ code'[y] = code[y] /\ target'[y] = target[y] /\ extracted'[y] = extracted[y]
            /\ fileOk'[y] => fileOk[y] /\ file'[y] = file[y]
  <2>1. CASE Request(y)
    <3> PICK r \in Resumes : ReadTarget(y, r)
      BY <2>1, UsedAreResumes DEF Request, ReadTarget, IInv, TypeOK
    <3> QED
      BY <1>0, <1>1
         DEF ReadTarget, Move, Answer, Codes, IInv, TypeOK, Holds, hh, core, select
  <2>2. CASE Extract(y)
    BY <1>0, <1>1, <2>2
       DEF Extract, Move, IInv, TypeOK, Holds, hh, core, select, answer, Revisions
  <2>3. CASE ExtractFails(y)
    BY <1>0, <1>1, <2>3
       DEF ExtractFails, Fail, Move, Answer, Codes, IInv, TypeOK, Holds, hh, core, select
  <2>4. CASE Download(y)
    <3>1. PICK r \in Resumes :
             file' = [file EXCEPT ![y] = [resume |-> r, revision |-> revision[r]]]
      BY <2>4 DEF Download, CardOf, IInv, TypeOK
    <3>2. TypeOK'
      BY <1>0, <1>1, <2>4, <3>1
         DEF Download, Move, IInv, TypeOK, hh, core, select, answer
    <3>3. file'[y] = [resume |-> r, revision |-> revision[r]] /\ file'[y] \in Version
      BY <1>0, <3>1 DEF IInv, TypeOK
    <3>4. Holds(y)'
      BY <1>0, <1>1, <2>4, <3>3 DEF Download, Move, IInv, TypeOK, Holds, hh, answer
    <3>5. QED
      BY <1>0, <2>4, <3>1, <3>2, <3>4 DEF Download, Move, IInv, TypeOK, Holds, answer
  <2>5. CASE DownloadFails(y)
    <3>1. CASE Move(y, "download", "idle") /\ UNCHANGED sync
      BY <1>0, <1>1, <3>1
         DEF Move, IInv, TypeOK, Holds, hh, core, select, sync, answer
    <3>2. CASE Fail(y, "download")
      BY <1>0, <1>1, <3>2
         DEF Fail, Move, Answer, Codes, IInv, TypeOK, Holds, hh, core, select
    <3>3. QED
      BY <2>5, <3>1, <3>2 DEF DownloadFails
  <2>6. QED
    BY <2>1, <2>2, <2>3, <2>4, <2>5
<1>3. Counted' /\ FileNotOlder'
  BY <1>1 DEF IInv, Counted, FileNotOlder, hh, core
<1>4. SyncsHold'
  BY <1>1, <1>2, OthersHold DEF hh
<1>5. AnswerIsStored'
  BY <1>1, <1>2 DEF IInv, AnswerIsStored, VersionOf, core
<1>6. QED
  BY <1>2, <1>3, <1>4, <1>5 DEF IInv

\* A version is stored before the sync is answered with it.
LEMMA IngestStep ==
  ASSUME IInv, NEW y \in Syncers, NEW outcome \in Outcomes, Ingest(y, outcome)
  PROVE  IInv'
<1>a. Stored(y) \/ Fail(y, "ingest")
  BY DEF Ingest
<1>b. pc[y] = "ingest"
  BY <1>a DEF Stored, Fail, Move
<1>0. /\ y \in Handlers /\ 0 \in Revisions /\ Holds(y) /\ pc[y] = "ingest"
  BY <1>b, ChangesNatural DEF Handlers, Revisions, IInv, SyncsHold
<1>1. /\ UNCHANGED <<hh, selected, link, artifacts, select>>
      /\ versions \subseteq versions' /\ versions' \subseteq Version
      /\ outcome = "ok" => VersionOf(y) \in versions'
  BY <1>0, VersionTypes DEF Ingest, IInv, TypeOK
<1>2. /\ TypeOK' /\ Holds(y)'
      /\ \A z \in Syncers \ {y} : /\ pc'[z] = pc[z] /\ target'[z] = target[z]
                                   /\ extracted'[z] = extracted[z] /\ file'[z] = file[z]
                                   /\ code'[z] = code[z] /\ fileOk'[z] = fileOk[z]
      /\ ~fileOk'[y]
      /\ code'[y] \in {"synced", "unchanged"} => VersionOf(y)' \in versions'
  <2>1. CASE Stored(y) /\ UNCHANGED <<target, extracted, file>> /\ outcome = "ok"
    <3>1. PICK c \in {"unchanged", "synced"} : Answer(y, c, FALSE)
      BY <2>1 DEF Stored
    <3>2. QED
      BY <1>0, <1>1, <2>1, <3>1
         DEF Stored, Move, Answer, Codes, IInv, TypeOK, Holds, VersionOf, hh, select
  <2>2. CASE Fail(y, "ingest")
    BY <1>0, <1>1, <2>2 DEF Fail, Move, Answer, Codes, IInv, TypeOK, Holds, hh, select
  <2>3. QED
    BY <2>1, <2>2 DEF Ingest
<1>3. Counted' /\ FileNotOlder'
  BY <1>1 DEF IInv, Counted, FileNotOlder, hh
<1>4. SyncsHold'
  BY <1>1, <1>2, OthersHold DEF hh
<1>5. AnswerIsStored'
  BY <1>1, <1>2 DEF IInv, AnswerIsStored, VersionOf
<1>6. QED
  BY <1>2, <1>3, <1>4, <1>5 DEF IInv

\* The artifact joins the text of the first visit to HH and the file of the second.
LEMMA UploadStep ==
  ASSUME IInv, NEW y \in Syncers, NEW outcome \in Outcomes, Upload(y, outcome)
  PROVE  IInv'
<1> DEFINE new == [version |-> VersionOf(y), file |-> file[y]]
<1>0. /\ y \in Handlers /\ Holds(y) /\ pc[y] = "upload" /\ new \in Artifact
  BY VersionTypes DEF Handlers, IInv, SyncsHold, Upload, Move
<1>1. /\ UNCHANGED <<hh, selected, link, versions, select, target, extracted, file>>
      /\ artifacts \subseteq artifacts' /\ artifacts' \subseteq artifacts \cup {new}
      /\ outcome = "ok" => new \in artifacts'
  BY DEF Upload
<1>2. /\ TypeOK' /\ Holds(y)'
      /\ \A z \in Syncers \ {y} : /\ pc'[z] = pc[z]
                                   /\ code'[z] = code[z] /\ fileOk'[z] = fileOk[z]
      /\ code'[y] = code[y] /\ fileOk'[y] = (outcome = "ok")
  <2>1. Move(y, "upload", "idle") /\ Answer(y, code[y], outcome = "ok")
    BY DEF Upload
  <2>2. QED
    BY <1>0, <1>1, <2>1 DEF Move, Answer, IInv, TypeOK, Holds, hh, select
<1>3. Counted'
  BY <1>1 DEF IInv, Counted, hh
<1>4. SyncsHold'
  BY <1>1, <1>2, OthersHold DEF hh
<1>5. AnswerIsStored'
  BY <1>1, <1>2 DEF IInv, AnswerIsStored, VersionOf
<1>6. FileNotOlder'
  BY <1>0, <1>1 DEF IInv, FileNotOlder, Holds, VersionOf
<1>7. QED
  BY <1>2, <1>3, <1>4, <1>5, <1>6 DEF IInv
-----------------------------------------------------------------------------
\* Every step keeps it.
LEMMA Inductive == IInv /\ [Next]_vars => IInv'
<1> SUFFICES ASSUME IInv, [Next]_vars
             PROVE  IInv'
  OBVIOUS
<1>1. ASSUME NEW y \in Syncers, Sync(y)
      PROVE  IInv'
  BY <1>1, VisitStep, IngestStep, UploadStep DEF Sync
<1>2. CASE UNCHANGED vars
  BY <1>2
     DEF vars, hh, core, select, sync, answer, IInv, TypeOK, Counted, SyncsHold, Holds,
              AnswerIsStored, FileNotOlder, VersionOf
<1>3. QED
  BY <1>1, <1>2, SelectStep, OwnerStep DEF Next

\* The inductive invariant holds throughout.
THEOREM Invariance == Spec => []IInv
<1>1. QED
  BY Start, Inductive, PTL DEF Spec

\* With one select at a time, file and link are written in the same order.
LEMMA OneSelectStep ==
  ASSUME \A s, t \in Selectors : s = t,
         TypeOK, SelectHolds, LinkIsSelection, [Next]_vars
  PROVE  SelectHolds' /\ LinkIsSelection'
<1> USE DEF SelectHolds, LinkIsSelection
<1>1. ASSUME NEW s \in Selectors, Select(s)
      PROVE  SelectHolds' /\ LinkIsSelection'
  <2>0. s \in Handlers
    BY DEF Handlers
  <2>1. ASSUME NEW want \in InUse \cup {None}, ReadList(s, want)
        PROVE  SelectHolds' /\ LinkIsSelection'
    BY <2>0, <2>1 DEF ReadList, Move, TypeOK
  <2>2. CASE StoreSelection(s)
    BY <2>0, <2>2 DEF StoreSelection, Move, TypeOK, core, select
  <2>3. ASSUME NEW outcome \in Outcomes, PutLink(s, outcome)
        PROVE  SelectHolds' /\ LinkIsSelection'
    <3>1. selected = wanted[s] /\ ~linked[s] /\ pc[s] = "link"
      BY <2>3 DEF PutLink, Move
    <3>2. /\ pc'[s] = "idle" /\ linked'[s] = (outcome = "ok")
          /\ selected' = selected /\ (outcome = "ok" => link' = selected)
      BY <2>0, <2>3, <3>1 DEF PutLink, Move, TypeOK
    <3>3. QED
      BY <3>2
  <2>4. QED
    BY <1>1, <2>1, <2>2, <2>3 DEF Select
<1>2. ASSUME NEW y \in Syncers, Sync(y)
      PROVE  SelectHolds' /\ LinkIsSelection'
  <2>1. UNCHANGED <<selected, link, select>>
    BY <1>2 DEF Sync, Request, ReadTarget, Extract, ExtractFails, Ingest, Download,
                DownloadFails, Upload, core
  <2>2. \A s \in Selectors : pc'[s] = pc[s]
    <3>1. \E from, to : Move(y, from, to)
      <4>1. ASSUME NEW outcome \in Outcomes, Ingest(y, outcome)
            PROVE  \E from, to : Move(y, from, to)
        BY <4>1, Zenon DEF Ingest, Stored, Fail
      <4>2. CASE Request(y) \/ Extract(y) \/ ExtractFails(y) \/ Download(y) \/ DownloadFails(y)
        BY <4>2, Zenon DEF Request, ReadTarget, Extract, ExtractFails, Fail, Download, DownloadFails
      <4>3. ASSUME NEW outcome \in Outcomes, Upload(y, outcome)
            PROVE  \E from, to : Move(y, from, to)
        BY <4>3, Zenon DEF Upload
      <4>4. QED
        BY <1>2, <4>1, <4>2, <4>3 DEF Sync
    <3>2. QED
      BY <3>1, DistinctHandlers DEF Move, TypeOK, Handlers
  <2>3. QED
    BY <2>1, <2>2 DEF select
<1>3. ASSUME NEW r \in Resumes, EditResume(r) \/ DeleteResume(r)
      PROVE  SelectHolds' /\ LinkIsSelection'
  BY <1>3 DEF EditResume, DeleteResume, core, select
<1>4. CASE UNCHANGED vars
  BY <1>4 DEF vars, core, select
<1>5. QED
  BY <1>1, <1>2, <1>3, <1>4 DEF Next

\* Every variable keeps its type, with any number of handlers, resumes and changes.
THEOREM TypeCorrect == Spec => []TypeOK
<1>1. IInv => TypeOK
  BY DEF IInv
<1>2. QED
  BY <1>1, Invariance, PTL

\* What sync_resume_content answers is in Core: the version, and with an ok file, the
\* file as an artifact of this version.
THEOREM AnswersAreStored == Spec => []AnswerIsStored
<1>1. IInv => AnswerIsStored
  BY DEF IInv
<1>2. QED
  BY <1>1, Invariance, PTL

\* The file stored for a version is never older than its text, however many syncs,
\* edits and failures come between the two visits to HH.
THEOREM FilesNotOlder == Spec => []FileNotOlder
<1>1. IInv => FileNotOlder
  BY DEF IInv
<1>2. QED
  BY <1>1, Invariance, PTL

\* With one select at a time, however many follow each other, whatever Core refuses or
\* loses and whatever syncs and the owner do: a select that reports the link as synced
\* leaves Core with the resume of the file, until the next one begins.
THEOREM LinkFollowsSelection ==
  ASSUME \A s, t \in Selectors : s = t
  PROVE  Spec => []LinkIsSelection
<1>1. Init => SelectHolds /\ LinkIsSelection
  BY DEF Init, SelectHolds, LinkIsSelection, Handlers
<1>2. TypeOK /\ SelectHolds /\ LinkIsSelection /\ [Next]_vars
         => SelectHolds' /\ LinkIsSelection'
  BY OneSelectStep
<1>3. QED
  BY <1>1, <1>2, TypeCorrect, PTL DEF Spec
-----------------------------------------------------------------------------
(* The contract.                                                           *)

\* What a sync brings to create_resume_artifact: a version that is in Core, and a file
\* that HH has shown, of another resume only if its own is gone.
FileReady(y) ==
    /\ pc[y] \in {"download", "upload"} => VersionOf(y) \in versions
    /\ pc[y] = "upload" =>
          /\ file[y].revision <= revision[file[y].resume]
          /\ file[y].resume # target[y] => target[y] \notin listed

FilesReady == \A y \in Syncers : FileReady(y)

\* Nothing but the sync itself changes what it holds; versions stay and contents get no
\* younger, so it keeps ready whatever the others do.
LEMMA ReadyKept ==
  ASSUME IInv, NEW y \in Syncers, FileReady(y),
         pc'[y] = pc[y], UNCHANGED <<target[y], extracted[y], file[y]>>,
         versions \subseteq versions', listed' \subseteq listed,
         revision' \in [Resumes -> Nat],
         \A r \in Resumes : revision[r] <= revision'[r]
  PROVE  FileReady(y)'
<1>1. VersionOf(y)' = VersionOf(y)
  BY DEF VersionOf
<1>2. pc[y] = "upload" => file[y].resume \in Resumes /\ file[y].revision \in Nat
  BY DEF IInv, SyncsHold, Holds, Version, Revisions
<1>3. revision \in [Resumes -> Nat]
  BY DEF IInv, TypeOK, Revisions
<1>4. QED
  BY <1>1, <1>2, <1>3 DEF FileReady

\* No step leaves a sync with a file it must not store.
LEMMA ReadyStep == IInv /\ FilesReady /\ [Next]_vars => FilesReady'
<1> SUFFICES ASSUME IInv, FilesReady, [Next]_vars, NEW y \in Syncers
             PROVE  FileReady(y)'
  BY DEF FilesReady
<1>0. /\ FileReady(y) /\ Holds(y) /\ y \in Handlers
      /\ pc \in [Handlers -> {"idle", "store", "link",
                             "extract", "ingest", "download", "upload"}]
      /\ revision \in [Resumes -> Nat] /\ listed \subseteq Resumes
  BY DEF FilesReady, IInv, SyncsHold, TypeOK, Handlers, Revisions
<1>1. ASSUME UNCHANGED <<pc, hh, versions, sync>>
      PROVE  FileReady(y)'
  BY <1>0, <1>1, ReadyKept DEF hh, sync
<1>2. ASSUME NEW s \in Selectors, Select(s)
      PROVE  FileReady(y)'
  <2>1. s \in Handlers /\ s # y
    BY DistinctHandlers DEF Handlers
  <2>2. UNCHANGED <<hh, versions, sync>> /\ pc'[y] = pc[y]
    BY <1>0, <1>2, <2>1 DEF Select, ReadList, StoreSelection, PutLink, Move, core
  <2>3. QED
    BY <1>0, <2>2, ReadyKept DEF hh, sync
<1>3. ASSUME NEW r \in Resumes, EditResume(r) \/ DeleteResume(r)
      PROVE  FileReady(y)'
  <2>1. /\ UNCHANGED <<pc, versions, sync>> /\ listed' \subseteq listed
        /\ revision' \in [Resumes -> Nat]
        /\ \A q \in Resumes : revision[q] <= revision'[q]
    BY <1>0, <1>3 DEF EditResume, DeleteResume, core
  <2>2. QED
    BY <1>0, <2>1, ReadyKept DEF sync
<1>4. ASSUME NEW z \in Syncers, Sync(z)
      PROVE  FileReady(y)'
  <2>0. z \in Handlers
    BY DEF Handlers
  <2>1. UNCHANGED hh /\ versions \subseteq versions'
    BY <1>4 DEF Sync, Request, ReadTarget, Extract, ExtractFails, Ingest, Download,
                DownloadFails, Upload, core
  <2>2. CASE z # y
    <3>1. /\ pc'[y] = pc[y] /\ target'[y] = target[y]
          /\ extracted'[y] = extracted[y] /\ file'[y] = file[y]
      BY <1>0, <1>4, <2>0, <2>2
         DEF Sync, Request, ReadTarget, Extract, ExtractFails, Ingest, Stored, Fail, Move,
             Download, DownloadFails, Upload, sync, IInv, TypeOK
    <3>2. QED
      BY <1>0, <2>1, <3>1, ReadyKept DEF hh
  <2>3. CASE z = y
    <3>1. CASE pc'[y] \notin {"download", "upload"}
      BY <3>1 DEF FileReady
    <3>2. ASSUME NEW outcome \in Outcomes, Ingest(y, outcome), outcome = "ok"
          PROVE  FileReady(y)'
      <4>1. VersionOf(y)' = VersionOf(y) /\ VersionOf(y) \in versions' /\ pc'[y] = "download"
        BY <1>0, <3>2 DEF Ingest, Stored, Move, VersionOf
      <4>2. QED
        BY <4>1 DEF FileReady
    <3>3. CASE Download(y)
      <4>1. PICK r \in CardOf(target[y]) :
               file' = [file EXCEPT ![y] = [resume |-> r, revision |-> revision[r]]]
        BY <3>3 DEF Download
      <4>2. r \in Resumes /\ (r # target[y] => target[y] \notin listed)
        BY <1>0, <3>3, <4>1 DEF CardOf, Download, Move, Holds
      <4>3. /\ file'[y] = [resume |-> r, revision |-> revision[r]]
            /\ pc[y] = "download" /\ pc'[y] = "upload"
            /\ UNCHANGED <<hh, versions, target, extracted>>
        BY <1>0, <3>3, <4>1 DEF Download, Move, IInv, TypeOK, core
      <4>4. VersionOf(y)' = VersionOf(y)
        BY <4>3 DEF VersionOf
      <4>5. QED
        BY <1>0, <4>2, <4>3, <4>4 DEF FileReady, hh
    <3>4. CASE Request(y) \/ Extract(y) \/ ExtractFails(y) \/ DownloadFails(y)
      <4>1. pc'[y] \in {"extract", "ingest", "idle"}
        BY <1>0, <3>4 DEF Request, ReadTarget, Extract, ExtractFails, DownloadFails, Fail, Move
      <4>2. QED
        BY <3>1, <4>1
    <3>5. ASSUME NEW outcome \in Outcomes, Ingest(y, outcome) \/ Upload(y, outcome),
                 outcome # "ok" \/ Upload(y, outcome)
          PROVE  FileReady(y)'
      <4>1. pc'[y] = "idle"
        BY <1>0, <3>5 DEF Ingest, Upload, Fail, Move
      <4>2. QED
        BY <3>1, <4>1
    <3>6. QED
      BY <1>4, <2>3, <3>2, <3>3, <3>4, <3>5 DEF Sync
  <2>4. QED
    BY <2>2, <2>3
<1>5. QED
  BY <1>1, <1>2, <1>3, <1>4 DEF Next, vars, core

\* Every step is one of the contract or leaves HH's resumes, Core's versions and their
\* files as they are.
LEMMA StepImplementsContract ==
  IInv /\ FilesReady /\ [Next]_vars => [Contract!CNext]_(Contract!contractVars)
<1> SUFFICES ASSUME IInv, FilesReady, [Next]_vars,
                    ~UNCHANGED <<listed, revision, versions, artifacts>>
             PROVE  Contract!CNext
  BY DEF Contract!contractVars
<1> USE DEF Contract!CNext
<1>0. revision \in [Resumes -> Nat] /\ ~UNCHANGED <<pc, hh, core>>
  BY DEF IInv, TypeOK, Revisions, hh, core
<1>1. ASSUME NEW r \in Resumes, EditResume(r) \/ DeleteResume(r)
      PROVE  Contract!CNext
  <2>1. Contract!Edit(r) \/ Contract!Delete(r)
    BY <1>1 DEF EditResume, DeleteResume, core, Contract!Edit, Contract!Delete
  <2>2. QED
    BY <2>1
<1>2. ASSUME NEW y \in Syncers, NEW outcome \in Outcomes, Ingest(y, outcome)
      PROVE  Contract!CNext
  <2>1. Holds(y) /\ pc[y] = "ingest"
    <3>1. Stored(y) \/ Fail(y, "ingest")
      BY <1>2 DEF Ingest
    <3>2. QED
      BY <3>1 DEF Stored, Fail, Move, IInv, SyncsHold
  <2>2. VersionOf(y) \in Contract!Seen(target[y]) /\ target[y] \in Resumes
    BY <1>0, <2>1 DEF Holds, VersionOf, Contract!Seen, IInv, TypeOK, Revisions
  <2>3. Contract!Learn(VersionOf(y))
    BY <1>2 DEF Ingest, Contract!Learn, hh
  <2>4. QED
    BY <2>2, <2>3
<1>3. ASSUME NEW y \in Syncers, NEW outcome \in Outcomes, Upload(y, outcome)
      PROVE  Contract!CNext
  <2>1. Holds(y) /\ FileReady(y) /\ pc[y] = "upload"
    BY <1>3 DEF Upload, Move, IInv, SyncsHold, FilesReady
  <2>2. file[y] \in Contract!Seen(file[y].resume) /\ file[y].resume \in Resumes
    BY <1>0, <2>1 DEF Holds, FileReady, Contract!Seen, Version, Revisions
  <2>3. VersionOf(y) \in versions /\ VersionOf(y).resume = target[y]
        /\ VersionOf(y).revision = extracted[y]
    BY <2>1 DEF FileReady, VersionOf
  <2>4. artifacts' = artifacts \cup {[version |-> VersionOf(y), file |-> file[y]]}
    BY <1>0, <1>3 DEF Upload, hh
  <2>5. Contract!Attach(VersionOf(y), file[y])
    BY <1>3, <2>1, <2>3, <2>4 DEF Upload, Holds, FileReady, Contract!Attach, hh
  <2>6. QED
    BY <2>2, <2>3, <2>5
<1>4. ASSUME NEW s \in Selectors, Select(s)
      PROVE  FALSE
  BY <1>4 DEF Select, ReadList, StoreSelection, PutLink, hh, core
<1>5. ASSUME NEW y \in Syncers,
             Request(y) \/ Extract(y) \/ ExtractFails(y) \/ Download(y) \/ DownloadFails(y)
      PROVE  FALSE
  BY <1>5 DEF Request, ReadTarget, Extract, ExtractFails, Download, DownloadFails, hh, core
<1>6. QED
  BY <1>0, <1>1, <1>2, <1>3, <1>4, <1>5 DEF Next, Sync, vars

\* Selecting and syncing implement the contract: no version is invented or changed, a
\* file is of its version's resume unless the owner deleted that, and never older.
THEOREM ContractImplemented == Spec => ImplementsContract
<1>1. Init => FilesReady /\ Contract!CInit
  BY DEF Init, FilesReady, FileReady, Contract!CInit, Handlers
<1>2. QED
  BY <1>1, ReadyStep, StepImplementsContract, Invariance, PTL
     DEF Spec, ImplementsContract, Contract!CSpec
=============================================================================
