---------------------------- MODULE ResumeContract ----------------------------
(***************************************************************************)
(* What Core may hold of the resumes at HH: ResumeVersions are immutable   *)
(* and never invented (docs/specs/resume-sync.md), and their files are     *)
(* those of the resume.                                                    *)
(*   - A version is a content that the resume has or has had.              *)
(*   - A file joins a version there is, shows what HH has or has had, is   *)
(*     not older than the version, and is of the same resume, unless the   *)
(*     owner has deleted that.                                             *)
(*   - Neither is ever changed or removed, and only the owner changes HH.  *)
(***************************************************************************)
EXTENDS Naturals

CONSTANT Resumes

VARIABLES
    listed, revision,    \* HH: the resumes there are, and the content of each
    versions, artifacts  \* Core: ResumeVersions and their files

contractVars == <<listed, revision, versions, artifacts>>

CInit ==
    /\ listed = Resumes
    /\ revision = [r \in Resumes |-> 0]
    /\ versions = {}
    /\ artifacts = {}

Edit(r) ==
    /\ r \in listed
    /\ revision' = [revision EXCEPT ![r] = @ + 1]
    /\ UNCHANGED <<listed, versions, artifacts>>

Delete(r) ==
    /\ r \in listed
    /\ listed' = listed \ {r}
    /\ UNCHANGED <<revision, versions, artifacts>>

\* What HH shows of a resume, or has shown of it.
Seen(r) == {[resume |-> r, revision |-> n] : n \in 0..revision[r]}

Learn(v) ==
    /\ versions' = versions \cup {v}
    /\ UNCHANGED <<listed, revision, artifacts>>

Attach(v, f) ==
    /\ v \in versions
    /\ IF f.resume = v.resume THEN f.revision >= v.revision
                              ELSE v.resume \notin listed
    /\ artifacts' = artifacts \cup {[version |-> v, file |-> f]}
    /\ UNCHANGED <<listed, revision, versions>>

CNext ==
    \E r \in Resumes :
        \/ Edit(r) \/ Delete(r)
        \/ \E s \in Seen(r) : Learn(s) \/ \E v \in versions : Attach(v, s)

CSpec == CInit /\ [][CNext]_contractVars
=============================================================================
