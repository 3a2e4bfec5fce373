-------------------------- MODULE SearchRunContract --------------------------
(***************************************************************************)
(* What one SearchRun promises to a reader of Core: the life cycle of the  *)
(* run and of its SearchRunItems, whatever HH answers and whichever calls  *)
(* fail.  docs/specs/search-run-orchestration.md, sections "Semantics" and *)
(* "Snapshot rule":                                                        *)
(*   - a run is started once, gets items while it runs, and is finalized   *)
(*     at most once; a terminal run is immutable;                          *)
(*   - each source_external_id is recorded at most once per run;           *)
(*   - a run that failed did no work, a successful one has no error item.  *)
(***************************************************************************)
CONSTANTS Runs,   \* the SearchRuns
          Ids     \* source_external_id of vacancies

VARIABLES coreRun,    \* coreRun[r]: status of the SearchRun in Core
          coreItems   \* coreItems[r][id]: outcome of the SearchRunItem in Core

contractVars == <<coreRun, coreItems>>

GoodOutcomes == {"created", "updated", "unchanged"}
ItemOutcomes == GoodOutcomes \cup {"error"}
Terminal     == {"success", "partial", "failed"}

CInit == /\ coreRun = [r \in Runs |-> "none"]
         /\ coreItems = [r \in Runs |-> [id \in Ids |-> "none"]]

Open(r) == /\ coreRun[r] = "none"
           /\ coreRun' = [coreRun EXCEPT ![r] = "running"]
           /\ UNCHANGED coreItems

AddItem(r, id) ==
    /\ coreRun[r] = "running"
    /\ coreItems[r][id] = "none"
    /\ \E o \in ItemOutcomes : coreItems' = [coreItems EXCEPT ![r][id] = o]
    /\ UNCHANGED coreRun

Close(r, status) ==
    /\ coreRun[r] = "running"
    /\ status = "failed"  => \A id \in Ids : coreItems[r][id] = "none"
    /\ status = "success" => \A id \in Ids : coreItems[r][id] # "error"
    /\ coreRun' = [coreRun EXCEPT ![r] = status]
    /\ UNCHANGED coreItems

CNext == \E r \in Runs : \/ Open(r)
                         \/ \E id \in Ids : AddItem(r, id)
                         \/ \E status \in Terminal : Close(r, status)

CSpec == CInit /\ [][CNext]_contractVars
=============================================================================
