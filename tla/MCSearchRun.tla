----------------------------- MODULE MCSearchRun -----------------------------
(* Instances of SearchRun for TLC. *)
EXTENDS SearchRun, TLC

\* Vacancies and contents are interchangeable (no liveness is checked with it).
Symmetry == Permutations(Ids) \cup Permutations(Contents)
=============================================================================
