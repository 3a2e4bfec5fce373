--------------------------- MODULE MCProfileAccess ---------------------------
(* Instances of ProfileAccess for TLC. *)
EXTENDS ProfileAccess, TLC

\* Readers are interchangeable, and so are the pids (no liveness is checked with it).
Symmetry == Permutations(Readers) \cup Permutations(Windows)
=============================================================================
