-------------------------- MODULE MCChallengeHandoff --------------------------
(* Instances of ChallengeHandoff for TLC. *)
EXTENDS ChallengeHandoff, TLC

\* Searches are interchangeable (no liveness is checked with it).
Symmetry == Permutations(Captors)
=============================================================================
