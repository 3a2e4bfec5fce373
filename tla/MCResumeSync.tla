---------------------------- MODULE MCResumeSync ----------------------------
(* The instance of ResumeSync that TLC checks.                             *)
EXTENDS ResumeSync
=============================================================================
