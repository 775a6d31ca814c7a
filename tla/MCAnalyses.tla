----------------------------- MODULE MCAnalyses -----------------------------
(* Instances of Analyses for TLC. *)
EXTENDS Analyses, TLC
=============================================================================
