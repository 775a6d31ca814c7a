--------------------------- MODULE MCLlmRequests ---------------------------
(* Instances of LlmRequests for TLC. *)
EXTENDS LlmRequests, TLC

RequesterSymmetry == Permutations(Requesters)
=============================================================================
