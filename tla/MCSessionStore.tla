--------------------------- MODULE MCSessionStore ---------------------------
(* SessionStore on small instances.  The clients are interchangeable. *)
EXTENDS SessionStore, TLC

ClientSymmetry == Permutations(Clients)
=============================================================================
