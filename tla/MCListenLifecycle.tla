------------------------- MODULE MCListenLifecycle -------------------------
(* Instances of ListenLifecycle for TLC. *)
EXTENDS ListenLifecycle
=============================================================================
