-------------------------- MODULE MCCopilotCapture --------------------------
(* CopilotCapture on small instances; the constants are in the .cfg files. *)
EXTENDS CopilotCapture
=============================================================================
