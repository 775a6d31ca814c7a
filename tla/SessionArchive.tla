--------------------------- MODULE SessionArchive ---------------------------
(***************************************************************************)
(* What the transcript log promises to everyone that reads it: sessions    *)
(* appear one at a time, whole, under an id that no session ever had, and  *)
(* disappear for good.                                                     *)
(***************************************************************************)
CONSTANT Ids

VARIABLES
  archive,  \* ids of the sessions in the log
  gone      \* ids of the sessions purged

Init == archive \subseteq Ids /\ gone = {}

Log(id) ==
  /\ id \notin archive \cup gone
  /\ archive' = archive \cup {id}
  /\ UNCHANGED gone

Purge(S) ==
  /\ archive' = archive \ S
  /\ gone' = gone \cup S

Next ==
  \/ \E id \in Ids : Log(id)
  \/ \E S \in SUBSET archive : Purge(S)

Spec == Init /\ [][Next]_<<archive, gone>>
=============================================================================
