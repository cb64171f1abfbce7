------------------------------ MODULE MCThreads ------------------------------
(***************************************************************************)
(* The threads TLC runs: three appends, an export and an edit; two         *)
(* operators who each engage and release; two reviewers, the requester and *)
(* two consumers on one approval.                                          *)
(***************************************************************************)
EXTENDS OfflineThreads

MCDoes ==
  [engage1  |-> [action |-> "ENGAGE", actor |-> "soc"],
   engage2  |-> [action |-> "ENGAGE", actor |-> "lead"],
   release1 |-> [action |-> "DISENGAGE", actor |-> "soc"],
   release2 |-> [action |-> "DISENGAGE", actor |-> "lead"]]
=============================================================================
