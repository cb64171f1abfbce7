---------------------------- MODULE CloudControls ----------------------------
(***************************************************************************)
(* The production counterparts of the kill switch and of the budget, each  *)
(* behind an AWS store.  They share no state: cast says which of the two a *)
(* behaviour exercises.                                                    *)
(***************************************************************************)
EXTENDS FrontDoor, BudgetReserve

VARIABLE cast

cloudVars == <<cast, doorVars, reserveVars>>

Init == cast \in {"door", "reserve"} /\ DoorInit /\ ReserveInit

Next ==
  /\ \/ cast = "door" /\ DoorStep /\ UNCHANGED reserveVars
     \/ cast = "reserve" /\ ReserveStep /\ UNCHANGED doorVars
  /\ UNCHANGED cast

Spec == Init /\ [][Next]_cloudVars

CloudTypeOK == DoorTypeOK /\ ReserveTypeOK
=============================================================================
