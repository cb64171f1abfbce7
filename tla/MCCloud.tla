-------------------------------- MODULE MCCloud --------------------------------
(***************************************************************************)
(* Instances of CloudControls: three requests on two containers, one of    *)
(* them without a kill-switch parameter, two with one request_id; and      *)
(* reservations of every size around the cap.                              *)
(***************************************************************************)
EXTENDS CloudControls

MCEvent ==
  [q1 |-> [rid |-> "r1", container |-> "c1"],
   q2 |-> [rid |-> "r2", container |-> "c1"],
   q3 |-> [rid |-> "r1", container |-> "c2"]]

MCWant == [none |-> 0, some |-> 2, more |-> 3, over |-> 5, bad |-> -1]
=============================================================================
