-------------------------------- MODULE MCSaga --------------------------------
(***************************************************************************)
(* Instances of ConnectorSaga for TLC: two executions with one key, one of *)
(* which fails downstream, and a third with a key of its own.              *)
(***************************************************************************)
EXTENDS ConnectorSaga

MCInput ==
  [first |-> [key |-> "k1", fail |-> FALSE],
   retry |-> [key |-> "k1", fail |-> TRUE],
   apart |-> [key |-> "k2", fail |-> FALSE]]
=============================================================================
