---------------------------- MODULE MCMQTTBroker ----------------------------
(* The instance of MQTTBroker for TLC.  Its slots and client IDs are alike, *)
(* but liveness is checked too, which symmetry would not be sound for.      *)
EXTENDS MQTTBrokerRefinement
=============================================================================
