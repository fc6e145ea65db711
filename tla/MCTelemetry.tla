---------------------------- MODULE MCTelemetry ----------------------------
(* Instances of Telemetry for TLC. *)
EXTENDS Telemetry

CONSTANTS w1, o1, o2

OneWorker == [o \in Orders |-> w1]
=============================================================================
