---------------------------- MODULE MCJobStore ----------------------------
(* Instances of JobStore for TLC. *)
EXTENDS JobStore

\* A number of bots that two workers do not divide.
NotDivided == [j \in Jobs |-> 3]
=============================================================================
