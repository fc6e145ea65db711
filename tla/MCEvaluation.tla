---------------------------- MODULE MCEvaluation ----------------------------
(* Instances of Evaluation for TLC. *)
EXTENDS Evaluation

Measured(correctness, sent, failed, p99, tpsEnd) ==
    [protocol |-> "TCP", correctness |-> correctness, sent |-> sent,
     failed |-> failed, p99 |-> p99, tpsStart |-> 100, tpsEnd |-> tpsEnd,
     isSystest |-> FALSE]

\* A clean run, one with wrong fills, one that is slow, slowed down and dropped
\* a few orders.
MCResults ==
    {Measured(100, 10000, 0, 40000, 100), Measured(90, 10000, 0, 40000, 100),
     Measured(100, 10000, 8, 600000, 60)}

\* No accepted submission yet, or slow ones.
MCBaselines == {0, 90000}
=============================================================================
