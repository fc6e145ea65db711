------------------------------ MODULE Verdict ------------------------------
(***************************************************************************)
(* How the testing worker turns the measurements of its runs into a        *)
(* verdict (services/testing/verdict.go, and the averaging over the K      *)
(* parallel runs in services/testing/main.go).  Latencies are microseconds *)
(* and all figures integers; scores, warnings and the engine archetype are *)
(* left out.                                                               *)
(***************************************************************************)
EXTENDS Integers, FiniteSets, FiniteSetsExt, Functions

\* The figures of one run that the verdict looks at.
Measurements ==
    [protocol : STRING, correctness : 0..100, sent : Nat,
     failed : Nat, p99 : Nat, tpsStart : Nat, tpsEnd : Nat, isSystest : BOOLEAN]

\* The thresholds of a protocol, in upper case; baseline is the average p99 of the best
\* accepted submissions in the database, 0 if there are none.
Target(protocol, baseline) ==
    LET fixed == CASE protocol \in {"WS", "WEBSOCKET"} -> 100000
                   [] protocol \in {"REST", "HTTP"}    -> 150000
                   [] OTHER                            -> 50000
    IN IF baseline > 0 THEN Max({baseline, 100}) ELSE fixed

\* Ten times the target, before and after the floors are applied.
Ceiling(protocol, baseline) == Max({10 * Target(protocol, baseline), 1000})

\* A system test is held to a rate of 0.1 %, a pretest to five orders.
failedThresholdExceeded(res) ==
    IF res.isSystest THEN res.sent > 0 /\ res.failed * 1000 > res.sent
                     ELSE res.failed > 5

degraded(res) ==
    res.tpsStart > 0 /\ (res.tpsStart - res.tpsEnd) * 10 > res.tpsStart * 3

EvaluateVerdict(res, baseline) ==
    IF res.correctness < 100 THEN "Logic Violation"
    ELSE IF failedThresholdExceeded(res) THEN "Correctness Error"
    ELSE IF res.p99 > Ceiling(res.protocol, baseline) THEN "Tail Latency Exceeded"
    ELSE IF degraded(res) THEN "Throughput Degradation"
    ELSE "Accepted"

-----------------------------------------------------------------------------
(* Averaging.  outs is a function from the runs to their results.  The code *)
(* divides integers except for correctness and tpsEnd, which are floats: a  *)
(* correctness average is below 100 just when it is rounded down.           *)

Total(outs, figure) == SumFunction([n \in DOMAIN outs |-> outs[n][figure]])
Average(outs, figure) == Total(outs, figure) \div Cardinality(DOMAIN outs)

\* Mutant: the correctness of the first run stands for all.
AggregateFirst(outs) ==
    [outs[1] EXCEPT !.sent = Average(outs, "sent"), !.failed = Average(outs, "failed"),
                    !.p99 = Average(outs, "p99"), !.tpsEnd = Average(outs, "tpsEnd"),
                    !.isSystest = FALSE]

\* aggregatedResults: protocol and starting rate of the first run, averages of
\* the other figures.  The literal has no IsSystest, so it is false.
Aggregate(outs) ==
    [outs[1] EXCEPT !.correctness = Average(outs, "correctness"),
                    !.sent = Average(outs, "sent"), !.failed = Average(outs, "failed"),
                    !.p99 = Average(outs, "p99"), !.tpsEnd = Average(outs, "tpsEnd"),
                    !.isSystest = FALSE]
=============================================================================
