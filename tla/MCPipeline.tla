----------------------------- MODULE MCPipeline -----------------------------
(* Instances of Pipeline for TLC: compiler processes, and testing processes *)
(* that run a pretest loop and a system-test loop each.                     *)
EXTENDS Pipeline

CONSTANTS s1, s2, c1, c2, t1

OnePerKind == {<<c1, "compilation">>, <<t1, "pretest">>, <<t1, "systest">>}
TwoCompilers == OnePerKind \cup {<<c2, "compilation">>}

ProcOfPair == [l \in Loops |-> l[1]]
QueueOfPair == [l \in Loops |-> l[2]]
OwnUser == [s \in Submissions |-> s]
=============================================================================
