---------------------------- MODULE JobLifecycle ----------------------------
(***************************************************************************)
(* What GET /status/:jobID of the fleet master promises a client, without  *)
(* goroutines, shards or Redis: a job is accepted, runs, settles once and  *)
(* stays settled, across a restart of the master too.  The promise is      *)
(* given for a job that is not contested: nobody cancelled it, nobody      *)
(* submitted its identifier again, and its writes reached Redis in order.  *)
(***************************************************************************)
CONSTANT Jobs

VARIABLES status, contested

Active  == {"pending", "running"}
Settled == {"completed", "aborted"}

\* Of the jobs of K, only contested ones change.
Keeps(K) == \A k \in K \ contested' : status'[k] = status[k]

Submit(j) == status[j] = "none"    /\ status'[j] = "pending"  /\ Keeps(Jobs \ {j})
Start(j)  == status[j] = "pending" /\ status'[j] = "running"  /\ Keeps(Jobs \ {j})
Settle(j) == status[j] = "running" /\ status'[j] \in Settled  /\ Keeps(Jobs \ {j})

\* A restart aborts whatever was active, and forgets nothing that settled.
Restart ==
    \A j \in Jobs \ contested' :
        status'[j] = IF status[j] \in Active THEN "aborted" ELSE status[j]

Contest == Keeps(Jobs)

Init == status = [j \in Jobs |-> "none"] /\ contested = {}

Next ==
    /\ contested \subseteq contested'
    /\ status' \in [Jobs -> {"none"} \cup Active \cup Settled]
    /\ \/ \E j \in Jobs : Submit(j) \/ Start(j) \/ Settle(j)
       \/ Restart
       \/ Contest

Spec == Init /\ [][Next]_<<status, contested>>
=============================================================================
