------------------------ MODULE SubmissionLifecycle ------------------------
(***************************************************************************)
(* What the platform promises about the status column of a submission row, *)
(* without queues, workers or retries: the only transitions a reader of    *)
(* GET /api/v1/build/:id may ever observe.  Pipeline implements it when no *)
(* call to Redis or PostgreSQL fails.                                      *)
(***************************************************************************)
CONSTANT Submissions

VARIABLE status

Terminal == {"completed", "failed"}

\* The row is inserted by the gateway.
Accept(s) ==
    /\ status[s] = "none"
    /\ status' = [status EXCEPT ![s] = "queued"]

\* An image build starts, possibly again after a system error of the builder.
StartBuild(s) ==
    /\ status[s] \in {"queued", "building"}
    /\ status' = [status EXCEPT ![s] = "building"]

FinishBuild(s) ==
    /\ status[s] = "building"
    /\ status' = [status EXCEPT ![s] = "built"]

\* A test run starts: after the build, again after a failed run, or as a
\* system test of a submission that was queued again for rejudging.
StartRun(s) ==
    /\ status[s] \in {"built", "running", "queued"}
    /\ status' = [status EXCEPT ![s] = "running"]

Complete(s) ==
    /\ status[s] = "running"
    /\ status' = [status EXCEPT ![s] = "completed"]

\* Only a build or a run in progress can fail a submission.
Fail(s) ==
    /\ status[s] \in {"building", "running"}
    /\ status' = [status EXCEPT ![s] = "failed"]

\* Only a completed submission is judged again.
Rejudge(s) ==
    /\ status[s] = "completed"
    /\ status' = [status EXCEPT ![s] = "queued"]

Init == status = [s \in Submissions |-> "none"]

Next == \E s \in Submissions :
    \/ Accept(s)  \/ StartBuild(s) \/ FinishBuild(s)
    \/ StartRun(s) \/ Complete(s) \/ Fail(s) \/ Rejudge(s)

Spec == Init /\ [][Next]_status
=============================================================================
