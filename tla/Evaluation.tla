----------------------------- MODULE Evaluation -----------------------------
(***************************************************************************)
(* The evaluations of one submission by the testing workers                *)
(* (services/testing/main.go, processPretestMessage): K parallel runs, each *)
(* with a sandbox of its own, the fleet run against it, the cleanup, the   *)
(* verdict over all runs; and the background sweeper that removes sandboxes *)
(* older than the timeout.                                                 *)
(*                                                                         *)
(* A sandbox is named after the submission and the index of the run, so    *)
(* every evaluation of the submission (a pretest, a system test, a retry,  *)
(* a redelivered message) uses the same names.  Docker calls name a        *)
(* container by its ID, except for the removal before the creation;        *)
(* Kubernetes calls always name the pod, and a deleted pod lingers.        *)
(***************************************************************************)
EXTENDS Verdict

CONSTANTS
    Evals,          \* handler calls for this submission
    Systests,       \* those of them that took a system-test message
    Ks,             \* the values of K_RUNS to consider
    Results,        \* what RunFleet may measure
    Baselines,      \* what the query for the best submissions may return
    Platforms,      \* the deployments to consider
    MaxSandboxes,   \* bound: runs started in a behaviour
    MaxFaults       \* bound: API or database calls that fail by themselves

ASSUME EvaluationAssumption ==
    /\ Systests \subseteq Evals
    /\ Ks \subseteq Nat \ {0}
    /\ Results \subseteq Measurements
    /\ Platforms \subseteq {"docker", "k8s"}
    /\ MaxSandboxes \in Nat /\ MaxFaults \in Nat

VARIABLES
    platform,   \* where the workers run
    k,          \* K_RUNS, the runs of an evaluation
    box,        \* the sandbox of each name
    phase,      \* of each evaluation
    pc,         \* of each run of each evaluation
    cancelled,  \* evaluations whose errgroup context is done
    shut,       \* evaluations whose worker was told to stop
    list,       \* what the sweeper still has to remove
    row,        \* the verdict last written, or "none"
    overlapped, \* history: evaluations that were active together with another
    aged,       \* sandboxes older than the sweeper's timeout
    struck,     \* history: sandboxes deleted on behalf of an older one
    lost,       \* history: sandboxes whose removal failed, and why
    faults

vars == <<platform, k, box, phase, pc, cancelled, shut, list, row, overlapped,
          aged, struck, lost, faults>>

Runs == 1..k                \* of this deployment
Names == UNION {1..i : i \in Ks}    \* the sandbox names of the submission
NoBox == [by |-> "none"]
Boxes == [by : Evals, up : BOOLEAN, going : BOOLEAN]
Sandboxes == Evals \X Names
Losses == Evals \X Names \X {"fault", "context"}

Owns(e, n)  == box[n] # NoBox /\ box[n].by = e
Docker == platform = "docker"

\* Runs that have not returned from their goroutine.
Working == {"start", "removed", "made", "up", "ok", "broke"}

Init ==
    /\ platform \in Platforms /\ k \in Ks
    /\ box = [n \in Names |-> NoBox]
    /\ phase = [e \in Evals |-> "idle"]
    /\ pc = [e \in Evals |-> [n \in Names |-> "idle"]]
    /\ cancelled = {} /\ shut = {} /\ list = {}
    /\ row = "none"
    /\ overlapped = {} /\ aged = {} /\ struck = {} /\ lost = {}
    /\ faults = 0

\* A call that takes the context fails when it is done, or by itself.
Fault == faults < MaxFaults /\ faults' = faults + 1

At(e, n, s) == phase[e] = "active" /\ pc[e][n] = s
Goto(e, n, s) == pc' = [pc EXCEPT ![e][n] = s]

\* An error returned to the errgroup cancels the context of the other runs.
Fail(e, n, s) == Goto(e, n, s) /\ cancelled' = cancelled \cup {e}

bookkeeping == <<platform, k, phase, shut, row, overlapped, aged>>

-----------------------------------------------------------------------------
(* The evaluation.                                                         *)

\* The message is taken, the status set to running, the runs are started.
Begin(e) ==
    /\ phase[e] = "idle"
    /\ k * Cardinality({d \in Evals : phase[d] # "idle"} \cup {e}) <= MaxSandboxes
    /\ phase' = [phase EXCEPT ![e] = "active"]
    /\ pc' = [pc EXCEPT ![e] = [n \in Names |-> IF n \in Runs THEN "start" ELSE "idle"]]
    /\ LET others == {d \in Evals : phase[d] = "active"}
       IN overlapped' = overlapped \cup others \cup (IF others = {} THEN {} ELSE {e})
    /\ UNCHANGED <<platform, k, box, cancelled, shut, list, row, aged, struck,
                   lost, faults>>

\* "Defensive cleanup" of whatever has the name.
RemoveOldContainer(e, n) ==
    /\ At(e, n, "start") /\ Docker
    /\ Goto(e, n, "removed")
    /\ \/ e \notin cancelled /\ box' = [box EXCEPT ![n] = NoBox] /\ UNCHANGED faults
       \/ e \notin cancelled /\ Fault /\ UNCHANGED box
       \/ e \in cancelled /\ UNCHANGED <<box, faults>>
    /\ UNCHANGED <<bookkeeping, cancelled, list, struck, lost>>

\* A pod is deleted and waited for, for up to ten seconds; it may still be
\* there after.
RemoveOldPod(e, n) ==
    /\ At(e, n, "start") /\ ~Docker
    /\ Goto(e, n, "removed")
    /\ \/ /\ e \notin cancelled /\ box[n] # NoBox
          /\ box' \in {[box EXCEPT ![n] = NoBox], [box EXCEPT ![n].going = TRUE]}
          /\ UNCHANGED faults
       \/ e \notin cancelled /\ box[n] # NoBox /\ Fault /\ UNCHANGED box
       \/ (e \in cancelled \/ box[n] = NoBox) /\ UNCHANGED <<box, faults>>
    /\ UNCHANGED <<bookkeeping, cancelled, list, struck, lost>>

Create(e, n) ==
    /\ At(e, n, "removed")
    /\ e \notin cancelled /\ box[n] = NoBox
    /\ box' = [box EXCEPT ![n] = [by |-> e, up |-> FALSE, going |-> FALSE]]
    /\ Goto(e, n, "made")
    /\ UNCHANGED <<bookkeeping, cancelled, list, struck, lost, faults>>

CreateContainer(e, n) == Docker /\ Create(e, n)
CreatePod(e, n) == ~Docker /\ Create(e, n)

\* The name is taken, the context done, or the call fails.
CreateFails(e, n) ==
    /\ At(e, n, "removed")
    /\ Fail(e, n, "failed")
    /\ \/ (box[n] # NoBox \/ e \in cancelled) /\ UNCHANGED faults
       \/ Fault
    /\ UNCHANGED <<bookkeeping, box, list, struck, lost>>

ComesUp(e, n) ==
    /\ At(e, n, "made") /\ e \notin cancelled
    /\ box' = [box EXCEPT ![n].up = TRUE]
    /\ Goto(e, n, "up")
    /\ UNCHANGED <<bookkeeping, cancelled, list, struck, lost, faults>>

\* Started, and the address of the container with the ID found.
StartContainer(e, n) == Docker /\ Owns(e, n) /\ ComesUp(e, n)

\* The pod that has the name now is Running, as is one being deleted.
PodRunning(e, n) == ~Docker /\ box[n] # NoBox /\ ComesUp(e, n)

\* Mutant of StartContainerFails: the container is left to the sweeper.
StartContainerFailsOnly(e, n) ==
    /\ At(e, n, "made") /\ Docker
    /\ Fail(e, n, "failed")
    /\ UNCHANGED <<bookkeeping, box, list, struck, lost, faults>>

\* The container does not start or never gets an address.  It is removed, with
\* the context of the run: if that is done the call fails and it stays.
StartContainerFails(e, n) ==
    /\ At(e, n, "made") /\ Docker
    /\ Fail(e, n, "failed")
    /\ \/ /\ Owns(e, n) /\ e \notin cancelled
          /\ \/ box' = [box EXCEPT ![n] = NoBox] /\ UNCHANGED <<lost, faults>>
             \/ Fault /\ lost' = lost \cup {<<e, n, "fault">>} /\ UNCHANGED box
       \/ /\ Owns(e, n) /\ e \in cancelled
          /\ \E up \in BOOLEAN : box' = [box EXCEPT ![n].up = up]
          /\ lost' = lost \cup {<<e, n, "context">>}
          /\ UNCHANGED faults
       \/ ~Owns(e, n) /\ UNCHANGED <<box, lost, faults>>
    /\ UNCHANGED <<bookkeeping, list, struck>>

\* The pod fails or has no address after thirty seconds.  It is left there.
PodFails(e, n) ==
    /\ At(e, n, "made") /\ ~Docker
    /\ Fail(e, n, "failed")
    /\ UNCHANGED <<bookkeeping, box, list, struck, lost, faults>>

\* RunFleet returns; it may end without an error under a done context, and
\* measures whatever a vanished sandbox leaves to measure.
RunFleet(e, n) ==
    /\ At(e, n, "up")
    /\ \E s \in {"ok", "broke"} : Goto(e, n, s)
    /\ UNCHANGED <<bookkeeping, box, cancelled, list, struck, lost, faults>>

\* The error of a run is returned after its sandbox is cleaned up.
Returns(e, n) ==
    IF pc[e][n] = "ok" THEN Goto(e, n, "done") /\ UNCHANGED cancelled
                       ELSE Fail(e, n, "err")

\* Removal in the background context.  A failed call is not looked at.
Cleanup(e, n) ==
    /\ phase[e] = "active" /\ pc[e][n] \in {"ok", "broke"}
    /\ Returns(e, n)
    /\ UNCHANGED <<bookkeeping, list, struck>>

CleanupFails(e, n) ==
    /\ Cleanup(e, n)
    /\ Fault /\ lost' = lost \cup {<<e, n, "fault">>} /\ UNCHANGED box

CleanupContainer(e, n) ==
    /\ Docker /\ Cleanup(e, n)
    /\ box' = IF Owns(e, n) THEN [box EXCEPT ![n] = NoBox] ELSE box
    /\ UNCHANGED <<lost, faults>>

\* By name, and without waiting.
CleanupPod(e, n) ==
    /\ ~Docker /\ Cleanup(e, n)
    /\ box' = IF box[n] # NoBox THEN [box EXCEPT ![n].going = TRUE] ELSE box
    /\ UNCHANGED <<lost, faults>>

\* All runs returned without an error: the verdict over their averages is
\* written.
Finish(e, outs, baseline) ==
    /\ phase[e] = "active" /\ \A n \in Runs : pc[e][n] = "done"
    /\ e \notin shut
    /\ LET res == Aggregate([n \in Runs |-> [outs[n] EXCEPT !.isSystest = e \in Systests]])
       IN row' = EvaluateVerdict(res, baseline)
    /\ phase' = [phase EXCEPT ![e] = "over"]
    /\ UNCHANGED <<platform, k, box, pc, cancelled, shut, list, overlapped, aged,
                   struck, lost, faults>>

\* The same without the row: the statement fails, or the worker is stopping.
FinishUnwritten(e) ==
    /\ phase[e] = "active" /\ \A n \in Runs : pc[e][n] = "done"
    /\ IF e \in shut THEN UNCHANGED faults ELSE Fault
    /\ phase' = [phase EXCEPT ![e] = "over"]
    /\ UNCHANGED <<platform, k, box, pc, cancelled, shut, list, row, overlapped,
                   aged, struck, lost>>

\* g.Wait() returned an error: the message is queued again, or the submission
\* fails.
FinishErr(e) ==
    /\ phase[e] = "active" /\ \A n \in Runs : pc[e][n] \notin Working
    /\ \E n \in Runs : pc[e][n] # "done"
    /\ phase' = [phase EXCEPT ![e] = "over"]
    /\ \/ UNCHANGED row
       \/ e \notin shut /\ row' = "Runtime Failure"
    /\ UNCHANGED <<platform, k, box, pc, cancelled, shut, list, overlapped, aged,
                   struck, lost, faults>>

\* Mutant of Shutdown: the runs do not inherit the worker's context.
ShutdownKeepsRuns(e) ==
    /\ phase[e] = "active" /\ e \notin shut
    /\ shut' = shut \cup {e}
    /\ UNCHANGED <<platform, k, box, phase, pc, cancelled, list, row, overlapped,
                   aged, struck, lost, faults>>

\* SIGTERM: the worker's context is done, and with it that of the runs.
Shutdown(e) ==
    /\ phase[e] = "active" /\ e \notin shut
    /\ shut' = shut \cup {e} /\ cancelled' = cancelled \cup {e}
    /\ UNCHANGED <<platform, k, box, phase, pc, list, row, overlapped, aged,
                   struck, lost, faults>>

\* The worker is killed, its sweeper with it.
Crash(e) ==
    /\ phase[e] = "active"
    /\ phase' = [phase EXCEPT ![e] = "crashed"]
    /\ list' = {}
    /\ UNCHANGED <<platform, k, box, pc, cancelled, shut, row, overlapped, aged,
                   struck, lost, faults>>

-----------------------------------------------------------------------------
(* The sweeper.                                                            *)

Age(n) ==
    /\ box[n] # NoBox /\ <<box[n].by, n>> \notin aged
    /\ aged' = aged \cup {<<box[n].by, n>>}
    /\ UNCHANGED <<platform, k, box, phase, pc, cancelled, shut, list, row,
                   overlapped, struck, lost, faults>>

ListOf(S) ==
    /\ list = {}
    /\ list' = {s \in aged : Owns(s[1], s[2]) /\ s[2] \in S}
    /\ UNCHANGED <<bookkeeping, box, pc, cancelled, struck, lost, faults>>

\* Mutant of ListContainers: without All, Docker lists the running ones only.
ListRunning == Docker /\ ListOf({n \in Runs : box[n] # NoBox /\ box[n].up})

\* A tick of the sweeper: all sandboxes are listed, the old ones kept.
ListContainers == Docker /\ ListOf(Runs)
ListPods == ~Docker /\ ListOf(Runs)

\* The next sandbox of the list; the call may fail.
Swept(e, n) ==
    /\ <<e, n>> \in list
    /\ list' = list \ {<<e, n>>}
    /\ UNCHANGED <<bookkeeping, pc, cancelled, lost>>

SweepFails(e, n) == Swept(e, n) /\ Fault /\ UNCHANGED <<box, struck>>

\* Mutant of SweepContainer: the container is named, not identified.
SweepByName(e, n) ==
    /\ Docker /\ Swept(e, n)
    /\ box' = [box EXCEPT ![n] = NoBox]
    /\ UNCHANGED <<struck, faults>>

SweepContainer(e, n) ==
    /\ Docker /\ Swept(e, n)
    /\ box' = IF Owns(e, n) THEN [box EXCEPT ![n] = NoBox] ELSE box
    /\ UNCHANGED <<struck, faults>>

\* By name, which may belong to a younger pod by now.
SweepPod(e, n) ==
    /\ ~Docker /\ Swept(e, n)
    /\ box' = IF box[n] # NoBox THEN [box EXCEPT ![n].going = TRUE] ELSE box
    /\ struck' = IF box[n] # NoBox /\ ~Owns(e, n)
                 THEN struck \cup {<<box[n].by, n>>} ELSE struck
    /\ UNCHANGED faults

\* Kubernetes is done with a deleted pod.
PodGone(n) ==
    /\ box[n] # NoBox /\ box[n].going
    /\ box' = [box EXCEPT ![n] = NoBox]
    /\ UNCHANGED <<bookkeeping, pc, cancelled, list, struck, lost, faults>>

Sandbox(e, n) ==
    \/ RemoveOldContainer(e, n) \/ CreateContainer(e, n)
    \/ StartContainer(e, n) \/ StartContainerFails(e, n) \/ CleanupContainer(e, n)
    \/ RemoveOldPod(e, n) \/ CreatePod(e, n)
    \/ PodRunning(e, n) \/ PodFails(e, n) \/ CleanupPod(e, n)
    \/ CreateFails(e, n) \/ CleanupFails(e, n)

List == ListContainers \/ ListPods
Sweep(e, n) == SweepContainer(e, n) \/ SweepPod(e, n) \/ SweepFails(e, n)

Next ==
    \/ \E e \in Evals :
          \/ Begin(e) \/ FinishUnwritten(e) \/ FinishErr(e) \/ Shutdown(e) \/ Crash(e)
          \/ \E n \in Runs : Sandbox(e, n) \/ RunFleet(e, n) \/ Sweep(e, n)
          \/ \E outs \in [Runs -> Results], baseline \in Baselines : Finish(e, outs, baseline)
    \/ List
    \/ \E n \in Runs : Age(n) \/ PodGone(n)

Spec == Init /\ [][Next]_vars

\* Time passes, some worker's sweeper keeps ticking, and Kubernetes completes
\* deletions.  The evaluations themselves may stop anywhere.
FairSpec ==
    /\ Spec
    /\ WF_vars(List \/ \E e \in Evals, n \in Names : Sweep(e, n))
    /\ \A n \in Names : WF_vars(Age(n)) /\ WF_vars(PodGone(n))

-----------------------------------------------------------------------------
(* Properties.                                                             *)

\* Type invariant; a sandbox is being deleted only where deletion takes time,
\* and a worker that stops cancels its runs.
TypeOK ==
    /\ box \in [Names -> Boxes \cup {NoBox}]
    /\ phase \in [Evals -> {"idle", "active", "over", "crashed"}]
    /\ pc \in [Evals -> [Names -> Working \cup {"idle", "failed", "err", "done"}]]
    /\ shut \subseteq cancelled /\ cancelled \subseteq Evals
    /\ overlapped \subseteq Evals
    /\ aged \cup struck \subseteq Sandboxes /\ list \subseteq aged
    /\ lost \subseteq Losses
    /\ faults \in 0..MaxFaults
    /\ Docker => struck = {} /\ \A n \in Runs : box[n] # NoBox => ~box[n].going

\* From its creation to the end of the fleet run, a run keeps the sandbox it
\* created: neither the leftovers of an earlier evaluation, nor the cleanup of
\* another run, nor the sweeper working from an old list takes it away.  Only
\* an evaluation of the same submission at the same time, the sweeper's
\* timeout, and, for pods, a deletion meant for an older pod do.
KeepsSandbox ==
    \A e \in Evals, n \in Runs :
        /\ phase[e] = "active" /\ pc[e][n] \in {"made", "up"}
        /\ e \notin overlapped /\ <<e, n>> \notin aged \cup struck
        => Owns(e, n) /\ ~box[n].going

\* The context of run n was ended from outside it: the worker stops, or another
\* run of the evaluation returned an error.
StoppedByOthers(e, n) ==
    e \in shut \/ \E m \in Runs \ {n} : pc[e][m] \in {"failed", "err"}

\* A sandbox that nobody is using and nobody is deleting has an explanation:
\* the worker crashed; a removal was made and the call failed by itself; it is
\* a pod that never came up, which nobody removes; or it is a container whose
\* removal after a failed start was refused because the context was done, and
\* then the worker's stop or another run's error ended that context.  So a run
\* that got as far as the fleet removes its sandbox whatever happens to the
\* other runs, and a container that fails to start while the others are well
\* is removed too.
LeaksExplained ==
    \A n \in Runs : box[n] # NoBox /\ ~box[n].going =>
        LET e == box[n].by
        IN \/ phase[e] = "crashed" \/ <<e, n, "fault">> \in lost
           \/ pc[e][n] \in {"made", "up", "ok", "broke"}
           \/ pc[e][n] = "failed" /\ ~Docker
           \/ <<e, n, "context">> \in lost /\ StoppedByOthers(e, n)

\* An accepted submission was correct in every run, and dropped fewer than six
\* orders per run on average: averaging hides no incorrect run.  That holds for
\* system tests too, although they measure with isSystest and a rule of their
\* own: the averages forget it.
AcceptedCoversRuns ==
    [][\A e \in Evals : \A outs \in [Runs -> Results], baseline \in Baselines :
          Finish(e, outs, baseline) /\ row' = "Accepted"
          => /\ \A n \in Runs : outs[n].correctness = 100
             /\ Total(outs, "failed") < 6 * k]_vars

\* Every sandbox is removed in the end, even if its evaluation crashed, hangs,
\* or failed to remove it.
SandboxesReclaimed ==
    \A e \in Evals, n \in Names : []<>~Owns(e, n)
=============================================================================
