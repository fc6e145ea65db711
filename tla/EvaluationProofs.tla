-------------------------- MODULE EvaluationProofs --------------------------
(***************************************************************************)
(* TLAPS proofs about Evaluation, for every set of evaluations, every      *)
(* K_RUNS, both platforms and every number of faults.                      *)
(***************************************************************************)
EXTENDS Evaluation, FoldTheorems, TLAPS

Deployed == platform \in Platforms /\ k \in Ks

\* An evaluation that has not begun has no runs.
IdleRuns == \A e \in Evals : phase[e] = "idle" => \A n \in Names : pc[e][n] = "idle"

TypeInv == TypeOK /\ Deployed /\ IdleRuns

\* Two evaluations that are active together are both recorded.
Met ==
    \A d, e \in Evals :
        d # e /\ phase[d] = "active" /\ phase[e] = "active" => e \in overlapped

KeepsInv == Met /\ KeepsSandbox

-----------------------------------------------------------------------------
(* Type correctness.                                                       *)

LEMMA RunsAreNames == ASSUME Deployed PROVE Runs \subseteq Names
  BY DEF Deployed, Runs, Names

LEMMA NoBoxIsNoBox ==
    /\ NoBox \notin Boxes
    /\ \A e : [by |-> e, up |-> FALSE, going |-> FALSE] # NoBox
  BY DEF NoBox, Boxes

\* A sandbox is removed, or a pod marked for deletion.
LEMMA DeletedBox ==
    ASSUME TypeInv, NEW n \in Runs,
           box' \in {box, [box EXCEPT ![n] = NoBox], [box EXCEPT ![n].going = TRUE]},
           box[n] = NoBox \/ Docker => box' \in {box, [box EXCEPT ![n] = NoBox]}
    PROVE  /\ box' \in [Names -> Boxes \cup {NoBox}]
           /\ \A i \in Names \ {n} : box'[i] = box[i]
           /\ Docker /\ box'[n] # NoBox => ~box'[n].going
<1>0. n \in Names /\ box \in [Names -> Boxes \cup {NoBox}]
  BY RunsAreNames DEF TypeInv, TypeOK
<1>1. CASE box' \in {box, [box EXCEPT ![n] = NoBox]}
  BY <1>0, <1>1 DEF TypeInv, TypeOK
<1>2. CASE box' = [box EXCEPT ![n].going = TRUE] /\ box[n] # NoBox /\ ~Docker
  <2>1. box[n] \in Boxes
    BY <1>0, <1>2
  <2>2. [box[n] EXCEPT !.going = TRUE] \in Boxes
    BY <2>1 DEF Boxes
  <2> QED BY <1>0, <1>2, <2>2
<1> QED BY <1>1, <1>2

\* Every step of a run moves that run on, may cancel its evaluation, changes
\* at most the sandbox of its name and records a removal that failed.
LEMMA SandboxEffect ==
    ASSUME TypeInv, NEW e \in Evals, NEW n \in Runs,
           Sandbox(e, n) \/ RunFleet(e, n)
    PROVE  /\ phase[e] = "active" /\ n \in Names
           /\ UNCHANGED <<bookkeeping, list, struck>>
           /\ \E s \in Working \cup {"failed", "err", "done"} : Goto(e, n, s)
           /\ cancelled' \in {cancelled, cancelled \cup {e}}
           /\ box' \in [Names -> Boxes \cup {NoBox}]
           /\ \A i \in Names \ {n} : box'[i] = box[i]
           /\ Docker /\ box'[n] # NoBox => ~box'[n].going
           /\ \E why \in {"fault", "context"} : lost' \in {lost, lost \cup {<<e, n, why>>}}
           /\ faults' \in 0..MaxFaults
<1> USE EvaluationAssumption DEF TypeInv, TypeOK, At, Goto, Fail, Fault, Working
<1>0. n \in Names /\ faults \in Nat
  BY RunsAreNames
<1>1. CASE RemoveOldContainer(e, n) \/ RemoveOldPod(e, n)
  <2>1. /\ box' \in {box, [box EXCEPT ![n] = NoBox], [box EXCEPT ![n].going = TRUE]}
        /\ box[n] = NoBox \/ Docker => box' \in {box, [box EXCEPT ![n] = NoBox]}
    BY <1>1 DEF RemoveOldContainer, RemoveOldPod
  <2>2. /\ box' \in [Names -> Boxes \cup {NoBox}]
        /\ \A i \in Names \ {n} : box'[i] = box[i]
        /\ Docker /\ box'[n] # NoBox => ~box'[n].going
    BY <2>1, DeletedBox
  <2>3. faults' \in 0..MaxFaults
    BY <1>0, <1>1 DEF RemoveOldContainer, RemoveOldPod
  <2> QED
    BY <1>0, <1>1, <2>2, <2>3 DEF RemoveOldContainer, RemoveOldPod
<1>2. CASE CreateContainer(e, n) \/ CreatePod(e, n)
  <2>1. [by |-> e, up |-> FALSE, going |-> FALSE] \in Boxes
    BY DEF Boxes
  <2>2. Create(e, n)
    BY <1>2 DEF CreateContainer, CreatePod
  <2>3. /\ box' \in [Names -> Boxes \cup {NoBox}]
        /\ \A i \in Names \ {n} : box'[i] = box[i]
        /\ ~box'[n].going
    BY <1>0, <2>1, <2>2 DEF Create
  <2> QED
    BY <1>0, <2>2, <2>3 DEF Create
<1>3. CASE CreateFails(e, n) \/ PodFails(e, n) \/ RunFleet(e, n)
  BY <1>0, <1>3 DEF CreateFails, PodFails, RunFleet
<1>4. CASE StartContainer(e, n) \/ PodRunning(e, n)
  <2>1. box[n] \in Boxes /\ box' = [box EXCEPT ![n].up = TRUE]
    BY <1>0, <1>4 DEF StartContainer, PodRunning, ComesUp, Owns
  <2>2. /\ box' \in [Names -> Boxes \cup {NoBox}]
        /\ \A i \in Names \ {n} : box'[i] = box[i]
        /\ box'[n].going = box[n].going
    BY <1>0, <2>1 DEF Boxes
  <2> QED
    BY <1>0, <1>4, <2>1, <2>2, NoBoxIsNoBox DEF StartContainer, PodRunning, ComesUp
<1>5. CASE StartContainerFails(e, n)
  <2>1. /\ Owns(e, n) => box[n] \in Boxes
        /\ \/ box' = box
           \/ box' = [box EXCEPT ![n] = NoBox]
           \/ Owns(e, n) /\ \E up \in BOOLEAN : box' = [box EXCEPT ![n].up = up]
    BY <1>0, <1>5 DEF StartContainerFails, Owns
  <2>2. /\ box' \in [Names -> Boxes \cup {NoBox}]
        /\ \A i \in Names \ {n} : box'[i] = box[i]
        /\ Docker /\ box'[n] # NoBox => ~box'[n].going
    <3>1. CASE box' = box \/ box' = [box EXCEPT ![n] = NoBox]
      BY <1>0, <3>1
    <3>2. ASSUME Owns(e, n), NEW up \in BOOLEAN, box' = [box EXCEPT ![n].up = up]
          PROVE  /\ box' \in [Names -> Boxes \cup {NoBox}]
                 /\ \A i \in Names \ {n} : box'[i] = box[i]
                 /\ box'[n].going = box[n].going /\ box[n] # NoBox
      BY <1>0, <2>1, <3>2 DEF Boxes, Owns
    <3> QED BY <2>1, <3>1, <3>2
  <2>3. /\ faults' \in 0..MaxFaults
        /\ \E why \in {"fault", "context"} : lost' \in {lost, lost \cup {<<e, n, why>>}}
    BY <1>0, <1>5 DEF StartContainerFails
  <2> QED
    BY <1>0, <1>5, <2>2, <2>3 DEF StartContainerFails
<1>6. CASE CleanupContainer(e, n) \/ CleanupPod(e, n) \/ CleanupFails(e, n)
  <2>1. /\ box' \in {box, [box EXCEPT ![n] = NoBox], [box EXCEPT ![n].going = TRUE]}
        /\ box[n] = NoBox \/ Docker => box' \in {box, [box EXCEPT ![n] = NoBox]}
    BY <1>6 DEF CleanupContainer, CleanupPod, CleanupFails
  <2>2. /\ box' \in [Names -> Boxes \cup {NoBox}]
        /\ \A i \in Names \ {n} : box'[i] = box[i]
        /\ Docker /\ box'[n] # NoBox => ~box'[n].going
    BY <2>1, DeletedBox
  <2>3. /\ faults' \in 0..MaxFaults
        /\ \E why \in {"fault", "context"} : lost' \in {lost, lost \cup {<<e, n, why>>}}
    BY <1>0, <1>6 DEF CleanupContainer, CleanupPod, CleanupFails
  <2>4. Cleanup(e, n)
    BY <1>6 DEF CleanupContainer, CleanupPod, CleanupFails
  <2> QED
    BY <1>0, <2>2, <2>3, <2>4 DEF Cleanup, Returns
<1> QED
  BY <1>1, <1>2, <1>3, <1>4, <1>5, <1>6 DEF Sandbox

\* The steps of the sweeper and of Kubernetes leave the evaluations alone.
SweeperStep ==
    \/ List
    \/ \E e \in Evals, n \in Runs : Sweep(e, n)
    \/ \E n \in Runs : Age(n) \/ PodGone(n)

\* The steps of an evaluation outside its runs leave the sandboxes alone.
HandlerStep(e) ==
    \/ Begin(e) \/ FinishUnwritten(e) \/ FinishErr(e) \/ Shutdown(e) \/ Crash(e)
    \/ \E outs \in [Runs -> Results], baseline \in Baselines : Finish(e, outs, baseline)

LEMMA NextCases ==
    ASSUME Next
    PROVE  \/ \E e \in Evals : HandlerStep(e)
           \/ \E e \in Evals, n \in Runs : Sandbox(e, n) \/ RunFleet(e, n)
           \/ SweeperStep
  BY DEF Next, HandlerStep, SweeperStep

LEMMA HandlerEffect ==
    ASSUME TypeInv, NEW e \in Evals, HandlerStep(e)
    PROVE  /\ UNCHANGED <<platform, k, box, aged, struck, lost>>
           /\ \/ phase[e] = "active" /\ UNCHANGED pc
                 /\ \/ UNCHANGED phase
                    \/ \E s \in {"over", "crashed"} : phase' = [phase EXCEPT ![e] = s]
              \/ Begin(e)
           /\ shut' \subseteq cancelled' /\ cancelled \subseteq cancelled'
           /\ cancelled' \subseteq Evals /\ list' \subseteq list
           /\ overlapped \subseteq overlapped' /\ overlapped' \subseteq Evals
           /\ faults' \in 0..MaxFaults
<1> USE EvaluationAssumption DEF TypeInv, TypeOK, Fault
<1>1. ASSUME Begin(e)
      PROVE  /\ UNCHANGED <<platform, k, box, aged, struck, lost, cancelled, shut, list, faults>>
             /\ overlapped \subseteq overlapped' /\ overlapped' \subseteq Evals
  BY <1>1 DEF Begin
<1>2. CASE FinishUnwritten(e) \/ FinishErr(e)
  <2>1. /\ phase[e] = "active" /\ phase' = [phase EXCEPT ![e] = "over"]
        /\ UNCHANGED <<platform, k, box, pc, cancelled, shut, list, overlapped,
                       aged, struck, lost>>
    BY <1>2 DEF FinishUnwritten, FinishErr
  <2>2. \/ faults' = faults
        \/ faults < MaxFaults /\ faults' = faults + 1
    BY <1>2, Zenon DEF FinishUnwritten, FinishErr
  <2>3. faults' \in 0..MaxFaults
    BY <2>2
  <2> QED BY <2>1, <2>3
<1>3. CASE Shutdown(e) \/ Crash(e)
  BY <1>3 DEF Shutdown, Crash
<1>4. ASSUME NEW outs, NEW baseline, Finish(e, outs, baseline)
      PROVE  /\ phase[e] = "active" /\ phase' = [phase EXCEPT ![e] = "over"]
             /\ UNCHANGED <<platform, k, box, pc, cancelled, shut, list, overlapped,
                            aged, struck, lost, faults>>
  BY <1>4 DEF Finish
<1> QED
  BY <1>1, <1>2, <1>3, <1>4 DEF HandlerStep

LEMMA SweeperEffect ==
    ASSUME TypeInv, SweeperStep
    PROVE  /\ UNCHANGED <<platform, k, phase, pc, cancelled, shut, overlapped, lost>>
           /\ box' \in [Names -> Boxes \cup {NoBox}]
           /\ aged \subseteq aged' /\ aged' \subseteq Sandboxes
           /\ list' \subseteq aged'
           /\ struck \subseteq struck' /\ struck' \subseteq Sandboxes
           /\ Docker => struck' = {}
           /\ Docker => \A n \in Runs : box'[n] # NoBox => ~box'[n].going
           /\ faults' \in 0..MaxFaults
<1> USE EvaluationAssumption DEF TypeInv, TypeOK, bookkeeping, Fault
<1>0. Runs \subseteq Names
  BY RunsAreNames
<1>1. CASE List
  BY <1>1 DEF List, ListContainers, ListPods, ListOf
<1>2. ASSUME NEW n \in Runs, Age(n)
      PROVE  /\ UNCHANGED <<platform, k, box, phase, pc, cancelled, shut, overlapped,
                            list, struck, lost, faults>>
             /\ aged \subseteq aged' /\ aged' \subseteq Sandboxes
  <2>1. n \in Names /\ box[n] \in Boxes
    BY <1>0, <1>2 DEF Age
  <2>2. <<box[n].by, n>> \in Sandboxes
    BY <2>1 DEF Boxes, Sandboxes
  <2> QED BY <1>2, <2>2 DEF Age
<1>3. ASSUME NEW n \in Runs, PodGone(n)
      PROVE  /\ UNCHANGED <<platform, k, aged, phase, pc, cancelled, shut, overlapped,
                            list, struck, lost, faults>>
             /\ box' = [box EXCEPT ![n] = NoBox]
  BY <1>3 DEF PodGone
<1>4. ASSUME NEW e \in Evals, NEW n \in Runs, Sweep(e, n)
      PROVE  /\ UNCHANGED <<platform, k, aged, phase, pc, cancelled, shut, overlapped,
                            lost>>
             /\ list' \subseteq list
             /\ struck \subseteq struck' /\ struck' \subseteq Sandboxes
             /\ Docker => struck' = struck
             /\ box' \in [Names -> Boxes \cup {NoBox}]
             /\ \A i \in Names \ {n} : box'[i] = box[i]
             /\ Docker /\ box'[n] # NoBox => ~box'[n].going
             /\ faults' \in 0..MaxFaults
  <2>1. /\ box' \in {box, [box EXCEPT ![n] = NoBox], [box EXCEPT ![n].going = TRUE]}
        /\ box[n] = NoBox \/ Docker => box' \in {box, [box EXCEPT ![n] = NoBox]}
    BY <1>4 DEF Sweep, SweepContainer, SweepPod, SweepFails
  <2>2. /\ box' \in [Names -> Boxes \cup {NoBox}]
        /\ \A i \in Names \ {n} : box'[i] = box[i]
        /\ Docker /\ box'[n] # NoBox => ~box'[n].going
    BY <2>1, DeletedBox
  <2>3. box[n] # NoBox => <<box[n].by, n>> \in Sandboxes
    BY <1>0 DEF Boxes, Sandboxes
  <2>4. /\ struck \subseteq struck' /\ struck' \subseteq Sandboxes
        /\ Docker => struck' = struck
    BY <1>4, <2>3 DEF Sweep, SweepContainer, SweepPod, SweepFails
  <2>5. Swept(e, n) /\ faults' \in 0..MaxFaults
    BY <1>4 DEF Sweep, SweepContainer, SweepPod, SweepFails
  <2> QED
    BY <2>2, <2>4, <2>5 DEF Swept
<1>5. CASE \E n \in Runs : PodGone(n)
  BY <1>0, <1>3, <1>5
<1>6. CASE \E n \in Runs : Age(n)
  BY <1>2, <1>6
<1>7. CASE \E e \in Evals, n \in Runs : Sweep(e, n)
  <2>1. PICK e \in Evals, n \in Runs : Sweep(e, n)
    BY <1>7
  <2> QED BY <1>0, <1>4, <2>1
<1> QED
  BY <1>1, <1>5, <1>6, <1>7 DEF SweeperStep

LEMMA TypeStep ==
    ASSUME TypeInv, [Next]_vars
    PROVE  TypeInv'
<1>0. Runs \subseteq Names
  BY RunsAreNames DEF TypeInv
<1>1. ASSUME NEW e \in Evals, HandlerStep(e)
      PROVE  TypeInv'
  <2>1. /\ phase' \in [Evals -> {"idle", "active", "over", "crashed"}]
        /\ pc' \in [Evals -> [Names -> Working \cup {"idle", "failed", "err", "done"}]]
        /\ IdleRuns'
    <3>1. CASE Begin(e)
      <4>1. [n \in Names |-> IF n \in Runs THEN "start" ELSE "idle"]
              \in [Names -> Working \cup {"idle", "failed", "err", "done"}]
        BY DEF Working
      <4> HIDE DEF Working
      <4> QED
        BY <3>1, <4>1 DEF Begin, TypeInv, TypeOK, IdleRuns
    <3>2. CASE phase[e] = "active" /\ UNCHANGED pc
               /\ (phase' = phase \/ \E s \in {"over", "crashed"} :
                                        phase' = [phase EXCEPT ![e] = s])
      BY <3>2 DEF TypeInv, TypeOK, IdleRuns
    <3> QED BY <1>1, <3>1, <3>2, HandlerEffect
  <2> QED
    BY <1>1, <2>1, HandlerEffect DEF TypeInv, TypeOK, Deployed, Docker, Runs
<1>2. ASSUME NEW e \in Evals, NEW n \in Runs, Sandbox(e, n) \/ RunFleet(e, n)
      PROVE  TypeInv'
  <2>1. /\ pc' \in [Evals -> [Names -> Working \cup {"idle", "failed", "err", "done"}]]
        /\ IdleRuns'
    <3>1. PICK s \in Working \cup {"failed", "err", "done"} : Goto(e, n, s)
      BY <1>2, SandboxEffect
    <3>2. phase[e] = "active" /\ n \in Names /\ phase' = phase
      BY <1>2, SandboxEffect DEF bookkeeping
    <3>3. pc' \in [Evals -> [Names -> Working \cup {"idle", "failed", "err", "done"}]]
      BY <3>1, <3>2 DEF Goto, TypeInv, TypeOK
    <3>4. \A d \in Evals \ {e} : pc'[d] = pc[d]
      BY <3>1 DEF Goto, TypeInv, TypeOK
    <3> QED BY <3>2, <3>3, <3>4 DEF TypeInv, IdleRuns
  <2>2. lost' \subseteq Losses
    BY <1>0, <1>2, SandboxEffect DEF TypeInv, TypeOK, Losses
  <2>3. Docker => \A i \in Runs : box'[i] # NoBox => ~box'[i].going
    BY <1>0, <1>2, SandboxEffect DEF TypeInv, TypeOK
  <2>4. cancelled' \subseteq Evals /\ cancelled \subseteq cancelled'
    BY <1>2, SandboxEffect DEF TypeInv, TypeOK
  <2> QED
    BY <1>2, <2>1, <2>2, <2>3, <2>4, SandboxEffect
    DEF TypeInv, TypeOK, Deployed, Docker, Runs, bookkeeping
<1>3. CASE SweeperStep
  BY <1>3, SweeperEffect DEF TypeInv, TypeOK, Deployed, IdleRuns, Docker, Runs
<1>4. CASE UNCHANGED vars
  BY <1>4 DEF TypeInv, TypeOK, Deployed, IdleRuns, Docker, Runs, Owns, vars
<1> QED
  BY <1>1, <1>2, <1>3, <1>4, NextCases

LEMMA TypeInit ==
    ASSUME Init
    PROVE  TypeInv
  BY EvaluationAssumption
  DEF Init, TypeInv, TypeOK, Deployed, IdleRuns, Docker, Runs, Names, NoBox

LEMMA TypeAlways == Spec => []TypeInv
  BY TypeInit, TypeStep, PTL DEF Spec

\* Every variable keeps its type; a container is never in a state of being
\* deleted, a worker that stops has cancelled its runs, and the sweeper's list
\* holds only sandboxes over the timeout (services/testing/main.go).
THEOREM TypeCorrect == Spec => []TypeOK
  BY TypeAlways, PTL DEF TypeInv

-----------------------------------------------------------------------------
(* A run keeps its sandbox.                                                *)

\* What a run that is on its own does to its sandbox: it has it once it is
\* created, and keeps it until the fleet run is over.
LEMMA OwnStep ==
    ASSUME TypeInv, KeepsSandbox, NEW e \in Evals, NEW n \in Runs,
           Sandbox(e, n) \/ RunFleet(e, n),
           pc'[e][n] \in {"made", "up"},
           e \notin overlapped, <<e, n>> \notin aged \cup struck
    PROVE  Owns(e, n)' /\ ~box'[n].going
<1>0. /\ n \in Names /\ box \in [Names -> Boxes \cup {NoBox}]
      /\ \A s : Goto(e, n, s) => pc'[e][n] = s
  BY RunsAreNames DEF TypeInv, TypeOK, Goto
<1>1. CASE Create(e, n)
  <2>1. box'[n] = [by |-> e, up |-> FALSE, going |-> FALSE]
    BY <1>0, <1>1 DEF Create
  <2> QED BY <2>1, NoBoxIsNoBox DEF Owns
<1>2. CASE ComesUp(e, n)
  <2>1. Owns(e, n) /\ ~box[n].going
    BY <1>2 DEF ComesUp, At, KeepsSandbox
  <2>2. box[n] \in Boxes /\ box'[n] = [box[n] EXCEPT !.up = TRUE]
    BY <1>0, <1>2, <2>1 DEF ComesUp, Owns
  <2>3. box'[n] \in Boxes /\ box'[n].by = box[n].by /\ box'[n].going = box[n].going
    BY <2>2 DEF Boxes
  <2> QED BY <2>1, <2>3, NoBoxIsNoBox DEF Owns
<1>3. ASSUME RemoveOldContainer(e, n) \/ RemoveOldPod(e, n)
      PROVE  FALSE
  BY <1>0, <1>3 DEF RemoveOldContainer, RemoveOldPod
<1>4. ASSUME CreateFails(e, n) \/ StartContainerFails(e, n) \/ PodFails(e, n)
      PROVE  FALSE
  BY <1>0, <1>4 DEF CreateFails, StartContainerFails, PodFails, Fail
<1>5. ASSUME RunFleet(e, n) \/ Cleanup(e, n)
      PROVE  FALSE
  BY <1>0, <1>5 DEF RunFleet, Cleanup, Returns, Fail
<1> QED
  BY <1>1, <1>2, <1>3, <1>4, <1>5
  DEF Sandbox, CreateContainer, CreatePod, StartContainer, PodRunning,
      CleanupContainer, CleanupPod, CleanupFails

\* The sweeper takes a sandbox away only when it is over the timeout or, for a
\* pod, has the name of one that is.
LEMMA SweeperSpares ==
    ASSUME TypeInv, SweeperStep, NEW e \in Evals, NEW n \in Runs,
           Owns(e, n), ~box[n].going, <<e, n>> \notin aged' \cup struck'
    PROVE  box'[n] = box[n]
<1>0. /\ n \in Names /\ box \in [Names -> Boxes \cup {NoBox}]
      /\ box[n] # NoBox /\ box[n].by = e /\ Runs \subseteq Names
  BY RunsAreNames DEF TypeInv, TypeOK, Owns
<1>1. CASE List
  BY <1>1 DEF List, ListContainers, ListPods, ListOf
<1>2. CASE \E m \in Runs : Age(m)
  BY <1>2 DEF Age
<1>3. CASE \E m \in Runs : PodGone(m)
  BY <1>0, <1>3 DEF PodGone
<1>4. ASSUME NEW d \in Evals, NEW m \in Runs, Sweep(d, m)
      PROVE  box'[n] = box[n]
  <2>1. <<d, m>> \in aged /\ aged' = aged
    BY <1>4 DEF Sweep, SweepContainer, SweepPod, SweepFails, Swept, bookkeeping,
                TypeInv, TypeOK
  <2>2. CASE m # n
    BY <1>0, <1>4, <2>2 DEF Sweep, SweepContainer, SweepPod, SweepFails
  <2>3. CASE m = n
    <3>1. d # e /\ ~Owns(d, n)
      BY <1>0, <2>1, <2>3 DEF Owns
    <3>2. ~SweepPod(d, m)
      BY <1>0, <2>3, <3>1 DEF SweepPod
    <3> QED
      BY <1>4, <2>3, <3>1, <3>2 DEF Sweep, SweepContainer, SweepFails
  <2> QED BY <2>2, <2>3
<1> QED
  BY <1>1, <1>2, <1>3, <1>4 DEF SweeperStep

LEMMA MetStep ==
    ASSUME TypeInv, Met, [Next]_vars
    PROVE  Met'
<1>1. ASSUME NEW e \in Evals, HandlerStep(e)
      PROVE  Met'
  <2>1. CASE Begin(e)
    BY <2>1 DEF Begin, Met, TypeInv, TypeOK
  <2>2. CASE ~Begin(e)
    BY <1>1, <2>2, HandlerEffect DEF Met, TypeInv, TypeOK
  <2> QED BY <2>1, <2>2
<1>2. ASSUME NEW e \in Evals, NEW n \in Runs, Sandbox(e, n) \/ RunFleet(e, n)
      PROVE  Met'
  BY <1>2, SandboxEffect DEF Met, bookkeeping
<1>3. CASE SweeperStep
  BY <1>3, SweeperEffect DEF Met
<1>4. CASE UNCHANGED vars
  BY <1>4 DEF Met, vars
<1> QED
  BY <1>1, <1>2, <1>3, <1>4, NextCases

LEMMA KeepsStep ==
    ASSUME TypeInv, KeepsInv, [Next]_vars
    PROVE  KeepsInv'
<1>0. Runs \subseteq Names /\ Runs' = Runs
  <2>1. k' = k
    BY NextCases, HandlerEffect, SandboxEffect, SweeperEffect DEF vars, bookkeeping
  <2> QED BY <2>1, RunsAreNames DEF TypeInv, Runs
<1>1. Met'
  BY MetStep DEF KeepsInv
<1>2. SUFFICES ASSUME NEW e \in Evals, NEW n \in Runs,
                      phase'[e] = "active", pc'[e][n] \in {"made", "up"},
                      e \notin overlapped', <<e, n>> \notin aged' \cup struck'
               PROVE  Owns(e, n)' /\ ~box'[n].going
  BY <1>0, <1>1 DEF KeepsInv, KeepsSandbox
\* A step that leaves this run where it is.
<1>3. ASSUME phase[e] = "active", pc[e][n] = pc'[e][n], e \notin overlapped,
             <<e, n>> \notin aged \cup struck
      PROVE  Owns(e, n) /\ ~box[n].going
  BY <1>2, <1>3 DEF KeepsInv, KeepsSandbox
<1>4. ASSUME NEW d \in Evals, HandlerStep(d)
      PROVE  Owns(e, n)' /\ ~box'[n].going
  <2>1. phase[e] = "active" /\ pc[e][n] = pc'[e][n]
    <3>1. CASE Begin(d)
      <4>1. d # e
        BY <1>0, <1>2, <3>1 DEF Begin, TypeInv, TypeOK
      <4> QED BY <1>2, <3>1, <4>1 DEF Begin, TypeInv, TypeOK
    <3>2. CASE ~Begin(d)
      BY <1>2, <1>4, <3>2, HandlerEffect DEF TypeInv, TypeOK
    <3> QED BY <3>1, <3>2
  <2> QED
    BY <1>2, <1>3, <1>4, <2>1, HandlerEffect DEF Owns
<1>5. ASSUME NEW d \in Evals, NEW m \in Runs, Sandbox(d, m) \/ RunFleet(d, m)
      PROVE  Owns(e, n)' /\ ~box'[n].going
  <2>1. /\ phase' = phase /\ phase[d] = "active" /\ e \notin overlapped
        /\ <<e, n>> \notin aged \cup struck
    BY <1>2, <1>5, SandboxEffect DEF bookkeeping
  <2>2. CASE d = e /\ m = n
    BY <1>2, <1>5, <2>1, <2>2, OwnStep DEF KeepsInv
  <2>3. CASE m # n
    <3>1. PICK s \in Working \cup {"failed", "err", "done"} : Goto(d, m, s)
      BY <1>5, SandboxEffect
    <3>2. pc[e][n] = pc'[e][n]
      BY <1>0, <2>3, <3>1 DEF Goto, TypeInv, TypeOK
    <3>3. box'[n] = box[n]
      BY <1>0, <1>5, <2>3, SandboxEffect
    <3> QED
      BY <1>2, <1>3, <2>1, <3>2, <3>3 DEF Owns
  <2>4. d = e
    BY <1>2, <2>1 DEF KeepsInv, Met
  <2> QED BY <2>2, <2>3, <2>4
<1>6. CASE SweeperStep
  <2>1. Owns(e, n) /\ ~box[n].going
    BY <1>2, <1>3, <1>6, SweeperEffect
  <2> QED
    BY <1>2, <1>6, <2>1, SweeperSpares DEF Owns
<1>7. CASE UNCHANGED vars
  BY <1>2, <1>3, <1>7 DEF vars, Owns
<1> QED
  BY <1>4, <1>5, <1>6, <1>7, NextCases

\* From its creation to the end of its fleet run a run keeps the sandbox it
\* created, unless another evaluation of the submission ran at the same time,
\* the sandbox is over the sweeper's timeout, or a pod is deleted for an older
\* one of its name (createSandbox, cleanup and the sweepers of services/testing).
THEOREM RunsKeepTheirSandbox == Spec => []KeepsSandbox
<1>1. Init => KeepsInv
  BY TypeInit DEF TypeInv, TypeOK, Init, KeepsInv, Met, KeepsSandbox, Runs, Names
<1>2. TypeInv /\ KeepsInv /\ [Next]_vars => KeepsInv'
  BY KeepsStep
<1> QED
  BY <1>1, <1>2, TypeAlways, PTL DEF Spec, KeepsInv

-----------------------------------------------------------------------------
(* A sandbox that is left behind.                                          *)

\* A context is done because the worker stops or a run returned an error.
ContextReason ==
    \A e \in cancelled :
        e \in shut \/ \E m \in Runs : pc[e][m] \in {"failed", "err"}

LeaksInv == ContextReason /\ LeaksExplained

\* Why a sandbox e created under the name n may still be there.
Explained(e, n) ==
    \/ phase[e] = "crashed" \/ <<e, n, "fault">> \in lost
    \/ pc[e][n] \in {"made", "up", "ok", "broke"}
    \/ pc[e][n] = "failed" /\ ~Docker
    \/ <<e, n, "context">> \in lost /\ StoppedByOthers(e, n)

\* A run that has ended stays ended, a failed one failed, and a worker told to
\* stop stays so.
LEMMA FailuresStay ==
    ASSUME TypeInv, [Next]_vars, NEW e \in Evals, NEW m \in Runs,
           pc[e][m] \in {"failed", "err"}
    PROVE  pc'[e][m] \in {"failed", "err"}
<1>0. m \in Names
  BY RunsAreNames DEF TypeInv
<1>1. ASSUME NEW d \in Evals, HandlerStep(d)
      PROVE  pc'[e][m] \in {"failed", "err"}
  <2>1. CASE UNCHANGED pc
    BY <2>1
  <2>2. CASE Begin(d)
    <3>1. d # e
      BY <1>0, <2>2 DEF Begin, TypeInv, IdleRuns
    <3> QED BY <2>2, <3>1 DEF Begin, TypeInv, TypeOK
  <2> QED BY <1>1, <2>1, <2>2, HandlerEffect
<1>2. ASSUME NEW d \in Evals, NEW i \in Runs, Sandbox(d, i) \/ RunFleet(d, i)
      PROVE  pc'[e][m] \in {"failed", "err"}
  <2>1. pc[d][i] \notin {"failed", "err"}
    BY <1>2 DEF Sandbox, RunFleet, RemoveOldContainer, CreateContainer, StartContainer,
       StartContainerFails, CleanupContainer, RemoveOldPod, CreatePod, PodRunning,
       PodFails, CleanupPod, CreateFails, CleanupFails, Create, ComesUp, Cleanup, At
  <2>2. PICK s \in Working \cup {"failed", "err", "done"} : Goto(d, i, s)
    BY <1>2, SandboxEffect
  <2> QED BY <2>1, <2>2 DEF Goto, TypeInv, TypeOK
<1>3. CASE SweeperStep \/ UNCHANGED vars
  BY <1>3, SweeperEffect DEF vars
<1> QED BY <1>1, <1>2, <1>3, NextCases

LEMMA StopsStay ==
    ASSUME TypeInv, [Next]_vars
    PROVE  shut \subseteq shut' /\ Runs' = Runs
<1>1. ASSUME NEW e \in Evals, HandlerStep(e)
      PROVE  shut \subseteq shut' /\ k' = k
  BY <1>1 DEF HandlerStep, Begin, FinishUnwritten, FinishErr, Shutdown, Crash, Finish
<1>2. ASSUME NEW e \in Evals, NEW n \in Runs, Sandbox(e, n) \/ RunFleet(e, n)
      PROVE  shut \subseteq shut' /\ k' = k
  BY <1>2, SandboxEffect DEF bookkeeping
<1>3. ASSUME SweeperStep \/ UNCHANGED vars
      PROVE  shut \subseteq shut' /\ k' = k
  BY <1>3, SweeperEffect DEF vars
<1>4. shut \subseteq shut' /\ k' = k
  BY <1>1, <1>2, <1>3, NextCases
<1> QED BY <1>4 DEF Runs

\* So what ended a context from outside a run is still there later.
LEMMA StoppedStays ==
    ASSUME TypeInv, [Next]_vars, NEW e \in Evals, NEW n \in Runs, StoppedByOthers(e, n)
    PROVE  StoppedByOthers(e, n)'
<1>1. shut \subseteq shut' /\ Runs' = Runs
  BY StopsStay
<1>2. CASE e \in shut
  BY <1>1, <1>2 DEF StoppedByOthers
<1>3. ASSUME NEW m \in Runs \ {n}, pc[e][m] \in {"failed", "err"}
      PROVE  StoppedByOthers(e, n)'
  BY <1>1, <1>3, FailuresStay DEF StoppedByOthers
<1> QED BY <1>2, <1>3 DEF StoppedByOthers

LEMMA ContextStep ==
    ASSUME TypeInv, ContextReason, [Next]_vars
    PROVE  ContextReason'
<1>1. SUFFICES ASSUME NEW e \in cancelled', e \notin shut'
               PROVE  \E m \in Runs' : pc'[e][m] \in {"failed", "err"}
  BY DEF ContextReason
<1>2. shut \subseteq shut' /\ Runs' = Runs /\ e \in Evals
  BY StopsStay, TypeStep DEF TypeInv, TypeOK
<1>3. CASE e \in cancelled
  <2>1. PICK m \in Runs : pc[e][m] \in {"failed", "err"}
    BY <1>1, <1>2, <1>3 DEF ContextReason
  <2> QED BY <1>2, <2>1, FailuresStay
<1>4. CASE e \notin cancelled
  <2>1. ASSUME NEW d \in Evals, NEW i \in Runs, Sandbox(d, i) \/ RunFleet(d, i)
        PROVE  e = d /\ pc'[d][i] \in {"failed", "err"}
    <3>1. /\ i \in Names
          /\ \A s : Goto(d, i, s) => pc'[d][i] = s
      BY RunsAreNames DEF TypeInv, TypeOK, Goto
    <3>2. \/ UNCHANGED cancelled
          \/ \E s \in {"failed", "err"} : Fail(d, i, s)
      BY <2>1 DEF Sandbox, RunFleet, RemoveOldContainer, CreateContainer,
         StartContainer, StartContainerFails, CleanupContainer, RemoveOldPod, CreatePod,
         PodRunning, PodFails, CleanupPod, CreateFails, CleanupFails, Create, ComesUp,
         Cleanup, Returns
    <3> QED BY <1>1, <1>4, <3>1, <3>2 DEF Fail
  <2>2. ASSUME NEW d \in Evals, HandlerStep(d)
        PROVE  FALSE
    BY <1>1, <1>4, <2>2
    DEF HandlerStep, Begin, FinishUnwritten, FinishErr, Shutdown, Crash, Finish
  <2>3. CASE SweeperStep \/ UNCHANGED vars
    BY <1>1, <1>4, <2>3, SweeperEffect DEF vars
  <2> QED BY <1>2, <2>1, <2>2, <2>3, NextCases
<1> QED BY <1>3, <1>4

\* A run that goes on without an explanation for the sandbox of its name being
\* its own takes it away, or gives one.
LEMMA RunExplains ==
    ASSUME TypeInv, ContextReason, NEW e \in Evals, NEW n \in Runs,
           Sandbox(e, n) \/ RunFleet(e, n), Next,
           box'[n] # NoBox, ~box'[n].going, box'[n].by = e,
           box[n] # NoBox /\ ~box[n].going /\ box[n].by = e => Explained(e, n)
    PROVE  Explained(e, n)'
<1>0. /\ n \in Names /\ box \in [Names -> Boxes \cup {NoBox}]
      /\ \A s : Goto(e, n, s) => pc'[e][n] = s
  BY RunsAreNames DEF TypeInv, TypeOK, Goto
<1>1. phase[e] = "active" /\ lost \subseteq lost'
  BY SandboxEffect
<1>s. StoppedByOthers(e, n) => StoppedByOthers(e, n)'
  BY StoppedStays
<1>2. CASE RemoveOldContainer(e, n) \/ RemoveOldPod(e, n)
  <2>1. box'[n] = box[n]
    <3>1. CASE box' = box
      BY <3>1
    <3>2. CASE box' = [box EXCEPT ![n] = NoBox]
      BY <1>0, <3>2
    <3>3. CASE box[n] # NoBox /\ box' = [box EXCEPT ![n].going = TRUE]
      <4>1. box[n] \in Boxes /\ box'[n] = [box[n] EXCEPT !.going = TRUE]
        BY <1>0, <3>3
      <4>2. box'[n].going
        BY <4>1 DEF Boxes
      <4> QED BY <4>2
    <3> QED
      BY <1>2, <3>1, <3>2, <3>3 DEF RemoveOldContainer, RemoveOldPod
  <2>2. pc[e][n] = "start"
    BY <1>2 DEF RemoveOldContainer, RemoveOldPod, At
  <2> QED
    BY <1>1, <1>s, <2>1, <2>2 DEF Explained
<1>3. CASE Create(e, n) \/ ComesUp(e, n) \/ RunFleet(e, n)
  BY <1>0, <1>3 DEF Create, ComesUp, RunFleet, Explained
<1>4. CASE CreateFails(e, n)
  <2>1. box' = box /\ pc[e][n] = "removed"
    BY <1>4 DEF CreateFails, At
  <2> QED
    BY <1>1, <1>s, <2>1 DEF Explained
<1>5. CASE PodFails(e, n)
  BY <1>0, <1>5 DEF PodFails, Fail, Explained, Docker, bookkeeping
<1>9. CASE StartContainerFails(e, n)
  <2>1. pc[e][n] = "made"
    BY <1>9 DEF StartContainerFails, At
  <2>2. CASE Owns(e, n) /\ e \notin cancelled
    BY <1>0, <1>9, <2>2 DEF StartContainerFails, Explained
  <2>3. CASE Owns(e, n) /\ e \in cancelled
    <3>1. StoppedByOthers(e, n)
      BY <2>1, <2>3 DEF ContextReason, StoppedByOthers
    <3> QED
      BY <1>9, <1>s, <2>3, <3>1 DEF StartContainerFails, Explained
  <2>4. CASE ~Owns(e, n)
    BY <1>9, <2>4 DEF StartContainerFails, Owns
  <2> QED BY <2>2, <2>3, <2>4
<1>6. CASE CleanupContainer(e, n)
  <2>1. CASE Owns(e, n)
    BY <1>0, <1>6, <2>1 DEF CleanupContainer
  <2>2. CASE ~Owns(e, n)
    BY <1>6, <2>2 DEF CleanupContainer, Owns
  <2> QED BY <2>1, <2>2
<1>7. CASE CleanupPod(e, n)
  <2>1. CASE box[n] # NoBox
    <3>1. box[n] \in Boxes /\ box'[n] = [box[n] EXCEPT !.going = TRUE]
      BY <1>0, <1>7, <2>1 DEF CleanupPod
    <3>2. box'[n].going
      BY <3>1 DEF Boxes
    <3> QED BY <3>2
  <2>2. CASE box[n] = NoBox
    BY <1>7, <2>2 DEF CleanupPod
  <2> QED BY <2>1, <2>2
<1>8. CASE CleanupFails(e, n)
  BY <1>8 DEF CleanupFails, Explained
<1> QED
  BY <1>2, <1>3, <1>4, <1>5, <1>6, <1>7, <1>8, <1>9
  DEF Sandbox, CreateContainer, CreatePod, StartContainer, PodRunning

\* Only its own run changes whose sandbox a name is.
LEMMA OwnerStays ==
    ASSUME TypeInv, NEW e \in Evals, NEW n \in Runs,
           Sandbox(e, n) \/ RunFleet(e, n),
           box'[n] # NoBox, ~box'[n].going, box'[n].by # e
    PROVE  box[n] # NoBox /\ ~box[n].going /\ box'[n].by = box[n].by
<1>0. n \in Names /\ box \in [Names -> Boxes \cup {NoBox}]
  BY RunsAreNames DEF TypeInv, TypeOK
<1>1. CASE \/ box' = box
           \/ box' = [box EXCEPT ![n] = NoBox]
           \/ box[n] # NoBox /\ box' = [box EXCEPT ![n].going = TRUE]
  <2>1. ASSUME box[n] # NoBox, box' = [box EXCEPT ![n].going = TRUE]
        PROVE  FALSE
    <3>1. box[n] \in Boxes /\ box'[n] = [box[n] EXCEPT !.going = TRUE]
      BY <1>0, <2>1
    <3> QED BY <3>1 DEF Boxes
  <2> QED BY <1>0, <1>1, <2>1
<1>2. ASSUME NEW up \in BOOLEAN, box[n] # NoBox, box' = [box EXCEPT ![n].up = up]
      PROVE  box[n] # NoBox /\ ~box[n].going /\ box'[n].by = box[n].by
  <2>1. box[n] \in Boxes /\ box'[n] = [box[n] EXCEPT !.up = up]
    BY <1>0, <1>2
  <2> QED BY <1>2, <2>1 DEF Boxes
<1>3. CASE RemoveOldContainer(e, n) \/ RemoveOldPod(e, n)
  BY <1>1, <1>3 DEF RemoveOldContainer, RemoveOldPod
<1>4. CASE CreateContainer(e, n) \/ CreatePod(e, n)
  <2>1. box'[n] = [by |-> e, up |-> FALSE, going |-> FALSE]
    BY <1>0, <1>4 DEF CreateContainer, CreatePod, Create
  <2> QED BY <2>1
<1>5. CASE StartContainer(e, n) \/ PodRunning(e, n)
  BY <1>2, <1>5 DEF StartContainer, PodRunning, ComesUp, Owns
<1>6. CASE StartContainerFails(e, n)
  BY <1>1, <1>2, <1>6 DEF StartContainerFails, Owns
<1>7. CASE CreateFails(e, n) \/ PodFails(e, n) \/ RunFleet(e, n) \/ CleanupFails(e, n)
  BY <1>1, <1>7 DEF CreateFails, PodFails, RunFleet, CleanupFails
<1>8. CASE CleanupContainer(e, n) \/ CleanupPod(e, n)
  BY <1>1, <1>8 DEF CleanupContainer, CleanupPod
<1> QED
  BY <1>3, <1>4, <1>5, <1>6, <1>7, <1>8 DEF Sandbox

\* The sweeper and Kubernetes only take sandboxes away or mark them.
LEMMA SweeperTakes ==
    ASSUME TypeInv, SweeperStep, NEW n \in Runs, box'[n] # NoBox, ~box'[n].going
    PROVE  box'[n] = box[n]
<1>0. /\ n \in Names /\ box \in [Names -> Boxes \cup {NoBox}] /\ Runs \subseteq Names
  BY RunsAreNames DEF TypeInv, TypeOK
<1>1. CASE List \/ \E m \in Runs : Age(m)
  BY <1>1 DEF List, ListContainers, ListPods, ListOf, Age
<1>2. CASE \E m \in Runs : PodGone(m)
  BY <1>0, <1>2 DEF PodGone
<1>3. ASSUME NEW d \in Evals, NEW m \in Runs, Sweep(d, m)
      PROVE  box'[n] = box[n]
  <2>1. ASSUME box[m] # NoBox, box' = [box EXCEPT ![m].going = TRUE]
        PROVE  box'[n] = box[n]
    <3>1. CASE m = n
      <4>1. box[n] \in Boxes /\ box'[n] = [box[n] EXCEPT !.going = TRUE]
        BY <1>0, <2>1, <3>1
      <4> QED BY <4>1 DEF Boxes
    <3>2. CASE m # n
      BY <1>0, <2>1, <3>2
    <3> QED BY <3>1, <3>2
  <2>2. ASSUME box' = [box EXCEPT ![m] = NoBox]
        PROVE  box'[n] = box[n]
    BY <1>0, <2>2
  <2> QED
    BY <1>3, <2>1, <2>2 DEF Sweep, SweepContainer, SweepPod, SweepFails
<1> QED
  BY <1>1, <1>2, <1>3 DEF SweeperStep

LEMMA LeaksStep ==
    ASSUME TypeInv, LeaksInv, [Next]_vars
    PROVE  LeaksExplained'
<1>0. Runs \subseteq Names /\ Runs' = Runs /\ Docker' = Docker
  <2>1. k' = k /\ platform' = platform
    BY NextCases, HandlerEffect, SandboxEffect, SweeperEffect DEF vars, bookkeeping
  <2> QED BY <2>1, RunsAreNames DEF TypeInv, Runs, Docker
<1>1. \A i \in Runs : box[i] # NoBox /\ ~box[i].going =>
                        box[i].by \in Evals /\ Explained(box[i].by, i)
  BY <1>0 DEF LeaksInv, LeaksExplained, Explained, TypeInv, TypeOK, Boxes
<1>2. SUFFICES ASSUME NEW n \in Runs, NEW e \in Evals,
                      box'[n] # NoBox, ~box'[n].going, box'[n].by = e
               PROVE  Explained(e, n)'
  <2>1. \A n \in Runs : box'[n] # NoBox => box'[n].by \in Evals
    BY <1>0, TypeStep DEF TypeInv, TypeOK, Boxes
  <2> QED
    BY <1>0, <2>1 DEF LeaksExplained, Explained
<1>3. ASSUME box[n] # NoBox, ~box[n].going, box[n].by = e,
             phase[e] = "crashed" => phase'[e] = "crashed",
             lost \subseteq lost', pc'[e][n] = pc[e][n]
      PROVE  Explained(e, n)'
  <2>1. StoppedByOthers(e, n) => StoppedByOthers(e, n)'
    BY StoppedStays
  <2> QED BY <1>0, <1>1, <1>3, <2>1 DEF Explained
<1>4. ASSUME NEW d \in Evals, HandlerStep(d)
      PROVE  Explained(e, n)'
  <2>1. box' = box /\ lost' = lost
    BY <1>2, <1>4, HandlerEffect
  <2>2. CASE Begin(d)
    <3>1. CASE d = e
      <4>1. phase[d] = "idle" /\ pc[d][n] = "idle"
        BY <1>0, <2>2 DEF Begin, TypeInv, IdleRuns
      <4>2. StoppedByOthers(e, n) => StoppedByOthers(e, n)'
        BY StoppedStays
      <4>3. phase[e] # "crashed" /\ pc[e][n] \notin {"made", "up", "ok", "broke", "failed"}
        BY <3>1, <4>1
      <4>4. Explained(e, n)
        BY <1>1, <1>2, <2>1
      <4> QED
        BY <2>1, <4>2, <4>3, <4>4 DEF Explained
    <3>2. CASE d # e
      BY <1>2, <1>3, <2>1, <2>2, <3>2 DEF Begin, TypeInv, TypeOK
    <3> QED BY <3>1, <3>2
  <2>3. CASE ~Begin(d)
    BY <1>2, <1>3, <1>4, <2>1, <2>3, HandlerEffect DEF TypeInv, TypeOK
  <2> QED BY <2>2, <2>3
<1>5. ASSUME NEW d \in Evals, NEW m \in Runs, Sandbox(d, m) \/ RunFleet(d, m)
      PROVE  Explained(e, n)'
  <2>0. phase' = phase /\ lost \subseteq lost'
    BY <1>5, SandboxEffect DEF bookkeeping
  <2>1. PICK s \in Working \cup {"failed", "err", "done"} : Goto(d, m, s)
    BY <1>5, SandboxEffect
  <2>2. CASE m = n /\ d = e
    BY <1>1, <1>2, <1>5, <2>2, RunExplains DEF LeaksInv, Next
  <2>3. CASE m = n /\ d # e
    <3>1. box[n] # NoBox /\ ~box[n].going /\ box[n].by = e
      BY <1>2, <1>5, <2>3, OwnerStays
    <3>2. pc'[e][n] = pc[e][n]
      BY <1>0, <2>1, <2>3 DEF Goto, TypeInv, TypeOK
    <3> QED BY <1>2, <1>3, <2>0, <3>1, <3>2
  <2>4. CASE m # n
    <3>1. box'[n] = box[n]
      BY <1>0, <1>5, <2>4, SandboxEffect
    <3>2. pc'[e][n] = pc[e][n]
      BY <1>0, <2>1, <2>4 DEF Goto, TypeInv, TypeOK
    <3> QED BY <1>2, <1>3, <2>0, <3>1, <3>2
  <2> QED BY <2>2, <2>3, <2>4
<1>6. CASE SweeperStep
  BY <1>2, <1>3, <1>6, SweeperTakes, SweeperEffect
<1>7. CASE UNCHANGED vars
  BY <1>2, <1>3, <1>7 DEF vars
<1> QED
  BY <1>4, <1>5, <1>6, <1>7, NextCases

\* A sandbox that nobody uses and nobody deletes has one of four reasons: a
\* crash, a removal call that failed, a pod that never came up, or a container
\* whose removal was refused after a failed start because the context was done,
\* which is then the doing of another run or of the worker's stop.  So the
\* sandbox of a fleet run is always removed, and so is a container that fails to
\* start on its own (the cleanups of services/testing).
THEOREM LeaksHaveReasons == Spec => []LeaksExplained
<1>1. Init => LeaksInv
  BY TypeInit, RunsAreNames DEF TypeInv, Init, LeaksInv, ContextReason, LeaksExplained
<1>2. TypeInv /\ LeaksInv /\ [Next]_vars => LeaksInv'
  BY LeaksStep, ContextStep DEF LeaksInv
<1>3. LeaksInv => LeaksExplained
  BY DEF LeaksInv
<1> QED
  BY <1>1, <1>2, <1>3, TypeAlways, PTL DEF Spec

-----------------------------------------------------------------------------
(* The verdict over all runs.                                              *)

\* Bounds on a rounded-down average are bounds on the total.
LEMMA AverageAtLeast ==
    ASSUME NEW t \in Nat, NEW c \in Nat \ {0}, NEW b \in Nat
    PROVE  /\ t \div c >= b => t >= b * c
           /\ t \div c < b => t < b * c
<1> DEFINE q == t \div c
           r == t % c
<1>1. /\ q \in Nat /\ r \in Nat /\ r < c /\ t = c * q + r
  OBVIOUS
<1> HIDE DEF q, r
<1>2. ASSUME q >= b PROVE c * q >= b * c
  <2>1. PICK d \in Nat : q = b + d
    <3>1. q - b \in Nat /\ q = b + (q - b)
      BY <1>1, <1>2
    <3> QED BY <3>1
  <2>2. c * (b + d) = b * c + c * d /\ c * d \in Nat /\ b * c \in Nat
    OBVIOUS
  <2> QED BY <2>1, <2>2
<1>3. ASSUME q < b PROVE c * q + c <= b * c
  <2>1. PICK d \in Nat : b = q + 1 + d
    <3>1. b - q - 1 \in Nat /\ b = q + 1 + (b - q - 1)
      BY <1>1, <1>3
    <3> QED BY <3>1
  <2>2. (q + 1 + d) * c = c * q + c + c * d /\ c * d \in Nat /\ c * q \in Nat
    BY <1>1
  <2> QED BY <1>1, <2>1, <2>2
<1>4. c * q \in Nat /\ b * c \in Nat
  BY <1>1
<1>5. q >= b => t >= b * c
  BY <1>1, <1>2, <1>4
<1>6. q < b => t < b * c
  BY <1>1, <1>3, <1>4
<1> QED BY <1>5, <1>6 DEF q

\* The verdict is Accepted only if the averages are.
LEMMA AcceptedAverages ==
    ASSUME NEW outs, DOMAIN outs = Runs, 1 \in Runs, outs[1] \in Measurements, NEW baseline,
           Average(outs, "correctness") \in Nat, Average(outs, "failed") \in Nat,
           EvaluateVerdict(Aggregate(outs), baseline) = "Accepted"
    PROVE  Average(outs, "correctness") >= 100 /\ Average(outs, "failed") < 6
<1> DEFINE res == Aggregate(outs)
<1>1. /\ res.correctness = Average(outs, "correctness")
      /\ res.failed = Average(outs, "failed") /\ res.isSystest = FALSE
  BY DEF Aggregate, Measurements
<1> HIDE DEF res
<1>2. ~(res.correctness < 100)
  BY DEF EvaluateVerdict, res
<1>3. ~failedThresholdExceeded(res)
  BY <1>2 DEF EvaluateVerdict, res
<1> QED BY <1>1, <1>2, <1>3 DEF failedThresholdExceeded

\* The averages of the runs that Finish is given bound every run.
LEMMA FinishAccepted ==
    ASSUME k \in Ks, NEW e \in Evals, NEW outs \in [Runs -> Results], NEW baseline,
           Finish(e, outs, baseline), row' = "Accepted"
    PROVE  /\ \A n \in Runs : outs[n].correctness = 100
           /\ Total(outs, "failed") < 6 * k
<1> DEFINE marked == [n \in Runs |-> [outs[n] EXCEPT !.isSystest = e \in Systests]]
<1>1. /\ k \in Nat \ {0} /\ Runs = 1..k /\ 1 \in Runs
      /\ IsFiniteSet(Runs) /\ Cardinality(Runs) = k
  <2>1. k \in Nat \ {0}
    BY EvaluationAssumption
  <2>2. IsFiniteSet(1..k) /\ Cardinality(1..k) = k
    BY <2>1, FS_Interval
  <2> QED BY <2>1, <2>2 DEF Runs
<1>2. \A n \in Runs : outs[n] \in Measurements
  BY EvaluationAssumption
<1>3. \A n \in Runs : /\ marked[n] \in Measurements
                      /\ marked[n].correctness = outs[n].correctness
                      /\ marked[n].failed = outs[n].failed
                      /\ outs[n].correctness \in 0..100 /\ outs[n].failed \in Nat
  <2> SUFFICES ASSUME NEW n \in Runs
               PROVE  /\ marked[n] \in Measurements
                      /\ marked[n].correctness = outs[n].correctness
                      /\ marked[n].failed = outs[n].failed
                      /\ outs[n].correctness \in 0..100 /\ outs[n].failed \in Nat
    OBVIOUS
  <2> DEFINE systest == e \in Systests
  <2>1. systest \in BOOLEAN
    OBVIOUS
  <2>2. marked[n] = [outs[n] EXCEPT !.isSystest = systest]
    OBVIOUS
  <2> HIDE DEF systest, marked
  <2> QED BY <1>2, <2>1, <2>2 DEF Measurements
<1>4. DOMAIN marked = Runs
  OBVIOUS
<1>5. EvaluateVerdict(Aggregate(marked), baseline) = "Accepted"
  BY DEF Finish
<1> HIDE DEF marked
<1> DEFINE correct == [n \in Runs |-> marked[n]["correctness"]]
           failed == [n \in Runs |-> marked[n]["failed"]]
<1>6. /\ Total(marked, "correctness") = SumFunction(correct)
      /\ Total(marked, "failed") = SumFunction(failed)
      /\ SumFunction(correct) \in Nat /\ SumFunction(failed) \in Nat
  <2>1. correct \in [Runs -> Nat] /\ failed \in [Runs -> Nat]
    BY <1>3
  <2>2. SumFunction(correct) \in Nat /\ SumFunction(failed) \in Nat
    <3> HIDE DEF correct, failed
    <3> QED BY <1>1, <2>1, SumNat
  <2> QED BY <1>4, <2>2 DEF Total
<1>7. /\ Average(marked, "correctness") = Total(marked, "correctness") \div k
      /\ Average(marked, "failed") = Total(marked, "failed") \div k
  BY <1>1, <1>4 DEF Average
<1>8. Average(marked, "correctness") \in Nat /\ Average(marked, "failed") \in Nat
  <2> HIDE DEF correct, failed
  <2> QED BY <1>1, <1>6, <1>7
<1>9. Average(marked, "correctness") >= 100 /\ Average(marked, "failed") < 6
  BY <1>1, <1>3, <1>4, <1>5, <1>8, AcceptedAverages
<1>10. Total(marked, "correctness") >= 100 * k /\ Total(marked, "failed") < 6 * k
  BY <1>1, <1>6, <1>7, <1>9, AverageAtLeast
<1>11. \A n \in Runs : correct[n] = 100
  <2> DEFINE b == 100
  <2>1. correct \in [Runs -> 0..b] /\ b \in Nat
    BY <1>3
  <2>2. SumFunction(correct) >= b * Cardinality(Runs)
    BY <1>1, <1>6, <1>10
  <2>3. IsFiniteSet(Runs)
    BY <1>1
  <2>4. AtMost(correct, Runs, b)
    <3> HIDE DEF correct, b
    <3> QED BY <2>1, <2>3 DEF AtMost
  <2>5. \A n \in Runs : correct[n] = b
    <3> HIDE DEF correct, b
    <3> QED BY <2>2, <2>4, SumBounded
  <2> QED BY <2>5
<1>12. Total(outs, "failed") = Total(marked, "failed")
  <2>1. [n \in Runs |-> outs[n]["failed"]] = failed
    BY <1>3
  <2>2. DOMAIN outs = Runs
    OBVIOUS
  <2> QED BY <1>6, <2>1, <2>2 DEF Total
<1> QED BY <1>3, <1>10, <1>11, <1>12

\* An accepted submission was correct in every run and dropped fewer than six
\* orders per run on average, for every number of runs and whatever they
\* measured: rounding the averages down in processPretestMessage hides no
\* incorrect run.
THEOREM AcceptedMeansEveryRun == Spec => AcceptedCoversRuns
<1>1. ASSUME TypeInv
      PROVE  [\A e \in Evals : \A outs \in [Runs -> Results], baseline \in Baselines :
                Finish(e, outs, baseline) /\ row' = "Accepted"
                => /\ \A n \in Runs : outs[n].correctness = 100
                   /\ Total(outs, "failed") < 6 * k]_vars
  <2>1. k \in Ks
    BY <1>1 DEF TypeInv, Deployed
  <2> QED BY <2>1, FinishAccepted
<1> QED BY <1>1, TypeAlways, PTL DEF AcceptedCoversRuns
=============================================================================
