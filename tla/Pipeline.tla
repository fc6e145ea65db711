------------------------------ MODULE Pipeline ------------------------------
(***************************************************************************)
(* The submission pipeline: the gateway inserts a row and queues a build,  *)
(* compiler workers build an image and queue a test, testing workers run   *)
(* the test and write the verdict, and an administrator's system-test      *)
(* trigger queues completed submissions again.  The stages communicate     *)
(* through three Redis streams, each with one consumer group, and share    *)
(* the status column of PostgreSQL's submissions table.                    *)
(*                                                                         *)
(* Every call to Redis or PostgreSQL is a step of its own, so a worker     *)
(* process may crash, and any other process may run, between two calls.    *)
(* Verdict texts, scores, images and logs are left out: only the outcome   *)
(* of a build or of a test run matters here.                               *)
(***************************************************************************)
EXTENDS Naturals, FiniteSets

CONSTANTS
    Submissions,    \* submission ids (uuids chosen by the gateway)
    MockSubs,       \* those sent by the dashboard's mock button (no arena)
    SystestSubs,    \* mock submissions that ask for is_systest = true
    Users,
    UserOf,         \* the user a submission is ranked under
    Loops,          \* stream-reading loops of all worker processes
    Processes,      \* worker processes
    ProcOf,         \* the process a loop runs in
    QueueOf,        \* the stream a loop reads
    Admins,         \* goroutines running triggerSystemTestsForArena
    MaxRetries,     \* common.MaxRetries
    MaxFaults,      \* bound on failing Redis/PostgreSQL calls
    MaxCrashes,     \* bound on worker-process crashes
    MaxTriggers,    \* bound on system-test triggers
    NoMsg           \* a loop that holds no message

Queues == {"compilation", "pretest", "systest"}

ASSUME ConstantsAssumption ==
    /\ MockSubs \subseteq Submissions
    /\ SystestSubs \subseteq MockSubs
    /\ UserOf \in [Submissions -> Users]
    /\ ProcOf \in [Loops -> Processes]
    /\ QueueOf \in [Loops -> Queues]
    /\ MaxRetries \in Nat
    /\ MaxFaults \in Nat
    /\ MaxCrashes \in Nat
    /\ MaxTriggers \in Nat
    /\ IsFiniteSet(Admins)

\* A stream entry; ids grow by one per XADD on a stream.
Entry == [id : Nat, sub : Submissions, retry : Nat]

ASSUME NoMsgAssumption == NoMsg \notin Entry

\* The consumer name of a process that is gone: a restarted process picks a
\* fresh name, so nobody reads under the old one.
Dead == "dead"

ASSUME DeadAssumption == Dead \notin Processes

VARIABLES
    status,   \* submissions.status, "none" before the row exists
    gw,       \* the gateway's progress with a submission request
    stream,   \* stream[q]: entries present in the stream
    top,      \* top[q]: id of the youngest entry ever added
    last,     \* last[q]: the group's last-delivered id
    pel,      \* pel[q]: the group's pending entries with their owner
    dlq,      \* submissions with an entry in dead_letter_queue
    pc, msg,  \* per loop: next step and the message being processed
    todo,     \* per admin: rows selected and not yet reset
    handed,   \* per admin: the row reset and not yet queued (at most one)
    faults, crashes, triggers

vars == <<status, gw, stream, top, last, pel, dlq, pc, msg, todo, handed,
          faults, crashes, triggers>>
redisVars  == <<stream, top, last, pel, dlq>>
workerVars == <<pc, msg>>
adminVars  == <<todo, handed, triggers>>

Statuses == {"none", "queued", "building", "built", "running",
             "completed", "failed"}
Terminal == {"completed", "failed"}

\* Steps of a message handler, named for the call that comes next.
PCs == {"idle", "mark", "work", "requeue", "done", "publish", "queuefail",
        "reject", "ack", "del", "dlqack", "dlqdel", "giveup", "hung"}

TypeOK ==
    /\ status \in [Submissions -> Statuses]
    /\ gw \in [Submissions -> {"new", "inserted", "failing", "accepted",
                               "rejected"}]
    /\ stream \in [Queues -> SUBSET Entry]
    /\ top \in [Queues -> Nat]
    /\ last \in [Queues -> Nat]
    /\ pel \in [Queues -> SUBSET [entry : Entry, owner : Processes \cup {Dead}]]
    /\ dlq \in SUBSET Submissions
    /\ pc \in [Loops -> PCs]
    /\ msg \in [Loops -> Entry \cup {NoMsg}]
    /\ todo \in [Admins -> SUBSET Submissions]
    /\ handed \in [Admins -> SUBSET Submissions]
    /\ faults \in 0..MaxFaults
    /\ crashes \in 0..MaxCrashes
    /\ triggers \in 0..MaxTriggers

-----------------------------------------------------------------------------
(* Calls.  A call either works or fails; a failing XADD may still have     *)
(* reached the server (a lost reply), a failing UPDATE that did is the     *)
(* same as one that works, because no caller looks at its error.           *)

Works == UNCHANGED faults
Fails == faults < MaxFaults /\ faults' = faults + 1

Added(q, s, r) ==
    /\ stream' = [stream EXCEPT ![q] =
                    @ \cup {[id |-> top[q] + 1, sub |-> s, retry |-> r]}]
    /\ top' = [top EXCEPT ![q] = @ + 1]

XAddOK(q, s, r)  == Works /\ Added(q, s, r)
XAddErr(q, s, r) == Fails /\ (Added(q, s, r) \/ UNCHANGED <<stream, top>>)

SetStatus(s, st) == status' = [status EXCEPT ![s] = st]
Update(s, st) ==
    \/ Works /\ SetStatus(s, st)
    \/ Fails /\ UNCHANGED status

\* XREADGROUP with id ">" delivers the oldest entry above the last one.
Undelivered(q) == {e \in stream[q] : e.id > last[q]}
Pending(q) == {p.entry : p \in pel[q]}

Goto(l, next) == pc' = [pc EXCEPT ![l] = next]
Finish(l) == Goto(l, "idle") /\ msg' = [msg EXCEPT ![l] = NoMsg]

IsCompiler(l) == QueueOf[l] = "compilation"

-----------------------------------------------------------------------------
(* Gateway: handleSubmission and handleMockSubmission.                     *)

\* INSERT INTO submissions ... 'queued'.  A failing insert is answered with
\* 500; the row may be there all the same when only the reply was lost.
InsertSubmission(s) ==
    /\ gw[s] = "new"
    /\ \/ /\ Works
          /\ SetStatus(s, "queued")
          /\ gw' = [gw EXCEPT ![s] = "inserted"]
       \/ /\ Fails
          /\ SetStatus(s, "queued") \/ UNCHANGED status
          /\ gw' = [gw EXCEPT ![s] = "rejected"]
    /\ UNCHANGED <<redisVars, workerVars, adminVars, crashes>>

QueueBuild(s) ==
    /\ gw[s] = "inserted"
    /\ \/ /\ XAddOK("compilation", s, 0)
          /\ gw' = [gw EXCEPT ![s] = "accepted"]
       \/ /\ XAddErr("compilation", s, 0)
          /\ gw' = [gw EXCEPT ![s] = "failing"]
    /\ UNCHANGED <<status, last, pel, dlq, workerVars, adminVars, crashes>>

\* The queue is unreachable: mark the row failed and answer 500.
FailQueueing(s) ==
    /\ gw[s] = "failing"
    /\ Update(s, "failed")
    /\ gw' = [gw EXCEPT ![s] = "rejected"]
    /\ UNCHANGED <<redisVars, workerVars, adminVars, crashes>>

\* The gateway dies: open requests are never answered, running triggers stop.
GatewayCrash ==
    /\ Fails
    /\ \/ \E s \in Submissions : gw[s] \in {"inserted", "failing"}
       \/ \E a \in Admins : todo[a] \cup handed[a] # {}
    /\ gw' = [s \in Submissions |->
                IF gw[s] \in {"inserted", "failing"} THEN "rejected" ELSE gw[s]]
    /\ todo' = [a \in Admins |-> {}]
    /\ handed' = [a \in Admins |-> {}]
    /\ UNCHANGED <<status, redisVars, workerVars, triggers, crashes>>

-----------------------------------------------------------------------------
(* Gateway: triggerSystemTestsForArena, run by handleUpdateArena and       *)
(* handleRejudgeArena.                                                     *)

\* Mutant of BestPerUser: the query forgets "status = 'completed'".
BestPerUserAnyStatus(S) ==
    LET C == {s \in Submissions \ MockSubs : gw[s] = "accepted"}
    IN  /\ S \subseteq C
        /\ \A u \in {UserOf[s] : s \in C} :
             Cardinality({s \in S : UserOf[s] = u}) = 1

\* One completed submission per user of the arena; which one is best by
\* verdict and score is left open.
BestPerUser(S) ==
    LET C == {s \in Submissions \ MockSubs : status[s] = "completed"}
    IN  /\ S \subseteq C
        /\ \A u \in {UserOf[s] : s \in C} :
             Cardinality({s \in S : UserOf[s] = u}) = 1

SelectBest(a) ==
    /\ triggers < MaxTriggers
    /\ todo[a] = {} /\ handed[a] = {}
    /\ \E S \in SUBSET Submissions :
         /\ S # {}
         /\ BestPerUser(S)
         /\ todo' = [todo EXCEPT ![a] = S]
    /\ triggers' = triggers + 1
    /\ UNCHANGED <<status, gw, redisVars, workerVars, handed, faults, crashes>>

\* UPDATE ... SET status = 'queued', verdict = 'Pending', scores = 0; a row
\* whose reset fails is skipped.
ResetForSystest(a) ==
    /\ handed[a] = {}
    /\ \E s \in todo[a] :
         /\ todo' = [todo EXCEPT ![a] = @ \ {s}]
         /\ \/ /\ Works
               /\ SetStatus(s, "queued")
               /\ handed' = [handed EXCEPT ![a] = {s}]
            \/ /\ Fails
               /\ UNCHANGED <<status, handed>>
    /\ UNCHANGED <<gw, redisVars, workerVars, triggers, crashes>>

\* XADD to the system-test stream; a failure is only logged.
QueueSystest(a) ==
    /\ \E s \in handed[a] :
         XAddOK("systest", s, 0) \/ XAddErr("systest", s, 0)
    /\ handed' = [handed EXCEPT ![a] = {}]
    /\ UNCHANGED <<status, gw, last, pel, dlq, workerVars, todo, triggers,
                   crashes>>

-----------------------------------------------------------------------------
(* Worker loops: compiler main/processMessage, testing startWorkerLoop/    *)
(* processPretestMessage.                                                  *)

\* Mutant of ReadGroup: NOACK, so the entry never enters the pending list.
ReadGroupNoAck(l) ==
    LET q == QueueOf[l] IN
    /\ pc[l] = "idle"
    /\ \E e \in Undelivered(q) :
         /\ \A f \in Undelivered(q) : e.id <= f.id
         /\ last' = [last EXCEPT ![q] = e.id]
         /\ msg' = [msg EXCEPT ![l] = e]
    /\ Goto(l, "mark")
    /\ UNCHANGED <<status, gw, stream, top, pel, dlq, adminVars, faults, crashes>>

\* XREADGROUP GROUP g consumer COUNT 1 STREAMS q ">".
ReadGroup(l) ==
    LET q == QueueOf[l] IN
    /\ pc[l] = "idle"
    /\ \E e \in Undelivered(q) :
         /\ \A f \in Undelivered(q) : e.id <= f.id
         /\ last' = [last EXCEPT ![q] = e.id]
         /\ pel' = [pel EXCEPT ![q] =
                      @ \cup {[entry |-> e, owner |-> ProcOf[l]]}]
         /\ msg' = [msg EXCEPT ![l] = e]
    /\ Goto(l, "mark")
    /\ UNCHANGED <<status, gw, stream, top, dlq, adminVars, faults, crashes>>

\* Mutant of MarkStarted: the status the dashboard's disabled check expects.
MarkCompiling(l) ==
    /\ pc[l] = "mark"
    /\ Update(msg[l].sub, IF IsCompiler(l) THEN "compiling" ELSE "running")
    /\ Goto(l, "work")
    /\ UNCHANGED <<gw, redisVars, msg, adminVars, crashes>>

\* Status 'building' or 'running'; a failing UPDATE is only logged.
MarkStarted(l) ==
    /\ pc[l] = "mark"
    /\ Update(msg[l].sub, IF IsCompiler(l) THEN "building" ELSE "running")
    /\ Goto(l, "work")
    /\ UNCHANGED <<gw, redisVars, msg, adminVars, crashes>>

\* BuildImage on a Docker host, by the step that fails: an error is tried
\* again, while a text for the contestant rejects the submission, an overdue
\* build included.
BuildImage(step) ==
    CASE step \in {"workspace", "download", "tag", "push"} -> "requeue"
      [] step \in {"clone", "extract", "build", "deadline"} -> "reject"
      [] OTHER -> "done"

\* The same in Kubernetes, where a Kaniko job fetches, builds and pushes: any
\* failure of the job is the contestant's, a worker told to stop is not.
buildImageWithKaniko(step) ==
    CASE step \in {"config", "create", "shutdown"} -> "requeue"
      [] step \in {"job", "deadline"} -> "reject"
      [] OTHER -> "done"

BuildSteps == {"workspace", "download", "clone", "extract", "build", "deadline",
               "tag", "push", "config", "create", "shutdown", "job"}

\* The image is built, or the K runs of the bot fleet take place.  A RunFleet
\* whose bots wait for each other never returns.
DoWork(l) ==
    /\ pc[l] = "work"
    /\ \/ /\ IsCompiler(l)
          /\ \E step \in BuildSteps \cup {"none"} :
               Goto(l, BuildImage(step)) \/ Goto(l, buildImageWithKaniko(step))
       \/ /\ ~IsCompiler(l)
          /\ \E next \in {"done", "requeue", "hung"} : Goto(l, next)
    /\ UNCHANGED <<status, gw, redisVars, msg, adminVars, faults, crashes>>

\* Mutants of ShouldRetry: the last retry is neither queued again nor
\* dead-lettered; the row goes back to 'queued'.
ShouldRetryOffByOne(l) ==
    LET q == QueueOf[l]
        s == msg[l].sub
        r == msg[l].retry
    IN
    /\ pc[l] = "requeue"
    /\ IF r + 1 < MaxRetries THEN XAddOK(q, s, r + 1)
                             ELSE UNCHANGED <<stream, top, faults>>
    /\ Goto(l, IF r < MaxRetries THEN "ack" ELSE "dlqack")
    /\ UNCHANGED <<status, gw, last, pel, dlq, msg, adminVars, crashes>>

ShouldRetryRequeuesRow(l) ==
    /\ pc[l] = "requeue"
    /\ msg[l].retry < MaxRetries
    /\ XAddOK(QueueOf[l], msg[l].sub, msg[l].retry + 1)
    /\ SetStatus(msg[l].sub, "queued")
    /\ Goto(l, "ack")
    /\ UNCHANGED <<gw, last, pel, dlq, msg, adminVars, crashes>>

\* ShouldRetry up to its AckAndDel: XADD with retry_count + 1, or XADD to
\* dead_letter_queue when the retries are used up.  The XADD's error is
\* ignored either way.
ShouldRetry(l) ==
    LET q == QueueOf[l]
        s == msg[l].sub
        r == msg[l].retry
    IN
    /\ pc[l] = "requeue"
    /\ \/ /\ r < MaxRetries
          /\ XAddOK(q, s, r + 1) \/ XAddErr(q, s, r + 1)
          /\ Goto(l, "ack")
          /\ UNCHANGED dlq
       \/ /\ r >= MaxRetries
          /\ \/ Works /\ dlq' = dlq \cup {s}
             \/ Fails /\ UNCHANGED dlq
          /\ Goto(l, "dlqack")
          /\ UNCHANGED <<stream, top>>
    /\ UNCHANGED <<status, gw, last, pel, msg, adminVars, crashes>>

\* The status a finished build or test run leaves behind.
RecordResult(l) ==
    /\ pc[l] = "done"
    /\ Update(msg[l].sub, IF IsCompiler(l) THEN "built" ELSE "completed")
    /\ Goto(l, IF IsCompiler(l) THEN "publish" ELSE "ack")
    /\ UNCHANGED <<gw, redisVars, msg, adminVars, crashes>>

\* The is_systest field of the message decides.
TargetQueue(s) == IF s \in SystestSubs THEN "systest" ELSE "pretest"

Publish(l) ==
    LET s == msg[l].sub IN
    /\ pc[l] = "publish"
    /\ \/ XAddOK(TargetQueue(s), s, 0) /\ Goto(l, "ack")
       \/ XAddErr(TargetQueue(s), s, 0) /\ Goto(l, "queuefail")
    /\ UNCHANGED <<status, gw, last, pel, dlq, msg, adminVars, crashes>>

\* failSubmission(..., "Queue Failure", ...): the message is not acknowledged.
FailPublish(l) ==
    /\ pc[l] = "queuefail"
    /\ Update(msg[l].sub, "failed")
    /\ Finish(l)
    /\ UNCHANGED <<gw, redisVars, adminVars, crashes>>

\* Mutant of RejectBuild: the message is acknowledged, the row not updated.
RejectBuildSilently(l) ==
    /\ pc[l] = "reject"
    /\ Goto(l, "ack")
    /\ UNCHANGED <<status, gw, redisVars, msg, adminVars, faults, crashes>>

\* failSubmission(..., "Build Error" or "Build Timeout", ...).
RejectBuild(l) ==
    /\ pc[l] = "reject"
    /\ Update(msg[l].sub, "failed")
    /\ Goto(l, "ack")
    /\ UNCHANGED <<gw, redisVars, msg, adminVars, crashes>>

\* After the dead-letter queue: failSubmission("System Failure") and return,
\* or failPretest("Runtime Failure") and AckAndDel once more.
GiveUp(l) ==
    /\ pc[l] = "giveup"
    /\ Update(msg[l].sub, "failed")
    /\ IF IsCompiler(l) THEN Finish(l) ELSE Goto(l, "ack") /\ UNCHANGED msg
    /\ UNCHANGED <<gw, redisVars, adminVars, crashes>>

Acked(l) == pel' = [pel EXCEPT ![QueueOf[l]] = {p \in @ : p.entry # msg[l]}]

\* AckAndDel, first call: XACK.  On error XDEL is skipped and the error is
\* dropped by every caller.
Ack(l) ==
    /\ pc[l] \in {"ack", "dlqack"}
    /\ \/ /\ Works
          /\ Acked(l)
          /\ Goto(l, IF pc[l] = "ack" THEN "del" ELSE "dlqdel")
          /\ UNCHANGED msg
       \/ /\ Fails
          /\ Acked(l) \/ UNCHANGED pel
          /\ IF pc[l] = "ack" THEN Finish(l)
                              ELSE Goto(l, "giveup") /\ UNCHANGED msg
    /\ UNCHANGED <<status, gw, stream, top, last, dlq, adminVars, crashes>>

\* AckAndDel, second call: XDEL.
Del(l) ==
    /\ pc[l] \in {"del", "dlqdel"}
    /\ \/ Works /\ stream' = [stream EXCEPT ![QueueOf[l]] = @ \ {msg[l]}]
       \/ Fails /\ UNCHANGED stream
    /\ IF pc[l] = "del" THEN Finish(l) ELSE Goto(l, "giveup") /\ UNCHANGED msg
    /\ UNCHANGED <<status, gw, top, last, pel, dlq, adminVars, crashes>>

-----------------------------------------------------------------------------
(* Failure and recovery of worker processes.                               *)

\* A process is killed and restarted under a fresh consumer name: what its
\* loops were doing is gone, what it owned stays pending under the old name.
Crash(p) ==
    LET mine == {l \in Loops : ProcOf[l] = p} IN
    /\ crashes < MaxCrashes
    /\ \E l \in mine : pc[l] # "idle"
    /\ crashes' = crashes + 1
    /\ pc' = [l \in Loops |-> IF l \in mine THEN "idle" ELSE pc[l]]
    /\ msg' = [l \in Loops |-> IF l \in mine THEN NoMsg ELSE msg[l]]
    /\ pel' = [q \in Queues |->
                 {[entry |-> r.entry,
                   owner |-> IF r.owner = p THEN Dead ELSE r.owner] :
                     r \in pel[q]}]
    /\ UNCHANGED <<status, gw, stream, top, last, dlq, adminVars, faults>>

\* StartPELRecovery's tick: XCLAIM an entry that has been pending for too
\* long.  The entry changes owner; nothing reads the claimed message.
ClaimStale(p, q) ==
    /\ \E l \in Loops : ProcOf[l] = p /\ QueueOf[l] = q
    /\ \E r \in pel[q] :
         /\ r.owner # p
         /\ pel' = [pel EXCEPT ![q] =
                      (@ \ {r}) \cup {[entry |-> r.entry, owner |-> p]}]
    /\ UNCHANGED <<status, gw, stream, top, last, dlq, workerVars, adminVars,
                   faults, crashes>>

-----------------------------------------------------------------------------
Init ==
    /\ status = [s \in Submissions |-> "none"]
    /\ gw = [s \in Submissions |-> "new"]
    /\ stream = [q \in Queues |-> {}]
    /\ top = [q \in Queues |-> 0]
    /\ last = [q \in Queues |-> 0]
    /\ pel = [q \in Queues |-> {}]
    /\ dlq = {}
    /\ pc = [l \in Loops |-> "idle"]
    /\ msg = [l \in Loops |-> NoMsg]
    /\ todo = [a \in Admins |-> {}]
    /\ handed = [a \in Admins |-> {}]
    /\ faults = 0 /\ crashes = 0 /\ triggers = 0

Gateway(s) == InsertSubmission(s) \/ QueueBuild(s) \/ FailQueueing(s)

Trigger(a) == SelectBest(a) \/ ResetForSystest(a) \/ QueueSystest(a)

\* What a message handler does between reading a message and finishing it.
Handle(l) ==
    \/ MarkStarted(l) \/ DoWork(l) \/ ShouldRetry(l) \/ RecordResult(l)
    \/ Publish(l) \/ FailPublish(l) \/ RejectBuild(l) \/ GiveUp(l)
    \/ Ack(l) \/ Del(l)

Next ==
    \/ \E s \in Submissions : Gateway(s)
    \/ GatewayCrash
    \/ \E a \in Admins : Trigger(a)
    \/ \E l \in Loops : ReadGroup(l) \/ Handle(l)
    \/ \E p \in Processes : Crash(p)
    \/ \E p \in Processes, q \in Queues : ClaimStale(p, q)

Spec == Init /\ [][Next]_vars

\* Every process keeps taking its next step (the Go scheduler, blocking reads
\* that return); nothing forces a request, a trigger, a crash or a fault.
Fairness ==
    /\ \A s \in Submissions : WF_vars(QueueBuild(s) \/ FailQueueing(s))
    /\ \A a \in Admins : WF_vars(ResetForSystest(a) \/ QueueSystest(a))
    /\ \A l \in Loops : WF_vars(ReadGroup(l) \/ Handle(l))
    /\ \A p \in Processes : WF_vars(\E q \in Queues : ClaimStale(p, q))

FairSpec == Spec /\ Fairness

-----------------------------------------------------------------------------
(* Properties.                                                             *)

\* Somebody can still find submission s: it is judged, or the gateway has
\* not promised anything yet, or a trigger is about to queue it, or an entry
\* for it is undelivered, pending or dead-lettered.
Traceable(s) ==
    \/ status[s] \in Terminal
    \/ gw[s] # "accepted"
    \/ s \in dlq
    \/ \E a \in Admins : s \in handed[a]
    \/ \E q \in Queues : \E e \in Undelivered(q) \cup Pending(q) : e.sub = s

\* "No submission can silently vanish" (README.md:670): an accepted and
\* unjudged submission always has an entry in some stream, whatever calls
\* fail.  The ignored XADD error in ShouldRetry (services/common/retry.go:40)
\* and the ignored UPDATE error before AckAndDel (services/testing/main.go:
\* 481) break it.
NoSubmissionVanishes == \A s \in Submissions : Traceable(s)

\* As long as no call to Redis or PostgreSQL failed, no crash of a worker,
\* between whichever two of its calls, makes an accepted submission vanish:
\* every handler adds the next entry or writes the verdict before its XACK.
NoLossWithoutFault == faults = 0 => NoSubmissionVanishes

\* The submissions that one fault can cost: the gateway takes every running
\* trigger with it when it dies.
MaxLoss == IF Admins = {} THEN 1 ELSE Cardinality(Admins)

\* One failing call costs at most one submission, and a crash of the gateway
\* one for each trigger that is running: no handler lets a failed call on one
\* submission take the entry of another one with it, and a trigger has at most
\* one row that is reset and not queued yet.
LossBoundedByFaults ==
    Cardinality({s \in Submissions : ~Traceable(s)}) <= faults * MaxLoss

\* A loop that is still going to write the status of its submission.
WillWrite(l) == pc[l] \notin {"idle", "ack", "del"}

\* Without failing calls, and with one system-test trigger at a time, no two
\* loops ever judge the same submission concurrently, although retries,
\* crashes and XCLAIM all leave second entries for it in the streams.
SingleWriter ==
    (faults = 0 /\ Cardinality(Admins) <= 1) =>
        \A l, m \in Loops :
            (l # m /\ WillWrite(l) /\ WillWrite(m)) => msg[l].sub # msg[m].sub

Lifecycle == INSTANCE SubmissionLifecycle

\* Without failing calls, the interleaved writes of gateway, workers and
\* triggers to the status column add up to the published life cycle: a
\* status never moves backwards, and a verdict changes by rejudging only.
RefinesLifecycle == Lifecycle!Spec

\* An entry for s is pending and no loop is working on it.
Orphaned(s) ==
    \E q \in Queues : \E e \in Pending(q) :
        e.sub = s /\ \A l \in Loops : ~(QueueOf[l] = q /\ msg[l] = e)

Unjudged(s) == gw[s] = "accepted" /\ status[s] \notin Terminal

\* A loop of stream q never returns from RunFleet.
Stuck(q) == \E l \in Loops : QueueOf[l] = q /\ pc[l] = "hung"

\* Every accepted submission is judged in the end, through all retries of
\* ShouldRetry and all rejudging, unless a crash left its entry pending with
\* nobody working on it or after the hand-over to the dead-letter queue, or a
\* worker loop is stuck in RunFleet.
JudgedOrOrphaned ==
    \A s \in Submissions :
        Unjudged(s) ~> \/ status[s] \in Terminal
                       \/ Orphaned(s) \/ s \in dlq
                       \/ Stuck("pretest") \/ Stuck("systest")

\* "StartPELRecovery periodically claims messages that have been pending in
\* the stream for longer than maxPendingAge and re-delivers them to the group"
\* (services/common/pel_recovery.go:11): after a crash the orphaned entry is
\* processed again, so every accepted submission is judged in the end unless
\* a worker loop is stuck.
PendingRedelivered ==
    \A s \in Submissions :
        Unjudged(s) ~> \/ status[s] \in Terminal
                       \/ Stuck("pretest") \/ Stuck("systest")
=============================================================================
