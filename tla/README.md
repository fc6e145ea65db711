# A TLA+ model of BenchGrid

BenchGrid judges contestants' matching engines: a submission is built into an
image, run in a sandbox, bombarded with orders by a fleet of bots, checked by a
shadow order book and ranked. This directory models the parts of that system
whose correctness depends on several processes or goroutines, and the matching
and judging rules on which all of them agree; checks them with TLC; and proves
the most important invariants with TLAPS.

## 1. Inventory

| Part | State | Operations | Talks to |
|---|---|---|---|
| Gateway intake (`services/gateway/main.go`, `dashboard_handlers.go`) | `submissions` rows | `handleSubmission`, `handleMockSubmission`, `handleCleanDB` | PostgreSQL, S3, `compilation_queue` |
| System-test trigger (`arena.go`) | result set of a query, row in hand | `handleUpdateArena`, `handleRejudgeArena`, `triggerSystemTestsForArena` | PostgreSQL, `systest_queue` |
| Stream primitives (`services/common`) | three Redis streams, one consumer group each, dead-letter stream | `InitRedisQueues`, `AckAndDel`, `ShouldRetry`, `StartPELRecovery` | Redis |
| Compiler worker (`services/compiler`) | one message at a time | `processMessage`, `BuildImage` | reads `compilation_queue`, writes `pretest_queue` or `systest_queue` |
| Testing worker (`services/testing/main.go`) | one message per loop, two loops per process | `startWorkerLoop`, `processPretestMessage`, `startContestantSandbox`, `startContestantSandboxK8s`, the sweepers | Redis, PostgreSQL, Docker or Kubernetes |
| `RunFleet` (`services/testing/runner.go`) | bots, sockets, `eventChan`, two wait groups, an errgroup, a jitter buffer | bot runners, receivers, consumer, closer | the engine under test, the validator |
| Bot fleet (`bot-fleet/runner.go`, `worker_node.go`, `bot.go`) | pending table, send times, results per bot | `runDistributed`, `RunShard`, `runFleet`, `runBot` | gRPC, the engine, Kafka |
| Fleet telemetry (`bot-fleet/telemetry`) | Kafka topic, jitter buffer, counters | `Publish*`, `Consume`, `drainJitterBuffer`, `flushRemainingBuffer` | Kafka, the validator |
| Fleet job store (`bot-fleet/main.go`) | map of jobs, Redis hash `jobs` | `handleRun`, `handleCancel`, `replaceJob`, `rehydrateFromRedis` | Redis |
| Shadow validator (`bot-fleet/shadow`) | reference book, expected and reported fills | `ProcessOrder`, `ProcessAck`, `ProcessFill`, `GetCorrectnessScore` | called by RunFleet and the consumer |
| Verdict and scoring (`verdict.go`, `pkg/scoring`) | none | `EvaluateVerdict`, scoring curves | called by the testing worker |
| Leaderboard stream (`gateway/main.go`) | subscriber channels of capacity 4 | `subscribe`, `unsubscribe`, `broadcast` | browsers (SSE) |
| Rate limiter, authentication, dashboard, front end, metrics, S3, seccomp, generated code | | | |

What is hard here: crashes of a worker between two of its Redis and PostgreSQL
calls; calls whose errors are dropped; an entry that is pending under a dead
consumer's name; four writers of one status column; bots that wait for each
other at a barrier while an engine dies; reports of one engine sequence that
arrive over many sockets or Kafka partitions; workers that never send their
end marker; three goroutines that take orders out of one table; a job replaced
by a handler, its goroutine and a restarted master; sandboxes that share a name
across evaluations. The list with source lines is `hazards` in `PROJECT.json`.

What makes each part correct:

- pipeline: an accepted submission is never lost, is judged by one worker at a
  time, follows the published life cycle, and is judged in the end;
- RunFleet: the validator sees every report, in engine order, and the call
  returns;
- telemetry: the same for the distributed fleet, with a finite wait;
- validator: its book is the engine's, an honest engine scores 100, one wrong
  or missing fill costs points, and cleanup hides neither;
- bot: every order is counted once, as sent or as failed, and the bot ends;
- job store: it keeps the published life cycle of a job, leaves no job active
  without a goroutine, and Redis holds what memory holds;
- evaluation: a run keeps its sandbox, every sandbox is reclaimed, and the
  verdict stands for all runs;
- leaderboard: a subscriber that keeps reading sees the latest board.

## 2. Modules

| Module | Models |
|---|---|
| `SubmissionLifecycle` | abstract: the transitions of `submissions.status` a client may observe |
| `Pipeline` | gateway, trigger, compiler and testing workers, Redis streams; implements `SubmissionLifecycle` |
| `PipelineProofs` | theorems about `Pipeline`: type correctness, what can be lost, who writes a status, the refinement of `SubmissionLifecycle` |
| `RunFleet` | the goroutines of one `RunFleet` call |
| `RunFleetProofs` | theorems about `RunFleet` |
| `Telemetry` | publishing workers, Kafka, the master's consumer |
| `Validator` | the shadow order book, expected fills and the correctness score, as operators on the state of a shard |
| `ReferenceEngine` | the matching of the reference engine `test_payloads/go_optimized`, as operators on its book |
| `Judging` | bots, the reference engine and the validator together (composes the two above) |
| `JudgingProofs` | theorems about `Judging` and the operators of `Validator` and `ReferenceEngine` |
| `FoldTheorems` | what a fold and a sum over a finite set or sequence satisfies: the lemmas the other proof modules rest on |
| `BotRun` | the goroutines of one bot of a fleet worker |
| `JobLifecycle` | abstract: what `GET /status` promises of a job |
| `JobStore` | the fleet master: job store, Redis copy, shards, cancel, restart; implements `JobLifecycle` |
| `Verdict` | thresholds, verdict, averaging over K runs, as operators |
| `Evaluation` | the evaluations of one submission with their sandboxes, and the sweeper (uses `Verdict`) |
| `TelemetryProofs`, `BotRunProofs`, `JobStoreProofs`, `EvaluationProofs` | theorems about these modules |
| `MCPipeline`, `MCRunFleet`, `MCTelemetry`, `MCJudging`, `MCBotRun`, `MCJobStore`, `MCEvaluation` | the instances TLC checks |

Definitions named after a code identifier model it; definitions whose comment
starts with "Mutant of" are deliberate errors used to test that the properties
can fail, and no specification refers to them.

### 2.1 Pipeline

One action per call to Redis or PostgreSQL, because a crash or another process
can come between any two calls. A handler's position is `pc[l]`, named for the
call that comes next; `msg[l]` is the message in hand. A loop `l` belongs to a
process (a testing worker has two loops) and reads one stream.

| Code | Actions |
|---|---|
| `handleSubmission`, `handleMockSubmission` | `InsertSubmission`, `QueueBuild`, `FailQueueing` |
| `triggerSystemTestsForArena` | `SelectBest`, `ResetForSystest`, `QueueSystest` |
| `XREADGROUP ... ">"` of both workers | `ReadGroup` |
| `processMessage`, `processPretestMessage` | `MarkStarted`, `DoWork`, `RecordResult`, `Publish`, `FailPublish`, `RejectBuild`, `GiveUp` |
| `ShouldRetry` | `ShouldRetry`, then `Ack`, `Del` (`dlqack`, `dlqdel` before `GiveUp`) |
| `AckAndDel` | `Ack`, `Del` |
| `StartPELRecovery` | `ClaimStale` |
| process death | `Crash`, `GatewayCrash` |

A stream is a set of numbered entries; a group keeps the last delivered number
and its pending entries with their owner. A failing XADD, XACK or INSERT may
have reached the server (a lost reply) or not. Verdicts, scores, images and
logs are left out. A build is its outcome: built, rejected, or a system error,
by the step of `BuildImage` or of its Kaniko variant that fails; a test run is its outcome: results, an error, or a `RunFleet` that never
returns, which section 2.2 shows to be possible. The early returns for
malformed messages are unreachable for the messages this system writes.
Graceful shutdown, which makes all calls fail with a cancelled context, is a
sequence of faults.

`SubmissionLifecycle` is instantiated with the same `status`, so the
refinement mapping is the identity on that column: what has to be shown is
that every interleaving of the four writers is a sequence of allowed
transitions. With failing calls it is not (a skipped `UPDATE` lets a status
jump), so the run that checks it has `MaxFaults = 0`.

### 2.2 RunFleet

Runner, receiver, consumer, closer and caller are separate goroutines in the
code and separate groups of actions here. `sendLoopsDone` is the set `arrived`,
`botRunnersDone` is `AllReturned`, the errgroup is `failed` and `cancelled`,
`gctx.Done()` is `CtxDone`. `Consume` is one iteration of the consumer's select
loop with its whole draining loop; `Flush` is one iteration of the final drain.
A send on the closed channel is a panic, which ends the process. The adapter is
the TCP one; the WS, REST and FIX adapters are not modelled. The engine
answers, fills across connections and crashes at any moment;
`SharedFillIds` is whether it gives both reports of a match the same number, as
`cpp_basic` does (`main.cpp:194-199`). The jitter buffer is keyed by that
number, so of two such reports one takes the other's place, or comes when
`nextSeqID` has passed it; that is what `run_fleet_shared` shows, and why
`ReceivedProcessed` speaks of engines that number every report.

### 2.3 Telemetry

A bot sends one order. The sender writes it and afterwards publishes
`ORDER_SENT`; the receiver publishes an acknowledgement for a pending order,
and for a fill of a pending order an acknowledgement and a fill with the same
number. Whether an order is a cancel, which is never registered as pending, is
a choice of `Write`. `topic[o]` keeps the order of one key, and records of
different keys are fetched in any order. `joined` is the moment the consumer
group has its offsets: earlier records are never fetched. A worker ends by
publishing its marker, by failing to, or without trying when its probe fails.
`Drain` and `Flush` are one iteration of their loops, so that a loop that never
ends is a behaviour. `Advanced` stops `nextSeqID` at `MaxSeq + 1`, where no
event can have the number any more.

### 2.4 Validator, ReferenceEngine and Judging

Every method of the validator holds the shard's lock, so it is an operator from
the shard's state to its next state: `ProcessOrder`, `ProcessAck`,
`ProcessFill`, `matchIncoming`, `removeRestingOrder`, `checkCleanup`,
`GetCorrectnessScore` (with its cleanup loop, `CleanedUp`). A price level is a sequence, the red-black tree a
function from prices. `FullScore` says that all terms of the score are full;
the weighted sum itself is floating-point arithmetic. The engine is modelled
from `go_optimized`, whose book is two sorted slices: the two were written
independently, and `BooksAgree` compares them order by order.

`Judging` puts them together on two paths. In a pretest a bot tells the
validator of an order before it sends it and the consumer deduplicates
acknowledgements (`acceptedOrders`); reports may be lost or falsified
(`Misreport`); that its consumer restores the engine's order is the subject of
`RunFleet`. In the distributed fleet three things differ:

- `ORDER_SENT` is published after the write, so an answer may be consumed first
  (`ConsumeOrderSent` against `ConsumeEvent`);
- a bot publishes an acknowledgement only if its order is still pending
  (`withheld`; second case of `HandleMessage`), while fills are always
  published;
- the jitter buffer passes over the number of a delayed report when it holds
  `jitterGapThreshold` others (`PassOver`), and hands it over after all workers
  are done, before what still waits behind a gap (`flushRemainingBuffer`).

A fleet cancel names an id of its own; the engine rejects it, and all that is
left of it is the gap at its number, behind which reports wait. `ConsumeEvent`
may wait at any time, and `PassOver` counts the waiting reports, so the gap
needs no state of its own. The reference engine acknowledges an order on its
connection before it fills it, so that the bot's extra acknowledgement for a
fill of a pending order (`runner.go:558`) does not occur here; `Telemetry` has
it.

What the model makes visible: each of the three costs the fleet path points
although the engine did nothing wrong. `FleetScoresUnlessDisturbed` says exactly
when: an acknowledgement came before its order was known (`unknownAcks`); an
order traded whose acknowledgement was withheld; or the flush came with an
acknowledgement after a later one, or with a fill after a later one of the same
order (`overtaken`). TLC refutes the property without any one of the three
exceptions; a report that is late in any other way costs nothing. Besides, an
engine that answers nothing is expected to fill nothing and is stopped by the
failed-order count, not by its correctness; `phantomFills` and `missedFills` are
never incremented.

### 2.5 BotRun

Sender, receiver and control goroutine share the pending table. One action per
access to it: `SenderSets`, `SenderWrites`, `ReceiverReads`,
`failExpiredPending`, and `failAllPending` in two, the length
(`ReceiverStops`, `ControlStops`) and the clear (`ReceiverClears`,
`ControlClears`). A result sent to `latencyCh` counts at once, because the
collector drains the channel until all three are gone. The table's 16 shards
are taken as one: `len` and `clear` are each one step. The engine answers any
order it has read, repeatedly and with any status, sends frames that report on
nothing, stops reading, or breaks the connection; how many frames it sends is
not bounded.

The control goroutine closes the connection of a bot that is finished only when
no frame has come for `fillDrainGrace` (`runner.go:632`). `quiet` says that this
time has passed: `GraceElapses` sets it, every frame resets it. `BotEnds`
therefore names two engines that hold a bot until its context ends: one that
stops reading while the sender writes, and one that never stops sending frames.
TLC refutes it without either exception. `NextOrder` has the three strategies
the fleet's shards are built with; `progressBasedOrder`, its default, is not
reached from them.

Cancels are neither entered nor counted, so `sent + failed` is
`OrdersToSend - cancels`: the comparison `OrdersFailed == OrdersToSend` in
`runFleet` cannot recognise a dead engine for strategies that cancel. Their
cancels carry fresh order IDs, which no engine knows.

### 2.6 JobStore

| Code | Actions |
|---|---|
| `handleRun` and its goroutine | `handleRun`, `Start`, `Launch`, `Panic`, `Abort`, `Collect`, `Complete`, `Finish` |
| `replaceJob` | `Replace` under the lock, then `HSet` |
| `runDistributed` | `shardSize`, `botIDOffset`, `ShardEnds`, `Collect` |
| `Consume` of the telemetry consumer | `ConsumeReturns` |
| `jobCtx` | `Timeout`, `EndContext` |
| `handleCancel` | `CancelChecks`, `CancelCancels`, `CancelReplaces` |
| `initRedis`, `rehydrateFromRedis` | `Restart` |

A run is one accepted request; the client chooses the identifier, so two runs
may share one, and with it the consumer group `master-<job>`. Refinement
mapping: the abstract `status` is the status in memory, and a job is
*contested* once it was cancelled, its identifier was submitted again, or one
of its writes to Redis failed or was overtaken. The life cycle is promised for
jobs that are not contested. For the others the code promises nothing: a cancel
that comes between the last shard and `Complete` is answered "aborted" and then
overwritten by "completed".

### 2.7 Verdict and Evaluation

`Evaluation` is about the handler calls for one submission. A sandbox is named
after the submission and the run's index, so a pretest, a system test, a retry
or a redelivery use the same names. Docker calls name a container by its ID,
except for the removal before the creation; Kubernetes calls name the pod, and
a deleted pod lingers (`going`). Both platforms are initial states of the same
model. `cancelled` is the errgroup's context, `shut` the worker's;
`aged` says which sandboxes are older than the sweeper's timeout. `lost` records
the removals that failed and why: by themselves (`"fault"`), or because they
were made in a context that was done (`"context"`). The removal after a failed
start is the one that uses the run's own context; that context is live unless
another run failed before or the worker is stopping, because the run's own error
ends it only when the run returns. A call has its effect or returns an error,
never both.

| Code | Actions |
|---|---|
| `processPretestMessage` | `Begin`, `RunFleet`, `Finish`, `FinishUnwritten`, `FinishErr` |
| `startContestantSandbox` | `RemoveOldContainer`, `CreateContainer`, `StartContainer`, `CreateFails`, `StartContainerFails` |
| `startContestantSandboxK8s` | `RemoveOldPod`, `CreatePod`, `PodRunning`, `CreateFails`, `PodFails` |
| cleanup of a run | `CleanupContainer`, `CleanupPod`, `CleanupFails` |
| `startDockerSweeper`, `startK8sSweeper` | `Age`, `ListContainers`, `ListPods`, `SweepContainer`, `SweepPod`, `SweepFails` |
| signal, kill | `Shutdown`, `Crash` |

The start chooses Kubernetes when both `KUBERNETES_SERVICE_HOST` and
`REGISTRY_URL` are set, the cleanup looks at the first one only; the model
takes deployments in which they agree. With the default `K_RUNS = 1` the
standard deviation is 0 and the stability bonus always granted; scores are not
modelled. The averages forget that the runs were a system test
(`testing/main.go:434` sets no `IsSystest`), so the verdict of a system test is
decided by the pretest's rule of more than five failed orders, and not by the
failure rate of 0.1 % that `ARCHITECTURE_BLUEPRINT.md:245` gives; `Aggregate` has
it as the code does. The code averages correctness and the final TPS in floating
point and the model rounds them down: a correctness below 100 stays below 100,
and the final TPS is off by less than one order per second.

## 3. Runs

Deadlock checking is off in all of them: a pipeline without requests, a
finished `RunFleet`, consumer, bot or evaluation, and a master without jobs may
stop.

| Run | Result | What it shows |
|---|---|---|
| `pipeline_faults` | pass, 1.4 M states | any one failing call, at any place, costs at most one submission; a gateway that dies, one per running trigger |
| `pipeline_crashes` | pass, 0.2 M states | two crashes anywhere: nothing lost, one writer per submission, the life cycle is implemented, everything judged unless orphaned or hung |
| `pipeline_vanish` | violation | `README.md:670` "No submission can silently vanish" |
| `pipeline_redeliver` | violation | `pel_recovery.go:11` "re-delivers them to the group" |
| `run_fleet` | pass, 82 k states | reports complete and in order; returns unless the barrier is broken |
| `run_fleet_crash` | violation | `DESIGN_SECTIONS.md:249` "`g.Wait()` completes" after an engine crash |
| `run_fleet_shared` | violation | `ARCHITECTURE_BLUEPRINT.md:286`, both fills of a match for the validator, with an engine that numbers them alike |
| `telemetry` | pass, 1.6 M states | drained in order, everything fetched is counted, finishes unless flooded |
| `judging` | pass, 3.5 M states | validator and engine keep the same book, an honest engine scores 100, in the fleet but for three disturbances, and one wrong or missing fill costs points |
| `job_store` | pass, 0.85 M states | the job life cycle is implemented; no zombie jobs; a run cut short is never reported as completed; Redis follows; shards partition the bots; runs end |
| `bot_run` | pass, 0.43 M states | each order counted once when undisturbed and never lost otherwise; the bot ends unless the engine stops reading or never stops sending |
| `evaluation` | pass, 0.53 M states | who can take a sandbox away, which are left behind, all are reclaimed, what "Accepted" says of K runs |

A telemetry buffer flooded with as many stale events as the threshold never
drains (`consumer.go:184`); that is the exception in `FinishesUnlessFlooded`.

### Bounds

- Pipeline: `MaxRetries = 1` instead of 3 gives a first attempt, a retry and
  the dead-letter path. The faults run has a contest submission and a mock
  submission that takes the system-test route; one fault suffices for
  `LossBoundedByFaults` to be tight and two submissions for a handler to hit
  the wrong one. The crash run has two compilers, so that a retry can be
  taken by another worker while the first one is between XADD and XACK, and two
  crashes, so that the recovery itself can be hit.
- RunFleet: two bots are what the barrier and the reordering need; capacity 1
  makes the channel full after one report; three numbers allow a fill (two
  reports) and an answer, with every gap. `run_fleet_crash` needs no report.
- Telemetry: one worker with the bots of two orders, a threshold of 2 instead
  of 100 and three numbers: the buffer reaches the threshold with the smallest
  number missing, which then arrives late.
- Judging: three orders, two of one bot and one of another, two prices, a
  quantity of two: partial fills, two makers for one taker, a self-cross in
  front of a foreign order, price and time priority. One cancel may come before
  or after the trade, one report may be lost or falsified. In the fleet one
  acknowledgement may be withheld and one report at a time be late, which is
  what each exception of `FleetScoresUnlessDisturbed` needs, and both may
  happen in one behaviour; without these two bounds the same properties hold of
  the instance's 7.2 M states, in a longer run. The threshold is 2 instead of
  100.
- BotRun: three orders: one can be answered twice while another expires and a
  third is in the sender's hand. At most two frames are under way at a time
  (`MaxWire`); how many there are in all is not bounded.
- JobStore: two runs of one identifier and one cancel are enough for all three
  writers of a job; two workers do not divide three bots; one fault is a failed
  HSet or a restart.
- Evaluation: two evaluations with one run, or one with two runs
  (`MaxSandboxes = 2`); one call that fails by itself, besides cancelled
  contexts, crashes and shutdowns, which are not bounded. Results are a clean
  run, one with wrong fills, and one that is slow, slowing down and drops eight
  orders.

### Fairness

- Pipeline: weak fairness of each process's next call (blocking calls return),
  of the trigger and of the claim tick. Nothing forces a request, a crash or a
  fault. A testing loop in `hung` has no next step.
- RunFleet: weak fairness of each goroutine, which the Go scheduler gives;
  dials and writes have deadlines. Nothing is assumed of the engine.
- Telemetry: weak fairness of the consumer loop only. The quiet period ends
  when no record of any job arrives for three seconds, so this describes a
  master whose other jobs are not publishing for ever.
- BotRun: weak fairness of the three goroutines (the ticker ticks, a pending
  order expires), and `fillDrainGrace` passes while no frame is under way.
  Nothing is assumed of the engine or the context.
- JobStore: weak fairness of a run's goroutine, of its shards (a worker's run
  is bounded by its context) and of the consumer. No restart, cancel or timeout
  has to happen, and no WORKER_DONE has to arrive.
- Evaluation: time passes, Kubernetes completes deletions, and some worker's
  sweeper keeps ticking: it is one process that lists and then sweeps what it
  listed. The evaluations may stop anywhere. At most one sweep
  fails, within `MaxFaults`: a sweep that fails for ever reclaims nothing.

## 4. Proofs

All theorems hold for all values of the constants under the assumptions named
in the modules: `ConstantsAssumption` (among them that the triggers are a finite
set), `NoMsgAssumption`, `DeadAssumption`; `FleetAssumption`;
`TelemetryAssumption`; `BotAssumption`; `JobStoreAssumption`, `NoneAssumption`
(the value "nothing to write" is neither a run nor a write);
`EvaluationAssumption` (a run's results are `Measurements`: natural numbers, and
a correctness between 0 and 100);
`ValidatorAssumption` (finitely many orders and prices, positive prices and
quantities, an order belongs to one bot) and `JudgingAssumption`. They fix the
types of the constants and bound none of them. TLC evaluates them in the runs,
and it checked the inductive invariants below on the instances of the runs
before they were proved, except for `AccountInv` of section 4.8, which
quantifies over all accounts; of it TLC checked the consequences.

Eight modules hold theorems and lemmas: the seven of sections 4.1 and 4.3 to
4.8, and `FoldTheorems`, from which the last two take induction. The library
states induction with an operator as a parameter, which the provers cannot
instantiate; `FoldTheorems` states it with a set `T` of the objects that have
the property (`NatsInduction`, `SubsetInduction`, `FoldStays`, `SeqFoldCourse`),
which they can. From it come the facts about `FoldSet`, `FoldLeft` and
`SumFunction` that the model's loops and sums are written with.

### 4.1 PipelineProofs

- `TypeCorrect`: `TypeInv` adds to `TypeOK` that a loop that is not idle holds a
  message.
- `NoLoss` (`NoLossWithoutFault`). The invariant `LossInv` consists of
  `TypeInv`; `StreamIds` (no entry is numbered above `top` and none twice, and
  nothing above `top` was delivered, so a fresh entry is undelivered);
  `HeldEntries` (the entry in a loop's hand was delivered to that loop only and
  is pending until the handler releases it); `OneHanded` (a trigger has at most
  one row between its UPDATE and its XADD); and `AllCovered` (as long as no
  call failed, every accepted and unjudged submission is in a trigger's hand,
  dead-lettered, or has an entry that is undelivered or `Kept`: pending, and in
  no handler that is about to acknowledge it). `Kept` is the strengthening:
  `Traceable` alone also counts an entry that the next XACK removes, and is
  not inductive; the handler must have added the next entry or written a final
  status before it comes to its XACK.
- `EachFaultLosesOne` (`LossBoundedByFaults`). The invariant `LossBound` counts
  the submissions that are not `Covered`: a step
  adds to that set only if it is a fault (`FaultsCounted`), a failed call at
  most one (`OneUncovered`), the death of the gateway what its triggers have in
  hand (`CrashUncovers`). The attempt
  to prove the bound "one submission per fault" failed, and rightly: the
  triggers are goroutines of the gateway, so that a gateway that dies takes one
  row from each of them (`arena.go:359`, UPDATE before XADD). The run, with one
  trigger, could not show it; an instance with two did. `MaxLoss` states the
  bound that holds.

### 4.2 PipelineProofs: writers and life cycle

- `OneWriter` (`SingleWriter`) and `ImplementsLifecycle` (`RefinesLifecycle`, as
  long as the behaviour is `Quiet`: no call failed and one trigger at a time).
  Neither is inductive. `WriterInv` says where a submission is: with exactly one
  party (`Alone`): the gateway, a trigger, one undelivered entry, or one loop
  that is still going to write; and that its status is one that this party may
  find (`Fits`). An entry that is pending under a dead or finished consumer is
  nobody's: it is never delivered again, which is why a crash leaves a
  submission with no writer rather than two, and why the same fact refutes
  `pel_recovery.go`'s comment in the run `pipeline_redeliver`. Given `Fits`,
  each write of the status column is a transition of the abstract
  specification, one lemma per handler step.

### 4.3 RunFleetProofs

- `TypeCorrect`: `TypeInv` adds that unanswered and unsent orders of a bot
  together do not exceed `OrdersToSend`.
- `EngineOrder` (`ProcessedInEngineOrder`): every processed report has a smaller
  number than any report processed later. The invariant is `NextIsAhead`: what
  has been processed is below `nextSeqID`.
- `NothingDropped` (`ReceivedProcessed`): a run that is scored has processed
  every report that reached `eventChan`, if the engine gives no two reports one
  number, a condition that is part of the property. The invariant follows a report through its
  places (wire, receiver, channel, buffer, validator): its number occurs once
  (`NumberedOnce`), a delivered report is in exactly one of channel, buffer and
  `processed` (`ChanReports`, `Conserved`), numbers in the buffer are never
  below `nextSeqID` before the consumer returns, so the final drain cannot give
  up early (`Draining`), and the consumer of a run without error and
  cancellation returned with everything empty (`Shutdown`).

### 4.4 TelemetryProofs

- `TypeCorrect`: that `workersDone` stays within the number of workers needs
  `MarkersCounted`: it counts the markers that were read, and a worker
  publishes one, when it ends.
- `JitterBufferSorts` (the action property `DrainsInOrder`), from `Passed`:
  until the final flush everything processed is below `nextSeqID`.
- `FlushCountsAll` (`FetchedCounted`), from `Accounted`: a fetched event is
  processed, in the buffer, or overwritten there, and the buffer of a finished
  consumer is empty.

### 4.5 BotRunProofs

- `TypeCorrect`. That `sent` stays within the number of orders is not inductive:
  it needs `Placed` (where an order can be: the table holds, beyond the passed
  orders, at most the one in the sender's hand) and `SentLeft` (`sent` is at
  most the number of orders the engine has read that have left the table).
- `NeverSentTwice` (`SentOnce`), from `SentLeft`.
- `NoOrderLost` (`NothingLost`). `Counted` balances the books at every step of
  every goroutine: `sent + failed + pending + cancels` is at least what is `Due`
  by the sender's position, and a length read by `failAllPending` bounds the
  table until it is cleared, unless an order was entered in between.
  `LeftOver` says what can be in the table when a goroutine has ended.
- `CountIsExact` (`ExactWhenUndisturbed`), from the same balance as an equation
  (`Undisturbed`) as long as context and connection live.

### 4.6 JobStoreProofs

- `TypeCorrect` and `NoZombies` (`NoZombieJob`): inductive together with `Named`.
- `EveryBotOnce` (`ShardsPartitionBots`): the arithmetic of division and
  remainder in `shardSize` and `botIDOffset`, for every number of bots and
  workers (`TimesMonotone`, `DivMod`, `ShardsPartition`).
- `RedisKeepsUp` (`RedisFollows`). At a moment with an HSet to be made Redis is
  behind; `RedisInv` says by how much: at most one HSet is open for a job
  without lost or overtaken writes, and it carries the status in memory.
- `EarlyEndsAbort` (`EarlyEndAborts`): a run whose context ended early keeps a
  shard that has not ended or has failed (`Doomed`), and a run that has not
  settled has left no report, neither in memory, Redis and the row nor in an
  HSet under way (`Unreported`), across restarts.
- `StoreImplementsLifecycle` (`ImplementsLifecycle`): every step is a step of
  `JobLifecycle` or stutters. `OwnerInv` says what the store holds for an
  uncontested job: the entry of its only run, with the status of that run's
  last write.

### 4.7 EvaluationProofs

- `TypeCorrect`: with `Deployed` and `IdleRuns`.
- `RunsKeepTheirSandbox` (`KeepsSandbox`): inductive together with `Met`, that
  evaluations active at the same time are both recorded as overlapped.
- `LeaksHaveReasons` (`LeaksExplained`): inductive with `TypeInv` and
  `ContextReason`: a context is done only because the worker stops or some run
  has returned an error. The run that fails to start has not returned when it
  removes its container, so a refused removal is another run's doing
  (`ContextStep`), and stays so (`StoppedStays`).
- `AcceptedMeansEveryRun` (the action property `AcceptedCoversRuns`): an
  accepted submission was correct in every run and dropped fewer than six
  orders per run on average. `processPretestMessage` adds up the runs' results
  and divides with rounding; one run below 100 % pulls the rounded average
  below 100 however many runs there are (`SumBounded`), so no number of
  correct runs hides an incorrect one.

### 4.8 JudgingProofs

- `TypeCorrect` and `NoForeignCross` (`OnlySelfCrosses`), whatever reports are
  lost, repeated or falsified. `IInv` adds `Placed`: an order rests at the level
  of its price. The matching loop has its own invariant (`Matched`): it only
  takes orders out of the book or quantity from them (`Thins`), and the makers
  it has passed are gone or the incoming order is filled (`Cleared`), so that
  what rests crosses nobody but its own bot.
- `BooksStayEqual` (`BooksAgree`), `HonestFullScore` (`HonestScoresFull`) and
  `FleetFullScore` (`FleetScoresInOrder`). Two data structures are
  compared, a tree of FIFO levels and two sorted slices, at moments when
  reports are on their way between them.
  1. One order. `Form(v)` is the validator's book as two slices. For equal
     books, the loop over the levels, which skips orders of the same bot, and
     the engine's loop over its slice trade with the same makers, in the same
     order and with the same quantities (`LoopsAgree`), what is left rests at
     the same place (`RestLine`), and so both have the same book afterwards
     (`OrderAgrees`); the same for a cancel (`CancelAgrees`). The fills the
     validator then expects are those the engine reports, trade by trade
     (`FillsAgree`).
  2. Many orders in flight. An *account* is a book with the fills that are due.
     Each report `Moves` an account: an acceptance opens the fills of that
     order, a fill takes the first of them, a cancel removes an order. The
     invariant `AccountInv` says that the reports on their way, in this order,
     move the validator's book and the fills it `Lacks` to the engine's book
     with nothing due (`Judged`), that an order is accepted once and before
     anything else is said of it (`Ordered`), that the ids of a book are
     distinct (`Proper`), that an order in a connection is known to
     the validator or still unpublished, and that a cancel comes behind its
     order (`Sending`). The engine appends to the reports (`SoundEngine`), the
     validator takes the first (`TakeReport`), a bot adds an order
     (`SoundOrder`), a record moves it from unpublished to pending
     (`SoundPublish`).
  3. The score. When nothing is on its way the reported fills are the
     expected ones, order by order. `checkCleanup` has moved an order's fills
     to the counters only in equal amounts on both sides (`CleanupLacks`), and
     equal fills give every term of the score its full value (`EvenScores`).

  On the fleet path the invariant is claimed while no acknowledgement was
  counted as unknown, none was withheld and no report was passed over;
  `AckCounts` shows that the counter never goes down and that each acceptance
  of an order the validator has not been told of raises it. `FleetScoresInOrder`
  is thus weaker than `FleetScoresUnlessDisturbed`, which TLC checks and which
  also covers reports that come late without harm: a proof of it would have to
  commute late reports with those that passed them.

### 4.9 Only model-checked

- All liveness properties (`JudgedOrOrphaned`, `ReturnsUnlessBarrierBroken`,
  `FinishesUnlessFlooded`, `BotEnds`, `RunsEnd`, `SandboxesReclaimed`): the
  prover has no rules for fairness and `ENABLED`.
- `FleetScoresUnlessDisturbed` of `Judging`, beyond the case that 4.8 proves.
- `MisreportCosts` of `Judging`. It is true of one misreport, which is the
  bound of the run, and not of every value of `MaxFaults`: of two misreports
  the second can undo the first (a fill that is reported twice and whose
  second copy is lost), and then the score is rightly full. So it is a claim
  about that bound, not one to prove for all constants.

## 5. Not modelled

- Score curves and archetypes (`pkg/scoring`, the second half of
  `EvaluateVerdict`): floating-point arithmetic without influence on a verdict.
- The leaderboard stream (`ArenaSSEHub`), the rate limiter, `handleCleanDB`,
  the arenas table: small or administrative; the first is next in the plan.
- The WS, REST and FIX adapters of `RunFleet` and the engines that speak them:
  the goroutine structure is that of the TCP adapter.
- Distributions, seeds and rates of order generation, latency histograms, the
  send-time ring buffer: statistical.
- The HTTP layer, upload validation, S3, zip handling, the container calls of
  an image build (its outcome by failing step is in `Pipeline`);
  authentication, dashboard and front end; metrics; generated code.

## 6. Plan

1. `Leaderboard`: hub, bounded channels, snapshot before subscription.
2. `handleCleanDB` in `Pipeline`, and two concurrent triggers in a run.
3. What two or more misreports can hide from the score.
