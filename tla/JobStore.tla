------------------------------ MODULE JobStore ------------------------------
(***************************************************************************)
(* The master of the bot fleet (bot-fleet/main.go): the job store in       *)
(* memory, its write-through copy in Redis, the goroutine handleRun starts *)
(* for a job, the shards of runDistributed (bot-fleet/runner.go), the      *)
(* telemetry consumer, DELETE /cancel, and restarts of the master.         *)
(*                                                                         *)
(* A Run is one accepted POST /run.  A client names its job, so two runs   *)
(* may use one identifier.  Workers are modelled by what the master sees:  *)
(* the end of the shard's stream and the WORKER_DONE record.               *)
(***************************************************************************)
EXTENDS Naturals, FiniteSets

CONSTANTS
    Jobs,                   \* identifiers
    MaxRuns,                \* bound: POST /run calls, numbered as accepted
    Cancels,                \* DELETE /cancel calls
    NumWorkers,             \* len(masterCfg.WorkerAddresses)
    NumBots,                \* per job: cfg.NumBots
    MaxFaults,              \* bound: restarts and failed HSets
    None                    \* no job, no run, no write

ASSUME JobStoreAssumption ==
    /\ NumWorkers \in Nat \ {0}
    /\ NumBots \in [Jobs -> Nat \ {0}]
    /\ MaxFaults \in Nat
    /\ MaxRuns \in Nat

VARIABLES
    mem,        \* jobStore: per identifier the Job, with the run it belongs to
    redis,      \* the hash "jobs"
    row,        \* per identifier: the run whose report is in the submissions row
    rdb,        \* the master is connected to Redis
    job,        \* per run: its identifier
    pc,         \* per run: where its goroutine is
    done,       \* runs whose jobCtx ended before runDistributed returned
    left,       \* per run: the shards whose stream has not ended
    errs,       \* runs with a failed shard
    cons,       \* per run: the consumer is "none", "open" or "closed"
    workersDone,    \* per run: WORKER_DONE records counted, up to NumWorkers
    out,        \* per call: the HSet of replaceJob that is still to be made
    snap,       \* per cancel: the Job it read
    cpc,        \* per cancel: where it is
    early,      \* history: runs whose jobCtx was done before their shards were
    contested,  \* history: identifiers cancelled or submitted again
    unsaved,    \* history: identifiers with a lost or overtaken HSet
    faults

storeVars == <<mem, redis, row, rdb>>
shardVars == <<left, errs>>
runVars   == <<job, pc, done, shardVars, cons, workersDone>>
histVars  == <<early, contested, unsaved, faults>>
vars == <<storeVars, runVars, out, snap, cpc, histVars>>

Runs    == 1..MaxRuns
Workers == 0..(NumWorkers - 1)
Active  == {"pending", "running"}
NoJob   == [status |-> "none", run |-> None]
Job     == [status : Active \cup {"completed", "aborted"},
            run : Runs \cup {None}]
Live    == {"pending", "running", "shards", "telemetry", "completing"}

\* None is no run, and no HSet to be made.
ASSUME NoneAssumption == None \notin Runs /\ None \notin [id : Jobs, job : Job]

TypeOK ==
    /\ mem \in [Jobs -> Job \cup {NoJob}]
    /\ redis \in [Jobs -> Job \cup {NoJob}]
    /\ row \in [Jobs -> Runs \cup {None}]
    /\ rdb \in BOOLEAN
    /\ job \in [Runs -> Jobs \cup {None}]
    /\ pc \in [Runs -> Live \cup {"free", "ended", "dead"}]
    /\ done \subseteq Runs
    /\ left \in [Runs -> 0..NumWorkers] /\ errs \subseteq Runs
    /\ cons \in [Runs -> {"none", "open", "closed"}]
    /\ workersDone \in [Runs -> 0..NumWorkers]
    /\ out \in [Runs \cup Cancels -> {None} \cup [id : Jobs, job : Job]]
    /\ snap \in [Cancels -> Job \cup {NoJob}]
    /\ cpc \in [Cancels -> {"free", "checked", "replace", "replied"}]
    /\ early \subseteq Runs
    /\ contested \subseteq Jobs /\ unsaved \subseteq Jobs
    /\ faults \in 0..MaxFaults

-----------------------------------------------------------------------------
(* Sharding the bots (runDistributed, buildShardBots).                     *)

botsPerWorker(j) == NumBots[j] \div NumWorkers

\* The last worker gets the remainder.
shardSize(j, w) ==
    botsPerWorker(j) + IF w = NumWorkers - 1 THEN NumBots[j] % NumWorkers ELSE 0

\* Mutant: the offset counts the worker's own shard size.
botIDOffsetBySize(j, w) == w * shardSize(j, w)

botIDOffset(j, w) == w * botsPerWorker(j)

\* The NumericIDs buildShardBots gives: offset + 1, offset + 2, ...
BotIDs(j, w) == (botIDOffset(j, w) + 1)..(botIDOffset(j, w) + shardSize(j, w))

-----------------------------------------------------------------------------
(* The store.                                                              *)

\* Mutant: only settled jobs are written through.
ReplaceSettledOnly(a, j, new) ==
    /\ out[a] = None
    /\ mem' = [mem EXCEPT ![j] = new]
    /\ out' = [out EXCEPT ![a] = IF rdb /\ new.status \notin Active
                                THEN [id |-> j, job |-> new] ELSE None]
    /\ unsaved' =
         IF ~rdb \/ \E b \in DOMAIN out : out[b] # None /\ out[b].id = j
         THEN unsaved \cup {j} ELSE unsaved

\* The first half of replaceJob, under the lock, by call a.  The HSet comes
\* after the unlock; meanwhile another call may replace the job again.
Replace(a, j, new) ==
    /\ out[a] = None
    /\ mem' = [mem EXCEPT ![j] = new]
    /\ out' = [out EXCEPT ![a] = IF rdb THEN [id |-> j, job |-> new] ELSE None]
    /\ unsaved' =
         IF ~rdb \/ \E b \in DOMAIN out : out[b] # None /\ out[b].id = j
         THEN unsaved \cup {j} ELSE unsaved

\* The second half: best-effort, the error is only logged.
HSet(a) ==
    /\ out[a] # None
    /\ out' = [out EXCEPT ![a] = None]
    /\ \/ /\ redis' = [redis EXCEPT ![out[a].id] = out[a].job]
          /\ UNCHANGED <<unsaved, faults>>
       \/ /\ faults < MaxFaults
          /\ faults' = faults + 1
          /\ unsaved' = unsaved \cup {out[a].id}
          /\ UNCHANGED redis
    /\ UNCHANGED <<mem, row, rdb, runVars, snap, cpc, early, contested>>

\* jobCtx of r ends, which only the streams of its shards notice.
EndContext(r) ==
    LET working == pc[r] \in {"pending", "running", "shards"} IN
    /\ done' = IF working THEN done \cup {r} ELSE done
    /\ early' = IF working /\ left[r] > 0 THEN early \cup {r} ELSE early

-----------------------------------------------------------------------------
(* POST /run: the handler and its goroutine.                               *)

handleRun(r, j) ==
    /\ pc[r] = "free" /\ \A q \in 1..(r - 1) : pc[q] # "free"
    /\ Replace(r, j, [status |-> "pending", run |-> r])
    /\ job' = [job EXCEPT ![r] = j]
    /\ pc' = [pc EXCEPT ![r] = "pending"]
    /\ contested' = IF mem[j] = NoJob THEN contested ELSE contested \cup {j}
    /\ UNCHANGED <<redis, row, rdb, done, shardVars, cons, workersDone, snap, cpc,
                   early, faults>>

\* A copy of the run's own Job with a new status, and the next step.
Becomes(r, status, next) ==
    /\ Replace(r, job[r], [status |-> status, run |-> r])
    /\ pc' = [pc EXCEPT ![r] = next]
    /\ UNCHANGED <<redis, row, rdb, job, cons, workersDone, snap, cpc, early,
                   contested, faults>>

Start(r) ==
    /\ pc[r] = "pending"
    /\ Becomes(r, "running", "running")
    /\ UNCHANGED <<done, shardVars>>

\* buildBots, NewConsumer (which may fail: no telemetry) and the shards.
Launch(r) ==
    /\ pc[r] = "running" /\ out[r] = None
    /\ pc' = [pc EXCEPT ![r] = "shards"]
    /\ \E c \in {"none", "open"} : cons' = [cons EXCEPT ![r] = c]
    /\ UNCHANGED <<storeVars, job, done, shardVars, workersDone, out, snap, cpc,
                   histVars>>

\* recover(): the job is aborted.  Its log line takes the first eight characters
\* of the id: for a shorter id it panics again and the master is restarted,
\* which is Restart.
Panic(r) ==
    /\ pc[r] = "running"
    /\ Becomes(r, "aborted", "ended")
    /\ UNCHANGED <<done, shardVars>>

\* Mutant: after an error the goroutine goes on and responds again.
ShardEndsTwice(r) ==
    /\ pc[r] = "shards" /\ (left[r] > 0 \/ r \in errs)
    /\ left' = [left EXCEPT ![r] = @ - 1]
    /\ errs' = errs \cup {r}
    /\ UNCHANGED <<storeVars, job, pc, done, cons, workersDone, out, snap, cpc,
                   histVars>>

\* The stream of a shard ends, with the final result unless the context or
\* the connection is gone.  The worker has published WORKER_DONE before,
\* unless its probe failed or it has no producer; the record goes to one
\* consumer of the group master-<job>, if one has joined.
ShardEnds(r) ==
    /\ pc[r] = "shards" /\ left[r] > 0
    /\ left' = [left EXCEPT ![r] = @ - 1]
    /\ \/ r \notin done /\ UNCHANGED errs
       \/ errs' = errs \cup {r}
    /\ \/ \E q \in Runs :
            /\ job[q] = job[r] /\ cons[q] = "open"
            /\ workersDone[q] < NumWorkers
            /\ workersDone' = [workersDone EXCEPT ![q] = @ + 1]
       \/ UNCHANGED workersDone
    /\ UNCHANGED <<storeVars, job, pc, done, cons, out, snap, cpc, histVars>>

\* runDistributed has returned: nothing looks at jobCtx any more.
Returned(r) ==
    /\ done' = done \ {r}
    /\ errs' = errs \ {r}
    /\ UNCHANGED left

\* runDistributed returns an error if any shard failed; a final result that
\* is not yet read when the context ends may be lost.
Abort(r) ==
    /\ pc[r] = "shards" /\ left[r] = 0
    /\ r \in errs \cup done
    /\ Becomes(r, "aborted", "ended")
    /\ Returned(r)

\* Mutant: the failures of single shards are only logged.
CollectAny(r) ==
    /\ pc[r] = "shards" /\ left[r] = 0
    /\ pc' = [pc EXCEPT ![r] = "telemetry"]
    /\ Returned(r)
    /\ UNCHANGED <<storeVars, job, cons, workersDone, out, snap, cpc, histVars>>

\* runDistributed returns the merged report; wg.Wait() begins.
Collect(r) ==
    /\ pc[r] = "shards" /\ left[r] = 0
    /\ r \notin errs
    /\ pc' = [pc EXCEPT ![r] = "telemetry"]
    /\ Returned(r)
    /\ UNCHANGED <<storeVars, job, cons, workersDone, out, snap, cpc, histVars>>

\* Mutant: the comparison with the number of workers is off by one.
ConsumeReturnsLate(r) ==
    /\ cons[r] = "open" /\ workersDone[r] > NumWorkers
    /\ cons' = [cons EXCEPT ![r] = "closed"]
    /\ UNCHANGED <<storeVars, job, pc, done, shardVars, workersDone, out, snap,
                   cpc, histVars>>

\* Consume returns after the quiet period, once it has counted a WORKER_DONE
\* for every worker.  Its context does not end it.
ConsumeReturns(r) ==
    /\ cons[r] = "open" /\ workersDone[r] = NumWorkers
    /\ cons' = [cons EXCEPT ![r] = "closed"]
    /\ UNCHANGED <<storeVars, job, pc, done, shardVars, workersDone, out, snap, cpc,
                   histVars>>

Complete(r) ==
    /\ pc[r] = "telemetry" /\ cons[r] # "open"
    /\ Becomes(r, "completed", "completing")
    /\ UNCHANGED <<done, shardVars>>

\* The UPDATE of the submissions row, which may fail; jobCancel() ends a
\* context that nobody looks at.
Finish(r) ==
    /\ pc[r] = "completing" /\ out[r] = None
    /\ pc' = [pc EXCEPT ![r] = "ended"]
    /\ row' \in {row, [row EXCEPT ![job[r]] = r]}
    /\ UNCHANGED <<mem, redis, rdb, job, done, shardVars, cons, workersDone, out,
                   snap, cpc, histVars>>

\* The fifteen minutes of jobCtx are over (setting up the run takes seconds).
Timeout(r) ==
    /\ pc[r] = "shards" /\ r \notin done
    /\ EndContext(r)
    /\ UNCHANGED <<storeVars, job, pc, shardVars, cons, workersDone, out, snap, cpc,
                   contested, unsaved, faults>>

-----------------------------------------------------------------------------
(* DELETE /cancel/:jobID, in three steps: read and check, cancel, replace. *)

CancelChecks(c, j) ==
    /\ cpc[c] = "free"
    /\ mem[j].status = "running"
    /\ cpc' = [cpc EXCEPT ![c] = "checked"]
    /\ snap' = [snap EXCEPT ![c] = mem[j]]
    /\ UNCHANGED <<storeVars, runVars, out, histVars>>

CancelCancels(c) ==
    /\ cpc[c] = "checked"
    /\ cpc' = [cpc EXCEPT ![c] = "replace"]
    /\ EndContext(snap[c].run)
    /\ UNCHANGED <<storeVars, job, pc, shardVars, cons, workersDone, out, snap,
                   contested, unsaved, faults>>

CancelReplaces(c) ==
    LET j == job[snap[c].run] IN
    /\ cpc[c] = "replace"
    /\ Replace(c, j, [status |-> "aborted", run |-> snap[c].run])
    /\ cpc' = [cpc EXCEPT ![c] = "replied"]
    /\ snap' = [snap EXCEPT ![c] = NoJob]
    /\ contested' = contested \cup {j}
    /\ UNCHANGED <<redis, row, rdb, runVars, early, faults>>

-----------------------------------------------------------------------------
(* The master dies and is started again.                                   *)

\* Mutant: only running jobs count as zombies.
SanitizedRunning(entry) ==
    CASE entry = NoJob -> NoJob
      [] entry.status = "running" -> [status |-> "aborted", run |-> None]
      [] OTHER -> [entry EXCEPT !.run = None]

\* Mutant: every job found in Redis counts as a zombie.
SanitizedAll(entry) ==
    IF entry = NoJob THEN NoJob ELSE [status |-> "aborted", run |-> None]

\* rehydrateFromRedis: an active job lost its goroutine, so it is aborted.
\* Nothing of the run survives in the rehydrated Job but its status.
Sanitized(entry) ==
    CASE entry = NoJob -> NoJob
      [] entry.status \in Active -> [status |-> "aborted", run |-> None]
      [] OTHER -> [entry EXCEPT !.run = None]

\* The new master connects to Redis or runs without it, and reads the hash or
\* knows no job; the write-back of a sanitized job may fail unnoticed.
Restart ==
    LET zombies  == {j \in Jobs : redis[j].status \in Active}
        unflushed == {j \in Jobs : \E a \in DOMAIN out :
                                     out[a] # None /\ out[a].id = j}
    IN
    /\ faults < MaxFaults
    /\ faults' = faults + 1
    /\ rdb' \in BOOLEAN
    /\ \/ /\ rdb'
          /\ mem' = [j \in Jobs |-> Sanitized(redis[j])]
          /\ \E fixed \in SUBSET zombies :
               /\ redis' = [j \in Jobs |-> IF j \in fixed THEN mem'[j] ELSE redis[j]]
               /\ unsaved' = unsaved \cup unflushed \cup (zombies \ fixed)
       \/ /\ mem' = [j \in Jobs |-> NoJob]
          /\ unsaved' = Jobs
          /\ UNCHANGED redis
    /\ out' = [a \in DOMAIN out |-> None]
    /\ pc' = [r \in Runs |-> IF pc[r] \in Live \cup {"ended"} THEN "dead" ELSE pc[r]]
    /\ cons' = [r \in Runs |-> "none"]
    /\ cpc' = [c \in Cancels |-> IF cpc[c] = "free" THEN "free" ELSE "replied"]
    /\ snap' = [c \in Cancels |-> NoJob]
    /\ done' = {} /\ errs' = {}
    /\ left' = [r \in Runs |-> NumWorkers]
    /\ workersDone' = [r \in Runs |-> 0]
    /\ UNCHANGED <<row, job, early, contested>>

-----------------------------------------------------------------------------
Init ==
    /\ mem = [j \in Jobs |-> NoJob] /\ redis = mem
    /\ row = [j \in Jobs |-> None]
    /\ rdb \in BOOLEAN
    /\ job = [r \in Runs |-> None]
    /\ pc = [r \in Runs |-> "free"]
    /\ done = {}
    /\ left = [r \in Runs |-> NumWorkers] /\ errs = {}
    /\ cons = [r \in Runs |-> "none"]
    /\ workersDone = [r \in Runs |-> 0]
    /\ out = [a \in Runs \cup Cancels |-> None]
    /\ snap = [c \in Cancels |-> NoJob]
    /\ cpc = [c \in Cancels |-> "free"]
    /\ early = {} /\ contested = {} /\ unsaved = {}
    /\ faults = 0

RunStep(r) ==
    \/ \E j \in Jobs : handleRun(r, j)
    \/ Start(r) \/ Launch(r) \/ Panic(r)
    \/ ShardEnds(r)
    \/ Abort(r) \/ Collect(r) \/ ConsumeReturns(r) \/ Complete(r) \/ Finish(r)
    \/ Timeout(r)

CancelStep(c) ==
    \/ \E j \in Jobs : CancelChecks(c, j)
    \/ CancelCancels(c)
    \/ CancelReplaces(c)

Next ==
    \/ \E r \in Runs : RunStep(r)
    \/ \E c \in Cancels : CancelStep(c)
    \/ \E a \in Runs \cup Cancels : HSet(a)
    \/ Restart

Spec == Init /\ [][Next]_vars

\* Goroutines are scheduled, a shard ends (its context is bounded by fifteen
\* minutes) and the quiet period elapses.  Nothing forces a client to act.
Fairness ==
    \A r \in Runs :
        /\ WF_vars(Start(r) \/ Launch(r) \/ Abort(r) \/ Collect(r)
                   \/ Complete(r) \/ Finish(r) \/ HSet(r))
        /\ WF_vars(ShardEnds(r))
        /\ WF_vars(ConsumeReturns(r))

FairSpec == Spec /\ Fairness

-----------------------------------------------------------------------------
(* Properties.                                                             *)

\* An entry of jobStore is pending or running only while the goroutine of its
\* own run is alive and still has to replace it: neither a panic, nor a
\* cancel, nor a second run of the identifier, nor a restart over what Redis
\* holds leaves a job that is active forever (and whose cancel is nil).
NoZombieJob ==
    \A j \in Jobs : mem[j].status \in Active =>
        /\ mem[j].run \in Runs
        /\ job[mem[j].run] = j
        /\ pc[mem[j].run] \in Live \ {"completing"}

\* A run whose context ended while one of its shards was running settles
\* aborted: its report is not in the store, in Redis or in the submissions row.
EarlyEndAborts ==
    \A r \in early :
        /\ \A j \in Jobs : /\ mem[j] # [status |-> "completed", run |-> r]
                           /\ redis[j] # [status |-> "completed", run |-> r]
                           /\ row[j] # r
        /\ pc[r] \notin {"telemetry", "completing"}

\* Once the calls for a job have made their HSets, Redis holds what the store
\* holds, except after a failed HSet or one that overtook another.
RedisFollows ==
    rdb => \A j \in Jobs \ unsaved :
        (\A a \in DOMAIN out : out[a] = None \/ out[a].id # j)
            => redis[j].status = mem[j].status

\* The shards of a job hold every bot 1..NumBots exactly once, whether or not
\* the number of workers divides it: OrderIDs, which contain the bot's number,
\* are unique across workers.
ShardsPartitionBots ==
    \A r \in Runs : pc[r] = "shards" =>
        /\ UNION {BotIDs(job[r], w) : w \in Workers} = 1..NumBots[job[r]]
        /\ \A v, w \in Workers :
             v # w => BotIDs(job[r], v) \cap BotIDs(job[r], w) = {}

\* What handleStatus shows of the store implements JobLifecycle.
Status(j) == mem[j].status

Lifecycle == INSTANCE JobLifecycle
    WITH status <- [j \in Jobs |-> Status(j)],
         contested <- contested \cup unsaved

ImplementsLifecycle == Lifecycle!Spec

\* An accepted run ends, unless it waits for the WORKER_DONE of a worker that
\* did not publish one: then it stays running until it is cancelled.
RunsEnd ==
    (\E r \in Runs : pc[r] = "pending") ~>
    (\A r \in Runs : \/ pc[r] \in {"free", "ended", "dead"}
                     \/ /\ pc[r] = "telemetry" /\ cons[r] = "open"
                        /\ workersDone[r] < NumWorkers)
=============================================================================
