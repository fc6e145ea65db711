--------------------------- MODULE JobStoreProofs ---------------------------
(***************************************************************************)
(* TLAPS proofs about JobStore, for all jobs, runs, cancels, workers and   *)
(* numbers of bots.                                                        *)
(***************************************************************************)
EXTENDS JobStore, TLAPS

\* A run that was accepted has an identifier, and a cancel that has read a
\* Job has read one of an accepted run.
Named ==
    /\ \A r \in Runs : pc[r] # "free" => job[r] \in Jobs
    /\ \A c \in Cancels : cpc[c] \in {"checked", "replace"} =>
         snap[c].run \in Runs /\ pc[snap[c].run] # "free"

TypeInv == TypeOK /\ Named /\ NoZombieJob

\* The HSets of a job that are still to be made.
Unflushed(j) == {a \in DOMAIN out : out[a] # None /\ out[a].id = j}

\* Redis lags behind the store by at most the one HSet that will mend it.
Follows(j) ==
    /\ \A a, b \in Unflushed(j) : a = b
    /\ \A a \in Unflushed(j) : out[a].job.status = mem[j].status
    /\ Unflushed(j) = {} => redis[j].status = mem[j].status

RedisInv == \A j \in Jobs \ unsaved : Follows(j)

\* No trace of a report of run r, in the store or on its way to Redis.
Completed(r) == [status |-> "completed", run |-> r]
NoReport(r) ==
    /\ \A j \in Jobs : mem[j] # Completed(r) /\ redis[j] # Completed(r) /\ row[j] # r
    /\ \A a \in Runs \cup Cancels : out[a] # None => out[a].job # Completed(r)

\* A run that has not settled has left no report; one whose context ended
\* early keeps a shard that has not ended or has failed.
Unreported == \A r \in Runs :
    pc[r] \notin {"completing", "ended", "dead"} \/ r \in early => NoReport(r)
Doomed == \A r \in early :
    /\ pc[r] \notin {"free", "telemetry", "completing"}
    /\ pc[r] \in {"pending", "running", "shards"} =>
         r \in done /\ (left[r] > 0 \/ r \in errs)

EarlyInv == Unreported /\ Doomed

\* What the store holds for a job nobody interfered with: the Job of its only
\* run, in the status of that run's last replacement.
StatusAt(p) ==
    CASE p = "pending" -> "pending"
      [] p = "completing" -> "completed"
      [] OTHER -> "running"

Known == \A r \in Runs :
    pc[r] # "free" /\ job[r] \notin unsaved => mem[job[r]].status # "none"
Owned == \A r \in Runs :
    pc[r] \in Live /\ job[r] \notin contested \cup unsaved =>
        mem[job[r]] = [status |-> StatusAt(pc[r]), run |-> r]

OwnerInv == RedisInv /\ Known /\ Owned

-----------------------------------------------------------------------------
(* Type correctness, and no zombies.                                       *)

LEMMA ReplaceEffect ==
    ASSUME TypeInv, NEW a \in Runs \cup Cancels, NEW j \in Jobs, NEW new \in Job,
           Replace(a, j, new)
    PROVE  /\ mem' \in [Jobs -> Job \cup {NoJob}]
           /\ out' \in [Runs \cup Cancels -> {None} \cup [id : Jobs, job : Job]]
           /\ unsaved' \subseteq Jobs
           /\ mem'[j] = new
           /\ \A k \in Jobs \ {j} : mem'[k] = mem[k]
           /\ unsaved \subseteq unsaved'
  BY DEF TypeInv, TypeOK, Replace

\* A replacement by run r of its own Job, from Live to the next step.
LEMMA BecomesType ==
    ASSUME TypeInv, NEW r \in Runs, pc[r] \in Live,
           NEW status \in Active \cup {"completed", "aborted"},
           NEW next \in Live \cup {"ended"},
           status \in Active => next # "completing" /\ next # "ended",
           Becomes(r, status, next), done' \subseteq Runs, errs' \subseteq Runs,
           UNCHANGED left
    PROVE  TypeInv'
<1> DEFINE new == [status |-> status, run |-> r]
<1>1. new \in Job /\ job[r] \in Jobs
  BY DEF TypeInv, Named, Live, Job
<1>2. Replace(r, job[r], new)
  BY DEF Becomes
<1>3. TypeOK'
  BY <1>1, <1>2, ReplaceEffect DEF TypeInv, TypeOK, Becomes, Live
<1>4. Named'
  BY DEF TypeInv, TypeOK, Named, Becomes, Live
<1>5. NoZombieJob'
  BY <1>1, <1>2, ReplaceEffect DEF TypeInv, TypeOK, NoZombieJob, Becomes, Live
<1> QED
  BY <1>3, <1>4, <1>5 DEF TypeInv

LEMMA RunType ==
    ASSUME TypeInv, NEW r \in Runs, RunStep(r)
    PROVE  TypeInv'
<1> USE JobStoreAssumption
<1>1. ASSUME NEW j \in Jobs, handleRun(r, j)
      PROVE  TypeInv'
  <2> DEFINE new == [status |-> "pending", run |-> r]
  <2>1. new \in Job /\ Replace(r, j, new)
    BY <1>1 DEF handleRun, Job, Active
  <2>2. TypeOK'
    BY <1>1, <2>1, ReplaceEffect DEF TypeInv, TypeOK, handleRun, shardVars, Live
  <2>3. Named'
    BY <1>1 DEF TypeInv, TypeOK, Named, handleRun
  <2>4. /\ mem'[j] = new
        /\ \A i \in Jobs \ {j} : mem'[i] = mem[i]
    BY <2>1, ReplaceEffect
  <2>5. /\ pc[r] = "free" /\ job'[r] = j /\ pc'[r] = "pending"
        /\ \A q \in Runs \ {r} : job'[q] = job[q] /\ pc'[q] = pc[q]
    BY <1>1 DEF TypeInv, TypeOK, handleRun
  <2>6. NoZombieJob'
    BY <2>4, <2>5 DEF TypeInv, NoZombieJob, Live
  <2> QED
    BY <2>2, <2>3, <2>6 DEF TypeInv
<1>2. CASE Start(r)
  BY <1>2, BecomesType DEF Start, Live, Active, shardVars, TypeInv, TypeOK
<1>3. CASE Panic(r)
  BY <1>3, BecomesType DEF Panic, Live, Active, shardVars, TypeInv, TypeOK
<1>4. CASE Complete(r)
  BY <1>4, BecomesType DEF Complete, Live, Active, shardVars, TypeInv, TypeOK
<1>5. CASE Abort(r)
  BY <1>5, BecomesType DEF Abort, Returned, Live, Active, TypeInv, TypeOK
<1>6. CASE Launch(r) \/ Collect(r) \/ Finish(r)
  <2>1. TypeOK'
    BY <1>6 DEF Launch, Collect, Returned, Finish, TypeInv, TypeOK, Named,
                storeVars, shardVars, histVars, Live
  <2>2. Named' /\ NoZombieJob'
    BY <1>6 DEF Launch, Collect, Returned, Finish, TypeInv, TypeOK, Named,
                NoZombieJob, storeVars, Live
  <2> QED
    BY <2>1, <2>2 DEF TypeInv
<1>7. CASE ShardEnds(r) \/ ConsumeReturns(r) \/ Timeout(r)
  <2>1. TypeOK'
    <3>1. CASE ShardEnds(r)
      <4>1. left' \in [Runs -> 0..NumWorkers] /\ errs' \subseteq Runs
        BY <3>1 DEF ShardEnds, TypeInv, TypeOK
      <4>2. workersDone' \in [Runs -> 0..NumWorkers]
        BY <3>1 DEF ShardEnds, TypeInv, TypeOK
      <4> QED
        BY <3>1, <4>1, <4>2 DEF ShardEnds, TypeInv, TypeOK, storeVars, histVars
    <3>2. CASE ConsumeReturns(r)
      BY <3>2 DEF ConsumeReturns, TypeInv, TypeOK, storeVars, shardVars, histVars
    <3>3. CASE Timeout(r)
      BY <3>3 DEF Timeout, EndContext, TypeInv, TypeOK, storeVars, shardVars
    <3> QED BY <1>7, <3>1, <3>2, <3>3
  <2>2. Named' /\ NoZombieJob'
    BY <1>7 DEF ShardEnds, ConsumeReturns, Timeout, TypeInv, Named, NoZombieJob,
                storeVars
  <2> QED
    BY <2>1, <2>2 DEF TypeInv
<1> QED
  BY <1>1, <1>2, <1>3, <1>4, <1>5, <1>6, <1>7 DEF RunStep

LEMMA CancelType ==
    ASSUME TypeInv, NEW c \in Cancels, CancelStep(c)
    PROVE  TypeInv'
<1>1. ASSUME NEW j \in Jobs, CancelChecks(c, j)
      PROVE  TypeInv'
  <2>1. mem[j].run \in Runs /\ pc[mem[j].run] # "free"
    BY <1>1 DEF CancelChecks, TypeInv, NoZombieJob, Active, Live
  <2> QED
    BY <1>1, <2>1 DEF CancelChecks, TypeInv, TypeOK, Named, NoZombieJob, storeVars,
                      runVars, shardVars, histVars
<1>2. CASE CancelCancels(c)
  <2>1. snap[c].run \in Runs
    BY <1>2 DEF CancelCancels, TypeInv, Named
  <2> QED
    BY <1>2, <2>1 DEF CancelCancels, EndContext, TypeInv, TypeOK, Named,
                      NoZombieJob, storeVars, shardVars
<1>3. CASE CancelReplaces(c)
  <2> DEFINE j == job[snap[c].run]
             new == [status |-> "aborted", run |-> snap[c].run]
  <2>1. j \in Jobs /\ new \in Job /\ Replace(c, j, new)
    BY <1>3 DEF CancelReplaces, TypeInv, Named, Job
  <2>2. TypeOK'
    BY <1>3, <2>1, ReplaceEffect DEF CancelReplaces, TypeInv, TypeOK, runVars,
                                     shardVars
  <2>3. Named'
    BY <1>3 DEF CancelReplaces, TypeInv, TypeOK, Named, runVars
  <2>4. NoZombieJob'
    BY <1>3, <2>1, ReplaceEffect DEF CancelReplaces, TypeInv, NoZombieJob, Active,
                                     runVars
  <2> QED
    BY <2>2, <2>3, <2>4 DEF TypeInv
<1> QED
  BY <1>1, <1>2, <1>3 DEF CancelStep

LEMMA HSetType ==
    ASSUME TypeInv, NEW a \in Runs \cup Cancels, HSet(a)
    PROVE  TypeInv'
  BY JobStoreAssumption
  DEF HSet, TypeInv, TypeOK, Named, NoZombieJob, runVars, shardVars

\* What rehydrateFromRedis makes of an entry is settled.
LEMMA SanitizedType ==
    ASSUME NEW entry \in Job \cup {NoJob}
    PROVE  /\ Sanitized(entry) \in Job \cup {NoJob}
           /\ Sanitized(entry).status =
                IF entry.status \in Active THEN "aborted" ELSE entry.status
           /\ Sanitized(entry).status \notin Active
           /\ Sanitized(entry).run = None
  BY DEF Sanitized, Job, NoJob, Active

LEMMA RestartType ==
    ASSUME TypeInv, Restart
    PROVE  TypeInv'
<1>1. \/ mem' = [j \in Jobs |-> Sanitized(redis[j])]
      \/ mem' = [j \in Jobs |-> NoJob]
  BY DEF Restart
<1>2. /\ mem' \in [Jobs -> Job \cup {NoJob}]
      /\ \A j \in Jobs : mem'[j].status \notin Active
  BY <1>1, SanitizedType DEF TypeInv, TypeOK, NoJob, Active
<1>3. redis' \in [Jobs -> Job \cup {NoJob}]
  BY <1>2 DEF Restart, TypeInv, TypeOK
<1>4. /\ unsaved' \subseteq Jobs
      /\ faults' \in 0..MaxFaults
      /\ rdb' \in BOOLEAN
  BY JobStoreAssumption DEF Restart, TypeInv, TypeOK
<1>5. TypeOK'
  BY <1>2, <1>3, <1>4, JobStoreAssumption DEF Restart, TypeInv, TypeOK, Live
<1>6. /\ \A r \in Runs : pc'[r] # "free" => pc[r] # "free"
      /\ \A c \in Cancels : cpc'[c] \in {"free", "replied"}
      /\ job' = job
  <2>1. /\ pc' = [r \in Runs |-> IF pc[r] \in Live \cup {"ended"} THEN "dead"
                                                                 ELSE pc[r]]
        /\ cpc' = [c \in Cancels |-> IF cpc[c] = "free" THEN "free" ELSE "replied"]
        /\ job' = job
    BY DEF Restart
  <2> QED BY <2>1 DEF Live
<1>7. Named'
  BY <1>6 DEF TypeInv, Named
<1>8. NoZombieJob'
  BY <1>2 DEF NoZombieJob
<1> QED
  BY <1>5, <1>7, <1>8 DEF TypeInv

LEMMA TypeStep ==
    ASSUME TypeInv, [Next]_vars
    PROVE  TypeInv'
<1>1. CASE UNCHANGED vars
  BY <1>1 DEF TypeInv, TypeOK, Named, NoZombieJob, vars, storeVars, runVars,
              shardVars, histVars
<1> QED
  BY <1>1, RunType, CancelType, HSetType, RestartType DEF Next

LEMMA TypeInit ==
    ASSUME Init
    PROVE  TypeInv
  BY JobStoreAssumption
  DEF Init, TypeInv, TypeOK, Named, NoZombieJob, NoJob, Active

LEMMA TypeAlways == Spec => []TypeInv
  BY TypeInit, TypeStep, PTL DEF Spec

\* Every variable of the fleet master keeps its type: a shard never ends more
\* often than there are workers, and a cancel always finds the run it read.
THEOREM TypeCorrect == Spec => []TypeOK
  BY TypeAlways, PTL DEF TypeInv

\* No job stays pending or running without a goroutine that will replace it:
\* not after a panic, a cancel, a second run of its identifier or a restart
\* (handleRun, handleCancel and rehydrateFromRedis, bot-fleet/main.go).
THEOREM NoZombies == Spec => []NoZombieJob
  BY TypeAlways, PTL DEF TypeInv

-----------------------------------------------------------------------------
(* The shards of a job partition its bots.                                 *)

LEMMA TimesMonotone ==
    ASSUME NEW a \in Nat, NEW b \in Nat, NEW n \in Nat, a <= b
    PROVE  /\ a * n \in Nat /\ b * n \in Nat
           /\ a * n <= b * n
  OBVIOUS

LEMMA TimesNext ==
    ASSUME NEW a \in Nat, NEW n \in Nat
    PROVE  (a + 1) * n = a * n + n /\ n * (a + 1) = a * n + n
  OBVIOUS

LEMMA DivMod ==
    ASSUME NEW n \in Nat, NEW d \in Nat \ {0}
    PROVE  /\ n \div d \in Nat /\ n % d \in Nat
           /\ n = (n \div d) * d + (n % d)
           /\ n % d < d
  OBVIOUS

LEMMA ShardsPartition ==
    ASSUME NEW j \in Jobs
    PROVE  /\ UNION {BotIDs(j, w) : w \in Workers} = 1..NumBots[j]
           /\ \A v, w \in Workers : v # w => BotIDs(j, v) \cap BotIDs(j, w) = {}
<1> DEFINE b == NumBots[j] \div NumWorkers
           m == NumBots[j] % NumWorkers
           z == NumWorkers - 1
<1>1. /\ NumBots[j] \in Nat /\ NumWorkers \in Nat \ {0} /\ z \in Nat
  BY JobStoreAssumption
<1>2. b \in Nat /\ m \in Nat /\ NumBots[j] = b * NumWorkers + m
  BY <1>1, DivMod
<1>0. NumWorkers = z + 1
  BY <1>1
<1>a. ASSUME NEW w \in Workers
      PROVE  /\ w \in Nat /\ w <= z
             /\ BotIDs(j, w) = (w * b + 1)..(w * b + (b + IF w = z THEN m ELSE 0))
  BY <1>1 DEF Workers, BotIDs, botIDOffset, shardSize, botsPerWorker
<1> HIDE DEF b, m, z
<1>3. NumBots[j] = z * b + b + m /\ z * b \in Nat
  BY <1>0, <1>1, <1>2, TimesNext, TimesMonotone
<1>4. ASSUME NEW w \in Workers
      PROVE  /\ w \in Nat /\ w <= z /\ w * b \in Nat
             /\ w # z => BotIDs(j, w) = (w * b + 1)..(w * b + b)
             /\ w = z => BotIDs(j, w) = (z * b + 1)..NumBots[j]
  <2>1. w * b \in Nat
    BY <1>2, <1>a, TimesMonotone
  <2>2. CASE w # z
    BY <1>1, <1>2, <1>a, <2>1, <2>2
  <2>3. CASE w = z
    <3>1. w * b + (b + m) = NumBots[j]
      BY <1>2, <1>3, <2>3
    <3> QED BY <1>a, <2>1, <2>3, <3>1
  <2> QED BY <2>2, <2>3
<1>5. ASSUME NEW v \in Workers, NEW w \in Workers, v < w
      PROVE  v * b + b <= w * b
  <2>0. v + 1 \in Nat /\ w \in Nat /\ v + 1 <= w
    BY <1>4, <1>5
  <2>1. (v + 1) * b <= w * b
    BY <1>2, <2>0, TimesMonotone
  <2>2. (v + 1) * b = v * b + b
    BY <1>2, <1>4, TimesNext
  <2> QED BY <2>1, <2>2
<1>6. ASSUME NEW v \in Workers, NEW w \in Workers, v < w
      PROVE  BotIDs(j, v) \cap BotIDs(j, w) = {}
  <2>1. v # z /\ BotIDs(j, v) = (v * b + 1)..(v * b + b)
    BY <1>1, <1>4, <1>6
  <2>2. \A x \in BotIDs(j, w) : x >= w * b + 1
    <3>1. CASE w = z
      BY <1>1, <1>2, <1>4, <3>1
    <3>2. CASE w # z
      BY <1>1, <1>2, <1>4, <3>2
    <3> QED BY <3>1, <3>2
  <2> QED BY <1>2, <1>4, <1>5, <1>6, <2>1, <2>2
<1>7. ASSUME NEW w \in Workers, NEW x \in BotIDs(j, w)
      PROVE  x \in 1..NumBots[j]
  <2>1. w * b <= z * b
    BY <1>1, <1>2, <1>4, TimesMonotone
  <2>2. CASE w = z
    BY <1>1, <1>2, <1>3, <1>4, <1>7, <2>2
  <2>3. CASE w # z
    <3>1. z \in Workers /\ w < z
      BY <1>1, <1>4, <2>3 DEF Workers, z
    <3>2. w * b + b <= z * b
      BY <1>5, <3>1
    <3> QED BY <1>1, <1>2, <1>3, <1>4, <1>7, <2>3, <3>2
  <2> QED BY <2>2, <2>3
<1>8. ASSUME NEW x \in 1..NumBots[j]
      PROVE  \E w \in Workers : x \in BotIDs(j, w)
  <2>0. z \in Workers
    BY <1>1 DEF Workers, z
  <2>1. CASE x >= z * b + 1
    BY <1>1, <1>3, <1>4, <1>8, <2>0, <2>1
  <2>2. CASE x < z * b + 1
    <3>1. b # 0
      BY <1>1, <1>3, <2>2
    <3> DEFINE w == (x - 1) \div b
    <3>2. /\ x - 1 \in Nat /\ w \in Nat
          /\ x - 1 = w * b + ((x - 1) % b)
          /\ (x - 1) % b \in Nat /\ (x - 1) % b < b
      BY <1>1, <1>2, <3>1, DivMod
    <3> HIDE DEF w
    <3>3. w < z
      <4>1. ASSUME w >= z
            PROVE  FALSE
        <5>1. z * b <= w * b
          BY <1>1, <1>2, <3>2, <4>1, TimesMonotone
        <5> QED BY <1>1, <1>2, <1>3, <2>2, <3>2, <5>1
      <4> QED BY <1>1, <3>2, <4>1
    <3>4. w \in Workers /\ w # z
      BY <1>1, <3>2, <3>3 DEF Workers, z
    <3>5. x \in (w * b + 1)..(w * b + b)
      BY <1>1, <1>2, <1>4, <3>2, <3>4
    <3> QED BY <1>4, <3>4, <3>5
  <2> QED BY <1>1, <1>2, <1>3, <2>1, <2>2
<1> QED
  <2>1. UNION {BotIDs(j, w) : w \in Workers} = 1..NumBots[j]
    BY <1>7, <1>8
  <2>2. \A v, w \in Workers : v # w => v < w \/ w < v
    BY <1>4
  <2>3. \A v, w \in Workers : v # w => BotIDs(j, v) \cap BotIDs(j, w) = {}
    BY <1>6, <2>2
  <2> QED BY <2>1, <2>3

\* runDistributed and buildShardBots (bot-fleet/runner.go) give every bot
\* 1..NumBots to exactly one worker, for every number of bots and workers,
\* whether one divides the other, or there are fewer bots than workers.
THEOREM EveryBotOnce == Spec => []ShardsPartitionBots
<1>1. ASSUME TypeInv
      PROVE  ShardsPartitionBots
  BY <1>1, ShardsPartition DEF TypeInv, Named, ShardsPartitionBots
<1> QED
  BY <1>1, TypeAlways, PTL

-----------------------------------------------------------------------------
(* Redis follows the store.                                                *)

\* A replacement is the only HSet of its job, or the job is not followed.
LEMMA ReplaceFollows ==
    ASSUME TypeInv, RedisInv, NEW a \in Runs \cup Cancels, NEW j \in Jobs,
           NEW new \in Job, Replace(a, j, new), UNCHANGED redis
    PROVE  RedisInv'
<1> SUFFICES ASSUME NEW k \in Jobs \ unsaved'
             PROVE  Follows(k)'
  BY DEF RedisInv
<1>1. k \notin unsaved /\ Follows(k)
  BY ReplaceEffect DEF RedisInv
<1>2. /\ DOMAIN out = Runs \cup Cancels /\ DOMAIN out' = Runs \cup Cancels
      /\ out[a] = None
      /\ \A b \in (Runs \cup Cancels) \ {a} : out'[b] = out[b]
  BY DEF TypeInv, TypeOK, Replace
<1>3. CASE k = j
  <2>1. rdb /\ \A b \in DOMAIN out : ~(out[b] # None /\ out[b].id = j)
    BY <1>3 DEF Replace
  <2>2. out'[a] = [id |-> j, job |-> new] /\ mem'[j] = new
    BY <2>1, ReplaceEffect DEF Replace, TypeInv, TypeOK
  <2>3. out'[a] # None
    BY <2>2, NoneAssumption
  <2>4. Unflushed(j)' = {a}
    BY <1>2, <2>1, <2>2, <2>3 DEF Unflushed
  <2> QED
    BY <1>3, <2>2, <2>4 DEF Follows
<1>4. CASE k # j
  <2>1. mem'[k] = mem[k]
    BY <1>4, ReplaceEffect
  <2>2. out'[a] = None \/ out'[a].id = j
    BY DEF Replace, TypeInv, TypeOK
  <2>3. /\ Unflushed(k)' = Unflushed(k)
        /\ \A b \in Unflushed(k) : out'[b] = out[b]
    BY <1>2, <1>4, <2>2 DEF Unflushed
  <2> QED
    BY <1>1, <2>1, <2>3 DEF Follows
<1> QED BY <1>3, <1>4

LEMMA HSetFollows ==
    ASSUME TypeInv, RedisInv, NEW a \in Runs \cup Cancels, HSet(a)
    PROVE  RedisInv'
<1> SUFFICES ASSUME NEW k \in Jobs \ unsaved'
             PROVE  Follows(k)'
  BY DEF RedisInv
<1>1. k \notin unsaved /\ Follows(k)
  BY DEF RedisInv, HSet
<1>2. /\ DOMAIN out = Runs \cup Cancels /\ DOMAIN out' = Runs \cup Cancels
      /\ out[a] # None /\ out'[a] = None /\ out[a].id \in Jobs
      /\ \A b \in (Runs \cup Cancels) \ {a} : out'[b] = out[b]
  BY DEF TypeInv, TypeOK, HSet
<1>3. CASE k = out[a].id
  <2>1. redis'[k] = out[a].job
    BY <1>2, <1>3 DEF HSet, TypeInv, TypeOK
  <2>2. a \in Unflushed(k)
    BY <1>2, <1>3 DEF Unflushed
  <2>3. Unflushed(k)' = {}
    BY <1>1, <1>2, <2>2 DEF Unflushed, Follows
  <2> QED
    BY <1>1, <2>1, <2>2, <2>3 DEF Follows, HSet
<1>4. CASE k # out[a].id
  <2>1. /\ Unflushed(k)' = Unflushed(k)
        /\ \A b \in Unflushed(k) : out'[b] = out[b]
    BY <1>2, <1>4 DEF Unflushed
  <2>2. redis'[k] = redis[k] /\ mem'[k] = mem[k]
    BY <1>2, <1>4 DEF HSet, TypeInv, TypeOK
  <2> QED
    BY <1>1, <2>1, <2>2 DEF Follows
<1> QED BY <1>3, <1>4

\* After a restart, a job that is still followed was settled in Redis before,
\* or aborted by the restart and written back.
LEMMA RestartFollows ==
    ASSUME TypeInv, RedisInv, Restart
    PROVE  /\ RedisInv'
           /\ \A k \in Jobs \ unsaved' :
                /\ k \notin unsaved
                /\ mem'[k].status =
                     IF mem[k].status \in Active THEN "aborted" ELSE mem[k].status
<1> SUFFICES ASSUME NEW k \in Jobs \ unsaved'
             PROVE  /\ Follows(k)' /\ k \notin unsaved
                    /\ mem'[k].status =
                         IF mem[k].status \in Active THEN "aborted" ELSE mem[k].status
  BY DEF RedisInv
<1>1. PICK fixed \in SUBSET {j \in Jobs : redis[j].status \in Active} :
        /\ mem' = [j \in Jobs |-> Sanitized(redis[j])]
        /\ redis' = [j \in Jobs |-> IF j \in fixed THEN mem'[j] ELSE redis[j]]
        /\ unsaved' =
             unsaved
               \cup {j \in Jobs : \E a \in DOMAIN out : out[a] # None /\ out[a].id = j}
               \cup ({j \in Jobs : redis[j].status \in Active} \ fixed)
  BY DEF Restart
<1>2. k \notin unsaved /\ Unflushed(k) = {}
  BY <1>1 DEF Unflushed
<1>3. redis[k].status = mem[k].status
  BY <1>2 DEF RedisInv, Follows
<1>4. mem'[k].status = IF redis[k].status \in Active THEN "aborted"
                                                    ELSE redis[k].status
  BY <1>1, SanitizedType DEF TypeInv, TypeOK
<1>5. redis'[k].status = mem'[k].status
  BY <1>1, <1>4
<1>6. Unflushed(k)' = {}
  BY DEF Unflushed, Restart
<1> QED
  BY <1>2, <1>3, <1>4, <1>5, <1>6 DEF Follows

\* A step that changes neither the store nor Redis nor what is under way.
LEMMA QuietFollows ==
    ASSUME RedisInv, UNCHANGED <<mem, redis, out, unsaved>>
    PROVE  RedisInv'
  BY DEF RedisInv, Follows, Unflushed

\* Every step is a replacement, an HSet, a restart or leaves the store alone.
LEMMA StoreSteps ==
    ASSUME TypeInv, [Next]_vars
    PROVE  \/ \E a \in Runs \cup Cancels, j \in Jobs, new \in Job :
                Replace(a, j, new) /\ UNCHANGED redis
           \/ \E a \in Runs \cup Cancels : HSet(a)
           \/ Restart
           \/ UNCHANGED <<mem, redis, out, unsaved>>
<1> DEFINE Replaces == \E a \in Runs \cup Cancels, j \in Jobs, new \in Job :
                         Replace(a, j, new) /\ UNCHANGED redis
<1>1. ASSUME NEW r \in Runs, RunStep(r)
      PROVE  Replaces \/ UNCHANGED <<mem, redis, out, unsaved>>
  <2>1. ASSUME NEW j \in Jobs, handleRun(r, j)
        PROVE  Replaces
    <3>1. [status |-> "pending", run |-> r] \in Job
      BY DEF Job, Active
    <3> QED BY <2>1, <3>1 DEF handleRun
  <2>2. ASSUME NEW status \in Active \cup {"completed", "aborted"}, NEW next,
               Becomes(r, status, next), pc[r] # "free"
        PROVE  Replaces
    <3>1. [status |-> status, run |-> r] \in Job /\ job[r] \in Jobs
      BY <2>2 DEF Job, TypeInv, Named
    <3> QED BY <2>2, <3>1 DEF Becomes
  <2>3. CASE Start(r) \/ Panic(r) \/ Abort(r) \/ Complete(r)
    BY <2>2, <2>3 DEF Start, Panic, Abort, Complete, Active
  <2>4. CASE Launch(r) \/ ShardEnds(r) \/ Collect(r) \/ ConsumeReturns(r)
             \/ Finish(r) \/ Timeout(r)
    BY <2>4 DEF Launch, ShardEnds, Collect, ConsumeReturns, Finish, Timeout,
                storeVars, histVars
  <2> QED BY <1>1, <2>1, <2>3, <2>4 DEF RunStep
<1>2. ASSUME NEW c \in Cancels, CancelStep(c)
      PROVE  Replaces \/ UNCHANGED <<mem, redis, out, unsaved>>
  <2>1. CASE CancelReplaces(c)
    <3>1. /\ [status |-> "aborted", run |-> snap[c].run] \in Job
          /\ job[snap[c].run] \in Jobs
      BY <2>1 DEF CancelReplaces, Job, TypeInv, Named
    <3> QED BY <2>1, <3>1 DEF CancelReplaces
  <2> QED
    BY <1>2, <2>1 DEF CancelStep, CancelChecks, CancelCancels, storeVars, histVars
<1> QED
  BY <1>1, <1>2 DEF Next, vars, storeVars, histVars

LEMMA RedisStep ==
    ASSUME TypeInv, RedisInv, [Next]_vars
    PROVE  RedisInv'
  BY StoreSteps, ReplaceFollows, HSetFollows, RestartFollows, QuietFollows

LEMMA RedisInit ==
    ASSUME Init
    PROVE  RedisInv
  BY DEF Init, RedisInv, Follows, Unflushed

\* Once the calls for a job have made their HSets, the hash "jobs" holds the
\* status the store holds, except after a failed HSet or one that overtook
\* another: replaceJob writes through after its unlock (bot-fleet/main.go),
\* and rehydrateFromRedis writes its sanitized jobs back.
THEOREM RedisKeepsUp == Spec => []RedisFollows
<1>1. ASSUME TypeInv, RedisInv
      PROVE  RedisFollows
  BY <1>1 DEF RedisInv, Follows, Unflushed, RedisFollows
<1> QED
  BY <1>1, TypeInit, TypeStep, RedisInit, RedisStep, PTL DEF Spec

-----------------------------------------------------------------------------
(* A run whose context ended early leaves no report.                       *)

\* A replacement by anything but the report of r leaves no report of r.
LEMMA ReplaceNoReport ==
    ASSUME TypeInv, NEW r \in Runs, NoReport(r), NEW a \in Runs \cup Cancels,
           NEW j \in Jobs, NEW new \in Job, new # Completed(r),
           Replace(a, j, new), UNCHANGED <<redis, row>>
    PROVE  NoReport(r)'
<1>1. \A b \in Runs \cup Cancels :
        out'[b] \in {out[b], None, [id |-> j, job |-> new]}
  BY DEF Replace, TypeInv, TypeOK
<1>2. \A b \in Runs \cup Cancels : out'[b] # None => out'[b].job # Completed(r)
  BY <1>1 DEF NoReport
<1> QED
  BY <1>2, ReplaceEffect DEF NoReport, Completed

LEMMA HSetNoReport ==
    ASSUME TypeInv, NEW r \in Runs, NoReport(r), NEW a \in Runs \cup Cancels,
           HSet(a)
    PROVE  NoReport(r)'
<1>1. /\ \A b \in Runs \cup Cancels : out'[b] \in {out[b], None}
      /\ \A j \in Jobs : redis'[j] \in {redis[j], out[a].job}
      /\ out[a] # None /\ UNCHANGED <<mem, row>>
  BY DEF HSet, TypeInv, TypeOK
<1> QED
  BY <1>1 DEF NoReport, Completed

LEMMA RestartNoReport ==
    ASSUME TypeInv, NEW r \in Runs, NoReport(r), Restart
    PROVE  NoReport(r)'
<1>1. /\ \A b \in Runs \cup Cancels : out'[b] = None
      /\ UNCHANGED row
      /\ \A j \in Jobs : redis'[j] \in {redis[j], mem'[j]}
  BY DEF Restart, TypeInv, TypeOK
<1>2. \A j \in Jobs : mem'[j].run = None
  BY SanitizedType DEF Restart, TypeInv, TypeOK, NoJob
<1>3. \A j \in Jobs : mem'[j] # Completed(r)
  BY <1>2, NoneAssumption DEF Completed
<1> QED
  BY <1>1, <1>3 DEF NoReport, Completed

LEMMA QuietNoReport ==
    ASSUME NEW r \in Runs, NoReport(r), UNCHANGED <<mem, redis, row, out>>
    PROVE  NoReport(r)'
  BY DEF NoReport, Completed

\* A step of run r puts a report of run q nowhere, unless q is r and the step
\* is one of the last two.
LEMMA RunNoReport ==
    ASSUME TypeInv, NEW q \in Runs, NoReport(q), NEW r \in Runs, RunStep(r),
           q = r => pc[r] \notin {"telemetry", "completing"}
    PROVE  NoReport(q)'
<1>1. ASSUME NEW j \in Jobs, handleRun(r, j)
      PROVE  NoReport(q)'
  <2>1. /\ [status |-> "pending", run |-> r] \in Job
        /\ [status |-> "pending", run |-> r] # Completed(q)
    BY DEF Job, Active, Completed
  <2> QED BY <1>1, <2>1, ReplaceNoReport DEF handleRun
<1>2. ASSUME NEW status \in Active \cup {"completed", "aborted"}, NEW next,
             Becomes(r, status, next), pc[r] # "free", status = "completed" => q # r
      PROVE  NoReport(q)'
  <2>1. /\ [status |-> status, run |-> r] \in Job /\ job[r] \in Jobs
        /\ [status |-> status, run |-> r] # Completed(q)
    BY <1>2 DEF Job, TypeInv, Named, Completed
  <2> QED BY <1>2, <2>1, ReplaceNoReport DEF Becomes
<1>3. CASE Start(r) \/ Panic(r) \/ Abort(r) \/ Complete(r)
  BY <1>2, <1>3 DEF Start, Panic, Abort, Complete, Active
<1>4. CASE Finish(r)
  <2>1. \A j \in Jobs : row'[j] \in {row[j], r}
    BY <1>4 DEF Finish, TypeInv, TypeOK
  <2>2. q # r
    BY <1>4 DEF Finish
  <2> QED
    BY <1>4, <2>1, <2>2 DEF Finish, NoReport, Completed
<1>5. CASE Launch(r) \/ ShardEnds(r) \/ Collect(r) \/ ConsumeReturns(r) \/ Timeout(r)
  BY <1>5, QuietNoReport DEF Launch, ShardEnds, Collect, ConsumeReturns, Timeout,
                             storeVars
<1> QED
  BY <1>1, <1>3, <1>4, <1>5 DEF RunStep

LEMMA CancelNoReport ==
    ASSUME TypeInv, NEW q \in Runs, NoReport(q), NEW c \in Cancels, CancelStep(c)
    PROVE  NoReport(q)'
<1>1. CASE CancelReplaces(c)
  <2>1. /\ [status |-> "aborted", run |-> snap[c].run] \in Job
        /\ [status |-> "aborted", run |-> snap[c].run] # Completed(q)
        /\ job[snap[c].run] \in Jobs
    BY <1>1 DEF CancelReplaces, Job, TypeInv, Named, Completed
  <2> QED BY <1>1, <2>1, ReplaceNoReport DEF CancelReplaces
<1>2. CASE CancelCancels(c) \/ \E j \in Jobs : CancelChecks(c, j)
  BY <1>2, QuietNoReport DEF CancelChecks, CancelCancels, storeVars
<1> QED BY <1>1, <1>2 DEF CancelStep

\* The context of a run that still works ends: its open shards will fail.
LEMMA EndContextDooms ==
    ASSUME TypeInv, EarlyInv, NEW r \in Runs, pc[r] # "free", EndContext(r),
           UNCHANGED <<pc, left, errs, mem, redis, row, out>>
    PROVE  EarlyInv'
<1>1. ASSUME NEW q \in early'
      PROVE  q \in early \/ (q = r /\ pc[r] \in {"pending", "running", "shards"}
                             /\ left[r] > 0 /\ r \in done')
  BY <1>1 DEF EndContext
<1>2. done \subseteq done'
  BY DEF EndContext
<1>3. Doomed'
  BY <1>1, <1>2 DEF EarlyInv, Doomed
<1>4. Unreported'
  <2> SUFFICES ASSUME NEW q \in Runs,
                      pc[q] \notin {"completing", "ended", "dead"} \/ q \in early'
               PROVE  NoReport(q)'
    BY DEF Unreported
  <2>1. NoReport(q)
    BY <1>1 DEF EarlyInv, Unreported
  <2> QED BY <2>1, QuietNoReport
<1> QED BY <1>3, <1>4 DEF EarlyInv

LEMMA RunDooms ==
    ASSUME TypeInv, EarlyInv, NEW r \in Runs, RunStep(r)
    PROVE  EarlyInv'
<1>1. CASE Timeout(r)
  BY <1>1, EndContextDooms DEF Timeout, storeVars, shardVars
<1>2. CASE ~Timeout(r)
  <2>0. UNCHANGED early
    BY <1>2 DEF RunStep, handleRun, Start, Launch, Panic, ShardEnds, Abort, Collect,
                ConsumeReturns, Complete, Finish, Becomes, histVars
  <2>1. \A q \in Runs \ {r} : /\ pc'[q] = pc[q]
                              /\ q \in done <=> q \in done'
                              /\ q \in errs <=> q \in errs'
                              /\ left'[q] = left[q]
    BY <1>2 DEF RunStep, handleRun, Start, Launch, Panic, ShardEnds, Abort, Collect,
                ConsumeReturns, Complete, Finish, Becomes, Returned, shardVars,
                TypeInv, TypeOK
  <2>2. ASSUME r \in early
        PROVE  /\ pc'[r] \notin {"free", "telemetry", "completing"}
               /\ pc'[r] \in {"pending", "running", "shards"} =>
                    r \in done' /\ (left'[r] > 0 \/ r \in errs')
    <3>1. /\ pc[r] \notin {"free", "telemetry", "completing"}
          /\ pc[r] \in {"pending", "running", "shards"} =>
               r \in done /\ (left[r] > 0 \/ r \in errs)
      BY <2>2 DEF EarlyInv, Doomed
    <3>2. CASE ShardEnds(r)
      BY <3>1, <3>2 DEF ShardEnds
    <3>3. CASE Start(r) \/ Launch(r)
      BY <3>1, <3>3 DEF Start, Launch, Becomes, shardVars, TypeInv, TypeOK
    <3>4. CASE Panic(r) \/ Abort(r)
      BY <3>4 DEF Panic, Abort, Becomes, TypeInv, TypeOK
    <3>5. CASE ConsumeReturns(r)
      BY <3>1, <3>5 DEF ConsumeReturns, shardVars
    <3>6. ~Collect(r)
      BY <3>1 DEF Collect
    <3> QED
      BY <1>2, <3>1, <3>2, <3>3, <3>4, <3>5, <3>6
      DEF RunStep, handleRun, Complete, Finish
  <2>3. Doomed'
    BY <2>0, <2>1, <2>2 DEF EarlyInv, Doomed, TypeInv, TypeOK
  <2>4. Unreported'
    <3> SUFFICES ASSUME NEW q \in Runs,
                        pc'[q] \notin {"completing", "ended", "dead"} \/ q \in early
                 PROVE  NoReport(q)'
      BY <2>0 DEF Unreported
    <3>1. CASE q # r
      BY <2>1, <3>1, RunNoReport DEF EarlyInv, Unreported
    <3>2. CASE q = r
      <4>1. pc[r] \notin {"telemetry", "completing"} \/ ConsumeReturns(r)
        BY <2>2, <3>2 DEF EarlyInv, Doomed, RunStep, handleRun, Start, Launch, Panic,
           ShardEnds, Abort, Collect, Complete, Finish, Becomes, Timeout,
           TypeInv, TypeOK
      <4>2. CASE ConsumeReturns(r)
        BY <3>2, <4>2, QuietNoReport
        DEF ConsumeReturns, EarlyInv, Unreported, storeVars
      <4>3. CASE pc[r] \notin {"telemetry", "completing"}
        <5>1. pc[r] \notin {"completing", "ended", "dead"} \/ r \in early
          BY <3>2, <4>3 DEF RunStep, handleRun, Start, Launch, Panic,
             ShardEnds, Abort, Collect, Complete, Finish, ConsumeReturns, Timeout
        <5> QED BY <3>2, <4>3, <5>1, RunNoReport DEF EarlyInv, Unreported
      <4> QED BY <4>1, <4>2, <4>3
    <3> QED BY <3>1, <3>2
  <2> QED BY <2>3, <2>4 DEF EarlyInv
<1> QED BY <1>1, <1>2

LEMMA EarlyStep ==
    ASSUME TypeInv, EarlyInv, [Next]_vars
    PROVE  EarlyInv'
<1>1. ASSUME NEW c \in Cancels, CancelStep(c)
      PROVE  EarlyInv'
  <2>1. CASE CancelCancels(c)
    <3>1. snap[c].run \in Runs /\ pc[snap[c].run] # "free"
      BY <2>1 DEF CancelCancels, TypeInv, Named
    <3> QED
      BY <2>1, <3>1, EndContextDooms DEF CancelCancels, storeVars, shardVars
  <2>2. CASE ~CancelCancels(c)
    <3>1. UNCHANGED <<pc, done, left, errs, early>>
      BY <1>1, <2>2 DEF CancelStep, CancelChecks, CancelReplaces, runVars, shardVars,
                        histVars
    <3> QED
      BY <1>1, <3>1, CancelNoReport DEF EarlyInv, Doomed, Unreported
  <2> QED BY <2>1, <2>2
<1>2. ASSUME NEW a \in Runs \cup Cancels, HSet(a)
      PROVE  EarlyInv'
  BY <1>2, HSetNoReport DEF HSet, EarlyInv, Doomed, Unreported, runVars, shardVars
<1>3. CASE Restart
  <2>1. /\ pc' = [r \in Runs |-> IF pc[r] \in Live \cup {"ended"} THEN "dead"
                                                                 ELSE pc[r]]
        /\ early' = early
    BY <1>3 DEF Restart
  <2>2. \A r \in Runs : pc'[r] \in {"free", "dead"} /\ (pc'[r] = "free" => pc[r] = "free")
    BY <2>1 DEF TypeInv, TypeOK, Live
  <2>3. Doomed'
    BY <2>1, <2>2 DEF EarlyInv, Doomed, TypeInv, TypeOK
  <2>4. Unreported'
    BY <1>3, <2>1, <2>2, RestartNoReport DEF EarlyInv, Unreported
  <2> QED BY <2>3, <2>4 DEF EarlyInv
<1>4. CASE UNCHANGED vars
  BY <1>4, QuietNoReport DEF EarlyInv, Doomed, Unreported, vars, storeVars, runVars,
                             shardVars, histVars
<1> QED
  BY <1>1, <1>2, <1>3, <1>4, RunDooms DEF Next

LEMMA EarlyInit ==
    ASSUME Init
    PROVE  EarlyInv
  BY NoneAssumption
  DEF Init, EarlyInv, Doomed, Unreported, NoReport, Completed, NoJob

\* A run whose context ended while one of its shards was running settles
\* aborted: the open stream fails with the context, runDistributed returns the
\* error, and no report of the run reaches the store, the hash in Redis or the
\* submissions row, also after a restart (bot-fleet/main.go, runner.go).
THEOREM EarlyEndsAbort == Spec => []EarlyEndAborts
<1>1. ASSUME TypeInv, EarlyInv
      PROVE  EarlyEndAborts
  BY <1>1 DEF EarlyInv, Doomed, Unreported, NoReport, Completed, EarlyEndAborts,
              TypeInv, TypeOK
<1> QED
  BY <1>1, TypeInit, TypeStep, EarlyInit, EarlyStep, PTL DEF Spec

-----------------------------------------------------------------------------
(* The store implements JobLifecycle.                                      *)

\* What a replacement does to the jobs nobody interfered with.
LEMMA BecomesOwned ==
    ASSUME TypeInv, OwnerInv, NEW r \in Runs, pc[r] \in Live,
           NEW status \in Active \cup {"completed", "aborted"},
           NEW next \in Live \cup {"ended"},
           next \in Live => status = StatusAt(next),
           Becomes(r, status, next)
    PROVE  Known' /\ Owned'
<1> DEFINE new == [status |-> status, run |-> r]
<1>1. new \in Job /\ job[r] \in Jobs /\ Replace(r, job[r], new)
  BY DEF TypeInv, Named, Live, Job, Becomes
<1>2. /\ mem'[job[r]] = new /\ \A k \in Jobs \ {job[r]} : mem'[k] = mem[k]
      /\ unsaved \subseteq unsaved' /\ contested' = contested /\ job' = job
      /\ pc' = [pc EXCEPT ![r] = next]
  BY <1>1, ReplaceEffect DEF Becomes
<1>3. ASSUME NEW q \in Runs, pc'[q] # "free", job[q] \notin unsaved'
      PROVE  mem'[job[q]].status # "none"
  <2>1. pc[q] # "free" /\ job[q] \in Jobs
    BY <1>2, <1>3 DEF TypeInv, TypeOK, Named, Live
  <2>2. CASE job[q] = job[r]
    BY <1>2, <2>2 DEF Active
  <2>3. CASE job[q] # job[r]
    BY <1>2, <1>3, <2>1, <2>3 DEF OwnerInv, Known
  <2> QED BY <2>2, <2>3
<1>4. ASSUME NEW q \in Runs, pc'[q] \in Live, job[q] \notin contested \cup unsaved'
      PROVE  mem'[job[q]] = [status |-> StatusAt(pc'[q]), run |-> q]
  <2>1. CASE q = r
    BY <1>2, <1>4, <2>1 DEF TypeInv, TypeOK
  <2>2. CASE q # r
    <3>1. pc'[q] = pc[q] /\ job[q] \in Jobs
      BY <1>2, <1>4, <2>2 DEF TypeInv, TypeOK, Named, Live
    <3>2. mem[job[q]] = [status |-> StatusAt(pc[q]), run |-> q]
      BY <1>2, <1>4, <3>1 DEF OwnerInv, Owned
    <3>3. job[q] # job[r]
      <4>1. ASSUME job[q] = job[r]
            PROVE  mem[job[q]] = [status |-> StatusAt(pc[r]), run |-> r]
        BY <1>2, <1>4, <4>1 DEF OwnerInv, Owned
      <4> QED BY <2>2, <3>2, <4>1
    <3> QED BY <1>2, <1>4, <3>1, <3>2, <3>3
  <2> QED BY <2>1, <2>2
<1> QED
  BY <1>2, <1>3, <1>4 DEF Known, Owned

LEMMA RunOwned ==
    ASSUME TypeInv, OwnerInv, NEW r \in Runs, RunStep(r)
    PROVE  Known' /\ Owned'
<1>1. ASSUME NEW j \in Jobs, handleRun(r, j)
      PROVE  Known' /\ Owned'
  <2> DEFINE new == [status |-> "pending", run |-> r]
  <2>1. new \in Job /\ Replace(r, j, new)
    BY <1>1 DEF handleRun, Job, Active
  <2>2. /\ mem'[j] = new /\ \A k \in Jobs \ {j} : mem'[k] = mem[k]
        /\ unsaved \subseteq unsaved' /\ contested \subseteq contested'
        /\ mem[j] # NoJob => j \in contested'
        /\ job' = [job EXCEPT ![r] = j] /\ pc' = [pc EXCEPT ![r] = "pending"]
        /\ pc[r] = "free"
    BY <1>1, <2>1, ReplaceEffect DEF handleRun
  <2>3. ASSUME NEW q \in Runs, pc'[q] # "free", job'[q] \notin unsaved'
        PROVE  mem'[job'[q]].status # "none"
    <3>1. CASE job'[q] = j
      BY <2>2, <3>1
    <3>2. CASE job'[q] # j
      <4>1. q # r /\ job'[q] = job[q] /\ pc'[q] = pc[q] /\ job[q] \in Jobs
        BY <2>2, <2>3, <3>2 DEF TypeInv, TypeOK, Named
      <4> QED BY <2>2, <2>3, <3>2, <4>1 DEF OwnerInv, Known
    <3> QED BY <3>1, <3>2
  <2>4. ASSUME NEW q \in Runs, pc'[q] \in Live,
               job'[q] \notin contested' \cup unsaved'
        PROVE  mem'[job'[q]] = [status |-> StatusAt(pc'[q]), run |-> q]
    <3>1. CASE q = r
      <4>1. job'[q] = j /\ pc'[q] = "pending"
        BY <2>2, <3>1 DEF TypeInv, TypeOK
      <4> QED BY <2>2, <3>1, <4>1 DEF StatusAt
    <3>2. CASE q # r
      <4>1. job'[q] = job[q] /\ pc'[q] = pc[q] /\ job[q] \in Jobs /\ pc[q] # "free"
        BY <2>2, <2>4, <3>2 DEF TypeInv, TypeOK, Named, Live
      <4>2. mem[job[q]] # NoJob
        BY <2>2, <2>4, <4>1 DEF OwnerInv, Known, NoJob
      <4>3. job[q] # j
        BY <2>2, <2>4, <4>1, <4>2
      <4> QED BY <2>2, <2>4, <4>1, <4>3 DEF OwnerInv, Owned
    <3> QED BY <3>1, <3>2
  <2> QED BY <2>3, <2>4 DEF Known, Owned
<1>2. CASE Start(r) \/ Panic(r) \/ Abort(r) \/ Complete(r)
  BY <1>2, BecomesOwned DEF Start, Panic, Abort, Complete, Active, Live, StatusAt
<1>3. CASE Launch(r) \/ ShardEnds(r) \/ Collect(r) \/ ConsumeReturns(r) \/ Timeout(r)
           \/ Finish(r)
  <2>1. UNCHANGED <<mem, job, contested, unsaved>>
    BY <1>3 DEF Launch, ShardEnds, Collect, ConsumeReturns, Timeout, Finish,
                storeVars, histVars
  <2>2. \A q \in Runs : /\ pc'[q] # "free" => pc[q] # "free"
                        /\ pc'[q] \in Live => pc[q] \in Live
                                              /\ StatusAt(pc'[q]) = StatusAt(pc[q])
    BY <1>3 DEF Launch, ShardEnds, Collect, ConsumeReturns, Timeout, Finish,
                TypeInv, TypeOK, Live, StatusAt
  <2> QED
    BY <2>1, <2>2 DEF OwnerInv, Known, Owned
<1> QED
  BY <1>1, <1>2, <1>3 DEF RunStep

LEMMA OwnerStep ==
    ASSUME TypeInv, OwnerInv, [Next]_vars
    PROVE  OwnerInv'
<1>0. RedisInv'
  BY RedisStep DEF OwnerInv
<1>1. ASSUME NEW c \in Cancels, CancelStep(c)
      PROVE  Known' /\ Owned'
  <2>1. CASE CancelReplaces(c)
    <3> DEFINE j == job[snap[c].run]
               new == [status |-> "aborted", run |-> snap[c].run]
    <3>1. j \in Jobs /\ new \in Job /\ Replace(c, j, new)
      BY <2>1 DEF CancelReplaces, TypeInv, Named, Job
    <3>2. /\ mem'[j] = new /\ \A k \in Jobs \ {j} : mem'[k] = mem[k]
          /\ unsaved \subseteq unsaved' /\ contested' = contested \cup {j}
          /\ UNCHANGED <<job, pc>>
      BY <2>1, <3>1, ReplaceEffect DEF CancelReplaces, runVars
    <3> HIDE DEF j
    <3>3. \A q \in Runs : pc[q] # "free" => job[q] \in Jobs
      BY DEF TypeInv, Named
    <3>4. Known'
      BY <3>2, <3>3 DEF OwnerInv, Known
    <3>5. Owned'
      BY <3>2, <3>3 DEF OwnerInv, Owned, Live
    <3> QED BY <3>4, <3>5
  <2>2. CASE ~CancelReplaces(c)
    BY <1>1, <2>2 DEF CancelStep, CancelChecks, CancelCancels, OwnerInv, Known, Owned,
                      storeVars, runVars, histVars
  <2> QED BY <2>1, <2>2
<1>2. ASSUME NEW a \in Runs \cup Cancels, HSet(a)
      PROVE  Known' /\ Owned'
  BY <1>2 DEF HSet, OwnerInv, Known, Owned, runVars
<1>3. ASSUME Restart
      PROVE  Known' /\ Owned'
  <2>1. /\ pc' = [r \in Runs |-> IF pc[r] \in Live \cup {"ended"} THEN "dead"
                                                                 ELSE pc[r]]
        /\ job' = job
    BY <1>3 DEF Restart
  <2>2. \A r \in Runs : pc'[r] \notin Live /\ (pc'[r] # "free" => pc[r] # "free")
    BY <2>1 DEF TypeInv, TypeOK, Live
  <2>3. \A k \in Jobs \ unsaved' :
          k \notin unsaved /\ (mem[k].status # "none" => mem'[k].status # "none")
    BY <1>3, RestartFollows DEF OwnerInv
  <2> QED
    BY <2>1, <2>2, <2>3 DEF OwnerInv, Known, Owned, TypeInv, Named
<1>4. ASSUME UNCHANGED vars
      PROVE  Known' /\ Owned'
  BY <1>4 DEF OwnerInv, Known, Owned, vars, storeVars, runVars, histVars
<1> QED
  BY <1>0, <1>1, <1>2, <1>3, <1>4, RunOwned DEF Next, OwnerInv

LEMMA OwnerInit ==
    ASSUME Init
    PROVE  OwnerInv
  BY RedisInit DEF Init, OwnerInv, Known, Owned, Live

\* A step that keeps the status of every job but at most interferes with more.
LEMMA Contests ==
    ASSUME TypeInv, TypeInv',
           contested \subseteq contested', unsaved \subseteq unsaved',
           \A k \in Jobs \ (contested' \cup unsaved') : mem'[k].status = mem[k].status
    PROVE  Lifecycle!Next
  BY DEF Lifecycle!Next, Lifecycle!Contest, Lifecycle!Keeps, Lifecycle!Active,
         Lifecycle!Settled, Status, TypeInv, TypeOK, Job, NoJob, Active

\* A step that moves on the one job j, which it may interfere with.
LEMMA Moves ==
    ASSUME TypeInv, TypeInv', NEW j \in Jobs,
           contested \subseteq contested', unsaved \subseteq unsaved',
           \A k \in Jobs \ {j} : mem'[k] = mem[k],
           \/ j \in contested' \cup unsaved'
           \/ mem[j].status = "none" /\ mem'[j].status = "pending"
           \/ mem[j].status = "pending" /\ mem'[j].status = "running"
           \/ mem[j].status = "running" /\ mem'[j].status \in {"completed", "aborted"}
    PROVE  Lifecycle!Next
<1>1. CASE j \in contested' \cup unsaved'
  BY <1>1, Contests
<1>2. CASE j \notin contested' \cup unsaved'
  <2>1. /\ Lifecycle!Keeps(Jobs \ {j})
        /\ contested \cup unsaved \subseteq contested' \cup unsaved'
        /\ [k \in Jobs |-> Status(k)]' \in
             [Jobs -> {"none"} \cup Lifecycle!Active \cup Lifecycle!Settled]
    BY DEF Lifecycle!Keeps, Lifecycle!Active, Lifecycle!Settled, Status, TypeInv,
           TypeOK, Job, NoJob, Active
  <2>2. Lifecycle!Submit(j) \/ Lifecycle!Start(j) \/ Lifecycle!Settle(j)
    BY <1>2, <2>1 DEF Lifecycle!Submit, Lifecycle!Start, Lifecycle!Settle,
                      Lifecycle!Settled, Status
  <2> QED BY <2>1, <2>2 DEF Lifecycle!Next
<1> QED BY <1>1, <1>2

LEMMA BecomesMoves ==
    ASSUME TypeInv, TypeInv', OwnerInv, NEW r \in Runs, pc[r] \in Live,
           NEW status \in Active \cup {"completed", "aborted"}, NEW next,
           Becomes(r, status, next),
           \/ StatusAt(pc[r]) = "pending" /\ status = "running"
           \/ StatusAt(pc[r]) = "running" /\ status \in {"completed", "aborted"}
    PROVE  Lifecycle!Next
<1> DEFINE new == [status |-> status, run |-> r]
<1>1. new \in Job /\ job[r] \in Jobs /\ Replace(r, job[r], new)
  BY DEF TypeInv, Named, Live, Job, Becomes
<1>2. /\ mem'[job[r]] = new /\ \A k \in Jobs \ {job[r]} : mem'[k] = mem[k]
      /\ unsaved \subseteq unsaved' /\ contested' = contested
  BY <1>1, ReplaceEffect DEF Becomes
<1>3. mem'[job[r]].status = status
  BY <1>2
<1>4. \/ job[r] \in contested' \cup unsaved'
      \/ mem[job[r]].status = StatusAt(pc[r])
  <2>1. \/ job[r] \in contested' \cup unsaved'
        \/ mem[job[r]] = [status |-> StatusAt(pc[r]), run |-> r]
    BY <1>2 DEF OwnerInv, Owned
  <2> QED BY <2>1
<1> QED
  BY <1>1, <1>2, <1>3, <1>4, Moves

LEMMA LifecycleStep ==
    ASSUME TypeInv, TypeInv', OwnerInv, [Next]_vars
    PROVE  Lifecycle!Next \/ UNCHANGED <<[j \in Jobs |-> Status(j)], contested \cup unsaved>>
<1>1. ASSUME NEW r \in Runs, NEW j \in Jobs, handleRun(r, j)
      PROVE  Lifecycle!Next
  <2> DEFINE new == [status |-> "pending", run |-> r]
  <2>1. new \in Job /\ Replace(r, j, new)
    BY <1>1 DEF handleRun, Job, Active
  <2>2. /\ mem'[j] = new /\ \A k \in Jobs \ {j} : mem'[k] = mem[k]
        /\ unsaved \subseteq unsaved' /\ contested \subseteq contested'
        /\ mem[j] # NoJob => j \in contested'
    BY <1>1, <2>1, ReplaceEffect DEF handleRun
  <2>3. mem'[j].status = "pending" /\ NoJob.status = "none"
    BY <2>2 DEF NoJob
  <2> QED BY <2>2, <2>3, Moves
<1>2. ASSUME NEW r \in Runs, Start(r) \/ Panic(r) \/ Abort(r) \/ Complete(r)
      PROVE  Lifecycle!Next
  BY <1>2, BecomesMoves DEF Start, Panic, Abort, Complete, Active, Live, StatusAt
<1>3. ASSUME NEW c \in Cancels, CancelReplaces(c)
      PROVE  Lifecycle!Next
  <2> DEFINE j == job[snap[c].run]
             new == [status |-> "aborted", run |-> snap[c].run]
  <2>1. j \in Jobs /\ new \in Job /\ Replace(c, j, new)
    BY <1>3 DEF CancelReplaces, TypeInv, Named, Job
  <2>2. /\ \A k \in Jobs \ {j} : mem'[k] = mem[k]
        /\ unsaved \subseteq unsaved' /\ contested' = contested \cup {j}
    BY <1>3, <2>1, ReplaceEffect DEF CancelReplaces
  <2> HIDE DEF j
  <2> QED BY <2>1, <2>2, Moves
<1>4. CASE Restart
  <2>1. /\ \A k \in Jobs \ unsaved' : mem'[k].status =
             IF mem[k].status \in Active THEN "aborted" ELSE mem[k].status
    BY <1>4, RestartFollows DEF OwnerInv
  <2>2. contested' = contested /\ unsaved \subseteq unsaved'
    BY <1>4 DEF Restart, TypeInv, TypeOK
  <2>3. Lifecycle!Restart
    BY <2>1, <2>2 DEF Lifecycle!Restart, Lifecycle!Active, Status, Active
  <2>4. [k \in Jobs |-> Status(k)]' \in
             [Jobs -> {"none"} \cup Lifecycle!Active \cup Lifecycle!Settled]
    BY DEF Lifecycle!Active, Lifecycle!Settled, Status, TypeInv, TypeOK, Job, NoJob,
           Active
  <2> QED BY <2>2, <2>3, <2>4 DEF Lifecycle!Next
<1>5. ASSUME NEW a \in Runs \cup Cancels, HSet(a)
      PROVE  Lifecycle!Next
  BY <1>5, Contests DEF HSet
<1>6. ASSUME UNCHANGED <<mem, contested, unsaved>>
      PROVE  UNCHANGED <<[j \in Jobs |-> Status(j)], contested \cup unsaved>>
  BY <1>6 DEF Status
<1>7. \/ \E r \in Runs, j \in Jobs : handleRun(r, j)
      \/ \E r \in Runs : Start(r) \/ Panic(r) \/ Abort(r) \/ Complete(r)
      \/ \E c \in Cancels : CancelReplaces(c)
      \/ Restart
      \/ \E a \in Runs \cup Cancels : HSet(a)
      \/ UNCHANGED <<mem, contested, unsaved>>
  BY DEF Next, RunStep, CancelStep, Launch, ShardEnds, Collect, ConsumeReturns,
         Timeout, Finish, CancelChecks, CancelCancels, vars, storeVars, histVars
<1> QED
  BY <1>1, <1>2, <1>3, <1>4, <1>5, <1>6, <1>7

\* What GET /status shows implements JobLifecycle: a job is accepted, runs,
\* settles once and stays settled across restarts, unless it is cancelled, its
\* identifier is submitted again or an HSet is lost or overtaken (handleRun,
\* replaceJob and rehydrateFromRedis, bot-fleet/main.go).
THEOREM StoreImplementsLifecycle == Spec => ImplementsLifecycle
<1>1. Init => Lifecycle!Init
  BY DEF Init, Lifecycle!Init, Status, NoJob
<1>2. ASSUME TypeInv, TypeInv', OwnerInv, [Next]_vars
      PROVE  [Lifecycle!Next]_<<[j \in Jobs |-> Status(j)], contested \cup unsaved>>
  BY <1>2, LifecycleStep
<1> QED
  BY <1>1, <1>2, TypeInit, TypeStep, OwnerInit, OwnerStep, PTL
  DEF Spec, ImplementsLifecycle, Lifecycle!Spec
=============================================================================
