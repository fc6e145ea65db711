--------------------------- MODULE PipelineProofs ---------------------------
(***************************************************************************)
(* TLAPS proofs about Pipeline, for every set of submissions, workers and  *)
(* administrators and every bound on faults, crashes and retries.          *)
(***************************************************************************)
EXTENDS Pipeline, FiniteSetTheorems, TLAPS

\* A loop that is not idle holds the message it was delivered.
HoldsMessage == \A l \in Loops : pc[l] # "idle" => msg[l] \in Entry

TypeInv == TypeOK /\ HoldsMessage

-----------------------------------------------------------------------------
(* Type correctness.                                                       *)

LEMMA NewEntryType ==
    ASSUME TypeOK, NEW q \in Queues, NEW s \in Submissions, NEW r \in Nat,
           Added(q, s, r)
    PROVE  /\ stream' \in [Queues -> SUBSET Entry]
           /\ top' \in [Queues -> Nat]
  BY DEF TypeOK, Added, Entry

LEMMA GatewayType ==
    ASSUME TypeInv, NEW s \in Submissions, Gateway(s)
    PROVE  TypeInv'
<1> USE ConstantsAssumption DEF TypeInv, TypeOK, HoldsMessage
<1>0. "compilation" \in Queues /\ 0 \in Nat
  BY DEF Queues
<1>1. CASE InsertSubmission(s)
  BY <1>1 DEF InsertSubmission, Works, Fails, SetStatus, Statuses,
              redisVars, workerVars, adminVars
<1>2. CASE QueueBuild(s)
  <2>1. /\ stream' \in [Queues -> SUBSET Entry]
        /\ top' \in [Queues -> Nat]
        /\ faults' \in 0..MaxFaults
    BY <1>0, <1>2, NewEntryType
    DEF QueueBuild, XAddOK, XAddErr, Works, Fails
  <2>2. gw' \in [Submissions -> {"new", "inserted", "failing", "accepted",
                                 "rejected"}]
    BY <1>2 DEF QueueBuild
  <2> QED BY <1>2, <2>1, <2>2 DEF QueueBuild, workerVars, adminVars
<1>3. CASE FailQueueing(s)
  BY <1>3 DEF FailQueueing, Update, Works, Fails, SetStatus, Statuses,
              redisVars, workerVars, adminVars
<1> QED BY <1>1, <1>2, <1>3 DEF Gateway

LEMMA GatewayCrashType ==
    ASSUME TypeInv, GatewayCrash
    PROVE  TypeInv'
  BY ConstantsAssumption
  DEF TypeInv, TypeOK, HoldsMessage, GatewayCrash, Fails,
      redisVars, workerVars, adminVars

LEMMA TriggerType ==
    ASSUME TypeInv, NEW a \in Admins, Trigger(a)
    PROVE  TypeInv'
<1> USE ConstantsAssumption DEF TypeInv, TypeOK, HoldsMessage
<1>0. "systest" \in Queues /\ 0 \in Nat
  BY DEF Queues
<1>1. CASE SelectBest(a)
  BY <1>1 DEF SelectBest, redisVars, workerVars
<1>2. CASE ResetForSystest(a)
  BY <1>2 DEF ResetForSystest, Works, Fails, SetStatus, Statuses,
              redisVars, workerVars
<1>3. CASE QueueSystest(a)
  <2>1. PICK s \in handed[a] :
          XAddOK("systest", s, 0) \/ XAddErr("systest", s, 0)
    BY <1>3 DEF QueueSystest
  <2>2. s \in Submissions
    OBVIOUS
  <2>3. CASE XAddOK("systest", s, 0)
    BY <1>0, <1>3, <2>2, <2>3, NewEntryType
    DEF QueueSystest, XAddOK, Works, workerVars
  <2>4. CASE XAddErr("systest", s, 0)
    BY <1>0, <1>3, <2>2, <2>4, NewEntryType
    DEF QueueSystest, XAddErr, Fails, workerVars
  <2> QED BY <2>1, <2>3, <2>4
<1> QED BY <1>1, <1>2, <1>3 DEF Trigger

LEMMA ReadGroupType ==
    ASSUME TypeInv, NEW l \in Loops, ReadGroup(l)
    PROVE  TypeInv'
<1> USE ConstantsAssumption DEF TypeInv, TypeOK, HoldsMessage
<1>1. PICK e \in Undelivered(QueueOf[l]) :
        /\ last' = [last EXCEPT ![QueueOf[l]] = e.id]
        /\ pel' = [pel EXCEPT ![QueueOf[l]] =
                     @ \cup {[entry |-> e, owner |-> ProcOf[l]]}]
        /\ msg' = [msg EXCEPT ![l] = e]
  BY DEF ReadGroup
<1>2. e \in Entry /\ e.id \in Nat
  BY DEF Undelivered, Entry
<1>3. [entry |-> e, owner |-> ProcOf[l]]
        \in [entry : Entry, owner : Processes \cup {Dead}]
  BY <1>2
<1>4. pel' \in [Queues -> SUBSET [entry : Entry, owner : Processes \cup {Dead}]]
  BY <1>1, <1>3
<1>5. /\ pc' \in [Loops -> PCs]
      /\ msg' \in [Loops -> Entry \cup {NoMsg}]
      /\ HoldsMessage'
  BY <1>1, <1>2 DEF ReadGroup, Goto, PCs
<1> QED
  BY <1>1, <1>2, <1>4, <1>5 DEF ReadGroup, adminVars

LEMMA HandleType ==
    ASSUME TypeInv, NEW l \in Loops, Handle(l)
    PROVE  TypeInv'
<1> USE ConstantsAssumption DEF TypeInv, TypeOK, HoldsMessage, Goto, Finish, PCs
<1>0. /\ pc[l] # "idle"
      /\ msg[l] \in Entry
      /\ msg[l].sub \in Submissions
      /\ msg[l].retry \in Nat
  BY DEF Handle, MarkStarted, DoWork, ShouldRetry, RecordResult, Publish,
         FailPublish, RejectBuild, GiveUp, Ack, Del, Entry
<1>1. CASE MarkStarted(l)
  BY <1>0, <1>1 DEF MarkStarted, Update, Works, Fails, SetStatus, Statuses,
                    redisVars, adminVars
<1>2. CASE DoWork(l)
  BY <1>0, <1>2 DEF DoWork, BuildImage, buildImageWithKaniko, redisVars, adminVars
<1>3. CASE ShouldRetry(l)
  <2>1. CASE msg[l].retry < MaxRetries
    <3>1. \/ XAddOK(QueueOf[l], msg[l].sub, msg[l].retry + 1)
          \/ XAddErr(QueueOf[l], msg[l].sub, msg[l].retry + 1)
      BY <1>0, <1>3, <2>1 DEF ShouldRetry
    <3>2. /\ stream' \in [Queues -> SUBSET Entry]
          /\ top' \in [Queues -> Nat]
          /\ faults' \in 0..MaxFaults
      BY <1>0, <3>1, NewEntryType DEF XAddOK, XAddErr, Works, Fails
    <3> QED BY <1>0, <1>3, <2>1, <3>2 DEF ShouldRetry, adminVars
  <2>2. CASE msg[l].retry >= MaxRetries
    BY <1>0, <1>3, <2>2 DEF ShouldRetry, adminVars, Works, Fails
  <2> QED BY <1>0, <2>1, <2>2
<1>4. CASE RecordResult(l)
  BY <1>0, <1>4 DEF RecordResult, Update, Works, Fails, SetStatus, Statuses,
                    redisVars, adminVars
<1>5. CASE Publish(l)
  <2>1. TargetQueue(msg[l].sub) \in Queues /\ 0 \in Nat
    BY DEF TargetQueue, Queues
  <2>2. \/ XAddOK(TargetQueue(msg[l].sub), msg[l].sub, 0)
        \/ XAddErr(TargetQueue(msg[l].sub), msg[l].sub, 0)
    BY <1>5 DEF Publish
  <2>3. /\ stream' \in [Queues -> SUBSET Entry]
        /\ top' \in [Queues -> Nat]
        /\ faults' \in 0..MaxFaults
    BY <1>0, <2>1, <2>2, NewEntryType DEF XAddOK, XAddErr, Works, Fails
  <2> QED BY <1>0, <1>5, <2>3 DEF Publish, adminVars
<1>6. CASE FailPublish(l)
  BY <1>0, <1>6 DEF FailPublish, Update, Works, Fails, SetStatus, Statuses,
                    redisVars, adminVars
<1>7. CASE RejectBuild(l)
  BY <1>0, <1>7 DEF RejectBuild, Update, Works, Fails, SetStatus, Statuses,
                    redisVars, adminVars
<1>8. CASE GiveUp(l)
  BY <1>0, <1>8 DEF GiveUp, Update, Works, Fails, SetStatus, Statuses,
                    redisVars, adminVars
<1>9. CASE Ack(l)
  BY <1>0, <1>9 DEF Ack, Acked, Works, Fails, adminVars
<1>10. CASE Del(l)
  BY <1>0, <1>10 DEF Del, Works, Fails, adminVars
<1> QED
  BY <1>1, <1>2, <1>3, <1>4, <1>5, <1>6, <1>7, <1>8, <1>9, <1>10 DEF Handle

LEMMA CrashType ==
    ASSUME TypeInv, NEW p \in Processes, Crash(p)
    PROVE  TypeInv'
<1> USE ConstantsAssumption DEF TypeInv, TypeOK, HoldsMessage, Crash
<1>1. ASSUME NEW q \in Queues
      PROVE  {[entry |-> r.entry,
               owner |-> IF r.owner = p THEN Dead ELSE r.owner] : r \in pel[q]}
               \in SUBSET [entry : Entry, owner : Processes \cup {Dead}]
  OBVIOUS
<1> QED BY <1>1 DEF PCs, adminVars

LEMMA ClaimType ==
    ASSUME TypeInv, NEW p \in Processes, NEW q \in Queues, ClaimStale(p, q)
    PROVE  TypeInv'
<1> USE DEF TypeInv, TypeOK, HoldsMessage
<1>1. PICK r \in pel[q] :
        pel' = [pel EXCEPT ![q] = (@ \ {r}) \cup {[entry |-> r.entry, owner |-> p]}]
  BY DEF ClaimStale
<1>2. [entry |-> r.entry, owner |-> p] \in [entry : Entry, owner : Processes \cup {Dead}]
  OBVIOUS
<1> QED BY <1>1, <1>2 DEF ClaimStale, workerVars, adminVars

LEMMA TypeStep ==
    ASSUME TypeInv, [Next]_vars
    PROVE  TypeInv'
<1>1. CASE UNCHANGED vars
  BY <1>1 DEF vars, TypeInv, TypeOK, HoldsMessage
<1>2. CASE Next
  BY <1>2, GatewayType, GatewayCrashType, TriggerType, ReadGroupType,
     HandleType, CrashType, ClaimType DEF Next
<1> QED BY <1>1, <1>2

\* Every variable keeps its type; what makes it inductive is that every loop
\* past its XREADGROUP holds a message (HoldsMessage).
THEOREM TypeCorrect == Spec => []TypeOK
<1>1. Init => TypeInv
  BY ConstantsAssumption
  DEF Init, TypeInv, TypeOK, HoldsMessage, Statuses, PCs
<1>2. TypeInv /\ [Next]_vars => TypeInv'
  BY TypeStep
<1>3. TypeInv => TypeOK
  BY DEF TypeInv
<1> QED BY <1>1, <1>2, <1>3, PTL DEF Spec

-----------------------------------------------------------------------------
(* No submission is lost while no call fails.                              *)
(*                                                                         *)
(* The property itself is not inductive: a handler that is about to XACK   *)
(* holds an entry that still makes its submission traceable and will not   *)
(* in a moment.  Covered leaves those entries out, and the two invariants  *)
(* below say why an XACK never removes an entry another loop relies on.    *)

\* From here on the handler no longer needs its own entry.
Released == {"ack", "del", "dlqack", "dlqdel", "giveup"}

\* Stream ids: nothing is delivered or stored above top, no id is reused.
StreamIds ==
    \A q \in Queues :
        /\ last[q] <= top[q]
        /\ \A e \in stream[q] : e.id <= top[q]
        /\ \A e, f \in stream[q] : e.id = f.id => e = f

\* A held entry was delivered, to one loop only, and stays pending until
\* that loop has released it.
HeldEntries ==
    /\ \A l \in Loops : pc[l] # "idle" =>
         /\ msg[l].id <= last[QueueOf[l]]
         /\ pc[l] \notin Released => msg[l] \in Pending(QueueOf[l])
    /\ \A l, m \in Loops :
         (/\ l # m /\ QueueOf[l] = QueueOf[m]
          /\ pc[l] # "idle" /\ pc[m] # "idle") => msg[l].id # msg[m].id

\* Entry e of stream q is pending and no loop is about to acknowledge it.
Kept(q, e) ==
    /\ e \in Pending(q)
    /\ \A l \in Loops :
         (QueueOf[l] = q /\ pc[l] \in Released) => msg[l] # e

Covered(s) ==
    \/ status[s] \in Terminal
    \/ gw[s] # "accepted"
    \/ s \in dlq
    \/ \E a \in Admins : s \in handed[a]
    \/ \E q \in Queues : \E e \in Undelivered(q) : e.sub = s
    \/ \E q \in Queues : \E e \in Entry : Kept(q, e) /\ e.sub = s

\* A trigger has at most one row reset and not yet queued.
OneHanded == \A a \in Admins : \A s, t \in handed[a] : s = t

AllCovered == faults = 0 => \A s \in Submissions : Covered(s)

LossInv == TypeInv /\ StreamIds /\ HeldEntries /\ OneHanded /\ AllCovered

LEMMA AddedFacts ==
    ASSUME TypeOK, StreamIds, UNCHANGED last,
           NEW q \in Queues, NEW s \in Submissions, NEW r \in Nat,
           Added(q, s, r)
    PROVE  /\ StreamIds'
           /\ \E e \in Undelivered(q)' : e.sub = s
           /\ \A p \in Queues : Undelivered(p) \subseteq Undelivered(p)'
<1> DEFINE new == [id |-> top[q] + 1, sub |-> s, retry |-> r]
<1>1. /\ stream' = [stream EXCEPT ![q] = @ \cup {new}]
      /\ top' = [top EXCEPT ![q] = @ + 1]
  BY DEF Added
<1>2. /\ \A e \in stream[q] : e.id \in Nat /\ e.id <= top[q]
      /\ top[q] \in Nat /\ last[q] \in Nat /\ last[q] <= top[q]
      /\ new.id = top[q] + 1 /\ new.sub = s
  BY DEF TypeOK, StreamIds, Entry
<1>3. StreamIds'
  <2> SUFFICES ASSUME NEW p \in Queues
               PROVE  /\ last'[p] <= top'[p]
                      /\ \A e \in stream'[p] : e.id <= top'[p]
                      /\ \A e, f \in stream'[p] : e.id = f.id => e = f
    BY DEF StreamIds
  <2> HIDE DEF new
  <2>1. CASE p = q
    BY <1>1, <1>2, <2>1 DEF TypeOK, StreamIds
  <2>2. CASE p # q
    BY <1>1, <2>2 DEF TypeOK, StreamIds
  <2> QED BY <2>1, <2>2
<1>4. new \in Undelivered(q)'
  BY <1>1, <1>2 DEF TypeOK, Undelivered
<1>5. \A p \in Queues : stream[p] \subseteq stream'[p]
  BY <1>1 DEF TypeOK
<1> QED BY <1>2, <1>3, <1>4, <1>5 DEF Undelivered

\* XADD calls, whichever way they end.
LEMMA XAddFacts ==
    ASSUME TypeOK, StreamIds, UNCHANGED last,
           NEW q \in Queues, NEW s \in Submissions, NEW r \in Nat,
           XAddOK(q, s, r) \/ XAddErr(q, s, r)
    PROVE  /\ StreamIds'
           /\ faults' = faults => \E e \in Undelivered(q)' : e.sub = s
           /\ \A p \in Queues : Undelivered(p) \subseteq Undelivered(p)'
<1>1. CASE Added(q, s, r)
  BY <1>1, AddedFacts
<1>2. CASE UNCHANGED <<stream, top>> /\ Fails
  BY <1>2, ConstantsAssumption DEF StreamIds, Undelivered, Fails, TypeOK
<1> QED BY <1>1, <1>2 DEF XAddOK, XAddErr

LEMMA FaultFree ==
    ASSUME TypeOK
    PROVE  Fails => faults' # 0 /\ faults' # faults
  BY DEF TypeOK, Fails

LEMMA SameStreams ==
    ASSUME StreamIds, UNCHANGED <<stream, top, last>>
    PROVE  StreamIds'
  BY DEF StreamIds

LEMMA ReadFacts ==
    ASSUME TypeInv, StreamIds, NEW l \in Loops, ReadGroup(l)
    PROVE  \E e \in stream[QueueOf[l]] :
             /\ e.id > last[QueueOf[l]]
             /\ \A f \in Undelivered(QueueOf[l]) : f # e => f.id > e.id
             /\ last' = [last EXCEPT ![QueueOf[l]] = e.id]
             /\ pel' = [pel EXCEPT ![QueueOf[l]] =
                          @ \cup {[entry |-> e, owner |-> ProcOf[l]]}]
             /\ msg' = [msg EXCEPT ![l] = e]
             /\ pc' = [pc EXCEPT ![l] = "mark"]
             /\ UNCHANGED <<status, gw, stream, top, dlq, handed, faults>>
<1>1. PICK e \in Undelivered(QueueOf[l]) :
             /\ \A f \in Undelivered(QueueOf[l]) : e.id <= f.id
             /\ last' = [last EXCEPT ![QueueOf[l]] = e.id]
             /\ pel' = [pel EXCEPT ![QueueOf[l]] =
                          @ \cup {[entry |-> e, owner |-> ProcOf[l]]}]
             /\ msg' = [msg EXCEPT ![l] = e]
  BY DEF ReadGroup
<1>2. QueueOf[l] \in Queues
  BY ConstantsAssumption
<1>3. \A f \in Undelivered(QueueOf[l]) : f.id \in Nat /\ (f # e => f.id > e.id)
  <2> TAKE f \in Undelivered(QueueOf[l])
  <2>1. e \in stream[QueueOf[l]] /\ f \in stream[QueueOf[l]] /\ e.id <= f.id
    BY <1>1 DEF Undelivered
  <2>2. e.id \in Nat /\ f.id \in Nat
    BY <1>2, <2>1 DEF TypeInv, TypeOK, Entry
  <2>3. e.id = f.id => e = f
    BY <1>2, <2>1 DEF StreamIds
  <2> QED BY <2>1, <2>2, <2>3
<1> QED
  BY <1>1, <1>3 DEF Undelivered, ReadGroup, Goto, adminVars

LEMMA StreamIdsStep ==
    ASSUME TypeInv, StreamIds, [Next]_vars
    PROVE  StreamIds'
<1> USE ConstantsAssumption, SameStreams
<1>1. CASE UNCHANGED vars
  BY <1>1 DEF vars
<1>2. ASSUME NEW s \in Submissions, Gateway(s)
      PROVE  StreamIds'
  <2>1. CASE QueueBuild(s)
    <3>1. "compilation" \in Queues /\ 0 \in Nat
      BY DEF Queues
    <3> QED BY <2>1, <3>1, XAddFacts DEF QueueBuild, TypeInv
  <2>2. CASE InsertSubmission(s) \/ FailQueueing(s)
    BY <2>2 DEF InsertSubmission, FailQueueing, redisVars
  <2> QED BY <1>2, <2>1, <2>2 DEF Gateway
<1>3. CASE GatewayCrash
  BY <1>3 DEF GatewayCrash, redisVars
<1>4. ASSUME NEW a \in Admins, Trigger(a)
      PROVE  StreamIds'
  <2>1. CASE QueueSystest(a)
    <3>1. "systest" \in Queues /\ 0 \in Nat
      BY DEF Queues
    <3>2. \A s \in handed[a] : s \in Submissions
      BY DEF TypeInv, TypeOK
    <3> QED BY <2>1, <3>1, <3>2, XAddFacts DEF QueueSystest, TypeInv
  <2>2. CASE SelectBest(a) \/ ResetForSystest(a)
    BY <2>2 DEF SelectBest, ResetForSystest, redisVars
  <2> QED BY <1>4, <2>1, <2>2 DEF Trigger
<1>5. ASSUME NEW l \in Loops, ReadGroup(l)
      PROVE  StreamIds'
  <2>1. QueueOf[l] \in Queues
    OBVIOUS
  <2> QED BY <1>5, <2>1, ReadFacts DEF StreamIds, TypeInv, TypeOK
<1>6. ASSUME NEW l \in Loops, Handle(l)
      PROVE  StreamIds'
  <2>0. /\ pc[l] # "idle"
        /\ QueueOf[l] \in Queues
        /\ msg[l].sub \in Submissions
        /\ msg[l].retry \in Nat /\ msg[l].retry + 1 \in Nat
    BY <1>6
    DEF Handle, MarkStarted, DoWork, ShouldRetry, RecordResult, Publish,
        FailPublish, RejectBuild, GiveUp, Ack, Del, Entry, TypeInv, HoldsMessage
  <2>1. CASE ShouldRetry(l)
    BY <2>0, <2>1, XAddFacts DEF ShouldRetry, TypeInv
  <2>2. CASE Publish(l)
    <3>1. TargetQueue(msg[l].sub) \in Queues /\ 0 \in Nat
      BY DEF TargetQueue, Queues
    <3> QED BY <2>0, <2>2, <3>1, XAddFacts DEF Publish, TypeInv
  <2>3. CASE Del(l)
    <3>1. \A q \in Queues : stream'[q] \subseteq stream[q]
      BY <2>3 DEF Del, TypeInv, TypeOK
    <3> QED BY <2>3, <3>1 DEF Del, StreamIds
  <2>4. CASE MarkStarted(l) \/ DoWork(l) \/ RecordResult(l) \/ FailPublish(l)
             \/ RejectBuild(l) \/ GiveUp(l) \/ Ack(l)
    BY <2>4 DEF MarkStarted, DoWork, RecordResult, FailPublish, RejectBuild,
                GiveUp, Ack, redisVars
  <2> QED BY <1>6, <2>1, <2>2, <2>3, <2>4 DEF Handle
<1>7. ASSUME NEW p \in Processes, Crash(p)
      PROVE  StreamIds'
  BY <1>7 DEF Crash
<1>8. ASSUME NEW p \in Processes, NEW q \in Queues, ClaimStale(p, q)
      PROVE  StreamIds'
  BY <1>8 DEF ClaimStale
<1> QED BY <1>1, <1>2, <1>3, <1>4, <1>5, <1>6, <1>7, <1>8 DEF Next

\* XCLAIM and the loss of a process change owners only.
LEMMA SamePending ==
    ASSUME TypeInv, NEW p \in Processes,
           Crash(p) \/ \E q \in Queues : ClaimStale(p, q)
    PROVE  \A q \in Queues : Pending(q)' = Pending(q)
<1>1. CASE Crash(p)
  <2> TAKE q \in Queues
  <2>1. pel'[q] = {[entry |-> r.entry,
                    owner |-> IF r.owner = p THEN Dead ELSE r.owner] :
                      r \in pel[q]}
    BY <1>1 DEF Crash
  <2> DEFINE Lost(r) == [entry |-> r.entry,
                         owner |-> IF r.owner = p THEN Dead ELSE r.owner]
  <2>2. \A r : Lost(r).entry = r.entry
    OBVIOUS
  <2>3. pel'[q] = {Lost(r) : r \in pel[q]}
    BY <2>1
  <2> HIDE DEF Lost
  <2>4. ASSUME NEW e \in Pending(q)
        PROVE  e \in Pending(q)'
    <3>1. PICK r \in pel[q] : e = r.entry
      BY DEF Pending
    <3>2. Lost(r) \in pel'[q] /\ Lost(r).entry = e
      BY <2>2, <2>3, <3>1
    <3> QED BY <3>2 DEF Pending
  <2>5. ASSUME NEW e \in Pending(q)'
        PROVE  e \in Pending(q)
    <3>1. PICK t \in pel'[q] : e = t.entry
      BY DEF Pending
    <3>2. PICK r \in pel[q] : t = Lost(r)
      BY <2>3
    <3>3. r.entry = e
      BY <2>2, <3>1, <3>2
    <3> QED BY <3>3 DEF Pending
  <2> QED BY <2>4, <2>5
<1>2. ASSUME NEW c \in Queues, ClaimStale(p, c)
      PROVE  \A q \in Queues : Pending(q)' = Pending(q)
  <2>1. PICK r \in pel[c] :
          pel' = [pel EXCEPT ![c] =
                    (@ \ {r}) \cup {[entry |-> r.entry, owner |-> p]}]
    BY <1>2 DEF ClaimStale
  <2> TAKE q \in Queues
  <2>2. CASE q = c
    <3>1. pel'[q] = (pel[q] \ {r}) \cup {[entry |-> r.entry, owner |-> p]}
      BY <2>1, <2>2 DEF TypeInv, TypeOK
    <3> DEFINE claimed == [entry |-> r.entry, owner |-> p]
    <3>2. claimed.entry = r.entry /\ pel'[q] = (pel[q] \ {r}) \cup {claimed}
      BY <3>1
    <3> HIDE DEF claimed
    <3>3. r \in pel[q]
      BY <2>2
    <3>4. ASSUME NEW e \in Pending(q)
          PROVE  e \in Pending(q)'
      <4>1. PICK t \in pel[q] : e = t.entry
        BY DEF Pending
      <4>2. \E u \in pel'[q] : u.entry = e
        BY <3>2, <4>1
      <4> QED BY <4>2 DEF Pending
    <3>5. ASSUME NEW e \in Pending(q)'
          PROVE  e \in Pending(q)
      <4>1. PICK t \in pel'[q] : e = t.entry
        BY DEF Pending
      <4>2. \E u \in pel[q] : u.entry = e
        BY <3>2, <3>3, <4>1
      <4> QED BY <4>2 DEF Pending
    <3> QED BY <3>4, <3>5
  <2>3. CASE q # c
    BY <2>1, <2>3 DEF TypeInv, TypeOK, Pending
  <2> QED BY <2>2, <2>3
<1> QED BY <1>1, <1>2

LEMMA HeldStep ==
    ASSUME TypeInv, TypeInv', StreamIds, HeldEntries, [Next]_vars
    PROVE  HeldEntries'
<1> USE ConstantsAssumption
<1>0. ASSUME UNCHANGED <<pc, msg, pel, last>>
      PROVE  HeldEntries'
  BY <1>0 DEF HeldEntries, Pending
<1>1. CASE UNCHANGED vars
  BY <1>0, <1>1 DEF vars
<1>2. ASSUME NEW s \in Submissions, Gateway(s)
      PROVE  HeldEntries'
  BY <1>0, <1>2 DEF Gateway, InsertSubmission, QueueBuild, FailQueueing,
                    redisVars, workerVars
<1>3. CASE GatewayCrash
  BY <1>0, <1>3 DEF GatewayCrash, redisVars, workerVars
<1>4. ASSUME NEW a \in Admins, Trigger(a)
      PROVE  HeldEntries'
  BY <1>0, <1>4 DEF Trigger, SelectBest, ResetForSystest, QueueSystest,
                    redisVars, workerVars
<1>5. ASSUME NEW l \in Loops, ReadGroup(l)
      PROVE  HeldEntries'
  <2> DEFINE q == QueueOf[l]
  <2>1. PICK e \in stream[q] :
             /\ e.id > last[q]
             /\ last' = [last EXCEPT ![q] = e.id]
             /\ pel' = [pel EXCEPT ![q] =
                          @ \cup {[entry |-> e, owner |-> ProcOf[l]]}]
             /\ msg' = [msg EXCEPT ![l] = e]
             /\ pc' = [pc EXCEPT ![l] = "mark"]
    BY <1>5, ReadFacts
  <2>2. /\ q \in Queues /\ e.id \in Nat /\ last[q] \in Nat
        /\ \A m \in Loops : pc[m] # "idle" => msg[m].id \in Nat
    BY DEF TypeInv, TypeOK, HoldsMessage, Entry
  <2>3. /\ Pending(q)' = Pending(q) \cup {e}
        /\ \A p \in Queues : Pending(p) \subseteq Pending(p)'
    <3> DEFINE new == [entry |-> e, owner |-> ProcOf[l]]
    <3>1. /\ pel'[q] = pel[q] \cup {new}
          /\ \A p \in Queues : pel[p] \subseteq pel'[p]
          /\ new.entry = e
      BY <2>1, <2>2 DEF TypeInv, TypeOK
    <3> HIDE DEF new, q
    <3> QED BY <3>1, Zenon DEF Pending
  <2>4. \A m \in Loops : QueueOf[m] \in Queues
    OBVIOUS
  <2>5. \A m \in Loops : m # l => msg'[m] = msg[m] /\ pc'[m] = pc[m]
    BY <2>1 DEF TypeInv, TypeOK
  <2>6. msg'[l] = e /\ pc'[l] = "mark" /\ last'[q] = e.id
    BY <2>1, <2>2 DEF TypeInv, TypeOK
  <2>7. \A p \in Queues : p # q => last'[p] = last[p]
    BY <2>1 DEF TypeInv, TypeOK
  <2>8. ASSUME NEW m \in Loops, pc'[m] # "idle"
        PROVE  /\ msg'[m].id <= last'[QueueOf[m]]
               /\ pc'[m] \notin Released => msg'[m] \in Pending(QueueOf[m])'
    <3>1. CASE m = l
      BY <2>2, <2>3, <2>6, <3>1
    <3>2. CASE m # l
      BY <2>1, <2>2, <2>3, <2>4, <2>5, <2>6, <2>7, <2>8, <3>2 DEF HeldEntries
    <3> QED BY <3>1, <3>2
  <2>9. ASSUME NEW m \in Loops, m # l, QueueOf[m] = q, pc'[m] # "idle"
        PROVE  msg'[m].id < e.id
    BY <2>1, <2>2, <2>5, <2>9 DEF HeldEntries
  <2> HIDE DEF q
  <2>10. ASSUME NEW m \in Loops, NEW n \in Loops, m # n,
                QueueOf[m] = QueueOf[n], pc'[m] # "idle", pc'[n] # "idle"
         PROVE  msg'[m].id # msg'[n].id
    BY <2>2, <2>5, <2>6, <2>9, <2>10 DEF HeldEntries, q
  <2> QED BY <2>8, <2>10 DEF HeldEntries
<1>6. ASSUME NEW l \in Loops, Handle(l)
      PROVE  HeldEntries'
  <2>1. /\ last' = last
        /\ pc[l] # "idle"
        /\ \A m \in Loops : m # l => pc'[m] = pc[m] /\ msg'[m] = msg[m]
        /\ pc'[l] # "idle" => msg'[l] = msg[l]
        /\ (pc'[l] # "idle" /\ pc'[l] \notin Released) =>
              (pc[l] \notin Released /\ pel' = pel)
        /\ pel' = pel \/ Acked(l)
    BY <1>6
    DEF Handle, MarkStarted, DoWork, ShouldRetry, RecordResult, Publish,
        FailPublish, RejectBuild, GiveUp, Ack, Del, Goto, Finish, Released,
        redisVars, TypeInv, TypeOK
  <2>2. ASSUME NEW m \in Loops, m # l, pc[m] # "idle",
               msg[m] \in Pending(QueueOf[m])
        PROVE  msg[m] \in Pending(QueueOf[m])'
    <3>1. CASE pel' = pel
      BY <2>2, <3>1 DEF Pending
    <3>2. CASE Acked(l)
      <4>1. QueueOf[l] \in Queues /\ QueueOf[m] \in Queues
        OBVIOUS
      <4>2. CASE QueueOf[m] = QueueOf[l]
        <5>1. msg[m] # msg[l]
          BY <2>1, <2>2, <4>2 DEF HeldEntries
        <5>2. pel'[QueueOf[m]] = {r \in pel[QueueOf[m]] : r.entry # msg[l]}
          BY <3>2, <4>1, <4>2 DEF Acked, TypeInv, TypeOK
        <5> QED BY <2>2, <5>1, <5>2 DEF Pending
      <4>3. CASE QueueOf[m] # QueueOf[l]
        BY <2>2, <3>2, <4>1, <4>3 DEF Acked, Pending, TypeInv, TypeOK
      <4> QED BY <4>2, <4>3
    <3> QED BY <2>1, <3>1, <3>2
  <2>3. ASSUME NEW m \in Loops, pc'[m] # "idle"
        PROVE  /\ msg'[m].id <= last'[QueueOf[m]]
               /\ pc'[m] \notin Released => msg'[m] \in Pending(QueueOf[m])'
    <3>1. CASE m = l
      BY <2>1, <2>3, <3>1 DEF HeldEntries, Pending
    <3>2. CASE m # l
      BY <2>1, <2>2, <2>3, <3>2 DEF HeldEntries
    <3> QED BY <3>1, <3>2
  <2>4. ASSUME NEW m \in Loops, NEW n \in Loops, m # n,
               QueueOf[m] = QueueOf[n], pc'[m] # "idle", pc'[n] # "idle"
        PROVE  msg'[m].id # msg'[n].id
    BY <2>1, <2>4 DEF HeldEntries
  <2> QED BY <2>3, <2>4 DEF HeldEntries
<1>7. ASSUME NEW p \in Processes, Crash(p)
      PROVE  HeldEntries'
  <2>1. /\ \A l \in Loops : pc'[l] # "idle" => pc'[l] = pc[l] /\ msg'[l] = msg[l]
        /\ last' = last
    BY <1>7 DEF Crash
  <2> QED BY <1>7, <2>1, SamePending DEF HeldEntries
<1>8. ASSUME NEW p \in Processes, NEW q \in Queues, ClaimStale(p, q)
      PROVE  HeldEntries'
  <2>1. UNCHANGED <<pc, msg, last>>
    BY <1>8 DEF ClaimStale, workerVars
  <2> QED BY <1>8, <2>1, SamePending DEF HeldEntries
<1> QED BY <1>1, <1>2, <1>3, <1>4, <1>5, <1>6, <1>7, <1>8 DEF Next

LEMMA OneHandedStep ==
    ASSUME TypeInv, OneHanded, [Next]_vars
    PROVE  OneHanded'
<1>1. CASE UNCHANGED handed
  BY <1>1 DEF OneHanded
<1>2. CASE GatewayCrash
  BY <1>2 DEF GatewayCrash, OneHanded
<1>3. ASSUME NEW a \in Admins, ResetForSystest(a) \/ QueueSystest(a)
      PROVE  OneHanded'
  BY <1>3 DEF ResetForSystest, QueueSystest, OneHanded, TypeInv, TypeOK
<1> QED
  BY <1>1, <1>2, <1>3
  DEF Next, vars, Gateway, InsertSubmission, QueueBuild, FailQueueing, Trigger,
      SelectBest, ReadGroup, Handle, MarkStarted, DoWork, ShouldRetry,
      RecordResult, Publish, FailPublish, RejectBuild, GiveUp, Ack, Del, Crash,
      ClaimStale, adminVars

\* A kept entry stays kept while it stays pending and no loop comes to
\* acknowledge it.
LEMMA KeptStep ==
    ASSUME NEW q \in Queues, NEW e \in Entry, Kept(q, e),
           e \in Pending(q)',
           \A m \in Loops :
             (QueueOf[m] = q /\ pc'[m] \in Released) =>
                \/ pc[m] \in Released /\ msg'[m] = msg[m]
                \/ msg'[m] # e
    PROVE  Kept(q, e)'
  BY DEF Kept

\* What keeps a submission covered that a step is not about.
LEMMA CoveredStep ==
    ASSUME NEW s \in Submissions, Covered(s),
           status'[s] = status[s] \/ status'[s] \in Terminal,
           gw'[s] = gw[s] \/ gw'[s] # "accepted",
           s \in dlq => s \in dlq',
           \A a \in Admins : s \in handed[a] => s \in handed'[a],
           \A q \in Queues : \A e \in Undelivered(q) :
             e.sub = s => \/ e \in Undelivered(q)'
                          \/ e \in Entry /\ Kept(q, e)',
           \A q \in Queues : \A e \in Entry :
             (Kept(q, e) /\ e.sub = s) => Kept(q, e)'
    PROVE  Covered(s)'
<1>1. CASE \E q \in Queues : \E e \in Undelivered(q) : e.sub = s
  BY <1>1 DEF Covered
<1>2. CASE \E q \in Queues : \E e \in Entry : Kept(q, e) /\ e.sub = s
  BY <1>2 DEF Covered
<1> QED BY <1>1, <1>2 DEF Covered

\* The entry of a loop that has not released it is kept.
LEMMA HeldIsKept ==
    ASSUME TypeInv, HeldEntries, NEW l \in Loops, pc[l] # "idle",
           pc[l] \notin Released
    PROVE  Kept(QueueOf[l], msg[l]) /\ msg[l] \in Entry
<1>1. msg[l] \in Entry /\ msg[l] \in Pending(QueueOf[l])
  BY DEF TypeInv, HoldsMessage, HeldEntries
<1>2. ASSUME NEW m \in Loops, QueueOf[m] = QueueOf[l], pc[m] \in Released
      PROVE  msg[m] # msg[l]
  <2>1. m # l /\ pc[m] # "idle"
    BY <1>2 DEF Released
  <2> QED BY <1>2, <2>1 DEF HeldEntries
<1> QED BY <1>1, <1>2 DEF Kept

\* A request keeps what it is about covered until the gateway has promised it.
LEMMA GatewayCovered ==
    ASSUME TypeInv, StreamIds, NEW s \in Submissions, Gateway(s),
           NEW t \in Submissions, Covered(t)
    PROVE  Covered(t)'
<1>1. UNCHANGED <<last, pel, dlq, pc, msg, handed>>
  BY DEF Gateway, InsertSubmission, QueueBuild, FailQueueing, redisVars,
         workerVars, adminVars
<1>2. t # s => status'[t] = status[t] /\ gw'[t] = gw[t]
  BY DEF Gateway, InsertSubmission, QueueBuild, FailQueueing, Update, SetStatus,
         TypeInv, TypeOK
<1>3. "compilation" \in Queues /\ 0 \in Nat
  BY DEF Queues
<1>4. \A q \in Queues : Undelivered(q) \subseteq Undelivered(q)'
  <2>1. CASE QueueBuild(s)
    BY <1>1, <1>3, <2>1, XAddFacts DEF QueueBuild, TypeInv
  <2>2. CASE UNCHANGED stream
    BY <1>1, <2>2 DEF Undelivered
  <2> QED
    BY <2>1, <2>2 DEF Gateway, InsertSubmission, FailQueueing, redisVars
<1>5. \A q \in Queues : \A e \in Entry : Kept(q, e) => Kept(q, e)'
  BY <1>1 DEF Kept, Pending
<1>6. Covered(s)'
  <2>1. CASE QueueBuild(s)
    <3>1. CASE XAddOK("compilation", s, 0)
      BY <1>1, <1>3, <3>1, XAddFacts DEF XAddOK, Works, TypeInv, Covered
    <3>2. CASE gw'[s] # "accepted"
      BY <3>2 DEF Covered
    <3> QED BY <2>1, <3>1, <3>2 DEF QueueBuild, TypeInv, TypeOK
  <2>2. CASE InsertSubmission(s) \/ FailQueueing(s)
    BY <2>2 DEF InsertSubmission, FailQueueing, Covered, TypeInv, TypeOK
  <2> QED BY <2>1, <2>2 DEF Gateway
<1>7. CASE t # s
  BY <1>1, <1>2, <1>4, <1>5, <1>7, CoveredStep
<1> QED BY <1>6, <1>7

\* A trigger loses at most the row it was about to queue, by a failing call.
LEMMA TriggerCovered ==
    ASSUME TypeInv, StreamIds, OneHanded, NEW a \in Admins, Trigger(a)
    PROVE  \E s : \A t \in Submissions :
               Covered(t) /\ (t # s \/ faults' = faults) => Covered(t)'
<1>1. UNCHANGED <<gw, last, pel, dlq, pc, msg>>
  BY DEF Trigger, SelectBest, ResetForSystest, QueueSystest, redisVars,
         workerVars, adminVars
<1>2. \A q \in Queues : \A e \in Entry : Kept(q, e) => Kept(q, e)'
  BY <1>1 DEF Kept, Pending
<1>3. CASE SelectBest(a)
  <2>1. UNCHANGED <<status, handed, stream>>
    BY <1>3 DEF SelectBest, redisVars
  <2>2. \A q \in Queues : Undelivered(q) \subseteq Undelivered(q)'
    BY <1>1, <2>1 DEF Undelivered
  <2> QED BY <1>1, <1>2, <2>1, <2>2, CoveredStep
<1>4. CASE ResetForSystest(a)
  <2>1. PICK s \in todo[a] :
          \/ /\ status' = [status EXCEPT ![s] = "queued"]
             /\ handed' = [handed EXCEPT ![a] = {s}]
          \/ UNCHANGED <<status, handed>>
    BY <1>4 DEF ResetForSystest, SetStatus
  <2>2. handed[a] = {} /\ UNCHANGED stream
    BY <1>4 DEF ResetForSystest, redisVars
  <2>3. \A q \in Queues : Undelivered(q) \subseteq Undelivered(q)'
    BY <1>1, <2>2 DEF Undelivered
  <2>4. ASSUME ~UNCHANGED <<status, handed>>
        PROVE  Covered(s)'
    BY <2>1, <2>4 DEF Covered, TypeInv, TypeOK
  <2>5. ASSUME NEW t \in Submissions, Covered(t), t # s \/ UNCHANGED <<status, handed>>
        PROVE  Covered(t)'
    <3>1. \A b \in Admins : t \in handed[b] => t \in handed'[b]
      BY <2>1, <2>2, <2>5 DEF TypeInv, TypeOK
    <3>2. status'[t] = status[t]
      BY <2>1, <2>5 DEF TypeInv, TypeOK
    <3> QED BY <1>1, <1>2, <2>3, <2>5, <3>1, <3>2, CoveredStep
  <2> QED BY <2>4, <2>5
<1>5. CASE QueueSystest(a)
  <2>1. PICK s \in handed[a] : XAddOK("systest", s, 0) \/ XAddErr("systest", s, 0)
    BY <1>5 DEF QueueSystest
  <2>2. s \in Submissions /\ "systest" \in Queues /\ 0 \in Nat
    BY DEF Queues, TypeInv, TypeOK
  <2>3. /\ faults' = faults => \E e \in Undelivered("systest")' : e.sub = s
        /\ \A q \in Queues : Undelivered(q) \subseteq Undelivered(q)'
    BY <1>1, <2>1, <2>2, XAddFacts DEF TypeInv
  <2>4. faults' = faults => Covered(s)'
    BY <2>2, <2>3 DEF Covered
  <2>5. ASSUME NEW t \in Submissions, Covered(t), t # s
        PROVE  Covered(t)'
    <3>1. \A b \in Admins : t \in handed[b] => t \in handed'[b]
      BY <1>5, <2>5 DEF QueueSystest, OneHanded, TypeInv, TypeOK
    <3>2. status'[t] = status[t]
      BY <1>5 DEF QueueSystest
    <3> QED BY <1>1, <1>2, <2>3, <2>5, <3>1, <3>2, CoveredStep
  <2> QED BY <2>4, <2>5
<1> QED BY <1>3, <1>4, <1>5 DEF Trigger

LEMMA ReadCovered ==
    ASSUME TypeInv, StreamIds, HeldEntries, NEW l \in Loops, ReadGroup(l),
           NEW t \in Submissions, Covered(t)
    PROVE  Covered(t)'
<1> DEFINE c == QueueOf[l]
<1>1. PICK e \in stream[c] :
        /\ e.id > last[c]
        /\ \A f \in Undelivered(c) : f # e => f.id > e.id
        /\ last' = [last EXCEPT ![c] = e.id]
        /\ pel' = [pel EXCEPT ![c] =
                     @ \cup {[entry |-> e, owner |-> ProcOf[l]]}]
        /\ msg' = [msg EXCEPT ![l] = e]
        /\ pc' = [pc EXCEPT ![l] = "mark"]
        /\ UNCHANGED <<status, gw, stream, dlq, handed>>
  BY ReadFacts
<1>2. /\ c \in Queues /\ e \in Entry /\ e.id \in Nat /\ last[c] \in Nat
      /\ \A m \in Loops : pc[m] # "idle" => msg[m].id \in Nat
  <2>1. c \in Queues
    BY ConstantsAssumption
  <2>2. e \in Entry /\ last[c] \in Nat
    BY <2>1 DEF TypeInv, TypeOK
  <2>3. \A m \in Loops : pc[m] # "idle" => msg[m] \in Entry
    BY DEF TypeInv, HoldsMessage
  <2> QED BY <2>1, <2>2, <2>3 DEF Entry
<1>3. /\ \A m \in Loops : m # l => msg'[m] = msg[m] /\ pc'[m] = pc[m]
      /\ pc'[l] \notin Released
  BY <1>1 DEF TypeInv, TypeOK, Released
<1>4. /\ e \in Pending(c)'
      /\ \A q \in Queues : Pending(q) \subseteq Pending(q)'
  <2> DEFINE new == [entry |-> e, owner |-> ProcOf[l]]
  <2>1. /\ new \in pel'[c]
        /\ \A q \in Queues : pel[q] \subseteq pel'[q]
        /\ new.entry = e
    BY <1>1, <1>2 DEF TypeInv, TypeOK
  <2> HIDE DEF new, c
  <2> QED BY <2>1, Zenon DEF Pending
<1>5. Kept(c, e)'
  <2> SUFFICES ASSUME NEW m \in Loops, QueueOf[m] = c, pc'[m] \in Released
               PROVE  msg'[m] # e
    BY <1>4 DEF Kept
  <2>1. m # l /\ pc[m] # "idle"
    BY <1>3 DEF Released
  <2>2. msg[m].id <= last[c]
    BY <2>1 DEF HeldEntries
  <2> QED BY <1>1, <1>2, <1>3, <2>1, <2>2
<1>6. \A q \in Queues : \A f \in Entry : Kept(q, f) => Kept(q, f)'
  <2> TAKE q \in Queues
  <2> TAKE f \in Entry
  <2> HAVE Kept(q, f)
  <2>1. f \in Pending(q)'
    BY <1>4 DEF Kept
  <2> QED BY <1>3, <2>1, KeptStep
<1>7. \A q \in Queues : \A f \in Undelivered(q) :
        \/ f \in Undelivered(q)'
        \/ f \in Entry /\ Kept(q, f)'
  <2> TAKE q \in Queues
  <2> TAKE f \in Undelivered(q)
  <2>1. CASE q # c
    BY <1>1, <2>1 DEF Undelivered, TypeInv, TypeOK
  <2>2. CASE q = c /\ f = e
    BY <1>2, <1>5, <2>2
  <2>3. CASE q = c /\ f # e
    BY <1>1, <1>2, <2>3 DEF Undelivered, TypeInv, TypeOK
  <2> QED BY <2>1, <2>2, <2>3
<1> HIDE DEF c
<1> QED BY <1>1, <1>6, <1>7, CoveredStep

\* XCLAIM and crashes of worker processes cover what was covered.
LEMMA RecoveryCovered ==
    ASSUME TypeInv, NEW p \in Processes,
           Crash(p) \/ \E q \in Queues : ClaimStale(p, q),
           NEW t \in Submissions, Covered(t)
    PROVE  Covered(t)'
<1>1. /\ UNCHANGED <<status, gw, stream, last, dlq, handed>>
      /\ \A m \in Loops : pc'[m] \in Released =>
            pc[m] \in Released /\ msg'[m] = msg[m]
  BY DEF Crash, ClaimStale, Released, workerVars, adminVars
<1>2. \A q \in Queues : Undelivered(q) \subseteq Undelivered(q)'
  BY <1>1 DEF Undelivered
<1>3. \A q \in Queues : \A e \in Entry : Kept(q, e) => Kept(q, e)'
  <2> TAKE q \in Queues
  <2> TAKE e \in Entry
  <2> HAVE Kept(q, e)
  <2>1. e \in Pending(q)'
    BY SamePending DEF Kept
  <2> QED BY <1>1, <2>1, KeptStep
<1> QED BY <1>1, <1>2, <1>3, CoveredStep

\* One step of a handler: the submission it is about stays covered by the
\* entry the handler holds, by the entry it has just added, by the dead-letter
\* queue or by its verdict; the others are not touched.
LEMMA HandleCovered ==
    ASSUME TypeInv, StreamIds, HeldEntries, NEW l \in Loops, Handle(l),
           NEW t \in Submissions, Covered(t),
           t # msg[l].sub \/ faults' = faults
    PROVE  Covered(t)'
<1> DEFINE c == QueueOf[l]
<1>a. PICK h, s : h = msg[l] /\ s = msg[l].sub
  OBVIOUS
<1>0. /\ pc[l] # "idle" /\ c \in Queues /\ h \in Entry /\ h = msg[l]
      /\ s \in Submissions /\ s = h.sub /\ s = msg[l].sub
      /\ h.retry \in Nat /\ h.retry + 1 \in Nat
      /\ h.id \in Nat /\ last[c] \in Nat /\ h.id <= last[c]
  BY <1>a, ConstantsAssumption
  DEF Handle, MarkStarted, DoWork, ShouldRetry, RecordResult, Publish,
      FailPublish, RejectBuild, GiveUp, Ack, Del, Entry, TypeInv, TypeOK,
      HoldsMessage, HeldEntries
<1>1. /\ UNCHANGED <<gw, last, handed>>
      /\ \A m \in Loops : m # l => pc'[m] = pc[m] /\ msg'[m] = msg[m]
      /\ pc'[l] # "idle" => msg'[l] = msg[l]
      /\ dlq \subseteq dlq'
      /\ t # s => status'[t] = status[t]
      /\ pel' = pel \/ (Acked(l) /\ pc[l] \in Released)
  BY <1>a
  DEF Handle, MarkStarted, DoWork, ShouldRetry, RecordResult, Publish,
      FailPublish, RejectBuild, GiveUp, Ack, Del, Goto, Finish, Released,
      redisVars, adminVars, Update, SetStatus, TypeInv, TypeOK
<1>2. \A q \in Queues : Undelivered(q) \subseteq Undelivered(q)'
  <2>1. CASE ShouldRetry(l) \/ Publish(l)
    <3>1. TargetQueue(s) \in Queues /\ 0 \in Nat
      BY DEF TargetQueue, Queues
    <3>2. CASE UNCHANGED stream
      BY <1>1, <3>2 DEF Undelivered
    <3>3. CASE ShouldRetry(l) /\ ~UNCHANGED stream
      BY <1>0, <1>1, <3>3, XAddFacts DEF ShouldRetry, TypeInv
    <3>4. CASE Publish(l)
      BY <1>0, <1>1, <3>1, <3>4, XAddFacts DEF Publish, TypeInv
    <3> QED BY <2>1, <3>2, <3>3, <3>4
  <2>2. CASE Del(l)
    <3>1. \A q \in Queues : \A e \in stream[q] :
            e \in stream'[q] \/ (q = c /\ e = h)
      BY <1>0, <2>2 DEF Del, TypeInv, TypeOK
    <3> HIDE DEF c
    <3> QED BY <1>0, <1>1, <3>1 DEF Undelivered
  <2>3. CASE UNCHANGED stream
    BY <1>1, <2>3 DEF Undelivered
  <2> QED
    BY <2>1, <2>2, <2>3
    DEF Handle, MarkStarted, DoWork, RecordResult, FailPublish, RejectBuild,
        GiveUp, Ack, redisVars
<1>3. ASSUME NEW q \in Queues, NEW e \in Entry, Kept(q, e)
      PROVE  e \in Pending(q)'
  <2>1. CASE pel' = pel
    BY <1>3, <2>1 DEF Kept, Pending
  <2>2. CASE Acked(l) /\ pc[l] \in Released
    <3>1. PICK r \in pel[q] : r.entry = e
      BY <1>3 DEF Kept, Pending
    <3>2. q = c => e # h
      BY <1>0, <1>3, <2>2 DEF Kept
    <3>3. r \in pel'[q]
      BY <1>0, <2>2, <3>1, <3>2 DEF Acked, TypeInv, TypeOK
    <3> QED BY <3>1, <3>3 DEF Pending
  <2> QED BY <1>1, <2>1, <2>2
<1>4. ASSUME NEW q \in Queues, NEW e \in Entry, Kept(q, e),
             \/ e.sub # s
             \/ pc'[l] \notin Released
             \/ pc[l] \in Released
      PROVE  Kept(q, e)'
  <2>1. e \in Pending(q)'
    BY <1>3, <1>4
  <2>2. ASSUME NEW m \in Loops, QueueOf[m] = q, pc'[m] \in Released
        PROVE  \/ pc[m] \in Released /\ msg'[m] = msg[m]
               \/ msg'[m] # e
    <3>1. CASE m # l
      BY <1>1, <2>2, <3>1
    <3>2. CASE m = l
      <4>1. msg'[l] = msg[l]
        BY <1>1, <2>2, <3>2 DEF Released
      <4> QED BY <1>0, <1>4, <2>2, <3>2, <4>1
    <3> QED BY <3>1, <3>2
  <2> QED BY <1>4, <2>1, <2>2, KeptStep
<1>5. CASE t # s
  BY <1>1, <1>2, <1>4, <1>5, CoveredStep
<1>6. ASSUME t = s, faults' = faults
      PROVE  Covered(s)'
  <2>1. CASE MarkStarted(l) \/ DoWork(l) \/ (RecordResult(l) /\ IsCompiler(l))
    <3>1. pc[l] \notin Released /\ pc'[l] \notin Released
      BY <2>1
      DEF MarkStarted, DoWork, BuildImage, buildImageWithKaniko, RecordResult,
          Goto, Released, TypeInv, TypeOK
    <3>3. Kept(c, h)
      BY <1>0, <3>1, HeldIsKept
    <3>4. Kept(c, h)'
      BY <1>0, <1>4, <3>1, <3>3
    <3>5. \E e \in Entry : Kept(c, e)' /\ e.sub = s
      BY <1>0, <1>1, <3>4
    <3> QED BY <1>0, <3>5 DEF Covered
  <2>2. CASE ShouldRetry(l)
    <3>1. CASE h.retry < MaxRetries
      <4>1. \E e \in Undelivered(c)' : e.sub = s
        BY <1>0, <1>1, <1>6, <2>2, <3>1, XAddFacts, ConstantsAssumption
        DEF ShouldRetry, TypeInv
      <4> QED BY <1>0, <4>1 DEF Covered
    <3>2. CASE h.retry >= MaxRetries
      <4>1. s \in dlq'
        BY <1>0, <1>6, <2>2, <3>2, FaultFree, ConstantsAssumption
        DEF ShouldRetry, TypeInv
      <4> QED BY <4>1 DEF Covered
    <3> QED BY <1>0, <3>1, <3>2, ConstantsAssumption
  <2>3. CASE Publish(l)
    <3>1. TargetQueue(s) \in Queues /\ 0 \in Nat
      BY DEF TargetQueue, Queues
    <3>2. \E e \in Undelivered(TargetQueue(s))' : e.sub = s
      BY <1>0, <1>1, <1>6, <2>3, <3>1, XAddFacts DEF Publish, TypeInv
    <3> QED BY <3>1, <3>2 DEF Covered
  <2>4. CASE (RecordResult(l) /\ ~IsCompiler(l)) \/ FailPublish(l)
             \/ RejectBuild(l) \/ GiveUp(l)
    <3>1. status'[s] \in Terminal
      BY <1>0, <1>6, <2>4, FaultFree
      DEF RecordResult, FailPublish, RejectBuild, GiveUp, Update, SetStatus,
          Terminal, TypeInv, TypeOK
    <3> QED BY <3>1 DEF Covered
  <2>5. CASE Ack(l) \/ Del(l)
    <3>1. pc[l] \in Released /\ UNCHANGED status
      BY <2>5 DEF Ack, Del, Released
    <3> QED BY <1>0, <1>1, <1>2, <1>4, <1>6, <3>1, CoveredStep
  <2> QED BY <2>1, <2>2, <2>3, <2>4, <2>5 DEF Handle
<1> QED BY <1>0, <1>5, <1>6

\* A fault is counted by the step that suffers it.
LEMMA FaultsCounted ==
    ASSUME [Next]_vars
    PROVE  faults' = faults \/ Fails
  BY DEF Next, vars, Gateway, InsertSubmission, QueueBuild, FailQueueing,
         GatewayCrash, Trigger, SelectBest, ResetForSystest, QueueSystest,
         ReadGroup, Handle, MarkStarted, DoWork, ShouldRetry, RecordResult,
         Publish, FailPublish, RejectBuild, GiveUp, Ack, Del, Crash, ClaimStale,
         XAddOK, XAddErr, Works, Update

\* A step of one process, other than the end of the gateway, uncovers at most
\* one submission, and none unless a call of it fails.
LEMMA OneUncovered ==
    ASSUME TypeInv, StreamIds, HeldEntries, OneHanded, [Next]_vars, ~GatewayCrash
    PROVE  \E s : \A t \in Submissions :
               Covered(t) /\ (t # s \/ faults' = faults) => Covered(t)'
<1>1. CASE UNCHANGED vars
  BY <1>1 DEF vars, Covered, Kept, Pending, Undelivered
<1>2. CASE \E l \in Loops : Handle(l)
  <2>1. PICK l \in Loops : Handle(l)
    BY <1>2
  <2> QED BY <2>1, HandleCovered
<1>3. CASE \E a \in Admins : Trigger(a)
  BY <1>3, TriggerCovered
<1>4. CASE \E s \in Submissions : Gateway(s)
  BY <1>4, GatewayCovered
<1>5. CASE \E l \in Loops : ReadGroup(l)
  BY <1>5, ReadCovered
<1>6. CASE \E p \in Processes : Crash(p) \/ \E q \in Queues : ClaimStale(p, q)
  BY <1>6, RecoveryCovered
<1> QED
  BY <1>1, <1>2, <1>3, <1>4, <1>5, <1>6 DEF Next

LEMMA AllCoveredStep ==
    ASSUME LossInv, [Next]_vars
    PROVE  AllCovered'
<1> SUFFICES ASSUME faults' = 0
             PROVE  \A t \in Submissions : Covered(t)'
  BY DEF AllCovered
<1> USE DEF LossInv
<1>1. ~Fails
  BY FaultFree DEF TypeInv
<1>2. faults' = faults /\ ~GatewayCrash
  BY <1>1, FaultsCounted DEF GatewayCrash
<1> QED
  BY <1>2, OneUncovered DEF AllCovered

LEMMA LossAlways == Spec => []LossInv
<1>1. Init => LossInv
  <2> SUFFICES ASSUME Init
               PROVE  LossInv
    OBVIOUS
  <2>1. TypeInv
    BY ConstantsAssumption
    DEF Init, TypeInv, TypeOK, HoldsMessage, Statuses, PCs
  <2>2. StreamIds /\ HeldEntries /\ OneHanded
    BY DEF Init, StreamIds, HeldEntries, OneHanded
  <2>3. AllCovered
    BY DEF Init, AllCovered, Covered
  <2> QED BY <2>1, <2>2, <2>3 DEF LossInv
<1>2. LossInv /\ [Next]_vars => LossInv'
  <2> SUFFICES ASSUME LossInv, [Next]_vars
               PROVE  LossInv'
    OBVIOUS
  <2>1. TypeInv'
    BY TypeStep DEF LossInv
  <2> QED
    BY <2>1, StreamIdsStep, HeldStep, OneHandedStep, AllCoveredStep DEF LossInv
<1> QED BY <1>1, <1>2, PTL DEF Spec

\* As long as no call to Redis or PostgreSQL has failed, no accepted
\* submission is lost, however many workers, crashes, retries and system-test
\* triggers there are.
THEOREM NoLoss == Spec => []NoLossWithoutFault
<1>1. LossInv => NoLossWithoutFault
  <2> SUFFICES ASSUME LossInv, faults = 0, NEW s \in Submissions
               PROVE  Traceable(s)
    BY DEF NoLossWithoutFault, NoSubmissionVanishes
  <2>1. Covered(s)
    BY DEF LossInv, AllCovered
  <2> QED BY <2>1 DEF Covered, Kept, Traceable
<1> QED BY <1>1, LossAlways, PTL

-----------------------------------------------------------------------------
(* What a fault can cost.                                                  *)

Uncovered == {s \in Submissions : ~Covered(s)}

LossBound == IsFiniteSet(Uncovered) /\ Cardinality(Uncovered) <= faults * MaxLoss

LEMMA MaxLossType ==
    /\ MaxLoss \in Nat \ {0}
    /\ Cardinality(Admins) \in Nat /\ Cardinality(Admins) <= MaxLoss
<1>1. Cardinality(Admins) \in Nat /\ (Cardinality(Admins) = 0 <=> Admins = {})
  BY ConstantsAssumption, FS_CardinalityType, FS_EmptySet
<1> QED BY <1>1 DEF MaxLoss

\* A bounded set that grows by a bounded set.
LEMMA BoundedUnion ==
    ASSUME NEW S, NEW T, NEW H, NEW n \in Nat, NEW m \in Nat,
           IsFiniteSet(S), Cardinality(S) <= n,
           IsFiniteSet(H), Cardinality(H) <= m, T \subseteq S \cup H
    PROVE  IsFiniteSet(T) /\ Cardinality(T) <= n + m
<1>1. /\ IsFiniteSet(S \cup H)
      /\ Cardinality(S \cup H) = Cardinality(S) + Cardinality(H) - Cardinality(S \cap H)
  BY FS_Union
<1>2. IsFiniteSet(S \cap H)
  BY FS_Subset, S \cap H \in SUBSET S
<1>3. /\ Cardinality(S) \in Nat /\ Cardinality(H) \in Nat
      /\ Cardinality(S \cap H) \in Nat
  BY <1>2, FS_CardinalityType
<1>4. IsFiniteSet(T) /\ Cardinality(T) <= Cardinality(S \cup H) /\ Cardinality(T) \in Nat
  BY <1>1, FS_Subset, FS_CardinalityType, T \in SUBSET (S \cup H)
<1> QED BY <1>1, <1>3, <1>4

\* The rows that are reset and not queued yet, at most one per trigger.
LEMMA HandedBounded ==
    ASSUME TypeInv, OneHanded
    PROVE  LET H == UNION {handed[a] : a \in Admins}
           IN IsFiniteSet(H) /\ Cardinality(H) <= Cardinality(Admins)
<1> DEFINE H == UNION {handed[a] : a \in Admins}
           f == [a \in Admins |-> CHOOSE s \in handed[a] : TRUE]
           I == {f[a] : a \in Admins}
<1>1. f \in Surjection(Admins, I)
  BY DEF Surjection
<1>2. IsFiniteSet(I) /\ Cardinality(I) <= Cardinality(Admins) /\ Cardinality(I) \in Nat
  BY <1>1, FS_Surjection, FS_CardinalityType, ConstantsAssumption
<1>3. H \subseteq I
  <2> SUFFICES ASSUME NEW a \in Admins, NEW s \in handed[a]
               PROVE  s = f[a]
    OBVIOUS
  <2> QED BY DEF OneHanded
<1> HIDE DEF H, I
<1>4. IsFiniteSet(H) /\ Cardinality(H) <= Cardinality(I) /\ Cardinality(H) \in Nat
  BY <1>2, <1>3, FS_Subset, FS_CardinalityType
<1>5. Cardinality(Admins) \in Nat
  BY MaxLossType
<1>6. IsFiniteSet(H) /\ Cardinality(H) <= Cardinality(Admins)
  BY <1>2, <1>4, <1>5
<1> QED BY <1>6 DEF H

\* The gateway dies: the triggers' rows are all that is lost.
LEMMA CrashUncovers ==
    ASSUME TypeInv, GatewayCrash, NEW t \in Submissions, Covered(t),
           t \notin UNION {handed[a] : a \in Admins}
    PROVE  Covered(t)'
<1>1. /\ UNCHANGED <<status, stream, last, pel, dlq, pc, msg>>
      /\ gw'[t] = gw[t] \/ gw'[t] # "accepted"
  BY DEF GatewayCrash, redisVars, workerVars
<1>2. \A q \in Queues : Undelivered(q)' = Undelivered(q)
  BY <1>1 DEF Undelivered
<1>3. \A q \in Queues : \A e \in Entry : Kept(q, e) => Kept(q, e)'
  BY <1>1 DEF Kept, Pending
<1> QED BY <1>1, <1>2, <1>3, CoveredStep

LEMMA LossBoundStep ==
    ASSUME LossInv, LossBound, [Next]_vars
    PROVE  LossBound'
<1> DEFINE U == Uncovered
           H == UNION {handed[a] : a \in Admins}
<1>0. faults \in Nat /\ MaxLoss \in Nat \ {0} /\ MaxLoss' = MaxLoss
  BY MaxLossType, ConstantsAssumption DEF LossInv, TypeInv, TypeOK, MaxLoss
<1>1. IsFiniteSet(U) /\ Cardinality(U) <= faults * MaxLoss /\ faults * MaxLoss \in Nat
  BY <1>0 DEF LossBound
<1>2. ASSUME faults' = faults, Uncovered' \subseteq U
      PROVE  LossBound'
  <2>1. IsFiniteSet(Uncovered') /\ Cardinality(Uncovered') <= Cardinality(U)
        /\ Cardinality(Uncovered') \in Nat /\ Cardinality(U) \in Nat
    BY <1>1, <1>2, FS_Subset, FS_CardinalityType
  <2> QED BY <1>0, <1>1, <1>2, <2>1 DEF LossBound
<1>3. ASSUME Fails, NEW G, IsFiniteSet(G), Cardinality(G) <= MaxLoss,
             Uncovered' \subseteq U \cup G
      PROVE  LossBound'
  <2>1. IsFiniteSet(Uncovered') /\ Cardinality(Uncovered') <= faults * MaxLoss + MaxLoss
    BY <1>0, <1>1, <1>3, BoundedUnion
  <2>2. faults' * MaxLoss = faults * MaxLoss + MaxLoss
    BY <1>0, <1>3 DEF Fails
  <2> QED BY <1>0, <2>1, <2>2 DEF LossBound
<1>4. CASE GatewayCrash
  <2>1. Uncovered' \subseteq U \cup H
    BY <1>4, CrashUncovers DEF Uncovered, LossInv
  <2>2. IsFiniteSet(H) /\ Cardinality(H) <= Cardinality(Admins) /\ Cardinality(H) \in Nat
    BY HandedBounded, FS_CardinalityType DEF LossInv
  <2>3. Cardinality(H) <= MaxLoss
    BY <1>0, <2>2, MaxLossType
  <2> QED BY <1>3, <1>4, <2>1, <2>2, <2>3 DEF GatewayCrash
<1>5. CASE ~GatewayCrash
  <2>1. PICK s : \A t \in Submissions :
                    Covered(t) /\ (t # s \/ faults' = faults) => Covered(t)'
    BY <1>5, OneUncovered DEF LossInv
  <2>2. CASE faults' = faults
    BY <1>2, <2>1, <2>2 DEF Uncovered
  <2>3. CASE Fails
    <3>1. IsFiniteSet({s}) /\ Cardinality({s}) = 1
      BY FS_Singleton
    <3>2. Uncovered' \subseteq U \cup {s}
      BY <2>1 DEF Uncovered
    <3> QED BY <1>0, <1>3, <2>3, <3>1, <3>2
  <2> QED BY <2>2, <2>3, FaultsCounted
<1> QED BY <1>4, <1>5

\* However many calls to Redis and PostgreSQL fail, wherever they fail, and
\* whatever crashes, each of them costs at most one submission, and a crash of
\* the gateway at most one for each of its running triggers.
THEOREM EachFaultLosesOne == Spec => []LossBoundedByFaults
<1>1. Init => LossBound
  <2> SUFFICES ASSUME Init PROVE LossBound
    OBVIOUS
  <2>1. Uncovered = {} /\ faults = 0
    BY DEF Init, Uncovered, Covered
  <2> QED BY <2>1, FS_EmptySet, MaxLossType DEF LossBound
<1>2. LossInv /\ LossBound /\ [Next]_vars => LossBound'
  BY LossBoundStep
<1>3. LossInv /\ LossBound => LossBoundedByFaults
  <2> SUFFICES ASSUME LossInv, LossBound PROVE LossBoundedByFaults
    OBVIOUS
  <2> DEFINE V == {s \in Submissions : ~Traceable(s)}
  <2>1. V \subseteq Uncovered
    BY DEF Uncovered, Covered, Kept, Traceable
  <2>2. Cardinality(V) <= Cardinality(Uncovered)
        /\ Cardinality(V) \in Nat /\ Cardinality(Uncovered) \in Nat
    BY <2>1, FS_Subset, FS_CardinalityType DEF LossBound
  <2>3. faults * MaxLoss \in Nat
    BY MaxLossType DEF LossInv, TypeInv, TypeOK
  <2> QED BY <2>2, <2>3 DEF LossBound, LossBoundedByFaults
<1> QED BY <1>1, <1>2, <1>3, LossAlways, PTL DEF Spec

-----------------------------------------------------------------------------
(* Who writes the status of a submission.  Without failing calls, and with *)
(* one trigger at a time, a submission is with one party only: the         *)
(* gateway, a trigger, an entry nobody has read, or a loop that is going   *)
(* to write its status.  So no two loops judge it at the same time, and    *)
(* the writes add up to SubmissionLifecycle.                               *)

Quiet == faults = 0 /\ \A a, b \in Admins : a = b

\* Loop l is going to write the status of s.
Writes(l, s) == WillWrite(l) /\ msg[l].sub = s

Handed(s) == \E a \in Admins : s \in handed[a]

\* Nobody works on s and nobody is going to read an entry for it.
Free(s) ==
    /\ \A l \in Loops : ~Writes(l, s)
    /\ \A q \in Queues : \A e \in Undelivered(q) : e.sub # s

\* Submission s is with one party only.
Alone(s) ==
    /\ \A l, m \in Loops : Writes(l, s) /\ Writes(m, s) => l = m
    /\ \A q, r \in Queues : \A e \in Undelivered(q), f \in Undelivered(r) :
          e.sub = s /\ f.sub = s => q = r /\ e = f
    /\ \A l \in Loops, q \in Queues : \A e \in Undelivered(q) : Writes(l, s) => e.sub # s
    /\ Handed(s) => Free(s)
    /\ gw[s] \in {"new", "inserted"} => Free(s) /\ ~Handed(s)
    /\ status[s] = "completed" => Free(s) /\ ~Handed(s)

\* The statuses of a submission with an entry in stream q.
Entering(q) ==
    IF q = "compilation" THEN {"queued", "building"} ELSE {"built", "running", "queued"}

\* The statuses of the submission a loop works on, by the loop's next step.
Expected(l) ==
    CASE pc[l] = "mark"    -> Entering(QueueOf[l])
      [] pc[l] = "publish" -> {"built"}
      [] OTHER             -> {IF IsCompiler(l) THEN "building" ELSE "running"}

\* The status of s agrees with the party it is with.
Fits(s) ==
    /\ gw[s] = "new" => status[s] = "none"
    /\ gw[s] = "inserted" => status[s] = "queued"
    /\ gw[s] # "failing"
    /\ Handed(s) => status[s] = "queued"
    /\ \A a \in Admins : s \in todo[a] => status[s] = "completed"
    /\ \A q \in Queues : \A e \in Undelivered(q) : e.sub = s => status[s] \in Entering(q)
    /\ \A l \in Loops : Writes(l, s) =>
          /\ status[s] \in Expected(l)
          /\ pc[l] # "queuefail"
          /\ pc[l] \in {"publish", "reject"} => IsCompiler(l)

WriterInv == Quiet => \A s \in Submissions : Alone(s) /\ Fits(s)

-----------------------------------------------------------------------------
(* What steps leave alone.                                                 *)

\* A submission that a step is not about.
LEMMA Frame ==
    ASSUME NEW t \in Submissions, Alone(t), Fits(t),
           gw'[t] = gw[t], status'[t] = status[t],
           \A l \in Loops : Writes(l, t)' => Writes(l, t) /\ pc'[l] = pc[l],
           \A q \in Queues : \A e \in Undelivered(q)' : e.sub = t => e \in Undelivered(q),
           \A a \in Admins : t \in handed'[a] => t \in handed[a],
           \A a \in Admins : t \in todo'[a] => t \in todo[a] \/ status[t] = "completed"
    PROVE  Alone(t)' /\ Fits(t)'
<1>1. Handed(t)' => Handed(t)
  BY DEF Handed
<1>2. Free(t) => Free(t)'
  BY DEF Free
<1>3. Alone(t)'
  BY <1>1, <1>2 DEF Alone
<1>4. \A l \in Loops : Writes(l, t)' => Expected(l)' = Expected(l)
  BY DEF Expected, IsCompiler
<1>5. Fits(t)'
  BY <1>1, <1>4 DEF Fits
<1> QED BY <1>3, <1>5

\* An XADD makes one more entry that waits to be read.
LEMMA OneAdded ==
    ASSUME TypeOK, UNCHANGED last, NEW q \in Queues, NEW s, NEW r, Added(q, s, r)
    PROVE  \E new : /\ new.sub = s
                    /\ \A p \in Queues : \A e \in Undelivered(p)' :
                          e \in Undelivered(p) \/ (p = q /\ e = new)
<1> DEFINE new == [id |-> top[q] + 1, sub |-> s, retry |-> r]
<1>1. \A p \in Queues : \A e \in stream'[p] : e \in stream[p] \/ (p = q /\ e = new)
  BY DEF Added, TypeOK
<1>2. new.sub = s
  OBVIOUS
<1> HIDE DEF new
<1> QED BY <1>1, <1>2 DEF Undelivered

\* A step without a failing call.
LEMMA NoFault ==
    ASSUME TypeOK, faults' = 0, [Next]_vars
    PROVE  faults = 0 /\ ~Fails /\ ~GatewayCrash
  BY FaultFree, FaultsCounted DEF GatewayCrash

-----------------------------------------------------------------------------
(* The steps.                                                              *)

LEMMA GatewayWriter ==
    ASSUME TypeOK, NEW s \in Submissions, Gateway(s), ~Fails,
           NEW t \in Submissions, Alone(t), Fits(t)
    PROVE  Alone(t)' /\ Fits(t)'
<1>1. UNCHANGED <<last, pc, msg, todo, handed>>
  BY DEF Gateway, InsertSubmission, QueueBuild, FailQueueing, redisVars,
         workerVars, adminVars
<1>2. /\ \A l \in Loops : Writes(l, t)' <=> Writes(l, t)
      /\ Handed(t)' <=> Handed(t)
      /\ \A l \in Loops : Expected(l)' = Expected(l)
  BY <1>1 DEF Writes, WillWrite, Handed, Expected, IsCompiler
<1>3. CASE t # s
  <2>1. gw'[t] = gw[t] /\ status'[t] = status[t]
    BY <1>3 DEF Gateway, InsertSubmission, QueueBuild, FailQueueing, Update,
                SetStatus, TypeOK
  <2>2. \A q \in Queues : \A e \in Undelivered(q)' : e.sub = t => e \in Undelivered(q)
    <3>1. CASE UNCHANGED stream
      BY <1>1, <3>1 DEF Undelivered
    <3>2. CASE Added("compilation", s, 0)
      BY <1>1, <1>3, <3>2, OneAdded DEF Queues
    <3> QED
      BY <3>1, <3>2 DEF Gateway, InsertSubmission, QueueBuild, FailQueueing,
                        redisVars, XAddOK, XAddErr
  <2> QED BY <1>1, <1>2, <2>1, <2>2, Frame
<1>4. CASE t = s /\ InsertSubmission(s)
  <2>1. /\ gw[s] = "new" /\ gw'[s] = "inserted" /\ status'[s] = "queued"
        /\ UNCHANGED stream
    BY <1>4 DEF InsertSubmission, SetStatus, TypeOK, redisVars
  <2>2. \A q \in Queues : Undelivered(q)' = Undelivered(q)
    BY <1>1, <2>1 DEF Undelivered
  <2>3. Free(s) /\ ~Handed(s) /\ \A a \in Admins : s \notin todo[a]
    BY <1>4, <2>1 DEF Alone, Fits
  <2>4. Free(s)' /\ ~Handed(s)' /\ \A a \in Admins : s \notin todo'[a]
    BY <1>1, <1>2, <1>4, <2>2, <2>3 DEF Free
  <2> QED BY <1>4, <2>1, <2>4 DEF Alone, Fits, Free
<1>5. CASE t = s /\ QueueBuild(s)
  <2>0. "compilation" \in Queues
    BY DEF Queues
  <2>1. /\ gw[s] = "inserted" /\ gw'[s] = "accepted" /\ UNCHANGED status
        /\ Added("compilation", s, 0)
    BY <1>5 DEF QueueBuild, XAddOK, XAddErr, TypeOK
  <2>2. PICK new : /\ new.sub = s
                   /\ \A p \in Queues : \A e \in Undelivered(p)' :
                         e \in Undelivered(p) \/ (p = "compilation" /\ e = new)
    BY <1>1, <2>0, <2>1, OneAdded
  <2>3. Free(s) /\ ~Handed(s) /\ status[s] = "queued"
        /\ \A a \in Admins : s \notin todo[a]
    BY <1>5, <2>1 DEF Alone, Fits
  <2>4. /\ \A l \in Loops : ~Writes(l, s)'
        /\ \A p \in Queues : \A e \in Undelivered(p)' :
              e.sub = s => p = "compilation" /\ e = new
        /\ ~Handed(s)' /\ \A a \in Admins : s \notin todo'[a]
    BY <1>1, <1>2, <1>5, <2>2, <2>3 DEF Free
  <2>5. Alone(s)'
    BY <2>1, <2>3, <2>4 DEF Alone
  <2>6. Fits(s)'
    BY <2>1, <2>3, <2>4 DEF Fits, Entering
  <2> QED BY <1>5, <2>5, <2>6
<1>6. CASE t = s /\ FailQueueing(s)
  BY <1>6 DEF FailQueueing, Fits
<1> QED BY <1>3, <1>4, <1>5, <1>6 DEF Gateway

LEMMA TriggerWriter ==
    ASSUME TypeOK, NEW a \in Admins, Trigger(a), ~Fails,
           \A b \in Admins : b = a,
           NEW t \in Submissions, Alone(t), Fits(t)
    PROVE  Alone(t)' /\ Fits(t)'
<1>1. UNCHANGED <<gw, last, pc, msg>>
  BY DEF Trigger, SelectBest, ResetForSystest, QueueSystest, redisVars, workerVars
<1>2. /\ \A l \in Loops : Writes(l, t)' <=> Writes(l, t)
      /\ \A l \in Loops : Expected(l)' = Expected(l)
  BY <1>1 DEF Writes, WillWrite, Expected, IsCompiler
<1>3. CASE SelectBest(a)
  <2>1. /\ UNCHANGED <<status, handed, stream>>
        /\ t \in todo'[a] => status[t] = "completed"
    BY <1>3 DEF SelectBest, BestPerUser, redisVars, TypeOK
  <2>2. \A q \in Queues : Undelivered(q)' = Undelivered(q)
    BY <1>1, <2>1 DEF Undelivered
  <2> QED BY <1>1, <1>2, <2>1, <2>2, Frame
<1>4. CASE ResetForSystest(a)
  <2>1. PICK s \in todo[a] :
          /\ status' = [status EXCEPT ![s] = "queued"]
          /\ handed' = [handed EXCEPT ![a] = {s}]
          /\ todo' = [todo EXCEPT ![a] = @ \ {s}]
          /\ UNCHANGED stream
    BY <1>4 DEF ResetForSystest, SetStatus, redisVars
  <2>2. \A q \in Queues : Undelivered(q)' = Undelivered(q)
    BY <1>1, <2>1 DEF Undelivered
  <2>3. CASE t # s
    <3>1. status'[t] = status[t] /\ (t \in handed'[a] => t \in handed[a])
          /\ (t \in todo'[a] => t \in todo[a])
      BY <2>1, <2>3 DEF TypeOK
    <3> QED BY <1>1, <1>2, <2>2, <3>1, Frame
  <2>4. CASE t = s
    <3>1. status[s] = "completed"
      BY <2>4 DEF Fits
    <3>2. Free(s) /\ ~Handed(s) /\ gw[s] \notin {"new", "inserted", "failing"}
      BY <2>4, <3>1 DEF Alone, Fits
    <3>3. Free(s)' /\ status'[s] = "queued" /\ s \notin todo'[a]
      BY <1>2, <2>1, <2>2, <2>4, <3>2 DEF Free, TypeOK
    <3>4. Alone(s)'
      BY <1>1, <2>4, <3>2, <3>3 DEF Alone, Free
    <3>5. Fits(s)'
      BY <1>1, <2>4, <3>2, <3>3 DEF Fits, Free
    <3> QED BY <2>4, <3>4, <3>5
  <2> QED BY <2>3, <2>4
<1>5. CASE QueueSystest(a)
  <2>0. "systest" \in Queues
    BY DEF Queues
  <2>1. PICK s \in handed[a] : Added("systest", s, 0)
    BY <1>5 DEF QueueSystest, XAddOK, XAddErr
  <2>2. UNCHANGED <<status, todo>> /\ handed'[a] = {}
    BY <1>5 DEF QueueSystest, TypeOK
  <2>3. PICK new : /\ new.sub = s
                   /\ \A p \in Queues : \A e \in Undelivered(p)' :
                         e \in Undelivered(p) \/ (p = "systest" /\ e = new)
    BY <1>1, <2>0, <2>1, OneAdded
  <2>4. CASE t # s
    BY <1>1, <1>2, <2>2, <2>3, <2>4, Frame
  <2>5. CASE t = s
    <3>1. Handed(s)
      BY DEF Handed
    <3>2. /\ Free(s) /\ status[s] = "queued"
          /\ gw[s] \notin {"new", "inserted", "failing"}
          /\ \A b \in Admins : s \notin todo[b]
      BY <2>5, <3>1 DEF Alone, Fits
    <3>3. /\ \A l \in Loops : ~Writes(l, s)'
          /\ \A p \in Queues : \A e \in Undelivered(p)' :
                e.sub = s => p = "systest" /\ e = new
          /\ ~Handed(s)'
      BY <1>2, <2>2, <2>3, <2>5, <3>2 DEF Free, Handed
    <3>4. Alone(s)'
      BY <1>1, <2>2, <3>2, <3>3 DEF Alone
    <3>5. Fits(s)'
      BY <1>1, <2>2, <3>2, <3>3 DEF Fits, Entering
    <3> QED BY <2>5, <3>4, <3>5
  <2> QED BY <2>4, <2>5
<1> QED BY <1>3, <1>4, <1>5 DEF Trigger

LEMMA ReadWriter ==
    ASSUME TypeInv, NEW l \in Loops, ReadGroup(l),
           NEW t \in Submissions, Alone(t), Fits(t)
    PROVE  Alone(t)' /\ Fits(t)'
<1> DEFINE c == QueueOf[l]
<1>0. c \in Queues
  BY ConstantsAssumption
<1>1. PICK e \in Undelivered(c) :
        /\ last' = [last EXCEPT ![c] = e.id]
        /\ msg' = [msg EXCEPT ![l] = e]
        /\ pc' = [pc EXCEPT ![l] = "mark"]
        /\ pc[l] = "idle"
        /\ UNCHANGED <<status, gw, stream, todo, handed>>
  BY DEF ReadGroup, Goto, adminVars
<1>2. /\ \A m \in Loops : m # l => (Writes(m, t)' <=> Writes(m, t)) /\ pc'[m] = pc[m]
      /\ ~Writes(l, t) /\ (Writes(l, t)' => e.sub = t)
      /\ pc'[l] = "mark"
  BY <1>1 DEF Writes, WillWrite, TypeInv, TypeOK
<1>3. /\ \A q \in Queues : Undelivered(q)' \subseteq Undelivered(q)
      /\ e \notin Undelivered(c)'
  <2>1. e \in Entry /\ e.id > last[c] /\ last[c] \in Nat
    BY <1>0 DEF Undelivered, TypeInv, TypeOK
  <2>2. \A q \in Queues : \A f \in stream[q] : f.id \in Nat
    BY DEF Entry, TypeInv, TypeOK
  <2>3. e.id \in Nat
    BY <2>1 DEF Entry
  <2>4. ASSUME NEW q \in Queues, NEW f \in Undelivered(q)'
        PROVE  f \in Undelivered(q) /\ (q = c => f # e)
    <3>1. f \in stream[q] /\ f.id > last'[q] /\ f.id \in Nat
      BY <1>1, <2>2, <2>4 DEF Undelivered
    <3>2. CASE q = c
      <4>1. last'[c] = e.id
        BY <1>0, <1>1 DEF TypeInv, TypeOK
      <4> QED BY <2>1, <2>3, <3>1, <3>2, <4>1 DEF Undelivered
    <3>3. CASE q # c
      <4>1. last'[q] = last[q]
        BY <1>1, <3>3 DEF TypeInv, TypeOK
      <4> QED BY <3>1, <3>3, <4>1 DEF Undelivered
    <3> QED BY <3>2, <3>3
  <2> QED BY <1>0, <2>4
<1>4. CASE t # e.sub
  BY <1>1, <1>2, <1>3, <1>4, Frame
<1>5. CASE t = e.sub
  <2> HIDE DEF c
  <2>1. /\ \A m \in Loops : ~Writes(m, t)
        /\ \A q \in Queues : \A f \in Undelivered(q) : f.sub = t => q = c /\ f = e
        /\ ~Free(t)
    BY <1>0, <1>5 DEF Alone, Free
  <2>2. /\ ~Handed(t) /\ gw[t] \notin {"new", "inserted", "failing"}
        /\ status[t] # "completed" /\ status[t] \in Entering(c)
        /\ \A a \in Admins : t \notin todo[a]
    BY <1>0, <1>5, <2>1 DEF Alone, Fits
  <2>3. /\ \A m \in Loops : Writes(m, t)' => m = l
        /\ \A q \in Queues : \A f \in Undelivered(q)' : f.sub # t
        /\ ~Handed(t)'
    BY <1>1, <1>2, <1>3, <2>1, <2>2 DEF Handed
  <2>4. Alone(t)'
    BY <1>1, <2>2, <2>3 DEF Alone
  <2>5. Expected(l)' = Entering(c)
    BY <1>2 DEF Expected, c
  <2>6. Fits(t)'
    BY <1>1, <1>2, <2>2, <2>3, <2>5 DEF Fits
  <2> QED BY <2>4, <2>6
<1> QED BY <1>4, <1>5

\* Crashes only drop work, XCLAIM changes nothing but the owner of an entry.
LEMMA RecoveryWriter ==
    ASSUME NEW p \in Processes, Crash(p) \/ \E q \in Queues : ClaimStale(p, q),
           NEW t \in Submissions, Alone(t), Fits(t)
    PROVE  Alone(t)' /\ Fits(t)'
<1>1. /\ UNCHANGED <<status, gw, stream, last, todo, handed>>
      /\ \A m \in Loops : pc'[m] # "idle" => pc'[m] = pc[m] /\ msg'[m] = msg[m]
  BY DEF Crash, ClaimStale, workerVars, adminVars
<1>2. \A m \in Loops : Writes(m, t)' => Writes(m, t) /\ pc'[m] = pc[m]
  BY <1>1 DEF Writes, WillWrite
<1>3. \A q \in Queues : Undelivered(q)' = Undelivered(q)
  BY <1>1 DEF Undelivered
<1> QED BY <1>1, <1>2, <1>3, Frame

\* A step of a handler: the loop that is going to write the status of its
\* submission is the only one, until it hands it on or gives it up.
LEMMA HandleWriter ==
    ASSUME TypeInv, NEW l \in Loops, Handle(l), ~Fails,
           NEW t \in Submissions, Alone(t), Fits(t)
    PROVE  Alone(t)' /\ Fits(t)'
<1>a. PICK s : s = msg[l].sub
  OBVIOUS
<1>0. /\ pc[l] # "idle" /\ QueueOf[l] \in Queues
      /\ s \in Submissions /\ msg[l].retry + 1 \in Nat
  BY <1>a, ConstantsAssumption
  DEF Handle, MarkStarted, DoWork, ShouldRetry, RecordResult, Publish,
      FailPublish, RejectBuild, GiveUp, Ack, Del, Entry, TypeInv, TypeOK,
      HoldsMessage
<1>1. /\ UNCHANGED <<gw, last, handed, todo>>
      /\ \A m \in Loops : m # l => pc'[m] = pc[m] /\ msg'[m] = msg[m]
      /\ pc'[l] # "idle" => msg'[l] = msg[l]
      /\ t # s => status'[t] = status[t]
  BY <1>a
  DEF Handle, MarkStarted, DoWork, ShouldRetry, RecordResult, Publish,
      FailPublish, RejectBuild, GiveUp, Ack, Del, Goto, Finish,
      redisVars, adminVars, Update, SetStatus, TypeInv, TypeOK
<1>2. /\ \A m \in Loops : m # l => (Writes(m, t)' <=> Writes(m, t)) /\ pc'[m] = pc[m]
      /\ Writes(l, t)' => t = s
      /\ Handed(t)' <=> Handed(t)
  BY <1>a, <1>1 DEF Writes, WillWrite, Handed
<1>3. ASSUME NEW q \in Queues, NEW r, Added(q, s, r)
      PROVE  \E new : /\ new.sub = s
                      /\ \A p \in Queues : \A e \in Undelivered(p)' :
                            e \in Undelivered(p) \/ (p = q /\ e = new)
  BY <1>1, <1>3, OneAdded DEF TypeInv
<1>4. ASSUME \A q \in Queues : stream'[q] \subseteq stream[q]
      PROVE  \A q \in Queues : Undelivered(q)' \subseteq Undelivered(q)
  BY <1>1, <1>4 DEF Undelivered
<1>5. \/ \A q \in Queues : stream'[q] \subseteq stream[q]
      \/ ShouldRetry(l) /\ msg[l].retry < MaxRetries
         /\ Added(QueueOf[l], s, msg[l].retry + 1)
      \/ Publish(l) /\ Added(TargetQueue(s), s, 0)
  <2>1. CASE ShouldRetry(l)
    BY <1>a, <2>1, ConstantsAssumption DEF ShouldRetry, XAddOK, XAddErr
  <2>2. CASE Publish(l)
    BY <1>a, <2>2 DEF Publish, XAddOK, XAddErr
  <2>3. CASE Del(l)
    BY <1>0, <2>3 DEF Del, TypeInv, TypeOK
  <2>4. CASE UNCHANGED stream
    BY <2>4
  <2> QED
    BY <2>1, <2>2, <2>3, <2>4
    DEF Handle, MarkStarted, DoWork, RecordResult, FailPublish, RejectBuild,
        GiveUp, Ack, redisVars
<1>6. TargetQueue(s) \in Queues \ {"compilation"}
  BY DEF TargetQueue, Queues
<1>7. CASE t # s
  <2>1. \A q \in Queues : \A e \in Undelivered(q)' : e.sub = t => e \in Undelivered(q)
    BY <1>0, <1>3, <1>4, <1>5, <1>6, <1>7
  <2> QED BY <1>1, <1>2, <1>7, <2>1, Frame
<1>8. CASE t = s /\ pc[l] \in {"ack", "del"}
  <2>1. /\ status' = status /\ pc'[l] \in {"del", "idle"}
        /\ \A q \in Queues : stream'[q] \subseteq stream[q]
    BY <1>0, <1>5, <1>8
    DEF Handle, MarkStarted, DoWork, ShouldRetry, RecordResult, Publish,
        FailPublish, RejectBuild, GiveUp, Ack, Del, Goto, Finish, TypeInv, TypeOK
  <2>2. ~Writes(l, t)'
    BY <2>1 DEF Writes, WillWrite
  <2> QED BY <1>1, <1>2, <1>4, <2>1, <2>2, Frame
<1>9. CASE t = s /\ WillWrite(l)
  <2>1. Writes(l, s)
    BY <1>a, <1>9 DEF Writes
  <2>2. /\ \A m \in Loops : Writes(m, s) => m = l
        /\ \A q \in Queues : \A e \in Undelivered(q) : e.sub # s
        /\ ~Free(s)
    BY <1>9, <2>1 DEF Alone, Free
  <2>3. /\ ~Handed(s) /\ gw[s] \notin {"new", "inserted", "failing"}
        /\ \A a \in Admins : s \notin todo[a]
        /\ status[s] \in Expected(l) /\ pc[l] # "queuefail"
        /\ pc[l] \in {"publish", "reject"} => IsCompiler(l)
    BY <1>9, <2>1, <2>2 DEF Alone, Fits
  <2>4. /\ \A m \in Loops : Writes(m, s)' => m = l
        /\ ~Handed(s)' /\ gw'[s] = gw[s] /\ \A a \in Admins : s \notin todo'[a]
    BY <1>1, <1>2, <1>9, <2>2, <2>3
  \* The loop goes on, or ends its work on the submission.
  <2>5. ASSUME \A q \in Queues : stream'[q] \subseteq stream[q],
               status'[s] = "completed" => ~Writes(l, s)',
               Writes(l, s)' => /\ status'[s] \in Expected(l)'
                                /\ pc'[l] # "queuefail"
                                /\ pc'[l] \in {"publish", "reject"} => IsCompiler(l)
        PROVE  Alone(s)' /\ Fits(s)'
    <3>1. \A q \in Queues : \A e \in Undelivered(q)' : e.sub # s
      BY <1>4, <2>2, <2>5
    <3>2. Alone(s)'
      BY <2>3, <2>4, <2>5, <3>1 DEF Alone, Free
    <3>3. Fits(s)'
      BY <2>3, <2>4, <2>5, <3>1 DEF Fits, IsCompiler
    <3> QED BY <3>2, <3>3
  \* The loop hands the submission on to the readers of stream q.
  <2>6. ASSUME NEW q \in Queues, NEW r, Added(q, s, r), pc'[l] = "ack",
               status' = status, status[s] \in Entering(q)
        PROVE  Alone(s)' /\ Fits(s)'
    <3>1. PICK new : /\ new.sub = s
                     /\ \A p \in Queues : \A e \in Undelivered(p)' :
                            e \in Undelivered(p) \/ (p = q /\ e = new)
      BY <1>3, <2>6
    <3>2. /\ \A m \in Loops : ~Writes(m, s)'
          /\ \A p \in Queues : \A e \in Undelivered(p)' : e.sub = s => p = q /\ e = new
      BY <2>2, <2>4, <2>6, <3>1 DEF Writes, WillWrite
    <3>3. status[s] # "completed"
      BY <2>6 DEF Entering
    <3>4. Alone(s)'
      BY <2>3, <2>4, <2>6, <3>2, <3>3 DEF Alone
    <3>5. Fits(s)'
      BY <2>3, <2>4, <2>6, <3>2 DEF Fits
    <3> QED BY <3>4, <3>5
  <2>7. CASE MarkStarted(l)
    <3>1. /\ pc'[l] = "work" /\ UNCHANGED stream
          /\ status'[s] = IF IsCompiler(l) THEN "building" ELSE "running"
      BY <1>0, <1>a, <2>7
      DEF MarkStarted, Update, SetStatus, Goto, redisVars, TypeInv, TypeOK
    <3> QED BY <1>9, <2>5, <3>1 DEF Expected, IsCompiler
  <2>8. CASE DoWork(l)
    <3>1. /\ pc[l] = "work" /\ UNCHANGED <<stream, status>>
          /\ pc'[l] \in {"requeue", "reject", "done", "hung"}
          /\ pc'[l] = "reject" => IsCompiler(l)
      BY <2>8 DEF DoWork, BuildImage, buildImageWithKaniko, Goto, redisVars, TypeInv, TypeOK
    <3>2. Expected(l)' = Expected(l) /\ status'[s] # "completed"
      BY <2>3, <3>1 DEF Expected, IsCompiler
    <3> QED BY <1>9, <2>3, <2>5, <3>1, <3>2
  <2>9. CASE ShouldRetry(l)
    <3>0. pc[l] = "requeue" /\ status' = status
      BY <2>9 DEF ShouldRetry
    <3>1. CASE msg[l].retry < MaxRetries
      <4>1. Added(QueueOf[l], s, msg[l].retry + 1) /\ pc'[l] = "ack"
        BY <1>a, <1>0, <2>9, <3>1, ConstantsAssumption
        DEF ShouldRetry, XAddOK, XAddErr, Goto, TypeInv, TypeOK, HoldsMessage, Entry
      <4>2. status[s] \in Entering(QueueOf[l])
        BY <2>3, <3>0 DEF Expected, Entering, IsCompiler
      <4> QED BY <1>0, <1>9, <2>6, <3>0, <4>1, <4>2
    <3>2. CASE ~(msg[l].retry < MaxRetries)
      <4>1. pc'[l] = "dlqack" /\ UNCHANGED stream
        BY <2>9, <3>2 DEF ShouldRetry, Goto, TypeInv, TypeOK
      <4>2. Expected(l)' = Expected(l) /\ status'[s] # "completed"
        BY <2>3, <3>0, <4>1 DEF Expected, IsCompiler
      <4> QED BY <1>9, <2>3, <2>5, <3>0, <4>1, <4>2
    <3> QED BY <3>1, <3>2
  <2>10. CASE RecordResult(l)
    <3>1. /\ pc'[l] = IF IsCompiler(l) THEN "publish" ELSE "ack"
          /\ status'[s] = IF IsCompiler(l) THEN "built" ELSE "completed"
          /\ UNCHANGED stream
      BY <1>0, <1>a, <2>10
      DEF RecordResult, Update, SetStatus, Goto, redisVars, TypeInv, TypeOK
    <3> QED BY <1>9, <2>5, <3>1 DEF Expected, Writes, WillWrite
  <2>11. CASE Publish(l)
    <3>1. /\ pc[l] = "publish" /\ pc'[l] = "ack" /\ status' = status
          /\ Added(TargetQueue(s), s, 0)
      BY <1>a, <2>11 DEF Publish, XAddOK, XAddErr, Goto, TypeInv, TypeOK
    <3>2. status[s] \in Entering(TargetQueue(s))
      BY <1>6, <2>3, <3>1 DEF Expected, Entering
    <3> QED BY <1>6, <1>9, <2>6, <3>1, <3>2
  <2>12. CASE FailPublish(l)
    BY <2>3, <2>12 DEF FailPublish
  <2>13. CASE RejectBuild(l) \/ GiveUp(l)
    <3>1. pc'[l] \in {"ack", "idle"} /\ status'[s] = "failed" /\ UNCHANGED stream
      BY <1>0, <1>a, <2>13
      DEF RejectBuild, GiveUp, Update, SetStatus, Goto, Finish, redisVars, TypeInv, TypeOK
    <3> QED BY <1>9, <2>5, <3>1 DEF Writes, WillWrite
  <2>14. CASE Ack(l) \/ Del(l)
    <3>1. /\ pc[l] \in {"dlqack", "dlqdel"} /\ pc'[l] \in {"dlqdel", "giveup"}
          /\ status' = status
      BY <1>9, <2>14 DEF Ack, Del, WillWrite, Goto, TypeInv, TypeOK
    <3>2. Expected(l)' = Expected(l) /\ status'[s] # "completed"
      BY <2>3, <3>1 DEF Expected, IsCompiler
    <3>3. \A q \in Queues : stream'[q] \subseteq stream[q]
      BY <1>0, <2>14 DEF Ack, Del, TypeInv, TypeOK
    <3> QED BY <1>9, <2>3, <2>5, <3>1, <3>2, <3>3
  <2> QED
    BY <2>7, <2>8, <2>9, <2>10, <2>11, <2>12, <2>13, <2>14 DEF Handle
<1> QED BY <1>0, <1>7, <1>8, <1>9 DEF WillWrite

LEMMA WriterStep ==
    ASSUME TypeInv, WriterInv, [Next]_vars
    PROVE  WriterInv'
<1> SUFFICES ASSUME faults' = 0, \A a, b \in Admins : a = b, NEW t \in Submissions
             PROVE  Alone(t)' /\ Fits(t)'
  BY DEF WriterInv, Quiet
<1>0. ~Fails /\ ~GatewayCrash /\ TypeOK /\ Alone(t) /\ Fits(t)
  BY NoFault DEF WriterInv, Quiet, TypeInv
<1>1. CASE UNCHANGED vars
  <2>1. /\ \A m \in Loops : Writes(m, t)' <=> Writes(m, t)
        /\ \A q \in Queues : Undelivered(q)' = Undelivered(q)
    BY <1>1 DEF vars, Writes, WillWrite, Undelivered
  <2> QED BY <1>0, <1>1, <2>1, Frame DEF vars
<1>2. CASE Next
  BY <1>0, <1>2, GatewayWriter, TriggerWriter, ReadWriter, HandleWriter, RecoveryWriter
  DEF Next
<1> QED BY <1>1, <1>2

LEMMA WriterAlways == Spec => [](TypeInv /\ WriterInv)
<1>1. Init => WriterInv
  BY DEF Init, WriterInv, Alone, Fits, Free, Handed, Writes, WillWrite, Undelivered
<1>2. TypeInv /\ WriterInv /\ [Next]_vars => WriterInv'
  BY WriterStep
<1>3. Spec => []TypeInv
  BY LossAlways, PTL DEF LossInv
<1> QED BY <1>1, <1>2, <1>3, PTL DEF Spec

\* Without failing calls and with one system-test trigger at a time, no two
\* loops are ever going to write the status of the same submission, however
\* many workers there are, whatever is retried, and wherever they crash.
THEOREM OneWriter == Spec => []SingleWriter
<1>1. TypeInv /\ WriterInv => SingleWriter
  <2> SUFFICES ASSUME TypeInv, WriterInv, faults = 0, Cardinality(Admins) <= 1,
                      NEW l \in Loops, NEW m \in Loops,
                      l # m, WillWrite(l), WillWrite(m), msg[l].sub = msg[m].sub
               PROVE  FALSE
    BY DEF SingleWriter
  <2>1. ASSUME NEW a \in Admins, NEW b \in Admins, a # b
        PROVE  FALSE
    <3>1. IsFiniteSet({a}) /\ Cardinality({a}) = 1
      BY FS_Singleton
    <3>2. Cardinality({a} \cup {b}) = 2
      BY <2>1, <3>1, FS_AddElement
    <3>3. Cardinality({a} \cup {b}) <= Cardinality(Admins)
      BY FS_Subset, ConstantsAssumption, {a} \cup {b} \in SUBSET Admins
    <3> QED BY <3>2, <3>3, MaxLossType
  <2>2. msg[l].sub \in Submissions
    BY DEF WillWrite, TypeInv, HoldsMessage, Entry
  <2> QED BY <2>1, <2>2 DEF WriterInv, Quiet, Alone, Writes
<1> QED BY <1>1, WriterAlways, PTL

-----------------------------------------------------------------------------
(* The life cycle.                                                         *)

\* A loop that writes a status finds the one the life cycle allows.
LEMMA HandleLifecycle ==
    ASSUME TypeInv, NEW l \in Loops, Handle(l), ~Fails,
           \A s \in Submissions : Fits(s)
    PROVE  Lifecycle!Next \/ UNCHANGED status
<1>a. PICK s : s = msg[l].sub
  OBVIOUS
<1>0. pc[l] # "idle" /\ s \in Submissions
  BY <1>a
  DEF Handle, MarkStarted, DoWork, ShouldRetry, RecordResult, Publish,
      FailPublish, RejectBuild, GiveUp, Ack, Del, Entry, TypeInv, HoldsMessage
<1>1. ASSUME WillWrite(l)
      PROVE  /\ status[s] \in Expected(l) /\ pc[l] # "queuefail"
             /\ pc[l] \in {"publish", "reject"} => IsCompiler(l)
  BY <1>0, <1>1, <1>a DEF Fits, Writes
<1>2. CASE MarkStarted(l)
  <2>1. /\ status[s] \in Entering(QueueOf[l])
        /\ status' = [status EXCEPT ![s] = IF IsCompiler(l) THEN "building" ELSE "running"]
    BY <1>1, <1>2, <1>a DEF MarkStarted, WillWrite, Expected, Update, SetStatus
  <2>2. Lifecycle!StartBuild(s) \/ Lifecycle!StartRun(s)
    BY <2>1 DEF Entering, IsCompiler, Lifecycle!StartBuild, Lifecycle!StartRun
  <2> QED BY <1>0, <2>2 DEF Lifecycle!Next
<1>3. CASE RecordResult(l)
  <2>1. /\ status[s] = IF IsCompiler(l) THEN "building" ELSE "running"
        /\ status' = [status EXCEPT ![s] = IF IsCompiler(l) THEN "built" ELSE "completed"]
    BY <1>1, <1>3, <1>a DEF RecordResult, WillWrite, Expected, Update, SetStatus
  <2>2. Lifecycle!FinishBuild(s) \/ Lifecycle!Complete(s)
    BY <2>1 DEF Lifecycle!FinishBuild, Lifecycle!Complete
  <2> QED BY <1>0, <2>2 DEF Lifecycle!Next
<1>4. CASE RejectBuild(l) \/ GiveUp(l)
  <2>1. /\ status[s] \in {"building", "running"}
        /\ status' = [status EXCEPT ![s] = "failed"]
    BY <1>1, <1>4, <1>a DEF RejectBuild, GiveUp, WillWrite, Expected, Update, SetStatus
  <2>2. Lifecycle!Fail(s)
    BY <2>1 DEF Lifecycle!Fail
  <2> QED BY <1>0, <2>2 DEF Lifecycle!Next
<1>5. CASE FailPublish(l)
  BY <1>1, <1>5 DEF FailPublish, WillWrite
<1>6. CASE UNCHANGED status
  BY <1>6
<1> QED
  BY <1>2, <1>3, <1>4, <1>5, <1>6
  DEF Handle, DoWork, ShouldRetry, Publish, Ack, Del

LEMMA LifecycleStep ==
    ASSUME TypeInv, \A s \in Submissions : Fits(s), faults' = 0, [Next]_vars
    PROVE  [Lifecycle!Next]_status
<1>0. ~Fails /\ ~GatewayCrash
  BY NoFault DEF TypeInv
<1>1. ASSUME NEW s \in Submissions, Gateway(s)
      PROVE  Lifecycle!Next \/ UNCHANGED status
  <2>1. CASE InsertSubmission(s)
    <3>1. Lifecycle!Accept(s)
      BY <1>0, <2>1 DEF InsertSubmission, SetStatus, Fits, Lifecycle!Accept
    <3> QED BY <3>1 DEF Lifecycle!Next
  <2>2. CASE QueueBuild(s)
    BY <2>2 DEF QueueBuild
  <2>3. CASE FailQueueing(s)
    BY <2>3 DEF FailQueueing, Fits
  <2> QED BY <1>1, <2>1, <2>2, <2>3 DEF Gateway
<1>2. ASSUME NEW a \in Admins, Trigger(a)
      PROVE  Lifecycle!Next \/ UNCHANGED status
  <2>1. CASE ResetForSystest(a)
    <3>1. PICK s \in todo[a] : status' = [status EXCEPT ![s] = "queued"]
      BY <1>0, <2>1 DEF ResetForSystest, SetStatus
    <3>2. s \in Submissions /\ status[s] = "completed"
      BY DEF Fits, TypeInv, TypeOK
    <3>3. Lifecycle!Rejudge(s)
      BY <3>1, <3>2 DEF Lifecycle!Rejudge
    <3> QED BY <3>2, <3>3 DEF Lifecycle!Next
  <2>2. CASE SelectBest(a) \/ QueueSystest(a)
    BY <2>2 DEF SelectBest, QueueSystest
  <2> QED BY <1>2, <2>1, <2>2 DEF Trigger
<1>3. ASSUME NEW l \in Loops, ReadGroup(l)
      PROVE  UNCHANGED status
  BY <1>3 DEF ReadGroup
<1>4. ASSUME NEW p \in Processes, Crash(p) \/ \E q \in Queues : ClaimStale(p, q)
      PROVE  UNCHANGED status
  BY <1>4 DEF Crash, ClaimStale
<1>5. CASE UNCHANGED vars
  BY <1>5 DEF vars
<1> QED
  BY <1>0, <1>1, <1>2, <1>3, <1>4, <1>5, HandleLifecycle DEF Next

\* As long as no call fails, and with one system-test trigger at a time, the
\* writes of gateway, compilers, testers and triggers to the status column are
\* steps of SubmissionLifecycle: a status never moves backwards, and a verdict
\* changes by rejudging only.
THEOREM ImplementsLifecycle == Spec /\ []Quiet => RefinesLifecycle
<1>1. Init => Lifecycle!Init
  BY DEF Init, Lifecycle!Init
<1>2. TypeInv /\ WriterInv /\ Quiet /\ Quiet' /\ [Next]_vars => [Lifecycle!Next]_status
  BY LifecycleStep DEF WriterInv, Quiet
<1> QED
  BY <1>1, <1>2, WriterAlways, PTL DEF Spec, RefinesLifecycle, Lifecycle!Spec
=============================================================================
