------------------------ MODULE WorkerServiceProofs ------------------------
(***************************************************************************)
(* Proofs about RedisQueue, for any number of workers, jobs and attempts,  *)
(* and about the service built on it, WorkerService, for any number of     *)
(* runs and faults as well.  Redis must keep its data, deadlines outlast   *)
(* the work, or the service have one worker, only where a theorem says so. *)
(***************************************************************************)
EXTENDS WorkerService, TLAPS

(***************************************************************************)
(* The queue                                                               *)
(***************************************************************************)

(* What the retry pipeline leaves in Redis when it is given a well-formed  *)
(* job: every key keeps its type.                                          *)
LEMMA RetryPipeType ==
  ASSUME QueueTypeOK, NEW j \in JobId, NEW job \in Job, RetryPipe(j, job)
  PROVE  /\ pending' \in Seq(JobId)
         /\ inflight' \in SUBSET JobId
         /\ lapsed' \in SUBSET inflight'
         /\ data' \in [JobId -> Job \cup {None}]
         /\ dead' \in SUBSET Job
         /\ settled' \in SUBSET JobId
<1>1. [payload |-> job.payload, attempts |-> job.attempts + 1] \in Job
  BY DEF Job
<1>2. inflight' \in SUBSET JobId /\ lapsed' \in SUBSET inflight'
  BY DEF RetryPipe, ZRem, QueueTypeOK
<1>3. CASE Exhausted(job)
  BY <1>1, <1>2, <1>3 DEF RetryPipe, QueueTypeOK
<1>4. CASE ~Exhausted(job)
  <2>1. /\ data' = [data EXCEPT ![j] = [payload |-> job.payload, attempts |-> job.attempts + 1]]
        /\ pending' = Append(pending, j)
        /\ UNCHANGED <<dead, settled>>
    BY <1>4 DEF RetryPipe
  <2>2. pending' \in Seq(JobId)
    BY <2>1 DEF QueueTypeOK
  <2>3. data' \in [JobId -> Job \cup {None}]
    BY <1>1, <2>1 DEF QueueTypeOK
  <2>4. QED
    BY <1>2, <2>1, <2>2, <2>3 DEF QueueTypeOK
<1>5. QED
  BY <1>3, <1>4

(* Type correctness is inductive by itself. *)
LEMMA QueueTypeStep == QueueTypeOK /\ [QueueNext]_queueVars => QueueTypeOK'
<1> SUFFICES ASSUME QueueTypeOK, [QueueNext]_queueVars PROVE QueueTypeOK'
  OBVIOUS
<1> USE MaxAttemptsAssumption, MaxFaultsAssumption, NoneAssumption
    DEF QueueTypeOK, Hand, EmptyHand, Phase
<1>1. CASE Submit
  BY <1>1 DEF Submit, Enqueue, clientVars, Job
<1>2. ASSUME NEW j \in JobId, Lapse(j) PROVE QueueTypeOK'
  BY <1>2 DEF Lapse, clientVars
<1>3. ASSUME NEW w \in Worker, ScanExpired(w) PROVE QueueTypeOK'
  BY <1>3 DEF ScanExpired, Goto, redisVars
<1>4. ASSUME NEW w \in Worker, ReadExpired(w) PROVE QueueTypeOK'
  BY <1>4 DEF ReadExpired, SetHand, Goto, redisVars
<1>5. ASSUME NEW w \in Worker, RescueExpired(w) PROVE QueueTypeOK'
  <2>1. hand[w].id \in JobId
    BY <1>5 DEF RescueExpired
  <2>2. /\ pending' \in Seq(JobId) /\ inflight' \in SUBSET JobId
        /\ lapsed' \in SUBSET inflight' /\ data' \in [JobId -> Job \cup {None}]
        /\ dead' \in SUBSET Job /\ settled' \in SUBSET JobId
    <3>1. CASE hand[w].job = None
      BY <1>5, <2>1, <3>1 DEF RescueExpired, ZRem
    <3>2. CASE hand[w].job # None
      <4>1. hand[w].job \in Job
        BY <3>2
      <4>2. RetryPipe(hand[w].id, hand[w].job)
        BY <1>5, <3>2 DEF RescueExpired
      <4>3. QED
        BY <2>1, <4>1, <4>2, RetryPipeType
    <3>3. QED
      BY <3>1, <3>2
  <2>3. QED
    BY <1>5, <2>2 DEF RescueExpired, DropHand, Goto
<1>6. ASSUME NEW w \in Worker, BlPop(w) PROVE QueueTypeOK'
  BY <1>6 DEF BlPop, SetHand, Goto
<1>7. ASSUME NEW w \in Worker, BlPopTimeout(w) PROVE QueueTypeOK'
  BY <1>7 DEF BlPopTimeout, Goto, redisVars
<1>8. ASSUME NEW w \in Worker, HGet(w) PROVE QueueTypeOK'
  <2>1. CASE data[hand[w].id] = None
    <3>1. /\ hand' = [hand EXCEPT ![w] = EmptyHand]
          /\ phase' = [phase EXCEPT ![w] = "idle"]
          /\ UNCHANGED <<pending, inflight, lapsed, data, dead, settled, scan, faults>>
      BY <1>8, <2>1 DEF HGet, DropHand, Goto, redisVars
    <3>2. QED
      BY <3>1
  <2>2. CASE data[hand[w].id] # None
    <3>1. data[hand[w].id] \in Job
      BY <1>8, <2>2 DEF HGet
    <3>2. QED
      <4>1. /\ hand[w].id \in JobId
            /\ hand' = [hand EXCEPT ![w] = [id |-> hand[w].id, job |-> data[hand[w].id]]]
            /\ phase' = [phase EXCEPT ![w] = "read"]
            /\ UNCHANGED <<pending, inflight, lapsed, data, dead, settled, scan, faults>>
        BY <1>8, <2>2 DEF HGet, SetHand, Goto, redisVars
      <4>2. QED
        BY <3>1, <4>1
  <2>3. QED
    BY <2>1, <2>2
<1>9. ASSUME NEW w \in Worker, ZAdd(w) PROVE QueueTypeOK'
  BY <1>9 DEF ZAdd, Goto
<1>10. ASSUME NEW w \in Worker, Ack(w) PROVE QueueTypeOK'
  BY <1>10 DEF Ack, AckPipe, ZRem, DropHand, Goto
<1>11. ASSUME NEW w \in Worker, Retry(w) PROVE QueueTypeOK'
  <2>1. hand[w].id \in JobId /\ hand[w].job \in Job
    BY <1>11 DEF Retry
  <2>2. /\ pending' \in Seq(JobId) /\ inflight' \in SUBSET JobId
        /\ lapsed' \in SUBSET inflight' /\ data' \in [JobId -> Job \cup {None}]
        /\ dead' \in SUBSET Job /\ settled' \in SUBSET JobId
    BY <1>11, <2>1, RetryPipeType DEF Retry
  <2>3. QED
    BY <1>11, <2>2 DEF Retry, DropHand, Goto
<1>12. ASSUME NEW w \in Worker, Abandon(w) PROVE QueueTypeOK'
  BY <1>12 DEF Abandon, Fault, DropHand, Goto, redisVars
<1>13. ASSUME NEW w \in Worker, AckReplyLost(w) PROVE QueueTypeOK'
  BY <1>13 DEF AckReplyLost, Fault, AckPipe, ZRem, clientVars
<1>14. CASE UNCHANGED queueVars
  BY <1>14 DEF queueVars
<1>15. QED
  BY <1>1, <1>2, <1>3, <1>4, <1>5, <1>6, <1>7, <1>8, <1>9, <1>10, <1>11, <1>12,
     <1>13, <1>14 DEF QueueNext, WorkerStep

(* queue.py: the Redis keys and every worker's local state keep their      *)
(* types, and a worker past BLPOP always has a job id in hand.             *)
THEOREM QueueTypeCorrect == QueueSpec => []QueueTypeOK
<1>1. QueueInit => QueueTypeOK
  BY MaxFaultsAssumption DEF QueueInit, QueueTypeOK, EmptyHand, Hand, Phase
<1>2. QED
  BY <1>1, QueueTypeStep, PTL DEF QueueSpec

(* The retry pipeline dead-letters a job exactly when the attempt it       *)
(* records reaches the ceiling.                                            *)
LEMMA RetryPipeAttempts ==
  ASSUME QueueTypeOK, DeadOnlyWhenExhausted,
         NEW j \in JobId, NEW job \in Job, job.attempts < MaxAttempts,
         RetryPipe(j, job)
  PROVE  /\ \A d \in dead' : d.attempts = MaxAttempts
         /\ \A k \in JobId : data'[k] # None => data'[k].attempts < MaxAttempts
<1> DEFINE attempted == [payload |-> job.payload, attempts |-> job.attempts + 1]
<1>1. job.attempts \in Nat /\ attempted.attempts = job.attempts + 1
  BY DEF Job
<1>2. CASE Exhausted(job)
  <2>1. job.attempts + 1 = MaxAttempts
    BY <1>1, <1>2, MaxAttemptsAssumption DEF Exhausted
  <2>2. dead' = dead \cup {attempted} /\ data' = [data EXCEPT ![j] = None]
    BY <1>2 DEF RetryPipe
  <2>3. QED
    BY <1>1, <2>1, <2>2 DEF QueueTypeOK, DeadOnlyWhenExhausted
<1>3. CASE ~Exhausted(job)
  <2>1. job.attempts + 1 < MaxAttempts
    BY <1>1, <1>3, MaxAttemptsAssumption DEF Exhausted
  <2>2. dead' = dead /\ data' = [data EXCEPT ![j] = attempted]
    BY <1>3 DEF RetryPipe
  <2>3. QED
    BY <1>1, <2>1, <2>2 DEF QueueTypeOK, DeadOnlyWhenExhausted
<1>4. QED
  BY <1>2, <1>3

(* Attempts are bounded in every body and in every worker's copy of one.   *)
LEMMA DeadStep ==
  QueueTypeOK /\ DeadOnlyWhenExhausted /\ [QueueNext]_queueVars => DeadOnlyWhenExhausted'
<1> SUFFICES ASSUME QueueTypeOK, DeadOnlyWhenExhausted, [QueueNext]_queueVars
             PROVE  DeadOnlyWhenExhausted'
  OBVIOUS
<1> DEFINE CopiesOK == \A w \in Worker : hand[w].job # None => hand[w].job.attempts < MaxAttempts
<1>1. CASE Submit
  BY <1>1, MaxAttemptsAssumption
     DEF Submit, Enqueue, clientVars, DeadOnlyWhenExhausted, QueueTypeOK
<1>2. ASSUME NEW j \in JobId, Lapse(j) PROVE DeadOnlyWhenExhausted'
  BY <1>2 DEF Lapse, clientVars, DeadOnlyWhenExhausted
<1>3. ASSUME NEW w \in Worker, ScanExpired(w) PROVE DeadOnlyWhenExhausted'
  BY <1>3 DEF ScanExpired, redisVars, DeadOnlyWhenExhausted
<1>4. ASSUME NEW w \in Worker, ReadExpired(w) PROVE DeadOnlyWhenExhausted'
  BY <1>4 DEF ReadExpired, SetHand, redisVars, DeadOnlyWhenExhausted, QueueTypeOK
<1>5. ASSUME NEW w \in Worker, RescueExpired(w) PROVE DeadOnlyWhenExhausted'
  <2>1. CopiesOK'
    BY <1>5 DEF RescueExpired, DropHand, EmptyHand, DeadOnlyWhenExhausted, QueueTypeOK
  <2>2. CASE hand[w].job = None
    BY <1>5, <2>1, <2>2 DEF RescueExpired, ZRem, DeadOnlyWhenExhausted
  <2>3. CASE hand[w].job # None
    <3>1. hand[w].id \in JobId /\ hand[w].job \in Job /\ hand[w].job.attempts < MaxAttempts
      BY <1>5, <2>3 DEF RescueExpired, QueueTypeOK, Hand, DeadOnlyWhenExhausted
    <3>2. RetryPipe(hand[w].id, hand[w].job)
      BY <1>5, <2>3 DEF RescueExpired
    <3>3. QED
      BY <2>1, <3>1, <3>2, RetryPipeAttempts DEF DeadOnlyWhenExhausted
  <2>4. QED
    BY <2>2, <2>3
<1>6. ASSUME NEW w \in Worker, BlPop(w) PROVE DeadOnlyWhenExhausted'
  BY <1>6 DEF BlPop, SetHand, DeadOnlyWhenExhausted, QueueTypeOK
<1>7. ASSUME NEW w \in Worker, BlPopTimeout(w) PROVE DeadOnlyWhenExhausted'
  BY <1>7 DEF BlPopTimeout, redisVars, DeadOnlyWhenExhausted
<1>8. ASSUME NEW w \in Worker, HGet(w) PROVE DeadOnlyWhenExhausted'
  <2>1. CASE data[hand[w].id] = None
    BY <1>8, <2>1 DEF HGet, DropHand, EmptyHand, redisVars, DeadOnlyWhenExhausted, QueueTypeOK
  <2>2. CASE data[hand[w].id] # None
    BY <1>8, <2>2 DEF HGet, SetHand, redisVars, DeadOnlyWhenExhausted, QueueTypeOK
  <2>3. QED
    BY <2>1, <2>2
<1>9. ASSUME NEW w \in Worker, ZAdd(w) PROVE DeadOnlyWhenExhausted'
  BY <1>9 DEF ZAdd, DeadOnlyWhenExhausted
<1>10. ASSUME NEW w \in Worker, Ack(w) PROVE DeadOnlyWhenExhausted'
  BY <1>10 DEF Ack, AckPipe, DropHand, EmptyHand, DeadOnlyWhenExhausted, QueueTypeOK
<1>11. ASSUME NEW w \in Worker, Retry(w) PROVE DeadOnlyWhenExhausted'
  <2>1. CopiesOK'
    BY <1>11 DEF Retry, DropHand, EmptyHand, DeadOnlyWhenExhausted, QueueTypeOK
  <2>2. hand[w].id \in JobId /\ hand[w].job \in Job /\ hand[w].job.attempts < MaxAttempts
    BY <1>11, NoneAssumption DEF Retry, QueueTypeOK, DeadOnlyWhenExhausted, Job
  <2>3. QED
    BY <1>11, <2>1, <2>2, RetryPipeAttempts DEF Retry, DeadOnlyWhenExhausted
<1>12. ASSUME NEW w \in Worker, Abandon(w) PROVE DeadOnlyWhenExhausted'
  BY <1>12 DEF Abandon, DropHand, EmptyHand, redisVars, DeadOnlyWhenExhausted, QueueTypeOK
<1>13. ASSUME NEW w \in Worker, AckReplyLost(w) PROVE DeadOnlyWhenExhausted'
  BY <1>13 DEF AckReplyLost, AckPipe, clientVars, DeadOnlyWhenExhausted, QueueTypeOK
<1>14. CASE UNCHANGED queueVars
  BY <1>14 DEF queueVars, DeadOnlyWhenExhausted
<1>15. QED
  BY <1>1, <1>2, <1>3, <1>4, <1>5, <1>6, <1>7, <1>8, <1>9, <1>10, <1>11, <1>12,
     <1>13, <1>14 DEF QueueNext, WorkerStep

(* queue.py retry: for any number of workers and any attempt ceiling, a    *)
(* job is dead-lettered only with the whole ceiling spent, and no body     *)
(* still in use has reached it.                                            *)
THEOREM DeadLettersAreExhausted == QueueSpec => []DeadOnlyWhenExhausted
<1>1. QueueInit => DeadOnlyWhenExhausted
  BY DEF QueueInit, DeadOnlyWhenExhausted, EmptyHand
<1>2. QED
  BY <1>1, DeadStep, QueueTypeCorrect, PTL DEF QueueSpec

-----------------------------------------------------------------------------
(* No job is dropped. *)

(* RPUSH adds one id to the pending list and keeps the others. *)
LEMMA PushPending ==
  ASSUME pending \in Seq(JobId), NEW j \in JobId, pending' = Append(pending, j)
  PROVE  \A k \in JobId : InPending(k)' <=> InPending(k) \/ k = j
<1>1. Len(pending') = Len(pending) + 1 /\ Len(pending) \in Nat
  OBVIOUS
<1>2. \A i \in 1 .. Len(pending) : pending'[i] = pending[i]
  OBVIOUS
<1>3. pending'[Len(pending) + 1] = j
  OBVIOUS
<1>4. QED
  BY <1>1, <1>2, <1>3 DEF InPending

(* BLPOP takes the head off the pending list and keeps the others. *)
LEMMA PopPending ==
  ASSUME pending \in Seq(JobId), pending # <<>>, pending' = Tail(pending)
  PROVE  /\ Head(pending) \in JobId
         /\ InPending(Head(pending))
         /\ \A k \in JobId : InPending(k)' => InPending(k)
         /\ \A k \in JobId : InPending(k) => InPending(k)' \/ k = Head(pending)
<1>1. Len(pending) \in Nat \ {0} /\ Len(pending') = Len(pending) - 1
  OBVIOUS
<1>2. \A i \in 1 .. Len(pending') : pending'[i] = pending[i + 1]
  OBVIOUS
<1>3. Head(pending) = pending[1] /\ Head(pending) \in JobId
  OBVIOUS
<1>4. InPending(Head(pending))
  BY <1>1, <1>3 DEF InPending
<1>5. ASSUME NEW k \in JobId, InPending(k)' PROVE InPending(k)
  <2>1. PICK i \in 1 .. Len(pending') : pending'[i] = k
    BY <1>5 DEF InPending
  <2>2. i + 1 \in 1 .. Len(pending) /\ pending[i + 1] = k
    BY <2>1, <1>1, <1>2
  <2>3. QED
    BY <2>2 DEF InPending
<1>6. ASSUME NEW k \in JobId, InPending(k), k # Head(pending) PROVE InPending(k)'
  <2>1. PICK i \in 1 .. Len(pending) : pending[i] = k
    BY <1>6 DEF InPending
  <2>2. i - 1 \in 1 .. Len(pending') /\ pending'[i - 1] = k
    BY <2>1, <1>1, <1>2, <1>3, <1>6
  <2>3. QED
    BY <2>2 DEF InPending
<1>7. QED
  BY <1>3, <1>4, <1>5, <1>6

(* The retry pipeline settles a job or puts it back on the pending list,   *)
(* and leaves every other job alone.                                       *)
LEMMA RetryPipeKeeps ==
  ASSUME QueueTypeOK, NEW j \in JobId, NEW job \in Job, RetryPipe(j, job)
  PROVE  /\ data'[j] = None => j \in settled'
         /\ data'[j] # None => InPending(j)'
         /\ settled \subseteq settled'
         /\ \A k \in JobId \ {j} :
              /\ data'[k] = data[k]
              /\ k \in settled' <=> k \in settled
              /\ InPending(k)' <=> InPending(k)
              /\ k \in inflight' <=> k \in inflight
<1>1. \A k \in JobId \ {j} : k \in inflight' <=> k \in inflight
  BY DEF RetryPipe, ZRem
<1>2. CASE Exhausted(job)
  <2>1. /\ data' = [data EXCEPT ![j] = None]
        /\ settled' = settled \cup {j}
        /\ pending' = pending
    BY <1>2 DEF RetryPipe
  <2>2. \A k \in JobId : InPending(k)' <=> InPending(k)
    BY <2>1 DEF InPending
  <2>3. QED
    BY <1>1, <2>1, <2>2 DEF QueueTypeOK
<1>3. CASE ~Exhausted(job)
  <2>1. /\ data' = [data EXCEPT ![j] = [payload |-> job.payload, attempts |-> job.attempts + 1]]
        /\ settled' = settled
        /\ pending' = Append(pending, j)
    BY <1>3 DEF RetryPipe
  <2>2. \A k \in JobId : InPending(k)' <=> InPending(k) \/ k = j
    BY <2>1, PushPending DEF QueueTypeOK
  <2>3. data'[j] # None
    BY <2>1, NoneAssumption DEF QueueTypeOK, Job
  <2>4. QED
    BY <1>1, <2>1, <2>2, <2>3 DEF QueueTypeOK
<1>4. QED
  BY <1>2, <1>3

(* A body is absent only before its id is used or once its job is settled: *)
(* wherever a step removes a body it settles the job, and whoever reads no *)
(* body has an id whose job was settled before.                            *)
LEMMA AbsentStep ==
  ASSUME QueueTypeOK, AbsentMeansSettled, [QueueNext]_queueVars
  PROVE  AbsentMeansSettled'
<1> USE NoneAssumption
<1>1. CASE Submit
  <2>1. PICK p \in Payload, j \in JobId :
          /\ Unused(j)
          /\ data' = [data EXCEPT ![j] = [payload |-> p, attempts |-> 0]]
          /\ pending' = Append(pending, j)
          /\ settled' = settled \ {j}
          /\ UNCHANGED <<inflight, lapsed, dead, phase, hand, scan>>
    BY <1>1 DEF Submit, Enqueue, clientVars
  <2>2. \A k \in JobId : InPending(k)' <=> InPending(k) \/ k = j
    BY <2>1, PushPending DEF QueueTypeOK
  <2>3. data'[j] # None /\ \A k \in JobId \ {j} : data'[k] = data[k]
    BY <2>1 DEF QueueTypeOK, Job
  <2>4. \A k \in JobId : data'[k] = None => Unused(k)' \/ k \in settled'
    BY <2>1, <2>2, <2>3 DEF AbsentMeansSettled, Unused
  <2>5. \A w \in Worker :
          phase'[w] = "rescuing" /\ hand'[w].job = None => hand'[w].id \in settled'
    BY <2>1 DEF AbsentMeansSettled, Unused
  <2> QED BY <2>4, <2>5 DEF AbsentMeansSettled
<1>2. ASSUME NEW j \in JobId, Lapse(j) PROVE AbsentMeansSettled'
  BY <1>2 DEF Lapse, clientVars, AbsentMeansSettled, Unused, InPending
<1>3. ASSUME NEW w \in Worker, ScanExpired(w) PROVE AbsentMeansSettled'
  <2>1. ASSUME NEW j \in JobId, data'[j] = None PROVE Unused(j)' \/ j \in settled'
    BY <1>3, <2>1 DEF ScanExpired, redisVars, QueueTypeOK, AbsentMeansSettled, Unused, InPending
  <2> QED BY <1>3, <2>1 DEF ScanExpired, redisVars, Goto, QueueTypeOK, AbsentMeansSettled
<1>4. ASSUME NEW w \in Worker, ReadExpired(w) PROVE AbsentMeansSettled'
  <2>1. PICK j \in scan[w] :
          /\ hand' = [hand EXCEPT ![w] = [id |-> j, job |-> data[j]]]
          /\ scan' = [scan EXCEPT ![w] = @ \ {j}]
    BY <1>4 DEF ReadExpired, SetHand
  <2>2. /\ phase[w] = "recovering"
        /\ phase' = [phase EXCEPT ![w] = "rescuing"]
        /\ UNCHANGED <<pending, inflight, lapsed, data, dead, settled>>
    BY <1>4 DEF ReadExpired, Goto, redisVars
  <2>3. j \in JobId /\ ~Unused(j)
    BY <2>1 DEF QueueTypeOK, Unused
  <2>4. ASSUME NEW k \in JobId, data'[k] = None PROVE Unused(k)' \/ k \in settled'
    BY <2>1, <2>2, <2>3, <2>4 DEF QueueTypeOK, AbsentMeansSettled, Unused, InPending
  <2> QED BY <2>1, <2>2, <2>3, <2>4 DEF QueueTypeOK, AbsentMeansSettled
<1>5. ASSUME NEW w \in Worker, RescueExpired(w) PROVE AbsentMeansSettled'
  <2>1. /\ phase[w] = "rescuing" /\ hand[w].id \in JobId
        /\ hand' = [hand EXCEPT ![w] = EmptyHand]
        /\ phase' = [phase EXCEPT ![w] = IF scan[w] = {} THEN "claiming" ELSE "recovering"]
        /\ scan' = scan
    BY <1>5 DEF RescueExpired, DropHand, Goto, QueueTypeOK
  <2>2. CASE hand[w].job = None
    <3>1. /\ inflight' = inflight \ {hand[w].id}
          /\ UNCHANGED <<pending, data, settled>>
      BY <1>5, <2>2 DEF RescueExpired, ZRem
    <3> QED BY <2>1, <3>1 DEF QueueTypeOK, AbsentMeansSettled, Unused, InPending, EmptyHand
  <2>3. CASE hand[w].job # None
    <3>1. hand[w].job \in Job /\ RetryPipe(hand[w].id, hand[w].job)
      BY <1>5, <2>3 DEF RescueExpired, QueueTypeOK, Hand
    <3>2. \A k \in JobId : data'[k] = None => Unused(k)' \/ k \in settled'
      BY <2>1, <3>1, RetryPipeKeeps DEF QueueTypeOK, AbsentMeansSettled, Unused, EmptyHand
    <3> QED BY <2>1, <3>1, <3>2, RetryPipeKeeps DEF QueueTypeOK, AbsentMeansSettled
  <2> QED BY <2>2, <2>3
<1>6. ASSUME NEW w \in Worker, BlPop(w) PROVE AbsentMeansSettled'
  <2>1. /\ phase[w] = "claiming" /\ pending # <<>> /\ pending' = Tail(pending)
        /\ hand' = [hand EXCEPT ![w] = [id |-> Head(pending), job |-> None]]
        /\ phase' = [phase EXCEPT ![w] = "popped"]
        /\ UNCHANGED <<inflight, data, settled, scan>>
    BY <1>6 DEF BlPop, SetHand, Goto
  <2>2. /\ Head(pending) \in JobId
        /\ InPending(Head(pending))
        /\ \A k \in JobId : InPending(k)' => InPending(k)
    BY <2>1, PopPending DEF QueueTypeOK
  <2>3. ASSUME NEW k \in JobId, data'[k] = None PROVE Unused(k)' \/ k \in settled'
    BY <2>1, <2>2, <2>3 DEF QueueTypeOK, AbsentMeansSettled, Unused
  <2> QED BY <2>1, <2>3 DEF QueueTypeOK, AbsentMeansSettled
<1>7. ASSUME NEW w \in Worker, BlPopTimeout(w) PROVE AbsentMeansSettled'
  BY <1>7 DEF BlPopTimeout, redisVars, Goto, QueueTypeOK, AbsentMeansSettled, Unused, InPending
<1>8. ASSUME NEW w \in Worker, HGet(w) PROVE AbsentMeansSettled'
  <2>1. phase[w] = "popped" /\ UNCHANGED <<pending, inflight, data, settled, scan>>
    BY <1>8 DEF HGet, redisVars
  <2>2. CASE data[hand[w].id] = None
    <3>1. /\ hand' = [hand EXCEPT ![w] = EmptyHand]
          /\ phase' = [phase EXCEPT ![w] = "idle"]
      BY <1>8, <2>2 DEF HGet, DropHand, Goto
    <3> QED BY <2>1, <3>1 DEF QueueTypeOK, AbsentMeansSettled, Unused, InPending, EmptyHand
  <2>3. CASE data[hand[w].id] # None
    <3>1. /\ hand' = [hand EXCEPT ![w] = [id |-> hand[w].id, job |-> data[hand[w].id]]]
          /\ phase' = [phase EXCEPT ![w] = "read"]
      BY <1>8, <2>3 DEF HGet, SetHand, Goto
    <3> QED BY <2>1, <3>1 DEF QueueTypeOK, AbsentMeansSettled, Unused, InPending
  <2> QED BY <2>2, <2>3
<1>9. ASSUME NEW w \in Worker, ZAdd(w) PROVE AbsentMeansSettled'
  BY <1>9 DEF ZAdd, Goto, QueueTypeOK, AbsentMeansSettled, Unused, InPending
<1>10. ASSUME NEW w \in Worker, Ack(w) PROVE AbsentMeansSettled'
  BY <1>10 DEF Ack, AckPipe, ZRem, DropHand, EmptyHand, Goto, QueueTypeOK, AbsentMeansSettled,
               Unused, InPending
<1>11. ASSUME NEW w \in Worker, Retry(w) PROVE AbsentMeansSettled'
  <2>1. /\ phase[w] = "holding" /\ hand[w].id \in JobId /\ hand[w].job \in Job
        /\ RetryPipe(hand[w].id, hand[w].job)
        /\ hand' = [hand EXCEPT ![w] = EmptyHand]
        /\ phase' = [phase EXCEPT ![w] = "idle"]
        /\ scan' = scan
    BY <1>11 DEF Retry, DropHand, Goto, QueueTypeOK
  <2>2. \A k \in JobId : data'[k] = None => Unused(k)' \/ k \in settled'
    BY <2>1, RetryPipeKeeps DEF QueueTypeOK, AbsentMeansSettled, Unused, EmptyHand
  <2> QED BY <2>1, <2>2, RetryPipeKeeps DEF QueueTypeOK, AbsentMeansSettled
<1>12. ASSUME NEW w \in Worker, Abandon(w) PROVE AbsentMeansSettled'
  BY <1>12 DEF Abandon, DropHand, EmptyHand, Goto, redisVars, QueueTypeOK, AbsentMeansSettled,
               Unused, InPending
<1>13. ASSUME NEW w \in Worker, AckReplyLost(w) PROVE AbsentMeansSettled'
  BY <1>13 DEF AckReplyLost, AckPipe, ZRem, clientVars, QueueTypeOK, AbsentMeansSettled,
               Unused, InPending
<1>14. CASE UNCHANGED queueVars
  BY <1>14 DEF queueVars, AbsentMeansSettled, Unused, InPending
<1> QED
  BY <1>1, <1>2, <1>3, <1>4, <1>5, <1>6, <1>7, <1>8, <1>9, <1>10, <1>11, <1>12,
     <1>13, <1>14 DEF QueueNext, WorkerStep

LEMMA AbsentInit == QueueInit => QueueTypeOK /\ AbsentMeansSettled
<1>1. ASSUME QueueInit PROVE QueueTypeOK
  BY <1>1, MaxFaultsAssumption DEF QueueInit, QueueTypeOK, EmptyHand, Hand, Phase
<1>2. ASSUME QueueInit PROVE AbsentMeansSettled
  BY <1>2, NoneAssumption DEF QueueInit, AbsentMeansSettled, Unused, InPending, EmptyHand
<1> QED BY <1>1, <1>2

(* queue.py: wherever processes die and whatever replies are lost, a job's *)
(* body vanishes only once the job was acked or dead-lettered, so that     *)
(* finding no body, as claim and recover_expired may, means nothing is     *)
(* left to do.                                                             *)
THEOREM BodiesVanishOnlyWhenSettled == QueueSpec => []AbsentMeansSettled
<1>1. QueueTypeOK /\ AbsentMeansSettled /\ [QueueNext]_queueVars
        => QueueTypeOK' /\ AbsentMeansSettled'
  BY AbsentStep, QueueTypeStep
<1> QED BY <1>1, AbsentInit, PTL DEF QueueSpec

NoDropInv == QueueTypeOK /\ AbsentMeansSettled /\ Accounted

(* An unsettled job stays somewhere, provided no process dies between      *)
(* BLPOP and ZADD.                                                         *)
LEMMA AccountedStep ==
  ASSUME FaultPoints \cap {"popped", "read"} = {}, NoDropInv, [QueueNext]_queueVars
  PROVE  Accounted'
<1> USE NoneAssumption DEF NoDropInv
<1>1. CASE Submit
  <2>1. PICK p \in Payload, j \in JobId :
          /\ data' = [data EXCEPT ![j] = [payload |-> p, attempts |-> 0]]
          /\ pending' = Append(pending, j)
          /\ settled' = settled \ {j}
          /\ UNCHANGED <<inflight, phase, hand>>
    BY <1>1 DEF Submit, Enqueue, clientVars
  <2>2. \A k \in JobId : InPending(k)' <=> InPending(k) \/ k = j
    BY <2>1, PushPending DEF QueueTypeOK
  <2>3. \A k \in JobId \ {j} : data'[k] = data[k]
    BY <2>1 DEF QueueTypeOK
  <2> QED BY <2>1, <2>2, <2>3 DEF Accounted, Claiming
<1>2. ASSUME NEW j \in JobId, Lapse(j) PROVE Accounted'
  BY <1>2 DEF Lapse, clientVars, Accounted, Claiming, InPending
<1>3. ASSUME NEW w \in Worker, ScanExpired(w) PROVE Accounted'
  BY <1>3 DEF ScanExpired, redisVars, Goto, QueueTypeOK, Accounted, Claiming, InPending
<1>4. ASSUME NEW w \in Worker, ReadExpired(w) PROVE Accounted'
  BY <1>4 DEF ReadExpired, SetHand, Goto, redisVars, QueueTypeOK, Accounted, Claiming, InPending
<1>5. ASSUME NEW w \in Worker, RescueExpired(w) PROVE Accounted'
  <2>1. /\ phase[w] = "rescuing" /\ hand[w].id \in JobId
        /\ hand' = [hand EXCEPT ![w] = EmptyHand]
        /\ phase' = [phase EXCEPT ![w] = IF scan[w] = {} THEN "claiming" ELSE "recovering"]
    BY <1>5 DEF RescueExpired, DropHand, Goto, QueueTypeOK
  <2>2. CASE hand[w].job = None
    <3>1. /\ inflight' = inflight \ {hand[w].id}
          /\ UNCHANGED <<pending, data, settled>>
          /\ hand[w].id \in settled
      BY <1>5, <2>1, <2>2 DEF RescueExpired, ZRem, AbsentMeansSettled
    <3> QED BY <2>1, <3>1 DEF QueueTypeOK, Accounted, Claiming, InPending
  <2>3. CASE hand[w].job # None
    <3>1. hand[w].job \in Job /\ RetryPipe(hand[w].id, hand[w].job)
      BY <1>5, <2>3 DEF RescueExpired, QueueTypeOK, Hand
    <3> QED BY <2>1, <3>1, RetryPipeKeeps DEF QueueTypeOK, Accounted, Claiming
  <2> QED BY <2>2, <2>3
<1>6. ASSUME NEW w \in Worker, BlPop(w) PROVE Accounted'
  <2>1. /\ phase[w] = "claiming" /\ pending # <<>> /\ pending' = Tail(pending)
        /\ hand' = [hand EXCEPT ![w] = [id |-> Head(pending), job |-> None]]
        /\ phase' = [phase EXCEPT ![w] = "popped"]
        /\ UNCHANGED <<inflight, data, settled>>
    BY <1>6 DEF BlPop, SetHand, Goto
  <2>2. \A k \in JobId : InPending(k) => InPending(k)' \/ k = Head(pending)
    BY <2>1, PopPending DEF QueueTypeOK
  <2>3. phase'[w] = "popped" /\ hand'[w].id = Head(pending)
    BY <2>1 DEF QueueTypeOK
  <2>4. \A v \in Worker, k \in JobId : Claiming(v, k) => Claiming(v, k)'
    BY <2>1 DEF QueueTypeOK, Claiming
  <2> QED BY <2>1, <2>2, <2>3, <2>4 DEF Accounted, Claiming
<1>7. ASSUME NEW w \in Worker, BlPopTimeout(w) PROVE Accounted'
  BY <1>7 DEF BlPopTimeout, redisVars, Goto, QueueTypeOK, Accounted, Claiming, InPending
<1>8. ASSUME NEW w \in Worker, HGet(w) PROVE Accounted'
  <2>1. phase[w] = "popped" /\ UNCHANGED <<pending, inflight, data, settled>>
    BY <1>8 DEF HGet, redisVars
  <2>2. CASE data[hand[w].id] = None
    BY <1>8, <2>1, <2>2
       DEF HGet, DropHand, Goto, QueueTypeOK, Accounted, Claiming, InPending, EmptyHand
  <2>3. CASE data[hand[w].id] # None
    BY <1>8, <2>1, <2>3 DEF HGet, SetHand, Goto, QueueTypeOK, Accounted, Claiming, InPending
  <2> QED BY <2>2, <2>3
<1>9. ASSUME NEW w \in Worker, ZAdd(w) PROVE Accounted'
  BY <1>9 DEF ZAdd, Goto, QueueTypeOK, Accounted, Claiming, InPending
<1>10. ASSUME NEW w \in Worker, Ack(w) PROVE Accounted'
  BY <1>10 DEF Ack, AckPipe, ZRem, DropHand, Goto, QueueTypeOK, Accounted, Claiming, InPending
<1>11. ASSUME NEW w \in Worker, Retry(w) PROVE Accounted'
  <2>1. /\ phase[w] = "holding" /\ hand[w].id \in JobId /\ hand[w].job \in Job
        /\ RetryPipe(hand[w].id, hand[w].job)
        /\ hand' = [hand EXCEPT ![w] = EmptyHand]
        /\ phase' = [phase EXCEPT ![w] = "idle"]
    BY <1>11 DEF Retry, DropHand, Goto, QueueTypeOK
  <2> QED BY <2>1, RetryPipeKeeps DEF QueueTypeOK, Accounted, Claiming
<1>12. ASSUME NEW w \in Worker, Abandon(w) PROVE Accounted'
  <2>1. phase[w] \notin {"popped", "read"}
    BY <1>12 DEF Abandon
  <2> QED BY <1>12, <2>1
          DEF Abandon, DropHand, Goto, redisVars, QueueTypeOK, Accounted, Claiming, InPending
<1>13. ASSUME NEW w \in Worker, AckReplyLost(w) PROVE Accounted'
  BY <1>13 DEF AckReplyLost, AckPipe, ZRem, clientVars, QueueTypeOK, Accounted, Claiming,
               InPending
<1>14. CASE UNCHANGED queueVars
  BY <1>14 DEF queueVars, Accounted, Claiming, InPending
<1> QED
  BY <1>1, <1>2, <1>3, <1>4, <1>5, <1>6, <1>7, <1>8, <1>9, <1>10, <1>11, <1>12,
     <1>13, <1>14 DEF QueueNext, WorkerStep

(* queue.py RedisJobQueue: however many workers run, whichever of them die *)
(* while they hold or rescue a job, and whatever replies of acks are lost, *)
(* no unsettled job is dropped, provided no process dies between BLPOP and *)
(* ZADD of claim.                                                          *)
THEOREM NoJobDropped ==
  ASSUME FaultPoints \cap {"popped", "read"} = {}
  PROVE  QueueSpec => []Accounted
<1>1. QueueInit => NoDropInv
  BY AbsentInit DEF QueueInit, Accounted, NoDropInv
<1>2. NoDropInv /\ [QueueNext]_queueVars => NoDropInv'
  BY AccountedStep, AbsentStep, QueueTypeStep DEF NoDropInv
<1>3. NoDropInv => Accounted
  BY DEF NoDropInv
<1> QED BY <1>1, <1>2, <1>3, PTL DEF QueueSpec

-----------------------------------------------------------------------------
(* One holder per job.  The queue itself hands a job to one worker at a    *)
(* time; only a lapsed deadline makes a second copy of its id.             *)
OnlyPlace(j) ==
  \A w \in Worker :
    hand[w].id = j => ~InPending(j) /\ \A v \in Worker : hand[v].id = j => v = w

NeverRescues(w) == scan[w] = {} /\ phase[w] \notin {"recovering", "rescuing"}

QueuedOnce == \A i, k \in 1 .. Len(pending) : pending[i] = pending[k] => i = k

OnePlaceInv ==
  /\ QueueTypeOK /\ lapsed = {} /\ QueuedOnce
  /\ \A j \in JobId : OnlyPlace(j)
  /\ \A w \in Worker : NeverRescues(w)

(* Deadlines outlast the work: nobody waits for the visibility timeout.    *)
PromptNext == QueueNext /\ \A j \in JobId : ~Lapse(j)
PromptQueueSpec == QueueInit /\ [][PromptNext]_queueVars

HeldByOne ==
  \A v, w \in Worker :
    phase[v] = "holding" /\ phase[w] = "holding" /\ hand[v].id = hand[w].id => v = w

(* An id that is in no place yet is pushed to the pending list.            *)
LEMMA PushOnce ==
  ASSUME pending \in Seq(JobId), QueuedOnce, NEW j \in JobId, ~InPending(j),
         pending' = Append(pending, j)
  PROVE  QueuedOnce'
<1>1. /\ Len(pending) \in Nat /\ Len(pending') = Len(pending) + 1
      /\ pending'[Len(pending) + 1] = j
      /\ \A i \in 1 .. Len(pending) : pending'[i] = pending[i] /\ pending[i] # j
  BY DEF InPending
<1> SUFFICES ASSUME NEW i \in 1 .. Len(pending'), NEW k \in 1 .. Len(pending'),
                    pending'[i] = pending'[k]
             PROVE  i = k
  BY DEF QueuedOnce
<1>2. CASE i \in 1 .. Len(pending) /\ k \in 1 .. Len(pending)
  BY <1>1, <1>2 DEF QueuedOnce
<1>3. CASE i = Len(pending) + 1 \/ k = Len(pending) + 1
  <2>1. /\ i \in 1 .. Len(pending) \/ i = Len(pending) + 1
        /\ k \in 1 .. Len(pending) \/ k = Len(pending) + 1
    BY <1>1
  <2> QED BY <1>1, <1>3, <2>1
<1> QED BY <1>1, <1>2, <1>3

(* The head leaves the pending list for good.                              *)
LEMMA PopOnce ==
  ASSUME pending \in Seq(JobId), pending # <<>>, QueuedOnce, pending' = Tail(pending)
  PROVE  QueuedOnce' /\ \A j \in JobId : j = Head(pending) => ~InPending(j)'
<1>1. /\ Len(pending) \in Nat \ {0} /\ Len(pending') = Len(pending) - 1
      /\ Head(pending) = pending[1]
      /\ \A i \in 1 .. Len(pending') : pending'[i] = pending[i + 1]
  OBVIOUS
<1>2. QueuedOnce'
  <2> SUFFICES ASSUME NEW i \in 1 .. Len(pending'), NEW k \in 1 .. Len(pending'),
                      pending'[i] = pending'[k]
               PROVE  i = k
    BY DEF QueuedOnce
  <2>1. i + 1 \in 1 .. Len(pending) /\ k + 1 \in 1 .. Len(pending)
    BY <1>1
  <2>2. pending[i + 1] = pending[k + 1]
    BY <1>1
  <2>3. i + 1 = k + 1
    BY <2>1, <2>2 DEF QueuedOnce
  <2> QED BY <1>1, <2>3
<1>3. ASSUME NEW i \in 1 .. Len(pending'), pending'[i] = Head(pending) PROVE FALSE
  <2>1. i + 1 \in 1 .. Len(pending) /\ 1 \in 1 .. Len(pending) /\ pending[i + 1] = pending[1]
    BY <1>1, <1>3
  <2>2. i + 1 = 1
    BY <2>1 DEF QueuedOnce
  <2> QED BY <1>1, <2>2
<1> QED BY <1>2, <1>3 DEF InPending

(* Where hands are emptied or kept, and nothing is pushed.                 *)
LEMMA HandsShrink ==
  ASSUME QueuedOnce, \A j \in JobId : OnlyPlace(j), pending' = pending,
         \A v \in Worker, j \in JobId : hand'[v].id = j => hand[v].id = j
  PROVE  QueuedOnce' /\ \A j \in JobId : OnlyPlace(j)'
BY DEF QueuedOnce, OnlyPlace, InPending

LEMMA OnePlaceStep ==
  ASSUME OnePlaceInv, [PromptNext]_queueVars
  PROVE  OnePlaceInv'
<1> USE NoneAssumption
<1>0. /\ QueueTypeOK /\ lapsed = {} /\ QueuedOnce /\ \A j \in JobId : OnlyPlace(j)
      /\ \A w \in Worker : NeverRescues(w)
  BY DEF OnePlaceInv
<1>t. /\ pending \in Seq(JobId) /\ hand \in [Worker -> Hand] /\ phase \in [Worker -> Phase]
      /\ scan \in [Worker -> SUBSET JobId]
      /\ \A w \in Worker : phase[w] \in {"popped", "read", "holding"} => hand[w].id \in JobId
  BY <1>0 DEF QueueTypeOK
<1>q. QueueTypeOK'
  BY <1>0, QueueTypeStep DEF PromptNext
<1>r. ASSUME NEW w \in Worker, DropHand(w), hand[w].id \in JobId,
             RetryPipe(hand[w].id, hand[w].job)
      PROVE  QueuedOnce' /\ \A j \in JobId : OnlyPlace(j)'
  <2>1. hand'[w].id = None /\ \A v \in Worker \ {w} : hand'[v] = hand[v]
    BY <1>t, <1>r DEF DropHand, EmptyHand
  <2>2. CASE pending' = pending
    BY <1>0, <2>1, <2>2, HandsShrink
  <2>3. CASE pending' = Append(pending, hand[w].id)
    <3>1. /\ ~InPending(hand[w].id)
          /\ \A v \in Worker \ {w} : hand[v].id # hand[w].id
      BY <1>0, <1>r DEF OnlyPlace
    <3>2. \A k \in JobId : InPending(k)' <=> InPending(k) \/ k = hand[w].id
      BY <1>r, <1>t, <2>3, PushPending
    <3>3. QueuedOnce'
      BY <1>0, <1>r, <1>t, <2>3, <3>1, PushOnce
    <3>4. ASSUME NEW j \in JobId PROVE OnlyPlace(j)'
      BY <1>0, <2>1, <3>1, <3>2 DEF OnlyPlace
    <3> QED BY <3>3, <3>4
  <2> QED BY <1>r, <2>2, <2>3 DEF RetryPipe
<1> DEFINE Goal == /\ lapsed' = {} /\ QueuedOnce' /\ \A j \in JobId : OnlyPlace(j)'
                   /\ \A w \in Worker : NeverRescues(w)'
<1>1. ASSUME Submit PROVE Goal
  <2>1. PICK j \in JobId :
          /\ Unused(j) /\ pending' = Append(pending, j)
          /\ UNCHANGED <<lapsed, phase, hand, scan>>
    BY <1>1 DEF Submit, Enqueue, clientVars
  <2>2. ~InPending(j) /\ \A w \in Worker : hand[w].id # j
    BY <2>1 DEF Unused
  <2>3. \A k \in JobId : InPending(k)' <=> InPending(k) \/ k = j
    BY <1>t, <2>1, PushPending
  <2>4. QueuedOnce'
    BY <1>0, <1>t, <2>1, <2>2, PushOnce
  <2>5. \A k \in JobId : OnlyPlace(k)'
    BY <1>0, <2>1, <2>2, <2>3 DEF OnlyPlace
  <2>6. \A w \in Worker : NeverRescues(w)'
    BY <1>0, <2>1 DEF NeverRescues
  <2> QED BY <1>0, <2>1, <2>4, <2>5, <2>6
<1>2. ASSUME NEW w \in Worker,
             \/ ScanExpired(w) \/ BlPopTimeout(w) \/ HGet(w) \/ ZAdd(w) \/ Abandon(w)
             \/ AckReplyLost(w) \/ Ack(w)
      PROVE  Goal
  <2>1. /\ lapsed' \subseteq lapsed /\ pending' = pending
        /\ \A v \in Worker \ {w} : hand'[v] = hand[v]
        /\ hand'[w].id \in {hand[w].id, None}
    <3>1. CASE ScanExpired(w) \/ BlPopTimeout(w) \/ ZAdd(w)
      BY <3>1 DEF ScanExpired, BlPopTimeout, ZAdd, redisVars
    <3>2. CASE HGet(w)
      BY <1>t, <3>2 DEF HGet, DropHand, SetHand, EmptyHand, redisVars
    <3>3. CASE Abandon(w)
      BY <1>t, <3>3 DEF Abandon, DropHand, EmptyHand, redisVars
    <3>4. CASE AckReplyLost(w)
      BY <3>4 DEF AckReplyLost, AckPipe, ZRem, clientVars
    <3>5. CASE Ack(w)
      BY <1>t, <3>5 DEF Ack, AckPipe, ZRem, DropHand, EmptyHand
    <3> QED BY <1>2, <3>1, <3>2, <3>3, <3>4, <3>5
  <2>2. QueuedOnce' /\ \A j \in JobId : OnlyPlace(j)'
    BY <1>0, <2>1, HandsShrink
  <2>3. ASSUME NEW v \in Worker PROVE NeverRescues(v)'
    <3>1. /\ phase'[v] \in {phase[v], "claiming", "idle", "read", "holding"}
          /\ scan'[v] \in {scan[v], {}}
      <4>1. CASE ScanExpired(w)
        BY <1>0, <1>t, <4>1 DEF ScanExpired, Goto
      <4>2. CASE BlPopTimeout(w) \/ HGet(w) \/ ZAdd(w) \/ Ack(w)
        BY <1>t, <4>2 DEF BlPopTimeout, HGet, ZAdd, Ack, Goto
      <4>3. CASE Abandon(w) \/ AckReplyLost(w)
        BY <1>t, <4>3 DEF Abandon, AckReplyLost, Goto, clientVars
      <4> QED BY <1>2, <4>1, <4>2, <4>3
    <3> QED BY <1>0, <3>1 DEF NeverRescues
  <2> QED BY <1>0, <2>1, <2>2, <2>3
<1>3. ASSUME NEW w \in Worker, BlPop(w) PROVE Goal
  <2>1. /\ pending # <<>> /\ pending' = Tail(pending)
        /\ hand' = [hand EXCEPT ![w] = [id |-> Head(pending), job |-> None]]
        /\ phase' = [phase EXCEPT ![w] = "popped"]
        /\ UNCHANGED <<lapsed, scan>>
    BY <1>3 DEF BlPop, SetHand, Goto
  <2>2. /\ Head(pending) \in JobId /\ InPending(Head(pending))
        /\ \A k \in JobId : InPending(k)' => InPending(k)
    BY <1>t, <2>1, PopPending
  <2>3. QueuedOnce' /\ \A j \in JobId : j = Head(pending) => ~InPending(j)'
    BY <1>0, <1>t, <2>1, PopOnce
  <2>4. \A v \in Worker : hand[v].id # Head(pending)
    BY <1>0, <2>2 DEF OnlyPlace
  <2>5. /\ hand'[w].id = Head(pending)
        /\ \A v \in Worker \ {w} : hand'[v] = hand[v]
    BY <1>t, <2>1
  <2>6. ASSUME NEW j \in JobId PROVE OnlyPlace(j)'
    <3>1. CASE j = Head(pending)
      BY <2>3, <2>4, <2>5, <3>1 DEF OnlyPlace
    <3>2. CASE j # Head(pending)
      BY <1>0, <2>2, <2>5, <3>2 DEF OnlyPlace
    <3> QED BY <3>1, <3>2
  <2>7. \A v \in Worker : NeverRescues(v)'
    BY <1>0, <1>t, <2>1 DEF NeverRescues
  <2> QED BY <1>0, <2>1, <2>3, <2>6, <2>7
<1>4. ASSUME NEW w \in Worker, Retry(w) PROVE Goal
  <2>1. hand[w].id \in JobId /\ DropHand(w) /\ RetryPipe(hand[w].id, hand[w].job)
    BY <1>4, <1>t DEF Retry
  <2>2. QueuedOnce' /\ \A j \in JobId : OnlyPlace(j)'
    BY <1>r, <2>1
  <2>3. lapsed' = {} /\ phase' = [phase EXCEPT ![w] = "idle"] /\ scan' = scan
    BY <1>0, <1>4, <2>1 DEF Retry, Goto, RetryPipe, ZRem
  <2>4. \A v \in Worker : NeverRescues(v)'
    BY <1>0, <1>t, <2>3 DEF NeverRescues
  <2> QED BY <2>2, <2>3, <2>4
<1>5. ASSUME NEW w \in Worker, ReadExpired(w) \/ RescueExpired(w) PROVE Goal
  BY <1>0, <1>5 DEF ReadExpired, RescueExpired, NeverRescues
<1>6. ASSUME UNCHANGED queueVars PROVE Goal
  <2>1. UNCHANGED <<pending, lapsed, phase, hand, scan>>
    BY <1>6 DEF queueVars
  <2>2. QueuedOnce' /\ \A j \in JobId : OnlyPlace(j)'
    BY <1>0, <2>1, HandsShrink
  <2> QED BY <1>0, <2>1, <2>2 DEF NeverRescues
<1> HIDE DEF Goal
<1>7. Goal
  BY <1>1, <1>2, <1>3, <1>4, <1>5, <1>6 DEF PromptNext, QueueNext, WorkerStep
<1> QED BY <1>q, <1>7 DEF OnePlaceInv, Goal

LEMMA OnePlaceInit == QueueInit => OnePlaceInv
<1> SUFFICES ASSUME QueueInit PROVE OnePlaceInv
  OBVIOUS
<1>1. QueueTypeOK
  BY MaxFaultsAssumption DEF QueueInit, QueueTypeOK, EmptyHand, Hand, Phase
<1>2. lapsed = {} /\ QueuedOnce /\ (\A j \in JobId : OnlyPlace(j))
      /\ \A w \in Worker : NeverRescues(w)
  BY NoneAssumption DEF QueueInit, QueuedOnce, OnlyPlace, NeverRescues, EmptyHand, InPending
<1> QED BY <1>1, <1>2 DEF OnePlaceInv

(* queue.py RedisJobQueue: a job belongs to the worker that claimed it     *)
(* until its visibility deadline lapses.  However many workers run, die,   *)
(* retry or lose the reply of an ack, two of them never hold the same job  *)
(* as long as no deadline lapses under a job that is in flight.            *)
THEOREM OneHolderBeforeTheDeadline == PromptQueueSpec => []HeldByOne
<1>1. OnePlaceInv /\ [PromptNext]_queueVars => OnePlaceInv'
  BY OnePlaceStep
<1>2. OnePlaceInv => HeldByOne
  BY DEF OnePlaceInv, OnlyPlace, HeldByOne, QueueTypeOK
<1> QED BY <1>1, <1>2, OnePlaceInit, PTL DEF PromptQueueSpec

-----------------------------------------------------------------------------
(***************************************************************************)
(* The service                                                             *)
(***************************************************************************)

Handling == {"load", "loaded", "working", "done", "failing", "refused"}

GivenUp(r) == \E d \in dead : d.payload = r

RedisKeepsData == "flush" \notin FaultPoints

(* A handler works for the job its worker holds; a handler that is about   *)
(* to store the generic failure was told by retry that the job is dead,    *)
(* which stays visible as long as Redis keeps its data.                    *)
HandlerKnows(w) ==
  /\ step[w] \in Handling => phase[w] = "holding" /\ hand[w].job.payload = task[w]
  /\ step[w] = "marking" =>
       task[w] \in Run /\ (RedisKeepsData /\ copy[w] = "generic" => GivenUp(task[w]))

GivenUpInv ==
  /\ ServiceTypeOK
  /\ \A w \in Worker : HandlerKnows(w)
  /\ RedisKeepsData => FailedMeansGivenUp

-----------------------------------------------------------------------------
(* Rows *)

LEMMA RowsTyped ==
  ASSUME NEW row \in RunRow
  PROVE  /\ NoRow \in RunRow /\ CreatedRow \in RunRow
         /\ CreatedRow.status = "queued"
         /\ \A s \in RunStatus \cup {"expired", None} :
              /\ RunningRow(row, s) \in RunRow
              /\ RunningRow(row, s).status \in {row.status, "running"}
              /\ RunningRow(row, s).error = row.error
         /\ \A c \in BOOLEAN : /\ CompletedRow(row, c) \in RunRow
                               /\ CompletedRow(row, c).status = "completed"
         /\ \A c \in ErrorCopy : /\ FailedRow(row, c) \in RunRow
                                 /\ FailedRow(row, c).error = c
         /\ AppendEvent(row, "progress") \in RunRow
         /\ AppendEvent(row, "progress").status = row.status
         /\ AppendEvent(row, "progress").error = row.error
<1>1. ASSUME NEW r \in RunRow, NEW e \in RunEventType
      PROVE  /\ AppendEvent(r, e) \in RunRow
             /\ AppendEvent(r, e).status = r.status
             /\ AppendEvent(r, e).error = r.error
  <2>1. Append(r.events, e) \in Seq(RunEventType)
    BY DEF RunRow
  <2> QED BY <2>1 DEF AppendEvent, RunRow
<1>2. NoRow \in RunRow
  BY DEF NoRow, RunRow, RunStatus, ErrorCopy
<1>3. CreatedRow \in RunRow /\ CreatedRow.status = "queued"
  <2>1. [NoRow EXCEPT !.status = "queued"] \in RunRow
        /\ [NoRow EXCEPT !.status = "queued"].status = "queued"
    BY <1>2 DEF NoRow, RunRow, RunStatus
  <2> QED BY <1>1, <2>1 DEF CreatedRow, RunEventType
<1>4. Touched(row) \in RunRow /\ Touched(row).status = row.status
      /\ Touched(row).error = row.error /\ Touched(row).cited = row.cited
  BY DEF Touched, RunRow
<1>5. ASSUME NEW s \in RunStatus \cup {"expired", None}
      PROVE  /\ RunningRow(row, s) \in RunRow
             /\ RunningRow(row, s).status \in {row.status, "running"}
             /\ RunningRow(row, s).error = row.error
  BY <1>4 DEF RunningRow, RunRow, RunStatus
<1>6. ASSUME NEW c \in BOOLEAN
      PROVE  CompletedRow(row, c) \in RunRow /\ CompletedRow(row, c).status = "completed"
  <2> DEFINE r == [Touched(row) EXCEPT !.status = "completed", !.cited = @ \/ c]
  <2>1. r \in RunRow /\ r.status = "completed"
    BY <1>4 DEF RunRow, RunStatus, Terminal
  <2> HIDE DEF r
  <2>2. CompletedRow(row, c) = AppendEvent(r, "completed")
    BY DEF CompletedRow, r
  <2> QED BY <1>1, <2>1, <2>2 DEF RunEventType
<1>7. ASSUME NEW c \in ErrorCopy
      PROVE  FailedRow(row, c) \in RunRow /\ FailedRow(row, c).error = c
  <2> DEFINE r == [Touched(row) EXCEPT !.status = "failed", !.error = c]
  <2>1. r \in RunRow /\ r.error = c
    BY <1>4 DEF RunRow, RunStatus, Terminal
  <2> HIDE DEF r
  <2>2. FailedRow(row, c) = AppendEvent(r, "failed")
    BY DEF FailedRow, r
  <2> QED BY <1>1, <2>1, <2>2 DEF RunEventType
<1> QED BY <1>1, <1>2, <1>3, <1>5, <1>6, <1>7 DEF RunEventType

LEMMA TaskKnown ==
  ASSUME GivenUpInv, NEW w \in Worker, step[w] \in Handling \cup {"marking"}
  PROVE  task[w] \in Run
<1>1. CASE step[w] \in Handling
  BY <1>1 DEF GivenUpInv, HandlerKnows, ServiceTypeOK, QueueTypeOK, Job, Run
<1> QED BY <1>1 DEF GivenUpInv, HandlerKnows

-----------------------------------------------------------------------------
(* The queue *)

(* Every step of the service is one of the queue, or leaves Redis and the  *)
(* hands of the workers alone, or forgets a hand, or empties Redis.        *)
LEMMA QueueSteps ==
  ASSUME GivenUpInv, ServiceNext
  PROVE  \/ QueueNext
         \/ UNCHANGED <<redisVars, clientVars>> /\ (UNCHANGED faults \/ Fault)
         \/ \E w \in Worker : HandlerEscapes(w)
         \/ RedisFlush
<1> DEFINE Untouched == UNCHANGED <<redisVars, clientVars>> /\ (UNCHANGED faults \/ Fault)
<1>1. ASSUME NEW r \in Run, Enqueue(r), UNCHANGED <<clientVars, faults>> PROVE QueueNext
  BY <1>1 DEF QueueNext, Submit, Run
<1>2. ASSUME NEW r \in Run, CreateRun(r) \/ SubmitFails(r) \/ RowAges(r) PROVE Untouched
  BY <1>2 DEF CreateRun, SubmitFails, RowAges, queueVars, redisVars, clientVars
<1>3. ASSUME NEW r \in Run, SubmitRun(r) PROVE QueueNext
  BY <1>1, <1>3 DEF SubmitRun
<1>4. ASSUME NEW j \in JobId, DeadlineLapses(j) PROVE QueueNext
  BY <1>4 DEF DeadlineLapses, QueueNext
<1>6. ASSUME NEW w \in Worker, SweepRow(w) PROVE QueueNext
  <2>1. PICK r \in sweep[w] : Enqueue(r) /\ UNCHANGED <<clientVars, faults>>
    BY <1>6 DEF SweepRow
  <2>2. r \in Run
    BY <2>1 DEF GivenUpInv, ServiceTypeOK
  <2> QED BY <1>1, <2>1, <2>2
<1>7. ASSUME NEW w \in Worker, QueueCall(w) \/ Claim(w) PROVE QueueNext
  BY <1>7 DEF QueueCall, Claim, QueueNext, WorkerStep
<1>8. ASSUME NEW w \in Worker, CrashWorker(w) \/ ClaimRaises(w) PROVE QueueNext
  BY <1>8 DEF CrashWorker, ClaimRaises, QueueNext
<1>9. ASSUME NEW w \in Worker, AckJob(w) \/ AckRefused(w) \/ RetryJob(w) PROVE QueueNext
  BY <1>9 DEF AckJob, AckRefused, RetryJob, QueueNext, WorkerStep
<1>10. ASSUME NEW w \in Worker,
              \/ StartWorker(w) \/ StopWorker(w) \/ LoadRun(w) \/ MarkRunning(w)
              \/ EmitProgress(w) \/ MarkCompleted(w) \/ WriteConflict(w)
              \/ WorkflowRaises(w) \/ ProviderRefuses(w) \/ ReloadRun(w) \/ MarkFailed(w)
       PROVE  Untouched
  <2>1. UNCHANGED queueVars
    BY <1>10 DEF StartWorker, StopWorker, LoadRun, MarkRunning, EmitProgress, MarkCompleted,
       WriteConflict, WorkflowRaises, ProviderRefuses, ReloadRun, MarkFailed
  <2> QED BY <2>1 DEF queueVars, redisVars, clientVars
<1>11. ASSUME NEW w \in Worker, SweepFails(w) \/ MarkSwallowed(w) \/ DatabaseRaises(w)
       PROVE  Untouched
  BY <1>11 DEF SweepFails, MarkSwallowed, DatabaseRaises
<1>12. ASSUME NEW w \in Worker, AckRaises(w) PROVE QueueNext \/ Untouched
  BY <1>12 DEF AckRaises, QueueNext
<1> HIDE DEF Untouched
<1>13. QueueNext \/ Untouched \/ RedisFlush \/ \E w \in Worker : HandlerEscapes(w)
  BY <1>2, <1>3, <1>4, <1>6, <1>7, <1>8, <1>9, <1>10, <1>11, <1>12
     DEF ServiceNext, ProcessStep, HandlerStep
<1> QED BY <1>13 DEF Untouched

LEMMA QueuePart ==
  ASSUME GivenUpInv, ServiceNext
  PROVE  QueueTypeOK' /\ (RedisKeepsData => dead \subseteq dead')
<1>0. QueueTypeOK
  BY DEF GivenUpInv, ServiceTypeOK
<1>1. ASSUME QueueNext PROVE QueueTypeOK' /\ dead \subseteq dead'
  <2>1. QueueTypeOK'
    BY <1>0, <1>1, QueueTypeStep
  <2>2. ASSUME NEW j, NEW job, RetryPipe(j, job) PROVE dead \subseteq dead'
    BY <2>2 DEF RetryPipe
  <2>3. dead \subseteq dead'
    BY <1>1, <2>2 DEF QueueNext, Submit, Enqueue, Lapse, WorkerStep, Abandon, AckReplyLost,
       ScanExpired, ReadExpired, RescueExpired, BlPop, BlPopTimeout, HGet, ZAdd, Ack, Retry,
       AckPipe, redisVars
  <2> QED BY <2>1, <2>3
<1>2. ASSUME UNCHANGED <<redisVars, clientVars>>, UNCHANGED faults \/ Fault
      PROVE  QueueTypeOK' /\ dead \subseteq dead'
  BY <1>0, <1>2, MaxFaultsAssumption DEF QueueTypeOK, redisVars, clientVars, Fault
<1>3. ASSUME NEW w \in Worker, HandlerEscapes(w) PROVE QueueTypeOK' /\ dead \subseteq dead'
  BY <1>0, <1>3, MaxFaultsAssumption
     DEF HandlerEscapes, QueueTypeOK, Fault, DropHand, Goto, redisVars, EmptyHand, Hand, Phase
<1>4. ASSUME RedisFlush PROVE QueueTypeOK' /\ ~RedisKeepsData
  BY <1>0, <1>4, MaxFaultsAssumption
     DEF RedisFlush, RedisKeepsData, QueueTypeOK, Fault, clientVars
<1> QED BY <1>1, <1>2, <1>3, <1>4, QueueSteps

-----------------------------------------------------------------------------
(* Rows and processes *)

(* Which run's row a step writes, and with what.                           *)
LEMMA RowPart ==
  ASSUME GivenUpInv, ServiceNext
  PROVE  \/ UNCHANGED run
         \/ \E r \in Run, row \in RunRow :
              /\ run' = [run EXCEPT ![r] = row]
              /\ \/ row.status \in {"queued", "completed", "running"}
                 \/ row.status = run[r].status /\ row.error = run[r].error
                 \/ \E w \in Worker : step[w] = "marking" /\ task[w] = r /\ row.error = copy[w]
<1>0. /\ run \in [Run -> RunRow] /\ seen \in [Worker -> RunStatus \cup {"expired", None}]
      /\ copy \in [Worker -> ErrorCopy]
  BY DEF GivenUpInv, ServiceTypeOK
<1> DEFINE Goal == \/ UNCHANGED run
                   \/ \E r \in Run, row \in RunRow :
                        /\ run' = [run EXCEPT ![r] = row]
                        /\ \/ row.status \in {"queued", "completed", "running"}
                           \/ row.status = run[r].status /\ row.error = run[r].error
                           \/ \E w \in Worker : /\ step[w] = "marking" /\ task[w] = r
                                                /\ row.error = copy[w]
<1>1. ASSUME NEW r \in Run, CreateRun(r) PROVE Goal
  BY <1>0, <1>1, RowsTyped DEF CreateRun, WriteRow
<1>2. ASSUME NEW r \in Run, RowAges(r) PROVE Goal
  <2> DEFINE row == [run[r] EXCEPT !.stale = TRUE]
  <2>1. row \in RunRow /\ row.status = run[r].status /\ row.error = run[r].error
    BY <1>0 DEF RunRow
  <2>2. run' = [run EXCEPT ![r] = row]
    BY <1>2 DEF RowAges, WriteRow
  <2> QED BY <2>1, <2>2
<1>3. ASSUME NEW w \in Worker, MarkRunning(w) PROVE Goal
  <2>1. task[w] \in Run /\ run[task[w]] \in RunRow
    BY <1>0, <1>3, TaskKnown DEF MarkRunning, Handling
  <2>2. /\ RunningRow(run[task[w]], seen[w]) \in RunRow
        /\ RunningRow(run[task[w]], seen[w]).status \in {run[task[w]].status, "running"}
        /\ RunningRow(run[task[w]], seen[w]).error = run[task[w]].error
    BY <1>0, <2>1, RowsTyped
  <2> QED BY <1>3, <2>1, <2>2 DEF MarkRunning, WriteRow
<1>4. ASSUME NEW w \in Worker, EmitProgress(w) PROVE Goal
  <2>1. task[w] \in Run /\ run[task[w]] \in RunRow
    BY <1>0, <1>4, TaskKnown DEF EmitProgress, Handling
  <2> DEFINE row == AppendEvent(run[task[w]], "progress")
  <2>2. /\ row \in RunRow /\ row.status = run[task[w]].status
        /\ row.error = run[task[w]].error
    BY <2>1, RowsTyped
  <2>3. run' = [run EXCEPT ![task[w]] = row]
    BY <1>4 DEF EmitProgress, WriteRow
  <2> HIDE DEF row
  <2> QED BY <2>1, <2>2, <2>3
<1>5. ASSUME NEW w \in Worker, MarkCompleted(w) PROVE Goal
  <2>1. task[w] \in Run /\ run[task[w]] \in RunRow
    BY <1>0, <1>5, TaskKnown DEF MarkCompleted, Handling
  <2>2. PICK citing \in BOOLEAN : WriteRow(task[w], CompletedRow(run[task[w]], citing))
    BY <1>5 DEF MarkCompleted
  <2>3. /\ CompletedRow(run[task[w]], citing) \in RunRow
        /\ CompletedRow(run[task[w]], citing).status = "completed"
    BY <2>1, RowsTyped
  <2> QED BY <2>1, <2>2, <2>3 DEF WriteRow
<1>6. ASSUME NEW w \in Worker, MarkFailed(w) PROVE Goal
  <2>1. task[w] \in Run /\ run[task[w]] \in RunRow
    BY <1>0, <1>6, TaskKnown DEF MarkFailed
  <2>2. CASE UNCHANGED run
    BY <2>2
  <2>3. CASE WriteRow(task[w], FailedRow(run[task[w]], copy[w]))
    <3>1. /\ FailedRow(run[task[w]], copy[w]) \in RunRow
          /\ FailedRow(run[task[w]], copy[w]).error = copy[w]
      BY <1>0, <2>1, RowsTyped
    <3>2. step[w] = "marking"
      BY <1>6 DEF MarkFailed
    <3> QED BY <2>1, <2>3, <3>1, <3>2 DEF WriteRow
  <2> QED BY <1>6, <2>2, <2>3 DEF MarkFailed
<1>7. ASSUME ~(\E r \in Run : CreateRun(r) \/ RowAges(r)),
             ~(\E w \in Worker : MarkRunning(w) \/ EmitProgress(w) \/ MarkCompleted(w)
                                 \/ MarkFailed(w))
      PROVE  UNCHANGED run
  BY <1>7 DEF ServiceNext, ProcessStep, HandlerStep, SubmitRun, SubmitFails, DeadlineLapses,
     RedisFlush, StartWorker, StopWorker, SweepRow, QueueCall, Claim, LoadRun, WriteConflict,
     WorkflowRaises, ProviderRefuses, AckJob, AckRefused, RetryJob, ReloadRun, SweepFails,
     CrashWorker, ClaimRaises, AckRaises, HandlerEscapes, MarkSwallowed, DatabaseRaises
<1> QED BY <1>1, <1>2, <1>3, <1>4, <1>5, <1>6, <1>7

LEMMA ProcessTypes ==
  ASSUME GivenUpInv, ServiceNext
  PROVE  /\ submitting' \in SUBSET Run /\ step' \in [Worker -> Step]
         /\ sweep' \in [Worker -> SUBSET Run] /\ task' \in [Worker -> Run \cup {None}]
         /\ seen' \in [Worker -> RunStatus \cup {"expired", None}]
         /\ copy' \in [Worker -> ErrorCopy]
<1>0. /\ run \in [Run -> RunRow] /\ submitting \in SUBSET Run /\ step \in [Worker -> Step]
      /\ sweep \in [Worker -> SUBSET Run] /\ task \in [Worker -> Run \cup {None}]
      /\ seen \in [Worker -> RunStatus \cup {"expired", None}]
      /\ copy \in [Worker -> ErrorCopy]
      /\ QueueTypeOK
  BY DEF GivenUpInv, ServiceTypeOK
<1> DEFINE Goal ==
       /\ submitting' \in SUBSET Run /\ step' \in [Worker -> Step]
       /\ sweep' \in [Worker -> SUBSET Run] /\ task' \in [Worker -> Run \cup {None}]
       /\ seen' \in [Worker -> RunStatus \cup {"expired", None}]
       /\ copy' \in [Worker -> ErrorCopy]
<1> USE <1>0 DEF SetStep, SetSeen, Step, ForgetTask
<1>1. ASSUME NEW r \in Run, CreateRun(r) \/ SubmitRun(r) \/ SubmitFails(r) \/ RowAges(r)
      PROVE  Goal
  BY <1>1 DEF CreateRun, SubmitRun, SubmitFails, RowAges, workerVars
<1>2. ASSUME RedisFlush \/ \E j \in JobId : DeadlineLapses(j) PROVE Goal
  BY <1>2 DEF RedisFlush, DeadlineLapses, workerVars
<1>3. ASSUME NEW w \in Worker, StartWorker(w) \/ StopWorker(w) \/ SweepRow(w) \/ SweepFails(w)
      PROVE  Goal
  BY <1>3 DEF StartWorker, StopWorker, SweepRow, SweepFails
<1>4. ASSUME NEW w \in Worker, CrashWorker(w) \/ ClaimRaises(w) \/ QueueCall(w)
                               \/ HandlerEscapes(w) \/ MarkSwallowed(w)
      PROVE  Goal
  BY <1>4 DEF CrashWorker, ClaimRaises, QueueCall, HandlerEscapes, MarkSwallowed, workerVars,
     ErrorCopy
<1>5. ASSUME NEW w \in Worker, Claim(w) PROVE Goal
  <2>1. hand[w].job.payload \in Run
    BY <1>5 DEF Claim, ZAdd, QueueTypeOK, Job, Run
  <2> QED BY <1>5, <2>1 DEF Claim
<1>6. ASSUME NEW w \in Worker, LoadRun(w) \/ ReloadRun(w) PROVE Goal
  <2>1. run[task[w]].status \in RunStatus
    <3>1. task[w] \in Run
      BY <1>6, TaskKnown DEF LoadRun, ReloadRun, Handling
    <3> QED BY <3>1 DEF RunRow
  <2> QED BY <1>6, <2>1 DEF LoadRun, ReloadRun
<1>7. ASSUME NEW w \in Worker, MarkRunning(w) \/ EmitProgress(w) \/ MarkCompleted(w)
                \/ WriteConflict(w) \/ WorkflowRaises(w) \/ ProviderRefuses(w)
                \/ DatabaseRaises(w)
      PROVE  Goal
  BY <1>7 DEF MarkRunning, EmitProgress, MarkCompleted, WriteConflict, WorkflowRaises,
     ProviderRefuses, DatabaseRaises, workerVars, RunStatus, Terminal
<1>8. ASSUME NEW w \in Worker, AckJob(w) \/ AckRaises(w) \/ AckRefused(w) PROVE Goal
  BY <1>8 DEF AckJob, AckRaises, AckRefused, ErrorCopy
<1>9. ASSUME NEW w \in Worker, RetryJob(w) PROVE Goal
  <2>1. CASE Exhausted(hand[w].job)
    BY <1>9, <2>1 DEF RetryJob, ErrorCopy
  <2>2. CASE ~Exhausted(hand[w].job)
    BY <1>9, <2>2 DEF RetryJob, ErrorCopy
  <2> QED BY <2>1, <2>2
<1>10. ASSUME NEW w \in Worker, MarkFailed(w) PROVE Goal
  BY <1>10 DEF MarkFailed, ErrorCopy
<1> QED BY <1>1, <1>2, <1>3, <1>4, <1>5, <1>6, <1>7, <1>8, <1>9, <1>10
        DEF ServiceNext, ProcessStep, HandlerStep

-----------------------------------------------------------------------------
(* What a handler knows *)

(* A step of one worker moves nothing another worker's handler relies on.  *)
LEMMA OthersKnow ==
  ASSUME GivenUpInv, RedisKeepsData => dead \subseteq dead', NEW v \in Worker,
         step'[v] = step[v], phase'[v] = phase[v], hand'[v] = hand[v],
         task'[v] = task[v], copy'[v] = copy[v]
  PROVE  HandlerKnows(v)'
BY DEF GivenUpInv, HandlerKnows, GivenUp

(* The position of w does not matter outside the handler.                  *)
LEMMA OutsideKnows ==
  ASSUME NEW v \in Worker, step'[v] \notin Handling \cup {"marking"}
  PROVE  HandlerKnows(v)'
BY DEF HandlerKnows

LEMMA KnowsPart ==
  ASSUME GivenUpInv, ServiceNext, RedisKeepsData => dead \subseteq dead'
  PROVE  \A v \in Worker : HandlerKnows(v)'
<1> SUFFICES ASSUME NEW v \in Worker PROVE HandlerKnows(v)'
  OBVIOUS
<1>0. /\ step \in [Worker -> Step] /\ task \in [Worker -> Run \cup {None}]
      /\ copy \in [Worker -> ErrorCopy] /\ QueueTypeOK
      /\ phase \in [Worker -> Phase] /\ hand \in [Worker -> Hand]
  BY DEF GivenUpInv, ServiceTypeOK, QueueTypeOK
<1> DEFINE Same == /\ step'[v] = step[v] /\ phase'[v] = phase[v] /\ hand'[v] = hand[v]
                   /\ task'[v] = task[v] /\ copy'[v] = copy[v]
           Outside == step'[v] \notin Handling \cup {"marking"}
<1> USE <1>0 DEF SetStep, SetSeen, ForgetTask, Goto, SetHand, DropHand, Handling
<1>1. ASSUME NEW r \in Run, CreateRun(r) \/ SubmitRun(r) \/ SubmitFails(r) \/ RowAges(r)
      PROVE  Same
  BY <1>1 DEF CreateRun, SubmitRun, SubmitFails, RowAges, workerVars, clientVars, queueVars
<1>2. ASSUME RedisFlush \/ \E j \in JobId : DeadlineLapses(j) PROVE Same
  BY <1>2 DEF RedisFlush, DeadlineLapses, Lapse, workerVars, clientVars
<1>3. ASSUME NEW w \in Worker, w # v,
             \/ StartWorker(w) \/ StopWorker(w) \/ ProcessStep(w)
             \/ SweepFails(w) \/ CrashWorker(w) \/ ClaimRaises(w)
             \/ AckRaises(w) \/ HandlerEscapes(w) \/ MarkSwallowed(w) \/ DatabaseRaises(w)
      PROVE  Same
  <2>1. CASE StartWorker(w) \/ StopWorker(w) \/ SweepRow(w) \/ SweepFails(w)
    BY <1>3, <2>1 DEF StartWorker, StopWorker, SweepRow, SweepFails, clientVars, queueVars
  <2>2. CASE QueueCall(w) \/ Claim(w) \/ CrashWorker(w) \/ ClaimRaises(w)
    BY <1>3, <2>2 DEF QueueCall, Claim, CrashWorker, ClaimRaises, Abandon, ScanExpired,
       ReadExpired, RescueExpired, BlPop, BlPopTimeout, HGet, ZAdd, workerVars
  <2>3. CASE LoadRun(w) \/ MarkRunning(w) \/ EmitProgress(w) \/ MarkCompleted(w)
             \/ WriteConflict(w) \/ WorkflowRaises(w) \/ ProviderRefuses(w)
             \/ ReloadRun(w) \/ MarkFailed(w)
    BY <1>3, <2>3 DEF LoadRun, MarkRunning, EmitProgress, MarkCompleted, WriteConflict,
       WorkflowRaises, ProviderRefuses, ReloadRun, MarkFailed, workerVars, queueVars
  <2>4. CASE AckJob(w) \/ AckRefused(w)
    BY <1>3, <2>4 DEF AckJob, AckRefused, Ack
  <2>5. CASE RetryJob(w)
    <3>1. CASE Exhausted(hand[w].job)
      BY <1>3, <2>5, <3>1 DEF RetryJob, Retry
    <3>2. CASE ~Exhausted(hand[w].job)
      BY <1>3, <2>5, <3>2 DEF RetryJob, Retry
    <3> QED BY <3>1, <3>2
  <2>6. CASE AckRaises(w) \/ HandlerEscapes(w) \/ MarkSwallowed(w) \/ DatabaseRaises(w)
    BY <1>3, <2>6 DEF AckRaises, AckReplyLost, HandlerEscapes, MarkSwallowed, DatabaseRaises,
       clientVars
  <2> QED BY <1>3, <2>1, <2>2, <2>3, <2>4, <2>5, <2>6 DEF ProcessStep, HandlerStep
<1>4. ASSUME StartWorker(v) \/ StopWorker(v) \/ SweepRow(v) \/ SweepFails(v) \/ CrashWorker(v)
             \/ ClaimRaises(v) \/ QueueCall(v) \/ AckJob(v) \/ HandlerEscapes(v)
             \/ MarkFailed(v) \/ MarkSwallowed(v)
      PROVE  Outside
  BY <1>4 DEF StartWorker, StopWorker, SweepRow, SweepFails, CrashWorker, ClaimRaises,
     QueueCall, AckJob, HandlerEscapes, MarkFailed, MarkSwallowed, workerVars
<1>5. ASSUME Claim(v) PROVE HandlerKnows(v)'
  BY <1>5 DEF Claim, ZAdd, HandlerKnows, Phase
<1>6. ASSUME LoadRun(v) \/ MarkRunning(v) \/ EmitProgress(v) \/ MarkCompleted(v)
             \/ WriteConflict(v) \/ WorkflowRaises(v) \/ ProviderRefuses(v)
      PROVE  HandlerKnows(v)'
  <2>1. step[v] \in Handling /\ step'[v] \in Handling
    BY <1>6 DEF LoadRun, MarkRunning, EmitProgress, MarkCompleted, WriteConflict,
       WorkflowRaises, ProviderRefuses, workerVars
  <2>2. phase'[v] = phase[v] /\ hand'[v] = hand[v] /\ task'[v] = task[v]
    BY <1>6 DEF LoadRun, MarkRunning, EmitProgress, MarkCompleted, WriteConflict,
       WorkflowRaises, ProviderRefuses, workerVars, queueVars
  <2> QED BY <2>1, <2>2 DEF GivenUpInv, HandlerKnows
<1>7. ASSUME AckRaises(v) \/ DatabaseRaises(v) PROVE HandlerKnows(v)'
  <2>1. step[v] \in Handling /\ step'[v] = "failing"
    BY <1>7 DEF AckRaises, DatabaseRaises
  <2>2. phase'[v] = phase[v] /\ hand'[v] = hand[v] /\ task'[v] = task[v]
    BY <1>7 DEF AckRaises, AckReplyLost, DatabaseRaises, clientVars
  <2> QED BY <2>1, <2>2 DEF GivenUpInv, HandlerKnows
<1>8. ASSUME AckRefused(v) PROVE HandlerKnows(v)'
  <2>1. task[v] \in Run
    BY <1>8, TaskKnown DEF AckRefused
  <2>2. step'[v] = "marking" /\ copy'[v] = "provider" /\ task'[v] = task[v]
    BY <1>8 DEF AckRefused
  <2> QED BY <2>1, <2>2 DEF HandlerKnows
<1>9. ASSUME RetryJob(v) PROVE HandlerKnows(v)'
  <2>1. CASE Exhausted(hand[v].job)
    <3>1. task[v] \in Run /\ hand[v].job.payload = task[v]
      BY <1>9, TaskKnown DEF RetryJob, GivenUpInv, HandlerKnows
    <3>2. step'[v] = "marking" /\ task'[v] = task[v]
      BY <1>9, <2>1 DEF RetryJob
    <3>3. RetryPipe(hand[v].id, hand[v].job)
      BY <1>9 DEF RetryJob, Retry
    <3>4. [payload |-> task[v], attempts |-> hand[v].job.attempts + 1] \in dead'
      BY <2>1, <3>1, <3>3 DEF RetryPipe
    <3> QED BY <3>1, <3>2, <3>4 DEF HandlerKnows, GivenUp
  <2>2. CASE ~Exhausted(hand[v].job)
    <3>1. Outside
      BY <1>9, <2>2 DEF RetryJob
    <3> QED BY <3>1, OutsideKnows
  <2> QED BY <2>1, <2>2
<1>10. ASSUME ReloadRun(v) PROVE Same
  BY <1>10 DEF ReloadRun, queueVars
<1>11. ASSUME Same PROVE HandlerKnows(v)'
  BY <1>11, OthersKnow
<1>12. ASSUME Outside PROVE HandlerKnows(v)'
  BY <1>12, OutsideKnows
<1> HIDE DEF Same, Outside
<1> QED BY <1>1, <1>2, <1>3, <1>4, <1>5, <1>6, <1>7, <1>8, <1>9, <1>10, <1>11, <1>12
        DEF ServiceNext, ProcessStep, HandlerStep

-----------------------------------------------------------------------------

LEMMA GivenUpStep ==
  ASSUME GivenUpInv, [ServiceNext]_serviceVars
  PROVE  GivenUpInv'
<1>1. CASE ServiceNext
  <2>1. QueueTypeOK' /\ (RedisKeepsData => dead \subseteq dead')
    BY <1>1, QueuePart
  <2>2. \A v \in Worker : HandlerKnows(v)'
    BY <1>1, <2>1, KnowsPart
  <2>3. run' \in [Run -> RunRow]
    BY <1>1, RowPart DEF GivenUpInv, ServiceTypeOK
  <2>4. ServiceTypeOK'
    BY <1>1, <2>1, <2>3, ProcessTypes DEF ServiceTypeOK
  <2>5. ASSUME RedisKeepsData PROVE FailedMeansGivenUp'
    <3> SUFFICES ASSUME NEW q \in Run, run'[q].status = "failed", run'[q].error = "generic"
                 PROVE  \E d \in dead' : d.payload = q
      BY DEF FailedMeansGivenUp
    <3>1. CASE run'[q] = run[q]
      BY <2>1, <2>5, <3>1 DEF GivenUpInv, FailedMeansGivenUp
    <3>2. CASE run'[q] # run[q]
      <4>1. PICK row \in RunRow :
              /\ run'[q] = row
              /\ \/ row.status \in {"queued", "completed", "running"}
                 \/ row.status = run[q].status /\ row.error = run[q].error
                 \/ \E w \in Worker : step[w] = "marking" /\ task[w] = q /\ row.error = copy[w]
        BY <1>1, <3>2, RowPart DEF GivenUpInv, ServiceTypeOK
      <4>2. CASE row.status = run[q].status /\ row.error = run[q].error
        BY <2>1, <2>5, <4>1, <4>2 DEF GivenUpInv, FailedMeansGivenUp
      <4>3. CASE \E w \in Worker : step[w] = "marking" /\ task[w] = q /\ row.error = copy[w]
        BY <2>1, <2>5, <4>1, <4>3 DEF GivenUpInv, HandlerKnows, GivenUp
      <4> QED BY <4>1, <4>2, <4>3
    <3> QED BY <3>1, <3>2
  <2> QED BY <2>2, <2>4, <2>5 DEF GivenUpInv
<1>2. CASE UNCHANGED serviceVars
  BY <1>2 DEF serviceVars, queueVars, workerVars, GivenUpInv, ServiceTypeOK, QueueTypeOK,
     HandlerKnows, GivenUp, FailedMeansGivenUp
<1> QED BY <1>1, <1>2

LEMMA GivenUpInit == ServiceInit => GivenUpInv
<1> SUFFICES ASSUME ServiceInit PROVE GivenUpInv
  OBVIOUS
<1>1. QueueTypeOK
  BY MaxFaultsAssumption DEF ServiceInit, QueueInit, QueueTypeOK, EmptyHand, Hand, Phase
<1>2. NoRow \in RunRow /\ NoRow.status = "absent"
  BY DEF NoRow, RunRow, RunStatus, ErrorCopy
<1>3. ServiceTypeOK
  BY <1>1, <1>2 DEF ServiceInit, ServiceTypeOK, Step, ErrorCopy
<1>4. \A w \in Worker : HandlerKnows(w)
  BY DEF ServiceInit, HandlerKnows, Handling
<1>5. FailedMeansGivenUp
  BY <1>2 DEF ServiceInit, FailedMeansGivenUp
<1> QED BY <1>3, <1>4, <1>5 DEF GivenUpInv

(* The state of the service is well typed for any number of workers and    *)
(* under every fault of the model, the loss of Redis' data included.       *)
THEOREM ServiceTypeCorrect == ServiceSpec => []ServiceTypeOK
<1>1. GivenUpInv => ServiceTypeOK
  BY DEF GivenUpInv
<1>2. GivenUpInv /\ [ServiceNext]_serviceVars => GivenUpInv'
  BY GivenUpStep
<1> QED BY <1>1, <1>2, GivenUpInit, PTL DEF ServiceSpec

(* worker.py: however many workers handle a run, and whatever fails except *)
(* Redis itself, the generic failure is stored only for a run one of whose *)
(* jobs the queue has given up.                                            *)
THEOREM FailureOnlyAfterGivingUp ==
  ASSUME "flush" \notin FaultPoints
  PROVE  ServiceSpec => []FailedMeansGivenUp
<1>1. GivenUpInv => FailedMeansGivenUp
  BY DEF GivenUpInv, RedisKeepsData
<1>2. GivenUpInv /\ [ServiceNext]_serviceVars => GivenUpInv'
  BY GivenUpStep
<1> QED BY <1>1, <1>2, GivenUpInit, PTL DEF ServiceSpec

-----------------------------------------------------------------------------
(* The service as a client of the queue *)

(* Only recover_expired has ids to look at.                                *)
ScansEnd == \A w \in Worker : phase[w] \notin {"recovering", "rescuing"} => scan[w] = {}

LEMMA ScansStep == ASSUME QueueTypeOK, ScansEnd, QueueNext PROVE ScansEnd'
<1> USE DEF QueueTypeOK, ScansEnd, Goto
<1>1. CASE Submit
  BY <1>1 DEF Submit, clientVars
<1>2. ASSUME NEW j \in JobId, Lapse(j) PROVE ScansEnd'
  BY <1>2 DEF Lapse, clientVars
<1>3. ASSUME NEW w \in Worker, ScanExpired(w) \/ ReadExpired(w) \/ RescueExpired(w)
      PROVE  ScansEnd'
  BY <1>3 DEF ScanExpired, ReadExpired, RescueExpired
<1>4. ASSUME NEW w \in Worker, BlPop(w) \/ BlPopTimeout(w) \/ HGet(w) \/ ZAdd(w)
      PROVE  ScansEnd'
  BY <1>4 DEF BlPop, BlPopTimeout, HGet, ZAdd
<1>5. ASSUME NEW w \in Worker, Ack(w) \/ Retry(w) \/ Abandon(w) \/ AckReplyLost(w)
      PROVE  ScansEnd'
  BY <1>5 DEF Ack, Retry, Abandon, AckReplyLost, clientVars
<1> QED BY <1>1, <1>2, <1>3, <1>4, <1>5 DEF QueueNext, WorkerStep

(* An exception that ends the worker in the middle of a handler is, for    *)
(* the queue, the death of a worker that holds a job.                      *)
LEMMA EscapeAbandons ==
  ASSUME GivenUpInv, ScansEnd, NEW w \in Worker, HandlerEscapes(w),
         "handler" \in FaultPoints => "holding" \in FaultPoints
  PROVE  Abandon(w)
<1>1. phase[w] = "holding"
  BY DEF GivenUpInv, HandlerKnows, HandlerEscapes, Handling
<1>2. scan' = [scan EXCEPT ![w] = {}]
  BY <1>1 DEF ScansEnd, HandlerEscapes, GivenUpInv, ServiceTypeOK, QueueTypeOK
<1> QED BY <1>1, <1>2 DEF HandlerEscapes, Abandon

LEMMA ClientStep ==
  ASSUME GivenUpInv, ScansEnd, [ServiceNext]_serviceVars, "flush" \notin FaultPoints,
         "handler" \in FaultPoints => "holding" \in FaultPoints
  PROVE  [QueueNext]_<<redisVars, clientVars>> /\ ScansEnd'
<1>0. QueueTypeOK
  BY DEF GivenUpInv, ServiceTypeOK
<1>1. CASE UNCHANGED serviceVars
  BY <1>1 DEF serviceVars, queueVars, redisVars, clientVars, ScansEnd
<1>2. CASE UNCHANGED <<redisVars, clientVars>>
  BY <1>2 DEF clientVars, ScansEnd
<1>3. CASE QueueNext
  BY <1>0, <1>3, ScansStep
<1>4. ASSUME NEW w \in Worker, HandlerEscapes(w) PROVE QueueNext
  BY <1>4, EscapeAbandons DEF QueueNext
<1>5. ~RedisFlush
  BY DEF RedisFlush
<1> QED BY <1>1, <1>2, <1>3, <1>4, <1>5, QueueSteps

(* worker.py and queue.py: however the handler fails, and wherever its     *)
(* process dies, the service never touches the Redis keys other than the   *)
(* queue's own operations do, so that what is proved of the queue holds of *)
(* the queue in use.  A handler may die while it holds its job.            *)
THEOREM ServiceUsesQueue ==
  ASSUME "flush" \notin FaultPoints, "handler" \in FaultPoints => "holding" \in FaultPoints
  PROVE  ServiceSpec => UsesQueueAsSpecified
<1>1. ServiceInit => GivenUpInv /\ ScansEnd /\ QueueInit
  BY GivenUpInit DEF ServiceInit, QueueInit, ScansEnd
<1>2. GivenUpInv /\ ScansEnd /\ [ServiceNext]_serviceVars
        => GivenUpInv' /\ ScansEnd' /\ [QueueNext]_<<redisVars, clientVars>>
  BY GivenUpStep, ClientStep
<1> QED BY <1>1, <1>2, PTL DEF ServiceSpec, UsesQueueAsSpecified

(* queue.py RedisJobQueue ("no crash silently drops work"), in use: no     *)
(* unsettled job is dropped by the service, whatever its workers handle,   *)
(* provided Redis keeps its data and no process dies between BLPOP and     *)
(* ZADD of claim.                                                          *)
THEOREM ServiceDropsNoJob ==
  ASSUME "flush" \notin FaultPoints, "handler" \in FaultPoints => "holding" \in FaultPoints,
         FaultPoints \cap {"popped", "read"} = {}
  PROVE  ServiceSpec => []Accounted
<1> DEFINE Inv == GivenUpInv /\ ScansEnd /\ AbsentMeansSettled /\ Accounted
<1>1. ServiceInit => Inv
  <2> SUFFICES ASSUME ServiceInit PROVE Inv
    OBVIOUS
  <2>1. GivenUpInv /\ AbsentMeansSettled
    BY GivenUpInit, AbsentInit DEF ServiceInit
  <2> QED BY <2>1 DEF ServiceInit, QueueInit, ScansEnd, Accounted
<1>2. Inv /\ [ServiceNext]_serviceVars => Inv'
  <2> SUFFICES ASSUME Inv, [ServiceNext]_serviceVars PROVE Inv'
    OBVIOUS
  <2>1. GivenUpInv' /\ ScansEnd' /\ [QueueNext]_<<redisVars, clientVars>>
    BY GivenUpStep, ClientStep
  <2>2. CASE QueueNext
    <3>1. NoDropInv
      BY DEF GivenUpInv, ServiceTypeOK, NoDropInv
    <3> QED BY <2>1, <2>2, <3>1, AbsentStep, AccountedStep DEF NoDropInv
  <2>3. CASE UNCHANGED <<redisVars, clientVars>>
    BY <2>1, <2>3 DEF redisVars, clientVars, AbsentMeansSettled, Accounted, Unused, Claiming,
       InPending
  <2> QED BY <2>1, <2>2, <2>3
<1> QED BY <1>1, <1>2, PTL DEF ServiceSpec

-----------------------------------------------------------------------------
(* The contract of runs.  Every job, sweep and handler is about a run that *)
(* was accepted, for any number of workers.                                *)
Known(r) == run[r].status # "absent"

JobsKnown ==
  /\ \A j \in JobId : data[j] # None => Known(data[j].payload)
  /\ \A v \in Worker : hand[v].job # None => Known(hand[v].job.payload)

ProcessesKnown ==
  /\ \A r \in submitting : Known(r)
  /\ \A v \in Worker :
       /\ \A r \in sweep[v] : Known(r)
       /\ step[v] \in Handling \cup {"marking"} => Known(task[v])

(* What the functions of run_store.py make of the log of a row.            *)
LEMMA RowsLogged ==
  ASSUME NEW row \in RunRow
  PROVE  /\ CreatedRow.events = Append(<<>>, "run_started")
         /\ \A s : RunningRow(row, s).events = row.events
         /\ AppendEvent(row, "progress").events = Append(row.events, "progress")
         /\ \A c \in BOOLEAN : CompletedRow(row, c).events = Append(row.events, "completed")
         /\ \A c \in ErrorCopy : /\ FailedRow(row, c).status = "failed"
                                 /\ FailedRow(row, c).events = Append(row.events, "failed")
<1>1. ASSUME NEW r \in RunRow, NEW e
      PROVE  /\ AppendEvent(r, e).status = r.status
             /\ AppendEvent(r, e).events = Append(r.events, e)
  BY DEF AppendEvent, RunRow
<1>2. Touched(row) \in RunRow /\ Touched(row).events = row.events
  BY DEF Touched, RunRow
<1>3. CreatedRow.events = Append(<<>>, "run_started")
  <2> DEFINE r == [NoRow EXCEPT !.status = "queued"]
  <2>1. NoRow \in RunRow /\ NoRow.events = <<>>
    BY DEF NoRow, RunRow, RunStatus, ErrorCopy
  <2>2. r \in RunRow /\ r.events = <<>>
    BY <2>1 DEF RunRow, RunStatus
  <2> HIDE DEF r
  <2>3. CreatedRow = AppendEvent(r, "run_started")
    BY DEF CreatedRow, r
  <2> QED BY <1>1, <2>2, <2>3
<1>4. \A s : RunningRow(row, s).events = row.events
  BY <1>2 DEF RunningRow, RunRow
<1>5. ASSUME NEW c \in BOOLEAN
      PROVE  CompletedRow(row, c).events = Append(row.events, "completed")
  <2> DEFINE r == [Touched(row) EXCEPT !.status = "completed", !.cited = @ \/ c]
  <2>1. r \in RunRow /\ r.events = row.events
    BY <1>2 DEF RunRow, RunStatus, Terminal
  <2> HIDE DEF r
  <2>2. CompletedRow(row, c) = AppendEvent(r, "completed")
    BY DEF CompletedRow, r
  <2> QED BY <1>1, <2>1, <2>2
<1>6. ASSUME NEW c \in ErrorCopy
      PROVE  /\ FailedRow(row, c).status = "failed"
             /\ FailedRow(row, c).events = Append(row.events, "failed")
  <2> DEFINE r == [Touched(row) EXCEPT !.status = "failed", !.error = c]
  <2>1. r \in RunRow /\ r.status = "failed" /\ r.events = row.events
    BY <1>2 DEF RunRow, RunStatus, Terminal
  <2> HIDE DEF r
  <2>2. FailedRow(row, c) = AppendEvent(r, "failed")
    BY DEF FailedRow, r
  <2> QED BY <1>1, <2>1, <2>2
<1> QED BY <1>1, <1>3, <1>4, <1>5, <1>6

(* The steps that write a row, and what they leave alone.                  *)
RowStep ==
  \/ \E r \in Run : CreateRun(r) \/ RowAges(r)
  \/ \E w \in Worker : MarkRunning(w) \/ EmitProgress(w) \/ MarkCompleted(w) \/ MarkFailed(w)

LEMMA RowsChangeInRowSteps ==
  ASSUME ServiceNext
  PROVE  UNCHANGED run \/ RowStep
BY DEF ServiceNext, ProcessStep, HandlerStep, RowStep, SubmitRun, SubmitFails, DeadlineLapses,
   RedisFlush, StartWorker, StopWorker, SweepRow, QueueCall, Claim, LoadRun, WriteConflict,
   WorkflowRaises, ProviderRefuses, AckJob, AckRefused, RetryJob, ReloadRun, SweepFails,
   CrashWorker, ClaimRaises, AckRaises, HandlerEscapes, MarkSwallowed, DatabaseRaises

(* No row disappears.                                                      *)
LEMMA KnownStays ==
  ASSUME GivenUpInv, ServiceNext, NEW r \in Run, Known(r)
  PROVE  Known(r)'
<1>0. /\ run \in [Run -> RunRow] /\ copy \in [Worker -> ErrorCopy]
      /\ seen \in [Worker -> RunStatus \cup {"expired", None}]
  BY DEF GivenUpInv, ServiceTypeOK
<1>1. ASSUME NEW q \in Run, NEW row, run' = [run EXCEPT ![q] = row], row.status # "absent"
      PROVE  Known(r)'
  BY <1>0, <1>1 DEF Known
<1>2. ASSUME NEW q \in Run, CreateRun(q) PROVE Known(r)'
  <2>1. CreatedRow.status = "queued"
    BY <1>0, RowsTyped
  <2> QED BY <1>1, <1>2, <2>1 DEF CreateRun, WriteRow
<1>3. ASSUME NEW q \in Run, RowAges(q) PROVE Known(r)'
  <2>1. [run[q] EXCEPT !.stale = TRUE].status = run[q].status
    BY <1>0 DEF RunRow
  <2> QED BY <1>0, <1>3, <2>1 DEF RowAges, WriteRow, Known
<1>4. ASSUME NEW w \in Worker, MarkRunning(w) \/ EmitProgress(w) PROVE Known(r)'
  <2>1. task[w] \in Run /\ run[task[w]] \in RunRow
    BY <1>0, <1>4, TaskKnown DEF MarkRunning, EmitProgress, Handling
  <2>2. RunningRow(run[task[w]], seen[w]).status \in {run[task[w]].status, "running"}
    BY <1>0, <2>1, RowsTyped
  <2>3. AppendEvent(run[task[w]], "progress").status = run[task[w]].status
    BY <2>1, RowsTyped
  <2> QED BY <1>0, <1>4, <2>1, <2>2, <2>3 DEF MarkRunning, EmitProgress, WriteRow, Known
<1>5. ASSUME NEW w \in Worker, MarkCompleted(w) PROVE Known(r)'
  <2>1. task[w] \in Run /\ run[task[w]] \in RunRow
    BY <1>0, <1>5, TaskKnown DEF MarkCompleted, Handling
  <2>2. PICK citing \in BOOLEAN : WriteRow(task[w], CompletedRow(run[task[w]], citing))
    BY <1>5 DEF MarkCompleted
  <2>3. CompletedRow(run[task[w]], citing).status = "completed"
    BY <2>1, RowsTyped
  <2> QED BY <1>1, <2>1, <2>2, <2>3 DEF WriteRow
<1>6. ASSUME NEW w \in Worker, MarkFailed(w) PROVE Known(r)'
  <2>1. task[w] \in Run /\ run[task[w]] \in RunRow
    BY <1>0, <1>6, TaskKnown DEF MarkFailed
  <2>2. FailedRow(run[task[w]], copy[w]).status = "failed"
    BY <1>0, <2>1, RowsLogged
  <2> QED BY <1>1, <1>6, <2>1, <2>2 DEF MarkFailed, WriteRow, Known
<1>7. ASSUME UNCHANGED run PROVE Known(r)'
  BY <1>7 DEF Known
<1> QED BY <1>2, <1>3, <1>4, <1>5, <1>6, <1>7, RowsChangeInRowSteps DEF RowStep

(* Bodies are written by enqueue, for a run the API or the sweep holds, or *)
(* copied by the queue from a body it read.                                *)
LEMMA JobsStayKnown ==
  ASSUME GivenUpInv, JobsKnown, ProcessesKnown, ServiceNext
  PROVE  JobsKnown'
<1> DEFINE K == {r \in Run : Known(r)}
           Stored(d) == \A j \in JobId : d[j] # None => d[j].payload \in K
           Held(h) == \A v \in Worker : h[v].job # None => h[v].job.payload \in K
           Goal == Stored(data') /\ Held(hand')
<1>0. /\ QueueTypeOK /\ data \in [JobId -> Job \cup {None}] /\ hand \in [Worker -> Hand]
      /\ submitting \in SUBSET Run /\ sweep \in [Worker -> SUBSET Run]
  BY DEF GivenUpInv, ServiceTypeOK, QueueTypeOK
<1>j. \A job \in Job : job.payload \in Run /\ job # None
  BY NoneAssumption DEF Job, Run
<1>1. Stored(data) /\ Held(hand)
  BY <1>0, <1>j DEF JobsKnown, Hand
<1>2. ASSUME UNCHANGED <<data, hand>> PROVE Goal
  BY <1>1, <1>2
<1>3. ASSUME NEW r \in K, Enqueue(r), UNCHANGED hand PROVE Goal
  <2>1. PICK j \in JobId : data' = [data EXCEPT ![j] = [payload |-> r, attempts |-> 0]]
    BY <1>3 DEF Enqueue
  <2> QED BY <1>0, <1>1, <1>3, <2>1
<1>4. ASSUME NEW j \in JobId, NEW job \in Job, job.payload \in K, RetryPipe(j, job)
      PROVE  Stored(data')
  <2>1. \/ data' = [data EXCEPT ![j] = None]
        \/ data' = [data EXCEPT ![j] = [payload |-> job.payload, attempts |-> job.attempts + 1]]
    BY <1>4 DEF RetryPipe
  <2> QED BY <1>0, <1>1, <1>4, <2>1
<1>5. ASSUME NEW w \in Worker, DropHand(w) PROVE Held(hand')
  BY <1>0, <1>1, <1>5 DEF DropHand, EmptyHand
<1>6. ASSUME NEW w \in Worker, NEW j \in JobId, data' = data, SetHand(w, j, data[j]) PROVE Goal
  BY <1>0, <1>1, <1>6 DEF SetHand
<1>7. ASSUME NEW w \in Worker, phase[w] \in {"rescuing", "popped", "read", "holding"}
      PROVE  /\ hand[w].id \in JobId
             /\ hand[w].job # None => hand[w].job \in Job /\ hand[w].job.payload \in K
  BY <1>0, <1>1, <1>7 DEF QueueTypeOK, Hand
<1>8. ASSUME NEW w \in Worker, phase[w] \in {"rescuing", "holding"}, hand[w].job # None,
             RetryPipe(hand[w].id, hand[w].job), DropHand(w)
      PROVE  Goal
  BY <1>4, <1>5, <1>7, <1>8
<1>9. ASSUME NEW w \in Worker, phase[w] = "holding", AckPipe(hand[w].id) PROVE Stored(data')
  BY <1>0, <1>1, <1>7, <1>9 DEF AckPipe
<1>h. ASSUME NEW w \in Worker, phase[w] = "holding" PROVE hand[w].job # None
  BY <1>0, <1>h, <1>j DEF QueueTypeOK
<1>q. ASSUME NEW w \in Worker,
             \/ ScanExpired(w) \/ ReadExpired(w) \/ RescueExpired(w) \/ BlPop(w)
             \/ BlPopTimeout(w) \/ HGet(w) \/ ZAdd(w)
      PROVE  Goal
  <2>1. CASE ScanExpired(w) \/ BlPopTimeout(w) \/ ZAdd(w)
    BY <1>2, <2>1 DEF ScanExpired, BlPopTimeout, ZAdd, redisVars
  <2>2. CASE ReadExpired(w)
    <3>1. PICK j \in scan[w] : SetHand(w, j, data[j])
      BY <2>2 DEF ReadExpired
    <3>2. j \in JobId /\ data' = data
      BY <1>0, <2>2 DEF ReadExpired, redisVars, QueueTypeOK
    <3> QED BY <1>6, <3>1, <3>2
  <2>3. CASE RescueExpired(w)
    <3>1. CASE hand[w].job = None
      BY <1>1, <1>5, <2>3, <3>1 DEF RescueExpired
    <3>2. CASE hand[w].job # None
      BY <1>8, <2>3, <3>2 DEF RescueExpired
    <3> QED BY <3>1, <3>2
  <2>4. CASE BlPop(w)
    <3>1. data' = data /\ hand' = [hand EXCEPT ![w] = [id |-> Head(pending), job |-> None]]
      BY <2>4 DEF BlPop, SetHand
    <3> QED BY <1>0, <1>1, <3>1
  <2>5. CASE HGet(w)
    <3>1. data' = data /\ hand[w].id \in JobId
      BY <1>7, <2>5 DEF HGet, redisVars
    <3>2. DropHand(w) \/ SetHand(w, hand[w].id, data[hand[w].id])
      BY <2>5 DEF HGet
    <3> QED BY <1>1, <1>5, <1>6, <3>1, <3>2
  <2> QED BY <1>q, <2>1, <2>2, <2>3, <2>4, <2>5
<1>a. ASSUME NEW w \in Worker, Abandon(w) PROVE Goal
  BY <1>1, <1>5, <1>a DEF Abandon, redisVars
<1> HIDE DEF Goal, Stored, Held
<1>11. ASSUME NEW r \in Run, SubmitRun(r) PROVE Goal
  <2>1. r \in K /\ Enqueue(r) /\ UNCHANGED hand
    BY <1>11 DEF SubmitRun, ProcessesKnown, clientVars
  <2> QED BY <1>3, <2>1
<1>12. ASSUME NEW w \in Worker, SweepRow(w) PROVE Goal
  <2>1. PICK r \in sweep[w] : Enqueue(r) /\ UNCHANGED hand
    BY <1>12 DEF SweepRow, clientVars
  <2>2. r \in K
    BY <1>0, <2>1 DEF ProcessesKnown
  <2> QED BY <1>3, <2>1, <2>2
<1>13. ASSUME NEW w \in Worker, QueueCall(w) \/ Claim(w) PROVE Goal
  BY <1>13, <1>q DEF QueueCall, Claim
<1>14. ASSUME NEW w \in Worker, CrashWorker(w) \/ ClaimRaises(w) PROVE Goal
  BY <1>14, <1>a DEF CrashWorker, ClaimRaises
<1>15. ASSUME NEW w \in Worker, AckJob(w) \/ AckRefused(w) PROVE Goal
  <2>1. phase[w] = "holding" /\ AckPipe(hand[w].id) /\ DropHand(w)
    BY <1>15 DEF AckJob, AckRefused, Ack
  <2> QED BY <1>5, <1>9, <2>1 DEF Goal
<1>16. ASSUME NEW w \in Worker, AckRaises(w) PROVE Goal
  <2>1. CASE AckReplyLost(w)
    <3>1. phase[w] = "holding" /\ AckPipe(hand[w].id) /\ hand' = hand
      BY <2>1 DEF AckReplyLost, clientVars
    <3> QED BY <1>1, <1>9, <3>1 DEF Goal, Held
  <2>2. CASE UNCHANGED <<redisVars, clientVars>>
    BY <1>2, <2>2 DEF redisVars, clientVars
  <2> QED BY <1>16, <2>1, <2>2 DEF AckRaises
<1>17. ASSUME NEW w \in Worker, RetryJob(w) PROVE Goal
  <2>1. phase[w] = "holding" /\ RetryPipe(hand[w].id, hand[w].job) /\ DropHand(w)
    BY <1>17 DEF RetryJob, Retry
  <2> QED BY <1>8, <1>h, <2>1
<1>18. ASSUME NEW w \in Worker, HandlerEscapes(w) PROVE Goal
  <2>1. data' = data /\ DropHand(w)
    BY <1>18 DEF HandlerEscapes, redisVars
  <2> QED BY <1>1, <1>5, <2>1 DEF Goal, Stored
<1>19. ASSUME RedisFlush PROVE Goal
  BY <1>1, <1>19 DEF RedisFlush, clientVars, Goal, Stored, Held
<1>20. ASSUME \/ \E r \in Run : CreateRun(r) \/ SubmitFails(r) \/ RowAges(r)
              \/ \E j \in JobId : DeadlineLapses(j)
              \/ \E w \in Worker :
                   \/ StartWorker(w) \/ StopWorker(w) \/ LoadRun(w) \/ MarkRunning(w)
                   \/ EmitProgress(w) \/ MarkCompleted(w) \/ WriteConflict(w)
                   \/ WorkflowRaises(w) \/ ProviderRefuses(w) \/ ReloadRun(w) \/ MarkFailed(w)
                   \/ SweepFails(w) \/ MarkSwallowed(w) \/ DatabaseRaises(w)
       PROVE  Goal
  <2>1. UNCHANGED <<data, hand>>
    BY <1>20 DEF CreateRun, SubmitFails, RowAges, DeadlineLapses, Lapse, StartWorker, StopWorker,
       LoadRun, MarkRunning, EmitProgress, MarkCompleted, WriteConflict, WorkflowRaises,
       ProviderRefuses, ReloadRun, MarkFailed, SweepFails, MarkSwallowed, DatabaseRaises,
       queueVars, redisVars, clientVars
  <2> QED BY <1>2, <2>1
<1>21. Goal
  BY <1>11, <1>12, <1>13, <1>14, <1>15, <1>16, <1>17, <1>18, <1>19, <1>20
     DEF ServiceNext, ProcessStep, HandlerStep
<1>22. \A r \in K : Known(r)'
  BY KnownStays
<1> QED BY <1>21, <1>22 DEF Goal, Stored, Held, JobsKnown, Known

(* A worker takes its run from the job it read, its sweep from the rows.   *)
LEMMA ProcessesStayKnown ==
  ASSUME GivenUpInv, JobsKnown, ProcessesKnown, ServiceNext
  PROVE  ProcessesKnown'
<1> DEFINE K == {r \in Run : Known(r)}
           Mine(st, sw, ta, v) ==
             sw[v] \subseteq K /\ (st[v] \in Handling \cup {"marking"} => ta[v] \in K)
           Goal == /\ submitting' \subseteq {r \in Run : Known(r)'}
                   /\ \A v \in Worker : Mine(step', sweep', task', v)
<1>0. /\ QueueTypeOK /\ submitting \in SUBSET Run /\ sweep \in [Worker -> SUBSET Run]
      /\ step \in [Worker -> Step] /\ task \in [Worker -> Run \cup {None}]
      /\ hand \in [Worker -> Hand]
  BY DEF GivenUpInv, ServiceTypeOK, QueueTypeOK
<1>1. submitting \subseteq K /\ \A v \in Worker : Mine(step, sweep, task, v)
  <2>1. \A v \in Worker : step[v] \in Handling \cup {"marking"} => task[v] \in Run
    BY TaskKnown
  <2> QED BY <1>0, <2>1 DEF ProcessesKnown
<1>2. \A r \in K : Known(r)'
  BY KnownStays
<1>3. ASSUME NEW w \in Worker, submitting' \subseteq submitting,
             \A v \in Worker \ {w} : /\ step'[v] = step[v] /\ sweep'[v] = sweep[v]
                                     /\ task'[v] = task[v],
             Mine(step', sweep', task', w)
      PROVE  Goal
  BY <1>1, <1>2, <1>3
<1>4. ASSUME submitting' \subseteq submitting, UNCHANGED workerVars PROVE Goal
  BY <1>1, <1>2, <1>4 DEF workerVars
<1>5. ASSUME NEW r \in Run, CreateRun(r) PROVE Goal
  <2>1. CreatedRow.status = "queued" /\ run \in [Run -> RunRow]
    <3>1. run \in [Run -> RunRow]
      BY DEF GivenUpInv, ServiceTypeOK
    <3> QED BY <1>5, <3>1, RowsTyped
  <2>2. Known(r)'
    BY <1>5, <2>1 DEF CreateRun, WriteRow, Known
  <2>3. submitting' = submitting \cup {r} /\ UNCHANGED workerVars
    BY <1>5 DEF CreateRun
  <2> QED BY <1>1, <1>2, <2>2, <2>3 DEF workerVars
<1>k. ASSUME NEW r \in Run, IsStranded(run[r]) PROVE r \in K
  BY <1>k DEF IsStranded, Known
<1> HIDE DEF Goal
<1>6. ASSUME \/ \E r \in Run : SubmitRun(r) \/ SubmitFails(r) \/ RowAges(r)
             \/ RedisFlush \/ \E j \in JobId : DeadlineLapses(j)
             \/ \E w \in Worker : QueueCall(w) \/ ClaimRaises(w) \/ EmitProgress(w)
      PROVE  Goal
  <2>1. submitting' \subseteq submitting /\ UNCHANGED workerVars
    BY <1>6 DEF SubmitRun, SubmitFails, RowAges, RedisFlush, DeadlineLapses, QueueCall,
       ClaimRaises, EmitProgress
  <2> QED BY <1>4, <2>1
<1> DEFINE Only(w) == /\ UNCHANGED submitting
                      /\ \A v \in Worker \ {w} : /\ step'[v] = step[v] /\ sweep'[v] = sweep[v]
                                                 /\ task'[v] = task[v]
<1>o. ASSUME NEW w \in Worker, Only(w), Mine(step', sweep', task', w) PROVE Goal
  BY <1>3, <1>o
<1> USE DEF SetStep, ForgetTask
<1>7. ASSUME NEW w \in Worker, StartWorker(w) PROVE Goal
  <2>1. sweep'[w] \subseteq K
    BY <1>0, <1>7, <1>k DEF StartWorker
  <2>2. step'[w] \in {"loop", "sweeping"} /\ Only(w)
    BY <1>0, <1>7 DEF StartWorker
  <2> QED BY <1>o, <2>1, <2>2 DEF Handling
<1>8. ASSUME NEW w \in Worker, StopWorker(w) \/ SweepRow(w) \/ SweepFails(w) \/ CrashWorker(w)
                               \/ AckJob(w) \/ HandlerEscapes(w) \/ MarkFailed(w)
                               \/ MarkSwallowed(w)
      PROVE  Goal
  <2>1. sweep'[w] \subseteq sweep[w] /\ step'[w] \in {"off", "loop", "sweeping"} /\ Only(w)
    BY <1>0, <1>8 DEF StopWorker, SweepRow, SweepFails, CrashWorker, AckJob, HandlerEscapes,
       MarkFailed, MarkSwallowed
  <2> QED BY <1>1, <1>o, <2>1 DEF Handling
<1>9. ASSUME NEW w \in Worker, RetryJob(w) PROVE Goal
  <2>1. CASE Exhausted(hand[w].job)
    <3>1. sweep'[w] = sweep[w] /\ task'[w] = task[w] /\ step[w] = "failing" /\ Only(w)
      BY <1>0, <1>9, <2>1 DEF RetryJob
    <3> QED BY <1>1, <1>o, <3>1 DEF Handling
  <2>2. CASE ~Exhausted(hand[w].job)
    <3>1. sweep'[w] = sweep[w] /\ step'[w] = "loop" /\ Only(w)
      BY <1>0, <1>9, <2>2 DEF RetryJob
    <3> QED BY <1>1, <1>o, <3>1 DEF Handling
  <2> QED BY <2>1, <2>2
<1>10. ASSUME NEW w \in Worker, Claim(w) PROVE Goal
  <2>1. hand[w].job \in Job /\ hand[w].job # None
    BY <1>0, <1>10, NoneAssumption DEF Claim, ZAdd, QueueTypeOK, Job
  <2>2. hand[w].job.payload \in K
    BY <2>1 DEF JobsKnown, Job, Run
  <2>3. sweep'[w] = sweep[w] /\ task'[w] = hand[w].job.payload /\ Only(w)
    BY <1>0, <1>10 DEF Claim
  <2> QED BY <1>1, <1>o, <2>2, <2>3
<1>11. ASSUME NEW w \in Worker, \/ LoadRun(w) \/ MarkRunning(w) \/ MarkCompleted(w)
                                \/ WriteConflict(w) \/ WorkflowRaises(w) \/ ProviderRefuses(w)
                                \/ AckRefused(w) \/ ReloadRun(w) \/ AckRaises(w)
                                \/ DatabaseRaises(w)
       PROVE  Goal
  <2>1. step[w] \in Handling \cup {"marking"} /\ UNCHANGED <<submitting, sweep, task>>
    BY <1>11 DEF LoadRun, MarkRunning, MarkCompleted, WriteConflict, WorkflowRaises,
       ProviderRefuses, AckRefused, ReloadRun, AckRaises, DatabaseRaises, Handling
  <2>2. Only(w)
    BY <1>0, <1>11, <2>1 DEF LoadRun, MarkRunning, MarkCompleted, WriteConflict, WorkflowRaises,
       ProviderRefuses, AckRefused, ReloadRun, AckRaises, DatabaseRaises
  <2> QED BY <1>1, <1>o, <2>1, <2>2
<1>12. Goal
  BY <1>5, <1>6, <1>7, <1>8, <1>9, <1>10, <1>11 DEF ServiceNext, ProcessStep, HandlerStep
<1> QED BY <1>2, <1>12 DEF Goal, ProcessesKnown, Known

(* A worker and the row of the run it handles, as long as nobody else      *)
(* writes to it.                                                           *)
SeesRow(w) ==
  /\ step[w] = "loaded" => /\ seen[w] = run[task[w]].status
                           /\ seen[w] \in {"queued", "running"}
  /\ step[w] = "working" => seen[w] = "running" /\ run[task[w]].status = "running"
  /\ step[w] \in {"done", "failing", "refused", "marking"} =>
       seen[w] \in {"expired", run[task[w]].status}

SeesRows == \A w \in Worker : SeesRow(w)

(* No two workers are busy with one run.                                   *)
Busy(w) == step[w] \in Handling \cup {"marking"}
Alone == \A v, w \in Worker : Busy(v) /\ Busy(w) /\ task[v] = task[w] => v = w

(* A step of one worker moves nothing in another worker's handler.         *)
LEMMA OthersStay ==
  ASSUME GivenUpInv, NEW v \in Worker, NEW w \in Worker, w # v,
         \/ StartWorker(v) \/ StopWorker(v) \/ ProcessStep(v)
         \/ SweepFails(v) \/ CrashWorker(v) \/ ClaimRaises(v)
         \/ AckRaises(v) \/ HandlerEscapes(v) \/ MarkSwallowed(v) \/ DatabaseRaises(v)
  PROVE  step'[w] = step[w] /\ seen'[w] = seen[w] /\ task'[w] = task[w]
<1>0. /\ step \in [Worker -> Step] /\ task \in [Worker -> Run \cup {None}]
      /\ seen \in [Worker -> RunStatus \cup {"expired", None}]
  BY DEF GivenUpInv, ServiceTypeOK
<1> USE <1>0 DEF SetStep, SetSeen, ForgetTask
<1>1. CASE StartWorker(v) \/ StopWorker(v) \/ SweepRow(v) \/ SweepFails(v) \/ CrashWorker(v)
  BY <1>1 DEF StartWorker, StopWorker, SweepRow, SweepFails, CrashWorker
<1>2. CASE QueueCall(v) \/ Claim(v) \/ ClaimRaises(v)
  BY <1>2 DEF QueueCall, Claim, ClaimRaises, workerVars
<1>3. CASE LoadRun(v) \/ MarkRunning(v) \/ EmitProgress(v) \/ MarkCompleted(v)
           \/ WriteConflict(v) \/ WorkflowRaises(v) \/ ProviderRefuses(v)
  BY <1>3 DEF LoadRun, MarkRunning, EmitProgress, MarkCompleted, WriteConflict, WorkflowRaises,
     ProviderRefuses, workerVars
<1>4. CASE AckJob(v) \/ AckRefused(v) \/ ReloadRun(v) \/ MarkFailed(v)
  BY <1>4 DEF AckJob, AckRefused, ReloadRun, MarkFailed
<1>5. CASE RetryJob(v)
  <2>1. CASE Exhausted(hand[v].job)
    BY <1>5, <2>1 DEF RetryJob
  <2>2. CASE ~Exhausted(hand[v].job)
    BY <1>5, <2>2 DEF RetryJob
  <2> QED BY <2>1, <2>2
<1>6. CASE AckRaises(v) \/ HandlerEscapes(v) \/ MarkSwallowed(v) \/ DatabaseRaises(v)
  BY <1>6 DEF AckRaises, HandlerEscapes, MarkSwallowed, DatabaseRaises
<1> QED BY <1>1, <1>2, <1>3, <1>4, <1>5, <1>6 DEF ProcessStep, HandlerStep

LEMMA SeesRowStep ==
  ASSUME GivenUpInv, ProcessesKnown, SeesRows, Alone, ServiceNext
  PROVE  SeesRows'
<1> SUFFICES ASSUME NEW w \in Worker PROVE SeesRow(w)'
  BY DEF SeesRows
<1>s. SeesRow(w)
  BY DEF SeesRows
<1>0. /\ run \in [Run -> RunRow] /\ step \in [Worker -> Step]
      /\ seen \in [Worker -> RunStatus \cup {"expired", None}]
      /\ task \in [Worker -> Run \cup {None}]
  BY DEF GivenUpInv, ServiceTypeOK
<1>t. ASSUME step[w] \in Handling \cup {"marking"}
      PROVE  task[w] \in Run /\ run[task[w]] \in RunRow /\ run[task[w]].status \in RunStatus
             /\ run[task[w]].status # "absent"
  <2>1. task[w] \in Run
    BY <1>t, TaskKnown
  <2> QED BY <1>0, <1>t, <2>1 DEF ProcessesKnown, Known, RunRow
<1> USE DEF SetStep, SetSeen, ForgetTask, Handling
<1>o. ASSUME step'[w] = step[w], seen'[w] = seen[w], task'[w] = task[w],
             Busy(w) => run'[task[w]].status = run[task[w]].status
      PROVE  SeesRow(w)'
  BY <1>o, <1>s DEF SeesRow, Busy
<1>1. ASSUME UNCHANGED <<step, seen, task>>,
             step[w] \in Handling \cup {"marking"} => run'[task[w]].status = run[task[w]].status
      PROVE  SeesRow(w)'
  BY <1>1, <1>o DEF Busy
<1>2. ASSUME NEW r \in Run, CreateRun(r) PROVE SeesRow(w)'
  <2>1. step[w] \in Handling \cup {"marking"} => r # task[w]
    BY <1>2, <1>t DEF CreateRun
  <2> QED BY <1>0, <1>1, <1>2, <1>t, <2>1 DEF CreateRun, WriteRow, workerVars
<1>3. ASSUME NEW r \in Run, RowAges(r) PROVE SeesRow(w)'
  <2>1. [run[r] EXCEPT !.stale = TRUE].status = run[r].status
    BY <1>0 DEF RunRow
  <2> QED BY <1>0, <1>1, <1>3, <1>t, <2>1 DEF RowAges, WriteRow, workerVars
<1>4. ASSUME \/ \E r \in Run : SubmitRun(r) \/ SubmitFails(r)
             \/ RedisFlush \/ (\E j \in JobId : DeadlineLapses(j))
             \/ QueueCall(w) \/ ClaimRaises(w)
      PROVE  SeesRow(w)'
  BY <1>1, <1>4 DEF SubmitRun, SubmitFails, RedisFlush, DeadlineLapses, QueueCall, ClaimRaises,
     workerVars
<1>5. ASSUME step'[w] \notin Handling \cup {"marking"} \/ step'[w] = "load" PROVE SeesRow(w)'
  BY <1>5 DEF SeesRow
<1>6. ASSUME \/ StartWorker(w) \/ StopWorker(w) \/ SweepRow(w) \/ SweepFails(w) \/ CrashWorker(w)
             \/ AckJob(w) \/ HandlerEscapes(w) \/ MarkFailed(w) \/ MarkSwallowed(w) \/ Claim(w)
      PROVE  SeesRow(w)'
  <2>1. step'[w] \in {"off", "loop", "sweeping", "load"}
    BY <1>0, <1>6 DEF StartWorker, StopWorker, SweepRow, SweepFails, CrashWorker, AckJob,
       HandlerEscapes, MarkFailed, MarkSwallowed, Claim
  <2> QED BY <1>5, <2>1
<1>7. ASSUME LoadRun(w) PROVE SeesRow(w)'
  <2>1. /\ seen'[w] = run[task[w]].status /\ task' = task /\ run' = run
        /\ step'[w] = IF run[task[w]].status \in Terminal THEN "done" ELSE "loaded"
    BY <1>0, <1>7 DEF LoadRun
  <2>2. run[task[w]].status \in {"queued", "running"} \cup Terminal
    BY <1>7, <1>t DEF LoadRun, RunStatus
  <2> QED BY <2>1, <2>2 DEF SeesRow
<1>8. ASSUME MarkRunning(w) PROVE SeesRow(w)'
  <2>1. /\ task[w] \in Run /\ run[task[w]] \in RunRow /\ seen[w] = run[task[w]].status
        /\ run' = [run EXCEPT ![task[w]] = RunningRow(run[task[w]], seen[w])]
    BY <1>8, <1>s, <1>t DEF MarkRunning, WriteRow, SeesRow
  <2>2. RunningRow(run[task[w]], seen[w]).status = "running"
    BY <2>1 DEF RunningRow, Touched, RunRow
  <2>3. step'[w] = "working" /\ seen'[w] = "running" /\ task' = task
    BY <1>0, <1>8 DEF MarkRunning
  <2> QED BY <1>0, <2>1, <2>2, <2>3 DEF SeesRow
<1>9. ASSUME EmitProgress(w) PROVE SeesRow(w)'
  <2>1. AppendEvent(run[task[w]], "progress").status = run[task[w]].status
    BY <1>9, <1>t, RowsTyped DEF EmitProgress
  <2> QED BY <1>0, <1>1, <1>9, <1>t, <2>1 DEF EmitProgress, WriteRow, workerVars
<1>10. ASSUME MarkCompleted(w) PROVE SeesRow(w)'
  <2>1. PICK citing \in BOOLEAN :
          run' = [run EXCEPT ![task[w]] = CompletedRow(run[task[w]], citing)]
    BY <1>10 DEF MarkCompleted, WriteRow
  <2>2. task[w] \in Run /\ CompletedRow(run[task[w]], citing).status = "completed"
    BY <1>10, <1>t, RowsTyped DEF MarkCompleted
  <2>3. step'[w] = "done" /\ seen'[w] = "completed" /\ task' = task
    BY <1>0, <1>10 DEF MarkCompleted
  <2> QED BY <1>0, <2>1, <2>2, <2>3 DEF SeesRow
<1>11. ASSUME WriteConflict(w) \/ DatabaseRaises(w) PROVE SeesRow(w)'
  <2>1. step'[w] = "failing" /\ seen'[w] = "expired"
    BY <1>0, <1>11 DEF WriteConflict, DatabaseRaises
  <2> QED BY <2>1 DEF SeesRow
<1>12. ASSUME WorkflowRaises(w) \/ ProviderRefuses(w) \/ AckRefused(w) \/ AckRaises(w)
       PROVE  SeesRow(w)'
  <2>1. /\ step[w] \in {"working", "refused", "done"}
        /\ step'[w] \in {"failing", "refused", "marking"}
        /\ UNCHANGED <<run, task, seen>>
    BY <1>0, <1>12 DEF WorkflowRaises, ProviderRefuses, AckRefused, AckRaises
  <2> QED BY <1>s, <2>1 DEF SeesRow
<1>13. ASSUME RetryJob(w) PROVE SeesRow(w)'
  <2>1. CASE Exhausted(hand[w].job)
    <3>1. step[w] = "failing" /\ step'[w] = "marking" /\ UNCHANGED <<run, task, seen>>
      BY <1>0, <1>13, <2>1 DEF RetryJob
    <3> QED BY <1>s, <3>1 DEF SeesRow
  <2>2. CASE ~Exhausted(hand[w].job)
    <3>1. step'[w] = "loop"
      BY <1>0, <1>13, <2>2 DEF RetryJob
    <3> QED BY <1>5, <3>1
  <2> QED BY <2>1, <2>2
<1>14. ASSUME ReloadRun(w) PROVE SeesRow(w)'
  <2>1. /\ step[w] = "marking" /\ seen'[w] = run[task[w]].status
        /\ UNCHANGED <<run, task, step>>
    BY <1>0, <1>14 DEF ReloadRun
  <2> QED BY <2>1 DEF SeesRow
<1>15. ASSUME NEW v \in Worker, v # w,
              \/ StartWorker(v) \/ StopWorker(v) \/ ProcessStep(v)
              \/ SweepFails(v) \/ CrashWorker(v) \/ ClaimRaises(v)
              \/ AckRaises(v) \/ HandlerEscapes(v) \/ MarkSwallowed(v) \/ DatabaseRaises(v)
       PROVE  SeesRow(w)'
  <2>1. step'[w] = step[w] /\ seen'[w] = seen[w] /\ task'[w] = task[w]
    BY <1>15, OthersStay
  <2>2. ASSUME Busy(w) PROVE run'[task[w]] = run[task[w]]
    <3>1. CASE UNCHANGED run
      BY <3>1
    <3>2. CASE MarkRunning(v) \/ EmitProgress(v) \/ MarkCompleted(v) \/ MarkFailed(v)
      <4>1. task[v] # task[w]
        BY <1>15, <2>2, <3>2
           DEF Alone, Busy, MarkRunning, EmitProgress, MarkCompleted, MarkFailed
      <4>2. UNCHANGED run \/ \E row : run' = [run EXCEPT ![task[v]] = row]
        BY <3>2 DEF MarkRunning, EmitProgress, MarkCompleted, MarkFailed, WriteRow
      <4>3. task[w] \in Run
        BY <1>t, <2>2 DEF Busy
      <4> QED BY <1>0, <4>1, <4>2, <4>3
    <3> QED BY <1>15, <3>1, <3>2 DEF ProcessStep, HandlerStep, StartWorker, StopWorker, SweepRow,
               SweepFails, CrashWorker, ClaimRaises, QueueCall, Claim, LoadRun, WriteConflict,
               WorkflowRaises, ProviderRefuses, AckJob, AckRefused, RetryJob, ReloadRun, AckRaises,
               HandlerEscapes, MarkSwallowed, DatabaseRaises
  <2> QED BY <1>o, <2>1, <2>2
<1>16. ASSUME NEW v \in Worker,
              \/ StartWorker(v) \/ StopWorker(v) \/ ProcessStep(v)
              \/ SweepFails(v) \/ CrashWorker(v) \/ ClaimRaises(v)
              \/ AckRaises(v) \/ HandlerEscapes(v) \/ MarkSwallowed(v) \/ DatabaseRaises(v)
       PROVE  SeesRow(w)'
  <2>1. CASE v # w
    BY <1>15, <1>16, <2>1
  <2>2. CASE v = w
    BY <1>4, <1>6, <1>7, <1>8, <1>9, <1>10, <1>11, <1>12, <1>13, <1>14, <1>16, <2>2
       DEF ProcessStep, HandlerStep
  <2> QED BY <2>1, <2>2
<1> QED BY <1>2, <1>3, <1>4, <1>16 DEF ServiceNext

(* A run not yet accepted has no events.                                   *)
Unwritten == \A r \in Run : run[r].status = "absent" => run[r].events = <<>>

(* What one step of a worker alone with its run, or of the API, may make   *)
(* of a row: a verdict is never written over another one.                  *)
Live(r) == run[r].status \in {"queued", "running"}

Written(r, row) ==
  \/ /\ run[r].status = "absent" /\ row.status = "queued"
     /\ row.events = Append(<<>>, "run_started")
  \/ Live(r) /\ row.status \in {run[r].status, "running"} /\ row.events = run[r].events
  \/ /\ run[r].status = "running" /\ row.status = "running" /\ Len(run[r].events) < MaxEvents
     /\ row.events = Append(run[r].events, "progress")
  \/ /\ run[r].status = "running" /\ row.status = "completed"
     /\ row.events = Append(run[r].events, "completed")
  \/ /\ Live(r) /\ row.status = "failed"
     /\ row.events = Append(run[r].events, "failed")

LEMMA OneRowWritten ==
  ASSUME GivenUpInv, ProcessesKnown, SeesRows, ServiceNext
  PROVE  \/ UNCHANGED run
         \/ \E r \in Run, row \in RunRow : run' = [run EXCEPT ![r] = row] /\ Written(r, row)
<1> DEFINE Goal == \/ UNCHANGED run
                   \/ \E r \in Run, row \in RunRow :
                        run' = [run EXCEPT ![r] = row] /\ Written(r, row)
<1>0. /\ run \in [Run -> RunRow] /\ copy \in [Worker -> ErrorCopy]
      /\ seen \in [Worker -> RunStatus \cup {"expired", None}]
  BY DEF GivenUpInv, ServiceTypeOK
<1>h. ASSUME NEW w \in Worker, step[w] \in Handling \cup {"marking"}
      PROVE  /\ task[w] \in Run /\ run[task[w]] \in RunRow /\ run[task[w]].status \in RunStatus
             /\ run[task[w]].status # "absent" /\ SeesRow(w)
  <2>1. task[w] \in Run
    BY <1>h, TaskKnown
  <2> QED BY <1>0, <1>h, <2>1 DEF ProcessesKnown, Known, SeesRows, RunRow
<1>w. ASSUME NEW r \in Run, NEW row \in RunRow, run' = [run EXCEPT ![r] = row], Written(r, row)
      PROVE  Goal
  BY <1>w
<1>u. ASSUME UNCHANGED run PROVE Goal
  BY <1>u
<1> SUFFICES Goal
  OBVIOUS
<1> HIDE DEF Goal
<1>1. ASSUME NEW r \in Run, CreateRun(r) PROVE Goal
  <2>1. /\ run[r].status = "absent" /\ run' = [run EXCEPT ![r] = CreatedRow]
        /\ run[r] \in RunRow
    BY <1>0, <1>1 DEF CreateRun, WriteRow
  <2>2. CreatedRow \in RunRow /\ Written(r, CreatedRow)
    BY <2>1, RowsTyped, RowsLogged DEF Written
  <2> QED BY <1>w, <2>1, <2>2
<1>2. ASSUME NEW r \in Run, RowAges(r) PROVE Goal
  <2> DEFINE row == [run[r] EXCEPT !.stale = TRUE]
  <2>1. Live(r) /\ run' = [run EXCEPT ![r] = row]
    BY <1>2 DEF RowAges, WriteRow, Live
  <2>2. row \in RunRow /\ row.status = run[r].status /\ row.events = run[r].events
    BY <1>0 DEF RunRow
  <2> HIDE DEF row
  <2>3. Written(r, row)
    BY <2>1, <2>2 DEF Written
  <2> QED BY <1>w, <2>1, <2>2, <2>3
<1>3. ASSUME NEW w \in Worker, MarkRunning(w) PROVE Goal
  <2> DEFINE h == task[w]
             row == RunningRow(run[h], seen[w])
  <2>1. h \in Run /\ run[h] \in RunRow /\ Live(h) /\ run' = [run EXCEPT ![h] = row]
    BY <1>3, <1>h DEF MarkRunning, WriteRow, SeesRow, Live, Handling
  <2>2. /\ row \in RunRow /\ row.status \in {run[h].status, "running"}
        /\ row.events = run[h].events
    BY <1>0, <2>1, RowsTyped, RowsLogged
  <2> HIDE DEF row
  <2>3. Written(h, row)
    BY <2>1, <2>2 DEF Written
  <2> QED BY <1>w, <2>1, <2>2, <2>3
<1>4. ASSUME NEW w \in Worker, EmitProgress(w) PROVE Goal
  <2> DEFINE h == task[w]
             row == AppendEvent(run[h], "progress")
  <2>1. /\ h \in Run /\ run[h] \in RunRow /\ run[h].status = "running"
        /\ Len(run[h].events) < MaxEvents
        /\ run' = [run EXCEPT ![h] = row]
    BY <1>4, <1>h DEF EmitProgress, WriteRow, SeesRow, Handling
  <2>2. /\ row \in RunRow /\ row.status = "running"
        /\ row.events = Append(run[h].events, "progress")
    BY <2>1, RowsTyped, RowsLogged
  <2> HIDE DEF row
  <2>3. Written(h, row)
    BY <2>1, <2>2 DEF Written
  <2> QED BY <1>w, <2>1, <2>2, <2>3
<1>5. ASSUME NEW w \in Worker, MarkCompleted(w) PROVE Goal
  <2> DEFINE h == task[w]
  <2>1. PICK citing \in BOOLEAN : run' = [run EXCEPT ![h] = CompletedRow(run[h], citing)]
    BY <1>5 DEF MarkCompleted, WriteRow
  <2> DEFINE row == CompletedRow(run[h], citing)
  <2>2. h \in Run /\ run[h] \in RunRow /\ run[h].status = "running"
    BY <1>5, <1>h DEF MarkCompleted, SeesRow, Handling
  <2>3. /\ row \in RunRow /\ row.status = "completed"
        /\ row.events = Append(run[h].events, "completed")
    BY <2>2, RowsTyped, RowsLogged
  <2>4. run' = [run EXCEPT ![h] = row]
    BY <2>1
  <2> HIDE DEF row
  <2>5. Written(h, row)
    BY <2>2, <2>3 DEF Written
  <2> QED BY <1>w, <2>2, <2>3, <2>4, <2>5
<1>6. ASSUME NEW w \in Worker, MarkFailed(w) PROVE Goal
  <2> DEFINE h == task[w]
  <2>1. h \in Run /\ run[h] \in RunRow /\ run[h].status \in RunStatus
        /\ run[h].status # "absent" /\ seen[w] = run[h].status
    BY <1>6, <1>h DEF MarkFailed, SeesRow
  <2>2. CASE seen[w] \in Terminal
    BY <1>u, <1>6, <2>2 DEF MarkFailed
  <2>3. CASE seen[w] \notin Terminal
    <3> DEFINE row == FailedRow(run[h], copy[w])
    <3>1. run' = [run EXCEPT ![h] = row]
      BY <1>6, <2>3 DEF MarkFailed, WriteRow
    <3>2. Live(h)
      BY <2>1, <2>3 DEF RunStatus, Live
    <3>3. copy[w] \in ErrorCopy
      BY <1>0
    <3>4. /\ row \in RunRow /\ row.status = "failed"
          /\ row.events = Append(run[h].events, "failed")
      BY <2>1, <3>3, RowsTyped, RowsLogged
    <3> HIDE DEF row
    <3>5. Written(h, row)
      BY <3>2, <3>4 DEF Written
    <3> QED BY <1>w, <2>1, <3>1, <3>4, <3>5
  <2> QED BY <2>2, <2>3
<1> QED BY <1>1, <1>2, <1>3, <1>4, <1>5, <1>6, <1>u, RowsChangeInRowSteps DEF RowStep

(* Every write to a row is a step the contract allows, or shows nothing.   *)
LEMMA WritesAsContracted ==
  ASSUME NEW r \in Run, NEW row \in RunRow, run \in [Run -> RunRow], Unwritten,
         run' = [run EXCEPT ![r] = row], Written(r, row)
  PROVE  /\ Unwritten'
         /\ [Contract!ContractNext]_Contract!contractVars
<1> DEFINE st == [q \in Run |-> run[q].status]
           lg == [q \in Run |-> run[q].events]
           stn == [q \in Run |-> run'[q].status]
           lgn == [q \in Run |-> run'[q].events]
<1>1. Unwritten'
  BY DEF Unwritten, Written, Live
<1> SUFFICES [Contract!ContractNext]_Contract!contractVars
  BY <1>1
<1>2. /\ stn = [st EXCEPT ![r] = row.status]
      /\ lgn = [lg EXCEPT ![r] = row.events]
      /\ st[r] = run[r].status /\ lg[r] = run[r].events
  OBVIOUS
<1>3. CASE /\ run[r].status = "absent" /\ row.status = "queued"
           /\ row.events = Append(<<>>, "run_started")
  <2>1. run[r].events = <<>>
    BY <1>3 DEF Unwritten
  <2>2. /\ st[r] = "absent" /\ stn = [st EXCEPT ![r] = "queued"]
        /\ lgn = [lg EXCEPT ![r] = Append(@, "run_started")]
    BY <1>2, <1>3, <2>1
  <2>3. Contract!Accept(r)
    BY <2>2 DEF Contract!Accept, Contract!Record
  <2> QED BY <2>3 DEF Contract!ContractNext
<1>4. CASE Live(r) /\ row.status \in {run[r].status, "running"} /\ row.events = run[r].events
  <2>1. CASE row.status = "running"
    <3>1. /\ st[r] \in {"queued", "running"} /\ stn = [st EXCEPT ![r] = "running"]
          /\ lgn = lg
      BY <1>2, <1>4, <2>1 DEF Live
    <3>2. Contract!Begin(r)
      BY <3>1 DEF Contract!Begin, Contract!Live
    <3> QED BY <3>2 DEF Contract!ContractNext
  <2>2. CASE row.status = run[r].status
    <3>1. stn = st /\ lgn = lg
      BY <1>2, <1>4, <2>2
    <3> QED BY <3>1 DEF Contract!contractVars
  <2> QED BY <1>4, <2>1, <2>2
<1>5. CASE /\ run[r].status = "running" /\ row.status = "running"
           /\ Len(run[r].events) < MaxEvents
           /\ row.events = Append(run[r].events, "progress")
  <2>1. /\ st[r] = "running" /\ stn = [st EXCEPT ![r] = "running"]
        /\ Len(lg[r]) < MaxEvents /\ lgn = [lg EXCEPT ![r] = Append(@, "progress")]
    BY <1>2, <1>5
  <2>2. Contract!Progress(r)
    BY <2>1 DEF Contract!Progress, Contract!Record
  <2> QED BY <2>2 DEF Contract!ContractNext
<1>6. CASE \E v \in {"completed", "failed"} :
              /\ Live(r) /\ (v = "completed" => run[r].status = "running")
              /\ row.status = v /\ row.events = Append(run[r].events, v)
  <2>1. PICK v \in {"completed", "failed"} :
          /\ st[r] \in {"queued", "running"} /\ (v = "completed" => st[r] = "running")
          /\ stn = [st EXCEPT ![r] = v] /\ lgn = [lg EXCEPT ![r] = Append(@, v)]
    BY <1>2, <1>6 DEF Live
  <2>2. Contract!Conclude(r, v)
    BY <2>1 DEF Contract!Conclude, Contract!Record, Contract!Live
  <2> QED BY <2>2 DEF Contract!ContractNext, Contract!Verdict
<1>7. Live(r) <=> run[r].status \in {"queued", "running"}
  BY DEF Live
<1> QED BY <1>3, <1>4, <1>5, <1>6, <1>7 DEF Written

ContractInv == GivenUpInv /\ JobsKnown /\ ProcessesKnown /\ SeesRows /\ Unwritten

LEMMA ContractInitially == ServiceInit => ContractInv /\ Contract!ContractInit
<1> SUFFICES ASSUME ServiceInit PROVE ContractInv /\ Contract!ContractInit
  OBVIOUS
<1>1. GivenUpInv
  BY GivenUpInit
<1>2. JobsKnown /\ ProcessesKnown /\ SeesRows
  BY DEF ServiceInit, QueueInit, EmptyHand, JobsKnown, ProcessesKnown, SeesRows, SeesRow, Handling
<1>3. Unwritten /\ Contract!ContractInit
  BY DEF ServiceInit, Unwritten, NoRow, Contract!ContractInit
<1> QED BY <1>1, <1>2, <1>3 DEF ContractInv

LEMMA ContractStep ==
  ASSUME ContractInv, Alone, [ServiceNext]_serviceVars
  PROVE  ContractInv' /\ [Contract!ContractNext]_Contract!contractVars
<1>0. GivenUpInv /\ JobsKnown /\ ProcessesKnown /\ SeesRows /\ Unwritten
  BY DEF ContractInv
<1>1. GivenUpInv'
  BY <1>0, GivenUpStep
<1>2. run \in [Run -> RunRow]
  BY <1>0 DEF GivenUpInv, ServiceTypeOK
<1>3. ASSUME UNCHANGED run
      PROVE  Unwritten' /\ [Contract!ContractNext]_Contract!contractVars
  BY <1>0, <1>3 DEF Unwritten, Contract!contractVars
<1>4. CASE ServiceNext
  <2>1. JobsKnown' /\ ProcessesKnown' /\ SeesRows'
    BY <1>0, <1>4, JobsStayKnown, ProcessesStayKnown, SeesRowStep
  <2>2. Unwritten' /\ [Contract!ContractNext]_Contract!contractVars
    BY <1>0, <1>2, <1>3, <1>4, OneRowWritten, WritesAsContracted
  <2> QED BY <1>1, <2>1, <2>2 DEF ContractInv
<1>5. CASE UNCHANGED serviceVars
  <2>1. JobsKnown' /\ ProcessesKnown' /\ SeesRows'
    BY <1>0, <1>5
       DEF serviceVars, queueVars, workerVars, JobsKnown, ProcessesKnown, Known, SeesRows, SeesRow
  <2>2. UNCHANGED run
    BY <1>5 DEF serviceVars
  <2> QED BY <1>1, <1>3, <2>1, <2>2 DEF ContractInv
<1> QED BY <1>4, <1>5

(* worker.py ("Claims jobs and runs them to a terminal state"): as long as *)
(* one worker serves the queue, a run is accepted once, gets at most one   *)
(* verdict and its log ends with it, whatever is retried, redelivered or   *)
(* swept, wherever processes die, and although Redis may lose its data.    *)
THEOREM OneWorkerImplementsContract ==
  ASSUME NEW w \in Worker, Worker = {w}
  PROVE  ServiceSpec => ImplementsContract
<1>1. Alone
  BY DEF Alone
<1>2. ContractInv /\ [ServiceNext]_serviceVars
        => ContractInv' /\ [Contract!ContractNext]_Contract!contractVars
  BY <1>1, ContractStep
<1> QED BY <1>2, ContractInitially, PTL DEF ServiceSpec, ImplementsContract, Contract!ContractSpec

-----------------------------------------------------------------------------
(* Several workers in time.  A deadline (queue.py:110) and the cutoff of   *)
(* the sweep (worker.py:250) are the same setting,                         *)
(* job_visibility_timeout_seconds; while no job and no row outlives it, a  *)
(* run has one job, a job one holder, and a run one busy worker.           *)
PromptServiceNext ==
  ServiceNext /\ (\A j \in JobId : ~Lapse(j)) /\ \A r \in Run : ~RowAges(r)

PromptServiceSpec == ServiceInit /\ [][PromptServiceNext]_serviceVars

CarriedBy(j, r) ==
  \/ data[j] # None /\ data[j].payload = r
  \/ \E w \in Worker : hand[w].id = j /\ hand[w].job # None /\ hand[w].job.payload = r

NoJob(r) == \A j \in JobId : ~CarriedBy(j, r)
Marking(w, r) == step[w] = "marking" /\ task[w] = r

(* A run is carried by one job, after the request that submits it and      *)
(* before the worker that marks it.                                        *)
OneJob(r) ==
  /\ \A j, k \in JobId : CarriedBy(j, r) /\ CarriedBy(k, r) => j = k
  /\ r \in submitting => NoJob(r) /\ \A w \in Worker : ~Marking(w, r)
  /\ \A w \in Worker : Marking(w, r) => NoJob(r) /\ \A v \in Worker : Marking(v, r) => v = w

NothingToSweep ==
  /\ \A r \in Run : ~run[r].stale
  /\ \A w \in Worker : step[w] # "sweeping" /\ sweep[w] = {}

LEMMA CarriersShrink ==
  ASSUME NEW r, OneJob(r), r \in submitting' => r \in submitting,
         \A j \in JobId : CarriedBy(j, r)' => CarriedBy(j, r),
         \A w \in Worker : Marking(w, r)' => Marking(w, r)
  PROVE  OneJob(r)'
BY DEF OneJob, NoJob

(* A handler's run is the one that the job in its hand carries.            *)
LEMMA BusyCarries ==
  ASSUME GivenUpInv, NEW w \in Worker, step[w] \in Handling
  PROVE  /\ hand[w].id \in JobId /\ hand[w].job \in Job /\ hand[w].job # None
         /\ task[w] \in Run /\ hand[w].job.payload = task[w]
         /\ CarriedBy(hand[w].id, task[w])
<1>1. /\ phase[w] = "holding" /\ hand[w].job.payload = task[w]
      /\ hand[w].id \in JobId /\ hand[w].job \in Job
  BY DEF GivenUpInv, HandlerKnows, ServiceTypeOK, QueueTypeOK
<1>2. hand[w].job # None /\ task[w] \in Run
  BY <1>1, NoneAssumption DEF Job, Run
<1> QED BY <1>1, <1>2 DEF CarriedBy

LEMMA OneJobMeansAlone ==
  ASSUME GivenUpInv, OnePlaceInv, \A r \in Run : OneJob(r)
  PROVE  Alone
<1> SUFFICES ASSUME NEW v \in Worker, NEW w \in Worker, Busy(v), Busy(w), task[v] = task[w]
             PROVE  v = w
  BY DEF Alone
<1>1. task[v] \in Run /\ OneJob(task[v])
  BY TaskKnown DEF Busy
<1>2. CASE step[v] \in Handling /\ step[w] \in Handling
  <2>1. /\ hand[v].id \in JobId /\ hand[w].id \in JobId
        /\ CarriedBy(hand[v].id, task[v]) /\ CarriedBy(hand[w].id, task[v])
    BY <1>2, BusyCarries
  <2>2. hand[v].id = hand[w].id
    BY <1>1, <2>1 DEF OneJob
  <2> QED BY <2>1, <2>2 DEF OnePlaceInv, OnlyPlace
<1>3. CASE step[v] = "marking" /\ step[w] = "marking"
  BY <1>1, <1>3 DEF OneJob, Marking
<1>4. CASE step[v] = "marking" /\ step[w] \in Handling
  <2>1. hand[w].id \in JobId /\ CarriedBy(hand[w].id, task[v])
    BY <1>4, BusyCarries
  <2> QED BY <1>1, <1>4, <2>1 DEF OneJob, Marking, NoJob
<1>5. CASE step[v] \in Handling /\ step[w] = "marking"
  <2>1. hand[v].id \in JobId /\ CarriedBy(hand[v].id, task[v])
    BY <1>5, BusyCarries
  <2> QED BY <1>1, <1>5, <2>1 DEF OneJob, Marking, NoJob
<1> QED BY <1>2, <1>3, <1>4, <1>5 DEF Busy

(* The service hands out ids the way the queue does; an escaping handler   *)
(* and a flush only empty places.                                          *)
LEMMA OnePlaceInService ==
  ASSUME GivenUpInv, OnePlaceInv, [PromptServiceNext]_serviceVars
  PROVE  OnePlaceInv'
<1>0. /\ QueueTypeOK /\ lapsed = {} /\ QueuedOnce /\ \A j \in JobId : OnlyPlace(j)
      /\ \A w \in Worker : NeverRescues(w)
      /\ hand \in [Worker -> Hand] /\ phase \in [Worker -> Phase]
  BY DEF OnePlaceInv, QueueTypeOK
<1>q. QueueTypeOK'
  <2>1. GivenUpInv'
    BY GivenUpStep DEF PromptServiceNext
  <2> QED BY <2>1 DEF GivenUpInv, ServiceTypeOK
<1>1. CASE PromptServiceNext /\ QueueNext
  BY <1>1, OnePlaceStep DEF PromptServiceNext, PromptNext
<1>2. CASE UNCHANGED <<redisVars, clientVars>>
  <2>1. UNCHANGED <<pending, lapsed, phase, hand, scan>>
    BY <1>2 DEF redisVars, clientVars
  <2> QED BY <1>0, <1>q, <2>1, HandsShrink DEF OnePlaceInv, NeverRescues
<1>3. ASSUME NEW w \in Worker, HandlerEscapes(w) PROVE OnePlaceInv'
  <2>1. /\ pending' = pending /\ lapsed' = lapsed /\ scan' = scan
        /\ hand' = [hand EXCEPT ![w] = EmptyHand] /\ phase' = [phase EXCEPT ![w] = "idle"]
    BY <1>3 DEF HandlerEscapes, DropHand, Goto, redisVars
  <2>2. \A v \in Worker, j \in JobId : hand'[v].id = j => hand[v].id = j
    BY <1>0, <2>1, NoneAssumption DEF EmptyHand
  <2>3. QueuedOnce' /\ \A j \in JobId : OnlyPlace(j)'
    BY <1>0, <2>1, <2>2, HandsShrink
  <2>4. \A v \in Worker : NeverRescues(v)'
    BY <1>0, <2>1 DEF NeverRescues
  <2> QED BY <1>0, <1>q, <2>1, <2>3, <2>4 DEF OnePlaceInv
<1>4. CASE RedisFlush
  <2>1. pending' = <<>> /\ lapsed' = {} /\ UNCHANGED <<phase, hand, scan>>
    BY <1>4 DEF RedisFlush, clientVars
  <2>2. QueuedOnce' /\ \A j \in JobId : OnlyPlace(j)'
    BY <1>0, <2>1 DEF QueuedOnce, OnlyPlace, InPending
  <2>3. \A v \in Worker : NeverRescues(v)'
    BY <1>0, <2>1 DEF NeverRescues
  <2> QED BY <1>q, <2>1, <2>2, <2>3 DEF OnePlaceInv
<1> QED BY <1>1, <1>2, <1>3, <1>4, QueueSteps DEF PromptServiceNext, serviceVars, queueVars,
        redisVars, clientVars

(* No row ages, so no sweep finds one.                                     *)
LEMMA NothingToSweepStep ==
  ASSUME GivenUpInv, NothingToSweep, [PromptServiceNext]_serviceVars
  PROVE  NothingToSweep'
<1>0. /\ run \in [Run -> RunRow] /\ step \in [Worker -> Step]
      /\ sweep \in [Worker -> SUBSET Run] /\ copy \in [Worker -> ErrorCopy]
      /\ seen \in [Worker -> RunStatus \cup {"expired", None}]
  BY DEF GivenUpInv, ServiceTypeOK
<1>1. \A r \in Run : ~run'[r].stale
  <2>1. ASSUME NEW q \in Run, NEW row, run' = [run EXCEPT ![q] = row], ~row.stale
        PROVE  \A r \in Run : ~run'[r].stale
    BY <1>0, <2>1 DEF NothingToSweep
  <2>2. ASSUME NEW row \in RunRow, ~row.stale
        PROVE  /\ \A s \in RunStatus \cup {"expired", None} : ~RunningRow(row, s).stale
               /\ ~AppendEvent(row, "progress").stale
               /\ \A c \in BOOLEAN : ~CompletedRow(row, c).stale
               /\ \A c \in ErrorCopy : ~FailedRow(row, c).stale
    BY <2>2 DEF RunningRow, AppendEvent, CompletedRow, FailedRow, Touched, RunRow
  <2>3. ~CreatedRow.stale
    BY DEF CreatedRow, AppendEvent, NoRow
  <2>4. ASSUME NEW w \in Worker, Busy(w) PROVE task[w] \in Run /\ run[task[w]] \in RunRow
                                               /\ ~run[task[w]].stale
    BY <1>0, <2>4, TaskKnown DEF Busy, NothingToSweep
  <2>5. ASSUME NEW r \in Run, CreateRun(r) PROVE \A q \in Run : ~run'[q].stale
    BY <2>1, <2>3, <2>5 DEF CreateRun, WriteRow
  <2>6. ASSUME NEW w \in Worker, MarkRunning(w) PROVE \A q \in Run : ~run'[q].stale
    <3>1. task[w] \in Run /\ ~RunningRow(run[task[w]], seen[w]).stale
      BY <1>0, <2>2, <2>4, <2>6 DEF MarkRunning, Busy, Handling
    <3> QED BY <2>1, <2>6, <3>1 DEF MarkRunning, WriteRow
  <2>7. ASSUME NEW w \in Worker, EmitProgress(w) PROVE \A q \in Run : ~run'[q].stale
    <3>1. task[w] \in Run /\ ~AppendEvent(run[task[w]], "progress").stale
      BY <2>2, <2>4, <2>7 DEF EmitProgress, Busy, Handling
    <3> QED BY <2>1, <2>7, <3>1 DEF EmitProgress, WriteRow
  <2>8. ASSUME NEW w \in Worker, MarkCompleted(w) PROVE \A q \in Run : ~run'[q].stale
    <3>1. PICK c \in BOOLEAN : run' = [run EXCEPT ![task[w]] = CompletedRow(run[task[w]], c)]
      BY <2>8 DEF MarkCompleted, WriteRow
    <3>2. task[w] \in Run /\ ~CompletedRow(run[task[w]], c).stale
      BY <2>2, <2>4, <2>8 DEF MarkCompleted, Busy, Handling
    <3> QED BY <2>1, <3>1, <3>2
  <2>9. ASSUME NEW w \in Worker, MarkFailed(w) PROVE \A q \in Run : ~run'[q].stale
    <3>1. task[w] \in Run /\ ~FailedRow(run[task[w]], copy[w]).stale
      BY <1>0, <2>2, <2>4, <2>9 DEF MarkFailed, Busy
    <3>2. UNCHANGED run \/ run' = [run EXCEPT ![task[w]] = FailedRow(run[task[w]], copy[w])]
      BY <2>9 DEF MarkFailed, WriteRow
    <3> QED BY <2>1, <3>1, <3>2 DEF NothingToSweep
  <2>10. CASE UNCHANGED run
    BY <2>10 DEF NothingToSweep
  <2> QED BY <2>5, <2>6, <2>7, <2>8, <2>9, <2>10, RowsChangeInRowSteps
          DEF PromptServiceNext, RowStep, serviceVars
<1>2. \A w \in Worker : step'[w] # "sweeping" /\ sweep'[w] = {}
  <2> SUFFICES ASSUME NEW w \in Worker PROVE step'[w] # "sweeping" /\ sweep'[w] = {}
    OBVIOUS
  <2> DEFINE Goal == step'[w] # "sweeping" /\ sweep'[w] = {}
  <2>0. step[w] # "sweeping" /\ sweep[w] = {} /\ {r \in Run : IsStranded(run[r])} = {}
    BY DEF NothingToSweep, IsStranded
  <2> USE <1>0, <2>0 DEF SetStep, SetSeen, ForgetTask
  <2>1. ASSUME \/ \E r \in Run : CreateRun(r) \/ SubmitRun(r) \/ SubmitFails(r) \/ RowAges(r)
               \/ \E j \in JobId : DeadlineLapses(j)
               \/ RedisFlush \/ UNCHANGED serviceVars
        PROVE  Goal
    BY <2>1 DEF CreateRun, SubmitRun, SubmitFails, RowAges, DeadlineLapses, RedisFlush,
       workerVars, serviceVars
  <2>2. ASSUME NEW v \in Worker, StartWorker(v) PROVE Goal
    BY <2>2 DEF StartWorker
  <2>3. ASSUME NEW v \in Worker, SweepRow(v) \/ SweepFails(v) PROVE Goal
    BY <2>3 DEF SweepRow, SweepFails, NothingToSweep
  <2>4. ASSUME NEW v \in Worker,
               StopWorker(v) \/ CrashWorker(v) \/ HandlerEscapes(v) \/ MarkSwallowed(v)
               \/ DatabaseRaises(v) \/ AckRaises(v) \/ ClaimRaises(v) \/ QueueCall(v) \/ Claim(v)
        PROVE  Goal
    BY <2>4 DEF StopWorker, CrashWorker, HandlerEscapes, MarkSwallowed, DatabaseRaises,
       AckRaises, ClaimRaises, QueueCall, Claim, workerVars
  <2>5. ASSUME NEW v \in Worker,
               LoadRun(v) \/ MarkRunning(v) \/ EmitProgress(v) \/ MarkCompleted(v)
               \/ WriteConflict(v) \/ WorkflowRaises(v) \/ ProviderRefuses(v)
        PROVE  Goal
    BY <2>5 DEF LoadRun, MarkRunning, EmitProgress, MarkCompleted, WriteConflict,
       WorkflowRaises, ProviderRefuses, workerVars
  <2>6. ASSUME NEW v \in Worker,
               AckJob(v) \/ AckRefused(v) \/ RetryJob(v) \/ ReloadRun(v) \/ MarkFailed(v)
        PROVE  Goal
    BY <2>6 DEF AckJob, AckRefused, RetryJob, ReloadRun, MarkFailed
  <2> HIDE DEF Goal
  <2>7. Goal
    BY <2>1, <2>2, <2>3, <2>4, <2>5, <2>6
       DEF PromptServiceNext, ServiceNext, ProcessStep, HandlerStep
  <2> QED BY <2>7 DEF Goal
<1> QED BY <1>1, <1>2 DEF NothingToSweep

(* Whoever leaves a job for the row has emptied the only place of the run. *)
LEMMA LastCarrierGone ==
  ASSUME GivenUpInv, OnePlaceInv, \A r \in Run : OneJob(r), NEW w \in Worker,
         step[w] \in Handling, DropHand(w), data' = [data EXCEPT ![hand[w].id] = None],
         step' = [step EXCEPT ![w] = "marking"], UNCHANGED <<task, submitting>>
  PROVE  \A r \in Run : OneJob(r)'
<1>0. /\ data \in [JobId -> Job \cup {None}] /\ hand \in [Worker -> Hand]
      /\ step \in [Worker -> Step]
  BY DEF GivenUpInv, ServiceTypeOK, QueueTypeOK
<1> DEFINE j == hand[w].id
           r == task[w]
<1>1. /\ j \in JobId /\ r \in Run /\ CarriedBy(j, r)
  BY BusyCarries
<1>2. /\ hand'[w] = EmptyHand /\ \A v \in Worker \ {w} : hand'[v] = hand[v]
      /\ data'[j] = None /\ \A k \in JobId \ {j} : data'[k] = data[k]
      /\ step'[w] = "marking" /\ \A v \in Worker \ {w} : step'[v] = step[v]
      /\ step[w] # "marking"
  BY <1>0, <1>1 DEF DropHand, Handling
<1>3. \A v \in Worker \ {w} : hand[v].id # j
  BY <1>1 DEF OnePlaceInv, OnlyPlace
<1>4. \A q \in Run, k \in JobId : CarriedBy(k, q)' => CarriedBy(k, q) /\ k # j
  <2> SUFFICES ASSUME NEW q \in Run, NEW k \in JobId, CarriedBy(k, q)'
               PROVE  CarriedBy(k, q) /\ k # j
    OBVIOUS
  <2>1. CASE data'[k] # None /\ data'[k].payload = q
    BY <1>2, <2>1 DEF CarriedBy
  <2>2. CASE \E v \in Worker : hand'[v].id = k /\ hand'[v].job # None /\ hand'[v].job.payload = q
    <3>1. PICK v \in Worker : hand'[v].id = k /\ hand'[v].job # None /\ hand'[v].job.payload = q
      BY <2>2
    <3>2. v # w
      BY <1>2, <3>1 DEF EmptyHand
    <3> QED BY <1>2, <1>3, <3>1, <3>2 DEF CarriedBy
  <2> QED BY <2>1, <2>2 DEF CarriedBy
<1> HIDE DEF j
<1>5. OneJob(r) /\ ~NoJob(r)
  BY <1>1 DEF NoJob
<1>6. NoJob(r)'
  BY <1>1, <1>4, <1>5 DEF OneJob, NoJob
<1>7. \A v \in Worker : Marking(v, r)' => v = w
  BY <1>2, <1>5 DEF OneJob, Marking
<1>8. r \notin submitting'
  BY <1>5 DEF OneJob
<1>9. OneJob(r)'
  BY <1>6, <1>7, <1>8 DEF OneJob, NoJob
<1>10. ASSUME NEW q \in Run, q # r PROVE OneJob(q)'
  <2>1. \A v \in Worker : Marking(v, q)' => Marking(v, q)
    BY <1>2, <1>10 DEF Marking
  <2> QED BY <1>4, <2>1, CarriersShrink
<1> QED BY <1>9, <1>10

LEMMA OneJobStep ==
  ASSUME GivenUpInv, JobsKnown, ProcessesKnown, OnePlaceInv, NothingToSweep,
         \A r \in Run : OneJob(r), [PromptServiceNext]_serviceVars
  PROVE  \A r \in Run : OneJob(r)'
<1>0. /\ data \in [JobId -> Job \cup {None}] /\ hand \in [Worker -> Hand]
      /\ step \in [Worker -> Step] /\ submitting \in SUBSET Run
      /\ task \in [Worker -> Run \cup {None}]
      /\ \A w \in Worker : /\ phase[w] \notin {"recovering", "rescuing"}
                           /\ step[w] # "sweeping" /\ sweep[w] = {}
                           /\ phase[w] \in {"read", "holding"} => hand[w].job \in Job
                           /\ phase[w] \in {"popped", "read", "holding"} => hand[w].id \in JobId
  BY DEF GivenUpInv, ServiceTypeOK, QueueTypeOK, OnePlaceInv, NeverRescues, NothingToSweep
<1>j. \A job \in Job : job # None /\ job.payload \in Run
  BY NoneAssumption DEF Job, Run
<1> DEFINE Goal == \A r \in Run : OneJob(r)'
(* The two ways in which a step can leave the carriers of all runs alone.  *)
<1>c. ASSUME submitting' \subseteq submitting,
             \A j \in JobId : data'[j] \in {data[j], None},
             \A w \in Worker : hand'[w] = hand[w] \/ hand'[w].job = None,
             \A w \in Worker : step'[w] # "marking" \/ (step'[w] = step[w] /\ task'[w] = task[w])
      PROVE  Goal
  <2> SUFFICES ASSUME NEW r \in Run PROVE OneJob(r)'
    OBVIOUS
  <2>1. \A j \in JobId : CarriedBy(j, r)' => CarriedBy(j, r)
    BY <1>c DEF CarriedBy
  <2>2. \A w \in Worker : Marking(w, r)' => Marking(w, r)
    BY <1>c DEF Marking
  <2> QED BY <1>c, <2>1, <2>2, CarriersShrink
<1> HIDE DEF Goal
<1>1. ASSUME NEW r \in Run, CreateRun(r) PROVE Goal
  <2>1. /\ ~Known(r) /\ submitting' = submitting \cup {r}
        /\ UNCHANGED <<data, hand, step, task>>
    BY <1>1 DEF CreateRun, Known, queueVars, workerVars
  <2>2. NoJob(r) /\ \A w \in Worker : ~Marking(w, r)
    <3>1. \A j \in JobId : ~CarriedBy(j, r)
      BY <2>1 DEF JobsKnown, CarriedBy
    <3>2. \A w \in Worker : ~Marking(w, r)
      BY <2>1 DEF ProcessesKnown, Marking
    <3> QED BY <3>1, <3>2 DEF NoJob
  <2>3. \A q \in Run : \A j \in JobId : CarriedBy(j, q)' <=> CarriedBy(j, q)
    BY <2>1 DEF CarriedBy
  <2>4. \A q \in Run : \A w \in Worker : Marking(w, q)' <=> Marking(w, q)
    BY <2>1 DEF Marking
  <2>5. ASSUME NEW q \in Run PROVE OneJob(q)'
    <3>1. CASE q = r
      BY <2>2, <2>3, <2>4, <3>1 DEF OneJob, NoJob
    <3>2. CASE q # r
      BY <2>1, <2>3, <2>4, <3>2, CarriersShrink
    <3> QED BY <3>1, <3>2
  <2> QED BY <2>5 DEF Goal
<1>2. ASSUME NEW r \in Run, SubmitRun(r) PROVE Goal
  <2>1. PICK j \in JobId :
          /\ Unused(j) /\ data' = [data EXCEPT ![j] = [payload |-> r, attempts |-> 0]]
          /\ r \in submitting /\ submitting' = submitting \ {r}
          /\ UNCHANGED <<hand, step, task>>
    BY <1>2 DEF SubmitRun, Enqueue, clientVars, workerVars
  <2>2. \A w \in Worker : hand[w].id # j
    BY <2>1 DEF Unused
  <2>3. data'[j].payload = r /\ \A k \in JobId \ {j} : data'[k] = data[k]
    BY <1>0, <2>1
  <2>4. ASSUME NEW q \in Run, NEW k \in JobId, CarriedBy(k, q)'
        PROVE  CarriedBy(k, q) \/ (k = j /\ q = r)
    BY <2>1, <2>3, <2>4 DEF CarriedBy
  <2>5. \A q \in Run : \A w \in Worker : Marking(w, q)' <=> Marking(w, q)
    BY <2>1 DEF Marking
  <2>6. NoJob(r) /\ \A w \in Worker : ~Marking(w, r)
    BY <2>1 DEF OneJob
  <2>7. OneJob(r)'
    <3>1. \A k \in JobId : CarriedBy(k, r)' => k = j
      BY <2>4, <2>6 DEF NoJob
    <3>2. r \notin submitting' /\ \A w \in Worker : ~Marking(w, r)'
      BY <2>1, <2>5, <2>6
    <3> QED BY <3>1, <3>2 DEF OneJob
  <2>8. ASSUME NEW q \in Run, q # r PROVE OneJob(q)'
    <3>1. \A k \in JobId : CarriedBy(k, q)' => CarriedBy(k, q)
      BY <2>4, <2>8
    <3> QED BY <2>1, <2>5, <3>1, CarriersShrink
  <2> QED BY <2>7, <2>8 DEF Goal
<1>3. ASSUME \/ \E r \in Run : SubmitFails(r)
             \/ RedisFlush \/ UNCHANGED serviceVars
      PROVE  Goal
  <2>1. /\ submitting' \subseteq submitting /\ UNCHANGED <<hand, step, task>>
        /\ \A j \in JobId : data'[j] \in {data[j], None}
    BY <1>3 DEF SubmitFails, RedisFlush, serviceVars, queueVars, redisVars, clientVars, workerVars
  <2> QED BY <1>c, <2>1
<1> USE DEF SetStep, SetSeen, ForgetTask
<1>4. ASSUME NEW w \in Worker,
             StartWorker(w) \/ StopWorker(w) \/ SweepFails(w) \/ LoadRun(w) \/ MarkRunning(w)
             \/ EmitProgress(w) \/ MarkCompleted(w) \/ WriteConflict(w) \/ WorkflowRaises(w)
             \/ ProviderRefuses(w) \/ DatabaseRaises(w) \/ ReloadRun(w)
      PROVE  Goal
  <2>1. UNCHANGED <<data, hand, submitting, task>>
    BY <1>4 DEF StartWorker, StopWorker, SweepFails, LoadRun, MarkRunning, EmitProgress,
       MarkCompleted, WriteConflict, WorkflowRaises, ProviderRefuses, DatabaseRaises, ReloadRun,
       queueVars, redisVars, clientVars, workerVars
  <2>2. \A v \in Worker : step'[v] # "marking" \/ step'[v] = step[v]
    <3>1. CASE StartWorker(w) \/ StopWorker(w) \/ SweepFails(w) \/ LoadRun(w)
      BY <1>0, <3>1 DEF StartWorker, StopWorker, SweepFails, LoadRun
    <3>2. CASE MarkRunning(w) \/ EmitProgress(w) \/ MarkCompleted(w) \/ WriteConflict(w)
      BY <1>0, <3>2 DEF MarkRunning, EmitProgress, MarkCompleted, WriteConflict, workerVars
    <3>3. CASE WorkflowRaises(w) \/ ProviderRefuses(w) \/ DatabaseRaises(w) \/ ReloadRun(w)
      BY <1>0, <3>3 DEF WorkflowRaises, ProviderRefuses, DatabaseRaises, ReloadRun
    <3> QED BY <1>4, <3>1, <3>2, <3>3
  <2> QED BY <1>c, <2>1, <2>2
<1>5. ASSUME NEW w \in Worker, CrashWorker(w) \/ HandlerEscapes(w) PROVE Goal
  <2>1. /\ submitting' = submitting /\ data' = data
        /\ hand' = [hand EXCEPT ![w] = EmptyHand] /\ step' = [step EXCEPT ![w] = "off"]
        /\ \A v \in Worker \ {w} : task'[v] = task[v]
    BY <1>0, <1>5 DEF CrashWorker, HandlerEscapes, Abandon, DropHand, redisVars
  <2> QED BY <1>0, <1>c, <2>1 DEF EmptyHand
<1>6. ASSUME NEW w \in Worker, MarkFailed(w) \/ MarkSwallowed(w) PROVE Goal
  <2>1. /\ submitting' = submitting /\ data' = data /\ hand' = hand
        /\ step' = [step EXCEPT ![w] = "loop"] /\ \A v \in Worker \ {w} : task'[v] = task[v]
    BY <1>0, <1>6 DEF MarkFailed, MarkSwallowed, queueVars, redisVars, clientVars
  <2> QED BY <1>0, <1>c, <2>1
<1>7. ASSUME NEW w \in Worker, ClaimRaises(w) PROVE Goal
  <2>1. /\ UNCHANGED <<submitting, data, step, task>> /\ hand' = [hand EXCEPT ![w] = EmptyHand]
    BY <1>7 DEF ClaimRaises, Abandon, DropHand, redisVars, workerVars
  <2> QED BY <1>0, <1>c, <2>1 DEF EmptyHand
<1>8. ASSUME NEW w \in Worker, Claim(w) PROVE Goal
  <2>1. /\ UNCHANGED <<submitting, data, hand>> /\ step' = [step EXCEPT ![w] = "load"]
        /\ \A v \in Worker \ {w} : task'[v] = task[v]
    BY <1>0, <1>8 DEF Claim, ZAdd
  <2> QED BY <1>0, <1>c, <2>1
<1>9. ASSUME NEW w \in Worker, AckRaises(w) PROVE Goal
  <2>1. /\ UNCHANGED <<submitting, hand, task>> /\ step' = [step EXCEPT ![w] = "failing"]
        /\ \A j \in JobId : data'[j] \in {data[j], None}
    BY <1>0, <1>9 DEF AckRaises, AckReplyLost, AckPipe, redisVars, clientVars
  <2> QED BY <1>0, <1>c, <2>1
<1>10. ASSUME NEW w \in Worker, AckJob(w) PROVE Goal
  <2>1. /\ submitting' = submitting /\ hand' = [hand EXCEPT ![w] = EmptyHand]
        /\ step' = [step EXCEPT ![w] = "loop"] /\ \A v \in Worker \ {w} : task'[v] = task[v]
        /\ \A j \in JobId : data'[j] \in {data[j], None}
    BY <1>0, <1>10 DEF AckJob, Ack, AckPipe, DropHand
  <2> QED BY <1>0, <1>c, <2>1 DEF EmptyHand
<1>11. ASSUME NEW w \in Worker, QueueCall(w) PROVE Goal
  <2>1. UNCHANGED <<submitting, step, task, data>>
    BY <1>0, <1>11 DEF QueueCall, ScanExpired, ReadExpired, RescueExpired, BlPop, BlPopTimeout,
       HGet, redisVars, workerVars
  <2>2. CASE ScanExpired(w) \/ BlPopTimeout(w)
    BY <1>c, <2>1, <2>2 DEF ScanExpired, BlPopTimeout
  <2>3. CASE BlPop(w)
    <3>1. hand' = [hand EXCEPT ![w] = [id |-> Head(pending), job |-> None]]
      BY <2>3 DEF BlPop, SetHand
    <3> QED BY <1>0, <1>c, <2>1, <3>1
  <2>4. CASE HGet(w)
    <3>1. CASE data[hand[w].id] = None
      <4>1. hand' = [hand EXCEPT ![w] = EmptyHand]
        BY <2>4, <3>1 DEF HGet, DropHand
      <4> QED BY <1>0, <1>c, <2>1, <4>1 DEF EmptyHand
    <3>2. CASE data[hand[w].id] # None
      <4> DEFINE i == hand[w].id
      <4>1. hand' = [hand EXCEPT ![w] = [id |-> i, job |-> data[i]]] /\ i \in JobId
        BY <1>0, <2>4, <3>2 DEF HGet, SetHand
      <4>2. ASSUME NEW r \in Run, NEW k \in JobId, CarriedBy(k, r)' PROVE CarriedBy(k, r)
        BY <1>0, <2>1, <3>2, <4>1, <4>2 DEF CarriedBy
      <4>3. \A r \in Run, v \in Worker : Marking(v, r)' => Marking(v, r)
        BY <2>1 DEF Marking
      <4> QED BY <2>1, <4>2, <4>3, CarriersShrink DEF Goal
    <3> QED BY <3>1, <3>2
  <2>5. CASE ReadExpired(w) \/ RescueExpired(w)
    BY <1>0, <2>5 DEF ReadExpired, RescueExpired
  <2> QED BY <1>11, <2>2, <2>3, <2>4, <2>5 DEF QueueCall
<1>12. ASSUME NEW w \in Worker, AckRefused(w) PROVE Goal
  <2>1. /\ step[w] \in Handling /\ DropHand(w) /\ data' = [data EXCEPT ![hand[w].id] = None]
        /\ step' = [step EXCEPT ![w] = "marking"] /\ UNCHANGED <<task, submitting>>
    BY <1>12 DEF AckRefused, Ack, AckPipe, Handling
  <2> QED BY <2>1, LastCarrierGone DEF Goal
<1>13. ASSUME NEW w \in Worker, RetryJob(w) PROVE Goal
  <2>1. step[w] \in Handling /\ DropHand(w) /\ RetryPipe(hand[w].id, hand[w].job)
    BY <1>13 DEF RetryJob, Retry, Handling
  <2>2. CASE Exhausted(hand[w].job)
    <3>1. /\ data' = [data EXCEPT ![hand[w].id] = None]
          /\ step' = [step EXCEPT ![w] = "marking"] /\ UNCHANGED <<task, submitting>>
      BY <1>13, <2>1, <2>2 DEF RetryJob, RetryPipe
    <3> QED BY <2>1, <3>1, LastCarrierGone DEF Goal
  <2>3. CASE ~Exhausted(hand[w].job)
    <3> DEFINE i == hand[w].id
               job == [payload |-> hand[w].job.payload, attempts |-> hand[w].job.attempts + 1]
    <3>1. /\ data' = [data EXCEPT ![i] = job]
          /\ step' = [step EXCEPT ![w] = "loop"] /\ submitting' = submitting
          /\ \A v \in Worker \ {w} : task'[v] = task[v]
      BY <1>0, <1>13, <2>1, <2>3 DEF RetryJob, RetryPipe
    <3>2. i \in JobId /\ CarriedBy(i, task[w]) /\ job.payload = task[w]
      BY <2>1, BusyCarries
    <3>3. hand'[w] = EmptyHand /\ \A v \in Worker \ {w} : hand'[v] = hand[v]
      BY <1>0, <2>1 DEF DropHand
    <3>4. data'[i] = job /\ \A k \in JobId \ {i} : data'[k] = data[k]
      BY <1>0, <3>1, <3>2
    <3> HIDE DEF i, job
    <3>5. ASSUME NEW r \in Run, NEW k \in JobId, CarriedBy(k, r)' PROVE CarriedBy(k, r)
      <4>1. CASE data'[k] # None /\ data'[k].payload = r
        <5>1. CASE k = i
          BY <3>2, <3>4, <4>1, <5>1
        <5>2. CASE k # i
          BY <3>4, <4>1, <5>2 DEF CarriedBy
        <5> QED BY <5>1, <5>2
      <4>2. CASE \E v \in Worker : hand'[v].id = k /\ hand'[v].job # None
                                   /\ hand'[v].job.payload = r
        BY <3>3, <4>2 DEF CarriedBy, EmptyHand
      <4> QED BY <3>5, <4>1, <4>2 DEF CarriedBy
    <3>6. \A r \in Run, v \in Worker : Marking(v, r)' => Marking(v, r)
      BY <1>0, <3>1 DEF Marking
    <3> QED BY <3>1, <3>5, <3>6, CarriersShrink DEF Goal
  <2> QED BY <2>2, <2>3
<1>14. ASSUME NEW w \in Worker, SweepRow(w) PROVE Goal
  BY <1>0, <1>14 DEF SweepRow
<1>15. Goal
  BY <1>1, <1>2, <1>3, <1>4, <1>5, <1>6, <1>7, <1>8, <1>9, <1>10, <1>11, <1>12, <1>13, <1>14
     DEF PromptServiceNext, ServiceNext, ProcessStep, HandlerStep, DeadlineLapses
<1> QED BY <1>15 DEF Goal

(* worker.py ("Claims jobs and runs them to a terminal state"): however    *)
(* many workers serve the queue, and wherever processes die, calls fail or *)
(* Redis loses its data, a run gets at most one verdict and its log ends   *)
(* with it, as long as every job is finished before its deadline and no    *)
(* row outlives the cutoff of the sweep.                                   *)
THEOREM PromptWorkersImplementContract == PromptServiceSpec => ImplementsContract
<1> DEFINE Inv == /\ ContractInv /\ OnePlaceInv /\ NothingToSweep
                  /\ \A r \in Run : OneJob(r)
<1>1. ServiceInit => Inv /\ Contract!ContractInit
  <2> SUFFICES ASSUME ServiceInit PROVE Inv /\ Contract!ContractInit
    OBVIOUS
  <2>1. ContractInv /\ Contract!ContractInit
    BY ContractInitially
  <2>2. OnePlaceInv
    BY OnePlaceInit DEF ServiceInit
  <2>3. NothingToSweep
    BY DEF ServiceInit, NothingToSweep, NoRow
  <2>4. \A r \in Run : OneJob(r)
    BY DEF ServiceInit, QueueInit, OneJob, NoJob, CarriedBy, Marking, EmptyHand
  <2> QED BY <2>1, <2>2, <2>3, <2>4
<1>2. Inv /\ [PromptServiceNext]_serviceVars
        => Inv' /\ [Contract!ContractNext]_Contract!contractVars
  <2> SUFFICES ASSUME Inv, [PromptServiceNext]_serviceVars
               PROVE  Inv' /\ [Contract!ContractNext]_Contract!contractVars
    OBVIOUS
  <2>1. /\ GivenUpInv /\ JobsKnown /\ ProcessesKnown
        /\ [ServiceNext]_serviceVars
    BY DEF ContractInv, PromptServiceNext
  <2>2. Alone
    BY <2>1, OneJobMeansAlone
  <2>3. ContractInv' /\ [Contract!ContractNext]_Contract!contractVars
    BY <2>1, <2>2, ContractStep
  <2>4. OnePlaceInv' /\ NothingToSweep' /\ \A r \in Run : OneJob(r)'
    BY <2>1, OnePlaceInService, NothingToSweepStep, OneJobStep
  <2> QED BY <2>3, <2>4
<1> QED BY <1>1, <1>2, PTL DEF PromptServiceSpec, ImplementsContract, Contract!ContractSpec

-----------------------------------------------------------------------------
(* The record of a run when several workers write it.  The contract does   *)
(* not survive that (FailedRow may follow CompletedRow); what does is that *)
(* nothing is ever taken out of a log, and that the status is its last     *)
(* verdict.                                                                *)
OnRecord(row) ==
  /\ row.status = "absent" <=> row.events = <<>>
  /\ row.events # <<>> => row.events[1] = "run_started"
  /\ row.status \in Terminal =>
       \E i \in 1 .. Len(row.events) :
         /\ row.events[i] = row.status
         /\ \A k \in i + 1 .. Len(row.events) : row.events[k] \notin Terminal
  /\ row.status = "failed" => row.error # "none"

StatusIsOnRecord == \A r \in Run : OnRecord(run[r])

LogsOnlyGrow ==
  \A r \in Run :
    \/ run'[r].events = run[r].events
    \/ \E e \in RunEventType : run'[r].events = Append(run[r].events, e)

(* What one step of any worker, or of the API, may make of a row: a verdict *)
(* may replace another one, and a late worker may start the run again.      *)
Rewritten(r, row) ==
  \/ /\ run[r].status = "absent" /\ row.status = "queued"
     /\ row.events = Append(<<>>, "run_started")
  \/ /\ Known(r) /\ row.status \in {run[r].status, "running"} /\ row.error = run[r].error
     /\ row.events = run[r].events
  \/ /\ Known(r) /\ row.status = run[r].status /\ row.error = run[r].error
     /\ row.events = Append(run[r].events, "progress")
  \/ /\ Known(r) /\ row.status = "completed" /\ row.events = Append(run[r].events, "completed")
  \/ /\ Known(r) /\ row.status = "failed" /\ row.error # "none"
     /\ row.events = Append(run[r].events, "failed")

(* A handler about to mark the row has chosen its message.                 *)
FailureWorded == \A w \in Worker : step[w] = "marking" => copy[w] # "none"

LEMMA AnyRowRewritten ==
  ASSUME GivenUpInv, ProcessesKnown, FailureWorded, ServiceNext
  PROVE  \/ UNCHANGED run
         \/ \E r \in Run, row \in RunRow : run' = [run EXCEPT ![r] = row] /\ Rewritten(r, row)
<1> DEFINE Goal == \/ UNCHANGED run
                   \/ \E r \in Run, row \in RunRow :
                        run' = [run EXCEPT ![r] = row] /\ Rewritten(r, row)
<1>0. /\ run \in [Run -> RunRow] /\ copy \in [Worker -> ErrorCopy]
      /\ seen \in [Worker -> RunStatus \cup {"expired", None}]
  BY DEF GivenUpInv, ServiceTypeOK
<1>h. ASSUME NEW w \in Worker, step[w] \in Handling \cup {"marking"}
      PROVE  task[w] \in Run /\ run[task[w]] \in RunRow /\ Known(task[w])
  <2>1. task[w] \in Run
    BY <1>h, TaskKnown
  <2> QED BY <1>0, <1>h, <2>1 DEF ProcessesKnown
<1>w. ASSUME NEW r \in Run, NEW row \in RunRow, run' = [run EXCEPT ![r] = row], Rewritten(r, row)
      PROVE  Goal
  BY <1>w
<1>u. ASSUME UNCHANGED run PROVE Goal
  BY <1>u
<1> SUFFICES Goal
  OBVIOUS
<1> HIDE DEF Goal
<1>1. ASSUME NEW r \in Run, CreateRun(r) PROVE Goal
  <2>1. /\ run[r].status = "absent" /\ run' = [run EXCEPT ![r] = CreatedRow]
        /\ run[r] \in RunRow
    BY <1>0, <1>1 DEF CreateRun, WriteRow
  <2>2. CreatedRow \in RunRow /\ Rewritten(r, CreatedRow)
    BY <2>1, RowsTyped, RowsLogged DEF Rewritten
  <2> QED BY <1>w, <2>1, <2>2
<1>2. ASSUME NEW r \in Run, RowAges(r) PROVE Goal
  <2> DEFINE row == [run[r] EXCEPT !.stale = TRUE]
  <2>1. Known(r) /\ run' = [run EXCEPT ![r] = row]
    BY <1>2 DEF RowAges, WriteRow, Known
  <2>2. /\ row \in RunRow /\ row.status = run[r].status /\ row.events = run[r].events
        /\ row.error = run[r].error
    BY <1>0 DEF RunRow
  <2> HIDE DEF row
  <2>3. Rewritten(r, row)
    BY <2>1, <2>2 DEF Rewritten
  <2> QED BY <1>w, <2>1, <2>2, <2>3
<1>3. ASSUME NEW w \in Worker, MarkRunning(w) PROVE Goal
  <2> DEFINE h == task[w]
             row == RunningRow(run[h], seen[w])
  <2>1. h \in Run /\ run[h] \in RunRow /\ Known(h) /\ run' = [run EXCEPT ![h] = row]
    BY <1>3, <1>h DEF MarkRunning, WriteRow, Handling
  <2>2. /\ row \in RunRow /\ row.status \in {run[h].status, "running"}
        /\ row.events = run[h].events /\ row.error = run[h].error
    BY <1>0, <2>1, RowsTyped, RowsLogged
  <2> HIDE DEF row, h
  <2>3. Rewritten(h, row)
    BY <2>1, <2>2 DEF Rewritten
  <2> QED BY <1>w, <2>1, <2>2, <2>3
<1>4. ASSUME NEW w \in Worker, EmitProgress(w) PROVE Goal
  <2> DEFINE h == task[w]
             row == AppendEvent(run[h], "progress")
  <2>1. h \in Run /\ run[h] \in RunRow /\ Known(h) /\ run' = [run EXCEPT ![h] = row]
    BY <1>4, <1>h DEF EmitProgress, WriteRow, Handling
  <2>2. /\ row \in RunRow /\ row.status = run[h].status /\ row.error = run[h].error
        /\ row.events = Append(run[h].events, "progress")
    BY <2>1, RowsTyped, RowsLogged
  <2> HIDE DEF row, h
  <2>3. Rewritten(h, row)
    BY <2>1, <2>2 DEF Rewritten
  <2> QED BY <1>w, <2>1, <2>2, <2>3
<1>5. ASSUME NEW w \in Worker, MarkCompleted(w) PROVE Goal
  <2>1. PICK citing \in BOOLEAN :
          run' = [run EXCEPT ![task[w]] = CompletedRow(run[task[w]], citing)]
    BY <1>5 DEF MarkCompleted, WriteRow
  <2> DEFINE h == task[w]
             row == CompletedRow(run[h], citing)
  <2>2. h \in Run /\ run[h] \in RunRow /\ Known(h)
    BY <1>5, <1>h DEF MarkCompleted, Handling
  <2>3. /\ row \in RunRow /\ row.status = "completed"
        /\ row.events = Append(run[h].events, "completed")
    BY <2>2, RowsTyped, RowsLogged
  <2>4. run' = [run EXCEPT ![h] = row]
    BY <2>1
  <2> HIDE DEF row, h
  <2>5. Rewritten(h, row)
    BY <2>2, <2>3 DEF Rewritten
  <2> QED BY <1>w, <2>2, <2>3, <2>4, <2>5
<1>6. ASSUME NEW w \in Worker, MarkFailed(w) PROVE Goal
  <2>1. CASE seen[w] \in Terminal
    BY <1>u, <1>6, <2>1 DEF MarkFailed
  <2>2. CASE seen[w] \notin Terminal
    <3> DEFINE h == task[w]
               row == FailedRow(run[h], copy[w])
    <3>1. run' = [run EXCEPT ![h] = row]
      BY <1>6, <2>2 DEF MarkFailed, WriteRow
    <3>2. h \in Run /\ run[h] \in RunRow /\ Known(h)
      BY <1>6, <1>h DEF MarkFailed
    <3>3. copy[w] \in ErrorCopy /\ copy[w] # "none"
      BY <1>0, <1>6 DEF MarkFailed, FailureWorded
    <3>4. /\ row \in RunRow /\ row.status = "failed" /\ row.error = copy[w]
          /\ row.events = Append(run[h].events, "failed")
      BY <3>2, <3>3, RowsTyped, RowsLogged
    <3> HIDE DEF row, h
    <3>5. Rewritten(h, row)
      BY <3>2, <3>3, <3>4 DEF Rewritten
    <3> QED BY <1>w, <3>1, <3>2, <3>4, <3>5
  <2> QED BY <2>1, <2>2
<1> QED BY <1>1, <1>2, <1>3, <1>4, <1>5, <1>6, <1>u, RowsChangeInRowSteps DEF RowStep

(* Appending to a log keeps its head and its last verdict where they are.  *)
LEMMA RecordKept ==
  ASSUME NEW r \in Run, NEW row \in RunRow, run[r] \in RunRow, OnRecord(run[r]),
         Rewritten(r, row)
  PROVE  OnRecord(row)
<1> DEFINE log == run[r].events
           st == run[r].status
<1>0. log \in Seq(RunEventType) /\ row.events \in Seq(RunEventType)
  BY DEF RunRow
<1>1. CASE /\ st = "absent" /\ row.status = "queued"
           /\ row.events = Append(<<>>, "run_started")
  <2>1. row.events # <<>> /\ row.events[1] = "run_started"
    BY <1>1
  <2> QED BY <1>1, <2>1 DEF OnRecord, Terminal
<1>2. ASSUME NEW e \in RunEventType, Known(r), row.events = Append(log, e)
      PROVE  /\ log # <<>> /\ row.events # <<>> /\ row.events[1] = "run_started"
             /\ Len(row.events) = Len(log) + 1 /\ row.events[Len(log) + 1] = e
             /\ \A k \in 1 .. Len(log) : row.events[k] = log[k]
  <2>1. log # <<>> /\ log[1] = "run_started"
    BY <1>2 DEF OnRecord, Known
  <2>2. Len(log) \in Nat /\ 1 \in 1 .. Len(log)
    BY <1>0, <2>1
  <2>3. /\ Len(row.events) = Len(log) + 1 /\ row.events[Len(log) + 1] = e
        /\ \A k \in 1 .. Len(log) : row.events[k] = log[k]
    BY <1>0, <1>2
  <2> QED BY <1>0, <2>1, <2>2, <2>3
<1>3. CASE /\ Known(r) /\ row.status \in {st, "running"} /\ row.error = run[r].error
           /\ row.events = log
  <2>1. CASE row.status = st
    BY <1>3, <2>1 DEF OnRecord
  <2>2. CASE row.status = "running"
    BY <1>3, <2>2 DEF OnRecord, Known, Terminal
  <2> QED BY <1>3, <2>1, <2>2
<1>4. CASE /\ Known(r) /\ row.status = st /\ row.error = run[r].error
           /\ row.events = Append(log, "progress")
  <2>1. /\ row.events # <<>> /\ row.events[1] = "run_started"
        /\ Len(row.events) = Len(log) + 1 /\ row.events[Len(log) + 1] = "progress"
        /\ \A k \in 1 .. Len(log) : row.events[k] = log[k]
    BY <1>2, <1>4 DEF RunEventType
  <2>2. ASSUME st \in Terminal
        PROVE  \E i \in 1 .. Len(row.events) :
                 /\ row.events[i] = st
                 /\ \A k \in i + 1 .. Len(row.events) : row.events[k] \notin Terminal
    <3>1. PICK i \in 1 .. Len(log) :
            /\ log[i] = st /\ \A k \in i + 1 .. Len(log) : log[k] \notin Terminal
      BY <2>2 DEF OnRecord
    <3>2. Len(log) \in Nat /\ i \in 1 .. Len(row.events) /\ row.events[i] = st
      BY <1>0, <2>1, <3>1
    <3>3. ASSUME NEW k \in i + 1 .. Len(row.events) PROVE row.events[k] \notin Terminal
      <4>1. CASE k = Len(log) + 1
        BY <2>1, <4>1 DEF Terminal
      <4>2. CASE k # Len(log) + 1
        <5>1. k \in i + 1 .. Len(log) /\ k \in 1 .. Len(log)
          BY <2>1, <3>2, <4>2
        <5> QED BY <2>1, <3>1, <5>1
      <4> QED BY <4>1, <4>2
    <3> QED BY <3>2, <3>3
  <2>3. st # "absent" /\ (st = "failed" => row.error # "none")
    BY <1>4 DEF Known, OnRecord
  <2> QED BY <1>4, <2>1, <2>2, <2>3 DEF OnRecord
<1>5. ASSUME NEW v \in {"completed", "failed"}, Known(r), row.status = v,
             row.events = Append(log, v), v = "failed" => row.error # "none"
      PROVE  OnRecord(row)
  <2>1. /\ row.events # <<>> /\ row.events[1] = "run_started"
        /\ Len(row.events) = Len(log) + 1 /\ row.events[Len(log) + 1] = v
    BY <1>2, <1>5 DEF RunEventType
  <2>2. Len(log) \in Nat /\ Len(row.events) \in 1 .. Len(row.events)
    BY <1>0, <2>1
  <2>3. \A k \in Len(row.events) + 1 .. Len(row.events) : row.events[k] \notin Terminal
    BY <2>1, <2>2
  <2>4. row.events[Len(row.events)] = row.status
    BY <1>5, <2>1
  <2> QED BY <1>5, <2>1, <2>2, <2>3, <2>4 DEF OnRecord
<1> QED BY <1>1, <1>3, <1>4, <1>5 DEF Rewritten

(* The message is chosen on the way to _mark_permanently_failed and        *)
(* forgotten only when the handler is left.                                *)
LEMMA WordedStep ==
  ASSUME GivenUpInv, FailureWorded, ServiceNext
  PROVE  FailureWorded'
<1>0. step \in [Worker -> Step] /\ copy \in [Worker -> ErrorCopy]
  BY DEF GivenUpInv, ServiceTypeOK
<1> SUFFICES ASSUME NEW v \in Worker, step'[v] = "marking" PROVE copy'[v] # "none"
  BY DEF FailureWorded
<1>1. ASSUME step'[v] = step[v], copy'[v] = copy[v] PROVE copy'[v] # "none"
  BY <1>1 DEF FailureWorded
<1> USE <1>0 DEF SetStep, SetSeen, ForgetTask
<1>2. ASSUME UNCHANGED <<step, copy>> PROVE copy'[v] # "none"
  BY <1>1, <1>2
<1>3. ASSUME \/ \E r \in Run : CreateRun(r) \/ SubmitRun(r) \/ SubmitFails(r) \/ RowAges(r)
             \/ \E j \in JobId : DeadlineLapses(j)
             \/ RedisFlush
             \/ \E w \in Worker : QueueCall(w) \/ ClaimRaises(w) \/ EmitProgress(w) \/ ReloadRun(w)
      PROVE  UNCHANGED <<step, copy>>
  BY <1>3 DEF CreateRun, SubmitRun, SubmitFails, RowAges, DeadlineLapses, RedisFlush,
     QueueCall, ClaimRaises, EmitProgress, ReloadRun, workerVars
<1>4. ASSUME NEW w \in Worker,
             \/ StartWorker(w) \/ StopWorker(w) \/ SweepRow(w) \/ SweepFails(w) \/ Claim(w)
             \/ LoadRun(w) \/ MarkRunning(w) \/ MarkCompleted(w) \/ WriteConflict(w)
             \/ WorkflowRaises(w) \/ ProviderRefuses(w) \/ AckRaises(w) \/ DatabaseRaises(w)
      PROVE  copy'[v] # "none"
  <2>1. /\ copy' = copy /\ step'[w] # "marking" /\ \A u \in Worker \ {w} : step'[u] = step[u]
    BY <1>4 DEF StartWorker, StopWorker, SweepRow, SweepFails, Claim, LoadRun, MarkRunning,
       MarkCompleted, WriteConflict, WorkflowRaises, ProviderRefuses, AckRaises, DatabaseRaises
  <2> QED BY <1>1, <2>1
<1>5. ASSUME NEW w \in Worker,
             \/ CrashWorker(w) \/ AckJob(w) \/ HandlerEscapes(w) \/ MarkFailed(w)
             \/ MarkSwallowed(w)
      PROVE  copy'[v] # "none"
  <2>1. /\ step'[w] # "marking"
        /\ \A u \in Worker \ {w} : step'[u] = step[u] /\ copy'[u] = copy[u]
    BY <1>5 DEF CrashWorker, AckJob, HandlerEscapes, MarkFailed, MarkSwallowed
  <2> QED BY <1>1, <2>1
<1>6. ASSUME NEW w \in Worker, AckRefused(w) PROVE copy'[v] # "none"
  <2>1. copy'[w] = "provider" /\ \A u \in Worker \ {w} : step'[u] = step[u] /\ copy'[u] = copy[u]
    BY <1>6 DEF AckRefused
  <2> QED BY <1>1, <2>1
<1>7. ASSUME NEW w \in Worker, RetryJob(w) PROVE copy'[v] # "none"
  <2>1. CASE Exhausted(hand[w].job)
    <3>1. /\ copy'[w] = "generic"
          /\ \A u \in Worker \ {w} : step'[u] = step[u] /\ copy'[u] = copy[u]
      BY <1>7, <2>1 DEF RetryJob
    <3> QED BY <1>1, <3>1
  <2>2. CASE ~Exhausted(hand[w].job)
    <3>1. /\ step'[w] = "loop"
          /\ \A u \in Worker \ {w} : step'[u] = step[u] /\ copy'[u] = copy[u]
      BY <1>7, <2>2 DEF RetryJob
    <3> QED BY <1>1, <3>1
  <2> QED BY <2>1, <2>2
<1> QED BY <1>2, <1>3, <1>4, <1>5, <1>6, <1>7 DEF ServiceNext, ProcessStep, HandlerStep

RecordInv ==
  GivenUpInv /\ JobsKnown /\ ProcessesKnown /\ FailureWorded /\ StatusIsOnRecord

LEMMA RecordStep ==
  ASSUME RecordInv, [ServiceNext]_serviceVars
  PROVE  RecordInv' /\ (LogsOnlyGrow \/ UNCHANGED run)
<1>0. /\ GivenUpInv /\ JobsKnown /\ ProcessesKnown /\ FailureWorded /\ StatusIsOnRecord
      /\ run \in [Run -> RunRow]
  BY DEF RecordInv, GivenUpInv, ServiceTypeOK
<1>1. GivenUpInv'
  BY <1>0, GivenUpStep
<1>2. CASE ServiceNext
  <2>1. JobsKnown' /\ ProcessesKnown' /\ FailureWorded'
    BY <1>0, <1>2, JobsStayKnown, ProcessesStayKnown, WordedStep
  <2>2. CASE UNCHANGED run
    <3>1. StatusIsOnRecord'
      BY <1>0, <2>2 DEF StatusIsOnRecord
    <3> QED BY <1>1, <2>1, <2>2, <3>1 DEF RecordInv
  <2>3. CASE \E r \in Run, row \in RunRow : run' = [run EXCEPT ![r] = row] /\ Rewritten(r, row)
    <3>1. PICK r \in Run, row \in RunRow : run' = [run EXCEPT ![r] = row] /\ Rewritten(r, row)
      BY <2>3
    <3>2. run[r] \in RunRow /\ OnRecord(run[r])
      BY <1>0 DEF StatusIsOnRecord
    <3>3. OnRecord(row)
      BY <3>1, <3>2, RecordKept
    <3>4. StatusIsOnRecord'
      BY <1>0, <3>1, <3>3 DEF StatusIsOnRecord, OnRecord
    <3>5. \/ row.events = run[r].events
          \/ \E e \in RunEventType : row.events = Append(run[r].events, e)
      <4>1. run[r].status = "absent" => run[r].events = <<>>
        BY <3>2 DEF OnRecord
      <4> QED BY <3>1, <4>1 DEF Rewritten, RunEventType
    <3>6. LogsOnlyGrow
      BY <1>0, <3>1, <3>5 DEF LogsOnlyGrow
    <3> QED BY <1>1, <2>1, <3>4, <3>6 DEF RecordInv
  <2> QED BY <1>0, <1>2, <2>2, <2>3, AnyRowRewritten
<1>3. CASE UNCHANGED serviceVars
  <2>1. JobsKnown' /\ ProcessesKnown'
    BY <1>0, <1>3 DEF serviceVars, queueVars, workerVars, JobsKnown, ProcessesKnown, Known
  <2>2. FailureWorded' /\ StatusIsOnRecord' /\ UNCHANGED run
    BY <1>0, <1>3 DEF serviceVars, workerVars, FailureWorded, StatusIsOnRecord
  <2> QED BY <1>1, <2>1, <2>2 DEF RecordInv
<1> QED BY <1>2, <1>3

LEMMA RecordInit == ServiceInit => RecordInv
<1> SUFFICES ASSUME ServiceInit PROVE RecordInv
  OBVIOUS
<1>1. GivenUpInv
  BY GivenUpInit
<1>2. JobsKnown /\ ProcessesKnown /\ FailureWorded
  BY DEF ServiceInit, QueueInit, EmptyHand, JobsKnown, ProcessesKnown, FailureWorded, Handling
<1>3. StatusIsOnRecord
  BY DEF ServiceInit, StatusIsOnRecord, OnRecord, NoRow, Terminal
<1> QED BY <1>1, <1>2, <1>3 DEF RecordInv

(* run_store.py mark_completed and mark_failed (row and event in one       *)
(* commit): for any number of workers on the same run and under every      *)
(* fault, Redis losing its data included, an accepted run's log opens with *)
(* run_started, a finished row's status is the last verdict of its log,    *)
(* and a failed row says why.                                              *)
THEOREM VerdictIsOnRecord == ServiceSpec => []StatusIsOnRecord
<1>1. RecordInv => StatusIsOnRecord
  BY DEF RecordInv
<1>2. RecordInv /\ [ServiceNext]_serviceVars => RecordInv'
  BY RecordStep
<1> QED BY <1>1, <1>2, RecordInit, PTL DEF ServiceSpec

(* models.py RunEvent ("what makes `Last-Event-ID` resumption exact"): no  *)
(* step of any worker rewrites, reorders or removes an event that a reader *)
(* may have seen, and none appends two, although verdicts may pile up when *)
(* several workers execute one run.                                        *)
THEOREM HistoryIsAppendOnly == ServiceSpec => [][LogsOnlyGrow]_run
<1>1. RecordInv /\ [ServiceNext]_serviceVars => RecordInv' /\ [LogsOnlyGrow]_run
  BY RecordStep
<1> QED BY <1>1, RecordInit, PTL DEF ServiceSpec
=============================================================================
