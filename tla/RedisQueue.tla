----------------------------- MODULE RedisQueue -----------------------------
(***************************************************************************)
(* The durable job queue of backend/app/services/queue.py                  *)
(* (RedisJobQueue) and the part of Worker.run_forever that drives it.      *)
(*                                                                         *)
(* Redis keeps four keys: the pending list, the in-flight sorted set       *)
(* (id -> visibility deadline), the hash of job bodies and the dead-letter *)
(* list.  Each Redis command, or MULTI/EXEC pipeline, is one atomic step;  *)
(* what a client does between two commands is not, so a worker is a small  *)
(* state machine and any number of workers interleave.                     *)
(*                                                                         *)
(* Abstractions.  A deadline is either still ahead or has lapsed: `lapsed' *)
(* holds the in-flight ids that ZRANGEBYSCORE -inf..now would return, and  *)
(* any in-flight id may lapse at any time (a slow job is a legal job).     *)
(* The dead-letter list is never read by the program, so it is the set of  *)
(* what was pushed.  A job id is a fresh uuid4: an id no part of the state *)
(* mentions any more stands for a new one.  The _load branches for an      *)
(* unreadable body are left out: only _dump writes the hash.               *)
(***************************************************************************)
EXTENDS Naturals, Sequences, FiniteSets

CONSTANTS
  Worker,        \* worker processes
  JobId,         \* job ids that can be alive at once (a bound)
  Payload,       \* what a job is about: the row its payload names
  MaxAttempts,   \* settings.job_max_attempts
  FaultPoints,   \* phases in which a process may die or a command may raise,
                 \* and "ackReply" if the reply of an ack may be lost
  MaxFaults,     \* bound on faults in one behaviour
  None           \* no body, no job in hand

ASSUME MaxAttemptsAssumption == MaxAttempts \in Nat \ {0}
ASSUME MaxFaultsAssumption == MaxFaults \in Nat
ASSUME NoneAssumption == None \notin JobId /\ None \notin [payload : Payload, attempts : Nat]

VARIABLES
  pending,   \* LIST  analyst:jobs:pending
  inflight,  \* ZSET  analyst:jobs:inflight, members only
  lapsed,    \* the members of inflight whose deadline has passed
  data,      \* HASH  analyst:jobs:data, None where the field is absent
  dead,      \* LIST  analyst:jobs:dead, as a set
  phase,     \* where each worker is in run_forever
  hand,      \* the id and body each worker is working with
  scan,      \* ids recover_expired still has to look at
  faults,    \* faults so far
  settled    \* history: ids acked or dead-lettered since they were enqueued

redisVars == <<pending, inflight, lapsed, data, dead, settled>>
clientVars == <<phase, hand, scan>>
queueVars == <<pending, inflight, lapsed, data, dead, phase, hand, scan, faults,
               settled>>

Job == [payload : Payload, attempts : Nat]
EmptyHand == [id |-> None, job |-> None]
Hand == [id : JobId \cup {None}, job : Job \cup {None}]

Phase ==
  { "idle",        \* top of the loop in run_forever
    "recovering",  \* inside recover_expired, between two ids
    "rescuing",    \* recover_expired has read one body
    "claiming",    \* about to BLPOP
    "popped",      \* BLPOP returned an id
    "read",        \* HGET returned its body
    "holding" }    \* claim returned the job

QueueTypeOK ==
  /\ pending \in Seq(JobId)
  /\ inflight \in SUBSET JobId
  /\ lapsed \in SUBSET inflight
  /\ data \in [JobId -> Job \cup {None}]
  /\ dead \in SUBSET Job
  /\ phase \in [Worker -> Phase]
  /\ hand \in [Worker -> Hand]
  /\ scan \in [Worker -> SUBSET JobId]
  /\ faults \in 0 .. MaxFaults
  /\ settled \in SUBSET JobId
  /\ \A w \in Worker :
       /\ phase[w] \in {"rescuing", "popped", "read", "holding"} => hand[w].id \in JobId
       /\ phase[w] \in {"read", "holding"} => hand[w].job \in Job

QueueInit ==
  /\ pending = <<>>
  /\ inflight = {}
  /\ lapsed = {}
  /\ data = [j \in JobId |-> None]
  /\ dead = {}
  /\ phase = [w \in Worker |-> "idle"]
  /\ hand = [w \in Worker |-> EmptyHand]
  /\ scan = [w \in Worker |-> {}]
  /\ faults = 0
  /\ settled = {}

-----------------------------------------------------------------------------
(* Redis pipelines *)

InPending(j) == \E i \in 1 .. Len(pending) : pending[i] = j

(* No part of the state mentions the id: a uuid4 not used before. *)
Unused(j) ==
  /\ data[j] = None
  /\ ~InPending(j)
  /\ j \notin inflight
  /\ \A w \in Worker : hand[w].id # j /\ j \notin scan[w]

(* Mutant: the deadline outlives its member. *)
ZRemKeepsDeadline(j) == inflight' = inflight \ {j} /\ UNCHANGED lapsed

(* ZREM removes the member together with its deadline. *)
ZRem(j) ==
  /\ inflight' = inflight \ {j}
  /\ lapsed' = lapsed \ {j}

(* enqueue: HSET body, RPUSH id, in one transaction. *)
Enqueue(p) ==
  \E j \in JobId :
    /\ Unused(j)
    /\ data' = [data EXCEPT ![j] = [payload |-> p, attempts |-> 0]]
    /\ pending' = Append(pending, j)
    /\ settled' = settled \ {j}
    /\ UNCHANGED <<inflight, lapsed, dead>>

(* ack: ZREM and HDEL in one transaction. *)
AckPipe(j) ==
  /\ ZRem(j)
  /\ data' = [data EXCEPT ![j] = None]
  /\ settled' = settled \cup {j}
  /\ UNCHANGED <<pending, dead>>

(* Mutant: the ceiling is compared with the attempts before this one. *)
ExhaustedLate(job) == job.attempts >= MaxAttempts

(* retry gives up when the attempt being recorded reaches the ceiling. *)
Exhausted(job) == job.attempts + 1 >= MaxAttempts

(* Mutant: a job that may be retried is never pushed back. *)
RetryPipeDrops(j, job) ==
  /\ ZRem(j)
  /\ data' = [data EXCEPT ![j] = [payload |-> job.payload, attempts |-> job.attempts + 1]]
  /\ UNCHANGED <<pending, dead, settled>>

(* Mutant: the body is deleted although its id goes back to pending. *)
RetryPipeNoBody(j, job) ==
  /\ ZRem(j)
  /\ data' = [data EXCEPT ![j] = None]
  /\ pending' = Append(pending, j)
  /\ UNCHANGED <<dead, settled>>

(* Mutant: an exhausted job is requeued as a fresh one. *)
RetryPipeRestarts(j, job) ==
  /\ ZRem(j)
  /\ data' = [data EXCEPT ![j] = [payload |-> job.payload,
                                  attempts |-> (job.attempts + 1) % MaxAttempts]]
  /\ pending' = Append(pending, j)
  /\ UNCHANGED <<dead, settled>>

(* retry: dead-letter an exhausted job, requeue any other with one more    *)
(* attempt recorded.  The body written is the caller's copy plus one.      *)
RetryPipe(j, job) ==
  LET attempted == [payload |-> job.payload, attempts |-> job.attempts + 1] IN
  /\ ZRem(j)
  /\ IF Exhausted(job)
     THEN /\ data' = [data EXCEPT ![j] = None]
          /\ dead' = dead \cup {attempted}
          /\ settled' = settled \cup {j}
          /\ UNCHANGED pending
     ELSE /\ data' = [data EXCEPT ![j] = attempted]
          /\ pending' = Append(pending, j)
          /\ UNCHANGED <<dead, settled>>

-----------------------------------------------------------------------------
(* One worker's pass through run_forever *)

Goto(w, p) == phase' = [phase EXCEPT ![w] = p]
SetHand(w, j, job) == hand' = [hand EXCEPT ![w] = [id |-> j, job |-> job]]
DropHand(w) == hand' = [hand EXCEPT ![w] = EmptyHand]

(* recover_expired: ZRANGEBYSCORE -inf now. *)
ScanExpired(w) ==
  /\ phase[w] = "idle"
  /\ scan' = [scan EXCEPT ![w] = lapsed]
  /\ Goto(w, IF lapsed = {} THEN "claiming" ELSE "recovering")
  /\ UNCHANGED <<redisVars, hand, faults>>

(* recover_expired: HGET the body of one expired id. *)
ReadExpired(w) ==
  /\ phase[w] = "recovering"
  /\ \E j \in scan[w] :
       /\ SetHand(w, j, data[j])
       /\ scan' = [scan EXCEPT ![w] = @ \ {j}]
  /\ Goto(w, "rescuing")
  /\ UNCHANGED <<redisVars, faults>>

(* recover_expired: ZREM an id whose body is gone, otherwise self.retry.   *)
(* The boolean retry returns only feeds a counter in the log line.         *)
RescueExpired(w) ==
  /\ phase[w] = "rescuing"
  /\ IF hand[w].job = None
     THEN ZRem(hand[w].id) /\ UNCHANGED <<pending, data, dead, settled>>
     ELSE RetryPipe(hand[w].id, hand[w].job)
  /\ DropHand(w)
  /\ Goto(w, IF scan[w] = {} THEN "claiming" ELSE "recovering")
  /\ UNCHANGED <<scan, faults>>

(* claim: BLPOP returns the head of the pending list. *)
BlPop(w) ==
  /\ phase[w] = "claiming"
  /\ pending # <<>>
  /\ SetHand(w, Head(pending), None)
  /\ pending' = Tail(pending)
  /\ Goto(w, "popped")
  /\ UNCHANGED <<inflight, lapsed, data, dead, scan, faults, settled>>

(* claim: BLPOP times out on an empty list and claim returns None. *)
BlPopTimeout(w) ==
  /\ phase[w] = "claiming"
  /\ pending = <<>>
  /\ Goto(w, "idle")
  /\ UNCHANGED <<redisVars, hand, scan, faults>>

(* claim: HGET; an absent body makes claim return None. *)
HGet(w) ==
  LET job == data[hand[w].id] IN
  /\ phase[w] = "popped"
  /\ IF job = None
     THEN DropHand(w) /\ Goto(w, "idle")
     ELSE SetHand(w, hand[w].id, job) /\ Goto(w, "read")
  /\ UNCHANGED <<redisVars, scan, faults>>

(* claim: ZADD with a deadline that lies ahead; the job is the worker's. *)
ZAdd(w) ==
  /\ phase[w] = "read"
  /\ inflight' = inflight \cup {hand[w].id}
  /\ lapsed' = lapsed \ {hand[w].id}
  /\ Goto(w, "holding")
  /\ UNCHANGED <<pending, data, dead, hand, scan, faults, settled>>

(* handle: queue.ack(job). *)
Ack(w) ==
  /\ phase[w] = "holding"
  /\ AckPipe(hand[w].id)
  /\ DropHand(w)
  /\ Goto(w, "idle")
  /\ UNCHANGED <<scan, faults>>

(* handle: queue.retry(job). *)
Retry(w) ==
  /\ phase[w] = "holding"
  /\ RetryPipe(hand[w].id, hand[w].job)
  /\ DropHand(w)
  /\ Goto(w, "idle")
  /\ UNCHANGED <<scan, faults>>

-----------------------------------------------------------------------------
(* Environment *)

(* Time passes: a visibility deadline lapses, whoever holds the job. *)
Lapse(j) ==
  /\ j \in inflight \ lapsed
  /\ lapsed' = lapsed \cup {j}
  /\ UNCHANGED <<pending, inflight, data, dead, clientVars, faults, settled>>

Fault == faults < MaxFaults /\ faults' = faults + 1

(* The process dies, or a Redis command of recover_expired or claim raises *)
(* and run_forever carries on with the next tick: either way what the      *)
(* worker had in hand is forgotten.                                        *)
Abandon(w) ==
  /\ phase[w] \in FaultPoints
  /\ Fault
  /\ DropHand(w)
  /\ scan' = [scan EXCEPT ![w] = {}]
  /\ Goto(w, "idle")
  /\ UNCHANGED redisVars

(* The ack transaction ran but its reply was lost (socket_timeout): ack    *)
(* raises, and handle goes on to its except branch with the job in hand.   *)
AckReplyLost(w) ==
  /\ phase[w] = "holding"
  /\ "ackReply" \in FaultPoints
  /\ Fault
  /\ AckPipe(hand[w].id)
  /\ UNCHANGED clientVars

WorkerStep(w) ==
  \/ ScanExpired(w) \/ ReadExpired(w) \/ RescueExpired(w)
  \/ BlPop(w) \/ BlPopTimeout(w) \/ HGet(w) \/ ZAdd(w)
  \/ Ack(w) \/ Retry(w)

Submit == \E p \in Payload : Enqueue(p) /\ UNCHANGED <<clientVars, faults>>

QueueNext ==
  \/ Submit
  \/ \E j \in JobId : Lapse(j)
  \/ \E w \in Worker : WorkerStep(w) \/ Abandon(w) \/ AckReplyLost(w)

QueueSpec == QueueInit /\ [][QueueNext]_queueVars

(* Workers keep looping and clocks keep running; nothing forces a fault or *)
(* a new job.                                                              *)
QueueFairness ==
  /\ \A j \in JobId : WF_queueVars(Lapse(j))
  /\ \A w \in Worker : WF_queueVars(WorkerStep(w))

FairQueueSpec == QueueSpec /\ QueueFairness
-----------------------------------------------------------------------------
(* Properties *)

(* A worker between BLPOP and ZADD of job j. *)
Claiming(w, j) == phase[w] \in {"popped", "read"} /\ hand[w].id = j

(* queue.py RedisJobQueue ("no crash silently drops work"): a stored job   *)
(* that was never acked nor dead-lettered is pending, in flight, or with a *)
(* live worker on its way into the in-flight set.  BLPOP and               *)
(* recover_expired look nowhere else, so a job outside these places is     *)
(* never run again.                                                        *)
Accounted ==
  \A j \in JobId :
    (data[j] # None /\ j \notin settled) =>
      InPending(j) \/ j \in inflight \/ \E w \in Worker : Claiming(w, j)

(* The facts about forgotten bodies that make Accounted inductive: a body  *)
(* is absent only before its id is used or after the job was settled, and  *)
(* when recover_expired finds no body the job was settled.                 *)
AbsentMeansSettled ==
  /\ \A j \in JobId : data[j] = None => Unused(j) \/ j \in settled
  /\ \A w \in Worker :
       phase[w] = "rescuing" /\ hand[w].job = None => hand[w].id \in settled

(* queue.py retry: whatever copies of a job the workers and the reaper     *)
(* retried, a job reaches the dead-letter list only with the whole attempt *)
(* ceiling spent, and no queued or held body has reached it.               *)
DeadOnlyWhenExhausted ==
  /\ \A d \in dead : d.attempts = MaxAttempts
  /\ \A j \in JobId : data[j] # None => data[j].attempts < MaxAttempts
  /\ \A w \in Worker : hand[w].job # None => hand[w].job.attempts < MaxAttempts

(* queue.py: every job is eventually acked or dead-lettered, although the  *)
(* worker holding it may die, deadlines may lapse under a worker that is   *)
(* still busy, and several copies of the job may be retried.               *)
EventuallySettled == \A j \in JobId : data[j] # None ~> j \in settled
=============================================================================
