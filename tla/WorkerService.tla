--------------------------- MODULE WorkerService ---------------------------
(***************************************************************************)
(* Worker processes (backend/app/worker.py) executing analyst runs over    *)
(* the Redis queue and the runs table, with the API process that creates   *)
(* the runs (api/routes/runs.py).                                          *)
(*                                                                         *)
(* RedisQueue contributes the queue and each worker's position in          *)
(* recover_expired and claim; this module adds the process itself, the     *)
(* handler that runs once claim has returned a job, and the rows.  A       *)
(* handler is cut at every commit and every Redis call: other processes    *)
(* run in between.  The workflow itself (AgentGraph) is its outcome here:  *)
(* progress events, then an answer, a failure, or a refusal.               *)
(***************************************************************************)
EXTENDS RedisQueue, RunStore

CONSTANT MaxEvents   \* bound on the log while a run is executing

Run == Payload       \* a job's payload names its run

VARIABLES
  run,        \* the runs table
  submitting, \* runs whose row is committed and whose job is not yet queued
  step,       \* where each worker is outside the queue's own calls
  sweep,      \* runs the startup sweep still has to enqueue
  task,       \* the run in the job being handled
  seen,       \* status in the session's identity map, "expired" after rollback
  copy        \* which failure message is about to be stored

workerVars == <<step, sweep, task, seen, copy>>
serviceVars == <<queueVars, run, submitting, workerVars>>

Step ==
  { "off",       \* no process: stopped, killed, or ended by an exception
    "sweeping",  \* recover_stranded_rows
    "loop",      \* run_forever, inside recover_expired or claim
    "load",      \* handle called, run not loaded
    "loaded",    \* run loaded, not yet marked running
    "working",   \* run_workflow
    "done",      \* handler finished, ack next
    "failing",   \* except branch: retry next
    "refused",   \* except branch: the provider refused, ack next
    "marking" }  \* _mark_permanently_failed

ServiceTypeOK ==
  /\ QueueTypeOK
  /\ run \in [Run -> RunRow]
  /\ submitting \in SUBSET Run
  /\ step \in [Worker -> Step]
  /\ sweep \in [Worker -> SUBSET Run]
  /\ task \in [Worker -> Run \cup {None}]
  /\ seen \in [Worker -> RunStatus \cup {"expired", None}]
  /\ copy \in [Worker -> ErrorCopy]

ServiceInit ==
  /\ QueueInit
  /\ run = [r \in Run |-> NoRow]
  /\ submitting = {}
  /\ step = [w \in Worker |-> "off"]
  /\ sweep = [w \in Worker |-> {}]
  /\ task = [w \in Worker |-> None]
  /\ seen = [w \in Worker |-> None]
  /\ copy = [w \in Worker |-> "none"]

SetStep(w, s) == step' = [step EXCEPT ![w] = s]
SetSeen(w, s) == seen' = [seen EXCEPT ![w] = s]
WriteRow(r, row) == run' = [run EXCEPT ![r] = row]

-----------------------------------------------------------------------------
(* API process *)

(* create_run: the row and its first event are committed before the job is *)
(* enqueued.                                                               *)
CreateRun(r) ==
  /\ run[r].status = "absent"
  /\ WriteRow(r, CreatedRow)
  /\ submitting' = submitting \cup {r}
  /\ UNCHANGED <<queueVars, workerVars>>

(* create_run: queue.enqueue. *)
SubmitRun(r) ==
  /\ r \in submitting
  /\ Enqueue(r)
  /\ submitting' = submitting \ {r}
  /\ UNCHANGED <<clientVars, faults, run, workerVars>>

(* create_run: enqueue raised (503), or the API process died before it. *)
SubmitFails(r) ==
  /\ r \in submitting
  /\ "submit" \in FaultPoints
  /\ Fault
  /\ submitting' = submitting \ {r}
  /\ UNCHANGED <<redisVars, clientVars, run, workerVars>>

-----------------------------------------------------------------------------
(* Starting, stopping and dying *)

(* Bound: a process ends only while there are ids left for what the API    *)
(* may submit and the next start may sweep, so that no sweep is cut short  *)
(* by the size of JobId.                                                   *)
Room ==
  Cardinality({j \in JobId : Unused(j)}) >=
    Cardinality({r \in Run : run[r].status \in {"queued", "running"}})
      + Cardinality(submitting)

(* run_forever: recover_stranded_rows reads both stale sets first. *)
StartWorker(w) ==
  LET stranded == {r \in Run : IsStranded(run[r])} IN
  /\ step[w] = "off"
  /\ sweep' = [sweep EXCEPT ![w] = stranded]
  /\ SetStep(w, IF stranded = {} THEN "loop" ELSE "sweeping")
  /\ UNCHANGED <<queueVars, run, submitting, task, seen, copy>>

(* recover_stranded_rows: a new job per stranded row, whatever the queue   *)
(* already holds for it.                                                   *)
SweepRow(w) ==
  /\ step[w] = "sweeping"
  /\ \E r \in sweep[w] :
       /\ Enqueue(r)
       /\ sweep' = [sweep EXCEPT ![w] = @ \ {r}]
       /\ SetStep(w, IF sweep[w] = {r} THEN "loop" ELSE "sweeping")
  /\ UNCHANGED <<clientVars, faults, run, submitting, task, seen, copy>>

(* recover_stranded_rows swallows a queue error: the rest is not enqueued. *)
SweepFails(w) ==
  /\ step[w] = "sweeping"
  /\ "sweep" \in FaultPoints
  /\ Fault
  /\ sweep' = [sweep EXCEPT ![w] = {}]
  /\ SetStep(w, "loop")
  /\ UNCHANGED <<redisVars, clientVars, run, submitting, task, seen, copy>>

(* stop: the job in hand is finished, then the loop ends. *)
StopWorker(w) ==
  /\ step[w] = "loop" /\ phase[w] = "idle"
  /\ Room
  /\ SetStep(w, "off")
  /\ UNCHANGED <<queueVars, run, submitting, sweep, task, seen, copy>>

ForgetTask(w) ==
  /\ task' = [task EXCEPT ![w] = None]
  /\ seen' = [seen EXCEPT ![w] = None]
  /\ copy' = [copy EXCEPT ![w] = "none"]

(* The process is killed. *)
CrashWorker(w) ==
  /\ step[w] # "off"
  /\ Room
  /\ Abandon(w)
  /\ sweep' = [sweep EXCEPT ![w] = {}]
  /\ ForgetTask(w)
  /\ SetStep(w, "off")
  /\ UNCHANGED <<run, submitting>>

(* run_forever: recover_expired or claim raised; the next tick retries. *)
ClaimRaises(w) ==
  /\ step[w] = "loop" /\ phase[w] # "idle"
  /\ Abandon(w)
  /\ UNCHANGED <<run, submitting, workerVars>>

-----------------------------------------------------------------------------
(* The loop: recover_expired, then claim *)

QueueCall(w) ==
  /\ step[w] = "loop"
  /\ ScanExpired(w) \/ ReadExpired(w) \/ RescueExpired(w) \/ BlPop(w) \/ BlPopTimeout(w) \/ HGet(w)
  /\ UNCHANGED <<run, submitting, workerVars>>

(* Mutant: the job is handed over without an in-flight entry. *)
ClaimUnregistered(w) ==
  /\ step[w] = "loop" /\ phase[w] = "read"
  /\ Goto(w, "holding")
  /\ SetStep(w, "load")
  /\ task' = [task EXCEPT ![w] = hand[w].job.payload]
  /\ UNCHANGED <<redisVars, hand, scan, faults, run, submitting, sweep, seen, copy>>

(* claim returns the job and run_forever calls handle. *)
Claim(w) ==
  /\ step[w] = "loop"
  /\ ZAdd(w)
  /\ SetStep(w, "load")
  /\ task' = [task EXCEPT ![w] = hand[w].job.payload]
  /\ UNCHANGED <<run, submitting, sweep, seen, copy>>

-----------------------------------------------------------------------------
(* handle and _execute_run *)

(* Mutant: a finished run is executed again. *)
LoadAnyRun(w) ==
  /\ step[w] = "load"
  /\ SetSeen(w, run[task[w]].status)
  /\ SetStep(w, "loaded")
  /\ UNCHANGED <<queueVars, run, submitting, sweep, task, copy>>

(* session.get(Run); a finished run is not executed again. *)
LoadRun(w) ==
  LET status == run[task[w]].status IN
  /\ step[w] = "load"
  /\ SetSeen(w, status)
  /\ SetStep(w, IF status \in Terminal THEN "done" ELSE "loaded")
  /\ UNCHANGED <<queueVars, run, submitting, sweep, task, copy>>

MarkRunning(w) ==
  /\ step[w] = "loaded"
  /\ WriteRow(task[w], RunningRow(run[task[w]], seen[w]))
  /\ SetSeen(w, "running")
  /\ SetStep(w, "working")
  /\ UNCHANGED <<queueVars, submitting, sweep, task, copy>>

(* emit: append_event and commit. *)
EmitProgress(w) ==
  /\ step[w] = "working"
  /\ Len(run[task[w]].events) < MaxEvents
  /\ WriteRow(task[w], AppendEvent(run[task[w]], "progress"))
  /\ UNCHANGED <<queueVars, submitting, workerVars>>

(* The workflow answered, with or without citations: mark_completed. *)
MarkCompleted(w) ==
  /\ step[w] = "working"
  /\ \E citing \in BOOLEAN :
       /\ ~CitationConflict(run[task[w]], citing)
       /\ WriteRow(task[w], CompletedRow(run[task[w]], citing))
  /\ SetSeen(w, "completed")
  /\ SetStep(w, "done")
  /\ UNCHANGED <<queueVars, submitting, sweep, task, copy>>

(* Another worker is writing events of the same run. *)
Contended(w) ==
  \E v \in Worker \ {w} : task[v] = task[w] /\ step[v] \in {"working", "marking", "done"}

(* A unique constraint is violated by citation rows that exist already or  *)
(* by a concurrent append_event: rollback expires the session's objects.   *)
WriteConflict(w) ==
  /\ step[w] = "working"
  /\ CitationConflict(run[task[w]], TRUE) \/ Contended(w)
  /\ SetSeen(w, "expired")
  /\ SetStep(w, "failing")
  /\ UNCHANGED <<queueVars, run, submitting, sweep, task, copy>>

(* The workflow raised between two commits: rollback has no transaction to *)
(* end, and the session keeps what it saw.                                 *)
WorkflowRaises(w) ==
  /\ step[w] = "working"
  /\ SetStep(w, "failing")
  /\ UNCHANGED <<queueVars, run, submitting, sweep, task, seen, copy>>

(* The database raised inside a transaction: rollback expires the session. *)
DatabaseRaises(w) ==
  /\ step[w] \in {"load", "loaded", "working"}
  /\ "database" \in FaultPoints
  /\ Fault
  /\ SetSeen(w, "expired")
  /\ SetStep(w, "failing")
  /\ UNCHANGED <<redisVars, clientVars, run, submitting, sweep, task, copy>>

(* A ModelProviderError that is permanent. *)
ProviderRefuses(w) ==
  /\ step[w] = "working"
  /\ SetStep(w, "refused")
  /\ UNCHANGED <<queueVars, run, submitting, sweep, task, seen, copy>>

AckJob(w) ==
  /\ step[w] = "done"
  /\ Ack(w)
  /\ ForgetTask(w)
  /\ SetStep(w, "loop")
  /\ UNCHANGED <<run, submitting, sweep>>

(* ack raised, before or after Redis ran it: handle treats the finished    *)
(* job as a failed one.                                                    *)
AckRaises(w) ==
  /\ step[w] = "done"
  /\ \/ AckReplyLost(w)
     \/ "ack" \in FaultPoints /\ Fault /\ UNCHANGED <<redisVars, clientVars>>
  /\ SetStep(w, "failing")
  /\ UNCHANGED <<run, submitting, sweep, task, seen, copy>>

AckRefused(w) ==
  /\ step[w] = "refused"
  /\ Ack(w)
  /\ copy' = [copy EXCEPT ![w] = "provider"]
  /\ SetStep(w, "marking")
  /\ UNCHANGED <<run, submitting, sweep, task, seen>>

(* Mutant: every failed attempt marks the row, whatever retry returned. *)
RetryJobAlwaysMarks(w) ==
  /\ step[w] = "failing"
  /\ Retry(w)
  /\ copy' = [copy EXCEPT ![w] = "generic"]
  /\ SetStep(w, "marking")
  /\ UNCHANGED <<run, submitting, sweep, task, seen>>

(* except branch: retry requeues, or gives up and the row is marked. *)
RetryJob(w) ==
  /\ step[w] = "failing"
  /\ Retry(w)
  /\ IF Exhausted(hand[w].job)
     THEN /\ copy' = [copy EXCEPT ![w] = "generic"]
          /\ SetStep(w, "marking")
          /\ UNCHANGED <<task, seen>>
     ELSE ForgetTask(w) /\ SetStep(w, "loop")
  /\ UNCHANGED <<run, submitting, sweep>>

(* except branch: ack or retry itself raised.  handle is called outside    *)
(* the try of run_forever, so the exception ends the worker.               *)
HandlerEscapes(w) ==
  /\ step[w] \in {"failing", "refused"}
  /\ Room
  /\ "handler" \in FaultPoints
  /\ Fault
  /\ DropHand(w)
  /\ Goto(w, "idle")
  /\ ForgetTask(w)
  /\ SetStep(w, "off")
  /\ UNCHANGED <<redisVars, scan, run, submitting, sweep>>

(* _mark_permanently_failed: session.get reloads only an expired object. *)
ReloadRun(w) ==
  /\ step[w] = "marking" /\ seen[w] = "expired"
  /\ SetSeen(w, run[task[w]].status)
  /\ UNCHANGED <<queueVars, run, submitting, step, sweep, task, copy>>

MarkFailed(w) ==
  /\ step[w] = "marking" /\ seen[w] # "expired"
  /\ IF seen[w] \in Terminal
     THEN UNCHANGED run
     ELSE WriteRow(task[w], FailedRow(run[task[w]], copy[w]))
  /\ ForgetTask(w)
  /\ SetStep(w, "loop")
  /\ UNCHANGED <<queueVars, submitting, sweep>>

(* _mark_permanently_failed swallows a database error. *)
MarkSwallowed(w) ==
  /\ step[w] = "marking"
  /\ "mark" \in FaultPoints \/ Contended(w)
  /\ Fault
  /\ ForgetTask(w)
  /\ SetStep(w, "loop")
  /\ UNCHANGED <<redisVars, clientVars, run, submitting, sweep>>

-----------------------------------------------------------------------------
(* Environment *)

(* updated_at falls behind the cutoff of the sweep. *)
RowAges(r) ==
  /\ run[r].status \in {"queued", "running"} /\ ~run[r].stale
  /\ WriteRow(r, [run[r] EXCEPT !.stale = TRUE])
  /\ UNCHANGED <<queueVars, submitting, workerVars>>

(* Redis restarts without its data (render.yaml runs it without            *)
(* persistence).                                                           *)
RedisFlush ==
  /\ "flush" \in FaultPoints
  /\ Fault
  /\ pending' = <<>>
  /\ inflight' = {}
  /\ lapsed' = {}
  /\ data' = [j \in JobId |-> None]
  /\ dead' = {}
  /\ UNCHANGED <<settled, clientVars, run, submitting, workerVars>>

DeadlineLapses(j) == Lapse(j) /\ UNCHANGED <<run, submitting, workerVars>>

HandlerStep(w) ==
  \/ LoadRun(w) \/ MarkRunning(w) \/ EmitProgress(w) \/ MarkCompleted(w) \/ WriteConflict(w)
  \/ WorkflowRaises(w) \/ ProviderRefuses(w) \/ AckJob(w) \/ AckRefused(w) \/ RetryJob(w)
  \/ ReloadRun(w) \/ MarkFailed(w)

ProcessStep(w) == SweepRow(w) \/ QueueCall(w) \/ Claim(w) \/ HandlerStep(w)

ServiceNext ==
  \/ \E r \in Run : CreateRun(r) \/ SubmitRun(r) \/ SubmitFails(r) \/ RowAges(r)
  \/ \E j \in JobId : DeadlineLapses(j)
  \/ RedisFlush
  \/ \E w \in Worker :
       \/ StartWorker(w) \/ StopWorker(w) \/ ProcessStep(w)
       \/ SweepFails(w) \/ CrashWorker(w) \/ ClaimRaises(w)
       \/ AckRaises(w) \/ HandlerEscapes(w) \/ MarkSwallowed(w) \/ DatabaseRaises(w)

ServiceSpec == ServiceInit /\ [][ServiceNext]_serviceVars

(* A running worker keeps taking steps, a stopped one is started again by  *)
(* its supervisor, the API finishes its requests, and clocks run.  A       *)
(* worker stopped and started over and over polls the queue now and then.  *)
ServiceFairness ==
  /\ \A r \in Run : WF_serviceVars(SubmitRun(r)) /\ WF_serviceVars(RowAges(r))
  /\ \A j \in JobId : WF_serviceVars(DeadlineLapses(j))
  /\ \A w \in Worker :
       WF_serviceVars(StartWorker(w)) /\ SF_serviceVars(ProcessStep(w))

FairServiceSpec == ServiceSpec /\ ServiceFairness

-----------------------------------------------------------------------------
(* Properties *)

Contract ==
  INSTANCE RunContract WITH
    status <- [r \in Run |-> run[r].status],
    log <- [r \in Run |-> run[r].events]

(* The worker implements the run contract: whatever is retried, redelivered *)
(* or lost, a run gets at most one verdict, never leaves it, and its log    *)
(* ends with it.                                                            *)
ImplementsContract == Contract!ContractSpec

(* The worker uses the queue the way RedisQueue assumes: every step leaves *)
(* the queue alone or is a step of RedisQueue.                             *)
UsesQueueAsSpecified == QueueInit /\ [][QueueNext]_<<redisVars, clientVars>>

(* worker.py ("a row is only marked `failed` once the queue has given up   *)
(* retrying it"): a run that failed without a refusal of the provider has  *)
(* a dead-lettered job.                                                    *)
FailedMeansGivenUp ==
  \A r \in Run :
    run[r].status = "failed" /\ run[r].error = "generic" =>
      \E d \in dead : d.payload = r

(* worker.py _mark_permanently_failed ("Give the reader a terminal answer  *)
(* once retries are exhausted") and runs.py create_run ("a delay rather    *)
(* than a loss"): every accepted run reaches a terminal status.            *)
RunSettles == \A r \in Run : run[r].status = "queued" ~> run[r].status \in Terminal

(* worker.py recover_stranded_rows ("Redis can be flushed or replaced      *)
(* entirely and no user's upload or question is lost"): as long as workers *)
(* are restarted again and again, every accepted run reaches a terminal    *)
(* status, whatever jobs were lost on the way.                             *)
RestartsRecover ==
  (\A w \in Worker : []<><<StartWorker(w)>>_serviceVars) => RunSettles
=============================================================================
