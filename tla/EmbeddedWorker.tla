--------------------------- MODULE EmbeddedWorker ---------------------------
(***************************************************************************)
(* The product in one process: without REDIS_URL the API process runs the  *)
(* worker as a daemon thread (main.py, lifespan) over an InMemoryJobQueue  *)
(* (services/queue.py).  Rows outlive the process; queue, dead letters,    *)
(* the job in hand and requests under way do not.  The thread is not       *)
(* joined, so that stopping the process is killing it.                     *)
(*                                                                         *)
(* There is one worker, hence one writer of a run that was accepted: what  *)
(* its session saw is what the row is.  ack and recover_expired do nothing *)
(* here, and neither enqueue nor retry can fail.                           *)
(***************************************************************************)
EXTENDS RunStore, FiniteSets

CONSTANTS Run,
          MaxAttempts,  \* job_max_attempts
          MaxEvents,    \* bound on the log while a run is executing
          MaxStops,     \* bound: times the process ends
          MaxFaults,    \* bound: database errors
          None

ASSUME EmbeddedAssumption ==
  /\ MaxAttempts \in Nat \ {0} /\ MaxEvents \in Nat /\ MaxStops \in Nat /\ MaxFaults \in Nat
  /\ None \notin [run : Run, attempts : Nat]

VARIABLES
  run,        \* the runs table: [Run -> RunRow]
  submitting, \* runs whose row is committed and whose job is not yet queued
  pending,    \* InMemoryJobQueue._pending, a sequence of jobs
  hand,       \* the job the worker has, or None
  step,       \* where the worker thread is
  sweep,      \* runs the startup sweep still has to enqueue
  stops, faults,
  forgotten   \* history: live runs that nothing in memory stands for

memoryVars == <<submitting, pending, hand, step, sweep>>
embeddedVars == <<run, memoryVars, stops, faults, forgotten>>

(* "off", "sweeping", "loop", "load", "loaded", "working", "failing",      *)
(* "unmarked" (given up, the row not yet marked), "refused"                *)

Live(r) == run[r].status \in {"queued", "running"}
NewJob(r) == [run |-> r, attempts |-> 0]

EmbeddedInit ==
  /\ run = [r \in Run |-> NoRow]
  /\ submitting = {} /\ pending = <<>> /\ hand = None
  /\ step = "off" /\ sweep = {}
  /\ stops = 0 /\ faults = 0
  /\ forgotten = {}

WriteRow(r, row) == run' = [run EXCEPT ![r] = row]
Fault == faults < MaxFaults /\ faults' = faults + 1
(* The handler is through with the job in hand. *)
LetGo == hand' = None /\ step' = "loop"

-----------------------------------------------------------------------------
(* The process *)

(* _start_embedded_worker, and the query of recover_stranded_rows *)
Start ==
  LET stranded == {r \in Run : IsStranded(run[r])} IN
  /\ step = "off"
  /\ step' = "sweeping"
  /\ sweep' = stranded
  /\ forgotten' = forgotten \ stranded
  /\ UNCHANGED <<run, submitting, pending, hand, stops, faults>>

(* The process ends, whatever it is doing. *)
Stop ==
  /\ step # "off" /\ stops < MaxStops
  /\ stops' = stops + 1
  /\ submitting' = {} /\ pending' = <<>> /\ hand' = None
  /\ step' = "off" /\ sweep' = {}
  /\ forgotten' = {r \in Run : Live(r)}
  /\ UNCHANGED <<run, faults>>

(* routes/runs.py, create_run: the row, then the job *)
CreateRun(r) ==
  /\ step # "off"
  /\ run[r].status = "absent"
  /\ WriteRow(r, CreatedRow)
  /\ submitting' = submitting \cup {r}
  /\ UNCHANGED <<pending, hand, step, sweep, stops, faults, forgotten>>

Enqueue(r) == pending' = Append(pending, NewJob(r))

SubmitRun(r) ==
  /\ r \in submitting
  /\ Enqueue(r)
  /\ submitting' = submitting \ {r}
  /\ UNCHANGED <<run, hand, step, sweep, stops, faults, forgotten>>

(* updated_at falls behind the cutoff of the sweep. *)
RowAges(r) ==
  /\ Live(r) /\ ~run[r].stale
  /\ WriteRow(r, [run[r] EXCEPT !.stale = TRUE])
  /\ UNCHANGED <<memoryVars, stops, faults, forgotten>>

-----------------------------------------------------------------------------
(* The worker thread *)

SweepRow ==
  /\ step = "sweeping"
  /\ IF sweep = {} THEN step' = "loop" /\ UNCHANGED <<pending, sweep>>
     ELSE \E r \in sweep : Enqueue(r) /\ sweep' = sweep \ {r} /\ UNCHANGED step
  /\ UNCHANGED <<run, submitting, hand, stops, faults, forgotten>>

Claim ==
  /\ step = "loop" /\ pending # <<>>
  /\ hand' = Head(pending)
  /\ pending' = Tail(pending)
  /\ step' = "load"
  /\ UNCHANGED <<run, submitting, sweep, stops, faults, forgotten>>

(* A finished run is not executed again. *)
LoadRun ==
  /\ step = "load"
  /\ IF run[hand.run].status \in Terminal THEN LetGo ELSE step' = "loaded" /\ UNCHANGED hand
  /\ UNCHANGED <<run, submitting, pending, sweep, stops, faults, forgotten>>

MarkRunning ==
  /\ step = "loaded"
  /\ WriteRow(hand.run, RunningRow(run[hand.run], run[hand.run].status))
  /\ step' = "working"
  /\ UNCHANGED <<submitting, pending, hand, sweep, stops, faults, forgotten>>

EmitProgress ==
  /\ step = "working" /\ Len(run[hand.run].events) < MaxEvents
  /\ WriteRow(hand.run, AppendEvent(run[hand.run], "progress"))
  /\ UNCHANGED <<memoryVars, stops, faults, forgotten>>

MarkCompleted ==
  /\ step = "working"
  /\ \E citing \in BOOLEAN : WriteRow(hand.run, CompletedRow(run[hand.run], citing))
  /\ LetGo
  /\ UNCHANGED <<submitting, pending, sweep, stops, faults, forgotten>>

(* The answer was committed, but the database's reply was lost. *)
CompletedUnheard ==
  /\ step = "working"
  /\ Fault
  /\ \E citing \in BOOLEAN : WriteRow(hand.run, CompletedRow(run[hand.run], citing))
  /\ step' = "failing"
  /\ UNCHANGED <<submitting, pending, hand, sweep, stops, forgotten>>

(* The workflow raised, or the provider refused for good. *)
WorkflowRaises ==
  /\ step = "working"
  /\ step' \in {"failing", "refused"}
  /\ UNCHANGED <<run, submitting, pending, hand, sweep, stops, faults, forgotten>>

DatabaseRaises ==
  /\ step \in {"load", "loaded", "working"}
  /\ Fault
  /\ step' = "failing"
  /\ UNCHANGED <<run, submitting, pending, hand, sweep, stops, forgotten>>

(* Mutant: the attempt is not counted. *)
TriedUncounted == hand

Tried == [hand EXCEPT !.attempts = @ + 1]

(* Mutant: a job is put back even if it was given up. *)
RequeuedAlways == Append(pending, Tried)

Requeued == IF Tried.attempts >= MaxAttempts THEN pending ELSE Append(pending, Tried)

(* InMemoryJobQueue.retry: put back, or dead-lettered and the row marked. *)
Retry ==
  /\ step = "failing"
  /\ pending' = Requeued
  /\ IF Tried.attempts >= MaxAttempts THEN step' = "unmarked" /\ UNCHANGED hand ELSE LetGo
  /\ UNCHANGED <<run, submitting, sweep, stops, faults, forgotten>>

(* Mutant: the row is marked whatever it is. *)
MarkFailedAgain == WriteRow(hand.run, FailedRow(run[hand.run], "generic"))

(* _mark_permanently_failed *)
MarkFailedRow ==
  IF run[hand.run].status \in Terminal THEN UNCHANGED run
  ELSE WriteRow(hand.run, FailedRow(run[hand.run], IF step = "refused" THEN "provider"
                                                   ELSE "generic"))

MarkFailed ==
  /\ step \in {"unmarked", "refused"}
  /\ MarkFailedRow
  /\ LetGo
  /\ UNCHANGED <<submitting, pending, sweep, stops, faults, forgotten>>

(* The database raised there: swallowed, and the job is gone. *)
MarkSwallowed ==
  /\ step \in {"unmarked", "refused"}
  /\ Fault
  /\ LetGo
  /\ forgotten' = forgotten \cup {hand.run}
  /\ UNCHANGED <<run, submitting, pending, sweep, stops>>

WorkerStep ==
  \/ SweepRow \/ Claim \/ LoadRun \/ MarkRunning \/ EmitProgress \/ MarkCompleted
  \/ WorkflowRaises \/ Retry \/ MarkFailed

EmbeddedNext ==
  \/ Start \/ Stop
  \/ \E r \in Run : CreateRun(r) \/ SubmitRun(r) \/ RowAges(r)
  \/ WorkerStep \/ DatabaseRaises \/ CompletedUnheard \/ MarkSwallowed

EmbeddedSpec == EmbeddedInit /\ [][EmbeddedNext]_embeddedVars

(* The process is started again, and its thread and its requests run.      *)
EmbeddedFairness ==
  /\ WF_embeddedVars(Start) /\ WF_embeddedVars(WorkerStep)
  /\ \A r \in Run : WF_embeddedVars(SubmitRun(r))

FairEmbeddedSpec == EmbeddedSpec /\ EmbeddedFairness

-----------------------------------------------------------------------------
(* Properties *)

Carriers(r) ==
  Cardinality({i \in 1 .. Len(pending) : pending[i].run = r})
    + Cardinality({s \in {submitting, sweep} : r \in s})
    + (IF hand # None /\ hand.run = r THEN 1 ELSE 0)

(* queue.py ("Nothing can outlive this process, so there is nothing to     *)
(* recover") and main.py: within the life of a process each live run is    *)
(* stood for once - by its request, the sweep, the queue or the worker -   *)
(* unless it was live when the process ended and too young for the sweep,  *)
(* or its failure could not be written; nothing is executed twice at once. *)
CarriedOrForgotten ==
  \A r \in Run : Live(r) => Carriers(r) = IF r \in forgotten THEN 0 ELSE 1

(* worker.py ("Claims jobs and runs them to a terminal state"): the same   *)
(* contract as with Redis and separate workers.                            *)
Contract ==
  INSTANCE RunContract WITH
    status <- [r \in Run |-> run[r].status],
    log <- [r \in Run |-> run[r].events]

ImplementsContract == Contract!ContractSpec

(* main.py, lifespan ("the worker's startup sweep still recovers anything  *)
(* a restart stranded"), as far as it is true: every accepted run reaches  *)
(* a verdict unless the process that is up now forgot it.                  *)
SettledOrForgotten ==
  \A r \in Run :
    run[r].status = "queued" ~>
      run[r].status \in Terminal \/ (step # "off" /\ r \in forgotten)
=============================================================================
