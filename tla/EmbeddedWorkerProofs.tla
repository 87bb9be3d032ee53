------------------------ MODULE EmbeddedWorkerProofs ------------------------
(***************************************************************************)
(* Proofs about EmbeddedWorker, for any number of runs, attempts, restarts *)
(* and database errors.  CarriedOrForgotten counts who stands for a run;   *)
(* the induction goes through what the count means: no run stands in two   *)
(* places (StoodForOnce), only accepted runs stand anywhere, and the live  *)
(* ones that stand nowhere are the forgotten ones (Known).  That needs     *)
(* what the handler found in the row to be still there (WorkerSees): there *)
(* is no other writer.                                                     *)
(***************************************************************************)
EXTENDS EmbeddedWorker, FiniteSetTheorems, TLAPS

Job == [run : Run, attempts : Nat]
Step == { "off", "sweeping", "loop", "load", "loaded", "working", "failing", "unmarked",
          "refused" }

EmbeddedTypeOK ==
  /\ run \in [Run -> RunRow]
  /\ submitting \in SUBSET Run /\ sweep \in SUBSET Run /\ forgotten \in SUBSET Run
  /\ pending \in Seq(Job)
  /\ hand \in Job \cup {None}
  /\ step \in Step

Queued(r) == \E i \in 1 .. Len(pending) : pending[i].run = r
InHand(r) == hand # None /\ hand.run = r
Standing(r) == r \in submitting \/ r \in sweep \/ Queued(r) \/ InHand(r)
Distinct == \A i, k \in 1 .. Len(pending) : pending[i].run = pending[k].run => i = k

StoodForOnce ==
  /\ Distinct
  /\ \A r \in submitting : r \notin sweep /\ ~Queued(r) /\ ~InHand(r)
  /\ \A r \in sweep : ~Queued(r) /\ ~InHand(r)
  /\ \A r \in Run : Queued(r) => ~InHand(r)
  /\ hand = None <=> step \in {"off", "sweeping", "loop"}
  /\ step = "off" => submitting = {} /\ sweep = {} /\ pending = <<>>

Known ==
  /\ \A r \in Run : Standing(r) \/ r \in forgotten => run[r].status # "absent"
  /\ \A r \in Run : Live(r) => (Standing(r) <=> r \notin forgotten)

WorkerSees ==
  /\ step = "loaded" => Live(hand.run)
  /\ step = "working" => run[hand.run].status = "running"

CarryInv == EmbeddedTypeOK /\ StoodForOnce /\ Known /\ WorkerSees

-----------------------------------------------------------------------------
(* Rows *)

(* append_event leaves everything but the log alone.                       *)
LEMMA EventAppended ==
  ASSUME NEW row \in RunRow, NEW e \in RunEventType
  PROVE  /\ AppendEvent(row, e) \in RunRow
         /\ AppendEvent(row, e).status = row.status
         /\ AppendEvent(row, e).events = Append(row.events, e)
<1>1. Append(row.events, e) \in Seq(RunEventType)
  BY DEF RunRow
<1> QED BY <1>1 DEF AppendEvent, RunRow

(* What the functions of run_store.py make of a row, as far as the         *)
(* contract looks at it.                                                   *)
LEMMA RowsWritten ==
  ASSUME NEW row \in RunRow
  PROVE  /\ NoRow \in RunRow /\ NoRow.status = "absent" /\ NoRow.events = <<>>
         /\ CreatedRow \in RunRow /\ CreatedRow.status = "queued"
         /\ CreatedRow.events = Append(<<>>, "run_started")
         /\ RunningRow(row, row.status) \in RunRow
         /\ RunningRow(row, row.status).status = "running"
         /\ RunningRow(row, row.status).events = row.events
         /\ [row EXCEPT !.stale = TRUE] \in RunRow
         /\ [row EXCEPT !.stale = TRUE].status = row.status
         /\ [row EXCEPT !.stale = TRUE].events = row.events
<1>1. NoRow \in RunRow /\ NoRow.status = "absent" /\ NoRow.events = <<>>
  BY DEF NoRow, RunRow, RunStatus, ErrorCopy
<1>2. /\ CreatedRow \in RunRow /\ CreatedRow.status = "queued"
      /\ CreatedRow.events = Append(<<>>, "run_started")
  <2> DEFINE r == [NoRow EXCEPT !.status = "queued"]
  <2>1. r \in RunRow /\ r.status = "queued" /\ r.events = <<>>
    BY <1>1 DEF NoRow, RunRow, RunStatus
  <2>2. CreatedRow = AppendEvent(r, "run_started")
    BY DEF CreatedRow
  <2> HIDE DEF r
  <2> QED BY <2>1, <2>2, EventAppended DEF RunEventType
<1>3. /\ RunningRow(row, row.status) \in RunRow
      /\ RunningRow(row, row.status).status = "running"
      /\ RunningRow(row, row.status).events = row.events
  BY DEF RunningRow, Touched, RunRow, RunStatus
<1>4. /\ [row EXCEPT !.stale = TRUE] \in RunRow
      /\ [row EXCEPT !.stale = TRUE].status = row.status
      /\ [row EXCEPT !.stale = TRUE].events = row.events
  BY DEF RunRow
<1> QED BY <1>1, <1>2, <1>3, <1>4

LEMMA CompletedWritten ==
  ASSUME NEW row \in RunRow, NEW citing \in BOOLEAN
  PROVE  /\ CompletedRow(row, citing) \in RunRow
         /\ CompletedRow(row, citing).status = "completed"
         /\ CompletedRow(row, citing).events = Append(row.events, "completed")
<1> DEFINE r == [Touched(row) EXCEPT !.status = "completed", !.cited = @ \/ citing]
<1>1. r \in RunRow /\ r.status = "completed" /\ r.events = row.events
  BY DEF Touched, RunRow, RunStatus, Terminal
<1>2. CompletedRow(row, citing) = AppendEvent(r, "completed")
  BY DEF CompletedRow
<1> HIDE DEF r
<1> QED BY <1>1, <1>2, EventAppended DEF RunEventType

LEMMA FailedWritten ==
  ASSUME NEW row \in RunRow, NEW copy \in {"generic", "provider"}
  PROVE  /\ FailedRow(row, copy) \in RunRow
         /\ FailedRow(row, copy).status = "failed"
         /\ FailedRow(row, copy).events = Append(row.events, "failed")
<1> DEFINE r == [Touched(row) EXCEPT !.status = "failed", !.error = copy]
<1>1. r \in RunRow /\ r.status = "failed" /\ r.events = row.events
  BY DEF Touched, RunRow, RunStatus, Terminal, ErrorCopy
<1>2. FailedRow(row, copy) = AppendEvent(r, "failed")
  BY DEF FailedRow
<1> HIDE DEF r
<1> QED BY <1>1, <1>2, EventAppended DEF RunEventType

-----------------------------------------------------------------------------
(* The queue in memory *)

(* Putting a job at the end of the queue adds its run, and no other.       *)
LEMMA Pushed ==
  ASSUME pending \in Seq(Job), NEW job \in Job, pending' = Append(pending, job)
  PROVE  /\ pending' \in Seq(Job)
         /\ \A r \in Run : Queued(r)' <=> Queued(r) \/ r = job.run
         /\ Distinct /\ ~Queued(job.run) => Distinct'
<1>1. /\ Len(pending) \in Nat /\ Len(pending') = Len(pending) + 1
      /\ \A i \in 1 .. Len(pending) : pending'[i] = pending[i]
      /\ pending'[Len(pending) + 1] = job
      /\ pending' \in Seq(Job)
  OBVIOUS
<1>2. \A r \in Run : Queued(r)' <=> Queued(r) \/ r = job.run
  BY <1>1 DEF Queued
<1>3. ASSUME Distinct, ~Queued(job.run) PROVE Distinct'
  BY <1>1, <1>3 DEF Distinct, Queued
<1> QED BY <1>1, <1>2, <1>3

(* Taking the head of a queue of distinct runs removes its run.            *)
LEMMA Popped ==
  ASSUME pending \in Seq(Job), pending # <<>>, Distinct, pending' = Tail(pending)
  PROVE  /\ pending' \in Seq(Job)
         /\ Head(pending) \in Job /\ Queued(Head(pending).run)
         /\ \A r \in Run : Queued(r)' <=> Queued(r) /\ r # Head(pending).run
         /\ Distinct'
<1>1. /\ Len(pending) \in Nat \ {0} /\ Len(pending') = Len(pending) - 1
      /\ \A i \in 1 .. Len(pending') : pending'[i] = pending[i + 1]
      /\ Head(pending) = pending[1] /\ Head(pending) \in Job
      /\ pending' \in Seq(Job)
  OBVIOUS
<1>2. Queued(Head(pending).run)
  BY <1>1 DEF Queued
<1>3. ASSUME NEW r \in Run, Queued(r)' PROVE Queued(r) /\ r # Head(pending).run
  <2>1. PICK i \in 1 .. Len(pending') : pending'[i].run = r
    BY <1>3 DEF Queued
  <2>2. i + 1 \in 1 .. Len(pending) /\ pending[i + 1].run = r
    BY <1>1, <2>1
  <2> QED BY <1>1, <2>2 DEF Queued, Distinct
<1>4. ASSUME NEW r \in Run, Queued(r), r # Head(pending).run PROVE Queued(r)'
  <2>1. PICK i \in 1 .. Len(pending) : pending[i].run = r
    BY <1>4 DEF Queued
  <2>2. i - 1 \in 1 .. Len(pending') /\ pending'[i - 1].run = r
    BY <1>1, <1>4, <2>1
  <2> QED BY <2>2 DEF Queued
<1>5. Distinct'
  <2> SUFFICES ASSUME NEW i \in 1 .. Len(pending'), NEW k \in 1 .. Len(pending'),
                      pending'[i].run = pending'[k].run
               PROVE  i = k
    BY DEF Distinct
  <2>1. i + 1 \in 1 .. Len(pending) /\ k + 1 \in 1 .. Len(pending)
    BY <1>1
  <2>2. pending[i + 1].run = pending[k + 1].run
    BY <1>1
  <2>3. i + 1 = k + 1
    BY <2>1, <2>2 DEF Distinct
  <2> QED BY <2>3
<1> QED BY <1>1, <1>2, <1>3, <1>4, <1>5

LEMMA QueueKept ==
  ASSUME UNCHANGED pending
  PROVE  (Distinct' <=> Distinct) /\ \A r : Queued(r)' <=> Queued(r)
BY DEF Distinct, Queued

(* No run is both in a set and queued when nothing is queued.              *)
LEMMA EmptyQueue == ASSUME pending = <<>> PROVE Distinct /\ \A r \in Run : ~Queued(r)
BY DEF Distinct, Queued

-----------------------------------------------------------------------------
(* Each live run stands in one place or is forgotten *)

LEMMA HandKnown ==
  ASSUME EmbeddedTypeOK, StoodForOnce, step \notin {"off", "sweeping", "loop"}
  PROVE  /\ hand \in Job /\ hand # None /\ hand.run \in Run /\ hand.attempts \in Nat
         /\ run[hand.run] \in RunRow
BY DEF EmbeddedTypeOK, StoodForOnce, Job

(* A step of a handler that writes to the row of its run, or not at all,   *)
(* and keeps the job in hand.                                              *)
LEMMA HandlerKeeps ==
  ASSUME CarryInv, step \notin {"off", "sweeping", "loop"},
         step' \in Step \ {"off", "sweeping", "loop"},
         NEW row \in RunRow, run' = [run EXCEPT ![hand.run] = row],
         row.status # "absent", row.status \in {"queued", "running"} => Live(hand.run),
         UNCHANGED <<submitting, sweep, pending, hand, forgotten>>,
         WorkerSees'
  PROVE  CarryInv'
<1>1. hand \in Job /\ hand.run \in Run
  BY HandKnown DEF CarryInv
<1>2. EmbeddedTypeOK'
  BY <1>1 DEF CarryInv, EmbeddedTypeOK
<1>3. StoodForOnce'
  BY QueueKept DEF CarryInv, StoodForOnce, InHand
<1>4. Known'
  <2>1. \A r \in Run : Standing(r)' <=> Standing(r)
    BY QueueKept DEF Standing, InHand
  <2>2. \A r \in Run : r # hand.run => run'[r] = run[r]
    BY <1>1 DEF CarryInv, EmbeddedTypeOK
  <2>3. run'[hand.run] = row
    BY <1>1 DEF CarryInv, EmbeddedTypeOK
  <2> QED BY <1>1, <2>1, <2>2, <2>3 DEF CarryInv, Known, Live
<1> QED BY <1>2, <1>3, <1>4 DEF CarryInv

(* A handler that is through with a job whose run is settled.              *)
LEMMA HandlerEnds ==
  ASSUME CarryInv, step \notin {"off", "sweeping", "loop"}, LetGo,
         NEW row \in RunRow, run' = [run EXCEPT ![hand.run] = row],
         row.status \in Terminal,
         UNCHANGED <<submitting, sweep, pending, forgotten>>
  PROVE  CarryInv'
<1>1. hand \in Job /\ hand.run \in Run
  BY HandKnown DEF CarryInv
<1>2. EmbeddedTypeOK'
  BY <1>1 DEF CarryInv, EmbeddedTypeOK, LetGo, Step
<1>3. StoodForOnce'
  BY QueueKept DEF CarryInv, StoodForOnce, InHand, LetGo
<1>4. Known'
  <2>1. \A r \in Run \ {hand.run} : Standing(r)' <=> Standing(r)
    BY QueueKept DEF Standing, InHand, LetGo
  <2>2. \A r \in Run : r # hand.run => run'[r] = run[r]
    BY <1>1 DEF CarryInv, EmbeddedTypeOK
  <2>3. run'[hand.run] = row
    BY <1>1 DEF CarryInv, EmbeddedTypeOK
  <2> QED BY <1>1, <2>1, <2>2, <2>3 DEF CarryInv, Known, Live, Terminal
<1>5. WorkerSees'
  BY DEF LetGo, WorkerSees
<1> QED BY <1>2, <1>3, <1>4, <1>5 DEF CarryInv

(* The process starts, ends, and its requests are served.                  *)
LEMMA ProcessCarries ==
  ASSUME CarryInv,
         Start \/ Stop \/ \E r \in Run : CreateRun(r) \/ SubmitRun(r) \/ RowAges(r)
  PROVE  CarryInv'
<1> USE EmbeddedAssumption DEF CarryInv
<1>1. CASE Start
  <2>1. \A r \in Run : ~Queued(r) /\ ~InHand(r) /\ r \notin submitting /\ r \notin sweep
    BY <1>1, EmptyQueue DEF Start, StoodForOnce, InHand
  <2>2. EmbeddedTypeOK'
    BY <1>1 DEF Start, EmbeddedTypeOK, Step
  <2>3. StoodForOnce'
    BY <1>1, <2>1, QueueKept DEF Start, StoodForOnce, InHand
  <2>4. Known'
    BY <1>1, <2>1, QueueKept DEF Start, Known, Standing, InHand, Live, IsStranded
  <2> QED BY <1>1, <2>2, <2>3, <2>4 DEF Start, WorkerSees
<1>2. CASE Stop
  <2>1. Distinct' /\ \A r \in Run : ~Queued(r)'
    BY <1>2 DEF Stop, Distinct, Queued
  <2>2. EmbeddedTypeOK'
    BY <1>2 DEF Stop, EmbeddedTypeOK, Step
  <2>3. StoodForOnce'
    BY <1>2, <2>1 DEF Stop, StoodForOnce, InHand
  <2>4. Known'
    BY <1>2, <2>1 DEF Stop, Known, Standing, InHand, Live
  <2> QED BY <1>2, <2>2, <2>3, <2>4 DEF Stop, WorkerSees
<1>3. ASSUME NEW r \in Run, CreateRun(r) PROVE CarryInv'
  <2>1. CreatedRow \in RunRow /\ CreatedRow.status = "queued"
    BY RowsWritten DEF EmbeddedTypeOK
  <2>2. /\ run'[r] = CreatedRow
        /\ \A q \in Run : q # r => run'[q] = run[q]
        /\ submitting' = submitting \cup {r}
        /\ UNCHANGED <<pending, hand, step, sweep, stops, faults, forgotten>>
    BY <1>3 DEF CreateRun, WriteRow, EmbeddedTypeOK
  <2>3. ~Standing(r) /\ r \notin forgotten /\ ~Live(r)
    BY <1>3 DEF CreateRun, Known, Live
  <2>4. EmbeddedTypeOK'
    BY <1>3, <2>1 DEF CreateRun, WriteRow, EmbeddedTypeOK
  <2>5. StoodForOnce'
    BY <1>3, <2>2, <2>3, QueueKept DEF CreateRun, StoodForOnce, Standing, InHand
  <2>6. Known'
    BY <2>1, <2>2, <2>3, QueueKept DEF Known, Standing, InHand, Live
  <2>7. WorkerSees'
    BY <2>1, <2>2, <2>3, HandKnown DEF WorkerSees, Standing, InHand, Live
  <2> QED BY <2>4, <2>5, <2>6, <2>7
<1>4. ASSUME NEW r \in Run, SubmitRun(r) PROVE CarryInv'
  <2>1. NewJob(r) \in Job /\ NewJob(r).run = r
    BY DEF NewJob, Job
  <2>2. ~Queued(r) /\ ~InHand(r) /\ r \notin sweep
    BY <1>4 DEF SubmitRun, StoodForOnce
  <2>3. /\ pending' \in Seq(Job) /\ Distinct'
        /\ \A q \in Run : Queued(q)' <=> Queued(q) \/ q = r
    BY <1>4, <2>1, <2>2, Pushed DEF SubmitRun, Enqueue, EmbeddedTypeOK, StoodForOnce
  <2>4. EmbeddedTypeOK'
    BY <1>4, <2>3 DEF SubmitRun, EmbeddedTypeOK
  <2>5. StoodForOnce'
    BY <1>4, <2>2, <2>3 DEF SubmitRun, StoodForOnce, InHand, EmbeddedTypeOK
  <2>6. Known'
    BY <1>4, <2>3 DEF SubmitRun, Known, Standing, InHand, Live
  <2> QED BY <1>4, <2>4, <2>5, <2>6 DEF SubmitRun, WorkerSees, Live
<1>5. ASSUME NEW r \in Run, RowAges(r) PROVE CarryInv'
  <2>1. [run[r] EXCEPT !.stale = TRUE] \in RunRow
        /\ [run[r] EXCEPT !.stale = TRUE].status = run[r].status
    BY RowsWritten DEF EmbeddedTypeOK
  <2>2. /\ run' \in [Run -> RunRow]
        /\ \A q \in Run : run'[q].status = run[q].status
    BY <1>5, <2>1 DEF RowAges, WriteRow, EmbeddedTypeOK
  <2>3. EmbeddedTypeOK'
    BY <1>5, <2>2 DEF RowAges, memoryVars, EmbeddedTypeOK
  <2>4. StoodForOnce'
    BY <1>5, QueueKept DEF RowAges, memoryVars, StoodForOnce, InHand
  <2>5. Known'
    BY <1>5, <2>2, QueueKept DEF RowAges, memoryVars, Known, Standing, InHand, Live
  <2>6. WorkerSees'
    BY <1>5, <2>2, HandKnown DEF RowAges, memoryVars, WorkerSees, Live
  <2> QED BY <2>3, <2>4, <2>5, <2>6
<1> QED BY <1>1, <1>2, <1>3, <1>4, <1>5

(* The worker thread outside a handler.                                    *)
LEMMA LoopCarries ==
  ASSUME CarryInv, SweepRow \/ Claim
  PROVE  CarryInv'
<1> USE EmbeddedAssumption DEF CarryInv
<1>1. CASE SweepRow
  <2>1. CASE sweep = {}
    <3>1. step = "sweeping" /\ step' = "loop" /\ UNCHANGED <<run, pending, sweep, submitting, hand, forgotten>>
      BY <1>1, <2>1 DEF SweepRow
    <3> QED BY <3>1, QueueKept
            DEF EmbeddedTypeOK, StoodForOnce, Known, WorkerSees, Standing, InHand, Live, Step
  <2>2. CASE sweep # {}
    <3>1. PICK r \in sweep :
            /\ pending' = Append(pending, NewJob(r)) /\ sweep' = sweep \ {r}
            /\ step = "sweeping" /\ UNCHANGED <<run, step, submitting, hand, forgotten>>
      BY <1>1, <2>2 DEF SweepRow, Enqueue
    <3>2. r \in Run /\ NewJob(r) \in Job /\ NewJob(r).run = r
      BY DEF NewJob, Job, EmbeddedTypeOK
    <3>3. ~Queued(r) /\ ~InHand(r) /\ r \notin submitting
      BY DEF StoodForOnce
    <3>4. /\ pending' \in Seq(Job) /\ Distinct'
          /\ \A q \in Run : Queued(q)' <=> Queued(q) \/ q = r
      BY <3>1, <3>2, <3>3, Pushed DEF EmbeddedTypeOK, StoodForOnce
    <3>5. EmbeddedTypeOK'
      BY <3>1, <3>4 DEF EmbeddedTypeOK
    <3>6. StoodForOnce'
      BY <3>1, <3>2, <3>3, <3>4 DEF StoodForOnce, InHand, EmbeddedTypeOK
    <3>7. Known'
      BY <3>1, <3>2, <3>4 DEF Known, Standing, InHand, Live
    <3> QED BY <3>1, <3>5, <3>6, <3>7 DEF WorkerSees
  <2> QED BY <2>1, <2>2
<1>2. CASE Claim
  <2>1. /\ step = "loop" /\ step' = "load" /\ pending # <<>> /\ hand = None
        /\ hand' = Head(pending) /\ pending' = Tail(pending)
        /\ UNCHANGED <<run, submitting, sweep, forgotten>>
    BY <1>2 DEF Claim, StoodForOnce
  <2>2. /\ pending' \in Seq(Job) /\ Distinct'
        /\ hand' \in Job /\ hand' # None /\ hand'.run \in Run /\ Queued(hand'.run)
        /\ \A q \in Run : Queued(q)' <=> Queued(q) /\ q # hand'.run
    BY <2>1, Popped DEF EmbeddedTypeOK, StoodForOnce, Job
  <2>3. EmbeddedTypeOK'
    BY <2>1, <2>2 DEF EmbeddedTypeOK, Step
  <2>4. StoodForOnce'
    BY <2>1, <2>2 DEF StoodForOnce, InHand, EmbeddedTypeOK
  <2>5. Known'
    BY <2>1, <2>2 DEF Known, Standing, InHand, Live
  <2> QED BY <2>1, <2>3, <2>4, <2>5 DEF WorkerSees
<1> QED BY <1>1, <1>2

(* The handler, from the row it loads to the verdict.                      *)
LEMMA HandlerCarries ==
  ASSUME CarryInv,
         \/ LoadRun \/ MarkRunning \/ EmitProgress \/ MarkCompleted \/ CompletedUnheard
         \/ WorkflowRaises \/ DatabaseRaises
  PROVE  CarryInv'
<1>0. step \notin {"off", "sweeping", "loop"}
  BY DEF LoadRun, MarkRunning, EmitProgress, MarkCompleted, CompletedUnheard, WorkflowRaises,
     DatabaseRaises
<1> DEFINE r == hand.run
<1>r. /\ hand \in Job /\ r \in Run /\ run[r] \in RunRow /\ run \in [Run -> RunRow]
      /\ run = [run EXCEPT ![r] = run[r]]
      /\ run[r].status \in RunStatus /\ run[r].status # "absent"
      /\ InHand(r) /\ Standing(r)
  BY <1>0, HandKnown DEF CarryInv, EmbeddedTypeOK, RunRow, Known, InHand, Standing
<1> USE DEF Step
<1>1. CASE LoadRun
  <2>1. CASE run[r].status \in Terminal
    BY <1>0, <1>1, <1>r, <2>1, HandlerEnds DEF LoadRun
  <2>2. CASE run[r].status \notin Terminal
    <3>1. /\ step' = "loaded"
          /\ UNCHANGED <<run, submitting, sweep, pending, hand, forgotten>>
      BY <1>1, <2>2 DEF LoadRun
    <3>2. Live(r) /\ WorkerSees'
      BY <1>r, <2>2, <3>1 DEF RunStatus, Live, WorkerSees
    <3> QED BY <1>0, <1>r, <3>1, <3>2, HandlerKeeps
  <2> QED BY <2>1, <2>2
<1>2. CASE MarkRunning
  <2> DEFINE row == RunningRow(run[r], run[r].status)
  <2>1. row \in RunRow /\ row.status = "running"
    BY <1>r, RowsWritten
  <2>2. /\ run' = [run EXCEPT ![r] = row] /\ step' = "working" /\ Live(r)
        /\ UNCHANGED <<submitting, sweep, pending, hand, forgotten>>
    BY <1>2 DEF MarkRunning, WriteRow, CarryInv, WorkerSees
  <2> HIDE DEF row
  <2>3. WorkerSees'
    BY <1>r, <2>1, <2>2 DEF WorkerSees
  <2> QED BY <1>0, <1>r, <2>1, <2>2, <2>3, HandlerKeeps
<1>3. CASE EmitProgress
  <2> DEFINE row == AppendEvent(run[r], "progress")
  <2>1. row \in RunRow /\ row.status = run[r].status /\ run[r].status = "running"
    BY <1>3, <1>r, EventAppended DEF RunEventType, EmitProgress, CarryInv, WorkerSees
  <2>2. /\ run' = [run EXCEPT ![r] = row] /\ step = "working" /\ step' = "working"
        /\ UNCHANGED <<submitting, sweep, pending, hand, forgotten>>
    BY <1>3 DEF EmitProgress, WriteRow, memoryVars
  <2> HIDE DEF row
  <2>3. WorkerSees' /\ Live(r)
    BY <1>r, <2>1, <2>2 DEF WorkerSees, Live
  <2> QED BY <1>0, <1>r, <2>1, <2>2, <2>3, HandlerKeeps
<1>4. CASE MarkCompleted
  <2>1. PICK citing \in BOOLEAN : run' = [run EXCEPT ![r] = CompletedRow(run[r], citing)]
    BY <1>4 DEF MarkCompleted, WriteRow
  <2>2. /\ CompletedRow(run[r], citing) \in RunRow
        /\ CompletedRow(run[r], citing).status \in Terminal
    BY <1>r, CompletedWritten DEF Terminal
  <2>3. LetGo /\ UNCHANGED <<submitting, sweep, pending, forgotten>>
    BY <1>4 DEF MarkCompleted
  <2> QED BY <1>0, <2>1, <2>2, <2>3, HandlerEnds
<1>5. CASE CompletedUnheard
  <2>1. PICK citing \in BOOLEAN : run' = [run EXCEPT ![r] = CompletedRow(run[r], citing)]
    BY <1>5 DEF CompletedUnheard, WriteRow
  <2>2. /\ CompletedRow(run[r], citing) \in RunRow
        /\ CompletedRow(run[r], citing).status = "completed"
    BY <1>r, CompletedWritten
  <2>3. step' = "failing" /\ UNCHANGED <<submitting, sweep, pending, hand, forgotten>>
    BY <1>5 DEF CompletedUnheard
  <2>4. WorkerSees'
    BY <2>3 DEF WorkerSees
  <2> QED BY <1>0, <2>1, <2>2, <2>3, <2>4, HandlerKeeps
<1>6. CASE WorkflowRaises \/ DatabaseRaises
  <2>1. /\ step' \in {"failing", "refused"}
        /\ UNCHANGED <<run, submitting, sweep, pending, hand, forgotten>>
    BY <1>6 DEF WorkflowRaises, DatabaseRaises
  <2>2. WorkerSees'
    BY <2>1 DEF WorkerSees
  <2>3. run[r].status \in {"queued", "running"} => Live(r)
    BY DEF Live
  <2> QED BY <1>0, <1>r, <2>1, <2>2, <2>3, HandlerKeeps
<1> QED BY <1>1, <1>2, <1>3, <1>4, <1>5, <1>6

(* The handler after a failed attempt: the job goes back to the queue, or  *)
(* the run is marked, or its failure cannot be written and it is forgotten. *)
LEMMA FailureCarries ==
  ASSUME CarryInv, Retry \/ MarkFailed \/ MarkSwallowed
  PROVE  CarryInv'
<1>0. step \in {"failing", "unmarked", "refused"}
  BY DEF Retry, MarkFailed, MarkSwallowed
<1> DEFINE r == hand.run
<1>r. /\ hand \in Job /\ r \in Run /\ run[r] \in RunRow /\ run \in [Run -> RunRow]
      /\ run = [run EXCEPT ![r] = run[r]]
      /\ run[r].status \in RunStatus /\ run[r].status # "absent"
      /\ InHand(r) /\ Standing(r)
  BY <1>0, HandKnown DEF CarryInv, EmbeddedTypeOK, RunRow, Known, InHand, Standing
<1>q. ~Queued(r) /\ r \notin submitting /\ r \notin sweep
  BY <1>r DEF CarryInv, StoodForOnce
<1>1. CASE Retry
  <2>1. CASE Tried.attempts >= MaxAttempts
    <3>1. /\ step' = "unmarked"
          /\ UNCHANGED <<run, submitting, sweep, pending, hand, forgotten>>
      BY <1>1, <2>1 DEF Retry, Requeued
    <3>2. WorkerSees'
      BY <3>1 DEF WorkerSees
    <3>3. run[r].status \in {"queued", "running"} => Live(r)
      BY DEF Live
    <3> QED BY <1>0, <1>r, <3>1, <3>2, <3>3, HandlerKeeps DEF Step
  <2>2. CASE ~(Tried.attempts >= MaxAttempts)
    <3>1. /\ pending' = Append(pending, Tried) /\ LetGo
          /\ UNCHANGED <<run, submitting, sweep, forgotten>>
      BY <1>1, <2>2 DEF Retry, Requeued
    <3>2. Tried \in Job /\ Tried.run = r
      BY <1>r DEF Tried, Job
    <3>3. /\ pending' \in Seq(Job) /\ Distinct'
          /\ \A q \in Run : Queued(q)' <=> Queued(q) \/ q = r
      BY <1>q, <3>1, <3>2, Pushed DEF CarryInv, EmbeddedTypeOK, StoodForOnce
    <3>4. EmbeddedTypeOK'
      BY <3>1, <3>3 DEF CarryInv, EmbeddedTypeOK, LetGo, Step
    <3>5. StoodForOnce'
      BY <1>q, <3>1, <3>3 DEF CarryInv, StoodForOnce, InHand, LetGo, EmbeddedTypeOK
    <3>6. Known'
      BY <1>r, <3>1, <3>3 DEF CarryInv, Known, Standing, InHand, LetGo, Live
    <3> QED BY <3>1, <3>4, <3>5, <3>6 DEF CarryInv, WorkerSees, LetGo
  <2> QED BY <2>1, <2>2
<1>2. CASE MarkFailed
  <2>1. LetGo /\ UNCHANGED <<submitting, sweep, pending, forgotten>>
    BY <1>2 DEF MarkFailed
  <2>2. CASE run[r].status \in Terminal
    <3>1. run' = [run EXCEPT ![r] = run[r]]
      BY <1>2, <1>r, <2>2 DEF MarkFailed, MarkFailedRow
    <3> QED BY <1>0, <1>r, <2>1, <2>2, <3>1, HandlerEnds
  <2>3. CASE run[r].status \notin Terminal
    <3>1. PICK c \in {"generic", "provider"} : run' = [run EXCEPT ![r] = FailedRow(run[r], c)]
      BY <1>2, <2>3 DEF MarkFailed, MarkFailedRow, WriteRow
    <3>2. FailedRow(run[r], c) \in RunRow /\ FailedRow(run[r], c).status \in Terminal
      BY <1>r, FailedWritten DEF Terminal
    <3> QED BY <1>0, <2>1, <3>1, <3>2, HandlerEnds
  <2> QED BY <2>2, <2>3
<1>3. CASE MarkSwallowed
  <2>1. /\ LetGo /\ forgotten' = forgotten \cup {r}
        /\ UNCHANGED <<run, submitting, sweep, pending>>
    BY <1>3 DEF MarkSwallowed
  <2>2. EmbeddedTypeOK'
    BY <1>r, <2>1 DEF CarryInv, EmbeddedTypeOK, LetGo, Step
  <2>3. StoodForOnce'
    BY <1>0, <2>1, QueueKept DEF CarryInv, StoodForOnce, InHand, LetGo
  <2>4. Known'
    BY <1>q, <1>r, <2>1, QueueKept DEF CarryInv, Known, Standing, InHand, LetGo, Live
  <2> QED BY <2>1, <2>2, <2>3, <2>4 DEF CarryInv, WorkerSees, LetGo
<1> QED BY <1>1, <1>2, <1>3

LEMMA CarryInit == EmbeddedInit => CarryInv
<1> SUFFICES ASSUME EmbeddedInit PROVE CarryInv
  OBVIOUS
<1>1. NoRow \in RunRow /\ NoRow.status = "absent"
  BY DEF NoRow, RunRow, RunStatus, ErrorCopy
<1>2. EmbeddedTypeOK
  BY <1>1 DEF EmbeddedInit, EmbeddedTypeOK, Step
<1>3. StoodForOnce
  BY EmptyQueue DEF EmbeddedInit, StoodForOnce
<1>4. Known
  BY <1>1, EmptyQueue DEF EmbeddedInit, Known, Standing, InHand, Live
<1> QED BY <1>2, <1>3, <1>4 DEF EmbeddedInit, CarryInv, WorkerSees

LEMMA CarryStep == CarryInv /\ [EmbeddedNext]_embeddedVars => CarryInv'
<1> SUFFICES ASSUME CarryInv, [EmbeddedNext]_embeddedVars PROVE CarryInv'
  OBVIOUS
<1>1. CASE UNCHANGED embeddedVars
  BY <1>1 DEF embeddedVars, memoryVars, CarryInv, EmbeddedTypeOK, StoodForOnce, Known,
     WorkerSees, Standing, Queued, InHand, Distinct, Live
<1>2. CASE EmbeddedNext
  BY <1>2, ProcessCarries, LoopCarries, HandlerCarries, FailureCarries
     DEF EmbeddedNext, WorkerStep
<1> QED BY <1>1, <1>2

(* main.py and worker.py in one process: the rows and the process are well *)
(* typed, and every accepted run without a verdict is either forgotten, or *)
(* stands in one place: a request that has yet to put its job, the startup *)
(* sweep, the queue or the hand of the worker thread.                      *)
THEOREM EmbeddedInvariant == EmbeddedSpec => []CarryInv
BY CarryInit, CarryStep, PTL DEF EmbeddedSpec

-----------------------------------------------------------------------------
(* From where a run stands to how often *)

(* A run is in the queue once or not at all.                               *)
LEMMA QueuedOnce ==
  ASSUME Distinct, NEW r
  PROVE  Cardinality({i \in 1 .. Len(pending) : pending[i].run = r})
           = IF Queued(r) THEN 1 ELSE 0
<1> DEFINE S == {i \in 1 .. Len(pending) : pending[i].run = r}
<1>1. CASE Queued(r)
  <2>1. PICK i \in 1 .. Len(pending) : pending[i].run = r
    BY <1>1 DEF Queued
  <2>2. S = {i}
    BY <2>1 DEF Distinct
  <2> QED BY <1>1, <2>2, FS_Singleton
<1>2. CASE ~Queued(r)
  <2>1. S = {}
    BY <1>2 DEF Queued
  <2> QED BY <1>2, <2>1, FS_EmptySet
<1> QED BY <1>1, <1>2

(* A run is with its request, with the sweep, or with neither.             *)
LEMMA InOneSet ==
  ASSUME NEW r, ~(r \in submitting /\ r \in sweep)
  PROVE  Cardinality({s \in {submitting, sweep} : r \in s})
           = IF r \in submitting \/ r \in sweep THEN 1 ELSE 0
<1> DEFINE S == {s \in {submitting, sweep} : r \in s}
<1>1. CASE r \in submitting
  <2>1. S = {submitting}
    BY <1>1
  <2> QED BY <1>1, <2>1, FS_Singleton
<1>2. CASE r \in sweep
  <2>1. S = {sweep}
    BY <1>2
  <2> QED BY <1>2, <2>1, FS_Singleton
<1>3. CASE r \notin submitting /\ r \notin sweep
  <2>1. S = {}
    BY <1>3
  <2> QED BY <1>3, <2>1, FS_EmptySet
<1> QED BY <1>1, <1>2, <1>3

(* queue.py and main.py: while the process lives, each live run is stood   *)
(* for exactly once - by its request, the sweep, the queue or the worker - *)
(* or was forgotten when the process before it ended or when its failure   *)
(* could not be written.                                                   *)
THEOREM RunsCarriedOrForgotten == EmbeddedSpec => []CarriedOrForgotten
<1>1. CarryInv => CarriedOrForgotten
  <2> SUFFICES ASSUME CarryInv, NEW r \in Run, Live(r)
               PROVE  Carriers(r) = IF r \in forgotten THEN 0 ELSE 1
    BY DEF CarriedOrForgotten
  <2> DEFINE q == Cardinality({i \in 1 .. Len(pending) : pending[i].run = r})
             s == Cardinality({t \in {submitting, sweep} : r \in t})
             h == IF hand # None /\ hand.run = r THEN 1 ELSE 0
  <2>1. q = IF Queued(r) THEN 1 ELSE 0
    BY QueuedOnce DEF CarryInv, StoodForOnce
  <2>2. s = IF r \in submitting \/ r \in sweep THEN 1 ELSE 0
    BY InOneSet DEF CarryInv, StoodForOnce
  <2>3. h = IF InHand(r) THEN 1 ELSE 0
    BY DEF InHand
  <2>4. Carriers(r) = q + s + h
    BY DEF Carriers
  <2>5. /\ ~(Queued(r) /\ InHand(r))
        /\ ~(Queued(r) /\ (r \in submitting \/ r \in sweep))
        /\ ~(InHand(r) /\ (r \in submitting \/ r \in sweep))
    BY DEF CarryInv, StoodForOnce
  <2>6. (r \in submitting \/ r \in sweep \/ Queued(r) \/ InHand(r)) <=> r \notin forgotten
    BY DEF CarryInv, Known, Standing
  <2> HIDE DEF q, s, h
  <2> QED BY <2>1, <2>2, <2>3, <2>4, <2>5, <2>6
<1> QED BY <1>1, EmbeddedInvariant, PTL

-----------------------------------------------------------------------------
(* The contract of runs *)

(* A run not yet accepted has no events.                                   *)
Unwritten == \A r \in Run : run[r].status = "absent" => run[r].events = <<>>

(* What one step may make of the row of a run.                             *)
Written(r, row) ==
  \/ /\ run[r].status = "absent" /\ row.status = "queued"
     /\ row.events = Append(<<>>, "run_started")
  \/ Live(r) /\ row.status = run[r].status /\ row.events = run[r].events
  \/ Live(r) /\ row.status = "running" /\ row.events = run[r].events
  \/ /\ run[r].status = "running" /\ row.status = "running" /\ Len(run[r].events) < MaxEvents
     /\ row.events = Append(run[r].events, "progress")
  \/ /\ run[r].status = "running" /\ row.status = "completed"
     /\ row.events = Append(run[r].events, "completed")
  \/ /\ Live(r) /\ row.status = "failed"
     /\ row.events = Append(run[r].events, "failed")

(* One writer: a verdict is written over the status the worker saw.        *)
LEMMA OneRowWritten ==
  ASSUME CarryInv, EmbeddedNext
  PROVE  \/ UNCHANGED run
         \/ \E r \in Run, row \in RunRow : run' = [run EXCEPT ![r] = row] /\ Written(r, row)
<1> DEFINE Goal == \/ UNCHANGED run
                   \/ \E r \in Run, row \in RunRow :
                        run' = [run EXCEPT ![r] = row] /\ Written(r, row)
           h == hand.run
<1>0. run \in [Run -> RunRow]
  BY DEF CarryInv, EmbeddedTypeOK
<1>h. ASSUME step \notin {"off", "sweeping", "loop"}
      PROVE  h \in Run /\ run[h] \in RunRow /\ run[h].status \in RunStatus
             /\ run[h].status # "absent"
  BY <1>h, HandKnown DEF CarryInv, RunRow, Known, Standing, InHand
<1>w. ASSUME NEW r \in Run, NEW row \in RunRow, run' = [run EXCEPT ![r] = row], Written(r, row)
      PROVE  Goal
  BY <1>w
<1>u. ASSUME UNCHANGED run PROVE Goal
  BY <1>u
<1> SUFFICES Goal
  OBVIOUS
<1> HIDE DEF Goal
<1>1. ASSUME NEW r \in Run, CreateRun(r) PROVE Goal
  <2>1. /\ run[r].status = "absent" /\ run' = [run EXCEPT ![r] = CreatedRow]
        /\ run[r] \in RunRow
    BY <1>0, <1>1 DEF CreateRun, WriteRow
  <2>2. CreatedRow \in RunRow /\ Written(r, CreatedRow)
    BY <2>1, RowsWritten DEF Written
  <2> QED BY <1>w, <2>1, <2>2
<1>2. ASSUME NEW r \in Run, RowAges(r) PROVE Goal
  <2> DEFINE row == [run[r] EXCEPT !.stale = TRUE]
  <2>1. Live(r) /\ run' = [run EXCEPT ![r] = row]
    BY <1>2 DEF RowAges, WriteRow
  <2>2. row \in RunRow /\ row.status = run[r].status /\ row.events = run[r].events
    BY <1>0, RowsWritten
  <2> HIDE DEF row
  <2>3. Written(r, row)
    BY <2>1, <2>2 DEF Written
  <2> QED BY <1>w, <2>1, <2>2, <2>3
<1>3. CASE MarkRunning
  <2> DEFINE row == RunningRow(run[h], run[h].status)
  <2>1. h \in Run /\ run[h] \in RunRow /\ Live(h) /\ run' = [run EXCEPT ![h] = row]
    BY <1>3, <1>h DEF MarkRunning, WriteRow, CarryInv, WorkerSees
  <2>2. row \in RunRow /\ row.status = "running" /\ row.events = run[h].events
    BY <2>1, RowsWritten
  <2> HIDE DEF row
  <2>3. Written(h, row)
    BY <2>1, <2>2 DEF Written
  <2> QED BY <1>w, <2>1, <2>2, <2>3
<1>4. CASE EmitProgress
  <2> DEFINE row == AppendEvent(run[h], "progress")
  <2>1. /\ h \in Run /\ run[h] \in RunRow /\ run[h].status = "running"
        /\ Len(run[h].events) < MaxEvents
        /\ run' = [run EXCEPT ![h] = row]
    BY <1>4, <1>h DEF EmitProgress, WriteRow, CarryInv, WorkerSees
  <2>2. /\ row \in RunRow /\ row.status = "running"
        /\ row.events = Append(run[h].events, "progress")
    BY <2>1, EventAppended DEF RunEventType
  <2> HIDE DEF row
  <2>3. Written(h, row)
    BY <2>1, <2>2 DEF Written
  <2> QED BY <1>w, <2>1, <2>2, <2>3
<1>5. CASE MarkCompleted \/ CompletedUnheard
  <2>1. PICK citing \in BOOLEAN : run' = [run EXCEPT ![h] = CompletedRow(run[h], citing)]
    BY <1>5 DEF MarkCompleted, CompletedUnheard, WriteRow
  <2> DEFINE row == CompletedRow(run[h], citing)
  <2>2. h \in Run /\ run[h] \in RunRow /\ run[h].status = "running"
    BY <1>5, <1>h DEF MarkCompleted, CompletedUnheard, CarryInv, WorkerSees
  <2>3. /\ row \in RunRow /\ row.status = "completed"
        /\ row.events = Append(run[h].events, "completed")
    BY <2>2, CompletedWritten
  <2>4. run' = [run EXCEPT ![h] = row]
    BY <2>1
  <2> HIDE DEF row
  <2>5. Written(h, row)
    BY <2>2, <2>3 DEF Written
  <2> QED BY <1>w, <2>2, <2>3, <2>4, <2>5
<1>6. CASE MarkFailed
  <2>1. CASE run[h].status \in Terminal
    BY <1>u, <1>6, <2>1 DEF MarkFailed, MarkFailedRow
  <2>2. CASE run[h].status \notin Terminal
    <3>1. PICK c \in {"generic", "provider"} : run' = [run EXCEPT ![h] = FailedRow(run[h], c)]
      BY <1>6, <2>2 DEF MarkFailed, MarkFailedRow, WriteRow
    <3> DEFINE row == FailedRow(run[h], c)
    <3>2. h \in Run /\ run[h] \in RunRow /\ Live(h)
      BY <1>6, <1>h, <2>2 DEF MarkFailed, RunStatus, Live
    <3>3. /\ row \in RunRow /\ row.status = "failed"
          /\ row.events = Append(run[h].events, "failed")
      BY <3>2, FailedWritten
    <3>4. run' = [run EXCEPT ![h] = row]
      BY <3>1
    <3> HIDE DEF row
    <3>5. Written(h, row)
      BY <3>2, <3>3 DEF Written
    <3> QED BY <1>w, <3>2, <3>3, <3>4, <3>5
  <2> QED BY <2>1, <2>2
<1>7. ASSUME \/ Start \/ Stop \/ \E r \in Run : SubmitRun(r)
             \/ SweepRow \/ Claim \/ LoadRun \/ WorkflowRaises \/ DatabaseRaises
             \/ Retry \/ MarkSwallowed
      PROVE  Goal
  BY <1>u, <1>7 DEF Start, Stop, SubmitRun, SweepRow, Claim, LoadRun, WorkflowRaises,
     DatabaseRaises, Retry, MarkSwallowed
<1> QED BY <1>1, <1>2, <1>3, <1>4, <1>5, <1>6, <1>7 DEF EmbeddedNext, WorkerStep

LEMMA UnwrittenStep == CarryInv /\ Unwritten /\ [EmbeddedNext]_embeddedVars => Unwritten'
<1> SUFFICES ASSUME CarryInv, Unwritten, [EmbeddedNext]_embeddedVars PROVE Unwritten'
  OBVIOUS
<1>1. run \in [Run -> RunRow]
  BY DEF CarryInv, EmbeddedTypeOK
<1>2. ASSUME UNCHANGED run PROVE Unwritten'
  BY <1>2 DEF Unwritten
<1>3. ASSUME NEW r \in Run, NEW row \in RunRow, run' = [run EXCEPT ![r] = row], Written(r, row)
      PROVE  Unwritten'
  BY <1>1, <1>3 DEF Unwritten, Written, Live
<1> QED BY <1>2, <1>3, OneRowWritten DEF embeddedVars

(* Every write to a row is a step the contract allows, or shows nothing.   *)
LEMMA WritesAsContracted ==
  ASSUME CarryInv, Unwritten, [EmbeddedNext]_embeddedVars
  PROVE  [Contract!ContractNext]_Contract!contractVars
<1> DEFINE st == [q \in Run |-> run[q].status]
           lg == [q \in Run |-> run[q].events]
           stn == [q \in Run |-> run'[q].status]
           lgn == [q \in Run |-> run'[q].events]
<1>0. run \in [Run -> RunRow]
  BY DEF CarryInv, EmbeddedTypeOK
<1>1. ASSUME UNCHANGED run PROVE stn = st /\ lgn = lg
  BY <1>1
<1>2. ASSUME NEW r \in Run, NEW row \in RunRow, run' = [run EXCEPT ![r] = row], Written(r, row)
      PROVE  Contract!ContractNext \/ (stn = st /\ lgn = lg)
  <2>1. /\ stn = [st EXCEPT ![r] = row.status]
        /\ lgn = [lg EXCEPT ![r] = row.events]
        /\ st[r] = run[r].status /\ lg[r] = run[r].events
    BY <1>0, <1>2
  <2>2. CASE run[r].status = "absent" /\ row.status = "queued"
             /\ row.events = Append(<<>>, "run_started")
    <3>1. run[r].events = <<>>
      BY <2>2 DEF Unwritten
    <3>2. /\ st[r] = "absent" /\ stn = [st EXCEPT ![r] = "queued"]
          /\ lgn = [lg EXCEPT ![r] = Append(@, "run_started")]
      BY <2>1, <2>2, <3>1
    <3>3. Contract!Accept(r)
      BY <3>2 DEF Contract!Accept, Contract!Record
    <3> QED BY <3>3 DEF Contract!ContractNext
  <2>3. CASE row.status = run[r].status /\ row.events = run[r].events
    BY <2>1, <2>3
  <2>4. CASE Live(r) /\ row.status = "running" /\ row.events = run[r].events
    <3>1. /\ st[r] \in {"queued", "running"} /\ stn = [st EXCEPT ![r] = "running"]
          /\ lgn = lg
      BY <2>1, <2>4 DEF Live
    <3>2. Contract!Begin(r)
      BY <3>1 DEF Contract!Begin, Contract!Live
    <3> QED BY <3>2 DEF Contract!ContractNext
  <2>5. CASE /\ run[r].status = "running" /\ row.status = "running"
             /\ Len(run[r].events) < MaxEvents
             /\ row.events = Append(run[r].events, "progress")
    <3>1. /\ st[r] = "running" /\ stn = [st EXCEPT ![r] = "running"]
          /\ Len(lg[r]) < MaxEvents /\ lgn = [lg EXCEPT ![r] = Append(@, "progress")]
      BY <2>1, <2>5
    <3>2. Contract!Progress(r)
      BY <3>1 DEF Contract!Progress, Contract!Record
    <3> QED BY <3>2 DEF Contract!ContractNext
  <2>6. CASE \E v \in {"completed", "failed"} :
                /\ Live(r) /\ (v = "completed" => run[r].status = "running")
                /\ row.status = v /\ row.events = Append(run[r].events, v)
    <3>1. PICK v \in {"completed", "failed"} :
            /\ st[r] \in {"queued", "running"} /\ (v = "completed" => st[r] = "running")
            /\ stn = [st EXCEPT ![r] = v] /\ lgn = [lg EXCEPT ![r] = Append(@, v)]
      BY <2>1, <2>6 DEF Live
    <3>2. Contract!Conclude(r, v)
      BY <3>1 DEF Contract!Conclude, Contract!Record, Contract!Live
    <3> QED BY <3>2 DEF Contract!ContractNext, Contract!Verdict
  <2>7. Live(r) <=> run[r].status \in {"queued", "running"}
    BY DEF Live
  <2> QED BY <1>2, <2>2, <2>3, <2>4, <2>5, <2>6, <2>7 DEF Written
<1>3. Contract!ContractNext \/ (stn = st /\ lgn = lg)
  BY <1>1, <1>2, OneRowWritten DEF embeddedVars
<1> QED BY <1>3 DEF Contract!contractVars

(* worker.py ("Claims jobs and runs them to a terminal state"): in one     *)
(* process, wherever it ends and whatever the database answers, a run is   *)
(* accepted once, gets at most one verdict, and its log ends with it.      *)
THEOREM EmbeddedImplementsContract == EmbeddedSpec => ImplementsContract
<1>1. EmbeddedInit => Unwritten /\ Contract!ContractInit
  BY DEF EmbeddedInit, Unwritten, NoRow, Contract!ContractInit
<1>2. CarryInv /\ Unwritten /\ [EmbeddedNext]_embeddedVars
        => Unwritten' /\ [Contract!ContractNext]_Contract!contractVars
  BY UnwrittenStep, WritesAsContracted
<1> QED BY <1>1, <1>2, EmbeddedInvariant, PTL
        DEF EmbeddedSpec, ImplementsContract, Contract!ContractSpec
=============================================================================
