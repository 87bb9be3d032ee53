------------------------------ MODULE RunStore ------------------------------
(***************************************************************************)
(* The runs table and the functions of services/run_store.py that write    *)
(* it.  Every function ends in one commit, so it is one function from the  *)
(* old row to the new one.  A row keeps what other components look at:     *)
(*   status  - runs.status, "absent" before the INSERT                     *)
(*   stale   - updated_at < now - visibility timeout, what stale_runs asks *)
(*   error   - which copy runs.error holds                                 *)
(*   cited   - citation rows exist (unique per run and position)           *)
(*   events  - the run_events rows in sequence order, by event_type; the   *)
(*             unique (run_id, sequence) constraint makes the log a        *)
(*             sequence                                                    *)
(* The answer text, timestamps and attempt_count are not modelled.         *)
(*                                                                         *)
(* Sessions use expire_on_commit=False: a worker goes on seeing the status *)
(* it loaded.  An UPDATE names only the columns whose value differs from   *)
(* the loaded one, so what is written depends on what was seen.            *)
(***************************************************************************)
EXTENDS Naturals, Sequences

Terminal == {"completed", "failed", "cancelled"}
RunStatus == {"absent", "queued", "running"} \cup Terminal
ErrorCopy == {"none", "generic", "provider"}
RunEventType == {"run_started", "progress", "completed", "failed"}

RunRow == [status : RunStatus, stale : BOOLEAN, error : ErrorCopy, cited : BOOLEAN,
           events : Seq(RunEventType)]

NoRow == [status |-> "absent", stale |-> FALSE, error |-> "none", cited |-> FALSE,
          events |-> <<>>]

(* append_event: the next number is max(sequence) + 1.  Any UPDATE of the  *)
(* row in the same commit moves updated_at; the INSERT alone does not.     *)
AppendEvent(row, type) == [row EXCEPT !.events = Append(@, type)]

Touched(row) == [row EXCEPT !.stale = FALSE]

(* create_run *)
CreatedRow == AppendEvent([NoRow EXCEPT !.status = "queued"], "run_started")

(* mark_running: started_at and attempt_count always change, the status    *)
(* column only if the status seen was another one.                         *)
RunningRow(row, seen) ==
  [Touched(row) EXCEPT !.status = IF seen = "running" THEN @ ELSE "running"]

(* mark_completed: row, citations and event in one commit.  The row it     *)
(* writes to was seen as running.                                          *)
CompletedRow(row, citing) ==
  AppendEvent([Touched(row) EXCEPT !.status = "completed", !.cited = @ \/ citing],
              "completed")

(* mark_completed raises IntegrityError when citation rows already exist.  *)
CitationConflict(row, citing) == row.cited /\ citing

(* mark_failed *)
FailedRow(row, copy) ==
  AppendEvent([Touched(row) EXCEPT !.status = "failed", !.error = copy], "failed")

(* Mutant: a run that was already started is left alone. *)
IsStrandedQueued(row) == row.status = "queued" /\ row.stale

(* stale_runs: what recover_stranded_rows re-enqueues. *)
IsStranded(row) == row.status \in {"queued", "running"} /\ row.stale
=============================================================================
