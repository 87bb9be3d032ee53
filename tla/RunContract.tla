---------------------------- MODULE RunContract ----------------------------
(***************************************************************************)
(* What the backend promises about analyst runs, without workers, queues   *)
(* or crashes: the status of a run and its event log, each step changing   *)
(* both at once.  A run is accepted as queued, may be executed any number  *)
(* of times, and receives at most one verdict, which is the last event of  *)
(* its log (worker.py: "Claims jobs and runs them to a terminal state";    *)
(* models.py: RUN_TERMINAL_STATUSES).                                      *)
(***************************************************************************)
EXTENDS Naturals, Sequences

CONSTANTS Run, MaxEvents

VARIABLES status, log

contractVars == <<status, log>>

Verdict == {"completed", "failed"}
Live == {"queued", "running"}
EventType == Verdict \cup {"run_started", "progress"}

ContractTypeOK ==
  /\ status \in [Run -> Verdict \cup Live \cup {"absent"}]
  /\ log \in [Run -> Seq(EventType)]

ContractInit ==
  /\ status = [r \in Run |-> "absent"]
  /\ log = [r \in Run |-> <<>>]

Record(r, s, event) ==
  /\ status' = [status EXCEPT ![r] = s]
  /\ log' = [log EXCEPT ![r] = Append(@, event)]

(* POST /runs: the row and its first event are one commit. *)
Accept(r) == status[r] = "absent" /\ Record(r, "queued", "run_started")

(* mark_running *)
Begin(r) ==
  /\ status[r] \in Live
  /\ status' = [status EXCEPT ![r] = "running"]
  /\ UNCHANGED log

(* emit *)
Progress(r) ==
  /\ status[r] = "running"
  /\ Len(log[r]) < MaxEvents
  /\ Record(r, "running", "progress")

(* Mutant: a verdict may be recorded over another one. *)
ConcludeAgain(r, v) == status[r] # "absent" /\ Len(log[r]) <= MaxEvents /\ Record(r, v, v)

(* mark_completed or mark_failed; only a run that started completes. *)
Conclude(r, v) ==
  /\ status[r] \in Live
  /\ v = "completed" => status[r] = "running"
  /\ Record(r, v, v)

ContractNext ==
  \E r \in Run :
    Accept(r) \/ Begin(r) \/ Progress(r) \/ \E v \in Verdict : Conclude(r, v)

ContractSpec == ContractInit /\ [][ContractNext]_contractVars

-----------------------------------------------------------------------------
(* The log tells the story of the row: the verdict is the status, it is    *)
(* recorded once and nothing follows it, so a reader of the event stream   *)
(* (GET /runs/{id}/events) and a reader of the row (GET /runs/{id}) agree. *)
LogMatchesStatus ==
  \A r \in Run :
    /\ status[r] = "absent" <=> log[r] = <<>>
    /\ \A i \in 1 .. Len(log[r]) :
         log[r][i] \in Verdict <=> i = Len(log[r]) /\ status[r] \in Verdict
    /\ status[r] \in Verdict => log[r][Len(log[r])] = status[r]
=============================================================================
