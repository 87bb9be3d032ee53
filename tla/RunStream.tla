----------------------------- MODULE RunStream -----------------------------
(***************************************************************************)
(* Readers following runs over Server-Sent Events: the polling generator   *)
(* _event_stream of api/routes/runs.py, the reconnecting client            *)
(* streamRunEvents of frontend/src/lib/api.ts, and the handlers of         *)
(* analyst-workspace.tsx that turn frames, closes and errors into what the *)
(* reader is shown.  The backend that writes rows and events is            *)
(* RunContract; each tick of the generator reads the events and then, in a *)
(* second query, the status, and the backend may commit in between.        *)
(*                                                                         *)
(* A frame is its sequence number.  Frames in transit arrive in order or,  *)
(* when the connection breaks, not at all.  The 401 refresh of the opening *)
(* request is a failure to open here; a 4xx is fatal, other failures cost  *)
(* one of the reconnects.                                                  *)
(***************************************************************************)
EXTENDS RunContract

CONSTANTS
  Reader,
  MaxReconnects,    \* MAX_STREAM_RECONNECTS
  StreamMayExpire   \* runs may outlast _STREAM_MAX_SECONDS

ASSUME StreamAssumption == MaxReconnects \in Nat /\ StreamMayExpire \in BOOLEAN

VARIABLES
  follows,  \* the run each reader follows
  conn,     \* where the generator serving the reader is
  sent,     \* its cursor
  fresh,    \* whether it found events in this tick
  wire,     \* frames in transit to the reader
  cursor,   \* the last id the client has seen
  shown,    \* history: frames handed to onEvent
  attempt,  \* failed connections so far
  ui,       \* RunState.kind, with failures told apart by their message
  loading   \* GET /runs/{id} is on its way

serverVars == <<conn, sent, fresh>>
clientVars == <<wire, cursor, shown, attempt, ui, loading>>
readerVars == <<follows, serverVars, clientVars>>
streamVars == <<contractVars, readerVars>>

Conn ==
  { "none",    \* no connection
    "poll",    \* top of the loop
    "read",    \* events yielded, status not yet read
    "closed" } \* generator returned, frames may still be in transit

Ui ==
  { "idle", "running", "resolving", "cancelled", "complete",
    "failed",   \* RUN_FAILED_MESSAGE
    "ended",    \* "The run ended before it produced an answer."
    "error" }   \* a transport error's message

StreamTypeOK ==
  /\ follows \in [Reader -> Run]
  /\ conn \in [Reader -> Conn]
  /\ sent \in [Reader -> Nat]
  /\ fresh \in [Reader -> BOOLEAN]
  /\ wire \in [Reader -> Seq(Nat)]
  /\ cursor \in [Reader -> Nat]
  /\ shown \in [Reader -> Seq(Nat)]
  /\ attempt \in [Reader -> 0 .. MaxReconnects + 1]
  /\ ui \in [Reader -> Ui]
  /\ loading \in [Reader -> BOOLEAN]

StreamInit ==
  /\ ContractInit
  /\ follows \in [Reader -> Run]
  /\ conn = [c \in Reader |-> "none"]
  /\ sent = [c \in Reader |-> 0]
  /\ fresh = [c \in Reader |-> FALSE]
  /\ wire = [c \in Reader |-> <<>>]
  /\ cursor = [c \in Reader |-> 0]
  /\ shown = [c \in Reader |-> <<>>]
  /\ attempt = [c \in Reader |-> 0]
  /\ ui = [c \in Reader |-> "idle"]
  /\ loading = [c \in Reader |-> FALSE]

Events(c) == log[follows[c]]
Status(c) == status[follows[c]]
SetUi(c, k) == ui' = [ui EXCEPT ![c] = k]
SetConn(c, s) == conn' = [conn EXCEPT ![c] = s]

(* The client lets go of the connection; what is in transit is lost. *)
HangUp(c) == SetConn(c, "none") /\ wire' = [wire EXCEPT ![c] = <<>>]

Numbers(m, n) == [i \in 1 .. n - m |-> m + i]

-----------------------------------------------------------------------------
(* _event_stream *)

(* events_since the cursor; every event is yielded. *)
PollEvents(c) ==
  LET n == Len(Events(c)) IN
  /\ conn[c] = "poll"
  /\ wire' = [wire EXCEPT ![c] = @ \o Numbers(sent[c], n)]
  /\ sent' = [sent EXCEPT ![c] = n]
  /\ fresh' = [fresh EXCEPT ![c] = n > sent[c]]
  /\ SetConn(c, "read")
  /\ UNCHANGED <<contractVars, follows, cursor, shown, attempt, ui, loading>>

(* get_run: the stream ends when the run is over and the tick was empty. *)
PollStatus(c) ==
  /\ conn[c] = "read"
  /\ SetConn(c, IF Status(c) \in Verdict /\ ~fresh[c] THEN "closed" ELSE "poll")
  /\ UNCHANGED <<contractVars, follows, sent, fresh, clientVars>>

(* elapsed >= _STREAM_MAX_SECONDS *)
StreamExpires(c) ==
  /\ conn[c] = "poll"
  /\ StreamMayExpire
  /\ SetConn(c, "closed")
  /\ UNCHANGED <<contractVars, follows, sent, fresh, clientVars>>

-----------------------------------------------------------------------------
(* follow and streamRunEvents *)

Follow(c) ==
  /\ ui[c] = "idle"
  /\ Status(c) # "absent"
  /\ SetUi(c, "running")
  /\ UNCHANGED <<contractVars, follows, serverVars, wire, cursor, shown, attempt, loading>>

(* Mutant: a reconnect does not send Last-Event-ID. *)
OpenFromStart(c) ==
  /\ ui[c] = "running" /\ conn[c] = "none"
  /\ sent' = [sent EXCEPT ![c] = 0]
  /\ SetConn(c, "poll")
  /\ UNCHANGED <<contractVars, follows, fresh, clientVars>>

(* open: the server resumes after Last-Event-ID. *)
Open(c) ==
  /\ ui[c] = "running" /\ conn[c] = "none"
  /\ sent' = [sent EXCEPT ![c] = cursor[c]]
  /\ SetConn(c, "poll")
  /\ UNCHANGED <<contractVars, follows, fresh, clientVars>>

(* The connection could not be opened or broke: wait and reconnect, or     *)
(* give up with onError.                                                   *)
ConnectionFails(c) ==
  /\ ui[c] = "running"
  /\ attempt' = [attempt EXCEPT ![c] = @ + 1]
  /\ HangUp(c)
  /\ SetUi(c, IF attempt[c] + 1 > MaxReconnects THEN "error" ELSE "running")
  /\ UNCHANGED <<contractVars, follows, sent, fresh, cursor, shown, loading>>

(* The opening request answered 4xx: not retried. *)
OpenRefused(c) ==
  /\ ui[c] = "running" /\ conn[c] = "none"
  /\ attempt' = [attempt EXCEPT ![c] = @ + 1]
  /\ SetUi(c, "error")
  /\ UNCHANGED <<contractVars, follows, serverVars, wire, cursor, shown, loading>>

(* One frame: the cursor moves, and onEvent shows progress or settles. *)
Receive(c) ==
  /\ ui[c] = "running"
  /\ wire[c] # <<>>
  /\ LET n == Head(wire[c])
         type == Events(c)[n]
     IN  /\ cursor' = [cursor EXCEPT ![c] = n]
         /\ shown' = [shown EXCEPT ![c] = Append(@, n)]
         /\ IF type \in Verdict
            THEN /\ HangUp(c)
                 /\ SetUi(c, IF type = "completed" THEN "resolving" ELSE "failed")
                 /\ loading' = [loading EXCEPT ![c] = type = "completed"]
            ELSE /\ wire' = [wire EXCEPT ![c] = Tail(@)]
                 /\ UNCHANGED <<conn, ui, loading>>
  /\ UNCHANGED <<contractVars, follows, sent, fresh, attempt>>

(* The server closed the stream: onClose asks for the final state. *)
StreamCloses(c) ==
  /\ ui[c] = "running"
  /\ conn[c] = "closed" /\ wire[c] = <<>>
  /\ HangUp(c)
  /\ SetUi(c, "resolving")
  /\ loading' = [loading EXCEPT ![c] = TRUE]
  /\ UNCHANGED <<contractVars, follows, sent, fresh, cursor, shown, attempt>>

(* Mutant: whatever the run's status is, the stream's end means success. *)
ResolveOptimistic(c) ==
  /\ loading[c]
  /\ loading' = [loading EXCEPT ![c] = FALSE]
  /\ SetUi(c, "complete")
  /\ UNCHANGED <<contractVars, follows, serverVars, wire, cursor, shown, attempt>>

(* Mutant: only a completed run is resolved. *)
ResolveCompleted(c) ==
  /\ loading[c]
  /\ loading' = [loading EXCEPT ![c] = FALSE]
  /\ SetUi(c, IF Status(c) = "completed" THEN "complete" ELSE ui[c])
  /\ UNCHANGED <<contractVars, follows, serverVars, wire, cursor, shown, attempt>>

(* resolveResult: the row decides what is shown. *)
ResolveResult(c) ==
  /\ loading[c]
  /\ loading' = [loading EXCEPT ![c] = FALSE]
  /\ SetUi(c, CASE Status(c) = "completed" -> "complete"
                [] Status(c) = "failed" -> "failed"
                [] OTHER -> "ended")
  /\ UNCHANGED <<contractVars, follows, serverVars, wire, cursor, shown, attempt>>

(* resolveResult: getRun raised. *)
ResolveFails(c) ==
  /\ loading[c]
  /\ loading' = [loading EXCEPT ![c] = FALSE]
  /\ SetUi(c, "error")
  /\ UNCHANGED <<contractVars, follows, serverVars, wire, cursor, shown, attempt>>

(* cancel: the stream is stopped, a getRun on its way is not. *)
Cancel(c) ==
  /\ ui[c] \in {"running", "resolving"}
  /\ HangUp(c)
  /\ SetUi(c, "cancelled")
  /\ UNCHANGED <<contractVars, follows, sent, fresh, cursor, shown, attempt, loading>>

-----------------------------------------------------------------------------
Backend == ContractNext /\ UNCHANGED readerVars

ServerStep(c) == PollEvents(c) \/ PollStatus(c)
ClientStep(c) == Open(c) \/ Receive(c) \/ StreamCloses(c) \/ ResolveResult(c)

StreamNext ==
  \/ Backend
  \/ \E c \in Reader :
       \/ ServerStep(c) \/ StreamExpires(c) \/ ClientStep(c)
       \/ Follow(c) \/ ConnectionFails(c) \/ OpenRefused(c) \/ ResolveFails(c) \/ Cancel(c)

StreamSpec == StreamInit /\ [][StreamNext]_streamVars

(* The generator is driven by the event loop and the client by its reader; *)
(* nothing forces the backend to conclude a run.                           *)
StreamFairness ==
  \A c \in Reader : WF_streamVars(ServerStep(c)) /\ WF_streamVars(ClientStep(c))

FairStreamSpec == StreamSpec /\ StreamFairness

-----------------------------------------------------------------------------
(* Properties *)

(* worker.py emit ("a reader who reconnects misses nothing") and api.ts    *)
(* ("the server resumes exactly where this client stopped, rather than     *)
(* replaying progress the reader has already seen"): over all connections  *)
(* the reader is handed the events 1, 2, 3, ... each once and in order.    *)
NothingMissedNothingTwice ==
  \A c \in Reader : \A i \in 1 .. Len(shown[c]) : shown[c][i] = i

(* analyst-workspace.tsx: an answer is shown only for a completed run and  *)
(* a failure of the run only for a failed one, however the stream ended.   *)
UiTellsTheVerdict ==
  \A c \in Reader :
    /\ ui[c] = "complete" => Status(c) = "completed"
    /\ ui[c] = "failed" => Status(c) = "failed"

(* runs.py _event_stream and follow: once the run has its verdict, a       *)
(* reader who is following it is shown an outcome, even when the stream    *)
(* closes before the verdict's own event was read.                         *)
FollowerSettles ==
  \A c \in Reader :
    (ui[c] = "running" /\ Status(c) \in Verdict) ~> ui[c] \notin {"running", "resolving"}
=============================================================================
