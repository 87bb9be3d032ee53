----------------------------- MODULE Workspace -----------------------------
(***************************************************************************)
(* One page of the analyst workspace (analyst-workspace.tsx): it asks      *)
(* questions, resumes a run found in the list of runs, and shows one run   *)
(* at a time.  Its answers arrive in any order: of the list requested when *)
(* the page is mounted, of each createRun, of each getRun, and the frames  *)
(* of every stream it follows.  All of them share one settledRef and one   *)
(* stopRef, which is what the model is about.                              *)
(*                                                                         *)
(* A question and the run created for it are one value; the other runs are *)
(* those of colleagues and earlier visits.  A stream delivers the events   *)
(* of its run and ends, or breaks for good; how it reconnects is RunStream.*)
(* A page that is left never acts again (mountedRef) and is left out.      *)
(***************************************************************************)
EXTENDS RunContract

CONSTANTS
  Question,  \* asked on this page, each once
  Mount,     \* the follower that resumes a listed run
  None

ASSUME WorkspaceAssumption ==
  Question \subseteq Run /\ Mount \notin Question /\ None \notin Run \cup {Mount}

VARIABLES
  call,     \* createRun for each question
  listing,  \* listRuns: on its way, read by the API, or over
  found,    \* the active run in its answer
  stream,   \* the stream of each follower: run, events seen, still open
  stop,     \* stopRef: the follower whose stream it stops
  settled,  \* settledRef
  loading,  \* followers whose getRun is on its way
  page,     \* RunState.kind, and the run it is about
  latest,   \* history: the question asked last
  overrun   \* history: an answer came that the page does not guard against

askVars == <<call, latest>>
listVars == <<listing, found>>
streamVars == <<stream, stop, settled>>
pageVars == <<askVars, listVars, streamVars, loading, page, overrun>>
workspaceVars == <<contractVars, pageVars>>

Follower == Question \cup {Mount}
Busy == {"starting", "running", "resolving"}
Kind == Busy \cup {"idle", "complete", "failed", "cancelled"}

WorkspaceTypeOK ==
  /\ call \in [Question -> {"unasked", "sent", "over"}]
  /\ listing \in {"sent", "read", "over"}
  /\ found \in Run \cup {None}
  /\ stream \in [Follower -> [run : Run \cup {None}, seen : Nat, open : BOOLEAN]]
  /\ stop \in Follower \cup {None}
  /\ settled \in BOOLEAN
  /\ loading \subseteq Follower
  /\ page \in [kind : Kind, run : Run \cup {None}]
  /\ latest \in Question \cup {None}
  /\ overrun \in BOOLEAN

WorkspaceInit ==
  /\ ContractInit
  /\ call = [q \in Question |-> "unasked"]
  /\ listing = "sent"
  /\ found = None
  /\ stream = [f \in Follower |-> [run |-> None, seen |-> 0, open |-> FALSE]]
  /\ stop = None
  /\ settled = FALSE
  /\ loading = {}
  /\ page = [kind |-> "idle", run |-> None]
  /\ latest = None
  /\ overrun = FALSE

Show(kind, run) == page' = [kind |-> kind, run |-> run]
Following(f) == stream[f].run
Unread(f) == stream[f].open /\ stream[f].seen < Len(log[Following(f)])
NextEvent(f) == log[Following(f)][stream[f].seen + 1]

(* The streams once f has read an event, or has ended. *)
Advanced(f) == [stream EXCEPT ![f].seen = @ + 1]
Ended(streams, f) == [streams EXCEPT ![f].open = FALSE, ![f].seen = 0]

(* Mutant: stopRef is cleared without being called. *)
StoppedNot(streams) == streams

(* stopStream *)
Stopped(streams) == IF stop = None THEN streams ELSE Ended(streams, stop)

(* Mutant: the next run inherits the mark of the last one. *)
FollowUnreset(f, run) ==
  /\ stream' = [stream EXCEPT ![f] = [run |-> run, seen |-> 0, open |-> TRUE]]
  /\ stop' = f
  /\ UNCHANGED settled
  /\ Show("running", run)

Follow(f, run) ==
  /\ stream' = [stream EXCEPT ![f] = [run |-> run, seen |-> 0, open |-> TRUE]]
  /\ stop' = f
  /\ settled' = FALSE
  /\ Show("running", run)

-----------------------------------------------------------------------------
(* Asking *)

Ask(q) ==
  /\ call[q] = "unasked"
  /\ page.kind \notin Busy
  /\ call' = [call EXCEPT ![q] = "sent"]
  /\ latest' = q
  /\ stream' = Stopped(stream)
  /\ stop' = None
  /\ settled' = FALSE
  /\ Show("starting", q)
  /\ UNCHANGED <<contractVars, listVars, loading, overrun>>

CreateAnswers(q) ==
  /\ call[q] = "sent"
  /\ status[q] # "absent"
  /\ call' = [call EXCEPT ![q] = "over"]
  /\ Follow(q, q)
  /\ UNCHANGED <<contractVars, latest, listVars, loading, overrun>>

(* Refused, or the answer was lost: the run may exist all the same. *)
CreateFails(q) ==
  /\ call[q] = "sent"
  /\ call' = [call EXCEPT ![q] = "over"]
  /\ Show("failed", q)
  /\ UNCHANGED <<contractVars, latest, listVars, streamVars, loading, overrun>>

(* The Cancel button.  Requests on their way are not cancelled. *)
Cancel ==
  /\ page.kind \in Busy
  /\ stream' = Stopped(stream)
  /\ stop' = None
  /\ settled' = TRUE
  /\ Show("cancelled", page.run)
  /\ overrun' = (overrun \/ loading # {} \/ \E q \in Question : call[q] = "sent")
  /\ UNCHANGED <<contractVars, askVars, listVars, loading>>

-----------------------------------------------------------------------------
(* Resuming on mount *)

(* GET /runs: all runs of the organization; the client picks an active one.*)
ListReads ==
  LET active == {r \in Run : status[r] \in Live} IN
  /\ listing = "sent"
  /\ listing' = "read"
  /\ found' \in IF active = {} THEN {None} ELSE active
  /\ UNCHANGED <<contractVars, askVars, streamVars, loading, page, overrun>>

(* "Never interrupt a reader who has already started typing or asking." *)
MayResume == found # None /\ stop = None

(* Where no stream is attached, the check of stopRef does not see that the *)
(* reader has asked.                                                       *)
ListAnswers ==
  /\ listing = "read"
  /\ listing' = "over"
  /\ found' = None
  /\ IF MayResume THEN Follow(Mount, found) ELSE UNCHANGED <<streamVars, page>>
  /\ overrun' = (overrun \/ (latest # None /\ ~stream[latest].open))
  /\ UNCHANGED <<contractVars, askVars, loading>>

ListFails ==
  /\ listing # "over"
  /\ listing' = "over"
  /\ found' = None
  /\ UNCHANGED <<contractVars, askVars, streamVars, loading, page, overrun>>

-----------------------------------------------------------------------------
(* Following *)

HearProgress(f) ==
  /\ Unread(f) /\ NextEvent(f) \notin Verdict /\ ~settled
  /\ stream' = Advanced(f)
  /\ Show("running", Following(f))
  /\ UNCHANGED <<contractVars, askVars, listVars, stop, settled, loading, overrun>>

(* stopStream stops the stream followed last, which need not be this one. *)
HearVerdict(f) ==
  /\ Unread(f) /\ NextEvent(f) \in Verdict /\ ~settled
  /\ settled' = TRUE
  /\ stream' = Stopped(Advanced(f))
  /\ stop' = None
  /\ IF NextEvent(f) = "completed"
     THEN loading' = loading \cup {f} /\ Show("resolving", Following(f))
     ELSE Show("failed", Following(f)) /\ UNCHANGED loading
  /\ UNCHANGED <<contractVars, askVars, listVars, overrun>>

HearTooLate(f) ==
  /\ Unread(f) /\ settled
  /\ stream' = Advanced(f)
  /\ UNCHANGED <<contractVars, askVars, listVars, stop, settled, loading, page, overrun>>

(* onClose: the server ended the stream, at the verdict or at its age limit.*)
Closes(f) ==
  /\ stream[f].open
  /\ stream' = Ended(stream, f)
  /\ settled' = TRUE
  /\ IF settled
     THEN UNCHANGED <<loading, page>>
     ELSE loading' = loading \cup {f} /\ Show("resolving", Following(f))
  /\ UNCHANGED <<contractVars, askVars, listVars, stop, overrun>>

(* onError: refused, or out of reconnects. *)
Breaks(f) ==
  /\ stream[f].open
  /\ stream' = Ended(stream, f)
  /\ settled' = TRUE
  /\ IF settled THEN UNCHANGED page ELSE Show("failed", Following(f))
  /\ UNCHANGED <<contractVars, askVars, listVars, stop, loading, overrun>>

(* resolveResult, the rest of it: what the row says is shown, whatever the *)
(* page shows by now.                                                      *)
Resolve(f) ==
  /\ f \in loading
  /\ loading' = loading \ {f}
  /\ Show(IF status[Following(f)] = "completed" THEN "complete" ELSE "failed", Following(f))
  /\ UNCHANGED <<contractVars, askVars, listVars, streamVars, overrun>>

ResolveFails(f) ==
  /\ f \in loading
  /\ loading' = loading \ {f}
  /\ Show("failed", Following(f))
  /\ UNCHANGED <<contractVars, askVars, listVars, streamVars, overrun>>

-----------------------------------------------------------------------------
(* A run appears when somebody asked for it; the rest is the contract. *)
Backend ==
  /\ \/ \E q \in Question : call[q] # "unasked" /\ Accept(q)
     \/ \E r \in Run \ Question : Accept(r)
     \/ \E r \in Run : Begin(r) \/ Progress(r) \/ \E v \in Verdict : Conclude(r, v)
  /\ UNCHANGED pageVars

Created(q) == CreateAnswers(q) \/ CreateFails(q)
Hear(f) == HearProgress(f) \/ HearVerdict(f) \/ HearTooLate(f) \/ Closes(f) \/ Breaks(f)
Resolved(f) == Resolve(f) \/ ResolveFails(f)

(* What the browser's event loop calls the page with. *)
Delivery == (\E q \in Question : Created(q)) \/ (\E f \in Follower : Hear(f) \/ Resolved(f))

WorkspaceNext ==
  \/ Backend
  \/ \E q \in Question : Ask(q)
  \/ Cancel
  \/ ListReads \/ ListAnswers \/ ListFails
  \/ Delivery

(* Every request is answered or fails: http.ts limits the wait for headers *)
(* and the network is trusted with the body.  Every stream ends: at its    *)
(* run's verdict, at _STREAM_MAX_SECONDS, or when its reconnects are used  *)
(* up.  Nothing is assumed of the backend or the reader.                   *)
WorkspaceSpec ==
  /\ WorkspaceInit /\ [][WorkspaceNext]_workspaceVars
  /\ WF_workspaceVars(Delivery)

-----------------------------------------------------------------------------
(* Properties *)

(* analyst-workspace.tsx ("Guards against a late close/error overwriting a *)
(* resolved outcome", "Never interrupt a reader who has already started    *)
(* typing or asking"): whatever the reader cancels, asks again or resumes, *)
(* the page is about the question asked last, and not about an earlier run *)
(* whose frame or answer came late.  The exceptions are the answers that   *)
(* nothing guards against: to a createRun or getRun that was on its way    *)
(* when the reader cancelled, and to a list that comes while the question  *)
(* asked last has no stream attached.                                      *)
PageIsAboutLatest == (latest # None /\ ~overrun) => page.run = latest

(* analyst-workspace.tsx (busy disables the form): the page never stays    *)
(* busy, even when streams overlap and stop one another, so the reader can *)
(* always ask again.                                                       *)
PageSettles == page.kind \in Busy ~> page.kind \notin Busy
=============================================================================
