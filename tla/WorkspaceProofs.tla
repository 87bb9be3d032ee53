--------------------------- MODULE WorkspaceProofs ---------------------------
(***************************************************************************)
(* Proofs about Workspace, for any number of runs and questions, whatever  *)
(* the backend does and in whatever order its answers arrive.              *)
(*                                                                         *)
(* Until an unguarded answer comes (overrun), the page has one thing under *)
(* way at most: a createRun, a stream or a getRun (OneCall, OneOpen,       *)
(* LoadingIsShown), and it is about the question asked last                *)
(* (ActiveAboutLatest).  stopRef then always names the open stream, so     *)
(* that asking again ends it.                                              *)
(***************************************************************************)
EXTENDS Workspace, TLAPS

Active(f) == stream[f].open \/ f \in loading

OneOpen == \A f \in Follower : stream[f].open => stop = f

ActiveAboutLatest ==
  \A f \in Follower :
    Active(f) => IF latest = None THEN f = Mount /\ listing = "over"
                 ELSE f = latest /\ stream[f].run = latest

OneCall ==
  \A q \in Question :
    call[q] = "sent" => q = latest /\ page.kind = "starting" /\ stop = None /\ loading = {}

LoadingIsShown == \A f \in loading : page.kind = "resolving" /\ ~stream[f].open

AskedInv ==
  ~overrun => OneOpen /\ ActiveAboutLatest /\ OneCall /\ LoadingIsShown /\ PageIsAboutLatest

StreamState == [run : Run \cup {None}, seen : Nat, open : BOOLEAN]

-----------------------------------------------------------------------------
(* Types *)

(* What reading, ending and stopping make of the streams.                  *)
LEMMA StreamsTyped ==
  ASSUME NEW s \in [Follower -> StreamState], NEW f \in Follower
  PROVE  /\ [s EXCEPT ![f].seen = @ + 1] \in [Follower -> StreamState]
         /\ Ended(s, f) \in [Follower -> StreamState]
         /\ Ended(s, f)[f].open = FALSE /\ Ended(s, f)[f].run = s[f].run
         /\ \A g \in Follower \ {f} : Ended(s, f)[g] = s[g]
<1>1. s[f] \in StreamState
  OBVIOUS
<1> DEFINE read == [s[f] EXCEPT !.seen = @ + 1]
           ended == [[s[f] EXCEPT !.open = FALSE] EXCEPT !.seen = 0]
<1>2. read \in StreamState
  BY <1>1 DEF StreamState
<1>3. ended \in StreamState /\ ended.open = FALSE /\ ended.run = s[f].run
  BY <1>1 DEF StreamState
<1>4. [s EXCEPT ![f].seen = @ + 1] = [s EXCEPT ![f] = read]
  OBVIOUS
<1>5. Ended(s, f) = [s EXCEPT ![f] = ended]
  <2>1. Ended(s, f) = [[s EXCEPT ![f].open = FALSE] EXCEPT ![f].seen = 0]
    BY DEF Ended
  <2>2. [s EXCEPT ![f].open = FALSE] = [s EXCEPT ![f] = [s[f] EXCEPT !.open = FALSE]]
    OBVIOUS
  <2> QED BY <2>1, <2>2
<1> HIDE DEF read, ended
<1> QED BY <1>2, <1>3, <1>4, <1>5

LEMMA EndedKeeps ==
  ASSUME NEW s \in [Follower -> StreamState], NEW f \in Follower
  PROVE  /\ Ended(s, f)[f].open = FALSE /\ Ended(s, f)[f].run = s[f].run
         /\ \A g \in Follower \ {f} : Ended(s, f)[g] = s[g]
BY StreamsTyped

LEMMA StoppedTyped ==
  ASSUME WorkspaceTypeOK, NEW s \in [Follower -> StreamState]
  PROVE  /\ Stopped(s) \in [Follower -> StreamState]
         /\ stop # None => Stopped(s)[stop].open = FALSE
         /\ \A g \in Follower : Stopped(s)[g].run = s[g].run
         /\ \A g \in Follower : g # stop => Stopped(s)[g] = s[g]
<1>1. CASE stop = None
  BY <1>1 DEF Stopped, WorkspaceTypeOK
<1>2. CASE stop # None
  <2>1. stop \in Follower /\ Stopped(s) = Ended(s, stop)
    BY <1>2 DEF Stopped, WorkspaceTypeOK
  <2>2. /\ Ended(s, stop) \in [Follower -> StreamState]
        /\ Ended(s, stop)[stop].open = FALSE /\ Ended(s, stop)[stop].run = s[stop].run
        /\ \A g \in Follower \ {stop} : Ended(s, stop)[g] = s[g]
    BY <2>1, StreamsTyped
  <2> QED BY <1>2, <2>1, <2>2
<1> QED BY <1>1, <1>2

LEMMA WorkspaceTypeStep ==
  WorkspaceTypeOK /\ [WorkspaceNext]_workspaceVars => WorkspaceTypeOK'
<1> SUFFICES ASSUME WorkspaceTypeOK, [WorkspaceNext]_workspaceVars PROVE WorkspaceTypeOK'
  OBVIOUS
<1> USE WorkspaceAssumption DEF Kind, Busy, Show
<1>s. stream \in [Follower -> StreamState]
  BY DEF WorkspaceTypeOK, StreamState
<1>t. \A f \in Follower : Following(f) \in Run \cup {None}
  BY <1>s DEF Following, StreamState
<1>1. CASE Backend \/ UNCHANGED workspaceVars
  BY <1>1 DEF Backend, workspaceVars, pageVars, askVars, listVars, streamVars, WorkspaceTypeOK
<1>2. ASSUME NEW q \in Question, Ask(q) PROVE WorkspaceTypeOK'
  BY <1>2, <1>s, StoppedTyped DEF Ask, listVars, WorkspaceTypeOK, StreamState
<1>3. ASSUME NEW q \in Question, CreateAnswers(q) PROVE WorkspaceTypeOK'
  BY <1>3, <1>s DEF CreateAnswers, Follow, listVars, WorkspaceTypeOK, Follower, StreamState
<1>4. ASSUME NEW q \in Question, CreateFails(q) PROVE WorkspaceTypeOK'
  BY <1>4 DEF CreateFails, listVars, streamVars, WorkspaceTypeOK
<1>5. CASE Cancel
  BY <1>5, <1>s, StoppedTyped DEF Cancel, askVars, listVars, WorkspaceTypeOK, StreamState
<1>6. CASE ListReads \/ ListFails
  BY <1>6 DEF ListReads, ListFails, askVars, streamVars, WorkspaceTypeOK
<1>7. CASE ListAnswers
  <2>1. CASE MayResume
    <3>1. /\ found \in Run /\ Mount \in Follower
          /\ [run |-> found, seen |-> 0, open |-> TRUE] \in StreamState
      BY <2>1 DEF MayResume, WorkspaceTypeOK, Follower, StreamState
    <3>2. /\ stream' = [stream EXCEPT ![Mount] = [run |-> found, seen |-> 0, open |-> TRUE]]
          /\ stop' = Mount /\ settled' = FALSE /\ page' = [kind |-> "running", run |-> found]
          /\ listing' = "over" /\ found' = None /\ overrun' \in BOOLEAN
          /\ UNCHANGED <<call, latest, loading>>
      BY <1>7, <2>1 DEF ListAnswers, Follow, askVars, WorkspaceTypeOK
    <3>3. stream' \in [Follower -> StreamState]
      BY <1>s, <3>1, <3>2
    <3> QED BY <3>1, <3>2, <3>3 DEF WorkspaceTypeOK, StreamState
  <2>2. CASE ~MayResume
    BY <1>7, <2>2 DEF ListAnswers, streamVars, askVars, WorkspaceTypeOK
  <2> QED BY <2>1, <2>2
<1>8. ASSUME NEW f \in Follower, HearProgress(f) \/ HearTooLate(f) PROVE WorkspaceTypeOK'
  <2>1. Advanced(f) \in [Follower -> StreamState]
    BY <1>s, StreamsTyped DEF Advanced
  <2> QED BY <1>8, <1>t, <2>1 DEF HearProgress, HearTooLate, askVars, listVars, WorkspaceTypeOK,
             StreamState
<1>9. ASSUME NEW f \in Follower, HearVerdict(f) PROVE WorkspaceTypeOK'
  <2>1. Stopped(Advanced(f)) \in [Follower -> StreamState]
    BY <1>s, StreamsTyped, StoppedTyped DEF Advanced
  <2> QED BY <1>9, <1>t, <2>1 DEF HearVerdict, askVars, listVars, WorkspaceTypeOK, StreamState
<1>10. ASSUME NEW f \in Follower, Closes(f) \/ Breaks(f) PROVE WorkspaceTypeOK'
  <2>1. Ended(stream, f) \in [Follower -> StreamState]
    BY <1>s, StreamsTyped
  <2>2. /\ stream' = Ended(stream, f) /\ settled' = TRUE
        /\ loading' = loading \/ loading' = loading \cup {f}
        /\ \/ page' = page
           \/ \E k \in {"resolving", "failed"} : page' = [kind |-> k, run |-> Following(f)]
        /\ UNCHANGED <<call, latest, listing, found, stop, overrun>>
    BY <1>10 DEF Closes, Breaks, askVars, listVars
  <2> QED BY <1>t, <2>1, <2>2 DEF WorkspaceTypeOK, StreamState
<1>11. ASSUME NEW f \in Follower, Resolve(f) \/ ResolveFails(f) PROVE WorkspaceTypeOK'
  BY <1>11, <1>t DEF Resolve, ResolveFails, askVars, listVars, streamVars, WorkspaceTypeOK
<1> QED BY <1>1, <1>2, <1>3, <1>4, <1>5, <1>6, <1>7, <1>8, <1>9, <1>10, <1>11
        DEF WorkspaceNext, Delivery, Created, Hear, Resolved

-----------------------------------------------------------------------------
(* The page is about the question asked last *)

LEMMA AskedStep ==
  WorkspaceTypeOK /\ AskedInv /\ [WorkspaceNext]_workspaceVars => AskedInv'
<1> SUFFICES ASSUME WorkspaceTypeOK, AskedInv, [WorkspaceNext]_workspaceVars, ~overrun'
             PROVE  (OneOpen /\ ActiveAboutLatest /\ OneCall /\ LoadingIsShown
                       /\ PageIsAboutLatest)'
  BY DEF AskedInv
<1> DEFINE Goal == (OneOpen /\ ActiveAboutLatest /\ OneCall /\ LoadingIsShown
                      /\ PageIsAboutLatest)'
<1> SUFFICES Goal
  OBVIOUS
<1> USE DEF OneOpen, ActiveAboutLatest, OneCall, LoadingIsShown, PageIsAboutLatest, Active,
            Show, Following, Busy
<1>s. /\ stream \in [Follower -> StreamState]
      /\ \A q \in Question : q \in Follower /\ q # Mount /\ q # None
      /\ Mount \in Follower /\ Mount # None /\ None \notin Follower
      /\ loading \subseteq Follower /\ latest \in Question \cup {None}
      /\ call \in [Question -> {"unasked", "sent", "over"}]
  BY WorkspaceAssumption DEF WorkspaceTypeOK, StreamState, Follower
<1>o. ~overrun => OneOpen /\ ActiveAboutLatest /\ OneCall /\ LoadingIsShown
                    /\ PageIsAboutLatest
  BY DEF AskedInv
<1>e. ~overrun => \A f \in Follower : ~Stopped(stream)[f].open
  <2>1. /\ stop # None => Stopped(stream)[stop].open = FALSE
        /\ \A g \in Follower : g # stop => Stopped(stream)[g] = stream[g]
    BY <1>s, StoppedTyped
  <2> QED BY <1>o, <1>s, <2>1
<1>1. CASE Backend \/ UNCHANGED workspaceVars
  BY <1>1, <1>o DEF Backend, workspaceVars, pageVars, askVars, listVars, streamVars
<1>2. ASSUME NEW q \in Question, Ask(q) PROVE Goal
  <2>1. /\ page.kind \notin Busy /\ latest' = q /\ stop' = None
        /\ call' = [call EXCEPT ![q] = "sent"]
        /\ stream' = Stopped(stream) /\ page' = [kind |-> "starting", run |-> q]
        /\ UNCHANGED <<listing, loading, overrun>>
    BY <1>2 DEF Ask, listVars
  <2>2. loading = {} /\ \A p \in Question : call[p] # "sent"
    BY <1>o, <2>1
  <2>3. \A f \in Follower : ~stream'[f].open
    BY <1>e, <2>1
  <2> QED BY <1>s, <2>1, <2>2, <2>3
<1>3. ASSUME NEW q \in Question, CreateAnswers(q) PROVE Goal
  <2>1. /\ call[q] = "sent" /\ call' = [call EXCEPT ![q] = "over"]
        /\ stream' = [stream EXCEPT ![q] = [run |-> q, seen |-> 0, open |-> TRUE]]
        /\ stop' = q /\ page' = [kind |-> "running", run |-> q]
        /\ UNCHANGED <<latest, listing, loading, overrun>>
    BY <1>3 DEF CreateAnswers, Follow, listVars
  <2>2. q = latest /\ loading = {} /\ \A f \in Follower : ~stream[f].open
    BY <1>o, <1>s, <2>1
  <2> QED BY <1>s, <2>1, <2>2, <1>o
<1>4. ASSUME NEW q \in Question, CreateFails(q) PROVE Goal
  BY <1>4, <1>o, <1>s DEF CreateFails, listVars, streamVars
<1>5. CASE Cancel
  <2>1. /\ ~overrun /\ loading = {} /\ \A q \in Question : call[q] # "sent"
        /\ stream' = Stopped(stream) /\ stop' = None
        /\ page' = [kind |-> "cancelled", run |-> page.run]
        /\ UNCHANGED <<call, latest, listing, loading>>
    BY <1>5 DEF Cancel, askVars, listVars
  <2>2. \A f \in Follower : ~stream'[f].open
    BY <1>e, <2>1
  <2> QED BY <1>o, <1>s, <2>1, <2>2
<1>6. CASE ListReads \/ ListFails
  BY <1>6, <1>o DEF ListReads, ListFails, askVars, streamVars
<1>7. CASE ListAnswers
  <2>1. /\ listing = "read" /\ listing' = "over" /\ ~overrun
        /\ latest # None => stream[latest].open
        /\ UNCHANGED <<call, latest, loading>>
    BY <1>7 DEF ListAnswers, askVars
  <2>2. CASE MayResume
    <3>1. latest = None /\ stop = None
      BY <1>o, <1>s, <2>1, <2>2 DEF MayResume
    <3>2. /\ stream' = [stream EXCEPT ![Mount] = [run |-> found, seen |-> 0, open |-> TRUE]]
          /\ stop' = Mount
      BY <1>7, <2>2 DEF ListAnswers, Follow
    <3>3. loading = {} /\ \A f \in Follower : ~stream[f].open
      BY <1>o, <1>s, <2>1, <3>1
    <3> QED BY <1>o, <1>s, <2>1, <3>1, <3>2, <3>3
  <2>3. CASE ~MayResume
    <3>1. UNCHANGED <<stream, stop, page>>
      BY <1>7, <2>3 DEF ListAnswers, streamVars
    <3> QED BY <1>o, <2>1, <3>1
  <2> QED BY <2>2, <2>3
<1>f. ASSUME NEW f \in Follower, stream[f].open, ~overrun
      PROVE  /\ stop = f /\ loading = {} /\ \A g \in Follower \ {f} : ~stream[g].open
             /\ \A q \in Question : call[q] # "sent"
             /\ latest # None => f = latest /\ stream[f].run = latest
             /\ latest = None => f = Mount /\ listing = "over"
  BY <1>f, <1>o, <1>s
<1>8. ASSUME NEW f \in Follower, HearProgress(f) \/ HearTooLate(f) PROVE Goal
  <2>1. /\ stream[f].open /\ stream' = [stream EXCEPT ![f].seen = @ + 1]
        /\ UNCHANGED <<call, latest, listing, stop, loading, overrun>>
        /\ page' = page \/ page' = [kind |-> "running", run |-> stream[f].run]
    BY <1>8 DEF HearProgress, HearTooLate, Unread, Advanced, askVars, listVars
  <2>2. \A g \in Follower : stream'[g].open = stream[g].open /\ stream'[g].run = stream[g].run
    BY <1>s, <2>1 DEF StreamState
  <2> QED BY <1>o, <1>f, <1>s, <2>1, <2>2
<1>9. ASSUME NEW f \in Follower, HearVerdict(f) PROVE Goal
  <2>1. /\ stream[f].open /\ stream' = Stopped(Advanced(f)) /\ stop' = None
        /\ UNCHANGED <<call, latest, listing, overrun>>
        /\ \/ /\ loading' = loading \cup {f}
              /\ page' = [kind |-> "resolving", run |-> stream[f].run]
           \/ loading' = loading /\ page' = [kind |-> "failed", run |-> stream[f].run]
    BY <1>9 DEF HearVerdict, Unread, askVars, listVars
  <2>2. /\ Advanced(f) \in [Follower -> StreamState]
        /\ \A g \in Follower :
             Advanced(f)[g].open = stream[g].open /\ Advanced(f)[g].run = stream[g].run
    BY <1>s, StreamsTyped DEF Advanced, StreamState
  <2> DEFINE read == Advanced(f)
  <2>r. read \in [Follower -> StreamState]
    BY <2>2
  <2> HIDE DEF read
  <2>s. /\ stop # None => Stopped(read)[stop].open = FALSE
        /\ \A g \in Follower : Stopped(read)[g].run = read[g].run
        /\ \A g \in Follower : g # stop => Stopped(read)[g] = read[g]
    BY <2>r, StoppedTyped
  <2>3. /\ stop # None => stream'[stop].open = FALSE
        /\ \A g \in Follower : stream'[g].run = Advanced(f)[g].run
        /\ \A g \in Follower : g # stop => stream'[g] = Advanced(f)[g]
    BY <2>1, <2>s DEF read
  <2>4. \A g \in Follower : ~stream'[g].open /\ stream'[g].run = stream[g].run
    BY <1>f, <1>s, <2>1, <2>2, <2>3
  <2> QED BY <1>o, <1>f, <1>s, <2>1, <2>4
<1>10. ASSUME NEW f \in Follower, Closes(f) \/ Breaks(f) PROVE Goal
  <2>1. /\ stream[f].open /\ stream' = Ended(stream, f)
        /\ UNCHANGED <<call, latest, listing, stop, overrun>>
        /\ \/ loading' = loading /\ page' = page
           \/ /\ loading' = loading \cup {f}
              /\ page' = [kind |-> "resolving", run |-> stream[f].run]
           \/ loading' = loading /\ page' = [kind |-> "failed", run |-> stream[f].run]
    BY <1>10 DEF Closes, Breaks, askVars, listVars
  <2>d. stream \in [Follower -> StreamState]
    BY <1>s
  <2>e. /\ Ended(stream, f)[f].open = FALSE /\ Ended(stream, f)[f].run = stream[f].run
        /\ \A g \in Follower \ {f} : Ended(stream, f)[g] = stream[g]
    BY <2>d, EndedKeeps
  <2>2. /\ stream'[f].open = FALSE /\ stream'[f].run = stream[f].run
        /\ \A g \in Follower \ {f} : stream'[g] = stream[g]
    BY <2>1, <2>e
  <2>3. \A g \in Follower : ~stream'[g].open /\ stream'[g].run = stream[g].run
    BY <1>f, <2>1, <2>2
  <2> QED BY <1>o, <1>f, <1>s, <2>1, <2>3
<1>11. ASSUME NEW f \in Follower, Resolve(f) \/ ResolveFails(f) PROVE Goal
  <2>1. /\ f \in loading /\ loading' = loading \ {f}
        /\ UNCHANGED <<call, latest, listing, stream, stop, overrun>>
        /\ page' \in [kind : {"complete", "failed"}, run : {stream[f].run}]
    BY <1>11 DEF Resolve, ResolveFails, askVars, listVars, streamVars
  <2>2. /\ \A q \in Question : call[q] # "sent"
        /\ loading' = {}
        /\ latest # None => f = latest /\ stream[f].run = latest
    BY <1>o, <1>s, <2>1
  <2> QED BY <1>o, <1>s, <2>1, <2>2
<1> HIDE DEF Goal
<1> QED BY <1>1, <1>2, <1>3, <1>4, <1>5, <1>6, <1>7, <1>8, <1>9, <1>10, <1>11
        DEF WorkspaceNext, Delivery, Created, Hear, Resolved

LEMMA WorkspaceStart == WorkspaceInit => WorkspaceTypeOK /\ AskedInv
<1> SUFFICES ASSUME WorkspaceInit PROVE WorkspaceTypeOK /\ AskedInv
  OBVIOUS
<1>1. /\ call = [q \in Question |-> "unasked"] /\ listing = "sent" /\ found = None
      /\ stream = [f \in Follower |-> [run |-> None, seen |-> 0, open |-> FALSE]]
      /\ stop = None /\ settled = FALSE /\ loading = {}
      /\ page = [kind |-> "idle", run |-> None] /\ latest = None /\ overrun = FALSE
  BY DEF WorkspaceInit
<1>2. WorkspaceTypeOK
  BY <1>1 DEF WorkspaceTypeOK, Kind, Busy
<1>3. AskedInv
  BY <1>1 DEF AskedInv, OneOpen, ActiveAboutLatest, OneCall, LoadingIsShown,
     PageIsAboutLatest, Active
<1> QED BY <1>2, <1>3

(* The page's state keeps its types: stopRef names a stream it opened, and *)
(* the run shown is one there is.                                          *)
THEOREM WorkspaceTypeCorrect == WorkspaceSpec => []WorkspaceTypeOK
BY WorkspaceStart, WorkspaceTypeStep, PTL DEF WorkspaceSpec

(* analyst-workspace.tsx ("Guards against a late close/error overwriting a *)
(* resolved outcome", "Never interrupt a reader who has already started    *)
(* typing or asking"): in whatever order the answers arrive, the page is   *)
(* about the question asked last, as long as none of the answers comes     *)
(* that nothing guards against.                                            *)
THEOREM PageStaysAboutLatest == WorkspaceSpec => []PageIsAboutLatest
<1>1. AskedInv => PageIsAboutLatest
  BY DEF AskedInv, PageIsAboutLatest
<1> QED BY <1>1, WorkspaceStart, WorkspaceTypeStep, AskedStep, PTL DEF WorkspaceSpec
=============================================================================
