-------------------------- MODULE RunStreamProofs --------------------------
(***************************************************************************)
(* Proofs about RunContract and the readers who follow it in RunStream,    *)
(* for any number of runs and readers, any bound on the log and any number *)
(* of reconnects.                                                          *)
(*                                                                         *)
(* The contract comes first: log and status tell the same story.  That a   *)
(* reader misses nothing and sees nothing twice rests on Threaded: what    *)
(* was shown, what is in transit and what the generator will read next are *)
(* adjacent stretches of one log.  That the page tells the verdict rests   *)
(* on it as well, for a frame in transit is an event of the log, and on    *)
(* verdicts being final.                                                   *)
(***************************************************************************)
EXTENDS RunStream, TLAPS

(* What one recorded event does to the log it is appended to. *)
LEMMA RecordLog ==
  ASSUME ContractTypeOK, NEW r \in Run, NEW s, NEW event \in EventType, Record(r, s, event)
  PROVE  /\ status'[r] = s
         /\ Len(log'[r]) = Len(log[r]) + 1
         /\ log'[r][Len(log[r]) + 1] = event
         /\ \A i \in 1 .. Len(log[r]) : log'[r][i] = log[r][i]
         /\ \A q \in Run \ {r} : status'[q] = status[q] /\ log'[q] = log[q]
  BY DEF ContractTypeOK, Record

(* Every step of the contract keeps statuses and logs well typed. *)
LEMMA ContractTypeStep == ContractTypeOK /\ [ContractNext]_contractVars => ContractTypeOK'
<1> SUFFICES ASSUME ContractTypeOK, [ContractNext]_contractVars PROVE ContractTypeOK'
  OBVIOUS
<1>1. CASE UNCHANGED contractVars
  BY <1>1 DEF ContractTypeOK, contractVars
<1>2. ASSUME NEW r \in Run, NEW s \in Verdict \cup Live, NEW e \in EventType, Record(r, s, e)
      PROVE  ContractTypeOK'
  BY <1>2 DEF ContractTypeOK, Record
<1>3. CASE \E r \in Run : Accept(r)
  BY <1>2, <1>3 DEF Accept, Live, EventType
<1>4. CASE \E r \in Run : Begin(r)
  BY <1>4 DEF Begin, ContractTypeOK, Live
<1>5. CASE \E r \in Run : Progress(r)
  BY <1>2, <1>5 DEF Progress, Live, EventType
<1>6. CASE \E r \in Run : \E v \in Verdict : Conclude(r, v)
  BY <1>2, <1>6 DEF Conclude, EventType
<1> QED BY <1>1, <1>3, <1>4, <1>5, <1>6 DEF ContractNext

(* Every step keeps the verdict unique, last, and equal to the status. *)
LEMMA LogStep ==
  ContractTypeOK /\ LogMatchesStatus /\ [ContractNext]_contractVars => LogMatchesStatus'
<1> DEFINE Story(st, lg) ==
      /\ st = "absent" <=> lg = <<>>
      /\ \A i \in 1 .. Len(lg) : lg[i] \in Verdict <=> i = Len(lg) /\ st \in Verdict
      /\ st \in Verdict => lg[Len(lg)] = st
<1> SUFFICES ASSUME ContractTypeOK, LogMatchesStatus, [ContractNext]_contractVars
             PROVE  \A q \in Run : Story(status'[q], log'[q])
  BY DEF LogMatchesStatus
<1>0. \A q \in Run : Story(status[q], log[q])
  BY DEF LogMatchesStatus
<1>1. CASE UNCHANGED contractVars
  BY <1>0, <1>1 DEF contractVars
<1>2. ASSUME NEW r \in Run, NEW s \in Verdict \cup Live, NEW e \in EventType, Record(r, s, e),
             status[r] \notin Verdict,
             e \in Verdict <=> s \in Verdict, s \in Verdict => e = s
      PROVE  \A q \in Run : Story(status'[q], log'[q])
  <2>1. /\ status'[r] = s
        /\ Len(log'[r]) = Len(log[r]) + 1
        /\ log'[r][Len(log[r]) + 1] = e
        /\ \A i \in 1 .. Len(log[r]) : log'[r][i] = log[r][i]
        /\ \A q \in Run \ {r} : status'[q] = status[q] /\ log'[q] = log[q]
    BY <1>2, RecordLog
  <2>2. log[r] \in Seq(EventType) /\ Len(log[r]) \in Nat /\ log'[r] # <<>>
    BY <2>1 DEF ContractTypeOK
  <2>3. status'[r] # "absent"
    BY <2>1 DEF Verdict, Live
  <2>4. \A i \in 1 .. Len(log[r]) : log[r][i] \notin Verdict
    BY <1>0, <1>2
  <2>5. \A i \in 1 .. Len(log'[r]) :
          log'[r][i] \in Verdict <=> i = Len(log'[r]) /\ status'[r] \in Verdict
    <3> TAKE i \in 1 .. Len(log'[r])
    <3>1. CASE i = Len(log[r]) + 1
      BY <1>2, <2>1, <3>1
    <3>2. CASE i \in 1 .. Len(log[r])
      BY <2>1, <2>2, <2>4, <3>2
    <3> QED BY <2>1, <2>2, <3>1, <3>2
  <2>6. Story(status'[r], log'[r])
    BY <1>2, <2>1, <2>2, <2>3, <2>5
  <2> QED BY <1>0, <2>1, <2>6
<1>3. CASE \E r \in Run : Accept(r)
  BY <1>2, <1>3 DEF Accept, Live, EventType, Verdict
<1>4. CASE \E r \in Run : Begin(r)
  <2> PICK r \in Run : Begin(r)
    BY <1>4
  <2>1. status' = [status EXCEPT ![r] = "running"] /\ log' = log /\ status[r] \in Live
    BY DEF Begin
  <2>2. Story(status'[r], log'[r])
    BY <1>0, <2>1 DEF ContractTypeOK, Live, Verdict
  <2> QED BY <1>0, <2>1, <2>2 DEF ContractTypeOK
<1>5. CASE \E r \in Run : Progress(r)
  BY <1>2, <1>5 DEF Progress, Live, EventType, Verdict
<1>6. CASE \E r \in Run : \E v \in Verdict : Conclude(r, v)
  BY <1>2, <1>6 DEF Conclude, EventType, Live, Verdict
<1> QED BY <1>1, <1>3, <1>4, <1>5, <1>6 DEF ContractNext

(* run_store.py (mark_completed, mark_failed write status and event in one *)
(* commit): in every reachable state of the contract the verdict stands in *)
(* the log once, last, and equal to the status.                            *)
THEOREM LogAlwaysMatchesStatus == ContractSpec => [](ContractTypeOK /\ LogMatchesStatus)
<1>1. ContractInit => ContractTypeOK /\ LogMatchesStatus
  BY DEF ContractInit, ContractTypeOK, LogMatchesStatus, Verdict
<1>2. ContractTypeOK /\ LogMatchesStatus /\ [ContractNext]_contractVars
        => (ContractTypeOK /\ LogMatchesStatus)'
  BY ContractTypeStep, LogStep
<1> QED BY <1>1, <1>2, PTL DEF ContractSpec

-----------------------------------------------------------------------------
(* Each reader's place in the log it follows: shown, in transit, unread.   *)
Thread(c) ==
  /\ \A i \in 1 .. Len(shown[c]) : shown[c][i] = i
  /\ Len(shown[c]) = cursor[c]
  /\ \A i \in 1 .. Len(wire[c]) : wire[c][i] = cursor[c] + i
  /\ cursor[c] + Len(wire[c]) <= Len(Events(c))
  /\ conn[c] = "none" => wire[c] = <<>>
  /\ conn[c] \in {"poll", "read"} => sent[c] = cursor[c] + Len(wire[c])

Threaded == \A c \in Reader : Thread(c)

(* A reader who still follows has reconnects left. *)
Patience == \A c \in Reader : ui[c] \in {"idle", "running"} => attempt[c] <= MaxReconnects

StreamShape == ContractTypeOK /\ StreamTypeOK /\ Patience
StreamInv == StreamShape /\ LogMatchesStatus /\ Threaded /\ UiTellsTheVerdict

(* Logs only grow, and a verdict is final. *)
LEMMA LogsGrow ==
  ASSUME ContractTypeOK, [ContractNext]_contractVars, NEW r \in Run
  PROVE  /\ Len(log[r]) \in Nat /\ Len(log'[r]) \in Nat
         /\ Len(log[r]) <= Len(log'[r])
         /\ status[r] \in Verdict => status'[r] = status[r]
<1>0. Len(log[r]) \in Nat
  BY DEF ContractTypeOK
<1>1. CASE UNCHANGED contractVars
  BY <1>0, <1>1 DEF contractVars
<1>2. ASSUME NEW q \in Run, NEW s, NEW e \in EventType, Record(q, s, e), status[q] \notin Verdict
      PROVE  /\ Len(log'[r]) \in Nat
             /\ Len(log[r]) <= Len(log'[r])
             /\ status[r] \in Verdict => status'[r] = status[r]
  BY <1>0, <1>2, RecordLog
<1>3. CASE \E q \in Run : Accept(q)
  BY <1>0, <1>2, <1>3 DEF Accept, EventType, Verdict
<1>4. CASE \E q \in Run : Begin(q)
  BY <1>0, <1>4 DEF Begin, ContractTypeOK, Live, Verdict
<1>5. CASE \E q \in Run : Progress(q)
  BY <1>0, <1>2, <1>5 DEF Progress, EventType, Verdict
<1>6. CASE \E q \in Run : \E v \in Verdict : Conclude(q, v)
  BY <1>0, <1>2, <1>6 DEF Conclude, EventType, Live, Verdict
<1> QED BY <1>0, <1>1, <1>3, <1>4, <1>5, <1>6 DEF ContractNext

(* A step of a reader leaves the runs alone; a step of the backend leaves  *)
(* the readers alone.                                                      *)
LEMMA RunsOrReaders ==
  [StreamNext]_streamVars => [ContractNext]_contractVars
BY DEF StreamNext, streamVars, Backend, ServerStep, ClientStep, PollEvents, PollStatus,
       StreamExpires, Follow, Open, ConnectionFails, OpenRefused, Receive, StreamCloses,
       ResolveResult, ResolveFails, Cancel

(* The frames of one tick: m + 1, ..., n. *)
LEMMA NumbersInOrder ==
  ASSUME NEW m \in Nat, NEW n \in Nat, m <= n
  PROVE  /\ Numbers(m, n) \in Seq(Nat)
         /\ Len(Numbers(m, n)) = n - m
         /\ \A i \in 1 .. n - m : Numbers(m, n)[i] = m + i
<1> DEFINE k == n - m
<1>1. k \in Nat
  OBVIOUS
<1>2. \A i \in 1 .. k : m + i \in Nat
  BY <1>1
<1> HIDE DEF k
<1>3. [i \in 1 .. k |-> m + i] \in Seq(Nat)
  BY <1>1, <1>2
<1>4. Numbers(m, n) \in Seq(Nat)
  BY <1>3 DEF Numbers, k
<1>5. Len(Numbers(m, n)) = n - m /\ \A i \in 1 .. n - m : Numbers(m, n)[i] = m + i
  BY DEF Numbers
<1> QED BY <1>4, <1>5

(* A stretch of the log grows by the next stretch. *)
LEMMA Appended ==
  ASSUME NEW w \in Seq(Nat), NEW k \in Nat, NEW n \in Nat, k + Len(w) <= n,
         \A i \in 1 .. Len(w) : w[i] = k + i
  PROVE  /\ Len(w \o Numbers(k + Len(w), n)) = n - k
         /\ \A i \in 1 .. n - k : (w \o Numbers(k + Len(w), n))[i] = k + i
<1> DEFINE f == Numbers(k + Len(w), n)
<1>1. Len(w) \in Nat /\ k + Len(w) \in Nat
  OBVIOUS
<1>2. /\ f \in Seq(Nat)
      /\ Len(f) = n - (k + Len(w))
      /\ \A i \in 1 .. n - (k + Len(w)) : f[i] = k + Len(w) + i
  BY <1>1, NumbersInOrder
<1> HIDE DEF f
<1>3. Len(w \o f) = n - k
  BY <1>1, <1>2
<1>4. \A i \in 1 .. Len(w) + Len(f) :
        (w \o f)[i] = IF i <= Len(w) THEN w[i] ELSE f[i - Len(w)]
  BY <1>2
<1> DEFINE both == w \o f
<1>5. /\ \A i \in 1 .. Len(w) : both[i] = w[i]
      /\ \A i \in Len(w) + 1 .. n - k : both[i] = f[i - Len(w)]
  BY <1>1, <1>2, <1>4
<1>6. both = w \o f
  OBVIOUS
<1> HIDE DEF both
<1>7. \A i \in 1 .. Len(w) : both[i] = k + i
  BY <1>5
<1>8. \A i \in Len(w) + 1 .. n - k : both[i] = k + i
  <2>1. ASSUME NEW i \in Len(w) + 1 .. n - k PROVE both[i] = k + i
    <3>1. i - Len(w) \in 1 .. n - (k + Len(w))
      BY <1>1
    <3>2. f[i - Len(w)] = k + Len(w) + (i - Len(w))
      BY <1>2, <3>1
    <3>3. both[i] = f[i - Len(w)]
      BY <1>5
    <3> QED BY <1>1, <3>2, <3>3
  <2> QED BY <2>1
<1>9. 1 .. n - k = (1 .. Len(w)) \cup (Len(w) + 1 .. n - k)
  BY <1>1
<1>10. \A i \in 1 .. n - k : both[i] = k + i
  BY <1>7, <1>8, <1>9, Zenon
<1> QED BY <1>3, <1>6, <1>10 DEF f

(* What is left of a stretch when its first number is taken. *)
LEMMA Taken ==
  ASSUME NEW w \in Seq(Nat), NEW k \in Nat, w # <<>>, \A i \in 1 .. Len(w) : w[i] = k + i
  PROVE  /\ Head(w) = k + 1 /\ Len(w) \in Nat /\ Len(w) >= 1
         /\ Len(Tail(w)) = Len(w) - 1
         /\ \A i \in 1 .. Len(w) - 1 : Tail(w)[i] = (k + 1) + i
<1>1. Len(w) \in Nat /\ Len(w) >= 1
  OBVIOUS
<1>2. Len(Tail(w)) = Len(w) - 1 /\ \A i \in 1 .. Len(w) - 1 : Tail(w)[i] = w[i + 1]
  BY <1>1
<1>3. Head(w) = k + 1
  BY <1>1
<1>4. ASSUME NEW i \in 1 .. Len(w) - 1 PROVE w[i + 1] = (k + 1) + i
  BY <1>1
<1> QED BY <1>1, <1>2, <1>3, <1>4

(* One more frame is shown. *)
LEMMA OneMore ==
  ASSUME NEW s \in Seq(Nat), \A i \in 1 .. Len(s) : s[i] = i
  PROVE  /\ Len(Append(s, Len(s) + 1)) = Len(s) + 1
         /\ \A i \in 1 .. Len(s) + 1 : Append(s, Len(s) + 1)[i] = i
<1>1. Len(s) \in Nat
  OBVIOUS
<1>2. ASSUME NEW i \in 1 .. Len(s) + 1 PROVE Append(s, Len(s) + 1)[i] = i
  <2>1. CASE i \in 1 .. Len(s)
    BY <2>1
  <2>2. CASE i = Len(s) + 1
    BY <1>1, <2>2
  <2> QED BY <1>1, <2>1, <2>2
<1> QED BY <1>1, <1>2

(* Letting go of a connection empties its wire. *)
LEMMA HangUpEffect ==
  ASSUME StreamTypeOK, NEW c \in Reader, HangUp(c)
  PROVE  /\ conn' \in [Reader -> Conn] /\ wire' \in [Reader -> Seq(Nat)]
         /\ conn'[c] = "none" /\ wire'[c] = <<>>
         /\ \A d \in Reader \ {c} : conn'[d] = conn[d] /\ wire'[d] = wire[d]
<1>1. <<>> \in Seq(Nat)
  OBVIOUS
<1> QED BY <1>1 DEF StreamTypeOK, HangUp, SetConn, Conn

(* Whatever happens, the state keeps its shape; a connection that failed   *)
(* once too often ends the reader's patience in the same step.             *)
LEMMA StreamShapeStep == StreamShape /\ Threaded /\ [StreamNext]_streamVars => StreamShape'
<1> USE StreamAssumption DEF StreamShape
<1> SUFFICES ASSUME StreamShape, Threaded, [StreamNext]_streamVars PROVE StreamTypeOK' /\ Patience'
  BY RunsOrReaders, ContractTypeStep
<1> USE DEF StreamTypeOK, Patience, Ui, Conn
<1>1. CASE UNCHANGED streamVars
  BY <1>1 DEF streamVars, readerVars, serverVars, clientVars
<1>2. CASE Backend
  BY <1>2 DEF Backend, readerVars, serverVars, clientVars
<1>3. ASSUME NEW c \in Reader PROVE Events(c) \in Seq(EventType) /\ Len(Events(c)) \in Nat
  BY DEF ContractTypeOK, Events
<1>4. ASSUME NEW c \in Reader, PollEvents(c) PROVE StreamTypeOK' /\ Patience'
  <2>1. Numbers(sent[c], Len(Events(c))) \in Seq(Nat)
    <3>1. sent[c] \in Nat /\ sent[c] <= Len(Events(c))
      BY <1>3, <1>4 DEF PollEvents, Threaded, Thread
    <3> QED BY <1>3, <3>1, NumbersInOrder
  <2> QED BY <1>3, <1>4, <2>1 DEF PollEvents, SetConn
<1>5. ASSUME NEW c \in Reader, PollStatus(c) \/ StreamExpires(c) PROVE StreamTypeOK' /\ Patience'
  BY <1>5 DEF PollStatus, StreamExpires, SetConn, clientVars
<1>6. ASSUME NEW c \in Reader, Follow(c) \/ Open(c) PROVE StreamTypeOK' /\ Patience'
  BY <1>6 DEF Follow, Open, SetConn, SetUi, serverVars, clientVars
<1>7. ASSUME NEW c \in Reader, ConnectionFails(c) \/ OpenRefused(c) PROVE StreamTypeOK' /\ Patience'
  <2>1. attempt[c] \in 0 .. MaxReconnects
    BY <1>7 DEF ConnectionFails, OpenRefused
  <2>2. attempt' = [attempt EXCEPT ![c] = attempt[c] + 1]
    BY <1>7 DEF ConnectionFails, OpenRefused
  <2>5. attempt[c] + 1 \in 0 .. MaxReconnects + 1
    BY <2>1
  <2>6. attempt' \in [Reader -> 0 .. MaxReconnects + 1]
    BY <2>2, <2>5
  <2>3. CASE ConnectionFails(c)
    <3>1. conn' \in [Reader -> Conn] /\ wire' \in [Reader -> Seq(Nat)]
      BY <2>3, HangUpEffect DEF ConnectionFails
    <3>2. ui' = [ui EXCEPT ![c] = IF attempt[c] + 1 > MaxReconnects THEN "error" ELSE "running"]
      BY <2>3 DEF ConnectionFails, SetUi
    <3>3. UNCHANGED <<follows, sent, fresh, cursor, shown, loading>>
      BY <2>3 DEF ConnectionFails
    <3> QED BY <2>1, <2>2, <2>6, <3>1, <3>2, <3>3
  <2>4. CASE OpenRefused(c)
    BY <2>2, <2>4, <2>6 DEF OpenRefused, SetUi, serverVars
  <2> QED BY <1>7, <2>3, <2>4
<1>8. ASSUME NEW c \in Reader, Receive(c) PROVE StreamTypeOK' /\ Patience'
  <2>1. Head(wire[c]) \in Nat /\ Tail(wire[c]) \in Seq(Nat)
    BY <1>8 DEF Receive
  <2>2. /\ shown' = [shown EXCEPT ![c] = Append(@, Head(wire[c]))]
        /\ cursor' = [cursor EXCEPT ![c] = Head(wire[c])]
        /\ UNCHANGED <<follows, sent, fresh, attempt>>
    BY <1>8 DEF Receive
  <2>3. shown' \in [Reader -> Seq(Nat)] /\ cursor' \in [Reader -> Nat]
    BY <2>1, <2>2
  <2>4. /\ conn' \in [Reader -> Conn] /\ wire' \in [Reader -> Seq(Nat)]
        /\ ui' \in [Reader -> Ui] /\ loading' \in [Reader -> BOOLEAN]
        /\ \A d \in Reader : ui'[d] = "running" \/ ui'[d] = "idle" => ui'[d] = ui[d]
    <3>1. CASE Events(c)[Head(wire[c])] \in Verdict
      <4>1. HangUp(c)
        BY <1>8, <3>1 DEF Receive
      <4>2. conn' \in [Reader -> Conn] /\ wire' \in [Reader -> Seq(Nat)]
        BY <4>1, HangUpEffect
      <4>3. PICK k \in {"resolving", "failed"} : ui' = [ui EXCEPT ![c] = k]
        BY <1>8, <3>1 DEF Receive, SetUi
      <4>4. loading' \in [Reader -> BOOLEAN]
        BY <1>8, <3>1 DEF Receive
      <4> QED BY <4>2, <4>3, <4>4
    <3>2. CASE Events(c)[Head(wire[c])] \notin Verdict
      BY <1>8, <2>1, <3>2 DEF Receive
    <3> QED BY <3>1, <3>2
  <2> QED BY <2>2, <2>3, <2>4
<1>9. ASSUME NEW c \in Reader, StreamCloses(c) \/ Cancel(c) PROVE StreamTypeOK' /\ Patience'
  BY <1>9, HangUpEffect DEF StreamCloses, Cancel, SetUi
<1>10. ASSUME NEW c \in Reader, ResolveResult(c) \/ ResolveFails(c) PROVE StreamTypeOK' /\ Patience'
  <2>1. PICK k \in {"complete", "failed", "ended", "error"} : ui' = [ui EXCEPT ![c] = k]
    BY <1>10 DEF ResolveResult, ResolveFails, SetUi
  <2>2. /\ loading' = [loading EXCEPT ![c] = FALSE]
        /\ UNCHANGED <<follows, conn, sent, fresh, wire, cursor, shown, attempt>>
    BY <1>10 DEF ResolveResult, ResolveFails, serverVars
  <2>3. ui' \in [Reader -> Ui] /\ \A d \in Reader : ui'[d] \in {"idle", "running"} => ui'[d] = ui[d]
    BY <2>1
  <2> QED BY <2>2, <2>3
<1> QED BY <1>1, <1>2, <1>4, <1>5, <1>6, <1>7, <1>8, <1>9, <1>10
        DEF StreamNext, ServerStep, ClientStep

(* A reader about whom nothing changes keeps the place while logs grow. *)
LEMMA ThreadFrame ==
  ASSUME StreamShape, NEW d \in Reader, Thread(d), [ContractNext]_contractVars,
         follows' = follows, shown'[d] = shown[d], cursor'[d] = cursor[d],
         wire'[d] = wire[d], conn'[d] = conn[d], sent'[d] = sent[d]
  PROVE  Thread(d)'
<1>1. follows[d] \in Run /\ cursor[d] \in Nat /\ Len(wire[d]) \in Nat
  BY DEF StreamShape, StreamTypeOK
<1>2. /\ Len(Events(d)) \in Nat /\ Len(Events(d)') \in Nat
      /\ Len(Events(d)) <= Len(Events(d)')
  BY <1>1, LogsGrow DEF StreamShape, Events
<1> QED BY <1>1, <1>2 DEF Thread

(* The generator appends what it read; the client takes the first frame,   *)
(* or loses all of them and resumes after the last one it showed.          *)
LEMMA ThreadedStep == StreamShape /\ Threaded /\ [StreamNext]_streamVars => Threaded'
<1> SUFFICES ASSUME StreamShape, Threaded, [StreamNext]_streamVars, NEW d \in Reader
             PROVE  Thread(d)'
  BY DEF Threaded
<1>0. Thread(d) /\ [ContractNext]_contractVars
  BY RunsOrReaders DEF Threaded
<1>t. /\ Len(Events(d)) \in Nat /\ cursor[d] \in Nat /\ sent[d] \in Nat
      /\ wire[d] \in Seq(Nat) /\ Len(wire[d]) \in Nat /\ shown[d] \in Seq(Nat)
  BY DEF StreamShape, StreamTypeOK, ContractTypeOK, Events
<1> USE DEF StreamShape, StreamTypeOK
<1>1. CASE UNCHANGED readerVars
  BY <1>0, <1>1, ThreadFrame DEF readerVars, serverVars, clientVars
<1>2. ASSUME NEW c \in Reader, PollEvents(c) PROVE Thread(d)'
  <2>1. CASE c # d
    BY <1>0, <1>2, <2>1, ThreadFrame DEF PollEvents, SetConn
  <2>2. CASE c = d
    <3> DEFINE n == Len(Events(d))
    <3>1. /\ wire'[d] = wire[d] \o Numbers(sent[d], n) /\ sent'[d] = n
          /\ conn'[d] = "read"
          /\ Events(d)' = Events(d) /\ shown'[d] = shown[d] /\ cursor'[d] = cursor[d]
      BY <1>2, <2>2 DEF PollEvents, SetConn, Conn, contractVars, Events
    <3>2. sent[d] = cursor[d] + Len(wire[d]) /\ sent[d] <= n
      BY <1>0, <1>2, <2>2 DEF PollEvents, Thread
    <3>3. \A i \in 1 .. Len(wire[d]) : wire[d][i] = cursor[d] + i
      BY <1>0 DEF Thread
    <3>6. n \in Nat /\ cursor[d] + Len(wire[d]) <= n /\ cursor[d] <= n
      BY <1>t, <3>2
    <3> DEFINE longer == wire[d] \o Numbers(cursor[d] + Len(wire[d]), n)
    <3>7. wire'[d] = longer /\ n = Len(Events(d))
      BY <3>1, <3>2
    <3> HIDE DEF n
    <3>8. wire[d] \in Seq(Nat)
      BY <1>t
    <3>9. cursor[d] \in Nat
      BY <1>t
    <3>10. Len(longer) = n - cursor[d] /\ \A i \in 1 .. n - cursor[d] : longer[i] = cursor[d] + i
      BY <3>3, <3>6, <3>8, <3>9, Appended
    <3> HIDE DEF longer
    <3>11. /\ Len(wire'[d]) = n - cursor'[d]
           /\ \A i \in 1 .. Len(wire'[d]) : wire'[d][i] = cursor'[d] + i
      BY <3>1, <3>7, <3>10
    <3>12. cursor'[d] + Len(wire'[d]) = n /\ n <= n
      BY <3>1, <3>6, <3>9, <3>11
    <3>13. Len(Events(d)') = n
      BY <3>1, <3>7
    <3>14. Len(shown'[d]) = cursor'[d] /\ \A i \in 1 .. Len(shown'[d]) : shown'[d][i] = i
      BY <1>0, <3>1 DEF Thread
    <3> QED BY <3>1, <3>11, <3>12, <3>13, <3>14 DEF Thread
  <2> QED BY <2>1, <2>2
<1>3. ASSUME NEW c \in Reader, PollStatus(c) \/ StreamExpires(c) PROVE Thread(d)'
  <2>1. CASE c # d
    BY <1>0, <1>3, <2>1, ThreadFrame DEF PollStatus, StreamExpires, SetConn, clientVars
  <2>2. CASE c = d
    BY <1>0, <1>3, <2>2 DEF PollStatus, StreamExpires, SetConn, clientVars, contractVars, Thread, Events
  <2> QED BY <2>1, <2>2
<1>4. ASSUME NEW c \in Reader, Follow(c) \/ ResolveResult(c) \/ ResolveFails(c) PROVE Thread(d)'
  BY <1>0, <1>4, ThreadFrame DEF Follow, ResolveResult, ResolveFails, serverVars
<1>5. ASSUME NEW c \in Reader, Open(c) PROVE Thread(d)'
  <2>1. CASE c # d
    BY <1>0, <1>5, <2>1, ThreadFrame DEF Open, SetConn, clientVars
  <2>2. CASE c = d
    BY <1>0, <1>t, <1>5, <2>2 DEF Open, SetConn, clientVars, contractVars, Thread, Events
  <2> QED BY <2>1, <2>2
<1>6. ASSUME NEW c \in Reader, HangUp(c), UNCHANGED <<contractVars, follows, sent, cursor, shown>>
      PROVE  Thread(d)'
  <2>1. CASE c # d
    BY <1>0, <1>6, <2>1, ThreadFrame, HangUpEffect
  <2>2. CASE c = d
    <3>1. conn'[d] = "none" /\ wire'[d] = <<>> /\ Len(wire'[d]) = 0
      BY <1>6, <2>2, HangUpEffect
    <3>2. Events(d)' = Events(d) /\ cursor'[d] = cursor[d] /\ shown'[d] = shown[d]
      BY <1>6 DEF contractVars, Events
    <3>3. cursor[d] <= Len(Events(d))
      BY <1>0, <1>t DEF Thread
    <3> QED BY <1>0, <1>t, <3>1, <3>2, <3>3 DEF Thread
  <2> QED BY <2>1, <2>2
<1>7. ASSUME NEW c \in Reader, ConnectionFails(c) \/ StreamCloses(c) \/ Cancel(c) PROVE Thread(d)'
  BY <1>6, <1>7 DEF ConnectionFails, StreamCloses, Cancel
<1>8. ASSUME NEW c \in Reader, OpenRefused(c) PROVE Thread(d)'
  BY <1>0, <1>8, ThreadFrame DEF OpenRefused, serverVars
<1>9. ASSUME NEW c \in Reader, Receive(c) PROVE Thread(d)'
  <2>1. CASE c # d
    <3>1. /\ follows' = follows /\ shown'[d] = shown[d] /\ cursor'[d] = cursor[d]
          /\ sent'[d] = sent[d]
      BY <1>9, <2>1 DEF Receive
    <3>2. wire'[d] = wire[d] /\ conn'[d] = conn[d]
      BY <1>9, <2>1, HangUpEffect DEF Receive
    <3> QED BY <1>0, <3>1, <3>2, ThreadFrame
  <2>2. CASE c = d
    <3>1. /\ wire[d] # <<>>
          /\ \A i \in 1 .. Len(wire[d]) : wire[d][i] = cursor[d] + i
          /\ \A i \in 1 .. Len(shown[d]) : shown[d][i] = i
          /\ Len(shown[d]) = cursor[d]
          /\ cursor[d] + Len(wire[d]) <= Len(Events(d))
          /\ conn[d] \in {"poll", "read"} => sent[d] = cursor[d] + Len(wire[d])
          /\ conn[d] # "none"
      BY <1>0, <1>9, <2>2 DEF Receive, Thread
    <3>2. /\ Head(wire[d]) = cursor[d] + 1 /\ Len(wire[d]) >= 1
          /\ Len(Tail(wire[d])) = Len(wire[d]) - 1
          /\ \A i \in 1 .. Len(wire[d]) - 1 : Tail(wire[d])[i] = (cursor[d] + 1) + i
      BY <1>t, <3>1, Taken
    <3>3. /\ shown'[d] = Append(shown[d], cursor[d] + 1) /\ cursor'[d] = cursor[d] + 1
          /\ sent'[d] = sent[d] /\ Events(d)' = Events(d)
      BY <1>9, <2>2, <3>2 DEF Receive, contractVars, Events
    <3>4. \/ conn'[d] = "none" /\ wire'[d] = <<>>
          \/ conn'[d] = conn[d] /\ wire'[d] = Tail(wire[d])
      BY <1>9, <2>2, HangUpEffect DEF Receive
    <3>5. Len(shown'[d]) = cursor[d] + 1 /\ \A i \in 1 .. cursor[d] + 1 : shown'[d][i] = i
      BY <1>t, <3>1, <3>3, OneMore
    <3>6. Len(shown'[d]) = cursor'[d] /\ \A i \in 1 .. Len(shown'[d]) : shown'[d][i] = i
      BY <3>3, <3>5
    <3>7. CASE conn'[d] = "none" /\ wire'[d] = <<>>
      <4>1. cursor'[d] + 0 <= Len(Events(d))
        BY <1>t, <3>1, <3>2, <3>3
      <4>2. Len(wire'[d]) = 0
        BY <3>7
      <4> QED BY <3>3, <3>6, <3>7, <4>1, <4>2 DEF Thread
    <3>8. CASE conn'[d] = conn[d] /\ wire'[d] = Tail(wire[d])
      <4>1. \A i \in 1 .. Len(wire'[d]) : wire'[d][i] = cursor'[d] + i
        BY <3>2, <3>3, <3>8
      <4>2. cursor'[d] + Len(wire'[d]) = cursor[d] + Len(wire[d])
        BY <1>t, <3>2, <3>3, <3>8
      <4> QED BY <3>1, <3>3, <3>6, <3>8, <4>1, <4>2 DEF Thread
    <3> QED BY <3>4, <3>7, <3>8
  <2> QED BY <2>1, <2>2
<1> QED BY <1>1, <1>2, <1>3, <1>4, <1>5, <1>7, <1>8, <1>9
        DEF StreamNext, ServerStep, ClientStep, Backend, streamVars

(* The answer and the failure the page shows are those of the row, and a   *)
(* row keeps its verdict.                                                  *)
LEMMA VerdictStep ==
  StreamInv /\ [StreamNext]_streamVars => UiTellsTheVerdict'
<1> SUFFICES ASSUME StreamInv, [StreamNext]_streamVars, NEW d \in Reader
             PROVE  /\ ui'[d] = "complete" => Status(d)' = "completed"
                    /\ ui'[d] = "failed" => Status(d)' = "failed"
  BY DEF UiTellsTheVerdict, Status
<1> USE DEF StreamInv, StreamShape, StreamTypeOK
<1>0. /\ ui[d] = "complete" => Status(d) = "completed"
      /\ ui[d] = "failed" => Status(d) = "failed"
  BY DEF UiTellsTheVerdict
<1>1. follows' = follows /\ follows[d] \in Run
  BY DEF StreamNext, streamVars, readerVars, Backend, ServerStep, ClientStep, PollEvents,
         PollStatus, StreamExpires, Follow, Open, ConnectionFails, OpenRefused, Receive,
         StreamCloses, ResolveResult, ResolveFails, Cancel
<1>2. Status(d) \in Verdict => Status(d)' = Status(d)
  BY <1>1, RunsOrReaders, LogsGrow DEF Status
<1>3. CASE ui'[d] = ui[d]
  BY <1>0, <1>2, <1>3 DEF Verdict
<1>4. CASE ui'[d] \notin {"complete", "failed"}
  BY <1>4
<1>5. CASE UNCHANGED readerVars
  BY <1>3, <1>5 DEF readerVars, clientVars
<1>6. ASSUME NEW c \in Reader,
             \/ PollEvents(c) \/ PollStatus(c) \/ StreamExpires(c) \/ Follow(c) \/ Open(c)
             \/ ConnectionFails(c) \/ OpenRefused(c) \/ StreamCloses(c) \/ ResolveFails(c)
             \/ Cancel(c)
      PROVE  ui'[d] = ui[d] \/ ui'[d] \notin {"complete", "failed"}
  BY <1>6 DEF PollEvents, PollStatus, StreamExpires, Follow, Open, ConnectionFails, OpenRefused,
              StreamCloses, ResolveFails, Cancel, SetUi, clientVars
<1>7. ASSUME NEW c \in Reader, ResolveResult(c)
      PROVE  /\ ui'[d] = "complete" => Status(d)' = "completed"
             /\ ui'[d] = "failed" => Status(d)' = "failed"
  <2>1. CASE c # d
    BY <1>3, <1>7, <2>1 DEF ResolveResult, SetUi
  <2>2. CASE c = d
    <3>1. Status(d)' = Status(d)
      BY <1>7 DEF ResolveResult, contractVars, Status
    <3>2. ui'[d] = CASE Status(d) = "completed" -> "complete"
                     [] Status(d) = "failed" -> "failed"
                     [] OTHER -> "ended"
      BY <1>7, <2>2 DEF ResolveResult, SetUi
    <3> QED BY <3>1, <3>2
  <2> QED BY <2>1, <2>2
<1>8. ASSUME NEW c \in Reader, Receive(c)
      PROVE  /\ ui'[d] = "complete" => Status(d)' = "completed"
             /\ ui'[d] = "failed" => Status(d)' = "failed"
  <2>1. CASE c # d
    BY <1>3, <1>8, <2>1 DEF Receive, SetUi
  <2>2. CASE c = d
    <3> DEFINE n == Head(wire[d])
    <3>1. wire[d] \in Seq(Nat) /\ wire[d] # <<>> /\ Thread(d) /\ cursor[d] \in Nat
      BY <1>8, <2>2 DEF Receive, Threaded
    <3>2. n = cursor[d] + 1 /\ Len(wire[d]) \in Nat /\ Len(wire[d]) >= 1
      BY <3>1, Taken DEF Thread
    <3>3. Len(log[follows[d]]) \in Nat
      BY <1>1 DEF ContractTypeOK
    <3>4. n \in 1 .. Len(log[follows[d]])
      <4>1. cursor[d] + Len(wire[d]) <= Len(log[follows[d]])
        BY <3>1 DEF Thread, Events
      <4> HIDE DEF n
      <4> QED BY <3>1, <3>2, <3>3, <4>1
    <3> HIDE DEF n
    <3>5. Events(d)[n] \in Verdict => Events(d)[n] = Status(d)
      BY <1>1, <3>4 DEF LogMatchesStatus, Events, Status
    <3>6. Status(d)' = Status(d)
      BY <1>8 DEF Receive, contractVars, Status
    <3>7. CASE Events(d)[n] \in Verdict
      <4>1. ui'[d] = IF Events(d)[n] = "completed" THEN "resolving" ELSE "failed"
        BY <1>8, <2>2, <3>7 DEF Receive, SetUi, n
      <4> QED BY <3>5, <3>6, <3>7, <4>1 DEF Verdict
    <3>8. CASE Events(d)[n] \notin Verdict
      BY <1>3, <1>8, <2>2, <3>8 DEF Receive, n
    <3> QED BY <3>7, <3>8
  <2> QED BY <2>1, <2>2
<1> QED BY <1>3, <1>4, <1>5, <1>6, <1>7, <1>8
        DEF StreamNext, ServerStep, ClientStep, Backend, streamVars

(* The invariant behind the theorems below. *)
LEMMA StreamSafe == StreamSpec => []StreamInv
<1>1. StreamInit => StreamInv
  <2> SUFFICES ASSUME StreamInit PROVE StreamInv
    OBVIOUS
  <2>1. ContractTypeOK /\ LogMatchesStatus
    BY DEF StreamInit, ContractInit, ContractTypeOK, LogMatchesStatus, Verdict
  <2>2. StreamTypeOK /\ Patience /\ UiTellsTheVerdict
    BY StreamAssumption DEF StreamInit, StreamTypeOK, Patience, UiTellsTheVerdict, Conn, Ui
  <2>3. ASSUME NEW c \in Reader PROVE Thread(c)
    <3>1. /\ shown[c] = <<>> /\ wire[c] = <<>> /\ cursor[c] = 0 /\ conn[c] = "none"
          /\ Events(c) = <<>>
      BY DEF StreamInit, ContractInit, Events
    <3> QED BY <3>1 DEF Thread
  <2> QED BY <2>1, <2>2, <2>3 DEF StreamInv, StreamShape, Threaded
<1>2. StreamInv /\ [StreamNext]_streamVars => StreamInv'
  BY StreamShapeStep, ThreadedStep, VerdictStep, RunsOrReaders, LogStep DEF StreamInv, StreamShape
<1> QED BY <1>1, <1>2, PTL DEF StreamSpec

(* The state of every reader, generator and connection keeps its shape,    *)
(* for any number of readers and reconnects.                               *)
THEOREM StreamTypeCorrect == StreamSpec => []StreamTypeOK
<1>1. StreamInv => StreamTypeOK
  BY DEF StreamInv, StreamShape
<1> QED BY <1>1, StreamSafe, PTL

(* api.ts ("the server resumes exactly where this client stopped"): over   *)
(* any number of broken connections, no frame is lost, repeated or out of  *)
(* order.                                                                  *)
THEOREM NoFrameLostOrRepeated == StreamSpec => []NothingMissedNothingTwice
<1>1. StreamInv => NothingMissedNothingTwice
  BY DEF StreamInv, Threaded, Thread, NothingMissedNothingTwice
<1> QED BY <1>1, StreamSafe, PTL

(* analyst-workspace.tsx, follow and resolveResult: however the stream     *)
(* ended, an answer is shown only for a completed run and a failure of the *)
(* run only for a failed one.                                              *)
THEOREM PageShowsTheVerdict == StreamSpec => []UiTellsTheVerdict
<1>1. StreamInv => UiTellsTheVerdict
  BY DEF StreamInv
<1> QED BY <1>1, StreamSafe, PTL
=============================================================================
