-------------------------- MODULE AdmissionProofs ---------------------------
(***************************************************************************)
(* Proofs about Admission, for any number of requests, any limits, windows *)
(* and quotas, and any number of faults.                                   *)
(*                                                                         *)
(* QuotaIsExact is inductive together with Counting: whoever is about to   *)
(* count a run has found or made the day's row, so that its count adds to  *)
(* the one counter of that day.  The sets of requests that were counted    *)
(* and have not created their run yet change by at most one request in a   *)
(* step, unless the process restarts.                                      *)
(*                                                                         *)
(* LessThanTwoWindows is inductive together with Sparse: a counter that    *)
(* expires in t ticks has counted more requests than were let in during    *)
(* the last Window - t ticks.  So whoever is let in by the counter of one  *)
(* window was preceded by few of the window before.                        *)
(***************************************************************************)
EXTENDS Admission, FiniteSetTheorems, TLAPS

Counting == \A p \in Request : step[p] \in {"update", "create"} => usage[day[p]] # NoUsage

QuotaInv == QuotaIsExact /\ Counting

-----------------------------------------------------------------------------
(* Types *)

(* What a check makes of a request is a request, one that has not passed   *)
(* unless its organization's key let it.                                   *)
LEMMA JudgedIsTyped ==
  ASSUME NEW c \in Call, NEW over \in BOOLEAN
  PROVE  /\ Judged(c, over) \in Call /\ JudgedUnavailable(c) \in Call
         /\ [c EXCEPT !.at = "expire", !.over = over] \in Call
  BY DEF Judged, JudgedUnavailable, Allowed, Idle, Call, Phase, Route, Key

(* A counter stops one above its limit. *)
LEMMA CountedIsTyped ==
  ASSUME LimiterTypeOK, NEW k \in Key
  PROVE  /\ Counted(k) \in [Key -> Nat]
         /\ \A j \in Key : Counted(k)[j] <= Limit[j] + 1
  BY LimiterAssumption DEF LimiterTypeOK, Counted

(* What is let in is counted in the first tick of the history. *)
LEMMA LetInIsTyped ==
  ASSUME LimiterTypeOK, NEW k \in Key, NEW n \in Nat, LetIn(k, n)
  PROVE  recent' \in [1 .. Window -> Nat]
  BY LimiterAssumption DEF LimiterTypeOK, LetIn

(* A check, its EXPIRE, or their failure. *)
LEMMA CheckTypeStep ==
  ASSUME LimiterTypeOK, call \in [Request -> Call], NEW p \in Request,
         CheckStep(p) \/ CheckFails(p)
  PROVE  /\ LimiterTypeOK'
         /\ \E c \in Call : call' = [call EXCEPT ![p] = c]
         /\ call[p].at \in {"check", "expire"}
<1> USE LimiterAssumption
<1> DEFINE k == KeyOf(p)
<1>1. call[p] \in Call /\ k \in Key /\ call[p].over \in BOOLEAN
  BY DEF KeyOf, Call
<1>2. /\ Counted(k) \in [Key -> Nat]
      /\ \A j \in Key : Counted(k)[j] <= Limit[j] + 1
  BY <1>1, CountedIsTyped
<1>3. Expired(k) \in [Key -> 1 .. Window \cup {NoExpiry}]
  BY <1>1 DEF Expired, LimiterTypeOK
<1>4. Uncounted(p) \in Nat /\ Over(k) \in BOOLEAN
  BY <1>1 DEF Uncounted, Over
<1>5. [call[p] EXCEPT !.over = FALSE] \in Call
  BY <1>1 DEF Call
<1>6. \A over \in BOOLEAN :
        /\ Judged(call[p], over) \in Call
        /\ Judged([call[p] EXCEPT !.over = FALSE], over) \in Call
        /\ JudgedUnavailable([call[p] EXCEPT !.over = FALSE]) \in Call
        /\ [call[p] EXCEPT !.at = "expire", !.over = over] \in Call
  BY <1>1, <1>5, JudgedIsTyped
<1>7. CASE MemoryCheck(p)
  <2>1. recent' \in [1 .. Window -> Nat]
    BY <1>1, <1>7, LetInIsTyped DEF MemoryCheck
  <2>2. ttl' \in [Key -> 1 .. Window \cup {NoExpiry}]
    <3>1. Window \in 1 .. Window
      OBVIOUS
    <3> QED BY <1>7, <3>1 DEF MemoryCheck, LimiterTypeOK
  <2> QED BY <1>2, <1>4, <1>6, <1>7, <2>1, <2>2 DEF MemoryCheck, LimiterTypeOK, At
<1>8. CASE RedisCheck(p)
  <2>1. recent' \in [1 .. Window -> Nat]
    BY <1>1, <1>8, LetInIsTyped DEF RedisCheck
  <2> QED BY <1>2, <1>4, <1>6, <1>8, <2>1 DEF RedisCheck, LimiterTypeOK, At
<1>9. CASE RedisExpire(p)
  BY <1>1, <1>3, <1>6, <1>9 DEF RedisExpire, LimiterTypeOK, At
<1>10. CASE RedisCheckFails(p)
  <2>1. recent' \in [1 .. Window -> Nat]
    BY <1>1, <1>4, <1>10, LetInIsTyped DEF RedisCheckFails
  <2>2. faults' \in 0 .. MaxFaults
    BY <1>10 DEF RedisCheckFails, Fault, LimiterTypeOK
  <2>3. \E c \in Call : call' = [call EXCEPT ![p] = c]
    BY <1>6, <1>10 DEF RedisCheckFails, Unavailable
  <2> QED BY <1>10, <2>1, <2>2, <2>3 DEF RedisCheckFails, LimiterTypeOK, At
<1>11. CASE RedisReplyLost(p)
  <2>1. recent' \in [1 .. Window -> Nat]
    BY <1>1, <1>4, <1>11, LetInIsTyped DEF RedisReplyLost
  <2>2. faults' \in 0 .. MaxFaults
    BY <1>11 DEF RedisReplyLost, Fault, LimiterTypeOK
  <2>3. \E c \in Call : call' = [call EXCEPT ![p] = c]
    BY <1>6, <1>11 DEF RedisReplyLost, Unavailable
  <2> QED BY <1>2, <1>11, <2>1, <2>2, <2>3 DEF RedisReplyLost, LimiterTypeOK, At
<1>12. CASE RedisExpireFails(p)
  <2>1. recent' \in [1 .. Window -> Nat]
    BY <1>1, <1>4, <1>12, LetInIsTyped DEF RedisExpireFails
  <2>2. ttl' \in [Key -> 1 .. Window \cup {NoExpiry}]
    BY <1>3, <1>12 DEF RedisExpireFails, LimiterTypeOK
  <2>3. faults' \in 0 .. MaxFaults
    BY <1>12 DEF RedisExpireFails, Fault, LimiterTypeOK
  <2>4. \E c \in Call : call' = [call EXCEPT ![p] = c]
    BY <1>6, <1>12 DEF RedisExpireFails, Unavailable
  <2> QED BY <1>12, <2>1, <2>2, <2>3, <2>4 DEF RedisExpireFails, LimiterTypeOK, At
<1> QED BY <1>7, <1>8, <1>9, <1>10, <1>11, <1>12 DEF CheckStep, CheckFails

(* Every step keeps the state well typed. *)
LEMMA AdmissionTypeStep ==
  AdmissionTypeOK /\ [AdmissionNext]_admissionVars => AdmissionTypeOK'
<1> SUFFICES ASSUME AdmissionTypeOK, [AdmissionNext]_admissionVars PROVE AdmissionTypeOK'
  OBVIOUS
<1> USE LimiterAssumption, AdmissionAssumption
<1>1. CASE UNCHANGED admissionVars
  BY <1>1 DEF AdmissionTypeOK, LimiterTypeOK, At, admissionVars, limiterVars, quotaVars
<1>2. LimiterTypeOK /\ call \in [Request -> Call] /\ Idle \in Call
  BY DEF AdmissionTypeOK, Idle, Call, Phase, Route, Key
<1>3. ASSUME NEW p \in Request, Leave(p)
      PROVE  /\ call' \in [Request -> Call]
             /\ step' \in [Request -> Step]
             /\ day' \in [Request -> Day]
             /\ \A q \in Request : step'[q] # "none" => At(q, "passed")'
  BY <1>2, <1>3 DEF Leave, Go, AdmissionTypeOK, Step, Day, At
<1>4. ASSUME NEW p \in Request, LookUpUsage(p) PROVE AdmissionTypeOK'
  BY <1>4 DEF LookUpUsage, Go, AdmissionTypeOK, LimiterTypeOK, limiterVars, Step, At
<1>5. ASSUME NEW p \in Request, InsertUsage(p) PROVE AdmissionTypeOK'
  BY <1>5 DEF InsertUsage, FreshUsage, Go, AdmissionTypeOK, LimiterTypeOK, limiterVars, Step, At
<1>6. ASSUME NEW p \in Request, CountRun(p) PROVE AdmissionTypeOK'
  <2>1. usage' \in [Day -> Nat \cup {NoUsage}]
    BY <1>6 DEF CountRun, AdmissionTypeOK, NoUsage
  <2> QED BY <1>6, <2>1 DEF CountRun, Go, AdmissionTypeOK, LimiterTypeOK, limiterVars, Step, At
<1>7. ASSUME NEW p \in Request, QuotaExceeded(p) PROVE AdmissionTypeOK'
  BY <1>3, <1>7 DEF QuotaExceeded, LimiterRest, AdmissionTypeOK, LimiterTypeOK
<1>8. ASSUME NEW p \in Request, CreateRun(p) PROVE AdmissionTypeOK'
  <2>1. LimiterTypeOK' /\ UNCHANGED <<today, usage>>
    BY <1>2, <1>8 DEF CreateRun, LimiterRest, LimiterTypeOK
  <2>2. runs' \in [Day -> Nat]
    BY <1>8 DEF CreateRun, AdmissionTypeOK
  <2> QED BY <1>3, <1>8, <2>1, <2>2 DEF CreateRun, AdmissionTypeOK
<1>9. ASSUME NEW p \in Request, RequestDies(p) PROVE AdmissionTypeOK'
  BY <1>3, <1>9 DEF RequestDies, Fault, AdmissionTypeOK, LimiterTypeOK
<1>10. ASSUME NEW p \in Request, LimiterOnly(p), UNCHANGED quotaVars PROVE AdmissionTypeOK'
  <2>1. ASSUME NEW route \in Route, Arrive(p, route)
        PROVE  /\ LimiterTypeOK'
               /\ \E c \in Call : call' = [call EXCEPT ![p] = c]
               /\ call[p].at = "idle"
    <3> DEFINE c == [at |-> "check", route |-> route, key |-> FirstKey(route), over |-> FALSE]
    <3>1. c \in Call
      BY DEF FirstKey, Call, Phase, Route, Key
    <3>2. call' = [call EXCEPT ![p] = c] /\ call[p].at = "idle"
      BY <2>1 DEF Arrive, At
    <3>3. LimiterTypeOK'
      BY <1>2, <2>1 DEF Arrive, LimiterTypeOK
    <3> QED BY <3>1, <3>2, <3>3
  <2>2. /\ LimiterTypeOK'
        /\ \E c \in Call : call' = [call EXCEPT ![p] = c]
        /\ call[p].at # "passed"
    BY <1>2, <1>10, <2>1, CheckTypeStep DEF LimiterOnly
  <2> QED BY <1>2, <1>10, <2>2 DEF AdmissionTypeOK, quotaVars, At
<1>11. CASE (Tick \/ Flush) /\ UNCHANGED quotaVars
  <2>1. CASE Tick
    <3>1. ttl' \in [Key -> 1 .. Window \cup {NoExpiry}]
      BY <2>1 DEF Tick, AdmissionTypeOK, LimiterTypeOK, NoExpiry
    <3>2. recent' \in [1 .. Window -> Nat]
      BY <2>1 DEF Tick, AdmissionTypeOK, LimiterTypeOK
    <3>3. count' \in [Key -> Nat] /\ \A k \in Key : count'[k] <= Limit[k] + 1
      BY <2>1 DEF Tick, AdmissionTypeOK, LimiterTypeOK
    <3> QED BY <1>11, <2>1, <3>1, <3>2, <3>3
            DEF Tick, AdmissionTypeOK, LimiterTypeOK, quotaVars, At
  <2>2. CASE Flush
    BY <1>11, <2>2 DEF Flush, Fault, NoHits, NoDeadlines, NothingLetIn, AdmissionTypeOK,
                       LimiterTypeOK, quotaVars, At
  <2> QED BY <1>11, <2>1, <2>2
<1>12. CASE /\ Restart
            /\ step' = [p \in Request |-> "none"] /\ day' = [p \in Request |-> 0]
            /\ UNCHANGED <<today, usage, runs>>
  <2>1. LimiterTypeOK'
    <3>1. /\ NoHits \in [Key -> Nat] /\ \A k \in Key : NoHits[k] <= Limit[k] + 1
          /\ NoDeadlines \in [Key -> 1 .. Window \cup {NoExpiry}]
          /\ NothingLetIn \in [1 .. Window -> Nat]
      BY DEF NoHits, NoDeadlines, NothingLetIn
    <3> QED BY <1>12, <3>1 DEF Restart, Fault, AdmissionTypeOK, LimiterTypeOK
  <2> QED BY <1>2, <1>12, <2>1 DEF Restart, AdmissionTypeOK, Step, Day, At
<1>13. CASE Midnight
  BY <1>13 DEF Midnight, AdmissionTypeOK, LimiterTypeOK, limiterVars, Day, At
<1> QED BY <1>1, <1>4, <1>5, <1>6, <1>7, <1>8, <1>9, <1>10, <1>11, <1>12, <1>13
        DEF AdmissionNext, RunStep

(* An API that has just started. *)
LEMMA AdmissionStart == AdmissionInit => AdmissionTypeOK
<1> SUFFICES ASSUME AdmissionInit PROVE AdmissionTypeOK
  OBVIOUS
<1> USE LimiterAssumption, AdmissionAssumption
<1>1. LimiterTypeOK
  BY DEF AdmissionInit, LimiterInit, LimiterTypeOK, NoHits, NoDeadlines, NothingLetIn
<1>2. Idle \in Call
  BY DEF Idle, Call, Phase, Route, Key
<1> QED BY <1>1, <1>2
        DEF AdmissionInit, LimiterInit, AdmissionTypeOK, Day, NoUsage, Step

-----------------------------------------------------------------------------
(* The quota *)

(* There are finitely many requests, and so many are counted and have not  *)
(* created their run.                                                      *)
LEMMA HoldingIsFinite ==
  ASSUME NEW d
  PROVE  IsFiniteSet(Holding(d)) /\ Cardinality(Holding(d)) \in Nat
<1>1. Holding(d) \subseteq Request
  BY DEF Holding
<1> QED BY <1>1, LimiterAssumption, FS_Subset, FS_CardinalityType

(* A step that disturbs neither the requests between count and creation    *)
(* nor the counters.                                                       *)
LEMMA QuotaUntouched ==
  ASSUME AdmissionTypeOK, QuotaInv, runs' = runs,
         faults' = faults \/ (faults' \in Nat /\ faults' > 0),
         \A p \in Request : /\ step'[p] = "create" <=> step[p] = "create"
                            /\ step[p] = "create" => day'[p] = day[p],
         \A d \in Day : Counter(d)' = Counter(d)
  PROVE  QuotaIsExact'
<1>1. ASSUME NEW d \in Day PROVE Holding(d)' = Holding(d)
  BY DEF Holding
<1> QED BY <1>1 DEF QuotaInv, QuotaIsExact, AdmissionTypeOK, LimiterTypeOK

(* A request that leaves before its run exists: it had not been counted,   *)
(* or it died.                                                             *)
LEMMA RequestLost ==
  ASSUME AdmissionTypeOK, QuotaInv, NEW p \in Request, Leave(p),
         step[p] = "create" => faults' # 0,
         faults' = faults \/ faults' # 0, usage' = usage, runs' = runs
  PROVE  QuotaInv'
<1> USE LimiterAssumption, AdmissionAssumption
<1>1. \A q \in Request : /\ step'[q] = IF q = p THEN "none" ELSE step[q]
                         /\ q # p => day'[q] = day[q]
  BY DEF Leave, Go, AdmissionTypeOK
<1>2. ASSUME NEW d \in Day
      PROVE  /\ Cardinality(Holding(d)') <= Cardinality(Holding(d))
             /\ step[p] # "create" => Holding(d)' = Holding(d)
             /\ Cardinality(Holding(d)') \in Nat
  <2>1. Holding(d)' \subseteq Holding(d)
    BY <1>1 DEF Holding
  <2>2. step[p] # "create" => Holding(d)' = Holding(d)
    BY <1>1 DEF Holding
  <2> QED BY <2>1, <2>2, HoldingIsFinite, FS_Subset, FS_CardinalityType
<1>3. ASSUME NEW d \in Day
      PROVE  LET claimed == runs[d] + Cardinality(Holding(d)') IN
             /\ Counter(d) <= Quota
             /\ claimed <= Counter(d)
             /\ faults' = 0 => claimed = Counter(d)
  <2>1. /\ runs[d] \in Nat /\ Counter(d) \in Nat
        /\ Cardinality(Holding(d)) \in Nat /\ Cardinality(Holding(d)') \in Nat
    BY <1>2, HoldingIsFinite DEF AdmissionTypeOK, Counter, NoUsage
  <2>2. /\ Counter(d) <= Quota
        /\ runs[d] + Cardinality(Holding(d)) <= Counter(d)
        /\ faults = 0 => runs[d] + Cardinality(Holding(d)) = Counter(d)
    BY DEF QuotaInv, QuotaIsExact
  <2> QED BY <1>2, <2>1, <2>2
<1>4. QuotaIsExact'
  BY <1>3 DEF QuotaIsExact, Counter
<1>5. Counting'
  BY <1>1 DEF QuotaInv, Counting
<1> QED BY <1>4, <1>5 DEF QuotaInv

(* The quota and the counting survive every step. *)
LEMMA QuotaStep ==
  AdmissionTypeOK /\ QuotaInv /\ [AdmissionNext]_admissionVars => QuotaInv'
<1> SUFFICES ASSUME AdmissionTypeOK, QuotaInv, [AdmissionNext]_admissionVars PROVE QuotaInv'
  OBVIOUS
<1> USE LimiterAssumption, AdmissionAssumption
<1>1. faults \in Nat /\ \A d \in Day : Counter(d) \in Nat /\ runs[d] \in Nat
  BY DEF AdmissionTypeOK, LimiterTypeOK, Counter, NoUsage
<1>2. ASSUME UNCHANGED <<today, usage, step, day, runs>>,
             faults' = faults \/ (faults' \in Nat /\ faults' > 0)
      PROVE  QuotaInv'
  <2>1. QuotaIsExact'
    BY <1>2, QuotaUntouched DEF Counter
  <2>2. Counting'
    BY <1>2 DEF QuotaInv, Counting
  <2> QED BY <2>1, <2>2 DEF QuotaInv
<1>3. CASE UNCHANGED admissionVars
  BY <1>2, <1>3 DEF admissionVars, limiterVars, quotaVars
<1>4. ASSUME NEW p \in Request, LookUpUsage(p) PROVE QuotaInv'
  <2>1. \A q \in Request :
          /\ q # p => step'[q] = step[q] /\ day'[q] = day[q]
          /\ q = p => /\ step[q] = "none" /\ day'[q] = today
                      /\ step'[q] = IF usage[today] = NoUsage THEN "insert" ELSE "update"
    BY <1>4 DEF LookUpUsage, Go, AdmissionTypeOK
  <2>2. usage' = usage /\ runs' = runs /\ faults' = faults
    BY <1>4 DEF LookUpUsage, limiterVars
  <2>3. QuotaIsExact'
    BY <2>1, <2>2, QuotaUntouched DEF Counter
  <2>4. Counting'
    BY <2>1, <2>2 DEF QuotaInv, Counting
  <2> QED BY <2>3, <2>4 DEF QuotaInv
<1>5. ASSUME NEW p \in Request, InsertUsage(p) PROVE QuotaInv'
  <2>1. day[p] \in Day
    BY DEF AdmissionTypeOK
  <2>2. \A q \in Request : step'[q] = IF q = p THEN "update" ELSE step[q]
    BY <1>5 DEF InsertUsage, Go, AdmissionTypeOK
  <2>3. \A d \in Day : usage'[d] = IF d = day[p] /\ usage[d] = NoUsage THEN 0 ELSE usage[d]
    BY <1>5, <2>1 DEF InsertUsage, FreshUsage, AdmissionTypeOK
  <2>4. day' = day /\ runs' = runs /\ faults' = faults /\ step[p] = "insert"
    BY <1>5 DEF InsertUsage, limiterVars
  <2>5. \A d \in Day : Counter(d)' = Counter(d)
    BY <2>3 DEF Counter, NoUsage
  <2>6. QuotaIsExact'
    BY <2>2, <2>4, <2>5, QuotaUntouched
  <2>7. \A q \in Request : day[q] \in Day
    BY DEF AdmissionTypeOK
  <2>8. Counting'
    BY <2>2, <2>3, <2>4, <2>7 DEF QuotaInv, Counting, NoUsage
  <2> QED BY <2>6, <2>8 DEF QuotaInv
<1>6. ASSUME NEW p \in Request, CountRun(p) PROVE QuotaInv'
  <2> DEFINE e == day[p]
  <2>1. e \in Day /\ usage[e] \in Nat /\ step[p] = "update" /\ usage[e] < Quota
    BY <1>6 DEF CountRun, QuotaInv, Counting, AdmissionTypeOK, NoUsage
  <2>2. \A q \in Request : step'[q] = IF q = p THEN "create" ELSE step[q]
    BY <1>6 DEF CountRun, Go, AdmissionTypeOK
  <2>3. \A d \in Day : usage'[d] = IF d = e THEN usage[e] + 1 ELSE usage[d]
    BY <1>6 DEF CountRun, AdmissionTypeOK
  <2>4. day' = day /\ runs' = runs /\ faults' = faults
    BY <1>6 DEF CountRun, limiterVars
  <2>5. ASSUME NEW d \in Day
        PROVE  Cardinality(Holding(d)') = Cardinality(Holding(d)) + (IF d = e THEN 1 ELSE 0)
    <3>1. CASE d = e
      <4>1. Holding(d)' = Holding(d) \cup {p} /\ p \notin Holding(d)
        BY <2>1, <2>2, <2>4, <3>1 DEF Holding
      <4> QED BY <3>1, <4>1, HoldingIsFinite, FS_AddElement
    <3>2. CASE d # e
      <4>1. Holding(d)' = Holding(d)
        BY <2>1, <2>2, <2>4, <3>2 DEF Holding
      <4> QED BY <3>2, <4>1, HoldingIsFinite
    <3> QED BY <3>1, <3>2
  <2>6. \A d \in Day : Counter(d)' = Counter(d) + (IF d = e THEN 1 ELSE 0)
    BY <1>1, <2>1, <2>3 DEF Counter, NoUsage
  <2>7. QuotaIsExact'
    <3> SUFFICES ASSUME NEW d \in Day
                 PROVE  LET claimed == runs'[d] + Cardinality(Holding(d)') IN
                        /\ Counter(d)' <= Quota
                        /\ claimed <= Counter(d)'
                        /\ faults' = 0 => claimed = Counter(d)'
      BY DEF QuotaIsExact
    <3>1. /\ Counter(d) <= Quota
          /\ runs[d] + Cardinality(Holding(d)) <= Counter(d)
          /\ faults = 0 => runs[d] + Cardinality(Holding(d)) = Counter(d)
          /\ d = e => Counter(d) < Quota
      BY <2>1 DEF QuotaInv, QuotaIsExact, Counter
    <3>2. Cardinality(Holding(d)) \in Nat
      BY HoldingIsFinite
    <3> QED BY <1>1, <2>4, <2>5, <2>6, <3>1, <3>2
  <2>8. Counting'
    BY <2>1, <2>2, <2>3, <2>4 DEF QuotaInv, Counting, AdmissionTypeOK, NoUsage
  <2> QED BY <2>7, <2>8 DEF QuotaInv
<1>7. ASSUME NEW p \in Request, QuotaExceeded(p) PROVE QuotaInv'
  BY <1>7, RequestLost DEF QuotaExceeded, LimiterRest
<1>8. ASSUME NEW p \in Request, CreateRun(p) PROVE QuotaInv'
  <2> DEFINE e == day[p]
  <2>1. e \in Day /\ step[p] = "create"
    BY <1>8 DEF CreateRun, AdmissionTypeOK
  <2>2. \A q \in Request : /\ step'[q] = IF q = p THEN "none" ELSE step[q]
                           /\ q # p => day'[q] = day[q]
    BY <1>8 DEF CreateRun, Leave, Go, AdmissionTypeOK
  <2>3. \A d \in Day : runs'[d] = IF d = e THEN runs[e] + 1 ELSE runs[d]
    BY <1>8 DEF CreateRun, AdmissionTypeOK
  <2>4. usage' = usage /\ faults' = faults
    BY <1>8 DEF CreateRun, LimiterRest
  <2>5. ASSUME NEW d \in Day
        PROVE  Cardinality(Holding(d)') + (IF d = e THEN 1 ELSE 0) = Cardinality(Holding(d))
    <3>1. CASE d = e
      <4>1. Holding(d)' = Holding(d) \ {p} /\ p \in Holding(d)
        BY <2>1, <2>2, <3>1 DEF Holding
      <4> DEFINE before == Holding(d)
      <4>2. IsFiniteSet(before)
        BY HoldingIsFinite
      <4> HIDE DEF before
      <4>3. Cardinality(before \ {p}) = IF p \in before THEN Cardinality(before) - 1
                                       ELSE Cardinality(before)
        BY <4>2, FS_RemoveElement
      <4>4. Cardinality(Holding(d)') = Cardinality(Holding(d)) - 1
        BY <4>1, <4>3 DEF before
      <4> QED BY <3>1, <4>4, HoldingIsFinite
    <3>2. CASE d # e
      <4>1. Holding(d)' = Holding(d)
        BY <2>1, <2>2, <3>2 DEF Holding
      <4> QED BY <3>2, <4>1, HoldingIsFinite
    <3> QED BY <3>1, <3>2
  <2>6. QuotaIsExact'
    <3> SUFFICES ASSUME NEW d \in Day
                 PROVE  LET claimed == runs'[d] + Cardinality(Holding(d)') IN
                        /\ Counter(d)' <= Quota
                        /\ claimed <= Counter(d)'
                        /\ faults' = 0 => claimed = Counter(d)'
      BY DEF QuotaIsExact
    <3>1. /\ Counter(d) <= Quota
          /\ runs[d] + Cardinality(Holding(d)) <= Counter(d)
          /\ faults = 0 => runs[d] + Cardinality(Holding(d)) = Counter(d)
      BY DEF QuotaInv, QuotaIsExact
    <3>2. Counter(d)' = Counter(d)
      BY <2>4 DEF Counter
    <3>3. IsFiniteSet(Holding(d)') /\ Cardinality(Holding(d)') \in Nat
      <4>1. Holding(d)' \subseteq Request
        BY DEF Holding
      <4> QED BY <4>1, FS_Subset, FS_CardinalityType
    <3> QED BY <1>1, <2>3, <2>4, <2>5, <3>1, <3>2, <3>3
  <2>7. Counting'
    BY <2>2, <2>4 DEF QuotaInv, Counting
  <2> QED BY <2>6, <2>7 DEF QuotaInv
<1>9. ASSUME NEW p \in Request, RequestDies(p) PROVE QuotaInv'
  <2>1. faults' # 0
    BY <1>1, <1>9 DEF RequestDies, Fault
  <2> QED BY <1>9, <2>1, RequestLost DEF RequestDies
<1>10. ASSUME NEW p \in Request, LimiterOnly(p), UNCHANGED quotaVars PROVE QuotaInv'
  <2>1. faults' = faults \/ faults' = faults + 1
    BY <1>10 DEF LimiterOnly, CheckStep, CheckFails, Arrive, MemoryCheck, RedisCheck,
                 RedisExpire, RedisCheckFails, RedisReplyLost, RedisExpireFails, Fault
  <2> QED BY <1>1, <1>2, <1>10, <2>1 DEF quotaVars
<1>11. CASE (Tick \/ Flush) /\ UNCHANGED quotaVars
  BY <1>1, <1>2, <1>11 DEF Tick, Flush, Fault, quotaVars
<1>12. CASE /\ Restart
            /\ step' = [p \in Request |-> "none"] /\ day' = [p \in Request |-> 0]
            /\ UNCHANGED <<today, usage, runs>>
  <2>1. faults' # 0
    BY <1>1, <1>12 DEF Restart, Fault
  <2>2. ASSUME NEW d \in Day
        PROVE  runs[d] + Cardinality(Holding(d)') <= Counter(d) /\ Counter(d) <= Quota
    <3>1. Holding(d)' = {}
      BY <1>12 DEF Holding
    <3>2. Cardinality(Holding(d)') = 0
      BY <3>1, FS_EmptySet
    <3>3. runs[d] + Cardinality(Holding(d)) <= Counter(d) /\ Counter(d) <= Quota
      BY DEF QuotaInv, QuotaIsExact
    <3> QED BY <1>1, <3>2, <3>3, HoldingIsFinite
  <2>3. QuotaIsExact'
    BY <1>12, <2>1, <2>2 DEF QuotaIsExact, Counter
  <2>4. Counting'
    BY <1>12 DEF Counting
  <2> QED BY <2>3, <2>4 DEF QuotaInv
<1>13. CASE Midnight
  <2>1. QuotaIsExact'
    BY <1>13, QuotaUntouched DEF Midnight, limiterVars, Counter
  <2>2. Counting'
    BY <1>13 DEF Midnight, QuotaInv, Counting
  <2> QED BY <2>1, <2>2 DEF QuotaInv
<1> QED BY <1>3, <1>4, <1>5, <1>6, <1>7, <1>8, <1>9, <1>10, <1>11, <1>12, <1>13
        DEF AdmissionNext, RunStep

(* No row, no run, nobody counted. *)
LEMMA QuotaStart == AdmissionInit => QuotaInv
<1> SUFFICES ASSUME AdmissionInit PROVE QuotaInv
  OBVIOUS
<1>1. ASSUME NEW d \in Day PROVE Cardinality(Holding(d)) = 0
  <2>1. Holding(d) = {}
    BY DEF AdmissionInit, Holding
  <2> QED BY <2>1, FS_EmptySet
<1>2. \A d \in Day : Counter(d) = 0 /\ runs[d] = 0
  BY DEF AdmissionInit, Counter
<1>3. QuotaIsExact
  BY <1>1, <1>2, AdmissionAssumption DEF QuotaIsExact
<1>4. Counting
  BY DEF AdmissionInit, Counting
<1> QED BY <1>3, <1>4 DEF QuotaInv

-----------------------------------------------------------------------------
(* Limiter, requests and quota are well typed: a counter never leaves what *)
(* its limit allows, and a request is at the quota only if the limiter let *)
(* it pass.                                                                *)
THEOREM AdmissionTypeCorrect == AdmissionSpec => []AdmissionTypeOK
  BY AdmissionStart, AdmissionTypeStep, PTL DEF AdmissionSpec

(* consume_daily_quota: however many requests race for a day, its first    *)
(* row included, at most the quota is counted, every run is paid for by a  *)
(* count of its own, and without faults no count is wasted.                *)
THEOREM QuotaHolds == AdmissionSpec => []QuotaIsExact
<1>1. AdmissionInit => AdmissionTypeOK /\ QuotaInv
  BY AdmissionStart, QuotaStart
<1>2. AdmissionTypeOK /\ QuotaInv /\ [AdmissionNext]_admissionVars
        => AdmissionTypeOK' /\ QuotaInv'
  BY AdmissionTypeStep, QuotaStep
<1>3. QuotaInv => QuotaIsExact
  BY DEF QuotaInv
<1> QED BY <1>1, <1>2, <1>3, PTL DEF AdmissionSpec

-----------------------------------------------------------------------------
(* The sliding window.  A counter that will expire in t ticks was last     *)
(* given its expiry Window - t ticks ago, and its first request came       *)
(* before that: the requests let in since then are fewer than it counts.   *)
(* When the counter goes, fewer than Limit of its requests are still       *)
(* recent, and nothing older is; its successor adds at most Limit.         *)
Grants(rec, n) == UNION {{i} \X (1 .. rec[i]) : i \in 1 .. n}
Size(rec, n) == Cardinality(Grants(rec, n))

LEMMA GrantsFinite ==
  ASSUME NEW rec \in [1 .. Window -> Nat], NEW n \in 0 .. Window
  PROVE  IsFiniteSet(Grants(rec, n)) /\ Size(rec, n) \in Nat
<1> USE LimiterAssumption
<1> DEFINE Ticks == {{i} \X (1 .. rec[i]) : i \in 1 .. n}
           f == [i \in 1 .. n |-> {i} \X (1 .. rec[i])]
<1>1. IsFiniteSet(1 .. n)
  BY FS_Interval
<1>2. f \in Surjection(1 .. n, Ticks)
  BY DEF Surjection
<1>3. IsFiniteSet(Ticks)
  <2> HIDE DEF f, Ticks
  <2> QED BY <1>1, <1>2, FS_Surjection
<1>4. ASSUME NEW i \in 1 .. n PROVE IsFiniteSet({i} \X (1 .. rec[i]))
  <2>1. rec[i] \in Nat
    OBVIOUS
  <2>2. IsFiniteSet(1 .. rec[i])
    BY <2>1, FS_Interval
  <2>3. IsFiniteSet({i})
    BY FS_Singleton
  <2> QED BY <2>2, <2>3, FS_Product
<1>5. IsFiniteSet(Grants(rec, n))
  <2>1. \A T \in Ticks : IsFiniteSet(T)
    BY <1>4
  <2> HIDE DEF Ticks
  <2>2. IsFiniteSet(UNION Ticks)
    BY <1>3, <2>1, FS_UNION
  <2> QED BY <2>2 DEF Grants, Ticks
<1> QED BY <1>5, FS_CardinalityType DEF Size

LEMMA GrantsGrow ==
  ASSUME NEW rec \in [1 .. Window -> Nat], NEW n \in 0 .. Window, NEW m \in 0 .. Window, n <= m
  PROVE  Size(rec, n) <= Size(rec, m)
<1>1. Grants(rec, n) \subseteq Grants(rec, m)
  BY LimiterAssumption DEF Grants
<1> QED BY <1>1, GrantsFinite, FS_Subset DEF Size

LEMMA NoGrants ==
  /\ \A rec : Size(rec, 0) = 0
  /\ \A n \in 0 .. Window : Size(NothingLetIn, n) = 0
<1>1. \A rec : Grants(rec, 0) = {}
  BY DEF Grants
<1>2. \A n \in 0 .. Window : Grants(NothingLetIn, n) = {}
  BY LimiterAssumption DEF Grants, NothingLetIn
<1> QED BY <1>1, <1>2, FS_EmptySet DEF Size

(* One request more in the current tick.                                   *)
LEMMA GrantAdded ==
  ASSUME NEW rec \in [1 .. Window -> Nat], NEW n \in 0 .. Window
  PROVE  Size([rec EXCEPT ![1] = @ + 1], n) <= Size(rec, n) + 1
<1> USE LimiterAssumption
<1> DEFINE new == [rec EXCEPT ![1] = @ + 1]
<1>1. CASE n = 0
  <2>1. Size(new, 0) = 0 /\ Size(rec, 0) = 0
    BY NoGrants
  <2> QED BY <1>1, <2>1
<1>2. CASE n # 0
  <2>1. /\ \A i \in 1 .. n : i # 1 => new[i] = rec[i]
        /\ new[1] = rec[1] + 1 /\ rec[1] \in Nat
    OBVIOUS
  <2>2. 1 .. new[1] = (1 .. rec[1]) \cup {rec[1] + 1}
    BY <2>1
  <2> HIDE DEF new
  <2>3. Grants(new, n) = Grants(rec, n) \cup {<<1, rec[1] + 1>>}
    <3>1. 1 \in 1 .. n
      BY <1>2
    <3>2. \A i \in 1 .. n : {i} \X (1 .. new[i]) =
             IF i = 1 THEN ({i} \X (1 .. rec[i])) \cup {<<1, rec[1] + 1>>}
             ELSE {i} \X (1 .. rec[i])
      BY <2>1, <2>2
    <3> QED BY <3>1, <3>2 DEF Grants
  <2>4. IsFiniteSet(Grants(rec, n)) /\ Size(rec, n) \in Nat
    BY GrantsFinite
  <2>5. Size(new, n) <= Size(rec, n) + 1
    <3> DEFINE G == Grants(rec, n)
               g == <<1, rec[1] + 1>>
    <3>1. IsFiniteSet(G) /\ Cardinality(G) \in Nat
      BY <2>4 DEF Size
    <3> HIDE DEF G, g
    <3>2. Cardinality(G \cup {g}) = IF g \in G THEN Cardinality(G) ELSE Cardinality(G) + 1
      BY <3>1, FS_AddElement
    <3>3. Cardinality(G \cup {g}) <= Cardinality(G) + 1
      BY <3>1, <3>2
    <3> QED BY <2>3, <3>3 DEF Size, G, g
  <2> QED BY <2>5 DEF new
<1> QED BY <1>1, <1>2

(* A tick later the same requests are one tick older.                      *)
LEMMA GrantsAge ==
  ASSUME NEW rec \in [1 .. Window -> Nat], NEW n \in 0 .. Window - 1
  PROVE  Size([i \in 1 .. Window |-> IF i = 1 THEN 0 ELSE rec[i - 1]], n + 1) <= Size(rec, n)
<1> USE LimiterAssumption
<1> DEFINE new == [i \in 1 .. Window |-> IF i = 1 THEN 0 ELSE rec[i - 1]]
           f == [e \in Grants(rec, n) |-> <<e[1] + 1, e[2]>>]
<1>1. ASSUME NEW e \in Grants(rec, n)
      PROVE  e[1] \in 1 .. n /\ e[2] \in 1 .. rec[e[1]] /\ e = <<e[1], e[2]>>
  BY DEF Grants
<1>2. ASSUME NEW e \in Grants(rec, n) PROVE f[e] \in Grants(new, n + 1)
  <2>1. /\ e[1] + 1 \in 1 .. n + 1 /\ e[1] + 1 \in 1 .. Window
        /\ new[e[1] + 1] = rec[e[1]]
    BY <1>1
  <2>2. <<e[1] + 1, e[2]>> \in {e[1] + 1} \X (1 .. new[e[1] + 1])
    BY <1>1, <2>1
  <2> HIDE DEF new
  <2> QED BY <2>1, <2>2 DEF Grants
<1>3. ASSUME NEW g \in Grants(new, n + 1) PROVE \E e \in Grants(rec, n) : f[e] = g
  <2>1. PICK i \in 1 .. n + 1 : g \in {i} \X (1 .. new[i])
    BY DEF Grants
  <2>2. i # 1 /\ i - 1 \in 1 .. n /\ new[i] = rec[i - 1]
    BY <2>1
  <2>3. PICK j \in 1 .. rec[i - 1] : g = <<i, j>>
    BY <2>1, <2>2
  <2>4. <<i - 1, j>> \in {i - 1} \X (1 .. rec[i - 1])
    BY <2>3
  <2>5. <<i - 1, j>> \in Grants(rec, n)
    BY <2>2, <2>4 DEF Grants
  <2>6. f[<<i - 1, j>>] = <<i, j>>
    BY <2>2, <2>5
  <2> QED BY <2>3, <2>5, <2>6
<1>4. f \in Surjection(Grants(rec, n), Grants(new, n + 1))
  <2>1. f \in [Grants(rec, n) -> Grants(new, n + 1)]
    BY <1>2
  <2> QED BY <1>3, <2>1 DEF Surjection
<1>5. IsFiniteSet(Grants(rec, n))
  BY GrantsFinite
<1> HIDE DEF f, new
<1>6. Cardinality(Grants(new, n + 1)) <= Cardinality(Grants(rec, n))
  BY <1>4, <1>5, FS_Surjection
<1> QED BY <1>6 DEF Size, new

(* What the counter of a key has given out. *)
Spent(k) == IF count[k] > Limit[k] THEN Limit[k] ELSE count[k]

(* LessThanTwoWindows is claimed of the watched key. *)
Promised == watched = "organization" \/ faults = 0

(* Only POST /runs counts by organization. *)
RouteOfKey ==
  \A p \in Request :
    call[p].at \in {"check", "expire"} /\ call[p].key = "organization" => call[p].route = "runs"

(* Only a counter that exists has an expiry. *)
ExpiryOfCounter == \A k \in Key : ttl[k] # NoExpiry => count[k] > 0

Sparse ==
  /\ Size(recent, Window) < Limit[watched] + Spent(watched)
  /\ ttl[watched] # NoExpiry => Size(recent, Window - ttl[watched]) < Spent(watched)

WindowInv == RouteOfKey /\ ExpiryOfCounter /\ (Promised => Sparse)

(* A check counts and lets in at most one request, or none of its commands *)
(* lets anybody in; either may set an expiry.                              *)
HitOrExpire(k) ==
  \/ /\ count' = count /\ recent' = recent
     /\ ttl' \in {ttl, Expired(k)}
  \/ /\ count' = Counted(k)
     /\ LetIn(k, IF Over(k) THEN 0 ELSE 1)
     /\ ttl' \in {ttl, [ttl EXCEPT ![k] = IF count[k] = 0 THEN Window ELSE @]}

LEMMA HitKeepsExpiry ==
  ASSUME LimiterTypeOK, ExpiryOfCounter, NEW k \in Key,
         \/ count' = count /\ ttl' \in {ttl, Expired(k)}
         \/ /\ count' = Counted(k)
            /\ ttl' \in {ttl, [ttl EXCEPT ![k] = IF count[k] = 0 THEN Window ELSE @]}
  PROVE  ExpiryOfCounter'
<1>1. CASE count' = count /\ ttl' \in {ttl, Expired(k)}
  BY <1>1 DEF LimiterTypeOK, ExpiryOfCounter, Expired
<1>2. CASE /\ count' = Counted(k)
           /\ ttl' \in {ttl, [ttl EXCEPT ![k] = IF count[k] = 0 THEN Window ELSE @]}
  <2>1. ASSUME NEW j \in Key
        PROVE  count[j] \in Nat /\ Limit[j] \in Nat /\ count'[j] \in Nat
               /\ count'[j] >= count[j] /\ (j = k => count'[j] > 0)
    <3>1. count[j] \in Nat /\ Limit[j] \in Nat /\ Limit[j] > 0
      BY LimiterAssumption DEF LimiterTypeOK
    <3>2. count'[j] = IF j # k \/ count[j] > Limit[j] THEN count[j] ELSE count[j] + 1
      BY <1>2 DEF LimiterTypeOK, Counted
    <3> QED BY <3>1, <3>2
  <2>2. ASSUME NEW j \in Key, ttl'[j] # NoExpiry PROVE count'[j] > 0
    <3>1. CASE j = k
      BY <2>1, <3>1
    <3>2. CASE j # k
      <4>1. ttl'[j] = ttl[j]
        BY <1>2, <3>2 DEF LimiterTypeOK
      <4> QED BY <2>1, <2>2, <4>1 DEF ExpiryOfCounter
    <3> QED BY <3>1, <3>2
  <2> QED BY <2>2 DEF ExpiryOfCounter
<1> QED BY <1>1, <1>2

LEMMA HitKeepsSparse ==
  ASSUME LimiterTypeOK, ExpiryOfCounter, Sparse, NEW k \in Key, HitOrExpire(k), watched' = watched
  PROVE  Sparse'
<1> USE LimiterAssumption
<1> DEFINE w == watched
<1>0. /\ w \in Key /\ count[w] \in Nat /\ Limit[w] \in Nat \ {0} /\ count[w] <= Limit[w] + 1
      /\ Spent(w) \in Nat /\ Window \in 0 .. Window /\ recent \in [1 .. Window -> Nat]
      /\ ttl[w] \in 1 .. Window \cup {NoExpiry}
      /\ ttl[w] # NoExpiry => Window - ttl[w] \in 0 .. Window
  BY DEF LimiterTypeOK, Spent, NoExpiry
<1>1. \A n \in 0 .. Window : Size(recent, n) \in Nat
  BY <1>0, GrantsFinite
<1>2. CASE /\ count' = count /\ recent' = recent
           /\ ttl' \in {ttl, Expired(k)}
  <2>1. Spent(w)' = Spent(w)
    BY <1>2 DEF Spent
  <2>2. CASE ttl'[w] = ttl[w]
    BY <1>2, <2>1, <2>2 DEF Sparse
  <2>3. CASE ttl'[w] # ttl[w]
    <3>1. ttl'[w] = (IF count[w] = 0 THEN NoExpiry ELSE Window) /\ w = k
      BY <1>0, <1>2, <2>3 DEF Expired, LimiterTypeOK
    <3>2. CASE count[w] = 0
      BY <1>2, <2>1, <3>1, <3>2 DEF Sparse
    <3>3. CASE count[w] # 0
      <4>1. Size(recent, Window - Window) = 0
        BY NoGrants
      <4>2. Spent(w) > 0
        BY <1>0, <3>3 DEF Spent
      <4> QED BY <1>2, <2>1, <3>1, <3>3, <4>1, <4>2 DEF Sparse
    <3> QED BY <3>2, <3>3
  <2> QED BY <2>2, <2>3
<1>3. CASE /\ count' = Counted(k)
           /\ LetIn(k, IF Over(k) THEN 0 ELSE 1)
           /\ ttl' \in {ttl, [ttl EXCEPT ![k] = IF count[k] = 0 THEN Window ELSE @]}
  <2>1. CASE w # k
    <3>1. count'[w] = count[w] /\ ttl'[w] = ttl[w] /\ recent' = recent
      BY <1>0, <1>3, <2>1 DEF Counted, LimiterTypeOK, LetIn
    <3> QED BY <3>1 DEF Sparse, Spent
  <2>2. CASE w = k /\ Over(k)
    <3>1. recent' = recent
      BY <1>0, <1>3, <2>2 DEF LetIn
    <3>2. count'[w] = Limit[w] + 1 /\ count[w] >= Limit[w]
      BY <1>0, <1>3, <2>2 DEF Counted, LimiterTypeOK, Over
    <3>3. ttl'[w] = ttl[w]
      BY <1>0, <1>3, <2>2, <3>2 DEF LimiterTypeOK
    <3>4. Spent(w)' = Spent(w)
      BY <1>0, <3>2 DEF Spent
    <3> QED BY <3>1, <3>3, <3>4 DEF Sparse
  <2>3. CASE w = k /\ ~Over(k)
    <3>1. recent' = [recent EXCEPT ![1] = @ + 1]
      BY <1>3, <2>3 DEF LetIn
    <3>2. count'[w] = count[w] + 1 /\ count[w] < Limit[w]
      BY <1>0, <1>3, <2>3 DEF Counted, LimiterTypeOK, Over
    <3>3. Spent(w)' = Spent(w) + 1
      BY <1>0, <3>2 DEF Spent
    <3>4. ASSUME NEW n \in 0 .. Window
          PROVE  Size(recent', n) <= Size(recent, n) + 1 /\ Size(recent', n) \in Nat
      <4>1. recent' \in [1 .. Window -> Nat]
        BY <1>0, <3>1
      <4> QED BY <1>0, <3>1, <4>1, GrantAdded, GrantsFinite
    <3>5. Size(recent', Window) < Limit[w] + Spent(w)'
      <4>1. Window \in 0 .. Window
        BY LimiterAssumption
      <4>2. /\ Size(recent', Window) <= Size(recent, Window) + 1
            /\ Size(recent, Window) < Limit[w] + Spent(w)
            /\ Size(recent', Window) \in Nat /\ Size(recent, Window) \in Nat
        BY <1>1, <3>4, <4>1 DEF Sparse
      <4> QED BY <1>0, <3>3, <4>2
    <3>6. ASSUME ttl'[w] # NoExpiry PROVE Size(recent', Window - ttl'[w]) < Spent(w)'
      <4>1. CASE ttl'[w] = ttl[w]
        <5> DEFINE n == Window - ttl[w]
        <5>1. n \in 0 .. Window /\ Size(recent, n) < Spent(w)
          BY <1>0, <3>6, <4>1 DEF Sparse
        <5>2. Size(recent', n) <= Size(recent, n) + 1 /\ Size(recent', n) \in Nat
              /\ Size(recent, n) \in Nat
          BY <1>1, <3>4, <5>1
        <5> HIDE DEF n
        <5>3. Size(recent', n) < Spent(w) + 1
          BY <1>0, <5>1, <5>2
        <5> QED BY <3>3, <4>1, <5>3 DEF n
      <4>2. CASE ttl'[w] # ttl[w]
        <5>1. ttl'[w] = Window
          BY <1>0, <1>3, <4>2, <2>3 DEF LimiterTypeOK
        <5>2. Size(recent', Window - Window) = 0
          BY NoGrants
        <5> QED BY <1>0, <3>3, <5>1, <5>2
      <4> QED BY <4>1, <4>2
    <3> QED BY <3>5, <3>6 DEF Sparse
  <2> QED BY <2>1, <2>2, <2>3
<1> QED BY <1>2, <1>3 DEF HitOrExpire

(* A tick takes the counter that was due, and with it all but fewer than   *)
(* Limit of the requests that are still recent.                            *)
LEMMA TickKeepsSparse ==
  ASSUME LimiterTypeOK, ExpiryOfCounter, Sparse, Tick
  PROVE  Sparse'
<1> USE LimiterAssumption
<1> DEFINE w == watched
           new == [i \in 1 .. Window |-> IF i = 1 THEN 0 ELSE recent[i - 1]]
<1>0. /\ w \in Key /\ count[w] \in Nat /\ Limit[w] \in Nat \ {0} /\ Spent(w) \in Nat
      /\ Window - 1 \in 0 .. Window - 1 /\ recent \in [1 .. Window -> Nat]
      /\ ttl[w] \in 1 .. Window \cup {NoExpiry} /\ new \in [1 .. Window -> Nat]
      /\ Spent(w) <= Limit[w]
  BY DEF LimiterTypeOK, Spent
<1>1. /\ recent' = new /\ watched' = watched
      /\ count'[w] = (IF ttl[w] = 1 THEN 0 ELSE count[w])
      /\ ttl[w] \in {NoExpiry, 1} => ttl'[w] = NoExpiry
      /\ ttl[w] \notin {NoExpiry, 1} => ttl'[w] = ttl[w] - 1
  BY <1>0 DEF Tick
<1>2. ASSUME NEW n \in 0 .. Window - 1
      PROVE  Size(new, n + 1) <= Size(recent, n) /\ Size(new, n + 1) \in Nat
             /\ Size(recent, n) \in Nat
  <2>1. Size(new, n + 1) <= Size(recent, n)
    BY <1>0, GrantsAge
  <2>2. n \in 0 .. Window /\ n + 1 \in 0 .. Window
    OBVIOUS
  <2> HIDE DEF new
  <2> QED BY <1>0, <2>1, <2>2, GrantsFinite
<1> HIDE DEF new
<1>3. Size(new, Window) <= Size(recent, Window - 1) /\ Size(new, Window) \in Nat
      /\ Size(recent, Window - 1) \in Nat
  <2>1. (Window - 1) + 1 = Window
    OBVIOUS
  <2> QED BY <1>0, <1>2, <2>1
<1>4. CASE ttl[w] = 1
  <2>1. Size(recent, Window - 1) < Spent(w)
    BY <1>4 DEF Sparse, NoExpiry
  <2>2. Spent(w)' = 0
    BY <1>0, <1>1, <1>4 DEF Spent
  <2>3. ttl'[w] = NoExpiry
    BY <1>1, <1>4
  <2> QED BY <1>0, <1>1, <1>3, <2>1, <2>2, <2>3 DEF Sparse
<1>5. CASE ttl[w] # 1
  <2>1. Spent(w)' = Spent(w)
    BY <1>1, <1>5 DEF Spent
  <2>2. Size(recent, Window - 1) <= Size(recent, Window) /\ Size(recent, Window) \in Nat
    <3>1. Window - 1 \in 0 .. Window /\ Window \in 0 .. Window /\ Window - 1 <= Window
      OBVIOUS
    <3> QED BY <1>0, <3>1, GrantsGrow, GrantsFinite
  <2>3. Size(new, Window) < Limit[w] + Spent(w)
    BY <1>0, <1>3, <2>2 DEF Sparse
  <2>4. ASSUME ttl'[w] # NoExpiry PROVE Size(new, Window - ttl'[w]) < Spent(w)
    <3>1. ttl[w] \in 2 .. Window /\ ttl'[w] = ttl[w] - 1 /\ ttl[w] # NoExpiry
      BY <1>0, <1>1, <1>5, <2>4 DEF NoExpiry
    <3>2. Window - ttl[w] \in 0 .. Window - 1 /\ (Window - ttl[w]) + 1 = Window - ttl'[w]
      BY <3>1
    <3>3. Size(new, Window - ttl'[w]) <= Size(recent, Window - ttl[w])
          /\ Size(new, Window - ttl'[w]) \in Nat /\ Size(recent, Window - ttl[w]) \in Nat
      BY <1>2, <3>2
    <3>4. Size(recent, Window - ttl[w]) < Spent(w)
      BY <3>1 DEF Sparse
    <3> QED BY <1>0, <3>3, <3>4
  <2> QED BY <1>1, <2>1, <2>3, <2>4 DEF Sparse
<1> QED BY <1>4, <1>5

(* Wherever a check leads, a request keeps its key and route, or leaves    *)
(* the limiter, or goes on to its subject's key.                           *)
CheckLeadsTo(c, e) ==
  \E over \in BOOLEAN, d \in {c, [c EXCEPT !.over = FALSE]} :
    e \in {Judged(d, over), JudgedUnavailable(d), [c EXCEPT !.at = "expire", !.over = over]}

LEMMA CheckKeepsRoute ==
  ASSUME NEW c \in Call, NEW e, CheckLeadsTo(c, e)
  PROVE  \/ e = Idle \/ e.at = "passed" \/ e.key = "subject"
         \/ e.key = c.key /\ e.route = c.route
<1>1. PICK over \in BOOLEAN, d \in {c, [c EXCEPT !.over = FALSE]} :
        e \in {Judged(d, over), JudgedUnavailable(d), [c EXCEPT !.at = "expire", !.over = over]}
  BY DEF CheckLeadsTo
<1>2. d \in Call
  BY DEF Call
<1>3. CASE e = [c EXCEPT !.at = "expire", !.over = over]
  BY <1>3 DEF Call
<1>4. Allowed(d) = Idle \/ Allowed(d).at = "passed" \/ Allowed(d).key = "subject"
  BY <1>2 DEF Allowed, Call
<1> QED BY <1>1, <1>3, <1>4 DEF Judged, JudgedUnavailable

(* A step of a request at the limiter, on the key it asks for.             *)
LEMMA CheckKeepsWindow ==
  ASSUME AdmissionTypeOK, WindowInv, NEW p \in Request, CheckStep(p) \/ CheckFails(p)
  PROVE  WindowInv'
<1> USE LimiterAssumption
<1> DEFINE k == KeyOf(p)
<1>0. /\ LimiterTypeOK /\ call \in [Request -> Call] /\ call[p] \in Call /\ k \in Key
      /\ watched \in Key /\ recent \in [1 .. Window -> Nat] /\ faults \in Nat /\ 1 \in 1 .. Window
  <2>1. LimiterTypeOK /\ call \in [Request -> Call]
    BY DEF AdmissionTypeOK
  <2>2. call[p] \in Call /\ k \in Key
    BY <2>1 DEF KeyOf, Call
  <2> QED BY <2>1, <2>2 DEF LimiterTypeOK
<1>1. watched' = watched /\ (faults' = faults \/ faults' = faults + 1)
  BY DEF CheckStep, CheckFails, MemoryCheck, RedisCheck, RedisExpire, RedisCheckFails,
     RedisReplyLost, RedisExpireFails, Fault
<1>2. Promised' => Promised
  BY <1>0, <1>1 DEF Promised
<1>3. RouteOfKey'
  <2> DEFINE c == call'[p]
  <2>1. /\ \A q \in Request \ {p} : call'[q] = call[q]
        /\ \/ c = Idle
           \/ c.at = "passed"
           \/ c.key = "subject"
           \/ c.key = call[p].key /\ c.route = call[p].route
        /\ call[p].at \in {"check", "expire"}
    <3>1. call[p].at \in {"check", "expire"} /\ call[p].over \in BOOLEAN /\ Over(k) \in BOOLEAN
      BY <1>0 DEF CheckStep, CheckFails, MemoryCheck, RedisCheck, RedisExpire, RedisCheckFails,
         RedisReplyLost, RedisExpireFails, At, Call, Over
    <3>2. \E e : CheckLeadsTo(call[p], e) /\ call' = [call EXCEPT ![p] = e]
      BY <3>1 DEF CheckLeadsTo, CheckStep, CheckFails, MemoryCheck, RedisCheck, RedisExpire,
         RedisCheckFails, RedisReplyLost, RedisExpireFails, Unavailable
    <3>3. PICK e : CheckLeadsTo(call[p], e) /\ call' = [call EXCEPT ![p] = e]
      BY <3>2
    <3>4. \/ e = Idle \/ e.at = "passed" \/ e.key = "subject"
          \/ e.key = call[p].key /\ e.route = call[p].route
      BY <1>0, <3>3, CheckKeepsRoute
    <3>5. c = e /\ \A q \in Request \ {p} : call'[q] = call[q]
      BY <1>0, <3>3
    <3> QED BY <3>1, <3>4, <3>5
  <2> QED BY <2>1 DEF WindowInv, RouteOfKey, Idle
<1>4. \/ count' = count /\ ttl' \in {ttl, Expired(k)}
      \/ /\ count' = Counted(k)
         /\ ttl' \in {ttl, [ttl EXCEPT ![k] = IF count[k] = 0 THEN Window ELSE @]}
  BY DEF CheckStep, CheckFails, MemoryCheck, RedisCheck, RedisExpire, RedisCheckFails,
     RedisReplyLost, RedisExpireFails
<1>5. ExpiryOfCounter'
  BY <1>0, <1>4, HitKeepsExpiry DEF WindowInv
<1>6. ASSUME Promised' PROVE HitOrExpire(k)
  <2>1. ASSUME CheckFails(p), k = watched PROVE Uncounted(p) = 0
    <3>1. faults' # 0
      BY <1>0, <2>1 DEF CheckFails, RedisCheckFails, RedisReplyLost, RedisExpireFails, Fault
    <3>2. k = "organization"
      BY <1>1, <1>6, <2>1, <3>1 DEF Promised
    <3>3. call[p].at \in {"check", "expire"}
      BY <2>1 DEF CheckFails, RedisCheckFails, RedisReplyLost, RedisExpireFails, At
    <3>4. call[p].route = "runs"
      BY <3>2, <3>3 DEF WindowInv, RouteOfKey, KeyOf
    <3> QED BY <3>4 DEF Uncounted, FailsOpen
  <2>2. ASSUME CheckFails(p), LetIn(k, Uncounted(p)) \/ LetIn(k, 0) PROVE recent' = recent
    <3>1. CASE k # watched
      BY <2>2, <3>1 DEF LetIn
    <3>2. CASE k = watched
      <4>1. recent' = [recent EXCEPT ![1] = @ + 0]
        BY <2>1, <2>2, <3>2 DEF LetIn
      <4>2. recent[1] + 0 = recent[1]
        BY <1>0
      <4> QED BY <1>0, <4>1, <4>2
    <3> QED BY <3>1, <3>2
  <2>3. recent = [recent EXCEPT ![1] = @ + 0]
    <3>1. recent[1] + 0 = recent[1]
      BY <1>0
    <3> QED BY <1>0, <3>1
  <2>4. CASE MemoryCheck(p) \/ RedisCheck(p)
    BY <2>4 DEF MemoryCheck, RedisCheck, HitOrExpire
  <2>5. CASE RedisExpire(p)
    BY <2>5 DEF RedisExpire, HitOrExpire
  <2>6. CASE RedisCheckFails(p)
    BY <2>2, <2>6 DEF CheckFails, RedisCheckFails, HitOrExpire
  <2>7. CASE RedisReplyLost(p)
    <3>1. CASE Over(k)
      <4>1. recent' = recent
        BY <2>2, <2>7, <3>1 DEF CheckFails, RedisReplyLost
      <4>2. LetIn(k, 0)
        BY <2>3, <4>1 DEF LetIn
      <4> QED BY <2>7, <3>1, <4>2 DEF RedisReplyLost, HitOrExpire
    <3>2. CASE ~Over(k)
      BY <2>7, <3>2 DEF RedisReplyLost, HitOrExpire
    <3> QED BY <3>1, <3>2
  <2>8. CASE RedisExpireFails(p)
    <3>1. recent' = recent
      BY <2>2, <2>8 DEF CheckFails, RedisExpireFails
    <3> QED BY <2>8, <3>1 DEF RedisExpireFails, HitOrExpire
  <2> QED BY <2>4, <2>5, <2>6, <2>7, <2>8 DEF CheckStep, CheckFails
<1>7. Promised' => Sparse'
  BY <1>0, <1>1, <1>2, <1>6, HitKeepsSparse DEF WindowInv
<1> QED BY <1>3, <1>5, <1>7 DEF WindowInv

(* Nobody let in, no counter.                                              *)
LEMMA EmptyIsSparse ==
  ASSUME watched \in Key, count = NoHits, ttl = NoDeadlines, recent = NothingLetIn
  PROVE  ExpiryOfCounter /\ Sparse
<1> USE LimiterAssumption
<1>1. Size(recent, Window) = 0
  BY NoGrants
<1>2. Spent(watched) = 0 /\ ttl[watched] = NoExpiry /\ Limit[watched] \in Nat \ {0}
  BY DEF Spent, NoHits, NoDeadlines
<1>3. ExpiryOfCounter
  BY DEF ExpiryOfCounter, NoDeadlines
<1> QED BY <1>1, <1>2, <1>3 DEF Sparse

LEMMA WindowStep == AdmissionTypeOK /\ WindowInv /\ [AdmissionNext]_admissionVars => WindowInv'
<1> SUFFICES ASSUME AdmissionTypeOK, WindowInv, [AdmissionNext]_admissionVars PROVE WindowInv'
  OBVIOUS
<1>0. /\ LimiterTypeOK /\ call \in [Request -> Call] /\ watched \in Key /\ faults \in Nat
  BY DEF AdmissionTypeOK, LimiterTypeOK
<1>1. ASSUME UNCHANGED <<count, ttl, recent, watched>>,
             faults' = faults \/ faults' = faults + 1,
             \A q \in Request : call'[q] \in {call[q], Idle}
      PROVE  WindowInv'
  <2>1. RouteOfKey'
    BY <1>1 DEF WindowInv, RouteOfKey, Idle
  <2>2. Promised' => Promised
    BY <1>0, <1>1 DEF Promised
  <2> QED BY <1>1, <2>1, <2>2 DEF WindowInv, ExpiryOfCounter, Sparse, Spent
<1>2. ASSUME UNCHANGED limiterVars PROVE WindowInv'
  BY <1>1, <1>2 DEF limiterVars
<1>3. ASSUME NEW p \in Request, RunStep(p) \/ RequestDies(p) PROVE WindowInv'
  <2>1. CASE LookUpUsage(p) \/ InsertUsage(p) \/ CountRun(p)
    BY <1>2, <2>1 DEF LookUpUsage, InsertUsage, CountRun
  <2>2. CASE QuotaExceeded(p) \/ CreateRun(p) \/ RequestDies(p)
    <3>1. \A q \in Request : call'[q] \in {call[q], Idle}
      BY <1>0, <2>2 DEF QuotaExceeded, CreateRun, RequestDies, Leave
    <3> QED BY <1>1, <2>2, <3>1 DEF QuotaExceeded, CreateRun, RequestDies, LimiterRest, Fault
  <2> QED BY <1>3, <2>1, <2>2 DEF RunStep
<1>4. ASSUME NEW p \in Request, LimiterOnly(p) PROVE WindowInv'
  <2>1. ASSUME NEW route \in Route, Arrive(p, route) PROVE WindowInv'
    <3>1. /\ \A q \in Request \ {p} : call'[q] = call[q]
          /\ call'[p].key = FirstKey(route) /\ call'[p].route = route
      BY <1>0, <2>1 DEF Arrive
    <3>2. RouteOfKey'
      BY <3>1 DEF WindowInv, RouteOfKey, FirstKey
    <3> QED BY <2>1, <3>2 DEF Arrive, WindowInv, Promised, ExpiryOfCounter, Sparse, Spent
  <2> QED BY <1>4, <2>1, CheckKeepsWindow DEF LimiterOnly
<1>5. CASE Tick
  <2>1. RouteOfKey' /\ (Promised' => Promised)
    BY <1>5 DEF Tick, WindowInv, RouteOfKey, Promised
  <2>2. ExpiryOfCounter'
    BY <1>0, <1>5 DEF Tick, WindowInv, ExpiryOfCounter, LimiterTypeOK
  <2>3. Promised' => Sparse'
    BY <1>0, <1>5, <2>1, TickKeepsSparse DEF WindowInv
  <2> QED BY <2>1, <2>2, <2>3 DEF WindowInv
<1>6. ASSUME watched' = watched, count' = NoHits, ttl' = NoDeadlines, recent' = NothingLetIn,
             \A q \in Request : call'[q] \in {call[q], Idle}
      PROVE  WindowInv'
  <2>1. RouteOfKey'
    BY <1>6 DEF WindowInv, RouteOfKey, Idle
  <2>2. ExpiryOfCounter'
    BY <1>6 DEF ExpiryOfCounter, NoDeadlines
  <2>3. Sparse'
    <3>1. Size(recent', Window) = 0
      BY <1>6, NoGrants, LimiterAssumption
    <3>2. Spent(watched)' = 0 /\ ttl'[watched'] = NoExpiry /\ Limit[watched'] \in Nat \ {0}
      BY <1>0, <1>6, LimiterAssumption DEF Spent, NoHits, NoDeadlines
    <3> QED BY <3>1, <3>2 DEF Sparse
  <2> QED BY <2>1, <2>2, <2>3 DEF WindowInv
<1>7. CASE Flush
  BY <1>6, <1>7 DEF Flush
<1>8. CASE Restart
  <2>1. \A q \in Request : call'[q] \in {call[q], Idle}
    BY <1>8 DEF Restart
  <2>2. CASE backend = "memory"
    BY <1>6, <1>8, <2>1, <2>2 DEF Restart
  <2>3. CASE backend # "memory"
    BY <1>1, <1>8, <2>1, <2>3 DEF Restart, Fault
  <2> QED BY <2>2, <2>3
<1>9. CASE Midnight
  BY <1>2, <1>9 DEF Midnight
<1>10. CASE UNCHANGED admissionVars
  BY <1>2, <1>10 DEF admissionVars
<1> QED BY <1>3, <1>4, <1>5, <1>7, <1>8, <1>9, <1>10 DEF AdmissionNext

(* rate_limit.py ("the imprecision here is bounded at one extra window's   *)
(* worth of attempts"): for every allowance and window, wherever windows   *)
(* begin, however late EXPIRE comes and whatever fails, any Window ticks   *)
(* let in fewer than two windows' worth of requests; by a key that is let  *)
(* in while the backend is unavailable, as long as it never was.           *)
THEOREM WindowsHold == AdmissionSpec => []LessThanTwoWindows
<1>1. AdmissionInit => AdmissionTypeOK /\ WindowInv
  <2> SUFFICES ASSUME AdmissionInit PROVE AdmissionTypeOK /\ WindowInv
    OBVIOUS
  <2>1. AdmissionTypeOK
    BY AdmissionStart
  <2>2. ExpiryOfCounter /\ Sparse
    BY <2>1, EmptyIsSparse DEF AdmissionInit, LimiterInit, AdmissionTypeOK, LimiterTypeOK
  <2>3. RouteOfKey
    BY DEF AdmissionInit, LimiterInit, RouteOfKey, Idle
  <2> QED BY <2>1, <2>2, <2>3 DEF WindowInv
<1>2. AdmissionTypeOK /\ WindowInv /\ [AdmissionNext]_admissionVars
        => AdmissionTypeOK' /\ WindowInv'
  BY AdmissionTypeStep, WindowStep
<1>3. AdmissionTypeOK /\ WindowInv => LessThanTwoWindows
  <2> SUFFICES ASSUME AdmissionTypeOK, WindowInv, Promised
               PROVE  LetInLately < 2 * Limit[watched]
    BY DEF LessThanTwoWindows, Promised
  <2>1. /\ Limit[watched] \in Nat /\ count[watched] \in Nat
        /\ recent \in [1 .. Window -> Nat] /\ Window \in 0 .. Window
    BY LimiterAssumption DEF AdmissionTypeOK, LimiterTypeOK
  <2>2. Size(recent, Window) \in Nat
    BY <2>1, GrantsFinite
  <2>3. LetInLately = Size(recent, Window)
    BY DEF LetInLately, LetIns, Size, Grants
  <2>4. Size(recent, Window) < Limit[watched] + Spent(watched)
    BY DEF WindowInv, Sparse
  <2> QED BY <2>1, <2>2, <2>3, <2>4 DEF Spent
<1> QED BY <1>1, <1>2, <1>3, PTL DEF AdmissionSpec
=============================================================================
