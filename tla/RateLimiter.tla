---------------------------- MODULE RateLimiter ----------------------------
(***************************************************************************)
(* Fixed-window request limiting (services/rate_limit.py) in front of two  *)
(* kinds of route: POST /runs, which is refused while the limiter's        *)
(* backend is unavailable, and the routes under /auth (api/routes/auth.py, *)
(* _limit), which count a request by address and then by subject, and let  *)
(* it in while the backend is unavailable.                                 *)
(*                                                                         *)
(* With Redis a check is INCR and TTL in one transaction and, if the key   *)
(* has no expiry, EXPIRE as a command of its own; the process may stop in  *)
(* between, and either reply may be lost.  In memory a check is atomic,    *)
(* and the counters go with the process.                                   *)
(*                                                                         *)
(* Time passes in ticks, Window of which make a window.  A counter above   *)
(* its limit is kept at Limit + 1: nothing tells larger ones apart.  An    *)
(* entry in memory whose window is over counts as no entry.                *)
(***************************************************************************)
EXTENDS Integers, FiniteSets

CONSTANTS Request,     \* requests the API works on at the same time
          SignsIn,     \* bound: those that may be for /auth
          Watched,     \* bound: keys whose grants the history may follow
          Limit,       \* allowance of each key
          Window,      \* window_seconds, in ticks
          MaxFaults    \* bound: lost commands, lost counters, lost requests

Key == {"organization", "address", "subject"}
Route == {"runs", "login"}
NoExpiry == -1

ASSUME LimiterAssumption ==
  /\ IsFiniteSet(Request) /\ SignsIn \subseteq Request
  /\ Watched \subseteq Key
  /\ Limit \in [Key -> Nat \ {0}]
  /\ Window \in Nat \ {0}
  /\ MaxFaults \in Nat

VARIABLES
  backend,  \* what build_rate_limiter chose
  count,    \* the counter of each key, 0 when there is none
  ttl,      \* ticks until the counter expires
  call,     \* the request in each slot
  faults,
  watched,  \* history: any one of the watched keys
  recent    \* history: requests it let in during each of the last Window ticks

limiterVars == <<backend, count, ttl, call, faults, watched, recent>>

Phase == {"idle", "check", "expire", "passed"}

Call == [at : Phase, route : Route, key : Key, over : BOOLEAN]
Idle == [at |-> "idle", route |-> "runs", key |-> "organization", over |-> FALSE]

LimiterTypeOK ==
  /\ backend \in {"redis", "memory"}
  /\ count \in [Key -> Nat]
  /\ \A k \in Key : count[k] <= Limit[k] + 1
  /\ ttl \in [Key -> 1 .. Window \cup {NoExpiry}]
  /\ faults \in 0 .. MaxFaults
  /\ watched \in Key
  /\ recent \in [1 .. Window -> Nat]

NoHits == [k \in Key |-> 0]
NoDeadlines == [k \in Key |-> NoExpiry]
NothingLetIn == [i \in 1 .. Window |-> 0]

LimiterInit ==
  /\ backend \in {"redis", "memory"}
  /\ count = NoHits
  /\ ttl = NoDeadlines
  /\ call = [p \in Request |-> Idle]
  /\ faults = 0
  /\ watched \in Watched
  /\ recent = NothingLetIn

At(p, s) == call[p].at = s
KeyOf(p) == call[p].key
Fault == faults < MaxFaults /\ faults' = faults + 1

FirstKey(route) == IF route = "runs" THEN "organization" ELSE "address"

(* Mutant: a protected route is let in as well. *)
FailsOpenAlways(route) == TRUE

(* unavailable="allow" *)
FailsOpen(route) == route = "login"

-----------------------------------------------------------------------------
(* enforce *)

Arrive(p, route) ==
  /\ At(p, "idle")
  /\ route = "runs" \/ p \in SignsIn
  /\ call' = [call EXCEPT ![p] =
       [at |-> "check", route |-> route, key |-> FirstKey(route), over |-> FALSE]]
  /\ UNCHANGED <<backend, watched, count, ttl, faults, recent>>

(* After a check that did not refuse the request: _limit has a second key  *)
(* for it, or the route's own work begins.  That of /auth is module        *)
(* AuthSessions' business.                                                 *)
Allowed(c) ==
  CASE c.key = "address" -> [c EXCEPT !.at = "check", !.key = "subject"]
    [] c.key = "organization" -> [c EXCEPT !.at = "passed"]
    [] OTHER -> Idle

(* 429 when the counter exceeded the limit *)
Judged(c, over) == IF over THEN Idle ELSE Allowed(c)

(* The backend is unavailable: 503, or let in uncounted. *)
JudgedUnavailable(c) == IF FailsOpen(c.route) THEN Allowed(c) ELSE Idle

(* A window's allowance is given out by its counter. *)
LetIn(k, n) == recent' = IF k = watched THEN [recent EXCEPT ![1] = @ + n] ELSE recent

(* count > limit, of the counter that INCR returns *)
Over(k) == count[k] + 1 > Limit[k]

Counted(k) == [count EXCEPT ![k] = IF @ > Limit[k] THEN @ ELSE @ + 1]

-----------------------------------------------------------------------------
(* InMemoryRateLimiter.check, under its lock *)
MemoryCheck(p) ==
  LET k == KeyOf(p) IN
  /\ backend = "memory" /\ At(p, "check")
  /\ count' = Counted(k)
  /\ ttl' = [ttl EXCEPT ![k] = IF count[k] = 0 THEN Window ELSE @]
  /\ call' = [call EXCEPT ![p] = Judged(@, Over(k))]
  /\ LetIn(k, IF Over(k) THEN 0 ELSE 1)
  /\ UNCHANGED <<backend, watched, faults>>

(* Mutant: only the first hit of a window sets its expiry. *)
MustExpireFirst(k) == count[k] = 0

(* ttl < 0: the first hit in this window, or a key that lost its expiry *)
MustExpire(k) == ttl[k] = NoExpiry

(* RedisRateLimiter.check: INCR and TTL in one transaction *)
RedisCheck(p) ==
  LET k == KeyOf(p) IN
  /\ backend = "redis" /\ At(p, "check")
  /\ count' = Counted(k)
  /\ call' = [call EXCEPT ![p] =
       IF MustExpire(k) THEN [@ EXCEPT !.at = "expire", !.over = Over(k)]
       ELSE Judged(@, Over(k))]
  /\ LetIn(k, IF Over(k) THEN 0 ELSE 1)
  /\ UNCHANGED <<backend, watched, ttl, faults>>

(* EXPIRE; a key that is gone stays gone *)
Expired(k) == [ttl EXCEPT ![k] = IF count[k] = 0 THEN NoExpiry ELSE Window]

RedisExpire(p) ==
  /\ At(p, "expire")
  /\ ttl' = Expired(KeyOf(p))
  /\ call' = [call EXCEPT ![p] = Judged([@ EXCEPT !.over = FALSE], @.over)]
  /\ UNCHANGED <<backend, watched, count, faults, recent>>

(* The exception handler.  The command may have been applied before it     *)
(* raised; a caller who is let in uncounted is one more.                   *)
Uncounted(p) == IF FailsOpen(call[p].route) THEN 1 ELSE 0

Unavailable(p) ==
  call' = [call EXCEPT ![p] = JudgedUnavailable([@ EXCEPT !.over = FALSE])]

RedisCheckFails(p) ==
  /\ backend = "redis" /\ At(p, "check")
  /\ Fault
  /\ Unavailable(p)
  /\ LetIn(KeyOf(p), Uncounted(p))
  /\ UNCHANGED <<backend, watched, count, ttl>>

RedisReplyLost(p) ==
  LET k == KeyOf(p) IN
  /\ backend = "redis" /\ At(p, "check")
  /\ Fault
  /\ Unavailable(p)
  /\ count' = Counted(k)
  /\ LetIn(k, IF Over(k) THEN Uncounted(p) ELSE 1)
  /\ UNCHANGED <<backend, watched, ttl>>

RedisExpireFails(p) ==
  /\ At(p, "expire")
  /\ Fault
  /\ Unavailable(p)
  /\ ttl' \in {ttl, Expired(KeyOf(p))}
  /\ LetIn(KeyOf(p), IF call[p].over THEN Uncounted(p) ELSE 0)
  /\ UNCHANGED <<backend, watched, count>>

-----------------------------------------------------------------------------
(* A tick of the clock: deadlines come closer, expired counters vanish.    *)
Tick ==
  /\ count' = [k \in Key |-> IF ttl[k] = 1 THEN 0 ELSE count[k]]
  /\ ttl' = [k \in Key |-> CASE ttl[k] = NoExpiry -> NoExpiry
                             [] ttl[k] = 1 -> NoExpiry
                             [] OTHER -> ttl[k] - 1]
  /\ recent' = [i \in 1 .. Window |-> IF i = 1 THEN 0 ELSE recent[i - 1]]
  /\ UNCHANGED <<backend, watched, call, faults>>

(* Redis is flushed; the history begins anew with the counters. *)
Flush ==
  /\ backend = "redis" /\ count # NoHits
  /\ Fault
  /\ count' = NoHits /\ ttl' = NoDeadlines /\ recent' = NothingLetIn
  /\ UNCHANGED <<backend, watched, call>>

(* The API process restarts: requests are cut off, and counters in memory  *)
(* are lost (InMemoryRateLimiter.__init__).                                *)
Restart ==
  /\ Fault
  /\ call' = [p \in Request |-> Idle]
  /\ IF backend = "memory"
     THEN count' = NoHits /\ ttl' = NoDeadlines /\ recent' = NothingLetIn
     ELSE UNCHANGED <<count, ttl, recent>>
  /\ UNCHANGED <<backend, watched>>

CheckStep(p) == MemoryCheck(p) \/ RedisCheck(p) \/ RedisExpire(p)
CheckFails(p) == RedisCheckFails(p) \/ RedisReplyLost(p) \/ RedisExpireFails(p)

-----------------------------------------------------------------------------
(* Properties *)

(* The requests let in during the last n ticks, each as its tick and its   *)
(* number in that tick.                                                    *)
LetIns(n) == UNION {{i} \X (1 .. recent[i]) : i \in 1 .. n}

LetInLately == Cardinality(LetIns(Window))

(* rate_limit.py ("the imprecision here is bounded at one extra window's   *)
(* worth of attempts"): in any Window ticks a key lets in less than two    *)
(* windows' worth of requests, wherever windows begin and however late     *)
(* EXPIRE comes; the keys of a route that is let in during outages promise *)
(* this without faults.                                                    *)
LessThanTwoWindows ==
  watched = "organization" \/ faults = 0 => LetInLately < 2 * Limit[watched]

(* rate_limit.py ("a key that lost its expiry"): a key that is asked again *)
(* and again is within its allowance again and again, even if the process  *)
(* stopped between INCR and EXPIRE: nobody is shut out for good.           *)
Asked(k) == \E p \in Request : At(p, "check") /\ KeyOf(p) = k

NobodyShutOut == \A k \in Key : []<>Asked(k) => []<>(count[k] <= Limit[k])
=============================================================================
