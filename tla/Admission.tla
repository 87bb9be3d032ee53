----------------------------- MODULE Admission ------------------------------
(***************************************************************************)
(* What stands between a reader's question and a run (api/routes/runs.py,  *)
(* create_run): the organization's rate limit, then the daily quota, then  *)
(* the row; what follows the row is module WorkerService.  One             *)
(* organization is modelled: organizations share neither keys nor rows.    *)
(*                                                                         *)
(* consume_daily_quota is a SELECT, perhaps an INSERT that commits or hits *)
(* the unique (organization, date) constraint, and a conditional UPDATE    *)
(* that takes the row's lock until its commit.  Each is a step; requests   *)
(* interleave between them, the date may change, and a request may end at  *)
(* any of them.                                                            *)
(***************************************************************************)
EXTENDS RateLimiter

CONSTANTS Quota,    \* daily_run_quota_per_organization
          LastDay   \* bound: midnights

ASSUME AdmissionAssumption == Quota \in Nat \ {0} /\ LastDay \in Nat

VARIABLES
  today,
  usage,    \* daily_usage.run_count by date, NoUsage before the row exists
  step,     \* what each run request does once the limiter let it in
  day,      \* the date it read
  runs      \* history: runs rows by the date they were counted on

quotaVars == <<today, usage, step, day, runs>>
admissionVars == <<limiterVars, quotaVars>>

Day == 0 .. LastDay
NoUsage == -1

Step == {"none", "insert", "update", "create"}

AdmissionTypeOK ==
  /\ LimiterTypeOK
  /\ call \in [Request -> Call]
  /\ today \in Day
  /\ usage \in [Day -> Nat \cup {NoUsage}]
  /\ step \in [Request -> Step]
  /\ day \in [Request -> Day]
  /\ runs \in [Day -> Nat]
  /\ \A p \in Request : step[p] # "none" => At(p, "passed")

AdmissionInit ==
  /\ LimiterInit
  /\ today = 0
  /\ usage = [d \in Day |-> NoUsage]
  /\ step = [p \in Request |-> "none"]
  /\ day = [p \in Request |-> 0]
  /\ runs = [d \in Day |-> 0]

Go(p, s) == step' = [step EXCEPT ![p] = s]
Leave(p) == /\ call' = [call EXCEPT ![p] = Idle]
            /\ Go(p, "none")
            /\ day' = [day EXCEPT ![p] = 0]
LimiterRest == UNCHANGED <<backend, watched, count, ttl, faults, recent>>

-----------------------------------------------------------------------------
(* consume_daily_quota and _ensure_usage_row *)

(* today = _utc_now().date(), and the SELECT for its row *)
LookUpUsage(p) ==
  /\ At(p, "passed") /\ step[p] = "none"
  /\ day' = [day EXCEPT ![p] = today]
  /\ Go(p, IF usage[today] = NoUsage THEN "insert" ELSE "update")
  /\ UNCHANGED <<limiterVars, today, usage, runs>>

(* Mutant: no unique constraint; the row inserted last is the one found. *)
FreshUsageAnyway(d) == [usage EXCEPT ![d] = 0]

(* The unique constraint: of two inserts the second is rolled back. *)
FreshUsage(d) == [usage EXCEPT ![d] = IF @ = NoUsage THEN 0 ELSE @]

InsertUsage(p) ==
  /\ step[p] = "insert"
  /\ usage' = FreshUsage(day[p])
  /\ Go(p, "update")
  /\ UNCHANGED <<limiterVars, today, day, runs>>

(* UPDATE ... WHERE run_count < limit, and its commit *)
CountRun(p) ==
  /\ step[p] = "update"
  /\ usage[day[p]] < Quota
  /\ usage' = [usage EXCEPT ![day[p]] = @ + 1]
  /\ Go(p, "create")
  /\ UNCHANGED <<limiterVars, today, day, runs>>

(* Mutant: the refusal is swallowed and the run created. *)
QuotaExceededSwallowed(p) ==
  /\ step[p] = "update"
  /\ usage[day[p]] >= Quota
  /\ call' = [call EXCEPT ![p] = Idle]
  /\ Go(p, "create")
  /\ LimiterRest /\ UNCHANGED <<today, usage, day, runs>>

(* rowcount = 0: QuotaExceededError, 429 *)
QuotaExceeded(p) ==
  /\ step[p] = "update"
  /\ usage[day[p]] >= Quota
  /\ Leave(p)
  /\ LimiterRest /\ UNCHANGED <<today, usage, runs>>

(* run_store.create_run; the enqueue that follows is WorkerService's. *)
CreateRun(p) ==
  /\ step[p] = "create"
  /\ runs' = [runs EXCEPT ![day[p]] = @ + 1]
  /\ Leave(p)
  /\ LimiterRest /\ UNCHANGED <<today, usage>>

-----------------------------------------------------------------------------
(* The database raised, or the request's thread is gone. *)
RequestDies(p) ==
  /\ ~At(p, "idle")
  /\ Fault
  /\ Leave(p)
  /\ UNCHANGED <<backend, watched, count, ttl, recent, today, usage, runs>>

Midnight ==
  /\ today < LastDay
  /\ today' = today + 1
  /\ UNCHANGED <<limiterVars, usage, step, day, runs>>

LimiterOnly(p) == CheckStep(p) \/ CheckFails(p) \/ \E route \in Route : Arrive(p, route)

RunStep(p) ==
  \/ LookUpUsage(p) \/ InsertUsage(p) \/ CountRun(p) \/ QuotaExceeded(p) \/ CreateRun(p)

AdmissionNext ==
  \/ \E p \in Request : RunStep(p) \/ RequestDies(p)
  \/ (\E p \in Request : LimiterOnly(p)) /\ UNCHANGED quotaVars
  \/ (Tick \/ Flush) /\ UNCHANGED quotaVars
  \/ /\ Restart
     /\ step' = [p \in Request |-> "none"] /\ day' = [p \in Request |-> 0]
     /\ UNCHANGED <<today, usage, runs>>
  \/ Midnight

AdmissionSpec == AdmissionInit /\ [][AdmissionNext]_admissionVars

(* Clocks run, and a request that is being served goes on. *)
AdmissionFairness ==
  /\ WF_admissionVars(Tick /\ UNCHANGED quotaVars)
  /\ \A p \in Request :
       WF_admissionVars(RunStep(p) \/ (CheckStep(p) /\ UNCHANGED quotaVars))

FairAdmissionSpec == AdmissionSpec /\ AdmissionFairness

-----------------------------------------------------------------------------
(* Properties *)

Holding(d) == {p \in Request : step[p] = "create" /\ day[p] = d}
Counter(d) == IF usage[d] = NoUsage THEN 0 ELSE usage[d]

(* run_store.py ("Count one run against today's allowance, or refuse it")  *)
(* and models.py ("a cache flush cannot hand an organization a fresh       *)
(* allowance"): whatever races for the day's first row, at most Quota runs *)
(* are counted on a date, each run is paid for by a count of its own, and  *)
(* no count is wasted unless a request died.                               *)
QuotaIsExact ==
  \A d \in Day :
    LET claimed == runs[d] + Cardinality(Holding(d)) IN
    /\ Counter(d) <= Quota
    /\ claimed <= Counter(d)
    /\ faults = 0 => claimed = Counter(d)
=============================================================================
