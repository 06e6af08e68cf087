-------------------------------- MODULE MCRuns --------------------------------
(*****************************************************************************)
(* What the runs share - a budget, slots, branches, rollups - on small       *)
(* instances, one at a time: "active" names the instance at work and every   *)
(* other keeps its first state, so one run explores them side by side. The   *)
(* spend ledger of a pod and the runs of intents come with SpendLedger and   *)
(* IntentRuns themselves; the ledger's hour, and each other module, as       *)
(* instances.                                                                *)
(*****************************************************************************)
EXTENDS SpendLedger, IntentRuns

VARIABLES
    active,  \* the instance at work: the others keep their first state
    hrClock, hrPods, hrHour, hrReserved, hrLastSweep, hrReq, hrBilled,
    schedApi, schedCache, schedEvents, schedPriority, schedQueue, schedBoost, schedExpedited,
    schedPaused, schedTodo, schedRestarts,
    evEval, evUnit, evCache, evEvents, evJob, evGate, evTodo, evWorker, evSecond, evFaults,
    ruFinding, ruRun, ruShown, ruRollup, ruLog, ruSpent, ruEmitted, ruFpass, ruRpass,
    ruCollecting, ruLate, ruBudget,
    usPod, usSpent, usBroker, usRun, usRollup, usRights, usPass, usFirst, usBudget

hrVars ==
    <<hrClock, hrPods, hrHour, hrReserved, hrLastSweep, hrReq, hrBilled>>
schedVars ==
    <<schedApi, schedCache, schedEvents, schedPriority, schedQueue, schedBoost, schedExpedited,
    schedPaused, schedTodo, schedRestarts>>
evVars ==
    <<evEval, evUnit, evCache, evEvents, evJob, evGate, evTodo, evWorker, evSecond, evFaults>>
ruVars ==
    <<ruFinding, ruRun, ruShown, ruRollup, ruLog, ruSpent, ruEmitted, ruFpass, ruRpass,
    ruCollecting, ruLate, ruBudget>>
usVars ==
    <<usPod, usSpent, usBroker, usRun, usRollup, usRights, usPass, usFirst, usBudget>>

Hour == INSTANCE SpendLedger WITH
    Pods <- {"p1", "p2"}, Requests <- {"r1", "r2"}, PodLimit <- 0, HourLimit <- 3,
    RequestLimit <- 2, Cap <- 1, Waits <- TRUE, Reserves <- {0, 1, 2}, Overrun <- 0,
    Window <- 2, Ttl <- 0, MaxMinute <- 2,
    clock <- hrClock, pods <- hrPods, hour <- hrHour, reserved <- hrReserved,
    lastSweep <- hrLastSweep, req <- hrReq, billed <- hrBilled
Granting == INSTANCE RunScheduler WITH
    Run <- {"r1", "r2"}, Slots <- 1, Priorities <- {0, 1}, AgingCap <- 1, InformerLag <- TRUE,
    MaxRestarts <- 2, MaxExpedites <- 1,
    api <- schedApi, cache <- schedCache, events <- schedEvents, priority <- schedPriority,
    queue <- schedQueue, boost <- schedBoost, expedited <- schedExpedited,
    paused <- schedPaused, todo <- schedTodo, restarts <- schedRestarts
Granted == INSTANCE RunScheduler WITH
    Run <- {"r1", "r2", "r3"}, Slots <- 1, Priorities <- {0, 1}, AgingCap <- 1,
    InformerLag <- FALSE, MaxRestarts <- 1, MaxExpedites <- 0,
    api <- schedApi, cache <- schedCache, events <- schedEvents, priority <- schedPriority,
    queue <- schedQueue, boost <- schedBoost, expedited <- schedExpedited,
    paused <- schedPaused, todo <- schedTodo, restarts <- schedRestarts
Evaluation == INSTANCE Evaluations WITH
    Evals <- {1}, Count <- 2, Unavailable <- {2}, MaxConcurrent <- 1, InformerLag <- TRUE,
    LastSecond <- 0, MaxFaults <- 1,
    eval <- evEval, unit <- evUnit, cache <- evCache, events <- evEvents, job <- evJob,
    gate <- evGate, todo <- evTodo, worker <- evWorker, second <- evSecond, faults <- evFaults
UnitSlots == INSTANCE Evaluations WITH
    Evals <- {1}, Count <- 2, Unavailable <- {}, MaxConcurrent <- 1, InformerLag <- TRUE,
    LastSecond <- 1, MaxFaults <- 0,
    eval <- evEval, unit <- evUnit, cache <- evCache, events <- evEvents, job <- evJob,
    gate <- evGate, todo <- evTodo, worker <- evWorker, second <- evSecond, faults <- evFaults
Counts == INSTANCE Rollups WITH
    Findings <- {"f", "g"}, Runs <- {}, Ledger <- 8, Deletes <- {"ttl"}, Races <- FALSE,
    Collects <- FALSE, MaxMoves <- 3, MaxFaults <- 1,
    finding <- ruFinding, run <- ruRun, shown <- ruShown, rollup <- ruRollup, log <- ruLog,
    spent <- ruSpent, emitted <- ruEmitted, fpass <- ruFpass, rpass <- ruRpass,
    collecting <- ruCollecting, late <- ruLate, budget <- ruBudget
Costs == INSTANCE Rollups WITH
    Findings <- {"f"}, Runs <- {"r"}, Ledger <- 8, Deletes <- {"foreground"}, Races <- FALSE,
    Collects <- TRUE, MaxMoves <- 1, MaxFaults <- 1,
    finding <- ruFinding, run <- ruRun, shown <- ruShown, rollup <- ruRollup, log <- ruLog,
    spent <- ruSpent, emitted <- ruEmitted, fpass <- ruFpass, rpass <- ruRpass,
    collecting <- ruCollecting, late <- ruLate, budget <- ruBudget
Usage == INSTANCE RunUsage WITH
    Kind <- "intent", Aborts <- TRUE, Deletes <- "final", LateFaults <- TRUE, MaxRequests <- 2,
    MaxBoots <- 1, MaxFaults <- 2,
    pod <- usPod, spent <- usSpent, broker <- usBroker, run <- usRun, rollup <- usRollup,
    rights <- usRights, pass <- usPass, first <- usFirst, budget <- usBudget
Deleted == INSTANCE RunUsage WITH
    Kind <- "stage", Aborts <- TRUE, Deletes <- "any", LateFaults <- TRUE, MaxRequests <- 2,
    MaxBoots <- 1, MaxFaults <- 2,
    pod <- usPod, spent <- usSpent, broker <- usBroker, run <- usRun, rollup <- usRollup,
    rights <- usRights, pass <- usPass, first <- usFirst, budget <- usBudget

ASSUME MCRunsAssumption ==
    /\ Hour!SpendAssumption /\ Granting!SchedulerAssumption /\ Granted!SchedulerAssumption
    /\ Evaluation!EvaluationsAssumption /\ UnitSlots!EvaluationsAssumption /\ Counts!RollupsAssumption
    /\ Costs!RollupsAssumption /\ Usage!RunUsageAssumption /\ Deleted!RunUsageAssumption

----------------------------------------------------------------------------
\* The variables of every instance but those of c.
Still(c) ==
    /\ UNCHANGED active
    /\ IF c = "spend" THEN TRUE ELSE UNCHANGED ledgerVars
    /\ IF c = "push" THEN TRUE ELSE UNCHANGED vars
    /\ IF c = "hr" THEN TRUE ELSE UNCHANGED hrVars
    /\ IF c = "sched" THEN TRUE ELSE UNCHANGED schedVars
    /\ IF c = "ev" THEN TRUE ELSE UNCHANGED evVars
    /\ IF c = "ru" THEN TRUE ELSE UNCHANGED ruVars
    /\ IF c = "us" THEN TRUE ELSE UNCHANGED usVars

All == <<active, ledgerVars, vars, hrVars, schedVars, evVars, ruVars, usVars>>

MCRunsInit ==
    /\ active \in {"spend", "push", "hour", "granting", "fresh", "evaluation", "units",
                   "counts", "costs", "usage", "deleted"}
    /\ LedgerInit
    /\ Init
    /\ Hour!LedgerInit
    /\ active # "hour" => \A r \in DOMAIN hrReq : hrReq[r].pod = "p1"
    /\ IF active = "granting" THEN Granting!Init ELSE Granted!Init
    /\ active \notin {"granting", "fresh"} => schedPriority = [r \in DOMAIN schedPriority |-> 0] /\ ~schedPaused
    /\ IF active = "evaluation" THEN Evaluation!Init ELSE UnitSlots!Init
    /\ IF active = "counts" THEN Counts!Init ELSE Costs!Init
    /\ IF active = "usage" THEN Usage!Init ELSE Deleted!Init

MCRunsNext ==
    \/ active = "spend" /\ LedgerNext /\ Still("spend")
    \/ active = "push" /\ Next /\ Still("push")
    \/ active = "hour" /\ Hour!LedgerNext /\ Still("hr")
    \/ active = "granting" /\ Granting!Next /\ Still("sched")
    \/ active = "fresh" /\ Granted!Next /\ Still("sched")
    \/ active = "evaluation" /\ Evaluation!Next /\ Still("ev")
    \/ active = "units" /\ UnitSlots!Next /\ Still("ev")
    \/ active = "counts" /\ Counts!Next /\ Still("ru")
    \/ active = "costs" /\ Costs!Next /\ Still("ru")
    \/ active = "usage" /\ Usage!Next /\ Still("us")
    \/ active = "deleted" /\ Deleted!Next /\ Still("us")

MCRunsSpec == MCRunsInit /\ [][MCRunsNext]_All
----------------------------------------------------------------------------
\* What agents spend is bounded, and counted once.  However many requests of a pod
\* overlap, overrun or wait, it is charged at most its limit and what a slot's
\* worth of overruns adds, and each request all it had the model do, cut short or
\* not; and so over the hour, whose buckets sum to what was charged in it and whose
\* reservations are those of the requests in flight.  A run's figure is never more
\* than it spends, and called measured it is all of it, unless the run settled
\* while the pod of its deleted Job could still make requests; an investigation's
\* or a remediation's is folded only once it is final, whenever it is deleted.  A
\* run or a finding is folded into a rollup once, whatever fails between the fold
\* and its marker; where a finding moves on only once counted, and every marker
\* landed, the counts are the findings'; and a run is gone only once every scope
\* holds its spend, unless it was deleted while its result was being collected.  (internal/egress: limit.go, broker's proxy;
\* internal/controller/usage, internal/controller/rollup)
SpendTrue ==
    /\ active = "spend" => LedgerTypeOK /\ PodBounded /\ ChargedWhole
    /\ active = "hour" => Hour!HourBounded /\ Hour!WindowTrue /\ Hour!ReservationsTrue
    /\ active = "counts" => Counts!TypeOK /\ Counts!FoldedOnce /\ Counts!CountsTrue
    /\ active = "costs" => Costs!SpendKept
    /\ active = "usage" => Usage!TypeOK /\ Usage!FoldedOnce /\ Usage!MarkTrue /\ Usage!MeasuredWhole
    /\ active = "deleted" => Deleted!FoldedMeasured

\* No more runs are granted at once than there are slots, over priorities, boosts
\* and restarts, where the cache shows every grant at once; nor more evaluation
\* units than may run together, though that cache lags and the creation of the
\* units is spread over a second.  (internal/schedule, evaluation_controller.go)
GrantsWithinSlots ==
    /\ active = "granting" => Granting!TypeOK
    /\ active = "fresh" => Granted!SlotsRespected
    /\ active = "units" => UnitSlots!SlotsRespected

\* A finished Evaluation's phase and counts are those of its settled units, and no
\* deleted unit leaves a Job, whatever write of the gate fails or is repeated.
\* (internal/controller/evaluation)
EvaluationsTrue ==
    active = "evaluation" => Evaluation!TypeOK /\ Evaluation!FinishedTrue /\ Evaluation!NoOrphanJob

\* What a step of these never does: grant a run twice or bring a settled one back,
\* or take back a phase an Evaluation's units decided.
RunSteps == Granting!OnlyForward /\ Evaluation!FinishedStays
=============================================================================
