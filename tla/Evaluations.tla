----------------------------- MODULE Evaluations -----------------------------
(***************************************************************************)
(* The evaluation-controller: GateReconciler expands an Evaluation into    *)
(* units, UnitReconciler grants, launches and collects them one reconcile  *)
(* at a time and rolls their parent up, and a cancelled or expired         *)
(* Evaluation takes its units and their Jobs with it.  Units are read from *)
(* an informer's cache; Jobs are read from the API server.                 *)
(***************************************************************************)
EXTENDS Integers, FiniteSets, FiniteSetsExt, SequencesExt

CONSTANTS
    Evals,          \* the Evaluations, numbered in the order of their names
    Count,          \* len(spec.units) of each
    Unavailable,    \* unit indices with no enabled harness
    MaxConcurrent,
    InformerLag,    \* TRUE: the cached units may trail the API server
    LastSecond,     \* bound: creation timestamps are 0..LastSecond
    MaxFaults       \* bound: crashes, failed API calls and vanished Jobs

EvaluationsAssumption ==
    /\ Evals \subseteq Nat /\ IsFiniteSet(Evals) /\ Count \in Nat \ {0} /\ Unavailable \subseteq 1..Count
    /\ MaxConcurrent \in Nat \ {0} /\ InformerLag \in BOOLEAN
    /\ LastSecond \in Nat /\ MaxFaults \in Nat

VARIABLES
    eval,    \* the Evaluations: [phase, complete, failed, stalled]
    unit,    \* the EvaluationUnits in the API server
    cache,   \* the informer's copy
    events,  \* watch events it has not seen yet, oldest first
    job,     \* the agent Jobs
    gate,    \* the gate's reconcile under way: [at, eval, index]
    todo,    \* the grants left in the scheduling pass under way
    worker,  \* the unit reconcile under way
    second,  \* the clock, in creation timestamps
    faults

vars == <<eval, unit, cache, events, job, gate, todo, worker, second, faults>>

Units == Evals \X (1..Count)

NoEval == [phase |-> "Absent", complete |-> 0, failed |-> 0, stalled |-> FALSE]
NoUnit == [at |-> "Absent", phase |-> "Pending", ref |-> FALSE, born |-> 0]
NoGate == [at |-> "idle", eval |-> 0, index |-> 0]
Idle == [at |-> "idle"]

UnitObject == [at: {"Absent", "Live", "Deleting", "Gone"}, ref: BOOLEAN, born: 0..LastSecond,
               phase: {"Pending", "Running", "Complete", "Failed"}]
EvalObject == [phase: {"Absent", "Pending", "Running", "Complete", "Failed", "Gone"},
               complete: 0..Count, failed: 0..Count, stalled: BOOLEAN]
UnitReconcile ==
    {Idle} \cup [at: {"create", "ref", "drop", "list"}, unit: Units]
           \cup [at: {"lost"}, unit: Units]
           \cup [at: {"settle"}, unit: Units, phase: {"Complete", "Failed"}]
           \cup [at: {"update"}, unit: Units, read: EvalObject, complete: 0..Count,
                 failed: 0..Count, shown: 0..Count]

TypeOK ==
    /\ eval \in [Evals -> EvalObject]
    /\ unit \in [Units -> UnitObject] /\ cache \in [Units -> UnitObject]
    /\ events \in Seq([unit: Units, obj: UnitObject])
    /\ job \in [Units -> {"None", "Active", "Done"}]
    /\ gate \in [at: {"idle", "create", "settle", "phase"}, eval: Evals \cup {0}, index: 0..Count + 1]
    /\ todo \in Seq(Units) /\ Len(todo) <= MaxConcurrent
    /\ worker \in UnitReconcile /\ second \in 0..LastSecond /\ faults \in 0..MaxFaults

Init ==
    /\ eval = [e \in Evals |-> NoEval] /\ unit = [u \in Units |-> NoUnit] /\ cache = unit
    /\ events = <<>> /\ job = [u \in Units |-> "None"] /\ gate = NoGate /\ todo = <<>>
    /\ worker = Idle /\ second = 0 /\ faults = 0
----------------------------------------------------------------------------
(* The API server and the cache *)
Write(u, obj) ==
    /\ unit' = [unit EXCEPT ![u] = obj]
    /\ IF InformerLag
       THEN events' = Append(events, [unit |-> u, obj |-> obj]) /\ UNCHANGED cache
       ELSE cache' = unit' /\ UNCHANGED events

Read == UNCHANGED <<unit, cache, events>>

\* An update of a copy the API server has moved past is refused, and retried.
Stale(u) == \E i \in DOMAIN events : events[i].unit = u

Exists(obj) == obj.at \in {"Live", "Deleting"}
Settled(obj) == obj.phase \in {"Complete", "Failed"}
Terminal(e) == eval[e].phase \in {"Complete", "Failed"}
There(e) == eval[e].phase \notin {"Absent", "Gone"}

Observe ==
    /\ events # <<>>
    /\ cache' = [cache EXCEPT ![Head(events).unit] = Head(events).obj]
    /\ events' = Tail(events)
    /\ UNCHANGED <<eval, unit, job, gate, todo, worker, second, faults>>

Tick ==
    /\ second < LastSecond /\ second' = second + 1
    /\ UNCHANGED <<eval, unit, cache, events, job, gate, todo, worker, faults>>

\* The API accepts a submission; Spec is immutable.
Submit(e) ==
    /\ eval[e].phase = "Absent"
    /\ eval' = [eval EXCEPT ![e].phase = "Pending"]
    /\ Read /\ UNCHANGED <<job, gate, todo, worker, second, faults>>

Removed(e) ==
    /\ eval' = [eval EXCEPT ![e] = [NoEval EXCEPT !.phase = "Gone"]]
    /\ Read /\ UNCHANGED <<job, gate, todo, worker, second, faults>>

Cancel(e) == There(e) /\ Removed(e)

\* TTLReconciler, once its retention is over.
Expire(e) == Terminal(e) /\ Removed(e)

\* The garbage collector deletes a unit whose owner is gone; its finalizer holds it.
Collected(u) ==
    /\ unit[u].at = "Live" /\ eval[u[1]].phase = "Gone"
    /\ Write(u, [unit[u] EXCEPT !.at = "Deleting"])
    /\ UNCHANGED <<eval, job, gate, todo, worker, second, faults>>

JobFinishes(u) ==
    /\ job[u] = "Active" /\ job' = [job EXCEPT ![u] = "Done"]
    /\ Read /\ UNCHANGED <<eval, gate, todo, worker, second, faults>>

JobVanishes(u) ==
    /\ job[u] # "None" /\ faults < MaxFaults /\ faults' = faults + 1
    /\ job' = [job EXCEPT ![u] = "None"]
    /\ Read /\ UNCHANGED <<eval, gate, todo, worker, second>>
----------------------------------------------------------------------------
(* GateReconciler *)
GateStart(e) ==
    /\ gate = NoGate /\ eval[e].phase = "Pending"
    /\ gate' = [at |-> "create", eval |-> e, index |-> 1]
    /\ Read /\ UNCHANGED <<eval, job, todo, worker, second, faults>>

Ensured == <<gate.eval, gate.index>>

Onward(index) == [gate EXCEPT !.at = IF index = Count THEN "phase" ELSE "create", !.index = index + 1]

\* ensureUnit: a unit that exists already is adopted, whatever became of it.
EnsureUnit ==
    /\ gate.at = "create"
    /\ IF Exists(unit[Ensured]) THEN Read
       ELSE Write(Ensured, [NoUnit EXCEPT !.at = "Live", !.born = second])
    /\ gate' = IF gate.index \in Unavailable THEN [gate EXCEPT !.at = "settle"] ELSE Onward(gate.index)
    /\ UNCHANGED <<eval, job, todo, worker, second, faults>>

\* settleUnavailable: nothing is done to a unit the cache does not show yet.
SettleUnavailable ==
    /\ gate.at = "settle"
    /\ IF ~Exists(cache[Ensured]) \/ Settled(cache[Ensured]) THEN Read
       ELSE ~Stale(Ensured) /\ Write(Ensured, [unit[Ensured] EXCEPT !.phase = "Failed"])
    /\ gate' = Onward(gate.index)
    /\ UNCHANGED <<eval, job, todo, worker, second, faults>>

MoveToRunning ==
    /\ gate.at = "phase" /\ gate' = NoGate
    /\ eval' = [eval EXCEPT ![gate.eval].phase = IF @ = "Pending" THEN "Running" ELSE @]
    /\ Read /\ UNCHANGED <<job, todo, worker, second, faults>>
----------------------------------------------------------------------------
(* UnitReconciler.schedule *)
Before(u, v) ==
    \/ unit[u].born < unit[v].born
    \/ /\ unit[u].born = unit[v].born
       /\ u[1] < v[1] \/ (u[1] = v[1] /\ u[2] < v[2])

\* The cached list's candidates, and the slots its running units leave.
Pending == {u \in Units : cache[u].at = "Live" /\ cache[u].phase = "Pending"}
Slots == MaxConcurrent - Cardinality({u \in Units : Exists(cache[u]) /\ cache[u].phase = "Running"})

\* s names the oldest of them, oldest first, one for each free slot.
Picked(s) ==
    /\ \A i \in DOMAIN s : LET rest == Pending \ {s[j] : j \in 1..(i - 1)}
                          IN s[i] \in rest /\ \A u \in rest \ {s[i]} : Before(s[i], u)
    /\ Len(s) = Slots \/ ToSet(s) = Pending

Schedule ==
    /\ worker = Idle /\ todo = <<>>
    /\ \E n \in 1..Slots : \E s \in [1..n -> Pending] : Picked(s) /\ todo' = s
    /\ Read /\ UNCHANGED <<eval, job, gate, worker, second, faults>>

Grant ==
    /\ todo # <<>> /\ todo' = Tail(todo)
    /\ LET u == Head(todo) IN
       IF ~Exists(cache[u]) \/ cache[u].phase # "Pending" THEN Read
       ELSE ~Stale(u) /\ Write(u, [unit[u] EXCEPT !.phase = "Running"])
    /\ UNCHANGED <<eval, job, gate, worker, second, faults>>
----------------------------------------------------------------------------
(* UnitReconciler.run, one unit at a time *)
Free == worker = Idle /\ todo = <<>>

Launching(u) == cache[u].at = "Live" /\ cache[u].phase = "Running" /\ ~cache[u].ref

\* launch: no harness, the workspace gone from the artifact store, or a Job to create.
Launch(u) ==
    /\ Free /\ Launching(u)
    /\ worker' \in IF u[2] \in Unavailable THEN {[at |-> "settle", unit |-> u, phase |-> "Failed"]}
                   ELSE {[at |-> "lost", unit |-> u], [at |-> "create", unit |-> u]}
    /\ Read /\ UNCHANGED <<eval, job, gate, todo, second, faults>>

\* markWorkspaceLost
MarkWorkspaceLost ==
    /\ worker.at = "lost"
    /\ eval' = [eval EXCEPT ![worker.unit[1]].stalled = @ \/ There(worker.unit[1])]
    /\ worker' = [at |-> "settle", unit |-> worker.unit, phase |-> "Failed"]
    /\ Read /\ UNCHANGED <<job, gate, todo, second, faults>>

\* CreateEval: a Job of the unit's name that exists already is adopted.
CreateEval ==
    /\ worker.at = "create"
    /\ job' = [job EXCEPT ![worker.unit] = IF @ = "None" THEN "Active" ELSE @]
    /\ worker' = [at |-> "ref", unit |-> worker.unit]
    /\ Read /\ UNCHANGED <<eval, gate, todo, second, faults>>

RecordJob ==
    /\ worker.at = "ref" /\ worker' = Idle
    /\ LET u == worker.unit IN
       IF ~Exists(cache[u]) \/ cache[u].phase # "Running" \/ cache[u].ref THEN Read
       ELSE ~Stale(u) /\ Write(u, [unit[u] EXCEPT !.ref = TRUE])
    /\ UNCHANGED <<eval, job, gate, todo, second, faults>>

\* collect: a Job gone fails its unit, one done tells its outcome.
Collect(u) ==
    /\ Free /\ cache[u].at = "Live" /\ cache[u].phase = "Running" /\ cache[u].ref
    /\ \/ job[u] = "None" /\ worker' = [at |-> "settle", unit |-> u, phase |-> "Failed"]
       \/ /\ job[u] = "Done"
          /\ \E p \in {"Complete", "Failed"} : worker' = [at |-> "settle", unit |-> u, phase |-> p]
    /\ Read /\ UNCHANGED <<eval, job, gate, todo, second, faults>>

\* settle, its write; the parent is rolled up next.
Settle ==
    /\ worker.at = "settle" /\ worker' = [at |-> "list", unit |-> worker.unit]
    /\ LET u == worker.unit IN
       IF ~Exists(cache[u]) \/ Settled(cache[u]) THEN Read
       ELSE ~Stale(u) /\ Write(u, [unit[u] EXCEPT !.phase = worker.phase])
    /\ UNCHANGED <<eval, job, gate, todo, second, faults>>

Shown(e) == {i \in 1..Count : Exists(cache[<<e, i>>])}
Listed(e, phase) == {i \in Shown(e) : cache[<<e, i>>].phase = phase}

\* rollupParent: the parent as it is, and its units as the cache has them.
ListUnits ==
    /\ worker.at = "list"
    /\ LET e == worker.unit[1] IN
       worker' = IF ~There(e) \/ Terminal(e) THEN Idle
                 ELSE [at |-> "update", unit |-> worker.unit, read |-> eval[e],
                       complete |-> Cardinality(Listed(e, "Complete")),
                       failed |-> Cardinality(Listed(e, "Failed")), shown |-> Cardinality(Shown(e))]
    /\ Read /\ UNCHANGED <<eval, job, gate, todo, second, faults>>

Outcome ==
    IF worker.complete + worker.failed < Count \/ worker.shown < Count THEN worker.read.phase
    ELSE IF worker.failed > 0 THEN "Failed" ELSE "Complete"

\* The update is refused when the parent has moved since it was read, and begun again.
UpdateParent ==
    /\ worker.at = "update"
    /\ LET e == worker.unit[1] IN
       IF eval[e] # worker.read
       THEN worker' = [at |-> "list", unit |-> worker.unit] /\ UNCHANGED eval
       ELSE /\ worker' = Idle
            /\ eval' = [eval EXCEPT ![e] = [@ EXCEPT !.phase = Outcome, !.complete = worker.complete,
                                                     !.failed = worker.failed]]
    /\ Read /\ UNCHANGED <<job, gate, todo, second, faults>>

\* Mutant: the Job is deleted by the name the unit recorded.
Finalize_Recorded(u) ==
    /\ Free /\ cache[u].at = "Deleting"
    /\ job' = IF cache[u].ref THEN [job EXCEPT ![u] = "None"] ELSE job
    /\ worker' = [at |-> "drop", unit |-> u]
    /\ Read /\ UNCHANGED <<eval, gate, todo, second, faults>>

\* finalize: the Job is deleted by its deterministic name, then the finalizer dropped.
Finalize(u) ==
    /\ Free /\ cache[u].at = "Deleting"
    /\ job' = [job EXCEPT ![u] = "None"]
    /\ worker' = [at |-> "drop", unit |-> u]
    /\ Read /\ UNCHANGED <<eval, gate, todo, second, faults>>

\* One update of the copy read, which was being deleted: it is refused when the unit has
\* moved past it, and the unit reconciled again.
DropFinalizer ==
    /\ worker.at = "drop" /\ worker' = Idle
    /\ IF Stale(worker.unit) \/ unit[worker.unit].at # "Deleting" THEN Read
       ELSE Write(worker.unit, [unit[worker.unit] EXCEPT !.at = "Gone"])
    /\ UNCHANGED <<eval, job, gate, todo, second, faults>>
----------------------------------------------------------------------------
(* Failures *)
\* An API call of the unit reconciler fails, or its retries run out.
CallFails ==
    /\ ~Free /\ faults < MaxFaults /\ faults' = faults + 1
    /\ worker' = Idle /\ todo' = <<>>
    /\ Read /\ UNCHANGED <<eval, job, gate, second>>

GateFails ==
    /\ gate # NoGate /\ faults < MaxFaults /\ faults' = faults + 1
    /\ gate' = NoGate
    /\ Read /\ UNCHANGED <<eval, job, todo, worker, second>>

\* A restart loses both reconciles and reads the cache afresh.
Crash ==
    /\ faults < MaxFaults /\ faults' = faults + 1
    /\ worker' = Idle /\ todo' = <<>> /\ gate' = NoGate
    /\ cache' = unit /\ events' = <<>>
    /\ UNCHANGED <<eval, unit, job, second>>

GateStep == EnsureUnit \/ SettleUnavailable \/ MoveToRunning

UnitStep ==
    Grant \/ MarkWorkspaceLost \/ CreateEval \/ RecordJob \/ Settle \/ ListUnits \/ UpdateParent
    \/ DropFinalizer

Run(u) == Launch(u) \/ Collect(u) \/ Finalize(u)

Next ==
    \/ Observe \/ Tick \/ GateStep \/ Schedule \/ UnitStep \/ CallFails \/ GateFails \/ Crash
    \/ \E e \in Evals : Submit(e) \/ Cancel(e) \/ Expire(e) \/ GateStart(e)
    \/ \E u \in Units : Collected(u) \/ JobFinishes(u) \/ JobVanishes(u) \/ Run(u)

Spec == Init /\ [][Next]_vars

\* Each controller works through its queue in turn, Jobs end and watches deliver.
Fairness ==
    /\ WF_vars(Observe) /\ WF_vars(GateStep) /\ WF_vars(UnitStep) /\ SF_vars(Schedule)
    /\ \A e \in Evals : SF_vars(GateStart(e))
    /\ \A u \in Units : SF_vars(Run(u)) /\ WF_vars(JobFinishes(u)) /\ WF_vars(Collected(u))

FairSpec == Spec /\ Fairness
----------------------------------------------------------------------------
(* A finished Evaluation tells the truth, for as long as its units stand:  *)
(* every unit settled, the counts exact, Failed iff one failed - though    *)
(* rollupParent counts what a trailing cache lists.                        *)
FinishedTrue ==
    \A e \in Evals : Terminal(e) =>
        LET failed == {i \in 1..Count : unit[<<e, i>>].phase = "Failed"} IN
        /\ \A i \in 1..Count : unit[<<e, i>>].at = "Live" /\ Settled(unit[<<e, i>>])
        /\ eval[e].failed = Cardinality(failed) /\ eval[e].complete = Count - Cardinality(failed)
        /\ (eval[e].phase = "Failed") <=> (failed # {})

\* A phase derived from the units is never taken back: the gate's late write loses.
FinishedStays ==
    [][\A e \in Evals : Terminal(e) => eval'[e].phase \in {eval[e].phase, "Gone"}]_vars

(* A unit gone has left no Job behind, though its Job may exist before the *)
(* unit says so and the two are written apart.                             *)
NoOrphanJob == \A u \in Units : unit[u].at = "Gone" => job[u] = "None"

(* unit_controller.go: "MaxConcurrent bounds simultaneously Running units" *)
(* - counted on a cached list, which a first-come order makes up for.  One *)
(* granted while it is being deleted never launches and is not counted.    *)
SlotsRespected ==
    Cardinality({u \in Units : /\ Exists(unit[u]) /\ unit[u].phase = "Running"
                               /\ unit[u].at = "Live" \/ job[u] # "None"}) <= MaxConcurrent

(* An Evaluation whose units have all settled ends: "EvaluationRunning:    *)
(* children created, at least one not yet settled."                        *)
SettledEnds ==
    \A e \in Evals :
        (\A i \in 1..Count : Settled(unit[<<e, i>>])) ~> (Terminal(e) \/ eval[e].phase = "Gone")

\* Every submission ends: each unit is created, granted, run and settled.
SubmittedEnds ==
    \A e \in Evals : (eval[e].phase = "Pending") ~> (Terminal(e) \/ eval[e].phase = "Gone")

\* A cancelled or expired Evaluation takes its units and their Jobs with it.
DeletedCascades ==
    \A e \in Evals : (eval[e].phase = "Gone")
        ~> (\A i \in 1..Count : ~Exists(unit[<<e, i>>]) /\ job[<<e, i>>] = "None")
=============================================================================
