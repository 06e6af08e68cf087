---------------------------- MODULE RunScheduler ----------------------------
(***************************************************************************)
(* The slot scheduler of the run controllers: the singleton request of     *)
(* InvestigationReconciler.schedule and RemediationReconciler.schedule,    *)
(* with schedule.Pick.  It counts slots and ranks candidates on the        *)
(* informer cache, which follows the API server one watch event at a time, *)
(* and writes grants and pause marks one run at a time.                    *)
(***************************************************************************)
EXTENDS Integers, FiniteSets, FiniteSetsExt, SequencesExt

CONSTANTS
    Run,          \* names of runs; a deleted run's name stands for a new run
    Slots,        \* MaxConcurrent
    Priorities,   \* the priorities runs have
    AgingCap,     \* AgingPolicy.Cap, one point per Age (its Interval)
    InformerLag,  \* TRUE: the cache may trail the API server
    MaxRestarts,  \* bound: restarts, each of which may flip --agents-paused
    MaxExpedites  \* bound: runs whose finding is expedited

SchedulerAssumption ==
    /\ IsFiniteSet(Run) /\ Slots \in Nat \ {0} /\ AgingCap \in Nat /\ Priorities \subseteq 0..100
    /\ InformerLag \in BOOLEAN /\ MaxRestarts \in Nat /\ MaxExpedites \in Nat

VARIABLES
    api,       \* the runs in the API server: [phase, job, held]
    cache,     \* the informer's copy
    events,    \* watch events it has not seen yet, oldest first
    priority,  \* run -> priority
    queue,     \* pending runs, oldest first: QueuedAt
    boost,     \* run -> its aging boost
    expedited, \* runs whose finding carries spec.expedite
    paused,    \* --agents-paused of the process running
    todo,      \* the grants left in the pass under way
    restarts

vars == <<api, cache, events, priority, queue, boost, expedited, paused, todo, restarts>>

None == [phase |-> "None", job |-> FALSE, held |-> FALSE]
RunObject == [phase: {"None", "Pending", "Running", "Done"}, job: BOOLEAN, held: BOOLEAN]

TypeOK ==
    /\ api \in [Run -> RunObject] /\ cache \in [Run -> RunObject]
    /\ events \in Seq([run: Run, obj: RunObject])
    /\ priority \in [Run -> Priorities] /\ boost \in [Run -> 0..AgingCap]
    /\ queue \in Seq(Run) /\ IsInjective(queue)
    /\ ToSet(queue) = {r \in Run : api[r].phase = "Pending"}
    /\ expedited \subseteq Run /\ paused \in BOOLEAN
    /\ todo \in Seq(Run) /\ Len(todo) <= Slots /\ restarts \in 0..MaxRestarts

Init ==
    /\ api = [r \in Run |-> None] /\ cache = api /\ events = <<>>
    /\ priority \in [Run -> Priorities] /\ queue = <<>> /\ boost = [r \in Run |-> 0]
    /\ expedited = {} /\ paused \in BOOLEAN /\ todo = <<>> /\ restarts = 0

\* Every write reaches the cache as a watch event.
Write(r, obj) ==
    /\ api' = [api EXCEPT ![r] = obj]
    /\ IF InformerLag
       THEN events' = Append(events, [run |-> r, obj |-> obj]) /\ UNCHANGED cache
       ELSE cache' = api' /\ UNCHANGED events

\* Mutant: writes are not conditional on the version read.
Stale_Never(r) == FALSE

\* An update of a copy the API server has moved past fails on a conflict.
Stale(r) == \E i \in DOMAIN events : events[i].run = r

Observe ==
    /\ events # <<>>
    /\ cache' = [cache EXCEPT ![Head(events).run] = Head(events).obj]
    /\ events' = Tail(events)
    /\ UNCHANGED <<api, priority, queue, boost, expedited, paused, todo, restarts>>
----------------------------------------------------------------------------
(* schedule.Pick *)
Effective(r) == priority[r] + boost[r]

QueuedBefore(r, s) ==
    \E i, j \in DOMAIN queue : i < j /\ queue[i] = r /\ queue[j] = s

Before(r, s) ==
    \/ r \in expedited /\ s \notin expedited
    \/ /\ (r \in expedited) <=> (s \in expedited)
       /\ \/ Effective(r) > Effective(s)
          \/ /\ Effective(r) = Effective(s)
             /\ QueuedBefore(r, s)

\* Mutant: one slot too many is free.
Free_OneMore == Slots + 1 - Cardinality({r \in Run : cache[r].phase = "Running"})

Free == Slots - Cardinality({r \in Run : cache[r].phase = "Running"})

\* The cached list's candidates.
Pending == {r \in Run : cache[r].phase = "Pending" /\ r \in ToSet(queue)}

\* s names the best of them, best first, one for each free slot.
Picked(s) ==
    /\ \A i \in DOMAIN s : LET rest == Pending \ {s[j] : j \in 1..(i - 1)}
                          IN s[i] \in rest /\ \A r \in rest \ {s[i]} : Before(s[i], r)
    /\ Len(s) = Free \/ ToSet(s) = Pending
----------------------------------------------------------------------------
HeldByPause(obj) ==
    paused /\ (obj.phase = "Pending" \/ (obj.phase = "Running" /\ ~obj.job))

\* SyncAgentsPaused would change the cached run's condition.
NeedsMark(r) == cache[r].phase # "None" /\ cache[r].held # HeldByPause(cache[r])

\* markPaused, one write; the pass that wrote one grants nothing.
MarkPaused(r) ==
    /\ todo = <<>> /\ NeedsMark(r) /\ ~Stale(r) /\ api[r].phase # "None"
    /\ Write(r, [api[r] EXCEPT !.held = HeldByPause(api[r])])
    /\ UNCHANGED <<priority, queue, boost, expedited, paused, todo, restarts>>

SchedulePass ==
    /\ todo = <<>> /\ ~paused /\ \A r \in Run : ~NeedsMark(r)
    /\ \E n \in 1..Free : \E s \in [1..n -> Pending] : Picked(s) /\ todo' = s
    /\ UNCHANGED <<api, cache, events, priority, queue, boost, expedited, paused, restarts>>

\* The next grant of the pass; a conflict fails the pass.
Grant ==
    /\ todo # <<>>
    /\ LET r == Head(todo) IN
       IF Stale(r)
       THEN todo' = <<>> /\ UNCHANGED <<api, cache, events, queue, boost>>
       ELSE /\ todo' = Tail(todo)
            /\ IF api[r].phase = "Pending"
               THEN /\ Write(r, [api[r] EXCEPT !.phase = "Running"])
                    /\ \E i \in DOMAIN queue : queue[i] = r /\ queue' = RemoveAt(queue, i)
                    /\ boost' = [boost EXCEPT ![r] = 0]
               ELSE UNCHANGED <<api, cache, events, queue, boost>>
    /\ UNCHANGED <<priority, expedited, paused, restarts>>

\* run: a granted run is launched, and its Job recorded, unless paused.
Launch(r) ==
    /\ cache[r].phase = "Running" /\ ~cache[r].job /\ ~paused /\ ~Stale(r)
    /\ Write(r, [api[r] EXCEPT !.job = TRUE])
    /\ UNCHANGED <<priority, queue, boost, expedited, paused, todo, restarts>>

\* collect: the Job ended and the run settles, paused or not.
Collect(r) ==
    /\ cache[r].phase = "Running" /\ cache[r].job /\ ~Stale(r)
    /\ Write(r, [api[r] EXCEPT !.phase = "Done"])
    /\ UNCHANGED <<priority, queue, boost, expedited, paused, todo, restarts>>
----------------------------------------------------------------------------
(* The rest of the world *)
Create(r) ==
    /\ api[r].phase = "None"
    /\ Write(r, [None EXCEPT !.phase = "Pending"])
    /\ queue' = Append(queue, r)
    /\ UNCHANGED <<priority, boost, expedited, paused, todo, restarts>>

Delete(r) ==
    /\ api[r].phase = "Done"
    /\ Write(r, None)
    /\ expedited' = expedited \ {r}
    /\ UNCHANGED <<priority, queue, boost, paused, todo, restarts>>

Expedite(r) ==
    /\ api[r].phase = "Pending" /\ r \notin expedited /\ Cardinality(expedited) < MaxExpedites
    /\ expedited' = expedited \union {r}
    /\ UNCHANGED <<api, cache, events, priority, queue, boost, paused, todo, restarts>>

\* An aging interval elapses.
Age ==
    /\ \E r \in ToSet(queue) : boost[r] < AgingCap
    /\ boost' = [r \in Run |-> IF r \in ToSet(queue) THEN Min({boost[r] + 1, AgingCap}) ELSE boost[r]]
    /\ UNCHANGED <<api, cache, events, priority, queue, expedited, paused, todo, restarts>>

\* The process restarts, perhaps under another --agents-paused, and lists.
Restart ==
    /\ restarts < MaxRestarts /\ restarts' = restarts + 1
    /\ paused' \in BOOLEAN
    /\ todo' = <<>> /\ cache' = api /\ events' = <<>>
    /\ UNCHANGED <<api, priority, queue, boost, expedited>>

Next ==
    \/ Observe \/ SchedulePass \/ Grant \/ Age \/ Restart
    \/ \E r \in Run : \/ MarkPaused(r) \/ Launch(r) \/ Collect(r)
                      \/ Create(r) \/ Delete(r) \/ Expedite(r)

Spec == Init /\ [][Next]_vars

\* Every watch event queues the singleton request and the run; a safety tick
\* repeats it.  Agents end, and time passes.
Fairness ==
    /\ WF_vars(Observe) /\ WF_vars(SchedulePass) /\ WF_vars(Grant) /\ WF_vars(Age)
    /\ \A r \in Run : WF_vars(MarkPaused(r)) /\ WF_vars(Launch(r)) /\ WF_vars(Collect(r))
FairSpec == Spec /\ Fairness
----------------------------------------------------------------------------
\* docs/configuration: --max-concurrent-... is the number of runs "simultaneously
\* running".  With a cache that shows every write at once it holds; a grant the
\* cache does not show yet leaves a slot that looks free.
SlotsRespected == Cardinality({r \in Run : api[r].phase = "Running"}) <= Slots

\* A run is never granted twice, nor brought back once settled, whatever copy
\* of it the scheduler and the run's own reconcile acted on.
MovesForward ==
    \A r \in Run :
        \/ api[r].phase = api'[r].phase
        \/ <<api[r].phase, api'[r].phase>> \in
              {<<"None", "Pending">>, <<"Pending", "Running">>, <<"Running", "Done">>, <<"Done", "None">>}
OnlyForward == [][MovesForward]_vars

\* A run the pause holds says so, and stops saying so once the pause is
\* lifted or its Job exists, although each mark is a write of its own on a
\* copy that may be behind (markPaused, SyncAgentsPaused).
PauseTold ==
    \A r \in Run :
        /\ (HeldByPause(api[r]) /\ ~api[r].held) ~> (api[r].held \/ ~HeldByPause(api[r]))
        /\ (~HeldByPause(api[r]) /\ api[r].held) ~> (~api[r].held \/ HeldByPause(api[r]))

\* Only a run of higher priority keeps a pending run waiting: between equals
\* the older goes first, so no run waits behind an endless stream of its like.
Outranked(r) == \E s \in ToSet(queue) : priority[s] > priority[r]
WaitsForHigher ==
    \A r \in Run : (api[r].phase = "Pending" /\ ~Outranked(r))
                        ~> (api[r].phase # "Pending" \/ Outranked(r) \/ paused)

\* schedule.go, AgingPolicy: "a flood of high-priority work cannot starve
\* low-priority findings forever".
NoStarvation ==
    \A r \in Run : api[r].phase = "Pending" ~> (api[r].phase # "Pending" \/ paused)
=============================================================================
