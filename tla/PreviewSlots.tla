---------------------------- MODULE PreviewSlots ----------------------------
(***************************************************************************)
(* Previews in a fixed pool of slots: the writer that keeps each Preview   *)
(* to its Intent, the preview-controller that queues it for a slot,        *)
(* deploys it there, exposes it once Ready, retries, expires and releases  *)
(* it, and the sweeper that deletes what no Preview holding the slot owns. *)
(*                                                                         *)
(* The reconciler and the sweeper are two goroutines of one process; the   *)
(* cluster's controllers and the people behind the Intents go on between   *)
(* any two of their calls.  A handler that reads and then writes once is   *)
(* one step: its write is refused if what it read has changed.  A Preview  *)
(* has one component and is created once; the legacy Ingress is on and its *)
(* target health off.  Services, foreign objects, refused Ingress writes,  *)
(* invalid specs, sign-in and retired slots are left out.                  *)
(***************************************************************************)
EXTENDS Integers, FiniteSets

CONSTANTS
    Previews,   \* the Previews, numbered by creation
    SlotCount, MaxRetries,
    MaxRevision, MaxFaults, MaxSweeps \* bounds

ASSUME PreviewAssumption ==
    /\ Previews \subseteq Nat /\ IsFiniteSet(Previews)
    /\ {SlotCount, MaxRetries, MaxRevision, MaxFaults, MaxSweeps} \subseteq Nat /\ MaxRetries > 0

Slots == 1..SlotCount
Revisions == 1..MaxRevision
\* A ReplicaSet or a Pod: the revision it runs, and whether its Deployment is gone.
Children == [rev: Revisions, doomed: BOOLEAN]

VARIABLES
    intent,  \* what each Intent wants: no preview (0), or its head's
    preview, \* each Preview, as the API server holds it
    dep, rs, pods, ready, ing, \* each slot's objects, by the Preview that owns them
    late, old, \* its attempt is past the rollout deadline, and past its time to live
    slipped, \* a history: the slots it made a Pod in between the two lists of a look
    work,    \* the reconcile under way
    sweep,   \* the sweep under way
    budget   \* the faults and the sweeps left

objects == <<dep, rs, pods, ready, ing>>
aside == <<late, old, slipped>>
vars == <<intent, preview, objects, aside, work, sweep, budget>>

Phases == {"none", "Pending", "Queued", "Deploying", "Ready", "Failed", "Expired"}
Fresh(at, rev) ==
    [at |-> at, finalizer |-> FALSE, spec |-> rev, phase |-> "none", slot |-> 0, seen |-> 0,
     retries |-> 0, deployed |-> FALSE, url |-> FALSE, serving |-> 0]
Idle == [at |-> "idle"]
Resting == [at |-> "resting"]
Live(p) == preview[p].at = "live"

TypeOK ==
    /\ intent \in [Previews -> 0..MaxRevision]
    /\ preview \in [Previews -> [at: {"absent", "live", "deleting", "gone", "stripped"}, finalizer: BOOLEAN,
          spec: 0..MaxRevision, phase: Phases, slot: 0..SlotCount, seen: 0..MaxRevision,
          retries: 0..MaxRetries, deployed: BOOLEAN, url: BOOLEAN, serving: 0..MaxRevision]]
    /\ dep \in [Slots -> [Previews -> 0..MaxRevision]] /\ ing \in [Slots -> [Previews -> BOOLEAN]]
    /\ \A objs \in {rs, pods, ready} : objs \in [Slots -> [Previews -> SUBSET Children]]
    /\ \A s \in Slots, p \in Previews : ready[s][p] \subseteq pods[s][p]
    /\ {late, old} \subseteq [Previews -> BOOLEAN] /\ slipped \subseteq Slots \X Previews
    /\ work.at \in {"idle", "renew", "fail", "choose", "clean", "deploy", "await", "expose", "retry", "retried"}
    /\ sweep.at \in {"resting", "sweeping"}
    /\ budget \in [faults: 0..MaxFaults, sweeps: 0..MaxSweeps]

None(v) == [s \in Slots |-> [p \in Previews |-> v]]
Init ==
    /\ intent = [p \in Previews |-> 0] /\ preview = [p \in Previews |-> Fresh("absent", 0)]
    /\ dep = None(0) /\ rs = None({}) /\ pods = None({}) /\ ready = None({}) /\ ing = None(FALSE)
    /\ late = [p \in Previews |-> FALSE] /\ old = [p \in Previews |-> FALSE] /\ slipped = {}
    /\ work = Idle /\ sweep = Resting /\ budget = [faults |-> MaxFaults, sweeps |-> MaxSweeps]

(***************************************************************************)
(* The Intent and the writer                                               *)
(***************************************************************************)
\* Review begins, the head moves, or review ends.
IntentMoves(p) ==
    /\ \/ intent[p] = 0 /\ preview[p].at = "absent" /\ MaxRevision > 0 /\ intent' = [intent EXCEPT ![p] = 1]
       \/ intent[p] \in 1..(MaxRevision - 1) /\ intent' = [intent EXCEPT ![p] = @ + 1]
       \/ intent[p] # 0 /\ preview[p].at # "absent" /\ intent' = [intent EXCEPT ![p] = 0]
    /\ UNCHANGED <<preview, objects, aside, work, sweep, budget>>

Deleted(v) == IF v.finalizer THEN [v EXCEPT !.at = "deleting"] ELSE Fresh("gone", v.spec)
\* PreviewSourceReconciler.Reconcile
Write(p) ==
    LET v == preview[p]
    IN  /\ \/ /\ intent[p] # 0 /\ v.at = "absent"
              /\ \A q \in Previews : q < p => preview[q].at # "absent"
              /\ preview' = [preview EXCEPT ![p] = Fresh("live", intent[p])]
           \/ /\ intent[p] \notin {0, v.spec} /\ Live(p)
              /\ preview' = [preview EXCEPT ![p].spec = intent[p]]
           \/ /\ intent[p] = 0 /\ Live(p)
              /\ preview' = [preview EXCEPT ![p] = Deleted(v)]
    /\ UNCHANGED <<intent, objects, aside, work, sweep, budget>>

(***************************************************************************)
(* The reconciler                                                          *)
(***************************************************************************)
Withdraw_Not(p) == UNCHANGED ing
Withdraw(p) == ing' = [s \in Slots |-> IF s = preview[p].slot THEN [ing[s] EXCEPT ![p] = FALSE] ELSE ing[s]]
\* Background deletion: the Deployment is gone at once, what it made goes later.
Doomed(c) == [c EXCEPT !.doomed = TRUE]
DeleteDep(gone) ==
    LET Marked(objs) == [s \in Slots |-> [p \in Previews |->
            IF <<s, p>> \in gone THEN {Doomed(c) : c \in objs[s][p]} ELSE objs[s][p]]]
    IN  /\ dep' = [s \in Slots |-> [p \in Previews |-> IF <<s, p>> \in gone THEN 0 ELSE dep[s][p]]]
        /\ rs' = Marked(rs) /\ pods' = Marked(pods) /\ ready' = Marked(ready)
DeleteIng(gone) == ing' = [s \in Slots |-> [p \in Previews |-> ing[s][p] /\ <<s, p>> \notin gone]]

Stage(at, p) == [at |-> at, p |-> p, read |-> preview[p]]
Cleaning(p, read) == [at |-> "clean", p |-> p, read |-> read, slot |-> 1, half |-> 1, remain |-> FALSE]
\* A status write is refused when the Preview changed since it was read.
Save(v) == preview' = IF preview[work.p] = work.read THEN [preview EXCEPT ![work.p] = v] ELSE preview
Saved == preview[work.p] = work.read
Restart(p, when) == late' = IF when THEN [late EXCEPT ![p] = FALSE] ELSE late
Renewed(p, when) == old' = IF when THEN [old EXCEPT ![p] = FALSE] ELSE old

\* finalize, to its cleanup
Finalize(p) ==
    /\ work = Idle /\ preview[p].at = "deleting"
    /\ preview' = [preview EXCEPT ![p].serving = 0]
    /\ work' = Cleaning(p, preview'[p])
    /\ UNCHANGED <<intent, objects, aside, sweep, budget>>
AddFinalizer(p) ==
    /\ work = Idle /\ Live(p) /\ ~preview[p].finalizer
    /\ preview' = [preview EXCEPT ![p].finalizer = TRUE]
    /\ UNCHANGED <<intent, objects, aside, work, sweep, budget>>

Present(p) == work = Idle /\ Live(p) /\ preview[p].finalizer
\* reconcilePresent
Drop(p) ==
    /\ Present(p) /\ intent[p] = 0
    /\ preview' = [preview EXCEPT ![p] = Deleted(@)]
    /\ UNCHANGED <<intent, objects, aside, work, sweep, budget>>
FailedAlready(v) == v.phase = "Failed" /\ ~v.url /\ v.serving = 0
\* fail: what it did once it does again only to release the slot.
Fail(p) ==
    /\ Present(p) /\ intent[p] \notin {0, preview[p].spec}
    /\ FailedAlready(preview[p]) => preview[p].slot # 0
    /\ Withdraw(p)
    /\ work' = IF FailedAlready(preview[p]) THEN Cleaning(p, preview[p]) ELSE Stage("fail", p)
    /\ UNCHANGED <<intent, preview, dep, rs, pods, ready, aside, sweep, budget>>
FailWrite ==
    /\ work.at = "fail"
    /\ Save([work.read EXCEPT !.phase = "Failed", !.url = FALSE, !.serving = 0]) /\ work' = Idle
    /\ UNCHANGED <<intent, objects, aside, sweep, budget>>

Active(p) == Present(p) /\ intent[p] = preview[p].spec
\* reconcileActive, for a spec not seen before
Renew(p) ==
    /\ Active(p) /\ preview[p].seen # preview[p].spec
    /\ Withdraw(p) /\ work' = Stage("renew", p)
    /\ UNCHANGED <<intent, preview, dep, rs, pods, ready, aside, sweep, budget>>
RenewWrite ==
    /\ work.at = "renew"
    /\ Save([work.read EXCEPT !.phase = IF work.read.slot = 0 THEN "Pending" ELSE "Deploying",
                 !.seen = work.read.spec, !.retries = 0, !.deployed = FALSE, !.url = FALSE])
    /\ Restart(work.p, Saved) /\ Renewed(work.p, Saved) /\ work' = Idle
    /\ UNCHANGED <<intent, objects, slipped, sweep, budget>>

Current(p) == Active(p) /\ preview[p].seen = preview[p].spec
Over(p) == preview[p].phase \in {"Failed", "Expired"}
\* release, to its cleanup
Release(p) ==
    /\ Current(p) /\ Over(p) /\ preview[p].slot # 0
    /\ work' = Cleaning(p, preview[p])
    /\ UNCHANGED <<intent, preview, objects, aside, sweep, budget>>
Expire(p) ==
    /\ Current(p) /\ ~Over(p) /\ old[p]
    /\ preview' = [preview EXCEPT ![p].phase = "Expired", ![p].url = FALSE, ![p].serving = 0]
    /\ UNCHANGED <<intent, objects, aside, work, sweep, budget>>

\* chooseSlot
Taken_Live == {preview[q].slot : q \in {r \in Previews : Live(r)}} \ {0}
Taken == {preview[q].slot : q \in {r \in Previews : preview[r].at \in {"live", "deleting"}}} \ {0}
Ahead_None(p) == {}
Ahead(p) == {q \in Previews : q < p /\ Live(q) /\ preview[q].slot = 0 /\ ~Over(q)}
Choose(p) ==
    /\ Current(p) /\ ~Over(p) /\ ~old[p] /\ preview[p].slot = 0
    /\ work' = [at |-> "choose", p |-> p, read |-> preview[p], slot |-> 1, half |-> 1, clear |-> TRUE,
                 turn |-> Cardinality(Ahead(p)), free |-> Slots \ Taken]
    /\ UNCHANGED <<intent, preview, objects, aside, sweep, budget>>
PodsIn_Rendered(s) == \E q \in Previews : dep[s][q] # 0
PodsIn(s) == \E q \in Previews : dep[s][q] # 0 \/ pods[s][q] # {}
RestIn(s) == \E q \in Previews : rs[s][q] # {} \/ ing[s][q]
Found(s) == (work.half = 1 /\ PodsIn(s)) \/ (work.half = 2 /\ RestIn(s))
\* slotHasManagedObjects: its lists of Pods and of ReplicaSets are two steps.
Look ==
    /\ work.at = "choose" /\ work.slot \in Slots
    /\ LET s == work.slot
           clear == work.clear /\ ~Found(s)
       IN  work' = IF work.half = 1 THEN [work EXCEPT !.half = 2, !.clear = clear]
                   ELSE [work EXCEPT !.half = 1, !.clear = TRUE, !.slot = s + 1, !.free = IF clear THEN @ ELSE @ \ {s}]
    /\ UNCHANGED <<intent, preview, objects, aside, sweep, budget>>
Place ==
    /\ work.at = "choose" /\ work.slot > SlotCount
    /\ LET mine == {s \in work.free : Cardinality({x \in work.free : x < s}) = work.turn}
       IN  \/ /\ mine = {} /\ Save([work.read EXCEPT !.phase = "Queued"]) /\ UNCHANGED <<late, old>>
           \/ \E s \in mine :
                 /\ Save([work.read EXCEPT !.slot = s, !.phase = "Deploying"])
                 /\ Restart(work.p, Saved) /\ Renewed(work.p, Saved)
    /\ work' = Idle
    /\ UNCHANGED <<intent, objects, slipped, sweep, budget>>

\* deploy: oldPodsRemain and ensureDeployment
ChildrenRemain(p, s) == dep[s][p] = 0 /\ (rs[s][p] # {} \/ pods[s][p] # {})
Deploy(p) ==
    LET s == preview[p].slot
    IN  /\ Current(p) /\ ~Over(p) /\ ~old[p] /\ s # 0
        /\ ~(preview[p].retries > 0 /\ ChildrenRemain(p, s))
        /\ dep' = [dep EXCEPT ![s][p] = preview[p].spec] /\ work' = Stage("await", p)
        /\ UNCHANGED <<intent, preview, rs, pods, ready, ing, aside, sweep, budget>>

\* readyImage: a Pod of the spec is Ready, and the Deployment counts one available.
Up(p, s, rev) == (\E c \in ready[s][p] : c.rev = rev) /\ (\E c \in ready[s][p] : ~c.doomed)
\* completeDeployment
Await ==
    LET p == work.p
        s == work.read.slot
        up == dep[s][p] # 0 /\ Up(p, s, work.read.spec)
    IN  /\ work.at = "await"
        /\ \/ /\ up /\ ing' = [ing EXCEPT ![s][p] = TRUE] /\ work' = [work EXCEPT !.at = "expose"]
           \/ /\ ~up /\ dep[s][p] # 0 /\ late[p]
              /\ ing' = [ing EXCEPT ![s][p] = FALSE] /\ work' = [work EXCEPT !.at = "retry"]
           \/ ~up /\ (dep[s][p] = 0 \/ ~late[p]) /\ work' = Idle /\ UNCHANGED ing
        /\ UNCHANGED <<intent, preview, dep, rs, pods, ready, aside, sweep, budget>>
Expose ==
    /\ work.at = "expose"
    /\ Save([work.read EXCEPT !.phase = "Ready", !.url = TRUE, !.serving = work.read.spec, !.deployed = TRUE])
    /\ Renewed(work.p, Saved /\ ~work.read.deployed) /\ work' = Idle
    /\ UNCHANGED <<intent, objects, late, slipped, sweep, budget>>
\* retryError: the Deployment, and then what is written of it
Retry ==
    /\ work.at = "retry" /\ DeleteDep({<<work.read.slot, work.p>>}) /\ work' = [work EXCEPT !.at = "retried"]
    /\ UNCHANGED <<intent, preview, ing, aside, sweep, budget>>
RetryWrite_Unbounded ==
    LET last == FALSE
    IN  /\ work.at = "retried"
        /\ Save([work.read EXCEPT !.serving = 0, !.retries = @ + 1, !.url = @ /\ ~last,
                     !.phase = IF last THEN "Failed" ELSE "Deploying"])
        /\ Restart(work.p, Saved /\ ~last) /\ Renewed(work.p, Saved /\ ~last /\ ~work.read.deployed)
        /\ work' = Idle
        /\ UNCHANGED <<intent, objects, slipped, sweep, budget>>
RetryWrite_KeepsPhase ==
    LET last == work.read.retries + 1 >= MaxRetries
    IN  /\ work.at = "retried"
        /\ Save([work.read EXCEPT !.serving = 0, !.retries = @ + 1, !.url = @ /\ ~last,
                     !.phase = IF last THEN "Failed" ELSE @])
        /\ Restart(work.p, Saved /\ ~last) /\ Renewed(work.p, Saved /\ ~last /\ ~work.read.deployed)
        /\ work' = Idle
        /\ UNCHANGED <<intent, objects, slipped, sweep, budget>>
RetryWrite ==
    LET last == work.read.retries + 1 >= MaxRetries
    IN  /\ work.at = "retried"
        /\ Save([work.read EXCEPT !.serving = 0, !.retries = @ + 1, !.url = @ /\ ~last,
                     !.phase = IF last THEN "Failed" ELSE "Deploying"])
        /\ Restart(work.p, Saved /\ ~last) /\ Renewed(work.p, Saved /\ ~last /\ ~work.read.deployed)
        /\ work' = Idle
        /\ UNCHANGED <<intent, objects, slipped, sweep, budget>>

\* cleanup, slot by slot: the ReplicaSets are listed a step after the Pods.
Mine(s) == {<<s, work.p>>}
Remains_Rendered(p, s) == dep[s][p] # 0 \/ ing[s][p]
Remains(p, s) ==
    \/ work.half = 1 /\ (dep[s][p] # 0 \/ ing[s][p] \/ pods[s][p] # {})
    \/ work.half = 2 /\ rs[s][p] # {}
Clean ==
    LET p == work.p
        s == work.slot
        found == Remains(p, s)
    IN  /\ work.at = "clean" /\ s \in Slots
        /\ IF work.half = 1 THEN DeleteDep(Mine(s)) /\ DeleteIng(Mine(s)) ELSE UNCHANGED objects
        /\ work' = IF work.half = 1 THEN [work EXCEPT !.half = 2, !.remain = @ \/ found]
                    ELSE [work EXCEPT !.half = 1, !.slot = s + 1, !.remain = @ \/ found]
        /\ UNCHANGED <<intent, preview, aside, sweep, budget>>
\* What release and finalize do once nothing remains; if something does, they wait.
Cleaned ==
    /\ work.at = "clean" /\ work.slot > SlotCount
    /\ IF work.remain THEN UNCHANGED preview
       ELSE IF work.read.at = "deleting" THEN Save(Fresh("gone", work.read.spec))
       ELSE Save([work.read EXCEPT !.slot = 0, !.serving = 0])
    /\ work' = Idle
    /\ UNCHANGED <<intent, objects, aside, sweep, budget>>

(***************************************************************************)
(* The sweeper: it lists the Previews, then every slot's objects           *)
(***************************************************************************)
SweepLook ==
    /\ sweep = Resting /\ budget.sweeps > 0
    /\ sweep' = [at |-> "sweeping", slot |-> 1,
                  live |-> [p \in Previews |-> IF preview[p].at \in {"live", "deleting"} THEN preview[p].slot ELSE 0]]
    /\ budget' = [budget EXCEPT !.sweeps = @ - 1]
    /\ UNCHANGED <<intent, preview, objects, aside, work>>
SweepSlot ==
    LET s == sweep.slot
        orphans == {<<s, p>> : p \in {q \in Previews : sweep.live[q] # s}}
    IN  /\ sweep.at = "sweeping"
        /\ DeleteDep(orphans) /\ DeleteIng(orphans)
        /\ sweep' = IF s = SlotCount THEN Resting ELSE [sweep EXCEPT !.slot = s + 1]
        /\ UNCHANGED <<intent, preview, aside, work, budget>>

(***************************************************************************)
(* The cluster, the clock and the operator                                 *)
(***************************************************************************)
Scale(s, p) ==
    /\ dep[s][p] # 0
    /\ LET c == [rev |-> dep[s][p], doomed |-> FALSE]
       IN  c \notin rs[s][p] /\ rs' = [rs EXCEPT ![s][p] = @ \cup {c}]
    /\ UNCHANGED <<intent, preview, dep, pods, ready, ing, aside, work, sweep, budget>>
\* The slot's Pods have been listed, and not yet its ReplicaSets.
Between(s, p) ==
    /\ work.at \in {"choose", "clean"} /\ work.slot = s /\ work.half = 2
    /\ work.at = "clean" => work.p = p
\* A ReplicaSet of the Deployment's revision, or one whose Deployment is gone, makes its Pod.
StartPod(s, p) ==
    /\ \E c \in rs[s][p] \ pods[s][p] :
          (c.doomed \/ c.rev = dep[s][p]) /\ pods' = [pods EXCEPT ![s][p] = @ \cup {c}]
    /\ slipped' = IF Between(s, p) THEN slipped \cup {<<s, p>>} ELSE slipped
    /\ UNCHANGED <<intent, preview, dep, rs, ready, ing, late, old, work, sweep, budget>>
PodReady(s, p) ==
    /\ \E c \in pods[s][p] \ ready[s][p] : ready' = [ready EXCEPT ![s][p] = @ \cup {c}]
    /\ UNCHANGED <<intent, preview, dep, rs, pods, ing, aside, work, sweep, budget>>
\* The rolling update stops the old revision's Pod once the new one's is Ready.
RollOver(s, p) ==
    LET stale == {c \in pods[s][p] : ~c.doomed /\ c.rev # dep[s][p]}
    IN  /\ stale # {} /\ [rev |-> dep[s][p], doomed |-> FALSE] \in ready[s][p]
        /\ pods' = [pods EXCEPT ![s][p] = @ \ stale] /\ ready' = [ready EXCEPT ![s][p] = @ \ stale]
        /\ UNCHANGED <<intent, preview, dep, rs, ing, aside, work, sweep, budget>>
\* The garbage collector: a ReplicaSet whose Deployment is gone, a Pod whose ReplicaSet is.
Collect(s, p) ==
    /\ \/ /\ \E c \in rs[s][p] : c.doomed /\ rs' = [rs EXCEPT ![s][p] = @ \ {c}]
          /\ UNCHANGED <<pods, ready>>
       \/ \E c \in pods[s][p] \ rs[s][p] :
             /\ c.doomed /\ pods' = [pods EXCEPT ![s][p] = @ \ {c}] /\ ready' = [ready EXCEPT ![s][p] = @ \ {c}]
             /\ UNCHANGED rs
    /\ UNCHANGED <<intent, preview, dep, ing, aside, work, sweep, budget>>
Evict(s, p) ==
    /\ budget.faults > 0
    /\ \E c \in pods[s][p] :
          pods' = [pods EXCEPT ![s][p] = @ \ {c}] /\ ready' = [ready EXCEPT ![s][p] = @ \ {c}]
    /\ budget' = [budget EXCEPT !.faults = @ - 1]
    /\ UNCHANGED <<intent, preview, dep, rs, ing, aside, work, sweep>>

\* A finalizer is taken off by hand.
Strip(p) ==
    /\ preview[p].at = "deleting" /\ budget.faults > 0
    /\ preview' = [preview EXCEPT ![p] = Fresh("stripped", @.spec)] /\ budget' = [budget EXCEPT !.faults = @ - 1]
    /\ UNCHANGED <<intent, objects, aside, work, sweep>>
\* The rollout deadline of an attempt passes, and long after it the time to live.
TimePasses(p) ==
    /\ Live(p)
    /\ \/ ~late[p] /\ late' = [late EXCEPT ![p] = TRUE] /\ UNCHANGED old
       \/ late[p] /\ ~old[p] /\ old' = [old EXCEPT ![p] = TRUE] /\ UNCHANGED late
    /\ UNCHANGED <<intent, preview, objects, slipped, work, sweep, budget>>

Begin(p) ==
    Finalize(p) \/ AddFinalizer(p) \/ Drop(p) \/ Fail(p) \/ Renew(p) \/ Release(p) \/ Expire(p) \/ Choose(p) \/ Deploy(p)
Work ==
    FailWrite \/ RenewWrite \/ Look \/ Place \/ Await \/ Expose \/ Retry \/ RetryWrite \/ Clean \/ Cleaned
Cluster(s, p) == Scale(s, p) \/ StartPod(s, p) \/ PodReady(s, p) \/ RollOver(s, p) \/ Collect(s, p)

Next ==
    \/ \E p \in Previews : IntentMoves(p) \/ Write(p) \/ Begin(p) \/ Strip(p) \/ TimePasses(p)
    \/ Work
    \/ SweepLook \/ SweepSlot
    \/ \E s \in Slots, p \in Previews : Cluster(s, p) \/ Evict(s, p)

Spec == Init /\ [][Next]_vars
\* Every Preview is reconciled again and again, the writer keeps to its Intent,
\* and the garbage collector works.  No rollout need ever finish, and no
\* Preview need be evicted, deleted or swept.
FairSpec ==
    /\ Spec /\ WF_vars(Work)
    /\ \A p \in Previews : SF_vars(Begin(p)) /\ WF_vars(Write(p))
    /\ \A s \in Slots, p \in Previews : SF_vars(Collect(s, p))

(***************************************************************************)
(* Properties                                                              *)
(***************************************************************************)
\* What a Preview has in a slot, but for a Pod made between the two lists of a look
\* by a ReplicaSet that the second of them finds gone.
InSlot(s, p) ==
    \/ dep[s][p] # 0 \/ rs[s][p] # {} \/ ing[s][p]
    \/ pods[s][p] # {} /\ <<s, p>> \notin slipped

\* A Preview whose finalizer nobody took off holds the slot of every object it
\* has, unless a Pod slipped between the lists of Pods and of ReplicaSets: neither
\* release nor finalize lets go of it before (cleanup).
SlotHeld ==
    \A s \in Slots, p \in Previews : InSlot(s, p) /\ preview[p].at # "stripped" => preview[p].slot = s

\* No two Previews ever have a Deployment or a Pod in one slot, one let go too early
\* included; but for the Pod, slipped between those lists, of a Preview that was
\* removed by hand and whose code runs on (chooseSlot).
SlotExclusive ==
    \A s \in Slots :
        Cardinality({p \in Previews :
                       \/ dep[s][p] # 0
                       \/ pods[s][p] # {} /\ (<<s, p>> \in slipped => preview[p].at # "stripped")}) <= 1

\* No two Previews hold one slot, however many look for one in turn while
\* others fail, expire and are deleted (chooseSlot).
HoldersDistinct ==
    \A p, q \in Previews : p # q /\ preview[p].slot # 0 => preview[p].slot # preview[q].slot

\* A slot goes to a Preview only while there is one left for every older one
\* that waits: the queue is first come, first served (chooseSlot).
Waiting(q) == Live(q) /\ preview[q].slot = 0 /\ ~Over(q)
KeepsQueue ==
    \A p \in Previews :
        preview[p].slot = 0 /\ preview'[p].slot # 0
            => Cardinality({q \in Previews : q < p /\ Waiting(q)}) < Cardinality(Slots \ Taken)
QueueKept == [][KeepsQueue]_vars

\* The code behind an exposed host is never rolled to another revision: a new
\* spec withdraws the Ingress first, and it is back only once the new revision
\* is Ready (reconcileActive, deploy).
RollsUnexposed ==
    \A s \in Slots, p \in Previews :
        ing[s][p] /\ ing'[s][p] /\ dep[s][p] # 0 /\ dep'[s][p] # 0 => dep'[s][p] = dep[s][p]
NeverRolledExposed == [][RollsUnexposed]_vars

\* Until a sweep interferes, a Preview that says it is Ready has its host exposed
\* and runs the revision it was Ready at (completeDeployment).
Unswept == budget.sweeps = MaxSweeps
ReadyExposed ==
    Unswept => \A p \in Previews :
       work = Idle /\ Live(p) /\ preview[p].phase = "Ready" /\ preview[p].seen = preview[p].spec
          => ing[preview[p].slot][p] /\ dep[preview[p].slot][p] = preview[p].seen

\* What the pool keeps, and what no step does to it (chooseSlot, deploy, release).
PoolKept == TypeOK /\ SlotHeld /\ SlotExclusive /\ HoldersDistinct /\ ReadyExposed
StepsKept == QueueKept /\ NeverRolledExposed

\* A Preview being deleted is gone in the end, whatever it was doing (finalize).
DeletedGoes == \A p \in Previews : preview[p].at = "deleting" ~> preview[p].at \in {"gone", "stripped"}
\* A Preview that failed or expired gives its slot back (release).
SlotReturned ==
    \A p \in Previews : Live(p) /\ preview[p].slot # 0 /\ Over(p) ~> preview[p].slot = 0 \/ ~Over(p)

\* What the source says, and the code does not keep.
\* A Preview that serves has a Deployment to serve from: "Nothing serves once the Deployments are gone."
ServingBacked ==
    \A p \in Previews :
       work = Idle /\ Live(p) /\ preview[p].serving # 0 /\ preview[p].seen = preview[p].spec => dep[preview[p].slot][p] # 0
\* A slot is held until its Pods are gone: "Pod/ReplicaSet checks keep the slot held
\* until background garbage collection has truly removed the code."
CodeHeld ==
    \A s \in Slots, p \in Previews : pods[s][p] # {} /\ preview[p].at # "stripped" => preview[p].slot = s
\* "the sweep never deletes an object [...] a live Preview holds in that slot"
SweepSparesHolders ==
    [][\A s \in Slots, p \in Previews :
         SweepSlot /\ Live(p) /\ preview[p].slot = s /\ dep[s][p] # 0 => dep'[s][p] # 0]_vars
=============================================================================
