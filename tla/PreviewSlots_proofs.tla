------------------------ MODULE PreviewSlots_proofs ------------------------
(***************************************************************************)
(* The slots of the preview pool, for any number of Previews, slots,       *)
(* revisions, retries and faults: who holds a slot, what is in it, the     *)
(* order they are given out in, and what a public host shows.              *)
(*                                                                         *)
(* None of these is inductive alone, since every decision is taken on      *)
(* something read earlier.  The invariant below adds what a reconcile      *)
(* under way knows: the slots it still takes for free are nobody's, those  *)
(* it has looked at are empty and stay so, what it has cleaned is gone,    *)
(* and what a stage acts on is still true of its Preview but for the spec. *)
(***************************************************************************)
EXTENDS PreviewSlots, FiniteSetTheorems, TLAPS

Stations == {"absent", "live", "deleting", "gone", "stripped"}
Flags == BOOLEAN
SlotNumbers == 0..SlotCount
SpecNumbers == 0..MaxRevision
RetryNumbers == 0..MaxRetries
PreviewObject ==
    [at: Stations, finalizer: Flags, spec: SpecNumbers, phase: Phases, slot: SlotNumbers, seen: SpecNumbers,
     retries: RetryNumbers, deployed: Flags, url: Flags, serving: SpecNumbers]
Attempting == {"await", "expose", "retry", "retried"}
Stages == [at: {"renew", "fail"} \cup Attempting, p: Previews, read: PreviewObject]
Choosings ==
    [at: {"choose"}, p: Previews, read: PreviewObject, slot: 1..(SlotCount + 1), half: {1, 2},
     clear: BOOLEAN, turn: Nat, free: SUBSET Slots]
Cleanings ==
    [at: {"clean"}, p: Previews, read: PreviewObject, slot: 1..(SlotCount + 1), half: {1, 2},
     remain: BOOLEAN]

IntentTyped == intent \in [Previews -> SpecNumbers]
PreviewTyped == preview \in [Previews -> PreviewObject]
ObjectsTyped ==
    /\ dep \in [Slots -> [Previews -> 0..MaxRevision]] /\ ing \in [Slots -> [Previews -> BOOLEAN]]
    /\ rs \in [Slots -> [Previews -> SUBSET Children]]
    /\ pods \in [Slots -> [Previews -> SUBSET Children]]
    /\ ready \in [Slots -> [Previews -> SUBSET Children]]
    /\ \A s \in Slots, p \in Previews : ready[s][p] \subseteq pods[s][p]
TimesTyped == late \in [Previews -> BOOLEAN] /\ old \in [Previews -> BOOLEAN] /\ slipped \subseteq Slots \X Previews
WorkTyped == work = Idle \/ work \in Stages \/ work \in Choosings \/ work \in Cleanings
Sweeps == [at: {"sweeping"}, slot: Nat, live: [Previews -> SlotNumbers]]
SweepTyped == sweep = Resting \/ sweep \in Sweeps
BudgetTyped == budget \in [faults: 0..MaxFaults, sweeps: 0..MaxSweeps]
\* An attempt that failed for the last time is over, so the retries never pass their limit.
Attempts ==
    /\ \A p \in Previews : preview[p].retries < MaxRetries \/ preview[p].phase = "Failed"
    /\ work.at \in Attempting \cup {"choose"} => work.read.retries < MaxRetries

Typed ==
    /\ IntentTyped /\ PreviewTyped /\ ObjectsTyped /\ TimesTyped /\ WorkTyped /\ SweepTyped
    /\ BudgetTyped /\ Attempts

-----------------------------------------------------------------------------
(* Which actions write what                                                  *)

PreviewWrites ==
    \/ \E p \in Previews : Write(p) \/ Finalize(p) \/ AddFinalizer(p) \/ Drop(p) \/ Expire(p) \/ Strip(p)
    \/ FailWrite \/ RenewWrite \/ Place \/ Expose \/ RetryWrite \/ Cleaned
ObjectWrites ==
    \/ \E p \in Previews : Fail(p) \/ Renew(p) \/ Deploy(p)
    \/ Await \/ Retry \/ Clean \/ SweepSlot
    \/ \E s \in Slots, p \in Previews : Cluster(s, p) \/ Evict(s, p)
WorkWrites ==
    \/ \E p \in Previews : Finalize(p) \/ Fail(p) \/ Renew(p) \/ Release(p) \/ Choose(p) \/ Deploy(p)
    \/ Work

\* A step leaves every Preview alone, or is one of those that write one.
LEMMA PreviewWriters == ASSUME [Next]_vars PROVE PreviewWrites \/ UNCHANGED preview
<1>1. ASSUME NEW p \in Previews, IntentMoves(p) \/ Fail(p) \/ Renew(p) \/ Release(p) PROVE UNCHANGED preview
  BY <1>1 DEF IntentMoves, Fail, Renew, Release
<1>2. ASSUME NEW p \in Previews, Choose(p) \/ Deploy(p) \/ TimePasses(p) PROVE UNCHANGED preview
  BY <1>2 DEF Choose, Deploy, TimePasses
<1>3. CASE Look \/ Await \/ Retry \/ Clean
  BY <1>3 DEF Look, Await, Retry, Clean
<1>4. CASE SweepLook \/ SweepSlot
  BY <1>4 DEF SweepLook, SweepSlot
<1>5. ASSUME NEW s \in Slots, NEW p \in Previews, Scale(s, p) \/ StartPod(s, p) \/ PodReady(s, p) \/ RollOver(s, p) PROVE UNCHANGED preview
  BY <1>5 DEF Scale, StartPod, PodReady, RollOver
<1>6. ASSUME NEW s \in Slots, NEW p \in Previews, Collect(s, p) \/ Evict(s, p) PROVE UNCHANGED preview
  BY <1>6 DEF Collect, Evict
<1> QED BY <1>1, <1>2, <1>3, <1>4, <1>5, <1>6 DEF PreviewWrites, vars, Next, Begin, Work, Cluster

\* A step leaves every object of the slots alone, or is one of those that do not.
LEMMA ObjectWriters == ASSUME [Next]_vars PROVE ObjectWrites \/ UNCHANGED objects
<1>1. ASSUME NEW p \in Previews, IntentMoves(p) \/ Write(p) \/ Finalize(p) \/ AddFinalizer(p) PROVE UNCHANGED objects
  BY <1>1 DEF IntentMoves, Write, Finalize, AddFinalizer, objects
<1>2. ASSUME NEW p \in Previews, Drop(p) \/ Release(p) \/ Expire(p) \/ Choose(p) PROVE UNCHANGED objects
  BY <1>2 DEF Drop, Release, Expire, Choose, objects
<1>3. ASSUME NEW p \in Previews, Strip(p) \/ TimePasses(p) PROVE UNCHANGED objects
  BY <1>3 DEF Strip, TimePasses, objects
<1>4. CASE FailWrite \/ RenewWrite \/ Look \/ Place
  BY <1>4 DEF FailWrite, RenewWrite, Look, Place, objects
<1>5. CASE Expose \/ RetryWrite \/ Cleaned \/ SweepLook
  BY <1>5 DEF Expose, RetryWrite, Cleaned, SweepLook, objects
<1> QED BY <1>1, <1>2, <1>3, <1>4, <1>5 DEF ObjectWrites, vars, Next, Begin, Work, Cluster

\* A step leaves the reconcile under way alone, or is one of its own.
LEMMA WorkWriters == ASSUME [Next]_vars PROVE WorkWrites \/ UNCHANGED work
<1>1. ASSUME NEW p \in Previews, IntentMoves(p) \/ Write(p) \/ AddFinalizer(p) \/ Drop(p) PROVE UNCHANGED work
  BY <1>1 DEF IntentMoves, Write, AddFinalizer, Drop
<1>2. ASSUME NEW p \in Previews, Expire(p) \/ Strip(p) \/ TimePasses(p) PROVE UNCHANGED work
  BY <1>2 DEF Expire, Strip, TimePasses
<1>3. CASE SweepLook \/ SweepSlot
  BY <1>3 DEF SweepLook, SweepSlot
<1>4. ASSUME NEW s \in Slots, NEW p \in Previews, Scale(s, p) \/ StartPod(s, p) \/ PodReady(s, p) \/ RollOver(s, p) PROVE UNCHANGED work
  BY <1>4 DEF Scale, StartPod, PodReady, RollOver
<1>5. ASSUME NEW s \in Slots, NEW p \in Previews, Collect(s, p) \/ Evict(s, p) PROVE UNCHANGED work
  BY <1>5 DEF Collect, Evict
<1> QED BY <1>1, <1>2, <1>3, <1>4, <1>5 DEF WorkWrites, vars, Next, Begin, Work, Cluster
-----------------------------------------------------------------------------
(* Types                                                                     *)

\* Which record the reconcile under way is.
LEMMA WorkAt ==
    ASSUME WorkTyped
    PROVE  /\ work.at # "idle" => work.p \in Previews /\ work.read \in PreviewObject
           /\ work.at \in {"renew", "fail"} \cup Attempting => work \in Stages
           /\ work.at = "choose" => work \in Choosings
           /\ work.at = "clean" => work \in Cleanings
           /\ work # Idle => work.at # "idle"
BY DEF WorkTyped, Idle, Stages, Choosings, Cleanings, Attempting

LEMMA Fields ==
    /\ {"absent", "live", "deleting", "gone", "stripped"} \subseteq Stations
    /\ {TRUE, FALSE} \subseteq Flags /\ 0 \in SlotNumbers /\ Slots \subseteq SlotNumbers
    /\ 0 \in SpecNumbers /\ Revisions \subseteq SpecNumbers /\ 0 \in RetryNumbers
    /\ {"none", "Pending", "Queued", "Deploying", "Ready", "Failed", "Expired"} \subseteq Phases
<1>1. SlotCount \in Nat /\ MaxRevision \in Nat /\ MaxRetries \in Nat BY PreviewAssumption
<1> QED BY <1>1 DEF Stations, Flags, SlotNumbers, Slots, SpecNumbers, Revisions, RetryNumbers, Phases

LEMMA FreshTyped ==
    ASSUME NEW at \in Stations, NEW rev \in SpecNumbers
    PROVE  Fresh(at, rev) \in PreviewObject
BY Fields DEF Fresh, PreviewObject

LEMMA DeletedTyped == ASSUME NEW v \in PreviewObject PROVE Deleted(v) \in PreviewObject
BY FreshTyped, Fields DEF Deleted, PreviewObject

\* What a status write leaves is a Preview if what it writes is one.
LEMMA SaveTyped ==
    ASSUME PreviewTyped, work.p \in Previews, NEW v \in PreviewObject, Save(v)
    PROVE  PreviewTyped'
BY DEF PreviewTyped, Save

LEMMA PreviewStaysTyped == ASSUME Typed, [Next]_vars PROVE PreviewTyped'
<1> USE DEF Typed
<1>1. ASSUME NEW p \in Previews, Write(p) PROVE PreviewTyped'
  BY <1>1, Fields, FreshTyped, DeletedTyped DEF Write, PreviewTyped, IntentTyped, PreviewObject
<1>2. ASSUME NEW p \in Previews, Finalize(p) \/ AddFinalizer(p) PROVE PreviewTyped'
  BY <1>2, Fields DEF Finalize, AddFinalizer, PreviewTyped, PreviewObject
<1>3. ASSUME NEW p \in Previews, Drop(p) PROVE PreviewTyped'
  BY <1>3, DeletedTyped DEF Drop, PreviewTyped
<1>4. ASSUME NEW p \in Previews, Expire(p) PROVE PreviewTyped'
  BY <1>4, Fields DEF Expire, PreviewTyped, PreviewObject
<1>5. ASSUME NEW p \in Previews, Strip(p) PROVE PreviewTyped'
  BY <1>5, Fields, FreshTyped DEF Strip, PreviewTyped, PreviewObject
<1>6. CASE FailWrite
  <2> DEFINE v == [work.read EXCEPT !.phase = "Failed", !.url = FALSE, !.serving = 0]
  <2>1. work.p \in Previews /\ work.read \in PreviewObject BY <1>6, WorkAt DEF FailWrite
  <2>2. v \in PreviewObject BY <2>1, Fields DEF PreviewObject
  <2>3. Save(v) BY <1>6 DEF FailWrite
  <2> QED BY <2>1, <2>2, <2>3, SaveTyped
<1>7. CASE RenewWrite
  <2> DEFINE v == [work.read EXCEPT !.phase = IF work.read.slot = 0 THEN "Pending" ELSE "Deploying",
                        !.seen = work.read.spec, !.retries = 0, !.deployed = FALSE, !.url = FALSE]
  <2>1. work.p \in Previews /\ work.read \in PreviewObject BY <1>7, WorkAt DEF RenewWrite
  <2>2. v \in PreviewObject BY <2>1, Fields DEF PreviewObject
  <2>3. Save(v) BY <1>7 DEF RenewWrite
  <2> QED BY <2>1, <2>2, <2>3, SaveTyped
<1>8. CASE Place
  <2> DEFINE queued == [work.read EXCEPT !.phase = "Queued"]
             placed(s) == [work.read EXCEPT !.slot = s, !.phase = "Deploying"]
  <2>1. work.p \in Previews /\ work.read \in PreviewObject /\ work.free \subseteq Slots
    BY <1>8, WorkAt DEF Place, Choosings
  <2>2. queued \in PreviewObject /\ \A s \in work.free : placed(s) \in PreviewObject
    BY <2>1, Fields DEF PreviewObject
  <2>3. Save(queued) \/ \E s \in work.free : Save(placed(s)) BY <1>8 DEF Place
  <2> HIDE DEF queued, placed
  <2> QED BY <2>1, <2>2, <2>3, SaveTyped
<1>9. CASE Expose
  <2> DEFINE v == [work.read EXCEPT !.phase = "Ready", !.url = TRUE, !.serving = work.read.spec, !.deployed = TRUE]
  <2>1. work.p \in Previews /\ work.read \in PreviewObject BY <1>9, WorkAt DEF Expose
  <2>2. v \in PreviewObject BY <2>1, Fields DEF PreviewObject
  <2>3. Save(v) BY <1>9 DEF Expose
  <2> QED BY <2>1, <2>2, <2>3, SaveTyped
<1>10. CASE RetryWrite
  <2> DEFINE last == work.read.retries + 1 >= MaxRetries
             v == [work.read EXCEPT !.serving = 0, !.retries = @ + 1, !.url = @ /\ ~last,
                        !.phase = IF last THEN "Failed" ELSE "Deploying"]
  <2>1. work.p \in Previews /\ work.read \in PreviewObject BY <1>10, WorkAt DEF RetryWrite
  <2>2. work.read.retries < MaxRetries BY <1>10 DEF RetryWrite, Attempts, Attempting
  <2>3. work.read.retries + 1 \in RetryNumbers
    <3>1. work.read.retries \in RetryNumbers BY <2>1 DEF PreviewObject
    <3> QED BY <2>2, <3>1, PreviewAssumption DEF RetryNumbers
  <2>4. (work.read.url /\ ~last) \in Flags BY DEF Flags
  <2>5. (IF last THEN "Failed" ELSE "Deploying") \in Phases BY Fields
  <2>6. v \in PreviewObject
    <3> HIDE DEF last
    <3> QED BY <2>1, <2>3, <2>4, <2>5, Fields DEF PreviewObject
  <2>7. Save(v) BY <1>10 DEF RetryWrite
  <2> QED BY <2>1, <2>6, <2>7, SaveTyped
<1>11. CASE Cleaned
  <2> DEFINE gone == Fresh("gone", work.read.spec)
             released == [work.read EXCEPT !.slot = 0, !.serving = 0]
  <2>1. work.p \in Previews /\ work.read \in PreviewObject BY <1>11, WorkAt DEF Cleaned
  <2>2. gone \in PreviewObject BY <2>1, FreshTyped, Fields DEF PreviewObject
  <2>3. released \in PreviewObject BY <2>1, Fields DEF PreviewObject
  <2>4. preview' = preview \/ Save(gone) \/ Save(released) BY <1>11 DEF Cleaned
  <2> HIDE DEF gone, released
  <2> QED BY <2>1, <2>2, <2>3, <2>4, SaveTyped DEF PreviewTyped
<1>12. CASE UNCHANGED preview BY <1>12 DEF PreviewTyped
<1> QED
  BY <1>1, <1>2, <1>3, <1>4, <1>5, <1>6, <1>7, <1>8, <1>9, <1>10, <1>11, <1>12, PreviewWriters DEF PreviewWrites
\* A Deployment deleted takes nothing away at once but itself.
LEMMA DeleteDepTyped ==
    ASSUME ObjectsTyped, NEW gone, DeleteDep(gone)
    PROVE  /\ dep' \in [Slots -> [Previews -> 0..MaxRevision]]
           /\ rs' \in [Slots -> [Previews -> SUBSET Children]]
           /\ pods' \in [Slots -> [Previews -> SUBSET Children]]
           /\ ready' \in [Slots -> [Previews -> SUBSET Children]]
           /\ \A s \in Slots, p \in Previews : ready'[s][p] \subseteq pods'[s][p]
<1>1. \A c \in Children : Doomed(c) \in Children BY DEF Doomed, Children
<1>2. 0 \in 0..MaxRevision BY PreviewAssumption
<1>3. dep' \in [Slots -> [Previews -> 0..MaxRevision]] BY <1>2 DEF DeleteDep, ObjectsTyped
<1>4. rs' \in [Slots -> [Previews -> SUBSET Children]] BY <1>1 DEF DeleteDep, ObjectsTyped
<1>5. pods' \in [Slots -> [Previews -> SUBSET Children]] BY <1>1 DEF DeleteDep, ObjectsTyped
<1>6. ready' \in [Slots -> [Previews -> SUBSET Children]] BY <1>1 DEF DeleteDep, ObjectsTyped
<1>7. \A s \in Slots, p \in Previews : ready'[s][p] \subseteq pods'[s][p] BY DEF DeleteDep, ObjectsTyped
<1> QED BY <1>3, <1>4, <1>5, <1>6, <1>7

\* What is in one slot of one Preview changes, and stays what it is.
LEMMA OneTyped ==
    ASSUME NEW V, NEW f \in [Slots -> [Previews -> V]], NEW s \in Slots, NEW p \in Previews, NEW v \in V
    PROVE  [f EXCEPT ![s][p] = v] \in [Slots -> [Previews -> V]]
OBVIOUS

LEMMA ObjectsStayTyped == ASSUME Typed, [Next]_vars PROVE ObjectsTyped'
<1> USE DEF Typed
<1>1. ASSUME NEW p \in Previews, Fail(p) \/ Renew(p) PROVE ObjectsTyped'
  <2>1. Withdraw(p) BY <1>1 DEF Fail, Renew
  <2>2. ing' \in [Slots -> [Previews -> BOOLEAN]] BY <2>1 DEF Withdraw, ObjectsTyped
  <2>3. UNCHANGED <<dep, rs, pods, ready>> BY <1>1 DEF Fail, Renew
  <2> QED BY <2>2, <2>3 DEF ObjectsTyped
<1>2. ASSUME NEW p \in Previews, Deploy(p) PROVE ObjectsTyped'
  <2>1. preview[p].slot \in Slots /\ preview[p].spec \in 0..MaxRevision
    BY <1>2, PreviewAssumption DEF Deploy, PreviewTyped, PreviewObject, SlotNumbers, SpecNumbers, Slots
  <2> QED BY <1>2, <2>1 DEF Deploy, ObjectsTyped
<1>3. CASE Await
  <2>1. ing' = ing \/ \E b \in BOOLEAN : ing' = [ing EXCEPT ![work.read.slot][work.p] = b] BY <1>3 DEF Await
  <2>2. ing' \in [Slots -> [Previews -> BOOLEAN]]
    <3>1. CASE ing' = ing BY <3>1 DEF ObjectsTyped
    <3>2. ASSUME NEW b \in BOOLEAN, ing' = [ing EXCEPT ![work.read.slot][work.p] = b]
          PROVE  ing' \in [Slots -> [Previews -> BOOLEAN]]
      <4>1. ing \in [Slots -> [Previews -> BOOLEAN]] BY DEF ObjectsTyped
      <4>2. [ing[work.read.slot] EXCEPT ![work.p] = b] \in [Previews -> BOOLEAN] \/ work.read.slot \notin Slots
        BY <4>1
      <4> QED BY <3>2, <4>1, <4>2
    <3> QED BY <2>1, <3>1, <3>2
  <2>3. UNCHANGED <<dep, rs, pods, ready>> BY <1>3 DEF Await
  <2> QED BY <2>2, <2>3 DEF ObjectsTyped
<1>4. CASE Retry BY <1>4, DeleteDepTyped DEF Retry, ObjectsTyped
<1>5. CASE Clean
  <2>1. CASE work.half = 1
    <3>1. DeleteIng(Mine(work.slot)) /\ DeleteDep(Mine(work.slot)) BY <1>5, <2>1 DEF Clean
    <3>2. ing' \in [Slots -> [Previews -> BOOLEAN]] BY <3>1 DEF DeleteIng, ObjectsTyped
    <3> QED BY <3>1, <3>2, DeleteDepTyped DEF ObjectsTyped
  <2>2. CASE work.half # 1 BY <1>5, <2>2 DEF Clean, objects, ObjectsTyped
  <2> QED BY <2>1, <2>2
<1>6. CASE SweepSlot
  <2>1. ing' \in [Slots -> [Previews -> BOOLEAN]] BY <1>6 DEF SweepSlot, DeleteIng, ObjectsTyped
  <2>2. PICK gone : DeleteDep(gone) BY <1>6 DEF SweepSlot
  <2> QED BY <2>1, <2>2, DeleteDepTyped DEF ObjectsTyped
<1>7. ASSUME NEW s \in Slots, NEW p \in Previews, Scale(s, p) PROVE ObjectsTyped'
  <2>1. dep[s][p] \in 1..MaxRevision BY <1>7 DEF Scale, ObjectsTyped
  <2>2. [rev |-> dep[s][p], doomed |-> FALSE] \in Children BY <2>1 DEF Children, Revisions
  <2>3. rs' \in [Slots -> [Previews -> SUBSET Children]] BY <1>7, <2>2 DEF Scale, ObjectsTyped
  <2> QED BY <1>7, <2>3 DEF Scale, ObjectsTyped
<1>8. ASSUME NEW s \in Slots, NEW p \in Previews, StartPod(s, p) PROVE ObjectsTyped'
  <2>1. PICK c \in rs[s][p] : pods' = [pods EXCEPT ![s][p] = @ \cup {c}] BY <1>8 DEF StartPod
  <2>2. pods' \in [Slots -> [Previews -> SUBSET Children]] BY <2>1 DEF ObjectsTyped
  <2>3. \A t \in Slots, q \in Previews : pods[t][q] \subseteq pods'[t][q] BY <2>1 DEF ObjectsTyped
  <2> QED BY <1>8, <2>2, <2>3 DEF StartPod, ObjectsTyped
<1>9. ASSUME NEW s \in Slots, NEW p \in Previews, PodReady(s, p) PROVE ObjectsTyped'
  <2>1. PICK c \in pods[s][p] : ready' = [ready EXCEPT ![s][p] = @ \cup {c}] BY <1>9 DEF PodReady
  <2>2. ready' \in [Slots -> [Previews -> SUBSET Children]] BY <2>1 DEF ObjectsTyped
  <2>3. \A t \in Slots, q \in Previews : ready'[t][q] \subseteq pods[t][q] BY <2>1 DEF ObjectsTyped
  <2> QED BY <1>9, <2>2, <2>3 DEF PodReady, ObjectsTyped
<1>10. ASSUME NEW s \in Slots, NEW p \in Previews, NEW X,
              pods' = [pods EXCEPT ![s][p] = @ \ X], ready' = [ready EXCEPT ![s][p] = @ \ X],
              UNCHANGED <<dep, rs, ing>>
       PROVE  ObjectsTyped'
  <2>1. pods' \in [Slots -> [Previews -> SUBSET Children]] BY <1>10 DEF ObjectsTyped
  <2>2. ready' \in [Slots -> [Previews -> SUBSET Children]] BY <1>10 DEF ObjectsTyped
  <2>3. \A t \in Slots, q \in Previews : ready'[t][q] \subseteq pods'[t][q] BY <1>10 DEF ObjectsTyped
  <2> QED BY <1>10, <2>1, <2>2, <2>3 DEF ObjectsTyped
<1>11. ASSUME NEW s \in Slots, NEW p \in Previews, RollOver(s, p) \/ Evict(s, p) PROVE ObjectsTyped'
  <2>1. UNCHANGED <<dep, rs, ing>> BY <1>11 DEF RollOver, Evict
  <2>2. \E X : pods' = [pods EXCEPT ![s][p] = @ \ X] /\ ready' = [ready EXCEPT ![s][p] = @ \ X]
    BY <1>11, Zenon DEF RollOver, Evict
  <2> QED BY <1>10, <2>1, <2>2
<1>12. ASSUME NEW s \in Slots, NEW p \in Previews, Collect(s, p) PROVE ObjectsTyped'
  <2>1. CASE \E c \in rs[s][p] : rs' = [rs EXCEPT ![s][p] = @ \ {c}] /\ UNCHANGED <<pods, ready>>
    <3>1. rs' \in [Slots -> [Previews -> SUBSET Children]] BY <2>1 DEF ObjectsTyped
    <3> QED BY <1>12, <2>1, <3>1 DEF Collect, ObjectsTyped
  <2>2. CASE /\ UNCHANGED rs
             /\ \E X : pods' = [pods EXCEPT ![s][p] = @ \ X] /\ ready' = [ready EXCEPT ![s][p] = @ \ X]
    <3>1. UNCHANGED <<dep, rs, ing>> BY <1>12, <2>2 DEF Collect
    <3> QED BY <1>10, <2>2, <3>1
  <2> QED BY <1>12, <2>1, <2>2, Zenon DEF Collect
<1>13. CASE UNCHANGED objects BY <1>13 DEF objects, ObjectsTyped
<1> QED
  BY <1>1, <1>2, <1>3, <1>4, <1>5, <1>6, <1>7, <1>8, <1>9, <1>11, <1>12, <1>13, ObjectWriters
  DEF ObjectWrites, Cluster
\* A stage begins with what is read of its Preview, and a cleanup with the first slot.
LEMMA Begins ==
    ASSUME Typed, NEW p \in Previews
    PROVE  /\ \A at \in {"renew", "fail"} \cup Attempting : Stage(at, p) \in Stages
           /\ \A read \in PreviewObject : Cleaning(p, read) \in Cleanings
<1>1. preview[p] \in PreviewObject BY DEF Typed, PreviewTyped
<1>2. 1 \in 1..(SlotCount + 1) BY PreviewAssumption
<1> QED BY <1>1, <1>2 DEF Stage, Cleaning, Stages, Cleanings

LEMMA WorkStaysTyped == ASSUME Typed, [Next]_vars PROVE WorkTyped'
<1> USE DEF Typed
<1>1. ASSUME NEW p \in Previews, Finalize(p) PROVE WorkTyped'
  <2>1. preview'[p] \in PreviewObject
    BY <1>1, Fields DEF Finalize, PreviewTyped, PreviewObject
  <2> QED BY <1>1, <2>1, Begins DEF Finalize, WorkTyped
<1>2. ASSUME NEW p \in Previews, Fail(p) \/ Renew(p) \/ Release(p) \/ Deploy(p) PROVE WorkTyped'
  <2>1. preview[p] \in PreviewObject BY DEF PreviewTyped
  <2>2. \/ work' = Cleaning(p, preview[p])
        \/ \E at \in {"renew", "fail"} \cup Attempting : work' = Stage(at, p)
    BY <1>2 DEF Fail, Renew, Release, Deploy, Attempting
  <2> QED BY <2>1, <2>2, Begins DEF WorkTyped
<1>3. ASSUME NEW p \in Previews, Choose(p) PROVE WorkTyped'
  <2>1. preview[p] \in PreviewObject BY DEF PreviewTyped
  <2>2. IsFiniteSet(Ahead(p)) BY PreviewAssumption, FS_Subset DEF Ahead
  <2>3. Cardinality(Ahead(p)) \in Nat BY <2>2, FS_CardinalityType
  <2>4. 1 \in 1..(SlotCount + 1) BY PreviewAssumption
  <2>5. Slots \ Taken \in SUBSET Slots OBVIOUS
  <2> QED BY <1>3, <2>1, <2>3, <2>4, <2>5 DEF Choose, WorkTyped, Choosings
<1>4. CASE Look
  <2>1. work \in Choosings /\ work.slot \in Slots BY <1>4, WorkAt DEF Look
  <2>2. work.slot + 1 \in 1..(SlotCount + 1) BY <2>1, PreviewAssumption DEF Slots
  <2>3. work' \in Choosings BY <1>4, <2>1, <2>2 DEF Look, Choosings
  <2> QED BY <2>3 DEF WorkTyped
<1>5. CASE Clean
  <2>1. work \in Cleanings /\ work.slot \in Slots BY <1>5, WorkAt DEF Clean
  <2>2. work.slot + 1 \in 1..(SlotCount + 1) BY <2>1, PreviewAssumption DEF Slots
  <2>3. Remains(work.p, work.slot) \in BOOLEAN BY DEF Remains
  <2>4. work' \in Cleanings BY <1>5, <2>1, <2>2, <2>3 DEF Clean, Cleanings
  <2> QED BY <2>4 DEF WorkTyped
<1>6. CASE Await
  <2>1. work \in Stages BY <1>6, WorkAt DEF Await, Attempting
  <2>2. work' = Idle \/ \E at \in Attempting : work' = [work EXCEPT !.at = at] BY <1>6 DEF Await, Attempting
  <2> QED BY <2>1, <2>2 DEF WorkTyped, Stages
<1>7. CASE Retry
  <2>1. work \in Stages BY <1>7, WorkAt DEF Retry, Attempting
  <2> QED BY <1>7, <2>1 DEF Retry, WorkTyped, Stages, Attempting
<1>8. CASE FailWrite \/ RenewWrite \/ Place \/ Expose \/ RetryWrite \/ Cleaned
  BY <1>8 DEF FailWrite, RenewWrite, Place, Expose, RetryWrite, Cleaned, WorkTyped
<1>9. CASE UNCHANGED work BY <1>9 DEF WorkTyped
<1> QED BY <1>1, <1>2, <1>3, <1>4, <1>5, <1>6, <1>7, <1>8, <1>9, WorkWriters DEF WorkWrites, Work

\* An intent is a spec, a time passes or not, and what is left of the budget is in it.
LEMMA RestStaysTyped ==
    ASSUME Typed, [Next]_vars PROVE IntentTyped' /\ TimesTyped' /\ SweepTyped' /\ BudgetTyped'
<1> USE DEF Typed
<1>1. ASSUME NEW p \in Previews, IntentMoves(p) PROVE IntentTyped' /\ UNCHANGED <<aside, sweep, budget>>
  <2>1. MaxRevision \in Nat /\ intent[p] \in 0..MaxRevision
    BY PreviewAssumption DEF IntentTyped, SpecNumbers
  <2>2. \E n \in 0..MaxRevision : intent' = [intent EXCEPT ![p] = n] BY <1>1, <2>1 DEF IntentMoves
  <2> QED BY <1>1, <2>2 DEF IntentMoves, IntentTyped, SpecNumbers
<1>2. ASSUME NEW p \in Previews, TimePasses(p) PROVE TimesTyped' /\ UNCHANGED <<intent, sweep, budget>>
  BY <1>2 DEF TimePasses, TimesTyped
<1>3. ASSUME NEW p \in Previews, Strip(p) PROVE BudgetTyped' /\ UNCHANGED <<intent, aside, sweep>>
  BY <1>3, PreviewAssumption DEF Strip, BudgetTyped
<1>4. ASSUME NEW s \in Slots, NEW p \in Previews, Evict(s, p) PROVE BudgetTyped' /\ UNCHANGED <<intent, aside, sweep>>
  BY <1>4, PreviewAssumption DEF Evict, BudgetTyped
<1>5. CASE SweepLook
  <2>1. BudgetTyped' BY <1>5, PreviewAssumption DEF SweepLook, BudgetTyped
  <2>2. [p \in Previews |-> IF preview[p].at \in {"live", "deleting"} THEN preview[p].slot ELSE 0]
            \in [Previews -> SlotNumbers]
    BY Fields DEF PreviewTyped, PreviewObject
  <2>3. sweep' \in Sweeps BY <1>5, <2>2 DEF SweepLook, Sweeps
  <2> QED BY <1>5, <2>1, <2>3 DEF SweepLook, SweepTyped, aside, IntentTyped, TimesTyped
<1>6. CASE SweepSlot
  <2>1. sweep \in Sweeps BY <1>6 DEF SweepSlot, SweepTyped, Resting
  <2>2. sweep' = Resting \/ sweep' = [sweep EXCEPT !.slot = sweep.slot + 1] BY <1>6 DEF SweepSlot
  <2>3. SweepTyped' BY <2>1, <2>2 DEF SweepTyped, Sweeps
  <2> QED BY <1>6, <2>3 DEF SweepSlot, aside, IntentTyped, TimesTyped, BudgetTyped
<1>7. CASE RenewWrite \/ Place \/ Expose \/ RetryWrite
  <2>1. UNCHANGED <<intent, slipped, sweep, budget>> BY <1>7 DEF RenewWrite, Place, Expose, RetryWrite, aside
  <2>2. late' \in [Previews -> BOOLEAN]
    BY <1>7 DEF RenewWrite, Place, Expose, RetryWrite, Restart, aside, TimesTyped
  <2>3. old' \in [Previews -> BOOLEAN]
    BY <1>7 DEF RenewWrite, Place, Expose, RetryWrite, Renewed, aside, TimesTyped
  <2> QED BY <2>1, <2>2, <2>3 DEF IntentTyped, TimesTyped, SweepTyped, BudgetTyped
<1>8. ASSUME NEW p \in Previews,
             \/ Write(p) \/ Finalize(p) \/ AddFinalizer(p) \/ Drop(p) \/ Fail(p) \/ Renew(p) \/ Release(p)
             \/ Expire(p) \/ Choose(p) \/ Deploy(p)
      PROVE  UNCHANGED <<intent, aside, sweep, budget>>
  BY <1>8 DEF Write, Finalize, AddFinalizer, Drop, Fail, Renew, Release, Expire, Choose, Deploy
<1>9. CASE FailWrite \/ Look \/ Await \/ Retry \/ Clean \/ Cleaned
  <2>1. UNCHANGED <<intent, aside, sweep, budget>> BY <1>9 DEF FailWrite, Look, Await, Retry, Clean, Cleaned
  <2> QED BY <2>1 DEF aside, IntentTyped, TimesTyped, SweepTyped, BudgetTyped
<1>10. ASSUME NEW s \in Slots, NEW p \in Previews, Scale(s, p) \/ PodReady(s, p) \/ RollOver(s, p) \/ Collect(s, p)
       PROVE  UNCHANGED <<intent, aside, sweep, budget>>
  BY <1>10 DEF Scale, PodReady, RollOver, Collect
<1>15. ASSUME NEW s \in Slots, NEW p \in Previews, StartPod(s, p)
       PROVE  IntentTyped' /\ TimesTyped' /\ SweepTyped' /\ BudgetTyped'
  <2>1. UNCHANGED <<intent, late, old, sweep, budget>> /\ slipped' \subseteq slipped \cup {<<s, p>>}
    BY <1>15 DEF StartPod
  <2> QED BY <2>1 DEF IntentTyped, TimesTyped, SweepTyped, BudgetTyped
<1>11. CASE UNCHANGED <<intent, aside, sweep, budget>>
  BY <1>11 DEF aside, IntentTyped, TimesTyped, SweepTyped, BudgetTyped
<1>12. CASE UNCHANGED vars BY <1>12 DEF vars, aside, IntentTyped, TimesTyped, SweepTyped, BudgetTyped
<1>13. ASSUME NEW p \in Previews, IntentMoves(p) \/ TimePasses(p) \/ Strip(p)
       PROVE  IntentTyped' /\ TimesTyped' /\ SweepTyped' /\ BudgetTyped'
  BY <1>1, <1>2, <1>3, <1>13 DEF aside, IntentTyped, TimesTyped, SweepTyped, BudgetTyped
<1>14. ASSUME NEW s \in Slots, NEW p \in Previews, Evict(s, p)
       PROVE  IntentTyped' /\ TimesTyped' /\ SweepTyped' /\ BudgetTyped'
  BY <1>4, <1>14 DEF aside, IntentTyped, TimesTyped, SweepTyped
<1> QED
  BY <1>5, <1>6, <1>7, <1>8, <1>9, <1>10, <1>11, <1>12, <1>13, <1>14, <1>15 DEF Next, Begin, Work, Cluster
-----------------------------------------------------------------------------
(* What a step does to a Preview                                             *)

\* What a stage, a choice or a cleanup writes of the Preview it read.
Failing(v) == [v EXCEPT !.phase = "Failed", !.url = FALSE, !.serving = 0]
Renewing(v) ==
    [v EXCEPT !.phase = IF v.slot = 0 THEN "Pending" ELSE "Deploying",
        !.seen = v.spec, !.retries = 0, !.deployed = FALSE, !.url = FALSE]
Queueing(v) == [v EXCEPT !.phase = "Queued"]
Placing(v, s) == [v EXCEPT !.slot = s, !.phase = "Deploying"]
Exposing(v) == [v EXCEPT !.phase = "Ready", !.url = TRUE, !.serving = v.spec, !.deployed = TRUE]
LastTry(v) == v.retries + 1 >= MaxRetries
Retrying(v) ==
    [v EXCEPT !.serving = 0, !.retries = @ + 1, !.url = @ /\ ~LastTry(v),
        !.phase = IF LastTry(v) THEN "Failed" ELSE "Deploying"]
Releasing(v) == [v EXCEPT !.slot = 0, !.serving = 0]

WorkSaves(v, w) ==
    \/ work.at = "fail" /\ w = Failing(v)
    \/ work.at = "renew" /\ w = Renewing(v)
    \/ work.at = "choose" /\ work.slot > SlotCount /\ w = Queueing(v)
    \/ /\ work.at = "choose" /\ work.slot > SlotCount
       /\ \E s \in work.free : Cardinality({x \in work.free : x < s}) = work.turn /\ w = Placing(v, s)
    \/ work.at = "expose" /\ w = Exposing(v)
    \/ work.at = "retried" /\ w = Retrying(v)
    \/ /\ work.at = "clean" /\ work.slot > SlotCount /\ ~work.remain
       /\ w = IF v.at = "deleting" THEN Fresh("gone", v.spec) ELSE Releasing(v)

Becomes(p, v, w) ==
    \/ w = v
    \/ /\ v.at = "absent" /\ intent[p] # 0 /\ w = Fresh("live", intent[p])
       /\ \A q \in Previews : q < p => preview[q].at # "absent"
    \/ v.at = "live" /\ intent[p] \notin {0, v.spec} /\ w = [v EXCEPT !.spec = intent[p]]
    \/ v.at = "live" /\ w = Deleted(v)
    \/ v.at = "deleting" /\ MaxFaults # 0 /\ w = Fresh("stripped", v.spec)
    \/ v.at = "live" /\ work = Idle /\ w = [v EXCEPT !.finalizer = TRUE]
    \/ v.at = "deleting" /\ work = Idle /\ w = [v EXCEPT !.serving = 0]
    \/ /\ v.at = "live" /\ work = Idle /\ v.phase # "Failed"
       /\ w = [v EXCEPT !.phase = "Expired", !.url = FALSE, !.serving = 0]
    \/ work.at # "idle" /\ work' = Idle /\ p = work.p /\ v = work.read /\ WorkSaves(v, w)

\* A write of a Preview changes it alone.
LEMMA OneBecomes ==
    ASSUME PreviewTyped, NEW p \in Previews, NEW w, preview' = [preview EXCEPT ![p] = w],
           Becomes(p, preview[p], w), NEW q \in Previews
    PROVE  Becomes(q, preview[q], preview'[q])
<1>1. CASE q = p
  <2>1. preview'[q] = w BY <1>1 DEF PreviewTyped
  <2> QED BY <1>1, <2>1
<1>2. CASE q # p
  <2>1. preview'[q] = preview[q] BY <1>2 DEF PreviewTyped
  <2> QED BY <2>1 DEF Becomes
<1> QED BY <1>1, <1>2

LEMMA SaveBecomes ==
    ASSUME PreviewTyped, work.p \in Previews, work.at # "idle", work' = Idle,
           NEW w, Save(w), WorkSaves(work.read, w),
           NEW q \in Previews
    PROVE  Becomes(q, preview[q], preview'[q])
<1>1. CASE Saved
  <2>1. preview' = [preview EXCEPT ![work.p] = w] BY <1>1 DEF Save, Saved
  <2>2. Becomes(work.p, preview[work.p], w) BY <1>1 DEF Becomes, Saved
  <2> QED BY <2>1, <2>2, OneBecomes
<1>2. CASE ~Saved
  <2>1. preview'[q] = preview[q] BY <1>2 DEF Save, Saved
  <2> QED BY <2>1 DEF Becomes
<1> QED BY <1>1, <1>2

\* What any step does to any Preview.
LEMMA PreviewSteps ==
    ASSUME Typed, [Next]_vars, NEW q \in Previews
    PROVE  Becomes(q, preview[q], preview'[q])
<1> USE DEF Typed
<1>1. ASSUME NEW p \in Previews, NEW w, preview' = [preview EXCEPT ![p] = w], Becomes(p, preview[p], w)
      PROVE  Becomes(q, preview[q], preview'[q])
  BY <1>1, OneBecomes
<1>2. ASSUME NEW w, Save(w), work.at # "idle", work' = Idle, WorkSaves(work.read, w)
      PROVE  Becomes(q, preview[q], preview'[q])
  <2>1. work.p \in Previews BY <1>2, WorkAt
  <2> QED BY <1>2, <2>1, SaveBecomes
<1>3. ASSUME NEW p \in Previews, Write(p) PROVE Becomes(q, preview[q], preview'[q])
  <2>1. \E w : preview' = [preview EXCEPT ![p] = w] /\ Becomes(p, preview[p], w)
    <3>1. CASE intent[p] # 0 /\ preview[p].at = "absent"
      <4>1. /\ \A r \in Previews : r < p => preview[r].at # "absent"
            /\ preview' = [preview EXCEPT ![p] = Fresh("live", intent[p])]
        BY <1>3, <3>1 DEF Write, Live
      <4> QED BY <3>1, <4>1 DEF Becomes
    <3>2. CASE intent[p] \notin {0, preview[p].spec} /\ Live(p)
      <4>1. preview' = [preview EXCEPT ![p].spec = intent[p]] BY <1>3, <3>2 DEF Write, Live
      <4>2. preview' = [preview EXCEPT ![p] = [preview[p] EXCEPT !.spec = intent[p]]] BY <4>1
      <4> QED BY <3>2, <4>2 DEF Becomes, Live
    <3>3. CASE intent[p] = 0 /\ Live(p)
      <4>1. preview' = [preview EXCEPT ![p] = Deleted(preview[p])] BY <1>3, <3>3 DEF Write, Live
      <4> QED BY <3>3, <4>1 DEF Becomes, Live
    <3> QED BY <1>3, <3>1, <3>2, <3>3 DEF Write
  <2> QED BY <1>1, <2>1
<1>4. ASSUME NEW p \in Previews, Finalize(p) PROVE Becomes(q, preview[q], preview'[q])
  <2>1. preview' = [preview EXCEPT ![p] = [preview[p] EXCEPT !.serving = 0]] BY <1>4 DEF Finalize
  <2>2. Becomes(p, preview[p], [preview[p] EXCEPT !.serving = 0]) BY <1>4 DEF Finalize, Becomes
  <2> QED BY <1>1, <2>1, <2>2
<1>5. ASSUME NEW p \in Previews, AddFinalizer(p) PROVE Becomes(q, preview[q], preview'[q])
  <2>1. preview' = [preview EXCEPT ![p] = [preview[p] EXCEPT !.finalizer = TRUE]] BY <1>5 DEF AddFinalizer
  <2>2. Becomes(p, preview[p], [preview[p] EXCEPT !.finalizer = TRUE]) BY <1>5 DEF AddFinalizer, Live, Becomes
  <2> QED BY <1>1, <2>1, <2>2
<1>6. ASSUME NEW p \in Previews, Drop(p) PROVE Becomes(q, preview[q], preview'[q])
  <2>1. preview' = [preview EXCEPT ![p] = Deleted(preview[p])] BY <1>6 DEF Drop
  <2>2. Becomes(p, preview[p], Deleted(preview[p])) BY <1>6 DEF Drop, Present, Live, Becomes
  <2> QED BY <1>1, <2>1, <2>2
<1>7. ASSUME NEW p \in Previews, Expire(p) PROVE Becomes(q, preview[q], preview'[q])
  <2> DEFINE w == [preview[p] EXCEPT !.phase = "Expired", !.url = FALSE, !.serving = 0]
  <2>1. preview' = [preview EXCEPT ![p] = w]
    BY <1>7 DEF Expire, PreviewTyped
  <2>2. Becomes(p, preview[p], w) BY <1>7 DEF Expire, Current, Active, Present, Live, Over, Becomes
  <2> QED BY <1>1, <2>1, <2>2
<1>8. ASSUME NEW p \in Previews, Strip(p) PROVE Becomes(q, preview[q], preview'[q])
  <2>1. preview' = [preview EXCEPT ![p] = Fresh("stripped", preview[p].spec)] BY <1>8 DEF Strip
  <2>2. MaxFaults # 0 BY <1>8, PreviewAssumption DEF Strip, BudgetTyped
  <2>3. Becomes(p, preview[p], Fresh("stripped", preview[p].spec)) BY <1>8, <2>2 DEF Strip, Becomes
  <2> QED BY <1>1, <2>1, <2>3
<1>9. CASE FailWrite
  <2>1. Save(Failing(work.read)) /\ work.at = "fail" /\ work' = Idle
    BY <1>9 DEF FailWrite, Failing
  <2> QED BY <1>2, <2>1 DEF WorkSaves
<1>10. CASE RenewWrite
  <2>1. Save(Renewing(work.read)) /\ work.at = "renew" /\ work' = Idle
    BY <1>10 DEF RenewWrite, Renewing
  <2> QED BY <1>2, <2>1 DEF WorkSaves
<1>11. CASE Place
  <2>1. work.at = "choose" /\ work.slot > SlotCount /\ work' = Idle BY <1>11 DEF Place
  <2>2. CASE Save(Queueing(work.read)) BY <1>2, <2>1, <2>2 DEF WorkSaves
  <2>3. ASSUME NEW s \in work.free, Cardinality({x \in work.free : x < s}) = work.turn, Save(Placing(work.read, s))
        PROVE  Becomes(q, preview[q], preview'[q])
    <3>1. WorkSaves(work.read, Placing(work.read, s)) BY <2>1, <2>3 DEF WorkSaves
    <3> QED BY <1>2, <2>1, <2>3, <3>1
  <2> QED BY <1>11, <2>2, <2>3 DEF Place, Queueing, Placing
<1>12. CASE Expose
  <2>1. Save(Exposing(work.read)) /\ work.at = "expose" /\ work' = Idle
    BY <1>12 DEF Expose, Exposing
  <2> QED BY <1>2, <2>1 DEF WorkSaves
<1>13. CASE RetryWrite
  <2>1. Save(Retrying(work.read)) /\ work.at = "retried" /\ work' = Idle
    BY <1>13 DEF RetryWrite, Retrying, LastTry
  <2> QED BY <1>2, <2>1 DEF WorkSaves
<1>14. CASE Cleaned
  <2>1. work.at = "clean" /\ work.slot > SlotCount /\ work' = Idle BY <1>14 DEF Cleaned
  <2>2. CASE work.remain
    <3>1. preview'[q] = preview[q] BY <1>14, <2>2 DEF Cleaned
    <3> QED BY <3>1 DEF Becomes
  <2>3. CASE ~work.remain
    <3>1. Save(IF work.read.at = "deleting" THEN Fresh("gone", work.read.spec) ELSE Releasing(work.read))
      BY <1>14, <2>3 DEF Cleaned, Releasing
    <3> QED BY <1>2, <2>1, <2>3, <3>1 DEF WorkSaves
  <2> QED BY <2>2, <2>3
<1>15. CASE UNCHANGED preview BY <1>15 DEF Becomes
<1> QED
  BY <1>3, <1>4, <1>5, <1>6, <1>7, <1>8, <1>9, <1>10, <1>11, <1>12, <1>13, <1>14, <1>15, PreviewWriters
  DEF PreviewWrites
LEMMA AttemptsStay == ASSUME Typed, [Next]_vars PROVE Attempts'
<1> USE DEF Typed
<1>1. ASSUME NEW q \in Previews PROVE preview'[q].retries < MaxRetries \/ preview'[q].phase = "Failed"
  <2> DEFINE v == preview[q]
             w == preview'[q]
  <2>1. v \in PreviewObject /\ Becomes(q, v, w) BY PreviewSteps DEF PreviewTyped
  <2>2. v.retries < MaxRetries \/ v.phase = "Failed" BY DEF Attempts
  <2>3. 0 < MaxRetries /\ MaxRetries \in Nat BY PreviewAssumption
  <2>4. CASE work.at # "idle" /\ work' = Idle /\ q = work.p /\ v = work.read /\ WorkSaves(v, w)
    <3>1. work.at \in Attempting \cup {"choose"} => v.retries < MaxRetries BY <2>4 DEF Attempts
    <3>2. v.retries \in Nat BY <2>1, PreviewAssumption DEF PreviewObject, RetryNumbers
    <3>3. CASE work.at = "fail" /\ w = Failing(v) BY <2>1, <3>3 DEF Failing, PreviewObject
    <3>4. CASE w = Renewing(v)
      <4>1. w.retries = 0 BY <2>1, <3>4 DEF Renewing, PreviewObject
      <4> QED BY <2>3, <4>1
    <3>5. CASE work.at = "choose" /\ (w = Queueing(v) \/ \E s \in work.free : w = Placing(v, s))
      <4>1. w.retries = v.retries BY <2>1, <3>5 DEF Queueing, Placing, PreviewObject
      <4> QED BY <3>1, <3>5, <4>1
    <3>6. CASE work.at = "expose" /\ w = Exposing(v)
      <4>1. w.retries = v.retries BY <2>1, <3>6 DEF Exposing, PreviewObject
      <4> QED BY <3>1, <3>6, <4>1 DEF Attempting
    <3>7. CASE w = Retrying(v)
      <4>1. w.retries = v.retries + 1 BY <2>1, <3>7 DEF Retrying, PreviewObject
      <4>2. LastTry(v) => w.phase = "Failed" BY <2>1, <3>7 DEF Retrying, PreviewObject
      <4> QED BY <2>3, <3>2, <4>1, <4>2 DEF LastTry
    <3>8. CASE w = Fresh("gone", v.spec) BY <2>3, <3>8 DEF Fresh
    <3>9. CASE w = Releasing(v)
      <4>1. w.retries = v.retries /\ w.phase = v.phase BY <2>1, <3>9 DEF Releasing, PreviewObject
      <4> QED BY <2>2, <4>1
    <3> QED BY <2>4, <3>3, <3>4, <3>5, <3>6, <3>7, <3>8, <3>9 DEF WorkSaves
  <2>5. CASE \E at, rev : w = Fresh(at, rev) BY <2>3, <2>5 DEF Fresh
  <2>6. CASE /\ v.phase # "Failed"
             /\ w = [v EXCEPT !.phase = "Expired", !.url = FALSE, !.serving = 0]
    <3>1. w.retries = v.retries BY <2>1, <2>6 DEF PreviewObject
    <3> QED BY <2>2, <2>6, <3>1
  <2>7. CASE \/ w = v \/ w = [v EXCEPT !.spec = intent[q]] \/ w = [v EXCEPT !.at = "deleting"]
             \/ w = [v EXCEPT !.finalizer = TRUE] \/ w = [v EXCEPT !.serving = 0]
    <3>1. w.retries = v.retries /\ w.phase = v.phase BY <2>1, <2>7 DEF PreviewObject
    <3> QED BY <2>2, <3>1
  <2> HIDE DEF v, w
  <2> QED BY <2>1, <2>4, <2>5, <2>6, <2>7 DEF Becomes, Deleted, Stations
<1>2. (work.at \in Attempting \cup {"choose"} => work.read.retries < MaxRetries)'
  <2>1. ASSUME NEW p \in Previews, Choose(p) \/ Deploy(p) PROVE (work.read.retries < MaxRetries)'
    <3>1. preview[p].phase # "Failed" /\ work'.read = preview[p] BY <2>1 DEF Choose, Deploy, Over, Stage
    <3> QED BY <3>1 DEF Attempts
  <2>2. ASSUME NEW p \in Previews, Finalize(p) \/ Fail(p) \/ Renew(p) \/ Release(p)
        PROVE  work'.at \notin Attempting \cup {"choose"}
    BY <2>2 DEF Finalize, Fail, Renew, Release, Stage, Cleaning, Attempting
  <2>3. CASE Look
    <3>1. work'.read = work.read /\ work.at = "choose"
      <4>1. work \in Choosings BY <2>3, WorkAt DEF Look
      <4> QED BY <2>3, <4>1 DEF Look, Choosings
    <3> QED BY <3>1 DEF Attempts
  <2>4. CASE Await \/ Retry
    <3>1. work' = Idle \/ (work.at \in Attempting /\ work'.read = work.read)
      BY <2>4, WorkAt DEF Await, Retry, Stages, Attempting
    <3> QED BY <3>1 DEF Attempts, Idle, Attempting
  <2>5. CASE Clean
    <3>1. work'.at = "clean" BY <2>5, WorkAt DEF Clean, Cleanings
    <3> QED BY <3>1 DEF Attempting
  <2>6. CASE FailWrite \/ RenewWrite \/ Place \/ Expose \/ RetryWrite \/ Cleaned
    <3>1. work' = Idle BY <2>6 DEF FailWrite, RenewWrite, Place, Expose, RetryWrite, Cleaned
    <3> QED BY <3>1 DEF Idle, Attempting
  <2>7. CASE UNCHANGED work BY <2>7 DEF Attempts
  <2> QED BY <2>1, <2>2, <2>3, <2>4, <2>5, <2>6, <2>7, WorkWriters DEF WorkWrites, Work
<1> QED BY <1>1, <1>2 DEF Attempts

LEMMA TypedInit == Init => Typed
<1> SUFFICES ASSUME Init PROVE Typed OBVIOUS
<1>1. SlotCount \in Nat /\ MaxRevision \in Nat /\ MaxFaults \in Nat /\ MaxSweeps \in Nat
      /\ MaxRetries \in Nat /\ 0 < MaxRetries
  BY PreviewAssumption
<1>2. IntentTyped BY Fields DEF Init, IntentTyped
<1>3. PreviewTyped BY Fields, FreshTyped DEF Init, PreviewTyped
<1>4. ObjectsTyped BY <1>1 DEF Init, None, ObjectsTyped
<1>5. TimesTyped /\ WorkTyped /\ SweepTyped BY DEF Init, TimesTyped, WorkTyped, SweepTyped
<1>6. BudgetTyped BY <1>1 DEF Init, BudgetTyped
<1>7. Attempts BY <1>1 DEF Init, Attempts, Fresh, Idle, Attempting
<1> QED BY <1>2, <1>3, <1>4, <1>5, <1>6, <1>7 DEF Typed

LEMMA TypedStep == ASSUME Typed, [Next]_vars PROVE Typed'
BY PreviewStaysTyped, ObjectsStayTyped, WorkStaysTyped, RestStaysTyped, AttemptsStay DEF Typed

\* The Previews, their objects, the reconcile and the sweep have their types: the
\* slot of a Preview is one of the pool, and its retries never pass their limit.
THEOREM TypeCorrect == Spec => []TypeOK
<1>1. Typed => TypeOK
  <2> SUFFICES ASSUME Typed PROVE TypeOK OBVIOUS
  <2>1. intent \in [Previews -> 0..MaxRevision] BY DEF Typed, IntentTyped, SpecNumbers
  <2>2. preview \in [Previews -> [at: {"absent", "live", "deleting", "gone", "stripped"}, finalizer: BOOLEAN,
            spec: 0..MaxRevision, phase: Phases, slot: 0..SlotCount, seen: 0..MaxRevision,
            retries: 0..MaxRetries, deployed: BOOLEAN, url: BOOLEAN, serving: 0..MaxRevision]]
    BY DEF Typed, PreviewTyped, PreviewObject, Stations, Flags, SlotNumbers, SpecNumbers, RetryNumbers
  <2>3. /\ dep \in [Slots -> [Previews -> 0..MaxRevision]] /\ ing \in [Slots -> [Previews -> BOOLEAN]]
        /\ \A s \in Slots, p \in Previews : ready[s][p] \subseteq pods[s][p]
    BY DEF Typed, ObjectsTyped
  <2>4. \A objs \in {rs, pods, ready} : objs \in [Slots -> [Previews -> SUBSET Children]]
    BY DEF Typed, ObjectsTyped
  <2>5. {late, old} \subseteq [Previews -> BOOLEAN] /\ slipped \subseteq Slots \X Previews BY DEF Typed, TimesTyped
  <2>6. work.at \in {"idle", "renew", "fail", "choose", "clean", "deploy", "await", "expose", "retry", "retried"}
    BY DEF Typed, WorkTyped, Idle, Stages, Choosings, Cleanings, Attempting
  <2>7. sweep.at \in {"resting", "sweeping"} BY DEF Typed, SweepTyped, Resting, Sweeps
  <2>8. budget \in [faults: 0..MaxFaults, sweeps: 0..MaxSweeps] BY DEF Typed, BudgetTyped
  <2> QED BY <2>1, <2>2, <2>3, <2>4, <2>5, <2>6, <2>7, <2>8 DEF TypeOK
<1> QED BY <1>1, TypedInit, TypedStep, PTL DEF Spec
-----------------------------------------------------------------------------
(* What a step does to the objects of a slot                                 *)

\* All that can make more of its owner's objects: its Pods make none.
Made(s, p) == dep[s][p] # 0 \/ rs[s][p] # {} \/ ing[s][p]
Exposes(s, p) == work.at = "await" /\ p = work.p /\ s = work.read.slot /\ dep[s][p] # 0

Moves(s, p) ==
    /\ dep'[s][p] \in {0, dep[s][p]} \/ (Deploy(p) /\ s = preview[p].slot /\ dep'[s][p] = preview[p].spec)
    /\ rs'[s][p] # {} => rs[s][p] # {} \/ dep[s][p] # 0
    /\ pods'[s][p] # {} => pods[s][p] # {} \/ rs[s][p] # {}
    /\ ing'[s][p] => ing[s][p] \/ Exposes(s, p)

LEMMA DeleteDepMoves ==
    ASSUME ObjectsTyped, NEW gone, DeleteDep(gone), NEW s \in Slots, NEW p \in Previews
    PROVE  /\ dep'[s][p] = IF <<s, p>> \in gone THEN 0 ELSE dep[s][p]
           /\ rs'[s][p] # {} => rs[s][p] # {}
           /\ pods'[s][p] # {} => pods[s][p] # {}
<1>1. dep'[s][p] = IF <<s, p>> \in gone THEN 0 ELSE dep[s][p] BY DEF DeleteDep
<1>2. rs'[s][p] # {} => rs[s][p] # {} BY DEF DeleteDep
<1>3. pods'[s][p] # {} => pods[s][p] # {} BY DEF DeleteDep
<1> QED BY <1>1, <1>2, <1>3

LEMMA ObjectSteps ==
    ASSUME Typed, [Next]_vars, NEW t \in Slots, NEW q \in Previews
    PROVE  Moves(t, q)
<1> USE DEF Typed
<1>1. ASSUME NEW p \in Previews, Fail(p) \/ Renew(p) PROVE Moves(t, q)
  <2>1. Withdraw(p) BY <1>1 DEF Fail, Renew
  <2>2. ing'[t][q] => ing[t][q] BY <2>1 DEF Withdraw, ObjectsTyped
  <2>3. UNCHANGED <<dep, rs, pods>> BY <1>1 DEF Fail, Renew
  <2> QED BY <2>2, <2>3 DEF Moves
<1>2. ASSUME NEW p \in Previews, Deploy(p) PROVE Moves(t, q)
  <2>1. UNCHANGED <<rs, pods, ing>> /\ dep' = [dep EXCEPT ![preview[p].slot][p] = preview[p].spec]
    BY <1>2 DEF Deploy
  <2>2. dep'[t][q] = IF t = preview[p].slot /\ q = p THEN preview[p].spec ELSE dep[t][q]
    BY <2>1 DEF ObjectsTyped
  <2> QED BY <1>2, <2>1, <2>2 DEF Moves
<1>3. CASE Await
  <2>1. \/ UNCHANGED ing
        \/ dep[work.read.slot][work.p] # 0 /\ ing' = [ing EXCEPT ![work.read.slot][work.p] = TRUE]
        \/ ing' = [ing EXCEPT ![work.read.slot][work.p] = FALSE]
    BY <1>3 DEF Await
  <2>2. ing'[t][q] => ing[t][q] \/ (t = work.read.slot /\ q = work.p /\ dep[t][q] # 0)
    BY <2>1 DEF ObjectsTyped
  <2>3. work.at = "await" /\ UNCHANGED <<dep, rs, pods>> BY <1>3 DEF Await
  <2> QED BY <2>2, <2>3 DEF Moves, Exposes
<1>4. CASE Retry
  <2>1. UNCHANGED ing /\ \E gone : DeleteDep(gone) BY <1>4 DEF Retry
  <2> QED BY <2>1, DeleteDepMoves DEF Moves
<1>5. ASSUME NEW gone, DeleteDep(gone), DeleteIng(gone) PROVE Moves(t, q)
  <2>1. ing'[t][q] => ing[t][q] BY <1>5 DEF DeleteIng
  <2> QED BY <1>5, <2>1, DeleteDepMoves DEF Moves
<1>6. CASE Clean
  <2>1. UNCHANGED objects \/ \E gone : DeleteDep(gone) /\ DeleteIng(gone) BY <1>6 DEF Clean
  <2> QED BY <1>5, <2>1 DEF Moves, objects
<1>7. CASE SweepSlot
  <2>1. \E gone : DeleteDep(gone) /\ DeleteIng(gone) BY <1>7 DEF SweepSlot
  <2> QED BY <1>5, <2>1
<1>8. ASSUME NEW s \in Slots, NEW p \in Previews, Scale(s, p) PROVE Moves(t, q)
  <2>1. UNCHANGED <<dep, pods, ing>> /\ dep[s][p] # 0 BY <1>8 DEF Scale
  <2>2. PICK c : rs' = [rs EXCEPT ![s][p] = @ \cup {c}] BY <1>8 DEF Scale
  <2>3. rs'[t][q] = rs[t][q] \/ (t = s /\ q = p) BY <2>2 DEF ObjectsTyped
  <2> QED BY <2>1, <2>3 DEF Moves
<1>9. ASSUME NEW s \in Slots, NEW p \in Previews, StartPod(s, p) PROVE Moves(t, q)
  <2>1. UNCHANGED <<dep, rs, ing>> BY <1>9 DEF StartPod
  <2>2. PICK c \in rs[s][p] : pods' = [pods EXCEPT ![s][p] = @ \cup {c}] BY <1>9 DEF StartPod
  <2>3. pods'[t][q] = pods[t][q] \/ (t = s /\ q = p) BY <2>2 DEF ObjectsTyped
  <2> QED BY <2>1, <2>2, <2>3 DEF Moves
<1>10. ASSUME NEW s \in Slots, NEW p \in Previews, PodReady(s, p) PROVE Moves(t, q)
  BY <1>10 DEF PodReady, Moves
<1>11. ASSUME NEW s \in Slots, NEW p \in Previews, RollOver(s, p) \/ Evict(s, p) PROVE Moves(t, q)
  <2>1. UNCHANGED <<dep, rs, ing>> BY <1>11 DEF RollOver, Evict
  <2>2. \E X : pods' = [pods EXCEPT ![s][p] = @ \ X] BY <1>11, Zenon DEF RollOver, Evict
  <2>3. pods'[t][q] \subseteq pods[t][q] BY <2>2 DEF ObjectsTyped
  <2> QED BY <2>1, <2>3 DEF Moves
<1>12. ASSUME NEW s \in Slots, NEW p \in Previews, Collect(s, p) PROVE Moves(t, q)
  <2>1. UNCHANGED <<dep, ing>> BY <1>12 DEF Collect
  <2>2. CASE (\E c \in rs[s][p] : rs' = [rs EXCEPT ![s][p] = @ \ {c}]) /\ UNCHANGED <<pods, ready>>
    <3>1. rs'[t][q] \subseteq rs[t][q] BY <2>2 DEF ObjectsTyped
    <3> QED BY <2>1, <2>2, <3>1 DEF Moves
  <2>3. CASE UNCHANGED rs /\ (\E X : pods' = [pods EXCEPT ![s][p] = @ \ X])
    <3>1. pods'[t][q] \subseteq pods[t][q] BY <2>3 DEF ObjectsTyped
    <3> QED BY <2>1, <2>3, <3>1 DEF Moves
  <2> QED BY <1>12, <2>2, <2>3, Zenon DEF Collect
<1>13. CASE UNCHANGED objects BY <1>13 DEF objects, Moves
<1> QED
  BY <1>1, <1>2, <1>3, <1>4, <1>6, <1>7, <1>8, <1>9, <1>10, <1>11, <1>12, <1>13, ObjectWriters
  DEF ObjectWrites, Cluster

\* What slipped between two lists is remembered.
LEMMA SlipsStay == ASSUME [Next]_vars PROVE slipped \subseteq slipped'
<1>1. ASSUME NEW s \in Slots, NEW p \in Previews, StartPod(s, p) PROVE slipped \subseteq slipped'
  BY <1>1 DEF StartPod
<1>2. ASSUME NEW s \in Slots, NEW p \in Previews, Scale(s, p) \/ PodReady(s, p) \/ RollOver(s, p) PROVE UNCHANGED slipped
  BY <1>2 DEF Scale, PodReady, RollOver, aside
<1>3. ASSUME NEW s \in Slots, NEW p \in Previews, Collect(s, p) \/ Evict(s, p) PROVE UNCHANGED slipped
  BY <1>3 DEF Collect, Evict, aside
<1>4. ASSUME NEW p \in Previews, Begin(p) \/ IntentMoves(p) \/ Write(p) \/ Strip(p) \/ TimePasses(p) PROVE UNCHANGED slipped
  BY <1>4 DEF Begin, Finalize, AddFinalizer, Drop, Fail, Renew, Release, Expire, Choose, Deploy, IntentMoves, Write,
              Strip, TimePasses, aside
<1>5. CASE Work
  BY <1>5 DEF Work, FailWrite, RenewWrite, Look, Place, Await, Expose, Retry, RetryWrite, Clean, Cleaned, aside
<1>6. CASE SweepLook \/ SweepSlot BY <1>6 DEF SweepLook, SweepSlot, aside
<1> QED BY <1>1, <1>2, <1>3, <1>4, <1>5, <1>6 DEF Next, Cluster, vars, aside

\* A Pod that appears where there was none slipped, if its slot was between the lists.
LEMMA Slips ==
    ASSUME Typed, [Next]_vars, NEW s \in Slots, NEW p \in Previews, Between(s, p),
           pods[s][p] = {}, pods'[s][p] # {}
    PROVE  <<s, p>> \in slipped'
<1>1. PICK t \in Slots, q \in Previews : StartPod(t, q) /\ t = s /\ q = p
  <2>1. ASSUME NEW gone, DeleteDep(gone) PROVE FALSE BY <2>1, DeleteDepMoves DEF Typed
  <2>2. ASSUME NEW t \in Slots, NEW q \in Previews, RollOver(t, q) \/ Evict(t, q) \/ Collect(t, q) PROVE FALSE
    <3>1. UNCHANGED pods \/ \E X : pods' = [pods EXCEPT ![t][q] = @ \ X]
      BY <2>2, Zenon DEF RollOver, Evict, Collect
    <3>2. ASSUME NEW X, pods' = [pods EXCEPT ![t][q] = @ \ X] PROVE pods'[s][p] \subseteq pods[s][p]
      BY <3>2 DEF Typed, ObjectsTyped
    <3>3. pods'[s][p] \subseteq pods[s][p] BY <3>1, <3>2
    <3> QED BY <3>3
  <2>3. CASE SweepSlot
    <3>1. \E gone : DeleteDep(gone) BY <2>3 DEF SweepSlot
    <3> QED BY <2>1, <3>1
  <2>4. CASE Retry
    <3>1. \E gone : DeleteDep(gone) BY <2>4 DEF Retry
    <3> QED BY <2>1, <3>1
  <2>5. CASE Clean
    <3>1. UNCHANGED objects \/ \E gone : DeleteDep(gone) BY <2>5 DEF Clean
    <3> QED BY <2>1, <3>1 DEF objects
  <2>6. ASSUME NEW t \in Slots, NEW q \in Previews, Scale(t, q) \/ PodReady(t, q) PROVE FALSE
    BY <2>6 DEF Scale, PodReady
  <2>7. ASSUME NEW q \in Previews, Fail(q) \/ Renew(q) \/ Deploy(q) PROVE FALSE
    BY <2>7 DEF Fail, Renew, Deploy
  <2>8. CASE Await BY <2>8 DEF Await
  <2>9. ASSUME NEW t \in Slots, NEW q \in Previews, StartPod(t, q) PROVE t = s /\ q = p
    <3>1. \E c : pods' = [pods EXCEPT ![t][q] = @ \cup {c}] BY <2>9 DEF StartPod
    <3>2. pods'[s][p] = pods[s][p] \/ (t = s /\ q = p) BY <3>1 DEF Typed, ObjectsTyped
    <3> QED BY <3>2
  <2>10. ~UNCHANGED objects BY DEF objects
  <2> QED
    BY <2>2, <2>3, <2>4, <2>5, <2>6, <2>7, <2>8, <2>9, <2>10, ObjectWriters DEF ObjectWrites, Cluster
<1> QED BY <1>1 DEF StartPod

\* A slot gets what it did not hold of a Preview only by that Preview's Deployment.
LEMMA Grows ==
    ASSUME Typed, [Next]_vars, NEW s \in Slots, NEW p \in Previews, ~(Deploy(p) /\ s = preview[p].slot)
    PROVE  /\ Made(s, p)' => Made(s, p)
           /\ InSlot(s, p)' => InSlot(s, p)
<1>1. Moves(s, p) BY ObjectSteps
<1>2. slipped \subseteq slipped' BY SlipsStay
<1> QED BY <1>1, <1>2 DEF Moves, Exposes, Made, InSlot
-----------------------------------------------------------------------------
(* What a step does to who holds a slot                                      *)

\* The Preview stays where it is, and holds what it held; only a renewal changes
\* the spec it has seen.
Stays(p, v, w) ==
    /\ w.slot = v.slot /\ (v.finalizer => w.finalizer)
    /\ w.at = v.at \/ (v.at = "live" /\ w.at = "deleting" /\ w.finalizer)
    /\ \/ w.seen = v.seen
       \/ work.at = "renew" /\ work' = Idle /\ p = work.p /\ v = work.read /\ w.seen = v.spec
\* It starts over: created, deleted before it held anything, or given up by hand.
Empties(p, v, w) ==
    /\ w.slot = 0
    /\ \/ v.at = "absent" /\ w.at = "live" /\ \A q \in Previews : q < p => preview[q].at # "absent"
       \/ v.at = "live" /\ ~v.finalizer /\ w.at = "gone"
       \/ v.at = "deleting" /\ MaxFaults # 0 /\ w.at = "stripped"
\* It is given a slot, or lets go of its own.
Places(p, v, w) ==
    /\ work.at = "choose" /\ work' = Idle /\ p = work.p /\ v = work.read /\ work.slot > SlotCount
    /\ w.slot \in work.free /\ Cardinality({x \in work.free : x < w.slot}) = work.turn
    /\ w.at = v.at /\ w.finalizer = v.finalizer /\ w.seen = v.seen
Releases(p, v, w) ==
    /\ work.at = "clean" /\ work' = Idle /\ p = work.p /\ v = work.read
    /\ work.slot > SlotCount /\ ~work.remain
    /\ w.slot = 0 /\ (w.at = v.at \/ (v.at = "deleting" /\ w.at = "gone"))

LEMMA SlotSteps ==
    ASSUME Typed, [Next]_vars, NEW p \in Previews
    PROVE  \/ Stays(p, preview[p], preview'[p]) \/ Empties(p, preview[p], preview'[p])
           \/ Places(p, preview[p], preview'[p]) \/ Releases(p, preview[p], preview'[p])
<1> DEFINE v == preview[p]
           w == preview'[p]
<1>1. v \in PreviewObject /\ Becomes(p, v, w) BY PreviewSteps DEF Typed, PreviewTyped
<1>2. CASE work.at # "idle" /\ work' = Idle /\ p = work.p /\ v = work.read /\ WorkSaves(v, w)
  <2>1. CASE work.at = "fail" /\ w = Failing(v) BY <1>1, <2>1 DEF Failing, PreviewObject, Stays
  <2>2. CASE work.at = "renew" /\ w = Renewing(v) BY <1>1, <1>2, <2>2 DEF Renewing, PreviewObject, Stays
  <2>3. CASE w = Queueing(v) BY <1>1, <2>3 DEF Queueing, PreviewObject, Stays
  <2>4. CASE /\ work.at = "choose" /\ work.slot > SlotCount
             /\ \E s \in work.free : Cardinality({x \in work.free : x < s}) = work.turn /\ w = Placing(v, s)
    <3>1. PICK s \in work.free : Cardinality({x \in work.free : x < s}) = work.turn /\ w = Placing(v, s)
      BY <2>4
    <3>2. w.slot = s /\ w.at = v.at /\ w.finalizer = v.finalizer /\ w.seen = v.seen
      BY <1>1, <3>1 DEF Placing, PreviewObject
    <3> QED BY <1>2, <2>4, <3>1, <3>2 DEF Places
  <2>5. CASE w = Exposing(v) BY <1>1, <2>5 DEF Exposing, PreviewObject, Stays
  <2>6. CASE w = Retrying(v)
    <3>1. w.slot = v.slot /\ w.finalizer = v.finalizer /\ w.at = v.at /\ w.seen = v.seen
      BY <1>1, <2>6 DEF Retrying, PreviewObject
    <3> QED BY <3>1 DEF Stays
  <2>7. CASE work.at = "clean" /\ work.slot > SlotCount /\ ~work.remain /\ v.at = "deleting" /\ w = Fresh("gone", v.spec)
    BY <1>2, <2>7 DEF Fresh, Releases
  <2>8. CASE work.at = "clean" /\ work.slot > SlotCount /\ ~work.remain /\ w = Releasing(v)
    <3>1. w.slot = 0 /\ w.at = v.at BY <1>1, <2>8 DEF Releasing, PreviewObject
    <3> QED BY <1>2, <2>8, <3>1 DEF Releases
  <2> QED BY <1>2, <2>1, <2>2, <2>3, <2>4, <2>5, <2>6, <2>7, <2>8 DEF WorkSaves
<1>3. CASE \/ w = v \/ w = [v EXCEPT !.spec = intent[p]] \/ w = [v EXCEPT !.finalizer = TRUE]
           \/ w = [v EXCEPT !.serving = 0]
           \/ w = [v EXCEPT !.phase = "Expired", !.url = FALSE, !.serving = 0]
  <2>1. w.slot = v.slot /\ (v.finalizer => w.finalizer) /\ w.at = v.at /\ w.seen = v.seen
    BY <1>1, <1>3 DEF PreviewObject
  <2> QED BY <2>1 DEF Stays
<1>4. CASE /\ v.at = "absent" /\ w = Fresh("live", intent[p])
           /\ \A q \in Previews : q < p => preview[q].at # "absent"
  BY <1>4 DEF Fresh, Empties
<1>5. CASE v.at = "live" /\ w = Deleted(v)
  <2>1. CASE v.finalizer
    <3>1. w = [v EXCEPT !.at = "deleting"] BY <1>5, <2>1 DEF Deleted
    <3>2. w.slot = v.slot /\ w.finalizer = v.finalizer /\ w.at = "deleting" /\ w.seen = v.seen
      BY <1>1, <3>1 DEF PreviewObject
    <3> QED BY <1>5, <2>1, <3>2 DEF Stays
  <2>2. CASE ~v.finalizer BY <1>5, <2>2 DEF Deleted, Fresh, Empties
  <2> QED BY <2>1, <2>2
<1>6. CASE v.at = "deleting" /\ MaxFaults # 0 /\ w = Fresh("stripped", v.spec) BY <1>6 DEF Fresh, Empties
<1> HIDE DEF v, w
<1> QED BY <1>1, <1>2, <1>3, <1>4, <1>5, <1>6, Zenon DEF Becomes

\* How a Preview comes to be live, or stays so.
LEMMA LiveSteps ==
    ASSUME Typed, [Next]_vars, NEW p \in Previews, preview'[p].at = "live"
    PROVE  \/ preview[p].at = "absent" /\ preview'[p].phase = "none"
           \/ /\ preview[p].at = "live"
              /\ \/ preview'[p] = preview[p]
                 \/ /\ intent[p] \notin {0, preview[p].spec}
                    /\ preview'[p] = [preview[p] EXCEPT !.spec = intent[p]]
                 \/ work = Idle /\ preview'[p] = [preview[p] EXCEPT !.finalizer = TRUE]
                 \/ work = Idle /\ preview'[p] = [preview[p] EXCEPT !.phase = "Expired", !.url = FALSE, !.serving = 0]
                 \/ /\ work.at # "idle" /\ work' = Idle /\ p = work.p /\ preview[p] = work.read
                    /\ WorkSaves(preview[p], preview'[p])
<1> DEFINE v == preview[p]
           w == preview'[p]
<1>1. v \in PreviewObject /\ Becomes(p, v, w) BY PreviewSteps DEF Typed, PreviewTyped
<1>2. CASE v.at = "absent"
  <2>1. w # v BY <1>2
  <2>2. CASE w = Fresh("live", intent[p]) BY <1>2, <2>2 DEF Fresh
  <2>3. CASE v = work.read /\ WorkSaves(v, w)
    <3>1. CASE \E s : w = Placing(v, s) BY <1>1, <1>2, <3>1 DEF Placing, PreviewObject
    <3>2. CASE w = Failing(v) \/ w = Renewing(v) \/ w = Queueing(v) \/ w = Exposing(v)
      BY <1>1, <1>2, <3>2 DEF Failing, Renewing, Queueing, Exposing, PreviewObject
    <3>3. CASE w = Retrying(v) \/ w = Releasing(v) BY <1>1, <1>2, <3>3 DEF Retrying, Releasing, PreviewObject
    <3> QED BY <1>2, <2>3, <3>1, <3>2, <3>3 DEF WorkSaves
  <2> QED BY <1>1, <1>2, <2>1, <2>2, <2>3 DEF Becomes
<1>3. CASE v.at # "absent"
  <2>1. v.at = "live"
    BY <1>3, SlotSteps DEF Stays, Empties, Places, Releases
  <2>2. w # Deleted(v)
    <3>1. CASE v.finalizer
      <4>1. Deleted(v).at = "deleting" BY <1>1, <3>1 DEF Deleted, PreviewObject
      <4> QED BY <4>1
    <3>2. CASE ~v.finalizer
      <4>1. Deleted(v).at = "gone" BY <3>2 DEF Deleted, Fresh
      <4> QED BY <4>1
    <3> QED BY <3>1, <3>2
  <2> HIDE DEF v, w
  <2>3. \/ w = v
        \/ intent[p] \notin {0, v.spec} /\ w = [v EXCEPT !.spec = intent[p]]
        \/ work = Idle /\ w = [v EXCEPT !.finalizer = TRUE]
        \/ work = Idle /\ w = [v EXCEPT !.phase = "Expired", !.url = FALSE, !.serving = 0]
        \/ work.at # "idle" /\ work' = Idle /\ p = work.p /\ v = work.read /\ WorkSaves(v, w)
    BY <1>1, <2>1, <2>2, Zenon DEF Becomes
  <2> QED BY <2>1, <2>3 DEF v, w
<1> QED BY <1>2, <1>3
-----------------------------------------------------------------------------
(* Who holds a slot, and what the reconcile under way knows of it            *)

\* Only a live Preview, or one being deleted, holds a slot, under its finalizer.
Bare ==
    \A p \in Previews :
        preview[p].slot # 0 => preview[p].at \in {"live", "deleting"} /\ preview[p].finalizer
\* The slots a choice still takes for free are nobody's.
ChooseFree ==
    work.at = "choose" =>
       /\ work.read.slot = 0 /\ work.read.finalizer /\ work.read.at = "live"
       /\ \A q \in Previews : preview[q].slot \notin work.free
\* A Preview holds the slot of every object that can still make others.
MadeHeld ==
    \A s \in Slots, p \in Previews : Made(s, p) /\ preview[p].at # "stripped" => preview[p].slot = s
\* What a cleanup found gone is gone; only a Pod that slipped between its lists may
\* be left.
Listed(s, p) == dep[s][p] = 0 /\ ~ing[s][p] /\ (pods[s][p] = {} \/ <<s, p>> \in slipped)
CleanSeen ==
    work.at = "clean" /\ ~work.remain =>
      \A s \in Slots :
       /\ s < work.slot => ~InSlot(s, work.p)
       /\ s = work.slot /\ work.half = 2 => Listed(s, work.p)
HeldInv == Bare /\ ChooseFree /\ HoldersDistinct /\ MadeHeld /\ CleanSeen /\ SlotHeld

LEMMA SlotNumber ==
    ASSUME Typed
    PROVE  /\ 0 \notin Slots
           /\ \A p \in Previews : preview[p].slot \in Slots \cup {0}
           /\ work.at = "choose" => work.free \subseteq Slots
           /\ \A s \in Slots : s \in Nat /\ s <= SlotCount /\ SlotCount \in Nat
<1>1. work.at = "choose" => work.free \subseteq Slots BY WorkAt DEF Typed, Choosings
<1>2. SlotCount \in Nat BY PreviewAssumption
<1>3. \A p \in Previews : preview[p].slot \in 0..SlotCount BY DEF Typed, PreviewTyped, PreviewObject, SlotNumbers
<1> QED BY <1>1, <1>2, <1>3 DEF Slots

\* A Deployment is made only by a reconcile of its own, which writes no Preview.
LEMMA NoDeploy == ASSUME NEW p \in Previews, Deploy(p) PROVE work.at = "idle" /\ UNCHANGED preview
BY DEF Deploy, Current, Active, Present, Idle

LEMMA BareStep == ASSUME Typed, HeldInv, [Next]_vars PROVE Bare'
<1> SUFFICES ASSUME NEW p \in Previews, preview'[p].slot # 0
             PROVE  preview'[p].at \in {"live", "deleting"} /\ preview'[p].finalizer
  BY DEF Bare
<1>1. CASE Stays(p, preview[p], preview'[p]) BY <1>1 DEF Stays, HeldInv, Bare
<1>2. CASE Places(p, preview[p], preview'[p]) BY <1>2 DEF Places, HeldInv, ChooseFree
<1> QED BY <1>1, <1>2, SlotSteps DEF Empties, Releases

\* No choice under way is undone by another's step, and its own only strikes slots out.
LEMMA ChooseFreeStep == ASSUME Typed, HeldInv, [Next]_vars PROVE ChooseFree'
<1> SUFFICES ASSUME work'.at = "choose" PROVE ChooseFree' BY DEF ChooseFree
<1>1. ASSUME NEW p \in Previews, Choose(p) PROVE ChooseFree'
  <2>1. work'.read = preview[p] /\ work'.free = Slots \ Taken /\ UNCHANGED preview BY <1>1 DEF Choose
  <2>2. preview[p].slot = 0 /\ preview[p].at = "live" /\ preview[p].finalizer
    BY <1>1 DEF Choose, Current, Active, Present, Live
  <2>3. \A q \in Previews : preview[q].slot \notin Slots \ Taken
    BY SlotNumber DEF HeldInv, Bare, Taken
  <2> QED BY <2>1, <2>2, <2>3 DEF ChooseFree
<1>2. CASE Look
  <2>1. work \in Choosings /\ work.at = "choose" BY <1>2, WorkAt DEF Look, Typed
  <2>2. work'.read = work.read /\ work'.free \subseteq work.free /\ UNCHANGED preview
    BY <1>2, <2>1 DEF Look, Choosings
  <2> QED BY <2>1, <2>2 DEF HeldInv, ChooseFree
<1>3. CASE UNCHANGED work
  <2>1. work.at = "choose" /\ work' # Idle BY <1>3 DEF Idle
  <2>2. ASSUME NEW q \in Previews PROVE preview'[q].slot \notin work.free
    <3>1. preview'[q].slot \in {0, preview[q].slot}
      BY <2>1, SlotSteps DEF Stays, Empties, Places, Releases
    <3> QED BY <2>1, <3>1, SlotNumber DEF HeldInv, ChooseFree
  <2> QED BY <1>3, <2>1, <2>2 DEF HeldInv, ChooseFree
<1>4. ASSUME NEW p \in Previews, Finalize(p) \/ Fail(p) \/ Renew(p) \/ Release(p) \/ Deploy(p) PROVE FALSE
  BY <1>4 DEF Finalize, Fail, Renew, Release, Deploy, Stage, Cleaning
<1>5. CASE Await \/ Retry
  <2>1. work' = Idle \/ work'.at \in Attempting
    BY <1>5, WorkAt DEF Await, Retry, Typed, Stages, Attempting
  <2> QED BY <2>1 DEF Idle, Attempting
<1>6. CASE Clean
  <2>1. work'.at = "clean" BY <1>6, WorkAt DEF Clean, Typed, Cleanings
  <2> QED BY <2>1
<1>7. CASE FailWrite \/ RenewWrite \/ Place \/ Expose \/ RetryWrite \/ Cleaned
  <2>1. work' = Idle BY <1>7 DEF FailWrite, RenewWrite, Place, Expose, RetryWrite, Cleaned
  <2> QED BY <2>1 DEF Idle
<1> QED BY <1>1, <1>2, <1>3, <1>4, <1>5, <1>6, <1>7, WorkWriters DEF WorkWrites, Work

LEMMA HoldersStep == ASSUME Typed, HeldInv, [Next]_vars PROVE HoldersDistinct'
<1> SUFFICES ASSUME NEW p \in Previews, NEW q \in Previews, p # q, preview'[p].slot # 0
             PROVE  preview'[p].slot # preview'[q].slot
  BY DEF HoldersDistinct
<1> DEFINE Kept(r) == preview'[r].slot \in {0, preview[r].slot}
<1>1. \A r \in Previews : Kept(r) \/ Places(r, preview[r], preview'[r])
  BY SlotSteps DEF Stays, Empties, Releases
<1>2. \A r \in Previews : Places(r, preview[r], preview'[r]) =>
         r = work.p /\ \A o \in Previews : preview[o].slot # preview'[r].slot
  BY DEF Places, HeldInv, ChooseFree
<1>3. preview[p].slot # 0 => preview[p].slot # preview[q].slot BY DEF HeldInv, HoldersDistinct
<1>4. CASE Kept(p) /\ Kept(q) BY <1>3, <1>4
<1>5. CASE Places(p, preview[p], preview'[p]) BY <1>1, <1>2, <1>5
<1>6. CASE Places(q, preview[q], preview'[q]) BY <1>1, <1>2, <1>6
<1> QED BY <1>1, <1>4, <1>5, <1>6

\* A Preview with something in a slot keeps the slot, or is stripped: only an empty
\* cleanup lets go of it.
LEMMA HeldKept ==
    ASSUME Typed, HeldInv, [Next]_vars, NEW p \in Previews, NEW s \in Slots, preview[p].slot = s,
           work.at = "clean" /\ work.p = p /\ ~work.remain => work.slot <= SlotCount,
           preview'[p].at # "stripped"
    PROVE  preview'[p].slot = s
<1>1. s # 0 BY SlotNumber
<1>2. CASE Stays(p, preview[p], preview'[p]) BY <1>2 DEF Stays
<1>3. CASE Empties(p, preview[p], preview'[p]) BY <1>1, <1>3 DEF Empties, HeldInv, Bare
<1>4. CASE Places(p, preview[p], preview'[p]) BY <1>1, <1>4 DEF Places, HeldInv, ChooseFree
<1>5. CASE Releases(p, preview[p], preview'[p])
  <2>1. work \in Cleanings /\ SlotCount \in Nat BY <1>5, WorkAt, PreviewAssumption DEF Releases, Typed
  <2> QED BY <1>5, <2>1 DEF Releases, Cleanings
<1> QED BY <1>2, <1>3, <1>4, <1>5, SlotSteps

\* Nothing brings back a Preview stripped of its finalizer.
LEMMA StrippedStays ==
    ASSUME Typed, HeldInv, [Next]_vars, NEW p \in Previews, preview[p].at = "stripped"
    PROVE  preview'[p].at = "stripped"
<1>1. CASE Places(p, preview[p], preview'[p]) BY <1>1 DEF Places, HeldInv, ChooseFree
<1> QED BY <1>1, SlotSteps DEF Stays, Empties, Releases

LEMMA MadeHeldStep == ASSUME Typed, HeldInv, [Next]_vars PROVE MadeHeld' /\ SlotHeld'
<1>1. ASSUME NEW p \in Previews, NEW s \in Slots, preview'[p].at # "stripped", InSlot(s, p)'
      PROVE  preview'[p].slot = s
  <2>1. CASE Deploy(p) /\ s = preview[p].slot BY <2>1, NoDeploy
  <2>2. CASE ~(Deploy(p) /\ s = preview[p].slot)
    <3>1. InSlot(s, p) BY <1>1, <2>2, Grows
    <3>2. preview[p].at # "stripped" BY <1>1, StrippedStays
    <3>3. preview[p].slot = s BY <3>1, <3>2 DEF HeldInv, SlotHeld
    <3>4. ASSUME work.at = "clean", work.p = p, ~work.remain PROVE work.slot <= SlotCount
      <4>1. ~(s < work.slot) BY <3>1, <3>4 DEF HeldInv, CleanSeen
      <4>2. work.slot \in Nat BY <3>4, WorkAt, PreviewAssumption DEF Typed, Cleanings
      <4> QED BY <4>1, <4>2, SlotNumber
    <3> QED BY <1>1, <3>3, <3>4, HeldKept
  <2> QED BY <2>1, <2>2
<1>2. \A s \in Slots, p \in Previews : Made(s, p)' => InSlot(s, p)' BY DEF Made, InSlot
<1> QED BY <1>1, <1>2 DEF MadeHeld, SlotHeld

\* A cleanup that goes on finds each slot empty before it leaves it.
LEMMA CleanSeenStep == ASSUME Typed, HeldInv, [Next]_vars PROVE CleanSeen'
<1> SUFFICES ASSUME work'.at = "clean", ~work'.remain PROVE CleanSeen' BY DEF CleanSeen
<1>1. ASSUME NEW p \in Previews, NEW read, work' = Cleaning(p, read) PROVE CleanSeen'
  <2>1. work'.slot = 1 /\ work'.half = 1 BY <1>1 DEF Cleaning
  <2>2. \A s \in Slots : ~(s < 1) BY DEF Slots
  <2> QED BY <2>1, <2>2 DEF CleanSeen
<1>2. CASE Clean
  <2>0. work \in Cleanings /\ work.at = "clean" /\ work.slot \in Slots BY <1>2, WorkAt DEF Clean, Typed
  <2> PICK p \in Previews, s \in Slots : p = work.p /\ s = work.slot BY <2>0 DEF Cleanings
  <2>1. work \in Cleanings /\ work.at = "clean" BY <2>0
  <2>2. p \in Previews /\ s \in Nat /\ work.half \in {1, 2} BY <2>1, SlotNumber DEF Cleanings
  <2>3. work'.p = p BY <1>2, <2>1 DEF Clean, Cleanings
  <2>4. ~work.remain /\ ~Remains(p, s) BY <1>2, <2>1 DEF Clean, Cleanings
  <2>5. \A t \in Slots : InSlot(t, p)' => InSlot(t, p)
    <3>1. ~Deploy(p) BY <2>1, <2>2, NoDeploy
    <3> QED BY <2>2, <3>1, Grows
  <2>6. \A t \in Slots : t < s => ~InSlot(t, p)' BY <2>1, <2>4, <2>5 DEF HeldInv, CleanSeen
  <2>7. CASE work.half = 1
    <3>1. work'.slot = s /\ work'.half = 2 BY <1>2, <2>1, <2>7 DEF Clean, Cleanings
    <3>2. dep[s][p] = 0 /\ ~ing[s][p] /\ pods[s][p] = {} BY <2>4, <2>7 DEF Remains
    <3>3. Moves(s, p) /\ work.at # "await" /\ ~Deploy(p) BY <2>1, <2>2, ObjectSteps, NoDeploy
    <3>4. dep'[s][p] = 0 /\ ~ing'[s][p] BY <3>2, <3>3 DEF Moves, Exposes
    <3>5. pods'[s][p] = {}
      <4>1. UNCHANGED pods \/ \E gone : DeleteDep(gone) BY <1>2 DEF Clean, objects
      <4> QED BY <2>2, <3>2, <4>1, DeleteDepMoves DEF Typed
    <3> QED BY <2>1, <2>2, <2>3, <2>6, <2>7, <3>1, <3>4, <3>5 DEF CleanSeen, Listed
  <2>8. CASE work.half = 2
    <3>1. work'.slot = s + 1 /\ work'.half = 1 BY <1>2, <2>1, <2>8 DEF Clean, Cleanings
    <3>2. ~InSlot(s, p)
      <4>1. Listed(s, p) BY <2>1, <2>4, <2>8 DEF HeldInv, CleanSeen
      <4>2. rs[s][p] = {} BY <2>4, <2>8 DEF Remains
      <4> QED BY <4>1, <4>2 DEF InSlot, Listed
    <3>3. \A t \in Slots : t < s + 1 => t < s \/ t = s BY <2>2, SlotNumber
    <3>4. \A t \in Slots : t < s + 1 => ~InSlot(t, p)' BY <2>1, <2>5, <2>6, <3>2, <3>3
    <3> QED BY <2>3, <3>1, <3>4 DEF CleanSeen
  <2> QED BY <2>2, <2>7, <2>8
<1>3. CASE UNCHANGED work
  <2>1. work.at = "clean" /\ ~work.remain BY <1>3
  <2>2. PICK p \in Previews : p = work.p BY <2>1, WorkAt DEF Typed
  <2>3. ~Deploy(p) BY <2>1, NoDeploy
  <2>4. SUFFICES ASSUME NEW s \in Slots
                 PROVE  /\ s < work.slot => ~InSlot(s, p)'
                        /\ s = work.slot /\ work.half = 2 => Listed(s, p)'
    BY <1>3, <2>2 DEF CleanSeen
  <2>5. InSlot(s, p)' => InSlot(s, p) BY <2>3, Grows
  <2>6. ASSUME s = work.slot, work.half = 2, Listed(s, p) PROVE Listed(s, p)'
    <3>1. dep'[s][p] = 0 /\ ~ing'[s][p] BY <2>1, <2>3, <2>6, ObjectSteps DEF Moves, Exposes, Listed
    <3>2. Between(s, p) BY <2>1, <2>2, <2>6 DEF Between
    <3>3. pods'[s][p] = {} \/ <<s, p>> \in slipped' BY <2>6, <3>2, Slips, SlipsStay DEF Listed
    <3> QED BY <3>1, <3>3 DEF Listed
  <2>7. /\ s < work.slot => ~InSlot(s, p)
        /\ s = work.slot /\ work.half = 2 => Listed(s, p)
    BY <2>1, <2>2 DEF HeldInv, CleanSeen
  <2> QED BY <2>5, <2>6, <2>7
<1>4. ASSUME NEW p \in Previews, Renew(p) \/ Deploy(p) \/ Choose(p) PROVE FALSE
  BY <1>4 DEF Renew, Deploy, Choose, Stage
<1>5. ASSUME NEW p \in Previews, Finalize(p) \/ Fail(p) \/ Release(p) PROVE CleanSeen'
  <2>1. (\E read : work' = Cleaning(p, read)) \/ work' = Stage("fail", p) BY <1>5 DEF Finalize, Fail, Release
  <2> QED BY <1>1, <2>1 DEF Stage
<1>6. CASE Look
  <2>1. work'.at = "choose" BY <1>6, WorkAt DEF Look, Typed, Choosings
  <2> QED BY <2>1
<1>7. CASE Await \/ Retry
  <2>1. work' = Idle \/ work'.at \in Attempting
    BY <1>7, WorkAt DEF Await, Retry, Typed, Stages, Attempting
  <2> QED BY <2>1 DEF Idle, Attempting
<1>8. CASE FailWrite \/ RenewWrite \/ Place \/ Expose \/ RetryWrite \/ Cleaned
  <2>1. work' = Idle BY <1>8 DEF FailWrite, RenewWrite, Place, Expose, RetryWrite, Cleaned
  <2> QED BY <2>1 DEF Idle
<1> QED BY <1>2, <1>3, <1>4, <1>5, <1>6, <1>7, <1>8, WorkWriters DEF WorkWrites, Work

LEMMA HeldInit == Init => HeldInv
<1> SUFFICES ASSUME Init PROVE HeldInv OBVIOUS
<1>1. \A p \in Previews : preview[p].slot = 0 BY DEF Init, Fresh
<1>2. \A s \in Slots, p \in Previews : ~InSlot(s, p) /\ ~Made(s, p) BY DEF Init, None, InSlot, Made
<1>3. work.at = "idle" BY DEF Init, Idle
<1>4. Bare /\ HoldersDistinct BY <1>1 DEF Bare, HoldersDistinct
<1>5. MadeHeld /\ SlotHeld BY <1>2 DEF MadeHeld, SlotHeld
<1> QED BY <1>3, <1>4, <1>5 DEF HeldInv, ChooseFree, CleanSeen

LEMMA HeldStep == ASSUME Typed, HeldInv, [Next]_vars PROVE HeldInv'
BY BareStep, ChooseFreeStep, HoldersStep, MadeHeldStep, CleanSeenStep DEF HeldInv

\* Who holds a slot, with the types it rests on.
THEOREM HeldInvariant == Spec => [](Typed /\ HeldInv)
BY TypedInit, TypedStep, HeldInit, HeldStep, PTL DEF Spec

\* No two Previews hold one slot, however many look for one in turn while others
\* fail, expire, are deleted or stripped by hand, and whether or not the lists of
\* one look see the cluster move (chooseSlot).
THEOREM HoldersDistinctHolds == Spec => []HoldersDistinct
<1>1. HeldInv => HoldersDistinct BY DEF HeldInv
<1> QED BY <1>1, HeldInvariant, PTL

\* A Preview lets go of a slot only when nothing of it is left there, but for a Pod
\* made between a cleanup's list of Pods and that of ReplicaSets (release, finalize).
THEOREM SlotHeldHolds == Spec => []SlotHeld
<1>1. HeldInv => SlotHeld BY DEF HeldInv
<1> QED BY <1>1, HeldInvariant, PTL

-----------------------------------------------------------------------------
(* Whose objects are in a slot                                               *)

\* What is somebody's in a slot: a Pod that slipped too, but for that of a Preview
\* whose finalizer was taken off by hand.
Counts(s, p) == Made(s, p) \/ (pods[s][p] # {} /\ (<<s, p>> \in slipped => preview[p].at # "stripped"))
PodsSeen(s, p) ==
    dep[s][p] = 0 /\ (pods[s][p] = {} \/ (<<s, p>> \in slipped /\ preview[p].at = "stripped"))
\* The slots a choice has looked at and still takes for free are empty.
LookSeen ==
    work.at = "choose" =>
      \A s \in work.free, q \in Previews :
         /\ s < work.slot => ~Counts(s, q)
         /\ s = work.slot /\ work.half = 2 /\ work.clear => PodsSeen(s, q)
\* Nobody holds the slot another has something in, stripped or not, nor has anything in it.
Apart ==
    \A s \in Slots : \A p, q \in Previews : p # q /\ Counts(s, p) => preview[q].slot # s /\ ~Counts(s, q)
ApartInv == LookSeen /\ Apart

\* What counts in a slot counted before, but for what is just deployed there.
LEMMA CountsGrow ==
    ASSUME Typed, HeldInv, [Next]_vars, NEW s \in Slots, NEW p \in Previews,
           ~(Deploy(p) /\ s = preview[p].slot), Counts(s, p)'
    PROVE  Counts(s, p)
<1>1. CASE Made(s, p)' BY <1>1, Grows DEF Counts
<1>2. CASE pods'[s][p] # {} /\ (<<s, p>> \in slipped' => preview'[p].at # "stripped")
  <2>1. pods[s][p] # {} \/ rs[s][p] # {} BY <1>2, ObjectSteps DEF Moves
  <2>2. <<s, p>> \in slipped => preview[p].at # "stripped" BY <1>2, SlipsStay, StrippedStays
  <2> QED BY <2>1, <2>2 DEF Counts, Made
<1> QED BY <1>1, <1>2 DEF Counts

\* What a choice has seen empty nobody fills before it is made.
LEMMA LookSeenStep == ASSUME Typed, HeldInv, ApartInv, [Next]_vars PROVE LookSeen'
<1> SUFFICES ASSUME work'.at = "choose" PROVE LookSeen' BY DEF LookSeen
<1>1. ASSUME NEW p \in Previews, Choose(p) PROVE LookSeen'
  <2>1. work'.slot = 1 /\ work'.half = 1 /\ work'.free \subseteq Slots BY <1>1 DEF Choose
  <2>2. \A s \in Slots : ~(s < 1) BY DEF Slots
  <2> QED BY <2>1, <2>2 DEF LookSeen
<1>2. CASE Look
  <2>0. work \in Choosings /\ work.at = "choose" /\ work.slot \in Slots BY <1>2, WorkAt DEF Look, Typed
  <2> PICK s \in Slots : s = work.slot BY <2>0
  <2>1. work.free \subseteq Slots /\ work.half \in {1, 2} /\ work.clear \in BOOLEAN
    BY <2>0 DEF Choosings
  <2>2. UNCHANGED <<objects, aside, preview>> BY <1>2 DEF Look
  <2>3. \A t \in Slots, q \in Previews :
            (Counts(t, q)' <=> Counts(t, q)) /\ (PodsSeen(t, q)' <=> PodsSeen(t, q))
    BY <2>2 DEF objects, aside, Counts, PodsSeen, Made
  <2>4. \A t \in work.free : t < s => \A q \in Previews : ~Counts(t, q) BY <2>0 DEF ApartInv, LookSeen
  <2>5. CASE work.half = 1
    <3>1. work'.slot = s /\ work'.free = work.free /\ (work'.clear => ~Found(s))
      BY <1>2, <2>0, <2>5 DEF Look, Choosings
    <3>2. ASSUME ~Found(s), NEW q \in Previews PROVE PodsSeen(s, q)
      BY <2>5, <3>2 DEF Found, PodsIn, PodsSeen
    <3> QED BY <2>1, <2>3, <2>4, <3>1, <3>2 DEF LookSeen
  <2>6. CASE work.half = 2
    <3>1. work'.slot = s + 1 /\ work'.half = 1
      BY <1>2, <2>0, <2>6 DEF Look, Choosings
    <3>2. work'.free \subseteq work.free /\ (s \in work'.free => work.clear /\ ~Found(s))
      BY <1>2, <2>0, <2>6 DEF Look, Choosings
    <3>3. ASSUME s \in work'.free, NEW q \in Previews PROVE ~Counts(s, q)
      <4>1. PodsSeen(s, q) BY <2>0, <2>6, <3>2, <3>3 DEF ApartInv, LookSeen
      <4>2. rs[s][q] = {} /\ ~ing[s][q] BY <2>6, <3>2, <3>3 DEF Found, RestIn
      <4> QED BY <4>1, <4>2 DEF PodsSeen, Counts, Made
    <3>4. \A t \in Slots : t < s + 1 => t < s \/ t = s BY SlotNumber
    <3>5. \A t \in work'.free : t < s + 1 => \A q \in Previews : ~Counts(t, q)
      BY <2>1, <2>4, <3>2, <3>3, <3>4
    <3> QED BY <2>1, <2>3, <3>1, <3>2, <3>5 DEF LookSeen
  <2> QED BY <2>1, <2>5, <2>6
<1>3. CASE UNCHANGED work
  <2>1. work.at = "choose" /\ work.free \subseteq Slots BY <1>3, SlotNumber
  <2>2. \A t \in Slots, q \in Previews : Counts(t, q)' => Counts(t, q)
    BY <2>1, NoDeploy, CountsGrow
  <2>3. ASSUME NEW s \in work.free, NEW q \in Previews, s = work.slot, work.half = 2, PodsSeen(s, q)
        PROVE  PodsSeen(s, q)'
    <3>1. s \in Slots /\ Between(s, q) BY <2>1, <2>3 DEF Between
    <3>2. Moves(s, q) /\ ~Deploy(q) BY <2>1, <3>1, ObjectSteps, NoDeploy
    <3>3. dep'[s][q] = 0 BY <2>3, <3>2 DEF Moves, PodsSeen
    <3>4. CASE <<s, q>> \in slipped /\ preview[q].at = "stripped"
      BY <3>3, <3>4, SlipsStay, StrippedStays DEF PodsSeen
    <3>5. CASE pods[s][q] = {} /\ pods'[s][q] # {}
      <4>1. <<s, q>> \in slipped' BY <3>1, <3>5, Slips
      <4>2. rs[s][q] # {} BY <3>2, <3>5 DEF Moves
      <4>3. preview[q].slot # s BY <2>1, <2>3 DEF HeldInv, ChooseFree
      <4>4. preview[q].at = "stripped" BY <3>1, <4>2, <4>3 DEF HeldInv, MadeHeld, Made
      <4> QED BY <3>3, <4>1, <4>4, StrippedStays DEF PodsSeen
    <3> QED BY <2>3, <3>3, <3>4, <3>5 DEF PodsSeen
  <2> QED BY <1>3, <2>1, <2>2, <2>3 DEF ApartInv, LookSeen
<1>4. ASSUME NEW p \in Previews, Finalize(p) \/ Fail(p) \/ Renew(p) \/ Release(p) \/ Deploy(p) PROVE FALSE
  BY <1>4 DEF Finalize, Fail, Renew, Release, Deploy, Stage, Cleaning
<1>5. CASE Await \/ Retry
  <2>1. work' = Idle \/ work'.at \in Attempting
    BY <1>5, WorkAt DEF Await, Retry, Typed, Stages, Attempting
  <2> QED BY <2>1 DEF Idle, Attempting
<1>6. CASE Clean
  <2>1. work'.at = "clean" BY <1>6, WorkAt DEF Clean, Typed, Cleanings
  <2> QED BY <2>1
<1>7. CASE FailWrite \/ RenewWrite \/ Place \/ Expose \/ RetryWrite \/ Cleaned
  <2>1. work' = Idle BY <1>7 DEF FailWrite, RenewWrite, Place, Expose, RetryWrite, Cleaned
  <2> QED BY <2>1 DEF Idle
<1> QED BY <1>1, <1>2, <1>3, <1>4, <1>5, <1>6, <1>7, WorkWriters DEF WorkWrites, Work

LEMMA ApartStep == ASSUME Typed, HeldInv, ApartInv, [Next]_vars PROVE Apart'
<1> SUFFICES ASSUME NEW s \in Slots, NEW p \in Previews, NEW q \in Previews, p # q, Counts(s, p)'
             PROVE  preview'[q].slot # s /\ ~Counts(s, q)'
  BY DEF Apart
<1> Apart BY DEF ApartInv
<1>1. CASE Deploy(p) /\ s = preview[p].slot
  <2>1. UNCHANGED preview BY <1>1, NoDeploy
  <2>2. preview[q].slot # s BY <1>1, SlotNumber DEF HeldInv, HoldersDistinct
  <2>3. ~Counts(s, q) BY <1>1 DEF Apart
  <2>4. ~Counts(s, q)' BY <2>2, <2>3, CountsGrow
  <2> QED BY <2>1, <2>2, <2>4
<1>2. CASE ~(Deploy(p) /\ s = preview[p].slot)
  <2>1. Counts(s, p) BY <1>2, CountsGrow
  <2>2. preview[q].slot # s /\ ~Counts(s, q) BY <2>1 DEF Apart
  <2>3. ~Counts(s, q)' BY <2>2, CountsGrow
  <2>4. preview'[q].slot # s
    <3>1. preview'[q].slot \in {0, preview[q].slot} \/ Places(q, preview[q], preview'[q])
      BY SlotSteps DEF Stays, Empties, Releases
    <3>2. CASE Places(q, preview[q], preview'[q])
      <4>1. preview'[q].slot \in work.free /\ preview'[q].slot < work.slot
        BY <3>2, SlotNumber, WorkAt DEF Places, Typed, Choosings
      <4>2. ~Counts(preview'[q].slot, p) BY <3>2, <4>1 DEF Places, ApartInv, LookSeen
      <4> QED BY <2>1, <4>2
    <3> QED BY <2>2, <3>1, <3>2, SlotNumber
  <2> QED BY <2>3, <2>4
<1> QED BY <1>1, <1>2

LEMMA ApartInit == Init => ApartInv
<1> SUFFICES ASSUME Init PROVE ApartInv OBVIOUS
<1>1. LookSeen BY DEF Init, Idle, LookSeen
<1>2. Apart BY DEF Init, None, Counts, Made, Apart
<1> QED BY <1>1, <1>2 DEF ApartInv

LEMMA ApartInvStep == ASSUME Typed, HeldInv, ApartInv, [Next]_vars PROVE ApartInv'
BY LookSeenStep, ApartStep DEF ApartInv

THEOREM ApartInvariant == Spec => []ApartInv
<1>1. (Typed /\ HeldInv) /\ ApartInv /\ [Next]_vars => ApartInv' BY ApartInvStep
<1> QED BY <1>1, ApartInit, HeldInvariant, PTL DEF Spec

\* No two Previews ever have a Deployment or a Pod in one slot, one let go too early
\* included; but for the Pod, made between the two lists of a look, of a Preview
\* removed by hand (chooseSlot).
THEOREM SlotExclusiveHolds == Spec => []SlotExclusive
<1>1. ApartInv => SlotExclusive
  <2> DEFINE At(s, p) == dep[s][p] # 0 \/ (pods[s][p] # {} /\ (<<s, p>> \in slipped => preview[p].at # "stripped"))
  <2> SUFFICES ASSUME ApartInv, NEW s \in Slots PROVE Cardinality({p \in Previews : At(s, p)}) <= 1
    BY DEF SlotExclusive
  <2> DEFINE Here == {p \in Previews : At(s, p)}
  <2>1. \A p, q \in Here : p = q BY DEF ApartInv, Apart, Counts, Made
  <2>2. CASE Here = {}
    <3>1. Cardinality(Here) = 0
      <4> HIDE DEF Here
      <4> QED BY <2>2, FS_EmptySet
    <3> QED BY <3>1
  <2>3. CASE Here # {}
    <3>1. PICK p \in Here : Here = {p} BY <2>1, <2>3
    <3>2. Cardinality({p}) = 1 BY FS_Singleton
    <3>3. Cardinality(Here) = 1
      <4> HIDE DEF Here
      <4> QED BY <3>1, <3>2
    <3> QED BY <3>3
  <2> QED BY <2>2, <2>3
<1> QED BY <1>1, ApartInvariant, PTL
-----------------------------------------------------------------------------
(* What a stage acts on, and what an exposed Deployment runs                 *)

\* A stage's Preview holds what it held and has seen what it had seen, unless its
\* finalizer was taken off: only the spec, the Intent's, may have moved on.  A stage
\* that withdrew the host has it withdrawn everywhere, and an attempt is at the
\* revision it deployed, or at nothing.
StageKeeps ==
    work \in Stages /\ preview[work.p].at # "stripped" =>
       /\ preview[work.p].finalizer /\ preview[work.p].at \in {"live", "deleting"}
       /\ preview[work.p].slot = work.read.slot /\ preview[work.p].seen = work.read.seen
       /\ work.at \in {"renew", "fail"} => \A s \in Slots : ~ing[s][work.p]
       /\ work.at \in Attempting =>
             /\ work.read.slot \in Slots /\ work.read.spec = work.read.seen
             /\ dep[work.read.slot][work.p] \in {0, work.read.spec}
\* What runs behind an exposed host is the revision its Preview was renewed to.
RunsSeen ==
    \A s \in Slots, p \in Previews :
       preview[p].at # "stripped" /\ ing[s][p] /\ dep[s][p] # 0 => dep[s][p] = preview[p].seen

\* A stage begins with what its Preview holds, its host withdrawn or its revision deployed.
LEMMA StageBegins ==
    ASSUME Typed, HeldInv, NEW p \in Previews, NEW at \in {"renew", "fail", "await"},
           work' = Stage(at, p), UNCHANGED preview,
           \/ at # "await" /\ (Renew(p) \/ Fail(p))
           \/ at = "await" /\ Deploy(p)
    PROVE  StageKeeps'
<1>1. work'.p = p /\ work'.read = preview[p] /\ work'.at = at BY DEF Stage
<1>2. preview[p].finalizer /\ preview[p].at = "live"
  BY DEF Renew, Fail, Deploy, Current, Active, Present, Live
<1>3. CASE at # "await"
  <2>1. Withdraw(p) BY <1>3 DEF Renew, Fail
  <2>2. \A s \in Slots : ing[s][p] => preview[p].slot = s BY <1>2 DEF HeldInv, MadeHeld, Made
  <2>3. \A s \in Slots : ~ing'[s][p] BY <2>1, <2>2 DEF Withdraw, Typed, ObjectsTyped
  <2>4. at \notin Attempting BY <1>3 DEF Attempting
  <2> QED BY <1>1, <1>2, <2>3, <2>4 DEF StageKeeps
<1>4. CASE at = "await"
  <2>1. preview[p].slot \in Slots BY <1>4, SlotNumber DEF Deploy
  <2>2. preview[p].spec = preview[p].seen BY <1>4 DEF Deploy, Current
  <2>3. dep'[preview[p].slot][p] = preview[p].spec
    <3>1. dep' = [dep EXCEPT ![preview[p].slot][p] = preview[p].spec] BY <1>4 DEF Deploy
    <3> QED BY <2>1, <3>1 DEF Typed, ObjectsTyped
  <2> QED BY <1>1, <1>2, <1>4, <2>1, <2>2, <2>3 DEF StageKeeps
<1> QED BY <1>3, <1>4

LEMMA StageKeepsStep == ASSUME Typed, HeldInv, StageKeeps, [Next]_vars PROVE StageKeeps'
<1> SUFFICES ASSUME work' \in Stages, preview'[work'.p].at # "stripped" PROVE StageKeeps'
  BY DEF StageKeeps
<1>0. work'.at \in {"renew", "fail"} \cup Attempting BY DEF Stages
<1>1. CASE UNCHANGED work
  <2> PICK p \in Previews : p = work.p BY <1>1 DEF Stages
  <2>1. work \in Stages /\ work.at # "idle" /\ work' # Idle BY <1>1, <1>0 DEF Idle, Attempting
  <2>2. preview[p].at # "stripped" BY <1>1, StrippedStays
  <2>3. /\ preview[p].finalizer /\ preview[p].at \in {"live", "deleting"}
        /\ preview[p].slot = work.read.slot /\ preview[p].seen = work.read.seen
        /\ work.at \in {"renew", "fail"} => \A s \in Slots : ~ing[s][p]
        /\ work.at \in Attempting =>
             /\ work.read.slot \in Slots /\ work.read.spec = work.read.seen
             /\ dep[work.read.slot][p] \in {0, work.read.spec}
    BY <2>1, <2>2 DEF StageKeeps
  <2>4. Stays(p, preview[p], preview'[p])
    BY <1>1, <2>1, <2>3, SlotSteps DEF Empties, Places, Releases
  <2>5. /\ preview'[p].finalizer /\ preview'[p].at \in {"live", "deleting"}
        /\ preview'[p].slot = work.read.slot /\ preview'[p].seen = work.read.seen
    BY <2>1, <2>3, <2>4 DEF Stays
  <2>6. \A s \in Slots : Moves(s, p) /\ ~Deploy(p) BY <2>1, ObjectSteps, NoDeploy
  <2>7. work.at \in {"renew", "fail"} => \A s \in Slots : ~ing'[s][p]
    BY <2>3, <2>6 DEF Moves, Exposes
  <2>8. work.at \in Attempting => dep'[work.read.slot][p] \in {0, work.read.spec}
    BY <2>3, <2>6 DEF Moves
  <2> QED BY <1>1, <2>3, <2>5, <2>7, <2>8 DEF StageKeeps
<1>2. ASSUME NEW p \in Previews, Fail(p) \/ Renew(p) \/ Deploy(p) PROVE StageKeeps'
  <2>1. CASE Renew(p)
    <3>1. work' = Stage("renew", p) /\ UNCHANGED preview BY <2>1 DEF Renew
    <3> QED BY <2>1, <3>1, StageBegins
  <2>2. CASE Deploy(p)
    <3>1. work' = Stage("await", p) /\ UNCHANGED preview BY <2>2 DEF Deploy
    <3> QED BY <2>2, <3>1, StageBegins
  <2>3. CASE Fail(p)
    <3>1. UNCHANGED preview /\ (work' = Stage("fail", p) \/ work' = Cleaning(p, preview[p])) BY <2>3 DEF Fail
    <3>2. work' # Cleaning(p, preview[p]) BY <1>0 DEF Cleaning, Attempting
    <3> QED BY <2>3, <3>1, <3>2, StageBegins
  <2> QED BY <1>2, <2>1, <2>2, <2>3
<1>3. CASE Await \/ Retry
  <2> PICK p \in Previews : p = work.p BY <1>3, WorkAt DEF Await, Retry, Typed
  <2> PICK s : s = work.read.slot OBVIOUS
  <2>1. work \in Stages /\ work.at \in Attempting /\ UNCHANGED preview
    BY <1>3, WorkAt DEF Await, Retry, Typed, Attempting
  <2>2. work'.p = p /\ work'.read = work.read /\ work'.at \in {"expose", "retry", "retried"}
    BY <1>0, <1>3, <2>1 DEF Await, Retry, Stages, Idle, Attempting
  <2>3. /\ preview[p].finalizer /\ preview[p].at \in {"live", "deleting"}
        /\ preview[p].slot = s /\ preview[p].seen = work.read.seen
        /\ s \in Slots /\ work.read.spec = work.read.seen
        /\ dep[s][p] \in {0, work.read.spec}
    BY <2>1, <2>2 DEF StageKeeps
  <2>4. dep'[s][p] \in {0, dep[s][p]}
    <3>1. ~Deploy(p) BY <1>3, NoDeploy DEF Await, Retry
    <3> QED BY <2>3, <3>1, ObjectSteps DEF Moves
  <2> QED BY <2>1, <2>2, <2>3, <2>4 DEF StageKeeps
<1>4. ASSUME NEW p \in Previews, Finalize(p) \/ Release(p) \/ Choose(p) PROVE FALSE
  BY <1>0, <1>4 DEF Finalize, Release, Choose, Cleaning, Attempting
<1>5. CASE Look
  <2>1. work'.at = "choose" BY <1>5, WorkAt DEF Look, Typed, Choosings
  <2> QED BY <1>0, <2>1 DEF Attempting
<1>6. CASE Clean
  <2>1. work'.at = "clean" BY <1>6, WorkAt DEF Clean, Typed, Cleanings
  <2> QED BY <1>0, <2>1 DEF Attempting
<1>7. CASE FailWrite \/ RenewWrite \/ Place \/ Expose \/ RetryWrite \/ Cleaned
  <2>1. work' = Idle BY <1>7 DEF FailWrite, RenewWrite, Place, Expose, RetryWrite, Cleaned
  <2> QED BY <1>0, <2>1 DEF Idle, Attempting
<1> QED BY <1>1, <1>2, <1>3, <1>4, <1>5, <1>6, <1>7, WorkWriters DEF WorkWrites, Work

LEMMA RunsSeenStep ==
    ASSUME Typed, HeldInv, HeldInv', StageKeeps, RunsSeen, [Next]_vars PROVE RunsSeen'
<1> SUFFICES ASSUME NEW s \in Slots, NEW p \in Previews,
                    preview'[p].at # "stripped", ing'[s][p], dep'[s][p] # 0
             PROVE  dep'[s][p] = preview'[p].seen
  BY DEF RunsSeen
<1>1. preview[p].at # "stripped" BY StrippedStays
<1>2. Moves(s, p) BY ObjectSteps
<1>3. CASE Deploy(p) /\ s = preview[p].slot
  <2>1. preview[p].spec = preview[p].seen /\ UNCHANGED preview BY <1>3 DEF Deploy, Current
  <2>2. dep' = [dep EXCEPT ![s][p] = preview[p].spec] BY <1>3 DEF Deploy
  <2>3. dep'[s][p] = preview[p].spec BY <2>2 DEF Typed, ObjectsTyped
  <2> QED BY <2>1, <2>3
<1>4. CASE ~(Deploy(p) /\ s = preview[p].slot)
  <2>1. dep'[s][p] = dep[s][p] BY <1>2, <1>4 DEF Moves
  <2>2. ing[s][p] \/ Exposes(s, p) BY <1>2 DEF Moves
  <2>3. dep[s][p] = preview[p].seen
    <3>1. CASE Exposes(s, p)
      <4>1. work \in Stages /\ work.at = "await" /\ p = work.p /\ s = work.read.slot
        BY <3>1, WorkAt DEF Exposes, Typed, Attempting
      <4> QED BY <1>1, <2>1, <4>1 DEF StageKeeps, Attempting
    <3> QED BY <1>1, <2>1, <2>2, <3>1 DEF RunsSeen
  <2>4. preview'[p].slot = s /\ s # 0 BY SlotNumber DEF HeldInv, MadeHeld, Made
  <2>5. CASE Stays(p, preview[p], preview'[p])
    <3>1. ASSUME work.at = "renew", p = work.p PROVE FALSE
      <4>1. work \in Stages BY <3>1, WorkAt DEF Typed
      <4> QED BY <1>1, <2>2, <3>1, <4>1 DEF StageKeeps, Exposes
    <3> QED BY <2>1, <2>3, <2>5, <3>1 DEF Stays
  <2>6. CASE Places(p, preview[p], preview'[p]) BY <2>1, <2>3, <2>6 DEF Places
  <2> QED BY <2>4, <2>5, <2>6, SlotSteps DEF Empties, Releases
<1> QED BY <1>3, <1>4

\* What is exposed and what the stages act on, with the rest it stands on.
THEOREM ExposedInvariant == Spec => [](Typed /\ HeldInv /\ StageKeeps /\ RunsSeen)
<1>1. Init => StageKeeps /\ RunsSeen
  <2> SUFFICES ASSUME Init PROVE StageKeeps /\ RunsSeen OBVIOUS
  <2>1. work \notin Stages BY DEF Init, Idle, Stages, Attempting
  <2>2. \A s \in Slots, p \in Previews : ~ing[s][p] BY DEF Init, None
  <2> QED BY <2>1, <2>2 DEF StageKeeps, RunsSeen
<1>2. (Typed /\ HeldInv) /\ (Typed /\ HeldInv)' /\ StageKeeps /\ RunsSeen /\ [Next]_vars
        => (StageKeeps /\ RunsSeen)'
  BY StageKeepsStep, RunsSeenStep
<1> QED BY <1>1, <1>2, HeldInvariant, PTL DEF Spec

\* The code behind an exposed host is never rolled to another revision, whatever
\* the Intent does meanwhile, however often the attempt is retried, and wherever
\* the sweep is: the host is withdrawn first (reconcileActive, deploy).
THEOREM NeverRolledExposedHolds == Spec => NeverRolledExposed
<1>1. Typed /\ HeldInv /\ StageKeeps /\ RunsSeen /\ [Next]_vars => [RollsUnexposed]_vars
  <2> SUFFICES ASSUME Typed, RunsSeen, [Next]_vars, NEW s \in Slots, NEW p \in Previews,
                      ing[s][p], dep[s][p] # 0, dep'[s][p] # 0
               PROVE  dep'[s][p] = dep[s][p]
    BY DEF RollsUnexposed
  <2>1. CASE Deploy(p) /\ s = preview[p].slot /\ dep'[s][p] = preview[p].spec
    <3>1. preview[p].spec = preview[p].seen /\ preview[p].at = "live"
      BY <2>1 DEF Deploy, Current, Active, Present, Live
    <3>2. dep[s][p] = preview[p].seen BY <3>1 DEF RunsSeen
    <3> QED BY <2>1, <3>1, <3>2
  <2> QED BY <2>1, ObjectSteps DEF Moves
<1> QED BY <1>1, ExposedInvariant, PTL DEF NeverRolledExposed, Spec
-----------------------------------------------------------------------------
(* The queue                                                                 *)

\* Previews are created in their order.
Born == \A p, q \in Previews : q < p /\ preview[p].at # "absent" => preview[q].at # "absent"
\* Nobody joins the queue ahead of a Preview that chooses.
TurnKept ==
    work.at = "choose" => Cardinality(Ahead(work.p)) <= work.turn /\ preview[work.p].at # "absent"

LEMMA BornStep == ASSUME Typed, HeldInv, Born, [Next]_vars PROVE Born'
<1>1. \A p \in Previews : preview[p].at # "absent" => preview'[p].at # "absent"
  BY SlotSteps DEF Stays, Empties, Places, Releases
<1>2. ASSUME NEW p \in Previews, preview[p].at = "absent", preview'[p].at # "absent"
      PROVE  \A q \in Previews : q < p => preview[q].at # "absent"
  <2>1. CASE Places(p, preview[p], preview'[p]) BY <1>2, <2>1 DEF Places
  <2>2. CASE Releases(p, preview[p], preview'[p]) BY <1>2, <2>2 DEF Releases
  <2>3. CASE Empties(p, preview[p], preview'[p]) BY <1>2, <2>3 DEF Empties
  <2>4. CASE Stays(p, preview[p], preview'[p]) BY <1>2, <2>4 DEF Stays
  <2> QED BY <2>1, <2>2, <2>3, <2>4, SlotSteps
<1> QED BY <1>1, <1>2 DEF Born

LEMMA AheadFinite == ASSUME NEW p \in Previews PROVE IsFiniteSet(Ahead(p)) /\ Cardinality(Ahead(p)) \in Nat
<1>1. IsFiniteSet(Ahead(p)) BY PreviewAssumption, FS_Subset DEF Ahead
<1> QED BY <1>1, FS_CardinalityType

\* While a choice is under way, a Preview that waits was there already, and waited.
LEMMA WaitsAlready ==
    ASSUME Typed, [Next]_vars, work.at = "choose", work' # Idle, NEW q \in Previews,
           preview[q].at # "absent", preview'[q].at = "live"
    PROVE  preview[q].at = "live" /\ preview'[q].slot = preview[q].slot /\ preview'[q].phase = preview[q].phase
<1>1. preview[q] \in PreviewObject BY DEF Typed, PreviewTyped
<1>2. work # Idle BY DEF Idle
<1>3. preview[q].at = "live" /\ (preview'[q] = preview[q] \/ preview'[q] = [preview[q] EXCEPT !.spec = intent[q]])
  BY <1>2, LiveSteps, Zenon
<1> QED BY <1>1, <1>3 DEF PreviewObject

LEMMA TurnKeptStep == ASSUME Typed, HeldInv, Born, TurnKept, [Next]_vars PROVE TurnKept'
<1> SUFFICES ASSUME work'.at = "choose" PROVE TurnKept' BY DEF TurnKept
<1>0. work' # Idle BY DEF Idle
<1>1. ASSUME NEW p \in Previews, Choose(p) PROVE TurnKept'
  <2>1. work'.p = p /\ work'.turn = Cardinality(Ahead(p)) /\ UNCHANGED preview BY <1>1 DEF Choose
  <2>2. Ahead(p)' = Ahead(p) BY <2>1 DEF Ahead, Live, Over
  <2>3. preview[p].at # "absent" BY <1>1 DEF Choose, Current, Active, Present, Live
  <2> QED BY <2>1, <2>2, <2>3, AheadFinite DEF TurnKept
<1>2. CASE work.at = "choose" /\ work'.p = work.p /\ work'.turn = work.turn
  <2>1. work \in Choosings BY <1>2, WorkAt DEF Typed
  <2> PICK p \in Previews : p = work.p BY <2>1 DEF Choosings
  <2>2. Cardinality(Ahead(p)) <= work.turn /\ preview[p].at # "absent" BY <1>2 DEF TurnKept
  <2>3. Ahead(p)' \subseteq Ahead(p)
    <3> SUFFICES ASSUME NEW q \in Previews, q < p, preview'[q].at = "live", preview'[q].slot = 0,
                        preview'[q].phase \notin {"Failed", "Expired"}
                 PROVE  q \in Ahead(p)
      BY DEF Ahead, Live, Over
    <3>1. preview[q].at # "absent" BY <2>2 DEF Born
    <3>2. preview[q].at = "live" /\ preview'[q].slot = preview[q].slot /\ preview'[q].phase = preview[q].phase
      BY <1>0, <1>2, <3>1, WaitsAlready
    <3> QED BY <3>2 DEF Ahead, Live, Over
  <2>4. Cardinality(Ahead(p)') <= Cardinality(Ahead(p)) /\ Cardinality(Ahead(p)') \in Nat
    <3>1. IsFiniteSet(Ahead(p)') BY <2>3, AheadFinite, FS_Subset
    <3> QED BY <2>3, <3>1, AheadFinite, FS_Subset, FS_CardinalityType
  <2>5. Cardinality(Ahead(p)') <= work.turn
    <3>1. work.turn \in Nat BY <2>1 DEF Choosings
    <3> QED BY <2>2, <2>4, <3>1, AheadFinite
  <2>6. preview'[p].at # "absent" BY <2>2, SlotSteps DEF Stays, Empties, Places, Releases
  <2> QED BY <1>2, <2>5, <2>6 DEF TurnKept
<1>3. CASE Look
  <2>1. work \in Choosings /\ work.at = "choose" BY <1>3, WorkAt DEF Look, Typed
  <2>2. work'.p = work.p /\ work'.turn = work.turn BY <1>3, <2>1 DEF Look, Choosings
  <2> QED BY <1>2, <2>1, <2>2
<1>4. CASE UNCHANGED work BY <1>2, <1>4
<1>5. ASSUME NEW p \in Previews, Finalize(p) \/ Fail(p) \/ Renew(p) \/ Release(p) \/ Deploy(p) PROVE FALSE
  BY <1>5 DEF Finalize, Fail, Renew, Release, Deploy, Stage, Cleaning
<1>6. CASE Await \/ Retry
  <2>1. work' = Idle \/ work'.at \in Attempting
    BY <1>6, WorkAt DEF Await, Retry, Typed, Stages, Attempting
  <2> QED BY <1>0, <2>1 DEF Attempting
<1>7. CASE Clean
  <2>1. work'.at = "clean" BY <1>7, WorkAt DEF Clean, Typed, Cleanings
  <2> QED BY <2>1
<1>8. CASE FailWrite \/ RenewWrite \/ Place \/ Expose \/ RetryWrite \/ Cleaned
  BY <1>0, <1>8 DEF FailWrite, RenewWrite, Place, Expose, RetryWrite, Cleaned
<1> QED BY <1>1, <1>3, <1>4, <1>5, <1>6, <1>7, <1>8, WorkWriters DEF WorkWrites, Work

\* A slot with so many free ones below it is one of more.
LEMMA FreeBelow ==
    ASSUME NEW free, free \subseteq Slots, NEW s \in free
    PROVE  /\ IsFiniteSet(free) /\ Cardinality(free) \in Nat
           /\ Cardinality({x \in free : x < s}) \in Nat
           /\ Cardinality({x \in free : x < s}) < Cardinality(free)
<1> DEFINE Below == {x \in free : x < s}
<1>1. IsFiniteSet(Slots)
  <2>1. SlotCount \in Int /\ 1 \in Int BY PreviewAssumption
  <2> QED BY <2>1, FS_Interval DEF Slots
<1>2. IsFiniteSet(free) BY <1>1, FS_Subset
<1>3. Below \subseteq free BY Zenon
<1>4. Below # free
  <2>1. s \in Int BY PreviewAssumption DEF Slots
  <2>2. ~(s < s) BY <2>1
  <2> QED BY <2>2
<1>5. IsFiniteSet(Below) /\ Cardinality(Below) <= Cardinality(free) BY <1>2, <1>3, FS_Subset
<1>6. Cardinality(Below) # Cardinality(free)
  <2> HIDE DEF Below
  <2> QED BY <1>2, <1>3, <1>4, FS_Subset
<1>7. Cardinality(Below) \in Nat /\ Cardinality(free) \in Nat BY <1>2, <1>5, FS_CardinalityType
<1>8. Cardinality(Below) < Cardinality(free)
  <2> HIDE DEF Below
  <2> QED BY <1>5, <1>6, <1>7
<1> QED BY <1>2, <1>7, <1>8

\* Who waits, with the rest it stands on.
THEOREM QueueInvariant == Spec => [](Typed /\ HeldInv /\ Born /\ TurnKept)
<1>1. Init => Born /\ TurnKept
  <2> SUFFICES ASSUME Init PROVE Born /\ TurnKept OBVIOUS
  <2>1. work.at = "idle" BY DEF Init, Idle
  <2>2. \A p \in Previews : preview[p].at = "absent" BY DEF Init, Fresh
  <2> QED BY <2>1, <2>2 DEF Born, TurnKept
<1>2. (Typed /\ HeldInv) /\ Born /\ TurnKept /\ [Next]_vars => (Born /\ TurnKept)'
  BY BornStep, TurnKeptStep
<1> QED BY <1>1, <1>2, HeldInvariant, PTL DEF Spec

\* The queue is first come, first served: a slot goes to a Preview only while one is
\* left for every older one that waits, whatever became of them, and of the slots,
\* since it counted them (chooseSlot).
THEOREM QueueKeptHolds == Spec => QueueKept
<1>1. Typed /\ HeldInv /\ Born /\ TurnKept /\ [Next]_vars => [KeepsQueue]_vars
  <2> SUFFICES ASSUME Typed, HeldInv, TurnKept, [Next]_vars, NEW p \in Previews,
                      preview[p].slot = 0, preview'[p].slot # 0
               PROVE  Cardinality({q \in Previews : q < p /\ Waiting(q)}) < Cardinality(Slots \ Taken)
    BY DEF KeepsQueue
  <2>1. Places(p, preview[p], preview'[p]) BY SlotSteps DEF Stays, Empties, Releases
  <2> PICK s : s = preview'[p].slot OBVIOUS
  <2>2. /\ work.at = "choose" /\ p = work.p /\ s \in work.free
        /\ Cardinality({x \in work.free : x < s}) = work.turn
    BY <2>1 DEF Places
  <2>3. work.free \subseteq Slots BY <2>2, SlotNumber
  <2>4. work.free \subseteq Slots \ Taken BY <2>2, <2>3 DEF HeldInv, ChooseFree, Taken
  <2>5. {q \in Previews : q < p /\ Waiting(q)} = Ahead(p) BY DEF Ahead, Waiting
  <2>6. Cardinality(Ahead(p)) <= work.turn BY <2>2 DEF TurnKept
  <2>7. work.turn < Cardinality(work.free) /\ work.turn \in Nat /\ Cardinality(work.free) \in Nat
    BY <2>2, <2>3, FreeBelow
  <2>8. Cardinality(work.free) <= Cardinality(Slots \ Taken) /\ Cardinality(Slots \ Taken) \in Nat
    <3>1. IsFiniteSet(Slots \ Taken) /\ Cardinality(Slots \ Taken) \in Nat
      <4>1. Slots \ Taken \subseteq Slots OBVIOUS
      <4>2. s \in Slots \ Taken BY <2>2, <2>4
      <4> QED BY <4>1, <4>2, FreeBelow
    <3> QED BY <2>4, <3>1, FS_Subset
  <2>9. Cardinality(Ahead(p)) < Cardinality(Slots \ Taken) BY <2>6, <2>7, <2>8, AheadFinite
  <2> QED BY <2>5, <2>9
<1> QED BY <1>1, QueueInvariant, PTL DEF QueueKept, Spec
-----------------------------------------------------------------------------
(* What a Ready Preview shows, while nothing is swept                        *)

NoSweep == Unswept => sweep = Resting
\* A Preview sees only specs it had, and has only those its Intent had: all grow.
Grown ==
    \A p \in Previews :
       /\ preview[p].seen <= preview[p].spec
       /\ intent[p] # 0 /\ preview[p].at # "absent" => preview[p].spec <= intent[p]
\* A stage whose Preview is not what it read has been overtaken by a newer spec.
Overtaken ==
    work \in Stages =>
       /\ work.read.at = "live"
       /\ preview[work.p].at = "live" /\ preview[work.p] # work.read
             => preview[work.p].seen < preview[work.p].spec
\* What is cleaned is over, or goes.
CleansOver ==
    work.at = "clean" => preview[work.p].at # "absent" /\ (preview[work.p].at = "live" => Over(work.p))
\* The stages that have withdrawn the host, and have yet to say so.
Undoing == {"renew", "fail", "retry", "retried"}
Shown(p) == ing[preview[p].slot][p] /\ dep[preview[p].slot][p] = preview[p].seen /\ dep[preview[p].slot][p] # 0
ReadyShown ==
    Unswept =>
       /\ \A p \in Previews :
             Live(p) /\ preview[p].phase = "Ready" /\ preview[p].seen = preview[p].spec
                => preview[p].slot \in Slots /\ (Shown(p) \/ (work.at \in Undoing /\ work.p = p))
       /\ work.at = "expose" /\ preview[work.p] = work.read => Shown(work.p)

LEMMA SweepsLeft ==
    ASSUME Typed, [Next]_vars
    PROVE  \/ budget'.sweeps = budget.sweeps /\ ~SweepLook
           \/ SweepLook /\ budget'.sweeps = budget.sweeps - 1
<1>1. budget.sweeps \in Nat BY PreviewAssumption DEF Typed, BudgetTyped
<1>2. CASE SweepLook
  <2>1. budget' = [budget EXCEPT !.sweeps = @ - 1] BY <1>2 DEF SweepLook
  <2> QED BY <1>2, <2>1 DEF Typed, BudgetTyped
<1>3. CASE ~SweepLook
  <2>0. ASSUME SweepSlot PROVE UNCHANGED budget BY <2>0 DEF SweepSlot
  <2>1. ASSUME NEW p \in Previews, IntentMoves(p) \/ Write(p) \/ TimePasses(p) PROVE UNCHANGED budget
    BY <2>1 DEF IntentMoves, Write, TimePasses
  <2>2. ASSUME NEW p \in Previews, Begin(p) PROVE UNCHANGED budget
    BY <2>2 DEF Begin, Finalize, AddFinalizer, Drop, Fail, Renew, Release, Expire, Choose, Deploy
  <2>3. ASSUME Work PROVE UNCHANGED budget
    BY <2>3 DEF Work, FailWrite, RenewWrite, Look, Place, Await, Expose, Retry, RetryWrite, Clean, Cleaned
  <2>4. ASSUME NEW s \in Slots, NEW p \in Previews, Cluster(s, p) PROVE UNCHANGED budget
    BY <2>4 DEF Cluster, Scale, StartPod, PodReady, RollOver, Collect
  <2>5. ASSUME \E f : budget' = [budget EXCEPT !.faults = f] PROVE budget'.sweeps = budget.sweeps
    BY <2>5 DEF Typed, BudgetTyped
  <2>6. ASSUME NEW s \in Slots, NEW p \in Previews, Evict(s, p) PROVE budget'.sweeps = budget.sweeps
    BY <2>5, <2>6 DEF Evict
  <2>7. ASSUME NEW p \in Previews, Strip(p) PROVE budget'.sweeps = budget.sweeps
    BY <2>5, <2>7 DEF Strip
  <2> QED BY <1>3, <2>0, <2>1, <2>2, <2>3, <2>4, <2>6, <2>7 DEF Next, vars
<1> QED BY <1>2, <1>3

\* A step that leaves the sweeps unspent found them so, and is none of a sweep.
LEMMA UnsweptStep ==
    ASSUME Typed, NoSweep, [Next]_vars, Unswept'
    PROVE  Unswept /\ sweep = Resting /\ ~SweepLook /\ ~SweepSlot
<1>1. budget.sweeps \in 0..MaxSweeps BY DEF Typed, BudgetTyped
<1>2. budget'.sweeps = MaxSweeps BY DEF Unswept
<1>3. budget'.sweeps = budget.sweeps /\ ~SweepLook
  <2>1. CASE SweepLook /\ budget'.sweeps = budget.sweeps - 1
    BY <1>1, <1>2, <2>1, PreviewAssumption
  <2> QED BY <2>1, SweepsLeft
<1>4. Unswept BY <1>2, <1>3 DEF Unswept
<1>5. sweep = Resting BY <1>4 DEF NoSweep
<1> QED BY <1>3, <1>4, <1>5 DEF SweepSlot, Resting

LEMMA NoSweepStep == ASSUME Typed, NoSweep, [Next]_vars PROVE NoSweep'
<1> SUFFICES ASSUME Unswept' PROVE sweep' = Resting BY DEF NoSweep, Resting
<1>1. sweep = Resting BY UnsweptStep
<1>2. ~SweepLook /\ ~SweepSlot BY UnsweptStep
<1>4. UNCHANGED sweep
  <2>1. ASSUME NEW p \in Previews, IntentMoves(p) \/ Write(p) \/ Strip(p) \/ TimePasses(p) PROVE UNCHANGED sweep
    BY <2>1 DEF IntentMoves, Write, Strip, TimePasses
  <2>2. ASSUME NEW p \in Previews, Begin(p) PROVE UNCHANGED sweep
    BY <2>2 DEF Begin, Finalize, AddFinalizer, Drop, Fail, Renew, Release, Expire, Choose, Deploy
  <2>3. CASE Work
    BY <2>3 DEF Work, FailWrite, RenewWrite, Look, Place, Await, Expose, Retry, RetryWrite, Clean, Cleaned
  <2>4. ASSUME NEW s \in Slots, NEW p \in Previews, Cluster(s, p) \/ Evict(s, p) PROVE UNCHANGED sweep
    BY <2>4 DEF Cluster, Scale, StartPod, PodReady, RollOver, Collect, Evict
  <2> QED BY <1>2, <2>1, <2>2, <2>3, <2>4 DEF Next, vars
<1> QED BY <1>1, <1>4

\* What a step does to what a live Preview wants and has seen.
Wants(p, v, w) ==
    \/ w.spec = v.spec /\ (w.seen = v.seen \/ w.seen = v.spec \/ w.seen = 0)
    \/ v.at = "live" /\ w.at = "live" /\ intent[p] \notin {0, v.spec} /\ w = [v EXCEPT !.spec = intent[p]]
    \/ v.at = "absent" /\ w.spec = intent[p] /\ w.seen = 0
LEMMA WantsSteps ==
    ASSUME Typed, [Next]_vars, NEW p \in Previews
    PROVE  Wants(p, preview[p], preview'[p])
<1> DEFINE v == preview[p]
           w == preview'[p]
<1>1. v \in PreviewObject /\ Becomes(p, v, w) BY PreviewSteps DEF Typed, PreviewTyped
<1>2. CASE \/ w = Failing(v) \/ w = Queueing(v) \/ w = Exposing(v) \/ w = Releasing(v)
           \/ \E s : w = Placing(v, s)
  BY <1>1, <1>2 DEF Failing, Queueing, Exposing, Releasing, Placing, PreviewObject, Wants
<1>3. CASE w = Renewing(v) BY <1>1, <1>3 DEF Renewing, PreviewObject, Wants
<1>4. CASE w = Retrying(v)
  <2>1. w.spec = v.spec /\ w.seen = v.seen BY <1>1, <1>4 DEF Retrying, PreviewObject
  <2> QED BY <2>1 DEF Wants
<1>5. CASE \E at : w = Fresh(at, v.spec) BY <1>5 DEF Fresh, Wants
<1>6. CASE v.at = "absent" /\ w = Fresh("live", intent[p]) BY <1>6 DEF Fresh, Wants
<1>7. CASE v.at = "live" /\ intent[p] \notin {0, v.spec} /\ w = [v EXCEPT !.spec = intent[p]]
  <2>1. w.at = "live" BY <1>1, <1>7 DEF PreviewObject
  <2> QED BY <1>7, <2>1 DEF Wants
<1>8. CASE \/ w = v \/ w = [v EXCEPT !.at = "deleting"] \/ w = [v EXCEPT !.finalizer = TRUE]
           \/ w = [v EXCEPT !.serving = 0]
           \/ w = [v EXCEPT !.phase = "Expired", !.url = FALSE, !.serving = 0]
  <2>1. w.spec = v.spec /\ w.seen = v.seen BY <1>1, <1>8 DEF PreviewObject
  <2> QED BY <2>1 DEF Wants
<1> HIDE DEF v, w
<1> QED BY <1>1, <1>2, <1>3, <1>4, <1>5, <1>6, <1>7, <1>8 DEF Becomes, WorkSaves, Deleted

LEMMA GrownStep == ASSUME Typed, HeldInv, Grown, [Next]_vars PROVE Grown'
<1> SUFFICES ASSUME NEW p \in Previews
             PROVE  /\ preview'[p].seen <= preview'[p].spec
                    /\ intent'[p] # 0 /\ preview'[p].at # "absent" => preview'[p].spec <= intent'[p]
  BY DEF Grown
<1>0. /\ intent[p] \in Nat /\ preview[p].spec \in Nat /\ preview[p].seen \in Nat
      /\ intent'[p] \in Nat /\ preview'[p].spec \in Nat /\ preview'[p].seen \in Nat
  <2>1. MaxRevision \in Nat BY PreviewAssumption
  <2>2. Typed' BY TypedStep
  <2> QED BY <2>1, <2>2 DEF Typed, IntentTyped, PreviewTyped, PreviewObject, SpecNumbers
<1>1. /\ preview[p].seen <= preview[p].spec
      /\ intent[p] # 0 /\ preview[p].at # "absent" => preview[p].spec <= intent[p]
  BY DEF Grown
<1>2. CASE \E q \in Previews : IntentMoves(q)
  <2>1. PICK q \in Previews : IntentMoves(q) BY <1>2
  <2>2. UNCHANGED preview BY <2>1 DEF IntentMoves
  <2>3. intent'[p] = intent[p] \/ intent'[p] = 0 \/ (intent[p] # 0 /\ intent'[p] = intent[p] + 1)
        \/ preview[p].at = "absent"
    <3>1. CASE intent[q] = 0 /\ preview[q].at = "absent" /\ intent' = [intent EXCEPT ![q] = 1]
      BY <3>1 DEF Typed, IntentTyped
    <3>2. CASE intent[q] # 0 /\ intent' = [intent EXCEPT ![q] = @ + 1] BY <3>2 DEF Typed, IntentTyped
    <3>3. CASE intent' = [intent EXCEPT ![q] = 0] BY <3>3 DEF Typed, IntentTyped
    <3> QED BY <2>1, <3>1, <3>2, <3>3, PreviewAssumption DEF IntentMoves
  <2> QED BY <1>0, <1>1, <2>2, <2>3
<1>3. CASE UNCHANGED intent
  <2>1. Wants(p, preview[p], preview'[p]) BY WantsSteps
  <2>2. preview[p].at = "absent" => preview'[p].at \in {"absent", "live"}
    BY SlotSteps DEF Stays, Empties, Places, Releases
  <2>3. CASE preview[p].at = "absent" /\ preview'[p].spec = intent[p] /\ preview'[p].seen = 0
    BY <1>0, <1>3, <2>3
  <2>4. CASE /\ preview'[p].spec = preview[p].spec
             /\ \/ preview'[p].seen = preview[p].seen \/ preview'[p].seen = preview[p].spec
                \/ preview'[p].seen = 0
    <3>1. preview'[p].seen <= preview'[p].spec BY <1>0, <1>1, <2>4
    <3>2. ASSUME intent[p] # 0, preview'[p].at # "absent", preview[p].at = "absent"
          PROVE  preview'[p].spec = intent[p]
      <4>1. Becomes(p, preview[p], preview'[p]) BY PreviewSteps
      <4>2. CASE preview'[p] = Fresh("live", intent[p]) BY <4>2 DEF Fresh
      <4>3. CASE preview[p] = work.read /\ WorkSaves(preview[p], preview'[p])
        <5>1. preview[p] \in PreviewObject BY DEF Typed, PreviewTyped
        <5>2. preview'[p].at = preview[p].at
          <6>1. CASE \E s : preview'[p] = Placing(preview[p], s) BY <5>1, <6>1 DEF Placing, PreviewObject
          <6>2. CASE preview'[p] = Failing(preview[p]) \/ preview'[p] = Renewing(preview[p])
            BY <5>1, <6>2 DEF Failing, Renewing, PreviewObject
          <6>3. CASE preview'[p] = Queueing(preview[p]) \/ preview'[p] = Exposing(preview[p])
            BY <5>1, <6>3 DEF Queueing, Exposing, PreviewObject
          <6>4. CASE preview'[p] = Retrying(preview[p]) BY <5>1, <6>4 DEF Retrying, PreviewObject
          <6>5. CASE preview'[p] = Releasing(preview[p]) BY <5>1, <6>5 DEF Releasing, PreviewObject
          <6> QED BY <3>2, <4>3, <6>1, <6>2, <6>3, <6>4, <6>5 DEF WorkSaves
        <5> QED BY <3>2, <5>2
      <4> QED BY <3>2, <4>1, <4>2, <4>3 DEF Becomes
    <3> QED BY <1>0, <1>1, <1>3, <2>4, <3>1, <3>2
  <2>5. CASE /\ preview[p].at = "live" /\ intent[p] \notin {0, preview[p].spec}
             /\ preview'[p] = [preview[p] EXCEPT !.spec = intent[p]]
    <3>1. preview'[p].spec = intent[p] /\ preview'[p].seen = preview[p].seen
      BY <2>5 DEF Typed, PreviewTyped, PreviewObject
    <3>2. preview[p].spec <= intent[p] BY <1>1, <2>5
    <3> QED BY <1>0, <1>1, <1>3, <3>1, <3>2
  <2> QED BY <2>1, <2>3, <2>4, <2>5 DEF Wants
<1>4. (\E q \in Previews : IntentMoves(q)) \/ UNCHANGED intent
  <2>1. ASSUME NEW q \in Previews, Write(q) \/ Strip(q) \/ TimePasses(q) PROVE UNCHANGED intent
    BY <2>1 DEF Write, Strip, TimePasses
  <2>2. ASSUME NEW q \in Previews, Begin(q) PROVE UNCHANGED intent
    BY <2>2 DEF Begin, Finalize, AddFinalizer, Drop, Fail, Renew, Release, Expire, Choose, Deploy
  <2>3. CASE Work \/ SweepLook \/ SweepSlot
    BY <2>3 DEF Work, FailWrite, RenewWrite, Look, Place, Await, Expose, Retry, RetryWrite, Clean, Cleaned,
                SweepLook, SweepSlot
  <2>4. ASSUME NEW s \in Slots, NEW q \in Previews, Cluster(s, q) \/ Evict(s, q) PROVE UNCHANGED intent
    BY <2>4 DEF Cluster, Scale, StartPod, PodReady, RollOver, Collect, Evict
  <2> QED BY <2>1, <2>2, <2>3, <2>4 DEF Next, vars
<1> QED BY <1>2, <1>3, <1>4

\* A live Preview whose spec moves on has not seen the new one.
LEMMA GrownOutgrown ==
    ASSUME Typed, Grown, NEW p \in Previews, preview[p].at # "absent", intent[p] \notin {0, preview[p].spec}
    PROVE  preview[p].seen < intent[p]
<1>1. intent[p] \in Nat /\ preview[p].spec \in Nat /\ preview[p].seen \in Nat
  BY PreviewAssumption DEF Typed, IntentTyped, PreviewTyped, PreviewObject, SpecNumbers
<1>2. preview[p].seen <= preview[p].spec /\ preview[p].spec <= intent[p] BY DEF Grown
<1> QED BY <1>1, <1>2

LEMMA OvertakenStep ==
    ASSUME Typed, HeldInv, StageKeeps, Grown, Overtaken, [Next]_vars PROVE Overtaken'
<1> SUFFICES ASSUME work' \in Stages PROVE Overtaken' BY DEF Overtaken
<1>0. work'.at \in {"renew", "fail"} \cup Attempting /\ work'.p \in Previews BY DEF Stages
<1>1. CASE UNCHANGED work
  <2> PICK p \in Previews : p = work.p BY <1>0, <1>1
  <2>1. work \in Stages /\ work # Idle /\ work' # Idle BY <1>0, <1>1 DEF Idle, Attempting
  <2>2. SUFFICES ASSUME preview'[p].at = "live", preview'[p] # work.read
                 PROVE  preview'[p].seen < preview'[p].spec
    BY <1>1, <2>1 DEF Overtaken
  <2>3. preview[p].at # "absent"
    <3>1. preview[p].at # "stripped" BY <2>2, StrippedStays
    <3> QED BY <2>1, <3>1 DEF StageKeeps
  <2>4. \/ preview'[p] = preview[p]
        \/ intent[p] \notin {0, preview[p].spec} /\ preview'[p] = [preview[p] EXCEPT !.spec = intent[p]]
    BY <2>1, <2>2, <2>3, LiveSteps, Zenon
  <2>5. CASE preview'[p] = preview[p] BY <2>1, <2>2, <2>5 DEF Overtaken
  <2>6. CASE intent[p] \notin {0, preview[p].spec} /\ preview'[p] = [preview[p] EXCEPT !.spec = intent[p]]
    <3>1. preview'[p].seen = preview[p].seen /\ preview'[p].spec = intent[p]
      BY <2>6 DEF Typed, PreviewTyped, PreviewObject
    <3> QED BY <2>3, <2>6, <3>1, GrownOutgrown
  <2> QED BY <2>4, <2>5, <2>6
<1>2. ASSUME NEW p \in Previews, Fail(p) \/ Renew(p) \/ Deploy(p) PROVE Overtaken'
  <2>1. UNCHANGED preview /\ preview[p].at = "live"
    BY <1>2 DEF Fail, Renew, Deploy, Current, Active, Present, Live
  <2>2. work'.p = p /\ work'.read = preview[p] BY <1>2 DEF Fail, Renew, Deploy, Stage, Cleaning
  <2> QED BY <2>1, <2>2 DEF Overtaken
<1>3. CASE Await \/ Retry
  <2>1. work \in Stages /\ UNCHANGED preview BY <1>3, WorkAt DEF Await, Retry, Typed, Attempting
  <2>2. work'.p = work.p /\ work'.read = work.read
    BY <1>0, <1>3, <2>1 DEF Await, Retry, Stages, Idle, Attempting
  <2> QED BY <2>1, <2>2 DEF Overtaken
<1>4. ASSUME NEW p \in Previews, Finalize(p) \/ Release(p) \/ Choose(p) PROVE FALSE
  BY <1>0, <1>4 DEF Finalize, Release, Choose, Cleaning, Attempting
<1>5. CASE Look
  <2>1. work'.at = "choose" BY <1>5, WorkAt DEF Look, Typed, Choosings
  <2> QED BY <1>0, <2>1 DEF Attempting
<1>6. CASE Clean
  <2>1. work'.at = "clean" BY <1>6, WorkAt DEF Clean, Typed, Cleanings
  <2> QED BY <1>0, <2>1 DEF Attempting
<1>7. CASE FailWrite \/ RenewWrite \/ Place \/ Expose \/ RetryWrite \/ Cleaned
  <2>1. work' = Idle BY <1>7 DEF FailWrite, RenewWrite, Place, Expose, RetryWrite, Cleaned
  <2> QED BY <1>0, <2>1 DEF Idle, Attempting
<1> QED BY <1>1, <1>2, <1>3, <1>4, <1>5, <1>6, <1>7, WorkWriters DEF WorkWrites, Work

LEMMA CleansOverStep == ASSUME Typed, HeldInv, CleansOver, [Next]_vars PROVE CleansOver'
<1> SUFFICES ASSUME work'.at = "clean" PROVE CleansOver' BY DEF CleansOver
<1>1. CASE UNCHANGED work
  <2> PICK p \in Previews : p = work.p BY <1>1, WorkAt DEF Typed
  <2>1. work.at = "clean" /\ work # Idle /\ work' # Idle BY <1>1 DEF Idle
  <2>2. preview[p].at # "absent" /\ (preview[p].at = "live" => Over(p)) BY <2>1 DEF CleansOver
  <2>3. preview'[p].at # "absent" BY <2>2, SlotSteps DEF Stays, Empties, Places, Releases
  <2>4. ASSUME preview'[p].at = "live" PROVE Over(p)'
    <3>1. /\ preview[p].at = "live"
          /\ preview'[p] = preview[p] \/ preview'[p] = [preview[p] EXCEPT !.spec = intent[p]]
      BY <2>1, <2>2, <2>4, LiveSteps, Zenon
    <3>2. preview'[p].phase = preview[p].phase BY <3>1 DEF Typed, PreviewTyped, PreviewObject
    <3> QED BY <2>2, <3>1, <3>2 DEF Over
  <2> QED BY <1>1, <2>3, <2>4 DEF CleansOver
<1>2. ASSUME NEW p \in Previews, Finalize(p) PROVE CleansOver'
  <2>1. preview'[p].at = "deleting" /\ work'.p = p
    BY <1>2 DEF Finalize, Cleaning, Typed, PreviewTyped, PreviewObject
  <2> QED BY <2>1 DEF CleansOver
<1>3. ASSUME NEW p \in Previews, Fail(p) PROVE CleansOver'
  <2>1. FailedAlready(preview[p]) /\ preview[p].at = "live" /\ UNCHANGED preview
    BY <1>3 DEF Fail, Stage, Present, Live
  <2>2. work'.p = p BY <1>3 DEF Fail, Stage, Cleaning
  <2> QED BY <2>1, <2>2 DEF CleansOver, FailedAlready, Over
<1>4. ASSUME NEW p \in Previews, Release(p) PROVE CleansOver'
  <2>1. Over(p) /\ preview[p].at = "live" /\ UNCHANGED preview /\ work'.p = p
    BY <1>4 DEF Release, Current, Active, Present, Live, Cleaning
  <2> QED BY <2>1 DEF CleansOver, Over
<1>5. CASE Clean
  <2>1. work.at = "clean" /\ UNCHANGED preview /\ work'.p = work.p
    BY <1>5, WorkAt DEF Clean, Typed, Cleanings
  <2> QED BY <2>1 DEF CleansOver, Over
<1>6. ASSUME NEW p \in Previews, Renew(p) \/ Deploy(p) \/ Choose(p) PROVE FALSE
  BY <1>6 DEF Renew, Deploy, Choose, Stage
<1>7. CASE Look
  <2>1. work'.at = "choose" BY <1>7, WorkAt DEF Look, Typed, Choosings
  <2> QED BY <2>1
<1>8. CASE Await \/ Retry
  <2>1. work' = Idle \/ work'.at \in Attempting
    BY <1>8, WorkAt DEF Await, Retry, Typed, Stages, Attempting
  <2> QED BY <2>1 DEF Idle, Attempting
<1>9. CASE FailWrite \/ RenewWrite \/ Place \/ Expose \/ RetryWrite \/ Cleaned
  <2>1. work' = Idle BY <1>9 DEF FailWrite, RenewWrite, Place, Expose, RetryWrite, Cleaned
  <2> QED BY <2>1 DEF Idle
<1> QED BY <1>1, <1>2, <1>3, <1>4, <1>5, <1>6, <1>7, <1>8, <1>9, WorkWriters DEF WorkWrites, Work

\* What may take an exposed host or its Deployment away: a stage of its own
\* Preview, or, for another revision, its deployment.
Undoes(p) == work'.at \in Undoing /\ work'.p = p
LEMMA Loses ==
    ASSUME Typed, sweep = Resting, [Next]_vars, NEW s \in Slots, NEW q \in Previews, ing[s][q], dep[s][q] # 0
    PROVE  \/ ing'[s][q] /\ dep'[s][q] = dep[s][q]
           \/ Fail(q) \/ Renew(q)
           \/ Deploy(q) /\ ing'[s][q] /\ (s = preview[q].slot => dep'[s][q] = preview[q].spec)
           \/ Undoes(q) \/ (work.at = "clean" /\ q = work.p)
<1> USE DEF Typed
<1>1. ASSUME NEW p \in Previews, Fail(p) \/ Renew(p), q # p PROVE ing'[s][q] /\ dep'[s][q] = dep[s][q]
  <2>1. Withdraw(p) /\ UNCHANGED dep BY <1>1 DEF Fail, Renew
  <2> QED BY <1>1, <2>1 DEF Withdraw, ObjectsTyped
<1>2. ASSUME NEW p \in Previews, Deploy(p)
      PROVE  /\ ing'[s][q]
             /\ q # p => dep'[s][q] = dep[s][q]
             /\ q = p /\ s = preview[q].slot => dep'[s][q] = preview[q].spec
  <2>1. UNCHANGED ing /\ dep' = [dep EXCEPT ![preview[p].slot][p] = preview[p].spec]
    BY <1>2 DEF Deploy
  <2> QED BY <2>1 DEF ObjectsTyped
<1>3. CASE Await
  <2>1. work \in Stages /\ UNCHANGED dep BY <1>3, WorkAt DEF Await, Attempting
  <2>2. \/ UNCHANGED ing \/ ing' = [ing EXCEPT ![work.read.slot][work.p] = TRUE]
        \/ ing' = [ing EXCEPT ![work.read.slot][work.p] = FALSE] /\ work' = [work EXCEPT !.at = "retry"]
    BY <1>3 DEF Await
  <2>3. work' = [work EXCEPT !.at = "retry"] /\ q = work.p => Undoes(q)
    BY <2>1 DEF Undoes, Stages, Undoing
  <2>4. ing'[s][q] \/ (q = work.p /\ work' = [work EXCEPT !.at = "retry"]) BY <2>2 DEF ObjectsTyped
  <2> QED BY <2>1, <2>3, <2>4
<1>4. CASE Retry
  <2>1. work \in Stages /\ UNCHANGED ing BY <1>4, WorkAt DEF Retry, Attempting
  <2>2. DeleteDep({<<work.read.slot, work.p>>}) /\ work' = [work EXCEPT !.at = "retried"] BY <1>4 DEF Retry
  <2>3. dep'[s][q] = dep[s][q] \/ q = work.p
    <3>1. ASSUME NEW gone, DeleteDep(gone), <<s, q>> \notin gone PROVE dep'[s][q] = dep[s][q]
      BY <3>1, DeleteDepMoves
    <3>2. q # work.p => <<s, q>> \notin {<<work.read.slot, work.p>>} OBVIOUS
    <3> QED BY <2>2, <3>1, <3>2, Zenon
  <2>4. work'.at \in Undoing /\ work'.p = work.p BY <2>1, <2>2 DEF Stages, Undoing
  <2> QED BY <2>1, <2>3, <2>4 DEF Undoes
<1>5. CASE Clean
  <2>1. UNCHANGED objects \/ (DeleteDep(Mine(work.slot)) /\ DeleteIng(Mine(work.slot))) BY <1>5 DEF Clean
  <2>2. CASE q = work.p BY <1>5, <2>2 DEF Clean
  <2>3. CASE q # work.p
    <3>1. <<s, q>> \notin Mine(work.slot) BY <2>3 DEF Mine
    <3>2. ASSUME DeleteDep(Mine(work.slot)), DeleteIng(Mine(work.slot)) PROVE ing'[s][q] /\ dep'[s][q] = dep[s][q]
      <4>1. dep'[s][q] = dep[s][q] BY <3>1, <3>2, DeleteDepMoves
      <4>2. ing'[s][q] BY <3>1, <3>2 DEF DeleteIng
      <4> QED BY <4>1, <4>2
    <3> QED BY <2>1, <3>2 DEF objects
  <2> QED BY <2>2, <2>3
<1>6. ~SweepSlot BY DEF SweepSlot, Resting
<1>7. ASSUME NEW t \in Slots, NEW p \in Previews, Scale(t, p) \/ StartPod(t, p) \/ PodReady(t, p) \/ RollOver(t, p)
      PROVE  UNCHANGED <<dep, ing>>
  BY <1>7 DEF Scale, StartPod, PodReady, RollOver
<1>8. ASSUME NEW t \in Slots, NEW p \in Previews, Collect(t, p) \/ Evict(t, p) PROVE UNCHANGED <<dep, ing>>
  BY <1>8 DEF Collect, Evict
<1>9. UNCHANGED objects => ing'[s][q] /\ dep'[s][q] = dep[s][q] BY DEF objects
<1> QED
  BY <1>1, <1>2, <1>3, <1>4, <1>5, <1>6, <1>7, <1>8, <1>9, ObjectWriters DEF ObjectWrites, Cluster

\* A stage that withdrew the host goes on, or writes what it did; if the write is
\* refused its Preview has a newer spec.
LEMMA UndoneSteps ==
    ASSUME Typed, [Next]_vars, NEW p \in Previews, p = work.p, work.at \in Undoing
    PROVE  \/ Undoes(p)
           \/ work' = Idle /\ (preview[p] = work.read => preview'[p].phase # "Ready")
<1>0. work \in Stages /\ work.at # "idle" BY WorkAt DEF Typed, Undoing, Attempting
<1>1. ASSUME NEW w, Save(w), work' = Idle, w.phase # "Ready"
      PROVE  work' = Idle /\ (preview[p] = work.read => preview'[p].phase # "Ready")
  <2> SUFFICES ASSUME preview[p] = work.read PROVE preview'[p].phase # "Ready" BY <1>1
  <2>1. preview' = [preview EXCEPT ![p] = w] BY <1>1 DEF Save
  <2>2. preview'[p] = w BY <2>1 DEF Typed, PreviewTyped
  <2> QED BY <1>1, <2>2
<1>2. work.read \in PreviewObject BY <1>0 DEF Stages
<1>3. CASE FailWrite
  <2>1. Save(Failing(work.read)) /\ work' = Idle BY <1>3 DEF FailWrite, Failing
  <2>2. Failing(work.read).phase # "Ready" BY <1>2 DEF Failing, PreviewObject
  <2> QED BY <1>1, <2>1, <2>2
<1>4. CASE RenewWrite
  <2>1. Save(Renewing(work.read)) /\ work' = Idle BY <1>4 DEF RenewWrite, Renewing
  <2>2. Renewing(work.read).phase # "Ready" BY <1>2 DEF Renewing, PreviewObject
  <2> QED BY <1>1, <2>1, <2>2
<1>5. CASE RetryWrite
  <2>1. Save(Retrying(work.read)) /\ work' = Idle BY <1>5 DEF RetryWrite, Retrying, LastTry
  <2>2. Retrying(work.read).phase # "Ready" BY <1>2 DEF Retrying, PreviewObject
  <2> QED BY <1>1, <2>1, <2>2
<1>6. CASE Retry
  <2>1. work'.at = "retried" /\ work'.p = work.p BY <1>0, <1>6 DEF Retry, Stages
  <2> QED BY <2>1 DEF Undoes, Undoing
<1>7. CASE UNCHANGED work BY <1>7 DEF Undoes
<1>8. ASSUME NEW q \in Previews,
             Finalize(q) \/ Fail(q) \/ Renew(q) \/ Release(q) \/ Choose(q) \/ Deploy(q)
      PROVE  FALSE
  <2>1. work = Idle BY <1>8 DEF Finalize, Fail, Renew, Release, Choose, Deploy, Current, Active, Present
  <2> QED BY <1>0, <2>1 DEF Idle
<1>9. CASE Look \/ Place \/ Await \/ Expose \/ Clean \/ Cleaned
  BY <1>9 DEF Look, Place, Await, Expose, Clean, Cleaned, Undoing
<1> QED BY <1>3, <1>4, <1>5, <1>6, <1>7, <1>8, <1>9, WorkWriters DEF WorkWrites, Work

\* A Ready Preview was Ready already, or has just been shown.
LEMMA ReadySteps ==
    ASSUME Typed, HeldInv, Grown, CleansOver, [Next]_vars, NEW p \in Previews,
           preview'[p].at = "live", preview'[p].phase = "Ready", preview'[p].seen = preview'[p].spec
    PROVE  /\ preview[p].at = "live" /\ preview[p].spec = preview[p].seen
           /\ preview'[p].slot = preview[p].slot /\ preview'[p].seen = preview[p].seen
           /\ \/ preview[p].phase = "Ready" /\ (preview'[p] = preview[p] \/ work = Idle)
              \/ work.at = "expose" /\ p = work.p /\ preview[p] = work.read
<1> DEFINE v == preview[p]
           w == preview'[p]
<1>1. v \in PreviewObject BY DEF Typed, PreviewTyped
<1>2. CASE w = v BY <1>2
<1>3. CASE v.at = "live" /\ intent[p] \notin {0, v.spec} /\ w = [v EXCEPT !.spec = intent[p]]
  <2>1. w.seen = v.seen /\ w.spec = intent[p] BY <1>1, <1>3 DEF PreviewObject
  <2>2. v.seen < intent[p] BY <1>3, GrownOutgrown
  <2>3. v.seen \in Nat /\ intent[p] \in Nat
    BY PreviewAssumption DEF Typed, IntentTyped, PreviewTyped, PreviewObject, SpecNumbers
  <2>4. v.seen = intent[p] BY <2>1
  <2>5. ~(intent[p] < intent[p]) BY <2>3
  <2>6. FALSE BY <2>2, <2>4, <2>5, Zenon
  <2> QED BY <2>6
<1>4. CASE v.at = "live" /\ work = Idle /\ w = [v EXCEPT !.finalizer = TRUE]
  BY <1>1, <1>4 DEF PreviewObject
<1>5. CASE w = [v EXCEPT !.phase = "Expired", !.url = FALSE, !.serving = 0]
  <2>1. w.phase = "Expired" BY <1>1, <1>5 DEF PreviewObject
  <2> QED BY <2>1
<1>6. CASE v.at = "live" /\ p = work.p /\ v = work.read /\ WorkSaves(v, w)
  <2>1. CASE w = Failing(v) BY <1>1, <2>1 DEF Failing, PreviewObject
  <2>2. CASE w = Renewing(v) BY <1>1, <2>2 DEF Renewing, PreviewObject
  <2>3. CASE w = Queueing(v) BY <1>1, <2>3 DEF Queueing, PreviewObject
  <2>4. CASE \E s : w = Placing(v, s) BY <1>1, <2>4 DEF Placing, PreviewObject
  <2>5. CASE work.at = "expose" /\ w = Exposing(v)
    <3>1. w.spec = v.spec /\ w.slot = v.slot /\ w.seen = v.seen BY <1>1, <2>5 DEF Exposing, PreviewObject
    <3> QED BY <1>6, <2>5, <3>1
  <2>6. CASE w = Retrying(v) BY <1>1, <2>6 DEF Retrying, PreviewObject
  <2>7. CASE work.at = "clean" /\ v.at # "deleting" /\ w = Releasing(v)
    <3>1. w.phase = v.phase BY <1>1, <2>7 DEF Releasing, PreviewObject
    <3>2. Over(p) BY <1>6, <2>7 DEF CleansOver
    <3>3. FALSE BY <3>1, <3>2 DEF Over
    <3> QED BY <3>3
  <2> QED BY <1>6, <2>1, <2>2, <2>3, <2>4, <2>5, <2>6, <2>7 DEF WorkSaves
<1>7. ~(v.at = "absent" /\ w.phase = "none") OBVIOUS
<1> HIDE DEF v, w
<1>8. \/ w = v
      \/ v.at = "live" /\ intent[p] \notin {0, v.spec} /\ w = [v EXCEPT !.spec = intent[p]]
      \/ v.at = "live" /\ work = Idle /\ w = [v EXCEPT !.finalizer = TRUE]
      \/ w = [v EXCEPT !.phase = "Expired", !.url = FALSE, !.serving = 0]
      \/ v.at = "live" /\ p = work.p /\ v = work.read /\ WorkSaves(v, w)
  BY <1>7, LiveSteps, Zenon DEF v, w
<1> QED BY <1>2, <1>3, <1>4, <1>5, <1>6, <1>8 DEF v, w

LEMMA ReadyShownStep ==
    ASSUME Typed, HeldInv, StageKeeps, Grown, Overtaken, CleansOver, NoSweep, ReadyShown, [Next]_vars
    PROVE  ReadyShown'
<1> SUFFICES ASSUME Unswept' PROVE ReadyShown' BY DEF ReadyShown
<1>0. Unswept /\ sweep = Resting BY UnsweptStep
<1>1. ASSUME NEW p \in Previews,
             preview'[p].at = "live", preview'[p].phase = "Ready", preview'[p].seen = preview'[p].spec
      PROVE  preview'[p].slot \in Slots /\ (Shown(p)' \/ Undoes(p))
  <2>1. /\ preview[p].at = "live" /\ preview[p].spec = preview[p].seen
        /\ preview'[p].slot = preview[p].slot /\ preview'[p].seen = preview[p].seen
        /\ \/ preview[p].phase = "Ready" /\ (preview'[p] = preview[p] \/ work = Idle)
           \/ work.at = "expose" /\ p = work.p /\ preview[p] = work.read
    BY <1>1, ReadySteps
  <2>2. preview[p].slot \in Slots
    <3>1. CASE preview[p].phase = "Ready" BY <1>0, <2>1, <3>1 DEF ReadyShown, Live
    <3>2. CASE work.at = "expose" /\ p = work.p /\ preview[p] = work.read
      <4>1. work \in Stages BY <3>2, WorkAt DEF Typed, Attempting
      <4> QED BY <2>1, <3>2, <4>1 DEF StageKeeps, Attempting
    <3> QED BY <2>1, <3>1, <3>2
  <2>3. CASE work.at \in Undoing /\ work.p = p
    <3>1. work \in Stages BY <2>3, WorkAt DEF Typed, Undoing, Attempting
    <3>2. preview'[p] = preview[p] BY <2>1, <2>3 DEF Undoing, Idle
    <3>3. preview[p] = work.read \/ preview[p].seen < preview[p].spec BY <2>1, <2>3, <3>1 DEF Overtaken
    <3>4. ~(preview[p].spec < preview[p].spec)
      <4>1. preview[p].spec \in Nat
        BY PreviewAssumption DEF Typed, PreviewTyped, PreviewObject, SpecNumbers
      <4> QED BY <4>1
    <3>5. preview[p] = work.read BY <2>1, <3>3, <3>4
    <3> QED BY <1>1, <2>1, <2>2, <2>3, <3>5, UndoneSteps
  <2>4. CASE Shown(p)
    <3>1. ASSUME Fail(p) PROVE Undoes(p)
      <4>1. ~FailedAlready(preview[p])
        <5>1. UNCHANGED preview BY <3>1 DEF Fail
        <5> QED BY <1>1, <5>1 DEF FailedAlready
      <4>2. work' = Stage("fail", p) BY <3>1, <4>1 DEF Fail
      <4> QED BY <4>2 DEF Undoes, Undoing, Stage
    <3>2. ASSUME Renew(p) PROVE Undoes(p) BY <3>2 DEF Renew, Undoes, Undoing, Stage
    <3>3. ~(work.at = "clean" /\ p = work.p)
      <4>1. ASSUME work.at = "clean", p = work.p PROVE FALSE
        <5>1. Over(p) BY <2>1, <4>1 DEF CleansOver
        <5>2. preview[p].phase = "Ready" BY <2>1, <4>1
        <5> QED BY <5>1, <5>2 DEF Over
      <4> QED BY <4>1
    <3> PICK s \in Slots : s = preview[p].slot BY <2>2
    <3>4. ing[s][p] /\ dep[s][p] = preview[p].seen /\ dep[s][p] # 0 BY <2>4 DEF Shown
    <3>5. (ing'[s][p] /\ dep'[s][p] = preview[p].seen) \/ Undoes(p)
      BY <1>0, <2>1, <3>1, <3>2, <3>3, <3>4, Loses
    <3> QED BY <2>1, <2>2, <3>4, <3>5 DEF Shown
  <2> QED BY <1>0, <2>1, <2>3, <2>4 DEF ReadyShown, Live
<1>2. ASSUME work'.at = "expose", preview'[work'.p] = work'.read PROVE Shown(work.p)' /\ work'.p = work.p
  <2>1. work \in Stages /\ work' # Idle /\ (UNCHANGED work \/ Await)
    <3>1. ASSUME NEW q \in Previews,
                 Finalize(q) \/ Fail(q) \/ Renew(q) \/ Release(q) \/ Choose(q) \/ Deploy(q)
          PROVE  FALSE
      BY <1>2, <3>1 DEF Finalize, Fail, Renew, Release, Choose, Deploy, Stage, Cleaning
    <3>2. ~Look
      <4>1. Look => work'.at = "choose" BY WorkAt DEF Look, Typed, Choosings
      <4> QED BY <1>2, <4>1
    <3>3. ~Clean
      <4>1. Clean => work'.at = "clean" BY WorkAt DEF Clean, Typed, Cleanings
      <4> QED BY <1>2, <4>1
    <3>4. ~Retry
      <4>1. Retry => work'.at = "retried" BY WorkAt DEF Retry, Typed, Stages, Attempting
      <4> QED BY <1>2, <4>1
    <3>5. ~(FailWrite \/ RenewWrite \/ Place \/ Expose \/ RetryWrite \/ Cleaned)
      <4>1. work' # Idle BY <1>2 DEF Idle
      <4> QED BY <4>1 DEF FailWrite, RenewWrite, Place, Expose, RetryWrite, Cleaned
    <3>6. UNCHANGED work \/ Await
      BY <3>1, <3>2, <3>3, <3>4, <3>5, WorkWriters DEF WorkWrites, Work
    <3>7. work.at \in {"await", "expose"} BY <1>2, <3>6 DEF Await
    <3> QED BY <1>2, <3>6, <3>7, WorkAt DEF Typed, Attempting, Idle
  <2> PICK p \in Previews : p = work.p BY <2>1 DEF Stages
  <2>2. CASE UNCHANGED work
    <3>1. work.read.at = "live" /\ preview'[p] = work.read /\ work # Idle BY <1>2, <2>1, <2>2 DEF Overtaken
    <3>2. preview[p] = work.read
      <4>1. preview[p].at # "stripped" BY <3>1, StrippedStays
      <4>2. preview[p].at # "absent" /\ work.read.spec = work.read.seen
        BY <1>2, <2>1, <2>2, <4>1 DEF StageKeeps, Attempting
      <4>3. \/ preview'[p] = preview[p]
            \/ intent[p] \notin {0, preview[p].spec} /\ preview'[p] = [preview[p] EXCEPT !.spec = intent[p]]
        BY <2>1, <3>1, <4>2, LiveSteps, Zenon
      <4>4. ASSUME intent[p] \notin {0, preview[p].spec}, preview'[p] = [preview[p] EXCEPT !.spec = intent[p]]
            PROVE  FALSE
        <5>1. preview'[p].spec = intent[p] /\ preview'[p].seen = preview[p].seen
          BY <4>4 DEF Typed, PreviewTyped, PreviewObject
        <5>2. preview[p].seen < intent[p] BY <4>2, <4>4, GrownOutgrown
        <5>3. intent[p] \in Nat BY PreviewAssumption DEF Typed, IntentTyped, SpecNumbers
        <5>4. preview[p].seen = intent[p] BY <3>1, <4>2, <5>1
        <5>5. ~(intent[p] < intent[p]) BY <5>3
        <5> QED BY <5>2, <5>4, <5>5, Zenon
      <4> QED BY <3>1, <4>3, <4>4
    <3>3. Shown(p) BY <1>0, <1>2, <2>2, <3>2 DEF ReadyShown
    <3>4. preview[p].slot \in Slots
      BY <1>2, <2>1, <2>2, <3>1, <3>2 DEF StageKeeps, Attempting
    <3> PICK s \in Slots : s = preview[p].slot BY <3>4
    <3>5. ing[s][p] /\ dep[s][p] = preview[p].seen /\ dep[s][p] # 0 BY <3>3 DEF Shown
    <3>6. ~Undoes(p) /\ work.at # "clean" BY <1>2, <2>2 DEF Undoes, Undoing
    <3>7. ~Fail(p) /\ ~Renew(p) /\ ~Deploy(p)
      BY <3>1 DEF Fail, Renew, Deploy, Current, Active, Present
    <3>8. ing'[s][p] /\ dep'[s][p] = dep[s][p] BY <1>0, <3>5, <3>6, <3>7, Loses
    <3>9. preview'[p] = preview[p] BY <3>1, <3>2
    <3>10. Shown(p)' BY <3>5, <3>8, <3>9 DEF Shown
    <3> QED BY <2>2, <3>10
  <2>3. CASE Await
    <3>1. work' = [work EXCEPT !.at = "expose"] /\ UNCHANGED <<preview, dep>>
          /\ dep[work.read.slot][p] # 0 /\ ing' = [ing EXCEPT ![work.read.slot][p] = TRUE]
      BY <1>2, <2>1, <2>3 DEF Await, Stages
    <3>2. work'.p = p /\ work'.read = work.read BY <2>1, <3>1 DEF Stages
    <3>3. preview[p] = work.read /\ work.read.at = "live" BY <1>2, <2>1, <3>1, <3>2 DEF Overtaken
    <3>4. work.read.slot \in Slots /\ dep[work.read.slot][p] = work.read.seen
      BY <2>1, <2>3, <3>1, <3>3 DEF StageKeeps, Attempting, Await
    <3> PICK s \in Slots : s = work.read.slot BY <3>4
    <3>5. ing'[s][p] BY <3>1 DEF Typed, ObjectsTyped
    <3>6. Shown(p)' BY <3>1, <3>3, <3>4, <3>5 DEF Shown
    <3> QED BY <3>2, <3>6
  <2> QED BY <2>1, <2>2, <2>3
<1>3. \A p \in Previews : Live(p)' /\ preview'[p].phase = "Ready" /\ preview'[p].seen = preview'[p].spec
        => preview'[p].slot \in Slots /\ (Shown(p)' \/ (work'.at \in Undoing /\ work'.p = p))
  BY <1>1 DEF Live, Undoes
<1>4. ASSUME work'.at = "expose", preview'[work'.p] = work'.read PROVE Shown(work.p)'
  BY <1>2, <1>4
<1> QED BY <1>3, <1>4 DEF ReadyShown

\* What Ready means, with all that it rests on.
ShownInv == NoSweep /\ Grown /\ Overtaken /\ CleansOver /\ ReadyShown
THEOREM ShownInvariant == Spec => [](Typed /\ HeldInv /\ StageKeeps /\ ShownInv)
<1>1. Init => ShownInv
  <2> SUFFICES ASSUME Init PROVE ShownInv OBVIOUS
  <2>1. work.at = "idle" /\ work \notin Stages BY DEF Init, Idle, Stages, Attempting
  <2>2. \A p \in Previews : preview[p] = Fresh("absent", 0) /\ intent[p] = 0 BY DEF Init
  <2>3. NoSweep BY DEF Init, NoSweep
  <2>4. Grown BY <2>2 DEF Grown, Fresh
  <2>5. \A p \in Previews : ~Live(p) BY <2>2 DEF Fresh, Live
  <2> QED BY <2>1, <2>3, <2>4, <2>5 DEF ShownInv, Overtaken, CleansOver, ReadyShown
<1>2. (Typed /\ HeldInv /\ StageKeeps /\ RunsSeen) /\ ShownInv /\ [Next]_vars => ShownInv'
  BY NoSweepStep, GrownStep, OvertakenStep, CleansOverStep, ReadyShownStep DEF ShownInv
<1> QED BY <1>1, <1>2, ExposedInvariant, PTL DEF Spec

\* Until a sweep begins, a Preview that says it is Ready has its host exposed and
\* runs the revision it was Ready at, between any two reconciles, whatever the
\* writer, the cluster and the people behind the Intents do (completeDeployment).
THEOREM ReadyExposedHolds == Spec => []ReadyExposed
<1>1. ShownInv => ReadyExposed
  <2>1. work = Idle => work.at \notin Undoing BY DEF Idle, Undoing
  <2> QED BY <2>1 DEF ShownInv, ReadyShown, ReadyExposed, Shown
<1> QED BY <1>1, ShownInvariant, PTL

\* A slot is held by one Preview, whose objects alone are in it, and until a sweep
\* begins what says it is Ready is, for any Previews, slots, revisions, retries and
\* faults, but for what slips between the two lists of a look (chooseSlot, cleanup).
THEOREM PoolKeptHolds == Spec => []PoolKept
<1>1. TypeOK /\ SlotHeld /\ SlotExclusive /\ HoldersDistinct /\ ReadyExposed => PoolKept BY DEF PoolKept
<1>2. Spec => []SlotExclusive BY SlotExclusiveHolds
<1> QED BY <1>1, <1>2, TypeCorrect, SlotHeldHolds, HoldersDistinctHolds, ReadyExposedHolds, PTL

\* No step gives a slot out of turn or rolls the code behind an exposed host
\* (chooseSlot, reconcileActive).
THEOREM StepsKeptHolds == Spec => StepsKept
BY QueueKeptHolds, NeverRolledExposedHolds DEF StepsKept
=============================================================================
