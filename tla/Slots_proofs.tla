---------------------------- MODULE Slots_proofs ----------------------------
(***************************************************************************)
(* The two counts of slots, for any number of pods, requests and runs.     *)
(*                                                                         *)
(* Of the spend ledger: the in-flight cap is kept however the requests     *)
(* overlap, and no request sleeps while its pod has a free slot.  The      *)
(* admission compares the cap with the pod's counter, so the counter must  *)
(* be the number of requests in flight, which the sweep must not disturb   *)
(* (SlotsCounted); and a sleeper stays behind a full pod because only a    *)
(* release empties one, and wakes it.                                      *)
(*                                                                         *)
(* Of the scheduler of runs: only a pass that counted the slots on a list  *)
(* that missed a run exceeds the limit, because the grants left in a pass  *)
(* are the slots it counted as free (GrantsFit); and no run ever goes      *)
(* back, however far the cache trails, because a copy the API server has   *)
(* not moved past is the run (Told).                                       *)
(***************************************************************************)
EXTENDS SpendLedger, RunScheduler, FiniteSetTheorems, TLAPS

IntCounters == [requests: Int, inflight: Int, spent: Int, reserved: Int, seen: Int]
RequestState == [at: States, pod: Pods, reserve: Nat, used: Int, seen: Int]
SlotsType ==
    /\ clock \in Int /\ pods \in [Pods -> IntCounters] /\ req \in [Requests -> RequestState]

SlotsCounted == \A p \in Pods : pods[p].inflight = Cardinality(InFlight(p))
SlotsCapped == Cap > 0 => \A p \in Pods : pods[p].inflight <= Cap
SlotsInv == SlotsType /\ SlotsCounted /\ SlotsCapped /\ NoLostWakeup

-----------------------------------------------------------------------------
(* Counting                                                                  *)

\* The requests of a pod in flight are finitely many.
LEMMA InFlightFinite == \A p \in Pods : IsFiniteSet(InFlight(p))
BY SpendAssumption, FS_Subset DEF InFlight

\* A request keeps its pod, and none but r starts or stops holding a slot.
OnlyHolder(r) ==
    \A q \in Requests : req'[q].pod = req[q].pod /\ (q # r => (req'[q].at \in Holding <=> req[q].at \in Holding))

LEMMA HoldersKept ==
    ASSUME NEW r \in Requests, OnlyHolder(r), req'[r].at \in Holding <=> req[r].at \in Holding
    PROVE  \A p \in Pods : InFlight(p)' = InFlight(p)
BY DEF OnlyHolder, InFlight

LEMMA HolderAdded ==
    ASSUME NEW r \in Requests, OnlyHolder(r), req[r].at \notin Holding, req'[r].at \in Holding, NEW p \in Pods
    PROVE  Cardinality(InFlight(p)') = IF p = req[r].pod THEN Cardinality(InFlight(p)) + 1
                                       ELSE Cardinality(InFlight(p))
<1>1. CASE p = req[r].pod
  <2>1. InFlight(p)' = InFlight(p) \cup {r} /\ r \notin InFlight(p)
    BY <1>1 DEF OnlyHolder, InFlight
  <2> QED BY <1>1, <2>1, InFlightFinite, FS_AddElement
<1>2. CASE p # req[r].pod
  <2>1. InFlight(p)' = InFlight(p) BY <1>2 DEF OnlyHolder, InFlight
  <2> QED BY <1>2, <2>1
<1> QED BY <1>1, <1>2

LEMMA HolderGone ==
    ASSUME NEW r \in Requests, OnlyHolder(r), req[r].at \in Holding, req'[r].at \notin Holding, NEW p \in Pods
    PROVE  Cardinality(InFlight(p)') = IF p = req[r].pod THEN Cardinality(InFlight(p)) - 1
                                       ELSE Cardinality(InFlight(p))
<1>1. CASE p = req[r].pod
  <2>1. InFlight(p)' = InFlight(p) \ {r} /\ r \in InFlight(p)
    BY <1>1 DEF OnlyHolder, InFlight
  <2> QED BY <1>1, <2>1, InFlightFinite, FS_RemoveElement
<1>2. CASE p # req[r].pod
  <2>1. InFlight(p)' = InFlight(p) BY <1>2 DEF OnlyHolder, InFlight
  <2> QED BY <1>2, <2>1
<1> QED BY <1>1, <1>2

\* Nobody's slots move: what is left to show is who waits.
LEMMA SlotsKept ==
    ASSUME SlotsInv, SlotsType', NEW r \in Requests, OnlyHolder(r),
           req'[r].at \in Holding <=> req[r].at \in Holding,
           \A p \in Pods : pods'[p].inflight = pods[p].inflight,
           \A q \in Requests : req'[q].at = "waiting" => req[q].at = "waiting" \/ Full(pods[req[q].pod])
    PROVE  SlotsInv'
<1>1. SlotsCounted' BY HoldersKept DEF SlotsInv, SlotsCounted
<1>2. SlotsCapped' BY DEF SlotsInv, SlotsCapped
<1>3. NoLostWakeup'
  <2> SUFFICES ASSUME NEW q \in Requests, req'[q].at = "waiting"
               PROVE  Full(pods'[req'[q].pod])
    BY DEF NoLostWakeup
  <2>1. Full(pods[req[q].pod]) BY DEF SlotsInv, NoLostWakeup
  <2>2. req'[q].pod = req[q].pod /\ req[q].pod \in Pods
    BY DEF OnlyHolder, SlotsInv, SlotsType, RequestState
  <2> QED BY <2>1, <2>2 DEF Full
<1> QED BY <1>1, <1>2, <1>3 DEF SlotsInv

-----------------------------------------------------------------------------
(* The steps                                                                 *)

\* The sweep leaves every pod's slots as they are.
LEMMA SweptSlots ==
    ASSUME SlotsInv, NEW p \in Pods
    PROVE  Swept(p) \in IntCounters /\ Swept(p).inflight = pods[p].inflight
BY DEF SlotsInv, SlotsType, Swept, IdlePod, Fresh, IntCounters

LEMMA SlotTaken ==
    ASSUME NEW c \in IntCounters, NEW n \in Int, NEW e,
           e = [c EXCEPT !.requests = @ + 1, !.inflight = @ + 1, !.reserved = @ + n]
    PROVE  e \in IntCounters /\ e.inflight = c.inflight + 1
<1> DEFINE a == [c EXCEPT !.requests = @ + 1]
           b == [a EXCEPT !.inflight = @ + 1]
           d == [b EXCEPT !.reserved = @ + n]
<1>1. a \in IntCounters /\ a.inflight = c.inflight BY DEF IntCounters
<1>2. d = [c EXCEPT !.requests = @ + 1, !.inflight = @ + 1, !.reserved = @ + n] OBVIOUS
<1> HIDE DEF a
<1>3. b \in IntCounters /\ b.inflight = c.inflight + 1 BY <1>1 DEF IntCounters
<1> HIDE DEF b
<1>4. d \in IntCounters /\ d.inflight = c.inflight + 1 BY <1>3 DEF IntCounters
<1> QED BY <1>2, <1>4

\* What tryAdmit writes, by outcome.
Put(p, e) == pods' = [q \in Pods |-> IF q = p THEN e ELSE Swept(q)]

LEMMA PutType ==
    ASSUME SlotsInv, NEW p \in Pods, NEW e \in IntCounters, Put(p, e)
    PROVE  /\ pods' \in [Pods -> IntCounters] /\ pods'[p] = e
           /\ \A q \in Pods \ {p} : pods'[q].inflight = pods[q].inflight
BY SweptSlots DEF Put

LEMMA TryAdmitKeeps ==
    ASSUME SlotsInv, NEW r \in Requests, req[r].at \notin Holding, NEW n \in Nat, TryAdmit(r, n)
    PROVE  SlotsInv'
<1> DEFINE p == req[r].pod
           c == [Swept(p) EXCEPT !.seen = clock]
<1>1. p \in Pods BY DEF SlotsInv, SlotsType, RequestState
<1>2. c \in IntCounters /\ c.inflight = pods[p].inflight
  BY <1>1, SweptSlots DEF IntCounters, SlotsInv, SlotsType
<1> HIDE DEF c
<1>3. \/ Put(p, c) /\ req' = [req EXCEPT ![r].at = "refused", ![r].reserve = n]
      \/ Full(c) /\ Put(p, c) /\ req' = [req EXCEPT ![r].at = "waiting", ![r].reserve = n]
      \/ /\ ~Full(c) /\ Put(p, [c EXCEPT !.requests = @ + 1, !.inflight = @ + 1, !.reserved = @ + n])
         /\ req' = [req EXCEPT ![r].at = "sent", ![r].reserve = n]
  BY DEF TryAdmit, c, Put
<1>4. clock' = clock BY DEF TryAdmit
<1>5. ASSUME NEW s \in {"refused", "waiting"}, Put(p, c), s = "waiting" => Full(c),
             req' = [req EXCEPT ![r].at = s, ![r].reserve = n]
      PROVE  SlotsInv'
  <2>1. SlotsType'
    <3>1. pods' \in [Pods -> IntCounters] BY <1>1, <1>2, <1>5, PutType
    <3>2. req' \in [Requests -> RequestState] BY <1>5 DEF SlotsInv, SlotsType, RequestState, States
    <3> QED BY <1>4, <3>1, <3>2 DEF SlotsInv, SlotsType
  <2>2. OnlyHolder(r) /\ ~(req'[r].at \in Holding) /\ req'[r].at = s
    BY <1>5 DEF OnlyHolder, Holding, SlotsInv, SlotsType, RequestState
  <2>3. \A q \in Pods : pods'[q].inflight = pods[q].inflight BY <1>1, <1>2, <1>5, PutType
  <2>4. Full(c) => Full(pods[p]) BY <1>2 DEF Full
  <2>5. \A q \in Requests : req'[q].at = "waiting" => req[q].at = "waiting" \/ Full(pods[req[q].pod])
    BY <1>5, <2>2, <2>4 DEF SlotsInv, SlotsType, RequestState
  <2> QED BY <2>1, <2>2, <2>3, <2>5, SlotsKept
<1>6. ASSUME ~Full(c), Put(p, [c EXCEPT !.requests = @ + 1, !.inflight = @ + 1, !.reserved = @ + n]),
             req' = [req EXCEPT ![r].at = "sent", ![r].reserve = n]
      PROVE  SlotsInv'
  <2> DEFINE e == [c EXCEPT !.requests = @ + 1, !.inflight = @ + 1, !.reserved = @ + n]
  <2>1. e \in IntCounters /\ e.inflight = pods[p].inflight + 1
    <3>1. c \in IntCounters /\ n \in Int BY <1>2
    <3>2. e = [c EXCEPT !.requests = @ + 1, !.inflight = @ + 1, !.reserved = @ + n] OBVIOUS
    <3> HIDE DEF e
    <3>3. e \in IntCounters /\ e.inflight = c.inflight + 1 BY <3>1, <3>2, SlotTaken, Zenon
    <3> QED BY <1>2, <3>3, Zenon
  <2> HIDE DEF e
  <2>2. Put(p, e) BY <1>6 DEF e
  <2>3. /\ pods' \in [Pods -> IntCounters] /\ pods'[p].inflight = pods[p].inflight + 1
        /\ \A q \in Pods \ {p} : pods'[q].inflight = pods[q].inflight
    BY <1>1, <2>1, <2>2, PutType
  <2>4. SlotsType' BY <1>4, <1>6, <2>3 DEF SlotsInv, SlotsType, RequestState, States
  <2>5. OnlyHolder(r) /\ req'[r].at = "sent"
    BY <1>6 DEF OnlyHolder, Holding, SlotsInv, SlotsType, RequestState
  <2>6. SlotsCounted'
    <3>1. \A q \in Pods : Cardinality(InFlight(q)') = IF q = p THEN Cardinality(InFlight(q)) + 1
                                                      ELSE Cardinality(InFlight(q))
      BY <2>5, HolderAdded DEF Holding
    <3> QED BY <2>3, <3>1 DEF SlotsInv, SlotsCounted
  <2>7. SlotsCapped'
    <3>1. Cap > 0 => pods[p].inflight < Cap
      BY <1>1, <1>2, <1>6, SpendAssumption DEF Full, SlotsInv, SlotsType, IntCounters
    <3>2. pods[p].inflight \in Int /\ Cap \in Int
      BY <1>1, SpendAssumption DEF SlotsInv, SlotsType, IntCounters
    <3>3. Cap > 0 => pods'[p].inflight <= Cap BY <2>3, <3>1, <3>2
    <3> QED BY <2>3, <3>3 DEF SlotsInv, SlotsCapped
  <2>8. NoLostWakeup'
    <3> SUFFICES ASSUME NEW q \in Requests, req'[q].at = "waiting"
                 PROVE  Full(pods'[req'[q].pod])
      BY DEF NoLostWakeup
    <3>1. q # r BY <2>5
    <3>2. req'[q] = req[q] /\ req[q].pod \in Pods BY <1>6, <3>1 DEF SlotsInv, SlotsType, RequestState
    <3>3. Full(pods[req[q].pod]) BY <3>2 DEF SlotsInv, NoLostWakeup
    <3>4. pods[req[q].pod].inflight \in Int BY <3>2 DEF SlotsInv, SlotsType, IntCounters
    <3>5. pods'[req[q].pod].inflight >= pods[req[q].pod].inflight BY <2>3, <3>2, <3>4
    <3>6. pods'[req[q].pod].inflight \in Int BY <2>3, <3>2 DEF IntCounters
    <3> QED BY <3>2, <3>3, <3>4, <3>5, <3>6, SpendAssumption DEF Full
  <2> QED BY <2>4, <2>6, <2>7, <2>8 DEF SlotsInv
<1> QED BY <1>3, <1>5, <1>6

LEMMA ChargeKeeps ==
    ASSUME SlotsInv, NEW r \in Requests, req[r].at = "sent", NEW total \in Int, NEW s \in Holding, Charge(r, total, s)
    PROVE  SlotsInv'
<1> DEFINE p == req[r].pod
           n == total - req[r].seen
<1>1. p \in Pods /\ n \in Int BY DEF SlotsInv, SlotsType, RequestState
<1> HIDE DEF n
<1>2. /\ req' = [req EXCEPT ![r].seen = total, ![r].at = s]
      /\ pods' = [pods EXCEPT ![p].spent = @ + n, ![p].seen = clock]
      /\ clock' = clock
  BY DEF Charge, n
<1>3. SlotsType'
  <2>1. pods' \in [Pods -> IntCounters] BY <1>1, <1>2 DEF SlotsInv, SlotsType, IntCounters
  <2>2. s \in States BY DEF Holding, States
  <2>3. req' \in [Requests -> RequestState] BY <1>2, <2>2 DEF SlotsInv, SlotsType, RequestState
  <2> QED BY <1>2, <2>1, <2>3 DEF SlotsInv, SlotsType
<1>4. \A q \in Pods : pods'[q].inflight = pods[q].inflight
  BY <1>1, <1>2 DEF SlotsInv, SlotsType, IntCounters
<1>5. OnlyHolder(r) /\ req'[r].at = s
  BY <1>2 DEF OnlyHolder, SlotsInv, SlotsType, RequestState
<1>6. \A q \in Requests : req'[q].at = "waiting" => req[q].at = "waiting"
  BY <1>2 DEF SlotsInv, SlotsType, RequestState, Holding
<1> QED BY <1>3, <1>4, <1>5, <1>6, SlotsKept DEF Holding

LEMMA ReleaseKeeps ==
    ASSUME SlotsInv, NEW r \in Requests, Release(r)
    PROVE  SlotsInv'
<1> DEFINE p == req[r].pod
<1>1. p \in Pods /\ req[r].at = "charged" /\ req[r].reserve \in Nat
  BY DEF SlotsInv, SlotsType, RequestState, Release, ReleaseAt
<1>2. pods' = [pods EXCEPT ![p].inflight = @ - 1, ![p].reserved = @ - req[r].reserve, ![p].seen = clock]
      /\ clock' = clock
  BY DEF Release
<1>3. req' = [q \in Requests |-> IF q = r THEN [req[q] EXCEPT !.at = "done"]
                                 ELSE IF q \in Woken(p) THEN [req[q] EXCEPT !.at = "woken"] ELSE req[q]]
  BY DEF Release
<1>4. SlotsType'
  <2>1. pods' \in [Pods -> IntCounters] BY <1>1, <1>2 DEF SlotsInv, SlotsType, IntCounters
  <2>2. req' \in [Requests -> RequestState] BY <1>3 DEF SlotsInv, SlotsType, RequestState, States
  <2> QED BY <1>2, <2>1, <2>2 DEF SlotsInv, SlotsType
<1>5. OnlyHolder(r) /\ req'[r].at = "done"
  BY <1>3 DEF OnlyHolder, Woken, Holding, SlotsInv, SlotsType, RequestState
<1>6. /\ pods'[p].inflight = pods[p].inflight - 1 /\ pods[p].inflight \in Int
      /\ \A q \in Pods \ {p} : pods'[q] = pods[q]
  BY <1>1, <1>2 DEF SlotsInv, SlotsType, IntCounters
<1>7. SlotsCounted'
  <2>1. \A q \in Pods : Cardinality(InFlight(q)') = IF q = p THEN Cardinality(InFlight(q)) - 1
                                                    ELSE Cardinality(InFlight(q))
    BY <1>1, <1>5, HolderGone DEF Holding
  <2> QED BY <1>6, <2>1 DEF SlotsInv, SlotsCounted
<1>8. SlotsCapped'
  <2>1. Cap > 0 => pods'[p].inflight <= Cap BY <1>1, <1>6, SpendAssumption DEF SlotsInv, SlotsCapped
  <2> QED BY <1>6, <2>1 DEF SlotsInv, SlotsCapped
<1>9. NoLostWakeup'
  <2> SUFFICES ASSUME NEW q \in Requests, req'[q].at = "waiting"
               PROVE  Full(pods'[req'[q].pod])
    BY DEF NoLostWakeup
  <2>1. q # r /\ q \notin Woken(p) /\ req'[q] = req[q]
    BY <1>3 DEF SlotsInv, SlotsType, RequestState
  <2>2. req[q].pod # p /\ req[q].pod \in Pods BY <2>1 DEF Woken, SlotsInv, SlotsType, RequestState
  <2>3. Full(pods[req[q].pod]) BY <2>1 DEF SlotsInv, NoLostWakeup
  <2> QED BY <1>6, <2>1, <2>2, <2>3
<1> QED BY <1>4, <1>7, <1>8, <1>9 DEF SlotsInv

-----------------------------------------------------------------------------
(* The theorems of the ledger                                                *)

LEMMA SlotsInit == LedgerInit => SlotsInv
<1> SUFFICES ASSUME LedgerInit PROVE SlotsInv OBVIOUS
<1>1. SlotsType
  BY DEF LedgerInit, SlotsType, Fresh, IntCounters, RequestState, States
<1>2. \A r \in Requests : req[r].at = "new" BY DEF LedgerInit
<1>3. \A p \in Pods : InFlight(p) = {} BY <1>2 DEF InFlight, Holding
<1>4. \A p \in Pods : pods[p].inflight = 0 BY DEF LedgerInit, Fresh
<1>5. SlotsCounted BY <1>3, <1>4, FS_EmptySet DEF SlotsCounted
<1>6. SlotsCapped BY <1>4, SpendAssumption DEF SlotsCapped
<1>7. NoLostWakeup BY <1>2 DEF NoLostWakeup
<1> QED BY <1>1, <1>5, <1>6, <1>7 DEF SlotsInv

LEMMA SlotsStep == SlotsInv /\ [LedgerNext]_ledgerVars => SlotsInv'
<1> SUFFICES ASSUME SlotsInv, [LedgerNext]_ledgerVars PROVE SlotsInv' OBVIOUS
<1>1. ASSUME NEW r \in Requests, Arrive(r) PROVE SlotsInv'
  <2>1. PICK n \in Reserves : TryAdmit(r, n) BY <1>1 DEF Arrive
  <2>2. req[r].at \notin Holding BY <1>1 DEF Arrive, Holding
  <2> QED BY <2>1, <2>2, TryAdmitKeeps, SpendAssumption
<1>2. ASSUME NEW r \in Requests, Retry(r) PROVE SlotsInv'
  <2>1. TryAdmit(r, req[r].reserve) /\ req[r].at \notin Holding BY <1>2 DEF Retry, Holding
  <2>2. req[r].reserve \in Nat BY DEF SlotsInv, SlotsType, RequestState
  <2> QED BY <2>1, <2>2, TryAdmitKeeps
<1>3. ASSUME NEW r \in Requests, GiveUp(r) PROVE SlotsInv'
  <2>1. SlotsType' BY <1>3 DEF GiveUp, SlotsInv, SlotsType, RequestState, States
  <2>2. OnlyHolder(r) /\ ~(req'[r].at \in Holding) /\ ~(req[r].at \in Holding)
    BY <1>3 DEF GiveUp, OnlyHolder, Holding, SlotsInv, SlotsType, RequestState
  <2>3. \A q \in Requests : req'[q].at = "waiting" => req[q].at = "waiting"
    BY <1>3 DEF GiveUp, SlotsInv, SlotsType, RequestState
  <2> QED BY <1>3, <2>1, <2>2, <2>3, SlotsKept DEF GiveUp
<1>4. ASSUME NEW r \in Requests, Generate(r) PROVE SlotsInv'
  <2>1. SlotsType' BY <1>4 DEF Generate, SlotsInv, SlotsType, RequestState
  <2>2. OnlyHolder(r) /\ req'[r].at = req[r].at
    BY <1>4 DEF Generate, OnlyHolder, SlotsInv, SlotsType, RequestState
  <2>3. \A q \in Requests : req'[q].at = "waiting" => req[q].at = "waiting"
    BY <1>4 DEF Generate, SlotsInv, SlotsType, RequestState
  <2> QED BY <1>4, <2>1, <2>2, <2>3, SlotsKept DEF Generate
<1>5. ASSUME NEW r \in Requests, Report(r) \/ Complete(r) \/ CutShort(r) \/ UpstreamFails(r) PROVE SlotsInv'
  <2>1. req[r].used \in Int /\ req[r].seen \in Int /\ WorstCase(req[r]) \in Int
    BY DEF SlotsInv, SlotsType, RequestState, WorstCase
  <2>2. req[r].at = "sent" BY <1>5 DEF Report, Complete, CutShort, UpstreamFails
  <2>3. \E total \in Int, s \in Holding : Charge(r, total, s)
    BY <1>5, <2>1 DEF Report, Complete, CutShort, UpstreamFails, Holding
  <2> QED BY <2>2, <2>3, ChargeKeeps
<1>6. CASE Tick
  BY <1>6 DEF Tick, SlotsInv, SlotsType, SlotsCounted, SlotsCapped, NoLostWakeup, InFlight, Full
<1>7. CASE UNCHANGED ledgerVars
  BY <1>7 DEF ledgerVars, SlotsInv, SlotsType, SlotsCounted, SlotsCapped, NoLostWakeup, InFlight, Full
<1> QED BY <1>1, <1>2, <1>3, <1>4, <1>5, <1>6, <1>7, ReleaseKeeps DEF LedgerNext

\* The counter a request's admission is decided on never exceeds the cap, and is
\* the number of requests its pod has in flight.
THEOREM SlotsInvariant == LedgerSpec => []SlotsInv
BY SlotsInit, SlotsStep, PTL DEF LedgerSpec

\* A pod never has more requests in flight than the cap (tryAdmit).
THEOREM InFlightCappedHolds == LedgerSpec => []InFlightCapped
<1>1. SlotsInv => InFlightCapped BY DEF SlotsInv, SlotsCounted, SlotsCapped, InFlightCapped
<1> QED BY <1>1, SlotsInvariant, PTL

\* No request sleeps while its pod has a free slot (release, freed).
THEOREM NoLostWakeupHolds == LedgerSpec => []NoLostWakeup
<1>1. SlotsInv => NoLostWakeup BY DEF SlotsInv
<1> QED BY <1>1, SlotsInvariant, PTL

-----------------------------------------------------------------------------
(* The scheduler                                                             *)

RunningRuns == {r \in Run : api[r].phase = "Running"}

\* What the cache knows of r: the run, or, if writes are on their way to it, the
\* last of them is the run.
Told(r) ==
    IF Stale(r)
    THEN \E i \in DOMAIN events :
            /\ events[i] = [run |-> r, obj |-> api[r]]
            /\ \A j \in DOMAIN events : j > i => events[j].run # r
    ELSE cache[r] = api[r]

ObjectsTyped ==
    /\ api \in [Run -> RunObject] /\ cache \in [Run -> RunObject]
    /\ events \in Seq([run: Run, obj: RunObject])
QueueTyped == queue \in Seq(Run) /\ ToSet(queue) = {r \in Run : api[r].phase = "Pending"} /\ IsInjective(queue)
PassTyped == todo \in Seq(Run) /\ Len(todo) <= Slots
RestTyped ==
    /\ priority \in [Run -> Priorities] /\ boost \in [Run -> 0..AgingCap]
    /\ expedited \subseteq Run /\ paused \in BOOLEAN /\ restarts \in 0..MaxRestarts

SchedulerInv ==
    /\ ObjectsTyped /\ QueueTyped /\ PassTyped /\ RestTyped
    /\ \A r \in Run : Told(r)
    /\ ~InformerLag => events = <<>>

\* The smaller of two, which the aging takes.
LEMMA MinOfTwo == ASSUME NEW a \in Int, NEW b \in Int PROVE Min({a, b}) = IF a <= b THEN a ELSE b
BY DEF Min

\* A queue without its i-th: what it holds, still once each.
LEMMA QueueWithout ==
    ASSUME NEW S, NEW q \in Seq(S), IsInjective(q), NEW i \in DOMAIN q
    PROVE  /\ RemoveAt(q, i) \in Seq(S) /\ IsInjective(RemoveAt(q, i))
           /\ ToSet(RemoveAt(q, i)) = ToSet(q) \ {q[i]}
<1> DEFINE w == RemoveAt(q, i)
<1>1. Len(q) \in Nat /\ DOMAIN q = 1..Len(q) /\ i \in 1..Len(q) OBVIOUS
<1> DEFINE a == SubSeq(q, 1, i - 1)
           b == SubSeq(q, i + 1, Len(q))
<1>a. a \in Seq(S) /\ Len(a) = i - 1 /\ \A j \in 1..(i - 1) : a[j] = q[j] BY <1>1
<1>b. b \in Seq(S) /\ Len(b) = Len(q) - i /\ \A j \in 1..(Len(q) - i) : b[j] = q[i + j] BY <1>1
<1>c. w = a \o b BY DEF RemoveAt
<1> HIDE DEF a, b, w
<1>2. w \in Seq(S) /\ Len(w) = Len(q) - 1
  <2>1. a \in Seq(S) /\ b \in Seq(S) BY <1>a, <1>b
  <2>2. w \in Seq(S) /\ Len(w) = Len(a) + Len(b) BY <1>c, <2>1
  <2> QED BY <1>1, <1>a, <1>b, <2>2
<1>3. \A j \in 1..(Len(q) - 1) : w[j] = IF j < i THEN q[j] ELSE q[j + 1]
  <2> SUFFICES ASSUME NEW j \in 1..(Len(q) - 1) PROVE w[j] = IF j < i THEN q[j] ELSE q[j + 1] OBVIOUS
  <2>1. w[j] = IF j <= Len(a) THEN a[j] ELSE b[j - Len(a)] BY <1>1, <1>a, <1>b, <1>c
  <2>2. CASE j < i BY <1>1, <1>a, <2>1, <2>2
  <2>3. CASE ~(j < i)
    <3>1. j - (i - 1) \in 1..(Len(q) - i) /\ i + (j - (i - 1)) = j + 1 BY <1>1, <2>3
    <3> QED BY <1>1, <1>a, <1>b, <2>1, <2>3, <3>1
  <2> QED BY <2>2, <2>3
<1>4. DOMAIN w = 1..(Len(q) - 1) BY <1>1, <1>2
<1>5. IsInjective(w)
  <2> SUFFICES ASSUME NEW j \in DOMAIN w, NEW k \in DOMAIN w, w[j] = w[k] PROVE j = k BY DEF IsInjective
  <2> DEFINE at(n) == IF n < i THEN n ELSE n + 1
  <2>1. at(j) \in DOMAIN q /\ at(k) \in DOMAIN q /\ q[at(j)] = q[at(k)] BY <1>1, <1>3, <1>4
  <2>2. at(j) = at(k) BY <2>1 DEF IsInjective
  <2> QED BY <1>1, <1>4, <2>2
<1>6. ToSet(w) = ToSet(q) \ {q[i]}
  <2>1. ASSUME NEW j \in DOMAIN w PROVE w[j] \in ToSet(q) \ {q[i]}
    <3>1. CASE j < i
      <4>1. w[j] = q[j] /\ j \in DOMAIN q /\ j # i BY <1>1, <1>3, <1>4, <3>1
      <4> QED BY <4>1 DEF ToSet, IsInjective
    <3>2. CASE ~(j < i)
      <4>1. w[j] = q[j + 1] /\ j + 1 \in DOMAIN q /\ j + 1 # i BY <1>1, <1>3, <1>4, <3>2
      <4> QED BY <4>1 DEF ToSet, IsInjective
    <3> QED BY <3>1, <3>2
  <2>2. ASSUME NEW j \in DOMAIN q, q[j] # q[i] PROVE q[j] \in ToSet(w)
    <3>1. CASE j < i
      <4>1. j \in DOMAIN w /\ w[j] = q[j] BY <1>1, <1>3, <1>4, <3>1
      <4> QED BY <4>1 DEF ToSet
    <3>2. CASE j > i
      <4>1. j - 1 \in DOMAIN w /\ w[j - 1] = q[j] BY <1>1, <1>3, <1>4, <3>2
      <4> QED BY <4>1 DEF ToSet
    <3> QED BY <1>1, <2>2, <3>1, <3>2
  <2> QED BY <2>1, <2>2 DEF ToSet
<1> QED BY <1>2, <1>5, <1>6 DEF w

\* A queue with one more at its end.
LEMMA QueueWith ==
    ASSUME NEW S, NEW q \in Seq(S), IsInjective(q), NEW r \in S, r \notin ToSet(q)
    PROVE  /\ Append(q, r) \in Seq(S) /\ IsInjective(Append(q, r))
           /\ ToSet(Append(q, r)) = ToSet(q) \cup {r}
<1> DEFINE w == Append(q, r)
<1>1. /\ w \in Seq(S) /\ Len(q) \in Nat /\ DOMAIN q = 1..Len(q) /\ DOMAIN w = 1..(Len(q) + 1)
      /\ w[Len(q) + 1] = r /\ \A j \in 1..Len(q) : w[j] = q[j]
  OBVIOUS
<1> HIDE DEF w
<1>2. IsInjective(w) BY <1>1 DEF IsInjective, ToSet
<1>3. ToSet(w) = ToSet(q) \cup {r} BY <1>1 DEF ToSet
<1> QED BY <1>1, <1>2, <1>3 DEF w

\* What every write keeps of the cache: the run, and what follows it.
LEMMA WriteTells ==
    ASSUME SchedulerInv, NEW r \in Run, NEW o \in RunObject, Write(r, o)
    PROVE  /\ api' = [api EXCEPT ![r] = o] /\ ObjectsTyped'
           /\ \A q \in Run : Told(q)'
           /\ ~InformerLag => events' = <<>>
<1>1. api' = [api EXCEPT ![r] = o] BY DEF Write
<1>2. CASE InformerLag
  <2> DEFINE e == [run |-> r, obj |-> o]
  <2>1. events' = Append(events, e) /\ cache' = cache BY <1>2 DEF Write
  <2>2. /\ events \in Seq([run: Run, obj: RunObject]) /\ e \in [run: Run, obj: RunObject]
        /\ api \in [Run -> RunObject] /\ cache \in [Run -> RunObject]
    BY DEF SchedulerInv, ObjectsTyped
  <2>3. e.run = r /\ e.obj = o OBVIOUS
  <2> HIDE DEF e
  <2>4. /\ Len(events) \in Nat /\ DOMAIN events = 1..Len(events) /\ DOMAIN events' = 1..(Len(events) + 1)
        /\ events'[Len(events) + 1] = e /\ \A j \in 1..Len(events) : events'[j] = events[j]
    BY <2>1, <2>2
  <2>5. ObjectsTyped' BY <1>1, <2>1, <2>2 DEF ObjectsTyped
  <2>6. Told(r)'
    <3>1. Stale(r)' BY <2>3, <2>4 DEF Stale
    <3>2. e = [run |-> r, obj |-> api'[r]] BY <1>1, <2>2 DEF e
    <3> QED BY <2>4, <3>1, <3>2 DEF Told
  <2>7. ASSUME NEW q \in Run, q # r PROVE Told(q)'
    <3>1. Told(q) /\ api'[q] = api[q] BY <1>1, <2>2, <2>7 DEF SchedulerInv
    <3>2. Stale(q)' <=> Stale(q) BY <2>3, <2>4, <2>7 DEF Stale
    <3>3. CASE Stale(q)
      <4>1. PICK i \in DOMAIN events :
               /\ events[i] = [run |-> q, obj |-> api[q]]
               /\ \A j \in DOMAIN events : j > i => events[j].run # q
        BY <3>1, <3>3 DEF Told
      <4>2. i \in DOMAIN events' /\ events'[i] = [run |-> q, obj |-> api'[q]] BY <2>4, <3>1, <4>1
      <4>3. \A j \in DOMAIN events' : j > i => events'[j].run # q BY <2>3, <2>4, <2>7, <4>1
      <4> QED BY <3>2, <3>3, <4>2, <4>3 DEF Told
    <3>4. CASE ~Stale(q)
      <4>1. cache'[q] = api'[q] BY <2>1, <3>1, <3>4 DEF Told
      <4> QED BY <3>2, <3>4, <4>1 DEF Told
    <3> QED BY <3>3, <3>4
  <2> QED BY <1>1, <1>2, <2>5, <2>6, <2>7
<1>3. CASE ~InformerLag
  <2>1. events = <<>> /\ events' = <<>> /\ cache' = api' BY <1>3 DEF SchedulerInv, Write
  <2>2. ObjectsTyped' BY <1>1, <2>1 DEF SchedulerInv, ObjectsTyped
  <2>3. \A q \in Run : ~Stale(q)' BY <2>1 DEF Stale
  <2>4. \A q \in Run : Told(q)' BY <2>1, <2>3 DEF Told
  <2> QED BY <1>1, <2>1, <2>2, <2>4
<1> QED BY <1>2, <1>3

\* A copy the API server has not moved past is the run.
LEMMA FreshCopy == ASSUME SchedulerInv, NEW r \in Run, ~Stale(r) PROVE cache[r] = api[r]
BY DEF SchedulerInv, Told

\* The runs that hold a slot are finitely many, and as many as the scheduler counts
\* where the cache shows every write.
LEMMA RunningFinite ==
    ASSUME SchedulerAssumption
    PROVE  /\ IsFiniteSet(RunningRuns) /\ Cardinality(RunningRuns) \in Nat
           /\ Cardinality({r \in Run : cache[r].phase = "Running"}) \in Nat
<1>1. RunningRuns \subseteq Run /\ {r \in Run : cache[r].phase = "Running"} \subseteq Run BY DEF RunningRuns
<1> QED BY <1>1, FS_Subset, FS_CardinalityType DEF SchedulerAssumption

\* A write that neither queues a run nor grants it keeps the queue and the slots.
LEMMA RunMoves ==
    ASSUME SchedulerAssumption, SchedulerInv, NEW r \in Run, NEW o \in RunObject, Write(r, o),
           o.phase = "Pending" <=> api[r].phase = "Pending",
           UNCHANGED <<queue, todo>>, RestTyped'
    PROVE  SchedulerInv'
<1>1. /\ api' = [api EXCEPT ![r] = o] /\ ObjectsTyped' /\ \A q \in Run : Told(q)'
      /\ ~InformerLag => events' = <<>>
  BY WriteTells
<1>2. \A q \in Run : api'[q] = IF q = r THEN o ELSE api[q]
  BY <1>1 DEF SchedulerInv, ObjectsTyped
<1>3. QueueTyped' BY <1>2 DEF SchedulerInv, QueueTyped
<1>4. PassTyped' BY DEF SchedulerInv, PassTyped
<1> QED BY <1>1, <1>3, <1>4 DEF SchedulerInv

LEMMA ObserveKeeps == ASSUME SchedulerAssumption, SchedulerInv, Observe PROVE SchedulerInv'
<1> DEFINE h == Head(events)
<1>1. /\ events # <<>> /\ events' = Tail(events) /\ cache' = [cache EXCEPT ![h.run] = h.obj]
      /\ UNCHANGED <<api, priority, queue, boost, expedited, paused, todo, restarts>>
  BY DEF Observe
<1>2. InformerLag BY <1>1 DEF SchedulerInv, SchedulerAssumption
<1>3. /\ events \in Seq([run: Run, obj: RunObject]) /\ api \in [Run -> RunObject] /\ cache \in [Run -> RunObject]
  BY DEF SchedulerInv, ObjectsTyped
<1>4. /\ Len(events) \in Nat \ {0} /\ DOMAIN events = 1..Len(events) /\ DOMAIN events' = 1..(Len(events) - 1)
      /\ h = events[1] /\ h \in [run: Run, obj: RunObject]
      /\ \A j \in 1..(Len(events) - 1) : events'[j] = events[j + 1]
      /\ events' \in Seq([run: Run, obj: RunObject])
  <2> DEFINE M == [run: Run, obj: RunObject]
  <2>1. events \in Seq(M) /\ events # <<>> /\ events' = Tail(events) BY <1>1, <1>3
  <2> HIDE DEF M
  <2>2. Len(events) \in Nat \ {0} /\ DOMAIN events = 1..Len(events) BY <2>1
  <2>3. Tail(events) \in Seq(M) /\ Len(Tail(events)) = Len(events) - 1 BY <2>1, <2>2
  <2>4. \A j \in 1..(Len(events) - 1) : Tail(events)[j] = events[j + 1] BY <2>1, <2>2
  <2>5. h = events[1] /\ events[1] \in M BY <2>1, <2>2
  <2>6. DOMAIN events' = 1..(Len(events) - 1) BY <2>1, <2>2, <2>3
  <2> QED BY <2>1, <2>2, <2>3, <2>4, <2>5, <2>6 DEF M
<1> HIDE DEF h
<1>5. ObjectsTyped'
  <2>1. h.run \in Run /\ h.obj \in RunObject BY <1>4
  <2> QED BY <1>1, <1>3, <1>4, <2>1 DEF ObjectsTyped
<1>6. ASSUME NEW q \in Run PROVE Told(q)'
  <2>1. Told(q) /\ api' = api BY <1>1 DEF SchedulerInv
  <2>2. CASE Stale(q)
    <3>1. PICK i \in DOMAIN events :
             /\ events[i] = [run |-> q, obj |-> api[q]]
             /\ \A j \in DOMAIN events : j > i => events[j].run # q
      BY <2>1, <2>2 DEF Told
    <3>2. CASE i = 1
      <4>1. h.run = q /\ h.obj = api[q] BY <1>4, <3>1, <3>2
      <4>2. cache'[q] = api'[q] BY <1>1, <1>3, <2>1, <4>1
      <4>3. \A j \in DOMAIN events' : events'[j].run # q BY <1>4, <3>1, <3>2
      <4> QED BY <4>2, <4>3 DEF Told, Stale
    <3>3. CASE i # 1
      <4>1. i - 1 \in DOMAIN events' /\ events'[i - 1] = [run |-> q, obj |-> api'[q]]
        BY <1>4, <2>1, <3>1, <3>3
      <4>2. ASSUME NEW j \in DOMAIN events', j > i - 1 PROVE events'[j].run # q
        <5>1. j + 1 \in DOMAIN events /\ j + 1 > i /\ events'[j] = events[j + 1] BY <1>4, <3>1, <4>2
        <5> QED BY <3>1, <5>1
      <4>3. Stale(q)' BY <4>1 DEF Stale
      <4> QED BY <4>1, <4>2, <4>3 DEF Told
    <3> QED BY <3>2, <3>3
  <2>3. CASE ~Stale(q)
    <3>1. \A j \in DOMAIN events : events[j].run # q BY <2>3 DEF Stale
    <3>2. h.run # q BY <1>4, <3>1
    <3>3. \A j \in DOMAIN events' : events'[j].run # q BY <1>4, <3>1
    <3>4. cache'[q] = api'[q] BY <1>1, <1>3, <2>1, <2>3, <3>2 DEF Told
    <3> QED BY <3>3, <3>4 DEF Told, Stale
  <2> QED BY <2>2, <2>3
<1>7. QueueTyped' /\ PassTyped' /\ RestTyped'
  BY <1>1 DEF SchedulerInv, QueueTyped, PassTyped, RestTyped
<1> QED BY <1>2, <1>5, <1>6, <1>7 DEF SchedulerInv

\* A pass takes no more grants than there are slots.
LEMMA SchedulePassKeeps == ASSUME SchedulerAssumption, SchedulerInv, SchedulePass PROVE SchedulerInv'
<1>0. PICK n \in 1..Free : \E g \in [1..n -> Pending] : Picked(g) /\ todo' = g BY DEF SchedulePass
<1>1. PICK g \in [1..n -> Pending] : Picked(g) /\ todo' = g BY <1>0
<1>2. UNCHANGED <<api, cache, events, priority, queue, boost, expedited, paused, restarts>>
  BY DEF SchedulePass
<1>3. Slots \in Nat /\ Free \in Int /\ Free <= Slots /\ n \in Nat /\ n <= Free
  BY <1>1, RunningFinite DEF Free, SchedulerAssumption
<1>4. todo' \in Seq(Run) /\ Len(todo') = n
  <2>1. g \in [1..n -> Run] BY <1>1 DEF Pending
  <2> QED BY <1>1, <1>3, <2>1
<1>5. PassTyped' BY <1>3, <1>4 DEF PassTyped
<1>7. ObjectsTyped' /\ QueueTyped' /\ RestTyped'
  BY <1>2 DEF SchedulerInv, ObjectsTyped, QueueTyped, RestTyped
<1>8. \A r \in Run : Told(r)' BY <1>2 DEF SchedulerInv, Told, Stale
<1> QED BY <1>2, <1>5, <1>7, <1>8 DEF SchedulerInv

\* A pass that gives up the rest of its grants, or drops the next of them.
LEMMA PassCut ==
    ASSUME SchedulerAssumption, SchedulerInv, todo' \in Seq(Run), Len(todo') <= Len(todo),
           UNCHANGED <<api, cache, events, priority, queue, boost, expedited, paused, restarts>>
    PROVE  SchedulerInv'
<1>1. Len(todo') \in Nat /\ Len(todo) \in Nat /\ Len(todo) <= Slots /\ Slots \in Nat
  BY DEF SchedulerInv, PassTyped, SchedulerAssumption
<1>2. PassTyped' BY <1>1 DEF PassTyped
<1>4. ObjectsTyped' /\ QueueTyped' /\ RestTyped' BY DEF SchedulerInv, ObjectsTyped, QueueTyped, RestTyped
<1>5. \A r \in Run : Told(r)' BY DEF SchedulerInv, Told, Stale
<1> QED BY <1>2, <1>4, <1>5 DEF SchedulerInv

LEMMA GrantKeeps == ASSUME SchedulerAssumption, SchedulerInv, Grant PROVE SchedulerInv'
<1> DEFINE r == Head(todo)
<1>1. /\ todo # <<>> /\ todo \in Seq(Run) /\ r \in Run /\ Tail(todo) \in Seq(Run)
      /\ Len(todo) \in Nat /\ Len(Tail(todo)) = Len(todo) - 1
  BY DEF Grant, SchedulerInv, PassTyped
<1>2. UNCHANGED <<priority, expedited, paused, restarts>> BY DEF Grant
<1>3. CASE Stale(r)
  <2>1. todo' = <<>> /\ UNCHANGED <<api, cache, events, queue, boost>> BY <1>3 DEF Grant
  <2>2. todo' \in Seq(Run) /\ Len(todo') <= Len(todo) BY <1>1, <2>1
  <2> QED BY <1>2, <2>1, <2>2, PassCut
<1>4. CASE ~Stale(r) /\ api[r].phase # "Pending"
  <2>1. todo' = Tail(todo) /\ UNCHANGED <<api, cache, events, queue, boost>> BY <1>4 DEF Grant
  <2> QED BY <1>1, <1>2, <2>1, PassCut
<1>5. CASE ~Stale(r) /\ api[r].phase = "Pending"
  <2> DEFINE o == [api[r] EXCEPT !.phase = "Running"]
  <2>1. /\ todo' = Tail(todo) /\ Write(r, o) /\ boost' = [boost EXCEPT ![r] = 0]
        /\ \E i \in DOMAIN queue : queue[i] = r /\ queue' = RemoveAt(queue, i)
    BY <1>5 DEF Grant
  <2>2. o \in RunObject /\ o.phase = "Running" BY <1>1 DEF SchedulerInv, ObjectsTyped, RunObject
  <2> HIDE DEF o, r
  <2>3. /\ api' = [api EXCEPT ![r] = o] /\ ObjectsTyped' /\ \A q \in Run : Told(q)'
        /\ ~InformerLag => events' = <<>>
    BY <1>1, <2>1, <2>2, WriteTells
  <2>4. \A q \in Run : api'[q] = IF q = r THEN o ELSE api[q]
    BY <2>3 DEF SchedulerInv, ObjectsTyped
  <2>5. QueueTyped'
    <3>1. PICK i \in DOMAIN queue : queue[i] = r /\ queue' = RemoveAt(queue, i) BY <2>1
    <3>2. queue \in Seq(Run) /\ IsInjective(queue) BY DEF SchedulerInv, QueueTyped
    <3>3. queue' \in Seq(Run) /\ IsInjective(queue') /\ ToSet(queue') = ToSet(queue) \ {r}
      BY <3>1, <3>2, QueueWithout
    <3>4. ToSet(queue)' = {q \in Run : api'[q].phase = "Pending"}
      BY <2>2, <2>4, <3>3 DEF SchedulerInv, QueueTyped, ToSet
    <3> QED BY <3>3, <3>4 DEF QueueTyped
  <2>6. PassTyped' BY <1>1, <2>1 DEF SchedulerInv, PassTyped, SchedulerAssumption
  <2>7. RestTyped'
    <3>1. boost' \in [Run -> 0..AgingCap] BY <1>1, <2>1 DEF SchedulerInv, RestTyped, SchedulerAssumption
    <3> QED BY <1>2, <3>1 DEF SchedulerInv, RestTyped
  <2> QED BY <2>3, <2>5, <2>6, <2>7 DEF SchedulerInv
<1> QED BY <1>3, <1>4, <1>5

LEMMA RunStepsKeep ==
    ASSUME SchedulerAssumption, SchedulerInv, NEW r \in Run, MarkPaused(r) \/ Launch(r) \/ Collect(r) \/ Delete(r)
    PROVE  SchedulerInv'
<1>1. api[r] \in RunObject BY DEF SchedulerInv, ObjectsTyped
<1>2. UNCHANGED <<priority, queue, boost, paused, todo, restarts>> /\ expedited' \subseteq Run
  BY DEF MarkPaused, Launch, Collect, Delete, SchedulerInv, RestTyped
<1>3. RestTyped' BY <1>2 DEF SchedulerInv, RestTyped
<1>4. CASE MarkPaused(r)
  <2> DEFINE o == [api[r] EXCEPT !.held = HeldByPause(api[r])]
  <2>1. o \in RunObject /\ o.phase = api[r].phase
    BY <1>1 DEF RunObject, HeldByPause, SchedulerInv, RestTyped
  <2>2. Write(r, o) BY <1>4 DEF MarkPaused
  <2> QED BY <1>2, <1>3, <2>1, <2>2, RunMoves
<1>5. CASE Launch(r)
  <2> DEFINE o == [api[r] EXCEPT !.job = TRUE]
  <2>1. o \in RunObject /\ o.phase = api[r].phase BY <1>1 DEF RunObject
  <2>2. Write(r, o) BY <1>5 DEF Launch
  <2> QED BY <1>2, <1>3, <2>1, <2>2, RunMoves
<1>6. CASE Collect(r)
  <2> DEFINE o == [api[r] EXCEPT !.phase = "Done"]
  <2>1. o \in RunObject /\ o.phase = "Done" BY <1>1 DEF RunObject
  <2>2. Write(r, o) /\ api[r].phase = "Running" BY <1>6, FreshCopy DEF Collect
  <2> QED BY <1>2, <1>3, <2>1, <2>2, RunMoves
<1>7. CASE Delete(r)
  <2>1. None \in RunObject /\ None.phase = "None" BY DEF RunObject, None
  <2>2. Write(r, None) /\ api[r].phase = "Done" BY <1>7 DEF Delete
  <2> QED BY <1>2, <1>3, <2>1, <2>2, RunMoves
<1> QED BY <1>4, <1>5, <1>6, <1>7

LEMMA CreateKeeps == ASSUME SchedulerAssumption, SchedulerInv, NEW r \in Run, Create(r) PROVE SchedulerInv'
<1> DEFINE o == [None EXCEPT !.phase = "Pending"]
<1>1. o \in RunObject /\ o.phase = "Pending" BY DEF None, RunObject
<1>2. /\ api[r].phase = "None" /\ Write(r, o) /\ queue' = Append(queue, r)
      /\ UNCHANGED <<priority, boost, expedited, paused, todo, restarts>>
  BY DEF Create
<1> HIDE DEF o
<1>3. /\ api' = [api EXCEPT ![r] = o] /\ ObjectsTyped' /\ \A q \in Run : Told(q)'
      /\ ~InformerLag => events' = <<>>
  BY <1>1, <1>2, WriteTells
<1>4. \A q \in Run : api'[q] = IF q = r THEN o ELSE api[q] BY <1>3 DEF SchedulerInv, ObjectsTyped
<1>5. QueueTyped'
  <2>1. queue \in Seq(Run) /\ IsInjective(queue) /\ r \notin ToSet(queue)
    BY <1>2 DEF SchedulerInv, QueueTyped
  <2>2. queue' \in Seq(Run) /\ IsInjective(queue') /\ ToSet(queue') = ToSet(queue) \cup {r}
    BY <1>2, <2>1, QueueWith
  <2>3. ToSet(queue)' = {q \in Run : api'[q].phase = "Pending"}
    BY <1>1, <1>4, <2>2 DEF SchedulerInv, QueueTyped, ToSet
  <2> QED BY <2>2, <2>3 DEF QueueTyped
<1>7. PassTyped' /\ RestTyped' BY <1>2 DEF SchedulerInv, PassTyped, RestTyped
<1> QED BY <1>3, <1>5, <1>7 DEF SchedulerInv

\* What touches neither runs, queue nor pass.
LEMMA RestMoves ==
    ASSUME SchedulerInv, RestTyped', UNCHANGED <<api, cache, events, queue, todo>>
    PROVE  SchedulerInv'
BY DEF SchedulerInv, ObjectsTyped, QueueTyped, PassTyped, Told, Stale

LEMMA AgeKeeps == ASSUME SchedulerAssumption, SchedulerInv, Age PROVE SchedulerInv'
<1>1. boost' = [r \in Run |-> IF r \in ToSet(queue) THEN Min({boost[r] + 1, AgingCap}) ELSE boost[r]]
  BY DEF Age
<1>2. ASSUME NEW r \in Run PROVE Min({boost[r] + 1, AgingCap}) \in 0..AgingCap
  <2>1. boost[r] + 1 \in Nat /\ AgingCap \in Nat
    BY DEF SchedulerInv, RestTyped, SchedulerAssumption
  <2>2. Min({boost[r] + 1, AgingCap}) = IF boost[r] + 1 <= AgingCap THEN boost[r] + 1 ELSE AgingCap
    BY <2>1, MinOfTwo
  <2> QED BY <2>1, <2>2
<1>3. boost' \in [Run -> 0..AgingCap] BY <1>1, <1>2 DEF SchedulerInv, RestTyped
<1>4. RestTyped' BY <1>3 DEF Age, SchedulerInv, RestTyped
<1> QED BY <1>4, RestMoves DEF Age

LEMMA RestartKeeps == ASSUME SchedulerAssumption, SchedulerInv, Restart PROVE SchedulerInv'
<1>1. /\ restarts < MaxRestarts /\ restarts' = restarts + 1 /\ paused' \in BOOLEAN
      /\ todo' = <<>> /\ cache' = api /\ events' = <<>>
      /\ UNCHANGED <<api, priority, queue, boost, expedited>>
  BY DEF Restart
<1>2. ObjectsTyped' BY <1>1 DEF SchedulerInv, ObjectsTyped
<1>3. \A r \in Run : Told(r)' BY <1>1 DEF Told, Stale
<1>4. todo' \in Seq(Run) /\ Len(todo') = 0 BY <1>1
<1>5. PassTyped' BY <1>4 DEF PassTyped, SchedulerAssumption
<1>7. RestTyped' BY <1>1 DEF SchedulerInv, RestTyped, SchedulerAssumption
<1>8. QueueTyped' BY <1>1 DEF SchedulerInv, QueueTyped
<1> QED BY <1>1, <1>2, <1>3, <1>5, <1>7, <1>8 DEF SchedulerInv

LEMMA SchedulerInit == ASSUME SchedulerAssumption, Init PROVE SchedulerInv
<1>1. ObjectsTyped BY DEF Init, ObjectsTyped, None, RunObject
<1>2. \A r \in Run : api[r].phase = "None" BY DEF Init, None
<1>4. QueueTyped
  <2>1. ToSet(queue) = {} BY DEF Init, ToSet
  <2> QED BY <1>2, <2>1 DEF Init, QueueTyped, IsInjective
<1>5. PassTyped BY DEF Init, PassTyped, SchedulerAssumption
<1>6. RestTyped BY DEF Init, RestTyped, SchedulerAssumption
<1>7. events = <<>> /\ \A r \in Run : Told(r) BY DEF Init, Told, Stale
<1> QED BY <1>1, <1>4, <1>5, <1>6, <1>7 DEF SchedulerInv

LEMMA SchedulerStep == ASSUME SchedulerAssumption, SchedulerInv, [Next]_vars PROVE SchedulerInv'
<1>1. ASSUME NEW r \in Run, Expedite(r) PROVE SchedulerInv'
  <2>1. RestTyped' BY <1>1 DEF Expedite, SchedulerInv, RestTyped
  <2> QED BY <1>1, <2>1, RestMoves DEF Expedite
<1>2. CASE UNCHANGED vars
  <2>1. RestTyped' BY <1>2 DEF vars, SchedulerInv, RestTyped
  <2> QED BY <1>2, <2>1, RestMoves DEF vars
<1> QED
  BY <1>1, <1>2, ObserveKeeps, SchedulePassKeeps, GrantKeeps, AgeKeeps, RestartKeeps, RunStepsKeep, CreateKeeps
  DEF Next

\* What a step makes of the runs, whatever copy of them it acted on.
LEMMA RunsForward == ASSUME SchedulerInv, [Next]_vars PROVE [MovesForward]_vars
<1>1. ASSUME NEW r \in Run, NEW o, Write(r, o),
             \/ o.phase = api[r].phase
             \/ <<api[r].phase, o.phase>> \in
                  {<<"None", "Pending">>, <<"Pending", "Running">>, <<"Running", "Done">>, <<"Done", "None">>}
      PROVE  MovesForward
  BY <1>1 DEF Write, MovesForward, SchedulerInv, ObjectsTyped
<1>2. CASE UNCHANGED api BY <1>2 DEF MovesForward
<1>3. ASSUME NEW r \in Run, MarkPaused(r) \/ Launch(r) \/ Collect(r) \/ Delete(r) \/ Create(r) PROVE MovesForward
  <2>1. api[r] \in RunObject BY DEF SchedulerInv, ObjectsTyped
  <2>2. CASE MarkPaused(r) BY <1>1, <2>1, <2>2 DEF MarkPaused, RunObject
  <2>3. CASE Launch(r) BY <1>1, <2>1, <2>3 DEF Launch, RunObject
  <2>4. CASE Collect(r) BY <1>1, <2>1, <2>4, FreshCopy DEF Collect, RunObject
  <2>5. CASE Delete(r) BY <1>1, <2>5 DEF Delete, None
  <2>6. CASE Create(r) BY <1>1, <2>6 DEF Create, None
  <2> QED BY <1>3, <2>2, <2>3, <2>4, <2>5, <2>6
<1>4. CASE Grant
  <2> DEFINE r == Head(todo)
  <2>1. r \in Run /\ api[r] \in RunObject BY <1>4 DEF Grant, SchedulerInv, PassTyped, ObjectsTyped
  <2>2. CASE Write(r, [api[r] EXCEPT !.phase = "Running"]) /\ api[r].phase = "Pending"
    BY <1>1, <2>1, <2>2 DEF RunObject
  <2> QED BY <1>2, <1>4, <2>2 DEF Grant
<1>5. CASE UNCHANGED vars BY <1>5
<1>6. CASE Observe \/ SchedulePass \/ Age \/ Restart \/ \E r \in Run : Expedite(r)
  BY <1>2, <1>6 DEF Observe, SchedulePass, Age, Restart, Expedite
<1> QED BY <1>3, <1>4, <1>5, <1>6 DEF Next

-----------------------------------------------------------------------------
(* The theorems of the scheduler                                             *)

LEMMA SchedulerInvariant == ASSUME SchedulerAssumption PROVE Spec => []SchedulerInv
BY SchedulerInit, SchedulerStep, PTL DEF Spec

\* Types of the scheduler's runs, queue and pass, with the queue holding each
\* pending run once (schedule, grant).
THEOREM SchedulerTyped == ASSUME SchedulerAssumption PROVE Spec => []TypeOK
<1>1. SchedulerInv => TypeOK
  BY DEF SchedulerInv, TypeOK, ObjectsTyped, QueueTyped, PassTyped, RestTyped
<1> QED BY <1>1, SchedulerInvariant, PTL

-----------------------------------------------------------------------------
(* The slots                                                                 *)

\* What a pass that counts the slots has to see: every run that holds one.
ListsRunning == SchedulePass => \A r \in Run : api[r].phase = "Running" => cache[r].phase = "Running"

GrantsFit == Cardinality(RunningRuns) + Len(todo) <= Slots

\* A pass that sees every run that holds a slot takes no more grants than are free;
\* each grant uses one up, and nothing else starts a run.
LEMMA GrantsFitStep ==
    ASSUME SchedulerAssumption, SchedulerInv, SchedulerInv', GrantsFit, [Next]_vars, ListsRunning
    PROVE  GrantsFit'
<1>1. /\ api \in [Run -> RunObject] /\ cache \in [Run -> RunObject] /\ Slots \in Nat
      /\ todo \in Seq(Run) /\ Len(todo) \in Nat /\ todo' \in Seq(Run) /\ Len(todo') \in Nat
  BY DEF SchedulerInv, ObjectsTyped, PassTyped, SchedulerAssumption
<1>2. /\ IsFiniteSet(RunningRuns) /\ Cardinality(RunningRuns) \in Nat
      /\ Cardinality({r \in Run : cache[r].phase = "Running"}) \in Nat
  BY RunningFinite
<1>3. ASSUME RunningRuns' \subseteq RunningRuns, Len(todo') <= Len(todo) PROVE GrantsFit'
  <2>1. Cardinality(RunningRuns') \in Nat /\ Cardinality(RunningRuns') <= Cardinality(RunningRuns)
    BY <1>2, <1>3, FS_Subset, FS_CardinalityType
  <2> QED BY <1>1, <1>2, <1>3, <2>1 DEF GrantsFit
<1>4. ASSUME UNCHANGED api, Len(todo') <= Len(todo) PROVE GrantsFit'
  <2>1. RunningRuns' = RunningRuns BY <1>4 DEF RunningRuns
  <2> QED BY <1>3, <1>4, <2>1
<1>5. ASSUME NEW r \in Run, NEW o \in RunObject, Write(r, o), o.phase = "Running" => api[r].phase = "Running",
             UNCHANGED todo
      PROVE  GrantsFit'
  <2>1. RunningRuns' \subseteq RunningRuns BY <1>1, <1>5 DEF Write, RunningRuns
  <2> QED BY <1>1, <1>3, <1>5, <2>1
<1>6. CASE SchedulePass
  <2>1. PICK n \in 1..Free : \E g \in [1..n -> Pending] : todo' = g BY <1>6 DEF SchedulePass
  <2> DEFINE seen == {r \in Run : cache[r].phase = "Running"}
  <2>2. RunningRuns \subseteq seen BY <1>6 DEF ListsRunning, RunningRuns
  <2>3. IsFiniteSet(seen) BY FS_Subset DEF SchedulerAssumption
  <2>4. Cardinality(RunningRuns) <= Cardinality(seen) BY <2>2, <2>3, FS_Subset
  <2>5. Free = Slots - Cardinality(seen) BY DEF Free
  <2>6. Len(todo') = n
    <3>1. n \in Nat BY <1>1, <1>2, <2>5
    <3>2. DOMAIN todo' = 1..n BY <2>1
    <3> QED BY <1>1, <3>1, <3>2
  <2>7. RunningRuns' = RunningRuns BY <1>6 DEF SchedulePass, RunningRuns
  <2> HIDE DEF seen
  <2>8. Cardinality(seen) \in Nat BY <1>2 DEF seen
  <2> QED BY <1>1, <1>2, <2>4, <2>5, <2>6, <2>7, <2>8 DEF GrantsFit
<1>7. CASE Grant
  <2> DEFINE r == Head(todo)
             o == [api[r] EXCEPT !.phase = "Running"]
  <2>1. /\ todo # <<>> /\ r \in Run /\ Len(todo) \in Nat \ {0} /\ Len(Tail(todo)) = Len(todo) - 1
    BY <1>1, <1>7 DEF Grant
  <2>2. \/ todo' = <<>> /\ UNCHANGED api
        \/ todo' = Tail(todo) /\ UNCHANGED api
        \/ todo' = Tail(todo) /\ Write(r, o)
    BY <1>7 DEF Grant
  <2>3. CASE todo' = <<>> /\ UNCHANGED api
    <3>1. Len(todo') = 0 BY <2>3
    <3> QED BY <1>1, <1>4, <2>3, <3>1
  <2>4. CASE todo' = Tail(todo) /\ UNCHANGED api BY <1>1, <1>4, <2>1, <2>4
  <2>5. CASE todo' = Tail(todo) /\ Write(r, o)
    <3> HIDE DEF r, o
    <3>1. api' = [api EXCEPT ![r] = o] BY <2>5 DEF Write
    <3>2. RunningRuns' \subseteq RunningRuns \cup {r} BY <1>1, <2>1, <3>1 DEF RunningRuns
    <3>3. /\ IsFiniteSet(RunningRuns \cup {r})
          /\ Cardinality(RunningRuns \cup {r}) \in {Cardinality(RunningRuns), Cardinality(RunningRuns) + 1}
      BY <1>2, FS_AddElement
    <3>4. Cardinality(RunningRuns') \in Nat /\ Cardinality(RunningRuns') <= Cardinality(RunningRuns \cup {r})
      BY <3>2, <3>3, FS_Subset, FS_CardinalityType
    <3>5. Len(todo') = Len(todo) - 1 BY <2>1, <2>5
    <3> QED BY <1>1, <1>2, <2>1, <3>3, <3>4, <3>5 DEF GrantsFit
  <2> QED BY <2>2, <2>3, <2>4, <2>5
<1>8. ASSUME NEW r \in Run, MarkPaused(r) \/ Launch(r) \/ Collect(r) \/ Delete(r) \/ Create(r) PROVE GrantsFit'
  <2>1. api[r] \in RunObject BY <1>1
  <2>2. CASE MarkPaused(r)
    <3>1. [api[r] EXCEPT !.held = HeldByPause(api[r])] \in RunObject
      BY <2>1 DEF RunObject, HeldByPause, SchedulerInv, RestTyped
    <3> QED BY <1>5, <2>1, <2>2, <3>1 DEF MarkPaused, RunObject
  <2>3. CASE Launch(r) BY <1>5, <2>1, <2>3, FreshCopy DEF Launch, RunObject
  <2>4. CASE Collect(r) BY <1>5, <2>1, <2>4 DEF Collect, RunObject
  <2>5. CASE Delete(r) BY <1>5, <2>5 DEF Delete, None, RunObject
  <2>6. CASE Create(r) BY <1>5, <2>6 DEF Create, None, RunObject
  <2> QED BY <1>8, <2>2, <2>3, <2>4, <2>5, <2>6
<1>9. CASE Restart
  <2>1. UNCHANGED api /\ todo' = <<>> BY <1>9 DEF Restart
  <2>2. Len(todo') = 0 BY <2>1
  <2> QED BY <1>1, <1>4, <2>1, <2>2
<1>10. ASSUME NEW r \in Run, Expedite(r) PROVE GrantsFit' BY <1>1, <1>4, <1>10 DEF Expedite
<1>11. CASE Observe \/ Age \/ UNCHANGED vars BY <1>1, <1>4, <1>11 DEF Observe, Age, vars
<1> QED BY <1>6, <1>7, <1>8, <1>9, <1>10, <1>11 DEF Next

\* More runs hold a slot than there are only after a pass that counted them on a
\* cached list that missed one: a pause, an expedited or deleted run, a conflict or a
\* restart in the middle of a pass never gives one slot twice, and the cache may
\* trail anything else (schedule, grant).
THEOREM OverLimitFromStaleList ==
    ASSUME SchedulerAssumption
    PROVE  Spec => ([][ListsRunning]_vars => []SlotsRespected)
<1>1. Init => GrantsFit
  <2> SUFFICES ASSUME Init PROVE GrantsFit OBVIOUS
  <2>1. RunningRuns = {} BY DEF Init, None, RunningRuns
  <2> QED BY <2>1, FS_EmptySet DEF Init, GrantsFit, SchedulerAssumption
<1>2. SchedulerInv /\ SchedulerInv' /\ GrantsFit /\ [Next]_vars /\ [ListsRunning]_vars => GrantsFit'
  <2> SUFFICES ASSUME SchedulerInv, SchedulerInv', GrantsFit, [Next]_vars, [ListsRunning]_vars PROVE GrantsFit'
    OBVIOUS
  <2>1. CASE UNCHANGED vars BY <2>1 DEF GrantsFit, RunningRuns, vars
  <2>2. CASE ListsRunning BY <2>2, GrantsFitStep
  <2> QED BY <2>1, <2>2
<1>3. SchedulerInv /\ GrantsFit => SlotsRespected
  <2> SUFFICES ASSUME SchedulerInv, GrantsFit PROVE SlotsRespected OBVIOUS
  <2>1. Cardinality(RunningRuns) + Len(todo) <= Slots BY DEF GrantsFit
  <2>2. Len(todo) \in Nat /\ Slots \in Nat BY DEF SchedulerInv, PassTyped, SchedulerAssumption
  <2>3. Cardinality(RunningRuns) <= Slots BY <2>1, <2>2, RunningFinite
  <2> QED BY <2>3 DEF SlotsRespected, RunningRuns
<1> QED BY <1>1, <1>2, <1>3, SchedulerInvariant, PTL DEF Spec

\* A run is never granted twice nor brought back once settled, however far the
\* cache trails the API server (grant, run, collect, markPaused).
THEOREM OnlyForwardHolds == ASSUME SchedulerAssumption PROVE Spec => OnlyForward
BY RunsForward, SchedulerInvariant, PTL DEF Spec, OnlyForward
=============================================================================
