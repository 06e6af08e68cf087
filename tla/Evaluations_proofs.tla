-------------------------- MODULE Evaluations_proofs --------------------------
(***************************************************************************)
(* What a finished Evaluation says, for any Evaluations, units, slots,     *)
(* faults and trailing of the cache: its units have all settled, its       *)
(* counts are theirs, and it stays as it is until it is deleted; and a     *)
(* unit that is gone has left no Job.                                      *)
(*                                                                         *)
(* The parent is written from counts of a cached list.  They are right     *)
(* because a settled unit never changes again while its Evaluation is      *)
(* there, so that a copy that says it has settled tells how, however old   *)
(* (CopiesTrue); what a roll-up counted can only grow (Counted); and the   *)
(* list shows no more units than there are, so that enough of them is all  *)
(* of them.                                                                *)
(***************************************************************************)
EXTENDS Evaluations, FiniteSetTheorems, TLAPS

\* The copies of u that are about: the cache's, and those on their way to it.
Copies(u) == {cache[u]} \cup {events[i].obj : i \in {j \in DOMAIN events : events[j].unit = u}}

\* What the cache knows of u: the unit, or, if writes are on their way to it, the
\* last of them is the unit.
Told(u) ==
    IF Stale(u)
    THEN \E i \in DOMAIN events :
            /\ events[i] = [unit |-> u, obj |-> unit[u]]
            /\ \A j \in DOMAIN events : j > i => events[j].unit # u
    ELSE cache[u] = unit[u]

UnitsTyped ==
    /\ unit \in [Units -> UnitObject] /\ cache \in [Units -> UnitObject]
    /\ events \in Seq([unit: Units, obj: UnitObject])
EvalsTyped == eval \in [Evals -> EvalObject]
GateTyped ==
    /\ gate \in [at: {"idle", "create", "settle", "phase"}, eval: Evals \cup {0}, index: 0..Count + 1]
    /\ gate.at \in {"create", "settle"} => gate.eval \in Evals /\ gate.index \in 1..Count
    /\ gate.at = "phase" => gate.eval \in Evals
WorkerTyped == worker \in UnitReconcile
RestTyped ==
    /\ job \in [Units -> {"None", "Active", "Done"}]
    /\ todo \in Seq(Units) /\ Len(todo) <= MaxConcurrent
    /\ second \in 0..LastSecond /\ faults \in 0..MaxFaults

CacheTold == (\A u \in Units : Told(u)) /\ (~InformerLag => events = <<>>)

Present == {"Absent", "Live"}

\* While its Evaluation is there a unit is not deleted, and a copy that says it has
\* settled tells how.
TellsTrue(o, u) == o.at \in Present /\ (Settled(o) => unit[u].at = "Live" /\ unit[u].phase = o.phase)
CopiesTrue ==
    \A u \in Units : eval[u[1]].phase # "Gone" =>
        unit[u].at \in Present /\ \A o \in Copies(u) : TellsTrue(o, u)

\* A unit gone shows in no copy as one to launch, and has no Job.
GoneTold ==
    \A u \in Units : unit[u].at = "Gone" =>
        job[u] = "None" /\ \A o \in Copies(u) : o.at \in {"Deleting", "Gone"}

\* What the unit reconcile under way knows.
Finalizing ==
    worker.at = "drop" => eval[worker.unit[1]].phase = "Gone" /\ job[worker.unit] = "None"
Creating == worker.at = "create" => unit[worker.unit].at # "Gone"

Ended(e, p) == {i \in 1..Count : unit[<<e, i>>].at = "Live" /\ unit[<<e, i>>].phase = p}
Counted ==
    worker.at = "update" =>
        LET e == worker.unit[1] IN
        /\ worker.read.phase \in {"Pending", "Running"}
        /\ eval[e].phase # "Gone" =>
              /\ worker.complete <= Cardinality(Ended(e, "Complete"))
              /\ worker.failed <= Cardinality(Ended(e, "Failed"))

EvaluationsInv ==
    /\ UnitsTyped /\ EvalsTyped /\ GateTyped /\ WorkerTyped /\ RestTyped
    /\ CacheTold /\ CopiesTrue /\ GoneTold /\ Finalizing /\ Creating /\ Counted /\ FinishedTrue

-----------------------------------------------------------------------------
(* The cache                                                                 *)

LEMMA NoCopyElse ==
    ASSUME NEW u \in Units, ~Stale(u) PROVE Copies(u) = {cache[u]}
BY DEF Stale, Copies

\* A copy the API server has not moved past is the unit; and the unit is itself a copy.
LEMMA FreshCopy == ASSUME CacheTold, NEW u \in Units, ~Stale(u) PROVE cache[u] = unit[u]
BY DEF CacheTold, Told

LEMMA UnitIsCopy == ASSUME CacheTold, NEW u \in Units PROVE unit[u] \in Copies(u)
<1>1. CASE Stale(u)
  <2>1. PICK i \in DOMAIN events : events[i] = [unit |-> u, obj |-> unit[u]]
    BY <1>1 DEF CacheTold, Told
  <2>2. events[i].unit = u /\ events[i].obj = unit[u] BY <2>1
  <2> QED BY <2>2 DEF Copies
<1>2. CASE ~Stale(u) BY <1>2, FreshCopy, NoCopyElse
<1> QED BY <1>1, <1>2

LEMMA WriteTells ==
    ASSUME UnitsTyped, CacheTold, NEW u \in Units, NEW o \in UnitObject, Write(u, o)
    PROVE  /\ unit'[u] = o /\ \A q \in Units : q # u => unit'[q] = unit[q]
           /\ UnitsTyped' /\ CacheTold'
           /\ \A q \in Units : Copies(q)' \subseteq Copies(q) \cup {c \in {o} : q = u}
<1>1. unit' = [unit EXCEPT ![u] = o] /\ unit \in [Units -> UnitObject] BY DEF Write, UnitsTyped
<1>2. unit'[u] = o /\ \A q \in Units : q # u => unit'[q] = unit[q] BY <1>1
<1>3. CASE InformerLag
  <2> DEFINE e == [unit |-> u, obj |-> o]
             M == [unit: Units, obj: UnitObject]
  <2>1. events' = Append(events, e) /\ cache' = cache BY <1>3 DEF Write
  <2>2. events \in Seq(M) /\ e \in M /\ cache \in [Units -> UnitObject] BY DEF UnitsTyped
  <2>3. e.unit = u /\ e.obj = o OBVIOUS
  <2> HIDE DEF M, e
  <2>4. /\ Len(events) \in Nat /\ DOMAIN events = 1..Len(events) /\ DOMAIN events' = 1..(Len(events) + 1)
        /\ events'[Len(events) + 1] = e /\ \A j \in 1..Len(events) : events'[j] = events[j]
        /\ events' \in Seq(M)
    BY <2>1, <2>2
  <2>5. UnitsTyped' BY <1>1, <2>1, <2>2, <2>4 DEF UnitsTyped, M
  <2>6. Told(u)'
    <3>1. Stale(u)' BY <2>3, <2>4 DEF Stale
    <3>2. e = [unit |-> u, obj |-> unit'[u]] BY <1>2 DEF e
    <3> QED BY <2>4, <3>1, <3>2 DEF Told
  <2>7. ASSUME NEW q \in Units, q # u PROVE Told(q)'
    <3>1. Told(q) /\ unit'[q] = unit[q] BY <1>2, <2>7 DEF CacheTold
    <3>2. Stale(q)' <=> Stale(q) BY <2>3, <2>4, <2>7 DEF Stale
    <3>3. CASE Stale(q)
      <4>1. PICK i \in DOMAIN events :
               /\ events[i] = [unit |-> q, obj |-> unit[q]]
               /\ \A j \in DOMAIN events : j > i => events[j].unit # q
        BY <3>1, <3>3 DEF Told
      <4>2. i \in DOMAIN events' /\ events'[i] = [unit |-> q, obj |-> unit'[q]] BY <2>4, <3>1, <4>1
      <4>3. \A j \in DOMAIN events' : j > i => events'[j].unit # q BY <2>3, <2>4, <2>7, <4>1
      <4> QED BY <3>2, <3>3, <4>2, <4>3 DEF Told
    <3>4. CASE ~Stale(q)
      <4>1. cache'[q] = unit'[q] BY <2>1, <3>1, <3>4 DEF Told
      <4> QED BY <3>2, <3>4, <4>1 DEF Told
    <3> QED BY <3>3, <3>4
  <2>8. ASSUME NEW q \in Units, NEW c \in Copies(q)' PROVE c \in Copies(q) \/ (q = u /\ c = o)
    <3>1. CASE c = cache'[q] BY <2>1, <3>1 DEF Copies
    <3>2. CASE \E i \in DOMAIN events' : events'[i].unit = q /\ c = events'[i].obj
      <4>1. PICK i \in DOMAIN events' : events'[i].unit = q /\ c = events'[i].obj BY <3>2
      <4>2. CASE i = Len(events) + 1 BY <2>3, <2>4, <4>1, <4>2
      <4>3. CASE i # Len(events) + 1
        <5>1. i \in DOMAIN events /\ events[i].unit = q /\ c = events[i].obj BY <2>4, <4>1, <4>3
        <5> QED BY <5>1 DEF Copies
      <4> QED BY <4>2, <4>3
    <3> QED BY <3>1, <3>2 DEF Copies
  <2>9. CacheTold' BY <1>3, <2>6, <2>7 DEF CacheTold
  <2> QED BY <1>2, <2>5, <2>8, <2>9
<1>4. CASE ~InformerLag
  <2>1. events = <<>> /\ events' = <<>> /\ cache' = unit' BY <1>4 DEF CacheTold, Write
  <2>2. UnitsTyped' BY <1>1, <2>1 DEF UnitsTyped
  <2>3. \A q \in Units : ~Stale(q) /\ ~Stale(q)' BY <2>1 DEF Stale
  <2>4. CacheTold' BY <2>1, <2>3 DEF CacheTold, Told
  <2>5. \A q \in Units : Copies(q)' = {unit'[q]} BY <2>1 DEF Copies
  <2> QED BY <1>2, <2>2, <2>4, <2>5, UnitIsCopy
<1> QED BY <1>3, <1>4

LEMMA ReadTells ==
    ASSUME UnitsTyped, CacheTold, Read
    PROVE  UnitsTyped' /\ CacheTold' /\ unit' = unit /\ \A q \in Units : Copies(q)' = Copies(q)
BY DEF Read, UnitsTyped, CacheTold, Told, Stale, Copies

LEMMA ObserveTells ==
    ASSUME EvaluationsAssumption, UnitsTyped, CacheTold, Observe
    PROVE  UnitsTyped' /\ CacheTold' /\ unit' = unit /\ \A q \in Units : Copies(q)' \subseteq Copies(q)
<1> DEFINE h == Head(events)
           M == [unit: Units, obj: UnitObject]
<1>1. /\ events # <<>> /\ events' = Tail(events) /\ cache' = [cache EXCEPT ![h.unit] = h.obj] /\ unit' = unit
  BY DEF Observe
<1>2. InformerLag BY <1>1 DEF CacheTold, EvaluationsAssumption
<1>3. events \in Seq(M) /\ cache \in [Units -> UnitObject] /\ unit \in [Units -> UnitObject] BY DEF UnitsTyped
<1>4. /\ Len(events) \in Nat \ {0} /\ DOMAIN events = 1..Len(events) /\ DOMAIN events' = 1..(Len(events) - 1)
      /\ h = events[1] /\ h.unit \in Units /\ h.obj \in UnitObject
      /\ \A j \in 1..(Len(events) - 1) : events'[j] = events[j + 1]
      /\ events' \in Seq(M)
  <2>1. events \in Seq(M) /\ events # <<>> /\ events' = Tail(events) BY <1>1, <1>3
  <2>6. \A m \in M : m.unit \in Units /\ m.obj \in UnitObject OBVIOUS
  <2> HIDE DEF M
  <2>2. Len(events) \in Nat \ {0} /\ DOMAIN events = 1..Len(events) BY <2>1
  <2>3. Tail(events) \in Seq(M) /\ Len(Tail(events)) = Len(events) - 1 BY <2>1, <2>2
  <2>4. \A j \in 1..(Len(events) - 1) : Tail(events)[j] = events[j + 1] BY <2>1, <2>2
  <2>5. h = events[1] /\ events[1] \in M BY <2>1, <2>2
  <2>7. DOMAIN events' = 1..(Len(events) - 1) BY <2>1, <2>2, <2>3
  <2> QED BY <2>1, <2>2, <2>3, <2>4, <2>5, <2>6, <2>7
<1> HIDE DEF h
<1>5. UnitsTyped' BY <1>1, <1>3, <1>4 DEF UnitsTyped
<1>6. \A q \in Units : cache'[q] = IF q = h.unit THEN h.obj ELSE cache[q] BY <1>1, <1>3
<1>7. ASSUME NEW q \in Units PROVE Told(q)'
  <2>1. Told(q) BY DEF CacheTold
  <2>2. CASE Stale(q)
    <3>1. PICK i \in DOMAIN events :
             /\ events[i] = [unit |-> q, obj |-> unit[q]]
             /\ \A j \in DOMAIN events : j > i => events[j].unit # q
      BY <2>1, <2>2 DEF Told
    <3>2. CASE i = 1
      <4>1. h.unit = q /\ h.obj = unit[q] BY <1>4, <3>1, <3>2
      <4>2. cache'[q] = unit'[q] BY <1>1, <1>6, <4>1
      <4>3. \A j \in DOMAIN events' : events'[j].unit # q BY <1>4, <3>1, <3>2
      <4> QED BY <4>2, <4>3 DEF Told, Stale
    <3>3. CASE i # 1
      <4>1. i - 1 \in DOMAIN events' /\ events'[i - 1] = [unit |-> q, obj |-> unit'[q]]
        BY <1>1, <1>4, <3>1, <3>3
      <4>2. ASSUME NEW j \in DOMAIN events', j > i - 1 PROVE events'[j].unit # q
        <5>1. j + 1 \in DOMAIN events /\ j + 1 > i /\ events'[j] = events[j + 1] BY <1>4, <3>1, <4>2
        <5> QED BY <3>1, <5>1
      <4>3. Stale(q)' BY <4>1 DEF Stale
      <4> QED BY <4>1, <4>2, <4>3 DEF Told
    <3> QED BY <3>2, <3>3
  <2>3. CASE ~Stale(q)
    <3>1. \A j \in DOMAIN events : events[j].unit # q BY <2>3 DEF Stale
    <3>2. h.unit # q BY <1>4, <3>1
    <3>3. \A j \in DOMAIN events' : events'[j].unit # q BY <1>4, <3>1
    <3>4. cache'[q] = unit'[q] BY <1>1, <1>6, <2>1, <2>3, <3>2 DEF Told
    <3> QED BY <3>3, <3>4 DEF Told, Stale
  <2> QED BY <2>2, <2>3
<1>8. ASSUME NEW q \in Units, NEW c \in Copies(q)' PROVE c \in Copies(q)
  <2>1. ASSUME NEW i \in DOMAIN events', events'[i].unit = q, c = events'[i].obj PROVE c \in Copies(q)
    <3>1. i + 1 \in DOMAIN events /\ events[i + 1].unit = q /\ c = events[i + 1].obj BY <1>4, <2>1
    <3> QED BY <3>1 DEF Copies
  <2>2. CASE c = cache'[q]
    <3>1. 1 \in DOMAIN events BY <1>4
    <3> QED BY <1>4, <1>6, <2>2, <3>1 DEF Copies
  <2> QED BY <2>1, <2>2 DEF Copies
<1> QED BY <1>1, <1>2, <1>5, <1>7, <1>8 DEF CacheTold

LEMMA CrashTells ==
    ASSUME UnitsTyped, CacheTold, Crash
    PROVE  UnitsTyped' /\ CacheTold' /\ unit' = unit /\ \A q \in Units : Copies(q)' \subseteq Copies(q)
<1>1. cache' = unit /\ events' = <<>> /\ unit' = unit BY DEF Crash
<1>2. UnitsTyped' BY <1>1 DEF UnitsTyped
<1>3. \A q \in Units : ~Stale(q)' BY <1>1 DEF Stale
<1>4. CacheTold' BY <1>1, <1>3 DEF CacheTold, Told
<1>5. \A q \in Units : Copies(q)' = {unit[q]} BY <1>1 DEF Copies
<1> QED BY <1>1, <1>2, <1>4, <1>5, UnitIsCopy

LEMMA CacheIsCopy == \A u \in Units : cache[u] \in Copies(u)
BY DEF Copies

LEMMA UnitFields ==
    /\ \A u \in Units : u[1] \in Evals /\ u[2] \in 1..Count /\ u = <<u[1], u[2]>>
    /\ \A e \in Evals, i \in 1..Count : <<e, i>> \in Units
BY DEF Units

-----------------------------------------------------------------------------
(* A step that writes no unit                                                *)

EndedKept ==
    \A e \in Evals : eval'[e].phase # "Gone" =>
        /\ eval[e].phase # "Gone"
        /\ \A p \in {"Complete", "Failed"} : Cardinality(Ended(e, p)) <= Cardinality(Ended(e, p)')

\* What a step makes of an Evaluation without saying that it finished.
EvalsKept ==
    \A e \in Evals :
        /\ eval'[e].phase # "Gone" => eval[e].phase # "Gone"
        /\ Terminal(e)' => /\ eval'[e].phase = eval[e].phase
                           /\ eval'[e].complete = eval[e].complete /\ eval'[e].failed = eval[e].failed

LEMMA EndedFinite ==
    ASSUME EvaluationsAssumption, NEW e, NEW p
    PROVE  IsFiniteSet(Ended(e, p)) /\ Cardinality(Ended(e, p)) \in 0..Count
<1>1. Count \in Nat BY DEF EvaluationsAssumption
<1>2. IsFiniteSet(1..Count) /\ Cardinality(1..Count) = Count BY <1>1, FS_Interval
<1>3. Ended(e, p) \subseteq 1..Count BY DEF Ended
<1>4. IsFiniteSet(Ended(e, p)) /\ Cardinality(Ended(e, p)) <= Count BY <1>2, <1>3, FS_Subset
<1> QED BY <1>1, <1>4, FS_CardinalityType

LEMMA ReadStep ==
    ASSUME EvaluationsAssumption, EvaluationsInv, UnitsTyped', CacheTold', unit' = unit,
           \A q \in Units : Copies(q)' \subseteq Copies(q),
           \A q \in Units : unit[q].at = "Gone" => job'[q] = "None",
           \A e \in Evals : eval'[e].phase # "Gone" => eval[e].phase # "Gone"
    PROVE  CopiesTrue' /\ GoneTold' /\ EndedKept
<1>1. CopiesTrue'
  <2> SUFFICES ASSUME NEW u \in Units, eval'[u[1]].phase # "Gone"
               PROVE  unit'[u].at \in Present /\ \A o \in Copies(u)' : TellsTrue(o, u)'
    BY DEF CopiesTrue
  <2>1. eval[u[1]].phase # "Gone" BY UnitFields
  <2>2. unit[u].at \in Present /\ \A o \in Copies(u) : TellsTrue(o, u)
    BY <2>1 DEF EvaluationsInv, CopiesTrue
  <2> QED BY <2>2 DEF TellsTrue
<1>2. GoneTold'
  <2> SUFFICES ASSUME NEW u \in Units, unit'[u].at = "Gone"
               PROVE  job'[u] = "None" /\ \A o \in Copies(u)' : o.at \in {"Deleting", "Gone"}
    BY DEF GoneTold
  <2> QED BY DEF EvaluationsInv, GoneTold
<1>3. EndedKept
  <2>1. \A e, p : Ended(e, p)' = Ended(e, p) BY DEF Ended
  <2>2. ASSUME NEW e \in Evals, NEW p PROVE Cardinality(Ended(e, p)) <= Cardinality(Ended(e, p)')
    <3>1. Cardinality(Ended(e, p)) \in Int BY EndedFinite
    <3> QED BY <2>1, <3>1
  <2> QED BY <2>2 DEF EndedKept
<1> QED BY <1>1, <1>2, <1>3

LEMMA FinishedKept ==
    ASSUME FinishedTrue, unit' = unit, EvalsKept PROVE FinishedTrue'
<1> SUFFICES ASSUME NEW e \in Evals, Terminal(e)'
             PROVE  /\ \A i \in 1..Count : unit[<<e, i>>].at = "Live" /\ Settled(unit[<<e, i>>])
                    /\ eval'[e].failed = Cardinality({i \in 1..Count : unit[<<e, i>>].phase = "Failed"})
                    /\ eval'[e].complete = Count - Cardinality({i \in 1..Count : unit[<<e, i>>].phase = "Failed"})
                    /\ (eval'[e].phase = "Failed") <=> ({i \in 1..Count : unit[<<e, i>>].phase = "Failed"} # {})
  BY DEF FinishedTrue, Settled
<1>1. eval'[e].phase = eval[e].phase /\ eval'[e].complete = eval[e].complete /\ eval'[e].failed = eval[e].failed
  BY DEF EvalsKept
<1>2. Terminal(e) BY <1>1 DEF Terminal
<1> QED BY <1>1, <1>2 DEF FinishedTrue

-----------------------------------------------------------------------------
(* A step that writes one                                                    *)

\* A unit is created where there is none; changed until it settles; deleted with its
\* Evaluation; and gone when it has no Job and the cache has seen it deleted.
GoodWrite(u, o) ==
    \/ ~Exists(unit[u]) /\ o.at = "Live" /\ ~Settled(o)
    \/ Exists(unit[u]) /\ ~Settled(unit[u]) /\ o.at = unit[u].at
    \/ eval[u[1]].phase = "Gone" /\ unit[u].at = "Live" /\ o.at = "Deleting"
    \/ /\ eval[u[1]].phase = "Gone" /\ unit[u].at = "Deleting" /\ o.at = "Gone"
       /\ ~Stale(u) /\ job[u] = "None"

LEMMA Written ==
    ASSUME EvaluationsAssumption, EvaluationsInv, NEW u \in Units, NEW o \in UnitObject,
           GoodWrite(u, o), Write(u, o), eval' = eval, job' = job
    PROVE  /\ UnitsTyped' /\ CacheTold' /\ CopiesTrue' /\ GoneTold' /\ FinishedTrue' /\ EndedKept
           /\ unit'[u] = o /\ \A q \in Units : q # u => unit'[q] = unit[q]
<1>1. /\ unit'[u] = o /\ \A q \in Units : q # u => unit'[q] = unit[q]
      /\ UnitsTyped' /\ CacheTold'
      /\ \A q \in Units : Copies(q)' \subseteq Copies(q) \cup {c \in {o} : q = u}
  BY WriteTells DEF EvaluationsInv
<1>2. unit[u].at \in {"Absent", "Live", "Deleting", "Gone"} BY DEF EvaluationsInv, UnitsTyped, UnitObject
<1>3. ASSUME eval[u[1]].phase # "Gone"
      PROVE  /\ unit[u].at \in Present /\ (~Settled(unit[u]) \/ unit[u].at # "Live")
             /\ o.at = "Live" /\ \A c \in Copies(u) : TellsTrue(c, u)
  <2>1. unit[u].at \in Present /\ \A c \in Copies(u) : TellsTrue(c, u)
    BY <1>3 DEF EvaluationsInv, CopiesTrue
  <2> QED BY <1>3, <2>1 DEF GoodWrite, Present, Exists
<1>4. CopiesTrue'
  <2> SUFFICES ASSUME NEW q \in Units, eval[q[1]].phase # "Gone"
               PROVE  unit'[q].at \in Present /\ \A c \in Copies(q)' : TellsTrue(c, q)'
    BY DEF CopiesTrue
  <2>1. CASE q = u
    <3>1. unit[u].at # "Live" \/ ~Settled(unit[u]) BY <1>3, <2>1
    <3>2. \A c \in Copies(u) : c.at \in Present /\ ~Settled(c)
      <4> SUFFICES ASSUME NEW c \in Copies(u), Settled(c) PROVE FALSE BY <1>3, <2>1 DEF TellsTrue
      <4>1. unit[u].at = "Live" /\ unit[u].phase = c.phase BY <1>3, <2>1 DEF TellsTrue
      <4> QED BY <3>1, <4>1 DEF Settled
    <3>3. o.at \in Present /\ o.at = "Live" BY <1>3, <2>1 DEF Present
    <3>4. TellsTrue(o, u)' BY <1>1, <3>3 DEF TellsTrue
    <3>5. \A c \in Copies(u) : TellsTrue(c, u)' BY <3>2 DEF TellsTrue
    <3> QED BY <1>1, <2>1, <3>3, <3>4, <3>5
  <2>2. CASE q # u
    <3>1. unit[q].at \in Present /\ \A c \in Copies(q) : TellsTrue(c, q)
      BY DEF EvaluationsInv, CopiesTrue
    <3>2. unit'[q] = unit[q] /\ Copies(q)' \subseteq Copies(q) BY <1>1, <2>2
    <3> QED BY <3>1, <3>2 DEF TellsTrue
  <2> QED BY <2>1, <2>2
<1>5. GoneTold'
  <2> SUFFICES ASSUME NEW q \in Units, unit'[q].at = "Gone"
               PROVE  job[q] = "None" /\ \A c \in Copies(q)' : c.at \in {"Deleting", "Gone"}
    BY DEF GoneTold
  <2>1. CASE q = u
    <3>1. o.at = "Gone" BY <1>1, <2>1
    <3>2. unit[u].at = "Deleting" /\ ~Stale(u) /\ job[u] = "None" BY <3>1 DEF GoodWrite, Exists
    <3>3. Copies(u) = {unit[u]} BY <3>2, NoCopyElse, FreshCopy DEF EvaluationsInv
    <3> QED BY <1>1, <2>1, <3>1, <3>2, <3>3
  <2>2. CASE q # u
    <3>1. unit[q].at = "Gone" /\ Copies(q)' \subseteq Copies(q) BY <1>1, <2>2
    <3> QED BY <3>1 DEF EvaluationsInv, GoneTold
  <2> QED BY <2>1, <2>2
<1>6. ~Terminal(u[1])
  <2> SUFFICES ASSUME Terminal(u[1]) PROVE FALSE OBVIOUS
  <2>1. PICK e \in Evals, i \in 1..Count : u = <<e, i>> BY DEF Units
  <2>2. unit[u].at = "Live" /\ Settled(unit[u]) BY <2>1 DEF EvaluationsInv, FinishedTrue
  <2>3. eval[u[1]].phase # "Gone" BY DEF Terminal
  <2> QED BY <1>3, <2>2, <2>3
<1>7. FinishedTrue'
  <2> DEFINE F(e) == {i \in 1..Count : unit[<<e, i>>].phase = "Failed"}
  <2>1. ASSUME NEW e \in Evals, Terminal(e), NEW i \in 1..Count PROVE unit'[<<e, i>>] = unit[<<e, i>>]
    <3>1. <<e, i>> \in Units /\ <<e, i>>[1] = e BY UnitFields
    <3>2. <<e, i>> # u BY <1>6, <2>1, <3>1
    <3> QED BY <1>1, <3>1, <3>2
  <2>2. ASSUME NEW e \in Evals, Terminal(e) PROVE F(e)' = F(e) BY <2>1, <2>2
  <2>3. \A e \in Evals : Terminal(e)' <=> Terminal(e) BY DEF Terminal
  <2>4. ASSUME NEW e \in Evals, Terminal(e)
        PROVE  /\ \A i \in 1..Count : unit'[<<e, i>>].at = "Live" /\ Settled(unit'[<<e, i>>])
               /\ eval'[e].failed = Cardinality(F(e)') /\ eval'[e].complete = Count - Cardinality(F(e)')
               /\ (eval'[e].phase = "Failed") <=> (F(e)' # {})
    BY <2>1, <2>2, <2>4 DEF EvaluationsInv, FinishedTrue
  <2> QED BY <2>3, <2>4 DEF FinishedTrue, Settled
<1>8. EndedKept
  <2>1. ASSUME NEW e \in Evals, eval[e].phase # "Gone", NEW p \in {"Complete", "Failed"}
        PROVE  Cardinality(Ended(e, p)) <= Cardinality(Ended(e, p)')
    <3>1. Ended(e, p) \subseteq Ended(e, p)'
      <4> SUFFICES ASSUME NEW i \in 1..Count, unit[<<e, i>>].at = "Live", unit[<<e, i>>].phase = p
                   PROVE  unit'[<<e, i>>] = unit[<<e, i>>]
        BY DEF Ended
      <4>1. <<e, i>> \in Units /\ <<e, i>>[1] = e BY UnitFields
      <4>2. <<e, i>> # u BY <1>3, <2>1, <4>1 DEF Settled
      <4> QED BY <1>1, <4>1, <4>2
    <3>2. Ended(e, p)' \subseteq 1..Count BY DEF Ended
    <3>3. Count \in Nat BY DEF EvaluationsAssumption
    <3>4. IsFiniteSet(1..Count) BY <3>3, FS_Interval
    <3>5. IsFiniteSet(Ended(e, p)') BY <3>2, <3>4, FS_Subset
    <3> QED BY <3>1, <3>5, FS_Subset
  <2> QED BY <2>1 DEF EndedKept
<1> QED BY <1>1, <1>4, <1>5, <1>7, <1>8

-----------------------------------------------------------------------------
(* What every step has to keep, and the worker's knowledge                   *)

UnitsKept ==
    /\ UnitsTyped' /\ CacheTold' /\ CopiesTrue' /\ GoneTold' /\ EndedKept
WorkerKnows == WorkerTyped /\ Finalizing /\ Creating /\ Counted

LEMMA ReadKept ==
    ASSUME EvaluationsAssumption, EvaluationsInv, Read,
           \A q \in Units : unit[q].at = "Gone" => job'[q] = "None",
           \A e \in Evals : eval'[e].phase # "Gone" => eval[e].phase # "Gone"
    PROVE  UnitsKept /\ unit' = unit
BY ReadTells, ReadStep DEF UnitsKept, EvaluationsInv

LEMMA WriteKept ==
    ASSUME EvaluationsAssumption, EvaluationsInv, NEW u \in Units, NEW o \in UnitObject,
           Read \/ (GoodWrite(u, o) /\ Write(u, o)), eval' = eval, job' = job
    PROVE  /\ UnitsKept /\ FinishedTrue'
           /\ \A q \in Units : unit'[q].at = "Gone" => unit[q].at = "Gone" \/ (q = u /\ o.at = "Gone")
<1>1. CASE Read
  <2>1. \A q \in Units : unit[q].at = "Gone" => job'[q] = "None" BY DEF EvaluationsInv, GoneTold
  <2>2. UnitsKept /\ unit' = unit BY <1>1, <2>1, ReadKept
  <2>3. EvalsKept BY DEF EvalsKept, Terminal
  <2> QED BY <2>2, <2>3, FinishedKept DEF EvaluationsInv
<1>2. CASE GoodWrite(u, o) /\ Write(u, o)
  BY <1>2, Written DEF UnitsKept
<1> QED BY <1>1, <1>2

LEMMA WorkerFields ==
    ASSUME WorkerTyped
    PROVE  /\ worker.at \in {"idle", "create", "ref", "drop", "list", "lost", "settle", "update"}
           /\ worker.at # "idle" => worker.unit \in Units /\ worker.unit[1] \in Evals
           /\ worker.at = "settle" => worker.phase \in {"Complete", "Failed"}
           /\ worker.at = "update" => /\ worker.read \in EvalObject /\ worker.complete \in 0..Count
                                      /\ worker.failed \in 0..Count /\ worker.shown \in 0..Count
BY UnitFields DEF WorkerTyped, UnitReconcile, Idle

LEMMA WorkerSame ==
    ASSUME EvaluationsAssumption, EvaluationsInv, EndedKept, worker' = worker,
           \A q \in Units : job[q] = "None" => job'[q] = "None",
           worker.at = "create" => unit'[worker.unit].at # "Gone"
    PROVE  WorkerKnows'
<1>1. WorkerTyped' BY DEF EvaluationsInv, WorkerTyped
<1>2. Finalizing'
  <2> SUFFICES ASSUME worker.at = "drop"
               PROVE  eval'[worker.unit[1]].phase = "Gone" /\ job'[worker.unit] = "None"
    BY DEF Finalizing
  <2>1. eval[worker.unit[1]].phase = "Gone" /\ job[worker.unit] = "None" BY DEF EvaluationsInv, Finalizing
  <2>2. worker.unit \in Units /\ worker.unit[1] \in Evals BY WorkerFields DEF EvaluationsInv
  <2> QED BY <2>1, <2>2 DEF EndedKept
<1>3. Creating' BY DEF Creating
<1>4. Counted'
  <2> SUFFICES ASSUME worker.at = "update"
               PROVE  /\ worker.read.phase \in {"Pending", "Running"}
                      /\ eval'[worker.unit[1]].phase # "Gone" =>
                            /\ worker.complete <= Cardinality(Ended(worker.unit[1], "Complete")')
                            /\ worker.failed <= Cardinality(Ended(worker.unit[1], "Failed")')
    BY DEF Counted, Ended
  <2> DEFINE e == worker.unit[1]
  <2>1. /\ e \in Evals /\ worker.complete \in Int /\ worker.failed \in Int
    <3>1. worker.complete \in 0..Count /\ worker.failed \in 0..Count /\ e \in Evals
      BY WorkerFields DEF EvaluationsInv
    <3> QED BY <3>1
  <2>2. /\ worker.read.phase \in {"Pending", "Running"}
        /\ eval[e].phase # "Gone" => /\ worker.complete <= Cardinality(Ended(e, "Complete"))
                                     /\ worker.failed <= Cardinality(Ended(e, "Failed"))
    BY DEF EvaluationsInv, Counted
  <2>3. eval'[e].phase # "Gone" =>
           /\ eval[e].phase # "Gone"
           /\ Cardinality(Ended(e, "Complete")) <= Cardinality(Ended(e, "Complete")')
           /\ Cardinality(Ended(e, "Failed")) <= Cardinality(Ended(e, "Failed")')
    BY <2>1 DEF EndedKept
  <2>4. /\ Cardinality(Ended(e, "Complete")) \in Int /\ Cardinality(Ended(e, "Failed")) \in Int
    BY EndedFinite
  <2>5. /\ Cardinality(Ended(e, "Complete")') \in Int /\ Cardinality(Ended(e, "Failed")') \in Int
    <3>1. ASSUME NEW p PROVE Cardinality(Ended(e, p)') \in 0..Count
      <4>1. Count \in Nat BY DEF EvaluationsAssumption
      <4>2. IsFiniteSet(1..Count) /\ Cardinality(1..Count) = Count BY <4>1, FS_Interval
      <4>3. Ended(e, p)' \subseteq 1..Count BY DEF Ended
      <4>4. IsFiniteSet(Ended(e, p)') /\ Cardinality(Ended(e, p)') <= Count BY <4>2, <4>3, FS_Subset
      <4> QED BY <4>1, <4>4, FS_CardinalityType
    <3> QED BY <3>1
  <2> HIDE DEF e
  <2>6. eval'[e].phase # "Gone" => /\ worker.complete <= Cardinality(Ended(e, "Complete")')
                                   /\ worker.failed <= Cardinality(Ended(e, "Failed")')
    BY <2>1, <2>2, <2>3, <2>4, <2>5
  <2> QED BY <2>2, <2>6 DEF e
<1> QED BY <1>1, <1>2, <1>3, <1>4 DEF WorkerKnows

LEMMA WorkerElse ==
    ASSUME worker' \in UnitReconcile, worker'.at \notin {"drop", "create", "update"} PROVE WorkerKnows'
BY DEF WorkerKnows, WorkerTyped, Finalizing, Creating, Counted, UnitReconcile, Units, EvalObject

-----------------------------------------------------------------------------
(* The gate                                                                  *)

LEMMA UnitWas ==
    ASSUME EvaluationsInv, NEW u \in Units
    PROVE  /\ unit[u] \in UnitObject /\ cache[u] \in UnitObject
           /\ ~Stale(u) => cache[u] = unit[u]
           /\ unit[u] = [at |-> unit[u].at, ref |-> unit[u].ref, born |-> unit[u].born,
                         phase |-> unit[u].phase]
<1>1. unit[u] \in UnitObject /\ cache[u] \in UnitObject BY DEF EvaluationsInv, UnitsTyped
<1> QED BY <1>1, FreshCopy DEF EvaluationsInv, UnitObject

LEMMA EnsuredUnit == ASSUME EvaluationsInv, gate.at \in {"create", "settle"} PROVE Ensured \in Units
BY UnitFields DEF EvaluationsInv, GateTyped, Ensured

LEMMA OnwardTyped ==
    ASSUME EvaluationsAssumption, EvaluationsInv, gate.at \in {"create", "settle"},
           gate' = Onward(gate.index)
    PROVE  GateTyped'
<1> DEFINE G == [at: {"idle", "create", "settle", "phase"}, eval: Evals \cup {0}, index: 0..Count + 1]
<1>1. Count \in Nat \ {0} BY DEF EvaluationsAssumption
<1>2. gate \in G /\ gate.eval \in Evals /\ gate.index \in 1..Count BY DEF EvaluationsInv, GateTyped
<1>3. gate' = [gate EXCEPT !.at = IF gate.index = Count THEN "phase" ELSE "create", !.index = gate.index + 1]
  BY DEF Onward
<1>4. /\ gate'.at = (IF gate.index = Count THEN "phase" ELSE "create")
      /\ gate'.eval = gate.eval /\ gate'.index = gate.index + 1
      /\ gate' = [at |-> gate'.at, eval |-> gate'.eval, index |-> gate'.index]
  BY <1>2, <1>3
<1>5. gate'.at \in {"create", "phase"} /\ gate'.index \in 1..Count + 1
      /\ gate'.at = "create" => gate'.index \in 1..Count
  BY <1>1, <1>2, <1>4
<1>6. gate' \in G BY <1>1, <1>2, <1>4, <1>5
<1> QED BY <1>2, <1>4, <1>5, <1>6 DEF GateTyped

\* A step of the gate that writes no Evaluation.
LEMMA GateKeeps ==
    ASSUME EvaluationsAssumption, EvaluationsInv, NEW u \in Units, NEW o \in UnitObject,
           Read \/ (GoodWrite(u, o) /\ Write(u, o) /\ o.at # "Gone"),
           UNCHANGED <<eval, job, todo, worker, second, faults>>, GateTyped'
    PROVE  EvaluationsInv'
<1>1. eval' = eval /\ job' = job OBVIOUS
<1>2. /\ UnitsKept /\ FinishedTrue'
      /\ \A q \in Units : unit'[q].at = "Gone" => unit[q].at = "Gone"
  BY <1>1, WriteKept DEF Read
<1>3. worker.at = "create" => unit'[worker.unit].at # "Gone"
  BY <1>2, WorkerFields DEF EvaluationsInv, Creating
<1>4. WorkerKnows' BY <1>1, <1>2, <1>3, WorkerSame DEF UnitsKept
<1>5. EvalsTyped' /\ RestTyped' BY DEF EvaluationsInv, EvalsTyped, RestTyped
<1> QED BY <1>2, <1>4, <1>5 DEF EvaluationsInv, UnitsKept, WorkerKnows

LEMMA EnsureUnitKeeps ==
    ASSUME EvaluationsAssumption, EvaluationsInv, EnsureUnit PROVE EvaluationsInv'
<1> DEFINE o == [NoUnit EXCEPT !.at = "Live", !.born = second]
<1>1. gate.at = "create" /\ Ensured \in Units BY EnsuredUnit DEF EnsureUnit
<1>2. second \in 0..LastSecond BY DEF EvaluationsInv, RestTyped
<1>3. o \in UnitObject /\ o.at = "Live" /\ ~Settled(o) BY <1>2 DEF NoUnit, UnitObject, Settled
<1> HIDE DEF o
<1>4. Read \/ (GoodWrite(Ensured, o) /\ Write(Ensured, o) /\ o.at # "Gone")
  BY <1>3 DEF EnsureUnit, GoodWrite, o
<1>5. UNCHANGED <<eval, job, todo, worker, second, faults>> BY DEF EnsureUnit
<1>6. GateTyped'
  <2>1. CASE gate' = [gate EXCEPT !.at = "settle"] BY <1>1, <2>1 DEF EvaluationsInv, GateTyped
  <2>2. CASE gate' = Onward(gate.index) BY <1>1, <2>2, OnwardTyped
  <2> QED BY <2>1, <2>2 DEF EnsureUnit
<1> QED BY <1>1, <1>3, <1>4, <1>5, <1>6, GateKeeps

LEMMA SettleUnavailableKeeps ==
    ASSUME EvaluationsAssumption, EvaluationsInv, SettleUnavailable PROVE EvaluationsInv'
<1> DEFINE o == [unit[Ensured] EXCEPT !.phase = "Failed"]
<1>1. gate.at = "settle" /\ Ensured \in Units BY EnsuredUnit DEF SettleUnavailable
<1>2. /\ unit[Ensured] \in UnitObject
      /\ ~Stale(Ensured) => cache[Ensured] = unit[Ensured]
  BY <1>1, UnitWas
<1>3. o \in UnitObject /\ o.at = unit[Ensured].at BY <1>2 DEF UnitObject
<1> HIDE DEF o
<1>4. Read \/ (GoodWrite(Ensured, o) /\ Write(Ensured, o) /\ o.at # "Gone")
  BY <1>2, <1>3 DEF SettleUnavailable, GoodWrite, Exists, o
<1>5. UNCHANGED <<eval, job, todo, worker, second, faults>> /\ GateTyped'
  BY <1>1, OnwardTyped DEF SettleUnavailable
<1> QED BY <1>1, <1>3, <1>4, <1>5, GateKeeps

LEMMA MoveToRunningKeeps ==
    ASSUME EvaluationsAssumption, EvaluationsInv, MoveToRunning PROVE EvaluationsInv'
<1>1. /\ gate.at = "phase" /\ gate' = NoGate /\ Read /\ UNCHANGED <<job, todo, worker, second, faults>>
      /\ eval' = [eval EXCEPT ![gate.eval].phase = IF @ = "Pending" THEN "Running" ELSE @]
  BY DEF MoveToRunning
<1>2. gate.eval \in Evals /\ eval \in [Evals -> EvalObject] BY <1>1 DEF EvaluationsInv, GateTyped, EvalsTyped
<1>3. /\ eval' \in [Evals -> EvalObject] /\ EvalsKept
      /\ \A e \in Evals : eval'[e].phase # "Gone" => eval[e].phase # "Gone"
  BY <1>1, <1>2 DEF EvalsKept, Terminal, EvalObject
<1>4. UnitsKept /\ unit' = unit
  <2>1. \A q \in Units : unit[q].at = "Gone" => job'[q] = "None" BY <1>1 DEF EvaluationsInv, GoneTold
  <2> QED BY <1>1, <1>3, <2>1, ReadKept
<1>5. FinishedTrue' BY <1>3, <1>4, FinishedKept DEF EvaluationsInv
<1>6. WorkerKnows' BY <1>1, <1>4, WorkerSame DEF EvaluationsInv, Creating, UnitsKept
<1>7. GateTyped'
  <2>1. Count \in Nat BY DEF EvaluationsAssumption
  <2> QED BY <1>1, <2>1 DEF GateTyped, NoGate
<1>8. RestTyped' BY <1>1 DEF EvaluationsInv, RestTyped
<1> QED BY <1>3, <1>4, <1>5, <1>6, <1>7, <1>8 DEF EvaluationsInv, EvalsTyped, UnitsKept, WorkerKnows

-----------------------------------------------------------------------------
(* Submission, deletion, Jobs and time                                       *)

LEMMA EvalWritten ==
    ASSUME EvaluationsAssumption, EvaluationsInv, NEW e \in Evals, Submit(e) \/ Cancel(e) \/ Expire(e)
    PROVE  EvaluationsInv'
<1>1. Read /\ UNCHANGED <<job, gate, todo, worker, second, faults>>
  BY DEF Submit, Cancel, Expire, Removed
<1>2. eval \in [Evals -> EvalObject] BY DEF EvaluationsInv, EvalsTyped
<1>3. /\ eval' \in [Evals -> EvalObject] /\ EvalsKept
      /\ \A q \in Evals : eval'[q].phase # "Gone" => eval[q].phase # "Gone"
  <2>1. CASE Submit(e) BY <1>2, <2>1 DEF Submit, EvalsKept, Terminal, EvalObject
  <2>2. CASE Removed(e)
    <3> DEFINE g == [NoEval EXCEPT !.phase = "Gone"]
    <3>1. 0 \in 0..Count BY DEF EvaluationsAssumption
    <3>2. NoEval \in EvalObject BY <3>1 DEF NoEval, EvalObject
    <3>3. g \in EvalObject /\ g.phase = "Gone" BY <3>2 DEF EvalObject
    <3>4. eval' = [eval EXCEPT ![e] = g] BY <2>2 DEF Removed
    <3> HIDE DEF g
    <3> QED BY <1>2, <3>3, <3>4 DEF EvalsKept, Terminal
  <2> QED BY <2>1, <2>2 DEF Cancel, Expire
<1>4. UnitsKept /\ unit' = unit
  <2>1. \A q \in Units : unit[q].at = "Gone" => job'[q] = "None" BY <1>1 DEF EvaluationsInv, GoneTold
  <2> QED BY <1>1, <1>3, <2>1, ReadKept
<1>5. FinishedTrue' BY <1>3, <1>4, FinishedKept DEF EvaluationsInv
<1>6. WorkerKnows' BY <1>1, <1>4, WorkerSame DEF EvaluationsInv, Creating, UnitsKept
<1>7. GateTyped' /\ RestTyped' BY <1>1 DEF EvaluationsInv, GateTyped, RestTyped
<1> QED BY <1>3, <1>4, <1>5, <1>6, <1>7 DEF EvaluationsInv, EvalsTyped, UnitsKept, WorkerKnows

\* A step that writes neither a unit nor an Evaluation.
LEMMA QuietKeeps ==
    ASSUME EvaluationsAssumption, EvaluationsInv, UnitsKept, unit' = unit, eval' = eval,
           GateTyped', RestTyped', WorkerKnows'
    PROVE  EvaluationsInv'
<1>1. EvalsKept BY DEF EvalsKept, Terminal
<1>2. FinishedTrue' BY <1>1, FinishedKept DEF EvaluationsInv
<1>3. EvalsTyped' BY DEF EvaluationsInv, EvalsTyped
<1> QED BY <1>2, <1>3 DEF EvaluationsInv, UnitsKept, WorkerKnows

\* Of those, the steps that read, and leave the worker alone.
LEMMA IdleKeeps ==
    ASSUME EvaluationsAssumption, EvaluationsInv, Read, eval' = eval, worker' = worker,
           \A q \in Units : job[q] = "None" => job'[q] = "None",
           GateTyped', RestTyped'
    PROVE  EvaluationsInv'
<1>1. \A q \in Units : unit[q].at = "Gone" => job'[q] = "None" BY DEF EvaluationsInv, GoneTold
<1>2. UnitsKept /\ unit' = unit BY <1>1, ReadKept
<1>3. WorkerKnows' BY <1>2, WorkerSame DEF EvaluationsInv, Creating, UnitsKept
<1> QED BY <1>2, <1>3, QuietKeeps

LEMMA JobKeeps ==
    ASSUME EvaluationsAssumption, EvaluationsInv, NEW u \in Units, JobFinishes(u) \/ JobVanishes(u)
    PROVE  EvaluationsInv'
<1>1. Read /\ UNCHANGED <<eval, gate, todo, worker, second>> BY DEF JobFinishes, JobVanishes
<1>2. /\ job[u] # "None" /\ job' \in {[job EXCEPT ![u] = "Done"], [job EXCEPT ![u] = "None"]}
      /\ faults' \in 0..MaxFaults
  BY DEF JobFinishes, JobVanishes, EvaluationsInv, RestTyped, EvaluationsAssumption
<1>3. job \in [Units -> {"None", "Active", "Done"}] BY DEF EvaluationsInv, RestTyped
<1>4. \A q \in Units : job[q] = "None" => job'[q] = "None" BY <1>2, <1>3
<1>5. GateTyped' /\ RestTyped' BY <1>1, <1>2, <1>3 DEF EvaluationsInv, GateTyped, RestTyped
<1> QED BY <1>1, <1>4, <1>5, IdleKeeps

LEMMA TickKeeps == ASSUME EvaluationsAssumption, EvaluationsInv, Tick PROVE EvaluationsInv'
<1>1. Read /\ UNCHANGED <<eval, job, worker>> BY DEF Tick, Read
<1>2. GateTyped' /\ RestTyped' BY DEF Tick, EvaluationsInv, GateTyped, RestTyped, EvaluationsAssumption
<1> QED BY <1>1, <1>2, IdleKeeps

LEMMA GateStartKeeps ==
    ASSUME EvaluationsAssumption, EvaluationsInv, NEW e \in Evals, GateStart(e) PROVE EvaluationsInv'
<1>1. Read /\ UNCHANGED <<eval, job, worker, todo, second, faults>> BY DEF GateStart
<1>2. Count \in Nat \ {0} BY DEF EvaluationsAssumption
<1>3. gate' = [at |-> "create", eval |-> e, index |-> 1] BY DEF GateStart
<1>4. GateTyped' BY <1>2, <1>3 DEF GateTyped
<1>5. RestTyped' BY <1>1 DEF EvaluationsInv, RestTyped
<1> QED BY <1>1, <1>4, <1>5, IdleKeeps

LEMMA GateFailsKeeps == ASSUME EvaluationsAssumption, EvaluationsInv, GateFails PROVE EvaluationsInv'
<1>1. Read /\ UNCHANGED <<eval, job, worker, todo, second>> /\ gate' = NoGate BY DEF GateFails
<1>2. GateTyped' BY <1>1 DEF GateTyped, NoGate, EvaluationsAssumption
<1>3. RestTyped' BY <1>1 DEF GateFails, EvaluationsInv, RestTyped, EvaluationsAssumption
<1> QED BY <1>1, <1>2, <1>3, IdleKeeps

LEMMA ObserveKeeps == ASSUME EvaluationsAssumption, EvaluationsInv, Observe PROVE EvaluationsInv'
<1>1. UNCHANGED <<eval, unit, job, gate, todo, worker, second, faults>> BY DEF Observe
<1>2. UnitsTyped' /\ CacheTold' /\ \A q \in Units : Copies(q)' \subseteq Copies(q)
  BY ObserveTells DEF EvaluationsInv
<1>3. CopiesTrue' /\ GoneTold' /\ EndedKept
  <2>1. \A q \in Units : unit[q].at = "Gone" => job'[q] = "None" BY <1>1 DEF EvaluationsInv, GoneTold
  <2> QED BY <1>1, <1>2, <2>1, ReadStep
<1>4. WorkerKnows' BY <1>1, <1>3, WorkerSame DEF EvaluationsInv, Creating
<1>5. GateTyped' /\ RestTyped' BY <1>1 DEF EvaluationsInv, GateTyped, RestTyped
<1> QED BY <1>1, <1>2, <1>3, <1>4, <1>5, QuietKeeps DEF UnitsKept

-----------------------------------------------------------------------------
(* The pass that grants                                                      *)

LEMMA UnitsFinite == ASSUME EvaluationsAssumption PROVE IsFiniteSet(Units)
<1>1. IsFiniteSet(Evals) /\ Count \in Nat BY DEF EvaluationsAssumption
<1>2. IsFiniteSet(1..Count) BY <1>1, FS_Interval
<1> QED BY <1>1, <1>2, FS_Product DEF Units

LEMMA ScheduleKeeps == ASSUME EvaluationsAssumption, EvaluationsInv, Schedule PROVE EvaluationsInv'
<1> DEFINE R == {u \in Units : Exists(cache[u]) /\ cache[u].phase = "Running"}
<1>1. Read /\ UNCHANGED <<eval, job, gate, worker, second, faults>> BY DEF Schedule
<1>2. PICK n \in 1..Slots : \E s \in [1..n -> Pending] : todo' = s BY DEF Schedule
<1>3. n \in 1..MaxConcurrent
  <2>1. IsFiniteSet(R) BY UnitsFinite, FS_Subset
  <2>2. Cardinality(R) \in Nat BY <2>1, FS_CardinalityType
  <2>3. Slots = MaxConcurrent - Cardinality(R) BY DEF Slots
  <2>4. MaxConcurrent \in Nat BY DEF EvaluationsAssumption
  <2> HIDE DEF R
  <2> QED BY <2>2, <2>3, <2>4
<1>4. todo' \in Seq(Units) /\ Len(todo') = n
  <2>1. Pending \subseteq Units BY DEF Pending
  <2>2. todo' \in [1..n -> Units] BY <1>2, <2>1
  <2> HIDE DEF Units
  <2>3. n \in Nat BY <1>3
  <2> QED BY <2>2, <2>3
<1>5. MaxConcurrent \in Nat BY DEF EvaluationsAssumption
<1>6. GateTyped' /\ RestTyped' BY <1>1, <1>3, <1>4, <1>5 DEF EvaluationsInv, GateTyped, RestTyped
<1> QED BY <1>1, <1>6, IdleKeeps

\* A step that writes a unit, and leaves the worker alone or done with.
LEMMA UnitWritten ==
    ASSUME EvaluationsAssumption, EvaluationsInv, NEW u \in Units, NEW o \in UnitObject,
           Read \/ (GoodWrite(u, o) /\ Write(u, o) /\ (worker' = worker => o.at # "Gone")),
           UNCHANGED <<eval, job, gate>>, RestTyped',
           worker' = worker \/ (worker' \in UnitReconcile /\ worker'.at \notin {"drop", "create", "update"})
    PROVE  EvaluationsInv'
<1>1. eval' = eval /\ job' = job OBVIOUS
<1>2. /\ UnitsKept /\ FinishedTrue'
      /\ \A q \in Units : unit'[q].at = "Gone" => unit[q].at = "Gone" \/ (q = u /\ o.at = "Gone")
  BY <1>1, WriteKept
<1>3. WorkerKnows'
  <2>1. CASE worker' = worker
    <3>1. worker.at = "create" => unit'[worker.unit].at # "Gone"
      BY <1>2, <2>1, WorkerFields DEF EvaluationsInv, Creating, Read
    <3> QED BY <1>1, <1>2, <2>1, <3>1, WorkerSame DEF UnitsKept
  <2>2. CASE worker' \in UnitReconcile /\ worker'.at \notin {"drop", "create", "update"}
    BY <2>2, WorkerElse
  <2> QED BY <2>1, <2>2
<1>4. EvalsTyped' /\ GateTyped' BY DEF EvaluationsInv, EvalsTyped, GateTyped
<1> QED BY <1>2, <1>3, <1>4 DEF EvaluationsInv, UnitsKept, WorkerKnows

LEMMA CollectedKeeps ==
    ASSUME EvaluationsAssumption, EvaluationsInv, NEW u \in Units, Collected(u) PROVE EvaluationsInv'
<1> DEFINE o == [unit[u] EXCEPT !.at = "Deleting"]
<1>1. unit[u] \in UnitObject BY UnitWas
<1>2. o \in UnitObject /\ o.at = "Deleting" BY <1>1 DEF UnitObject
<1>3. Write(u, o) /\ UNCHANGED <<eval, job, gate, todo, worker, second, faults>> BY DEF Collected
<1> HIDE DEF o
<1>4. GoodWrite(u, o) BY <1>2 DEF Collected, GoodWrite
<1>5. RestTyped' BY <1>3 DEF EvaluationsInv, RestTyped
<1> QED BY <1>2, <1>3, <1>4, <1>5, UnitWritten

LEMMA GrantKeeps == ASSUME EvaluationsAssumption, EvaluationsInv, Grant PROVE EvaluationsInv'
<1> DEFINE u == Head(todo)
           o == [unit[u] EXCEPT !.phase = "Running"]
<1>1. todo # <<>> /\ todo' = Tail(todo) /\ UNCHANGED <<eval, job, gate, worker, second, faults>> BY DEF Grant
<1>2. u \in Units /\ Tail(todo) \in Seq(Units) /\ Len(Tail(todo)) <= MaxConcurrent
  <2>1. todo \in Seq(Units) /\ Len(todo) <= MaxConcurrent /\ MaxConcurrent \in Nat
    BY DEF EvaluationsInv, RestTyped, EvaluationsAssumption
  <2> HIDE DEF Units
  <2> QED BY <1>1, <2>1
<1>3. Read \/ (~Stale(u) /\ Exists(cache[u]) /\ cache[u].phase = "Pending" /\ Write(u, o)) BY DEF Grant
<1> HIDE DEF u
<1>4. /\ unit[u] \in UnitObject
      /\ ~Stale(u) => cache[u] = unit[u]
  BY <1>2, UnitWas
<1>5. o \in UnitObject /\ o.at = unit[u].at BY <1>4 DEF UnitObject
<1> HIDE DEF o
<1>6. Read \/ (GoodWrite(u, o) /\ Write(u, o) /\ o.at # "Gone")
  BY <1>3, <1>4, <1>5 DEF GoodWrite, Exists, Settled
<1>7. RestTyped' BY <1>1, <1>2 DEF EvaluationsInv, RestTyped
<1> QED BY <1>1, <1>2, <1>5, <1>6, <1>7, UnitWritten

-----------------------------------------------------------------------------
(* The unit reconciler                                                       *)

\* A step of it that writes neither a unit nor an Evaluation.
LEMMA ReconcileKeeps ==
    ASSUME EvaluationsAssumption, EvaluationsInv, Read, eval' = eval,
           \A q \in Units : unit[q].at = "Gone" => job'[q] = "None",
           UNCHANGED gate, RestTyped', WorkerKnows'
    PROVE  EvaluationsInv'
<1>1. UnitsKept /\ unit' = unit BY ReadKept
<1>2. GateTyped' BY DEF EvaluationsInv, GateTyped
<1> QED BY <1>1, <1>2, QuietKeeps

LEMMA LaunchKeeps ==
    ASSUME EvaluationsAssumption, EvaluationsInv, NEW u \in Units, Launch(u) PROVE EvaluationsInv'
<1>1. Read /\ UNCHANGED <<eval, job, gate, todo, second, faults>> BY DEF Launch
<1>2. \A q \in Units : unit[q].at = "Gone" => job'[q] = "None" BY <1>1 DEF EvaluationsInv, GoneTold
<1>3. RestTyped' BY <1>1 DEF EvaluationsInv, RestTyped
<1>4. WorkerKnows'
  <2>1. CASE worker' = [at |-> "settle", unit |-> u, phase |-> "Failed"]
    BY <2>1, WorkerElse DEF UnitReconcile
  <2>2. CASE worker' = [at |-> "lost", unit |-> u]
    BY <2>2, WorkerElse DEF UnitReconcile
  <2>3. CASE worker' = [at |-> "create", unit |-> u]
    <3>1. unit[u].at # "Gone"
      <4>1. cache[u].at = "Live" BY DEF Launch, Launching
      <4> QED BY <4>1, CacheIsCopy DEF EvaluationsInv, GoneTold
    <3>2. unit' = unit BY <1>1 DEF Read
    <3>3. worker' \in UnitReconcile BY <2>3 DEF UnitReconcile
    <3> QED BY <2>3, <3>1, <3>2, <3>3 DEF WorkerKnows, WorkerTyped, Finalizing, Creating, Counted, UnitReconcile, Units, EvalObject
  <2> QED BY <2>1, <2>2, <2>3 DEF Launch
<1> QED BY <1>1, <1>2, <1>3, <1>4, ReconcileKeeps

LEMMA CreateEvalKeeps == ASSUME EvaluationsAssumption, EvaluationsInv, CreateEval PROVE EvaluationsInv'
<1> DEFINE u == worker.unit
<1>1. /\ worker.at = "create" /\ Read /\ UNCHANGED <<eval, gate, todo, second, faults>>
      /\ job' = [job EXCEPT ![u] = IF @ = "None" THEN "Active" ELSE @]
      /\ worker' = [at |-> "ref", unit |-> u]
  BY DEF CreateEval
<1>2. u \in Units BY <1>1, WorkerFields DEF EvaluationsInv
<1>3. unit[u].at # "Gone" BY <1>1 DEF EvaluationsInv, Creating
<1>4. job \in [Units -> {"None", "Active", "Done"}] BY DEF EvaluationsInv, RestTyped
<1>5. \A q \in Units : unit[q].at = "Gone" => job'[q] = "None"
  <2>1. \A q \in Units : unit[q].at = "Gone" => job[q] = "None" BY DEF EvaluationsInv, GoneTold
  <2> HIDE DEF u
  <2> QED BY <1>1, <1>2, <1>3, <1>4, <2>1
<1> HIDE DEF u
<1>6. RestTyped' BY <1>1, <1>2, <1>4 DEF EvaluationsInv, RestTyped
<1>7. WorkerKnows' BY <1>1, <1>2, WorkerElse DEF UnitReconcile
<1> QED BY <1>1, <1>5, <1>6, <1>7, ReconcileKeeps

LEMMA CollectKeeps ==
    ASSUME EvaluationsAssumption, EvaluationsInv, NEW u \in Units, Collect(u) PROVE EvaluationsInv'
<1>1. Read /\ UNCHANGED <<eval, job, gate, todo, second, faults>> BY DEF Collect
<1>2. \A q \in Units : unit[q].at = "Gone" => job'[q] = "None" BY <1>1 DEF EvaluationsInv, GoneTold
<1>3. RestTyped' BY <1>1 DEF EvaluationsInv, RestTyped
<1>4. PICK p \in {"Complete", "Failed"} : worker' = [at |-> "settle", unit |-> u, phase |-> p]
  BY DEF Collect
<1>5. WorkerKnows' BY <1>4, WorkerElse DEF UnitReconcile
<1> QED BY <1>1, <1>2, <1>3, <1>5, ReconcileKeeps

LEMMA FinalizeKeeps ==
    ASSUME EvaluationsAssumption, EvaluationsInv, NEW u \in Units, Finalize(u) PROVE EvaluationsInv'
<1>1. /\ Read /\ UNCHANGED <<eval, gate, todo, second, faults>>
      /\ cache[u].at = "Deleting" /\ job' = [job EXCEPT ![u] = "None"] /\ worker' = [at |-> "drop", unit |-> u]
  BY DEF Finalize
<1>2. job \in [Units -> {"None", "Active", "Done"}] BY DEF EvaluationsInv, RestTyped
<1>3. \A q \in Units : unit[q].at = "Gone" => job'[q] = "None"
  <2>1. \A q \in Units : unit[q].at = "Gone" => job[q] = "None" BY DEF EvaluationsInv, GoneTold
  <2> QED BY <1>1, <1>2, <2>1
<1>4. RestTyped' BY <1>1, <1>2 DEF EvaluationsInv, RestTyped
<1>5. eval[u[1]].phase = "Gone"
  <2>1. ~TellsTrue(cache[u], u) BY <1>1 DEF TellsTrue, Present
  <2> QED BY <2>1, CacheIsCopy DEF EvaluationsInv, CopiesTrue
<1>6. worker' \in UnitReconcile BY <1>1 DEF UnitReconcile
<1>7. WorkerKnows' BY <1>1, <1>2, <1>5, <1>6 DEF WorkerKnows, WorkerTyped, Finalizing, Creating, Counted, UnitReconcile, Units, EvalObject
<1> QED BY <1>1, <1>3, <1>4, <1>7, ReconcileKeeps

LEMMA CallFailsKeeps == ASSUME EvaluationsAssumption, EvaluationsInv, CallFails PROVE EvaluationsInv'
<1>1. Read /\ UNCHANGED <<eval, job, gate, second>> /\ worker' = Idle BY DEF CallFails
<1>2. \A q \in Units : unit[q].at = "Gone" => job'[q] = "None" BY <1>1 DEF EvaluationsInv, GoneTold
<1>3. RestTyped' BY DEF CallFails, EvaluationsInv, RestTyped, EvaluationsAssumption
<1>4. WorkerKnows' BY <1>1, WorkerElse DEF UnitReconcile, Idle
<1> QED BY <1>1, <1>2, <1>3, <1>4, ReconcileKeeps

LEMMA CrashKeeps == ASSUME EvaluationsAssumption, EvaluationsInv, Crash PROVE EvaluationsInv'
<1>1. UNCHANGED <<eval, unit, job, second>> /\ worker' = Idle /\ gate' = NoGate BY DEF Crash
<1>2. UnitsTyped' /\ CacheTold' /\ \A q \in Units : Copies(q)' \subseteq Copies(q)
  BY CrashTells DEF EvaluationsInv
<1>3. CopiesTrue' /\ GoneTold' /\ EndedKept
  <2>1. \A q \in Units : unit[q].at = "Gone" => job'[q] = "None" BY <1>1 DEF EvaluationsInv, GoneTold
  <2> QED BY <1>1, <1>2, <2>1, ReadStep
<1>4. WorkerKnows' BY <1>1, WorkerElse DEF UnitReconcile, Idle
<1>5. GateTyped'
  <2>1. Count \in Nat BY DEF EvaluationsAssumption
  <2> QED BY <1>1, <2>1 DEF GateTyped, NoGate
<1>6. RestTyped' BY DEF Crash, EvaluationsInv, RestTyped, EvaluationsAssumption
<1> QED BY <1>1, <1>2, <1>3, <1>4, <1>5, <1>6, QuietKeeps DEF UnitsKept

LEMMA MarkWorkspaceLostKeeps ==
    ASSUME EvaluationsAssumption, EvaluationsInv, MarkWorkspaceLost PROVE EvaluationsInv'
<1> DEFINE u == worker.unit
<1>1. /\ worker.at = "lost" /\ Read /\ UNCHANGED <<job, gate, todo, second, faults>>
      /\ eval' = [eval EXCEPT ![u[1]].stalled = @ \/ There(u[1])]
      /\ worker' = [at |-> "settle", unit |-> u, phase |-> "Failed"]
  BY DEF MarkWorkspaceLost
<1>2. u \in Units /\ u[1] \in Evals BY <1>1, WorkerFields DEF EvaluationsInv
<1> HIDE DEF u
<1>3. /\ eval' \in [Evals -> EvalObject] /\ EvalsKept
      /\ \A e \in Evals : eval'[e].phase # "Gone" => eval[e].phase # "Gone"
  <2>1. eval \in [Evals -> EvalObject] BY DEF EvaluationsInv, EvalsTyped
  <2>2. PICK b \in BOOLEAN : eval' = [eval EXCEPT ![u[1]].stalled = b]
    <3>1. eval[u[1]].stalled \in BOOLEAN BY <1>2, <2>1 DEF EvalObject
    <3>2. (eval[u[1]].stalled \/ There(u[1])) \in BOOLEAN BY <3>1 DEF There
    <3> QED BY <1>1, <1>2, <2>1, <3>2
  <2> QED BY <1>2, <2>1, <2>2 DEF EvalsKept, Terminal, EvalObject
<1>4. UnitsKept /\ unit' = unit
  <2>1. \A q \in Units : unit[q].at = "Gone" => job'[q] = "None" BY <1>1 DEF EvaluationsInv, GoneTold
  <2> QED BY <1>1, <1>3, <2>1, ReadKept
<1>5. FinishedTrue' BY <1>3, <1>4, FinishedKept DEF EvaluationsInv
<1>6. WorkerKnows' BY <1>1, <1>2, WorkerElse DEF UnitReconcile
<1>7. GateTyped' /\ RestTyped' BY <1>1 DEF EvaluationsInv, GateTyped, RestTyped
<1> QED BY <1>3, <1>4, <1>5, <1>6, <1>7 DEF EvaluationsInv, EvalsTyped, UnitsKept, WorkerKnows

LEMMA RecordJobKeeps == ASSUME EvaluationsAssumption, EvaluationsInv, RecordJob PROVE EvaluationsInv'
<1> DEFINE u == worker.unit
           o == [unit[u] EXCEPT !.ref = TRUE]
<1>1. worker.at = "ref" /\ worker' = Idle /\ UNCHANGED <<eval, job, gate, todo, second, faults>>
  BY DEF RecordJob
<1>2. Read \/ (~Stale(u) /\ Exists(cache[u]) /\ cache[u].phase = "Running" /\ Write(u, o)) BY DEF RecordJob
<1>3. u \in Units BY <1>1, WorkerFields DEF EvaluationsInv
<1> HIDE DEF u
<1>4. /\ unit[u] \in UnitObject
      /\ ~Stale(u) => cache[u] = unit[u]
  BY <1>3, UnitWas
<1>5. o \in UnitObject /\ o.at = unit[u].at BY <1>4 DEF UnitObject
<1> HIDE DEF o
<1>6. Read \/ (GoodWrite(u, o) /\ Write(u, o) /\ o.at # "Gone")
  BY <1>2, <1>4, <1>5 DEF GoodWrite, Exists, Settled
<1>7. RestTyped' BY <1>1 DEF EvaluationsInv, RestTyped
<1>8. worker' \in UnitReconcile /\ worker'.at \notin {"drop", "create", "update"}
  BY <1>1 DEF UnitReconcile, Idle
<1> QED BY <1>1, <1>3, <1>5, <1>6, <1>7, <1>8, UnitWritten

LEMMA SettleKeeps == ASSUME EvaluationsAssumption, EvaluationsInv, Settle PROVE EvaluationsInv'
<1> DEFINE u == worker.unit
           o == [unit[u] EXCEPT !.phase = worker.phase]
<1>1. /\ worker.at = "settle" /\ worker' = [at |-> "list", unit |-> u]
      /\ UNCHANGED <<eval, job, gate, todo, second, faults>>
  BY DEF Settle
<1>2. Read \/ (~Stale(u) /\ Exists(cache[u]) /\ ~Settled(cache[u]) /\ Write(u, o)) BY DEF Settle
<1>3. u \in Units /\ worker.phase \in {"Complete", "Failed"} BY <1>1, WorkerFields DEF EvaluationsInv
<1> HIDE DEF u
<1>4. /\ unit[u] \in UnitObject
      /\ ~Stale(u) => cache[u] = unit[u]
  BY <1>3, UnitWas
<1>5. o \in UnitObject /\ o.at = unit[u].at BY <1>3, <1>4 DEF UnitObject
<1> HIDE DEF o
<1>6. Read \/ (GoodWrite(u, o) /\ Write(u, o) /\ o.at # "Gone")
  BY <1>2, <1>4, <1>5 DEF GoodWrite, Exists
<1>7. RestTyped' BY <1>1 DEF EvaluationsInv, RestTyped
<1>8. worker' \in UnitReconcile /\ worker'.at \notin {"drop", "create", "update"}
  BY <1>1, <1>3 DEF UnitReconcile
<1> QED BY <1>1, <1>3, <1>5, <1>6, <1>7, <1>8, UnitWritten

LEMMA DropFinalizerKeeps ==
    ASSUME EvaluationsAssumption, EvaluationsInv, DropFinalizer PROVE EvaluationsInv'
<1> DEFINE u == worker.unit
           o == [unit[u] EXCEPT !.at = "Gone"]
<1>1. worker.at = "drop" /\ worker' = Idle /\ UNCHANGED <<eval, job, gate, todo, second, faults>>
  BY DEF DropFinalizer
<1>2. Read \/ (~Stale(u) /\ unit[u].at = "Deleting" /\ Write(u, o)) BY DEF DropFinalizer
<1>3. u \in Units BY <1>1, WorkerFields DEF EvaluationsInv
<1>4. eval[u[1]].phase = "Gone" /\ job[u] = "None" BY <1>1 DEF EvaluationsInv, Finalizing
<1> HIDE DEF u
<1>5. unit[u] \in UnitObject BY <1>3, UnitWas
<1>6. o \in UnitObject /\ o.at = "Gone" BY <1>5 DEF UnitObject
<1> HIDE DEF o
<1>7. Read \/ (GoodWrite(u, o) /\ Write(u, o)) BY <1>2, <1>4, <1>6 DEF GoodWrite
<1>8. RestTyped' BY <1>1 DEF EvaluationsInv, RestTyped
<1>9. worker' \in UnitReconcile /\ worker'.at \notin {"drop", "create", "update"} /\ worker' # worker
  BY <1>1 DEF UnitReconcile, Idle
<1> QED BY <1>1, <1>3, <1>6, <1>7, <1>8, <1>9, UnitWritten

-----------------------------------------------------------------------------
(* The roll-up of an Evaluation                                              *)

\* What the list shows as ended has ended that way, though the list be old.
LEMMA ListedEnded ==
    ASSUME EvaluationsInv, NEW e \in Evals, eval[e].phase # "Gone", NEW p \in {"Complete", "Failed"}
    PROVE  Listed(e, p) \subseteq Ended(e, p)
<1> SUFFICES ASSUME NEW i \in Listed(e, p) PROVE i \in Ended(e, p) OBVIOUS
<1> DEFINE u == <<e, i>>
<1>1. i \in 1..Count /\ cache[u].phase = p BY DEF Listed, Shown
<1>2. u \in Units /\ u[1] = e BY <1>1, UnitFields
<1> HIDE DEF u
<1>3. TellsTrue(cache[u], u) BY <1>2, CacheIsCopy DEF EvaluationsInv, CopiesTrue
<1>4. unit[u].at = "Live" /\ unit[u].phase = p BY <1>1, <1>3 DEF TellsTrue, Settled
<1> QED BY <1>1, <1>4 DEF Ended, u

LEMMA ListUnitsKeeps == ASSUME EvaluationsAssumption, EvaluationsInv, ListUnits PROVE EvaluationsInv'
<1>1. worker.at = "list" BY DEF ListUnits
<1>2. PICK u \in Units, e \in Evals : u = worker.unit /\ e = u[1]
  BY <1>1, WorkerFields DEF EvaluationsInv
<1> DEFINE c == Cardinality(Listed(e, "Complete"))
           f == Cardinality(Listed(e, "Failed"))
           s == Cardinality(Shown(e))
           w == [at |-> "update", unit |-> u, read |-> eval[e], complete |-> c, failed |-> f, shown |-> s]
<1>3. /\ Read /\ UNCHANGED <<eval, job, gate, todo, second, faults>>
      /\ worker' = IF ~There(e) \/ Terminal(e) THEN Idle ELSE w
  BY <1>2 DEF ListUnits
<1>4. \A q \in Units : unit[q].at = "Gone" => job'[q] = "None" BY <1>3 DEF EvaluationsInv, GoneTold
<1>5. RestTyped' BY <1>3 DEF EvaluationsInv, RestTyped
<1>6. WorkerKnows'
  <2>1. CASE worker' = Idle BY <2>1, WorkerElse DEF UnitReconcile, Idle
  <2>2. CASE There(e) /\ ~Terminal(e) /\ worker' = w
    <3>1. eval[e] \in EvalObject /\ eval[e].phase \in {"Pending", "Running"}
      BY <1>2, <2>2 DEF EvaluationsInv, EvalsTyped, EvalObject, There, Terminal
    <3>2. c \in 0..Count /\ f \in 0..Count /\ s \in 0..Count
      <4>1. Count \in Nat BY DEF EvaluationsAssumption
      <4>2. IsFiniteSet(1..Count) /\ Cardinality(1..Count) = Count BY <4>1, FS_Interval
      <4>3. ASSUME NEW S \in SUBSET (1..Count) PROVE Cardinality(S) \in 0..Count
        <5>1. IsFiniteSet(S) /\ Cardinality(S) <= Count BY <4>2, FS_Subset
        <5> QED BY <4>1, <5>1, FS_CardinalityType
      <4>4. Shown(e) \subseteq 1..Count /\ \A p : Listed(e, p) \subseteq 1..Count BY DEF Shown, Listed
      <4> QED BY <4>3, <4>4
    <3>3. worker' \in UnitReconcile
      <4> HIDE DEF c, f, s
      <4> QED BY <1>2, <2>2, <3>1, <3>2 DEF UnitReconcile
    <3>4. c <= Cardinality(Ended(e, "Complete")) /\ f <= Cardinality(Ended(e, "Failed"))
      <4>1. \A p \in {"Complete", "Failed"} : Listed(e, p) \subseteq Ended(e, p) BY <1>2, <3>1, ListedEnded
      <4>2. IsFiniteSet(Ended(e, "Complete")) /\ IsFiniteSet(Ended(e, "Failed")) BY EndedFinite
      <4> QED BY <4>1, <4>2, FS_Subset
    <3>5. \A q, p : Ended(q, p)' = Ended(q, p) BY <1>3 DEF Ended, Read
    <3>6. /\ worker'.at = "update" /\ worker'.unit[1] = e /\ worker'.read = eval[e]
          /\ worker'.complete = c /\ worker'.failed = f
      BY <1>2, <2>2
    <3> HIDE DEF c, f, s
    <3>7. Counted'
      <4>1. /\ worker'.complete <= Cardinality(Ended(e, "Complete")')
            /\ worker'.failed <= Cardinality(Ended(e, "Failed")')
        BY <3>4, <3>5, <3>6
      <4> QED BY <3>1, <3>6, <4>1 DEF Counted, Ended
    <3> QED BY <3>3, <3>6, <3>7 DEF WorkerKnows, WorkerTyped, Finalizing, Creating
  <2> QED BY <1>3, <2>1, <2>2
<1> QED BY <1>3, <1>4, <1>5, <1>6, ReconcileKeeps

\* The verdict: where enough units were counted they are all of them.
LEMMA OutcomeTrue ==
    ASSUME EvaluationsAssumption, EvaluationsInv, worker.at = "update", NEW e \in Evals,
           e = worker.unit[1], eval[e] = worker.read, Outcome # worker.read.phase
    PROVE  LET failed == {i \in 1..Count : unit[<<e, i>>].phase = "Failed"} IN
           /\ \A i \in 1..Count : unit[<<e, i>>].at = "Live" /\ Settled(unit[<<e, i>>])
           /\ worker.failed = Cardinality(failed) /\ worker.complete = Count - Cardinality(failed)
           /\ Outcome \in {"Complete", "Failed"}
           /\ (Outcome = "Failed") <=> (failed # {})
<1> DEFINE C == Ended(e, "Complete")
           F == Ended(e, "Failed")
           failed == {i \in 1..Count : unit[<<e, i>>].phase = "Failed"}
<1>1. worker.complete \in 0..Count /\ worker.failed \in 0..Count BY WorkerFields DEF EvaluationsInv
<1>2. worker.complete <= Cardinality(C) /\ worker.failed <= Cardinality(F)
  BY DEF EvaluationsInv, Counted
<1>3. /\ worker.complete + worker.failed >= Count
      /\ Outcome = IF worker.failed > 0 THEN "Failed" ELSE "Complete"
  BY <1>1 DEF Outcome, EvaluationsAssumption
<1>4. Count \in Nat BY DEF EvaluationsAssumption
<1>5. IsFiniteSet(1..Count) /\ Cardinality(1..Count) = Count BY <1>4, FS_Interval
<1>6. /\ IsFiniteSet(C) /\ IsFiniteSet(F) /\ Cardinality(C) \in 0..Count /\ Cardinality(F) \in 0..Count
  BY EndedFinite
<1>7. C \cap F = {} /\ C \cup F \subseteq 1..Count BY DEF Ended
<1>8. Cardinality(C \cup F) = Cardinality(C) + Cardinality(F)
  <2>1. Cardinality(C \cup F) = Cardinality(C) + Cardinality(F) - Cardinality(C \cap F) BY <1>6, FS_Union
  <2>2. Cardinality(C \cap F) = 0 BY <1>7, FS_EmptySet
  <2> QED BY <1>6, <2>1, <2>2
<1>9. /\ Cardinality(C \cup F) <= Count
      /\ Cardinality(C \cup F) = Count => C \cup F = 1..Count
  <2>1. /\ Cardinality(C \cup F) <= Cardinality(1..Count)
        /\ Cardinality(1..Count) = Cardinality(C \cup F) => 1..Count = C \cup F
    BY <1>5, <1>7, FS_Subset
  <2> QED BY <1>5, <2>1
<1>10. /\ worker.complete = Cardinality(C) /\ worker.failed = Cardinality(F)
       /\ Cardinality(C) = Count - Cardinality(F) /\ C \cup F = 1..Count
  <2> HIDE DEF C, F
  <2> QED BY <1>1, <1>2, <1>3, <1>4, <1>6, <1>8, <1>9
<1>11. \A i \in 1..Count : unit[<<e, i>>].at = "Live" /\ Settled(unit[<<e, i>>])
  BY <1>10 DEF Ended, Settled
<1>12. failed = F BY <1>11 DEF Ended
<1>13. (Outcome = "Failed") <=> (F # {})
  <2>1. F = {} <=> Cardinality(F) = 0 BY <1>6, FS_EmptySet
  <2> HIDE DEF F
  <2> QED BY <1>3, <1>6, <1>10, <2>1
<1> QED BY <1>3, <1>10, <1>11, <1>12, <1>13

LEMMA UpdateParentKeeps ==
    ASSUME EvaluationsAssumption, EvaluationsInv, UpdateParent PROVE EvaluationsInv'
<1>1. worker.at = "update" /\ Read /\ UNCHANGED <<job, gate, todo, second, faults>> BY DEF UpdateParent
<1>2. PICK e \in Evals : e = worker.unit[1] BY <1>1, WorkerFields DEF EvaluationsInv
<1>3. /\ worker.unit \in Units /\ worker.complete \in 0..Count /\ worker.failed \in 0..Count
      /\ worker.read.phase \in {"Pending", "Running"} /\ eval \in [Evals -> EvalObject]
  BY <1>1, WorkerFields DEF EvaluationsInv, EvalsTyped, Counted
<1>4. \A q \in Units : unit[q].at = "Gone" => job'[q] = "None" BY <1>1 DEF EvaluationsInv, GoneTold
<1>5. GateTyped' /\ RestTyped' BY <1>1 DEF EvaluationsInv, GateTyped, RestTyped
<1>6. WorkerKnows'
  <2>1. worker' \in {Idle, [at |-> "list", unit |-> worker.unit]} BY DEF UpdateParent
  <2>2. worker' \in UnitReconcile BY <1>3, <2>1 DEF UnitReconcile
  <2>3. worker'.at \notin {"drop", "create", "update"} BY <2>1 DEF Idle
  <2> QED BY <2>2, <2>3, WorkerElse
<1>7. CASE eval' = eval
  <2>1. UnitsKept /\ unit' = unit BY <1>1, <1>4, <1>7, ReadKept
  <2> QED BY <1>5, <1>6, <1>7, <2>1, QuietKeeps
<1>8. CASE /\ eval[e] = worker.read
           /\ eval' = [eval EXCEPT ![e] = [@ EXCEPT !.phase = Outcome, !.complete = worker.complete,
                                                    !.failed = worker.failed]]
  <2> DEFINE o == [eval[e] EXCEPT !.phase = Outcome, !.complete = worker.complete, !.failed = worker.failed]
             failed == {i \in 1..Count : unit[<<e, i>>].phase = "Failed"}
  <2>1. Outcome \in {"Pending", "Running", "Complete", "Failed"} BY <1>3 DEF Outcome
  <2>2. /\ o \in EvalObject /\ o.phase = Outcome /\ o.complete = worker.complete
        /\ o.failed = worker.failed
    BY <1>3, <2>1 DEF EvalObject
  <2>3. eval' = [eval EXCEPT ![e] = o] BY <1>8
  <2> HIDE DEF o
  <2>4. eval' \in [Evals -> EvalObject] /\ eval'[e] = o /\ \A q \in Evals : q # e => eval'[q] = eval[q]
    BY <1>3, <2>2, <2>3
  <2>5. \A q \in Evals : eval'[q].phase # "Gone" => eval[q].phase # "Gone" BY <1>3, <1>8, <2>4
  <2>6. UnitsKept /\ unit' = unit BY <1>1, <1>4, <2>5, ReadKept
  <2>7. FinishedTrue'
    <3>1. CASE Outcome = worker.read.phase
      <4>1. ~Terminal(e)' BY <1>3, <2>2, <2>4, <3>1 DEF Terminal
      <4>2. EvalsKept BY <2>4, <2>5, <4>1 DEF EvalsKept, Terminal
      <4> QED BY <2>6, <4>2, FinishedKept DEF EvaluationsInv
    <3>2. CASE Outcome # worker.read.phase
      <4> DEFINE Truth(x, q) ==
                    /\ \A i \in 1..Count : unit[<<q, i>>].at = "Live" /\ Settled(unit[<<q, i>>])
                    /\ x.failed = Cardinality({i \in 1..Count : unit[<<q, i>>].phase = "Failed"})
                    /\ x.complete = Count - Cardinality({i \in 1..Count : unit[<<q, i>>].phase = "Failed"})
                    /\ (x.phase = "Failed") <=> ({i \in 1..Count : unit[<<q, i>>].phase = "Failed"} # {})
      <4>1. Truth(o, e) BY <1>1, <1>2, <1>8, <2>2, <3>2, OutcomeTrue
      <4>2. \A q \in Evals : Terminal(q) => Truth(eval[q], q) BY DEF EvaluationsInv, FinishedTrue
      <4>3. \A q \in Evals : q # e => (Terminal(q)' <=> Terminal(q)) BY <2>4 DEF Terminal
      <4> HIDE DEF Truth
      <4>4. \A q \in Evals : Terminal(q)' => Truth(eval'[q], q) BY <2>4, <4>1, <4>2, <4>3
      <4> QED BY <2>6, <4>4 DEF FinishedTrue, Truth, Settled
    <3> QED BY <3>1, <3>2
  <2> QED BY <1>5, <1>6, <2>4, <2>6, <2>7 DEF EvaluationsInv, EvalsTyped, UnitsKept, WorkerKnows
<1> QED BY <1>2, <1>7, <1>8 DEF UpdateParent

-----------------------------------------------------------------------------
(* The invariant                                                             *)

LEMMA EvaluationsInit == ASSUME EvaluationsAssumption, Init PROVE EvaluationsInv
<1>1. 0 \in 0..Count /\ 0 \in 0..LastSecond /\ 0 \in 0..MaxFaults /\ 0 \in 0..Count + 1 /\ 0 <= MaxConcurrent
  BY DEF EvaluationsAssumption
<1>2. NoUnit \in UnitObject /\ NoEval \in EvalObject BY <1>1 DEF NoUnit, UnitObject, NoEval, EvalObject
<1>3. UnitsTyped /\ EvalsTyped BY <1>2 DEF Init, UnitsTyped, EvalsTyped
<1>4. GateTyped BY <1>1 DEF Init, GateTyped, NoGate
<1>5. WorkerTyped BY DEF Init, WorkerTyped, UnitReconcile
<1>6. RestTyped
  <2>1. <<>> \in Seq(Units) /\ Len(<<>>) = 0 OBVIOUS
  <2> QED BY <1>1, <2>1 DEF Init, RestTyped
<1>7. \A u \in Units : ~Stale(u) /\ Copies(u) = {unit[u]} BY DEF Init, Stale, Copies
<1>8. CacheTold BY <1>7 DEF Init, CacheTold, Told
<1>9. CopiesTrue /\ GoneTold
  BY <1>7 DEF Init, CopiesTrue, GoneTold, NoUnit, TellsTrue, Present, Settled
<1>10. FinishedTrue BY DEF Init, FinishedTrue, Terminal, NoEval
<1>11. Finalizing /\ Creating /\ Counted BY DEF Init, Idle, Finalizing, Creating, Counted
<1> QED BY <1>3, <1>4, <1>5, <1>6, <1>8, <1>9, <1>10, <1>11 DEF EvaluationsInv

LEMMA EvaluationsStep == ASSUME EvaluationsAssumption, EvaluationsInv, [Next]_vars PROVE EvaluationsInv'
<1>1. CASE Observe \/ Tick \/ Schedule \/ CallFails \/ Crash
  BY <1>1, ObserveKeeps, TickKeeps, ScheduleKeeps, CallFailsKeeps, CrashKeeps
<1>2. CASE GateStep
  BY <1>2, EnsureUnitKeeps, SettleUnavailableKeeps, MoveToRunningKeeps DEF GateStep
<1>3. CASE UnitStep
  BY <1>3, GrantKeeps, MarkWorkspaceLostKeeps, CreateEvalKeeps, RecordJobKeeps, SettleKeeps,
     ListUnitsKeeps, UpdateParentKeeps, DropFinalizerKeeps DEF UnitStep
<1>4. CASE GateFails BY <1>4, GateFailsKeeps
<1>5. ASSUME NEW e \in Evals, Submit(e) \/ Cancel(e) \/ Expire(e) \/ GateStart(e) PROVE EvaluationsInv'
  BY <1>5, EvalWritten, GateStartKeeps
<1>6. ASSUME NEW u \in Units, Collected(u) \/ JobFinishes(u) \/ JobVanishes(u) \/ Run(u)
      PROVE  EvaluationsInv'
  BY <1>6, CollectedKeeps, JobKeeps, LaunchKeeps, CollectKeeps, FinalizeKeeps DEF Run
<1>7. CASE UNCHANGED vars
  <2>1. Read /\ UNCHANGED <<eval, job, gate, todo, worker, second, faults>> BY <1>7 DEF vars, Read
  <2>2. GateTyped' /\ RestTyped' BY <2>1 DEF EvaluationsInv, GateTyped, RestTyped
  <2> QED BY <2>1, <2>2, IdleKeeps
<1> QED BY <1>1, <1>2, <1>3, <1>4, <1>5, <1>6, <1>7 DEF Next

LEMMA EvaluationsInvariant == ASSUME EvaluationsAssumption PROVE Spec => []EvaluationsInv
BY EvaluationsInit, EvaluationsStep, PTL DEF Spec

-----------------------------------------------------------------------------
(* The slots                                                                 *)

Running == {u \in Units : Exists(unit[u]) /\ unit[u].phase = "Running"}
Occupied == {u \in Units : Exists(cache[u]) /\ cache[u].phase = "Running"}
\* What a pass that counts the slots has to see: every unit that holds one.
ListsRunning == Schedule => Running \subseteq Occupied

GrantsFit == Cardinality(Running) + Len(todo) <= MaxConcurrent

LEMMA RunningFinite ==
    ASSUME EvaluationsAssumption
    PROVE  /\ IsFiniteSet(Running) /\ Cardinality(Running) \in Nat
           /\ IsFiniteSet(Running') /\ Cardinality(Running') \in Nat
<1>1. IsFiniteSet(Units) BY UnitsFinite
<1>2. Running \subseteq Units /\ Running' \subseteq Units BY DEF Running
<1> QED BY <1>1, <1>2, FS_Subset, FS_CardinalityType

\* A copy no write is on its way to is the unit.
LEMMA CopyIsUnit == ASSUME EvaluationsInv, NEW u \in Units, ~Stale(u) PROVE cache[u] = unit[u]
BY DEF EvaluationsInv, CacheTold, Told

\* A step that starts no unit, and adds no grant.
LEMMA RunsNoMore ==
    ASSUME EvaluationsAssumption, EvaluationsInv, EvaluationsInv', GrantsFit,
           Running' \subseteq Running, todo' = todo \/ todo' = <<>>
    PROVE  GrantsFit'
<1>1. Cardinality(Running') <= Cardinality(Running) BY RunningFinite, FS_Subset
<1>2. Len(todo) \in Nat /\ Len(todo') \in Nat /\ MaxConcurrent \in Nat /\ Len(todo') <= Len(todo)
  BY DEF EvaluationsInv, RestTyped, EvaluationsAssumption
<1> QED BY <1>1, <1>2, RunningFinite DEF GrantsFit

\* A unit is written Running only by a grant, or where it was.
LEMMA StartsNone ==
    ASSUME EvaluationsInv, NEW u \in Units, NEW o,
           Read \/ Write(u, o), o.phase = "Running" /\ Exists(o) => u \in Running
    PROVE  Running' \subseteq Running
<1>1. unit \in [Units -> UnitObject] BY DEF EvaluationsInv, UnitsTyped
<1>2. CASE Read BY <1>2 DEF Read, Running, Exists
<1>3. CASE unit' = [unit EXCEPT ![u] = o] BY <1>1, <1>3 DEF Running, Exists
<1> QED BY <1>2, <1>3 DEF Write

LEMMA GrantFits ==
    ASSUME EvaluationsAssumption, EvaluationsInv, EvaluationsInv', GrantsFit, Grant
    PROVE  Cardinality(Running') + Len(todo') <= MaxConcurrent
<1> DEFINE u == Head(todo)
<1>1. todo # <<>> /\ todo' = Tail(todo) BY DEF Grant
<1>2. u \in Units /\ Len(Tail(todo)) = Len(todo) - 1 /\ Len(todo) \in Nat /\ MaxConcurrent \in Nat
  <2>1. todo \in Seq(Units) /\ MaxConcurrent \in Nat
    BY DEF EvaluationsInv, RestTyped, EvaluationsAssumption
  <2> HIDE DEF Units
  <2> QED BY <1>1, <2>1
<1>3. unit' = unit \/ unit' = [unit EXCEPT ![u] = [unit[u] EXCEPT !.phase = "Running"]]
  BY DEF Grant, Read, Write
<1> HIDE DEF u
<1>4. unit \in [Units -> UnitObject] BY DEF EvaluationsInv, UnitsTyped
<1>5. Running' \subseteq Running \cup {u} BY <1>2, <1>3, <1>4 DEF Running, Exists
<1>6. /\ IsFiniteSet(Running \cup {u})
      /\ Cardinality(Running \cup {u}) \in {Cardinality(Running), Cardinality(Running) + 1}
  BY RunningFinite, FS_AddElement
<1>7. Cardinality(Running') <= Cardinality(Running \cup {u}) BY <1>5, <1>6, FS_Subset
<1>8. Cardinality(Running) + Len(todo) <= MaxConcurrent BY DEF GrantsFit
<1> QED BY <1>1, <1>2, <1>6, <1>7, <1>8, RunningFinite

LEMMA ScheduleFits ==
    ASSUME EvaluationsAssumption, EvaluationsInv, EvaluationsInv', Schedule, ListsRunning
    PROVE  Cardinality(Running') + Len(todo') <= MaxConcurrent
<1>1. PICK n \in 1..Slots : \E s \in [1..n -> Pending] : todo' = s BY DEF Schedule
<1>2. Slots = MaxConcurrent - Cardinality(Occupied) BY DEF Slots, Occupied
<1>3. /\ Cardinality(Running) \in Nat /\ Cardinality(Occupied) \in Nat /\ MaxConcurrent \in Nat
      /\ Cardinality(Running) <= Cardinality(Occupied)
  <2>1. Occupied \subseteq Units /\ Running \subseteq Occupied BY DEF Occupied, ListsRunning
  <2>2. IsFiniteSet(Occupied) /\ Cardinality(Occupied) \in Nat BY <2>1, UnitsFinite, FS_Subset, FS_CardinalityType
  <2> QED BY <2>1, <2>2, RunningFinite, FS_Subset DEF EvaluationsAssumption
<1>4. Len(todo') = n
  <2>1. n \in Nat BY <1>2, <1>3
  <2>2. todo' \in Seq(Units) BY DEF EvaluationsInv, RestTyped
  <2>3. DOMAIN todo' = 1..n BY <1>1
  <2> HIDE DEF Units
  <2> QED BY <2>1, <2>2, <2>3
<1>5. Running' = Running BY DEF Schedule, Read, Running
<1> QED BY <1>1, <1>2, <1>3, <1>4, <1>5

LEMMA GrantsFitStep ==
    ASSUME EvaluationsAssumption, EvaluationsInv, EvaluationsInv', GrantsFit, [Next]_vars, ListsRunning
    PROVE  GrantsFit'
<1>1. CASE Schedule BY <1>1, ScheduleFits DEF GrantsFit
<1>2. CASE Grant BY <1>2, GrantFits DEF GrantsFit
<1>3. ASSUME Running' \subseteq Running, todo' = todo \/ todo' = <<>> PROVE GrantsFit'
  BY <1>3, RunsNoMore
<1>4. ASSUME UNCHANGED unit, todo' = todo \/ todo' = <<>> PROVE GrantsFit'
  <2>1. Running' = Running BY <1>4 DEF Running, Exists
  <2> QED BY <1>3, <1>4, <2>1
<1>5. CASE EnsureUnit
  <2> DEFINE o == [NoUnit EXCEPT !.at = "Live", !.born = second]
  <2>1. Ensured \in Units BY <1>5, EnsuredUnit DEF EnsureUnit
  <2>2. (Read \/ Write(Ensured, o)) /\ todo' = todo /\ o.phase = "Pending" BY <1>5 DEF EnsureUnit, NoUnit
  <2> HIDE DEF o
  <2> QED BY <1>3, <2>1, <2>2, StartsNone
<1>6. CASE SettleUnavailable
  <2> DEFINE o == [unit[Ensured] EXCEPT !.phase = "Failed"]
  <2>1. Ensured \in Units BY <1>6, EnsuredUnit DEF SettleUnavailable
  <2>2. unit[Ensured] \in UnitObject BY <2>1, UnitWas
  <2>3. (Read \/ Write(Ensured, o)) /\ todo' = todo BY <1>6 DEF SettleUnavailable
  <2>4. o.phase = "Failed" BY <2>2 DEF UnitObject
  <2> HIDE DEF o
  <2> QED BY <1>3, <2>1, <2>3, <2>4, StartsNone
<1>7. ASSUME NEW u \in Units, Collected(u) PROVE GrantsFit'
  <2> DEFINE o == [unit[u] EXCEPT !.at = "Deleting"]
  <2>1. Write(u, o) /\ todo' = todo /\ unit[u].at = "Live" BY <1>7 DEF Collected
  <2>2. unit[u] \in UnitObject BY UnitWas
  <2>3. o.phase = unit[u].phase BY <2>2 DEF UnitObject
  <2> HIDE DEF o
  <2>4. o.phase = "Running" => u \in Running BY <2>1, <2>3 DEF Running, Exists
  <2> QED BY <1>3, <2>1, <2>4, StartsNone
<1>8. CASE RecordJob
  <2> DEFINE u == worker.unit
             o == [unit[u] EXCEPT !.ref = TRUE]
  <2>1. /\ worker.at = "ref" /\ todo' = todo
        /\ Read \/ (Write(u, o) /\ ~Stale(u) /\ Exists(cache[u]) /\ cache[u].phase = "Running")
    BY <1>8 DEF RecordJob
  <2>2. u \in Units BY <2>1, WorkerFields DEF EvaluationsInv
  <2> HIDE DEF o, u
  <2>3. CASE Read BY <1>4, <2>1, <2>3 DEF Read
  <2>4. CASE Write(u, o) /\ ~Stale(u) /\ Exists(cache[u]) /\ cache[u].phase = "Running"
    <3>1. u \in Running BY <2>2, <2>4, CopyIsUnit DEF Running
    <3> QED BY <1>3, <2>1, <2>2, <2>4, <3>1, StartsNone
  <2> QED BY <2>1, <2>3, <2>4
<1>9. CASE Settle
  <2> DEFINE u == worker.unit
             o == [unit[u] EXCEPT !.phase = worker.phase]
  <2>1. worker.at = "settle" /\ todo' = todo /\ (Read \/ Write(u, o)) BY <1>9 DEF Settle
  <2>2. u \in Units /\ worker.phase \in {"Complete", "Failed"} BY <2>1, WorkerFields DEF EvaluationsInv
  <2>3. unit[u] \in UnitObject BY <2>2, UnitWas
  <2>4. o.phase # "Running" BY <2>2, <2>3 DEF UnitObject
  <2> HIDE DEF o, u
  <2> QED BY <1>3, <2>1, <2>2, <2>4, StartsNone
<1>10. CASE DropFinalizer
  <2> DEFINE u == worker.unit
             o == [unit[u] EXCEPT !.at = "Gone"]
  <2>1. worker.at = "drop" /\ todo' = todo /\ (Read \/ Write(u, o)) BY <1>10 DEF DropFinalizer
  <2>2. u \in Units BY <2>1, WorkerFields DEF EvaluationsInv
  <2> HIDE DEF u
  <2>3. unit[u] \in UnitObject BY <2>2, UnitWas
  <2>4. ~Exists(o) BY <2>3 DEF UnitObject, Exists
  <2> HIDE DEF o
  <2> QED BY <1>3, <2>1, <2>2, <2>4, StartsNone
<1>11. CASE Observe \/ Tick \/ MoveToRunning \/ CallFails \/ GateFails \/ Crash
  BY <1>4, <1>11 DEF Observe, Tick, MoveToRunning, CallFails, GateFails, Crash, Read
<1>12. CASE MarkWorkspaceLost \/ CreateEval \/ ListUnits \/ UpdateParent
  BY <1>4, <1>12 DEF MarkWorkspaceLost, CreateEval, ListUnits, UpdateParent, Read
<1>13. ASSUME NEW e \in Evals, Submit(e) \/ Cancel(e) \/ Expire(e) \/ GateStart(e) PROVE GrantsFit'
  BY <1>4, <1>13 DEF Submit, Cancel, Expire, Removed, GateStart, Read
<1>14. ASSUME NEW u \in Units, JobFinishes(u) \/ JobVanishes(u) \/ Run(u) PROVE GrantsFit'
  BY <1>4, <1>14 DEF JobFinishes, JobVanishes, Run, Launch, Collect, Finalize, Read
<1>15. CASE UNCHANGED vars BY <1>4, <1>15 DEF vars
<1> QED
  BY <1>1, <1>2, <1>5, <1>6, <1>7, <1>8, <1>9, <1>10, <1>11, <1>12, <1>13, <1>14, <1>15
  DEF Next, GateStep, UnitStep

-----------------------------------------------------------------------------
(* The theorems                                                              *)

\* Types of the Evaluations, their units, the cache and both reconciles, however
\* many there are: a pass grants no more than there are slots, and what a roll-up
\* counted is no more than an Evaluation has (unit_controller.go, gate_controller.go).
THEOREM EvaluationsWellTyped == ASSUME EvaluationsAssumption PROVE Spec => []TypeOK
<1>1. EvaluationsInv => TypeOK
  BY DEF EvaluationsInv, TypeOK, UnitsTyped, EvalsTyped, GateTyped, WorkerTyped, RestTyped
<1> QED BY <1>1, EvaluationsInvariant, PTL

\* A finished Evaluation's units have all settled, its counts are theirs and it
\* failed iff one of them did, though rollupParent counts what an old cache lists.
THEOREM FinishedTrueHolds == ASSUME EvaluationsAssumption PROVE Spec => []FinishedTrue
<1>1. EvaluationsInv => FinishedTrue BY DEF EvaluationsInv
<1> QED BY <1>1, EvaluationsInvariant, PTL

\* A unit that is gone has left no Job: finalize deletes it by its name, not by what
\* the unit recorded, and drops the finalizer off the copy it read.
THEOREM NoOrphanJobHolds == ASSUME EvaluationsAssumption PROVE Spec => []NoOrphanJob
<1>1. EvaluationsInv => NoOrphanJob BY DEF EvaluationsInv, GoneTold, NoOrphanJob
<1> QED BY <1>1, EvaluationsInvariant, PTL

\* A finished Evaluation stays as it is until it is deleted: the gate's late write and
\* a second roll-up find it finished (expand, rollupParent).
THEOREM FinishedStaysHolds == ASSUME EvaluationsAssumption PROVE Spec => FinishedStays
<1>1. ASSUME EvaluationsInv, [Next]_vars, NEW e \in Evals, Terminal(e)
      PROVE  eval'[e].phase \in {eval[e].phase, "Gone"}
  <2>1. eval \in [Evals -> EvalObject] BY <1>1 DEF EvaluationsInv, EvalsTyped
  <2>2. CASE MoveToRunning
    <3>1. gate.eval \in Evals BY <1>1, <2>2 DEF EvaluationsInv, GateTyped, MoveToRunning
    <3> QED BY <1>1, <2>1, <2>2, <3>1 DEF MoveToRunning, Terminal
  <2>3. CASE MarkWorkspaceLost BY <2>1, <2>3 DEF MarkWorkspaceLost
  <2>4. CASE UpdateParent
    <3>1. eval' = eval \/ (eval[worker.unit[1]] = worker.read
                           /\ \A q \in Evals : q # worker.unit[1] => eval'[q] = eval[q])
      BY <2>1, <2>4 DEF UpdateParent
    <3>2. worker.read.phase \in {"Pending", "Running"} BY <1>1, <2>4 DEF UpdateParent, EvaluationsInv, Counted
    <3> QED BY <1>1, <3>1, <3>2 DEF Terminal
  <2>5. ASSUME NEW q \in Evals, Submit(q) \/ Cancel(q) \/ Expire(q)
        PROVE  eval'[e].phase \in {eval[e].phase, "Gone"}
    BY <1>1, <2>1, <2>5 DEF Submit, Cancel, Expire, Removed, Terminal, NoEval
  <2>6. CASE eval' = eval BY <2>6
  <2>7. CASE EnsureUnit \/ SettleUnavailable \/ Schedule \/ Grant \/ CreateEval \/ RecordJob \/ Settle
             \/ ListUnits \/ DropFinalizer \/ Observe \/ Tick \/ CallFails \/ GateFails \/ Crash
    BY <2>6, <2>7 DEF EnsureUnit, SettleUnavailable, Schedule, Grant, CreateEval, RecordJob, Settle,
       ListUnits, DropFinalizer, Observe, Tick, CallFails, GateFails, Crash
  <2>8. ASSUME NEW q \in Evals, GateStart(q) PROVE eval'[e].phase \in {eval[e].phase, "Gone"}
    BY <2>6, <2>8 DEF GateStart
  <2>9. ASSUME NEW u \in Units, Collected(u) \/ JobFinishes(u) \/ JobVanishes(u) \/ Run(u)
        PROVE  eval'[e].phase \in {eval[e].phase, "Gone"}
    BY <2>6, <2>9 DEF Collected, JobFinishes, JobVanishes, Run, Launch, Collect, Finalize
  <2> QED
    BY <1>1, <2>2, <2>3, <2>4, <2>5, <2>6, <2>7, <2>8, <2>9 DEF Next, GateStep, UnitStep, vars
<1>2. EvaluationsInv /\ [Next]_vars =>
          [\A e \in Evals : Terminal(e) => eval'[e].phase \in {eval[e].phase, "Gone"}]_vars
  BY <1>1
<1> QED BY <1>2, EvaluationsInvariant, PTL DEF Spec, FinishedStays

\* More units hold a slot than there are only after a pass that counted them on a
\* cached list that missed one: a failed call, a crash, a deleted unit or a lost Job in
\* the middle of a pass never gives one slot twice, and the cache may trail anything
\* else (schedule, grant).
THEOREM OverLimitFromStaleList ==
    ASSUME EvaluationsAssumption PROVE Spec => ([][ListsRunning]_vars => []SlotsRespected)
<1>1. Init => GrantsFit
  <2> SUFFICES ASSUME Init PROVE Cardinality(Running) + Len(todo) <= MaxConcurrent BY DEF GrantsFit
  <2>1. Running = {} BY DEF Init, Running, NoUnit, Exists
  <2>2. Cardinality(Running) = 0 BY <2>1, FS_EmptySet
  <2> QED BY <2>2 DEF Init, EvaluationsAssumption
<1>2. EvaluationsInv /\ EvaluationsInv' /\ GrantsFit /\ [Next]_vars /\ [ListsRunning]_vars => GrantsFit'
  <2> SUFFICES ASSUME EvaluationsInv, EvaluationsInv', GrantsFit, [Next]_vars, [ListsRunning]_vars PROVE GrantsFit'
    OBVIOUS
  <2>1. CASE UNCHANGED vars BY <2>1 DEF GrantsFit, Running, Exists, vars
  <2>2. CASE ListsRunning BY <2>2, GrantsFitStep
  <2> QED BY <2>1, <2>2
<1>3. EvaluationsInv /\ GrantsFit => SlotsRespected
  <2> SUFFICES ASSUME EvaluationsInv, GrantsFit PROVE SlotsRespected OBVIOUS
  <2> DEFINE S == {u \in Units : /\ Exists(unit[u]) /\ unit[u].phase = "Running"
                                 /\ unit[u].at = "Live" \/ job[u] # "None"}
  <2>1. S \subseteq Running BY DEF Running
  <2>2. Cardinality(S) <= Cardinality(Running) /\ Cardinality(S) \in Nat
    BY <2>1, RunningFinite, FS_Subset, FS_CardinalityType
  <2>3. Cardinality(Running) + Len(todo) <= MaxConcurrent BY DEF GrantsFit
  <2>4. Len(todo) \in Nat /\ MaxConcurrent \in Nat BY DEF EvaluationsInv, RestTyped, EvaluationsAssumption
  <2>5. Cardinality(S) <= MaxConcurrent BY <2>2, <2>3, <2>4, RunningFinite
  <2> QED BY <2>5 DEF SlotsRespected
<1> QED BY <1>1, <1>2, <1>3, EvaluationsInvariant, PTL DEF Spec
=============================================================================
