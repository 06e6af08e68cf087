-------------------------------- MODULE Ingest --------------------------------
(***************************************************************************)
(* The Ingestor of integration-controller (ingest.go) over one family of   *)
(* Findings: an alert is folded into the family's live generation or opens *)
(* the next one.  Deliveries, redeliveries and backfills are handled by    *)
(* several workers at once, each on the copy of the family the cache gave  *)
(* it; "no in-process mutex, the API server serializes".  The controllers  *)
(* downstream, and people, move the generations meanwhile.                 *)
(***************************************************************************)
EXTENDS Integers, FiniteSets, FiniteSetsExt

CONSTANTS
    Alerts, Workers,
    InformerLag,    \* TRUE: the cached family may trail the API server's
    maxAlerts,      \* alerts a generation lists; later ones are only counted
    MaxGens,        \* bound: generations of the family
    MaxDeliveries,  \* bound: deliveries of one alert
    MaxSuspends,    \* bound: suspensions
    MaxFailures     \* bound: passes given up, restarts included

IngestAssumption ==
    /\ InformerLag \in BOOLEAN /\ {maxAlerts, MaxGens, MaxDeliveries} \subseteq Nat \ {0}
    /\ {MaxSuspends, MaxFailures} \subseteq Nat

VARIABLES
    gens,       \* the family in the API server, by generation
    cache,      \* the informer's copy
    work,       \* what each worker is at
    delivered,  \* deliveries of each alert so far
    kept,       \* alerts a worker was done with
    suspends, failures

vars == <<gens, cache, work, delivered, kept, suspends, failures>>
Bounds == <<delivered, suspends, failures>>

Gens == 1..MaxGens
Absent == [exists |-> FALSE, phase |-> "", suspend |-> FALSE, alerts |-> {}, overflow |-> 0,
           until |-> FALSE, complete |-> FALSE, linked |-> FALSE, successor |-> FALSE]
Idle == [at |-> "idle"]
Phases == {"", "Opened", "Enhanced", "Admitted", "Over"}

Findings == [exists: BOOLEAN, phase: Phases, suspend: BOOLEAN, alerts: SUBSET Alerts, overflow: Nat,
             until: BOOLEAN, complete: BOOLEAN, linked: BOOLEAN, successor: BOOLEAN]

TypeOK ==
    /\ gens \in [Gens -> Findings] /\ cache \in [Gens -> Findings]
    /\ \A w \in Workers : work[w] = Idle \/ (work[w].at \in {"fold", "create", "init", "mirror"}
                              /\ work[w].alert \in Alerts /\ work[w].gen \in 1..MaxGens + 1)
    /\ delivered \in [Alerts -> 0..MaxDeliveries] /\ kept \subseteq Alerts
    /\ suspends \in 0..MaxSuspends /\ failures \in 0..MaxFailures
    /\ \A g \in Gens : /\ Cardinality(gens[g].alerts) <= maxAlerts
                       /\ gens[g].exists /\ g > 1 => gens[g - 1].exists

Init ==
    /\ gens = [g \in Gens |-> Absent] /\ cache = gens
    /\ work = [w \in Workers |-> Idle] /\ delivered = [a \in Alerts |-> 0] /\ kept = {}
    /\ suspends = 0 /\ failures = 0
----------------------------------------------------------------------------
Write(g, f) ==
    /\ gens' = [gens EXCEPT ![g] = f]
    /\ cache' = IF InformerLag THEN cache ELSE [cache EXCEPT ![g] = f]
Read == UNCHANGED <<gens, cache>>
Go(w, at, a, g) == work' = [work EXCEPT ![w] = [at |-> at, alert |-> a, gen |-> g]]
Done(w) == work' = [work EXCEPT ![w] = Idle] /\ kept' = kept \cup {work[w].alert}

\* Mutant: a finding whose status is not written yet takes no alerts.
foldable_Opened(f) == f.exists /\ f.phase \in {"Opened", "Enhanced"}

\* foldable: an empty phase is the creation window.
foldable(f) == f.exists /\ f.phase \in {"", "Opened", "Enhanced"}
accepting(f) == foldable(f) /\ ~f.suspend

Folded(f, a) ==
    IF Cardinality(f.alerts) >= maxAlerts THEN [f EXCEPT !.overflow = @ + 1]
    ELSE [f EXCEPT !.alerts = @ \cup {a}]

\* ingest: the family is listed, and what to do decided, on the cache.
heldByLive(a) == \E g \in Gens : foldable(cache[g]) /\ a \in cache[g].alerts
newestAccepting ==
    IF \E g \in Gens : accepting(cache[g])
    THEN CHOOSE g \in Gens : accepting(cache[g]) /\ \A h \in Gens : accepting(cache[h]) => h <= g
    ELSE 0
maxGen == Cardinality({g \in Gens : cache[g].exists})

Ingest(w, a) ==
    /\ work[w] = Idle /\ delivered[a] < MaxDeliveries
    /\ delivered' = [delivered EXCEPT ![a] = @ + 1]
    /\ IF heldByLive(a) THEN kept' = kept \cup {a} /\ UNCHANGED work
       ELSE IF newestAccepting # 0 THEN Go(w, "fold", a, newestAccepting) /\ UNCHANGED kept
       ELSE Go(w, "create", a, maxGen + 1) /\ UNCHANGED kept
    /\ Read /\ UNCHANGED <<suspends, failures>>

\* errRaced: the target stopped accepting alerts, so its successor is opened.
Raced(w) == Go(w, "create", work[w].alert, work[w].gen + 1) /\ UNCHANGED kept

\* Mutant: the fold writes over what the cache does not show.
Fold_Blind(w) ==
    /\ work[w].at = "fold"
    /\ LET g == work[w].gen  a == work[w].alert  cur == cache[g] IN
       /\ cur.exists
       /\ IF ~foldable(cur) THEN Raced(w) /\ Read
          ELSE IF a \in cur.alerts THEN Done(w) /\ Read
          ELSE IF cur.suspend THEN Raced(w) /\ Read
          ELSE Write(g, Folded(cur, a)) /\ Done(w)
    /\ UNCHANGED Bounds

\* fold, on the cached copy; an object it lacks or an outdated one is tried again.
Fold(w) ==
    /\ work[w].at = "fold"
    /\ LET g == work[w].gen  a == work[w].alert  cur == cache[g] IN
       /\ cur.exists
       /\ IF ~foldable(cur) THEN Raced(w) /\ Read
          ELSE IF a \in cur.alerts THEN Done(w) /\ Read
          ELSE IF cur.suspend THEN Raced(w) /\ Read
          ELSE cur = gens[g] /\ Write(g, Folded(cur, a)) /\ Done(w)
    /\ UNCHANGED Bounds

\* create: when the name is taken, the winner's object is folded into.
Create(w) ==
    /\ work[w].at = "create"
    /\ LET g == work[w].gen  a == work[w].alert IN
       /\ g \in Gens
       /\ IF gens[g].exists THEN Go(w, "fold", a, g) /\ Read
          ELSE Go(w, "init", a, g) /\ Write(g, [Absent EXCEPT !.exists = TRUE, !.alerts = {a}])
    /\ UNCHANGED kept /\ UNCHANGED Bounds

\* The status write over the version just created; refused, it is logged and left.
InitStatus(w) ==
    /\ work[w].at = "init"
    /\ LET g == work[w].gen  a == work[w].alert IN
       /\ IF gens[g] = [Absent EXCEPT !.exists = TRUE, !.alerts = {a}]
          THEN Write(g, [gens[g] EXCEPT !.phase = "Opened", !.until = TRUE]) ELSE Read
       /\ IF g = 1 THEN Done(w) ELSE Go(w, "mirror", a, g) /\ UNCHANGED kept
    /\ UNCHANGED Bounds

\* mirrorEdge, onto the generation before; GiveUp is its failure too.
MirrorEdge(w) ==
    /\ work[w].at = "mirror"
    /\ LET elder == work[w].gen - 1 IN
       /\ cache[elder] = gens[elder]
       /\ Write(elder, [gens[elder] EXCEPT !.successor = TRUE])
    /\ Done(w) /\ UNCHANGED Bounds
----------------------------------------------------------------------------
(* Everything else that touches the family *)
Observe == cache # gens /\ cache' = gens /\ UNCHANGED <<gens, work, kept>> /\ UNCHANGED Bounds

Elsewhere == UNCHANGED <<work, kept>> /\ UNCHANGED Bounds

Enhance(g) ==
    /\ gens[g].phase = "Opened" /\ ~gens[g].suspend
    /\ Write(g, [gens[g] EXCEPT !.phase = "Enhanced"]) /\ Elsewhere

\* closeAccumulation: a finding without its window's end is left alone.
CloseAccumulation(g) ==
    /\ gens[g].exists /\ ~gens[g].complete /\ gens[g].until
    /\ Write(g, [gens[g] EXCEPT !.complete = TRUE]) /\ Elsewhere

Admit(g) ==
    /\ gens[g].phase = "Enhanced" /\ gens[g].complete /\ ~gens[g].suspend
    /\ Write(g, [gens[g] EXCEPT !.phase = "Admitted"]) /\ Elsewhere

Finish(g) ==
    /\ gens[g].phase = "Admitted"
    /\ Write(g, [gens[g] EXCEPT !.phase = "Over"]) /\ Elsewhere

\* The projection links the finding's issue, whatever its phase.
Project(g) ==
    /\ gens[g].exists /\ ~gens[g].linked
    /\ Write(g, [gens[g] EXCEPT !.linked = TRUE]) /\ Elsewhere

Suspend(g) ==
    /\ suspends < MaxSuspends /\ suspends' = suspends + 1
    /\ foldable(gens[g]) /\ ~gens[g].suspend /\ Write(g, [gens[g] EXCEPT !.suspend = TRUE])
    /\ UNCHANGED <<work, kept, delivered, failures>>

Resume(g) ==
    /\ gens[g].suspend /\ Write(g, [gens[g] EXCEPT !.suspend = FALSE]) /\ Elsewhere

\* A pass ends on an error, its retries used up, or the process restarts.
GiveUp(w) ==
    /\ work[w] # Idle /\ failures < MaxFailures /\ failures' = failures + 1
    /\ work' = [work EXCEPT ![w] = Idle]
    /\ Read /\ UNCHANGED <<kept, delivered, suspends>>

Step(w) == Fold(w) \/ Create(w) \/ InitStatus(w) \/ MirrorEdge(w)

Next ==
    \/ Observe
    \/ \E w \in Workers : Step(w) \/ GiveUp(w) \/ \E a \in Alerts : Ingest(w, a)
    \/ \E g \in Gens : \/ Enhance(g) \/ CloseAccumulation(g) \/ Admit(g) \/ Finish(g) \/ Project(g)
                       \/ Suspend(g) \/ Resume(g)

Spec == Init /\ [][Next]_vars

\* Workers run, and watches deliver.
FairSpec ==
    /\ Spec /\ WF_vars(Observe) /\ \A w \in Workers : WF_vars(Step(w))
----------------------------------------------------------------------------
(* "Anything unproven ingests: a duplicate finding is noise, a dropped     *)
(* regression is a missed vulnerability" - an alert a worker was done with *)
(* is on a generation of the family, or one of those counted past the cap. *)
NoAlertLost ==
    Cardinality(kept \ UNION {gens[g].alerts : g \in Gens})
        <= MapThenSumSet(LAMBDA g : gens[g].overflow, Gens)

(* Alerts of a family are not splintered: however deliveries race, and     *)
(* however old the cache, one generation at a time takes alerts.           *)
OneFoldable == \A g, h \in Gens : foldable(gens[g]) /\ foldable(gens[h]) => g = h

(* "It stays deduplicated there, suspended or not": two generations that   *)
(* still take alerts never hold the same one.                              *)
HeldOnce ==
    \A g, h \in Gens : foldable(gens[g]) /\ foldable(gens[h]) /\ gens[g].alerts \cap gens[h].alerts # {} => g = h

(* "Alerts that already have findings fold in": an alert with a finding    *)
(* that is not over gets no second one.                                    *)
FoldsIn ==
    \A g, h \in Gens : gens[g].alerts \cap gens[h].alerts # {}
                       /\ "Over" \notin {gens[g].phase, gens[h].phase} => g = h

(* "Each step names a strictly later generation, so this ends": no worker  *)
(* folds and creates in turn for ever.                                     *)
IngestEnds == \A w \in Workers : work[w] # Idle ~> work[w] = Idle

(* A finding created is opened, by its creator or by the reconciler.       *)
Initialised == \A g \in Gens : (gens[g].exists /\ gens[g].phase = "") ~> gens[g].phase # ""
=============================================================================
