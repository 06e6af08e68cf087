------------------------------ MODULE StaleAlerts ------------------------------
(***************************************************************************)
(* One alert of a finding remediated by a merged fix.  Code scanning moves *)
(* an alert with whichever analysis uploads last, so it may be reopened at *)
(* a commit the fix supersedes: such an observation is recorded on the     *)
(* finding instead of opening a successor (supersedingFix in ingest.go),   *)
(* and the projection reads the alert again until it is settled            *)
(* (stale.go) - GitHub announces only an alert that was not open.          *)
(***************************************************************************)
EXTENDS Naturals

CONSTANTS
    Older, Newer,   \* commits the fix precedes not, and the others
    InformerLag,    \* TRUE: the cached finding may trail the API server's
    MaxUploads,     \* bound: analyses that change the alert
    MaxFailures,    \* bound: lookups and reads that fail, passes lost
    MaxResets       \* bound: resets of the branch to before the fix, pauses

StaleAlertsAssumption ==
    /\ Older \cap Newer = {} /\ "pull" \notin Older \cup Newer /\ "none" \notin Older \cup Newer \cup {"pull"}
    /\ InformerLag \in BOOLEAN /\ {MaxUploads, MaxFailures, MaxResets} \subseteq Nat

VARIABLES
    family,     \* the observation recorded, and whether a successor carries the alert
    cache,      \* the controller's copy
    alert,      \* the alert and the branch at GitHub
    mail,       \* reopenings on their way, by commit
    pass,       \* the re-check under way
    ingesting,  \* the Integration ingests code-scanning alerts
    told,       \* the alert was where the fix does not supersede it, or a delivery was undecided
    uploads, failures, resets

vars == <<family, cache, alert, mail, pass, ingesting, told, uploads, failures, resets>>
World == <<alert, ingesting, uploads, resets>>

Commits == Older \cup Newer
Idle == [at |-> "idle"]

TypeOK ==
    /\ family \in [obs: Commits \cup {"none"}, successor: BOOLEAN, version: Nat]
    /\ cache.version <= family.version /\ (cache.version = family.version => cache = family)
    /\ alert.open \in BOOLEAN /\ alert.at \in Commits \cup {"none", "pull"} /\ alert.fixed \in BOOLEAN
    /\ mail \in [Commits -> Nat] /\ {ingesting, told} \subseteq BOOLEAN
    /\ pass = Idle \/ (pass.at \in {"read", "settle", "drop"} /\ pass.obs \in Commits)
    /\ pass.at = "settle" => pass.seen \in Commits
    /\ uploads \in 0..MaxUploads /\ failures \in 0..MaxFailures /\ resets \in 0..MaxResets

Init ==
    /\ family = [obs |-> "none", successor |-> FALSE, version |-> 0] /\ cache = family
    /\ alert = [open |-> FALSE, at |-> "none", fixed |-> TRUE]
    /\ mail = [c \in Commits |-> 0] /\ pass = Idle /\ ingesting = TRUE /\ told = FALSE
    /\ uploads = 0 /\ failures = 0 /\ resets = 0
----------------------------------------------------------------------------
\* A status write over the cached version; with another one it conflicts, and is made again.
Write(f) ==
    /\ cache = family /\ family' = [f EXCEPT !.version = family.version + 1]
    /\ cache' = IF InformerLag THEN cache ELSE family'
Unwritten == UNCHANGED <<family, cache>>

\* The next generation, created or folded into: a second call changes nothing.
OpenSuccessor ==
    IF family.successor THEN Unwritten
    ELSE /\ family' = [family EXCEPT !.successor = TRUE, !.version = @ + 1]
         /\ cache' = IF InformerLag THEN cache ELSE family'

Fail == failures < MaxFailures /\ failures' = failures + 1

\* supersedingFix: before the merge commit, which is still on the branch.
Superseded(c) == c \in Older /\ alert.fixed

\* recordStale: one at the same commit is left as it is.
RecordStale(c) == IF cache.obs = c THEN Unwritten ELSE Write([cache EXCEPT !.obs = c])

\* A reopening is delivered and ingested: anything unproven, or unrecorded, ingests.
Deliver(c) ==
    /\ mail[c] > 0 /\ mail' = [mail EXCEPT ![c] = @ - 1]
    /\ IF Superseded(c) /\ ~cache.successor
       THEN \/ RecordStale(c) /\ UNCHANGED <<told, failures>>
            \/ Fail /\ OpenSuccessor /\ told' = TRUE
       ELSE OpenSuccessor /\ UNCHANGED <<told, failures>>
    /\ UNCHANGED <<pass, alert, ingesting, uploads, resets>>

\* recheckStale, settleStale: a pass over the cached finding, while ingest is on.
Recheck ==
    /\ pass = Idle /\ cache.obs # "none" /\ ingesting
    /\ pass' = [at |-> IF cache.successor THEN "drop" ELSE "read", obs |-> cache.obs]
    /\ Unwritten /\ UNCHANGED <<mail, told, failures>> /\ UNCHANGED World

\* settle, the read: closed settles; another ref says nothing about the branch.
ReadAlert ==
    /\ pass.at = "read"
    /\ pass' = IF ~alert.open THEN [at |-> "drop", obs |-> pass.obs]
               ELSE IF alert.at = "pull" THEN Idle
               ELSE [at |-> "settle", obs |-> pass.obs, seen |-> alert.at]
    /\ Unwritten /\ UNCHANGED <<mail, told, failures>> /\ UNCHANGED World

\* settle, the ingest: still stale, it is recorded where it is now.
Reingest ==
    /\ pass.at = "settle"
    /\ IF Superseded(pass.seen) /\ ~cache.successor
       THEN RecordStale(pass.seen) /\ pass' = Idle
       ELSE OpenSuccessor /\ pass' = [at |-> "drop", obs |-> pass.obs]
    /\ UNCHANGED <<mail, told, failures>> /\ UNCHANGED World

\* dropStale: only while it is the alert and the commit that were settled.
DropStale ==
    /\ pass.at = "drop" /\ pass' = Idle
    /\ IF cache.obs = pass.obs THEN Write([cache EXCEPT !.obs = "none"]) ELSE Unwritten
    /\ UNCHANGED <<mail, told, failures>> /\ UNCHANGED World

\* A read or a lookup fails, or the process restarts: what is recorded stays.
LosePass ==
    /\ pass # Idle /\ Fail /\ pass' = Idle /\ Unwritten /\ UNCHANGED <<mail, told>> /\ UNCHANGED World
----------------------------------------------------------------------------
(* GitHub: an analysis that finds an open alert announces nothing          *)
Elsewhere == Unwritten /\ UNCHANGED <<pass, failures>>
Upload == uploads < MaxUploads /\ uploads' = uploads + 1 /\ UNCHANGED <<ingesting, resets>>

At(c) == told' = (told \/ c \in Newer \/ (c \in Older /\ ~alert.fixed))

Reopen(c) ==
    /\ ~alert.open /\ Upload /\ alert' = [alert EXCEPT !.open = TRUE, !.at = c] /\ At(c)
    /\ mail' = [mail EXCEPT ![c] = @ + 1] /\ Elsewhere

Move(c) ==
    /\ alert.open /\ alert.at # c /\ Upload /\ alert' = [alert EXCEPT !.at = c] /\ At(c)
    /\ UNCHANGED mail /\ Elsewhere

Fix ==
    /\ alert.open /\ Upload /\ alert' = [alert EXCEPT !.open = FALSE]
    /\ UNCHANGED <<mail, told>> /\ Elsewhere

ResetBranch ==
    /\ alert.fixed /\ resets < MaxResets /\ resets' = resets + 1
    /\ alert' = [alert EXCEPT !.fixed = FALSE] /\ told' = TRUE
    /\ UNCHANGED <<mail, ingesting, uploads>> /\ Elsewhere

Pause ==
    /\ resets < MaxResets /\ ingesting /\ resets' = resets + 1 /\ ingesting' = FALSE
    /\ UNCHANGED <<mail, alert, told, uploads>> /\ Elsewhere

Resume == ~ingesting /\ ingesting' = TRUE /\ UNCHANGED <<mail, alert, told, uploads, resets>> /\ Elsewhere

Observe == cache # family /\ cache' = family /\ UNCHANGED <<family, mail, pass, told, failures>> /\ UNCHANGED World

Pass == Recheck \/ ReadAlert \/ Reingest \/ DropStale

Next ==
    \/ Pass \/ LosePass \/ Observe \/ Fix \/ ResetBranch \/ Pause \/ Resume
    \/ \E c \in Commits : Deliver(c) \/ Reopen(c)
    \/ \E c \in Commits \cup {"pull"} : Move(c)

Spec == Init /\ [][Next]_vars

\* The re-check's timer runs, deliveries and watches arrive, and a pause ends.
FairSpec ==
    /\ Spec /\ WF_vars(Pass) /\ WF_vars(Observe) /\ WF_vars(Resume)
    /\ \A c \in Commits : WF_vars(Deliver(c))
----------------------------------------------------------------------------
(* "A transient error must not turn an alert that is still stale into the  *)
(* duplicate finding the check exists to prevent": a successor is opened   *)
(* only when the alert was once where the fix does not supersede it, or    *)
(* the delivery of the reopening could not be decided.                     *)
NoStaleDuplicate == family.successor => told

(* "A regression GitHub will not announce opens the successor": an alert   *)
(* that stays open at a commit the fix does not supersede is found.        *)
Regressed == alert.open /\ alert.at # "pull" /\ ~Superseded(alert.at)
RegressionFound == Regressed ~> family.successor \/ ~Regressed

(* A record is never left for good: with the alert closed, or carried by a *)
(* successor, the re-check ends by forgetting it.                          *)
Unneeded == family.obs # "none" /\ (~alert.open \/ family.successor)
RecheckEnds == Unneeded ~> ~Unneeded
=============================================================================
