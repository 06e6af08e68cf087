---------------------------- MODULE Remediation ----------------------------
(***************************************************************************)
(* remediation-controller.  SpawnerReconciler admits approved, revived and  *)
(* retried findings to the queue and creates their next Remediation (one    *)
(* reconcile per finding at a time); RemediationReconciler grants slots,    *)
(* launches the agent Job, pushes its changeset, opens the pull request and *)
(* moves the finding on (one worker).                                       *)
(***************************************************************************)
EXTENDS Cluster

CONSTANTS MaxRemediations,   \* --max-concurrent-remediations
          InformerLag        \* may the Remediation informer trail the Finding informer?

ASSUME MaxRemediationsAssumption == MaxRemediations \in Nat \ {0}
ASSUME InformerLagAssumption == InformerLag \in BOOLEAN

VARIABLES spawn,     \* spawn[f]: the spawner's reconcile of f
          remW,      \* the remediation worker's reconcile
          remSeen    \* remSeen[f]: the Remediations the controller's cache holds

remVars == <<spawn, remW, remSeen>>

NoStep == [step |-> "idle"]

SpawnSteps == {NoStep} \cup [step : {"create", "count"}, attempt : Attempts]

RemSteps ==
    {NoStep} \cup [step : {"advance", "recordJob", "ensurePR"}, f : Findings, n : Attempts]
             \cup [step : {"stamp", "record"}, f : Findings, n : Attempts, pr : Nat]
             \cup [step : {"finish"}, f : Findings, n : Attempts,
                   to : {"Queued", "Failed", "HandedOff"}, pullFailed : BOOLEAN]

RemTypeOK ==
    /\ spawn \in [Findings -> SpawnSteps]
    /\ remW \in RemSteps
    /\ remSeen \in [Findings -> SUBSET Attempts]

RemInit ==
    /\ spawn = [f \in Findings |-> NoStep]
    /\ remW = NoStep
    /\ remSeen = [f \in Findings |-> {}]

-----------------------------------------------------------------------------
(* SpawnerReconciler                                                         *)

\* admit: an approved finding enters the queue.
SpawnAdmit(f) ==
    /\ spawn[f] = NoStep
    /\ fnd[f].phase = "AwaitingApproval" /\ ~fnd[f].suspend
    /\ fnd[f].approval # "none"
    /\ WriteFinding(f, SetPhase(fnd[f], "Queued"))
    /\ UNCHANGED <<inv, rem, job, prs, breaker, faults, remVars>>

\* Mutant of SpawnRevive: a closed tracking issue is not revived.
SpawnRevive_OpenIssue(f) ==
    /\ spawn[f] = NoStep
    /\ fnd[f].phase = "HandedOff" /\ ~fnd[f].suspend /\ fnd[f].tracking = "open"
    /\ ApprovalNewer(fnd[f]) /\ fnd[f].analysis
    /\ WriteFinding(f, SetPhase(fnd[f], "Queued"))
    /\ UNCHANGED <<inv, rem, job, prs, breaker, faults, remVars>>

\* admit, for a handed-off finding a newer approval takes back (revivable).
SpawnRevive(f) ==
    /\ spawn[f] = NoStep
    /\ fnd[f].phase = "HandedOff" /\ ~fnd[f].suspend
    /\ ApprovalNewer(fnd[f]) /\ fnd[f].analysis
    /\ WriteFinding(f, SetPhase(fnd[f], "Queued"))
    /\ UNCHANGED <<inv, rem, job, prs, breaker, faults, remVars>>

\* retryAdmit: a human's retry of a failed remediation or review.
SpawnRetryAdmit(f) ==
    /\ spawn[f] = NoStep
    /\ fnd[f].phase = "Failed" /\ ~fnd[f].suspend
    /\ RetryRequested(fnd[f]) /\ RetryTarget(fnd[f]) = "Queued" /\ fnd[f].analysis
    /\ WriteFinding(f, SetPhase(fnd[f], "Queued"))
    /\ UNCHANGED <<inv, rem, job, prs, breaker, faults, remVars>>

\* Mutant of LatestSettled: nothing is looked up.
LatestSettled_Unchecked(f) == TRUE

\* The latest attempt is settled, or the cache does not hold it (NotFound is
\* taken for settled).
LatestSettled(f) ==
    LET latest == fnd[f].attRem IN
    latest > 0 => ~(latest \in remSeen[f] /\ InFlight(rem[f][latest]))

\* spawn: a Queued finding with no attempt in flight gets its next one.
SpawnDecide(f) ==
    /\ spawn[f] = NoStep
    /\ fnd[f].phase = "Queued" /\ ~fnd[f].suspend /\ fnd[f].analysis
    /\ LatestSettled(f)
    /\ fnd[f].attRem < MaxRuns
    /\ spawn' = [spawn EXCEPT ![f] = [step |-> "create", attempt |-> fnd[f].attRem + 1]]
    /\ UNCHANGED <<cluster, remW, remSeen>>

\* The child's create, which tolerates one already there.
SpawnCreate(f) ==
    /\ spawn[f].step = "create"
    /\ LET n == spawn[f].attempt IN
       /\ rem' = IF rem[f][n].phase = "none"
                 THEN [rem EXCEPT ![f][n].phase = "Pending"] ELSE rem
       /\ remSeen' = IF InformerLag THEN remSeen ELSE [remSeen EXCEPT ![f] = @ \cup {n}]
    /\ spawn' = [spawn EXCEPT ![f].step = "count"]
    /\ UNCHANGED <<fnd, inv, job, prs, breaker, faults, remW>>

\* The attempt is counted on the finding.
SpawnCount(f) ==
    /\ spawn[f].step = "count"
    /\ IF fnd[f].attRem >= spawn[f].attempt THEN fnd' = fnd
       ELSE WriteFinding(f, [fnd[f] EXCEPT !.attRem = spawn[f].attempt])
    /\ spawn' = [spawn EXCEPT ![f] = NoStep]
    /\ UNCHANGED <<inv, rem, job, prs, breaker, faults, remW, remSeen>>

\* The Remediation informer delivers a created child to the cache.
Observe(f, n) ==
    /\ rem[f][n].phase # "none" /\ n \notin remSeen[f]
    /\ remSeen' = [remSeen EXCEPT ![f] = @ \cup {n}]
    /\ UNCHANGED <<cluster, spawn, remW>>

-----------------------------------------------------------------------------
(* RemediationReconciler                                                     *)

RemRunning == {r \in Findings \X Attempts : rem[r[1]][r[2]].phase = "Running"}

\* schedule and grant, first write: the run is Running.
RemGrant(f, n) ==
    /\ remW = NoStep
    /\ n \in remSeen[f] /\ rem[f][n].phase = "Pending"
    /\ Cardinality(RemRunning) < MaxRemediations
    /\ rem' = [rem EXCEPT ![f][n].phase = "Running"]
    /\ remW' = [step |-> "advance", f |-> f, n |-> n]
    /\ UNCHANGED <<fnd, inv, job, prs, breaker, faults, spawn, remSeen>>

\* Mutants of RemAdvance: the finding is left Queued; the run is not named.
RemAdvance_Dropped ==
    /\ remW.step = "advance"
    /\ remW' = NoStep
    /\ UNCHANGED <<cluster, spawn, remSeen>>

RemAdvance_Unnamed ==
    /\ remW.step = "advance"
    /\ IF fnd[remW.f].phase = "Queued"
       THEN WriteFinding(remW.f, SetPhase(fnd[remW.f], "Remediating"))
       ELSE fnd' = fnd
    /\ remW' = NoStep
    /\ UNCHANGED <<inv, rem, job, prs, breaker, faults, spawn, remSeen>>

\* grant, second write: its finding is Remediating, if it is still Queued.
RemAdvance ==
    /\ remW.step = "advance"
    /\ IF fnd[remW.f].phase = "Queued"
       THEN WriteFinding(remW.f, [SetPhase(fnd[remW.f], "Remediating") EXCEPT
                                     !.activeRun = [kind |-> "rem", n |-> remW.n]])
       ELSE fnd' = fnd
    /\ remW' = NoStep
    /\ UNCHANGED <<inv, rem, job, prs, breaker, faults, spawn, remSeen>>

\* untestedAccepted: an earlier attempt was held, so a human approved since.
UntestedAccepted(f, n) == \E m \in 1..(n - 1) : rem[f][m].held

Launchable(f, n) == remW = NoStep /\ rem[f][n].phase = "Running" /\ ~rem[f][n].jobRef

\* launch: on the repository's image when Pin allows it, and on the default
\* one only when none is declared or a human accepted an untested fix.
RemLaunch(f, n) ==
    /\ Launchable(f, n)
    /\ f \in DeclaresImage => Pin("rem", f) \/ UntestedAccepted(f, n)
    /\ CreateJob("rem", f, n, Pin("rem", f))
    /\ remW' = [step |-> "recordJob", f |-> f, n |-> n]
    /\ UNCHANGED <<fnd, inv, rem, prs, breaker, faults, spawn, remSeen>>

RemRecordJob ==
    /\ remW.step = "recordJob"
    /\ rem' = [rem EXCEPT ![remW.f][remW.n].jobRef = TRUE,
                          ![remW.f][remW.n].repoImage = job["rem"][remW.f][remW.n].repoImage]
    /\ remW' = NoStep
    /\ UNCHANGED <<fnd, inv, job, prs, breaker, faults, spawn, remSeen>>

\* consumedAttempts: the attempt's number less the earlier refused or held.
RemConsumed(f, n) ==
    n - Cardinality({m \in 1..(n - 1) : rem[f][m].refused \/ rem[f][m].held})

\* Mutant of AfterFailure: one attempt over the budget.
AfterFailure_OneMore(f, n) == IF RemConsumed(f, n) > MaxAttempts THEN "Failed" ELSE "Queued"

\* Where a failure sends the finding: back to the queue while attempts are left.
AfterFailure(f, n) == IF RemConsumed(f, n) >= MaxAttempts THEN "Failed" ELSE "Queued"

Finish(f, n, to, pullFailed) ==
    remW' = [step |-> "finish", f |-> f, n |-> n, to |-> to, pullFailed |-> pullFailed]

\* holdForImage: the declared image cannot run and nobody accepted an untested
\* fix: the run ends before its launch, marked held.
RemHoldForImage(f, n) ==
    /\ Launchable(f, n)
    /\ f \in DeclaresImage /\ ~Pin("rem", f) /\ ~UntestedAccepted(f, n)
    /\ rem' = [rem EXCEPT ![f][n].phase = "Failed", ![f][n].held = TRUE]
    /\ Finish(f, n, "HandedOff", FALSE)
    /\ UNCHANGED <<fnd, inv, job, prs, breaker, faults, spawn, remSeen>>

Collectable(f, n) == remW = NoStep /\ rem[f][n].phase = "Running" /\ rem[f][n].jobRef

\* fail: at launch (harness disabled, network profile refused), or for a Job
\* with no usable result.
RemFail(f, n) ==
    /\ \/ Launchable(f, n)
       \/ Collectable(f, n) /\ job["rem"][f][n].state \in {"gone", "bad", "pullFailed"}
    /\ rem' = [rem EXCEPT ![f][n].phase = "Failed"]
    /\ Finish(f, n, AfterFailure(f, n),
              Collectable(f, n) /\ job["rem"][f][n].state = "pullFailed")
    /\ UNCHANGED <<fnd, inv, job, prs, breaker, faults, spawn, remSeen>>

\* sandboxRefused: the breaker trips, and the attempt is not counted.
RemSandboxRefused(f, n) ==
    /\ Collectable(f, n) /\ job["rem"][f][n].state = "refused"
    /\ breaker' = [breaker EXCEPT !["rem"] = TRUE]
    /\ rem' = [rem EXCEPT ![f][n].phase = "Failed", ![f][n].refused = TRUE]
    /\ Finish(f, n, "Queued", FALSE)
    /\ UNCHANGED <<fnd, inv, job, prs, faults, spawn, remSeen>>

\* handOff: the agent reports the finding is not safely fixable.
RemHandOff(f, n) ==
    /\ Collectable(f, n) /\ job["rem"][f][n].state = "unfixable"
    /\ rem' = [rem EXCEPT ![f][n].phase = "Complete"]
    /\ Finish(f, n, "HandedOff", FALSE)
    /\ UNCHANGED <<fnd, inv, job, prs, breaker, faults, spawn, remSeen>>

\* succeed: the changeset is pushed to the finding's branch, ...
RemPush(f, n) ==
    /\ Collectable(f, n) /\ job["rem"][f][n].state = "fixed"
    /\ remW' = [step |-> "ensurePR", f |-> f, n |-> n]
    /\ UNCHANGED <<cluster, spawn, remSeen>>

OpenPRs(f) == {i \in DOMAIN prs[f] : prs[f][i] = "open"}

\* Mutant of RemEnsurePR: a number is reported for a pull request never opened.
RemEnsurePR_Unopened ==
    /\ remW.step = "ensurePR"
    /\ remW' = [step |-> "stamp", f |-> remW.f, n |-> remW.n, pr |-> Len(prs[remW.f]) + 1]
    /\ UNCHANGED <<cluster, spawn, remSeen>>

\* ... the branch's open pull request is found or one is opened, ...
RemEnsurePR ==
    /\ remW.step = "ensurePR"
    /\ LET f == remW.f IN
       \/ /\ OpenPRs(f) # {}
          /\ \E i \in OpenPRs(f) :
                remW' = [step |-> "stamp", f |-> f, n |-> remW.n, pr |-> i]
          /\ prs' = prs
       \/ /\ OpenPRs(f) = {}
          /\ prs' = [prs EXCEPT ![f] = Append(@, "open")]
          /\ remW' = [step |-> "stamp", f |-> f, n |-> remW.n, pr |-> Len(prs[f]) + 1]
    /\ UNCHANGED <<fnd, inv, rem, job, breaker, faults, spawn, remSeen>>

\* ... the child is stamped ...
RemStamp ==
    /\ remW.step = "stamp"
    /\ rem' = [rem EXCEPT ![remW.f][remW.n].phase = "Complete"]
    /\ remW' = [remW EXCEPT !.step = "record"]
    /\ UNCHANGED <<fnd, inv, job, prs, breaker, faults, spawn, remSeen>>

\* ... and the pull request is recorded on the finding in any phase, which
\* moves to InReview only from Remediating.
RemRecord ==
    /\ remW.step = "record"
    /\ LET cur == [fnd[remW.f] EXCEPT !.pr = remW.pr, !.prState = "open", !.activeRun = NoRun] IN
       WriteFinding(remW.f, IF cur.phase = "Remediating" THEN SetPhase(cur, "InReview") ELSE cur)
    /\ remW' = NoStep
    /\ UNCHANGED <<inv, rem, job, prs, breaker, faults, spawn, remSeen>>

\* Mutant of RemFinish: a suspended finding is left where it is.
RemFinish_SkipsSuspended ==
    /\ remW.step = "finish"
    /\ IF fnd[remW.f].phase = "Remediating" /\ ~fnd[remW.f].suspend
       THEN WriteFinding(remW.f, [SetPhase(fnd[remW.f], remW.to) EXCEPT !.activeRun = NoRun])
       ELSE fnd' = fnd
    /\ job' = job
    /\ remW' = NoStep
    /\ UNCHANGED <<inv, rem, prs, breaker, faults, spawn, remSeen>>

\* finishFinding: out of Remediating, if the finding is still there; a run
\* whose image could not be pulled then has its Job deleted.
RemFinish ==
    /\ remW.step = "finish"
    /\ IF fnd[remW.f].phase = "Remediating"
       THEN WriteFinding(remW.f, [SetPhase(fnd[remW.f], remW.to) EXCEPT !.activeRun = NoRun])
       ELSE fnd' = fnd
    /\ job' = IF remW.pullFailed
              THEN [job EXCEPT !["rem"][remW.f][remW.n].state = "gone"] ELSE job
    /\ remW' = NoStep
    /\ UNCHANGED <<inv, rem, prs, breaker, faults, spawn, remSeen>>

RemNext ==
    \/ \E f \in Findings :
          \/ SpawnAdmit(f) \/ SpawnRevive(f) \/ SpawnRetryAdmit(f)
          \/ SpawnDecide(f) \/ SpawnCreate(f) \/ SpawnCount(f)
          \/ \E n \in Attempts :
                \/ Observe(f, n) \/ RemGrant(f, n) \/ RemLaunch(f, n) \/ RemHoldForImage(f, n)
                \/ RemFail(f, n) \/ RemSandboxRefused(f, n) \/ RemHandOff(f, n) \/ RemPush(f, n)
    \/ RemAdvance \/ RemRecordJob \/ RemEnsurePR \/ RemStamp \/ RemRecord \/ RemFinish

-----------------------------------------------------------------------------
(* Faults, as in Investigation                                               *)

SpawnError(f) ==
    /\ spawn[f] # NoStep /\ faults < MaxFaults
    /\ spawn' = [spawn EXCEPT ![f] = NoStep]
    /\ faults' = faults + 1
    /\ UNCHANGED <<fnd, inv, rem, job, prs, breaker, remW, remSeen>>

RemError ==
    /\ remW # NoStep /\ faults < MaxFaults
    /\ remW' = NoStep
    /\ faults' = faults + 1
    /\ UNCHANGED <<fnd, inv, rem, job, prs, breaker, spawn, remSeen>>

\* A restart also refills the cache from the API server.
RemRestart ==
    /\ faults < MaxFaults
    /\ breaker["rem"] \/ remW # NoStep \/ \E f \in Findings : spawn[f] # NoStep
    /\ spawn' = [f \in Findings |-> NoStep] /\ remW' = NoStep
    /\ remSeen' = [f \in Findings |-> {n \in Attempts : rem[f][n].phase # "none"}]
    /\ breaker' = [breaker EXCEPT !["rem"] = FALSE]
    /\ faults' = faults + 1
    /\ UNCHANGED <<fnd, inv, rem, job, prs>>

RemFault == RemError \/ RemRestart \/ \E f \in Findings : SpawnError(f)
=============================================================================
