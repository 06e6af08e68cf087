----------------------- MODULE FindingPipeline_proofs -----------------------
(***************************************************************************)
(* Proofs about the finding pipeline for any number of findings, attempts,  *)
(* slots, faults and actions by people: its types, that it implements the   *)
(* lifecycle, that a finding has at most one Investigation and one          *)
(* Remediation in flight (the deterministic child names and the attempt     *)
(* counters are the lease they are meant to be), and what a step does to    *)
(* one finding, one of its runs and the reconciles that are about it: the   *)
(* case analysis that FindingSafety_proofs' invariants are proved from.     *)
(***************************************************************************)
EXTENDS FindingPipeline, FiniteSetTheorems, TLAPS

-----------------------------------------------------------------------------
(* Types                                                                     *)

\* The pull request the worker is about to record is one that was opened.
WorkerPR == remW.step \in {"stamp", "record"} => remW.pr \in 1..Len(prs[remW.f])

IType == TypeOK /\ WorkerPR

Runs == [Findings -> [Attempts -> Run]]
RunPhases == {"none", "Pending", "Running", "Complete", "Failed"}
Jobs == [Kinds -> [Findings -> [Attempts -> Job]]]
ActiveRuns == [kind : Kinds, n : Attempts] \cup {NoRun}

\* SetPhase touches the lifecycle half of a Finding only, and keeps it typed.
LEMMA SetPhaseFinding ==
    ASSUME NEW c \in Finding, NEW to \in Phases
    PROVE  /\ SetPhase(c, to) \in Finding
           /\ SetPhase(c, to).pr = c.pr
           /\ SetPhase(c, to).attInv = c.attInv
           /\ SetPhase(c, to).attRem = c.attRem
<1>1. CASE c.phase = to
  BY <1>1 DEF SetPhase
<1>2. CASE c.phase # to
  <2> DEFINE prior    == IF to = "Failed" THEN c.prior ELSE to
             revived  == c.revived \/ to \in {"HandedOff", "Failed"}
             approval == IF to \in terminal THEN Outdate(c.approval) ELSE c.approval
             retry    == IF to \in terminal THEN Outdate(c.retry) ELSE c.retry
  <2>1. prior \in Phases \cup {Absent} /\ revived \in BOOLEAN
    BY DEF Finding
  <2>2. approval \in Stamps /\ retry \in Stamps
    BY DEF Finding, Outdate, Stamps
  <2>3. SetPhase(c, to) = [c EXCEPT !.phase = to, !.prior = prior, !.revived = revived,
                                   !.approval = approval, !.retry = retry]
    BY <1>2 DEF SetPhase
  <2> HIDE DEF prior, revived, approval, retry
  <2> QED BY <2>1, <2>2, <2>3, ZenonT(60) DEF Finding
<1> QED BY <1>1, <1>2

\* What the workers' steps carry.
LEMMA InvStepTypes ==
    ASSUME invW \in InvSteps
    PROVE  /\ invW.step \in {"recordJob", "release", "route"} => invW.f \in Findings /\ invW.n \in Attempts
           /\ invW.step = "release" => invW.to \in {"Enhanced", "Failed"} /\ invW.pullFailed \in BOOLEAN
           /\ invW.step = "route" => invW.to \in {"Dismissed", "AwaitingApproval", "Queued", "HandedOff"}
BY DEF InvSteps, Idle

LEMMA RemStepTypes ==
    ASSUME remW \in RemSteps
    PROVE  /\ remW # NoStep => remW.f \in Findings /\ remW.n \in Attempts
           /\ remW.step \in {"stamp", "record"} => remW.pr \in Nat
           /\ remW.step = "finish" => remW.to \in {"Queued", "Failed", "HandedOff"} /\ remW.pullFailed \in BOOLEAN
BY DEF RemSteps, NoStep

LEMMA GateStepTypes ==
    ASSUME NEW f \in Findings, gate \in [Findings -> GateSteps], gate[f].step \in {"create", "advance"}
    PROVE  gate[f].attempt \in Attempts
BY DEF GateSteps, Idle

LEMMA SpawnStepTypes ==
    ASSUME NEW f \in Findings, spawn \in [Findings -> SpawnSteps], spawn[f].step \in {"create", "count"}
    PROVE  spawn[f].attempt \in Attempts
BY DEF SpawnSteps, NoStep

\* The writes of single fields keep runs, Jobs and findings typed.
LEMMA RunWritten ==
    ASSUME NEW runs \in Runs, NEW f \in Findings, NEW n \in Attempts,
           NEW phase \in RunPhases, NEW b \in BOOLEAN
    PROVE  /\ [runs EXCEPT ![f][n].phase = phase] \in Runs
           /\ [runs EXCEPT ![f][n].phase = phase, ![f][n].refused = b] \in Runs
           /\ [runs EXCEPT ![f][n].phase = phase, ![f][n].held = b] \in Runs
<1>1. runs[f][n] \in Run
  BY DEF Runs
<1>2. /\ [runs[f][n] EXCEPT !.phase = phase] \in Run
      /\ [runs[f][n] EXCEPT !.phase = phase, !.refused = b] \in Run
      /\ [runs[f][n] EXCEPT !.phase = phase, !.held = b] \in Run
  BY <1>1, Zenon DEF Run, RunPhases
<1>3. /\ [runs EXCEPT ![f][n].phase = phase]
           = [runs EXCEPT ![f][n] = [runs[f][n] EXCEPT !.phase = phase]]
      /\ [runs EXCEPT ![f][n].phase = phase, ![f][n].refused = b]
           = [runs EXCEPT ![f][n] = [runs[f][n] EXCEPT !.phase = phase, !.refused = b]]
      /\ [runs EXCEPT ![f][n].phase = phase, ![f][n].held = b]
           = [runs EXCEPT ![f][n] = [runs[f][n] EXCEPT !.phase = phase, !.held = b]]
  BY Zenon DEF Runs, Run
<1>4. \A r \in Run : [runs EXCEPT ![f][n] = r] \in Runs
  BY DEF Runs
<1>5. [runs EXCEPT ![f][n].phase = phase] \in Runs
  BY <1>2, <1>3, <1>4, Zenon
<1>6. [runs EXCEPT ![f][n].phase = phase, ![f][n].refused = b] \in Runs
  BY <1>2, <1>3, <1>4, Zenon
<1> QED BY <1>2, <1>3, <1>4, <1>5, <1>6

LEMMA JobRecorded ==
    ASSUME NEW runs \in Runs, NEW f \in Findings, NEW n \in Attempts, NEW b \in BOOLEAN
    PROVE  [runs EXCEPT ![f][n].jobRef = TRUE, ![f][n].repoImage = b] \in Runs
<1>0. runs[f][n] \in Run
  BY DEF Runs
<1>1. [runs[f][n] EXCEPT !.jobRef = TRUE, !.repoImage = b] \in Run
  BY <1>0, Zenon DEF Runs, Run
<1>2. [runs EXCEPT ![f][n].jobRef = TRUE, ![f][n].repoImage = b]
        = [runs EXCEPT ![f][n] = [runs[f][n] EXCEPT !.jobRef = TRUE, !.repoImage = b]]
  BY <1>0, Zenon DEF Runs, Run
<1>3. \A r \in Run : [runs EXCEPT ![f][n] = r] \in Runs
  BY DEF Runs
<1> QED BY <1>1, <1>2, <1>3

LEMMA JobWritten ==
    ASSUME NEW jobs \in Jobs, NEW k \in Kinds, NEW f \in Findings, NEW n \in Attempts,
           NEW state \in JobStates
    PROVE  /\ \A j \in Job : [jobs EXCEPT ![k][f][n] = j] \in Jobs
           /\ [jobs EXCEPT ![k][f][n].state = state] \in Jobs
<1>1. jobs[k][f][n] \in Job
  BY DEF Jobs
<1>2. [jobs[k][f][n] EXCEPT !.state = state] \in Job
  BY <1>1 DEF Job
<1>3. [jobs EXCEPT ![k][f][n].state = state]
        = [jobs EXCEPT ![k][f][n] = [jobs[k][f][n] EXCEPT !.state = state]]
  BY DEF Jobs, Job
<1>4. \A i \in Job : [jobs EXCEPT ![k][f][n] = i] \in Jobs
  BY DEF Jobs
<1> QED BY <1>2, <1>3, <1>4

LEMMA InitType == Init => IType
<1> SUFFICES ASSUME Init PROVE IType
  OBVIOUS
<1>1. NewFinding \in Finding
  BY MaxRunsAssumption DEF NewFinding, Finding, Stamps, NoRun, Kinds, Attempts
<1>2. NotCreated \in Run /\ NoJob \in Job
  BY DEF NotCreated, Run, NoJob, Job, JobStates
<1>3. ClusterTypeOK
  BY <1>1, <1>2, MaxFaultsAssumption DEF Init, ClusterInit, ClusterTypeOK
<1>4. InvTypeOK /\ RemTypeOK
  BY DEF Init, InvInit, RemInit, InvTypeOK, RemTypeOK, GateSteps, InvSteps, SpawnSteps, RemSteps, Idle, NoStep
<1>5. \A f \in Findings : fnd[f].pr \in 0..Len(prs[f])
  BY DEF Init, ClusterInit, NewFinding
<1>6. WorkerPR
  BY DEF Init, RemInit, NoStep, WorkerPR
<1> QED BY <1>3, <1>4, <1>5, <1>6, MaxAsksAssumption DEF Init, TypeOK, IType

-----------------------------------------------------------------------------
(* What a step may make of a finding: the abstract lifecycle's steps         *)

Life(c) == [phase |-> c.phase, prior |-> c.prior, revived |-> c.revived,
            approval |-> c.approval, retry |-> c.retry]

LegalMove(c, to) ==
    /\ CanTransition(c.phase, to) /\ to # c.phase
    /\ c.phase = "Failed" => RetryRequested(c) /\ to = RetryTarget(c)
    /\ c.phase = "HandedOff" => ApprovalNewer(c)
    /\ c.phase = "AwaitingApproval" /\ to = "Queued" => c.approval # "none"

LegalWrite(c, new) ==
    \/ Life(new) = Life(c)
    \/ \E to \in Phases : LegalMove(c, to) /\ Life(new) = SetPhase(Life(c), to)
    \/ CanApprove(c) /\ \E stamp \in StampsFor(c) : Life(new) = applyApprove(Life(c), stamp)
    \/ CanRetry(c) /\ \E stamp \in StampsFor(c) : Life(new) = applyRetry(Life(c), stamp)

LegalStep ==
    fnd' = fnd \/ \E f \in Findings, new \in Finding : WriteFinding(f, new) /\ LegalWrite(fnd[f], new)

PRsRecorded == \A f \in Findings : fnd[f].pr \in 0..Len(prs[f])

\* A handler's write of a finding is typed, legal, and names an opened pull request.
GoodWrite(f, new) ==
    new \in Finding /\ new.pr \in 0..Len(prs[f]) /\ LegalWrite(fnd[f], new)

LEMMA FindingWritten ==
    ASSUME IType, NEW f \in Findings, NEW new, GoodWrite(f, new), WriteFinding(f, new), prs' = prs
    PROVE  fnd' \in [Findings -> Finding] /\ PRsRecorded' /\ LegalStep
<1>1. fnd \in [Findings -> Finding] /\ PRsRecorded
  BY DEF IType, TypeOK, ClusterTypeOK, PRsRecorded
<1>2. fnd' = [fnd EXCEPT ![f] = new] /\ new \in Finding /\ new.pr \in 0..Len(prs[f])
  BY DEF WriteFinding, GoodWrite
<1>3. LegalStep
  BY <1>2 DEF LegalStep, GoodWrite
<1> QED BY <1>1, <1>2, <1>3 DEF PRsRecorded

LEMMA NothingWritten ==
    ASSUME IType, UNCHANGED <<fnd, prs>>
    PROVE  fnd' \in [Findings -> Finding] /\ PRsRecorded' /\ LegalStep
BY DEF IType, TypeOK, ClusterTypeOK, PRsRecorded, LegalStep

LEMMA SetPhaseLife ==
    ASSUME NEW c \in Finding, NEW to \in Phases
    PROVE  Life(SetPhase(c, to)) = SetPhase(Life(c), to)
<1>1. CASE c.phase = to
  BY <1>1 DEF Life, SetPhase
<1>2. CASE c.phase # to
  BY <1>2, ZenonT(60) DEF Life, SetPhase, Finding
<1> QED BY <1>1, <1>2

\* A move, with or without the end of the run it belongs to.
LEMMA FindingMoved ==
    ASSUME IType, NEW f \in Findings, NEW to \in Phases, LegalMove(fnd[f], to)
    PROVE  /\ GoodWrite(f, SetPhase(fnd[f], to))
           /\ \A run \in ActiveRuns : GoodWrite(f, [SetPhase(fnd[f], to) EXCEPT !.activeRun = run])
<1> DEFINE moved == SetPhase(fnd[f], to)
<1>1. fnd[f] \in Finding /\ fnd[f].pr \in 0..Len(prs[f])
  BY DEF IType, TypeOK, ClusterTypeOK
<1>2. moved \in Finding /\ moved.pr = fnd[f].pr /\ Life(moved) = SetPhase(Life(fnd[f]), to)
  BY <1>1, SetPhaseFinding, SetPhaseLife
<1> HIDE DEF moved
<1>3. GoodWrite(f, moved)
  BY <1>1, <1>2 DEF GoodWrite, LegalWrite
<1>4. ASSUME NEW run \in ActiveRuns PROVE GoodWrite(f, [moved EXCEPT !.activeRun = run])
  <2> DEFINE new == [moved EXCEPT !.activeRun = run]
  <2>1. new \in Finding
    BY <1>2 DEF Finding, ActiveRuns
  <2>2. Life(new) = Life(moved) /\ new.pr = moved.pr
    BY <1>2 DEF Life, Finding
  <2> QED BY <1>1, <1>2, <2>1, <2>2 DEF GoodWrite, LegalWrite
<1> QED BY <1>3, <1>4 DEF moved

\* An edit outside the lifecycle, alone or followed by a move.
LEMMA FindingEdited ==
    ASSUME NEW f \in Findings, NEW cur \in Finding, cur.pr \in 0..Len(prs[f]), Life(cur) = Life(fnd[f])
    PROVE  /\ GoodWrite(f, cur)
           /\ \A to \in Phases : LegalMove(fnd[f], to) => GoodWrite(f, SetPhase(cur, to))
<1>1. GoodWrite(f, cur)
  BY DEF GoodWrite, LegalWrite
<1>2. ASSUME NEW to \in Phases, LegalMove(fnd[f], to) PROVE GoodWrite(f, SetPhase(cur, to))
  <2>1. SetPhase(cur, to) \in Finding /\ SetPhase(cur, to).pr = cur.pr
    BY SetPhaseFinding
  <2>2. Life(SetPhase(cur, to)) = SetPhase(Life(fnd[f]), to)
    BY SetPhaseLife
  <2> QED BY <1>2, <2>1, <2>2 DEF GoodWrite, LegalWrite
<1> QED BY <1>1, <1>2

\* Nothing of the remediation side, and no pull request, is written.
LEMMA WorkerKept ==
    ASSUME IType, UNCHANGED <<remVars, prs>>
    PROVE  RemTypeOK' /\ WorkerPR'
BY DEF IType, TypeOK, RemTypeOK, WorkerPR, remVars

-----------------------------------------------------------------------------
(* investigation-controller's steps                                          *)

LEMMA InvestigateSteps ==
    ASSUME IType, Investigate
    PROVE  IType' /\ LegalStep
<1> DEFINE Typed == /\ inv \in Runs /\ rem \in Runs /\ job \in Jobs
                    /\ prs \in [Findings -> Seq({"open", "closed", "merged"})]
                    /\ breaker \in [Kinds -> BOOLEAN] /\ faults \in 0..MaxFaults
           FndOK == fnd' \in [Findings -> Finding] /\ PRsRecorded' /\ LegalStep
           Good == Typed' /\ FndOK /\ InvTypeOK' /\ prs' = prs
<1>1. UNCHANGED <<remVars, asks>> /\ InvNext
  BY DEF Investigate
<1>2. Typed /\ fnd \in [Findings -> Finding] /\ gate \in [Findings -> GateSteps] /\ invW \in InvSteps
  BY DEF IType, TypeOK, ClusterTypeOK, InvTypeOK, Runs, Jobs
<1>3. SUFFICES Good
  BY <1>1, WorkerKept DEF IType, TypeOK, ClusterTypeOK, PRsRecorded, Runs, Jobs
<1>4. UNCHANGED <<fnd, prs>> => FndOK
  BY NothingWritten
<1> HIDE DEF FndOK
<1>5. ASSUME NEW f \in Findings, GateAdmit(f) PROVE Good
  <2>1. fnd[f].attInv + 1 \in Attempts
    BY <1>2, <1>5, MaxRunsAssumption DEF GateAdmit, Finding, Attempts
  <2>2. InvTypeOK'
    BY <1>2, <1>5, <2>1 DEF GateAdmit, InvTypeOK, GateSteps
  <2> QED BY <1>2, <1>4, <1>5, <2>2 DEF GateAdmit, cluster
<1>6. ASSUME NEW f \in Findings, GateCreate(f) PROVE Good
  <2>1. gate[f] \in [step : {"create", "advance"}, attempt : Attempts]
    BY <1>2, <1>6 DEF GateCreate, GateSteps, Idle
  <2>2. [inv EXCEPT ![f][gate[f].attempt].phase = "Pending"] \in Runs
    BY <1>2, <2>1, RunWritten, Zenon DEF RunPhases
  <2>3. inv' \in Runs
    BY <1>2, <1>6, <2>2 DEF GateCreate
  <2>4. [gate[f] EXCEPT !.step = "advance"] \in GateSteps
    BY <2>1 DEF GateSteps
  <2>5. InvTypeOK'
    BY <1>2, <1>6, <2>4 DEF GateCreate, InvTypeOK
  <2> QED BY <1>2, <1>4, <1>6, <2>3, <2>5 DEF GateCreate
<1>7. ASSUME NEW f \in Findings, GateAdvance(f) PROVE Good
  <2>1. gate[f].attempt \in Attempts
    BY <1>2, <1>7, GateStepTypes DEF GateAdvance
  <2>2. InvTypeOK'
    BY <1>2, <1>7 DEF GateAdvance, InvTypeOK, GateSteps
  <2>3. CASE fnd[f].phase # "Enhanced"
    BY <1>2, <1>4, <1>7, <2>2, <2>3 DEF GateAdvance
  <2>4. CASE fnd[f].phase = "Enhanced"
    <3> DEFINE moved == SetPhase(fnd[f], "Investigating")
               run == [kind |-> "inv", n |-> gate[f].attempt]
               new == [moved EXCEPT !.attInv = gate[f].attempt, !.activeRun = run]
    <3>1. LegalMove(fnd[f], "Investigating")
      BY <2>4 DEF LegalMove, CanTransition, transitions, Phases
    <3>2. GoodWrite(f, moved)
      BY <3>1, FindingMoved DEF Phases
    <3>3. run \in ActiveRuns /\ gate[f].attempt \in 0..MaxRuns
      BY <2>1, MaxRunsAssumption DEF ActiveRuns, Kinds, Attempts
    <3>4. WriteFinding(f, new)
      BY <1>7, <2>4 DEF GateAdvance
    <3> HIDE DEF moved, run
    <3>5. new \in Finding /\ new.pr = moved.pr /\ Life(new) = Life(moved)
      BY <3>2, <3>3, Zenon DEF GoodWrite, Finding, ActiveRuns, Life
    <3>6. GoodWrite(f, new)
      BY <3>2, <3>5 DEF GoodWrite, LegalWrite
    <3> HIDE DEF new
    <3>7. FndOK
      BY <1>7, <3>4, <3>6, FindingWritten DEF GateAdvance, FndOK
    <3> QED BY <1>2, <1>7, <2>2, <3>7 DEF GateAdvance
  <2> QED BY <2>3, <2>4
<1>8. ASSUME NEW f \in Findings, GatePark(f) PROVE Good
  <2>1. LegalMove(fnd[f], "HandedOff")
    BY <1>8 DEF GatePark, LegalMove, CanTransition, transitions, Phases
  <2>2. GoodWrite(f, SetPhase(fnd[f], "HandedOff"))
    BY <2>1, FindingMoved DEF Phases
  <2>3. FndOK
    BY <1>8, <2>2, FindingWritten DEF GatePark, FndOK
  <2> QED BY <1>2, <1>8, <2>3 DEF GatePark, InvTypeOK, invVars
<1>9. ASSUME NEW f \in Findings, GateRetryRevert(f) PROVE Good
  <2>1. LegalMove(fnd[f], "Enhanced")
    BY <1>9 DEF GateRetryRevert, LegalMove, CanTransition, transitions, Phases
  <2>2. GoodWrite(f, SetPhase(fnd[f], "Enhanced"))
    BY <2>1, FindingMoved DEF Phases
  <2>3. FndOK
    BY <1>9, <2>2, FindingWritten DEF GateRetryRevert, FndOK
  <2> QED BY <1>2, <1>9, <2>3 DEF GateRetryRevert, InvTypeOK, invVars
<1>10. ASSUME NEW f \in Findings, NEW n \in Attempts, InvGrant(f, n) PROVE Good
  <2>1. inv' \in Runs
    BY <1>2, <1>10, RunWritten, Zenon DEF InvGrant, RunPhases
  <2> QED BY <1>2, <1>4, <1>10, <2>1 DEF InvGrant, InvTypeOK, invVars
<1>11. ASSUME NEW f \in Findings, NEW n \in Attempts, InvLaunch(f, n) PROVE Good
  <2>1. [state |-> "running", repoImage |-> Pin("inv", f)] \in Job
    BY DEF Pin, Job, JobStates
  <2>2. job' \in Jobs
    BY <1>2, <1>11, <2>1, JobWritten, Zenon DEF InvLaunch, CreateJob, Kinds, JobStates
  <2>3. InvTypeOK'
    BY <1>2, <1>11 DEF InvLaunch, InvTypeOK, InvSteps
  <2> QED BY <1>2, <1>4, <1>11, <2>2, <2>3 DEF InvLaunch
<1>12. CASE InvRecordJob
  <2>1. invW.f \in Findings /\ invW.n \in Attempts
    BY <1>2, <1>12, InvStepTypes DEF InvRecordJob
  <2>2. job["inv"][invW.f][invW.n] \in Job
    BY <1>2, <2>1 DEF Jobs, Kinds
  <2>3. inv' \in Runs
    <3>1. job["inv"][invW.f][invW.n].repoImage \in BOOLEAN
      BY <2>2 DEF Job
    <3> QED BY <1>2, <1>12, <2>1, <3>1, JobRecorded, Zenon DEF InvRecordJob
  <2>4. InvTypeOK'
    BY <1>2, <1>12 DEF InvRecordJob, InvTypeOK, InvSteps
  <2> QED BY <1>2, <1>4, <1>12, <2>3, <2>4 DEF InvRecordJob
<1>13. ASSUME NEW f \in Findings, NEW n \in Attempts, InvFail(f, n) PROVE Good
  <2>1. inv' \in Runs
    BY <1>2, <1>13, RunWritten, Zenon DEF InvFail, InvStamp, RunPhases
  <2>2. InvTypeOK'
    BY <1>2, <1>13 DEF InvFail, InvTypeOK, InvSteps
  <2> QED BY <1>2, <1>4, <1>13, <2>1, <2>2 DEF InvFail
<1>14. ASSUME NEW f \in Findings, NEW n \in Attempts, InvSandboxRefused(f, n) PROVE Good
  <2>1. inv' \in Runs
    BY <1>2, <1>14, RunWritten, Zenon DEF InvSandboxRefused, RunPhases
  <2>2. InvTypeOK' /\ breaker' \in [Kinds -> BOOLEAN]
    BY <1>2, <1>14, Zenon DEF InvSandboxRefused, InvTypeOK, InvSteps
  <2> QED BY <1>2, <1>4, <1>14, <2>1, <2>2 DEF InvSandboxRefused
<1>15. ASSUME NEW f \in Findings, NEW n \in Attempts, InvApply(f, n) PROVE Good
  <2>1. inv' \in Runs
    BY <1>2, <1>15, RunWritten, Zenon DEF InvApply, InvStamp, RunPhases
  <2>2. Route(f, n, job["inv"][f][n].state) \in {"Dismissed", "AwaitingApproval", "Queued", "HandedOff"}
    BY DEF Route
  <2>3. InvTypeOK'
    BY <1>2, <1>15, <2>2 DEF InvApply, InvTypeOK, InvSteps
  <2> QED BY <1>2, <1>4, <1>15, <2>1, <2>3 DEF InvApply
<1>16. CASE InvRelease
  <2>1. invW.f \in Findings /\ invW.n \in Attempts /\ invW.to \in {"Enhanced", "Failed"}
    BY <1>2, <1>16, InvStepTypes DEF InvRelease
  <2>2. job' \in Jobs
    <3>1. [job EXCEPT !["inv"][invW.f][invW.n].state = "gone"] \in Jobs
      BY <1>2, <2>1, JobWritten, ZenonT(60) DEF JobStates, Kinds
    <3> QED BY <1>2, <1>16, <3>1, Zenon DEF InvRelease
  <2>3. InvTypeOK'
    BY <1>2, <1>16 DEF InvRelease, InvTypeOK, InvSteps
  <2>4. CASE fnd[invW.f].phase # "Investigating"
    BY <1>2, <1>4, <1>16, <2>2, <2>3, <2>4 DEF InvRelease
  <2>5. CASE fnd[invW.f].phase = "Investigating"
    <3>1. LegalMove(fnd[invW.f], invW.to)
      BY <2>1, <2>5 DEF LegalMove, CanTransition, transitions, Phases
    <3>2. GoodWrite(invW.f, [SetPhase(fnd[invW.f], invW.to) EXCEPT !.activeRun = NoRun])
      BY <2>1, <3>1, FindingMoved DEF Phases, ActiveRuns
    <3>3. FndOK
      BY <1>16, <2>1, <2>5, <3>2, FindingWritten DEF InvRelease, FndOK
    <3> QED BY <1>2, <1>16, <2>2, <2>3, <3>3 DEF InvRelease
  <2> QED BY <2>4, <2>5
<1>17. CASE InvRoute
  <2>1. invW.f \in Findings /\ invW.to \in {"Dismissed", "AwaitingApproval", "Queued", "HandedOff"}
    BY <1>2, <1>17, InvStepTypes DEF InvRoute
  <2>2. InvTypeOK'
    BY <1>2, <1>17 DEF InvRoute, InvTypeOK, InvSteps
  <2> DEFINE old == fnd[invW.f]
             cur == [old EXCEPT !.analysis = TRUE, !.activeRun = NoRun]
             new == IF cur.phase = "Investigating" THEN SetPhase(cur, invW.to) ELSE cur
  <2>3. old \in Finding /\ old.pr \in 0..Len(prs[invW.f])
    BY <1>2, <2>1 DEF IType, TypeOK
  <2>4. WriteFinding(invW.f, new)
    BY <1>17 DEF InvRoute
  <2> HIDE DEF old
  <2>5. cur \in Finding /\ cur.pr = old.pr /\ Life(cur) = Life(old) /\ cur.phase = old.phase
    BY <2>3, Zenon DEF Finding, Life
  <2> HIDE DEF cur
  <2>6. old.phase = "Investigating" => LegalMove(old, invW.to)
    BY <2>1 DEF LegalMove, CanTransition, transitions, Phases
  <2>7. GoodWrite(invW.f, new)
    <3>1. invW.to \in Phases
      BY <2>1 DEF Phases
    <3>2. GoodWrite(invW.f, cur) /\ (old.phase = "Investigating" => GoodWrite(invW.f, SetPhase(cur, invW.to)))
      BY <2>1, <2>3, <2>5, <2>6, <3>1, FindingEdited DEF old
    <3> QED BY <2>5, <3>2
  <2> HIDE DEF new
  <2>8. FndOK
    BY <1>17, <2>1, <2>4, <2>7, FindingWritten DEF InvRoute, FndOK
  <2> QED BY <1>2, <1>17, <2>2, <2>8 DEF InvRoute
<1> QED BY <1>1, <1>5, <1>6, <1>7, <1>8, <1>9, <1>10, <1>11, <1>12, <1>13, <1>14, <1>15, <1>16, <1>17 DEF InvNext

-----------------------------------------------------------------------------
(* remediation-controller's steps                                            *)

LEMMA RemediateSteps ==
    ASSUME IType, Remediate
    PROVE  IType' /\ LegalStep
<1> DEFINE Typed == /\ inv \in Runs /\ rem \in Runs /\ job \in Jobs
                    /\ prs \in [Findings -> Seq({"open", "closed", "merged"})]
                    /\ breaker \in [Kinds -> BOOLEAN] /\ faults \in 0..MaxFaults
           FndOK == fnd' \in [Findings -> Finding] /\ PRsRecorded' /\ LegalStep
           Good == Typed' /\ FndOK /\ RemTypeOK' /\ WorkerPR'
<1>1. UNCHANGED <<invVars, asks>> /\ RemNext
  BY DEF Remediate
<1>2. Typed /\ fnd \in [Findings -> Finding] /\ RemTypeOK /\ WorkerPR
  BY DEF IType, TypeOK, ClusterTypeOK, Runs, Jobs
<1>3. SUFFICES Good
  BY <1>1 DEF IType, TypeOK, ClusterTypeOK, InvTypeOK, invVars, PRsRecorded, Runs, Jobs
<1>4. UNCHANGED <<fnd, prs>> => FndOK
  BY NothingWritten
<1>5. UNCHANGED <<remW, prs>> \/ remW' = NoStep => WorkerPR'
  BY <1>2 DEF WorkerPR, NoStep
<1>6. UNCHANGED remVars => RemTypeOK'
  BY <1>2 DEF RemTypeOK, remVars
<1> HIDE DEF FndOK
<1>7. ASSUME NEW f \in Findings, SpawnAdmit(f) \/ SpawnRevive(f) \/ SpawnRetryAdmit(f) PROVE Good
  <2>1. LegalMove(fnd[f], "Queued")
    BY <1>7 DEF SpawnAdmit, SpawnRevive, SpawnRetryAdmit, LegalMove, CanTransition, transitions, Phases
  <2>2. GoodWrite(f, SetPhase(fnd[f], "Queued"))
    BY <2>1, FindingMoved DEF Phases
  <2>3. WriteFinding(f, SetPhase(fnd[f], "Queued")) /\ UNCHANGED <<inv, rem, job, prs, breaker, faults, remVars>>
    BY <1>7 DEF SpawnAdmit, SpawnRevive, SpawnRetryAdmit
  <2>4. FndOK
    BY <2>2, <2>3, FindingWritten DEF FndOK
  <2>5. UNCHANGED <<remW, prs>>
    BY <2>3 DEF remVars
  <2> QED BY <1>2, <1>5, <1>6, <2>3, <2>4, <2>5
<1>8. ASSUME NEW f \in Findings, SpawnDecide(f) PROVE Good
  <2>1. fnd[f].attRem + 1 \in Attempts
    BY <1>2, <1>8, MaxRunsAssumption DEF SpawnDecide, Finding, Attempts
  <2>2. RemTypeOK'
    BY <1>2, <1>8, <2>1 DEF SpawnDecide, RemTypeOK, SpawnSteps
  <2> QED BY <1>2, <1>4, <1>5, <1>8, <2>2 DEF SpawnDecide, cluster
<1>9. ASSUME NEW f \in Findings, SpawnCreate(f) PROVE Good
  <2>1. spawn[f] \in [step : {"create", "count"}, attempt : Attempts]
    BY <1>2, <1>9 DEF SpawnCreate, RemTypeOK, SpawnSteps, NoStep
  <2>2. [rem EXCEPT ![f][spawn[f].attempt].phase = "Pending"] \in Runs
    BY <1>2, <2>1, RunWritten, Zenon DEF RunPhases
  <2>3. rem' \in Runs
    BY <1>2, <1>9, <2>2 DEF SpawnCreate
  <2>4. [spawn[f] EXCEPT !.step = "count"] \in SpawnSteps
    BY <2>1 DEF SpawnSteps
  <2>5. remSeen' \in [Findings -> SUBSET Attempts]
    BY <1>2, <1>9, <2>1 DEF SpawnCreate, RemTypeOK
  <2>6. RemTypeOK'
    BY <1>2, <1>9, <2>4, <2>5 DEF SpawnCreate, RemTypeOK
  <2> QED BY <1>2, <1>4, <1>5, <1>9, <2>3, <2>6 DEF SpawnCreate
<1>10. ASSUME NEW f \in Findings, SpawnCount(f) PROVE Good
  <2> DEFINE new == [fnd[f] EXCEPT !.attRem = spawn[f].attempt]
  <2>1. spawn[f].attempt \in 0..MaxRuns
    BY <1>2, <1>10, SpawnStepTypes, MaxRunsAssumption DEF SpawnCount, RemTypeOK, Attempts
  <2>2. fnd[f] \in Finding /\ fnd[f].pr \in 0..Len(prs[f])
    BY <1>2 DEF IType, TypeOK
  <2>3. new \in Finding /\ new.pr = fnd[f].pr /\ Life(new) = Life(fnd[f])
    BY <2>1, <2>2, Zenon DEF Finding, Life
  <2>4. fnd' = fnd \/ WriteFinding(f, new)
    BY <1>10 DEF SpawnCount
  <2> HIDE DEF new
  <2>5. GoodWrite(f, new)
    BY <2>2, <2>3, FindingEdited
  <2>6. FndOK
    BY <1>4, <1>10, <2>4, <2>5, FindingWritten DEF SpawnCount, FndOK
  <2>7. RemTypeOK'
    BY <1>2, <1>10 DEF SpawnCount, RemTypeOK, SpawnSteps
  <2> QED BY <1>2, <1>5, <1>10, <2>6, <2>7 DEF SpawnCount
<1>11. ASSUME NEW f \in Findings, NEW n \in Attempts, Observe(f, n) PROVE Good
  <2>1. RemTypeOK'
    BY <1>2, <1>11 DEF Observe, RemTypeOK
  <2> QED BY <1>2, <1>4, <1>5, <1>11, <2>1 DEF Observe, cluster
<1>12. ASSUME NEW f \in Findings, NEW n \in Attempts, RemGrant(f, n) PROVE Good
  <2>1. rem' \in Runs
    BY <1>2, <1>12, RunWritten, Zenon DEF RemGrant, RunPhases
  <2>2. RemTypeOK' /\ WorkerPR'
    BY <1>2, <1>12 DEF RemGrant, RemTypeOK, RemSteps, WorkerPR
  <2> QED BY <1>2, <1>4, <1>12, <2>1, <2>2 DEF RemGrant
<1>13. ASSUME NEW f \in Findings, NEW n \in Attempts, RemLaunch(f, n) PROVE Good
  <2>1. [state |-> "running", repoImage |-> Pin("rem", f)] \in Job
    BY DEF Pin, Job, JobStates
  <2>2. job' \in Jobs
    BY <1>2, <1>13, <2>1, JobWritten, Zenon DEF RemLaunch, CreateJob, Kinds, JobStates
  <2>3. RemTypeOK' /\ WorkerPR'
    BY <1>2, <1>13 DEF RemLaunch, RemTypeOK, RemSteps, WorkerPR
  <2> QED BY <1>2, <1>4, <1>13, <2>2, <2>3 DEF RemLaunch
<1>14. CASE RemRecordJob
  <2>1. remW.f \in Findings /\ remW.n \in Attempts
    BY <1>2, <1>14, RemStepTypes DEF RemRecordJob, RemTypeOK, NoStep
  <2>2. job["rem"][remW.f][remW.n] \in Job
    BY <1>2, <2>1 DEF Jobs, Kinds
  <2>3. job["rem"][remW.f][remW.n].repoImage \in BOOLEAN
    BY <2>2 DEF Job
  <2>4. rem' \in Runs
    BY <1>2, <1>14, <2>1, <2>3, JobRecorded, Zenon DEF RemRecordJob
  <2>5. RemTypeOK'
    BY <1>2, <1>14 DEF RemRecordJob, RemTypeOK, RemSteps
  <2> QED BY <1>2, <1>4, <1>5, <1>14, <2>4, <2>5 DEF RemRecordJob
<1> USE DEF Finish
<1>15. ASSUME NEW f \in Findings, NEW n \in Attempts, RemHoldForImage(f, n) PROVE Good
  <2>1. rem' \in Runs
    BY <1>2, <1>15, RunWritten, Zenon DEF RemHoldForImage, RunPhases
  <2>2. RemTypeOK' /\ WorkerPR'
    BY <1>2, <1>15 DEF RemHoldForImage, RemTypeOK, RemSteps, WorkerPR
  <2> QED BY <1>2, <1>4, <1>15, <2>1, <2>2 DEF RemHoldForImage
<1>16. ASSUME NEW f \in Findings, NEW n \in Attempts, RemFail(f, n) PROVE Good
  <2>1. rem' \in Runs
    BY <1>2, <1>16, RunWritten, Zenon DEF RemFail, RunPhases
  <2> DEFINE to == AfterFailure(f, n)
             pulled == Collectable(f, n) /\ job["rem"][f][n].state = "pullFailed"
  <2>2. to \in {"Queued", "Failed", "HandedOff"} /\ pulled \in BOOLEAN
    BY DEF AfterFailure
  <2>3. remW' = [step |-> "finish", f |-> f, n |-> n, to |-> to, pullFailed |-> pulled]
    BY <1>16 DEF RemFail
  <2> HIDE DEF to, pulled
  <2>4. remW' \in RemSteps /\ WorkerPR'
    BY <2>2, <2>3 DEF RemSteps, WorkerPR
  <2>5. RemTypeOK'
    BY <1>2, <1>16, <2>4 DEF RemFail, RemTypeOK
  <2> QED BY <1>2, <1>4, <1>16, <2>1, <2>4, <2>5 DEF RemFail
<1>17. ASSUME NEW f \in Findings, NEW n \in Attempts, RemSandboxRefused(f, n) PROVE Good
  <2>1. rem' \in Runs
    BY <1>2, <1>17, RunWritten, Zenon DEF RemSandboxRefused, RunPhases
  <2>2. RemTypeOK' /\ WorkerPR' /\ breaker' \in [Kinds -> BOOLEAN]
    BY <1>2, <1>17, Zenon DEF RemSandboxRefused, RemTypeOK, RemSteps, WorkerPR
  <2> QED BY <1>2, <1>4, <1>17, <2>1, <2>2 DEF RemSandboxRefused
<1>18. ASSUME NEW f \in Findings, NEW n \in Attempts, RemHandOff(f, n) PROVE Good
  <2>1. rem' \in Runs
    BY <1>2, <1>18, RunWritten, Zenon DEF RemHandOff, RunPhases
  <2>2. RemTypeOK' /\ WorkerPR'
    BY <1>2, <1>18 DEF RemHandOff, RemTypeOK, RemSteps, WorkerPR
  <2> QED BY <1>2, <1>4, <1>18, <2>1, <2>2 DEF RemHandOff
<1>19. ASSUME NEW f \in Findings, NEW n \in Attempts, RemPush(f, n) PROVE Good
  <2>1. RemTypeOK' /\ WorkerPR'
    BY <1>2, <1>19 DEF RemPush, RemTypeOK, RemSteps, WorkerPR
  <2> QED BY <1>2, <1>4, <1>19, <2>1 DEF RemPush, cluster
<1>20. CASE RemAdvance
  <2>1. remW.f \in Findings /\ remW.n \in Attempts
    BY <1>2, <1>20, RemStepTypes DEF RemAdvance, RemTypeOK, NoStep
  <2>2. RemTypeOK'
    BY <1>2, <1>20 DEF RemAdvance, RemTypeOK, RemSteps
  <2>3. FndOK
    <3>1. CASE fnd[remW.f].phase # "Queued"
      BY <1>4, <1>20, <3>1 DEF RemAdvance
    <3>2. CASE fnd[remW.f].phase = "Queued"
      <4> DEFINE run == [kind |-> "rem", n |-> remW.n]
      <4>1. LegalMove(fnd[remW.f], "Remediating")
        BY <3>2 DEF LegalMove, CanTransition, transitions, Phases
      <4>2. run \in ActiveRuns
        BY <2>1 DEF ActiveRuns, Kinds
      <4>3. WriteFinding(remW.f, [SetPhase(fnd[remW.f], "Remediating") EXCEPT !.activeRun = run]) /\ prs' = prs
        BY <1>20, <3>2 DEF RemAdvance
      <4> HIDE DEF run
      <4>4. GoodWrite(remW.f, [SetPhase(fnd[remW.f], "Remediating") EXCEPT !.activeRun = run])
        BY <2>1, <4>1, <4>2, FindingMoved DEF Phases
      <4> QED BY <2>1, <4>3, <4>4, FindingWritten DEF FndOK
    <3> QED BY <3>1, <3>2
  <2> QED BY <1>2, <1>5, <1>20, <2>2, <2>3 DEF RemAdvance
<1>21. CASE RemEnsurePR
  <2> DEFINE f == remW.f
  <2>1. f \in Findings /\ remW.n \in Attempts
    BY <1>2, <1>21, RemStepTypes DEF RemEnsurePR, RemTypeOK, NoStep
  <2>2. prs[f] \in Seq({"open", "closed", "merged"}) /\ PRsRecorded
    BY <1>2, <2>1 DEF IType, TypeOK, PRsRecorded
  <2>3. UNCHANGED <<fnd, inv, rem, job, breaker, faults, spawn, remSeen>>
    BY <1>21 DEF RemEnsurePR
  <2>4. /\ prs' \in [Findings -> Seq({"open", "closed", "merged"})]
        /\ \A g \in Findings : Len(prs[g]) <= Len(prs'[g])
        /\ \E i \in 1..Len(prs'[f]) : remW' = [step |-> "stamp", f |-> f, n |-> remW.n, pr |-> i]
    <3>1. CASE OpenPRs(f) # {} /\ prs' = prs
              /\ \E i \in OpenPRs(f) : remW' = [step |-> "stamp", f |-> f, n |-> remW.n, pr |-> i]
      <4>1. OpenPRs(f) \subseteq 1..Len(prs[f])
        BY <2>2 DEF OpenPRs
      <4>2. \A g \in Findings : Len(prs[g]) \in Nat
        BY <1>2
      <4> QED BY <1>2, <3>1, <4>1, <4>2
    <3>2. CASE prs' = [prs EXCEPT ![f] = Append(@, "open")]
              /\ remW' = [step |-> "stamp", f |-> f, n |-> remW.n, pr |-> Len(prs[f]) + 1]
      <4>1. Append(prs[f], "open") \in Seq({"open", "closed", "merged"}) /\ Len(prs[f]) \in Nat
              /\ Len(Append(prs[f], "open")) = Len(prs[f]) + 1
        BY <2>2
      <4>2. prs' \in [Findings -> Seq({"open", "closed", "merged"})] /\ prs'[f] = Append(prs[f], "open")
              /\ \A g \in Findings : g # f => prs'[g] = prs[g]
        BY <1>2, <2>1, <3>2, <4>1
      <4>3. \A g \in Findings : Len(prs[g]) \in Nat
        BY <1>2
      <4>4. \A g \in Findings : Len(prs[g]) <= Len(prs'[g])
        BY <4>1, <4>2, <4>3
      <4>5. Len(prs[f]) + 1 \in 1..Len(prs'[f])
        BY <4>1, <4>2
      <4> QED BY <3>2, <4>2, <4>4, <4>5
    <3> QED BY <1>21, <3>1, <3>2 DEF RemEnsurePR
  <2>5. PICK i \in 1..Len(prs'[f]) : remW' = [step |-> "stamp", f |-> f, n |-> remW.n, pr |-> i]
    BY <2>4
  <2>6. i \in Nat
    BY <2>1, <2>4
  <2>7. RemTypeOK' /\ WorkerPR'
    BY <1>2, <2>1, <2>3, <2>5, <2>6 DEF RemTypeOK, RemSteps, WorkerPR
  <2>8. PRsRecorded'
    <3> SUFFICES ASSUME NEW g \in Findings PROVE fnd[g].pr \in 0..Len(prs'[g])
      BY <2>3 DEF PRsRecorded
    <3>1. fnd[g].pr \in 0..Len(prs[g]) /\ Len(prs[g]) <= Len(prs'[g])
            /\ Len(prs[g]) \in Nat /\ Len(prs'[g]) \in Nat
      BY <1>2, <2>2, <2>4 DEF PRsRecorded
    <3> QED BY <3>1
  <2>9. FndOK
    BY <1>2, <2>3, <2>8 DEF FndOK, LegalStep
  <2> QED BY <1>2, <2>3, <2>4, <2>7, <2>9
<1>22. CASE RemStamp
  <2>1. remW.f \in Findings /\ remW.n \in Attempts
    BY <1>2, <1>22, RemStepTypes DEF RemStamp, RemTypeOK, NoStep
  <2>2. rem' \in Runs
    BY <1>2, <1>22, <2>1, RunWritten, Zenon DEF RemStamp, RunPhases
  <2>3. remW \in [step : {"stamp", "record"}, f : Findings, n : Attempts, pr : Nat]
    BY <1>2, <1>22 DEF RemStamp, RemTypeOK, RemSteps, NoStep
  <2>4. remW' \in [step : {"stamp", "record"}, f : Findings, n : Attempts, pr : Nat]
           /\ remW'.f = remW.f /\ remW'.pr = remW.pr
    BY <1>22, <2>3 DEF RemStamp
  <2>5. RemTypeOK' /\ WorkerPR'
    BY <1>2, <1>22, <2>4 DEF RemStamp, RemTypeOK, RemSteps, WorkerPR
  <2> QED BY <1>2, <1>4, <1>22, <2>2, <2>5 DEF RemStamp
<1>23. CASE RemRecord
  <2> DEFINE old == fnd[remW.f]
             cur == [old EXCEPT !.pr = remW.pr, !.prState = "open", !.activeRun = NoRun]
             new == IF cur.phase = "Remediating" THEN SetPhase(cur, "InReview") ELSE cur
  <2>1. remW.f \in Findings
    BY <1>2, <1>23, RemStepTypes DEF RemRecord, RemTypeOK, NoStep
  <2>2. remW.pr \in 1..Len(prs[remW.f]) /\ remW.pr \in Nat
    BY <1>2, <1>23, RemStepTypes DEF RemRecord, RemTypeOK, WorkerPR
  <2>3. old \in Finding
    BY <1>2, <2>1
  <2>4. WriteFinding(remW.f, new)
    BY <1>23 DEF RemRecord
  <2> HIDE DEF old
  <2>5. cur \in Finding /\ cur.pr = remW.pr /\ Life(cur) = Life(old) /\ cur.phase = old.phase
    BY <2>2, <2>3, Zenon DEF Finding, Life
  <2> HIDE DEF cur
  <2>6. old.phase = "Remediating" => LegalMove(old, "InReview")
    BY DEF LegalMove, CanTransition, transitions, Phases
  <2>7. cur.pr \in 0..Len(prs[remW.f])
    BY <2>2, <2>5
  <2>8. "InReview" \in Phases
    BY DEF Phases
  <2>9. GoodWrite(remW.f, cur) /\ (old.phase = "Remediating" => GoodWrite(remW.f, SetPhase(cur, "InReview")))
    BY <2>1, <2>5, <2>6, <2>7, <2>8, FindingEdited DEF old
  <2>10. GoodWrite(remW.f, new)
    BY <2>5, <2>9
  <2> HIDE DEF new
  <2>11. FndOK
    BY <1>23, <2>1, <2>4, <2>10, FindingWritten DEF RemRecord, FndOK
  <2>12. RemTypeOK'
    BY <1>2, <1>23 DEF RemRecord, RemTypeOK, RemSteps
  <2> QED BY <1>2, <1>5, <1>23, <2>11, <2>12 DEF RemRecord
<1>24. CASE RemFinish
  <2>1. remW.f \in Findings /\ remW.n \in Attempts /\ remW.to \in {"Queued", "Failed", "HandedOff"}
    BY <1>2, <1>24, RemStepTypes DEF RemFinish, RemTypeOK, NoStep
  <2>2. job' \in Jobs
    <3>1. [job EXCEPT !["rem"][remW.f][remW.n].state = "gone"] \in Jobs
      BY <1>2, <2>1, JobWritten, Zenon DEF JobStates, Kinds
    <3> QED BY <1>2, <1>24, <3>1, Zenon DEF RemFinish
  <2>3. RemTypeOK'
    BY <1>2, <1>24 DEF RemFinish, RemTypeOK, RemSteps
  <2>4. FndOK
    <3>1. CASE fnd[remW.f].phase # "Remediating"
      BY <1>4, <1>24, <3>1 DEF RemFinish
    <3>2. CASE fnd[remW.f].phase = "Remediating"
      <4>1. LegalMove(fnd[remW.f], remW.to)
        BY <2>1, <3>2 DEF LegalMove, CanTransition, transitions, Phases
      <4>2. GoodWrite(remW.f, [SetPhase(fnd[remW.f], remW.to) EXCEPT !.activeRun = NoRun])
        BY <2>1, <4>1, FindingMoved DEF Phases, ActiveRuns
      <4> QED BY <1>24, <2>1, <3>2, <4>2, FindingWritten DEF RemFinish, FndOK
    <3> QED BY <3>1, <3>2
  <2> QED BY <1>2, <1>5, <1>24, <2>2, <2>3, <2>4 DEF RemFinish
<1> QED BY <1>1, <1>7, <1>8, <1>9, <1>10, <1>11, <1>12, <1>13, <1>14, <1>15, <1>16, <1>17, <1>18,
           <1>19, <1>20, <1>21, <1>22, <1>23, <1>24 DEF RemNext

-----------------------------------------------------------------------------
(* The steps of integration-controller, of people, of agents, and the faults *)

LEMMA OnlyFinding ==
    ASSUME IType, UNCHANGED <<others, invVars, remVars>>, asks' \in 0..MaxAsks,
           NEW f \in Findings, NEW new, GoodWrite(f, new), WriteFinding(f, new)
    PROVE  IType' /\ LegalStep
<1>1. prs' = prs
  BY DEF others
<1>2. fnd' \in [Findings -> Finding] /\ PRsRecorded' /\ LegalStep
  BY <1>1, FindingWritten
<1>3. RemTypeOK' /\ WorkerPR'
  BY <1>1, WorkerKept
<1> QED BY <1>2, <1>3 DEF IType, TypeOK, ClusterTypeOK, InvTypeOK, invVars, others, PRsRecorded

\* settle: the outcome of the recorded pull request, in review.
LEMMA SettleWrites ==
    ASSUME IType, NEW f \in Findings, fnd[f].phase = "InReview", NEW state \in {"closed", "merged"}
    PROVE  GoodWrite(f, Settle(fnd[f], state))
<1> DEFINE old == fnd[f]
           cur == [old EXCEPT !.closePending = "none", !.prState = state]
           to == IF state = "merged" THEN "Remediated" ELSE "Failed"
<1>1. old \in Finding /\ old.pr \in 0..Len(prs[f])
  BY DEF IType, TypeOK, ClusterTypeOK
<1>2. LegalMove(old, to) /\ to \in Phases
  BY DEF LegalMove, CanTransition, transitions, Phases
<1>3. Settle(fnd[f], state) = SetPhase(cur, to)
  BY DEF Settle
<1> HIDE DEF old, to
<1>4. cur \in Finding /\ cur.pr = old.pr /\ Life(cur) = Life(old)
  BY <1>1, ZenonT(60) DEF Finding, Life
<1> HIDE DEF cur
<1> QED BY <1>1, <1>2, <1>3, <1>4, FindingEdited DEF old

\* An edit of the tracking issue and of the pending close, and a hand-off.
LEMMA TrackingWrites ==
    ASSUME IType, NEW f \in Findings, NEW tracking \in {"open", "closed"},
           NEW pending \in {"none", "issue", "repo"}, NEW cur,
           cur = [fnd[f] EXCEPT !.tracking = tracking, !.closePending = pending]
    PROVE  /\ GoodWrite(f, cur)
           /\ cur.phase = fnd[f].phase
           /\ LegalMove(fnd[f], "HandedOff") => GoodWrite(f, SetPhase(cur, "HandedOff"))
<1>1. fnd[f] \in Finding /\ fnd[f].pr \in 0..Len(prs[f])
  BY DEF IType, TypeOK, ClusterTypeOK
<1>2. cur \in Finding /\ cur.pr = fnd[f].pr /\ Life(cur) = Life(fnd[f]) /\ cur.phase = fnd[f].phase
  BY <1>1, Zenon DEF Finding, Life
<1>3. "HandedOff" \in Phases
  BY DEF Phases
<1> QED BY <1>1, <1>2, <1>3, FindingEdited, Zenon

LEMMA IntegrateSteps ==
    ASSUME IType, Integrate
    PROVE  IType' /\ LegalStep
<1>1. PICK f \in Findings : \/ Ingest(f) \/ Enhance(f) \/ SettleReview(f)
                            \/ \E i \in DOMAIN prs[f] : DeliverPR(f, i)
  BY DEF Integrate, IntegrationNext
<1>2. UNCHANGED <<invVars, remVars, others, asks>>
  BY <1>1, Zenon DEF Integrate, Ingest, Enhance, SettleReview, DeliverPR
<1>3. asks' \in 0..MaxAsks
  BY <1>2 DEF IType, TypeOK
<1>4. fnd[f] \in Finding /\ fnd[f].pr \in 0..Len(prs[f])
  BY DEF IType, TypeOK, ClusterTypeOK
<1>5. SUFFICES \E new : GoodWrite(f, new) /\ WriteFinding(f, new)
  BY <1>2, <1>3, OnlyFinding
<1>6. CASE Ingest(f)
  <2>1. LegalMove(fnd[f], "Opened")
    BY <1>6, Zenon DEF Ingest, LegalMove, CanTransition, transitions, Phases, Absent
  <2> QED BY <1>6, <2>1, FindingMoved DEF Ingest, Phases
<1>7. CASE Enhance(f)
  <2>1. LegalMove(fnd[f], "Enhanced")
    BY <1>7 DEF Enhance, LegalMove, CanTransition, transitions, Phases, Absent
  <2> QED BY <1>7, <2>1, FindingMoved DEF Enhance, Phases
<1>8. CASE SettleReview(f)
  <2>1. PICK pr, issue : /\ issue \in {"", "open", "closed"}
                         /\ WriteFinding(f, SettlePendingClose(fnd[f], pr, issue))
    BY <1>8, Zenon DEF SettleReview
  <2>2. fnd[f].phase = "InReview"
    BY <1>8, Zenon DEF SettleReview
  <2>3. CASE pr \in {"closed", "merged"}
    BY <2>1, <2>2, <2>3, SettleWrites, Zenon DEF SettlePendingClose
  <2>4. CASE pr \notin {"closed", "merged"}
    <3> DEFINE tracking == IF issue = "" THEN fnd[f].tracking ELSE issue
               cur == [fnd[f] EXCEPT !.tracking = tracking, !.closePending = "none"]
    <3>1. tracking \in {"open", "closed"}
      BY <1>4, <2>1, Zenon DEF Finding
    <3>2. cur = [fnd[f] EXCEPT !.closePending = "none", !.tracking = IF issue = "" THEN @ ELSE issue]
      BY <1>4, Zenon DEF Finding
    <3>3. LegalMove(fnd[f], "HandedOff")
      BY <2>2 DEF LegalMove, CanTransition, transitions, Phases
    <3>4. SettlePendingClose(fnd[f], pr, issue) \in {cur, SetPhase(cur, "HandedOff")}
      BY <2>4, <3>2 DEF SettlePendingClose
    <3> HIDE DEF tracking
    <3>5. GoodWrite(f, cur) /\ GoodWrite(f, SetPhase(cur, "HandedOff"))
      BY <3>1, <3>3, TrackingWrites, Zenon
    <3> HIDE DEF cur
    <3> QED BY <2>1, <3>4, <3>5, Zenon
  <2> QED BY <2>3, <2>4
<1>9. ASSUME NEW i \in DOMAIN prs[f], DeliverPR(f, i) PROVE \E new : GoodWrite(f, new) /\ WriteFinding(f, new)
  <2>1. PICK sameRepo \in BOOLEAN : WriteFinding(f, PullRequest(fnd[f], i, prs[f][i], sameRepo))
    BY <1>9 DEF DeliverPR
  <2>2. prs[f][i] \in {"closed", "merged"}
    BY <1>9 DEF DeliverPR, IType, TypeOK, ClusterTypeOK
  <2>3. GoodWrite(f, fnd[f])
    BY <1>4, FindingEdited
  <2>4. fnd[f].phase = "InReview" => GoodWrite(f, Settle(fnd[f], prs[f][i]))
    BY <2>2, SettleWrites, Zenon
  <2>5. GoodWrite(f, [fnd[f] EXCEPT !.closePending = "repo"])
    <3>1. [fnd[f] EXCEPT !.closePending = "repo"]
            = [fnd[f] EXCEPT !.tracking = fnd[f].tracking, !.closePending = "repo"]
      BY <1>4, Zenon DEF Finding
    <3>2. fnd[f].tracking \in {"open", "closed"}
      BY <1>4 DEF Finding
    <3> QED BY <3>1, <3>2, TrackingWrites, Zenon
  <2>6. CASE fnd[f].phase # "InReview" \/ fnd[f].pr # i
    BY <2>1, <2>3, <2>6 DEF PullRequest
  <2>7. CASE fnd[f].phase = "InReview" /\ fnd[f].pr = i /\ sameRepo
    BY <2>1, <2>4, <2>7 DEF PullRequest
  <2>8. CASE fnd[f].phase = "InReview" /\ fnd[f].pr = i /\ ~sameRepo
    BY <2>1, <2>3, <2>5, <2>8 DEF PullRequest
  <2> QED BY <2>6, <2>7, <2>8
<1> QED BY <1>1, <1>6, <1>7, <1>8, <1>9

LEMMA PeopleSteps ==
    ASSUME IType, People
    PROVE  IType' /\ LegalStep
<1>1. PICK f \in Findings : \/ CloseIssue(f) \/ ReopenIssue(f) \/ Approve(f) \/ Retry(f)
                            \/ Suspend(f) \/ Resume(f) \/ \E i \in DOMAIN prs[f] : ReviewPR(f, i)
  BY DEF People, PeopleNext
<1>2. UNCHANGED <<invVars, remVars>>
  BY DEF People
<1>3. fnd[f] \in Finding /\ fnd[f].pr \in 0..Len(prs[f])
  BY DEF IType, TypeOK, ClusterTypeOK
<1>4. ASSUME NEW i \in DOMAIN prs[f], ReviewPR(f, i) PROVE IType' /\ LegalStep
  <2>1. UNCHANGED <<fnd, inv, rem, job, breaker, faults, asks>>
    BY <1>4 DEF ReviewPR
  <2>2. prs' \in [Findings -> Seq({"open", "closed", "merged"})] /\ \A g \in Findings : Len(prs'[g]) = Len(prs[g])
    <3>1. PICK state \in {"merged", "closed"} : prs' = [prs EXCEPT ![f][i] = state]
      BY <1>4, Zenon DEF ReviewPR
    <3>2. prs \in [Findings -> Seq({"open", "closed", "merged"})]
      BY DEF IType, TypeOK, ClusterTypeOK
    <3>3. /\ [prs[f] EXCEPT ![i] = state] \in Seq({"open", "closed", "merged"})
          /\ Len([prs[f] EXCEPT ![i] = state]) = Len(prs[f])
      BY <3>2
    <3> QED BY <3>1, <3>2, <3>3
  <2>3. WorkerPR'
    <3>1. remW' = remW /\ WorkerPR
      BY <1>2 DEF remVars, IType
    <3>2. remW.step \in {"stamp", "record"} => remW.f \in Findings
      BY RemStepTypes DEF IType, TypeOK, RemTypeOK, NoStep
    <3> QED BY <2>2, <3>1, <3>2 DEF WorkerPR
  <2> QED BY <1>2, <2>1, <2>2, <2>3 DEF IType, TypeOK, ClusterTypeOK, InvTypeOK, RemTypeOK, invVars, remVars, LegalStep
<1>5. CASE ~\E i \in DOMAIN prs[f] : ReviewPR(f, i)
  <2>1. UNCHANGED others /\ asks' \in 0..MaxAsks
    BY <1>1, <1>5, MaxAsksAssumption
    DEF CloseIssue, ReopenIssue, Approve, Retry, Suspend, Resume, Ask, IType, TypeOK
  <2>2. SUFFICES \E new : GoodWrite(f, new) /\ WriteFinding(f, new)
    BY <1>2, <2>1, OnlyFinding
  <2>3. fnd[f].closePending \in {"none", "issue", "repo"}
    BY <1>3 DEF Finding
  <2>4. CASE CloseIssue(f)
    <3> DEFINE cur == [fnd[f] EXCEPT !.tracking = "closed"]
               waiting == [cur EXCEPT !.closePending = "issue"]
               to == SetPhase(cur, "HandedOff")
    <3>1. cur = [fnd[f] EXCEPT !.tracking = "closed", !.closePending = fnd[f].closePending]
            /\ waiting = [fnd[f] EXCEPT !.tracking = "closed", !.closePending = "issue"]
      BY <1>3, Zenon DEF Finding
    <3>2. fnd[f].phase \notin terminal /\ fnd[f].phase # Absent => LegalMove(fnd[f], "HandedOff")
      BY <1>3, Zenon DEF terminal, LegalMove, CanTransition, transitions, Phases, Finding, Absent
    <3>3. fnd[f].phase # Absent /\ cur.phase = fnd[f].phase
      BY <1>3, <2>4 DEF CloseIssue, Finding
    <3>4. WriteFinding(f, IssueClosed(fnd[f]))
      BY <2>4 DEF CloseIssue
    <3>5. GoodWrite(f, cur) /\ GoodWrite(f, waiting) /\ (fnd[f].phase \notin terminal => GoodWrite(f, to))
      BY <2>3, <3>1, <3>2, <3>3, TrackingWrites, Zenon
    <3>6. IssueClosed(fnd[f]) = CASE cur.phase = "InReview" -> waiting
                                  [] cur.phase \notin terminal \cup {"InReview"} -> to
                                  [] OTHER -> cur
      BY DEF IssueClosed
    <3> HIDE DEF cur, waiting, to
    <3>7. CASE cur.phase = "InReview"
      BY <3>4, <3>5, <3>6, <3>7
    <3>8. CASE cur.phase \notin terminal \cup {"InReview"}
      BY <3>3, <3>4, <3>5, <3>6, <3>8
    <3>9. CASE cur.phase # "InReview" /\ cur.phase \in terminal
      BY <3>4, <3>5, <3>6, <3>9
    <3> QED BY <3>7, <3>8, <3>9
  <2>5. CASE ReopenIssue(f)
    <3> DEFINE cur == [fnd[f] EXCEPT !.tracking = "open"]
               to == SetPhase(cur, "HandedOff")
    <3>1. cur = [fnd[f] EXCEPT !.tracking = "open", !.closePending = fnd[f].closePending]
            /\ cur.phase = fnd[f].phase
      BY <1>3, Zenon DEF Finding
    <3>2. fnd[f].phase = "Dismissed" => LegalMove(fnd[f], "HandedOff")
      BY DEF LegalMove, CanTransition, transitions, Phases
    <3>3. WriteFinding(f, IF cur.phase = "Dismissed" THEN to ELSE cur)
      BY <2>5 DEF ReopenIssue, IssueReopened
    <3>4. GoodWrite(f, cur) /\ (fnd[f].phase = "Dismissed" => GoodWrite(f, to))
      BY <2>3, <3>1, <3>2, TrackingWrites, Zenon
    <3> HIDE DEF cur, to
    <3> QED BY <3>1, <3>3, <3>4
  <2>6. CASE Approve(f)
    <3>1. PICK stamp \in StampsFor(fnd[f]) : WriteFinding(f, applyApprove(fnd[f], stamp))
      BY <2>6 DEF Approve
    <3>2. stamp \in Stamps
      BY DEF StampsFor, Stamps
    <3> DEFINE new == applyApprove(fnd[f], stamp)
    <3>3. new \in Finding /\ new.pr = fnd[f].pr /\ Life(new) = applyApprove(Life(fnd[f]), stamp)
      BY <1>3, <3>2 DEF applyApprove, Finding, Life
    <3> HIDE DEF new
    <3>4. GoodWrite(f, new)
      BY <1>3, <2>6, <3>3 DEF GoodWrite, LegalWrite, Approve
    <3> QED BY <3>1, <3>4 DEF new
  <2>7. CASE Retry(f)
    <3>1. PICK stamp \in StampsFor(fnd[f]) : WriteFinding(f, applyRetry(fnd[f], stamp))
      BY <2>7 DEF Retry
    <3>2. stamp \in Stamps
      BY DEF StampsFor, Stamps
    <3> DEFINE new == applyRetry(fnd[f], stamp)
    <3>3. new \in Finding /\ new.pr = fnd[f].pr /\ Life(new) = applyRetry(Life(fnd[f]), stamp)
      BY <1>3, <3>2 DEF applyRetry, Finding, Life
    <3> HIDE DEF new
    <3>4. GoodWrite(f, new)
      BY <1>3, <2>7, <3>3 DEF GoodWrite, LegalWrite, Retry
    <3> QED BY <3>1, <3>4 DEF new
  <2>8. ASSUME NEW b \in BOOLEAN, WriteFinding(f, [fnd[f] EXCEPT !.suspend = b])
        PROVE  \E new : GoodWrite(f, new) /\ WriteFinding(f, new)
    <3> DEFINE new == [fnd[f] EXCEPT !.suspend = b]
    <3>1. new \in Finding /\ new.pr = fnd[f].pr /\ Life(new) = Life(fnd[f])
      BY <1>3 DEF Finding, Life
    <3> HIDE DEF new
    <3>2. GoodWrite(f, new)
      BY <1>3, <3>1, FindingEdited
    <3> QED BY <2>8, <3>2 DEF new
  <2>9. CASE Suspend(f)
    BY <2>8, <2>9, Zenon DEF Suspend
  <2>10. CASE Resume(f)
    BY <2>8, <2>10, Zenon DEF Resume
  <2> QED BY <1>1, <1>5, <2>4, <2>5, <2>6, <2>7, <2>9, <2>10
<1> QED BY <1>4, <1>5

LEMMA AgentsAndFaults ==
    ASSUME IType, Agents \/ Faults
    PROVE  IType' /\ LegalStep
<1>1. UNCHANGED <<fnd, inv, rem, prs, asks>>
  BY DEF Agents, Faults, JobEnds, JobVanishes, InvFault, InvError, InvRestart, GateError,
         RemFault, RemError, RemRestart, SpawnError
<1>2. LegalStep
  BY <1>1 DEF LegalStep
<1>3. CASE Agents
  <2>1. PICK k \in Kinds, f \in Findings, n \in Attempts : JobEnds(k, f, n) \/ JobVanishes(k, f, n)
    BY <1>3 DEF Agents
  <2>2. job \in Jobs
    BY DEF IType, TypeOK, ClusterTypeOK, Jobs
  <2>3. job' \in Jobs
    <3>1. \A state \in JobStates : [job EXCEPT ![k][f][n].state = state] \in Jobs
      BY <2>2, JobWritten
    <3>2. CASE JobEnds(k, f, n)
      <4>1. PICK state \in InvEnds \cup RemEnds \cup {"refused", "pullFailed"} :
               job' = [job EXCEPT ![k][f][n].state = state]
        BY <3>2, Zenon DEF JobEnds
      <4> QED BY <3>1, <4>1, Zenon DEF InvEnds, RemEnds, JobStates
    <3>3. CASE JobVanishes(k, f, n)
      BY <3>1, <3>3 DEF JobVanishes, JobStates
    <3> QED BY <2>1, <3>2, <3>3
  <2>4. UNCHANGED <<breaker, faults, invVars, remVars>>
    BY <1>3 DEF Agents, JobEnds, JobVanishes
  <2> QED BY <1>1, <1>2, <2>3, <2>4, WorkerKept DEF IType, TypeOK, ClusterTypeOK, InvTypeOK, invVars, Jobs
<1>4. ASSUME faults' = faults + 1, faults < MaxFaults PROVE faults' \in 0..MaxFaults
  BY <1>4, MaxFaultsAssumption DEF IType, TypeOK, ClusterTypeOK
<1>5. CASE InvFault /\ UNCHANGED <<remVars, asks>>
  <2>1. InvTypeOK' /\ breaker' \in [Kinds -> BOOLEAN]
    BY <1>5, Zenon DEF InvFault, InvError, InvRestart, GateError, InvTypeOK, InvSteps, GateSteps,
                IType, TypeOK, ClusterTypeOK
  <2>2. job' = job /\ faults' \in 0..MaxFaults
    BY <1>4, <1>5 DEF InvFault, InvError, InvRestart, GateError
  <2> QED BY <1>1, <1>2, <1>5, <2>1, <2>2, WorkerKept DEF IType, TypeOK, ClusterTypeOK
<1>6. CASE RemFault /\ UNCHANGED <<invVars, asks>>
  <2>1. RemTypeOK' /\ breaker' \in [Kinds -> BOOLEAN]
    <3>1. RemTypeOK /\ breaker \in [Kinds -> BOOLEAN]
      BY DEF IType, TypeOK, ClusterTypeOK
    <3>2. NoStep \in RemSteps /\ NoStep \in SpawnSteps
      BY DEF RemSteps, SpawnSteps
    <3>3. \A f \in Findings : {n \in Attempts : rem[f][n].phase # "none"} \in SUBSET Attempts
      OBVIOUS
    <3>4. CASE RemError
      BY <3>1, <3>2, <3>4 DEF RemError, RemTypeOK
    <3>5. CASE RemRestart
      <4>1. spawn' \in [Findings -> SpawnSteps] /\ remW' \in RemSteps
        BY <3>2, <3>5 DEF RemRestart
      <4>2. remSeen' \in [Findings -> SUBSET Attempts]
        BY <3>3, <3>5 DEF RemRestart
      <4>3. breaker' \in [Kinds -> BOOLEAN]
        BY <3>1, <3>5, Zenon DEF RemRestart
      <4> QED BY <4>1, <4>2, <4>3 DEF RemTypeOK
    <3>6. ASSUME NEW f \in Findings, SpawnError(f) PROVE RemTypeOK' /\ breaker' \in [Kinds -> BOOLEAN]
      BY <3>1, <3>2, <3>6 DEF SpawnError, RemTypeOK
    <3> QED BY <1>6, <3>4, <3>5, <3>6 DEF RemFault
  <2>3. WorkerPR'
    <3>1. remW' \in {remW, NoStep}
      BY <1>6 DEF RemFault, RemError, RemRestart, SpawnError
    <3> QED BY <1>1, <3>1 DEF IType, WorkerPR, NoStep
  <2>2. job' = job /\ faults' \in 0..MaxFaults
    BY <1>4, <1>6 DEF RemFault, RemError, RemRestart, SpawnError
  <2> QED BY <1>1, <1>2, <1>6, <2>1, <2>2, <2>3 DEF IType, TypeOK, ClusterTypeOK, InvTypeOK, invVars
<1> QED BY <1>3, <1>5, <1>6 DEF Faults

-----------------------------------------------------------------------------
(* The theorems                                                              *)

LEMMA Steps ==
    ASSUME IType, [Next]_vars
    PROVE  IType' /\ LegalStep
<1>1. CASE UNCHANGED vars
  BY <1>1 DEF vars, cluster, invVars, remVars, IType, TypeOK, ClusterTypeOK, InvTypeOK, RemTypeOK,
              WorkerPR, LegalStep
<1> QED BY <1>1, InvestigateSteps, RemediateSteps, IntegrateSteps, PeopleSteps, AgentsAndFaults DEF Next

LEMMA Typed == Spec => []IType
<1>1. IType /\ [Next]_vars => IType'
  BY Steps
<1> QED BY <1>1, InitType, PTL DEF Spec

\* The pipeline stays typed, and the pull request a finding records, or the
\* worker is about to record, is one that was opened: succeed records no
\* number EnsurePR did not return, and no pull request is ever forgotten.
THEOREM TypeCorrect == Spec => []TypeOK
<1>1. IType => TypeOK
  BY DEF IType
<1> QED BY <1>1, Typed, PTL

\* FindingLifecycle reads FindingPhases as the pipeline does.
LEMMA SamePhases ==
    /\ Abstract!Phases = Phases /\ Abstract!NewLifecycle = NewLifecycle
    /\ \A p, to : Abstract!CanTransition(p, to) = CanTransition(p, to)
    /\ \A c, to : Abstract!SetPhase(c, to) = SetPhase(c, to)
    /\ \A c : /\ Abstract!RetryRequested(c) = RetryRequested(c)
              /\ Abstract!RetryTarget(c) = RetryTarget(c)
              /\ Abstract!ApprovalNewer(c) = ApprovalNewer(c)
              /\ Abstract!CanApprove(c) = CanApprove(c)
              /\ Abstract!CanRetry(c) = CanRetry(c)
              /\ Abstract!StampsFor(c) = StampsFor(c)
    /\ \A c, stamp : /\ Abstract!applyApprove(c, stamp) = applyApprove(c, stamp)
                     /\ Abstract!applyRetry(c, stamp) = applyRetry(c, stamp)
<1>1. /\ Abstract!Phases = Phases /\ Abstract!terminal = terminal /\ Abstract!Absent = Absent
      /\ Abstract!NewLifecycle = NewLifecycle
  BY DEF Phases, Abstract!Phases, terminal, Abstract!terminal, Absent, Abstract!Absent,
         NewLifecycle, Abstract!NewLifecycle
<1>2. Abstract!transitions = transitions
  BY <1>1 DEF transitions, Abstract!transitions
<1>3. \A p, to : Abstract!CanTransition(p, to) = CanTransition(p, to)
  BY <1>2 DEF CanTransition, Abstract!CanTransition
<1>4. \A stamp : Abstract!Outdate(stamp) = Outdate(stamp)
  BY DEF Outdate, Abstract!Outdate
<1>5. \A c, to : Abstract!SetPhase(c, to) = SetPhase(c, to)
  BY <1>1, <1>4, ZenonT(60) DEF SetPhase, Abstract!SetPhase
<1>6. \A c : /\ Abstract!RetryRequested(c) = RetryRequested(c)
             /\ Abstract!RetryTarget(c) = RetryTarget(c)
             /\ Abstract!ApprovalNewer(c) = ApprovalNewer(c)
             /\ Abstract!StampsFor(c) = StampsFor(c)
  BY <1>1 DEF RetryRequested, Abstract!RetryRequested, RetryTarget, Abstract!RetryTarget,
              ApprovalNewer, Abstract!ApprovalNewer, StampsFor, Abstract!StampsFor
<1>7. \A c : Abstract!CanApprove(c) = CanApprove(c) /\ Abstract!CanRetry(c) = CanRetry(c)
  BY <1>1, <1>6 DEF CanApprove, Abstract!CanApprove, staleApproval, Abstract!staleApproval,
                    CanRetry, Abstract!CanRetry
<1>8. \A c, stamp : /\ Abstract!applyApprove(c, stamp) = applyApprove(c, stamp)
                    /\ Abstract!applyRetry(c, stamp) = applyRetry(c, stamp)
  BY DEF applyApprove, Abstract!applyApprove, applyRetry, Abstract!applyRetry
<1> QED BY <1>1, <1>3, <1>5, <1>6, <1>7, <1>8

AllLifecycles == [f \in Findings |-> Lifecycle(f)]

LEMMA LifecycleInit == Init => Abstract!Init
BY SamePhases DEF Init, ClusterInit, NewFinding, NewLifecycle, Lifecycle, Abstract!Init

LEMMA LifecycleStep == ASSUME IType, [Next]_vars PROVE [Abstract!Next]_AllLifecycles
<1> DEFINE all == [f \in Findings |-> Lifecycle(f)]
<1>1. all = AllLifecycles BY Zenon DEF AllLifecycles
<1>2. ASSUME IType, IType', LegalStep PROVE Abstract!Next \/ all' = all
  <2>1. CASE fnd' = fnd
    BY <2>1 DEF Lifecycle
  <2>2. ASSUME NEW f \in Findings, NEW new \in Finding, WriteFinding(f, new), LegalWrite(fnd[f], new)
        PROVE  Abstract!Next \/ all' = all
    <3>1. fnd \in [Findings -> Finding] /\ fnd' = [fnd EXCEPT ![f] = new]
      BY <1>2, <2>2 DEF IType, TypeOK, ClusterTypeOK, WriteFinding
    <3>2. all' = [all EXCEPT ![f] = Life(new)] /\ all[f] = Life(fnd[f])
      BY <3>1, Zenon DEF Lifecycle, Life
    <3>3. CASE Life(new) = Life(fnd[f])
      BY <3>2, <3>3, Zenon
    <3>4. ASSUME NEW to \in Phases, LegalMove(fnd[f], to), Life(new) = SetPhase(Life(fnd[f]), to)
          PROVE  Abstract!Next
      <4>1. LegalMove(Life(fnd[f]), to)
        BY <3>4 DEF LegalMove, Life, RetryRequested, RetryTarget, ApprovalNewer
      <4>2. Abstract!Move(f, to)
        BY <3>2, <3>4, <4>1, SamePhases, Zenon DEF Abstract!Move, LegalMove
      <4> QED BY <4>2, SamePhases DEF Abstract!Next
    <3>5. ASSUME CanApprove(fnd[f]), NEW stamp \in StampsFor(fnd[f]), Life(new) = applyApprove(Life(fnd[f]), stamp)
          PROVE  Abstract!Next
      <4>1. CanApprove(Life(fnd[f])) /\ stamp \in StampsFor(Life(fnd[f]))
        BY <3>5 DEF CanApprove, staleApproval, StampsFor, Life
      <4>2. Abstract!Approve(f)
        BY <3>2, <3>5, <4>1, SamePhases, Zenon DEF Abstract!Approve
      <4> QED BY <4>2 DEF Abstract!Next
    <3>6. ASSUME CanRetry(fnd[f]), NEW stamp \in StampsFor(fnd[f]), Life(new) = applyRetry(Life(fnd[f]), stamp)
          PROVE  Abstract!Next
      <4>1. CanRetry(Life(fnd[f])) /\ stamp \in StampsFor(Life(fnd[f]))
        BY <3>6 DEF CanRetry, RetryTarget, RetryRequested, StampsFor, Life
      <4>2. Abstract!Retry(f)
        BY <3>2, <3>6, <4>1, SamePhases, Zenon DEF Abstract!Retry
      <4> QED BY <4>2 DEF Abstract!Next
    <3> QED BY <2>2, <3>3, <3>4, <3>5, <3>6 DEF LegalWrite
  <2> QED BY <1>2, <2>1, <2>2 DEF LegalStep
<1>3. IType' BY Steps
<1> QED BY <1>1, <1>2, <1>3, Steps DEF AllLifecycles

\* Every step of every controller, of people, of agents and of faults is a
\* step the Finding API promises: no handler asks SetPhase for an illegal
\* edge, whatever was written between the read that made it act and its own
\* write, and a recovery happens only on a fresh human request.
THEOREM Refinement == Spec => ImplementsLifecycle
<1>1. ASSUME IType, [Next]_vars PROVE [Abstract!Next]_[f \in Findings |-> Lifecycle(f)]
  BY <1>1, LifecycleStep, Zenon DEF AllLifecycles
<1> QED BY <1>1, LifecycleInit, Typed, PTL DEF Spec, ImplementsLifecycle, Abstract!Spec

-----------------------------------------------------------------------------
(* The lifecycle's promises                                                  *)

Failable == {"Investigating", "Remediating", "InReview"}

\* What a finding's prior phase is, from SetPhase's appends to phaseTimes: the phase
\* itself, or the stage that failed.
Remembers(c) == IF c.phase = "Failed" THEN c.prior \in Failable ELSE c.prior = c.phase
History == \A f \in Findings : Remembers(Life(fnd[f]))

Judged == {"Queued", "AwaitingApproval", "Remediating", "InReview", "Remediated", "Dismissed", "HandedOff"}
Early == {"Opened", "Enhanced", "Investigating"}

LEMMA LifeTyped == ASSUME NEW c \in Finding PROVE Life(c) \in Lifecycles
BY DEF Life, Finding, Lifecycles

\* SetPhase remembers the stage that failed, for every legal edge.
LEMMA SetPhaseRemembers ==
    ASSUME NEW c \in Lifecycles, Remembers(c), NEW to \in transitions[c.phase], to # c.phase
    PROVE  SetPhase(c, to).phase = to /\ Remembers(SetPhase(c, to))
<1>1. to = "Failed" => c.phase \in Failable
  BY DEF transitions, Phases, Lifecycles, Failable
<1>2. SetPhase(c, to).phase = to BY DEF SetPhase, Lifecycles
<1>3. SetPhase(c, to).prior = IF to = "Failed" THEN c.prior ELSE to BY DEF SetPhase, Lifecycles
<1>4. to = "Failed" => c.prior \in Failable BY <1>1 DEF Remembers
<1> QED BY <1>2, <1>3, <1>4 DEF Remembers

\* What a legal write of a finding remembers, and that it takes none back.
LEMMA LegalRemembers ==
    ASSUME NEW c \in Finding, NEW new \in Finding, LegalWrite(c, new), Remembers(Life(c))
    PROVE  Remembers(Life(new)) /\ (c.prior \in Judged => new.phase \notin Early)
<1> DEFINE l == Life(c)
<1>1. /\ l \in Lifecycles /\ l.phase = c.phase /\ l.prior = c.prior /\ Life(new).phase = new.phase
      /\ Remembers(l)
  BY LifeTyped DEF Life
<1>2. l.prior \in Judged => l.phase \in Judged \cup {"Failed"} BY <1>1 DEF Remembers
<1>3. Judged \cap Early = {} /\ "Failed" \notin Early BY DEF Judged, Early
<1>4. CASE Life(new) = l BY <1>1, <1>2, <1>3, <1>4
<1>5. ASSUME NEW to \in Phases, LegalMove(c, to), Life(new) = SetPhase(l, to)
      PROVE  Remembers(Life(new)) /\ (l.prior \in Judged => Life(new).phase \notin Early)
  <2>1. to \in transitions[l.phase] /\ to # l.phase BY <1>1, <1>5 DEF LegalMove, CanTransition
  <2>2. Life(new).phase = to /\ Remembers(Life(new)) BY <1>1, <1>5, <2>1, SetPhaseRemembers
  <2>3. l.phase = "Failed" /\ l.prior \in Judged => to = "Queued"
    BY <1>1, <1>5 DEF LegalMove, RetryTarget, Remembers, Failable, Judged
  <2>4. l.phase \in Judged => to \notin Early BY <2>1 DEF transitions, Phases, Judged, Early
  <2>5. "Queued" \notin Early BY DEF Early
  <2> QED BY <1>2, <2>2, <2>3, <2>4, <2>5
<1>6. ASSUME NEW stamp \in StampsFor(c),
             Life(new) \in {applyApprove(l, stamp), applyRetry(l, stamp)}
      PROVE  Life(new).phase = l.phase /\ Life(new).prior = l.prior
  BY <1>1, <1>6 DEF applyApprove, applyRetry, Lifecycles
<1>7. ASSUME Life(new).phase = l.phase, Life(new).prior = l.prior
      PROVE  Remembers(Life(new)) /\ (l.prior \in Judged => Life(new).phase \notin Early)
  BY <1>1, <1>2, <1>3, <1>7 DEF Remembers
<1> HIDE DEF l
<1> QED BY <1>1, <1>4, <1>5, <1>6, <1>7 DEF LegalWrite, l

LEMMA HistoryKept ==
    ASSUME IType, History, [Next]_vars
    PROVE  History' /\ \A f \in Findings : fnd[f].prior \in Judged => fnd'[f].phase \notin Early
<1>1. LegalStep /\ fnd \in [Findings -> Finding] BY Steps DEF IType, TypeOK, ClusterTypeOK
<1>2. \A f \in Findings : Remembers(Life(fnd[f])) BY DEF History
<1>3. CASE fnd' = fnd
  <2>1. ASSUME NEW f \in Findings, fnd[f].prior \in Judged PROVE fnd[f].phase \notin Early
    BY <1>2, <2>1 DEF Remembers, Life, Judged, Early
  <2> QED BY <1>2, <1>3, <2>1 DEF History, Life
<1>4. ASSUME NEW f \in Findings, NEW new \in Finding, WriteFinding(f, new), LegalWrite(fnd[f], new)
      PROVE  History' /\ \A g \in Findings : fnd[g].prior \in Judged => fnd'[g].phase \notin Early
  <2>1. fnd' = [fnd EXCEPT ![f] = new] BY <1>4 DEF WriteFinding
  <2>2. fnd[f] \in Finding /\ Remembers(Life(fnd[f])) BY <1>1, <1>2
  <2>3. Remembers(Life(new)) /\ (fnd[f].prior \in Judged => new.phase \notin Early)
    BY <1>4, <2>2, LegalRemembers
  <2>4. ASSUME NEW g \in Findings
        PROVE  Remembers(Life(fnd'[g])) /\ (fnd[g].prior \in Judged => fnd'[g].phase \notin Early)
    <3>1. CASE g = f BY <1>1, <2>1, <2>3, <3>1
    <3>2. CASE g # f
      <4>1. fnd'[g] = fnd[g] /\ Remembers(Life(fnd[g])) BY <1>1, <1>2, <2>1, <3>2
      <4>2. fnd[g].prior \in Judged => fnd[g].phase \notin Early
        BY <4>1 DEF Remembers, Life, Judged, Early
      <4> QED BY <4>1, <4>2
    <3> QED BY <3>1, <3>2
  <2> QED BY <2>4 DEF History, Life
<1> QED BY <1>1, <1>3, <1>4 DEF LegalStep

LEMMA Remembered == Spec => []History
<1>1. Init => History
  <2> SUFFICES ASSUME Init, NEW f \in Findings PROVE Remembers(Life(fnd[f])) BY DEF History
  <2>1. fnd[f] = NewFinding BY DEF Init, ClusterInit
  <2>2. Life(NewFinding).phase = "" /\ Life(NewFinding).prior = "" BY DEF NewFinding, Absent, Life
  <2> QED BY <2>1, <2>2 DEF Remembers
<1>2. IType /\ History /\ [Next]_vars => History' BY HistoryKept
<1> QED BY <1>1, <1>2, Typed, PTL DEF Spec

\* Every finding that failed, in whatever stage and by whichever controller, can
\* be retried: its phaseTimes name the stage to go back to.
THEOREM FailedRetryable == Spec => []FailedIsRetryable
<1>1. History => FailedIsRetryable
  <2> SUFFICES ASSUME History, NEW f \in Findings, Lifecycle(f).phase = "Failed"
               PROVE  Abstract!RetryTarget(Lifecycle(f)) # Abstract!Absent
    BY DEF FailedIsRetryable, Abstract!FailedIsRetryable
  <2>1. Lifecycle(f).phase = "Failed" /\ Lifecycle(f).prior \in Failable
    BY DEF History, Remembers, Life, Lifecycle
  <2> QED BY <2>1 DEF Failable, Abstract!RetryTarget, Abstract!Absent
<1> QED BY <1>1, Remembered, PTL

\* No step of any controller takes a finding that has its verdict back to be
\* investigated again, however late the write.
THEOREM NeverBack == Spec => NeverReinvestigated
<1>1. IType /\ History /\ [Next]_vars => [Abstract!Forward]_[f \in Findings |-> Lifecycle(f)]
  <2> SUFFICES ASSUME IType, History, [Next]_vars PROVE Abstract!Forward OBVIOUS
  <2>1. \A f \in Findings : fnd[f].prior \in Judged => fnd'[f].phase \notin Early BY HistoryKept
  <2>2. \A f \in Findings : Lifecycle(f).prior = fnd[f].prior /\ Lifecycle(f)'.phase = fnd'[f].phase
    BY DEF Lifecycle
  <2>3. ASSUME NEW f \in Findings, Lifecycle(f).prior \in Judged PROVE Lifecycle(f)'.phase \notin Early
    BY <2>1, <2>2, <2>3
  <2> QED BY <2>3 DEF Abstract!Forward, Judged, Early
<1> QED BY <1>1, Remembered, Typed, PTL DEF Spec, NeverReinvestigated, Abstract!NeverReinvestigated

-----------------------------------------------------------------------------
(* One run of a finding at a time                                            *)

\* Of a finding's runs of one kind, only the attempt last counted and the one
\* after it can be in flight, and not both; while the reconcile that opens the
\* next one is under way (busy), the last one counted is not.
Leased(runs, att, busy) ==
    /\ \A n \in Attempts : InFlight(runs[n]) => n \in {att, att + 1}
    /\ \A n \in Attempts : n = att /\ InFlight(runs[n]) =>
          ~busy /\ \A m \in Attempts : m = att + 1 => ~InFlight(runs[m])

LEMMA LeasedOne ==
    ASSUME NEW runs, NEW att \in 0..MaxRuns, NEW busy, Leased(runs, att, busy),
           NEW m \in Attempts, NEW n \in Attempts, InFlight(runs[m]), InFlight(runs[n])
    PROVE  m = n
BY MaxRunsAssumption DEF Leased, Attempts

\* Nothing starts, and nobody gets busy.
LEMMA LeasedKept ==
    ASSUME NEW runs, NEW next, NEW att \in 0..MaxRuns, NEW busy \in BOOLEAN, NEW later \in BOOLEAN,
           Leased(runs, att, busy), later => busy,
           \A n \in Attempts : InFlight(next[n]) => InFlight(runs[n])
    PROVE  Leased(next, att, later)
BY DEF Leased

\* The reconcile that found the last attempt settled opens the next one ...
LEMMA LeasedAdmit ==
    ASSUME NEW runs, NEW att \in 0..MaxRuns, Leased(runs, att, FALSE),
           att \in Attempts => ~InFlight(runs[att])
    PROVE  Leased(runs, att, TRUE)
BY DEF Leased

\* ... creates it ...
LEMMA LeasedCreate ==
    ASSUME NEW runs, NEW next, NEW att \in 0..MaxRuns, Leased(runs, att, TRUE),
           \A n \in Attempts : n # att + 1 => next[n] = runs[n]
    PROVE  Leased(next, att, TRUE)
BY MaxRunsAssumption DEF Leased, Attempts

\* ... and counts it.
LEMMA LeasedCount ==
    ASSUME NEW runs, NEW att \in 0..MaxRuns, Leased(runs, att, TRUE)
    PROVE  Leased(runs, att + 1, FALSE)
BY MaxRunsAssumption DEF Leased, Attempts

NoneStarts(old, new) ==
    \A f \in Findings, n \in Attempts : InFlight(new[f][n]) => InFlight(old[f][n])

LEMMA RunSettled ==
    ASSUME NEW runs \in Runs, NEW f \in Findings, NEW n \in Attempts, NEW b \in BOOLEAN,
           NEW phase \in RunPhases, phase \in {"Complete", "Failed"} \/ InFlight(runs[f][n])
    PROVE  /\ NoneStarts(runs, [runs EXCEPT ![f][n].phase = phase])
           /\ NoneStarts(runs, [runs EXCEPT ![f][n].phase = phase, ![f][n].refused = b])
           /\ NoneStarts(runs, [runs EXCEPT ![f][n].phase = phase, ![f][n].held = b])
<1>1. runs[f][n] \in Run
  BY DEF Runs
<1>2. NoneStarts(runs, [runs EXCEPT ![f][n].phase = phase])
  BY <1>1 DEF NoneStarts, InFlight, Runs, Run
<1>3. NoneStarts(runs, [runs EXCEPT ![f][n].phase = phase, ![f][n].refused = b])
  BY <1>1 DEF NoneStarts, InFlight, Runs, Run
<1>4. NoneStarts(runs, [runs EXCEPT ![f][n].phase = phase, ![f][n].held = b])
  BY <1>1 DEF NoneStarts, InFlight, Runs, Run
<1> QED BY <1>2, <1>3, <1>4

LEMMA RunRefs ==
    ASSUME NEW runs \in Runs, NEW f \in Findings, NEW n \in Attempts, NEW b \in BOOLEAN
    PROVE  NoneStarts(runs, [runs EXCEPT ![f][n].jobRef = TRUE, ![f][n].repoImage = b])
<1>1. runs[f][n] \in Run
  BY DEF Runs
<1> QED BY <1>1 DEF NoneStarts, InFlight, Runs, Run

\* Only the two run controllers write runs.
LEMMA RunsKept ==
    ASSUME Integrate \/ People \/ Agents \/ Faults \/ UNCHANGED vars
    PROVE  UNCHANGED <<inv, rem>>
<1>1. CASE Integrate
  BY <1>1, Zenon DEF Integrate, IntegrationNext, Ingest, Enhance, DeliverPR, SettleReview, others
<1>2. CASE People
  <2>1. PICK f \in Findings : \/ CloseIssue(f) \/ ReopenIssue(f) \/ Approve(f) \/ Retry(f)
                              \/ Suspend(f) \/ Resume(f) \/ \E i \in DOMAIN prs[f] : ReviewPR(f, i)
    BY <1>2 DEF People, PeopleNext
  <2>2. CASE \E i \in DOMAIN prs[f] : ReviewPR(f, i)
    BY <2>2 DEF ReviewPR
  <2>3. CASE Resume(f)
    BY <2>3 DEF Resume, others
  <2>4. CASE CloseIssue(f) \/ ReopenIssue(f) \/ Approve(f) \/ Retry(f) \/ Suspend(f)
    <3>1. Ask
      BY <2>4 DEF CloseIssue, ReopenIssue, Approve, Retry, Suspend
    <3> QED BY <3>1 DEF Ask, others
  <2> QED BY <2>1, <2>2, <2>3, <2>4
<1>3. CASE Agents
  BY <1>3 DEF Agents, JobEnds, JobVanishes
<1>4. CASE Faults
  BY <1>4 DEF Faults, InvFault, InvError, InvRestart, GateError, RemFault, RemError, RemRestart, SpawnError
<1>5. CASE UNCHANGED vars
  BY <1>5 DEF vars, cluster
<1> QED BY <1>1, <1>2, <1>3, <1>4, <1>5

\* Only the gate's create starts an Investigation.
LEMMA InvestigationsStart ==
    ASSUME IType, [Next]_vars
    PROVE  NoneStarts(inv, inv') \/ \E f \in Findings : GateCreate(f)
<1>1. inv \in Runs /\ invW \in InvSteps /\ job \in Jobs
  BY DEF IType, TypeOK, ClusterTypeOK, InvTypeOK, Runs, Jobs
<1>2. UNCHANGED inv => NoneStarts(inv, inv')
  BY DEF NoneStarts
<1>3. CASE UNCHANGED inv
  BY <1>2, <1>3
<1>4. ASSUME NEW f \in Findings, NEW n \in Attempts,
             InvGrant(f, n) \/ InvFail(f, n) \/ InvSandboxRefused(f, n) \/ InvApply(f, n)
      PROVE  NoneStarts(inv, inv')
  <2>1. CASE InvGrant(f, n)
    BY <1>1, <2>1, RunSettled, Zenon DEF InvGrant, InFlight, RunPhases
  <2>2. CASE InvFail(f, n)
    BY <1>1, <2>2, RunSettled, Zenon DEF InvFail, InvStamp, RunPhases
  <2>3. CASE InvSandboxRefused(f, n)
    BY <1>1, <2>3, RunSettled, Zenon DEF InvSandboxRefused, RunPhases
  <2>4. CASE InvApply(f, n)
    BY <1>1, <2>4, RunSettled, Zenon DEF InvApply, InvStamp, RunPhases
  <2> QED BY <1>4, <2>1, <2>2, <2>3, <2>4
<1>5. CASE InvRecordJob
  <2>1. invW.f \in Findings /\ invW.n \in Attempts
    BY <1>1, <1>5, InvStepTypes DEF InvRecordJob
  <2>2. job["inv"][invW.f][invW.n] \in Job
    BY <1>1, <2>1 DEF Jobs, Kinds
  <2>3. job["inv"][invW.f][invW.n].repoImage \in BOOLEAN
    BY <2>2 DEF Job
  <2> QED BY <1>1, <1>5, <2>1, <2>3, RunRefs, Zenon DEF InvRecordJob
<1>6. CASE Investigate
  BY <1>3, <1>4, <1>5, <1>6, ZenonT(60) DEF Investigate, InvNext, GateAdmit, GateAdvance, GatePark, GateRetryRevert,
     InvLaunch, InvRelease, InvRoute, cluster
<1>7. CASE Remediate
  <2>1. ASSUME NEW f \in Findings, \/ SpawnAdmit(f) \/ SpawnRevive(f) \/ SpawnRetryAdmit(f) \/ SpawnDecide(f)
                                    \/ SpawnCreate(f) \/ SpawnCount(f)
        PROVE  UNCHANGED inv
    BY <2>1 DEF SpawnAdmit, SpawnRevive, SpawnRetryAdmit, SpawnDecide, SpawnCreate, SpawnCount, cluster
  <2>2. ASSUME NEW f \in Findings, NEW n \in Attempts, \/ Observe(f, n) \/ RemGrant(f, n) \/ RemLaunch(f, n)
               \/ RemHoldForImage(f, n) \/ RemFail(f, n) \/ RemSandboxRefused(f, n) \/ RemHandOff(f, n) \/ RemPush(f, n)
        PROVE  UNCHANGED inv
    BY <2>2, Zenon DEF Observe, RemGrant, RemLaunch, RemHoldForImage, RemFail, RemSandboxRefused, RemHandOff, RemPush, cluster
  <2>3. ASSUME RemAdvance \/ RemRecordJob \/ RemEnsurePR \/ RemStamp \/ RemRecord \/ RemFinish
        PROVE  UNCHANGED inv
    BY <2>3 DEF RemAdvance, RemRecordJob, RemEnsurePR, RemStamp, RemRecord, RemFinish
  <2> QED BY <1>3, <1>7, <2>1, <2>2, <2>3 DEF Remediate, RemNext
<1>8. CASE Integrate \/ People \/ Agents \/ Faults \/ UNCHANGED vars
  <2>1. UNCHANGED <<inv, rem>>
    BY <1>8, RunsKept
  <2> QED BY <1>3, <2>1
<1> QED BY <1>6, <1>7, <1>8 DEF Next

\* Only the spawner's create starts a Remediation.
LEMMA RemediationsStart ==
    ASSUME IType, [Next]_vars
    PROVE  NoneStarts(rem, rem') \/ \E f \in Findings : SpawnCreate(f)
<1>1. rem \in Runs /\ remW \in RemSteps /\ job \in Jobs
  BY DEF IType, TypeOK, ClusterTypeOK, RemTypeOK, Runs, Jobs
<1>2. UNCHANGED rem => NoneStarts(rem, rem')
  BY DEF NoneStarts
<1>3. CASE UNCHANGED rem
  BY <1>2, <1>3
<1>4. ASSUME NEW f \in Findings, NEW n \in Attempts,
             RemGrant(f, n) \/ RemHoldForImage(f, n) \/ RemFail(f, n) \/ RemSandboxRefused(f, n) \/ RemHandOff(f, n)
      PROVE  NoneStarts(rem, rem')
  <2>1. CASE RemGrant(f, n)
    BY <1>1, <2>1, RunSettled, Zenon DEF RemGrant, InFlight, RunPhases
  <2>2. CASE RemHoldForImage(f, n)
    BY <1>1, <2>2, RunSettled, Zenon DEF RemHoldForImage, RunPhases
  <2>3. CASE RemFail(f, n)
    BY <1>1, <2>3, RunSettled, Zenon DEF RemFail, RunPhases
  <2>4. CASE RemSandboxRefused(f, n)
    BY <1>1, <2>4, RunSettled, Zenon DEF RemSandboxRefused, RunPhases
  <2>5. CASE RemHandOff(f, n)
    BY <1>1, <2>5, RunSettled, Zenon DEF RemHandOff, RunPhases
  <2> QED BY <1>4, <2>1, <2>2, <2>3, <2>4, <2>5
<1>5. CASE RemRecordJob
  <2>1. remW.f \in Findings /\ remW.n \in Attempts
    BY <1>1, <1>5, RemStepTypes DEF RemRecordJob, NoStep
  <2>2. job["rem"][remW.f][remW.n] \in Job
    BY <1>1, <2>1 DEF Jobs, Kinds
  <2>3. job["rem"][remW.f][remW.n].repoImage \in BOOLEAN
    BY <2>2 DEF Job
  <2> QED BY <1>1, <1>5, <2>1, <2>3, RunRefs, Zenon DEF RemRecordJob
<1>6. CASE RemStamp
  <2>1. remW.f \in Findings /\ remW.n \in Attempts
    BY <1>1, <1>6, RemStepTypes DEF RemStamp, NoStep
  <2> QED BY <1>1, <1>6, <2>1, RunSettled, Zenon DEF RemStamp, RunPhases
<1>7. CASE Remediate
  BY <1>3, <1>4, <1>5, <1>6, <1>7, ZenonT(60) DEF Remediate, RemNext, SpawnAdmit, SpawnRevive, SpawnRetryAdmit,
     SpawnDecide, SpawnCount, Observe, RemLaunch, RemPush, RemAdvance, RemEnsurePR, RemRecord, RemFinish, cluster
<1>8. CASE Investigate
  <2>1. ASSUME NEW f \in Findings, GateAdmit(f) \/ GateCreate(f) \/ GateAdvance(f) \/ GatePark(f) \/ GateRetryRevert(f)
        PROVE  UNCHANGED rem
    BY <2>1 DEF GateAdmit, GateCreate, GateAdvance, GatePark, GateRetryRevert, cluster
  <2>2. ASSUME NEW f \in Findings, NEW n \in Attempts,
               InvGrant(f, n) \/ InvLaunch(f, n) \/ InvFail(f, n) \/ InvSandboxRefused(f, n) \/ InvApply(f, n)
        PROVE  UNCHANGED rem
    BY <2>2 DEF InvGrant, InvLaunch, InvFail, InvSandboxRefused, InvApply
  <2>3. ASSUME InvRecordJob \/ InvRelease \/ InvRoute
        PROVE  UNCHANGED rem
    BY <2>3 DEF InvRecordJob, InvRelease, InvRoute
  <2> QED BY <1>3, <1>8, <2>1, <2>2, <2>3 DEF Investigate, InvNext
<1>9. CASE Integrate \/ People \/ Agents \/ Faults \/ UNCHANGED vars
  <2>1. UNCHANGED <<inv, rem>>
    BY <1>9, RunsKept
  <2> QED BY <1>3, <2>1
<1> QED BY <1>7, <1>8, <1>9 DEF Next

\* Only GateAdvance counts an Investigation, and only SpawnCount a Remediation.
LEMMA Counted ==
    ASSUME IType, [Next]_vars, NEW g \in Findings
    PROVE  /\ fnd'[g].attInv = fnd[g].attInv \/ GateAdvance(g)
           /\ fnd'[g].attRem = fnd[g].attRem \/ SpawnCount(g)
<1> DEFINE Goal == /\ fnd'[g].attInv = fnd[g].attInv \/ GateAdvance(g)
                   /\ fnd'[g].attRem = fnd[g].attRem \/ SpawnCount(g)
           Same(f, new) == new.attInv = fnd[f].attInv /\ new.attRem = fnd[f].attRem
<1>1. \A f \in Findings : fnd[f] \in Finding
  BY DEF IType, TypeOK, ClusterTypeOK
<1>2. ASSUME NEW f \in Findings, NEW new, WriteFinding(f, new), Same(f, new) PROVE Goal
  BY <1>2 DEF WriteFinding, IType, TypeOK, ClusterTypeOK
<1>3. CASE fnd' = fnd
  BY <1>3
<1>4. ASSUME NEW f \in Findings, NEW cur \in Finding, Same(f, cur), NEW to \in Phases
      PROVE  /\ Same(f, SetPhase(cur, to))
             /\ \A run : Same(f, [SetPhase(cur, to) EXCEPT !.activeRun = run])
  <2> DEFINE moved == SetPhase(cur, to)
  <2>1. moved \in Finding /\ Same(f, moved)
    BY <1>4, SetPhaseFinding
  <2> HIDE DEF moved
  <2>2. ASSUME NEW run PROVE Same(f, [moved EXCEPT !.activeRun = run])
    BY <2>1 DEF Finding
  <2> QED BY <2>1, <2>2 DEF moved
<1>5. ASSUME NEW f \in Findings PROVE Same(f, fnd[f])
  OBVIOUS
<1> HIDE DEF Goal, Same
<1>6. SUFFICES Goal
  BY DEF Goal
<1>7. CASE Investigate
  <2>1. invW \in InvSteps
    BY DEF IType, TypeOK, InvTypeOK
  <2>2. ASSUME NEW f \in Findings, GateAdvance(f) PROVE Goal
    <3>1. CASE f = g
      <4> DEFINE moved == SetPhase(fnd[f], "Investigating")
                 run == [kind |-> "inv", n |-> gate[f].attempt]
                 att == gate[f].attempt
                 new == [moved EXCEPT !.attInv = att, !.activeRun = run]
      <4>1. moved \in Finding /\ moved.attRem = fnd[f].attRem
        BY <1>1, SetPhaseFinding DEF Phases
      <4>2. WriteFinding(f, new) \/ fnd' = fnd
        BY <2>2 DEF GateAdvance
      <4> HIDE DEF moved, run, att
      <4>3. new.attRem = fnd[f].attRem
        BY <4>1 DEF Finding
      <4>4. fnd'[f].attRem = fnd[f].attRem
        BY <1>1, <4>2, <4>3, Zenon DEF WriteFinding, IType, TypeOK, ClusterTypeOK
      <4> QED BY <2>2, <3>1, <4>4 DEF Goal
    <3>2. CASE f # g
      BY <2>2, <3>2 DEF Goal, GateAdvance, WriteFinding, IType, TypeOK, ClusterTypeOK
    <3> QED BY <3>1, <3>2
  <2>3. ASSUME NEW f \in Findings, GatePark(f) PROVE Goal
    BY <1>1, <1>2, <1>4, <1>5, <2>3 DEF GatePark, Phases
  <2>4. ASSUME NEW f \in Findings, GateRetryRevert(f) PROVE Goal
    BY <1>1, <1>2, <1>4, <1>5, <2>4 DEF GateRetryRevert, Phases
  <2>5. CASE InvRelease
    <3>1. invW.f \in Findings /\ invW.to \in Phases
      BY <2>1, <2>5, InvStepTypes DEF InvRelease, Phases
    <3>2. fnd' = fnd \/ WriteFinding(invW.f, [SetPhase(fnd[invW.f], invW.to) EXCEPT !.activeRun = NoRun])
      BY <2>5 DEF InvRelease
    <3>3. Same(invW.f, [SetPhase(fnd[invW.f], invW.to) EXCEPT !.activeRun = NoRun])
      BY <1>1, <1>4, <1>5, <3>1, Zenon
    <3> QED BY <1>2, <1>3, <3>1, <3>2, <3>3 DEF Goal
  <2>6. CASE InvRoute
    <3> DEFINE cur == [fnd[invW.f] EXCEPT !.analysis = TRUE, !.activeRun = NoRun]
    <3>1. invW.f \in Findings /\ invW.to \in Phases
      BY <2>1, <2>6, InvStepTypes DEF InvRoute, Phases
    <3>2. WriteFinding(invW.f, cur) \/ WriteFinding(invW.f, SetPhase(cur, invW.to))
      BY <2>6 DEF InvRoute
    <3>3. cur \in Finding /\ Same(invW.f, cur)
      BY <1>1, <3>1, ZenonT(60) DEF Finding, Same
    <3> HIDE DEF cur
    <3>4. Same(invW.f, SetPhase(cur, invW.to))
      BY <1>4, <3>1, <3>3
    <3> QED BY <1>2, <3>1, <3>2, <3>3, <3>4
  <2>7. ASSUME NEW f \in Findings, NEW n \in Attempts,
               InvGrant(f, n) \/ InvLaunch(f, n) \/ InvFail(f, n) \/ InvSandboxRefused(f, n) \/ InvApply(f, n)
        PROVE  fnd' = fnd
    BY <2>7 DEF InvGrant, InvLaunch, InvFail, InvSandboxRefused, InvApply
  <2>8. ASSUME InvRecordJob \/ \E f \in Findings : GateAdmit(f) \/ GateCreate(f)
        PROVE  fnd' = fnd
    BY <2>8, Zenon DEF InvRecordJob, GateAdmit, GateCreate, cluster
  <2> QED BY <1>3, <1>7, <2>2, <2>3, <2>4, <2>5, <2>6, <2>7, <2>8 DEF Investigate, InvNext, Goal
<1>8. CASE Remediate
  <2>1. remW \in RemSteps
    BY DEF IType, TypeOK, RemTypeOK
  <2>2. ASSUME NEW f \in Findings, SpawnCount(f) PROVE Goal
    <3> DEFINE att == spawn[f].attempt
               new == [fnd[f] EXCEPT !.attRem = att]
    <3>1. WriteFinding(f, new) \/ fnd' = fnd
      BY <2>2 DEF SpawnCount
    <3> HIDE DEF att
    <3>2. new.attInv = fnd[f].attInv
      BY <1>1 DEF Finding
    <3>3. fnd'[f].attInv = fnd[f].attInv /\ (f # g => fnd'[g] = fnd[g])
      BY <1>1, <3>1, <3>2, Zenon DEF WriteFinding, IType, TypeOK, ClusterTypeOK
    <3> QED BY <2>2, <3>3 DEF Goal
  <2>3. ASSUME NEW f \in Findings, SpawnAdmit(f) \/ SpawnRevive(f) \/ SpawnRetryAdmit(f) PROVE Goal
    <3>1. WriteFinding(f, SetPhase(fnd[f], "Queued"))
      BY <2>3 DEF SpawnAdmit, SpawnRevive, SpawnRetryAdmit
    <3> QED BY <1>1, <1>2, <1>4, <1>5, <3>1 DEF Phases
  <2>4. CASE RemAdvance
    <3> DEFINE run == [kind |-> "rem", n |-> remW.n]
    <3>1. remW.f \in Findings
      BY <2>1, <2>4, RemStepTypes DEF RemAdvance, NoStep
    <3>2. fnd' = fnd \/ WriteFinding(remW.f, [SetPhase(fnd[remW.f], "Remediating") EXCEPT !.activeRun = run])
      BY <2>4 DEF RemAdvance
    <3> HIDE DEF run
    <3>3. Same(remW.f, [SetPhase(fnd[remW.f], "Remediating") EXCEPT !.activeRun = run])
      BY <1>1, <1>4, <1>5, <3>1, Zenon DEF Phases
    <3> QED BY <1>2, <1>3, <3>1, <3>2, <3>3 DEF Goal
  <2>5. CASE RemRecord
    <3> DEFINE cur == [fnd[remW.f] EXCEPT !.pr = remW.pr, !.prState = "open", !.activeRun = NoRun]
    <3>1. remW.f \in Findings /\ remW.pr \in Nat
      BY <2>1, <2>5, RemStepTypes DEF RemRecord, NoStep
    <3>2. WriteFinding(remW.f, cur) \/ WriteFinding(remW.f, SetPhase(cur, "InReview"))
      BY <2>5 DEF RemRecord
    <3>3. cur \in Finding /\ Same(remW.f, cur)
      BY <1>1, <3>1, ZenonT(60) DEF Finding, Same
    <3> HIDE DEF cur
    <3>4. Same(remW.f, SetPhase(cur, "InReview"))
      BY <1>4, <3>1, <3>3 DEF Phases
    <3> QED BY <1>2, <3>1, <3>2, <3>3, <3>4
  <2>6. CASE RemFinish
    <3>1. remW.f \in Findings /\ remW.to \in Phases
      BY <2>1, <2>6, RemStepTypes DEF RemFinish, NoStep, Phases
    <3>2. fnd' = fnd \/ WriteFinding(remW.f, [SetPhase(fnd[remW.f], remW.to) EXCEPT !.activeRun = NoRun])
      BY <2>6 DEF RemFinish
    <3>3. Same(remW.f, [SetPhase(fnd[remW.f], remW.to) EXCEPT !.activeRun = NoRun])
      BY <1>1, <1>4, <1>5, <3>1
    <3> QED BY <1>2, <1>3, <3>1, <3>2, <3>3 DEF Goal
  <2>7. ASSUME NEW f \in Findings, NEW n \in Attempts, \/ Observe(f, n) \/ RemGrant(f, n) \/ RemLaunch(f, n)
               \/ RemHoldForImage(f, n) \/ RemFail(f, n) \/ RemSandboxRefused(f, n) \/ RemHandOff(f, n) \/ RemPush(f, n)
        PROVE  fnd' = fnd
    BY <2>7, Zenon DEF Observe, RemGrant, RemLaunch, RemHoldForImage, RemFail, RemSandboxRefused, RemHandOff, RemPush, cluster
  <2>8. ASSUME RemRecordJob \/ RemEnsurePR \/ RemStamp \/ \E f \in Findings : SpawnDecide(f) \/ SpawnCreate(f)
        PROVE  fnd' = fnd
    BY <2>8, Zenon DEF RemRecordJob, RemEnsurePR, RemStamp, SpawnDecide, SpawnCreate, cluster
  <2> QED BY <1>3, <1>8, <2>2, <2>3, <2>4, <2>5, <2>6, <2>7, <2>8 DEF Remediate, RemNext, Goal
<1>9. ASSUME NEW f \in Findings, NEW state PROVE Same(f, Settle(fnd[f], state)) \/ state \notin {"closed", "merged"}
  <2> SUFFICES ASSUME state \in {"closed", "merged"} PROVE Same(f, Settle(fnd[f], state))
    OBVIOUS
  <2> DEFINE cur == [fnd[f] EXCEPT !.closePending = "none", !.prState = state]
             to == IF state = "merged" THEN "Remediated" ELSE "Failed"
  <2>1. cur \in Finding /\ Same(f, cur)
    BY <1>1, ZenonT(60) DEF Finding, Same
  <2>3. to \in Phases
    BY DEF Phases
  <2>2. Settle(fnd[f], state) = SetPhase(cur, to)
    BY DEF Settle
  <2> HIDE DEF cur, to
  <2> QED BY <1>4, <2>1, <2>2, <2>3
<1>10. ASSUME NEW f \in Findings, NEW tracking \in {"open", "closed"}, NEW pending \in {"none", "issue", "repo"},
              NEW cur, cur = [fnd[f] EXCEPT !.tracking = tracking, !.closePending = pending]
       PROVE  Same(f, cur) /\ Same(f, SetPhase(cur, "HandedOff"))
  <2>1. cur \in Finding /\ Same(f, cur)
    BY <1>1, <1>10, ZenonT(60) DEF Finding, Same
  <2> QED BY <1>4, <2>1 DEF Phases
<1>11. \A f \in Findings : /\ fnd[f].tracking \in {"open", "closed"}
                           /\ fnd[f].closePending \in {"none", "issue", "repo"}
                           /\ fnd[f] = [fnd[f] EXCEPT !.tracking = fnd[f].tracking, !.closePending = fnd[f].closePending]
  BY <1>1, Zenon DEF Finding
<1>12. CASE Integrate
  <2>1. PICK f \in Findings : \/ Ingest(f) \/ Enhance(f) \/ SettleReview(f)
                              \/ \E i \in DOMAIN prs[f] : DeliverPR(f, i)
    BY <1>12 DEF Integrate, IntegrationNext
  <2>2. CASE Ingest(f)
    BY <1>1, <1>2, <1>4, <1>5, <2>2 DEF Ingest, Phases
  <2>3. CASE Enhance(f)
    BY <1>1, <1>2, <1>4, <1>5, <2>3 DEF Enhance, Phases
  <2>4. CASE SettleReview(f)
    <3>1. PICK pr, issue : /\ issue \in {"", "open", "closed"}
                           /\ WriteFinding(f, SettlePendingClose(fnd[f], pr, issue))
      BY <2>4, Zenon DEF SettleReview
    <3> DEFINE tracking == IF issue = "" THEN fnd[f].tracking ELSE issue
               cur == [fnd[f] EXCEPT !.tracking = tracking, !.closePending = "none"]
    <3>2. tracking \in {"open", "closed"}
      BY <1>11, <3>1, Zenon
    <3>3. cur = [fnd[f] EXCEPT !.closePending = "none", !.tracking = IF issue = "" THEN @ ELSE issue]
      BY <1>1, Zenon DEF Finding
    <3>4. CASE pr \in {"closed", "merged"}
      BY <1>2, <1>9, <3>1, <3>4, Zenon DEF SettlePendingClose
    <3>5. CASE pr \notin {"closed", "merged"}
      <4>1. SettlePendingClose(fnd[f], pr, issue) \in {cur, SetPhase(cur, "HandedOff")}
        BY <3>3, <3>5 DEF SettlePendingClose
      <4> HIDE DEF tracking
      <4>2. Same(f, cur) /\ Same(f, SetPhase(cur, "HandedOff"))
        BY <1>10, <3>2, Zenon
      <4> HIDE DEF cur
      <4> QED BY <1>2, <3>1, <4>1, <4>2, Zenon
    <3> QED BY <3>4, <3>5
  <2>5. ASSUME NEW i \in DOMAIN prs[f], DeliverPR(f, i) PROVE Goal
    <3>1. PICK sameRepo \in BOOLEAN : WriteFinding(f, PullRequest(fnd[f], i, prs[f][i], sameRepo))
      BY <2>5 DEF DeliverPR
    <3>2. prs[f][i] \in {"closed", "merged"}
      BY <2>5 DEF DeliverPR, IType, TypeOK, ClusterTypeOK
    <3>3. PullRequest(fnd[f], i, prs[f][i], sameRepo)
            \in {fnd[f], Settle(fnd[f], prs[f][i]), [fnd[f] EXCEPT !.closePending = "repo"]}
      BY DEF PullRequest
    <3>4. Same(f, [fnd[f] EXCEPT !.closePending = "repo"])
      BY <1>1 DEF Finding, Same
    <3> QED BY <1>2, <1>5, <1>9, <3>1, <3>2, <3>3, <3>4
  <2> QED BY <2>1, <2>2, <2>3, <2>4, <2>5
<1>13. CASE People
  <2>1. PICK f \in Findings : \/ CloseIssue(f) \/ ReopenIssue(f) \/ Approve(f) \/ Retry(f)
                              \/ Suspend(f) \/ Resume(f) \/ \E i \in DOMAIN prs[f] : ReviewPR(f, i)
    BY <1>13 DEF People, PeopleNext
  <2>2. CASE CloseIssue(f)
    <3> DEFINE cur == [fnd[f] EXCEPT !.tracking = "closed"]
               waiting == [cur EXCEPT !.closePending = "issue"]
    <3>1. cur = [fnd[f] EXCEPT !.tracking = "closed", !.closePending = fnd[f].closePending]
            /\ waiting = [fnd[f] EXCEPT !.tracking = "closed", !.closePending = "issue"]
      BY <1>1, Zenon DEF Finding
    <3>2. IssueClosed(fnd[f]) \in {cur, waiting, SetPhase(cur, "HandedOff")}
      BY DEF IssueClosed
    <3>3. Same(f, cur) /\ Same(f, waiting) /\ Same(f, SetPhase(cur, "HandedOff"))
      BY <1>10, <1>11, <3>1, Zenon
    <3>4. WriteFinding(f, IssueClosed(fnd[f]))
      BY <2>2 DEF CloseIssue
    <3> HIDE DEF cur, waiting
    <3> QED BY <1>2, <3>2, <3>3, <3>4
  <2>3. CASE ReopenIssue(f)
    <3> DEFINE cur == [fnd[f] EXCEPT !.tracking = "open"]
    <3>1. cur = [fnd[f] EXCEPT !.tracking = "open", !.closePending = fnd[f].closePending]
      BY <1>1, Zenon DEF Finding
    <3>2. IssueReopened(fnd[f]) \in {cur, SetPhase(cur, "HandedOff")}
      BY DEF IssueReopened
    <3>3. Same(f, cur) /\ Same(f, SetPhase(cur, "HandedOff"))
      BY <1>10, <1>11, <3>1, Zenon
    <3>4. WriteFinding(f, IssueReopened(fnd[f]))
      BY <2>3 DEF ReopenIssue
    <3> HIDE DEF cur
    <3> QED BY <1>2, <3>2, <3>3, <3>4
  <2>4. ASSUME NEW x PROVE /\ Same(f, [fnd[f] EXCEPT !.approval = x])
                           /\ Same(f, [fnd[f] EXCEPT !.retry = x])
                           /\ Same(f, [fnd[f] EXCEPT !.suspend = x])
    BY <1>1 DEF Finding, Same
  <2>5. CASE Approve(f)
    BY <1>2, <2>4, <2>5, Zenon DEF Approve, applyApprove
  <2>6. CASE Retry(f)
    BY <1>2, <2>4, <2>6, Zenon DEF Retry, applyRetry
  <2>7. CASE Suspend(f)
    BY <1>2, <2>4, <2>7, Zenon DEF Suspend
  <2>8. CASE Resume(f)
    BY <1>2, <2>4, <2>8, Zenon DEF Resume
  <2>9. CASE \E i \in DOMAIN prs[f] : ReviewPR(f, i)
    BY <1>3, <2>9 DEF ReviewPR, Goal
  <2> QED BY <2>1, <2>2, <2>3, <2>5, <2>6, <2>7, <2>8, <2>9
<1>14. CASE Agents \/ Faults
  <2>1. fnd' = fnd
    BY <1>14 DEF Agents, Faults, JobEnds, JobVanishes, InvFault, InvError, InvRestart, GateError,
                 RemFault, RemError, RemRestart, SpawnError
  <2> QED BY <1>3, <2>1 DEF Goal
<1>15. CASE UNCHANGED vars
  BY <1>3, <1>15 DEF vars, cluster, Goal
<1> QED BY <1>7, <1>8, <1>12, <1>13, <1>14, <1>15 DEF Next

InvestigationLeases ==
    \A f \in Findings : /\ Leased(inv[f], fnd[f].attInv, gate[f] # Idle)
                        /\ gate[f] # Idle => gate[f].attempt = fnd[f].attInv + 1

\* The gate's reconcile of a finding is under way only from its GateAdmit on.
LEMMA GateMoves ==
    ASSUME IType, [Next]_vars, NEW f \in Findings
    PROVE  \/ gate'[f] \in {gate[f], Idle}
           \/ GateAdmit(f)
           \/ GateCreate(f)
<1>1. gate \in [Findings -> GateSteps]
  BY DEF IType, TypeOK, InvTypeOK
<1>2. CASE Investigate
  <2>1. ASSUME NEW g \in Findings, GateAdmit(g) \/ GateCreate(g) \/ GateAdvance(g)
        PROVE  g # f => gate'[f] = gate[f]
    BY <1>1, <2>1 DEF GateAdmit, GateCreate, GateAdvance
  <2>2. ASSUME GateAdvance(f) PROVE gate'[f] = Idle
    BY <1>1, <2>2 DEF GateAdvance
  <2>3. ASSUME NEW g \in Findings, GatePark(g) \/ GateRetryRevert(g) PROVE gate' = gate
    BY <2>3 DEF GatePark, GateRetryRevert, invVars
  <2>4. ASSUME NEW g \in Findings, NEW n \in Attempts,
               InvGrant(g, n) \/ InvLaunch(g, n) \/ InvFail(g, n) \/ InvSandboxRefused(g, n) \/ InvApply(g, n)
        PROVE  gate' = gate
    BY <2>4 DEF InvGrant, InvLaunch, InvFail, InvSandboxRefused, InvApply, invVars
  <2>5. ASSUME InvRecordJob \/ InvRelease \/ InvRoute PROVE gate' = gate
    BY <2>5 DEF InvRecordJob, InvRelease, InvRoute
  <2> QED BY <1>2, <2>1, <2>2, <2>3, <2>4, <2>5 DEF Investigate, InvNext
<1>3. CASE Faults
  BY <1>1, <1>3 DEF Faults, InvFault, InvError, InvRestart, GateError, RemFault, invVars
<1>4. CASE Remediate \/ Integrate \/ People \/ Agents \/ UNCHANGED vars
  <2>1. UNCHANGED invVars
    BY <1>4 DEF Remediate, Integrate, People, Agents, vars
  <2> QED BY <2>1 DEF invVars
<1> QED BY <1>2, <1>3, <1>4 DEF Next

LEMMA LeasesInitially == Init => InvestigationLeases
<1> SUFFICES ASSUME Init, NEW f \in Findings
             PROVE  gate[f] = Idle /\ Leased(inv[f], fnd[f].attInv, gate[f] # Idle)
  BY DEF InvestigationLeases
<1>1. gate[f] = Idle /\ \A n \in Attempts : ~InFlight(inv[f][n])
  BY DEF Init, InvInit, ClusterInit, InFlight, NotCreated
<1> QED BY <1>1 DEF Leased

LEMMA LeasesKept ==
    ASSUME IType, [Next]_vars, InvestigationLeases
    PROVE  InvestigationLeases'
<1> SUFFICES ASSUME NEW f \in Findings
             PROVE  /\ Leased(inv'[f], fnd'[f].attInv, gate'[f] # Idle)
                    /\ gate'[f] # Idle => gate'[f].attempt = fnd'[f].attInv + 1
  BY DEF InvestigationLeases
<1> DEFINE att == fnd[f].attInv
<1>1. /\ fnd \in [Findings -> Finding] /\ att \in 0..MaxRuns
      /\ gate \in [Findings -> GateSteps] /\ inv \in Runs
  BY DEF IType, TypeOK, ClusterTypeOK, InvTypeOK, Finding, Runs
<1>2. Leased(inv[f], att, gate[f] # Idle) /\ (gate[f] # Idle => gate[f].attempt = att + 1)
  BY DEF InvestigationLeases
<1>3. CASE GateAdmit(f)
  <2>1. inv' = inv /\ fnd' = fnd /\ gate[f] = Idle /\ gate'[f] = [step |-> "create", attempt |-> att + 1]
    BY <1>1, <1>3 DEF GateAdmit, cluster
  <2>2. att \in Attempts => ~InFlight(inv[f][att])
    BY <1>1, <1>3, MaxRunsAssumption DEF GateAdmit, PreviousSettled, Attempts
  <2>3. Leased(inv[f], att, FALSE)
    BY <1>2, <2>1, Zenon
  <2>4. Leased(inv[f], att, TRUE)
    BY <1>1, <2>2, <2>3, LeasedAdmit, Zenon
  <2>5. gate'[f] # Idle /\ gate'[f].attempt = att + 1
    BY <2>1 DEF Idle
  <2> QED BY <2>1, <2>4, <2>5, Zenon
<1>4. CASE GateCreate(f)
  <2>1. gate[f] # Idle /\ fnd' = fnd
    BY <1>4 DEF GateCreate, Idle
  <2>2. gate[f] \in [step : {"create", "advance"}, attempt : Attempts] /\ gate[f].attempt = att + 1
    BY <1>1, <1>2, <2>1 DEF GateSteps
  <2>3. gate'[f] # Idle /\ gate'[f].attempt = att + 1
    BY <1>1, <1>4, <2>2 DEF GateCreate, Idle
  <2>4. \A n \in Attempts : n # att + 1 => inv'[f][n] = inv[f][n]
    BY <1>1, <1>4, <2>2 DEF GateCreate, Runs
  <2>5. Leased(inv[f], att, TRUE)
    BY <1>2, <2>1, Zenon
  <2>6. Leased(inv'[f], att, TRUE)
    BY <1>1, <2>4, <2>5, LeasedCreate, Zenon
  <2> QED BY <2>1, <2>3, <2>6, Zenon
<1>5. CASE GateAdvance(f)
  <2>1. gate[f] # Idle /\ inv' = inv /\ gate'[f] = Idle
    BY <1>1, <1>5 DEF GateAdvance, Idle
  <2>2. Leased(inv[f], att, TRUE) /\ gate[f].attempt = att + 1
    BY <1>2, <2>1, Zenon
  <2>3. CASE fnd' = fnd
    <3>1. Leased(inv[f], att, FALSE)
      BY <1>1, <2>2, LeasedKept, Zenon
    <3> QED BY <2>1, <2>3, <3>1, Zenon
  <2>4. CASE fnd' # fnd
    <3> DEFINE moved == SetPhase(fnd[f], "Investigating")
               run == [kind |-> "inv", n |-> gate[f].attempt]
               new == [moved EXCEPT !.attInv = gate[f].attempt, !.activeRun = run]
    <3>1. WriteFinding(f, new)
      BY <1>5, <2>4 DEF GateAdvance
    <3>2. moved \in Finding
      BY <1>1, SetPhaseFinding DEF Phases
    <3> HIDE DEF moved, run
    <3>3. new.attInv = att + 1
      BY <2>2, <3>2 DEF Finding
    <3>4. fnd'[f].attInv = att + 1
      BY <1>1, <3>1, <3>3 DEF WriteFinding
    <3>5. Leased(inv[f], att + 1, FALSE)
      BY <1>1, <2>2, LeasedCount, Zenon
    <3> QED BY <2>1, <3>4, <3>5, Zenon
  <2> QED BY <2>3, <2>4
<1>6. CASE ~GateAdmit(f) /\ ~GateCreate(f) /\ ~GateAdvance(f)
  <2>1. gate'[f] \in {gate[f], Idle} /\ fnd'[f].attInv = att
    BY <1>6, GateMoves, Counted
  <2>2. \A n \in Attempts : InFlight(inv'[f][n]) => InFlight(inv[f][n])
    <3>1. CASE NoneStarts(inv, inv')
      BY <3>1 DEF NoneStarts
    <3>2. ASSUME NEW g \in Findings, GateCreate(g) PROVE inv'[f] = inv[f]
      BY <1>1, <1>6, <3>2, Zenon DEF GateCreate, Runs
    <3> QED BY <3>1, <3>2, InvestigationsStart
  <2> DEFINE busy == gate[f] # Idle
             later == gate'[f] # Idle
  <2>3. busy \in BOOLEAN /\ later \in BOOLEAN /\ (later => busy) /\ Leased(inv[f], att, busy)
    BY <1>2, <2>1
  <2> HIDE DEF busy, later
  <2>4. Leased(inv'[f], att, later)
    BY <1>1, <2>2, <2>3, LeasedKept
  <2> QED BY <1>2, <2>1, <2>4 DEF later
<1> QED BY <1>3, <1>4, <1>5, <1>6

\* At most one Investigation of a finding is unsettled, for any number of
\* findings, attempts, faults and restarts: openInvestigation's deterministic
\* child name makes a repeated create a no-op, and the gate opens attempt
\* n + 1 only when attempt n, the last one counted, is settled.
THEOREM SingleInvestigation == Spec => []OneInvestigation
<1>1. InvestigationLeases /\ IType /\ [Next]_vars => InvestigationLeases'
  BY LeasesKept
<1>2. IType /\ InvestigationLeases => OneInvestigation
  <2> SUFFICES ASSUME IType, InvestigationLeases, NEW f \in Findings, NEW m \in Attempts, NEW n \in Attempts,
                      InFlight(inv[f][m]), InFlight(inv[f][n])
               PROVE  m = n
    BY DEF OneInvestigation
  <2>1. fnd[f].attInv \in 0..MaxRuns
    BY DEF IType, TypeOK, ClusterTypeOK, Finding
  <2>2. Leased(inv[f], fnd[f].attInv, gate[f] # Idle)
    BY DEF InvestigationLeases
  <2> QED BY <2>1, <2>2, LeasedOne
<1> QED BY <1>1, <1>2, LeasesInitially, Typed, PTL DEF Spec

-----------------------------------------------------------------------------
(* Remediations                                                              *)

\* The spawner decides on a cache that holds the latest attempt it has counted.
\* The informer does not promise it: that it is all the lease asks for is what
\* SingleRemediation says.
SeesLatest == \A f \in Findings : SpawnDecide(f) => fnd[f].attRem \in {0} \cup remSeen[f]

RemediationLeases ==
    \A f \in Findings : /\ Leased(rem[f], fnd[f].attRem, spawn[f] # NoStep)
                        /\ spawn[f] # NoStep => spawn[f].attempt = fnd[f].attRem + 1

\* The spawner's reconcile of a finding is under way only from its SpawnDecide on.
LEMMA SpawnMoves ==
    ASSUME IType, [Next]_vars, NEW f \in Findings
    PROVE  \/ spawn'[f] \in {spawn[f], NoStep}
           \/ SpawnDecide(f)
           \/ SpawnCreate(f)
<1>1. spawn \in [Findings -> SpawnSteps]
  BY DEF IType, TypeOK, RemTypeOK
<1>2. CASE Remediate
  <2>1. ASSUME NEW g \in Findings, SpawnDecide(g) \/ SpawnCreate(g) \/ SpawnCount(g)
        PROVE  g # f => spawn'[f] = spawn[f]
    BY <1>1, <2>1 DEF SpawnDecide, SpawnCreate, SpawnCount
  <2>2. ASSUME SpawnCount(f) PROVE spawn'[f] = NoStep
    BY <1>1, <2>2 DEF SpawnCount
  <2>3. ASSUME NEW g \in Findings, SpawnAdmit(g) \/ SpawnRevive(g) \/ SpawnRetryAdmit(g)
        PROVE  spawn' = spawn
    BY <2>3 DEF SpawnAdmit, SpawnRevive, SpawnRetryAdmit, remVars
  <2>4. ASSUME NEW g \in Findings, NEW n \in Attempts, Observe(g, n)
        PROVE  spawn' = spawn
    BY <1>1, <2>4 DEF Observe
  <2>5. ASSUME NEW g \in Findings, NEW n \in Attempts, \/ RemGrant(g, n) \/ RemLaunch(g, n)
               \/ RemHoldForImage(g, n) \/ RemFail(g, n) \/ RemSandboxRefused(g, n) \/ RemHandOff(g, n) \/ RemPush(g, n)
        PROVE  spawn' = spawn
    BY <2>5, Zenon DEF RemGrant, RemLaunch, RemHoldForImage, RemFail, RemSandboxRefused, RemHandOff, RemPush
  <2>6. ASSUME RemAdvance \/ RemRecordJob \/ RemEnsurePR \/ RemStamp \/ RemRecord \/ RemFinish
        PROVE  spawn' = spawn
    BY <2>6 DEF RemAdvance, RemRecordJob, RemEnsurePR, RemStamp, RemRecord, RemFinish
  <2> QED BY <1>2, <2>1, <2>2, <2>3, <2>4, <2>5, <2>6 DEF Remediate, RemNext
<1>3. CASE Faults
  <2>1. CASE InvFault /\ UNCHANGED <<remVars, asks>>
    BY <2>1 DEF remVars
  <2>2. CASE RemError
    BY <2>2 DEF RemError
  <2>3. CASE RemRestart
    BY <2>3 DEF RemRestart
  <2>4. ASSUME NEW g \in Findings, SpawnError(g)
        PROVE  spawn'[f] \in {spawn[f], NoStep}
    BY <1>1, <2>4 DEF SpawnError
  <2> QED BY <1>3, <2>1, <2>2, <2>3, <2>4 DEF Faults, RemFault
<1>4. CASE Investigate \/ Integrate \/ People \/ Agents \/ UNCHANGED vars
  <2>1. UNCHANGED remVars
    BY <1>4 DEF Investigate, Integrate, People, Agents, vars
  <2> QED BY <2>1 DEF remVars
<1> QED BY <1>2, <1>3, <1>4 DEF Next

LEMMA RemLeasesInitially == Init => RemediationLeases
<1> SUFFICES ASSUME Init, NEW f \in Findings
             PROVE  spawn[f] = NoStep /\ Leased(rem[f], fnd[f].attRem, spawn[f] # NoStep)
  BY DEF RemediationLeases
<1>1. spawn[f] = NoStep /\ \A n \in Attempts : ~InFlight(rem[f][n])
  BY DEF Init, RemInit, ClusterInit, InFlight, NotCreated
<1> QED BY <1>1 DEF Leased

LEMMA RemLeasesKept ==
    ASSUME IType, [Next]_vars, [SeesLatest]_vars, RemediationLeases
    PROVE  RemediationLeases'
<1>0. CASE UNCHANGED vars
  BY <1>0 DEF vars, cluster, remVars, RemediationLeases
<1> SUFFICES ASSUME SeesLatest, NEW f \in Findings
             PROVE  /\ Leased(rem'[f], fnd'[f].attRem, spawn'[f] # NoStep)
                    /\ spawn'[f] # NoStep => spawn'[f].attempt = fnd'[f].attRem + 1
  BY <1>0 DEF RemediationLeases
<1> DEFINE att == fnd[f].attRem
<1>1. /\ fnd \in [Findings -> Finding] /\ att \in 0..MaxRuns
      /\ spawn \in [Findings -> SpawnSteps] /\ rem \in Runs
  BY DEF IType, TypeOK, ClusterTypeOK, RemTypeOK, Finding, Runs
<1>2. Leased(rem[f], att, spawn[f] # NoStep) /\ (spawn[f] # NoStep => spawn[f].attempt = att + 1)
  BY DEF RemediationLeases
<1>3. CASE SpawnDecide(f)
  <2>1. rem' = rem /\ fnd' = fnd
          /\ spawn[f] = NoStep /\ spawn'[f] = [step |-> "create", attempt |-> att + 1]
    BY <1>1, <1>3 DEF SpawnDecide, cluster
  <2>2. att \in Attempts => ~InFlight(rem[f][att])
    <3>1. att \in {0} \cup remSeen[f]
      BY <1>3 DEF SeesLatest
    <3>2. LatestSettled(f)
      BY <1>3 DEF SpawnDecide
    <3> QED BY <3>1, <3>2, MaxRunsAssumption DEF LatestSettled, Attempts
  <2>3. Leased(rem[f], att, FALSE)
    BY <1>2, <2>1, Zenon
  <2>4. Leased(rem[f], att, TRUE)
    BY <1>1, <2>2, <2>3, LeasedAdmit, Zenon
  <2>5. spawn'[f] # NoStep /\ spawn'[f].attempt = att + 1
    BY <2>1 DEF NoStep
  <2> QED BY <1>2, <2>1, <2>4, <2>5, Zenon
<1>4. CASE SpawnCreate(f)
  <2>1. spawn[f] # NoStep /\ fnd' = fnd
    BY <1>4 DEF SpawnCreate, NoStep
  <2>2. spawn[f] \in [step : {"create", "count"}, attempt : Attempts] /\ spawn[f].attempt = att + 1
    BY <1>1, <1>2, <2>1 DEF SpawnSteps
  <2>3. spawn'[f] # NoStep /\ spawn'[f].attempt = att + 1
    BY <1>1, <1>4, <2>2 DEF SpawnCreate, NoStep
  <2>4. \A n \in Attempts : n # att + 1 => rem'[f][n] = rem[f][n]
    BY <1>1, <1>4, <2>2 DEF SpawnCreate, Runs
  <2>5. Leased(rem[f], att, TRUE)
    BY <1>2, <2>1, Zenon
  <2>6. Leased(rem'[f], att, TRUE)
    BY <1>1, <2>4, <2>5, LeasedCreate, Zenon
  <2> QED BY <2>1, <2>3, <2>6, Zenon
<1>5. CASE SpawnCount(f)
  <2>1. spawn[f] # NoStep /\ rem' = rem /\ spawn'[f] = NoStep
    BY <1>1, <1>5 DEF SpawnCount, NoStep
  <2>2. Leased(rem[f], att, TRUE) /\ spawn[f].attempt = att + 1
    BY <1>2, <2>1, Zenon
  <2> DEFINE new == [fnd[f] EXCEPT !.attRem = spawn[f].attempt]
  <2>3. WriteFinding(f, new)
    BY <1>1, <1>5, <2>2 DEF SpawnCount
  <2>4. new.attRem = att + 1
    BY <1>1, <2>2 DEF Finding
  <2>5. fnd'[f].attRem = att + 1
    BY <1>1, <2>3, <2>4 DEF WriteFinding
  <2>6. Leased(rem[f], att + 1, FALSE)
    BY <1>1, <2>2, LeasedCount, Zenon
  <2> QED BY <1>2, <2>1, <2>5, <2>6, Zenon
<1>6. CASE ~SpawnDecide(f) /\ ~SpawnCreate(f) /\ ~SpawnCount(f)
  <2>1. spawn'[f] \in {spawn[f], NoStep} /\ fnd'[f].attRem = att
    BY <1>6, SpawnMoves, Counted
  <2>2. \A n \in Attempts : InFlight(rem'[f][n]) => InFlight(rem[f][n])
    <3>1. CASE NoneStarts(rem, rem')
      BY <3>1 DEF NoneStarts
    <3>2. ASSUME NEW g \in Findings, SpawnCreate(g) PROVE rem'[f] = rem[f]
      BY <1>1, <1>6, <3>2, Zenon DEF SpawnCreate, Runs
    <3> QED BY <3>1, <3>2, RemediationsStart
  <2> DEFINE busy == spawn[f] # NoStep
             later == spawn'[f] # NoStep
  <2>3. busy \in BOOLEAN /\ later \in BOOLEAN /\ (later => busy) /\ Leased(rem[f], att, busy)
    BY <1>2, <2>1
  <2> HIDE DEF busy, later
  <2>4. Leased(rem'[f], att, later)
    BY <1>1, <2>2, <2>3, LeasedKept
  <2> QED BY <1>2, <2>1, <2>2, <2>4 DEF later
<1> QED BY <1>3, <1>4, <1>5, <1>6

\* The one way to two unsettled Remediations of a finding is a SpawnDecide
\* whose cache misses the latest attempt: whatever the cache lags, is cut or
\* restarts, OneRemediation holds of every behaviour in which each SpawnDecide
\* sees that one object (spawn takes a child its cache does not hold for a
\* settled one).
THEOREM SingleRemediation == Spec => ([][SeesLatest]_vars => []OneRemediation)
<1>1. RemediationLeases /\ IType /\ [Next]_vars /\ [SeesLatest]_vars => RemediationLeases'
  BY RemLeasesKept, Zenon
<1>2. IType /\ RemediationLeases => OneRemediation
  <2> SUFFICES ASSUME IType, RemediationLeases, NEW f \in Findings, NEW m \in Attempts, NEW n \in Attempts,
                      InFlight(rem[f][m]), InFlight(rem[f][n])
               PROVE  m = n
    BY DEF OneRemediation
  <2>1. fnd[f].attRem \in 0..MaxRuns
    BY DEF IType, TypeOK, ClusterTypeOK, Finding
  <2>2. Leased(rem[f], fnd[f].attRem, spawn[f] # NoStep)
    BY DEF RemediationLeases
  <2> QED BY <2>1, <2>2, LeasedOne
<1> QED BY <1>1, <1>2, RemLeasesInitially, Typed, PTL DEF Spec

-----------------------------------------------------------------------------
(* One Finding's fields                                                      *)

SameLife(c, new) == new.phase = c.phase /\ new.prior = c.prior /\ new.revived = c.revived

\* SetPhase's part of the lifecycle, for an edge that changes the phase.
MovedTo(c, new, to) ==
    /\ new.phase = to
    /\ new.prior = IF to = "Failed" THEN c.prior ELSE to
    /\ new.revived = IF to \in {"HandedOff", "Failed"} THEN TRUE ELSE c.revived

SameCounts(c, new) == new.attInv = c.attInv /\ new.attRem = c.attRem

SameWork(c, new) == new.analysis = c.analysis /\ new.activeRun = c.activeRun

SameReview(c, new) == new.pr = c.pr /\ new.closePending = c.closePending

SameRest(c, new) == SameCounts(c, new) /\ SameWork(c, new) /\ SameReview(c, new)

LEMMA SetPhaseFields ==
    ASSUME NEW c \in Finding, NEW to \in Phases, c.phase # to
    PROVE  /\ SetPhase(c, to) \in Finding
           /\ MovedTo(c, SetPhase(c, to), to)
           /\ SameRest(c, SetPhase(c, to))
<1> DEFINE prior    == IF to = "Failed" THEN c.prior ELSE to
           revived  == c.revived \/ to \in {"HandedOff", "Failed"}
           approval == IF to \in terminal THEN Outdate(c.approval) ELSE c.approval
           retry    == IF to \in terminal THEN Outdate(c.retry) ELSE c.retry
           new      == [c EXCEPT !.phase = to, !.prior = prior, !.revived = revived,
                                 !.approval = approval, !.retry = retry]
<1>1. SetPhase(c, to) = new
  BY DEF SetPhase
<1>2. c.revived \in BOOLEAN
  BY DEF Finding
<1>3. revived = IF to \in {"HandedOff", "Failed"} THEN TRUE ELSE c.revived
  BY <1>2
<1> HIDE DEF prior, revived, approval, retry
<1>4. /\ new.phase = to /\ new.prior = prior /\ new.revived = revived
      /\ new.attInv = c.attInv /\ new.attRem = c.attRem
      /\ new.analysis = c.analysis /\ new.activeRun = c.activeRun
      /\ new.pr = c.pr /\ new.closePending = c.closePending
  BY DEF Finding
<1> HIDE DEF new
<1>5. MovedTo(c, new, to) /\ SameRest(c, new)
  BY <1>3, <1>4 DEF MovedTo, SameRest, SameCounts, SameWork, SameReview, prior
<1> QED BY <1>1, <1>5, SetPhaseFinding

\* The edits handlers make beside a move.
LEMMA RunNamed ==
    ASSUME NEW c \in Finding, NEW run
    PROVE  LET new == [c EXCEPT !.activeRun = run] IN
           /\ SameLife(c, new) /\ SameCounts(c, new) /\ SameReview(c, new)
           /\ new.analysis = c.analysis /\ new.activeRun = run
BY DEF Finding, SameLife, SameCounts, SameReview

LEMMA AnalysisRecorded ==
    ASSUME NEW c \in Finding
    PROVE  LET new == [c EXCEPT !.analysis = TRUE, !.activeRun = NoRun] IN
           /\ new \in Finding
           /\ SameLife(c, new) /\ SameCounts(c, new) /\ SameReview(c, new)
           /\ new.analysis = TRUE /\ new.activeRun = NoRun
<1>1. [c EXCEPT !.analysis = TRUE, !.activeRun = NoRun] \in Finding
  BY Zenon DEF Finding
<1> QED BY <1>1 DEF Finding, SameLife, SameCounts, SameReview

LEMMA PullRecorded ==
    ASSUME NEW c \in Finding, NEW pr \in Nat
    PROVE  LET new == [c EXCEPT !.pr = pr, !.prState = "open", !.activeRun = NoRun] IN
           /\ new \in Finding
           /\ SameLife(c, new) /\ SameCounts(c, new)
           /\ new.analysis = c.analysis /\ new.activeRun = NoRun
           /\ new.pr = pr /\ new.closePending = c.closePending
<1>1. [c EXCEPT !.pr = pr, !.prState = "open", !.activeRun = NoRun] \in Finding
  BY Zenon DEF Finding
<1> QED BY <1>1 DEF Finding, SameLife, SameCounts

LEMMA ReviewNoted ==
    ASSUME NEW c \in Finding,
           NEW tracking \in {"open", "closed"}, NEW pending \in {"none", "issue", "repo"}
    PROVE  LET new == [c EXCEPT !.tracking = tracking, !.closePending = pending] IN
           /\ new \in Finding
           /\ SameLife(c, new) /\ SameCounts(c, new) /\ SameWork(c, new)
           /\ new.pr = c.pr /\ new.closePending = pending
<1>1. [c EXCEPT !.tracking = tracking, !.closePending = pending] \in Finding
  BY Zenon DEF Finding
<1> QED BY <1>1 DEF Finding, SameLife, SameCounts, SameWork

LEMMA OutcomeNoted ==
    ASSUME NEW c \in Finding, NEW state \in {"closed", "merged"}
    PROVE  LET new == [c EXCEPT !.closePending = "none", !.prState = state] IN
           /\ new \in Finding
           /\ SameLife(c, new) /\ SameCounts(c, new) /\ SameWork(c, new)
           /\ new.pr = c.pr /\ new.closePending = "none"
<1>1. [c EXCEPT !.closePending = "none", !.prState = state] \in Finding
  BY Zenon DEF Finding
<1> QED BY <1>1 DEF Finding, SameLife, SameCounts, SameWork

LEMMA PersonAsked ==
    ASSUME NEW c \in Finding, NEW x
    PROVE  /\ SameLife(c, [c EXCEPT !.approval = x]) /\ SameRest(c, [c EXCEPT !.approval = x])
           /\ SameLife(c, [c EXCEPT !.retry = x]) /\ SameRest(c, [c EXCEPT !.retry = x])
           /\ SameLife(c, [c EXCEPT !.suspend = x]) /\ SameRest(c, [c EXCEPT !.suspend = x])
BY DEF Finding, SameLife, SameRest, SameCounts, SameWork, SameReview

-----------------------------------------------------------------------------
(* What a step may do to one Finding                                         *)

aside == <<inv, rem, job, breaker, faults, gate, invW, spawn, remW, remSeen>>

\* Nothing an invariant reads.
Untouched(f) == SameLife(fnd[f], fnd'[f]) /\ SameRest(fnd[f], fnd'[f])

\* A move that belongs to no run: ingest, context-controller, people, and the
\* gate's and the spawner's own edges.
MovedAlone(f) ==
    /\ SameRest(fnd[f], fnd'[f]) /\ UNCHANGED aside /\ prs' = prs
    /\ \/ fnd[f].phase = Absent /\ MovedTo(fnd[f], fnd'[f], "Opened")
       \/ fnd[f].phase = "Opened" /\ MovedTo(fnd[f], fnd'[f], "Enhanced")
       \/ /\ fnd[f].phase = "Failed" /\ fnd[f].prior = "Investigating"
          /\ MovedTo(fnd[f], fnd'[f], "Enhanced")
       \/ /\ \/ fnd[f].phase = "AwaitingApproval"
             \/ fnd[f].phase = "HandedOff" /\ fnd[f].analysis = TRUE
             \/ fnd[f].phase = "Failed" /\ fnd[f].prior # "Investigating" /\ fnd[f].analysis = TRUE
          /\ MovedTo(fnd[f], fnd'[f], "Queued")
       \/ /\ fnd[f].phase \notin {Absent, "InReview", "Failed", "HandedOff", "Remediated"}
          /\ MovedTo(fnd[f], fnd'[f], "HandedOff")

\* The review's own writes: a close noted, and a close settled.
ReviewedAlone(f) ==
    /\ fnd[f].phase = "InReview"
    /\ SameCounts(fnd[f], fnd'[f]) /\ SameWork(fnd[f], fnd'[f]) /\ fnd'[f].pr = fnd[f].pr
    /\ UNCHANGED aside /\ prs' = prs
    /\ \/ SameLife(fnd[f], fnd'[f])
       \/ /\ fnd'[f].closePending = "none"
          /\ \/ MovedTo(fnd[f], fnd'[f], "Remediated") /\ prs[f][fnd[f].pr] = "merged"
             \/ MovedTo(fnd[f], fnd'[f], "Failed")
             \/ MovedTo(fnd[f], fnd'[f], "HandedOff")

\* The run controllers' second writes.
InvestigationBegun(f) ==
    /\ GateAdvance(f) /\ UNCHANGED remVars /\ fnd[f].phase = "Enhanced"
    /\ MovedTo(fnd[f], fnd'[f], "Investigating")
    /\ fnd'[f].attInv = gate[f].attempt /\ fnd'[f].attRem = fnd[f].attRem
    /\ fnd'[f].activeRun = [kind |-> "inv", n |-> gate[f].attempt]
    /\ fnd'[f].analysis = fnd[f].analysis /\ SameReview(fnd[f], fnd'[f])

InvestigationReleased(f) ==
    /\ InvRelease /\ UNCHANGED remVars /\ invW.f = f /\ fnd[f].phase = "Investigating"
    /\ MovedTo(fnd[f], fnd'[f], invW.to)
    /\ fnd'[f].activeRun = NoRun /\ fnd'[f].analysis = fnd[f].analysis
    /\ SameCounts(fnd[f], fnd'[f]) /\ SameReview(fnd[f], fnd'[f])

VerdictRouted(f) ==
    /\ InvRoute /\ UNCHANGED remVars /\ invW.f = f
    /\ \/ fnd[f].phase = "Investigating" /\ MovedTo(fnd[f], fnd'[f], invW.to)
       \/ fnd[f].phase # "Investigating" /\ SameLife(fnd[f], fnd'[f])
    /\ fnd'[f].activeRun = NoRun /\ fnd'[f].analysis = TRUE
    /\ SameCounts(fnd[f], fnd'[f]) /\ SameReview(fnd[f], fnd'[f])

RemediationCounted(f) ==
    /\ SpawnCount(f) /\ UNCHANGED invVars
    /\ SameLife(fnd[f], fnd'[f]) /\ SameWork(fnd[f], fnd'[f]) /\ SameReview(fnd[f], fnd'[f])
    /\ fnd'[f].attInv = fnd[f].attInv
    /\ fnd'[f].attRem = IF fnd[f].attRem >= spawn[f].attempt THEN fnd[f].attRem ELSE spawn[f].attempt

RemediationBegun(f) ==
    /\ RemAdvance /\ UNCHANGED invVars /\ remW.f = f /\ fnd[f].phase = "Queued"
    /\ MovedTo(fnd[f], fnd'[f], "Remediating")
    /\ fnd'[f].activeRun = [kind |-> "rem", n |-> remW.n] /\ fnd'[f].analysis = fnd[f].analysis
    /\ SameCounts(fnd[f], fnd'[f]) /\ SameReview(fnd[f], fnd'[f])

PullRequestRecorded(f) ==
    /\ RemRecord /\ UNCHANGED invVars /\ remW.f = f
    /\ \/ fnd[f].phase = "Remediating" /\ MovedTo(fnd[f], fnd'[f], "InReview")
       \/ fnd[f].phase # "Remediating" /\ SameLife(fnd[f], fnd'[f])
    /\ fnd'[f].pr = remW.pr /\ fnd'[f].closePending = fnd[f].closePending
    /\ fnd'[f].activeRun = NoRun /\ fnd'[f].analysis = fnd[f].analysis
    /\ SameCounts(fnd[f], fnd'[f])

RemediationFinished(f) ==
    /\ RemFinish /\ UNCHANGED invVars /\ remW.f = f /\ fnd[f].phase = "Remediating"
    /\ MovedTo(fnd[f], fnd'[f], remW.to)
    /\ fnd'[f].activeRun = NoRun /\ fnd'[f].analysis = fnd[f].analysis
    /\ SameCounts(fnd[f], fnd'[f]) /\ SameReview(fnd[f], fnd'[f])

FindingStep(f) ==
    \/ Untouched(f) \/ MovedAlone(f) \/ ReviewedAlone(f)
    \/ InvestigationBegun(f) \/ InvestigationReleased(f) \/ VerdictRouted(f)
    \/ RemediationCounted(f) \/ RemediationBegun(f) \/ PullRequestRecorded(f) \/ RemediationFinished(f)

LEMMA Unwritten ==
    ASSUME IType, NEW f \in Findings, NEW g \in Findings, NEW new,
           fnd' = fnd \/ (g # f /\ WriteFinding(g, new))
    PROVE  Untouched(f)
<1>1. fnd'[f] = fnd[f]
  BY DEF WriteFinding, IType, TypeOK, ClusterTypeOK
<1> QED BY <1>1 DEF Untouched, SameLife, SameRest, SameCounts, SameWork, SameReview

LEMMA Written ==
    ASSUME IType, NEW f \in Findings, NEW new, WriteFinding(f, new)
    PROVE  fnd'[f] = new
BY DEF WriteFinding, IType, TypeOK, ClusterTypeOK

LEMMA FindingTyped ==
    ASSUME IType, NEW f \in Findings
    PROVE  fnd[f] \in Finding
BY DEF IType, TypeOK, ClusterTypeOK

LEMMA InvestigateFinding ==
    ASSUME IType, Investigate, NEW f \in Findings
    PROVE  FindingStep(f)
<1> USE DEF FindingStep
<1>1. InvNext /\ invW \in InvSteps /\ gate \in [Findings -> GateSteps] /\ UNCHANGED <<remVars, asks>>
  BY DEF Investigate, IType, TypeOK, InvTypeOK
<1>2. fnd[f] \in Finding
  BY FindingTyped
<1>3. fnd' = fnd => Untouched(f)
  BY Unwritten
<1>4. ASSUME NEW g \in Findings, GateAdvance(g) PROVE FindingStep(f)
  <2> DEFINE moved == SetPhase(fnd[g], "Investigating")
             att == gate[g].attempt
             run == [kind |-> "inv", n |-> gate[g].attempt]
             new == [moved EXCEPT !.attInv = att, !.activeRun = run]
  <2>1. fnd' = fnd \/ (fnd[g].phase = "Enhanced" /\ WriteFinding(g, new))
    BY <1>4 DEF GateAdvance
  <2>2. CASE g = f /\ fnd[f].phase = "Enhanced" /\ fnd' # fnd
    <3>1. moved \in Finding /\ MovedTo(fnd[f], moved, "Investigating") /\ SameRest(fnd[f], moved)
      BY <1>2, <2>2, SetPhaseFields DEF Phases
    <3>2. fnd'[f] = new
      BY <2>1, <2>2, Written
    <3> HIDE DEF moved, att, run
    <3>3. /\ SameLife(moved, new) /\ SameReview(moved, new) /\ new.attRem = moved.attRem
          /\ new.analysis = moved.analysis /\ new.activeRun = run /\ new.attInv = att
      BY <3>1 DEF Finding, SameLife, SameReview
    <3> HIDE DEF new
    <3>4. /\ MovedTo(fnd[f], new, "Investigating") /\ new.attRem = fnd[f].attRem
          /\ new.analysis = fnd[f].analysis /\ SameReview(fnd[f], new)
      BY <3>1, <3>3 DEF MovedTo, SameLife, SameRest, SameCounts, SameWork, SameReview
    <3>5. InvestigationBegun(f)
      BY <1>1, <1>4, <2>2, <3>2, <3>3, <3>4 DEF InvestigationBegun, att, run
    <3> QED BY <3>5
  <2> QED BY <1>3, <2>1, <2>2, Unwritten
<1>5. ASSUME NEW g \in Findings, GatePark(g) \/ GateRetryRevert(g) PROVE FindingStep(f)
  <2>1. PICK to \in {"HandedOff", "Enhanced"} :
            /\ WriteFinding(g, SetPhase(fnd[g], to)) /\ UNCHANGED <<aside, prs>>
            /\ \/ fnd[g].phase = "Enhanced" /\ to = "HandedOff"
               \/ fnd[g].phase = "Failed" /\ fnd[g].prior = "Investigating" /\ to = "Enhanced"
    BY <1>1, <1>5 DEF GatePark, GateRetryRevert, RetryTarget, aside, invVars, remVars, Absent
  <2>2. CASE g = f
    <3>1. MovedTo(fnd[f], SetPhase(fnd[f], to), to) /\ SameRest(fnd[f], SetPhase(fnd[f], to))
      BY <1>2, <2>1, <2>2, SetPhaseFields DEF Phases
    <3>2. fnd'[f] = SetPhase(fnd[f], to)
      BY <2>1, <2>2, Written
    <3>3. MovedAlone(f)
      BY <2>1, <2>2, <3>1, <3>2, Zenon DEF MovedAlone, Absent
    <3> QED BY <3>3
  <2> QED BY <2>1, <2>2, Unwritten
<1>6. CASE InvRelease
  <2> DEFINE moved == SetPhase(fnd[invW.f], invW.to)
             new == [moved EXCEPT !.activeRun = NoRun]
  <2>1. /\ invW.f \in Findings /\ invW.to \in Phases /\ invW.to # "Investigating"
        /\ fnd' = fnd \/ (fnd[invW.f].phase = "Investigating" /\ WriteFinding(invW.f, new))
    BY <1>1, <1>6, InvStepTypes DEF InvRelease, Phases
  <2>2. CASE invW.f = f /\ fnd[f].phase = "Investigating" /\ fnd' # fnd
    <3>1. moved \in Finding /\ MovedTo(fnd[f], moved, invW.to) /\ SameRest(fnd[f], moved)
      BY <1>2, <2>1, <2>2, SetPhaseFields
    <3>2. fnd'[f] = new
      BY <2>1, <2>2, Written
    <3> HIDE DEF moved
    <3>3. /\ SameLife(moved, new) /\ SameCounts(moved, new) /\ SameReview(moved, new)
          /\ new.analysis = moved.analysis /\ new.activeRun = NoRun
      BY <3>1, RunNamed
    <3> HIDE DEF new
    <3>4. /\ MovedTo(fnd[f], new, invW.to) /\ SameCounts(fnd[f], new)
          /\ new.analysis = fnd[f].analysis /\ SameReview(fnd[f], new)
      BY <3>1, <3>3 DEF MovedTo, SameLife, SameRest, SameCounts, SameWork, SameReview
    <3>5. InvestigationReleased(f)
      BY <1>1, <1>6, <2>2, <3>2, <3>3, <3>4 DEF InvestigationReleased
    <3> QED BY <3>5
  <2> QED BY <1>3, <2>1, <2>2, Unwritten
<1>7. CASE InvRoute
  <2> DEFINE cur == [fnd[invW.f] EXCEPT !.analysis = TRUE, !.activeRun = NoRun]
             new == IF cur.phase = "Investigating" THEN SetPhase(cur, invW.to) ELSE cur
  <2>1. /\ invW.f \in Findings /\ invW.to \in Phases /\ invW.to # "Investigating"
        /\ WriteFinding(invW.f, new)
    BY <1>1, <1>7, InvStepTypes DEF InvRoute, Phases
  <2>2. CASE invW.f = f
    <3>1. /\ cur \in Finding /\ SameLife(fnd[f], cur) /\ SameCounts(fnd[f], cur) /\ SameReview(fnd[f], cur)
          /\ cur.analysis = TRUE /\ cur.activeRun = NoRun
      BY <1>2, <2>2, AnalysisRecorded
    <3>2. fnd'[f] = new
      BY <2>1, <2>2, Written
    <3> HIDE DEF cur
    <3>3. \/ fnd[f].phase = "Investigating" /\ MovedTo(fnd[f], new, invW.to) /\ SameRest(cur, new)
          \/ fnd[f].phase # "Investigating" /\ new = cur
      BY <2>1, <3>1, SetPhaseFields DEF SameLife, MovedTo
    <3> HIDE DEF new
    <3>4. /\ new.activeRun = NoRun /\ new.analysis = TRUE
          /\ SameCounts(fnd[f], new) /\ SameReview(fnd[f], new)
      BY <3>1, <3>3 DEF SameRest, SameCounts, SameWork, SameReview
    <3>5. VerdictRouted(f)
      BY <1>1, <1>7, <2>2, <3>1, <3>2, <3>3, <3>4 DEF VerdictRouted
    <3> QED BY <3>5
  <2> QED BY <2>1, <2>2, Unwritten
<1>8. ASSUME NEW g \in Findings, NEW n \in Attempts,
             InvGrant(g, n) \/ InvLaunch(g, n) \/ InvFail(g, n) \/ InvSandboxRefused(g, n) \/ InvApply(g, n)
      PROVE  fnd' = fnd
  BY <1>8 DEF InvGrant, InvLaunch, InvFail, InvSandboxRefused, InvApply
<1>9. ASSUME InvRecordJob \/ \E g \in Findings : GateAdmit(g) \/ GateCreate(g)
      PROVE  fnd' = fnd
  BY <1>9, Zenon DEF InvRecordJob, GateAdmit, GateCreate, cluster
<1> HIDE DEF FindingStep
<1>10. Untouched(f) => FindingStep(f)
  BY DEF FindingStep
<1> QED BY <1>1, <1>3, <1>4, <1>5, <1>6, <1>7, <1>8, <1>9, <1>10 DEF InvNext

LEMMA RemediateFinding ==
    ASSUME IType, Remediate, NEW f \in Findings
    PROVE  FindingStep(f)
<1>1. RemNext /\ remW \in RemSteps /\ spawn \in [Findings -> SpawnSteps] /\ UNCHANGED <<invVars, asks>>
  BY DEF Remediate, IType, TypeOK, RemTypeOK
<1>2. fnd[f] \in Finding
  BY FindingTyped
<1>3. Untouched(f) => FindingStep(f)
  BY DEF FindingStep
<1>4. fnd' = fnd => Untouched(f)
  BY Unwritten
<1>5. ASSUME NEW g \in Findings, SpawnCount(g) PROVE FindingStep(f)
  <2> DEFINE att == spawn[g].attempt
             new == [fnd[g] EXCEPT !.attRem = att]
  <2>1. \/ fnd' = fnd /\ fnd[g].attRem >= att
        \/ ~(fnd[g].attRem >= att) /\ WriteFinding(g, new)
    BY <1>5 DEF SpawnCount
  <2>2. CASE g = f
    <3> HIDE DEF att
    <3>1. /\ SameLife(fnd[f], new) /\ SameWork(fnd[f], new) /\ SameReview(fnd[f], new)
          /\ new.attInv = fnd[f].attInv /\ new.attRem = att
      BY <1>2, <2>2 DEF Finding, SameLife, SameWork, SameReview
    <3> HIDE DEF new
    <3>2. CASE fnd' = fnd /\ fnd[f].attRem >= att
      BY <1>1, <1>5, <2>2, <3>2, Zenon DEF RemediationCounted, FindingStep, SameLife, SameWork, SameReview, att
    <3>3. CASE ~(fnd[f].attRem >= att) /\ WriteFinding(f, new)
      <4>1. fnd'[f] = new
        BY <3>3, Written
      <4> QED BY <1>1, <1>5, <2>2, <3>1, <3>3, <4>1, Zenon DEF RemediationCounted, FindingStep, att
    <3> QED BY <2>1, <2>2, <3>2, <3>3
  <2> QED BY <1>3, <2>1, <2>2, Unwritten
<1>6. ASSUME NEW g \in Findings, SpawnAdmit(g) \/ SpawnRevive(g) \/ SpawnRetryAdmit(g) PROVE FindingStep(f)
  <2>1. /\ WriteFinding(g, SetPhase(fnd[g], "Queued")) /\ UNCHANGED <<aside, prs>>
        /\ \/ fnd[g].phase = "AwaitingApproval"
           \/ fnd[g].phase = "HandedOff" /\ fnd[g].analysis
           \/ fnd[g].phase = "Failed" /\ RetryTarget(fnd[g]) = "Queued" /\ fnd[g].analysis
    BY <1>1, <1>6 DEF SpawnAdmit, SpawnRevive, SpawnRetryAdmit, aside, invVars, remVars
  <2>2. CASE g = f
    <3>1. MovedTo(fnd[f], SetPhase(fnd[f], "Queued"), "Queued") /\ SameRest(fnd[f], SetPhase(fnd[f], "Queued"))
      BY <1>2, <2>1, <2>2, SetPhaseFields DEF Phases
    <3>2. fnd'[f] = SetPhase(fnd[f], "Queued")
      BY <2>1, <2>2, Written
    <3>3. /\ fnd[f].analysis \in BOOLEAN
          /\ RetryTarget(fnd[f]) = "Queued" => fnd[f].prior # "Investigating"
      BY <1>2 DEF Finding, RetryTarget, Absent
    <3>4. MovedAlone(f)
      BY <2>1, <2>2, <3>1, <3>2, <3>3, Zenon DEF MovedAlone
    <3> QED BY <3>4 DEF FindingStep
  <2> QED BY <1>3, <2>1, <2>2, Unwritten
<1>7. CASE RemAdvance
  <2> DEFINE moved == SetPhase(fnd[remW.f], "Remediating")
             run == [kind |-> "rem", n |-> remW.n]
             new == [moved EXCEPT !.activeRun = run]
  <2>1. /\ remW.f \in Findings
        /\ fnd' = fnd \/ (fnd[remW.f].phase = "Queued" /\ WriteFinding(remW.f, new))
    BY <1>1, <1>7, RemStepTypes DEF RemAdvance, NoStep
  <2>2. CASE remW.f = f /\ fnd[f].phase = "Queued" /\ fnd' # fnd
    <3>1. moved \in Finding /\ MovedTo(fnd[f], moved, "Remediating") /\ SameRest(fnd[f], moved)
      BY <1>2, <2>2, SetPhaseFields DEF Phases
    <3>2. fnd'[f] = new
      BY <2>1, <2>2, Written
    <3> HIDE DEF moved, run
    <3>3. /\ SameLife(moved, new) /\ SameCounts(moved, new) /\ SameReview(moved, new)
          /\ new.analysis = moved.analysis /\ new.activeRun = run
      BY <3>1 DEF Finding, SameLife, SameCounts, SameReview
    <3> HIDE DEF new
    <3>4. /\ MovedTo(fnd[f], new, "Remediating") /\ SameCounts(fnd[f], new)
          /\ new.analysis = fnd[f].analysis /\ SameReview(fnd[f], new)
      BY <3>1, <3>3 DEF MovedTo, SameLife, SameRest, SameCounts, SameWork, SameReview
    <3>5. RemediationBegun(f)
      BY <1>1, <1>7, <2>2, <3>2, <3>3, <3>4 DEF RemediationBegun, run
    <3> QED BY <3>5 DEF FindingStep
  <2> QED BY <1>3, <1>4, <2>1, <2>2, Unwritten
<1>8. CASE RemRecord
  <2> DEFINE cur == [fnd[remW.f] EXCEPT !.pr = remW.pr, !.prState = "open", !.activeRun = NoRun]
             new == IF cur.phase = "Remediating" THEN SetPhase(cur, "InReview") ELSE cur
  <2>1. remW.f \in Findings /\ remW.pr \in Nat /\ WriteFinding(remW.f, new)
    BY <1>1, <1>8, RemStepTypes DEF RemRecord, NoStep
  <2>2. CASE remW.f = f
    <3>1. /\ cur \in Finding /\ SameLife(fnd[f], cur) /\ SameCounts(fnd[f], cur) /\ cur.analysis = fnd[f].analysis
          /\ cur.activeRun = NoRun /\ cur.pr = remW.pr /\ cur.closePending = fnd[f].closePending
      BY <1>2, <2>1, <2>2, PullRecorded, ZenonT(30)
    <3>2. fnd'[f] = new
      BY <2>1, <2>2, Written
    <3> HIDE DEF cur
    <3>3. \/ fnd[f].phase = "Remediating" /\ MovedTo(fnd[f], new, "InReview") /\ SameRest(cur, new)
          \/ fnd[f].phase # "Remediating" /\ new = cur
      <4>1. CASE cur.phase = "Remediating"
        <5>1. MovedTo(cur, SetPhase(cur, "InReview"), "InReview") /\ SameRest(cur, SetPhase(cur, "InReview"))
          BY <3>1, <4>1, SetPhaseFields DEF Phases
        <5>2. new = SetPhase(cur, "InReview") /\ SameLife(fnd[f], cur)
          BY <3>1, <4>1
        <5> HIDE DEF new
        <5> QED BY <4>1, <5>1, <5>2 DEF SameLife, MovedTo
      <4>2. CASE cur.phase # "Remediating"
        BY <3>1, <4>2 DEF SameLife
      <4> QED BY <4>1, <4>2
    <3> HIDE DEF new
    <3>4. /\ new.activeRun = NoRun /\ new.analysis = fnd[f].analysis /\ SameCounts(fnd[f], new)
          /\ new.pr = remW.pr /\ new.closePending = fnd[f].closePending
      BY <3>1, <3>3 DEF SameRest, SameCounts, SameWork, SameReview
    <3>5. PullRequestRecorded(f)
      BY <1>1, <1>8, <2>2, <3>1, <3>2, <3>3, <3>4 DEF PullRequestRecorded
    <3> QED BY <3>5 DEF FindingStep
  <2> QED BY <1>3, <2>1, <2>2, Unwritten
<1>9. CASE RemFinish
  <2> DEFINE moved == SetPhase(fnd[remW.f], remW.to)
             new == [moved EXCEPT !.activeRun = NoRun]
  <2>1. /\ remW.f \in Findings /\ remW.to \in Phases /\ remW.to # "Remediating"
        /\ fnd' = fnd \/ (fnd[remW.f].phase = "Remediating" /\ WriteFinding(remW.f, new))
    BY <1>1, <1>9, RemStepTypes DEF RemFinish, NoStep, Phases
  <2>2. CASE remW.f = f /\ fnd[f].phase = "Remediating" /\ fnd' # fnd
    <3>1. moved \in Finding /\ MovedTo(fnd[f], moved, remW.to) /\ SameRest(fnd[f], moved)
      BY <1>2, <2>1, <2>2, SetPhaseFields
    <3>2. fnd'[f] = new
      BY <2>1, <2>2, Written
    <3> HIDE DEF moved
    <3>3. /\ SameLife(moved, new) /\ SameCounts(moved, new) /\ SameReview(moved, new)
          /\ new.analysis = moved.analysis /\ new.activeRun = NoRun
      BY <3>1, RunNamed
    <3> HIDE DEF new
    <3>4. /\ MovedTo(fnd[f], new, remW.to) /\ SameCounts(fnd[f], new)
          /\ new.analysis = fnd[f].analysis /\ SameReview(fnd[f], new)
      BY <3>1, <3>3 DEF MovedTo, SameLife, SameRest, SameCounts, SameWork, SameReview
    <3>5. RemediationFinished(f)
      BY <1>1, <1>9, <2>2, <3>2, <3>3, <3>4 DEF RemediationFinished
    <3> QED BY <3>5 DEF FindingStep
  <2> QED BY <1>3, <1>4, <2>1, <2>2, Unwritten
<1>10. ASSUME NEW g \in Findings, NEW n \in Attempts, \/ Observe(g, n) \/ RemGrant(g, n) \/ RemLaunch(g, n)
              \/ RemHoldForImage(g, n) \/ RemFail(g, n) \/ RemSandboxRefused(g, n) \/ RemHandOff(g, n) \/ RemPush(g, n)
       PROVE  fnd' = fnd
  BY <1>10, Zenon DEF Observe, RemGrant, RemLaunch, RemHoldForImage, RemFail, RemSandboxRefused, RemHandOff, RemPush, cluster
<1>11. ASSUME RemRecordJob \/ RemEnsurePR \/ RemStamp \/ \E g \in Findings : SpawnDecide(g) \/ SpawnCreate(g)
       PROVE  fnd' = fnd
  BY <1>11, Zenon DEF RemRecordJob, RemEnsurePR, RemStamp, SpawnDecide, SpawnCreate, cluster
<1> QED BY <1>1, <1>3, <1>4, <1>5, <1>6, <1>7, <1>8, <1>9, <1>10, <1>11 DEF RemNext

\* A Finding edited and then moved.
LEMMA EditedMoved ==
    ASSUME NEW c, NEW cur \in Finding, NEW to \in Phases, c.phase # to,
           SameLife(c, cur), SameCounts(c, cur), SameWork(c, cur), cur.pr = c.pr
    PROVE  LET new == SetPhase(cur, to) IN
           /\ MovedTo(c, new, to) /\ SameCounts(c, new) /\ SameWork(c, new)
           /\ new.pr = c.pr /\ new.closePending = cur.closePending
<1> DEFINE new == SetPhase(cur, to)
<1>1. cur.phase # to
  BY DEF SameLife
<1>2. MovedTo(cur, new, to) /\ SameRest(cur, new)
  BY <1>1, SetPhaseFields
<1> HIDE DEF new
<1>3. /\ MovedTo(c, new, to) /\ SameCounts(c, new) /\ SameWork(c, new)
      /\ new.pr = c.pr /\ new.closePending = cur.closePending
  BY <1>2 DEF SameLife, MovedTo, SameRest, SameCounts, SameWork, SameReview
<1> QED BY <1>3 DEF new

LEMMA SettleFields ==
    ASSUME NEW c \in Finding, c.phase = "InReview", NEW state \in {"closed", "merged"}
    PROVE  LET new == Settle(c, state) IN
           /\ \/ MovedTo(c, new, "Remediated") /\ state = "merged"
              \/ MovedTo(c, new, "Failed")
           /\ SameCounts(c, new) /\ SameWork(c, new)
           /\ new.pr = c.pr /\ new.closePending = "none"
<1> DEFINE cur == [c EXCEPT !.closePending = "none", !.prState = state]
           to == IF state = "merged" THEN "Remediated" ELSE "Failed"
<1>1. /\ cur \in Finding /\ SameLife(c, cur) /\ SameCounts(c, cur) /\ SameWork(c, cur)
      /\ cur.pr = c.pr /\ cur.closePending = "none"
  BY OutcomeNoted
<1>2. Settle(c, state) = SetPhase(cur, to)
  BY DEF Settle
<1> HIDE DEF cur
<1>3. to \in Phases /\ c.phase # to
  BY DEF Phases
<1> HIDE DEF to
<1>4. /\ MovedTo(c, SetPhase(cur, to), to)
      /\ SameCounts(c, SetPhase(cur, to)) /\ SameWork(c, SetPhase(cur, to))
      /\ SetPhase(cur, to).pr = c.pr /\ SetPhase(cur, to).closePending = cur.closePending
  BY <1>1, <1>3, EditedMoved
<1>5. to = "Failed" \/ (to = "Remediated" /\ state = "merged")
  BY DEF to
<1> QED BY <1>1, <1>2, <1>4, <1>5

LEMMA IntegrateFinding ==
    ASSUME IType, Integrate, NEW f \in Findings
    PROVE  FindingStep(f)
<1>1. PICK g \in Findings : \/ Ingest(g) \/ Enhance(g) \/ SettleReview(g)
                            \/ \E i \in DOMAIN prs[g] : DeliverPR(g, i)
  BY DEF Integrate, IntegrationNext
<1>2. fnd[f] \in Finding /\ prs[f] \in Seq({"open", "closed", "merged"})
  BY DEF IType, TypeOK, ClusterTypeOK
<1>3. UNCHANGED aside /\ prs' = prs
  BY <1>1 DEF Integrate, Ingest, Enhance, SettleReview, DeliverPR, others, aside, invVars, remVars
<1>4. Untouched(f) => FindingStep(f)
  BY DEF FindingStep
<1>5. PICK new : WriteFinding(g, new)
  BY <1>1, Zenon DEF Ingest, Enhance, SettleReview, DeliverPR
<1>6. CASE g # f
  BY <1>4, <1>5, <1>6, Unwritten
<1>7. CASE g = f /\ (Ingest(f) \/ Enhance(f))
  <2>1. PICK to \in {"Opened", "Enhanced"} :
            /\ WriteFinding(f, SetPhase(fnd[f], to))
            /\ \/ fnd[f].phase = Absent /\ to = "Opened"
               \/ fnd[f].phase = "Opened" /\ to = "Enhanced"
    BY <1>7 DEF Ingest, Enhance
  <2>2. to \in Phases /\ fnd[f].phase # to
    BY <2>1 DEF Phases, Absent
  <2>3. MovedTo(fnd[f], SetPhase(fnd[f], to), to) /\ SameRest(fnd[f], SetPhase(fnd[f], to))
    BY <1>2, <2>2, SetPhaseFields
  <2>4. fnd'[f] = SetPhase(fnd[f], to)
    BY <2>1, Written
  <2>5. MovedAlone(f)
    BY <1>3, <2>1, <2>3, <2>4, Zenon DEF MovedAlone
  <2> QED BY <2>5 DEF FindingStep
<1>8. ASSUME fnd[f].phase = "InReview", NEW next, WriteFinding(f, next),
             SameCounts(fnd[f], next), SameWork(fnd[f], next), next.pr = fnd[f].pr,
             \/ SameLife(fnd[f], next)
             \/ /\ next.closePending = "none"
                /\ \/ MovedTo(fnd[f], next, "Remediated") /\ prs[f][fnd[f].pr] = "merged"
                   \/ MovedTo(fnd[f], next, "Failed")
                   \/ MovedTo(fnd[f], next, "HandedOff")
      PROVE  FindingStep(f)
  <2>1. fnd'[f] = next
    BY <1>8, Written
  <2> QED BY <1>3, <1>8, <2>1, Zenon DEF FindingStep, ReviewedAlone
<1>9. ASSUME fnd[f].phase = "InReview", NEW state \in {"closed", "merged"}, prs[f][fnd[f].pr] = state,
             WriteFinding(f, Settle(fnd[f], state))
      PROVE  FindingStep(f)
  <2> DEFINE next == Settle(fnd[f], state)
  <2>1. /\ \/ MovedTo(fnd[f], next, "Remediated") /\ state = "merged"
           \/ MovedTo(fnd[f], next, "Failed")
        /\ SameCounts(fnd[f], next) /\ SameWork(fnd[f], next)
        /\ next.pr = fnd[f].pr /\ next.closePending = "none"
    BY <1>2, <1>9, SettleFields
  <2> HIDE DEF next
  <2>2. WriteFinding(f, next)
    BY <1>9 DEF next
  <2> QED BY <1>8, <1>9, <2>1, <2>2
<1>10. \A c : fnd[f] = c => SameLife(fnd[f], c) /\ SameRest(fnd[f], c)
  BY DEF SameLife, SameRest, SameCounts, SameWork, SameReview
<1>11. CASE g = f /\ SettleReview(f)
  <2>1. PICK pr, issue : /\ pr \in {"none", prs[f][fnd[f].pr]} /\ issue \in {"", "open", "closed"}
                         /\ WriteFinding(f, SettlePendingClose(fnd[f], pr, issue))
    BY <1>11, Zenon DEF SettleReview
  <2>2. fnd[f].phase = "InReview"
    BY <1>11 DEF SettleReview
  <2>3. CASE pr \in {"closed", "merged"}
    <3>1. WriteFinding(f, Settle(fnd[f], pr)) /\ prs[f][fnd[f].pr] = pr
      BY <2>1, <2>3 DEF SettlePendingClose
    <3> QED BY <1>9, <2>2, <2>3, <3>1
  <2>4. CASE pr \notin {"closed", "merged"}
    <3> DEFINE tracking == IF issue = "" THEN fnd[f].tracking ELSE issue
               cur == [fnd[f] EXCEPT !.tracking = tracking, !.closePending = "none"]
    <3>1. tracking \in {"open", "closed"}
      BY <1>2, <2>1, Zenon DEF Finding
    <3>2. cur = [fnd[f] EXCEPT !.closePending = "none", !.tracking = IF issue = "" THEN @ ELSE issue]
      BY <1>2, ZenonT(30) DEF Finding
    <3>3. SettlePendingClose(fnd[f], pr, issue) \in {cur, SetPhase(cur, "HandedOff")}
      BY <2>4, <3>2 DEF SettlePendingClose
    <3> HIDE DEF tracking
    <3>4. /\ cur \in Finding /\ SameLife(fnd[f], cur) /\ SameCounts(fnd[f], cur) /\ SameWork(fnd[f], cur)
          /\ cur.pr = fnd[f].pr /\ cur.closePending = "none"
      BY <1>2, <3>1, ReviewNoted, ZenonT(30)
    <3> HIDE DEF cur
    <3>5. "HandedOff" \in Phases /\ fnd[f].phase # "HandedOff"
      BY <2>2 DEF Phases
    <3> DEFINE next == SetPhase(cur, "HandedOff")
    <3>6. /\ MovedTo(fnd[f], next, "HandedOff") /\ SameCounts(fnd[f], next) /\ SameWork(fnd[f], next)
          /\ next.pr = fnd[f].pr /\ next.closePending = "none"
      BY <3>4, <3>5, EditedMoved
    <3> HIDE DEF next
    <3>7. WriteFinding(f, cur) \/ WriteFinding(f, next)
      BY <2>1, <3>3 DEF next
    <3> QED BY <1>8, <2>2, <3>4, <3>6, <3>7
  <2> QED BY <2>3, <2>4
<1>12. ASSUME g = f, NEW i \in DOMAIN prs[f], DeliverPR(f, i) PROVE FindingStep(f)
  <2>1. PICK sameRepo \in BOOLEAN : WriteFinding(f, PullRequest(fnd[f], i, prs[f][i], sameRepo))
    BY <1>12 DEF DeliverPR
  <2>2. prs[f][i] \in {"closed", "merged"}
    BY <1>2, <1>12 DEF DeliverPR
  <2> DEFINE noted == [fnd[f] EXCEPT !.closePending = "repo"]
  <2>3. \/ PullRequest(fnd[f], i, prs[f][i], sameRepo) = fnd[f]
        \/ /\ fnd[f].phase = "InReview" /\ fnd[f].pr = i
           /\ PullRequest(fnd[f], i, prs[f][i], sameRepo) = Settle(fnd[f], prs[f][i])
        \/ /\ fnd[f].phase = "InReview"
           /\ PullRequest(fnd[f], i, prs[f][i], sameRepo) = noted
    BY DEF PullRequest
  <2>4. CASE WriteFinding(f, fnd[f])
    <3>1. fnd'[f] = fnd[f]
      BY <2>4, Written
    <3> QED BY <1>4, <1>10, <3>1 DEF Untouched
  <2>5. CASE fnd[f].phase = "InReview" /\ fnd[f].pr = i /\ WriteFinding(f, Settle(fnd[f], prs[f][i]))
    BY <1>9, <2>2, <2>5
  <2>6. CASE fnd[f].phase = "InReview" /\ WriteFinding(f, noted)
    <3>1. /\ SameLife(fnd[f], noted) /\ SameCounts(fnd[f], noted) /\ SameWork(fnd[f], noted)
          /\ noted.pr = fnd[f].pr
      BY <1>2 DEF Finding, SameLife, SameCounts, SameWork
    <3> HIDE DEF noted
    <3> QED BY <1>8, <2>6, <3>1
  <2> QED BY <2>1, <2>3, <2>4, <2>5, <2>6
<1> QED BY <1>1, <1>6, <1>7, <1>11, <1>12

LEMMA PeopleFinding ==
    ASSUME IType, People, NEW f \in Findings
    PROVE  FindingStep(f)
<1>1. PICK g \in Findings : \/ CloseIssue(g) \/ ReopenIssue(g) \/ Approve(g) \/ Retry(g)
                            \/ Suspend(g) \/ Resume(g) \/ \E i \in DOMAIN prs[g] : ReviewPR(g, i)
  BY DEF People, PeopleNext
<1>2. fnd[f] \in Finding
  BY FindingTyped
<1>3. Untouched(f) => FindingStep(f)
  BY DEF FindingStep
<1>4. CASE \E i \in DOMAIN prs[g] : ReviewPR(g, i)
  <2>1. fnd' = fnd
    BY <1>4 DEF ReviewPR
  <2> QED BY <1>3, <2>1, Unwritten
<1>5. CASE g # f /\ ~\E i \in DOMAIN prs[g] : ReviewPR(g, i)
  <2>1. PICK new : WriteFinding(g, new)
    BY <1>1, <1>5, Zenon DEF CloseIssue, ReopenIssue, Approve, Retry, Suspend, Resume
  <2> QED BY <1>3, <1>5, <2>1, Unwritten
<1>6. CASE g = f /\ (Approve(f) \/ Retry(f) \/ Suspend(f) \/ Resume(f))
  <2>1. PICK new : WriteFinding(f, new) /\ SameLife(fnd[f], new) /\ SameRest(fnd[f], new)
    BY <1>2, <1>6, PersonAsked, Zenon DEF Approve, Retry, Suspend, Resume, applyApprove, applyRetry
  <2>2. fnd'[f] = new
    BY <2>1, Written
  <2> QED BY <1>3, <2>1, <2>2 DEF Untouched
<1>7. /\ fnd[f].closePending \in {"none", "issue", "repo"}
      /\ \A t : [fnd[f] EXCEPT !.tracking = t]
                  = [fnd[f] EXCEPT !.tracking = t, !.closePending = fnd[f].closePending]
  BY <1>2, Zenon DEF Finding
<1>8. ASSUME NEW tracking \in {"open", "closed"}, NEW cur, cur = [fnd[f] EXCEPT !.tracking = tracking]
      PROVE  /\ cur \in Finding /\ SameLife(fnd[f], cur) /\ SameCounts(fnd[f], cur) /\ SameWork(fnd[f], cur)
             /\ cur.pr = fnd[f].pr /\ cur.closePending = fnd[f].closePending
  <2> DEFINE pending == fnd[f].closePending
             new == [fnd[f] EXCEPT !.tracking = tracking, !.closePending = pending]
  <2>1. cur = new
    BY <1>7, <1>8
  <2>2. pending \in {"none", "issue", "repo"}
    BY <1>7
  <2> HIDE DEF pending
  <2>3. /\ new \in Finding /\ SameLife(fnd[f], new) /\ SameCounts(fnd[f], new) /\ SameWork(fnd[f], new)
        /\ new.pr = fnd[f].pr /\ new.closePending = pending
    <3>1. new \in Finding
      BY <1>2, <2>2, Zenon DEF Finding
    <3> QED BY <1>2, <3>1 DEF Finding, SameLife, SameCounts, SameWork
  <2> HIDE DEF new
  <2> QED BY <2>1, <2>3 DEF pending
<1>9. ASSUME NEW cur \in Finding, SameLife(fnd[f], cur), SameCounts(fnd[f], cur), SameWork(fnd[f], cur),
             cur.pr = fnd[f].pr, cur.closePending = fnd[f].closePending,
             \/ WriteFinding(f, cur)
             \/ /\ fnd[f].phase \notin {Absent, "InReview", "Failed", "HandedOff", "Remediated"}
                /\ WriteFinding(f, SetPhase(cur, "HandedOff"))
                /\ UNCHANGED <<inv, rem, job, breaker, faults, prs>>
      PROVE  FindingStep(f)
  <2>1. CASE WriteFinding(f, cur)
    <3>1. fnd'[f] = cur
      BY <2>1, Written
    <3> QED BY <1>3, <1>9, <3>1 DEF Untouched, SameRest, SameReview
  <2>2. CASE /\ fnd[f].phase \notin {Absent, "InReview", "Failed", "HandedOff", "Remediated"}
             /\ WriteFinding(f, SetPhase(cur, "HandedOff"))
             /\ UNCHANGED <<inv, rem, job, breaker, faults, prs>>
    <3> DEFINE new == SetPhase(cur, "HandedOff")
    <3>1. /\ MovedTo(fnd[f], new, "HandedOff") /\ SameCounts(fnd[f], new) /\ SameWork(fnd[f], new)
          /\ new.pr = fnd[f].pr /\ new.closePending = cur.closePending
      BY <1>9, <2>2, EditedMoved DEF Phases
    <3>2. fnd'[f] = new
      BY <2>2, Written
    <3> HIDE DEF new
    <3>3. UNCHANGED aside /\ prs' = prs
      BY <2>2 DEF People, aside, invVars, remVars
    <3>4. SameRest(fnd[f], fnd'[f])
      BY <1>9, <3>1, <3>2 DEF SameRest, SameReview
    <3>5. MovedAlone(f)
      BY <2>2, <3>1, <3>2, <3>3, <3>4 DEF MovedAlone
    <3> QED BY <3>5 DEF FindingStep
  <2> QED BY <1>9, <2>1, <2>2
<1>10. CASE g = f /\ CloseIssue(f)
  <2> DEFINE cur == [fnd[f] EXCEPT !.tracking = "closed"]
             waiting == [cur EXCEPT !.closePending = "issue"]
  <2>1. /\ cur \in Finding /\ SameLife(fnd[f], cur) /\ SameCounts(fnd[f], cur) /\ SameWork(fnd[f], cur)
        /\ cur.pr = fnd[f].pr /\ cur.closePending = fnd[f].closePending
    BY <1>8, Zenon
  <2>2. UNCHANGED <<inv, rem, job, breaker, faults, prs>>
    BY <1>10 DEF CloseIssue, Ask, others
  <2>3. WriteFinding(f, IssueClosed(fnd[f])) /\ fnd[f].phase # Absent
    BY <1>10 DEF CloseIssue
  <2>4. \/ fnd[f].phase = "InReview" /\ IssueClosed(fnd[f]) = waiting
        \/ fnd[f].phase \notin terminal \cup {"InReview"} /\ IssueClosed(fnd[f]) = SetPhase(cur, "HandedOff")
        \/ IssueClosed(fnd[f]) = cur
    <3>1. cur.phase = fnd[f].phase
      BY <2>1 DEF SameLife
    <3> QED BY <3>1 DEF IssueClosed
  <2>5. CASE fnd[f].phase = "InReview" /\ IssueClosed(fnd[f]) = waiting
    <3> HIDE DEF cur
    <3>1. /\ SameLife(cur, waiting) /\ SameCounts(cur, waiting) /\ SameWork(cur, waiting) /\ waiting.pr = cur.pr
      BY <2>1 DEF Finding, SameLife, SameCounts, SameWork
    <3> HIDE DEF waiting
    <3>2. fnd'[f] = waiting
      BY <2>3, <2>5, Written
    <3>3. UNCHANGED aside /\ prs' = prs
      BY <2>2 DEF People, aside, invVars, remVars
    <3>4. /\ SameLife(fnd[f], fnd'[f]) /\ SameCounts(fnd[f], fnd'[f]) /\ SameWork(fnd[f], fnd'[f])
          /\ fnd'[f].pr = fnd[f].pr
      BY <2>1, <3>1, <3>2 DEF SameLife, SameCounts, SameWork
    <3>5. ReviewedAlone(f)
      BY <2>5, <3>3, <3>4 DEF ReviewedAlone
    <3> QED BY <3>5 DEF FindingStep
  <2> HIDE DEF cur, waiting
  <2>6. CASE fnd[f].phase \notin terminal \cup {"InReview"} /\ IssueClosed(fnd[f]) = SetPhase(cur, "HandedOff")
    <3>1. fnd[f].phase \notin {Absent, "InReview", "Failed", "HandedOff", "Remediated"}
      BY <2>3, <2>6 DEF terminal
    <3> QED BY <1>9, <2>1, <2>2, <2>3, <2>6, <3>1
  <2>7. CASE IssueClosed(fnd[f]) = cur
    BY <1>9, <2>1, <2>3, <2>7
  <2> QED BY <2>4, <2>5, <2>6, <2>7
<1>11. CASE g = f /\ ReopenIssue(f)
  <2> DEFINE cur == [fnd[f] EXCEPT !.tracking = "open"]
  <2>1. /\ cur \in Finding /\ SameLife(fnd[f], cur) /\ SameCounts(fnd[f], cur) /\ SameWork(fnd[f], cur)
        /\ cur.pr = fnd[f].pr /\ cur.closePending = fnd[f].closePending
    BY <1>8, Zenon
  <2>2. UNCHANGED <<inv, rem, job, breaker, faults, prs>>
    BY <1>11 DEF ReopenIssue, Ask, others
  <2>3. WriteFinding(f, IssueReopened(fnd[f])) /\ fnd[f].phase # Absent
    BY <1>11 DEF ReopenIssue
  <2>4. \/ fnd[f].phase = "Dismissed" /\ IssueReopened(fnd[f]) = SetPhase(cur, "HandedOff")
        \/ IssueReopened(fnd[f]) = cur
    <3>1. cur.phase = fnd[f].phase
      BY <2>1 DEF SameLife
    <3> QED BY <3>1 DEF IssueReopened
  <2> HIDE DEF cur
  <2> QED BY <1>9, <2>1, <2>2, <2>3, <2>4
<1> QED BY <1>1, <1>4, <1>5, <1>6, <1>10, <1>11

\* A step of the pipeline does to a finding one of the things FindingStep lists.
LEMMA FindingSteps ==
    ASSUME IType, [Next]_vars, NEW f \in Findings
    PROVE  FindingStep(f)
<1>1. Untouched(f) => FindingStep(f)
  BY DEF FindingStep
<1>2. CASE Agents \/ Faults \/ UNCHANGED vars
  <2>1. fnd' = fnd
    BY <1>2 DEF Agents, Faults, JobEnds, JobVanishes, InvFault, InvError, InvRestart, GateError,
                RemFault, RemError, RemRestart, SpawnError, vars, cluster
  <2> QED BY <1>1, <2>1, Unwritten
<1> QED BY <1>2, InvestigateFinding, RemediateFinding, IntegrateFinding, PeopleFinding DEF Next

-----------------------------------------------------------------------------
(* Writes of one run                                                         *)

Exists(run) == run.phase # "none"

\* Of a finding's runs, only the n-th is written.
OnlyRun(old, new, n) == \A m \in Attempts : m # n => new[m] = old[m]

SameMarks(old, new) == new.refused = old.refused /\ new.held = old.held

-----------------------------------------------------------------------------
(* What a step may do to a finding's Investigations and the reconciles about *)
(* them                                                                      *)

\* The worker has settled f's n-th Investigation, and not written f yet.
Reporting(w, f, n) == w.step \in {"release", "route"} /\ w.f = f /\ w.n = n

InvestigationQuiet(f) ==
    /\ \A n \in Attempts : /\ inv'[f][n].refused = inv[f][n].refused
                           /\ \/ inv'[f][n].phase = inv[f][n].phase
                              \/ InFlight(inv[f][n]) /\ InFlight(inv'[f][n])
    /\ gate'[f] \in {gate[f], Idle}
    /\ invW' = invW \/ \A n \in Attempts : ~Reporting(invW', f, n)

InvestigationAdmitted(f) ==
    /\ gate[f] = Idle /\ fnd[f].phase = "Enhanced"
    /\ gate'[f] = [step |-> "create", attempt |-> fnd[f].attInv + 1]
    /\ UNCHANGED <<fnd, inv, invW>>

InvestigationCreated(f) ==
    \E n \in Attempts :
        /\ gate[f] = [step |-> "create", attempt |-> n]
        /\ gate'[f] = [step |-> "advance", attempt |-> n]
        /\ OnlyRun(inv[f], inv'[f], n) /\ inv'[f][n].refused = inv[f][n].refused
        /\ inv'[f][n].phase = IF Exists(inv[f][n]) THEN inv[f][n].phase ELSE "Pending"
        /\ UNCHANGED <<fnd, invW>>

InvestigationCounted(f) ==
    /\ gate[f].step = "advance" /\ gate'[f] = Idle
    /\ fnd[f].phase = "Enhanced" => fnd'[f].phase = "Investigating"
    /\ UNCHANGED <<inv, invW>>

InvestigationEnded(f) ==
    \E n \in Attempts :
        /\ inv[f][n].phase = "Running" /\ Settled(inv'[f][n]) /\ OnlyRun(inv[f], inv'[f], n)
        /\ invW = Idle /\ Reporting(invW', f, n)
        /\ \/ /\ inv'[f][n].phase = "Failed" /\ inv'[f][n].refused = TRUE
              /\ invW'.step = "release" /\ invW'.to = "Enhanced"
           \/ /\ inv'[f][n].refused = inv[f][n].refused
              /\ invW'.step = "release" /\ invW'.to = "Enhanced" => InvConsumed(f, n) < MaxAttempts
        /\ UNCHANGED <<fnd, gate>>

InvestigationReported(f) ==
    \E n \in Attempts :
        /\ Reporting(invW, f, n) /\ invW' = Idle
        /\ fnd[f].phase = "Investigating" => fnd'[f].phase = invW.to
        /\ invW.step = "route" => fnd'[f].analysis = TRUE
        /\ UNCHANGED <<inv, gate>>

InvestigationStep(f) ==
    \/ InvestigationQuiet(f) \/ InvestigationAdmitted(f) \/ InvestigationCreated(f)
    \/ InvestigationCounted(f) \/ InvestigationEnded(f) \/ InvestigationReported(f)

LEMMA GateInvestigation ==
    ASSUME IType, NEW f \in Findings, NEW g \in Findings,
           GateAdmit(g) \/ GateCreate(g) \/ GateAdvance(g) \/ GatePark(g) \/ GateRetryRevert(g)
    PROVE  InvestigationStep(f)
<1>1. /\ inv \in Runs /\ gate \in [Findings -> GateSteps] /\ fnd[f] \in Finding
      /\ DOMAIN fnd = Findings
  BY DEF IType, TypeOK, ClusterTypeOK, InvTypeOK, Runs
<1>2. ASSUME inv'[f] = inv[f], gate'[f] \in {gate[f], Idle}, invW' = invW PROVE InvestigationStep(f)
  BY <1>2, Zenon DEF InvestigationStep, InvestigationQuiet
<1>3. CASE GatePark(g) \/ GateRetryRevert(g)
  BY <1>2, <1>3 DEF GatePark, GateRetryRevert, invVars
<1>4. CASE GateAdmit(g)
  <2>1. CASE g = f
    BY <1>1, <1>4, <2>1, Zenon DEF GateAdmit, cluster, InvestigationStep, InvestigationAdmitted
  <2>2. CASE g # f
    BY <1>1, <1>2, <1>4, <2>2 DEF GateAdmit, cluster
  <2> QED BY <2>1, <2>2
<1>5. CASE GateCreate(g)
  <2> DEFINE n == gate[g].attempt
  <2>1. /\ gate[g] \in [step : {"create", "advance"}, attempt : Attempts] /\ gate[g].step = "create"
        /\ n \in Attempts
    BY <1>1, <1>5 DEF GateCreate, GateSteps, Idle
  <2>2. gate[g] = [step |-> "create", attempt |-> n]
    BY <2>1
  <2>3. gate' = [gate EXCEPT ![g].step = "advance"] /\ UNCHANGED <<fnd, invW>>
    BY <1>5 DEF GateCreate
  <2>4. gate'[g] = [gate[g] EXCEPT !.step = "advance"] /\ \A h \in Findings : h # g => gate'[h] = gate[h]
    BY <1>1, <2>3
  <2>5. gate'[g] = [step |-> "advance", attempt |-> n]
    BY <2>1, <2>2, <2>4
  <2>6. inv' = inv \/ inv' = [inv EXCEPT ![g][n].phase = "Pending"]
    BY <1>5 DEF GateCreate
  <2>7. inv[g][n].phase = "none" => inv' = [inv EXCEPT ![g][n].phase = "Pending"]
    BY <1>5 DEF GateCreate
  <2>8. inv[g][n].phase # "none" => inv' = inv
    BY <1>5 DEF GateCreate
  <2> HIDE DEF n
  <2>9. /\ \A h \in Findings : h # g => inv'[h] = inv[h]
        /\ OnlyRun(inv[g], inv'[g], n) /\ inv'[g][n].refused = inv[g][n].refused
        /\ inv'[g][n].phase = IF Exists(inv[g][n]) THEN inv[g][n].phase ELSE "Pending"
    <3>1. CASE inv[g][n].phase = "none"
      <4>1. /\ \A h \in Findings : h # g => inv'[h] = inv[h]
            /\ OnlyRun(inv[g], inv'[g], n)
            /\ inv'[g][n].phase = "Pending" /\ SameMarks(inv[g][n], inv'[g][n])
        <5>1. inv[g][n] \in Run /\ inv[g] \in [Attempts -> Run]
          BY <1>1, <2>1 DEF Runs
        <5> QED BY <1>1, <2>1, <2>7, <3>1, <5>1 DEF OnlyRun, SameMarks, Runs, Run
      <4> QED BY <3>1, <4>1 DEF SameMarks, Exists
    <3>2. CASE inv[g][n].phase # "none"
      BY <2>8, <3>2 DEF OnlyRun, Exists
    <3> QED BY <3>1, <3>2
  <2>10. CASE g = f
    <3>1. InvestigationCreated(f)
      BY <2>1, <2>2, <2>3, <2>5, <2>9, <2>10, Zenon DEF InvestigationCreated
    <3> QED BY <3>1 DEF InvestigationStep
  <2>11. CASE g # f
    BY <1>2, <2>3, <2>4, <2>9, <2>11
  <2> QED BY <2>10, <2>11
<1>6. CASE GateAdvance(g)
  <2>1. gate' = [gate EXCEPT ![g] = Idle] /\ UNCHANGED <<inv, invW>> /\ gate[g].step = "advance"
    BY <1>6 DEF GateAdvance
  <2>2. CASE g = f
    <3> DEFINE moved == SetPhase(fnd[f], "Investigating")
               att == gate[f].attempt
               run == [kind |-> "inv", n |-> gate[f].attempt]
               new == [moved EXCEPT !.attInv = att, !.activeRun = run]
    <3>1. ASSUME fnd[f].phase = "Enhanced" PROVE fnd'[f].phase = "Investigating"
      <4>1. WriteFinding(f, new)
        BY <1>6, <2>2, <3>1 DEF GateAdvance
      <4>2. moved \in Finding /\ moved.phase = "Investigating"
        BY <1>1, <3>1, SetPhaseFields DEF Phases, MovedTo
      <4>3. fnd'[f] = new
        BY <4>1, Written
      <4> HIDE DEF moved, att, run
      <4> QED BY <4>2, <4>3 DEF Finding
    <3>2. gate'[f] = Idle
      BY <1>1, <2>1, <2>2
    <3> QED BY <2>1, <2>2, <3>1, <3>2 DEF InvestigationStep, InvestigationCounted
  <2>3. CASE g # f
    BY <1>1, <1>2, <2>1, <2>3
  <2> QED BY <2>2, <2>3
<1> QED BY <1>3, <1>4, <1>5, <1>6

LEMMA WorkerInvestigation ==
    ASSUME IType, NEW f \in Findings, NEW g \in Findings, NEW n \in Attempts,
           \/ InvGrant(g, n) \/ InvLaunch(g, n) \/ InvFail(g, n) \/ InvSandboxRefused(g, n) \/ InvApply(g, n)
           \/ (InvRecordJob \/ InvRelease \/ InvRoute) /\ invW.f = g /\ invW.n = n
    PROVE  InvestigationStep(f)
<1>1. /\ inv \in Runs /\ gate \in [Findings -> GateSteps] /\ fnd[f] \in Finding
      /\ invW \in InvSteps
  BY DEF IType, TypeOK, ClusterTypeOK, InvTypeOK, Runs
<1>0. inv[g][n] \in Run /\ inv[g] \in [Attempts -> Run]
  BY <1>1 DEF Runs
<1>2. ASSUME InvestigationQuiet(f) PROVE InvestigationStep(f)
  BY <1>2 DEF InvestigationStep
<1>3. CASE InvGrant(g, n)
  <2>1. /\ inv' = [inv EXCEPT ![g][n].phase = "Running"] /\ inv[g][n].phase = "Pending"
        /\ UNCHANGED invVars
    BY <1>3 DEF InvGrant
  <2>2. /\ \A h \in Findings : h # g => inv'[h] = inv[h]
        /\ OnlyRun(inv[g], inv'[g], n)
        /\ inv'[g][n].phase = "Running" /\ SameMarks(inv[g][n], inv'[g][n])
    BY <1>0, <1>1, <2>1 DEF OnlyRun, SameMarks, Runs, Run
  <2>3. InvestigationQuiet(f)
    BY <2>1, <2>2 DEF InvestigationQuiet, OnlyRun, SameMarks, InFlight, invVars
  <2> QED BY <1>2, <2>3
<1>4. CASE InvLaunch(g, n)
  <2>1. InvestigationQuiet(f)
    BY <1>4 DEF InvLaunch, InvestigationQuiet, Reporting
  <2> QED BY <1>2, <2>1
<1>5. CASE InvRecordJob /\ invW.f = g /\ invW.n = n
  <2> DEFINE b == job["inv"][g][n].repoImage
  <2>1. inv' = [inv EXCEPT ![g][n].jobRef = TRUE, ![g][n].repoImage = b] /\ invW' = Idle /\ gate' = gate
    BY <1>5 DEF InvRecordJob
  <2> HIDE DEF b
  <2>2. /\ \A h \in Findings : h # g => inv'[h] = inv[h]
        /\ OnlyRun(inv[g], inv'[g], n)
        /\ inv'[g][n].phase = inv[g][n].phase /\ SameMarks(inv[g][n], inv'[g][n])
    BY <1>0, <1>1, <2>1 DEF OnlyRun, SameMarks, Runs, Run
  <2>3. InvestigationQuiet(f)
    BY <2>1, <2>2 DEF InvestigationQuiet, OnlyRun, SameMarks, Reporting, Idle
  <2> QED BY <1>2, <2>3
<1>6. CASE (InvRelease \/ InvRoute) /\ invW.f = g /\ invW.n = n
  <2>1. invW' = Idle /\ UNCHANGED <<inv, gate>> /\ invW.step \in {"release", "route"}
    BY <1>6 DEF InvRelease, InvRoute
  <2>2. CASE g = f
    <3>1. Reporting(invW, f, n)
      BY <1>6, <2>1, <2>2 DEF Reporting
    <3>2. CASE InvRelease
      <4> DEFINE moved == SetPhase(fnd[f], invW.to)
                 new == [moved EXCEPT !.activeRun = NoRun]
      <4>1. ASSUME fnd[f].phase = "Investigating" PROVE fnd'[f].phase = invW.to
        <5>1. WriteFinding(f, new)
          BY <1>6, <2>2, <3>2, <4>1 DEF InvRelease
        <5>2. invW.to \in Phases /\ fnd[f].phase # invW.to
          BY <1>1, <3>2, <4>1, InvStepTypes DEF Phases, InvRelease
        <5>3. moved \in Finding /\ MovedTo(fnd[f], moved, invW.to)
          BY <1>1, <5>2, SetPhaseFields
        <5>4. fnd'[f] = new
          BY <5>1, Written
        <5> HIDE DEF moved
        <5> QED BY <5>3, <5>4 DEF Finding, MovedTo
      <4>2. invW.step = "release"
        BY <3>2 DEF InvRelease
      <4>3. InvestigationReported(f)
        BY <2>1, <3>1, <4>1, <4>2, Zenon DEF InvestigationReported
      <4> QED BY <4>3 DEF InvestigationStep
    <3>3. CASE InvRoute
      <4> DEFINE cur == [fnd[f] EXCEPT !.analysis = TRUE, !.activeRun = NoRun]
                 moved == SetPhase(cur, invW.to)
                 new == IF cur.phase = "Investigating" THEN moved ELSE cur
      <4>1. WriteFinding(f, new)
        BY <1>6, <2>2, <3>3 DEF InvRoute
      <4>2. invW.to \in Phases /\ invW.to # "Investigating"
        BY <1>1, <3>3, InvStepTypes DEF Phases, InvRoute
      <4>3. cur \in Finding /\ cur.phase = fnd[f].phase /\ cur.analysis = TRUE
        BY <1>1, AnalysisRecorded DEF SameLife
      <4>4. fnd'[f] = new
        BY <4>1, Written
      <4> HIDE DEF cur
      <4>5. cur.phase = "Investigating" => moved.phase = invW.to /\ moved.analysis = TRUE
        BY <4>2, <4>3, SetPhaseFields DEF MovedTo, SameRest, SameWork
      <4> HIDE DEF moved
      <4>6. fnd'[f].analysis = TRUE /\ (fnd[f].phase = "Investigating" => fnd'[f].phase = invW.to)
        BY <4>3, <4>4, <4>5
      <4>7. InvestigationReported(f)
        BY <2>1, <3>1, <4>6, Zenon DEF InvestigationReported
      <4> QED BY <4>7 DEF InvestigationStep
    <3> QED BY <1>6, <3>2, <3>3
  <2>3. CASE g # f
    <3>1. InvestigationQuiet(f)
      BY <2>1, <2>3 DEF InvestigationQuiet, Reporting, Idle
    <3> QED BY <1>2, <3>1
  <2> QED BY <2>2, <2>3
<1>7. ASSUME inv[g][n].phase = "Running", Settled(inv'[g][n]), OnlyRun(inv[g], inv'[g], n),
             \A h \in Findings : h # g => inv'[h] = inv[h],
             invW = Idle, Reporting(invW', g, n), UNCHANGED <<fnd, gate>>,
             \/ /\ inv'[g][n].phase = "Failed" /\ inv'[g][n].refused = TRUE
                /\ invW'.step = "release" /\ invW'.to = "Enhanced"
             \/ /\ inv'[g][n].refused = inv[g][n].refused
                /\ invW'.step = "release" /\ invW'.to = "Enhanced" => InvConsumed(g, n) < MaxAttempts
      PROVE  InvestigationStep(f)
  <2>1. CASE g = f
    <3>1. InvestigationEnded(f)
      BY <1>7, <2>1, Zenon DEF InvestigationEnded
    <3> QED BY <3>1 DEF InvestigationStep
  <2>2. CASE g # f
    <3>1. InvestigationQuiet(f)
      BY <1>7, <2>2 DEF InvestigationQuiet, Reporting
    <3> QED BY <1>2, <3>1
  <2> QED BY <2>1, <2>2
<1>8. CASE InvFail(g, n)
  <2>1. PICK pf : invW' = [step |-> "release", f |-> g, n |-> n,
                           to |-> IF InvConsumed(g, n) >= MaxAttempts THEN "Failed" ELSE "Enhanced",
                           pullFailed |-> pf]
    BY <1>8 DEF InvFail
  <2>2. /\ inv' = [inv EXCEPT ![g][n].phase = "Failed"] /\ inv[g][n].phase = "Running"
        /\ invW = Idle /\ UNCHANGED <<fnd, gate>>
    BY <1>8 DEF InvFail, InvCollectable, InvStamp
  <2>3. /\ \A h \in Findings : h # g => inv'[h] = inv[h]
        /\ OnlyRun(inv[g], inv'[g], n)
        /\ inv'[g][n].phase = "Failed" /\ SameMarks(inv[g][n], inv'[g][n])
    BY <1>0, <1>1, <2>2 DEF OnlyRun, SameMarks, Runs, Run
  <2>4. Reporting(invW', g, n) /\ (invW'.to = "Enhanced" => ~(InvConsumed(g, n) >= MaxAttempts))
    BY <2>1 DEF Reporting
  <2>5. InvConsumed(g, n) \in Int => (~(InvConsumed(g, n) >= MaxAttempts) => InvConsumed(g, n) < MaxAttempts)
    BY MaxAttemptsAssumption
  <2>6. InvConsumed(g, n) \in Int
    <3>1. IsFiniteSet(1..(n - 1)) /\ n \in Int
      BY FS_Interval DEF Attempts
    <3>2. Cardinality({m \in 1..(n - 1) : inv[g][m].refused}) \in Nat
      BY <3>1, FS_Subset, FS_CardinalityType
    <3> QED BY <3>1, <3>2 DEF InvConsumed
  <2> QED BY <1>7, <2>2, <2>3, <2>4, <2>5, <2>6 DEF Settled, SameMarks
<1>9. CASE InvSandboxRefused(g, n)
  <2>1. /\ inv' = [inv EXCEPT ![g][n].phase = "Failed", ![g][n].refused = TRUE]
        /\ inv[g][n].phase = "Running" /\ invW = Idle /\ UNCHANGED <<fnd, gate>>
        /\ invW' = [step |-> "release", f |-> g, n |-> n, to |-> "Enhanced", pullFailed |-> FALSE]
    BY <1>9 DEF InvSandboxRefused, InvCollectable
  <2>2. /\ \A h \in Findings : h # g => inv'[h] = inv[h]
        /\ OnlyRun(inv[g], inv'[g], n)
        /\ inv'[g][n].phase = "Failed" /\ inv'[g][n].refused = TRUE
    BY <1>0, <1>1, <2>1 DEF OnlyRun, SameMarks, Runs, Run
  <2>3. Reporting(invW', g, n) /\ invW'.step = "release" /\ invW'.to = "Enhanced"
    BY <2>1 DEF Reporting
  <2> QED BY <1>7, <2>1, <2>2, <2>3 DEF Settled
<1>10. CASE InvApply(g, n)
  <2>1. PICK to : invW' = [step |-> "route", f |-> g, n |-> n, to |-> to]
    BY <1>10 DEF InvApply
  <2>2. /\ inv' = [inv EXCEPT ![g][n].phase = "Complete"] /\ inv[g][n].phase = "Running"
        /\ invW = Idle /\ UNCHANGED <<fnd, gate>>
    BY <1>10 DEF InvApply, InvCollectable, InvStamp
  <2>3. /\ \A h \in Findings : h # g => inv'[h] = inv[h]
        /\ OnlyRun(inv[g], inv'[g], n)
        /\ inv'[g][n].phase = "Complete" /\ SameMarks(inv[g][n], inv'[g][n])
    BY <1>0, <1>1, <2>2 DEF OnlyRun, SameMarks, Runs, Run
  <2>4. Reporting(invW', g, n) /\ invW'.step # "release"
    BY <2>1 DEF Reporting
  <2> QED BY <1>7, <2>2, <2>3, <2>4 DEF Settled, SameMarks
<1> QED BY <1>3, <1>4, <1>5, <1>6, <1>8, <1>9, <1>10

LEMMA InvestigationSteps ==
    ASSUME IType, [Next]_vars, NEW f \in Findings
    PROVE  InvestigationStep(f)
<1>1. ASSUME UNCHANGED <<inv, invW>> \/ (UNCHANGED inv /\ invW' = Idle), gate'[f] \in {gate[f], Idle}
      PROVE  InvestigationStep(f)
  BY <1>1 DEF InvestigationStep, InvestigationQuiet, Reporting, Idle
<1>2. CASE Investigate
  <2>1. InvNext /\ invW \in InvSteps
    BY <1>2 DEF Investigate, IType, TypeOK, InvTypeOK
  <2>2. CASE InvRecordJob \/ InvRelease \/ InvRoute
    <3>1. invW.f \in Findings /\ invW.n \in Attempts
      BY <2>1, <2>2, InvStepTypes DEF InvRecordJob, InvRelease, InvRoute
    <3> QED BY <2>2, <3>1, WorkerInvestigation
  <2> QED BY <2>1, <2>2, WorkerInvestigation, GateInvestigation DEF InvNext
<1>3. CASE Remediate
  <2>1. UNCHANGED invVars
    BY <1>3 DEF Remediate
  <2>2. UNCHANGED inv
    <3>1. ASSUME NEW g \in Findings, \/ SpawnAdmit(g) \/ SpawnRevive(g) \/ SpawnRetryAdmit(g) \/ SpawnDecide(g)
                                      \/ SpawnCreate(g) \/ SpawnCount(g)
          PROVE  UNCHANGED inv
      BY <3>1 DEF SpawnAdmit, SpawnRevive, SpawnRetryAdmit, SpawnDecide, SpawnCreate, SpawnCount, cluster
    <3>2. ASSUME NEW g \in Findings, NEW n \in Attempts, \/ Observe(g, n) \/ RemGrant(g, n) \/ RemLaunch(g, n)
                 \/ RemHoldForImage(g, n) \/ RemFail(g, n) \/ RemSandboxRefused(g, n) \/ RemHandOff(g, n) \/ RemPush(g, n)
          PROVE  UNCHANGED inv
      BY <3>2, ZenonT(30) DEF Observe, RemGrant, RemLaunch, RemHoldForImage, RemFail, RemSandboxRefused, RemHandOff, RemPush, cluster
    <3>3. ASSUME RemAdvance \/ RemRecordJob \/ RemEnsurePR \/ RemStamp \/ RemRecord \/ RemFinish
          PROVE  UNCHANGED inv
      BY <3>3 DEF RemAdvance, RemRecordJob, RemEnsurePR, RemStamp, RemRecord, RemFinish, cluster
    <3> QED BY <1>3, <3>1, <3>2, <3>3 DEF Remediate, RemNext
  <2> QED BY <1>1, <2>1, <2>2 DEF invVars
<1>4. CASE Faults
  <2>1. gate \in [Findings -> GateSteps]
    BY DEF IType, TypeOK, InvTypeOK
  <2> QED BY <1>1, <1>4, <2>1 DEF Faults, InvFault, InvError, InvRestart, GateError,
                                  RemFault, RemError, RemRestart, SpawnError, invVars
<1>5. CASE Integrate \/ People \/ Agents \/ UNCHANGED vars
  <2>1. UNCHANGED <<inv, invVars>>
    BY <1>5, RunsKept DEF Integrate, People, Agents, vars, cluster
  <2> QED BY <1>1, <2>1 DEF invVars
<1> QED BY <1>2, <1>3, <1>4, <1>5 DEF Next

-----------------------------------------------------------------------------
(* What a step may do to a finding's Remediations and the reconciles about   *)
(* them                                                                      *)

\* The remediation worker is in a reconcile of f.
RemOn(w, f) == w # NoStep /\ w.f = f

SameRuns(old, new) ==
    \A n \in Attempts : new[n].phase = old[n].phase /\ SameMarks(old[n], new[n])

\* Nothing of f's is written; only a fault drops what is under way.
RemediationQuiet(f) ==
    /\ SameRuns(rem[f], rem'[f])
    /\ spawn'[f] \in {spawn[f], NoStep}
    /\ remW' = remW \/ ~RemOn(remW', f)
    /\ faults' = faults => spawn'[f] = spawn[f] /\ (remW' = remW \/ ~RemOn(remW, f))

RemediationDecided(f) ==
    /\ spawn[f] = NoStep /\ fnd[f].phase = "Queued" /\ fnd[f].analysis = TRUE
    /\ LatestSettled(f)
    /\ spawn'[f] = [step |-> "create", attempt |-> fnd[f].attRem + 1]
    /\ UNCHANGED <<fnd, rem, remW>>

RemediationCreated(f) ==
    \E n \in Attempts :
        /\ spawn[f] = [step |-> "create", attempt |-> n]
        /\ spawn'[f] = [step |-> "count", attempt |-> n]
        /\ OnlyRun(rem[f], rem'[f], n) /\ SameMarks(rem[f][n], rem'[f][n])
        /\ rem'[f][n].phase = IF Exists(rem[f][n]) THEN rem[f][n].phase ELSE "Pending"
        /\ UNCHANGED <<fnd, remW>>

RemediationNumbered(f) ==
    /\ spawn[f].step = "count" /\ spawn'[f] = NoStep
    /\ fnd'[f].attRem = IF fnd[f].attRem >= spawn[f].attempt THEN fnd[f].attRem ELSE spawn[f].attempt
    /\ UNCHANGED <<rem, remW>>

RemediationGranted(f) ==
    \E n \in Attempts :
        /\ remW = NoStep /\ rem[f][n].phase = "Pending"
        /\ OnlyRun(rem[f], rem'[f], n) /\ SameMarks(rem[f][n], rem'[f][n]) /\ rem'[f][n].phase = "Running"
        /\ remW' = [step |-> "advance", f |-> f, n |-> n]
        /\ UNCHANGED <<fnd, spawn>>

RemediationAdvanced(f) ==
    /\ remW.step = "advance" /\ remW.f = f /\ remW' = NoStep
    /\ fnd[f].phase = "Queued" => fnd'[f].phase = "Remediating"
    /\ UNCHANGED <<rem, spawn>>

\* The worker begins a reconcile of a Running run that leaves it running.
RemediationTaken(f) ==
    \E n \in Attempts :
        /\ remW = NoStep /\ rem[f][n].phase = "Running"
        /\ \E step \in {"recordJob", "ensurePR"} : remW' = [step |-> step, f |-> f, n |-> n]
        /\ UNCHANGED <<fnd, rem, spawn>>

RemediationJobRecorded(f) ==
    /\ remW.step = "recordJob" /\ remW.f = f /\ remW' = NoStep
    /\ SameRuns(rem[f], rem'[f])
    /\ UNCHANGED <<fnd, spawn>>

RemediationEnded(f) ==
    \E n \in Attempts :
        /\ remW = NoStep /\ rem[f][n].phase = "Running" /\ OnlyRun(rem[f], rem'[f], n)
        /\ RemOn(remW', f) /\ remW'.step = "finish" /\ remW'.n = n
        /\ \/ /\ rem'[f][n].phase = "Complete" /\ SameMarks(rem[f][n], rem'[f][n])
              /\ remW'.to = "HandedOff"
           \/ /\ rem'[f][n].phase = "Failed"
              /\ rem'[f][n].held = TRUE /\ rem'[f][n].refused = rem[f][n].refused
              /\ remW'.to = "HandedOff"
           \/ /\ rem'[f][n].phase = "Failed"
              /\ rem'[f][n].refused = TRUE /\ rem'[f][n].held = rem[f][n].held
              /\ remW'.to = "Queued"
           \/ /\ rem'[f][n].phase = "Failed" /\ SameMarks(rem[f][n], rem'[f][n])
              /\ remW'.to \in {"Queued", "Failed"}
              /\ remW'.to = "Queued" => RemConsumed(f, n) < MaxAttempts
        /\ UNCHANGED <<fnd, spawn>>

RemediationPREnsured(f) ==
    /\ remW.step = "ensurePR" /\ remW.f = f
    /\ RemOn(remW', f) /\ remW'.step = "stamp" /\ remW'.n = remW.n
    /\ UNCHANGED <<fnd, rem, spawn>>

RemediationStamped(f) ==
    /\ remW.step = "stamp" /\ remW.f = f
    /\ RemOn(remW', f) /\ remW'.step = "record" /\ remW'.n = remW.n
    /\ OnlyRun(rem[f], rem'[f], remW.n) /\ SameMarks(rem[f][remW.n], rem'[f][remW.n])
    /\ rem'[f][remW.n].phase = "Complete"
    /\ UNCHANGED <<fnd, spawn>>

RemediationReported(f) ==
    /\ remW.step \in {"record", "finish"} /\ remW.f = f /\ remW' = NoStep
    /\ fnd[f].phase = "Remediating" => fnd'[f].phase # "Remediating"
    /\ UNCHANGED <<rem, spawn>>

RemediationStep(f) ==
    \/ RemediationQuiet(f)
    \/ RemediationDecided(f) \/ RemediationCreated(f) \/ RemediationNumbered(f)
    \/ RemediationGranted(f) \/ RemediationAdvanced(f) \/ RemediationTaken(f)
    \/ RemediationJobRecorded(f) \/ RemediationEnded(f) \/ RemediationPREnsured(f)
    \/ RemediationStamped(f) \/ RemediationReported(f)

LEMMA SpawnerRemediation ==
    ASSUME IType, NEW f \in Findings, NEW g \in Findings,
           \/ SpawnAdmit(g) \/ SpawnRevive(g) \/ SpawnRetryAdmit(g)
           \/ SpawnDecide(g) \/ SpawnCreate(g) \/ SpawnCount(g)
    PROVE  RemediationStep(f)
<1>1. /\ rem \in Runs /\ spawn \in [Findings -> SpawnSteps] /\ fnd[f] \in Finding
      /\ fnd \in [Findings -> Finding]
  BY DEF IType, TypeOK, ClusterTypeOK, RemTypeOK, Runs
<1>2. ASSUME rem'[f] = rem[f], spawn'[f] = spawn[f], remW' = remW PROVE RemediationStep(f)
  BY <1>2 DEF RemediationStep, RemediationQuiet, SameRuns, SameMarks
<1>3. CASE SpawnAdmit(g) \/ SpawnRevive(g) \/ SpawnRetryAdmit(g)
  BY <1>2, <1>3 DEF SpawnAdmit, SpawnRevive, SpawnRetryAdmit, remVars
<1>4. CASE SpawnDecide(g)
  <2>1. CASE g = f
    <3>1. fnd[f].analysis = TRUE
      BY <1>1, <1>4, <2>1 DEF SpawnDecide, Finding
    <3> QED BY <1>1, <1>4, <2>1, <3>1, Zenon DEF SpawnDecide, cluster, RemediationStep, RemediationDecided
  <2>2. CASE g # f
    BY <1>1, <1>2, <1>4, <2>2 DEF SpawnDecide, cluster
  <2> QED BY <2>1, <2>2
<1>5. CASE SpawnCreate(g)
  <2> DEFINE n == spawn[g].attempt
  <2>1. /\ spawn[g] \in [step : {"create", "count"}, attempt : Attempts] /\ spawn[g].step = "create"
        /\ n \in Attempts
    BY <1>1, <1>5 DEF SpawnCreate, SpawnSteps, NoStep
  <2>2. spawn[g] = [step |-> "create", attempt |-> n]
    BY <2>1
  <2>3. spawn' = [spawn EXCEPT ![g].step = "count"] /\ UNCHANGED <<fnd, remW>>
    BY <1>5 DEF SpawnCreate
  <2>4. spawn'[g] = [spawn[g] EXCEPT !.step = "count"] /\ \A h \in Findings : h # g => spawn'[h] = spawn[h]
    BY <1>1, <2>3
  <2>5. spawn'[g] = [step |-> "count", attempt |-> n]
    BY <2>1, <2>2, <2>4
  <2>6. /\ rem[g][n].phase = "none" => rem' = [rem EXCEPT ![g][n].phase = "Pending"]
        /\ rem[g][n].phase # "none" => rem' = rem
    BY <1>5 DEF SpawnCreate
  <2> HIDE DEF n
  <2>7. /\ \A h \in Findings : h # g => rem'[h] = rem[h]
        /\ OnlyRun(rem[g], rem'[g], n) /\ SameMarks(rem[g][n], rem'[g][n])
        /\ rem'[g][n].phase = IF Exists(rem[g][n]) THEN rem[g][n].phase ELSE "Pending"
    <3>1. CASE rem[g][n].phase = "none"
      <4>1. rem[g][n] \in Run /\ rem[g] \in [Attempts -> Run]
        BY <1>1, <2>1 DEF Runs
      <4>2. /\ \A h \in Findings : h # g => rem'[h] = rem[h]
            /\ OnlyRun(rem[g], rem'[g], n)
            /\ rem'[g][n].phase = "Pending" /\ SameMarks(rem[g][n], rem'[g][n])
        BY <1>1, <2>1, <2>6, <3>1, <4>1 DEF OnlyRun, SameMarks, Runs, Run
      <4> QED BY <3>1, <4>2 DEF Exists
    <3>2. CASE rem[g][n].phase # "none"
      BY <2>6, <3>2 DEF OnlyRun, Exists, SameMarks
    <3> QED BY <3>1, <3>2
  <2>8. CASE g = f
    <3>1. RemediationCreated(f)
      BY <2>1, <2>2, <2>3, <2>5, <2>7, <2>8, Zenon DEF RemediationCreated
    <3> QED BY <3>1 DEF RemediationStep
  <2>9. CASE g # f
    BY <1>2, <2>3, <2>4, <2>7, <2>9
  <2> QED BY <2>8, <2>9
<1>6. CASE SpawnCount(g)
  <2>1. spawn' = [spawn EXCEPT ![g] = NoStep] /\ UNCHANGED <<rem, remW>> /\ spawn[g].step = "count"
    BY <1>6 DEF SpawnCount
  <2>2. CASE g = f
    <3> DEFINE att == spawn[f].attempt
               new == [fnd[f] EXCEPT !.attRem = att]
    <3>1. \/ fnd' = fnd /\ fnd[f].attRem >= att
          \/ ~(fnd[f].attRem >= att) /\ WriteFinding(f, new)
      BY <1>6, <2>2 DEF SpawnCount
    <3> HIDE DEF att
    <3>2. fnd'[f].attRem = IF fnd[f].attRem >= att THEN fnd[f].attRem ELSE att
      <4>1. CASE fnd' = fnd /\ fnd[f].attRem >= att
        BY <4>1
      <4>2. CASE ~(fnd[f].attRem >= att) /\ WriteFinding(f, new)
        <5>1. fnd'[f] = new /\ new.attRem = att
          BY <1>1, <4>2, Written DEF Finding
        <5> QED BY <4>2, <5>1
      <4> QED BY <3>1, <4>1, <4>2
    <3>3. spawn'[f] = NoStep
      BY <1>1, <2>1, <2>2
    <3> QED BY <2>1, <2>2, <3>2, <3>3 DEF RemediationStep, RemediationNumbered, att
  <2>3. CASE g # f
    BY <1>1, <1>2, <2>1, <2>3
  <2> QED BY <2>2, <2>3
<1> QED BY <1>3, <1>4, <1>5, <1>6

LEMMA WorkerRemediation ==
    ASSUME IType, NEW f \in Findings, NEW g \in Findings, NEW n \in Attempts,
           \/ RemGrant(g, n) \/ RemLaunch(g, n) \/ RemHoldForImage(g, n) \/ RemFail(g, n)
           \/ RemSandboxRefused(g, n) \/ RemHandOff(g, n) \/ RemPush(g, n)
           \/ /\ RemAdvance \/ RemRecordJob \/ RemEnsurePR \/ RemStamp \/ RemRecord \/ RemFinish
              /\ remW.f = g /\ remW.n = n
    PROVE  RemediationStep(f)
<1>1. /\ rem \in Runs /\ spawn \in [Findings -> SpawnSteps] /\ fnd[f] \in Finding
      /\ remW \in RemSteps
  BY DEF IType, TypeOK, ClusterTypeOK, RemTypeOK, Runs
<1>0. rem[g][n] \in Run /\ rem[g] \in [Attempts -> Run]
  BY <1>1 DEF Runs
<1>2. ASSUME g # f, rem'[f] = rem[f], spawn' = spawn,
             remW' = NoStep \/ remW'.f = g, remW = NoStep \/ remW.f = g
      PROVE  RemediationStep(f)
  BY <1>2 DEF RemediationStep, RemediationQuiet, SameRuns, SameMarks, RemOn
<1>3. CASE RemGrant(g, n)
  <2>1. /\ rem' = [rem EXCEPT ![g][n].phase = "Running"] /\ rem[g][n].phase = "Pending"
        /\ remW = NoStep /\ remW' = [step |-> "advance", f |-> g, n |-> n] /\ UNCHANGED <<fnd, spawn>>
    BY <1>3 DEF RemGrant
  <2>2. /\ \A h \in Findings : h # g => rem'[h] = rem[h]
        /\ OnlyRun(rem[g], rem'[g], n)
        /\ rem'[g][n].phase = "Running" /\ SameMarks(rem[g][n], rem'[g][n])
    BY <1>0, <1>1, <2>1 DEF OnlyRun, SameMarks, Runs, Run
  <2>3. CASE g = f
    <3>1. RemediationGranted(f)
      BY <2>1, <2>2, <2>3, Zenon DEF RemediationGranted
    <3> QED BY <3>1 DEF RemediationStep
  <2>4. CASE g # f
    BY <1>2, <2>1, <2>2, <2>4
  <2> QED BY <2>3, <2>4
<1>4. CASE RemLaunch(g, n) \/ RemPush(g, n)
  <2>1. PICK step \in {"recordJob", "ensurePR"} :
          /\ remW' = [step |-> step, f |-> g, n |-> n]
          /\ remW = NoStep /\ rem[g][n].phase = "Running" /\ UNCHANGED <<fnd, rem, spawn>>
    BY <1>4 DEF RemLaunch, RemPush, Launchable, Collectable, cluster
  <2>2. CASE g = f
    <3>1. RemediationTaken(f)
      BY <2>1, <2>2, Zenon DEF RemediationTaken
    <3> QED BY <3>1 DEF RemediationStep
  <2>3. CASE g # f
    BY <1>2, <2>1, <2>3
  <2> QED BY <2>2, <2>3
<1>5. CASE (RemAdvance \/ RemRecord \/ RemFinish \/ RemRecordJob) /\ remW.f = g /\ remW.n = n
  <2>1. remW' = NoStep /\ spawn' = spawn
    BY <1>5 DEF RemAdvance, RemRecord, RemFinish, RemRecordJob
  <2>2. CASE RemAdvance
    <3>1. UNCHANGED rem /\ remW.step = "advance"
      BY <2>2 DEF RemAdvance
    <3>2. CASE g = f
      <4> DEFINE moved == SetPhase(fnd[f], "Remediating")
                 run == [kind |-> "rem", n |-> remW.n]
                 new == [moved EXCEPT !.activeRun = run]
      <4>1. ASSUME fnd[f].phase = "Queued" PROVE fnd'[f].phase = "Remediating"
        <5>1. WriteFinding(f, new)
          BY <1>5, <2>2, <3>2, <4>1 DEF RemAdvance
        <5>2. moved \in Finding /\ moved.phase = "Remediating"
          BY <1>1, <4>1, SetPhaseFields DEF Phases, MovedTo
        <5>3. fnd'[f] = new
          BY <5>1, Written
        <5> HIDE DEF moved, run
        <5> QED BY <5>2, <5>3 DEF Finding
      <4>2. RemediationAdvanced(f)
        BY <1>5, <2>1, <3>1, <3>2, <4>1 DEF RemediationAdvanced
      <4> QED BY <4>2 DEF RemediationStep
    <3>3. CASE g # f
      BY <1>2, <1>5, <2>1, <3>1, <3>3
    <3> QED BY <3>2, <3>3
  <2>3. CASE RemRecord
    <3>1. UNCHANGED rem /\ remW.step = "record"
      BY <2>3 DEF RemRecord
    <3>2. CASE g = f
      <4> DEFINE cur == [fnd[f] EXCEPT !.pr = remW.pr, !.prState = "open", !.activeRun = NoRun]
                 moved == SetPhase(cur, "InReview")
                 new == IF cur.phase = "Remediating" THEN moved ELSE cur
      <4>1. WriteFinding(f, new)
        BY <1>5, <2>3, <3>2 DEF RemRecord
      <4>2. remW.pr \in Nat
        BY <1>1, <3>1, RemStepTypes
      <4>3. cur \in Finding /\ cur.phase = fnd[f].phase
        BY <1>1, <4>2, PullRecorded DEF SameLife
      <4>4. fnd'[f] = new
        BY <4>1, Written
      <4> HIDE DEF cur
      <4>5. cur.phase = "Remediating" => moved.phase = "InReview"
        BY <4>3, SetPhaseFields DEF MovedTo, Phases
      <4> HIDE DEF moved
      <4>6. RemediationReported(f)
        BY <1>5, <2>1, <3>1, <3>2, <4>3, <4>4, <4>5 DEF RemediationReported
      <4> QED BY <4>6 DEF RemediationStep
    <3>3. CASE g # f
      BY <1>2, <1>5, <2>1, <3>1, <3>3
    <3> QED BY <3>2, <3>3
  <2>4. CASE RemFinish
    <3>1. UNCHANGED rem /\ remW.step = "finish"
      BY <2>4 DEF RemFinish
    <3>2. CASE g = f
      <4> DEFINE moved == SetPhase(fnd[f], remW.to)
                 new == [moved EXCEPT !.activeRun = NoRun]
      <4>1. ASSUME fnd[f].phase = "Remediating" PROVE fnd'[f].phase # "Remediating"
        <5>1. WriteFinding(f, new)
          BY <1>5, <2>4, <3>2, <4>1 DEF RemFinish
        <5>2. remW.to \in Phases /\ remW.to # "Remediating"
          BY <1>1, <3>1, RemStepTypes DEF Phases
        <5>3. moved \in Finding /\ moved.phase = remW.to
          <6>1. fnd[f] \in Finding /\ remW.to \in Phases /\ fnd[f].phase # remW.to
            BY <1>1, <4>1, <5>2
          <6>2. moved \in Finding /\ MovedTo(fnd[f], moved, remW.to)
            BY <6>1, SetPhaseFields
          <6> HIDE DEF moved
          <6> QED BY <6>2 DEF MovedTo
        <5>4. fnd'[f] = new
          BY <5>1, Written
        <5> HIDE DEF moved
        <5> QED BY <5>2, <5>3, <5>4 DEF Finding
      <4>2. RemediationReported(f)
        BY <1>5, <2>1, <3>1, <3>2, <4>1 DEF RemediationReported
      <4> QED BY <4>2 DEF RemediationStep
    <3>3. CASE g # f
      BY <1>2, <1>5, <2>1, <3>1, <3>3
    <3> QED BY <3>2, <3>3
  <2>5. CASE RemRecordJob
    <3> DEFINE b == job["rem"][g][n].repoImage
    <3>1. rem' = [rem EXCEPT ![g][n].jobRef = TRUE, ![g][n].repoImage = b] /\ fnd' = fnd /\ remW.step = "recordJob"
      BY <1>5, <2>5 DEF RemRecordJob
    <3> HIDE DEF b
    <3>2. /\ \A h \in Findings : h # g => rem'[h] = rem[h]
          /\ OnlyRun(rem[g], rem'[g], n)
          /\ rem'[g][n].phase = rem[g][n].phase /\ SameMarks(rem[g][n], rem'[g][n])
      BY <1>0, <1>1, <3>1 DEF OnlyRun, SameMarks, Runs, Run
    <3>3. CASE g = f
      <4>1. SameRuns(rem[f], rem'[f])
        BY <3>2, <3>3 DEF SameRuns, OnlyRun, SameMarks
      <4> QED BY <1>5, <2>1, <3>1, <3>3, <4>1 DEF RemediationStep, RemediationJobRecorded
    <3>4. CASE g # f
      BY <1>2, <1>5, <2>1, <3>2, <3>4
    <3> QED BY <3>3, <3>4
  <2> QED BY <1>5, <2>2, <2>3, <2>4, <2>5
<1>6. CASE RemEnsurePR /\ remW.f = g /\ remW.n = n
  <2>1. PICK pr : /\ remW' = [step |-> "stamp", f |-> g, n |-> n, pr |-> pr]
                  /\ remW.step = "ensurePR" /\ UNCHANGED <<fnd, rem, spawn>>
    BY <1>6 DEF RemEnsurePR
  <2>2. remW' # NoStep /\ remW'.f = g /\ remW'.n = n /\ remW'.step = "stamp"
    BY <2>1 DEF NoStep
  <2>3. CASE g = f
    <3>1. RemediationPREnsured(f)
      BY <1>6, <2>1, <2>2, <2>3, Zenon DEF RemediationPREnsured, RemOn
    <3> QED BY <3>1 DEF RemediationStep
  <2>4. CASE g # f
    BY <1>2, <1>6, <2>1, <2>2, <2>4
  <2> QED BY <2>3, <2>4
<1>7. CASE RemStamp /\ remW.f = g /\ remW.n = n
  <2>1. /\ rem' = [rem EXCEPT ![g][n].phase = "Complete"]
        /\ remW' = [remW EXCEPT !.step = "record"] /\ remW.step = "stamp" /\ UNCHANGED <<fnd, spawn>>
    BY <1>7 DEF RemStamp
  <2>2. remW \in [step : {"stamp", "record"}, f : Findings, n : Attempts, pr : Nat]
    BY <1>1, <2>1 DEF RemSteps, NoStep
  <2>3. remW' # NoStep /\ remW'.f = g /\ remW'.n = n /\ remW'.step = "record"
    <3>1. remW'.f = remW.f /\ remW'.n = remW.n /\ remW'.step = "record"
      BY <2>1, <2>2
    <3> QED BY <1>7, <3>1 DEF NoStep
  <2>4. /\ \A h \in Findings : h # g => rem'[h] = rem[h]
        /\ OnlyRun(rem[g], rem'[g], n)
        /\ rem'[g][n].phase = "Complete" /\ SameMarks(rem[g][n], rem'[g][n])
    BY <1>0, <1>1, <2>1 DEF OnlyRun, SameMarks, Runs, Run
  <2>5. CASE g = f
    <3>1. RemediationStamped(f)
      BY <1>7, <2>1, <2>3, <2>4, <2>5, Zenon DEF RemediationStamped, RemOn
    <3> QED BY <3>1 DEF RemediationStep
  <2>6. CASE g # f
    BY <1>2, <1>7, <2>1, <2>3, <2>4, <2>6
  <2> QED BY <2>5, <2>6
<1>8. ASSUME NEW to, NEW pf, remW' = [step |-> "finish", f |-> g, n |-> n, to |-> to, pullFailed |-> pf],
             remW = NoStep, rem[g][n].phase = "Running", OnlyRun(rem[g], rem'[g], n),
             \A h \in Findings : h # g => rem'[h] = rem[h], UNCHANGED <<fnd, spawn>>,
             \/ /\ rem'[g][n].phase = "Complete" /\ SameMarks(rem[g][n], rem'[g][n])
                /\ to = "HandedOff"
             \/ /\ rem'[g][n].phase = "Failed"
                /\ rem'[g][n].held = TRUE /\ rem'[g][n].refused = rem[g][n].refused
                /\ to = "HandedOff"
             \/ /\ rem'[g][n].phase = "Failed"
                /\ rem'[g][n].refused = TRUE /\ rem'[g][n].held = rem[g][n].held
                /\ to = "Queued"
             \/ /\ rem'[g][n].phase = "Failed" /\ SameMarks(rem[g][n], rem'[g][n])
                /\ to \in {"Queued", "Failed"}
                /\ to = "Queued" => RemConsumed(g, n) < MaxAttempts
      PROVE  RemediationStep(f)
  <2>1. remW' # NoStep /\ remW'.f = g /\ remW'.n = n /\ remW'.step = "finish" /\ remW'.to = to
    BY <1>8 DEF NoStep
  <2>2. CASE g = f
    <3>1. RemOn(remW', f)
      BY <2>1, <2>2 DEF RemOn
    <3>2. \/ /\ rem'[f][n].phase = "Complete" /\ SameMarks(rem[f][n], rem'[f][n])
             /\ remW'.to = "HandedOff"
          \/ /\ rem'[f][n].phase = "Failed"
             /\ rem'[f][n].held = TRUE /\ rem'[f][n].refused = rem[f][n].refused
             /\ remW'.to = "HandedOff"
          \/ /\ rem'[f][n].phase = "Failed"
             /\ rem'[f][n].refused = TRUE /\ rem'[f][n].held = rem[f][n].held
             /\ remW'.to = "Queued"
          \/ /\ rem'[f][n].phase = "Failed" /\ SameMarks(rem[f][n], rem'[f][n])
             /\ remW'.to \in {"Queued", "Failed"}
             /\ remW'.to = "Queued" => RemConsumed(f, n) < MaxAttempts
      BY <1>8, <2>1, <2>2
    <3>3. RemediationEnded(f)
      BY <1>8, <2>1, <2>2, <3>1, <3>2, Zenon DEF RemediationEnded
    <3> QED BY <3>3 DEF RemediationStep
  <2>3. CASE g # f
    BY <1>2, <1>8, <2>1, <2>3
  <2> QED BY <2>2, <2>3
<1>9. CASE RemHoldForImage(g, n)
  <2>1. /\ rem' = [rem EXCEPT ![g][n].phase = "Failed", ![g][n].held = TRUE]
        /\ rem[g][n].phase = "Running" /\ remW = NoStep /\ UNCHANGED <<fnd, spawn>>
        /\ remW' = [step |-> "finish", f |-> g, n |-> n, to |-> "HandedOff", pullFailed |-> FALSE]
    BY <1>9 DEF RemHoldForImage, Launchable, Finish
  <2>2. /\ \A h \in Findings : h # g => rem'[h] = rem[h]
        /\ OnlyRun(rem[g], rem'[g], n)
        /\ rem'[g][n].phase = "Failed" /\ rem'[g][n].held = TRUE /\ rem'[g][n].refused = rem[g][n].refused
    BY <1>0, <1>1, <2>1 DEF OnlyRun, Runs, Run
  <2> QED BY <1>8, <2>1, <2>2
<1>10. CASE RemSandboxRefused(g, n)
  <2>1. /\ rem' = [rem EXCEPT ![g][n].phase = "Failed", ![g][n].refused = TRUE]
        /\ rem[g][n].phase = "Running" /\ remW = NoStep /\ UNCHANGED <<fnd, spawn>>
        /\ remW' = [step |-> "finish", f |-> g, n |-> n, to |-> "Queued", pullFailed |-> FALSE]
    BY <1>10 DEF RemSandboxRefused, Collectable, Finish
  <2>2. /\ \A h \in Findings : h # g => rem'[h] = rem[h]
        /\ OnlyRun(rem[g], rem'[g], n)
        /\ rem'[g][n].phase = "Failed" /\ rem'[g][n].refused = TRUE /\ rem'[g][n].held = rem[g][n].held
    BY <1>0, <1>1, <2>1 DEF OnlyRun, Runs, Run
  <2> QED BY <1>8, <2>1, <2>2
<1>11. CASE RemHandOff(g, n)
  <2>1. /\ rem' = [rem EXCEPT ![g][n].phase = "Complete"]
        /\ rem[g][n].phase = "Running" /\ remW = NoStep /\ UNCHANGED <<fnd, spawn>>
        /\ remW' = [step |-> "finish", f |-> g, n |-> n, to |-> "HandedOff", pullFailed |-> FALSE]
    BY <1>11 DEF RemHandOff, Collectable, Finish
  <2>2. /\ \A h \in Findings : h # g => rem'[h] = rem[h]
        /\ OnlyRun(rem[g], rem'[g], n)
        /\ rem'[g][n].phase = "Complete" /\ SameMarks(rem[g][n], rem'[g][n])
    BY <1>0, <1>1, <2>1 DEF OnlyRun, SameMarks, Runs, Run
  <2> QED BY <1>8, <2>1, <2>2
<1>12. CASE RemFail(g, n)
  <2> DEFINE to == AfterFailure(g, n)
  <2>1. PICK pf : remW' = [step |-> "finish", f |-> g, n |-> n, to |-> to, pullFailed |-> pf]
    BY <1>12 DEF RemFail, Finish
  <2>2. /\ rem' = [rem EXCEPT ![g][n].phase = "Failed"]
        /\ rem[g][n].phase = "Running" /\ remW = NoStep /\ UNCHANGED <<fnd, spawn>>
    BY <1>12 DEF RemFail, Launchable, Collectable
  <2>3. /\ \A h \in Findings : h # g => rem'[h] = rem[h]
        /\ OnlyRun(rem[g], rem'[g], n)
        /\ rem'[g][n].phase = "Failed" /\ SameMarks(rem[g][n], rem'[g][n])
    BY <1>0, <1>1, <2>2 DEF OnlyRun, SameMarks, Runs, Run
  <2>4. RemConsumed(g, n) \in Int
    <3>1. IsFiniteSet(1..(n - 1)) /\ n \in Int
      BY FS_Interval DEF Attempts
    <3>2. Cardinality({m \in 1..(n - 1) : rem[g][m].refused \/ rem[g][m].held}) \in Nat
      BY <3>1, FS_Subset, FS_CardinalityType
    <3> QED BY <3>1, <3>2 DEF RemConsumed
  <2>5. to \in {"Queued", "Failed"} /\ (to = "Queued" => RemConsumed(g, n) < MaxAttempts)
    BY <2>4, MaxAttemptsAssumption DEF AfterFailure
  <2> HIDE DEF to
  <2> QED BY <1>8, <2>1, <2>2, <2>3, <2>5
<1> QED BY <1>3, <1>4, <1>5, <1>6, <1>7, <1>9, <1>10, <1>11, <1>12

LEMMA RemediationSteps ==
    ASSUME IType, [Next]_vars, NEW f \in Findings
    PROVE  RemediationStep(f)
<1>1. ASSUME UNCHANGED <<rem, spawn>>, remW' = remW PROVE RemediationStep(f)
  BY <1>1 DEF RemediationStep, RemediationQuiet, SameRuns, SameMarks
<1>2. CASE Investigate
  <2>1. UNCHANGED remVars
    BY <1>2 DEF Investigate
  <2>2. UNCHANGED rem
    <3>1. ASSUME NEW g \in Findings, GateAdmit(g) \/ GateCreate(g) \/ GateAdvance(g) \/ GatePark(g) \/ GateRetryRevert(g)
          PROVE  UNCHANGED rem
      BY <3>1 DEF GateAdmit, GateCreate, GateAdvance, GatePark, GateRetryRevert, cluster
    <3>2. ASSUME NEW g \in Findings, NEW n \in Attempts, \/ InvGrant(g, n) \/ InvLaunch(g, n) \/ InvFail(g, n)
                                                          \/ InvSandboxRefused(g, n) \/ InvApply(g, n)
          PROVE  UNCHANGED rem
      BY <3>2 DEF InvGrant, InvLaunch, InvFail, InvSandboxRefused, InvApply
    <3>3. ASSUME InvRecordJob \/ InvRelease \/ InvRoute
          PROVE  UNCHANGED rem
      BY <3>3 DEF InvRecordJob, InvRelease, InvRoute
    <3> QED BY <1>2, <3>1, <3>2, <3>3 DEF Investigate, InvNext
  <2> QED BY <1>1, <2>1, <2>2 DEF remVars
<1>3. CASE Remediate
  <2>1. RemNext /\ remW \in RemSteps
    BY <1>3 DEF Remediate, IType, TypeOK, RemTypeOK
  <2>2. CASE RemAdvance \/ RemRecordJob \/ RemEnsurePR \/ RemStamp \/ RemRecord \/ RemFinish
    <3>1. remW # NoStep
      BY <2>2 DEF RemAdvance, RemRecordJob, RemEnsurePR, RemStamp, RemRecord, RemFinish, NoStep
    <3>2. remW.f \in Findings /\ remW.n \in Attempts
      BY <2>1, <3>1, RemStepTypes
    <3> QED BY <2>2, <3>2, WorkerRemediation, SMTT(30)
  <2>3. ASSUME NEW g \in Findings, NEW n \in Attempts, Observe(g, n) PROVE RemediationStep(f)
    BY <1>1, <2>3 DEF Observe, cluster
  <2> QED BY <2>1, <2>2, <2>3, WorkerRemediation, SpawnerRemediation DEF RemNext
<1>4. CASE Faults
  <2>1. /\ spawn \in [Findings -> SpawnSteps] /\ UNCHANGED rem
        /\ faults \in 0..MaxFaults
    BY <1>4, RunsKept DEF IType, TypeOK, RemTypeOK, ClusterTypeOK
  <2>2. faults' # faults
    BY <1>4, <2>1, MaxFaultsAssumption DEF Faults, InvFault, InvError, InvRestart, GateError,
                                          RemFault, RemError, RemRestart, SpawnError
  <2>3. /\ spawn'[f] \in {spawn[f], NoStep}
        /\ remW' \in {remW, NoStep}
    BY <1>4, <2>1 DEF Faults, InvFault, RemFault, RemError, RemRestart, SpawnError, remVars
  <2> QED BY <2>1, <2>2, <2>3 DEF RemediationStep, RemediationQuiet, SameRuns, SameMarks, RemOn
<1>5. CASE Integrate \/ People \/ Agents \/ UNCHANGED vars
  <2>1. UNCHANGED <<rem, remVars>>
    BY <1>5, RunsKept DEF Integrate, People, Agents, vars, cluster
  <2> QED BY <1>1, <2>1 DEF remVars
<1> QED BY <1>2, <1>3, <1>4, <1>5 DEF Next
==============================================================================
