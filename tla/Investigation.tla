--------------------------- MODULE Investigation ---------------------------
(***************************************************************************)
(* investigation-controller.  GateReconciler admits Enhanced findings and   *)
(* opens their next Investigation (one worker per finding); Investigation-  *)
(* Reconciler grants slots, launches the agent Job and applies its result   *)
(* (one worker).  A worker's local state is the rest of the reconcile it is *)
(* in, between the API writes the code makes one after the other.           *)
(***************************************************************************)
EXTENDS Cluster

CONSTANT MaxInvestigations    \* --max-concurrent-investigations

ASSUME MaxInvestigationsAssumption == MaxInvestigations \in Nat \ {0}

VARIABLES gate,   \* gate[f]: the gate's reconcile of f
          invW    \* the investigation worker's reconcile

invVars == <<gate, invW>>

Idle == [step |-> "idle"]

GateSteps == {Idle} \cup [step : {"create", "advance"}, attempt : Attempts]

InvSteps ==
    {Idle} \cup [step : {"recordJob"}, f : Findings, n : Attempts]
           \cup [step : {"release"}, f : Findings, n : Attempts, to : {"Enhanced", "Failed"},
                 pullFailed : BOOLEAN]
           \cup [step : {"route"}, f : Findings, n : Attempts,
                 to : {"Dismissed", "AwaitingApproval", "Queued", "HandedOff"}]

InvTypeOK == gate \in [Findings -> GateSteps] /\ invW \in InvSteps

InvInit == gate = [f \in Findings |-> Idle] /\ invW = Idle

-----------------------------------------------------------------------------
(* GateReconciler                                                            *)

\* The latest attempt whose agent ran is not in flight (refused attempts are
\* passed over).
PreviousSettled(f) ==
    \A n \in 1..fnd[f].attInv :
        (\A m \in (n + 1)..fnd[f].attInv : inv[f][m].refused) => ~InFlight(inv[f][n])

\* The gate reads an Enhanced finding whose Repository is ready and decides to
\* open its next attempt.  The waits (accumulation window, minimum age,
\* Repository not ready) are the time before this step.
GateAdmit(f) ==
    /\ gate[f] = Idle
    /\ fnd[f].phase = "Enhanced" /\ ~fnd[f].suspend
    /\ PreviousSettled(f)
    /\ fnd[f].attInv < MaxRuns
    /\ gate' = [gate EXCEPT ![f] = [step |-> "create", attempt |-> fnd[f].attInv + 1]]
    /\ UNCHANGED <<cluster, invW>>

\* Mutant of GateCreate: generated names, so a second create makes a second child.
GateCreate_FreshName(f) ==
    /\ gate[f].step = "create"
    /\ \E n \in Attempts :
          /\ inv[f][n].phase = "none" /\ \A m \in 1..(n - 1) : inv[f][m].phase # "none"
          /\ inv' = [inv EXCEPT ![f][n].phase = "Pending"]
    /\ gate' = [gate EXCEPT ![f].step = "advance"]
    /\ UNCHANGED <<fnd, rem, job, prs, breaker, faults, invW>>

\* openInvestigation, first write: the deterministic child name is the lease.
GateCreate(f) ==
    /\ gate[f].step = "create"
    /\ inv' = IF inv[f][gate[f].attempt].phase = "none"
              THEN [inv EXCEPT ![f][gate[f].attempt].phase = "Pending"]
              ELSE inv
    /\ gate' = [gate EXCEPT ![f].step = "advance"]
    /\ UNCHANGED <<fnd, rem, job, prs, breaker, faults, invW>>

\* openInvestigation, second write: Enhanced to Investigating, unless raced.
GateAdvance(f) ==
    /\ gate[f].step = "advance"
    /\ IF fnd[f].phase = "Enhanced"
       THEN WriteFinding(f, [SetPhase(fnd[f], "Investigating") EXCEPT
                                !.attInv = gate[f].attempt,
                                !.activeRun = [kind |-> "inv", n |-> gate[f].attempt]])
       ELSE fnd' = fnd
    /\ gate' = [gate EXCEPT ![f] = Idle]
    /\ UNCHANGED <<inv, rem, job, prs, breaker, faults, invW>>

\* park with handOff: no repository, or its artifact is stalled.
GatePark(f) ==
    /\ gate[f] = Idle
    /\ fnd[f].phase = "Enhanced" /\ ~fnd[f].suspend
    /\ WriteFinding(f, SetPhase(fnd[f], "HandedOff"))
    /\ UNCHANGED <<inv, rem, job, prs, breaker, faults, invVars>>

\* retryRevert: a human's retry of a failed investigation.
GateRetryRevert(f) ==
    /\ gate[f] = Idle
    /\ fnd[f].phase = "Failed" /\ ~fnd[f].suspend
    /\ RetryRequested(fnd[f]) /\ RetryTarget(fnd[f]) = "Enhanced"
    /\ WriteFinding(f, SetPhase(fnd[f], "Enhanced"))
    /\ UNCHANGED <<inv, rem, job, prs, breaker, faults, invVars>>

-----------------------------------------------------------------------------
(* InvestigationReconciler                                                   *)

InvRunning == {r \in Findings \X Attempts : inv[r[1]][r[2]].phase = "Running"}

\* Mutant of InvGrant: one slot too few.
InvGrant_OneShort(f, n) ==
    /\ invW = Idle
    /\ inv[f][n].phase = "Pending"
    /\ Cardinality(InvRunning) < MaxInvestigations - 1
    /\ inv' = [inv EXCEPT ![f][n].phase = "Running"]
    /\ UNCHANGED <<fnd, rem, job, prs, breaker, faults, invVars>>

\* schedule and grant: a free slot goes to a pending run.
InvGrant(f, n) ==
    /\ invW = Idle
    /\ inv[f][n].phase = "Pending"
    /\ Cardinality(InvRunning) < MaxInvestigations
    /\ inv' = [inv EXCEPT ![f][n].phase = "Running"]
    /\ UNCHANGED <<fnd, rem, job, prs, breaker, faults, invVars>>

\* launch: the Job is created first, and the JobRef recorded after.
InvLaunch(f, n) ==
    /\ invW = Idle
    /\ inv[f][n].phase = "Running" /\ ~inv[f][n].jobRef
    /\ CreateJob("inv", f, n, Pin("inv", f))
    /\ invW' = [step |-> "recordJob", f |-> f, n |-> n]
    /\ UNCHANGED <<fnd, inv, rem, prs, breaker, faults, gate>>

InvRecordJob ==
    /\ invW.step = "recordJob"
    /\ inv' = [inv EXCEPT ![invW.f][invW.n].jobRef = TRUE,
                          ![invW.f][invW.n].repoImage = job["inv"][invW.f][invW.n].repoImage]
    /\ invW' = Idle
    /\ UNCHANGED <<fnd, rem, job, prs, breaker, faults, gate>>

\* consumedAttempts: the attempt's number less the earlier refused ones.
InvConsumed(f, n) == n - Cardinality({m \in 1..(n - 1) : inv[f][m].refused})

\* stampChild, the first of the two writes that settle a run.
InvStamp(f, n, phase) == inv' = [inv EXCEPT ![f][n].phase = phase]

\* collect: the finished Job of a granted run.
InvCollectable(f, n) ==
    invW = Idle /\ inv[f][n].phase = "Running" /\ inv[f][n].jobRef

\* Mutant of InvFail: one attempt over the budget.
InvFail_OneMore(f, n) ==
    /\ InvCollectable(f, n)
    /\ job["inv"][f][n].state \in {"gone", "bad", "pullFailed"}
    /\ InvStamp(f, n, "Failed")
    /\ invW' = [step |-> "release", f |-> f, n |-> n,
                to |-> IF InvConsumed(f, n) > MaxAttempts THEN "Failed" ELSE "Enhanced",
                pullFailed |-> job["inv"][f][n].state = "pullFailed"]
    /\ UNCHANGED <<fnd, rem, job, prs, breaker, faults, gate>>

\* fail: no usable result.  Attempts left send the finding back to Enhanced.
InvFail(f, n) ==
    /\ InvCollectable(f, n)
    /\ job["inv"][f][n].state \in {"gone", "bad", "pullFailed"}
    /\ InvStamp(f, n, "Failed")
    /\ invW' = [step |-> "release", f |-> f, n |-> n,
                to |-> IF InvConsumed(f, n) >= MaxAttempts THEN "Failed" ELSE "Enhanced",
                pullFailed |-> job["inv"][f][n].state = "pullFailed"]
    /\ UNCHANGED <<fnd, rem, job, prs, breaker, faults, gate>>

\* sandboxRefused: the breaker trips, and the attempt is not counted.
InvSandboxRefused(f, n) ==
    /\ InvCollectable(f, n)
    /\ job["inv"][f][n].state = "refused"
    /\ breaker' = [breaker EXCEPT !["inv"] = TRUE]
    /\ inv' = [inv EXCEPT ![f][n].phase = "Failed", ![f][n].refused = TRUE]
    /\ invW' = [step |-> "release", f |-> f, n |-> n, to |-> "Enhanced", pullFailed |-> FALSE]
    /\ UNCHANGED <<fnd, rem, job, prs, faults, gate>>

\* route: where a verdict sends the finding.  An ignore verdict from the
\* repository's own image is not trusted to dismiss it.
Route(f, n, verdict) ==
    CASE verdict = "ignore" /\ ~inv[f][n].repoImage -> "Dismissed"
      [] verdict = "hold"                           -> "AwaitingApproval"
      [] verdict = "remediate"                      -> "Queued"
      [] OTHER                                      -> "HandedOff"

\* apply: a verdict.  The child is stamped, the finding routed after.
InvApply(f, n) ==
    /\ InvCollectable(f, n)
    /\ job["inv"][f][n].state \in InvEnds \ {"bad"}
    /\ InvStamp(f, n, "Complete")
    /\ invW' = [step |-> "route", f |-> f, n |-> n,
                to |-> Route(f, n, job["inv"][f][n].state)]
    /\ UNCHANGED <<fnd, rem, job, prs, breaker, faults, gate>>

\* Mutant of InvRelease: the finding's phase is not read again.
InvRelease_Blind ==
    /\ invW.step = "release"
    /\ WriteFinding(invW.f, [SetPhase(fnd[invW.f], invW.to) EXCEPT !.activeRun = NoRun])
    /\ job' = job
    /\ invW' = Idle
    /\ UNCHANGED <<inv, rem, prs, breaker, faults, gate>>

\* release: out of Investigating, if the finding is still there; a run whose
\* image could not be pulled then has its Job deleted.
InvRelease ==
    /\ invW.step = "release"
    /\ LET cur == fnd[invW.f] IN
       IF cur.phase = "Investigating"
       THEN WriteFinding(invW.f, [SetPhase(cur, invW.to) EXCEPT !.activeRun = NoRun])
       ELSE fnd' = fnd
    /\ job' = IF invW.pullFailed
              THEN [job EXCEPT !["inv"][invW.f][invW.n].state = "gone"] ELSE job
    /\ invW' = Idle
    /\ UNCHANGED <<inv, rem, prs, breaker, faults, gate>>

\* The finding write of apply: the analysis is recorded in any phase, the
\* phase moves only from Investigating.
InvRoute ==
    /\ invW.step = "route"
    /\ LET cur == [fnd[invW.f] EXCEPT !.analysis = TRUE, !.activeRun = NoRun] IN
       WriteFinding(invW.f, IF cur.phase = "Investigating" THEN SetPhase(cur, invW.to) ELSE cur)
    /\ invW' = Idle
    /\ UNCHANGED <<inv, rem, job, prs, breaker, faults, gate>>

InvNext ==
    \/ \E f \in Findings :
          \/ GateAdmit(f) \/ GateCreate(f) \/ GateAdvance(f) \/ GatePark(f) \/ GateRetryRevert(f)
          \/ \E n \in Attempts :
                InvGrant(f, n) \/ InvLaunch(f, n) \/ InvFail(f, n)
                \/ InvSandboxRefused(f, n) \/ InvApply(f, n)
    \/ InvRecordJob \/ InvRelease \/ InvRoute

-----------------------------------------------------------------------------
(* Faults                                                                    *)

\* An API write of the gate fails for good: the reconcile returns its error,
\* and the next one starts from what is on the server.
GateError(f) ==
    /\ gate[f] # Idle /\ faults < MaxFaults
    /\ gate' = [gate EXCEPT ![f] = Idle]
    /\ faults' = faults + 1
    /\ UNCHANGED <<fnd, inv, rem, job, prs, breaker, invW>>

InvError ==
    /\ invW # Idle /\ faults < MaxFaults
    /\ invW' = Idle
    /\ faults' = faults + 1
    /\ UNCHANGED <<fnd, inv, rem, job, prs, breaker, gate>>

\* The process restarts: every reconcile under way is lost, and so is the
\* breaker, which lives in memory.
InvRestart ==
    /\ faults < MaxFaults
    /\ breaker["inv"] \/ invW # Idle \/ \E f \in Findings : gate[f] # Idle
    /\ gate' = [f \in Findings |-> Idle] /\ invW' = Idle
    /\ breaker' = [breaker EXCEPT !["inv"] = FALSE]
    /\ faults' = faults + 1
    /\ UNCHANGED <<fnd, inv, rem, job, prs>>

InvFault == InvError \/ InvRestart \/ \E f \in Findings : GateError(f)
=============================================================================
