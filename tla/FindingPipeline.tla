-------------------------- MODULE FindingPipeline --------------------------
(***************************************************************************)
(* The finding pipeline: investigation-, remediation- and integration-      *)
(* controller, the agent Jobs and people, over the objects they share.      *)
(***************************************************************************)
EXTENDS Investigation, Remediation, Integration

vars == <<cluster, invVars, remVars, asks>>

Init == ClusterInit /\ InvInit /\ RemInit /\ asks = 0

Investigate == InvNext /\ UNCHANGED <<remVars, asks>>
Remediate == RemNext /\ UNCHANGED <<invVars, asks>>
Integrate == IntegrationNext /\ UNCHANGED <<invVars, remVars>>
People == PeopleNext /\ UNCHANGED <<invVars, remVars>>

Agents ==
    /\ \E k \in Kinds, f \in Findings, n \in Attempts : JobEnds(k, f, n) \/ JobVanishes(k, f, n)
    /\ UNCHANGED <<invVars, remVars, asks>>

Faults ==
    \/ InvFault /\ UNCHANGED <<remVars, asks>>
    \/ RemFault /\ UNCHANGED <<invVars, asks>>

Next == Investigate \/ Remediate \/ Integrate \/ People \/ Agents \/ Faults

Spec == Init /\ [][Next]_vars

(* The scheduling the code justifies: every controller's queue is re-filled by *)
(* watches, by the scheduler's five-minute tick and by the informers' resync,  *)
(* so a step that stays possible is taken; agent Jobs carry a deadline, so     *)
(* they end; a pending close is looked at again until it is settled.  Nothing  *)
(* is assumed of people, of GitHub's deliveries or of faults.                  *)
JobDeadlines ==
    /\ \E k \in Kinds, f \in Findings, n \in Attempts : JobEnds(k, f, n)
    /\ UNCHANGED <<invVars, remVars, asks>>

ReviewRechecks ==
    /\ \E f \in Findings : SettleReview(f)
    /\ UNCHANGED <<invVars, remVars>>

Fairness == /\ WF_vars(Investigate)
            /\ WF_vars(Remediate)
            /\ WF_vars(JobDeadlines)
            /\ WF_vars(ReviewRechecks)

FairSpec == Spec /\ Fairness

-----------------------------------------------------------------------------
(* Invariants                                                                *)

\* Types; and the pull request a finding records is one that was opened.
TypeOK ==
    /\ ClusterTypeOK /\ InvTypeOK /\ RemTypeOK /\ asks \in 0..MaxAsks
    /\ \A f \in Findings : fnd[f].pr \in 0..Len(prs[f])

\* At most one Investigation of a finding is unsettled, whatever the gate's
\* reconciles interleave with or die between: the child's deterministic name
\* is the lease (openInvestigation).
OneInvestigation ==
    \A f \in Findings, m, n \in Attempts :
        InFlight(inv[f][m]) /\ InFlight(inv[f][n]) => m = n

\* At most one Remediation of a finding is unsettled (spawn: "a Pending or
\* Running child must not breed a sibling").
OneRemediation ==
    \A f \in Findings, m, n \in Attempts :
        InFlight(rem[f][m]) /\ InFlight(rem[f][n]) => m = n

\* The attempts of a finding whose agent was not refused stay within
\* --max-attempts until the finding failed for it once (after which only a
\* human's retry adds one).
InvestigationBudget ==
    \A f \in Findings, n \in Attempts :
        inv[f][n].phase # "none"
            /\ Cardinality({m \in 1..n : ~inv[f][m].refused}) > MaxAttempts
        => fnd[f].revived

\* The same for remediations, where a held attempt does not count either.
RemediationBudget ==
    \A f \in Findings, n \in Attempts :
        rem[f][n].phase # "none"
            /\ Cardinality({m \in 1..n : ~rem[f][m].refused /\ ~rem[f][m].held}) > MaxAttempts
        => fnd[f].revived

\* The sandbox probe refuses a finding's image once per life of the process:
\* the breaker sends the next launch elsewhere ("so the retry cannot loop").
RefusedOnce ==
    \A f \in Findings : /\ Cardinality({n \in Attempts : inv[f][n].refused}) <= 1 + faults
                        /\ Cardinality({n \in Attempts : rem[f][n].refused}) <= 1 + faults

\* While a finding is Investigating or Remediating, its status names the run
\* that is doing it, and that run exists and was granted (or, investigating,
\* is the attempt last counted).
ActiveRunNamed ==
    \A f \in Findings :
        /\ fnd[f].phase = "Investigating" =>
              /\ fnd[f].activeRun = [kind |-> "inv", n |-> fnd[f].attInv]
              /\ inv[f][fnd[f].attInv].phase # "none"
        /\ fnd[f].phase = "Remediating" =>
              /\ fnd[f].activeRun.kind = "rem"
              /\ rem[f][fnd[f].activeRun.n].phase \notin {"none", "Pending"}

\* A finding is not left behind by its investigation: once the run is settled
\* the worker is about to release or route the finding (fail: never "Failed
\* with the finding unreleased").
InvestigationReleases ==
    \A f \in Findings :
        fnd[f].phase = "Investigating" /\ Settled(inv[f][fnd[f].attInv]) =>
            invW.step \in {"release", "route"} /\ invW.f = f

\* The same for the remediation a Remediating finding names.
RemediationReleases ==
    \A f \in Findings :
        fnd[f].phase = "Remediating" /\ Settled(rem[f][fnd[f].activeRun.n]) =>
            remW.step \in {"finish", "record"} /\ remW.f = f

\* A remediation that succeeded is followed by another attempt only after the
\* finding was handed off or failed since, which takes a human to undo (spawn:
\* "Complete with the finding back in Queued via revival/retry").
SuccessorNeedsRequest ==
    \A f \in Findings, n \in Attempts \ {1} :
        rem[f][n].phase # "none" /\ rem[f][n - 1].phase = "Complete" => fnd[f].revived

\* A close waits to be settled only while the finding is in review.
PendingCloseInReview ==
    \A f \in Findings : fnd[f].closePending # "none" => fnd[f].phase = "InReview"

\* A Remediated finding's recorded pull request was merged.
RemediatedIsMerged ==
    \A f \in Findings :
        fnd[f].phase = "Remediated" => fnd[f].pr > 0 /\ prs[f][fnd[f].pr] = "merged"

-----------------------------------------------------------------------------
(* Action properties                                                         *)

\* A run held for want of the repository's image hands its finding to a human
\* (holdForImage: "the finding is handed to a human").
HoldHandsOff ==
    [][\A f \in Findings :
          remW.step = "finish" /\ remW.f = f /\ rem[f][remW.n].held /\ faults' = faults
              /\ remW' # remW
          => fnd'[f].phase = "HandedOff"]_vars

\* A suspended finding gets no remediation slot (docs/labels.md: "halts
\* pipeline progress until cleared").
SuspendHalts ==
    [][\A f \in Findings, n \in Attempts :
          fnd[f].suspend /\ rem[f][n].phase = "Pending" => rem'[f][n].phase = "Pending"]_vars

\* No pull request is opened for a finding a human took over (docs/labels.md:
\* "a person can always pull a finding out of the machine's hands").
HandedOffOpensNoPR ==
    [][\A f \in Findings : fnd[f].phase = "HandedOff" => Len(prs'[f]) = Len(prs[f])]_vars

-----------------------------------------------------------------------------
(* Refinement                                                                *)

Lifecycle(f) == [phase |-> fnd[f].phase, prior |-> fnd[f].prior, revived |-> fnd[f].revived,
                 approval |-> fnd[f].approval, retry |-> fnd[f].retry]

Abstract == INSTANCE FindingLifecycle WITH lifecycle <- [f \in Findings |-> Lifecycle(f)]

\* Every step of every controller, in any interleaving and with any reconcile
\* cut short, is a step FindingLifecycle allows: no handler ever asks SetPhase
\* for an illegal edge, and recoveries happen only on a fresh human request.
ImplementsLifecycle == Abstract!Spec

\* So what every behaviour of the lifecycle keeps, the pipeline keeps: the
\* stages its reconciles fail in are those RetryTarget finds again, and what is
\* retried or revived, in whatever order writes land, stays past its verdict.
FailedIsRetryable == Abstract!FailedIsRetryable
NeverReinvestigated == Abstract!NeverReinvestigated

-----------------------------------------------------------------------------
(* Liveness                                                                  *)

\* Every run is settled in the end, granted a slot first if it waits for one.
RunsSettle ==
    \A f \in Findings, n \in Attempts :
        /\ InFlight(inv[f][n]) ~> Settled(inv[f][n])
        /\ InFlight(rem[f][n]) ~> Settled(rem[f][n])

\* A finding does not stay Remediating: its run moves it on.
RemediatingEnds ==
    \A f \in Findings : fnd[f].phase = "Remediating" ~> fnd[f].phase # "Remediating"

\* A retry asked after a failure, and an approval given after a hand-off with
\* an analysis, take the finding back, unless somebody suspends it.
RequestsHonoured ==
    \A f \in Findings :
        /\ fnd[f].phase = "Failed" /\ RetryRequested(fnd[f])
              ~> fnd[f].phase # "Failed" \/ fnd[f].suspend
        /\ fnd[f].phase = "HandedOff" /\ ApprovalNewer(fnd[f]) /\ fnd[f].analysis
              ~> fnd[f].phase # "HandedOff" \/ fnd[f].suspend

\* A close seen in review is settled one way or the other.
ClosesSettle == \A f \in Findings : fnd[f].closePending # "none" ~> fnd[f].closePending = "none"
=============================================================================
