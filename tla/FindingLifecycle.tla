-------------------------- MODULE FindingLifecycle --------------------------
(***************************************************************************)
(* What the Finding API promises of every Finding, whichever controller     *)
(* writes it: phases move only along the legal-edge table, a Failed finding *)
(* recovers only on a retry asked after it failed and only to the stage     *)
(* that failed, a HandedOff finding is revived only by an approval given    *)
(* after the hand-off, and each such request is spent by the recovery it    *)
(* causes.  FindingPipeline, the controllers' own steps, implements it.     *)
(***************************************************************************)
EXTENDS FindingPhases

CONSTANT Findings

VARIABLE lifecycle     \* each Finding's lifecycle record

Init == lifecycle = [f \in Findings |-> NewLifecycle]

\* A controller moves the finding along a legal edge, with the human request
\* the edge needs.
Move(f, to) ==
    LET cur == lifecycle[f] IN
    /\ CanTransition(cur.phase, to) /\ to # cur.phase
    /\ cur.phase = "Failed" => RetryRequested(cur) /\ to = RetryTarget(cur)
    /\ cur.phase = "HandedOff" => ApprovalNewer(cur)
    /\ cur.phase = "AwaitingApproval" /\ to = "Queued" => cur.approval # "none"
    /\ lifecycle' = [lifecycle EXCEPT ![f] = SetPhase(cur, to)]

Approve(f) ==
    /\ CanApprove(lifecycle[f])
    /\ \E stamp \in StampsFor(lifecycle[f]) :
           lifecycle' = [lifecycle EXCEPT ![f] = applyApprove(@, stamp)]

Retry(f) ==
    /\ CanRetry(lifecycle[f])
    /\ \E stamp \in StampsFor(lifecycle[f]) :
           lifecycle' = [lifecycle EXCEPT ![f] = applyRetry(@, stamp)]

Next == \E f \in Findings :
            \/ \E to \in Phases : Move(f, to)
            \/ Approve(f)
            \/ Retry(f)

Spec == Init /\ [][Next]_lifecycle

-----------------------------------------------------------------------------
TypeOK == lifecycle \in [Findings -> Lifecycles]

\* Every Failed finding can be retried: its history names the stage to go back
\* to (RetryTarget never answers "" for a finding that really failed).
FailedIsRetryable ==
    \A f \in Findings : lifecycle[f].phase = "Failed" => RetryTarget(lifecycle[f]) # Absent

\* A finding past its verdict is never investigated again: whatever fails,
\* is handed off, retried or revived afterwards, recovery stays on the
\* remediation side (RetryTarget sends a failed remediation or review to
\* Queued), so what a human approved is what is remediated.
Forward ==
    \A f \in Findings :
       lifecycle[f].prior \in {"Queued", "AwaitingApproval", "Remediating", "InReview",
                               "Remediated", "Dismissed", "HandedOff"}
       => lifecycle'[f].phase \notin {"Opened", "Enhanced", "Investigating"}
NeverReinvestigated == [][Forward]_lifecycle
=============================================================================
