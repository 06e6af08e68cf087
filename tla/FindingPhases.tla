--------------------------- MODULE FindingPhases ---------------------------
(***************************************************************************)
(* The Finding phases, the legal-edge table, and the human actions' gates:  *)
(* api/v1alpha1/transitions.go and internal/action/action.go as operators   *)
(* on a Finding record.                                                     *)
(*                                                                          *)
(* status.phaseTimes is kept as its phases, oldest first.  Timestamps are   *)
(* kept only as far as the code compares them: an approval or a retry is    *)
(* "fresh" when its time is strictly after status.completedAt (or there is  *)
(* no completedAt) and "stale" otherwise.  Times are stored to the second,  *)
(* so an action taken in the very second the finding completed is stale:    *)
(* Stamps is the set of outcomes the code's strict comparison can have.     *)
(***************************************************************************)
EXTENDS Naturals, Sequences, FiniteSets

Absent == ""

Phases == {"Opened", "Enhanced", "Investigating", "Queued", "AwaitingApproval",
           "Remediating", "InReview", "Remediated", "Failed", "Dismissed",
           "HandedOff"}

\* The legal-edge table.
transitions ==
    [p \in Phases \cup {Absent} |->
        CASE p = Absent             -> {"Opened"}
          [] p = "Opened"           -> {"Enhanced", "HandedOff"}
          [] p = "Enhanced"         -> {"Investigating", "HandedOff"}
          [] p = "Investigating"    -> {"Enhanced", "Queued", "AwaitingApproval",
                                        "Dismissed", "HandedOff", "Failed"}
          [] p = "Queued"           -> {"Remediating", "HandedOff"}
          [] p = "AwaitingApproval" -> {"Queued", "HandedOff"}
          [] p = "Remediating"      -> {"Queued", "InReview", "HandedOff", "Failed"}
          [] p = "InReview"         -> {"Remediated", "Failed", "HandedOff"}
          [] p = "Remediated"       -> {}
          [] p = "Failed"           -> {"Enhanced", "Queued"}
          [] p = "Dismissed"        -> {"HandedOff"}
          [] p = "HandedOff"        -> {"Queued"}]

terminal == {"Remediated", "Failed", "Dismissed", "HandedOff"}

CanTransition(from, to) == from = to \/ to \in transitions[from]

Stamps == {"none", "stale", "fresh"}

\* What a stamp is worth once the finding completes after it.
Outdate(stamp) == IF stamp = "none" THEN "none" ELSE "stale"

\* The lifecycle half of a Finding.  prior and revived are what the code reads
\* back from status.phaseTimes: the last entry that is not Failed, and whether
\* any entry is HandedOff or Failed.  status.completedAt is set exactly in the
\* terminal phases.
Lifecycles == [phase : Phases \cup {Absent}, prior : Phases \cup {Absent},
               revived : BOOLEAN, approval : Stamps, retry : Stamps]

NewLifecycle == [phase |-> Absent, prior |-> Absent, revived |-> FALSE,
                 approval |-> "none", retry |-> "none"]

\* SetPhase after its legality check (CanTransition), which refuses an illegal
\* edge with an error and no write; ImplementsLifecycle shows no caller meets it.
SetPhase(f, to) ==
    IF f.phase = to THEN f
    ELSE [f EXCEPT !.phase    = to,
                   !.prior    = IF to = "Failed" THEN @ ELSE to,
                   !.revived  = @ \/ to \in {"HandedOff", "Failed"},
                   !.approval = IF to \in terminal THEN Outdate(@) ELSE @,
                   !.retry    = IF to \in terminal THEN Outdate(@) ELSE @]

\* Mutants of RetryTarget: a closed pull request has no way back; every failure
\* starts over.
RetryTarget_NoReview(f) ==
    CASE f.phase = "Failed" /\ f.prior = "Investigating" -> "Enhanced"
      [] f.phase = "Failed" /\ f.prior = "Remediating"   -> "Queued"
      [] OTHER                                           -> Absent

RetryTarget_StartOver(f) == IF f.phase = "Failed" THEN "Enhanced" ELSE Absent

\* The phase a Failed finding recovers to when a human retries it.
RetryTarget(f) ==
    CASE f.phase = "Failed" /\ f.prior = "Investigating"              -> "Enhanced"
      [] f.phase = "Failed" /\ f.prior \in {"Remediating", "InReview"} -> "Queued"
      [] OTHER                                                        -> Absent

RetryRequested(f) ==
    f.retry # "none" /\ (f.phase \notin terminal \/ f.retry = "fresh")

\* An approval newer than the hand-off it follows.
ApprovalNewer(f) ==
    f.approval # "none" /\ (f.phase \notin terminal \/ f.approval = "fresh")

-----------------------------------------------------------------------------
(* The human actions.  Each is a gate and the spec write it guards; stamp is *)
(* how the new timestamp compares with completedAt.                          *)

staleApproval(f) == f.phase = "HandedOff" /\ f.approval = "stale"

CanApprove(f) ==
    /\ f.phase \in {"AwaitingApproval", "HandedOff"}
    /\ f.approval = "none" \/ staleApproval(f)

applyApprove(f, stamp) == [f EXCEPT !.approval = stamp]

CanRetry(f) == RetryTarget(f) # Absent /\ ~RetryRequested(f)

applyRetry(f, stamp) == [f EXCEPT !.retry = stamp]

\* Outside a terminal phase there is no completedAt to be older than.
StampsFor(f) == IF f.phase \in terminal THEN {"stale", "fresh"} ELSE {"fresh"}
=============================================================================
