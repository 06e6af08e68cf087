---------------------------- MODULE Integration ----------------------------
(***************************************************************************)
(* integration-controller's signal handlers and the people behind them: the *)
(* tracking issue and pull request deliveries (webhooks.go), the settlement *)
(* of a close seen in review (review.go), ingest of a new finding, and the  *)
(* human actions (internal/action); plus context-controller's one edge.     *)
(*                                                                          *)
(* GitHub delivers late, twice, out of order or never.  A closed pull       *)
(* request's delivery may therefore arrive at any time after the close, any *)
(* number of times; issue events are people's, and bounded with them.       *)
(***************************************************************************)
EXTENDS Cluster

CONSTANT MaxAsks      \* bound: actions people take (issue events included)

ASSUME MaxAsksAssumption == MaxAsks \in Nat

VARIABLE asks         \* actions taken so far

-----------------------------------------------------------------------------
(* The handlers, as what each makes of the Finding it reads                  *)

\* issues, action closed.
IssueClosed(f) ==
    LET cur == [f EXCEPT !.tracking = "closed"] IN
    CASE cur.phase = "InReview"     -> [cur EXCEPT !.closePending = "issue"]
      [] cur.phase \notin terminal \cup {"InReview"} -> SetPhase(cur, "HandedOff")
      [] OTHER                      -> cur

\* issues, action reopened.
IssueReopened(f) ==
    LET cur == [f EXCEPT !.tracking = "open"] IN
    IF cur.phase = "Dismissed" THEN SetPhase(cur, "HandedOff") ELSE cur

\* Mutant of Settle: the pending close is left behind.
Settle_KeepsPending(f, state) ==
    SetPhase([f EXCEPT !.prState = state], IF state = "merged" THEN "Remediated" ELSE "Failed")

\* prClose.settle: the recorded pull request's outcome is the finding's.
Settle(f, state) ==
    SetPhase([f EXCEPT !.closePending = "none", !.prState = state],
             IF state = "merged" THEN "Remediated" ELSE "Failed")

\* Mutant of PullRequest: the branch name alone is proof.
PullRequest_ByBranch(f, number, state, sameRepo) ==
    IF f.phase = "InReview" /\ sameRepo THEN Settle(f, state) ELSE f

\* pullRequest: only the recorded one settles a finding in review; the same
\* number in another repository is kept pending, unless a close already is.
PullRequest(f, number, state, sameRepo) ==
    CASE f.phase # "InReview" \/ f.pr # number -> f
      [] f.phase = "InReview" /\ f.pr = number /\ sameRepo -> Settle(f, state)
      [] OTHER -> IF f.closePending = "none" THEN [f EXCEPT !.closePending = "repo"] ELSE f

\* Mutant of SettlePendingClose: only a closed pull request settles anything.
SettlePendingClose_NeedsPR(f, pr, issue) ==
    IF pr \in {"closed", "merged"} THEN Settle(f, pr) ELSE f

\* settlePendingClose: pr is the recorded pull request as GitHub reports it
\* ("none": unreadable), issue the tracking issue's state ("": not read).
SettlePendingClose(f, pr, issue) ==
    IF pr \in {"closed", "merged"} THEN Settle(f, pr)
    ELSE LET cur == [f EXCEPT !.closePending = "none",
                              !.tracking = IF issue = "" THEN @ ELSE issue] IN
         IF f.closePending = "issue" /\ cur.tracking = "closed"
         THEN SetPhase(cur, "HandedOff") ELSE cur

-----------------------------------------------------------------------------
(* The steps                                                                 *)

others == <<inv, rem, job, prs, breaker, faults>>

\* ingest: the first alert of a family opens the finding.
Ingest(f) ==
    /\ fnd[f].phase = Absent
    /\ WriteFinding(f, SetPhase(fnd[f], "Opened"))
    /\ UNCHANGED <<others, asks>>

\* context-controller: the enhancer chain ran.
Enhance(f) ==
    /\ fnd[f].phase = "Opened" /\ ~fnd[f].suspend
    /\ WriteFinding(f, SetPhase(fnd[f], "Enhanced"))
    /\ UNCHANGED <<others, asks>>

\* A pull request's close is delivered, from its own repository or, renamed
\* since or not, from another.
DeliverPR(f, i) ==
    /\ prs[f][i] # "open"
    /\ \E sameRepo \in BOOLEAN :
          /\ WriteFinding(f, PullRequest(fnd[f], i, prs[f][i], sameRepo))
          /\ fnd' # fnd
    /\ UNCHANGED <<others, asks>>

\* settleReview: a pending close is settled against what GitHub reports now.
SettleReview(f) ==
    /\ fnd[f].phase = "InReview" /\ fnd[f].closePending # "none"
    /\ \E pr \in {"none", prs[f][fnd[f].pr]} :
          \E issue \in (IF fnd[f].closePending = "issue" /\ pr \notin {"closed", "merged"}
                        THEN {"", "open", "closed"} ELSE {""}) :
              WriteFinding(f, SettlePendingClose(fnd[f], pr, issue))
    /\ UNCHANGED <<others, asks>>

IntegrationNext ==
    \E f \in Findings :
        Ingest(f) \/ Enhance(f) \/ SettleReview(f) \/ \E i \in DOMAIN prs[f] : DeliverPR(f, i)

-----------------------------------------------------------------------------
(* People                                                                    *)

Ask == asks < MaxAsks /\ asks' = asks + 1 /\ UNCHANGED others

CloseIssue(f) ==
    Ask /\ fnd[f].phase # Absent /\ WriteFinding(f, IssueClosed(fnd[f]))

ReopenIssue(f) ==
    Ask /\ fnd[f].phase # Absent /\ WriteFinding(f, IssueReopened(fnd[f]))

Approve(f) ==
    /\ Ask /\ CanApprove(fnd[f])
    /\ \E stamp \in StampsFor(fnd[f]) : WriteFinding(f, applyApprove(fnd[f], stamp))

Retry(f) ==
    /\ Ask /\ CanRetry(fnd[f])
    /\ \E stamp \in StampsFor(fnd[f]) : WriteFinding(f, applyRetry(fnd[f], stamp))

Suspend(f) ==
    /\ Ask /\ ~fnd[f].suspend /\ fnd[f].phase \notin terminal \cup {Absent}
    /\ WriteFinding(f, [fnd[f] EXCEPT !.suspend = TRUE])

\* Not an Ask: a suspended finding can always be resumed.
Resume(f) ==
    /\ fnd[f].suspend
    /\ WriteFinding(f, [fnd[f] EXCEPT !.suspend = FALSE])
    /\ UNCHANGED <<others, asks>>

\* A reviewer merges or closes an open pull request.
ReviewPR(f, i) ==
    /\ prs[f][i] = "open"
    /\ \E state \in {"merged", "closed"} : prs' = [prs EXCEPT ![f][i] = state]
    /\ UNCHANGED <<fnd, inv, rem, job, breaker, faults, asks>>

PeopleNext ==
    \E f \in Findings :
        \/ CloseIssue(f) \/ ReopenIssue(f) \/ Approve(f) \/ Retry(f) \/ Suspend(f) \/ Resume(f)
        \/ \E i \in DOMAIN prs[f] : ReviewPR(f, i)
=============================================================================
