------------------------------ MODULE ReviewClose ------------------------------
(***************************************************************************)
(* How a finding in review learns what became of it: GitHub's deliveries   *)
(* about its tracking issue and its pull request (webhooks.go) come late,  *)
(* unordered, twice or never, and a close that does not settle it at once  *)
(* is kept pending for the projection reconciler, which reads the pull     *)
(* request and then the issue, and writes over the version it read         *)
(* (settleReview, review.go).                                              *)
(***************************************************************************)
EXTENDS Naturals

CONSTANTS
    MaxClicks,      \* bound: closes and reopens by people
    MaxForeign,     \* bound: closes of another repository's pull request
    MaxLost,        \* bound: deliveries lost
    MaxCopies,      \* bound: deliveries made again
    MaxUnreadable,  \* bound: reads GitHub answers with 403 or 404
    MaxFailures     \* bound: other failed reads, lost passes, integrations suspended

ASSUME ReviewCloseAssumption ==
    {MaxClicks, MaxForeign, MaxLost, MaxCopies, MaxUnreadable, MaxFailures} \subseteq Nat

VARIABLES
    fnd,          \* the finding in the API server
    cache,        \* the reconciler's copy of it
    github,       \* the issue and the pull request, and who closed the issue last
    mail,         \* deliveries on their way, by kind
    pass,         \* the reconciler's pass, and what it has read
    integration,  \* there is an issues-enabled Integration to read through
    used          \* the bounds used up

vars == <<fnd, cache, github, mail, pass, integration, used>>

Kinds == {"issue closed", "issue reopened", "merged", "closed", "closed elsewhere"}
Idle == [at |-> "idle"]
Limit == [click |-> MaxClicks, foreign |-> MaxForeign, lost |-> MaxLost, copy |-> MaxCopies,
          unreadable |-> MaxUnreadable, failure |-> MaxFailures]

Findings == [phase: {"InReview", "Remediated", "Failed", "HandedOff"}, pending: {"none", "issue", "repository"},
             tracking: {"open", "closed"}, version: Nat]

TypeOK ==
    /\ fnd \in Findings /\ cache \in Findings /\ cache.version <= fnd.version
    /\ cache.version = fnd.version => cache = fnd
    /\ github \in [issue: {"open", "closed"}, by: {"nobody", "person", "merge"},
                   pull: {"open", "closed", "merged"}, wasClosed: BOOLEAN]
    /\ mail \in [Kinds -> Nat]
    /\ pass = Idle \/ (/\ pass.at \in {"pull", "issue", "write"} /\ pass.of \in Findings
                       /\ pass.of.phase = "InReview" /\ pass.of.pending # "none")
    /\ integration \in BOOLEAN
    /\ \A b \in DOMAIN used : used[b] <= Limit[b]
    /\ fnd.phase # "InReview" => fnd.pending = "none"

Init ==
    /\ fnd = [phase |-> "InReview", pending |-> "none", tracking |-> "open", version |-> 0]
    /\ cache = fnd
    /\ github = [issue |-> "open", by |-> "nobody", pull |-> "open", wasClosed |-> FALSE]
    /\ mail = [k \in Kinds |-> 0] /\ pass = Idle /\ integration = TRUE
    /\ used = [b \in DOMAIN Limit |-> 0]
----------------------------------------------------------------------------
Use(b) == used[b] < Limit[b] /\ used' = [used EXCEPT ![b] = @ + 1]
Send(ks) == mail' = [k \in Kinds |-> mail[k] + IF k \in ks THEN 1 ELSE 0]

\* A status write; one that changes nothing is not made.
Put(f) == fnd' = IF f = fnd THEN fnd ELSE [f EXCEPT !.version = @ + 1]

\* prClose.settle
Settle(f, pull) ==
    [f EXCEPT !.pending = "none", !.phase = IF pull = "merged" THEN "Remediated" ELSE "Failed"]

\* issues, action closed, in review; a later phase is terminal.
IssueClosed(f) ==
    [f EXCEPT !.tracking = "closed", !.pending = IF f.phase = "InReview" THEN "issue" ELSE @]

\* Mutant: the number and the branch are proof enough.
Elsewhere_Settles(f) == IF f.phase = "InReview" THEN Settle(f, "closed") ELSE f

\* unrecordedRepoPR: the recorded number, closed in another repository.
Elsewhere(f) ==
    IF f.phase = "InReview" /\ f.pending = "none" THEN [f EXCEPT !.pending = "repository"] ELSE f

Handled(k, f) ==
    CASE k = "issue closed"     -> IssueClosed(f)
      [] k = "issue reopened"   -> [f EXCEPT !.tracking = "open"]
      [] k = "closed elsewhere" -> Elsewhere(f)
      [] OTHER                  -> IF f.phase = "InReview" THEN Settle(f, k) ELSE f

\* A delivery is handled on the finding as the API server has it.
Deliver(k) ==
    /\ mail[k] > 0 /\ Put(Handled(k, fnd))
    /\ \/ mail' = [mail EXCEPT ![k] = @ - 1] /\ UNCHANGED used
       \/ Use("copy") /\ UNCHANGED mail
    /\ UNCHANGED <<cache, github, pass, integration>>

\* Mutant: what the deliveries left on the finding is not read again.
SettlePendingClose_Delivered(f, pull, issue) ==
    IF pull \in {"closed", "merged"} THEN Settle(f, pull)
    ELSE [f EXCEPT !.pending = "none",
                   !.phase = IF f.pending = "issue" /\ f.tracking = "closed" THEN "HandedOff" ELSE @]

\* settlePendingClose: "" is an issue that was not read, or not readable.
SettlePendingClose(f, pull, issue) ==
    IF pull \in {"closed", "merged"} THEN Settle(f, pull)
    ELSE LET tracking == IF issue = "" THEN f.tracking ELSE issue IN
         [f EXCEPT !.pending = "none", !.tracking = tracking,
                   !.phase = IF f.pending = "issue" /\ tracking = "closed" THEN "HandedOff" ELSE @]

\* settleReview: only a close pending in review, and only with an Integration.
Begin ==
    /\ pass = Idle /\ cache.phase = "InReview" /\ cache.pending # "none" /\ integration
    /\ pass' = [at |-> "pull", of |-> cache, pull |-> "", issue |-> "", by |-> "nobody",
                closed |-> github.issue = "closed"]
    /\ UNCHANGED <<fnd, cache, github, mail, integration, used>>

\* readRecordedPR; a closed one, or another repository's close, needs no issue.
ReadPull ==
    /\ pass.at = "pull"
    /\ \E unreadable \in BOOLEAN :
        /\ IF unreadable THEN Use("unreadable") ELSE UNCHANGED used
        /\ LET pull == IF unreadable THEN "unreadable" ELSE github.pull IN
           pass' = [pass EXCEPT !.pull = pull,
                    !.at = IF pass.of.pending = "issue" /\ pull \in {"open", "unreadable"} THEN "issue" ELSE "write"]
    /\ UNCHANGED <<fnd, cache, github, mail, integration>>

\* readTrackingIssueState
ReadIssue ==
    /\ pass.at = "issue"
    /\ \/ pass' = [pass EXCEPT !.at = "write", !.issue = github.issue, !.by = github.by] /\ UNCHANGED used
       \/ Use("unreadable") /\ pass' = [pass EXCEPT !.at = "write"]
    /\ UNCHANGED <<fnd, cache, github, mail, integration>>

\* Written over the version the reads were made for; another one conflicts.
SettleReview ==
    /\ pass.at = "write"
    /\ IF fnd = pass.of THEN Put(SettlePendingClose(pass.of, pass.pull, pass.issue)) ELSE UNCHANGED fnd
    /\ pass' = Idle /\ UNCHANGED <<cache, github, mail, integration, used>>

\* A read fails, or the process restarts: the reconcile is made again.
LosePass ==
    /\ pass.at \in {"pull", "issue", "write"} /\ pass' = Idle /\ Use("failure")
    /\ UNCHANGED <<fnd, cache, github, mail, integration>>
----------------------------------------------------------------------------
(* GitHub, the people on it, and the caches *)
Observe == cache # fnd /\ cache' = fnd /\ UNCHANGED <<fnd, github, mail, pass, integration, used>>

\* What the pass could have seen of the issue.
Seen(issue) ==
    pass' = IF pass # Idle /\ issue = "closed" THEN [pass EXCEPT !.closed = TRUE] ELSE pass

CloseIssue ==
    /\ github.issue = "open" /\ Use("click")
    /\ github' = [github EXCEPT !.issue = "closed", !.by = "person"] /\ Seen("closed")
    /\ Send({"issue closed"}) /\ UNCHANGED <<fnd, cache, integration>>

ReopenIssue ==
    /\ github.issue = "closed" /\ Use("click")
    /\ github' = [github EXCEPT !.issue = "open"] /\ UNCHANGED pass
    /\ Send({"issue reopened"}) /\ UNCHANGED <<fnd, cache, integration>>

\* A merge closes the issue it fixes, and sends two deliveries.
Merge ==
    /\ github.pull = "open" /\ UNCHANGED used
    /\ github' = [github EXCEPT !.pull = "merged", !.issue = "closed",
                                !.by = IF github.issue = "open" THEN "merge" ELSE @]
    /\ Seen("closed")
    /\ Send({"merged"} \cup IF github.issue = "open" THEN {"issue closed"} ELSE {})
    /\ UNCHANGED <<fnd, cache, integration>>

ClosePull ==
    /\ github.pull = "open" /\ Use("click")
    /\ github' = [github EXCEPT !.pull = "closed", !.wasClosed = TRUE]
    /\ Send({"closed"}) /\ UNCHANGED <<fnd, cache, pass, integration>>

ReopenPull ==
    /\ github.pull = "closed" /\ Use("click")
    /\ github' = [github EXCEPT !.pull = "open"] /\ UNCHANGED <<fnd, cache, mail, pass, integration>>

CloseElsewhere ==
    /\ Use("foreign") /\ Send({"closed elsewhere"}) /\ UNCHANGED <<fnd, cache, github, pass, integration>>

Lose(k) ==
    /\ mail[k] > 0 /\ Use("lost") /\ mail' = [mail EXCEPT ![k] = @ - 1]
    /\ UNCHANGED <<fnd, cache, github, pass, integration>>

Suspend == integration /\ Use("failure") /\ integration' = FALSE /\ UNCHANGED <<fnd, cache, github, mail, pass>>
Resume == ~integration /\ integration' = TRUE /\ UNCHANGED <<fnd, cache, github, mail, pass, used>>

Pass == Begin \/ ReadPull \/ ReadIssue \/ SettleReview
People == CloseIssue \/ ReopenIssue \/ Merge \/ ClosePull \/ ReopenPull \/ CloseElsewhere \/ Suspend \/ Resume

Next == Pass \/ LosePass \/ Observe \/ People \/ \E k \in Kinds : Deliver(k) \/ Lose(k)

Spec == Init /\ [][Next]_vars

\* The reconciler runs, watches and what is not lost of the deliveries arrive,
\* and an Integration comes back.
FairSpec ==
    /\ Spec /\ WF_vars(Pass) /\ WF_vars(Observe) /\ WF_vars(Resume)
    /\ \A k \in Kinds : WF_vars(Deliver(k))
----------------------------------------------------------------------------
(* "The head ref alone proves nothing": however deliveries and reads fall, *)
(* a finding is Remediated only if its own pull request was merged, and    *)
(* Failed only if that was closed.                                         *)
OutcomeTrue ==
    /\ fnd.phase = "Remediated" => github.pull = "merged"
    /\ fnd.phase = "Failed" => github.wasClosed

(* "Handed off if the issue, read again, is still closed": a close that    *)
(* was taken back before the pass began hands nothing off, whatever order  *)
(* its deliveries came in - unless the issue could not be read.            *)
HandOffSeenClosed ==
    [][fnd'.phase = "HandedOff" /\ fnd.phase # "HandedOff"
       => pass.closed \/ (pass.issue = "" /\ used.unreadable > 0)]_vars

(* A settled finding stays settled: the reads settle only the finding they *)
(* were made for.                                                          *)
SettledOnce == [][fnd.phase # "InReview" => fnd'.phase = fnd.phase]_vars

(* Either of a merge's two deliveries is enough: one may be lost, and the  *)
(* finding leaves review all the same.                                     *)
MergeSettles == github.pull = "merged" ~> fnd.phase # "InReview"

(* "Is a human taking the finding over": a finding is not handed off for a *)
(* close that was the merge's.                                             *)
HandOffIsHuman ==
    [][fnd'.phase = "HandedOff" /\ fnd.phase # "HandedOff" => pass.by # "merge"]_vars
=============================================================================
