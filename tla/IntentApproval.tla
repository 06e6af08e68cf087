--------------------------- MODULE IntentApproval ---------------------------
(***************************************************************************)
(* One Intent from its trigger to its build: the poll of its issue, the    *)
(* plan's write-back, and what people do there meanwhile, through labels,  *)
(* /maul commands and edits.  A pass makes its calls to GitHub and to the  *)
(* API server one at a time, and any of them may be its last.              *)
(*                                                                         *)
(* Everyone who acts is an approver, the issue has one Intent, commands    *)
(* are not edited, and the pull requests of a build are IntentBuilds'.     *)
(* GitHub dates to the second: a tick, in which several things happen.     *)
(***************************************************************************)
EXTENDS Naturals, Sequences, FiniteSets, FiniteSetsExt

CONSTANTS
    Kinds,       \* what people do, among ActionKinds
    MaxAttempts, \* attempts of a plan round
    MaxActs, MaxEdits, MaxFaults, MaxTime \* bounds

ActionKinds == {"replanLabel", "approveLabel", "approve", "replan", "cancel"}
Trigger == {"replanLabel", "replan"}
Label == {"replanLabel", "approveLabel"}
MaxRevision == MaxActs + 1 \* never reached: each revision consumes an action

ASSUME IntentApprovalAssumption ==
    /\ Kinds \subseteq ActionKinds /\ MaxAttempts \in Nat \ {0}
    /\ {MaxActs, MaxEdits, MaxFaults} \subseteq Nat /\ MaxTime \in Nat \ {0}

VARIABLES
    now,
    issue,   \* on GitHub: title and body, state and labels
    act,     \* what people did there, oldest first; ids are positions
    reply,   \* maul's replies to each of them
    comment, \* plan comments on the issue, oldest first
    input,   \* the input ConfigMaps, by revision
    run,     \* the latest plan run
    intent,  \* the Intent's status
    pass,    \* the pass under way: the call it makes next
    budget   \* edits and faults left

vars == <<now, issue, act, reply, comment, input, run, intent, pass, budget>>

Content == {"as filed", "edited"}
None == [rev |-> 0, comment |-> 0]
Rest == [at |-> "idle"]

Done(i) == 1 <= i /\ i <= Len(act)
IsCommand(i) == act[i].kind \notin Label
Newest(kind) == Max({i \in 1..Len(act) : act[i].kind = kind} \cup {0})

\* after: GitHub's second, then labels before comments, then the id.  The
\* trigger that created the Intent is 0.
Second(i, j) == \/ IsCommand(i) /\ ~IsCommand(j)
                \/ IsCommand(i) = IsCommand(j) /\ i > j
After(i, j) ==
    j # 0 => act[i].at > act[j].at \/ (act[i].at = act[j].at /\ Second(i, j))

Posted == intent.plan.comment # 0
PostedAt == comment[intent.plan.comment].at
Ended == intent.phase \in {"Failed", "Closed"}

TypeOK ==
    /\ now \in 1..MaxTime
    /\ issue \in [content: Content, open: BOOLEAN, labels: SUBSET {"trigger", "approve"}]
    /\ Len(act) <= MaxActs /\ Len(comment) <= MaxRevision + MaxEdits
    /\ reply \in [1..MaxActs -> 0..2] /\ \A i \in 1..MaxActs : reply[i] > 0 => Done(i)
    /\ input \in [1..MaxRevision -> Content \cup {"none"}]
    /\ run \in [rev: 0..MaxRevision, attempt: 0..MaxAttempts, phase: {"Pending", "Complete", "Failed"}]
    /\ intent \in [phase: {"Pending", "Planning", "AwaitingApproval", "Building", "Failed", "Closed"},
                   input: 0..MaxRevision, plan: [rev: 0..MaxRevision, comment: Nat],
                   approval: [act: 0..MaxActs, rev: 0..MaxRevision], last: 0..MaxActs, seen: 0..MaxActs]
    /\ intent.input > 0 => input[intent.input] # "none"
    /\ intent.phase = "AwaitingApproval" => Posted /\ intent.plan.rev = intent.input
    /\ (intent.phase = "Building") => intent.approval.rev = intent.input
    /\ intent.phase \in {"Pending", "Planning"} => intent.approval.act = 0

Init ==
    /\ now = 1
    /\ issue = [content |-> "as filed", open |-> TRUE, labels |-> {"trigger"}]
    /\ act = <<>> /\ comment = <<>> /\ reply = [i \in 1..MaxActs |-> 0]
    /\ input = [r \in 1..MaxRevision |-> "none"]
    /\ run = [rev |-> 0, attempt |-> 0, phase |-> "Failed"]
    /\ intent = [phase |-> "Pending", input |-> 0, plan |-> None, approval |-> [act |-> 0, rev |-> 0],
                 last |-> 0, seen |-> 0]
    /\ pass = Rest /\ budget = [edits |-> MaxEdits, faults |-> MaxFaults]

Idle == pass.at = "idle"

(***************************************************************************)
(* The poll: the issue is read, then its events and comments are listed,   *)
(* then every action not answered yet is answered, oldest first.           *)
(***************************************************************************)
Poll ==
    /\ Idle /\ ~Ended /\ intent.phase # "Pending"
    /\ pass' = [at |-> "list", issue |-> issue]
    /\ UNCHANGED <<now, issue, act, reply, comment, input, run, intent, budget>>

\* approvalPending: the plan is recorded, its posting is not.
ApprovalPending == intent.phase = "Planning" /\ intent.plan.rev # 0 /\ ~Posted
Listed == {i \in 1..Len(act) : IsCommand(i) /\ i > intent.seen /\ reply[i] = 0
               /\ (intent.last = 0 \/ act[i].at >= act[intent.last].at)}
Deferred == {i \in Listed : act[i].kind = "approve" /\ ApprovalPending /\ intent.approval.act # i}
Commands == {i \in Listed \ Deferred : act[i].kind = "replan" => intent.last = i \/ After(i, intent.last)}

\* approveLabelAction: newer than the plan; with no label nothing approves.
AwaitingLabel(i) == i # 0 /\ intent.phase = "AwaitingApproval" /\ act[i].at > PostedAt

\* gather
Gathered(labels) ==
    Commands
    \cup {i \in {Newest("replanLabel")} : i # 0 /\ After(i, intent.last)}
    \cup {i \in {Newest("approveLabel")} : AwaitingLabel(i) /\ reply[i] = 0 /\ "approve" \in labels}

\* The one list of them, oldest first.
InOrder(s) == {q \in [1..Cardinality(s) -> s] : \A i, j \in 1..Cardinality(s) : i < j => After(q[j], q[i])}

NewestSettled_All == Max({i \in 1..Len(act) : IsCommand(i)} \cup {0})
\* newestSettled: nothing at or after a deferred command.
NewestSettled == Max({i \in 1..Len(act) : IsCommand(i) /\ \A d \in Deferred : i < d} \cup {0})

List ==
    /\ pass.at = "list"
    /\ \E todo \in InOrder(Gathered(pass.issue.labels)) :
          pass' = [at |-> "answer", issue |-> pass.issue, todo |-> todo, newest |-> NewestSettled, deferred |-> Deferred]
    \* An approve label refused by a pass that did not live to remove it.
    /\ issue' = IF AwaitingLabel(Newest("approveLabel")) /\ reply[Newest("approveLabel")] > 0
                   /\ "approve" \in pass.issue.labels
                THEN [issue EXCEPT !.labels = @ \ {"approve"}] ELSE issue
    /\ UNCHANGED <<now, act, reply, comment, input, run, intent, budget>>

Head1 == Head(pass.todo)
Goto(at) == pass' = [pass EXCEPT !.at = at]
GotoThen(at, next) == pass' = [k \in DOMAIN pass \cup {"next"} |->
                                  IF k = "at" THEN at ELSE IF k = "next" THEN next ELSE pass[k]]

Admits_AnyPlan(i) == intent.phase = "AwaitingApproval"
\* settlePlanApproval: after the plan was posted, while it waits.
Admits(i) == intent.phase = "AwaitingApproval" /\ Posted /\ act[i].at > PostedAt

Unedited == ~comment[intent.plan.comment].edited \* by GitHub's edit record, whatever the body reads
\* approvalChanged: the comment re-read, the issue as this poll read it.
Unchanged == Unedited /\ pass.issue.content = input[intent.input]

Recorded(i) == i = (IF act[i].kind = "approve" THEN intent.approval.act ELSE intent.last)

Answer ==
    /\ pass.at = "answer" /\ pass.todo # <<>>
    /\ LET i == Head1  kind == act[i].kind IN
       IF IsCommand(i) /\ kind # "cancel" /\ Recorded(i) THEN GotoThen("reply", "seen") /\ UNCHANGED intent
       ELSE IF kind \in Trigger THEN
         /\ IF intent.phase = "AwaitingApproval" THEN Goto("snapshot") ELSE GotoThen("reply", "consume")
         /\ UNCHANGED intent
       ELSE IF kind = "cancel" THEN Goto("close") /\ UNCHANGED intent
       ELSE IF ~Admits(i) THEN GotoThen("reply", "seen") /\ UNCHANGED intent
       ELSE IF ~Unchanged THEN GotoThen("reply", "unlabel") /\ UNCHANGED intent
       ELSE /\ intent' = [intent EXCEPT !.phase = "Building", !.approval = [act |-> i, rev |-> intent.plan.rev]]
            /\ IF IsCommand(i) THEN GotoThen("reply", "seen") ELSE Goto("seen")
    /\ UNCHANGED <<now, issue, act, reply, comment, input, run, budget>>

Replies_Always(i) == TRUE
Replies(i) == reply[i] = 0 \* found by its marker
Reply ==
    /\ pass.at = "reply" /\ Goto(pass.next)
    /\ reply' = IF Replies(Head1) THEN [reply EXCEPT ![Head1] = @ + 1] ELSE reply
    /\ UNCHANGED <<now, issue, act, comment, input, run, intent, budget>>

\* settleReplan's consume: a replan refused never takes effect later.
Consume ==
    /\ pass.at = "consume" /\ Goto("seen")
    /\ intent' = [intent EXCEPT !.last = Head1]
    /\ UNCHANGED <<now, issue, act, reply, comment, input, run, budget>>

CloseIssue ==
    /\ pass.at = "close" /\ GotoThen("reply", "end")
    /\ issue' = [issue EXCEPT !.open = FALSE]
    /\ UNCHANGED <<now, act, reply, comment, input, run, intent, budget>>

RemoveRefusedLabel ==
    /\ pass.at = "unlabel" /\ Goto("seen")
    /\ issue' = IF "approve" \in pass.issue.labels THEN [issue EXCEPT !.labels = @ \ {"approve"}] ELSE issue
    /\ UNCHANGED <<now, act, reply, comment, input, run, intent, budget>>

\* answer: each command is recorded as seen once its reply is posted.
RecordSeen ==
    /\ pass.at = "seen" /\ pass' = [pass EXCEPT !.at = "answer", !.todo = Tail(@)]
    /\ intent' = IF IsCommand(Head1) /\ (\A d \in pass.deferred : Head1 < d) /\ Head1 > intent.seen
                 THEN [intent EXCEPT !.seen = Head1] ELSE intent
    /\ UNCHANGED <<now, issue, act, reply, comment, input, run, budget>>

RecordListing ==
    /\ pass.at = "answer" /\ pass.todo = <<>>
    /\ intent' = IF pass.newest > intent.seen THEN [intent EXCEPT !.seen = pass.newest] ELSE intent
    /\ pass' = IF pass.issue.open THEN Rest ELSE [at |-> "end"]
    /\ UNCHANGED <<now, issue, act, reply, comment, input, run, budget>>

EndClosed ==
    /\ pass.at = "end" /\ pass' = Rest
    /\ intent' = [intent EXCEPT !.phase = "Closed"]
    /\ UNCHANGED <<now, issue, act, reply, comment, input, run, budget>>

(***************************************************************************)
(* Planning.                                                               *)
(***************************************************************************)
Begin(i) == pass' = [at |-> "snapshot", issue |-> issue, todo |-> <<i>>, newest |-> 0, deferred |-> {}]

StartFirst ==
    /\ Idle /\ intent.phase = "Pending" /\ Begin(0)
    /\ UNCHANGED <<now, issue, act, reply, comment, input, run, intent, budget>>

\* handOff, once discovery saw the trigger on an ended intent's issue.
Revive ==
    /\ Idle /\ intent.phase = "Failed" /\ issue.open /\ "trigger" \in issue.labels
    /\ Newest("replanLabel") # 0 /\ After(Newest("replanLabel"), intent.last)
    /\ Begin(Newest("replanLabel"))
    /\ UNCHANGED <<now, issue, act, reply, comment, input, run, intent, budget>>

\* ensureInputConfigMap: the one a failed pass created is adopted.
Snapshot ==
    /\ pass.at = "snapshot" /\ Goto("plan")
    /\ LET r == intent.input + 1 IN
       input' = IF input[r] = "none" THEN [input EXCEPT ![r] = pass.issue.content] ELSE input
    /\ UNCHANGED <<now, issue, act, reply, comment, run, intent, budget>>

Consumed_Later(i) == intent.last
Consumed(i) == i \* the trigger, in the write that starts its planning

Cleared_Plan(approval) == approval
Cleared(approval) == [act |-> 0, rev |-> 0]

StartPlanning ==
    /\ pass.at = "plan"
    /\ intent' = [intent EXCEPT !.phase = "Planning", !.input = @ + 1, !.plan = None,
                                !.approval = Cleared(@), !.last = Consumed(Head1)]
    /\ IF intent.phase = "AwaitingApproval" THEN
         IF IsCommand(Head1) THEN GotoThen("reply", "seen") ELSE Goto("seen")
       ELSE pass' = Rest
    /\ UNCHANGED <<now, issue, act, reply, comment, input, run, budget>>

Launch ==
    /\ Idle /\ intent.phase = "Planning"
    /\ run.rev # intent.input \/ (run.phase = "Failed" /\ run.attempt < MaxAttempts)
    /\ run' = [rev |-> intent.input, attempt |-> IF run.rev = intent.input THEN run.attempt + 1 ELSE 1,
               phase |-> "Pending"]
    /\ UNCHANGED <<now, issue, act, reply, comment, input, intent, pass, budget>>

RecordPlan ==
    /\ Idle /\ intent.phase = "Planning" /\ intent.plan.rev # intent.input
    /\ run.rev = intent.input /\ run.phase = "Complete"
    /\ intent' = [intent EXCEPT !.plan = [rev |-> run.rev, comment |-> 0]]
    /\ UNCHANGED <<now, issue, act, reply, comment, input, run, pass, budget>>

\* writeBack: the newest comment of this plan, unless it was edited.
Own == Max({c \in 1..Len(comment) : comment[c].rev = intent.plan.rev} \cup {0})
WriteBack ==
    /\ Idle /\ intent.phase = "Planning" /\ intent.plan.rev = intent.input
    /\ pass' = IF Own # 0 /\ ~comment[Own].edited THEN [at |-> "record", comment |-> Own] ELSE [at |-> "clear"]
    /\ UNCHANGED <<now, issue, act, reply, comment, input, run, intent, budget>>

ClearLabel ==
    /\ pass.at = "clear" /\ pass' = [at |-> "post"]
    /\ issue' = [issue EXCEPT !.labels = @ \ {"approve"}]
    /\ UNCHANGED <<now, act, reply, comment, input, run, intent, budget>>

PostPlan ==
    /\ pass.at = "post" /\ pass' = [at |-> "record", comment |-> Len(comment) + 1]
    /\ comment' = Append(comment, [rev |-> intent.plan.rev, at |-> now, edited |-> FALSE])
    /\ UNCHANGED <<now, issue, act, reply, input, run, intent, budget>>

RecordPosting ==
    /\ pass.at = "record" /\ pass' = Rest
    /\ intent' = [intent EXCEPT !.phase = "AwaitingApproval", !.plan.comment = pass.comment]
    /\ UNCHANGED <<now, issue, act, reply, comment, input, run, budget>>

\* planning's attempts are spent, or the build's.
Spent ==
    /\ Idle /\ \/ intent.phase = "Building"
               \/ /\ intent.phase = "Planning" /\ run.rev = intent.input
                  /\ run.phase = "Failed" /\ run.attempt = MaxAttempts
    /\ pass' = [at |-> "untrigger"]
    /\ UNCHANGED <<now, issue, act, reply, comment, input, run, intent, budget>>

RemoveTrigger_Never ==
    /\ pass.at = "untrigger" /\ pass' = [at |-> "fail"]
    /\ UNCHANGED <<now, issue, act, reply, comment, input, run, intent, budget>>
RemoveTrigger ==
    /\ pass.at = "untrigger" /\ pass' = [at |-> "fail"]
    /\ issue' = [issue EXCEPT !.labels = @ \ {"trigger"}]
    /\ UNCHANGED <<now, act, reply, comment, input, run, intent, budget>>

Fail ==
    /\ pass.at = "fail" /\ pass' = Rest
    /\ intent' = [intent EXCEPT !.phase = "Failed"]
    /\ UNCHANGED <<now, issue, act, reply, comment, input, run, budget>>

(***************************************************************************)
(* Everyone else.                                                          *)
(***************************************************************************)
FinishPlan ==
    /\ run.phase = "Pending" /\ \E p \in {"Complete", "Failed"} : run' = [run EXCEPT !.phase = p]
    /\ UNCHANGED <<now, issue, act, reply, comment, input, intent, pass, budget>>

\* shown is the plan comment the issue ends with, unless it was edited.
Act(kind) ==
    /\ Len(act) < MaxActs /\ issue.open
    /\ LET c == Len(comment) IN
       act' = Append(act, [kind |-> kind, at |-> now, content |-> issue.content,
                           shown |-> IF c # 0 /\ ~comment[c].edited THEN comment[c].rev ELSE 0])
    /\ issue' = IF kind \notin Label THEN issue
                ELSE [issue EXCEPT !.labels = @ \cup {IF kind = "replanLabel" THEN "trigger" ELSE "approve"}]
    /\ UNCHANGED <<now, reply, comment, input, run, intent, pass, budget>>

SpendEdit == budget.edits > 0 /\ budget' = [budget EXCEPT !.edits = @ - 1]
Edit ==
    /\ SpendEdit
    /\ \/ /\ \E c \in Content \ {issue.content} : issue' = [issue EXCEPT !.content = c]
          /\ UNCHANGED comment
       \/ /\ \E c \in 1..Len(comment) : comment' = [comment EXCEPT ![c].edited = TRUE]
          /\ UNCHANGED issue
    /\ UNCHANGED <<now, act, reply, input, run, intent, pass>>

Tick ==
    /\ now < MaxTime /\ now' = now + 1
    /\ UNCHANGED <<issue, act, reply, comment, input, run, intent, pass, budget>>

Fault ==
    /\ ~Idle /\ budget.faults > 0 /\ pass' = Rest
    /\ budget' = [budget EXCEPT !.faults = @ - 1]
    /\ UNCHANGED <<now, issue, act, reply, comment, input, run, intent>>

Answering == List \/ Answer \/ Reply \/ Consume \/ CloseIssue \/ RemoveRefusedLabel
             \/ RecordSeen \/ RecordListing \/ EndClosed
Writing == Snapshot \/ StartPlanning \/ ClearLabel \/ PostPlan \/ RecordPosting \/ RemoveTrigger \/ Fail
Phase == StartFirst \/ Launch \/ RecordPlan \/ WriteBack \/ Spent

Next ==
    \/ Poll \/ Phase \/ Revive \/ Answering \/ Writing \/ FinishPlan \/ Edit \/ Tick \/ Fault
    \/ \E kind \in Kinds : Act(kind)

Spec == Init /\ [][Next]_vars

\* The poll is due again and again, and so is every phase's own step (a
\* build may take for ever to fail); the runs settle (IntentRuns).
Fairness ==
    /\ SF_vars(Poll) /\ WF_vars(Answering) /\ WF_vars(Writing) /\ WF_vars(FinishPlan) /\ WF_vars(Tick)
    /\ SF_vars(Phase /\ intent.phase # "Building")

FairSpec == Spec /\ Fairness

(***************************************************************************)
(* Properties.                                                             *)
(***************************************************************************)
\* What is built is the plan its approver was shown: the approval was made
\* while the issue ended with that plan, unedited (settlePlanApproval).
ApprovedAsShown ==
    intent.approval.act # 0 => act[intent.approval.act].shown = intent.approval.rev

\* An approval is not accepted on an issue that was edited when it was made
\* (approvalChanged).
ApprovedUnchanged ==
    intent.approval.act # 0 => act[intent.approval.act].content = input[intent.approval.rev]

\* Every revision after the first consumed a replan of its own: none is
\* planned twice, whatever pass was cut short (startPlanning).
AppliedOnce ==
    intent.input <= 1 + Cardinality({i \in 1..Len(act) : act[i].kind \in Trigger /\ intent.last # 0
                                                         /\ ~After(i, intent.last)})

\* A command is answered at most once (postOnce, hasOwnNotice).
AnsweredOnce == \A i \in 1..MaxActs : reply[i] <= 1

\* No command is settled unread: a comment up to the newest recorded seen
\* was answered, or was superseded by a newer trigger, or waits for no poll
\* any more (newestSettled, recordSeen).
NothingSkipped ==
    \A i \in 1..Len(act) : IsCommand(i) /\ i <= intent.seen /\ reply[i] = 0 =>
        \/ act[i].kind = "replan" /\ intent.last # 0 /\ ~After(i, intent.last)
        \/ intent.last # 0 /\ act[i].at < act[intent.last].at

\* A failed intent carries its trigger only if someone applied it anew, so
\* that it is answered (fail, handOff): a label given in the very second of
\* the last trigger consumed is the one case GitHub's dates cannot tell.
FailedUntriggered ==
    intent.phase = "Failed" /\ "trigger" \in issue.labels =>
        /\ Newest("replanLabel") # 0
        /\ \/ After(Newest("replanLabel"), intent.last)
           \/ act[Newest("replanLabel")].at = act[intent.last].at

\* All of it, at any call of any pass (pollIssue).
ApprovalTrue ==
    TypeOK /\ ApprovedAsShown /\ AppliedOnce /\ AnsweredOnce /\ NothingSkipped /\ FailedUntriggered

\* No approve label predates the plan it approves (writeBack).
LabelFollowsPlan ==
    intent.phase = "AwaitingApproval" /\ "approve" \in issue.labels => act[Newest("approveLabel")].at >= PostedAt

\* An approver's cancel ends the intent.
CancelHonoured == \A i \in 1..MaxActs : (Done(i) /\ act[i].kind = "cancel") ~> Ended

Heard(i) == reply[i] > 0 \/ Ended \/ (intent.last # 0 /\ act[i].at < act[intent.last].at)

\* An approver's approval is answered, deferred or not, unless the intent
\* ends first or a newer trigger leaves it behind.
ApprovalAnswered ==
    \A i \in 1..MaxActs : (Done(i) /\ act[i].kind = "approve") ~> Heard(i)
=============================================================================
