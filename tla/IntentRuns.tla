----------------------------- MODULE IntentRuns -----------------------------
(***************************************************************************)
(* RunReconciler of intent-controller: it grants IntentRuns slots of its   *)
(* own pool, launches their Jobs, collects them and pushes what a build or *)
(* a revise round made, in two phases: the commit, recorded on the run,    *)
(* then the branch.  One worker runs one pass at a time; between two of    *)
(* its calls people suspend and end intents and push to the branches, and  *)
(* any call may be the last one of its pass.                               *)
(*                                                                         *)
(* Each run has an intent of its own.  "suspended" stands for every cause  *)
(* that holds a push (errHeld: a suspension, the project gone, the round   *)
(* blocked, multi-repository off), "ended" for every cause that ends it    *)
(* (errIntentEnded: cancelled, deleted, its repository left the project,   *)
(* its pull request closed).  A run's input and Repository are ready.      *)
(***************************************************************************)
EXTENDS Naturals, FiniteSets, Sequences, SequencesExt

CONSTANTS
    Plans, Builds, Revises, \* the runs of each stage
    MaxConcurrent,          \* slots of the pool
    MaxSuspends,            \* bound: suspensions
    MaxPushes,              \* bound: pushes and deletions of a branch by people
    MaxFaults               \* bound: passes cut short

Run == Plans \cup Builds \cup Revises

ASSUME IntentRunsAssumption ==
    /\ Plans \cap Builds = {} /\ Plans \cap Revises = {} /\ Builds \cap Revises = {}
    /\ Run # {} /\ MaxConcurrent \in Nat \ {0}
    /\ MaxSuspends \in Nat /\ MaxPushes \in Nat /\ MaxFaults \in Nat

VARIABLES
    run,       \* status of each IntentRun
    job,       \* its agent Job
    intent,    \* its Intent in the API server
    cached,    \* the informer's copy of that Intent
    branch,    \* commits of its branch, by who made them
    pass,      \* the pass under way: the call it makes next
    delivered, \* runs whose commit has been put on its branch
    barred,    \* runs whose intent stopped wanting a push before the pass was past its gate
    budget     \* what people and faults have left to do

vars == <<run, job, intent, cached, branch, pass, delivered, barred, budget>>

Outcome == {"none", "ok", "not_built", "aborted", "launch_refused", "unschedulable",
            "hold_expired", "head_moved", "branch_exists"}
Step == {"idle", "record", "precommit", "commit", "prebranch", "head", "move", "create", "settle", "stop"}

TypeOK ==
    /\ run \in [Run -> [phase: {"Pending", "Running", "Complete", "Failed"}, jobRef: BOOLEAN,
                        pushed: BOOLEAN, held: BOOLEAN, outcome: Outcome]]
    /\ job \in [Run -> {"none", "unplaced", "active", "done", "gone"}]
    /\ intent \in [Run -> {"active", "suspended", "ended"}] /\ cached \in [Run -> {"active", "suspended", "ended"}]
    /\ branch \in [Run -> Seq({"base", "human", "maul"})]
    /\ pass \in [run: Run, at: Step, outcome: Outcome]
    /\ delivered \subseteq Builds \cup Revises /\ barred \subseteq Run
    /\ budget \in [suspends: 0..MaxSuspends, pushes: 0..MaxPushes, faults: 0..MaxFaults]
    /\ \A r \in Run : run[r].held => run[r].phase = "Running"

Rest == [run |-> CHOOSE r \in Run : TRUE, at |-> "idle", outcome |-> "none"]

\* A revise round works from the head of the branch its build made.
Init ==
    /\ run = [r \in Run |-> [phase |-> "Pending", jobRef |-> FALSE, pushed |-> FALSE, held |-> FALSE,
                             outcome |-> "none"]]
    /\ job = [r \in Run |-> "none"]
    /\ intent = [r \in Run |-> "active"] /\ cached = intent
    /\ branch = [r \in Run |-> IF r \in Revises THEN <<"base">> ELSE <<>>]
    /\ pass = Rest
    /\ delivered = {} /\ barred = {}
    /\ budget = [suspends |-> MaxSuspends, pushes |-> MaxPushes, faults |-> MaxFaults]

Idle == pass.at = "idle"
Settled(r) == run[r].phase \in {"Complete", "Failed"}

Go(r, at, outcome) == pass' = [run |-> r, at |-> at, outcome |-> outcome]
Call(at) == Go(pass.run, at, "none")
Settle(r, outcome) == Go(r, "settle", outcome)
Return == pass' = Rest

\* A held build's agent is done; what it owes is its push.
HoldsSlot_Launched(r) == run[r].phase = "Running" /\ run[r].jobRef /\ ~run[r].held
HoldsSlot(r) == run[r].phase = "Running" /\ ~run[r].held
Launchable(r) == run[r].phase = "Pending" /\ cached[r] = "active"
StagePriority(r) == IF r \in Plans THEN 1 ELSE IF r \in Builds THEN 2 ELSE 3

(***************************************************************************)
(* Passes.                                                                 *)
(***************************************************************************)
\* schedule and grant: the free slots are counted live before each grant.
Grant(r) ==
    /\ Idle /\ Launchable(r)
    /\ \A q \in Run : Launchable(q) => StagePriority(q) <= StagePriority(r)
    /\ Cardinality({q \in Run : HoldsSlot(q)}) < MaxConcurrent
    /\ run' = [run EXCEPT ![r].phase = "Running"]
    /\ UNCHANGED <<job, intent, cached, branch, pass, delivered, barred, budget>>

\* intentEnded, on the cached Intent.
Abort_KeepJob(r) ==
    /\ Idle /\ ~Settled(r) /\ cached[r] = "ended"
    /\ Settle(r, "aborted")
    /\ UNCHANGED <<run, job, intent, cached, branch, delivered, barred, budget>>
Abort(r) ==
    /\ Idle /\ ~Settled(r) /\ cached[r] = "ended"
    /\ job' = IF run[r].jobRef THEN [job EXCEPT ![r] = "gone"] ELSE job
    /\ Settle(r, "aborted")
    /\ UNCHANGED <<run, intent, cached, branch, delivered, barred, budget>>

\* launchProject: a granted run that cannot launch yet hands its slot back.
RequeuePending(r) ==
    /\ Idle /\ run[r].phase = "Running" /\ ~run[r].jobRef /\ cached[r] = "suspended"
    /\ run' = [run EXCEPT ![r].phase = "Pending"]
    /\ UNCHANGED <<job, intent, cached, branch, pass, delivered, barred, budget>>

\* Create adopts the Job an earlier pass created.
Launch(r) ==
    /\ Idle /\ run[r].phase = "Running" /\ ~run[r].jobRef /\ cached[r] = "active"
    /\ \/ r \in Revises /\ branch[r] # <<"base">> /\ Settle(r, "head_moved") /\ UNCHANGED job
       \/ Settle(r, "launch_refused") /\ UNCHANGED job
       \/ /\ r \in Revises => branch[r] = <<"base">>
          /\ job' = [job EXCEPT ![r] = IF @ = "none" THEN "unplaced" ELSE @]
          /\ Go(r, "record", "none")
    /\ UNCHANGED <<run, intent, cached, branch, delivered, barred, budget>>

RecordJob ==
    /\ pass.at = "record" /\ Return
    /\ run' = [run EXCEPT ![pass.run].jobRef = TRUE]
    /\ UNCHANGED <<job, intent, cached, branch, delivered, barred, budget>>

\* collect: a recorded commit owes only its branch; a held run reads its Job
\* again once nothing holds it.
Collect(r) ==
    /\ Idle /\ run[r].phase = "Running" /\ run[r].jobRef /\ cached[r] # "ended"
    /\ \/ run[r].pushed /\ Go(r, "prebranch", "none") /\ UNCHANGED job
       \/ ~run[r].pushed /\ run[r].held /\ intent[r] = "ended"
          /\ job' = [job EXCEPT ![r] = "gone"] /\ Settle(r, "aborted")
       \/ /\ ~run[r].pushed /\ (run[r].held => intent[r] = "active") /\ UNCHANGED job
          /\ \/ job[r] = "gone" /\ Settle(r, IF run[r].held THEN "hold_expired" ELSE "aborted")
             \/ job[r] = "unplaced" /\ Settle(r, "unschedulable")
             \/ job[r] = "done" /\ Settle(r, "not_built")
             \/ job[r] = "done" /\ IF r \in Plans THEN Settle(r, "ok") ELSE Go(r, "precommit", "none")
    /\ UNCHANGED <<run, intent, cached, branch, delivered, barred, budget>>

\* A terminal pass stops the Job no node could fit.
DeleteUnschedulableJob(r) ==
    /\ Idle /\ run[r].outcome = "unschedulable" /\ job[r] # "gone"
    /\ job' = [job EXCEPT ![r] = "gone"]
    /\ UNCHANGED <<run, intent, cached, branch, pass, delivered, barred, budget>>

(***************************************************************************)
(* The push.                                                               *)
(***************************************************************************)
PastGate == IF pass.at = "precommit" THEN "commit" ELSE IF pass.run \in Revises THEN "head" ELSE "create"

\* pushGate, hold and endedBeforePush: the Intent is read live before the
\* commit and again before the branch.
PushGate_Once == LET r == pass.run IN
    /\ pass.at \in {"precommit", "prebranch"}
    /\ \/ pass.at = "prebranch" \/ intent[r] = "active"
    /\ Call(PastGate) /\ UNCHANGED <<run, job>>
    /\ UNCHANGED <<intent, cached, branch, delivered, barred, budget>>
PushGate == LET r == pass.run IN
    /\ pass.at \in {"precommit", "prebranch"}
    /\ \/ intent[r] = "active" /\ Call(PastGate) /\ UNCHANGED <<run, job>>
       \/ intent[r] = "suspended" /\ run' = [run EXCEPT ![r].held = TRUE] /\ Return /\ UNCHANGED job
       \/ intent[r] = "ended" /\ job' = [job EXCEPT ![r] = "gone"] /\ Settle(r, "aborted") /\ UNCHANGED run
    /\ UNCHANGED <<intent, cached, branch, delivered, barred, budget>>

\* push: the commit is created and recorded before any branch moves; one
\* whose record is lost is left dangling.
PushCommit ==
    /\ pass.at = "commit" /\ Call("prebranch")
    /\ run' = [run EXCEPT ![pass.run].pushed = TRUE]
    /\ UNCHANGED <<job, intent, cached, branch, delivered, barred, budget>>

\* advanceBranch reads the head and moves it only from the pinned base.
ReadHead ==
    /\ pass.at = "head"
    /\ IF branch[pass.run] # <<>> /\ Last(branch[pass.run]) = "base" THEN Call("move")
       ELSE Settle(pass.run, "head_moved")
    /\ UNCHANGED <<run, job, intent, cached, branch, delivered, barred, budget>>

Put(r, commits, outcome) ==
    /\ branch' = [branch EXCEPT ![r] = commits]
    /\ delivered' = delivered \cup {r}
    /\ Settle(r, outcome)
    /\ UNCHANGED <<run, job, intent, cached, barred, budget>>
Refuse(r, outcome) ==
    /\ Settle(r, outcome)
    /\ UNCHANGED <<run, job, intent, cached, branch, delivered, barred, budget>>

FastForward_Forced == LET r == pass.run IN
    pass.at = "move" /\ Put(r, <<"base", "maul">>, "ok")
FastForward_AnyError == LET r == pass.run IN
    /\ pass.at = "move"
    /\ IF branch[r] # <<>> /\ Last(branch[r]) = "base" THEN Put(r, Append(branch[r], "maul"), "ok")
       ELSE Refuse(r, "ok")
FastForward == LET r == pass.run IN
    /\ pass.at = "move"
    /\ IF branch[r] # <<>> /\ Last(branch[r]) = "base" THEN Put(r, Append(branch[r], "maul"), "ok")
       ELSE Refuse(r, "head_moved")

\* createBranch: create-only, adopting the branch that is at the commit.
CreateBranch == LET r == pass.run IN
    /\ pass.at = "create"
    /\ IF branch[r] = <<>> THEN Put(r, <<"maul">>, "ok")
       ELSE Refuse(r, IF Last(branch[r]) = "maul" THEN "ok" ELSE "branch_exists")

\* settle: the terminal status write; only after it is the Job of a run no
\* node could fit deleted.
WriteSettled_KeepsHeld ==
    /\ pass.at = "settle" /\ IF pass.outcome = "unschedulable" THEN Call("stop") ELSE Return
    /\ run' = [run EXCEPT ![pass.run] =
                 [@ EXCEPT !.phase = IF pass.outcome = "ok" THEN "Complete" ELSE "Failed",
                           !.outcome = pass.outcome]]
    /\ UNCHANGED <<job, intent, cached, branch, delivered, barred, budget>>
WriteSettled ==
    /\ pass.at = "settle" /\ IF pass.outcome = "unschedulable" THEN Call("stop") ELSE Return
    /\ run' = [run EXCEPT ![pass.run] =
                 [@ EXCEPT !.phase = IF pass.outcome = "ok" THEN "Complete" ELSE "Failed",
                           !.outcome = pass.outcome, !.held = FALSE]]
    /\ UNCHANGED <<job, intent, cached, branch, delivered, barred, budget>>

StopJob ==
    /\ pass.at = "stop" /\ Return
    /\ job' = [job EXCEPT ![pass.run] = "gone"]
    /\ UNCHANGED <<run, intent, cached, branch, delivered, barred, budget>>

(***************************************************************************)
(* Everything else.                                                        *)
(***************************************************************************)
\* A call or a write fails, or the controller restarts: the pass is over and
\* the next one starts from the run's status.
Fault ==
    /\ ~Idle /\ budget.faults > 0 /\ Return
    /\ budget' = [budget EXCEPT !.faults = @ - 1]
    /\ UNCHANGED <<run, job, intent, cached, branch, delivered, barred>>

Place(r) ==
    /\ job[r] = "unplaced" /\ job' = [job EXCEPT ![r] = "active"]
    /\ UNCHANGED <<run, intent, cached, branch, pass, delivered, barred, budget>>
Finish(r) == \* the agent exits or the Job's deadline passes
    /\ job[r] \in {"unplaced", "active"} /\ job' = [job EXCEPT ![r] = "done"]
    /\ UNCHANGED <<run, intent, cached, branch, pass, delivered, barred, budget>>
Expire(r) == \* --job-ttl
    /\ job[r] = "done" /\ job' = [job EXCEPT ![r] = "gone"]
    /\ UNCHANGED <<run, intent, cached, branch, pass, delivered, barred, budget>>

Sync(r) ==
    /\ cached[r] # intent[r] /\ cached' = [cached EXCEPT ![r] = intent[r]]
    /\ UNCHANGED <<run, job, intent, branch, pass, delivered, barred, budget>>

Bar(r) == barred' = IF pass.run = r /\ pass.at \in {"head", "move", "create", "settle"}
                    THEN barred ELSE barred \cup {r}
Suspend(r) ==
    /\ intent[r] = "active" /\ budget.suspends > 0 /\ Bar(r)
    /\ intent' = [intent EXCEPT ![r] = "suspended"]
    /\ budget' = [budget EXCEPT !.suspends = @ - 1]
    /\ UNCHANGED <<run, job, cached, branch, pass, delivered>>
Resume(r) ==
    /\ intent[r] = "suspended" /\ intent' = [intent EXCEPT ![r] = "active"]
    /\ barred' = barred \ {r}
    /\ UNCHANGED <<run, job, cached, branch, pass, delivered, budget>>
End(r) ==
    /\ intent[r] # "ended" /\ intent' = [intent EXCEPT ![r] = "ended"] /\ Bar(r)
    /\ UNCHANGED <<run, job, cached, branch, pass, delivered, budget>>

PeoplePush(r) ==
    /\ budget.pushes > 0 /\ budget' = [budget EXCEPT !.pushes = @ - 1]
    /\ \/ branch' = [branch EXCEPT ![r] = Append(@, "human")]
       \/ branch[r] # <<>> /\ branch' = [branch EXCEPT ![r] = <<>>]
    /\ UNCHANGED <<run, job, intent, cached, pass, delivered, barred>>

Begin(r) == Grant(r) \/ Abort(r) \/ RequeuePending(r) \/ Launch(r) \/ Collect(r) \/ DeleteUnschedulableJob(r)
Continue == RecordJob \/ PushGate \/ PushCommit \/ ReadHead \/ FastForward \/ CreateBranch \/ WriteSettled \/ StopJob
People(r) == Suspend(r) \/ Resume(r) \/ End(r) \/ (r \notin Plans /\ PeoplePush(r))

Next ==
    \/ Continue \/ Fault
    \/ \E r \in Run : Begin(r) \/ Place(r) \/ Finish(r) \/ Expire(r) \/ Sync(r) \/ People(r)

Spec == Init /\ [][Next]_vars

\* The work queue serves every run again and again; Jobs have a deadline; the
\* cache follows.  Nothing makes a person lift a suspension.
Fairness ==
    /\ WF_vars(Continue)
    /\ \A r \in Run : SF_vars(Begin(r)) /\ WF_vars(Sync(r)) /\ WF_vars(Finish(r))

FairSpec == Spec /\ Fairness

(***************************************************************************)
(* Properties.                                                             *)
(***************************************************************************)
\* An intent that was suspended or ended before the pass was past pushGate
\* (run_controller.go) never sees that run's commit reach its branch, whatever
\* the cache still shows, unless it is resumed.
WantedWhenPushed ==
    [][\A r \in barred : r \in delivered' => r \in delivered]_vars

\* What people put on a branch is never overwritten: the controller's own
\* steps only append to it (advanceBranch, createBranch).
AppendsOnly ==
    pass.at \in {"move", "create"} =>
        \A r \in Run : branch'[r] = branch[r] \/ IsPrefix(branch[r], branch'[r]) \/ budget'.pushes < budget.pushes
NothingForced == [][AppendsOnly]_vars

\* A build or revise run that says Complete put its commit on the branch,
\* over crashes and lost answers in between (settle, complete: true).
CompleteIsPushed == \A r \in Builds \cup Revises : run[r].phase = "Complete" => r \in delivered

\* Until a pass is cut short, no more agents run at once than the pool has
\* slots (holdsSlot), while held runs give theirs back and later push without
\* one.
Faultless == budget.faults = MaxFaults
AgentsBounded == Faultless => Cardinality({r \in Run : job[r] = "active"}) <= MaxConcurrent

\* A run aborted because its intent ended leaves no agent running
\* (intentEnded): EndedJobStopped, until a pass is cut short.
AbortedJobStopped == \A r \in Run : run[r].outcome = "aborted" => job[r] # "active"
EndedJobStopped == Faultless => AbortedJobStopped

\* What the pass of a run keeps, and what none of its steps does (collect, push).
RunsDeliver == TypeOK /\ CompleteIsPushed /\ AgentsBounded /\ EndedJobStopped
PushesWanted == WantedWhenPushed /\ NothingForced

\* A run settles unless its own intent stays suspended: no other intent's
\* suspension, end or fault keeps its slot from it.
EverySettles == \A r \in Run : <>Settled(r) \/ []<>(intent[r] = "suspended")

\* A restart adopts the ref it moved (status.pushedCommit): a run never says
\* the head moved under it when what is there is its own commit.
OwnPushAdopted == \A r \in Run : run[r].outcome = "head_moved" => r \notin delivered
=============================================================================
