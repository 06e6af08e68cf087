---------------------------- MODULE IntentBuilds ----------------------------
(***************************************************************************)
(* The build round of one Intent over several repositories: a build each,  *)
(* its attempts, the blocks it meets, and the pull requests opened one per *)
(* pass once every build has pushed; then, when it ends meanwhile, the     *)
(* notices to what it opened, and its revival.                             *)
(*                                                                         *)
(* A pass decides on the Intent as the API server holds it and on the      *)
(* informer's copy of its runs; people work on GitHub and on the Project   *)
(* between its calls, and any call may be its last.  The Project is not    *)
(* suspended, under its cost ceiling, and keeps its repositories' keys.    *)
(***************************************************************************)
EXTENDS Naturals, Sequences, FiniteSets, FiniteSetsExt, SequencesExt

CONSTANTS
    N,           \* repositories of the Project, in plan order
    MaxAttempts, \* counted failures a repository's builds may have
    MaxOrdinal,  \* MaxIntentRunAttempt: attempts of any kind
    Moves,       \* what people do, among MoveKinds
    Bad,         \* how builds end otherwise than complete, among BadEnds
    MaxRounds, MaxMoves, MaxFaults \* bounds

Repos == 1..N
MoveKinds == {"branch", "pull", "project", "cancel"}
BadEnds == {"failed", "blocked", "refused"} \* refused: by the egress proxy's policy

IntentBuildsAssumption ==
    /\ {N, MaxAttempts, MaxOrdinal, MaxRounds} \subseteq Nat \ {0}
    /\ {MaxMoves, MaxFaults} \subseteq Nat
    /\ Moves \subseteq MoveKinds /\ Bad \subseteq BadEnds

VARIABLES
    intent,  \* its status
    run,     \* build runs by plan round and repository, one per attempt
    view,    \* the informer's copy of the current round's
    branch,  \* the intent branch of each repository: the commit it is at
    pulls,   \* pull requests ever opened from it
    project, \* repositories the Project lists
    asked,   \* "cancel", "trigger": what an approver asked on the issue
    changed, \* the Project changed, or the process restarted, since the block
    pass,    \* the pass under way: the call it makes next
    budget

vars == <<intent, run, view, branch, pulls, project, asked, changed, pass, budget>>

Absent == <<0, 0>>
Other == <<0, 1>>                       \* a commit no run pushed
Pushed(n, r) == <<n, Len(run[n][r])>>   \* what its latest build pushed
Nobody == <<0, 0>>
Phases == {"Planning", "Building", "Blocked", "InReview", "Failed", "Closed"}
Reasons == {"none", "image", "exists", "foreign", "missing", "changed", "refused"}

TypeOK ==
    /\ intent \in [phase: Phases, reason: Reasons, round: 1..MaxRounds, approved: SUBSET Repos,
                   prs: [Repos -> Nat], active: Repos \X Nat \cup {Nobody}, noticed: BOOLEAN,
                   unreached: SUBSET Repos]
    /\ run \in [1..MaxRounds -> [Repos -> Seq({"pending", "complete"} \cup BadEnds)]]
    /\ \A r \in Repos :
        /\ \A n \in 1..MaxRounds : Len(run[n][r]) <= MaxOrdinal
        /\ Len(view[r]) <= Len(run[intent.round][r])
        /\ \A i \in 1..Len(pulls[r]) :
              pulls[r][i] \in [by: {"maul", "other"}, round: 1..MaxRounds, open: BOOLEAN, told: BOOLEAN]
        /\ Cardinality({i \in 1..Len(pulls[r]) : pulls[r][i].open}) <= 1
        /\ intent.prs[r] # 0 => pulls[r][intent.prs[r]].by = "maul"
    /\ project \subseteq Repos /\ asked \subseteq {"cancel", "trigger"} /\ changed \in BOOLEAN
    /\ (intent.reason # "none") = (intent.phase = "Blocked")
    /\ intent.phase = "Blocked" => intent.active = Nobody

Rest == [at |-> "idle"]
Init ==
    /\ intent = [phase |-> "Building", reason |-> "none", round |-> 1, approved |-> Repos,
                 prs |-> [r \in Repos |-> 0], active |-> Nobody, noticed |-> FALSE, unreached |-> {}]
    /\ run = [n \in 1..MaxRounds |-> [r \in Repos |-> <<>>]] /\ view = run[1]
    /\ branch = [r \in Repos |-> Absent] /\ pulls = [r \in Repos |-> <<>>]
    /\ project = Repos /\ asked = {} /\ changed = FALSE
    /\ pass = Rest /\ budget = [moves |-> MaxMoves, faults |-> MaxFaults]

Idle == pass.at = "idle"
Ended == intent.phase \in {"Failed", "Closed"}
In(phase) == Idle /\ intent.phase = phase
GitHub == <<branch, pulls, project, asked>>
Write(status) == intent' = status /\ pass' = Rest
\* block, fail: one status write; both drop the active run.
Block(reason) == /\ Write([intent EXCEPT !.phase = "Blocked", !.reason = reason, !.active = Nobody])
                 /\ changed' = FALSE
End(phase) == /\ Write([intent EXCEPT !.phase = phase, !.reason = "none", !.active = Nobody])
              /\ UNCHANGED changed

(***************************************************************************)
(* The round, read from the informer's copy of the runs.                   *)
(***************************************************************************)
Latest(r) == IF view[r] = <<>> THEN "none" ELSE Last(view[r])
Counted(r) == Cardinality({i \in 1..Len(view[r]) : view[r][i] \in {"failed", "refused"}})
\* Every attempt meets the same refusal by policy.
Spent(r) == Latest(r) = "refused" \/ (Latest(r) = "failed" /\ Counted(r) >= MaxAttempts)
OutOfOrdinals(r) == Latest(r) \in BadEnds /\ Len(view[r]) >= MaxOrdinal
InFlight == {r \in intent.approved : Latest(r) = "pending"}
ToLaunch == {r \in intent.approved : Latest(r) \in {"none", "failed", "refused"}}
ToOpen(r) == Latest(r) = "complete" /\ intent.prs[r] = 0
Gone == ~(intent.approved \subseteq project)
OpenPull(r) == {i \in 1..Len(pulls[r]) : pulls[r][i].open}

\* branchConflict: only this round's own builds make the branch its own.
Conflict(r) == branch[r] # Absent /\ ~(Latest(r) = "complete" /\ branch[r] = Pushed(intent.round, r))
Taken == {r \in Repos : branch[r] # Absent}

AllBuilt == \A r \in intent.approved : Latest(r) = "complete"

(***************************************************************************)
(* building                                                                *)
(***************************************************************************)
FailRound ==
    /\ In("Building")
    /\ Gone \/ \E r \in intent.approved : Spent(r) \/ OutOfOrdinals(r)
    /\ End("Failed")
    /\ UNCHANGED <<run, view, GitHub, budget>>

Goes == In("Building") /\ ~Gone /\ \A r \in intent.approved : ~Spent(r) /\ ~OutOfOrdinals(r)

BlockBuild ==
    /\ Goes /\ \E r \in intent.approved : Latest(r) = "blocked"
    /\ Block("image")
    /\ UNCHANGED <<run, view, GitHub, budget>>

Unblocked == Goes /\ \A r \in intent.approved : Latest(r) # "blocked"

Begin(todo, resume) == [at |-> "create", todo |-> todo, launched |-> {}, resume |-> resume, taken |-> Taken]

\* launchBuilds: every branch is read, then every run is created.
LaunchBuilds ==
    /\ Unblocked /\ ~AllBuilt /\ ToLaunch # {}
    /\ IF \E r \in ToLaunch : Conflict(r)
       THEN Block("exists")
       ELSE pass' = Begin(ToLaunch, FALSE) /\ UNCHANGED <<intent, changed>>
    /\ UNCHANGED <<run, view, GitHub, budget>>

\* Only in-flight builds: ensureBuilds has nothing to create.
AwaitBuilds ==
    /\ Unblocked /\ ~AllBuilt /\ ToLaunch = {}
    /\ pass' = Begin({}, FALSE)
    /\ UNCHANGED <<intent, run, view, GitHub, changed, budget>>

Attempt(r) == Len(view[r]) + 1
\* createRun: the name is the lease; the run that holds it is adopted.
Created(r) == IF Len(run[intent.round][r]) >= Attempt(r) THEN run[intent.round][r]
              ELSE Append(run[intent.round][r], "pending")

CreateRun ==
    /\ pass.at = "create" /\ pass.todo # {}
    /\ LET r == Min(pass.todo) IN
       /\ run' = [run EXCEPT ![intent.round][r] = Created(r)]
       /\ pass' = [pass EXCEPT !.todo = @ \ {r}, !.launched = @ \cup {<<r, Attempt(r)>>}]
    /\ UNCHANGED <<intent, view, GitHub, changed, budget>>

First(s) == CHOOSE x \in s : \A y \in s : x[1] <= y[1]
InFlightRuns == {<<r, Len(view[r])>> : r \in InFlight}
\* ensureBuilds: sticky; resumeBuilds: the first launched, else in flight.
Active ==
    CASE InFlightRuns \cup pass.launched = {} -> intent.active
      [] pass.resume /\ pass.launched # {} -> First(pass.launched)
      [] ~pass.resume /\ intent.active \in InFlightRuns \cup pass.launched -> intent.active
      [] InFlightRuns # {} -> First(InFlightRuns)
      [] OTHER -> First(pass.launched)

RecordActive ==
    /\ pass.at = "create" /\ pass.todo = {}
    /\ Write([intent EXCEPT !.phase = "Building", !.reason = "none", !.active = Active])
    /\ UNCHANGED <<run, view, GitHub, changed, budget>>

(***************************************************************************)
(* openPullRequests: one per pass, for the first repository with none      *)
(* recorded; there is one, since the last record leaves Building.          *)
(***************************************************************************)
OpenPullRequests ==
    /\ Unblocked /\ AllBuilt
    /\ LET r == Min({q \in intent.approved : intent.prs[q] = 0}) IN
       pass' = [at |-> "find", repo |-> r]
    /\ UNCHANGED <<intent, run, view, GitHub, changed, budget>>

Go(at) == pass' = [pass EXCEPT !.at = at] /\ UNCHANGED <<intent, changed>>
Repo == pass.repo

\* ownPullRequest, among those open.
Own(r) == {i \in OpenPull(r) : pulls[r][i].by = "maul"}

FindPullRequest ==
    /\ pass.at = "find"
    /\ CASE Own(Repo) # {} -> Go("record")
         [] OpenPull(Repo) # {} /\ \A i \in OpenPull(Repo) : pulls[Repo][i].by = "other" -> Block("foreign")
         [] OTHER -> Go("head")
    /\ UNCHANGED <<run, view, GitHub, budget>>

ReadHead ==
    /\ pass.at = "head"
    /\ CASE branch[Repo] = Absent -> Block("missing")
         [] branch[Repo] # Absent /\ branch[Repo] # Pushed(intent.round, Repo) -> Block("changed")
         [] OTHER -> Go("open")
    /\ UNCHANGED <<run, view, GitHub, budget>>

\* GitHub refuses without the branch, or beside another pull request from it.
CreatePullRequest ==
    /\ pass.at = "open"
    /\ IF branch[Repo] = Absent \/ OpenPull(Repo) # {}
       THEN Block("refused") /\ UNCHANGED pulls
       ELSE /\ Go("record")
            /\ pulls' = [pulls EXCEPT ![Repo] = Append(@, [by |-> "maul", round |-> intent.round,
                                                           open |-> TRUE, told |-> FALSE])]
    /\ UNCHANGED <<run, view, branch, project, asked, budget>>

Complete_Early(prs) == \E r \in intent.approved : prs[r] # 0
\* everyRecorded
Complete(prs) == \A r \in intent.approved : prs[r] # 0
MaulsLast(r) == Max({i \in 1..Len(pulls[r]) : pulls[r][i].by = "maul"})

RecordPullRequest ==
    /\ pass.at = "record"
    /\ LET prs == [intent.prs EXCEPT ![Repo] = MaulsLast(Repo)] IN
       IF Complete(prs) THEN Write([intent EXCEPT !.prs = prs, !.phase = "InReview", !.active = Nobody])
                        ELSE Write([intent EXCEPT !.prs = prs])
    /\ UNCHANGED <<run, view, GitHub, changed, budget>>

(***************************************************************************)
(* blocked: what may hold a block is read again, then the round resumes.   *)
(***************************************************************************)
\* branchHoldCheck: only where the block can be about.
BranchHolds(r) ==
    \/ intent.reason = "foreign" /\ ToOpen(r) /\ \E i \in OpenPull(r) : pulls[r][i].by = "other"
    \/ intent.reason \in {"missing", "changed"} /\ ToOpen(r) /\ branch[r] # Pushed(intent.round, r)
    \/ intent.reason = "exists" /\ Latest(r) \notin {"complete", "pending"} /\ Conflict(r)

BlockHolds ==
    \/ intent.reason \in {"image", "refused"} /\ ~changed
    \/ ~Gone /\ \E r \in intent.approved : BranchHolds(r)

\* resumeBuilds: what was blocked on its image, while attempts are left.
Resumable(r) == Latest(r) = "blocked" /\ Counted(r) < MaxAttempts /\ Len(view[r]) < MaxOrdinal

Resume ==
    /\ In("Blocked") /\ ~BlockHolds
    /\ pass' = Begin(IF Gone THEN {} ELSE {r \in intent.approved : Resumable(r)}, TRUE)
    /\ UNCHANGED <<intent, run, view, GitHub, changed, budget>>

\* The poll of the issue sees a cancel, or the issue closed.
Cancel ==
    /\ Idle /\ "cancel" \in asked /\ ~Ended /\ intent.phase # "InReview"
    /\ End("Closed")
    /\ UNCHANGED <<run, view, GitHub, budget>>

(***************************************************************************)
(* ended: the notices, then the hand-off.                                  *)
(***************************************************************************)
Left(r) == intent.prs[r] # 0
\* untrackedPullRequests, not noticed yet.
Owed == Ended /\ (\E r \in Repos : Left(r)) /\ ~intent.noticed

NoticeUntracked ==
    /\ Idle /\ Owed
    /\ pass' = [at |-> "tell", todo |-> {r \in Repos : Left(r)} \cap project,
                unreached |-> {r \in Repos : Left(r)} \ project]
    /\ UNCHANGED <<intent, run, view, GitHub, changed, budget>>

PostNotice ==
    /\ pass.at = "tell" /\ pass.todo # {}
    /\ LET r == Min(pass.todo) IN
       /\ \/ /\ pulls' = [pulls EXCEPT ![r][intent.prs[r]].told = TRUE]
             /\ pass' = [pass EXCEPT !.todo = @ \ {r}]
             /\ UNCHANGED budget
          \/ /\ budget.faults > 0 /\ budget' = [budget EXCEPT !.faults = @ - 1]
             /\ pass' = [pass EXCEPT !.todo = @ \ {r}, !.unreached = @ \cup {r}]
             /\ UNCHANGED pulls
    /\ UNCHANGED <<intent, run, view, branch, project, asked, changed>>

RecordNoticed ==
    /\ pass.at = "tell" /\ pass.todo = {}
    /\ Write([intent EXCEPT !.noticed = TRUE, !.unreached = pass.unreached])
    /\ UNCHANGED <<run, view, GitHub, changed, budget>>

\* handOff: startPlanning forgets the pull requests.
Revive ==
    /\ In("Failed") /\ "trigger" \in asked /\ ~Owed /\ intent.round < MaxRounds
    /\ Write([intent EXCEPT !.phase = "Planning", !.round = @ + 1, !.prs = [r \in Repos |-> 0],
                            !.noticed = FALSE, !.unreached = {}])
    /\ view' = run[intent.round + 1] /\ asked' = asked \ {"trigger"}
    /\ UNCHANGED <<run, branch, pulls, project, changed, budget>>

\* A plan of the revived Intent is approved (IntentApproval).
Approve ==
    /\ In("Planning") /\ \E s \in SUBSET project \ {{}} :
          Write([intent EXCEPT !.phase = "Building", !.approved = s])
    /\ UNCHANGED <<run, view, GitHub, changed, budget>>

(***************************************************************************)
(* The runs (IntentRuns), the informer, people, and faults.                *)
(***************************************************************************)
Sync == view # run[intent.round] /\ Idle /\ view' = run[intent.round]
        /\ UNCHANGED <<intent, run, GitHub, changed, pass, budget>>

Ends(n, r, outcome) == run' = [run EXCEPT ![n][r] = Append(Front(@), outcome)]
\* intentEnded: the Intent has ended or the repository has left.
Aborted(r) == Ended \/ r \notin project
FinishRun(n, r) ==
    /\ run[n][r] # <<>> /\ Last(run[n][r]) = "pending"
    /\ IF Aborted(r) THEN Ends(n, r, "failed") /\ UNCHANGED branch
       ELSE \/ \E outcome \in Bad : Ends(n, r, outcome) /\ UNCHANGED branch
            \/ branch[r] # Absent /\ Ends(n, r, "failed") /\ UNCHANGED branch
            \/ branch[r] = Absent /\ Ends(n, r, "complete") /\ branch' = [branch EXCEPT ![r] = Pushed(n, r)]
    /\ UNCHANGED <<intent, view, pulls, project, asked, changed, pass, budget>>

Spend(kind) == kind \in Moves /\ budget.moves > 0 /\ budget' = [budget EXCEPT !.moves = @ - 1]
Closed(r) == [i \in 1..Len(pulls[r]) |-> [pulls[r][i] EXCEPT !.open = FALSE]]

MoveBranch(r) ==
    /\ Spend("branch")
    /\ \/ branch[r] # Absent /\ branch' = [branch EXCEPT ![r] = Absent]
             /\ pulls' = [pulls EXCEPT ![r] = Closed(r)]
       \/ branch' = [branch EXCEPT ![r] = Other] /\ branch[r] # Other /\ UNCHANGED pulls
    /\ UNCHANGED <<intent, run, view, project, asked, changed, pass>>
\* A person puts back what the block says was there; that costs nothing.
Repair(r) ==
    /\ intent.phase = "Blocked" /\ Idle /\ UNCHANGED <<intent, run, view, project, asked, changed, pass, budget>>
    /\ \/ intent.reason \in {"missing", "changed"} /\ Latest(r) = "complete"
             /\ branch' = [branch EXCEPT ![r] = Pushed(intent.round, r)] /\ branch' # branch /\ UNCHANGED pulls
       \/ intent.reason = "exists" /\ Conflict(r) /\ branch' = [branch EXCEPT ![r] = Absent]
             /\ pulls' = [pulls EXCEPT ![r] = Closed(r)]
       \/ intent.reason = "foreign" /\ OpenPull(r) # {} /\ pulls' = [pulls EXCEPT ![r] = Closed(r)]
             /\ UNCHANGED branch
MovePull(r) ==
    /\ Spend("pull")
    /\ \/ OpenPull(r) # {} /\ pulls' = [pulls EXCEPT ![r] = Closed(r)]
       \/ branch[r] # Absent /\ OpenPull(r) = {}
             /\ pulls' = [pulls EXCEPT ![r] = Append(@, [by |-> "other", round |-> intent.round,
                                                         open |-> TRUE, told |-> FALSE])]
    /\ UNCHANGED <<intent, run, view, branch, project, asked, changed, pass>>
ChangeProject(r) ==
    /\ Spend("project") /\ changed' = TRUE
    /\ project' \in {project \cup {r}, project \ {r}} \ {{}}
    /\ UNCHANGED <<intent, run, view, branch, pulls, asked, pass>>
AskCancel ==
    /\ Spend("cancel") /\ ~Ended /\ asked' = asked \cup {"cancel"}
    /\ UNCHANGED <<intent, run, view, branch, pulls, project, changed, pass>>
Trigger ==
    /\ intent.phase = "Failed" /\ intent.round < MaxRounds /\ asked' = asked \cup {"trigger"}
    /\ UNCHANGED <<intent, run, view, branch, pulls, project, changed, pass, budget>>

\* A call fails, or the process restarts and forgets what it remembered.
Fault ==
    /\ budget.faults > 0 /\ budget' = [budget EXCEPT !.faults = @ - 1]
    /\ pass' = Rest /\ changed' \in {changed, TRUE}
    /\ UNCHANGED <<intent, run, view, GitHub>>

Reconcile ==
    \/ FailRound \/ BlockBuild \/ LaunchBuilds \/ AwaitBuilds \/ CreateRun \/ RecordActive
    \/ OpenPullRequests \/ FindPullRequest \/ ReadHead \/ CreatePullRequest \/ RecordPullRequest
    \/ Resume \/ Cancel \/ NoticeUntracked \/ PostNotice \/ RecordNoticed \/ Revive

People == Trigger \/ AskCancel
          \/ \E r \in Repos : MoveBranch(r) \/ Repair(r) \/ MovePull(r) \/ ChangeProject(r)

Next ==
    \/ Reconcile \/ Approve \/ Sync \/ People \/ Fault
    \/ \E n \in 1..MaxRounds, r \in Repos : FinishRun(n, r)

Spec == Init /\ [][Next]_vars

(***************************************************************************)
(* Properties                                                              *)
(***************************************************************************)
Mauls(r, n) == {i \in 1..Len(pulls[r]) : pulls[r][i].by = "maul" /\ pulls[r][i].round = n}

\* A build that fails leaves no pull request behind: while maul has opened
\* one for the round, every approved build of it is complete.
OpenedWhenAllBuilt ==
    (\E r \in Repos : Mauls(r, intent.round) # {})
        => \A r \in intent.approved : run[intent.round][r] # <<>> /\ Last(run[intent.round][r]) = "complete"

\* A pull request whose record was lost is adopted: a pass never goes on to
\* open a second one beside maul's own.
OwnAdopted == pass.at \in {"head", "open"} => \A i \in OpenPull(pass.repo) : pulls[pass.repo][i].by = "other"

\* In review each approved repository has its pull request of this round,
\* and no other repository has one.
ReviewWhole ==
    intent.phase = "InReview" =>
        \A r \in Repos : IF r \in intent.approved THEN intent.prs[r] \in Mauls(r, intent.round) ELSE intent.prs[r] = 0

\* However passes are cut short, resumed or read an old copy of the runs, a
\* repository never has two builds at once, nor one after its last attempt.
AttemptsInTurn ==
    \A n \in 1..MaxRounds, r \in Repos : LET s == run[n][r] IN
        /\ \A i \in 1..Len(s) - 1 : s[i] \in {"failed", "blocked"}
        /\ Cardinality({i \in 1..Len(s) : s[i] = "failed"}) <= MaxAttempts

\* A revival forgets a pull request only once it was told it is no longer
\* tracked, or the condition named it as one that could not be.
ToldBeforeForgotten ==
    [][\A r \in Repos : intent.prs[r] # 0 /\ intent'.prs[r] = 0
          => pulls[r][intent.prs[r]].told \/ r \in intent.unreached]_vars

\* activeRun is sticky: while Building it is replaced only once the run it
\* names has settled.
ActiveSticky ==
    [][intent.phase = "Building" /\ intent'.phase = "Building" /\ intent.active \notin {Nobody, intent'.active}
          => run[intent.round][intent.active[1]][intent.active[2]] # "pending"]_vars

\* Every pull request maul opened is told when the Intent ends before all
\* are.
OpenedTold ==
    Ended /\ Idle /\ ~Owed => \A r \in Repos : \A i \in Mauls(r, intent.round) :
        pulls[r][i].open => pulls[r][i].told \/ r \in intent.unreached

\* The builds still running when the Intent fails abort: none of them
\* pushes once it is revived.
StaleAborts ==
    [][\A n \in 1..MaxRounds, r \in Repos :
          branch'[r] # branch[r] /\ branch'[r] = Pushed(n, r) => n = intent.round]_vars

\* No build is created on a branch that was taken when its pass began.
BranchReadFirst ==
    [][\A r \in Repos : Len(run'[intent.round][r]) > Len(run[intent.round][r]) => r \notin pass.taken]_vars

Runs == \E n \in 1..MaxRounds, r \in Repos : FinishRun(n, r)
Pass == CreateRun \/ RecordActive \/ OpenPullRequests \/ FindPullRequest \/ ReadHead \/ CreatePullRequest
        \/ RecordPullRequest \/ LaunchBuilds \/ FailRound \/ BlockBuild \/ NoticeUntracked \/ PostNotice \/ RecordNoticed
\* A pass ends and the next one comes; builds end and the informer catches
\* up; the poll comes round between passes.
Fairness == WF_vars(Pass) /\ WF_vars(AwaitBuilds) /\ WF_vars(Runs) /\ SF_vars(Sync) /\ SF_vars(Cancel) /\ SF_vars(Resume)
FairSpec == Spec /\ Fairness

\* A build round ends, whatever is cut short: reviewed, blocked or over.
BuildingEnds == intent.phase = "Building" ~> intent.phase # "Building"

\* A branch or pull request block lifts once its cause is gone for good,
\* whatever the other repositories' branches do.
Clear == \A r \in intent.approved :
            /\ \A i \in OpenPull(r) : pulls[r][i].by = "maul"
            /\ ToOpen(r) => branch[r] = Pushed(intent.round, r)
BlockLifts == (intent.reason \in {"foreign", "missing", "changed"} /\ []Clear) ~> intent.phase # "Blocked"
=============================================================================
