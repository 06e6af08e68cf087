------------------------------ MODULE MCIntents -------------------------------
(*****************************************************************************)
(* The intent-controller on its small instances, one at a time: "active"     *)
(* names the instance at work and every other keeps its first state, so      *)
(* one run explores them side by side. The approval of a plan comes with     *)
(* IntentApproval itself, and its two instances restrict what people do      *)
(* there; the other modules come as instances.                               *)
(*****************************************************************************)
EXTENDS IntentApproval

VARIABLES
    active,  \* the instance at work: the others keep their first state
    roundNow, roundItem, roundChecks, roundState, roundRun, roundCached, roundIntent,
    roundPosted, roundPass, roundBudget,
    buildIntent, buildRun, buildView, buildBranch, buildPulls, buildProject, buildAsked,
    buildChanged, buildPass, buildBudget,
    discIssue, discIntents, discPoll, discNudger, discDue, discFind, discPass, discExpiry,
    discMade, discRevived, discRefused, discTold, discBudget

roundVars ==
    <<roundNow, roundItem, roundChecks, roundState, roundRun, roundCached, roundIntent,
    roundPosted, roundPass, roundBudget>>
buildVars ==
    <<buildIntent, buildRun, buildView, buildBranch, buildPulls, buildProject, buildAsked,
    buildChanged, buildPass, buildBudget>>
discVars ==
    <<discIssue, discIntents, discPoll, discNudger, discDue, discFind, discPass, discExpiry,
    discMade, discRevived, discRefused, discTold, discBudget>>

Approval == INSTANCE IntentApproval WITH
    Kinds <- {"replanLabel", "approveLabel", "approve", "replan"}, MaxAttempts <- 1,
    MaxActs <- 2, MaxEdits <- 1, MaxFaults <- 1, MaxTime <- 2
Failing == INSTANCE IntentApproval WITH
    Kinds <- {"replanLabel", "cancel"}, MaxAttempts <- 2, MaxActs <- 2, MaxEdits <- 0,
    MaxFaults <- 1, MaxTime <- 2
Rounds == INSTANCE IntentRounds WITH
    NumPRs <- 2, Reviews <- {}, Commands <- {"c1", "c2"}, MaxRevisions <- 2, MaxCheckFixes <- 0,
    MaxAttempts <- 1, MaxChecks <- 0, MaxRaises <- 0, MaxFaults <- 0, MaxTime <- 2,
    now <- roundNow, item <- roundItem, checks <- roundChecks, state <- roundState,
    run <- roundRun, cached <- roundCached, intent <- roundIntent, posted <- roundPosted,
    pass <- roundPass, budget <- roundBudget
Quiet == INSTANCE IntentRounds WITH
    NumPRs <- 1, Reviews <- {"v1", "v2"}, Commands <- {}, MaxRevisions <- 1, MaxCheckFixes <- 1,
    MaxAttempts <- 2, MaxChecks <- 1, MaxRaises <- 0, MaxFaults <- 1, MaxTime <- 3,
    now <- roundNow, item <- roundItem, checks <- roundChecks, state <- roundState,
    run <- roundRun, cached <- roundCached, intent <- roundIntent, posted <- roundPosted,
    pass <- roundPass, budget <- roundBudget
Checks == INSTANCE IntentRounds WITH
    NumPRs <- 2, Reviews <- {}, Commands <- {"c1"}, MaxRevisions <- 1, MaxCheckFixes <- 1,
    MaxAttempts <- 1, MaxChecks <- 1, MaxRaises <- 0, MaxFaults <- 1, MaxTime <- 2,
    now <- roundNow, item <- roundItem, checks <- roundChecks, state <- roundState,
    run <- roundRun, cached <- roundCached, intent <- roundIntent, posted <- roundPosted,
    pass <- roundPass, budget <- roundBudget
Raised == INSTANCE IntentRounds WITH
    NumPRs <- 2, Reviews <- {}, Commands <- {}, MaxRevisions <- 1, MaxCheckFixes <- 1,
    MaxAttempts <- 1, MaxChecks <- 2, MaxRaises <- 1, MaxFaults <- 1, MaxTime <- 1,
    now <- roundNow, item <- roundItem, checks <- roundChecks, state <- roundState,
    run <- roundRun, cached <- roundCached, intent <- roundIntent, posted <- roundPosted,
    pass <- roundPass, budget <- roundBudget
Attempts == INSTANCE IntentBuilds WITH
    N <- 2, MaxAttempts <- 2, MaxOrdinal <- 3, Moves <- {},
    Bad <- {"failed", "blocked", "refused"}, MaxRounds <- 1, MaxMoves <- 0, MaxFaults <- 1,
    intent <- buildIntent, run <- buildRun, view <- buildView, branch <- buildBranch,
    pulls <- buildPulls, project <- buildProject, asked <- buildAsked, changed <- buildChanged,
    pass <- buildPass, budget <- buildBudget
Opening == INSTANCE IntentBuilds WITH
    N <- 2, MaxAttempts <- 1, MaxOrdinal <- 1, Moves <- {"branch", "pull"}, Bad <- {},
    MaxRounds <- 1, MaxMoves <- 2, MaxFaults <- 1,
    intent <- buildIntent, run <- buildRun, view <- buildView, branch <- buildBranch,
    pulls <- buildPulls, project <- buildProject, asked <- buildAsked, changed <- buildChanged,
    pass <- buildPass, budget <- buildBudget
Revived == INSTANCE IntentBuilds WITH
    N <- 2, MaxAttempts <- 1, MaxOrdinal <- 1, Moves <- {"cancel", "project"},
    Bad <- {"failed"}, MaxRounds <- 2, MaxMoves <- 2, MaxFaults <- 1,
    intent <- buildIntent, run <- buildRun, view <- buildView, branch <- buildBranch,
    pulls <- buildPulls, project <- buildProject, asked <- buildAsked, changed <- buildChanged,
    pass <- buildPass, budget <- buildBudget
Found == INSTANCE IntentDiscovery WITH
    Projects <- {"p"}, Issues <- {1}, MaxActive <- 1, Buffer <- 1, Past <- {1}, TTL <- TRUE,
    Ends <- {"fail", "settle"}, Moves <- {"label", "close"}, Faults <- {"error", "restart"},
    MaxMoves <- 2, MaxFaults <- 0,
    issue <- discIssue, intents <- discIntents, poll <- discPoll, nudger <- discNudger,
    due <- discDue, find <- discFind, pass <- discPass, expiry <- discExpiry, made <- discMade,
    revived <- discRevived, refused <- discRefused, told <- discTold, budget <- discBudget
Shared == INSTANCE IntentDiscovery WITH
    Projects <- {"p", "q"}, Issues <- {1}, MaxActive <- 1, Buffer <- 1, Past <- {}, TTL <- TRUE,
    Ends <- {"settle"}, Moves <- {"label", "unlabel"}, Faults <- {}, MaxMoves <- 2,
    MaxFaults <- 0,
    issue <- discIssue, intents <- discIntents, poll <- discPoll, nudger <- discNudger,
    due <- discDue, find <- discFind, pass <- discPass, expiry <- discExpiry, made <- discMade,
    revived <- discRevived, refused <- discRefused, told <- discTold, budget <- discBudget
Limited == INSTANCE IntentDiscovery WITH
    Projects <- {"p"}, Issues <- {1, 2, 3}, MaxActive <- 1, Buffer <- 1, Past <- {2},
    TTL <- FALSE, Ends <- {}, Moves <- {"label"}, Faults <- {}, MaxMoves <- 3, MaxFaults <- 0,
    issue <- discIssue, intents <- discIntents, poll <- discPoll, nudger <- discNudger,
    due <- discDue, find <- discFind, pass <- discPass, expiry <- discExpiry, made <- discMade,
    revived <- discRevived, refused <- discRefused, told <- discTold, budget <- discBudget

ASSUME MCIntentsAssumption ==
    /\ Approval!IntentApprovalAssumption /\ Failing!IntentApprovalAssumption /\ Rounds!IntentRoundsAssumption
    /\ Quiet!IntentRoundsAssumption /\ Checks!IntentRoundsAssumption /\ Raised!IntentRoundsAssumption
    /\ Attempts!IntentBuildsAssumption /\ Opening!IntentBuildsAssumption /\ Revived!IntentBuildsAssumption
    /\ Found!IntentDiscoveryAssumption /\ Shared!IntentDiscoveryAssumption /\ Limited!IntentDiscoveryAssumption

----------------------------------------------------------------------------
\* The variables of every instance but those of c.
Still(c) ==
    /\ UNCHANGED active
    /\ IF c = "approval" THEN TRUE ELSE UNCHANGED vars
    /\ IF c = "round" THEN TRUE ELSE UNCHANGED roundVars
    /\ IF c = "build" THEN TRUE ELSE UNCHANGED buildVars
    /\ IF c = "disc" THEN TRUE ELSE UNCHANGED discVars

All == <<active, vars, roundVars, buildVars, discVars>>

MCIntentsInit ==
    /\ active \in {"approval", "ends", "rounds", "quiet", "checks", "raised", "builds",
                   "opening", "revived", "discovery", "shared", "limit"}
    /\ IF active = "approval" THEN Approval!Init ELSE Failing!Init
    /\ CASE active = "rounds" -> Rounds!Init
         [] active = "quiet" -> Quiet!Init
         [] active = "checks" -> Checks!Init
         [] OTHER -> Raised!Init
    /\ CASE active = "builds" -> Attempts!Init
         [] active = "opening" -> Opening!Init
         [] OTHER -> Revived!Init
    /\ CASE active = "discovery" -> Found!Init
         [] active = "shared" -> Shared!Init
         [] OTHER -> Limited!Init

MCIntentsNext ==
    \/ active = "approval" /\ Approval!Next /\ Still("approval")
    \/ active = "ends" /\ Failing!Next /\ Still("approval")
    \/ active = "rounds" /\ Rounds!Next /\ Still("round")
    \/ active = "quiet" /\ Quiet!Next /\ Still("round")
    \/ active = "checks" /\ Checks!Next /\ Still("round")
    \/ active = "raised" /\ Raised!Next /\ Still("round")
    \/ active = "builds" /\ Attempts!Next /\ Still("build")
    \/ active = "opening" /\ Opening!Next /\ Still("build")
    \/ active = "revived" /\ Revived!Next /\ Still("build")
    \/ active = "discovery" /\ Found!Next /\ Still("disc")
    \/ active = "shared" /\ Shared!Next /\ Still("disc")
    \/ active = "limit" /\ Limited!Next /\ Still("disc")

MCIntentsSpec == MCIntentsInit /\ [][MCIntentsNext]_All
----------------------------------------------------------------------------
\* A review or command starts one round, by its id; a round number is one lease
\* over both pull requests, though its run's name is one repository's and the
\* cache lags; a request for changes is read by a round or still starts one, unless
\* a check-fix round of its pull request was leased inside its quiet window, which
\* the next window then starts at; and a round has one notice.  (intent_revise.go:
\* eligiblePRCommand, leasedRound, reviewCutoff, owedRoundNotice)
RoundsServed ==
    /\ active = "rounds" => /\ Rounds!TypeOK /\ Rounds!TakenOnce /\ Rounds!OneLeasePerRound
                            /\ Rounds!NoFeedbackLost /\ Rounds!ServedInTurn /\ Rounds!NoticeOnce
    /\ active = "quiet" => /\ Quiet!TypeOK /\ Quiet!TakenOnce /\ Quiet!NoFeedbackLost /\ Quiet!NoticeOnce
    /\ active = "checks" => Checks!OneLeasePerRound /\ Checks!NoFeedbackLost /\ Checks!NoticeOnce
    /\ active = "raised" => Raised!OneLeasePerRound /\ Raised!NoticeOnce

\* A repository never has two builds at once, nor one after its last attempt;
\* no pull request is opened before every approved build is complete, none twice
\* beside maul's own; and an intent in review has exactly its round's ones,
\* however passes are cut short, resumed and read an old copy of the runs.
\* (intent_build.go: ensureBuilds, openPullRequests, startRound)
BuildsWhole ==
    /\ active = "builds" => Attempts!TypeOK /\ Attempts!AttemptsInTurn
    /\ active = "opening" => Opening!TypeOK /\ Opening!OpenedWhenAllBuilt /\ Opening!OwnAdopted /\ Opening!ReviewWhole
    /\ active = "revived" => Revived!ReviewWhole

\* No trigger creates two Intents, whatever the TTL deletes in between; two
\* Projects that watch one issue never have an Intent each on it; and of three
\* issues labelled while a poll is under way a Project takes no more than its limit
\* of live Intents leaves room for.  The Intents that a label revives are not
\* counted: a poll that counted before one creates its own beside it.
\* (project_controller.go: triggerSinceClose, sharedIssue, the active limit)
DiscoveredOnce ==
    /\ active = "discovery" => Found!TypeOK /\ Found!CreatedOnce
    /\ active = "shared" => Shared!OneIntentPerIssue
    /\ active = "limit" => Limited!TypeOK /\ Limited!CreatedOnce /\ Limited!ActiveWithinLimit

\* What a step of an intent never does: complete a run a posted notice spoke
\* of, replace a run that has not settled, forget a pull request untold, or
\* delete an intent revived as its TTL fires.
IntentSteps ==
    /\ Rounds!NoticeFinal
    /\ Attempts!ActiveSticky /\ Revived!ToldBeforeForgotten /\ Found!RevivedKept
=============================================================================
