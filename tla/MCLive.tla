-------------------------------- MODULE MCLive --------------------------------
(*****************************************************************************)
(* What must happen in the end, on small instances, one at a time:           *)
(* "active" names the instance at work, every other keeps its first state,   *)
(* and fairness is what each module states of its own actions.               *)
(*****************************************************************************)
EXTENDS Naturals, Sequences, FiniteSets

VARIABLES
    active,  \* the instance at work: the others keep their first state
    hookAttempts, hookServer, hookSeen, hookOrder, hookNext, hookQueue, hookHandling,
    hookHandled, hookSweep, hookRecent, hookForgot, hookLoose, hookUsed,
    reviewFnd, reviewCache, reviewGithub, reviewMail, reviewPass, reviewIntegration, reviewUsed,
    staleFamily, staleCache, staleAlert, staleMail, stalePass, staleIngesting, staleTold,
    staleUploads, staleFailures, staleResets,
    apprNow, apprIssue, apprAct, apprReply, apprComment, apprInput, apprRun, apprIntent,
    apprPass, apprBudget,
    discIssue, discIntents, discPoll, discNudger, discDue, discFind, discPass, discExpiry,
    discMade, discRevived, discRefused, discTold, discBudget,
    ruFinding, ruRun, ruShown, ruRollup, ruLog, ruSpent, ruEmitted, ruFpass, ruRpass,
    ruCollecting, ruLate, ruBudget,
    usPod, usSpent, usBroker, usRun, usRollup, usRights, usPass, usFirst, usBudget,
    pvIntent, pvPreview, pvDep, pvRs, pvPods, pvReady, pvIng, pvLate, pvOld, pvSlipped, pvWork,
    pvSweep, pvBudget,
    evEval, evUnit, evCache, evEvents, evJob, evGate, evTodo, evWorker, evSecond, evFaults

hookVars ==
    <<hookAttempts, hookServer, hookSeen, hookOrder, hookNext, hookQueue, hookHandling,
    hookHandled, hookSweep, hookRecent, hookForgot, hookLoose, hookUsed>>
reviewVars ==
    <<reviewFnd, reviewCache, reviewGithub, reviewMail, reviewPass, reviewIntegration, reviewUsed>>
staleVars ==
    <<staleFamily, staleCache, staleAlert, staleMail, stalePass, staleIngesting, staleTold,
    staleUploads, staleFailures, staleResets>>
apprVars ==
    <<apprNow, apprIssue, apprAct, apprReply, apprComment, apprInput, apprRun, apprIntent,
    apprPass, apprBudget>>
discVars ==
    <<discIssue, discIntents, discPoll, discNudger, discDue, discFind, discPass, discExpiry,
    discMade, discRevived, discRefused, discTold, discBudget>>
ruVars ==
    <<ruFinding, ruRun, ruShown, ruRollup, ruLog, ruSpent, ruEmitted, ruFpass, ruRpass,
    ruCollecting, ruLate, ruBudget>>
usVars ==
    <<usPod, usSpent, usBroker, usRun, usRollup, usRights, usPass, usFirst, usBudget>>
pvVars ==
    <<pvIntent, pvPreview, pvDep, pvRs, pvPods, pvReady, pvIng, pvLate, pvOld, pvSlipped, pvWork,
    pvSweep, pvBudget>>
evVars ==
    <<evEval, evUnit, evCache, evEvents, evJob, evGate, evTodo, evWorker, evSecond, evFaults>>

Hook == INSTANCE Deliveries WITH
    GUIDs <- {"a", "b"}, QueueSize <- 1, Workers <- 1, Cap <- 2, maxAttempts <- 2,
    MaxSends <- 5, MaxBursts <- 1, MaxTimeouts <- 0, MaxStops <- 1, MaxCrashes <- 0,
    MaxExpiries <- 0, MaxReplays <- 0,
    attempts <- hookAttempts, server <- hookServer, seen <- hookSeen, order <- hookOrder,
    next <- hookNext, queue <- hookQueue, handling <- hookHandling, handled <- hookHandled,
    sweep <- hookSweep, recent <- hookRecent, forgot <- hookForgot, loose <- hookLoose,
    used <- hookUsed
Review == INSTANCE ReviewClose WITH
    MaxClicks <- 3, MaxForeign <- 0, MaxLost <- 1, MaxCopies <- 0, MaxUnreadable <- 0,
    MaxFailures <- 0,
    fnd <- reviewFnd, cache <- reviewCache, github <- reviewGithub, mail <- reviewMail,
    pass <- reviewPass, integration <- reviewIntegration, used <- reviewUsed
Stale == INSTANCE StaleAlerts WITH
    Older <- {"older"}, Newer <- {"new"}, InformerLag <- TRUE, MaxUploads <- 4,
    MaxFailures <- 1, MaxResets <- 1,
    family <- staleFamily, cache <- staleCache, alert <- staleAlert, mail <- staleMail,
    pass <- stalePass, ingesting <- staleIngesting, told <- staleTold, uploads <- staleUploads,
    failures <- staleFailures, resets <- staleResets
Approval == INSTANCE IntentApproval WITH
    Kinds <- {"approve", "cancel"}, MaxAttempts <- 1, MaxActs <- 2, MaxEdits <- 0,
    MaxFaults <- 1, MaxTime <- 1,
    now <- apprNow, issue <- apprIssue, act <- apprAct, reply <- apprReply,
    comment <- apprComment, input <- apprInput, run <- apprRun, intent <- apprIntent,
    pass <- apprPass, budget <- apprBudget
Discovery == INSTANCE IntentDiscovery WITH
    Projects <- {"p"}, Issues <- {1}, MaxActive <- 1, Buffer <- 1, Past <- {}, TTL <- TRUE,
    Ends <- {"fail"}, Moves <- {"label"}, Faults <- {}, MaxMoves <- 2, MaxFaults <- 0,
    issue <- discIssue, intents <- discIntents, poll <- discPoll, nudger <- discNudger,
    due <- discDue, find <- discFind, pass <- discPass, expiry <- discExpiry, made <- discMade,
    revived <- discRevived, refused <- discRefused, told <- discTold, budget <- discBudget
Nudged == INSTANCE IntentDiscovery WITH
    Projects <- {"p"}, Issues <- {1, 2}, MaxActive <- 2, Buffer <- 1, Past <- {1, 2},
    TTL <- FALSE, Ends <- {}, Moves <- {"label"}, Faults <- {"error"}, MaxMoves <- 2,
    MaxFaults <- 1,
    issue <- discIssue, intents <- discIntents, poll <- discPoll, nudger <- discNudger,
    due <- discDue, find <- discFind, pass <- discPass, expiry <- discExpiry, made <- discMade,
    revived <- discRevived, refused <- discRefused, told <- discTold, budget <- discBudget
Counts == INSTANCE Rollups WITH
    Findings <- {"f"}, Runs <- {}, Ledger <- 8, Deletes <- {"ttl"}, Races <- TRUE,
    Collects <- TRUE, MaxMoves <- 3, MaxFaults <- 1,
    finding <- ruFinding, run <- ruRun, shown <- ruShown, rollup <- ruRollup, log <- ruLog,
    spent <- ruSpent, emitted <- ruEmitted, fpass <- ruFpass, rpass <- ruRpass,
    collecting <- ruCollecting, late <- ruLate, budget <- ruBudget
Usage == INSTANCE RunUsage WITH
    Kind <- "intent", Aborts <- TRUE, Deletes <- "any", LateFaults <- FALSE, MaxRequests <- 1,
    MaxBoots <- 1, MaxFaults <- 1,
    pod <- usPod, spent <- usSpent, broker <- usBroker, run <- usRun, rollup <- usRollup,
    rights <- usRights, pass <- usPass, first <- usFirst, budget <- usBudget
Preview == INSTANCE PreviewSlots WITH
    Previews <- {1}, SlotCount <- 1, MaxRetries <- 2, MaxRevision <- 1, MaxFaults <- 1,
    MaxSweeps <- 0,
    intent <- pvIntent, preview <- pvPreview, dep <- pvDep, rs <- pvRs, pods <- pvPods,
    ready <- pvReady, ing <- pvIng, late <- pvLate, old <- pvOld, slipped <- pvSlipped,
    work <- pvWork, sweep <- pvSweep, budget <- pvBudget
Evaluation == INSTANCE Evaluations WITH
    Evals <- {1}, Count <- 2, Unavailable <- {2}, MaxConcurrent <- 1, InformerLag <- FALSE,
    LastSecond <- 0, MaxFaults <- 1,
    eval <- evEval, unit <- evUnit, cache <- evCache, events <- evEvents, job <- evJob,
    gate <- evGate, todo <- evTodo, worker <- evWorker, second <- evSecond, faults <- evFaults

ASSUME MCLiveAssumption ==
    /\ Hook!DeliveriesAssumption /\ Review!ReviewCloseAssumption /\ Stale!StaleAlertsAssumption
    /\ Approval!IntentApprovalAssumption /\ Discovery!IntentDiscoveryAssumption /\ Nudged!IntentDiscoveryAssumption
    /\ Counts!RollupsAssumption /\ Usage!RunUsageAssumption /\ Preview!PreviewAssumption
    /\ Evaluation!EvaluationsAssumption

----------------------------------------------------------------------------
\* The variables of every instance but those of c.
Still(c) ==
    /\ UNCHANGED active
    /\ IF c = "hook" THEN TRUE ELSE UNCHANGED hookVars
    /\ IF c = "review" THEN TRUE ELSE UNCHANGED reviewVars
    /\ IF c = "stale" THEN TRUE ELSE UNCHANGED staleVars
    /\ IF c = "appr" THEN TRUE ELSE UNCHANGED apprVars
    /\ IF c = "disc" THEN TRUE ELSE UNCHANGED discVars
    /\ IF c = "ru" THEN TRUE ELSE UNCHANGED ruVars
    /\ IF c = "us" THEN TRUE ELSE UNCHANGED usVars
    /\ IF c = "pv" THEN TRUE ELSE UNCHANGED pvVars
    /\ IF c = "ev" THEN TRUE ELSE UNCHANGED evVars

All == <<active, hookVars, reviewVars, staleVars, apprVars, discVars, ruVars, usVars, pvVars, evVars>>

MCLiveInit ==
    /\ active \in {"hook", "review", "stale", "approval", "discovery", "nudged", "rollup",
                   "usage", "preview", "evaluation"}
    /\ Hook!Init
    /\ Review!Init
    /\ Stale!Init
    /\ Approval!Init
    /\ IF active = "discovery" THEN Discovery!Init ELSE Nudged!Init
    /\ Counts!Init
    /\ Usage!Init
    /\ Preview!Init
    /\ Evaluation!Init

MCLiveNext ==
    \/ active = "hook" /\ Hook!Next /\ Still("hook")
    \/ active = "review" /\ Review!Next /\ Still("review")
    \/ active = "stale" /\ Stale!Next /\ Still("stale")
    \/ active = "approval" /\ Approval!Next /\ Still("appr")
    \/ active = "discovery" /\ Discovery!Next /\ Still("disc")
    \/ active = "nudged" /\ Nudged!Next /\ Still("disc")
    \/ active = "rollup" /\ Counts!Next /\ Still("ru")
    \/ active = "usage" /\ Usage!Next /\ Still("us")
    \/ active = "preview" /\ Preview!Next /\ Still("pv")
    \/ active = "evaluation" /\ Evaluation!Next /\ Still("ev")

MCLiveSpec == MCLiveInit /\ [][MCLiveNext]_All

\* The variables of the instance at work.
Now ==
    CASE active = "hook" -> hookVars
      [] active = "review" -> reviewVars
      [] active = "stale" -> staleVars
      [] active = "approval" -> apprVars
      [] active \in {"discovery", "nudged"} -> discVars
      [] active = "rollup" -> ruVars
      [] active = "usage" -> usVars
      [] active = "preview" -> pvVars
      [] active = "evaluation" -> evVars

\* The k-th action that the instance at work is weakly, and strongly, fair in.
Weak(k) ==
    /\ UNCHANGED active
    /\ \/ /\ active = "hook"
          /\ \/ k = 1 /\ Hook!Take
             \/ k = 2 /\ Hook!Dispatch
             \/ k = 3 /\ Hook!Exit
             \/ k = 4 /\ Hook!Start
             \/ k = 5 /\ Hook!Sweep
             \/ k = 6 /\ (\E i \in hookSweep : Hook!Redeliver(i))
             \/ k = 7 /\ 1 \in DOMAIN hookAttempts /\ Hook!Receiving(1)
             \/ k = 8 /\ 2 \in DOMAIN hookAttempts /\ Hook!Receiving(2)
             \/ k = 9 /\ 3 \in DOMAIN hookAttempts /\ Hook!Receiving(3)
             \/ k = 10 /\ 4 \in DOMAIN hookAttempts /\ Hook!Receiving(4)
             \/ k = 11 /\ 5 \in DOMAIN hookAttempts /\ Hook!Receiving(5)
       \/ /\ active = "review"
          /\ \/ k = 1 /\ Review!Pass
             \/ k = 2 /\ Review!Observe
             \/ k = 3 /\ Review!Resume
             \/ k = 4 /\ Review!Deliver("issue closed")
             \/ k = 5 /\ Review!Deliver("issue reopened")
             \/ k = 6 /\ Review!Deliver("merged")
             \/ k = 7 /\ Review!Deliver("closed")
             \/ k = 8 /\ Review!Deliver("closed elsewhere")
       \/ /\ active = "stale"
          /\ \/ k = 1 /\ Stale!Pass
             \/ k = 2 /\ Stale!Observe
             \/ k = 3 /\ Stale!Resume
             \/ k = 4 /\ Stale!Deliver("older")
             \/ k = 5 /\ Stale!Deliver("new")
       \/ /\ active = "approval"
          /\ \/ k = 1 /\ Approval!Answering
             \/ k = 2 /\ Approval!Writing
             \/ k = 3 /\ Approval!FinishPlan
             \/ k = 4 /\ Approval!Tick
       \/ /\ active = "discovery"
          /\ \/ k = 1 /\ Discovery!Discover
             \/ k = 2 /\ Discovery!Proceed
             \/ k = 3 /\ Discovery!Deliver
             \/ k = 4 /\ Discovery!Delete
             \/ k = 5 /\ Discovery!Gone(<<"p", 1>>)
       \/ /\ active = "nudged"
          /\ \/ k = 1 /\ Nudged!Discover
             \/ k = 2 /\ Nudged!Proceed
             \/ k = 3 /\ Nudged!Deliver
             \/ k = 4 /\ Nudged!Delete
             \/ k = 5 /\ Nudged!Gone(<<"p", 1>>)
       \/ /\ active = "rollup"
          /\ \/ k = 1 /\ Counts!FindingStep
             \/ k = 2 /\ Counts!SyncFinding("f")
       \/ /\ active = "usage"
          /\ \/ k = 1 /\ Usage!PassStep
             \/ k = 2 /\ Usage!Begin
             \/ k = 3 /\ Usage!Waited
             \/ k = 4 /\ Usage!EndPod
             \/ k = 5 /\ Usage!SettleRun
       \/ /\ active = "preview"
          /\ \/ k = 1 /\ Preview!Work
             \/ k = 2 /\ Preview!Write(1)
       \/ /\ active = "evaluation"
          /\ \/ k = 1 /\ Evaluation!Observe
             \/ k = 2 /\ Evaluation!GateStep
             \/ k = 3 /\ Evaluation!UnitStep
             \/ k = 4 /\ Evaluation!JobFinishes(<<1, 1>>)
             \/ k = 5 /\ Evaluation!JobFinishes(<<1, 2>>)
             \/ k = 6 /\ Evaluation!Collected(<<1, 1>>)
             \/ k = 7 /\ Evaluation!Collected(<<1, 2>>)
Strong(k) ==
    /\ UNCHANGED active
    /\ \/ /\ active = "approval"
          /\ \/ k = 1 /\ Approval!Poll
             \/ k = 2 /\ Approval!Phase /\ apprIntent.phase # "Building"
       \/ /\ active = "discovery"
          /\ \/ k = 1 /\ Discovery!BeginPoll("p")
             \/ k = 2 /\ Discovery!Reconcile(<<"p", 1>>)
             \/ k = 3 /\ Discovery!Replan(<<"p", 1>>)
             \/ k = 4 /\ Discovery!Pending(<<"p", 1>>)
       \/ /\ active = "nudged"
          /\ \/ k = 1 /\ Nudged!BeginPoll("p")
             \/ k = 2 /\ Nudged!Reconcile(<<"p", 1>>)
             \/ k = 3 /\ Nudged!Replan(<<"p", 1>>)
             \/ k = 4 /\ Nudged!Pending(<<"p", 1>>)
       \/ /\ active = "rollup"
          /\ \/ k = 1 /\ Counts!BeginFinding("f")
       \/ /\ active = "preview"
          /\ \/ k = 1 /\ Preview!Begin(1)
             \/ k = 2 /\ Preview!Collect(1, 1)
       \/ /\ active = "evaluation"
          /\ \/ k = 1 /\ Evaluation!Schedule
             \/ k = 2 /\ Evaluation!GateStart(1)
             \/ k = 3 /\ Evaluation!Run(<<1, 1>>)
             \/ k = 4 /\ Evaluation!Run(<<1, 2>>)

\* One instance is at work for good, so the fairness of each is that of its k-th
\* actions taken together.
MCLiveFair ==
    /\ MCLiveSpec
    /\ \A k \in 1..11 : WF_Now(Weak(k))
    /\ \A k \in 1..4 : SF_Now(Strong(k))
----------------------------------------------------------------------------
GUID(k) == IF k = 1 THEN "a" ELSE "b"
\* The first event is the label of the Intent that failed before.
Triggered(k) == Nudged!Stands(<<"p", 1>>, k + 1)

\* The k-th thing the instance at work is asked for, and what answers it.
Asked(k) ==
    \/ active = "hook" /\ k = 1 /\ Hook!Sent("a")
    \/ active = "hook" /\ k = 2 /\ Hook!Sent("b")
    \/ active = "review" /\ k = 1 /\ reviewGithub.pull = "merged"
    \/ active = "stale" /\ k = 1 /\ Stale!Regressed
    \/ active = "stale" /\ k = 2 /\ Stale!Unneeded
    \/ active = "approval" /\ Approval!Done(k)
    \/ active = "discovery" /\ Discovery!Stands(<<"p", 1>>, k) /\ discIssue[1].log[k].found \cap Discovery!Live = {}
    \/ active = "nudged" /\ Triggered(k) /\ discIssue[1].log[k + 1].found \cap Nudged!Live = {}
Met(k) ==
    \/ active = "hook" /\ hookHandled[GUID(k)] > 0
    \/ active = "review" /\ reviewFnd.phase # "InReview"
    \/ active = "stale" /\ k = 1 /\ (staleFamily.successor \/ ~Stale!Regressed)
    \/ active = "stale" /\ k = 2 /\ ~Stale!Unneeded
    \/ active = "approval" /\ k \in DOMAIN apprAct /\ IF apprAct[k].kind = "cancel" THEN Approval!Ended ELSE Approval!Heard(k)
    \/ active = "discovery" /\ ~Discovery!Stands(<<"p", 1>>, k)
    \/ active = "nudged" /\ ~Triggered(k)

\* Where the k-th is lost by what the code does.  A webhook whose queue a kill took,
\* which was answered as the duplicate of one refused, or which failed every time
\* GitHub is asked for it; a merge that a pass read the pull request before, or whose
\* one delivery was lost, a person having closed the issue before; an alert reopened
\* at the commit of a record that is being dropped, or whose drop the cache does not
\* show; a trigger whose ended Intent gets no nudge, its listing unchanged or its
\* channel full, or is deleted with its nudge pending.
NoNudge ==
    LET k == <<"p", 1>> IN
    \/ /\ discFind.at = "each" /\ 1 \in discFind.todo /\ k \notin discNudger.pending
       /\ Discovery!Ended(discFind.held[k]) /\ ~discFind.held[k].deleting
       /\ ~discFind.full \/ Len(discNudger.events) = 1
    \/ k \in discNudger.pending /\ (discIntents[k].deleting \/ ~Discovery!Exists(k))
Barred(k) ==
    \/ /\ active = "hook"
       /\ \/ GUID(k) \in hookLoose
          \/ /\ Cardinality(Hook!Logged(GUID(k))) >= 2
             /\ \A i \in Hook!Logged(GUID(k)) : hookAttempts[i].answer = "failed"
    \/ /\ active = "review" /\ reviewGithub.pull = "merged"
       /\ \/ reviewPass.at \in {"issue", "write"} /\ reviewPass.pull # "merged"
          \/ reviewUsed.lost > 0 /\ reviewGithub.by # "merge"
    \/ /\ active = "stale" /\ k = 1 /\ staleAlert.open /\ ~staleFamily.successor
       /\ \/ stalePass.at = "drop" /\ stalePass.obs = staleAlert.at
          \/ staleCache.obs # staleFamily.obs /\ staleCache.obs = staleAlert.at
    \/ active \in {"discovery", "nudged"} /\ NoNudge

\* What is asked for is answered, unless it is barred.  A webhook GitHub sent is
\* handled, over a kill of the server, a full queue and duplicates (webhook.go,
\* redeliver.go); a merged pull request settles its finding, one of its two
\* deliveries lost and the issue closed and reopened meanwhile, a regressed alert
\* gets its successor and a re-check that is not needed ends (review.go, stale.go);
\* an approver's cancel ends the intent and an approval is answered
\* (intent_actions.go); and an intent's trigger is handed off, through failed calls,
\* restarts and the TTL (project_controller.go).
Answered == \A k \in 1..2 : []~Barred(k) => (Asked(k) ~> Met(k))

\* The k-th thing the instance at work holds and must let go of.
Held(k) ==
    \/ active = "rollup" /\ k = 1 /\ ruFinding["f"].phase \in Counts!Terminal
    \/ active = "rollup" /\ k = 2 /\ Counts!Revived("f")
    \/ active = "usage" /\ k = 1 /\ usRun.deleting
    \/ active = "usage" /\ k = 2 /\ usRun.settled
    \/ active = "preview" /\ k = 1 /\ pvPreview[1].at = "deleting"
    \/ active = "preview" /\ k = 2 /\ Preview!Live(1) /\ pvPreview[1].slot # 0 /\ Preview!Over(1)
    \/ active = "evaluation" /\ k = 1 /\ evEval[1].phase = "Gone"
Freed(k) ==
    \/ active = "rollup" /\ k = 1 /\ (ruFinding["f"].gone \/ Counts!Counted("f"))
    \/ active = "rollup" /\ k = 2 /\ (~Counts!Revived("f") \/ Counts!Counted("f"))
    \/ active = "usage" /\ k = 1 /\ Usage!Gone
    \/ active = "usage" /\ k = 2 /\ (usRun.usage.final \/ usRun.mark # "none")
    \/ active = "preview" /\ k = 1 /\ pvPreview[1].at \in {"gone", "stripped"}
    \/ active = "preview" /\ k = 2 /\ (pvPreview[1].slot = 0 \/ ~Preview!Over(1))
    \/ active = "evaluation" /\ \A u \in Evaluation!Units : ~Evaluation!Exists(evUnit[u]) /\ evJob[u] = "None"

\* What is held is given back.  A completed finding is counted and a revived one
\* uncounted (internal/controller/rollup); a settled run's usage becomes final and
\* a deleted run is let go, whatever the broker does (usage), where no pass fails
\* between its mark and its release, which would hold the run for good; a Preview
\* that is over gives its slot back and a deleted one is gone (preview); and a
\* deleted Evaluation takes its units and their Jobs with it (evaluation).
Released == \A k \in 1..2 : Held(k) ~> Freed(k)
=============================================================================
