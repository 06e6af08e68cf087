# A TLA+ model of maul

maul takes security alerts from scanners, folds them into `Finding` resources, has an agent
investigate each finding in a Kubernetes Job, and, when the verdict and the humans allow it, has a
second agent write a fix that maul pushes as a pull request. A second pipeline of the same kind
plans, builds and revises features from labelled issues (`Intent`). Everything is a Kubernetes
controller: state lives in the API server, controllers read it from informer caches, write it under
optimistic concurrency, and may be interrupted between any two calls.

This directory models the parts where those controllers meet each other, GitHub and people. Seven
modules follow the life of a Finding through all its controllers at once; seventeen more take one
protocol each, down to its single calls.

## The system's parts

| Part | State it keeps | Operations | Interacts through |
|---|---|---|---|
| Finding API (`api/v1alpha1/transitions.go`, `internal/action`) | `status.phase`, `phaseTimes`, `completedAt`, `spec.approval/retry/suspend/expedite` | `SetPhase`, `RetryTarget`, `ApplyWithID` | called by every controller |
| integration-controller | tracking issue, recorded pull request, pending close, command lists, the queue and ring of webhook deliveries | ingest, issue/PR/comment signals, review settlement, projection, backfill, redelivery | GitHub webhooks; Finding status |
| context-controller | enrichments, owners | the enhancer chain, `Opened` to `Enhanced` | Finding status |
| source-controller | `Repository` artifacts, declared runner image | resolve, clone, digest | Repository read by both run controllers |
| investigation-controller | `Investigation` children, slots | gate, schedule, grant, launch, collect, settle | Finding and Investigation status; Jobs |
| remediation-controller | `Remediation` children, slots | spawn, schedule, grant, launch, hold, collect, open PR, settle | Finding and Remediation status; Jobs; forge |
| runnerguard | a breaker in memory, conditions on runs | `Pin`, `Trip`, refusal and hold | called at launch and collect |
| credgate / credential hold | hold conditions | judge an approver's model credential | delays a spawn |
| jobs | agent Jobs with deterministic names | create or adopt, status, result | Kubernetes Jobs |
| schedule, priority | none | rank pending runs, age them | called by both schedulers |
| rollup, usagemeter, usagerollup | rollup totals, ledger keys, finalizers | fold each finding and finished run once | run status, broker usage |
| intent-controller | `Intent`, `IntentRun`, `Project`, issues' labels and comments | discover, plan, approve, build, open, revise, expire | GitHub issues, pull requests and branches; Jobs |
| preview-controller | `Preview`, slots, their workloads | queue, deploy, expose, retry, expire, sweep | Deployments, Ingresses |
| evaluation-controller | `Evaluation`, units | expand, grant, launch, collect, roll up, cancel | Jobs |
| egress-broker | budgets, the spend ledger | admit, reserve, charge, release, answer usage | agent pods |
| egress-proxy, preview-auth | sessions, policies | authorise and forward traffic | agent pods, browsers |
| agent runner, CLI, status server, mirror, scanners' clients | none shared | run an agent, set up, show, copy, parse | the API |

`PROJECT.json` lists the same parts with their status. What makes them hard is that no operation
that matters is one write: a run is settled by a write to the run and one to its finding, a grant by
the same two in turn, a child is created and then counted, a pull request is opened and then
recorded, a notice is posted and then marked, a rollup is folded and then stamped. Between the two
the other controllers, GitHub's deliveries (late, doubled, out of order) and people's actions come
in, or the process dies.

What makes each part correct:

- the lifecycle: only legal edges; recovery only on a human's request newer than what it undoes; a
  failure always has a way back; nothing past its verdict is investigated again;
- each run controller: one unsettled run per finding; the attempt budget; the finding is released
  when its run settles; every run settles; a refused image is not tried for ever;
- integration: a delivery answered is handled, once; no alert is dropped; a command takes effect and
  is answered once; only the recorded pull request's outcome counts; one issue per finding;
- the intent controller: one Intent per issue and trigger; what is built is what was approved;
  nothing is pushed over people's commits; every request for changes is served;
- shared resources: no more runs than slots; a pod's spend within its budget; one preview per slot;
  each run counted once, with all it spent;
- all of them together: they implement the lifecycle.

## Modules

| Module | Models | State and actions |
|---|---|---|
| `FindingPhases` | `transitions.go`, the gates of `action.go` | operators on a Finding record; no state |
| `FindingLifecycle` | what the Finding API promises | `lifecycle`; `Move`, `Approve`, `Retry` |
| `Cluster` | the objects shared, Jobs, runnerguard | `fnd inv rem job prs breaker faults`; `JobEnds`, `JobVanishes` |
| `Investigation` | gate and investigation reconcilers | `gate invW`; one action per API write |
| `Remediation` | spawner and remediation reconcilers | `spawn remW remSeen`; one action per API write |
| `Integration` | signals, review, ingest, context, people, in one step each | `asks`; one action per handler |
| `FindingPipeline` | all of them over the same objects | `Next`, fairness, the properties, the refinement of `FindingLifecycle` |
| `Deliveries` | `internal/webhook`, `redeliver.go` | GitHub's log, the dedup ring, the queue, workers, stops and crashes, the sweep |
| `Ingest` | `ingest.go` over one family | generations of a Finding, two workers with a copy each of what the cache gave them |
| `StaleAlerts` | `supersedingFix`, `stale.go` | one alert that analyses move, the record of a stale one, its re-check |
| `ReviewClose` | `webhooks.go` on a finding in review, `review.go` | the issue and the pull request as they are, deliveries on their way, a pass over two reads |
| `FindingCommands` | `commands.go` | bounded lists of commands; decide, apply, answer, consume |
| `Projection` | `project.go`, `comments.go` | the issue and its comments; one action per call to GitHub and per write |
| `RunScheduler` | `internal/schedule`, the two `schedule` passes, the pause | the server's runs and the cache's, one pass writing grants one by one |
| `SpendLedger` | `internal/egress`: `limit.go`, the broker's proxy | counters of pods, the hour's buckets, reservations, requests in parallel |
| `RunUsage` | `usagemeter`, `run_settle.go` | a pod spending, the broker's entry, the measurement and its fold |
| `Rollups` | `internal/controller/rollup` | findings and runs, the informers' copies, counts with their ledger of keys |
| `Evaluations` | `internal/controller/evaluation` | an Evaluation's phase, its units and their Jobs, a cache that trails |
| `PreviewSlots` | `internal/controller/preview`, the intent-controller's writer | Previews, and each slot's Deployment, ReplicaSets, Pods and Ingress |
| `IntentDiscovery` | `project_controller.go`, `nudge.go`, `ttl.go` | labels on issues, the listing remembered, the nudge channel, hand-offs |
| `IntentApproval` | `intent_actions.go`, `intent_plan.go` | events, comments and edits of an issue, the plan and its posting |
| `IntentBuilds` | `intent_build.go`, `intent_blocked.go` | a build per repository with attempts and blocks, pull requests one by one |
| `IntentRounds` | `intent_revise.go` | feedback with its times, rounds leased by creating their run, notices |
| `IntentRuns` | `run_controller.go`, `run_settle.go` | slots, Jobs, and the push in two phases: the commit, then the branch |
| `MCSignals`, `MCIntents`, `MCRuns`, `MCLive`, `MCPreviews` | instances for TLC | `active`, and every component's variables |
| `*_proofs` | theorems | see Proofs |

How state and steps correspond to the code:

- A status write in the code is `retry.RetryOnConflict` around read, decide, write: it takes effect
  on the version it read, so it is one atomic step. A reconcile with several writes is several
  steps; a variable (`gate[f]`, `invW`, `pass`, `work`, ...) holds what is left of it and what it
  has read. A write made over a version read earlier is refused when the object moved
  (`ReviewClose!SettleReview`, `Ingest`, `Projection!Write`).
- In the detailed modules every call to GitHub, the broker or the API server is a step of its own,
  and the others take theirs in between. One worker per reconciler (`MaxConcurrentReconciles` is 1)
  makes one `pass`; ingest and the webhook receiver have several.
- In the pipeline the first read of a reconcile is taken as current, except for the Remediation
  informer, which may trail the Finding informer when `InformerLag` is TRUE (`remSeen`). In
  `RunScheduler`, `Evaluations`, `Rollups`, `Ingest`, `Projection`, `ReviewClose`, `IntentRuns`,
  `IntentRounds` and `IntentBuilds` the cache is a variable of its own that an action brings up to
  date.
- A fault ends a reconcile between two calls; where it is a lost answer the call took effect. A
  restart also clears what is kept in memory: the breaker, the ring, the queue, discovery's memory
  of its listings, the meter's memory of a first look.
- `phaseTimes` is kept as the two things the code reads from it: the last phase that is not Failed
  (`prior`) and whether the finding ever was HandedOff or Failed (`revived`). Timestamps are kept as
  what the code's comparisons say of them, or as ticks where windows are compared (`IntentRounds`,
  `IntentApproval`), several events to a tick because GitHub dates to the second.
- `SetPhase` is modelled behind its legality check. `ImplementsLifecycle` shows no caller is ever
  refused by it, so the refused branch is never taken.
- A Job is what the collector makes of it. `bad` stands for every result that ends in `fail`,
  a rejected changeset included; `hold` for a remediate verdict with at least one hold reason.
- Waiting (accumulation window, minimum age, a repository that is not ready, a held credential) is
  the time before `GateAdmit` or `SpawnDecide` is taken. A repository that will never be ready is
  `GatePark`.
- `launch` of an Investigation without a repository cannot happen: `openInvestigation` sets the
  reference, and the gate parks a finding without a repository.
- In the pipeline a pull request is opened by `RemEnsurePR` unless the branch has an open one
  (`FindPRByHead` lists open ones only). A closed one's delivery may come at any later time,
  repeatedly. `ReviewClose` and `IntentBuilds` keep the pull request itself.
- A definition whose name is that of another with a suffix (`Given_Early` beside `Given`) is a
  variant the system does not have: what a plausible bug would make of it. `PROJECT.json` pairs each
  property with a variant that breaks it. No action of the system uses one.

## Runs

The pipeline's runs have one finding, which is enough for their questions: the code couples findings
only through the slot count, and a finding's own controllers, workers and runs already interleave.
Three attempts per kind with `MaxAttempts = 1` leave room for a refused or held attempt, a failed
one and a retried one in the same behaviour. Three actions by people are what the longest single
story needs (close, approve, retry). One fault can fall between any two writes.

| Run | Question | Answer |
|---|---|---|
| `pipeline` | with one fault anywhere: one investigation at a time, its budget, the breaker, active runs, pending closes, merged means merged; is every step a lifecycle step, has every failure a stage to retry, and does nothing lead back behind the verdict? | yes |
| `pipeline_quiet` | with no fault: the remediation side's invariants, and does everything that must happen happen? | yes |
| `spawn_lag` | may two Remediations of one finding be unsettled when informers lag? | yes, against the spawner's comment |
| `gate_race` | may a finding be left Investigating on a settled run without any fault? | yes, against `fail`'s comment |
| `hold_noop` | may a hold not hand its finding off? | yes, against `holdForImage`'s comment |
| `suspended` | does a suspended finding get a slot? | yes, against `docs/labels.md` |
| `handed_off_pr` | is a pull request opened for a finding a human took over? | yes, against `docs/labels.md` |
| `signals` | ten instances of the integration-controller's loops | they hold |
| `intents` | is what is built what was approved, is each command applied once, answered once and never settled unread (two instances); and ten instances of the rest of the intent-controller | yes |
| `runs` | is a Complete run pushed, is nothing forced, does nothing land for an intent that was ended, do slots bound agents; and ten more instances of what runs share | yes |
| `previews` | has a slot one holder and one Preview's code, in turn; is what Ready means exposed and never rolled? | yes |
| `live` | ten instances: what must happen in the end, unless the code is seen to lose it | it does |

Four of the properties of `pipeline_quiet` are checked without faults because a fault refutes them:
`RemediationReleases` and `SuccessorNeedsRequest` (the first two rows of the table of disagreements),
and `RemediatingEnds` and `RemediationBudget`, which follow them. The theorems about them (see Proofs)
say which single step it takes to break them. Deadlock checking is off
throughout: a remediated finding, a settled run or a world whose people are done has nothing left to
do.

### Instances side by side

The components of `signals`, `intents`, `runs` and `live` do not share state in the code at the
granularity modelled (a broker's ledger and an evaluation's units), so nothing is gained by interleaving
them. `MCSignals`, `MCIntents`, `MCRuns` and `MCLive` hold the variables of them all and a variable
`active`: the initial state chooses the instance at work, its `Next` is the only one that moves, and
every other variable keeps its first value. One run then explores the sum of the instances' states, not
their product, and a property of the run is a conjunction `active = "x" => X!Property`, or for the
modules an MC module extends (`ReviewClose`, `IntentApproval`, `SpendLedger`, `IntentRuns`,
`PreviewSlots`) the module's own property, the one its theorem is about. `MCPreviews` does the same for
two instances of one module, over the same variables. An instance is a module with values for its
constants; a component has several where one set of bounds large enough for every case would be too
large for TLC. Each module's assumptions on its constants are evaluated for every instance
(`MC...Assumption`).

The instances, and what their bounds leave room for:

| Instances | Enough for |
|---|---|
| `ReviewClose` itself | a close and a reopening, another repository's close, a delivery lost, one doubled, a read refused and a pass lost, in any order around a merge |
| `Hook`, `Burst` (`Deliveries`) | two GUIDs sent again after failures, one of them twice at once, a full queue, a stop that drains, a crash that loses the queue; then two workers, a timeout, a ring that forgets, a replay |
| `Commands`, `Redelivered` (`FindingCommands`) | three comments of a maintainer and a stranger, lists of two, one pass cut short; then two comments, each delivered twice |
| `Intake`, `Held` (`Ingest`) | three alerts, generations of two, two workers on stale copies, a failed write; then a generation suspended and resumed |
| `Stale` (`StaleAlerts`) | two commits the fix supersedes and one it does not, four uploads, two failed reads, a reset, copies that lag |
| `Issue`, `Sticky` (`Projection`) | the issue or a comment deleted under a pass, lost answers; a crash between a post and its record |
| `Rounds`, `Quiet`, `Checks`, `Raised` (`IntentRounds`) | commands on two pull requests in turn; two reviews in quiet windows, a check-fix round leased beside them and an attempt repeated; failed checks and a command on two pull requests; a raised limit |
| `Attempts`, `Opening`, `Revived` (`IntentBuilds`) | two repositories failing, blocked and refused; a branch and a pull request made by others; a cancel or a departed repository, and a second round |
| `Approval`, `Failing` (`IntentApproval`) | two actions of four kinds, an edit and a lost call in two ticks: every pair of commands and labels in one second or two, with an edit on either side of each read; then a cancel and triggers over two attempts, on an Intent that failed and is revived |
| `Found`, `Shared`, `Limited` (`IntentDiscovery`) | an ended Intent's issue labelled again while its TTL fires; two Projects on one issue, and the TTL; three issues, one of a past Intent, labelled in any order by a Project whose limit is one |
| `SpendLedger` itself, `Hour` | four requests of one pod, two slots, waiting, cut, overrunning; two pods over three minutes of a two-minute window |
| `IntentRuns` itself | a build and a revise run on one slot, one push by people, one suspension, one pass cut short: the answer to a push lost, a head moved under it, an intent ended before or after the gate's read, a held run that gave its slot away |
| `Granting`, `Granted` (`RunScheduler`) | a cache that lags, restarts, an expedite; three runs with a current cache |
| `Evaluation`, `UnitSlots` (`Evaluations`) | a unit without a harness, a fault; units created over two seconds |
| `Counts`, `Costs` (`Rollups`) | two findings completed, revived and expired; one deleted with its run at any time, also while the run's result is collected |
| `Usage`, `Deleted` (`RunUsage`) | an intent run that completes or is aborted with its pod still making requests, deleted once its usage is final; a stage run aborted or deleted at any time; a broker restarted, two faults |
| `Swept` (`PreviewSlots`) and `PreviewSlots` itself | two Previews and one slot, one retry, one fault, one sweep: eviction, expiry, a stripped finalizer, a look at a slot with other steps between its lists of Pods and of ReplicaSets, a sweep whose list ages; then one Preview over two revisions and two retries, whose head moves at any stage |

The modules were also run one by one, several with larger bounds; they add states, and the properties stayed
true in each.

The safety properties of the five extended modules are also proved for every value of the constants,
except the sums of `SpendLedger` (see Proofs), so there the bounds only have to be large enough to
refute a wrong statement. In `IntentRuns` the pool's bound is stated until a
pass is cut short (`Faultless`), in `PreviewSlots` what Ready means until a sweep begins (`Unswept`):
the runs go on past both, where the other properties are still checked.

### Properties of the modules

`previews`, `intents` and `runs` check the conjunction on the left, stated in the module from the
named parts on the right; a step property is the conjunction of action properties.

| Property | Part | Says |
|---|---|---|
| `RunsDeliver` (`IntentRuns`) | `CompleteIsPushed` | Complete means pushed |
| | `AgentsBounded`, `EndedJobStopped` | until a pass is cut short: agents within slots, held runs included; the agent of an aborted run stops |
| `PushesWanted`, a step property | `WantedWhenPushed`, `NothingForced` | an intent ended before the gate's live read gets no push; people's commits stay on the branch |
| `ApprovalTrue` (`IntentApproval`) | `ApprovedAsShown`, `NothingSkipped` | what was approved is what the issue showed; no command is settled unread |
| | `AppliedOnce`, `AnsweredOnce`, `FailedUntriggered` | one revision per trigger, one reply per command, a failed Intent does not start again on a trigger it consumed |
| `PoolKept` (`PreviewSlots`) | `SlotHeld`, `SlotExclusive`, `HoldersDistinct` | objects are of the slot's holder, but for a Pod made between the two lists of a look; one Preview's code in a slot, but for such a Pod of a Preview removed by hand; one holder per slot |
| | `ReadyExposed` | until a sweep: Ready means exposed at its revision |
| `StepsKept`, a step property | `QueueKept`, `NeverRolledExposed` | slots in order of age; exposed code is never rolled |

### Properties of the runs over instances

| Property | Parts |
|---|---|
| `OutcomeTrue`, `HandOffSeenClosed` | a finding leaves review only for what happened to its own pull request or issue, though both are read in turn and told late |
| `SignalsHandled` | what GitHub was told is handled is, unless a kill took the queue or the answer was to a duplicate of a request a full queue then refused; and once, while the ring remembers; one answer per comment, one refusal per stranger, the newest toggle wins, comments delivered twice included |
| `AlertsKept` | no alert dropped, one generation open to the next, no successor for a stale reopening |
| `IssueOnce` | one post of a notice, one sticky comment |
| `RoundsServed` | a request starts one round, rounds are leased once, no request is swallowed but by a check-fix round leased inside its quiet window, pull requests are served in turn |
| `BuildsWhole` | builds in turn, pull requests after all builds, an Intent in review has them all |
| `DiscoveredOnce` | one Intent per trigger and per issue; what a poll creates is within the Project's limit, Intents that labels revive not counted |
| `IntentSteps` | action properties: no round completes after its notice, a build's run is replaced only once settled, nothing is forgotten untold, no revived Intent is deleted |
| `InFlightCapped`, `NoLostWakeup` | a pod's requests in flight are within the cap, and a free slot has no sleeper |
| `SpendTrue` | a pod's charges and the hour's, with outstanding reservations; folded once, marked what is folded, measured what is spent (unless the run settled before the pod of its deleted Job ended), kept when deleted (unless while its result was collected) |
| `GrantsWithinSlots` | grants within slots, with a current cache; units within theirs |
| `EvaluationsTrue` | a finished Evaluation's counts are its units'; no orphan Job |
| `RunSteps` | action properties of the same modules |
| `Answered`, `Released` | `~>` properties, see Fairness |

## Fairness

`Fairness` in `FindingPipeline` is weak and per controller: the watches, the schedulers' periodic
tick and the informers' resync put work that stays possible back in the queue. Jobs end because they
carry an active deadline. A pending close is reconciled again until it is settled. Nothing is
assumed of people, deliveries or faults.

Every other module states its own `FairSpec` on the same grounds: a pass under way goes on (weak),
deliveries and watches that are not lost arrive (weak), Jobs and pods end (weak), and a reconciler
comes round to an object again and again although other passes keep its worker busy in between
(strong, because one worker serves them in turn and the object's turn is enabled only between
passes). The broker never has to settle a request, no rollout has to finish, no Intent has to end.

`MCLive` checks ten of them side by side. One instance is at work for good, so its fairness is that
of its own actions: `Weak(k)` is the k-th action the instance at work is weakly fair in, and
`\A k : WF_Now(Weak(k))`, with `Strong` alike and `Now` the variables of that instance, states for each
the conjunction its module states (in the nudged instance, for one of the two issues). `Asked(k) ~>
Met(k)` and `Held(k) ~> Freed(k)` are the modules' own liveness properties (`EventuallyHandled`,
`MergeSettles`, `RegressionFound`, `RecheckEnds`, `CancelHonoured`, `ApprovalAnswered`,
`TriggerHandedOff`; `CountedEventually`, `ReversedEventually`, `ReleasedEventually`,
`FinalEventually`, `DeletedGoes`, `SlotReturned`, `DeletedCascades`) put in one form.

`Answered` is `\A k : []~Barred(k) => (Asked(k) ~> Met(k))`. `Barred` lists the moments at which the code
loses what was asked, and nothing else is excused: a webhook whose queue a kill took, which was answered as
the duplicate of a request a full queue then refused (the row for `NoneDropped` below), or which failed as
often as GitHub is asked for it; a merge that a pass read the pull request before, or whose delivery was
lost behind a person's close (`MergeSettles`); a regression at the commit of a record that is being
dropped, or whose drop the cache does not show (`RegressionFound`); a trigger whose ended Intent gets no
nudge, its listing unchanged or its channel full, or is deleted with its nudge pending (the three rows for
`TriggerHandedOff`).

What the ten have room for, under fairness: `Hook` two GUIDs, five sends, one doubled, a full queue and a
stop; `Review` three clicks and a lost delivery; `Stale` four uploads, a failed read and a reset, with
copies that lag; `Approval` two actions and a pass cut short; `Discovery` one issue labelled twice while
the TTL may fire; `Nudged` two past intents, a channel of one and a failed call; `Counts` a fold that
races a revival; `Usage` an abort, a deletion at any time and a fault, but none between the mark and the
release (a failure there holds the run for ever: the row for `ReleasedEventually`); `Preview` two retries
and a fault; `Evaluation` a unit without a harness and a fault, with a current cache (the rows for
`SettledEnds`).

## Disagreements met while modelling

The five runs `spawn_lag` to `handed_off_pr` each refute a statement of the repository's own docs or
comments, quoted in `PROJECT.json`. The modules refute more of them. Each row is a property stated in
the module, and the constants under which TLC finds it violated (those not named are 0, FALSE or
empty; "fair" means under `FairSpec`). Every row names the line of `src/internal/`
where it comes about.

| Property | Line | What happens | Constants |
|---|---|---|---|
| `FindingPipeline!RemediationReleases` | `controller/remediation/remediation_controller.go:765` | A reconcile cut short between stampChild and finishFinding leaves the finding Remediating with its run Failed. | `Findings = {f1}, MaxRuns = 1, MaxAttempts = 1, MaxFaults = 1, MaxInvestigations = 1, MaxRemediations = 1` |
| `FindingPipeline!SuccessorNeedsRequest` | `controller/remediation/remediation_controller.go:226` | A grant whose finding write is lost leaves the finding Queued, and the run's success breeds another attempt nobody asked for. | `Findings = {f1}, MaxRuns = 2, MaxAttempts = 1, MaxFaults = 1, MaxInvestigations = 1, MaxRemediations = 1` |
| `FindingCommands!SpecWrittenOnce` | `controller/integration/commands.go:314` | A pass cut short between the spec write and its mark, a resume on the status page, and the retry suspends the finding a second time. | `Maintainers = {m1}, Verbs = {"suspend", "resume"}, MaxComments = 1, MaxDeliveries = 1, MaxPending = 2, MaxPerActor = 2, MaxConsumed = 2, MaxRefused = 1, MaxFaults = 1, MaxToggles = 1` |
| `RunScheduler!SlotsRespected` | `controller/remediation/remediation_controller.go:126` | A second pass before the cache shows the first one's grant counts the slot as free. | `Run = {r1, r2}, Slots = 1, Priorities = {0, 1}, AgingCap = 2, InformerLag = TRUE, MaxRestarts = 1` |
| `RunScheduler!NoStarvation` | `schedule/schedule.go:42` | Higher-priority runs that wait as long as the low one reach the same capped boost and stay ahead of it, for as long as they come. | `Run = {r1, r2, r3}, Slots = 1, Priorities = {0, 1}, AgingCap = 2`, fair |
| `IntentRuns!AbortedJobStopped` | `controller/intent/run_controller.go:467` | A pass cut short between creating the Job and recording it, then the intent ends: the run is aborted with its agent running. | `Builds = {b}, Revises = {v}, MaxConcurrent = 1, MaxSuspends = 1, MaxPushes = 1, MaxFaults = 1` |
| `IntentRuns!OwnPushAdopted` | `controller/intent/run_controller.go:1725` | A pass cut short after the fast-forward: the next one reads its own commit at the head and settles head_moved. | `Builds = {b}, Revises = {v}, MaxConcurrent = 1, MaxSuspends = 1, MaxPushes = 1, MaxFaults = 1` |
| `IntentRounds!StillRead` | `controller/intent/intent_revise.go:862` | A check-fix round leased inside a review's quiet window closes the window over the review, which then starts no round. | `NumPRs = 1, Reviews = {v1}, MaxRevisions = 1, MaxCheckFixes = 1, MaxAttempts = 2, MaxChecks = 1, MaxRaises = 1, MaxFaults = 1, MaxTime = 3` |
| `IntentRounds!MergeObserved` | `controller/intent/intent_blocked.go:154` | The one pull request is merged while the intent is blocked on its revision limit: the intent never ends. | `NumPRs = 1, Commands = {c1}, MaxAttempts = 1, MaxTime = 2`, fair |
| `IntentApproval!ApprovedUnchanged` | `controller/intent/intent_actions.go:814` | The issue is edited, and the plan then approved, between the poll's read of the issue and its listing of the comments. | `Kinds = {"approve"}, MaxAttempts = 1, MaxActs = 2, MaxEdits = 1, MaxTime = 2` |
| `IntentApproval!LabelFollowsPlan` | `controller/intent/intent_plan.go:438` | An approve label applied between its removal and the plan's posting stays on the issue and is never answered. | `Kinds = {"approveLabel"}, MaxAttempts = 1, MaxActs = 2, MaxTime = 2` |
| `IntentBuilds!OpenedTold` | `controller/intent/intent_build.go:347` | A pull request whose record was lost is left open untold when the Intent is cancelled before the next pass adopts it. | `N = 2, MaxAttempts = 1, MaxOrdinal = 1, Moves = {"cancel"}, MaxRounds = 1, MaxMoves = 1, MaxFaults = 1` |
| `IntentBuilds!StaleAborts` | `controller/intent/run_controller.go:474` | A build of a failed round, not reconciled between the failure and the revival, pushes the superseded plan. | `N = 2, MaxAttempts = 1, MaxOrdinal = 1, Bad = {"failed"}, MaxRounds = 2` |
| `IntentBuilds!BranchReadFirst` | `controller/intent/intent_blocked.go:260` | A resume creates the next build without reading its branch. | `N = 2, MaxAttempts = 1, MaxOrdinal = 2, Moves = {"branch", "project"}, Bad = {"blocked"}, MaxRounds = 1, MaxMoves = 2` |
| `IntentDiscovery!TriggerAnswered` | `controller/intent/project_controller.go:178` | Discovery reads the Intents before the listing: a trigger applied just after an Intent ended, between the two, is settled as an active Intent's. | `Projects = {"p"}, Issues = {1}, MaxActive = 1, Buffer = 1, Ends = {"settle"}, Moves = {"label"}, MaxMoves = 2, MaxFaults = 1`, fair |
| `IntentDiscovery!TriggerHandedOff` | `controller/intent/project_controller.go:560` | An issue of an ended Intent left waiting by a failed listing is retried on a 304, which nudges nothing, and forgotten. | `Projects = {"p"}, Issues = {1, 2}, MaxActive = 2, Buffer = 2, Past = {2}, Moves = {"label"}, Faults = {"error"}, MaxMoves = 2, MaxFaults = 1`, fair |
| `IntentDiscovery!TriggerHandedOff` | `controller/intent/ttl.go:79` | The TTL deletes an ended Intent between its nudge and its hand-off: its issue is settled, and no poll creates the next Intent. | `Projects = {"p"}, Issues = {1}, MaxActive = 1, Buffer = 1, TTL = TRUE, Ends = {"fail", "settle"}, Moves = {"label"}, MaxMoves = 2, MaxFaults = 1`, fair |
| `IntentDiscovery!TriggerHandedOff` | `controller/intent/nudge.go:52` | A nudge dropped on a full channel is never repeated while the listing stays unchanged (the channel scaled to one). | `Projects = {"p"}, Issues = {1, 2}, MaxActive = 2, Buffer = 1, Past = {1, 2}, Moves = {"label"}, MaxMoves = 2, MaxFaults = 1`, fair |
| `IntentDiscovery!RefusalTold` | `controller/intent/intent_actions.go:889` | A restart between a hand-off's label removal and its notice leaves the refusal untold. | `Projects = {"p"}, Issues = {1}, MaxActive = 1, Buffer = 1, Ends = {"fail", "settle"}, Moves = {"label"}, Faults = {"restart"}, MaxMoves = 2, MaxFaults = 1`, fair |
| `IntentDiscovery!NonTerminalWithinLimit` | `controller/intent/intent_actions.go:887` | A revival takes a Project over its limit of active Intents. | `Projects = {"p"}, Issues = {1, 2}, MaxActive = 1, Buffer = 1, Past = {2}, Ends = {"fail", "settle"}, Moves = {"label"}, MaxMoves = 2, MaxFaults = 1` |
| `Rollups!CountsTrue` | `controller/rollup/rollup_controller.go:355` | A fold whose marker lost to a revival takes the ledger key of the next completion. | `Findings = {"f"}, Ledger = 8, Races = TRUE, MaxMoves = 3` |
| `Rollups!RevivedKept` | `controller/rollup/rollup_controller.go:423` | The TTL's delete, decided on a copy, takes a Finding revived since. | `Findings = {"f"}, Ledger = 8, Deletes = {"ttl"}, Races = TRUE, MaxMoves = 3` |
| `Rollups!CountedBeforeGone` | `controller/integration/ingest.go:491` | A Finding carries no rollup finalizer: a plain delete takes it uncounted. | `Findings = {"f"}, Ledger = 8, Deletes = {"background"}, MaxMoves = 2` |
| `Rollups!CollectedKept` | `controller/investigation/investigation_controller.go:808` | A run deleted while its result is collected is counted as spending nothing before the result is stamped. | `Findings = {"f"}, Runs = {"r"}, Ledger = 8, Deletes = {"foreground"}, Collects = TRUE, MaxMoves = 2` |
| `Rollups!EmittedOnce` | `controller/rollup/rollup_controller.go:360` | A pass lost between the fold and the marker emits the metric again. | `Findings = {"f"}, Ledger = 8, Deletes = {"ttl"}, MaxMoves = 2, MaxFaults = 1` |
| `RunUsage!FoldedMeasured` | `controller/intent/run_settle.go:283` | An IntentRun deleted while its usage is being measured is folded by the same pass, unmeasured. | `Kind = "intent", Deletes = "settled", LateFaults = TRUE, MaxRequests = 2, MaxBoots = 1, MaxFaults = 2` |
| `RunUsage!AbortedMeasured` | `controller/intent/run_controller.go:490` | An aborted run is measured while its deleted Job's pod still makes requests. | `Kind = "intent", Aborts = TRUE, Deletes = "final", LateFaults = TRUE, MaxRequests = 2, MaxBoots = 1, MaxFaults = 2` |
| `RunUsage!ReleasedEventually` | `controller/intent/run_settle.go:293` | A failure between the run's mark and the release of its finalizer holds the run for ever. | `Kind = "intent", Deletes = "final", LateFaults = TRUE, MaxRequests = 2, MaxBoots = 1, MaxFaults = 2`, fair |
| `PreviewSlots!CodeHeld` | `controller/preview/workload.go:498` | Cleanup lists a slot's Pods before its ReplicaSets: one that makes its Pod in between and is then collected hides it. | `Previews = {1}, SlotCount = 1, MaxRetries = 2, MaxRevision = 1` |
| `PreviewSlots!ServingBacked` | `controller/preview/controller.go:616` | A retry deletes the Deployment and its status write is refused because the head moved: the redeploy keeps the old snapshot. | `Previews = {1}, SlotCount = 1, MaxRetries = 2, MaxRevision = 2, MaxFaults = 1` |
| `PreviewSlots!SweepSparesHolders` | `controller/preview/sweep.go:238` | A sweep lists the Previews before one is given its slot, and the slot's objects after it is deployed. | `Previews = {1, 2}, SlotCount = 1, MaxRetries = 2, MaxRevision = 1, MaxFaults = 1, MaxSweeps = 1` |
| `Evaluations!SettledEnds` | `controller/evaluation/gate_controller.go:132` | No unit has a harness: the gate settles them all, and nothing rolls their parent up. | `Evals = {1}, Count = 2, Unavailable = {1, 2}, MaxConcurrent = 1`, fair |
| `Evaluations!SettledEnds` | `controller/evaluation/unit_controller.go:562` | The last unit's roll-up lists a cache that does not show that unit settled yet. | `Evals = {1}, Count = 2, MaxConcurrent = 1, InformerLag = TRUE`, fair |
| `Evaluations!SettledEnds` | `controller/evaluation/unit_controller.go:519` | A failed call or a restart between a unit's settlement and the roll-up of its parent. | `Evals = {1}, Count = 2, MaxConcurrent = 1, MaxFaults = 1`, fair |
| `Evaluations!SlotsRespected` | `controller/evaluation/unit_controller.go:120` | A unit granted on the cache is overtaken by one of another Evaluation created in the same second. | `Evals = {1, 2}, Count = 1, MaxConcurrent = 1, InformerLag = TRUE, LastSecond = 1` |
| `Projection!PostedOnce` | `controller/integration/project.go:926` | A restart between a post and its record. | `InformerLag = TRUE, MaxHolds = 1, MaxCrashes = 1` |
| `Projection!UnlinkedGone` | `controller/integration/comments.go:107` | An own comment deleted between the listing that found it and its edit costs the finding its issue. | `InformerLag = TRUE, MaxContent = 2, MaxCrashes = 1, MaxDeletes = 1` |
| `Projection!OverShown` | `controller/integration/project.go:157` | The scanner refuses the dismissal, and the issue is never touched. | `ScannerDown = TRUE`, fair |
| `Projection!NotLeftOpen` | `controller/integration/project.go:437` | The issue of a finding that is over is deleted, and its replacement stays open. | `InformerLag = TRUE, MaxDeletes = 1`, fair |
| `Projection!CaughtUp` | `controller/integration/project.go:541` | A rendering that was never marked is taken for the one marked before it. | `MaxHolds = 1, MaxFailures = 1`, fair |
| `Ingest!HeldOnce` | `controller/integration/ingest.go:180` | A generation resumed while its successor is being opened: the redelivered alert is on both. | `Alerts = {a1, a2}, Workers = {w1, w2}, InformerLag = TRUE, maxAlerts = 2, MaxGens = 2, MaxDeliveries = 2, MaxSuspends = 1` |
| `Ingest!FoldsIn` | `controller/integration/ingest.go:364` | An alert delivered again once its finding was admitted gets a second finding. | `Alerts = {a1}, Workers = {w1}, maxAlerts = 2, MaxGens = 2, MaxDeliveries = 2` |
| `Ingest!Initialised` | `controller/integration/ingest.go:546` | A fold between a finding's creation and its first status write leaves it without a phase. | `Alerts = {a1, a2}, Workers = {w1, w2}, maxAlerts = 2, MaxGens = 2, MaxDeliveries = 1`, fair |
| `ReviewClose!HandOffIsHuman` | `controller/integration/review.go:82` | A merge between the reads of the pull request and of the issue is taken for a person's close. | `MaxClicks = 2` |
| `ReviewClose!MergeSettles` | `controller/integration/review.go:95` | The merge's close changes nothing on a finding whose close is pending, and the settlement of the earlier close drops it. | `MaxClicks = 2, MaxLost = 1`, fair |
| `StaleAlerts!RegressionFound` | `controller/integration/stale.go:240` | The alert closes and reopens at the same commit under a re-check, and the new record is dropped with the old one. | `Older = {"old", "older"}, Newer = {"new"}, MaxUploads = 4`, fair |
| `Deliveries!NoneDropped` | `webhook/webhook.go:284` | A duplicate is answered 202 for a delivery still being queued, which is then refused for a full queue: the log has a success and nothing handles it. | `GUIDs = {"a", "b"}, QueueSize = 1, Workers = 1, Cap = 2, maxAttempts = 3, MaxSends = 4, MaxBursts = 1` |
| `Deliveries!LastRemembered` | `webhook/dedup.go:65` | A GUID dropped for a full queue leaves its slot in the ring: remembered again, it is evicted by its own stale slot. | `GUIDs = {"a", "b", "c"}, QueueSize = 1, Workers = 1, Cap = 3, maxAttempts = 3, MaxSends = 5` |

Where the bounds of a passing run have room for such a case, its property states the condition under
which the code keeps the promise, and the row here is the promise without it: `AnsweredIsHandled` beside
`NoneDropped`, `NoFeedbackLost` beside `StillRead`, `ActiveWithinLimit` beside `NonTerminalWithinLimit`,
`MeasuredWhole` beside `AbortedMeasured`, `SpendKept` beside `CollectedKept`, `SlotHeld` beside
`CodeHeld`, and `Answered` with what it bars. A few cases are kept out by the bounds instead, and the
comments of the properties say so: `pipeline_quiet` has no fault, `GrantsWithinSlots` a current cache
for the scheduler, `Counts` no race between a fold and a revival for `CountsTrue`, the run of `live`'s
`Usage` no failure between its mark and its release, and its `Evaluation` a current cache.

One order is finer in the model than in the code: `IntentDiscovery` orders the events of an issue by their
place in its log, where `project_controller.go:642` compares times that GitHub gives in whole seconds. A
label applied in the very second of the close counts as a trigger in the model and is missed by the code.

The other properties stated in the modules and not part of a run are true of their module on small
instances of their own and are left out of the runs for time: `DoneIsDone`, `NothingLost`,
`CommandsSettle` (commands), `IngestEnds`, `BuildingEnds`, `BlockLifts` (builds), `EverySettles`
(runs), `EveryRequestHeard` (rounds), `PauseTold`, `WaitsForHigher` (scheduler), `SubmittedEnds`
(evaluations).

## Proofs

`FindingPipeline_proofs` proves, for any findings, attempts, slots, faults and actions by people:

- `TypeCorrect`: `Spec => []TypeOK`. The part of `TypeOK` that is not a type, that a recorded pull
  request was opened, needs `WorkerPR`: the number the worker carries from `EnsurePR` to the write
  that records it is one that was opened. `IType` is the two together.
- `Refinement`: `Spec => ImplementsLifecycle`. `LegalStep` says what a step may make of a finding;
  each handler is shown to write one finding, or none, and to make of it what the lifecycle allows
  (`GoodWrite`). The handlers that act on a decision made earlier (`InvRelease`, `InvRoute`,
  `RemAdvance`, `RemRecord`, `RemFinish`, `GateAdvance`) are legal because they read the phase again
  in the step that writes it, so the proof needs no invariant beyond `IType`.
- `FailedRetryable`: `Spec => []FailedIsRetryable`, and `NeverBack`: `Spec => NeverReinvestigated`, the
  lifecycle's promises of the pipeline's own findings. Neither is inductive: what a Failed finding's
  `prior` may be depends on which phases can fail. `History` says it: outside Failed, `prior` is the
  phase itself, and a Failed finding's `prior` is Investigating, Remediating or InReview. The legal
  edges into Failed are what preserves it (`SetPhaseRemembers`, `LegalRemembers`), and every step is
  legal by the case analysis the refinement rests on.
- `SingleInvestigation`: `Spec => []OneInvestigation`.
- `SingleRemediation`: `Spec => ([][SeesLatest]_vars => []OneRemediation)`, with caches as far behind as they
  may be, reconciles cut short and restarts. `SeesLatest` says of one step only, the spawner's
  `SpawnDecide`, that the cache it decides on holds one object, the latest attempt the finding has counted.
  `spawn_lag` is the behaviour in which it does not.

The last two rest on `Leased`: of a finding's runs of one kind only the attempt last counted and the
next one can be in flight, not both, and the last one counted is settled from the moment a reconcile
decides to open the next. Its second half (`gate[f]` or `spawn[f]` carries the counter plus one) needs
that nobody else moves the counter (`Counted`), and that nothing but the two creates starts a run
(`InvestigationsStart`, `RemediationsStart`). On the remediation side the same decision is made on a
cache, which is where `SeesLatest` is used and all it is used for: a phase the cache shows late is an
earlier one, and only makes the spawner wait.

It ends by saying, for every step of the pipeline, what the step does to one finding (`FindingStep`), to
its Investigations (`InvestigationStep`) and to its Remediations (`RemediationStep`), with the
reconciles under way about them: ten, six and twelve cases, each with what the invariants read and no
more. The invariants of `FindingSafety_proofs` are proved from these, not from the actions.

`FindingSafety_proofs` proves, for any findings, attempts, slots, faults and actions by people:

- `PendingClose`: `Spec => []PendingCloseInReview`. `Recorded` adds what SetPhase keeps of
  phaseTimes and that a finding in review has its pull request.
- `NamesItsRun`: `Spec => []ActiveRunNamed`. Inductive are, for investigations, `Investigated`
  (attempts have no gaps, one is in flight or being reported, a reported one is the last, a finding
  analysed is past the gate), and for remediations `Handled` (the worker finds its run where it left
  it), `Granted`, `Leasing` and `Past`. They are `FindingInv` together.
- `InvestigationsBudgeted`: `Spec => []InvestigationBudget`. `Budgeted` counts the unmarked attempts:
  at most `MaxAttempts` of those there are, fewer whenever the gate may open another, which includes
  the moment the worker has decided so and not yet written it. `consumedAttempts`, which subtracts
  marks, is shown to count the same (`CountConsumed`).
- `RemediatedMerged`: `Spec => ([][SeesLatest]_vars => []RemediatedIsMerged)`. `Reviewed`: a finding
  that has left Remediating for its review has no run in flight and no worker about to record a pull
  request.
- `RefusedOncePerLife`: `Spec => ([][SeesLatest]_vars => []RefusedOnce)`. `Broken`: the refusals exceed
  the faults by at most one, and not at all while the breaker is untripped or while a Job of the run in
  flight may still be refused.
- `RemediationMovesOn`: `Spec => [](faults = 0 => RemediationReleases)`.
- `SuccessorRequested` and `RemediationsBudgeted`: `Spec => ([][SeesLatest /\ GrantWhole]_vars =>
  []...)` of `SuccessorNeedsRequest` and `RemediationBudget`. `GrantWhole` says that the worker which
  has written a grant on the run writes it on the finding next. Every other cut, loss and restart is in:
  what they say is that a spawn on a cache without the latest attempt and a grant whose second write is
  lost are the only ways to a successor nobody asked for and to an attempt over the budget. `Ordered`
  ties the phase of a finding that was neither failed nor handed off to its runs and to the worker: a
  Pending run is of a Queued finding, a Running one of a Remediating one or of one about to be, a
  Complete one is the named run and no Queued finding has one. From it follow `Followed` and `Afforded`,
  the counterparts of `Budgeted`.

But for `RemediationMovesOn`, none of these assumes anything of the informers or of faults. `SeesLatest`
and `GrantWhole` restrict one step each, and name the step of the code that breaks the promise (the code
prevents neither). TLC finds the statements violated without them:

- without `SeesLatest` (`spawn`'s NotFound of a child its cache does not hold yet): with two remediations in
  flight the second records its pull request over a merged one, both may launch the refused image, and one
  may succeed beside the other;
- without `GrantWhole`: a worker that dies between the grant's two writes leaves the finding in Queued while
  its run goes on, and the spawner opens another.

`RemediationMovesOn` keeps `faults = 0`, that no reconcile was cut short yet, not that none ever is: a worker
that dies between a run's end and the finding's leaves the finding in Remediating.

`Slots_proofs` proves of the ledger, for any finite set of requests, any pods, limits and caps:

- `SlotsInvariant`, and from it `InFlightCappedHolds` and `NoLostWakeupHolds`: the counter an
  admission is decided on is the number of its pod's requests in flight. It is a cardinality, so the
  proof turns on one request entering or leaving a finite set; the sweep that forgets idle pods
  leaves it because an idle pod has none; and a release wakes every sleeper of its pod, which is why
  none sleeps beside a free slot.

and of the scheduler, for any finite set of runs, any slots, priorities, restarts and expedites:

- `SchedulerTyped`, with the queue holding each pending run once (what `Ranked` orders, and a grant
  takes out of the middle);
- `OverLimitFromStaleList`: `Spec => ([][ListsRunning]_vars => []SlotsRespected)`, the cache as far
  behind as it may be: the only way over the slots is a pass (`SchedulePass`) whose list misses a run
  that holds one, which is the row for `SlotsRespected` above. `GrantsFit` says that the running runs
  and the grants a pass has left fit the slots at every write of the pass, since what it picked was
  pending and nothing else starts a run;
- `OnlyForwardHolds`, with the cache as far behind as it may be: `Told` says that the cache's copy of a
  run, or the last write on its way to it, is the run, and a write over an older copy is refused.

`ReviewClose_proofs` proves, for any number of clicks, lost and copied deliveries and failed reads:

- `OutcomeIsTrue`: `Spec => []OutcomeTrue`, and `HandOffIsSeenClosed`: `Spec => HandOffSeenClosed`;
- `SettledIsOnce`: a finding that left review never moves again.

The phase is written from a delivery sent, or a pull request read, long before. `Evidence` says that
both stay true meanwhile: a merge is for ever and a close is remembered (`wasClosed`). `Watched` says
what a pass knows: it began on a finding in review, it has seen every close since, and it is about to
write without having read the issue only if GitHub would not show it. The proof has a lemma for the
deliveries, one for the settlement, one for the reads and one for the world.

`PreviewSlots_proofs` proves, for any Previews, slots, revisions, retries, faults and sweeps:

- `TypeCorrect`, `HoldersDistinctHolds` and `SlotHeldHolds`: a look at a slot is two lists with anything
  in between, and every decision is made on something read earlier, so the invariant is about what a
  reconcile under way knows. The slots it still takes for free are nobody's (`ChooseFree`), a slot it
  has looked at and found clean is empty of its Preview (`CleanSeen`), and what a Preview has made is in
  the slot it holds, but for a Pod made between the two lists (`slipped`, a history).
- `SlotExclusiveHolds`: a free slot a reconcile has looked
  at stays empty (`LookSeen`), and nobody holds a slot in which another has anything, though the
  Preview that made it may have been removed by hand (`Apart`).
- `NeverRolledExposedHolds`: a step that rolls the code runs over a snapshot whose host was withdrawn
  (`RunsSeen`); a stage acts on what is still true of its Preview but for the spec (`StageKeeps`).
- `QueueKeptHolds`: while a reconcile looks for a slot, the older Previews that wait stay as many
  as it counted or fewer (`TurnKept`), and the slots it takes for free are still so (`ChooseFree`).
- `ReadyExposedHolds`: `ReadyShown` and what Ready stands on between the writes of one reconcile. The
  property is about the time before a sweep begins (`Unswept`); the lemma `UnsweptStep` says that
  such a step is none of a sweep.

`PoolKeptHolds` and `StepsKeptHolds` conjoin them into what the run `previews` checks. None has an assumption
but the module's own. What `SlotHeld` and `SlotExclusive` except is needed: the table has the counterexample
of `CodeHeld`, which is `SlotHeld` of Pods without the exception, and the sweep's; and where the Preview of
the slipped Pod is then removed by hand, two Previews' code shares a slot.

`IntentApproval_proofs` proves, for any actions, edits, attempts, ticks and faults:

- `TypeCorrect`, whose `TypeOK` bounds revisions, comments and inputs by the actions and edits they
  are owed to (`Sized`);
- `ApprovedAsShownHolds`: `ShownLast` says that whoever acted after an unedited last comment saw its
  plan, `Planned` and `Taken` what a pass under way may still post or answer, and with `Dated` they
  carry what was shown to the write that records the approval (`Approved`), whatever is edited in
  between;
- `AppliedOnceHolds`: by `Phased` and `Ordered` a pass answers in GitHub's order, in which several
  share a second, and the triggers it carries are newer than the last one consumed;
- `NothingSkippedHolds`: `Bounds` and `Skips` say what is settled or in the pass's hands;
- `AnsweredOnceHolds`, from a lemma on the replies alone, and `FailedUntriggeredHolds`, by `Relabelled`;
- `ApprovalTrueHolds`, all of them: what the run `intents` checks.

The newest of a set of events is `Max`, a choice: the proofs take its existence from the
well-foundedness of `<` (`NatMin`, `MaxIn`) instead of by induction.

`IntentRuns_proofs` proves, for any runs, slots, suspensions, pushes and faults:

- `TypeCorrect`, `CompleteIsPushedHolds`, `WantedWhenPushedHolds`, `NothingForcedHolds`. `Working`
  says what a pass works on, `Delivery` where maul's commit is and that nothing settles as pushed
  before it is there, `Gated` that a pass past its gate read an intent that wanted the push.
- `AgentsBoundedHolds` and `EndedJobStoppedHolds`, both about the time before a pass is cut short
  (`Faultless`, a part of the properties). `JobsKept`: a live Job is of a run that holds a slot, or of
  one whose stop is the pass's next call; `AbortsDone` and `SlotsCounted` follow it. The table's row for
  `AbortedJobStopped` shows why `Faultless` is there.
- `RunsDeliverHolds` and `PushesWantedHolds`, their conjunctions, which the run `runs` checks.

`Evaluations_proofs` proves, for any Evaluations, units, slots and faults:

- `EvaluationsWellTyped`, `FinishedTrueHolds` and `FinishedStaysHolds`, the cache as far behind as it may
  be. The parent is written from counts of a cached list. They are right because a settled unit never
  changes while its Evaluation is there, so a copy that says it has settled tells how, however old
  (`CopiesTrue`); what a roll-up counted can only have grown by its write (`Counted`); and no more
  units are counted than there are, so that enough of them is all of them (`OutcomeTrue`).
- `NoOrphanJobHolds`: a unit gone shows in no copy as one to launch (`GoneTold`), and the finalizer is dropped
  off a copy nothing has moved past, so the unit a pass is about to create a Job for is there
  (`Creating`) and the one it has deleted the Job of gets no other (`Finalizing`).
- `OverLimitFromStaleList`: `Spec => ([][ListsRunning]_vars => []SlotsRespected)`: only a gate's pass
  whose list misses a unit that runs (its row above) takes the units over `MaxConcurrent`.

An update of a unit is refused when the unit has been written since the copy it was made from
(`GoodWrite` lists the four that are not); `Written` is what each of them leaves true.

The assumptions are those on the constants (bounds and limits are natural numbers, positive where the
code divides or refuses zero); how many findings, pods or requests there are does not enter.
Model-checked only: liveness (`RunsSettle`, `RemediatingEnds`, `RequestsHonoured`, `ClosesSettle`,
`Answered`, `Released`), which needs fairness and ENABLED; the sums of the ledger (in `SpendTrue`),
which are folds over data; and the modules without a proof module: those of `signals`, `intents` and
`runs` but for `ReviewClose`, `IntentApproval`, `SpendLedger`, `RunScheduler`, `Evaluations` and
`IntentRuns`. `InvestigationReleases` is what the run `gate_race` refutes. `RemediationReleases` has no
theorem past the first fault, for it does not hold then.

## Not modelled

- The credential hold, source-controller and the deletion of findings in flight: time or faults here.
- Of integration-controller: stage reports, comments of the runner image and the credential hold,
  backfill and reset. Of intent-controller: status comments and cross-links, reruns of checks,
  ambiguous repositories, validation of Projects. Of preview-controller: several components, target
  health, sign-in, quotas. Each module's header says what it leaves out.
- preview-auth (HTTP sessions), egress-proxy (forwarding and policy matching), the broker's protocol
  translation and pricing: functions of one request.
- The agent runner, which drives an external process inside a Job; the status server, which shows
  what is stored and calls the same actions as `internal/action`; the CLI and mirror.
- Pod specifications, templates and prompts, parsing of scanner payloads, forge and cloud clients,
  generated deep copies: most of the repository's lines, and without a protocol. That is why the
  map covers a small share of the whole repository although the controllers' protocols are here.

## Plan

1. The credential hold between an approval and its spawn, and source-controller's artifacts, in
   place of the time they are now.
2. The comment state of stage reports, and backfill and reset beside `Ingest`.
3. Proofs for the other detailed modules: `ReviewWhole` (`IntentBuilds`), `OneLeasePerRound`
   (`IntentRounds`), and the sums of `SpendLedger`.
4. `ReviewClose` and `Integration` as one refinement: the pipeline's one-step review settlement is
   an abstraction of `ReviewClose`'s passes, which TLC could check.
