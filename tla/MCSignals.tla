------------------------------ MODULE MCSignals -------------------------------
(*****************************************************************************)
(* The integration-controller on its small instances, one at a time:         *)
(* "active" names the instance at work and every other keeps its first       *)
(* state, so one run explores them side by side. The review of a closing     *)
(* issue comes with ReviewClose itself; each other module comes as           *)
(* instances, one per set of bounds.                                         *)
(*****************************************************************************)
EXTENDS ReviewClose

VARIABLES
    active,  \* the instance at work: the others keep their first state
    hookAttempts, hookServer, hookSeen, hookOrder, hookNext, hookQueue, hookHandling,
    hookHandled, hookSweep, hookRecent, hookForgot, hookLoose, hookUsed,
    cmdThread, cmdDelivered, cmdPending, cmdConsumed, cmdLastToggle, cmdRefused, cmdFinding,
    cmdIssue, cmdReplies, cmdPass, cmdFaults, cmdToggles, cmdWrites,
    ingGens, ingCache, ingWork, ingDelivered, ingKept, ingSuspends, ingFailures,
    staleFamily, staleCache, staleAlert, staleMail, stalePass, staleIngesting, staleTold,
    staleUploads, staleFailures, staleResets,
    projFnd, projCache, projIssues, projNotices, projEnabled, projDue, projPass, projFailures,
    projCrashes, projDeletes, projSwitches

hookVars ==
    <<hookAttempts, hookServer, hookSeen, hookOrder, hookNext, hookQueue, hookHandling,
    hookHandled, hookSweep, hookRecent, hookForgot, hookLoose, hookUsed>>
cmdVars ==
    <<cmdThread, cmdDelivered, cmdPending, cmdConsumed, cmdLastToggle, cmdRefused, cmdFinding,
    cmdIssue, cmdReplies, cmdPass, cmdFaults, cmdToggles, cmdWrites>>
ingVars ==
    <<ingGens, ingCache, ingWork, ingDelivered, ingKept, ingSuspends, ingFailures>>
staleVars ==
    <<staleFamily, staleCache, staleAlert, staleMail, stalePass, staleIngesting, staleTold,
    staleUploads, staleFailures, staleResets>>
projVars ==
    <<projFnd, projCache, projIssues, projNotices, projEnabled, projDue, projPass, projFailures,
    projCrashes, projDeletes, projSwitches>>

Hook == INSTANCE Deliveries WITH
    GUIDs <- {"a", "b"}, QueueSize <- 1, Workers <- 1, Cap <- 2, maxAttempts <- 3,
    MaxSends <- 4, MaxBursts <- 1, MaxTimeouts <- 0, MaxStops <- 1, MaxCrashes <- 1,
    MaxExpiries <- 1, MaxReplays <- 0,
    attempts <- hookAttempts, server <- hookServer, seen <- hookSeen, order <- hookOrder,
    next <- hookNext, queue <- hookQueue, handling <- hookHandling, handled <- hookHandled,
    sweep <- hookSweep, recent <- hookRecent, forgot <- hookForgot, loose <- hookLoose,
    used <- hookUsed
Burst == INSTANCE Deliveries WITH
    GUIDs <- {"a", "b"}, QueueSize <- 3, Workers <- 2, Cap <- 1, maxAttempts <- 3,
    MaxSends <- 3, MaxBursts <- 1, MaxTimeouts <- 1, MaxStops <- 0, MaxCrashes <- 1,
    MaxExpiries <- 1, MaxReplays <- 1,
    attempts <- hookAttempts, server <- hookServer, seen <- hookSeen, order <- hookOrder,
    next <- hookNext, queue <- hookQueue, handling <- hookHandling, handled <- hookHandled,
    sweep <- hookSweep, recent <- hookRecent, forgot <- hookForgot, loose <- hookLoose,
    used <- hookUsed
Commands == INSTANCE FindingCommands WITH
    Maintainers <- {"m"}, Strangers <- {"s"}, Verbs <- {"suspend", "resume"}, MaxComments <- 3,
    MaxDeliveries <- 1, MaxPending <- 2, MaxPerActor <- 2, MaxConsumed <- 2, MaxRefused <- 2,
    MaxFaults <- 1, MaxToggles <- 0,
    thread <- cmdThread, delivered <- cmdDelivered, pending <- cmdPending,
    consumed <- cmdConsumed, lastToggle <- cmdLastToggle, refused <- cmdRefused,
    finding <- cmdFinding, issue <- cmdIssue, replies <- cmdReplies, pass <- cmdPass,
    faults <- cmdFaults, toggles <- cmdToggles, writes <- cmdWrites
Redelivered == INSTANCE FindingCommands WITH
    Maintainers <- {"m"}, Strangers <- {"s"}, Verbs <- {"suspend", "resume"}, MaxComments <- 2,
    MaxDeliveries <- 2, MaxPending <- 2, MaxPerActor <- 2, MaxConsumed <- 2, MaxRefused <- 2,
    MaxFaults <- 1, MaxToggles <- 0,
    thread <- cmdThread, delivered <- cmdDelivered, pending <- cmdPending,
    consumed <- cmdConsumed, lastToggle <- cmdLastToggle, refused <- cmdRefused,
    finding <- cmdFinding, issue <- cmdIssue, replies <- cmdReplies, pass <- cmdPass,
    faults <- cmdFaults, toggles <- cmdToggles, writes <- cmdWrites
Intake == INSTANCE Ingest WITH
    Alerts <- {"a1", "a2", "a3"}, Workers <- {"w1", "w2"}, InformerLag <- TRUE, maxAlerts <- 2,
    MaxGens <- 2, MaxDeliveries <- 1, MaxSuspends <- 0, MaxFailures <- 1,
    gens <- ingGens, cache <- ingCache, work <- ingWork, delivered <- ingDelivered,
    kept <- ingKept, suspends <- ingSuspends, failures <- ingFailures
Held == INSTANCE Ingest WITH
    Alerts <- {"a1", "a2"}, Workers <- {"w1", "w2"}, InformerLag <- TRUE, maxAlerts <- 2,
    MaxGens <- 3, MaxDeliveries <- 1, MaxSuspends <- 1, MaxFailures <- 0,
    gens <- ingGens, cache <- ingCache, work <- ingWork, delivered <- ingDelivered,
    kept <- ingKept, suspends <- ingSuspends, failures <- ingFailures
Stale == INSTANCE StaleAlerts WITH
    Older <- {"old", "older"}, Newer <- {"new"}, InformerLag <- TRUE, MaxUploads <- 4,
    MaxFailures <- 2, MaxResets <- 1,
    family <- staleFamily, cache <- staleCache, alert <- staleAlert, mail <- staleMail,
    pass <- stalePass, ingesting <- staleIngesting, told <- staleTold, uploads <- staleUploads,
    failures <- staleFailures, resets <- staleResets
Issue == INSTANCE Projection WITH
    InformerLag <- TRUE, ScannerDown <- FALSE, MaxHolds <- 1, MaxContent <- 2, MaxFailures <- 1,
    MaxCrashes <- 0, MaxDeletes <- 1, MaxSwitches <- 0,
    fnd <- projFnd, cache <- projCache, issues <- projIssues, notices <- projNotices,
    enabled <- projEnabled, due <- projDue, pass <- projPass, failures <- projFailures,
    crashes <- projCrashes, deletes <- projDeletes, switches <- projSwitches
Sticky == INSTANCE Projection WITH
    InformerLag <- TRUE, ScannerDown <- FALSE, MaxHolds <- 0, MaxContent <- 2, MaxFailures <- 0,
    MaxCrashes <- 1, MaxDeletes <- 1, MaxSwitches <- 0,
    fnd <- projFnd, cache <- projCache, issues <- projIssues, notices <- projNotices,
    enabled <- projEnabled, due <- projDue, pass <- projPass, failures <- projFailures,
    crashes <- projCrashes, deletes <- projDeletes, switches <- projSwitches

ASSUME MCSignalsAssumption ==
    /\ Hook!DeliveriesAssumption /\ Burst!DeliveriesAssumption /\ Commands!CommandsAssumption
    /\ Redelivered!CommandsAssumption /\ Intake!IngestAssumption /\ Held!IngestAssumption
    /\ Stale!StaleAlertsAssumption /\ Issue!ProjectionAssumption /\ Sticky!ProjectionAssumption

----------------------------------------------------------------------------
\* The variables of every instance but those of c.
Still(c) ==
    /\ UNCHANGED active
    /\ IF c = "review" THEN TRUE ELSE UNCHANGED vars
    /\ IF c = "hook" THEN TRUE ELSE UNCHANGED hookVars
    /\ IF c = "cmd" THEN TRUE ELSE UNCHANGED cmdVars
    /\ IF c = "ing" THEN TRUE ELSE UNCHANGED ingVars
    /\ IF c = "stale" THEN TRUE ELSE UNCHANGED staleVars
    /\ IF c = "proj" THEN TRUE ELSE UNCHANGED projVars

All == <<active, vars, hookVars, cmdVars, ingVars, staleVars, projVars>>

MCSignalsInit ==
    /\ active \in {"review", "hook", "burst", "commands", "redelivered", "ingest", "suspended",
                   "stale", "issue", "sticky"}
    /\ Init
    /\ IF active = "hook" THEN Hook!Init ELSE Burst!Init
    /\ IF active = "commands" THEN Commands!Init ELSE Redelivered!Init
    /\ IF active = "ingest" THEN Intake!Init ELSE Held!Init
    /\ Stale!Init
    /\ IF active = "issue" THEN Issue!Init ELSE Sticky!Init
    /\ active \notin {"issue", "sticky"} => projEnabled

MCSignalsNext ==
    \/ active = "review" /\ Next /\ Still("review")
    \/ active = "hook" /\ Hook!Next /\ Still("hook")
    \/ active = "burst" /\ Burst!Next /\ Still("hook")
    \/ active = "commands" /\ Commands!Next /\ Still("cmd")
    \/ active = "redelivered" /\ Redelivered!Next /\ Still("cmd")
    \/ active = "ingest" /\ Intake!Next /\ Still("ing")
    \/ active = "suspended" /\ Held!Next /\ Still("ing")
    \/ active = "stale" /\ Stale!Next /\ Still("stale")
    \/ active = "issue" /\ Issue!Next /\ Still("proj")
    \/ active = "sticky" /\ Sticky!Next /\ Still("proj")

MCSignalsSpec == MCSignalsInit /\ [][MCSignalsNext]_All
----------------------------------------------------------------------------
\* What GitHub tells is acted on once.  A GUID it was answered "ok" for is handled,
\* or on its way through the queue to a worker, unless it was answered as the
\* duplicate of a request still on its way to the queue, which a full queue then
\* refuses, or a kill took the queue; and a GUID is handled a second time only after
\* the replay ring forgot it, however bursts, the redelivery sweep, a full queue and a
\* restart bring it again.  A command comment is answered at most once, a stranger is
\* refused at most once on an issue, and the newest suspend or resume written is the
\* one the finding shows, however late, out of order or twice the comments are
\* delivered and wherever a pass fails.  (webhook.go and dedup.go, the receiver, the
\* queue and the ring of seen deliveries; commands.go, settleCommands)
SignalsHandled ==
    /\ active = "hook" => Hook!TypeOK /\ Hook!AnsweredIsHandled
    /\ active = "burst" => Burst!TypeOK /\ Burst!HandledOnce /\ Burst!AnsweredIsHandled
    /\ active = "commands" =>
          Commands!TypeOK /\ Commands!AnsweredOnce /\ Commands!OneRefusal /\ Commands!LastToggleStands
    /\ active = "redelivered" => Redelivered!AnsweredOnce /\ Redelivered!OneRefusal /\ Redelivered!LastToggleStands

\* Two ingests of one group's alerts, each reading a cache that lags and writing
\* on the version it read, keep every alert in a finding up to maxAlerts and
\* count the rest, leave one finding open to the next alert, and lose nothing to
\* a suspension in between (ingest.go, ingestFinding, foldable); and a
\* successor is opened for an alert only if the scanner said it is open again,
\* however stale the analysis that names it (staleAlertSuccessor).
AlertsKept ==
    /\ active = "ingest" => Intake!TypeOK /\ Intake!NoAlertLost /\ Intake!OneFoldable
    /\ active = "suspended" => Held!NoAlertLost
    /\ active = "stale" => Stale!TypeOK /\ Stale!NoStaleDuplicate

\* A finding has one live tracking issue and each notice is on it once, though
\* the answer to a create or a post is lost and the issue is deleted under the
\* projection; the sticky comment is one even over a crash.  (project.go)
IssueOnce ==
    /\ active = "issue" => Issue!TypeOK /\ Issue!PostedOnce
    /\ active = "sticky" => Sticky!StickyOnce
=============================================================================
