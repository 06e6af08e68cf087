---------------------------- MODULE IntentDiscovery ----------------------------
(***************************************************************************)
(* How a trigger label on an issue becomes an Intent, and what becomes of  *)
(* one on the issue of an Intent that has ended: discovery's conditional   *)
(* listing and what it remembers between polls, the nudge to the ended     *)
(* Intent, its hand-off, and the TTL that deletes it.                      *)
(*                                                                         *)
(* Three reconcilers of one process, a worker each, and people on GitHub,  *)
(* take steps between each other's calls; any call may fail and the process *)
(* may restart.  Projects are Ready, share one intent repository and keep   *)
(* it; the rounds and the notices an ended Intent owes are all delivered.  *)
(* An active Intent is abstracted to what it does to the issue.            *)
(***************************************************************************)
EXTENDS Naturals, Sequences, FiniteSets, FiniteSetsExt, SequencesExt

CONSTANTS
    Projects, Issues,
    MaxActive,  \* limits.maxActiveIntents
    Buffer,     \* nudgeBuffer
    Past,       \* issues whose Intent failed before, one Project's
    TTL,        \* whether ended Intents expire at all
    Ends,       \* how Intents end, among EndKinds
    Moves,      \* what people do, among MoveKinds
    Faults,     \* among FaultKinds
    MaxMoves, MaxFaults \* bounds

EndKinds == {"fail", "settle"} \* settle: merged, cancelled: the issue is closed first
MoveKinds == {"label", "labelClosed", "unlabel", "close", "comment"}
FaultKinds == {"error", "restart"}

IntentDiscoveryAssumption ==
    /\ Past \subseteq Issues
    /\ {MaxActive, Buffer} \subseteq Nat \ {0} /\ {MaxMoves, MaxFaults} \subseteq Nat
    /\ TTL \in BOOLEAN /\ Ends \subseteq EndKinds /\ Moves \subseteq MoveKinds /\ Faults \subseteq FaultKinds

VARIABLES
    issue,   \* on GitHub; version: what the listing's ETag tells apart
    intents, \* of each Project and issue
    poll,    \* projectPoll: discovery's memory of each Project
    nudger,  \* the nudges pending, and the channel that brings them
    due,     \* Intents queued for the intent reconciler
    find, pass, expiry, \* what the worker of each reconciler is at
    made,    \* the triggers each Intent was created from, in turn
    revived, \* the Intents that failed and were started again
    refused, told, \* hand-offs whose label was removed, and those given a notice
    budget

vars == <<issue, intents, poll, nudger, due, find, pass, expiry, made, revived, refused, told, budget>>
history == <<made, revived, refused, told>>

Keys == Projects \X Issues
Phases == {"none", "Pending", "Active", "Failed", "Done"}
None == [phase |-> "none", last |-> 0, expired |-> FALSE, deleting |-> FALSE]
Exists(k) == intents[k].phase # "none"
Live == {"Pending", "Active"}
Ended(in) == in.phase \in {"Failed", "Done"}
Active(p, held) == Cardinality({i \in Issues : held[<<p, i>>].phase \in Live})
Forgotten == [etag |-> {<<0, 0>>}, issues |-> [i \in Issues |-> {}], waiting |-> {}]
Quiet == [pending |-> {}, events |-> <<>>]
Rest == [at |-> "idle"]

\* found: the phases the Intent had then, as it was and as the poll under way read it.
\* GitHub dates to the second; same: it is that of the event before.
Event(what, approver, found, same) == [what |-> what, approver |-> approver, found |-> found, same |-> same]

TypeOK ==
    /\ \A i \in Issues :
        /\ issue[i].open \in BOOLEAN /\ issue[i].labels \subseteq Projects /\ issue[i].version \in Nat
        /\ \A e \in 1..Len(issue[i].log) :
              issue[i].log[e] \in [what: Projects \cup {"closed"}, approver: BOOLEAN, found: SUBSET Phases,
                                   same: BOOLEAN]
    /\ intents \in [Keys -> [phase: Phases, last: Nat, expired: BOOLEAN, deleting: BOOLEAN]]
    /\ \A k \in Keys : /\ intents[k].last <= Len(issue[k[2]].log)
                       /\ intents[k].expired \/ intents[k].deleting => Ended(intents[k])
    /\ \A p \in Projects : poll[p].waiting \subseteq Issues
    /\ nudger.pending \cup revived \subseteq Keys /\ Len(nudger.events) <= Buffer /\ due \subseteq Keys

Predecessor == CHOOSE p \in Projects : TRUE
FailedBefore(k) == k[1] = Predecessor /\ k[2] \in Past
Init ==
    /\ issue = [i \in Issues |-> [open |-> TRUE, labels |-> {}, version |-> 0,
                                  log |-> IF i \in Past THEN <<Event(Predecessor, TRUE, {"none"}, FALSE)>> ELSE <<>>]]
    /\ intents = [k \in Keys |-> IF FailedBefore(k) THEN [None EXCEPT !.phase = "Failed", !.last = 1] ELSE None]
    /\ poll = [p \in Projects |-> Forgotten] /\ nudger = Quiet /\ due = {}
    /\ find = Rest /\ pass = Rest /\ expiry = Rest
    /\ made = [k \in Keys |-> IF FailedBefore(k) THEN <<1>> ELSE <<>>] /\ revived = {} /\ refused = {} /\ told = {}
    /\ budget = [moves |-> MaxMoves, faults |-> MaxFaults]

(***************************************************************************)
(* The issue.                                                              *)
(***************************************************************************)
LabelsOf(i, p) == {e \in 1..Len(issue[i].log) : issue[i].log[e].what = p}
Newest(S) == IF S = {} THEN 0 ELSE Max(S)
Changed(is) == [is EXCEPT !.version = @ + 1]
Unlabelled(i, p) == IF p \in issue[i].labels
                    THEN [issue EXCEPT ![i] = Changed([@ EXCEPT !.labels = @ \ {p}])] ELSE issue
Closed(i) == IF issue[i].open
             THEN [issue EXCEPT ![i] = Changed([@ EXCEPT !.open = FALSE,
                                                         !.log = Append(@, Event("closed", TRUE, {}, FALSE))])]
             ELSE issue

(***************************************************************************)
(* Discovery.                                                              *)
(***************************************************************************)
\* The Intents are read first, uncached.
BeginPoll(p) ==
    /\ find = Rest
    /\ find' = [at |-> "list", project |-> p, held |-> intents]
    /\ UNCHANGED <<issue, intents, poll, nudger, due, pass, expiry, history, budget>>

Matching(p) == {i \in Issues : issue[i].open /\ p \in issue[i].labels}
ETag(p) == {<<i, issue[i].version>> : i \in Matching(p)}
\* A full listing: every issue of it waits until it is settled.
Listed(p) == [etag |-> ETag(p), issues |-> [i \in Issues |-> issue[i].labels], waiting |-> Matching(p)]

Each(f, full, active, todo) == [at |-> "each", project |-> f.project, held |-> f.held, full |-> full,
                                active |-> active, todo |-> todo]
ListIssues ==
    /\ find.at = "list"
    /\ LET p == find.project
           full == ETag(p) # poll[p].etag
       IN  /\ IF full THEN poll' = [poll EXCEPT ![p] = Listed(p)] ELSE UNCHANGED poll
           /\ find' = Each(find, full, Active(p, find.held), IF full THEN Matching(p) ELSE poll[p].waiting)
    /\ UNCHANGED <<issue, intents, nudger, due, pass, expiry, history, budget>>

Held(i) == find.held[<<find.project, i>>]
\* sharedIssue: another Project's Intent owns the issue, or its label is on it too.
Owned(i) == \E q \in Projects \ {find.project} : find.held[<<q, i>>].phase # "none"
Contested(i) == \E q \in Projects \ {find.project} : q \in poll[find.project].issues[i]
Settled(i) == [poll EXCEPT ![find.project].waiting = @ \ {i}]
Passed(i) == [find EXCEPT !.todo = @ \ {i}]

\* Nudge: a full channel drops it.
Nudged(k) ==
    IF k \in nudger.pending THEN nudger
    ELSE IF Len(nudger.events) < Buffer
         THEN [pending |-> nudger.pending \cup {k}, events |-> Append(nudger.events, k)]
         ELSE nudger

\* existing: this issue's own Intent. One still terminating keeps it waiting.
Existing(i) ==
    /\ find.at = "each" /\ i \in find.todo /\ Held(i).phase # "none"
    /\ find' = Passed(i)
    /\ IF Held(i).deleting THEN UNCHANGED poll ELSE poll' = Settled(i)
    /\ IF ~Held(i).deleting /\ Ended(Held(i)) /\ find.full
       THEN nudger' = Nudged(<<find.project, i>>) ELSE UNCHANGED nudger
    /\ UNCHANGED <<issue, intents, due, pass, expiry, history, budget>>

New(i) == find.at = "each" /\ i \in find.todo /\ Held(i).phase = "none"

\* A second trigger on an issue with an Intent is removed.
RemoveCompeting(i) ==
    /\ New(i) /\ Owned(i)
    /\ issue' = Unlabelled(i, find.project)
    /\ poll' = Settled(i) /\ find' = Passed(i)
    /\ UNCHANGED <<intents, nudger, due, pass, expiry, history, budget>>

\* Mutant: one too many.
Room_OneMore == find.active <= MaxActive
Room == find.active < MaxActive
\* It stays waiting: contested, or the Project at its limit.
Wait(i) ==
    /\ New(i) /\ ~Owned(i) /\ (Contested(i) \/ ~Room)
    /\ find' = Passed(i)
    /\ UNCHANGED <<issue, intents, poll, nudger, due, pass, expiry, history, budget>>

TriggerSinceClose_Any(i, p) == Newest(LabelsOf(i, p))
\* Dated later than the last close: not in its second.
SinceClose(i, e) == \E j \in (Newest(LabelsOf(i, "closed")) + 1)..e : ~issue[i].log[j].same
TriggerSinceClose(i, p) == IF SinceClose(i, Newest(LabelsOf(i, p))) THEN Newest(LabelsOf(i, p)) ELSE 0

ReadEvents(i) ==
    /\ New(i) /\ ~Owned(i) /\ ~Contested(i) /\ Room
    /\ LET e == TriggerSinceClose(i, find.project)
       IN  IF e = 0 THEN poll' = Settled(i) /\ find' = Passed(i)
           ELSE /\ find' = [Passed(i) EXCEPT !.at = "create"] @@ [issue |-> i, trigger |-> e]
                /\ UNCHANGED poll
    /\ UNCHANGED <<issue, intents, nudger, due, pass, expiry, history, budget>>

Create ==
    /\ find.at = "create"
    /\ LET k == <<find.project, find.issue>>
       IN  /\ intents' = [intents EXCEPT ![k] = [None EXCEPT !.phase = "Pending", !.last = find.trigger]]
           /\ made' = [made EXCEPT ![k] = Append(@, find.trigger)]
           /\ revived' = revived \ {k}
           /\ due' = due \cup {k}
    /\ poll' = Settled(find.issue)
    /\ find' = Each(find, find.full, find.active + 1, find.todo)
    /\ UNCHANGED <<issue, nudger, pass, expiry, refused, told, budget>>

EndPoll ==
    /\ find.at = "each" /\ find.todo = {}
    /\ find' = Rest
    /\ UNCHANGED <<issue, intents, poll, nudger, due, pass, expiry, history, budget>>

(***************************************************************************)
(* The intent reconciler.                                                  *)
(***************************************************************************)
At(k, phase) == pass = Rest /\ intents[k].phase = phase /\ ~intents[k].deleting
Begin(k, at, then, e) == [at |-> at, key |-> k, then |-> then, trigger |-> e, read |-> intents[k]]
\* A status write: the write queues the Intent again.
Write(k, in) == intents' = [intents EXCEPT ![k] = in] /\ due' = due \cup {k}

\* pending: the trigger's author may start it, or it is refused.
Pending(k) ==
    /\ At(k, "Pending")
    /\ IF issue[k[2]].log[intents[k].last].approver
       THEN Write(k, [intents[k] EXCEPT !.phase = "Active"]) /\ UNCHANGED pass
       ELSE pass' = Begin(k, "unlabel", "close", intents[k].last) /\ UNCHANGED <<intents, due>>
    /\ UNCHANGED <<issue, poll, nudger, find, expiry, history, budget>>

NewestTrigger(k) == Newest(LabelsOf(k[2], k[1]))
\* A trigger re-applied while the Intent is active: a replan, or refused.
Replan(k) ==
    /\ At(k, "Active") /\ NewestTrigger(k) > intents[k].last
    /\ Write(k, [intents[k] EXCEPT !.last = NewestTrigger(k)])
    /\ UNCHANGED <<issue, poll, nudger, find, pass, expiry, history, budget>>

\* It fails (the trigger is removed first) or settles (the issue is closed first).
Settle(k) ==
    /\ At(k, "Active")
    /\ \/ "fail" \in Ends /\ pass' = Begin(k, "unlabel", "fail", 0)
       \/ "settle" \in Ends /\ pass' = Begin(k, "close", "done", 0)
    /\ UNCHANGED <<issue, intents, poll, nudger, due, find, expiry, history, budget>>

\* issueClosed.
IssueClosed(k) ==
    /\ \/ At(k, "Active")
       \/ At(k, "Pending")
    /\ ~issue[k[2]].open
    /\ Write(k, [intents[k] EXCEPT !.phase = "Done"])
    /\ UNCHANGED <<issue, poll, nudger, find, pass, expiry, history, budget>>

\* The channel's source.
Deliver ==
    /\ nudger.events # <<>>
    /\ due' = due \cup {Head(nudger.events)}
    /\ nudger' = [nudger EXCEPT !.events = Tail(@)]
    /\ UNCHANGED <<issue, intents, poll, find, pass, expiry, history, budget>>

\* An Intent gone, or going, is nothing to reconcile; one that has ended
\* answers the nudge pending for it, if any.
Reconcile(k) ==
    /\ pass = Rest /\ k \in due
    /\ due' = due \ {k}
    /\ IF Ended(intents[k]) /\ ~intents[k].deleting /\ k \in nudger.pending
       THEN /\ nudger' = [nudger EXCEPT !.pending = @ \ {k}]
            /\ pass' = Begin(k, "events", "consume", 0)
       ELSE UNCHANGED <<nudger, pass>>
    /\ UNCHANGED <<issue, intents, poll, find, expiry, history, budget>>

\* handOff: on a Failed Intent an approver's trigger is a revival.
HandOff ==
    /\ pass.at = "events"
    /\ LET k == pass.key
           e == NewestTrigger(k)
           revive == pass.read.phase = "Failed" /\ issue[k[2]].log[e].approver
       IN  pass' = IF e <= pass.read.last THEN Rest
                   ELSE [pass EXCEPT !.trigger = e, !.at = IF revive THEN "write" ELSE "unlabel",
                                     !.then = IF revive THEN "revive" ELSE "consume"]
    /\ UNCHANGED <<issue, intents, poll, nudger, due, find, expiry, history, budget>>

RemoveLabel ==
    /\ pass.at = "unlabel"
    /\ issue' = Unlabelled(pass.key[2], pass.key[1])
    /\ pass' = [pass EXCEPT !.at = IF pass.then = "fail" THEN "write" ELSE "notice"]
    /\ IF pass.then = "consume" THEN refused' = refused \cup {<<pass.key, pass.trigger>>} ELSE UNCHANGED refused
    /\ UNCHANGED <<intents, poll, nudger, due, find, expiry, made, revived, told, budget>>

CloseIssue ==
    /\ pass.at = "close"
    /\ issue' = Closed(pass.key[2]) /\ pass' = [pass EXCEPT !.at = "write"]
    /\ UNCHANGED <<intents, poll, nudger, due, find, expiry, history, budget>>

PostNotice ==
    /\ pass.at = "notice"
    /\ told' = told \cup {<<pass.key, pass.trigger>>}
    /\ issue' = [issue EXCEPT ![pass.key[2]] = Changed(@)] /\ pass' = [pass EXCEPT !.at = "write"]
    /\ UNCHANGED <<intents, poll, nudger, due, find, expiry, made, revived, refused, budget>>

\* A pass that fails before it is done: a hand-off stays pending for the retry.
HandingOff == pass # Rest /\ pass.then \in {"consume", "revive"}
Restored == IF HandingOff THEN [nudger EXCEPT !.pending = @ \cup {pass.key}] ELSE nudger

Written == CASE pass.then = "fail" -> [pass.read EXCEPT !.phase = "Failed"]
             [] pass.then \in {"close", "done"} -> [pass.read EXCEPT !.phase = "Done"]
             [] pass.then = "revive" ->
                    [pass.read EXCEPT !.phase = "Active", !.last = pass.trigger, !.expired = FALSE]
             [] OTHER -> [pass.read EXCEPT !.last = pass.trigger]
\* The write is of the Intent as read: a conflict is a failed pass.
Record ==
    /\ pass.at = "write"
    /\ IF intents[pass.key] = pass.read
       THEN /\ Write(pass.key, Written) /\ UNCHANGED nudger
            /\ revived' = IF pass.then = "revive" THEN revived \cup {pass.key} ELSE revived
       ELSE due' = due \cup {pass.key} /\ nudger' = Restored /\ UNCHANGED <<intents, revived>>
    /\ pass' = Rest
    /\ UNCHANGED <<issue, poll, find, expiry, made, refused, told, budget>>

(***************************************************************************)
(* The TTL.                                                                *)
(***************************************************************************)
Expire(k) ==
    /\ TTL /\ Ended(intents[k]) /\ ~intents[k].expired
    /\ intents' = [intents EXCEPT ![k].expired = TRUE]
    /\ UNCHANGED <<issue, poll, nudger, due, find, pass, expiry, history, budget>>

\* Read uncached, once the cached copy shows it expired.
ReadExpired(k) ==
    /\ expiry = Rest /\ intents[k].expired /\ ~intents[k].deleting
    /\ expiry' = [at |-> "delete", key |-> k, read |-> intents[k]]
    /\ UNCHANGED <<issue, intents, poll, nudger, due, find, pass, history, budget>>

\* The delete is bound to the UID and resourceVersion read.
Bound == intents[expiry.key] = expiry.read
Delete ==
    /\ expiry.at = "delete"
    /\ expiry' = Rest
    /\ IF Exists(expiry.key) /\ Bound
       THEN intents' = [intents EXCEPT ![expiry.key].deleting = TRUE] /\ due' = due \cup {expiry.key}
       ELSE UNCHANGED <<intents, due>>
    /\ UNCHANGED <<issue, poll, nudger, find, pass, history, budget>>

\* Foreground: the name is free once everything it owns is gone.
Gone(k) ==
    /\ intents[k].deleting
    /\ intents' = [intents EXCEPT ![k] = None] /\ due' = due \cup {k}
    /\ UNCHANGED <<issue, poll, nudger, find, pass, expiry, history, budget>>

(***************************************************************************)
(* People, failures, restarts.                                             *)
(***************************************************************************)
Spend(kind) == budget[kind] > 0 /\ budget' = [budget EXCEPT ![kind] = @ - 1]
Act(i, is) == /\ issue' = [issue EXCEPT ![i] = Changed(is)]
              /\ Spend("moves")
              /\ UNCHANGED <<intents, poll, nudger, due, find, pass, expiry, history>>

Found(k) == {intents[k].phase} \cup IF find.at = "list" THEN {find.held[k].phase} ELSE {}
ApplyLabel(i, p, approver) ==
    /\ IF issue[i].open THEN "label" \in Moves ELSE "labelClosed" \in Moves
    /\ p \notin issue[i].labels
    /\ \E same \in (IF LabelsOf(i, "closed") = {} THEN {FALSE} ELSE BOOLEAN) :
         Act(i, [issue[i] EXCEPT !.labels = @ \cup {p},
                                 !.log = Append(@, Event(p, approver, Found(<<p, i>>), same))])
TakeLabel(i, p) ==
    /\ "unlabel" \in Moves /\ p \in issue[i].labels
    /\ Act(i, [issue[i] EXCEPT !.labels = @ \ {p}])
MoveIssue(i) ==
    \/ /\ "close" \in Moves /\ issue[i].open
       /\ Act(i, [issue[i] EXCEPT !.open = FALSE, !.log = Append(@, Event("closed", TRUE, {}, FALSE))])
    \/ "close" \in Moves /\ ~issue[i].open /\ Act(i, [issue[i] EXCEPT !.open = TRUE])
    \/ "comment" \in Moves /\ Act(i, issue[i])

\* A call of a pass fails: the pass is retried.
Calling == \/ find.at \in {"list", "create"}
           \/ \E i \in Issues : New(i) /\ (Owned(i) \/ (Room /\ ~Contested(i)))
FailCall ==
    /\ "error" \in Faults /\ Spend("faults")
    /\ \/ Calling /\ find' = Rest /\ UNCHANGED <<nudger, due, pass>>
       \/ pass # Rest /\ pass' = Rest /\ due' = due \cup {pass.key} /\ nudger' = Restored /\ UNCHANGED find
    /\ UNCHANGED <<issue, intents, poll, expiry, history>>

\* The process restarts: its memory is lost, every Intent is queued anew.
Restart ==
    /\ "restart" \in Faults /\ Spend("faults")
    /\ find' = Rest /\ pass' = Rest /\ expiry' = Rest
    /\ poll' = [p \in Projects |-> Forgotten] /\ nudger' = Quiet
    /\ due' = {k \in Keys : Exists(k)}
    /\ UNCHANGED <<issue, intents, history>>

Discover == \/ \E i \in Issues : Existing(i) \/ RemoveCompeting(i) \/ Wait(i) \/ ReadEvents(i)
            \/ ListIssues \/ Create \/ EndPoll
Proceed == HandOff \/ RemoveLabel \/ CloseIssue \/ PostNotice \/ Record

Next ==
    \/ \E p \in Projects : BeginPoll(p)
    \/ Discover \/ Proceed \/ Deliver \/ Delete \/ FailCall \/ Restart
    \/ \E k \in Keys : \/ Pending(k) \/ Replan(k) \/ Settle(k) \/ IssueClosed(k) \/ Reconcile(k)
                       \/ Expire(k) \/ ReadExpired(k) \/ Gone(k)
    \/ \E i \in Issues : \/ MoveIssue(i)
                         \/ \E p \in Projects : TakeLabel(i, p) \/ \E by \in BOOLEAN : ApplyLabel(i, p, by)

Spec == Init /\ [][Next]_vars

\* Every Project is polled again and again, every pass goes on, a queued
\* Intent is reconciled.  No Intent need end, nor expire.
Fairness ==
    /\ \A p \in Projects : SF_vars(BeginPoll(p))
    /\ WF_vars(Discover) /\ WF_vars(Proceed) /\ WF_vars(Deliver) /\ WF_vars(Delete)
    /\ \A k \in Keys : /\ SF_vars(Reconcile(k)) /\ SF_vars(Replan(k)) /\ SF_vars(Pending(k))
                       /\ WF_vars(Gone(k))
FairSpec == Spec /\ Fairness

(***************************************************************************)
(* Properties                                                              *)
(***************************************************************************)
\* No trigger creates two Intents, whatever the TTL deletes in between: an
\* ended Intent's trigger is gone, or older than the issue's close
\* (triggerSinceClose).
CreatedOnce == \A k \in Keys : IsInjective(made[k])

\* Two Projects never have an Intent each on one issue (sharedIssue).
OneIntentPerIssue == \A i \in Issues : Cardinality({p \in Projects : Exists(<<p, i>>)}) <= 1

\* An Intent revived as its TTL fires is not deleted (TTLReconciler).
RevivedKept == [][\A k \in Keys : intents'[k].deleting => Ended(intents'[k])]_vars

\* A Project has at most MaxActiveIntents Intents that have not ended, those
\* that failed and were revived apart: handOff starts them without asking for
\* room, also while a poll that has counted before creates one more.
ActiveWithinLimit ==
    \A p \in Projects :
        Cardinality({i \in Issues : intents[<<p, i>>].phase \in Live /\ <<p, i>> \notin revived}) <= MaxActive

\* MaxActiveIntents: "how many of this Project's intents may be non-terminal at
\* once" (project_types.go:214).
NonTerminalWithinLimit == \A p \in Projects : Active(p, intents) <= MaxActive

Stands(k, e) == /\ issue[k[2]].open /\ issue[k[2]].labels = {k[1]} /\ NewestTrigger(k) = e
                /\ e > intents[k].last /\ SinceClose(k[2], e)
Answered(late) == \A k \in Keys, e \in 1..(2 * MaxMoves) :
    (Stands(k, e) /\ late[issue[k[2]].log[e].found]) ~> ~Stands(k, e)
\* A trigger applied where no Intent is, or to one that has ended, is
\* answered: it creates or revives an Intent, or its label is removed.
\* (One applied as the Intent fails waits for the issue's next change.)
TriggerAnswered == Answered([found \in SUBSET Phases |-> found \ Live # {}])

\* So is one that the poll under way, too, read as ended or absent.
TriggerHandedOff == Answered([found \in SUBSET Phases |-> found \cap Live = {}])

\* A hand-off refused gets its notice (handOff).
RefusalTold == \A k \in Keys, e \in 1..(2 * MaxMoves) : <<k, e>> \in refused ~> <<k, e>> \in told
=============================================================================
