----------------------------- MODULE Projection ------------------------------
(***************************************************************************)
(* FindingReconciler's projection of one Finding onto its tracking issue:  *)
(* it opens and links the issue, renders it, keeps a sticky comment of the *)
(* enrichments, posts each phase entry's notice, closes the issue of a     *)
(* finding that is over and tells the scanner of a dismissal.  One pass at *)
(* a time works on the copy of the Finding the cache gave it; other        *)
(* controllers move the Finding meanwhile, and people delete what is on    *)
(* the forge.                                                              *)
(***************************************************************************)
EXTENDS Integers, FiniteSets, Sequences

CONSTANTS
    InformerLag,  \* TRUE: the cached Finding may trail the API server's
    ScannerDown,  \* TRUE: the scanner refuses every write-back
    MaxHolds,     \* bound: entries of AwaitingApproval
    MaxContent,   \* bound: changes of what the issue's body and its sticky comment say
    MaxFailures,  \* bound: calls that fail and change nothing
    MaxCrashes,   \* bound: restarts, and writes that no retry saves
    MaxDeletes,   \* bound: issues and comments deleted on the forge
    MaxSwitches   \* bound: the repository's Issues turned off or on

ProjectionAssumption ==
    /\ InformerLag \in BOOLEAN /\ ScannerDown \in BOOLEAN
    /\ {MaxHolds, MaxContent, MaxFailures, MaxCrashes, MaxDeletes, MaxSwitches} \subseteq Nat

VARIABLES
    fnd,      \* the Finding in the API server
    cache,    \* the informer's copy
    issues,   \* the issues opened, by number
    notices,  \* the phase entries whose notices were posted, in order
    enabled,  \* the repository has Issues turned on
    due,      \* the re-check of a refused issue is due
    pass,     \* the pass under way, with its copy of the Finding
    failures, crashes, deletes, switches

vars == <<fnd, cache, issues, notices, enabled, due, pass, failures, crashes, deletes, switches>>
Forge == <<issues, notices, enabled, due>>
Bounds == <<failures, crashes, deletes, switches>>

Over == {"Dismissed", "Remediated"}
Phases == {"Working", "Awaiting"} \cup Over
None == 0
Unrendered == <<"", 0>>
NoKey == <<"", 0>>

New == [phase |-> "Working", holds |-> 0, content |-> 0, tracking |-> None, comment |-> None,
        digest |-> 0, refused |-> FALSE, body |-> Unrendered, shown |-> 0, posted |-> NoKey,
        projected |-> NoKey, resolved |-> FALSE]
Idle == [at |-> "idle", fnd |-> New, found |-> None]

Rendered(f) == <<f.phase, f.content>>
noticeKey(f) == <<f.phase, IF f.phase = "Awaiting" THEN f.holds ELSE 1>>

Renderings == (Phases \X (0..MaxContent)) \cup {Unrendered}
Keys == (Phases \X (0..MaxHolds + 1)) \cup {NoKey}
Findings == [phase: Phases, holds: 0..MaxHolds, content: 0..MaxContent, tracking: Nat, comment: Nat,
             digest: 0..MaxContent, refused: BOOLEAN, body: Renderings, shown: 0..MaxContent,
             posted: Keys, projected: Keys, resolved: BOOLEAN]
Steps == {"idle", "resolve", "create", "refuse", "link", "opened", "render", "rendered", "edit", "list",
          "adopt", "post", "record", "shown", "notice", "posted", "follow", "projected", "unlink", "told"}

TypeOK ==
    /\ fnd \in Findings /\ cache \in Findings
    /\ issues \in Seq([state: {"open", "closed", "deleted"}, body: Renderings,
                       comments: SUBSET [id: Nat, text: 1..MaxContent]])
    /\ notices \in Seq(Keys \ {NoKey}) /\ enabled \in BOOLEAN /\ due \in BOOLEAN
    /\ pass \in [at: Steps, fnd: Findings, found: Nat]
    /\ fnd.tracking \in 0..Len(issues) /\ (fnd.comment # None => fnd.tracking # None)
    /\ failures \in 0..MaxFailures /\ crashes \in 0..MaxCrashes
    /\ deletes \in 0..MaxDeletes /\ switches \in 0..MaxSwitches

Init ==
    /\ fnd = New /\ cache = fnd /\ issues = <<>> /\ notices = <<>> /\ enabled \in BOOLEAN
    /\ due = FALSE /\ pass = Idle
    /\ failures = 0 /\ crashes = 0 /\ deletes = 0 /\ switches = 0
----------------------------------------------------------------------------
(* The API server, the other controllers and the forge *)
Write(f) == fnd' = f /\ cache' = IF InformerLag THEN cache ELSE f
Read == UNCHANGED <<fnd, cache>>

\* An update of the cached copy is refused until the cache has caught up.
Fresh == cache = fnd

Observe ==
    /\ cache # fnd /\ cache' = fnd
    /\ UNCHANGED <<fnd, pass>> /\ UNCHANGED Forge /\ UNCHANGED Bounds

PhaseMoves ==
    /\ \/ fnd.phase = "Working" /\ fnd.holds < MaxHolds
          /\ Write([fnd EXCEPT !.phase = "Awaiting", !.holds = @ + 1])
       \/ fnd.phase = "Awaiting" /\ Write([fnd EXCEPT !.phase = "Working"])
       \/ fnd.phase = "Working" /\ \E p \in Over : Write([fnd EXCEPT !.phase = p])
    /\ UNCHANGED pass /\ UNCHANGED Forge /\ UNCHANGED Bounds

ContentMoves ==
    /\ fnd.phase = "Working" /\ fnd.content < MaxContent /\ Write([fnd EXCEPT !.content = @ + 1])
    /\ UNCHANGED pass /\ UNCHANGED Forge /\ UNCHANGED Bounds

RecheckDue ==
    /\ ~due /\ fnd.refused /\ due' = TRUE
    /\ Read /\ UNCHANGED <<issues, notices, enabled, pass>> /\ UNCHANGED Bounds

IssuesSwitched ==
    /\ switches < MaxSwitches \/ ~enabled
    /\ enabled' = ~enabled /\ switches' = IF enabled THEN switches + 1 ELSE switches
    /\ Read /\ UNCHANGED <<issues, notices, due, pass, failures, crashes, deletes>>

IssueDeleted(i) ==
    /\ deletes < MaxDeletes /\ deletes' = deletes + 1
    /\ issues[i].state # "deleted"
    /\ issues' = [issues EXCEPT ![i].state = "deleted", ![i].comments = {}]
    /\ Read /\ UNCHANGED <<notices, enabled, due, pass, failures, crashes, switches>>

CommentDeleted(i) ==
    /\ deletes < MaxDeletes /\ deletes' = deletes + 1
    /\ \E c \in issues[i].comments : issues' = [issues EXCEPT ![i].comments = @ \ {c}]
    /\ Read /\ UNCHANGED <<notices, enabled, due, pass, failures, crashes, switches>>
----------------------------------------------------------------------------
(* A pass: where it goes next, given its copy *)
AtPhase(f) ==
    IF f.projected = noticeKey(f) \/ f.phase = "Working" THEN "idle"
    ELSE IF f.phase = "Remediated" THEN "follow" ELSE "notice"

AtComments(f) == IF f.shown = f.content THEN AtPhase(f) ELSE "edit"

\* project: a refused issue is asked for again only once the re-check is due.
AtIssue(f) ==
    IF f.tracking = None THEN IF f.refused /\ ~due THEN "idle" ELSE "create"
    ELSE IF f.body = Rendered(f) THEN AtComments(f) ELSE "render"

AtSource(f) == IF f.phase = "Dismissed" /\ ~f.resolved THEN "resolve" ELSE AtIssue(f)

Go(at, f, found) ==
    pass' = IF at = "idle" THEN Idle ELSE [at |-> at, fnd |-> f, found |-> found]

\* Each annotation write gives the pass the Finding's annotations as they are then.
Annotated(f, by) ==
    [f EXCEPT !.body = by.body, !.shown = by.shown, !.posted = by.posted,
              !.projected = by.projected, !.resolved = by.resolved]

\* markProjected: annotations the cached copy has already are not written.
Marked(cached, live) == IF cached = cache THEN Read ELSE Fresh /\ Write(live)
After(cached, live) == IF cached = cache THEN pass.fnd ELSE Annotated(pass.fnd, live)

Begin ==
    /\ pass = Idle /\ AtSource(cache) # "idle"
    /\ Go(AtSource(cache), cache, None)
    /\ Read /\ UNCHANGED Forge /\ UNCHANGED Bounds

Deleted == issues[pass.fnd.tracking].state = "deleted"

\* A call about the issue answered 404.
Gone == pass' = [pass EXCEPT !.at = "unlink"] /\ UNCHANGED issues

\* resolveSource: the pass ends on an error of the scanner.
ResolveSource ==
    /\ pass.at = "resolve" /\ UNCHANGED Bounds
    /\ pass' = IF ScannerDown THEN Idle ELSE [pass EXCEPT !.at = "told"]
    /\ Read /\ UNCHANGED <<issues, notices, enabled, due>>

MarkResolved ==
    /\ pass.at = "told"
    /\ LET set(f) == [f EXCEPT !.resolved = TRUE]
        after == After(set(cache), set(fnd)) IN
       Marked(set(cache), set(fnd)) /\ Go(AtIssue(after), after, None)
    /\ UNCHANGED Forge /\ UNCHANGED Bounds

\* latest: the API server has a link the cached copy lacks.
Confirmed == fnd.tracking # None

CreateIssue ==
    /\ pass.at = "create"
    /\ IF Confirmed THEN pass' = Idle /\ UNCHANGED issues
       ELSE IF ~enabled THEN pass' = [pass EXCEPT !.at = "refuse"] /\ UNCHANGED issues
       ELSE /\ issues' = Append(issues, [state |-> "open", body |-> Rendered(pass.fnd), comments |-> {}])
            /\ pass' = [pass EXCEPT !.at = "link", !.found = Len(issues) + 1]
    /\ Read /\ UNCHANGED <<notices, enabled, due>> /\ UNCHANGED Bounds

MarkTrackingUnavailable ==
    /\ pass.at = "refuse" /\ Fresh
    /\ Write([fnd EXCEPT !.refused = TRUE]) /\ due' = FALSE /\ pass' = Idle
    /\ UNCHANGED <<issues, notices, enabled>> /\ UNCHANGED Bounds

LinkIssue ==
    /\ pass.at = "link" /\ Fresh
    /\ LET link(f) == [f EXCEPT !.tracking = pass.found, !.refused = FALSE] IN
       Write(link(fnd)) /\ Go("opened", link(pass.fnd), None)
    /\ UNCHANGED Forge /\ UNCHANGED Bounds

\* markProjected after createIssue, which ends its pass, and after rerender.
MarkBody ==
    /\ pass.at \in {"opened", "rendered"}
    /\ LET set(f) == [f EXCEPT !.body = Rendered(pass.fnd)]
        after == After(set(cache), set(fnd)) IN
       Marked(set(cache), set(fnd)) /\ Go(IF pass.at = "opened" THEN "idle" ELSE AtComments(after), after, None)
    /\ UNCHANGED Forge /\ UNCHANGED Bounds

\* rerender: the issue is read, then its body and labels brought up to date.
Rerender ==
    /\ pass.at = "render"
    /\ IF Deleted THEN Gone
       ELSE /\ issues' = [issues EXCEPT ![pass.fnd.tracking].body = Rendered(pass.fnd)]
            /\ pass' = [pass EXCEPT !.at = "rendered"]
    /\ Read /\ UNCHANGED <<notices, enabled, due>> /\ UNCHANGED Bounds

UnlinkIfGone ==
    /\ pass.at = "unlink" /\ Fresh
    /\ Write([fnd EXCEPT !.tracking = None, !.comment = None, !.digest = 0]) /\ pass' = Idle
    /\ UNCHANGED Forge /\ UNCHANGED Bounds
----------------------------------------------------------------------------
(* issueComments.upsert, for the enrichments' sticky comment *)
Comments == issues[pass.fnd.tracking].comments

Retext(id) ==
    issues' = [issues EXCEPT ![pass.fnd.tracking].comments =
                  {c \in @ : c.id # id} \cup {[id |-> id, text |-> pass.fnd.content]}]

\* The record of the cached copy, else the API server's.
Recorded == IF pass.fnd.comment # None THEN pass.fnd ELSE fnd

\* The recorded comment needs no edit, or is still there to take one.
Editable(rec) ==
    rec.comment # None /\ (rec.digest = pass.fnd.content \/ \E c \in Comments : c.id = rec.comment)

Edit(rec) ==
    IF rec.digest = pass.fnd.content THEN pass' = [pass EXCEPT !.at = "shown"] /\ UNCHANGED issues
    ELSE Retext(rec.comment) /\ pass' = [pass EXCEPT !.at = "record", !.found = rec.comment]

\* When the recorded comment is gone the API server's record decides.
EditSticky ==
    /\ pass.at = "edit"
    /\ IF Editable(Recorded) THEN Edit(Recorded)
       ELSE IF Editable(fnd) /\ fnd.comment # Recorded.comment THEN Edit(fnd)
       ELSE pass' = [pass EXCEPT !.at = "list"] /\ UNCHANGED issues
    /\ Read /\ UNCHANGED <<notices, enabled, due>> /\ UNCHANGED Bounds

ListComments ==
    /\ pass.at = "list"
    /\ IF Deleted THEN pass' = [pass EXCEPT !.at = "unlink"]
       ELSE IF Comments = {} THEN pass' = [pass EXCEPT !.at = "post"]
       ELSE \E c \in Comments :
                pass' = [pass EXCEPT !.at = IF c.text = pass.fnd.content THEN "record" ELSE "adopt",
                                     !.found = c.id]
    /\ Read /\ UNCHANGED Forge /\ UNCHANGED Bounds

\* An own comment found by its marker is edited; gone since, the 404 reads as the issue's.
AdoptSticky ==
    /\ pass.at = "adopt"
    /\ IF \E c \in Comments : c.id = pass.found
       THEN Retext(pass.found) /\ pass' = [pass EXCEPT !.at = "record"] ELSE Gone
    /\ Read /\ UNCHANGED <<notices, enabled, due>> /\ UNCHANGED Bounds

PostSticky ==
    /\ pass.at = "post"
    /\ IF Deleted THEN Gone
       ELSE LET id == Len(issues) * 10 + 1 + Cardinality(Comments) + deletes IN
            Retext(id) /\ pass' = [pass EXCEPT !.at = "record", !.found = id]
    /\ Read /\ UNCHANGED <<notices, enabled, due>> /\ UNCHANGED Bounds

\* record reads past the cache.
RecordSticky ==
    /\ pass.at = "record" /\ pass' = [pass EXCEPT !.at = "shown"]
    /\ Write(IF fnd.tracking = None THEN fnd
             ELSE [fnd EXCEPT !.comment = pass.found, !.digest = pass.fnd.content])
    /\ UNCHANGED Forge /\ UNCHANGED Bounds

MarkShown ==
    /\ pass.at = "shown"
    /\ LET set(f) == [f EXCEPT !.shown = pass.fnd.content]
        after == After(set(cache), set(fnd)) IN
       Marked(set(cache), set(fnd)) /\ Go(AtPhase(after), after, None)
    /\ UNCHANGED Forge /\ UNCHANGED Bounds
----------------------------------------------------------------------------
(* projectPhase *)
Key == noticeKey(pass.fnd)

\* Mutant: the notice is posted on the cache's word.
AlreadyPosted_Cached == pass.fnd.posted = Key

\* The cached "not yet" is confirmed against the API server.
AlreadyPosted == pass.fnd.posted = Key \/ fnd.posted = Key

PostNotice ==
    /\ pass.at = "notice"
    /\ IF pass.fnd.posted # Key /\ fnd.projected = Key THEN pass' = Idle /\ UNCHANGED notices
       ELSE IF AlreadyPosted THEN pass' = [pass EXCEPT !.at = "follow"] /\ UNCHANGED notices
       ELSE IF Deleted THEN pass' = [pass EXCEPT !.at = "unlink"] /\ UNCHANGED notices
       ELSE notices' = Append(notices, Key) /\ pass' = [pass EXCEPT !.at = "posted"]
    /\ Read /\ UNCHANGED <<issues, enabled, due>> /\ UNCHANGED Bounds

\* postNotice's record, read past the cache.
MarkPosted ==
    /\ pass.at = "posted"
    /\ LET f == [fnd EXCEPT !.posted = Key] IN
       Write(f) /\ pass' = [pass EXCEPT !.at = "follow", !.fnd = Annotated(@, f)]
    /\ UNCHANGED Forge /\ UNCHANGED Bounds

\* The owners are assigned, or the issue of a finding that is over closed.
FollowUp ==
    /\ pass.at = "follow"
    /\ IF Deleted THEN Gone
       ELSE /\ issues' = IF pass.fnd.phase \in Over
                         THEN [issues EXCEPT ![pass.fnd.tracking].state = "closed"] ELSE issues
            /\ pass' = [pass EXCEPT !.at = "projected"]
    /\ Read /\ UNCHANGED <<notices, enabled, due>> /\ UNCHANGED Bounds

MarkProjected ==
    /\ pass.at = "projected" /\ pass' = Idle
    /\ LET set(f) == [f EXCEPT !.projected = Key, !.posted = Key] IN Marked(set(cache), set(fnd))
    /\ UNCHANGED Forge /\ UNCHANGED Bounds
----------------------------------------------------------------------------
\* Records of what was just made retry past the cache; any other call may end the pass.
MustRecord == {"link", "posted", "record"}

CallFails ==
    /\ pass # Idle /\ pass.at \notin MustRecord
    /\ failures < MaxFailures /\ failures' = failures + 1 /\ pass' = Idle
    /\ Read /\ UNCHANGED Forge /\ UNCHANGED <<crashes, deletes, switches>>

\* A restart, or a record's retries running out.
Crash ==
    /\ crashes < MaxCrashes /\ crashes' = crashes + 1 /\ pass' = Idle
    /\ cache' = fnd /\ UNCHANGED fnd
    /\ UNCHANGED Forge /\ UNCHANGED <<failures, deletes, switches>>

Step ==
    \/ Begin \/ ResolveSource \/ MarkResolved \/ CreateIssue \/ MarkTrackingUnavailable \/ LinkIssue
    \/ MarkBody \/ Rerender \/ UnlinkIfGone \/ EditSticky \/ ListComments \/ AdoptSticky \/ PostSticky
    \/ RecordSticky \/ MarkShown \/ PostNotice \/ MarkPosted \/ FollowUp \/ MarkProjected

Next ==
    \/ Step \/ Observe \/ PhaseMoves \/ ContentMoves \/ RecheckDue \/ IssuesSwitched \/ CallFails \/ Crash
    \/ \E i \in DOMAIN issues : IssueDeleted(i) \/ CommentDeleted(i)

Spec == Init /\ [][Next]_vars

\* Passes are run, retried and re-checked, watches deliver; Issues are turned on in the end.
FairSpec ==
    /\ Spec /\ WF_vars(Step) /\ WF_vars(Observe) /\ WF_vars(RecheckDue)
    /\ WF_vars(~enabled /\ IssuesSwitched)
----------------------------------------------------------------------------
Live == {i \in DOMAIN issues : issues[i].state # "deleted"}

(* docs/configuration/integration-controller.md: "a projection never posts *)
(* the same thing twice" - the cache, which may trail the last post,       *)
(* never decides on one, and a call that fails later does not repeat it.   *)
PostedOnce ==
    /\ Cardinality(Live) <= 1
    /\ \A i, j \in DOMAIN notices : notices[i] = notices[j] => i = j

(* "upsert keeps exactly one comment": one posted and never recorded is    *)
(* found by its marker, even after a restart.                              *)
StickyOnce == \A i \in DOMAIN issues : Cardinality(issues[i].comments) <= 1

\* An issue still on the forge is not given up: only its own 404 drops the link.
UnlinkedGone ==
    [][fnd.tracking # None /\ fnd'.tracking # fnd.tracking => issues[fnd.tracking].state = "deleted"]_vars

Shown ==
    /\ fnd.tracking # None /\ issues[fnd.tracking].state = "closed"
    /\ issues[fnd.tracking].body = Rendered(fnd)

\* A finding that is over is shown so: its issue is closed and up to date.
OverShown == (fnd.phase \in Over) ~> Shown

\* The issue a finding that is over is linked to does not stay open.
NotLeftOpen ==
    []<>~(fnd.phase \in Over /\ fnd.tracking # None /\ issues[fnd.tracking].state = "open")

(* A finding that has stopped moving is shown as it is: the hash of what   *)
(* was last rendered stands for what the issue shows.                      *)
CaughtUp ==
    <>[](fnd.tracking # None /\ issues[fnd.tracking].body = Rendered(fnd))
=============================================================================
