--------------------------- MODULE FindingCommands ---------------------------
(***************************************************************************)
(* The /maul commands people write as comments on a finding's tracking     *)
(* issue, for one finding.  A delivery only records the command            *)
(* (Signals.comment); the projection then takes it through four durable    *)
(* steps (FindingReconciler.settleCommands): decide, apply to the spec,    *)
(* answer on GitHub, consume.  Any pass may stop between two of them, and  *)
(* the lists the commands are kept in are bounded.                         *)
(*                                                                         *)
(* A comment is its number: GitHub's ids grow with creation.  Pending      *)
(* commands are keyed by it (listMapKey=commentID), so the list is a set.  *)
(***************************************************************************)
EXTENDS Naturals, FiniteSets, FiniteSetsExt, SequencesExt

CONSTANTS
    Maintainers,    \* accounts with write access to the repository
    Strangers,      \* accounts that can comment and no more
    Verbs,          \* the verbs people write, a subset of the five below
    MaxComments,    \* bound: comments written
    MaxDeliveries,  \* bound: times GitHub delivers one comment
    MaxPending,     \* MaxPendingCommands
    MaxPerActor,    \* MaxPendingCommandsPerActor
    MaxConsumed,    \* MaxConsumedCommands
    MaxRefused,     \* MaxRefusedActors
    MaxFaults,      \* bound: failed GitHub calls, crashes, lost issues
    MaxToggles      \* bound: suspends and resumes made on the status page

CommandsAssumption ==
    /\ Verbs \subseteq {"suspend", "resume", "approve", "unknown"}
    /\ Maintainers \intersect Strangers = {}
    /\ {MaxComments, MaxDeliveries, MaxFaults, MaxToggles} \subseteq Nat
    /\ {MaxPending, MaxPerActor, MaxConsumed, MaxRefused} \subseteq Nat \ {0}

Actors == Maintainers \union Strangers
Comment == 1..MaxComments
Toggle == {"suspend", "resume"}
Outcome == {"", "Done", "Unavailable", "NotAllowed", "UnknownVerb", "Superseded"}

VARIABLES
    thread,     \* the comments written, oldest first: [actor, verb]
    delivered,  \* how often each was delivered
    pending,    \* status.commands.pending: comment -> its FindingCommand
    consumed,   \* status.commands.consumed
    lastToggle, \* status.commands.lastToggle, 0 for none
    refused,    \* status.commands.refusedActors, oldest first
    finding,    \* [phase, suspend, approval]: the comment that approved, or 0
    issue,      \* the tracking issue: [linked, exists]
    replies,    \* comment -> the replies to it on the linked issue, oldest first
    pass,       \* the projection's pass, in memory: [step, id, ...] or Idle
    faults, toggles,
    writes      \* history: comment -> spec writes made for it

commands == <<pending, consumed, lastToggle, refused>>
vars == <<thread, delivered, pending, consumed, lastToggle, refused, finding,
          issue, replies, pass, faults, toggles, writes>>

\* received is the delivery that recorded it (ReceivedAt).
Command == [received: 1..MaxDeliveries, outcome: Outcome, applied: BOOLEAN,
            answering: BOOLEAN, quiet: BOOLEAN]
NewCommand(n) == [received |-> n, outcome |-> "", applied |-> FALSE,
                  answering |-> FALSE, quiet |-> FALSE]
Idle == [step |-> "idle", id |-> 0, saw |-> "", revised |-> "", resumed |-> FALSE]

ActorOf(c) == thread[c].actor
VerbOf(c) == thread[c].verb
----------------------------------------------------------------------------
(* The spec a command acts on: action.ApplyWithID for the verbs modelled.  *)
(* Apply(f, verb, by) is the finding written, or an error.                 *)
Terminal(f) == f.phase = "Closed"

\* ErrUnavailable, ErrUnknownVerb or none.
ApplyError(f, verb) ==
    CASE verb = "unknown" -> "UnknownVerb"
      [] verb = "suspend" /\ ~f.suspend /\ Terminal(f) -> "Unavailable"
      [] verb = "approve" /\ f.phase # "AwaitingApproval" -> "Unavailable"
      [] OTHER -> ""

\* The spec after an admitted verb; an effect already there changes nothing.
Applied(f, verb, c) ==
    CASE verb \in Toggle -> [f EXCEPT !.suspend = (verb = "suspend")]
      [] verb = "approve" -> [f EXCEPT !.approval = IF @ = 0 THEN c ELSE @]
      [] OTHER -> f

\* The effect on the spec is this command's own (toggles never say whose).
AppliedBy(f, c) == VerbOf(c) = "approve" /\ f.approval = c
----------------------------------------------------------------------------
(* Recording a delivery *)
UndecidedBy(P, a) == {p \in DOMAIN P : P[p].outcome = "" /\ ActorOf(p) = a}

\* What dropping p loses, least first; 0 is never dropped.
DropCost(P, p) ==
    CASE P[p].outcome = "NotAllowed" -> IF P[p].quiet THEN 1 ELSE 2
      [] P[p].outcome = "" /\ Cardinality(UndecidedBy(P, ActorOf(p))) > 1 -> 3
      [] OTHER -> 0

\* The command a new one takes the slot of: least loss, newest of those.
SlotVictims(P) ==
    LET can == {p \in DOMAIN P : DropCost(P, p) > 0} IN
    {p \in can : \A q \in can \ {p} :
        \/ DropCost(P, p) < DropCost(P, q)
        \/ DropCost(P, p) = DropCost(P, q) /\ p > q}

CommandSeen(c) ==
    c \in DOMAIN pending \/ c \in consumed \/ c = lastToggle

Without(P, S) == [p \in DOMAIN P \ S |-> P[p]]
With(P, c, cmd) == [p \in DOMAIN P \union {c} |-> IF p = c THEN cmd ELSE P[p]]

RecordCommand(P, c, n) ==
    IF Cardinality(UndecidedBy(P, ActorOf(c))) >= MaxPerActor THEN P
    ELSE IF Cardinality(DOMAIN P) < MaxPending THEN With(P, c, NewCommand(n))
    ELSE IF SlotVictims(P) = {} THEN P
    ELSE With(Without(P, SlotVictims(P)), c, NewCommand(n))
----------------------------------------------------------------------------
TypeOK ==
    /\ thread \in Seq([actor: Actors, verb: Verbs]) /\ Len(thread) <= MaxComments
    /\ delivered \in [Comment -> 0..MaxDeliveries]
    /\ DOMAIN pending \subseteq Comment /\ Cardinality(DOMAIN pending) <= MaxPending
    /\ \A p \in DOMAIN pending : pending[p] \in Command
    /\ consumed \subseteq Comment /\ Cardinality(consumed) <= MaxConsumed
    /\ lastToggle \in 0..MaxComments
    /\ refused \in Seq(Actors) /\ Len(refused) <= MaxRefused
    /\ finding \in [phase: {"AwaitingApproval", "Queued", "Closed"},
                    suspend: BOOLEAN, approval: 0..MaxComments]
    /\ issue \in [linked: BOOLEAN, exists: BOOLEAN]
    /\ replies \in [Comment -> Seq([received: 1..MaxDeliveries, outcome: Outcome])]
    /\ pass \in [step: {"idle", "decide", "apply", "mark", "answer", "reply", "consume"},
                 id: 0..MaxComments, saw: Outcome, revised: Outcome, resumed: BOOLEAN]
    /\ faults \in 0..MaxFaults /\ toggles \in 0..MaxToggles
    /\ writes \in [Comment -> Nat]

Init ==
    /\ thread = <<>> /\ delivered = [c \in Comment |-> 0]
    /\ pending = <<>> /\ consumed = {} /\ lastToggle = 0 /\ refused = <<>>
    /\ finding = [phase |-> "AwaitingApproval", suspend |-> FALSE, approval |-> 0]
    /\ issue = [linked |-> TRUE, exists |-> TRUE]
    /\ replies = [c \in Comment |-> <<>>]
    /\ pass = Idle
    /\ faults = 0 /\ toggles = 0
    /\ writes = [c \in Comment |-> 0]
----------------------------------------------------------------------------
(* People and GitHub *)
WriteComment(a, v) ==
    /\ Len(thread) < MaxComments /\ issue.linked /\ issue.exists
    /\ thread' = Append(thread, [actor |-> a, verb |-> v])
    /\ UNCHANGED <<delivered, commands, finding, issue, replies, pass, faults, toggles, writes>>

\* Late, repeated and reordered.  Resolved by the issue's URL, so nothing is
\* recorded while the finding has no tracking issue.
Deliver(c) ==
    /\ c <= Len(thread) /\ delivered[c] < MaxDeliveries
    /\ delivered' = [delivered EXCEPT ![c] = @ + 1]
    /\ pending' = IF CommandSeen(c) \/ ~issue.linked THEN pending
                  ELSE RecordCommand(pending, c, delivered[c] + 1)
    /\ UNCHANGED <<thread, consumed, lastToggle, refused, finding, issue, replies, pass,
                   faults, toggles, writes>>

\* Someone suspends or resumes on the status page instead.
StatusPageToggle ==
    /\ toggles < MaxToggles /\ toggles' = toggles + 1
    /\ finding.suspend \/ ~Terminal(finding)
    /\ finding' = [finding EXCEPT !.suspend = ~@]
    /\ UNCHANGED <<thread, delivered, commands, issue, replies, pass, faults, writes>>

\* The gate takes an approved finding forward; a close settles any finding.
Progress ==
    /\ \/ /\ finding.phase = "AwaitingApproval" /\ finding.approval # 0 /\ ~finding.suspend
          /\ finding' = [finding EXCEPT !.phase = "Queued"]
       \/ /\ ~Terminal(finding)
          /\ finding' = [finding EXCEPT !.phase = "Closed"]
    /\ UNCHANGED <<thread, delivered, commands, issue, replies, pass, faults, toggles, writes>>

DeleteIssue ==
    /\ issue.exists /\ faults < MaxFaults /\ faults' = faults + 1
    /\ issue' = [issue EXCEPT !.exists = FALSE]
    /\ UNCHANGED <<thread, delivered, commands, finding, replies, pass, toggles, writes>>

\* createIssue: the projection opens a fresh issue and links it.
OpenFreshIssue ==
    /\ ~issue.linked /\ pass = Idle
    /\ issue' = [linked |-> TRUE, exists |-> TRUE]
    /\ replies' = [c \in Comment |-> <<>>]
    /\ UNCHANGED <<thread, delivered, commands, finding, pass, faults, toggles, writes>>
----------------------------------------------------------------------------
(* The projection's pass *)
ToTakeEffect(p) ==
    pending[p].outcome = "" \/ (pending[p].outcome = "Done" /\ ~pending[p].applied)

\* nextCommand: effects in comment order, then answers.
NextCommand ==
    LET effects == {p \in DOMAIN pending : ToTakeEffect(p)} IN
    Min(IF effects # {} THEN effects ELSE DOMAIN pending)

\* Mutant: the order of suspends and resumes is not kept beyond pending.
Verdict_Unordered(f, c) ==
    CASE VerbOf(c) = "unknown" -> "UnknownVerb"
      [] ApplyError(f, VerbOf(c)) # "" -> ApplyError(f, VerbOf(c))
      [] OTHER -> "Done"

\* What decide answers an account with write access, on the copy read.
Verdict(f, c) ==
    CASE VerbOf(c) = "unknown" -> "UnknownVerb"
      [] VerbOf(c) \in Toggle /\ c < lastToggle -> "Superseded"
      [] ApplyError(f, VerbOf(c)) # "" -> ApplyError(f, VerbOf(c))
      [] OTHER -> "Done"

\* The step a command is at.
StepOf(cmd) ==
    CASE cmd.outcome = "" -> "decide"
      [] cmd.outcome = "Done" /\ ~cmd.applied -> "apply"
      [] OTHER -> "answer"

\* Reads the API server's copy and picks a command.
StartPass ==
    /\ pass = Idle /\ DOMAIN pending # {} /\ issue.linked
    /\ LET c == NextCommand IN
       pass' = [Idle EXCEPT !.step = StepOf(pending[c]), !.id = c, !.saw = Verdict(finding, c)]
    /\ UNCHANGED <<thread, delivered, commands, finding, issue, replies, faults, toggles, writes>>

At(s) == pass.step = s
Mine == pending[pass.id]
Gone == pass.id \notin DOMAIN pending

\* errCommandGone: it lost its slot under the pass.
LeaveGone ==
    /\ pass # Idle /\ Gone
    /\ pass' = Idle
    /\ UNCHANGED <<thread, delivered, commands, finding, issue, replies, faults, toggles, writes>>

\* rememberActor: the latest MaxRefused accounts.
Remember(ids, a) == LET all == Append(ids, a) IN
                    IF Len(all) > MaxRefused THEN Tail(all) ELSE all

\* Refused on this finding before: the reaction alone answers.
Quiet(a) == a \in ToSet(refused)

\* Write access asked first; a refused lookup (403) fails closed.
DecideAndRecord ==
    /\ At("decide") /\ ~Gone
    /\ \E allowed \in {ActorOf(pass.id) \in Maintainers, FALSE} :
        LET outcome == IF allowed THEN pass.saw ELSE "NotAllowed"
            by == ActorOf(pass.id)
            quiet == outcome = "NotAllowed" /\ Quiet(by)
            cmd == [Mine EXCEPT !.outcome = outcome, !.quiet = quiet]
        IN /\ allowed \/ by \notin Maintainers \/ faults < MaxFaults
           /\ faults' = IF ~allowed /\ by \in Maintainers THEN faults + 1 ELSE faults
           /\ pending' = [pending EXCEPT ![pass.id] = cmd]
           /\ lastToggle' = IF outcome = "Done" /\ VerbOf(pass.id) \in Toggle
                            THEN Max({lastToggle, pass.id}) ELSE lastToggle
           /\ refused' = IF outcome # "NotAllowed" \/ quiet THEN refused
                         ELSE Remember(refused, by)
           /\ pass' = [pass EXCEPT !.step = StepOf(cmd)]
    /\ UNCHANGED <<thread, delivered, consumed, finding, issue, replies, toggles, writes>>

\* The spec write: gated again on the finding as it is now.
ApplySpec ==
    /\ At("apply") /\ ~Gone
    /\ LET c == pass.id
           err == ApplyError(finding, VerbOf(c))
           after == Applied(finding, VerbOf(c), c)
       IN IF err # ""
          THEN /\ pass' = [pass EXCEPT !.step = "mark",
                                       !.revised = IF AppliedBy(finding, c) THEN "" ELSE err]
               /\ UNCHANGED <<finding, writes>>
          ELSE /\ pass' = [pass EXCEPT !.step = "mark", !.revised = ""]
               /\ finding' = after
               /\ writes' = [writes EXCEPT ![c] = IF after # finding THEN @ + 1 ELSE @]
    /\ UNCHANGED <<thread, delivered, commands, issue, replies, faults, toggles>>

MarkApplied ==
    /\ At("mark") /\ ~Gone
    /\ pending' = [pending EXCEPT ![pass.id] =
                    IF pass.revised # "" THEN [@ EXCEPT !.outcome = pass.revised]
                                         ELSE [@ EXCEPT !.applied = TRUE]]
    /\ pass' = [pass EXCEPT !.step = "answer"]
    /\ UNCHANGED <<thread, delivered, consumed, lastToggle, refused, finding, issue, replies,
                   faults, toggles, writes>>

\* AnsweringSince, before anything is posted.
StampAnswering ==
    /\ At("answer") /\ ~Gone
    /\ pass' = [pass EXCEPT !.step = "reply", !.resumed = Mine.answering]
    /\ pending' = [pending EXCEPT ![pass.id].answering = TRUE]
    /\ UNCHANGED <<thread, delivered, consumed, lastToggle, refused, finding, issue, replies,
                   faults, toggles, writes>>

\* GitHub calls of the answer that fail, before or after they took effect.
Fault == faults < MaxFaults /\ faults' = faults + 1
Posted == [received |-> Mine.received, outcome |-> Mine.outcome]
Post == replies' = [replies EXCEPT ![pass.id] = Append(@, Posted)]

\* replyPosted: a reply of this recording is always found; one of an earlier
\* recording only while it is still inside the listing's window.
Found == {FALSE : r \in {Posted} \ ToSet(replies[pass.id])}
         \union {TRUE : r \in ToSet(replies[pass.id])}

\* Reaction, then exactly one reply, none for a Quiet refusal.
Reply ==
    /\ At("reply") /\ ~Gone
    /\ \E found \in IF pass.resumed THEN Found ELSE {FALSE} :
        \/ /\ Mine.quiet \/ (issue.exists /\ found)
           /\ pass' = [pass EXCEPT !.step = "consume"]
           /\ UNCHANGED <<issue, replies, faults>>
        \/ /\ ~Mine.quiet /\ issue.exists /\ ~found
           /\ Post
           /\ \/ pass' = [pass EXCEPT !.step = "consume"] /\ UNCHANGED faults
              \/ pass' = Idle /\ Fault           \* posted, the response lost
           /\ UNCHANGED issue
        \/ /\ ~Mine.quiet /\ ~issue.exists        \* 404: unlinkIfGone
           /\ issue' = [issue EXCEPT !.linked = FALSE]
           /\ pass' = Idle
           /\ UNCHANGED <<replies, faults>>
    /\ UNCHANGED <<thread, delivered, commands, finding, toggles, writes>>

\* GitHub failed the answer for commandAnswerTimeout: consumed without it.
GiveUpAnswer ==
    /\ At("reply") /\ ~Gone /\ pass.resumed /\ Fault
    /\ pass' = [pass EXCEPT !.step = "consume"]
    /\ UNCHANGED <<thread, delivered, commands, finding, issue, replies, toggles, writes>>

\* The largest MaxConsumed of them are kept.
ConsumeID(ids, c) ==
    {i \in ids \union {c} : Cardinality({j \in ids \union {c} : j > i}) < MaxConsumed}

Consume ==
    /\ At("consume") /\ ~Gone
    /\ consumed' = IF Mine.outcome = "NotAllowed" THEN consumed ELSE ConsumeID(consumed, pass.id)
    /\ pending' = Without(pending, {pass.id})
    /\ pass' = Idle
    /\ UNCHANGED <<thread, delivered, lastToggle, refused, finding, issue, replies, faults,
                   toggles, writes>>

\* A crash, a write that fails, or a GitHub call that fails: the pass ends
\* and the next one resumes where the finding says.
PassFails ==
    /\ pass # Idle /\ Fault
    /\ pass' = Idle
    /\ UNCHANGED <<thread, delivered, commands, finding, issue, replies, toggles, writes>>
----------------------------------------------------------------------------
Projection ==
    \/ StartPass \/ DecideAndRecord \/ ApplySpec \/ MarkApplied \/ StampAnswering
    \/ Reply \/ Consume \/ LeaveGone \/ OpenFreshIssue

Next ==
    \/ \E a \in Actors, v \in Verbs : WriteComment(a, v)
    \/ \E c \in Comment : Deliver(c)
    \/ StatusPageToggle \/ Progress \/ DeleteIssue
    \/ Projection \/ GiveUpAnswer \/ PassFails

Spec == Init /\ [][Next]_vars

\* The finding's own status writes re-queue it, and an error its backoff.
FairSpec == Spec /\ WF_vars(Projection)
----------------------------------------------------------------------------
(* Properties *)
\* The comment left the bounded list of those answered: larger ids filled it.
Forgotten(c) == c \notin consumed /\ Cardinality(consumed) = MaxConsumed
                /\ \A i \in consumed : i > c

\* A comment is answered on its issue at most once however often it is
\* delivered and however often a pass fails after posting, until
\* MaxConsumed later commands have pushed it out of the list (settleCommands
\* step 3, replyPosted, commandSeen).
AnsweredOnce ==
    \A c \in Comment :
        Forgotten(c) \/ Cardinality({i \in DOMAIN replies[c] :
                            replies[c][i].outcome # "NotAllowed"}) <= 1

\* An account without write access is sent one refusal on an issue, however
\* many comments it writes, while RefusedActors remembers it (Quiet).
OneRefusal ==
    \A a \in ToSet(refused) :
        Cardinality({<<c, i>> \in Comment \X (1..(2 * MaxComments)) :
            /\ c <= Len(thread) /\ i \in DOMAIN replies[c]
            /\ ActorOf(c) = a /\ replies[c][i].outcome = "NotAllowed"}) <= 1

\* The finding stays as the last suspend or resume written left it, however
\* late an older one is delivered, decided or retried (LastToggle), unless
\* someone used the status page or the finding closed.
LastToggleStands ==
    (/\ lastToggle # 0 /\ toggles = 0 /\ ~Terminal(finding)
     /\ \A p \in DOMAIN pending : VerbOf(p) \in Toggle => ~ToTakeEffect(p)
     /\ pass.step # "mark")
        => finding.suspend = (VerbOf(lastToggle) = "suspend")

\* A reply that says an approval is done is true: an approval is on the spec,
\* although the finding may have moved between the decision and its effect.
DoneIsDone ==
    \A c \in 1..Len(thread) : \A i \in DOMAIN replies[c] :
        replies[c][i].outcome = "Done" /\ VerbOf(c) = "approve" => finding.approval # 0

\* No slot is taken from a command that had an effect, or from an account's
\* only undecided one: it leaves pending when it is answered, when refused,
\* or when its author has another undecided (slotVictim, dropCost).
NothingLost ==
    [][\A p \in DOMAIN pending \ DOMAIN pending' :
        \/ p \in consumed' \/ Forgotten(p)'
        \/ pending[p].outcome = "NotAllowed"
        \/ pending[p].outcome = "" /\ UndecidedBy(pending, ActorOf(p)) \ {p} # {}]_vars

\* Every command recorded is answered or gives its slot up: no failing
\* answer, deleted issue or flood of other commands holds it for ever.
CommandsSettle ==
    \A c \in Comment : c \in DOMAIN pending ~> c \notin DOMAIN pending

\* commands.go, apply step: "marked applied, so a retry never writes the
\* spec twice".
SpecWrittenOnce == \A c \in Comment : writes[c] <= 1
=============================================================================
