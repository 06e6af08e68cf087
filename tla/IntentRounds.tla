---------------------------- MODULE IntentRounds ----------------------------
(***************************************************************************)
(* The rounds intent-controller runs on the pull requests of one Intent:   *)
(* requests for changes, /maul revise commands and failed checks each      *)
(* start one, one at a time over all the repositories.  A round is leased  *)
(* by creating its run; the Intent's own record of it (rounds, Revising)   *)
(* is a second write, which may be lost, and the runs are listed from a    *)
(* cache, which may lag the lease.                                         *)
(*                                                                         *)
(* Every item of feedback is an approver's and unedited, every repository  *)
(* stays in the Project, and the run reconciler is reduced to how its runs *)
(* settle (IntentRuns).  Times are ticks.                                  *)
(***************************************************************************)
EXTENDS Naturals, FiniteSets, FiniteSetsExt

CONSTANTS
    NumPRs,            \* pull requests, in plan order
    Reviews, Commands, \* requests for changes, /maul revise commands
    MaxRevisions, MaxCheckFixes, \* the Project's limits
    MaxAttempts,       \* attempts of a round
    MaxChecks,         \* bound: times a named check fails
    MaxRaises,         \* bound: times the limits are raised
    MaxFaults,         \* bound: passes cut short
    MaxTime            \* bound: ticks

PR == 1..NumPRs
Item == Reviews \cup Commands
ReviewQuiet == 1
ReviewQuietMax == 2
MaxRound == Cardinality(Item) + MaxChecks \* never reached: a round takes an item or a failure

IntentRoundsAssumption ==
    /\ NumPRs \in Nat \ {0} /\ Reviews \cap Commands = {} /\ IsFiniteSet(Item)
    /\ {MaxRevisions, MaxCheckFixes, MaxChecks, MaxRaises, MaxFaults, MaxTime} \subseteq Nat
    /\ MaxAttempts \in Nat \ {0}

VARIABLES
    now,
    item,     \* feedback: its pull request and when it was left (0: not yet)
    checks,   \* pull requests with a failed named check no round has taken
    state,    \* pull requests on GitHub
    run,      \* IntentRuns of the revise stage
    cached,   \* the informer's copy of them
    intent,   \* the Intent's status, always read live
    posted,   \* round notices on GitHub, by round
    pass,     \* the pass under way: the call it makes next
    budget    \* what people, checks and faults have left to do

vars == <<now, item, checks, state, run, cached, intent, posted, pass, budget>>

State == {"open", "merged", "closed"}
Runs == [round: 1..MaxRound, pr: PR, attempt: 1..MaxAttempts, trigger: {"review", "command", "checks"},
         took: SUBSET Item, read: 0..MaxTime, at: 0..MaxTime, phase: {"Pending", "Complete", "Failed", "NoUsableFeedback"}]

TypeOK ==
    /\ now \in 1..MaxTime
    /\ item \in [Item -> [pr: PR, at: 0..MaxTime]]
    /\ checks \subseteq PR /\ state \in [PR -> State]
    /\ run \subseteq Runs /\ cached \subseteq Runs
    /\ intent \in [phase: {"InReview", "Revising", "MaxRevisions", "MaxCheckFixes", "Merged", "Closed"},
                   rounds: 0..MaxRound, noticed: 0..MaxRound, prs: [PR -> State]]
    /\ posted \in [1..MaxRound -> 0..2]
    /\ pass.at \in {"idle", "lease", "enter", "notice", "cursor", "settle"}
    /\ budget \in [checks: 0..MaxChecks, raises: 0..MaxRaises, faults: 0..MaxFaults]
    /\ \A r, s \in run : (r.round = s.round /\ r.pr = s.pr /\ r.attempt = s.attempt) => r = s
    /\ intent.phase = "Revising" => \E r \in run : r.round = intent.rounds

Rest == [at |-> "idle"]

Init ==
    /\ now = 1
    /\ item = [i \in Item |-> [pr |-> 1, at |-> 0]]
    /\ checks = {} /\ state = [p \in PR |-> "open"]
    /\ run = {} /\ cached = {}
    /\ intent = [phase |-> "InReview", rounds |-> 0, noticed |-> 0, prs |-> state]
    /\ posted = [k \in 1..MaxRound |-> 0]
    /\ pass = Rest
    /\ budget = [checks |-> MaxChecks, raises |-> MaxRaises, faults |-> MaxFaults]

Idle == pass.at = "idle"
Ended == intent.phase \in {"Merged", "Closed"}
Blocked == intent.phase \in {"MaxRevisions", "MaxCheckFixes"}

\* round(...).latest()
Latest(runs, k) ==
    {r \in runs : r.round = k /\ \A s \in runs : s.round = k => s.attempt <= r.attempt}

(***************************************************************************)
(* What is due.                                                            *)
(***************************************************************************)
\* Mutant: a retry closes the window anew.
LeasedAt_AnyAttempt(runs, k) == Max({r.at : r \in {s \in runs : s.round = k}} \cup {0})

\* roundLeasedAt: a round's first attempt closes its feedback window.
LeasedAt(runs, k) == Max({r.at : r \in {s \in runs : s.round = k /\ s.attempt = 1}} \cup {0})

\* reviewCutoff: only rounds on the pull request's own repository move it.
ReviewCutoff(runs, p) == Max({LeasedAt(runs, r.round) : r \in {s \in runs : s.pr = p}} \cup {0})

Consumed(runs, i) == \E r \in runs : i \in r.took

Eligible(runs, p, kind) ==
    {i \in kind : item[i].at > 0 /\ item[i].pr = p /\ item[i].at >= ReviewCutoff(runs, p) /\ ~Consumed(runs, i)}

QuietUntil(s) ==
    Min({Max({item[i].at : i \in s}) + ReviewQuiet, Min({item[i].at : i \in s}) + ReviewQuietMax})

ReviewDue(p) == LET s == Eligible(cached, p, Reviews) IN s # {} /\ now >= QuietUntil(s)
CommandDue(p) == Eligible(cached, p, Commands) # {}
Due(p) == intent.prs[p] = "open" /\ (ReviewDue(p) \/ CommandDue(p) \/ p \in checks)

\* revisionRounds: a round refused for lack of usable feedback costs nothing.
RevisionRounds(runs) ==
    Cardinality({r.round : r \in {s \in runs : s.trigger # "checks" /\
                     \A l \in Latest(runs, s.round) : l.phase # "NoUsableFeedback"}})
CheckFixRounds(runs) == Cardinality({r.round : r \in {s \in runs : s.trigger = "checks"}})
Raised == MaxRaises - budget.raises

\* roundOrder: after the pull request of the latest round, wrapping round.
Offered(k) == LET last == {r.pr : r \in Latest(cached, intent.rounds)}
                  start == IF last = {} THEN 0 ELSE Max(last)
              IN 1 + ((start + k - 1) % NumPRs)

(***************************************************************************)
(* Passes of the intent reconciler.                                        *)
(***************************************************************************)
\* reviewNow: the pull requests are read and recorded, and end the Intent.
ReadPullRequests ==
    /\ Idle /\ intent.phase \in {"InReview", "Revising"} /\ state # intent.prs
    /\ intent' = [intent EXCEPT !.prs = state,
                    !.phase = IF \A p \in PR : state[p] = "merged" THEN "Merged"
                              ELSE IF \A p \in PR : state[p] # "open" THEN "Closed" ELSE @]
    /\ UNCHANGED <<now, item, checks, state, run, cached, posted, pass, budget>>

\* owedRoundNotice, finishPRRound: the current round's is its own end's to post.
OwedThrough_InFlight == intent.rounds
OwedThrough == IF intent.phase = "Revising" THEN intent.rounds - 1 ELSE intent.rounds
SyncRoundNotice ==
    /\ Idle /\ ~Blocked /\ intent.noticed < OwedThrough
    /\ \E r \in Latest(cached, intent.noticed + 1) :
         pass' = [at |-> "notice", round |-> r.round, next |-> "cursor"]
    /\ UNCHANGED <<now, item, checks, state, run, cached, intent, posted, budget>>

Block(reason) == /\ intent' = [intent EXCEPT !.phase = reason] /\ UNCHANGED pass
Propose(p, trigger, took) ==
    /\ pass' = [at |-> "lease", pr |-> p, trigger |-> trigger, took |-> took, read |-> now]
    /\ UNCHANGED intent

\* startRound on p: its review, its command, then its checks.
Serve(p) ==
    IF ReviewDue(p) \/ CommandDue(p)
      THEN IF RevisionRounds(cached) >= MaxRevisions + Raised THEN Block("MaxRevisions")
           ELSE IF ReviewDue(p) THEN Propose(p, "review", Eligible(cached, p, Reviews))
           ELSE \E c \in Eligible(cached, p, Commands) :
                  /\ \A d \in Eligible(cached, p, Commands) : item[c].at <= item[d].at
                  /\ Propose(p, "command", {c})
      ELSE IF CheckFixRounds(cached) >= MaxCheckFixes + Raised THEN Block("MaxCheckFixes")
           ELSE Propose(p, "checks", {})

\* adoptPendingRound, else the first pull request in turn with a round due.
StartRound ==
    /\ Idle /\ intent.phase = "InReview" /\ intent.noticed = intent.rounds
    /\ IF Latest(cached, intent.rounds + 1) # {}
         THEN pass' = [at |-> "enter"] /\ UNCHANGED intent
         ELSE \E k \in PR : /\ Due(Offered(k)) /\ \A j \in 1..(k - 1) : ~Due(Offered(j))
                            /\ Serve(Offered(k))
    /\ UNCHANGED <<now, item, checks, state, run, cached, posted, budget>>

\* read is history: when the feedback it was decided on was read.
Create(k, p, attempt, trigger, took, read) ==
    IF \E r \in run : r.round = k /\ r.pr = p /\ r.attempt = attempt THEN UNCHANGED run
    ELSE run' = run \cup {[round |-> k, pr |-> p, attempt |-> attempt, trigger |-> trigger, took |-> took,
                           read |-> read, at |-> now, phase |-> "Pending"]}

Leased_Cached(k) == \E r \in cached : r.round = k
\* leasedRound: a lease under another repository's name is found only live.
Leased(k) == NumPRs > 1 /\ \E r \in run : r.round = k

\* createReviseRun.  A run of that name with another spec is refused.
CreateReviseRun ==
    /\ pass.at = "lease"
    /\ LET k == intent.rounds + 1 IN
       IF Leased(k) THEN pass' = [at |-> "enter"] /\ UNCHANGED <<run, checks>>
       ELSE /\ Create(k, pass.pr, 1, pass.trigger, pass.took, pass.read)
            /\ checks' = IF pass.trigger = "checks" THEN checks \ {pass.pr} ELSE checks
            /\ pass' = IF \A r \in run' : (r.round = k /\ r.pr = pass.pr /\ r.attempt = 1)
                                           => r.trigger = pass.trigger /\ r.took = pass.took
                       THEN [at |-> "enter"] ELSE Rest
    /\ UNCHANGED <<now, item, state, cached, intent, posted, budget>>

EnterRevising ==
    /\ pass.at = "enter" /\ pass' = Rest
    /\ intent' = [intent EXCEPT !.phase = "Revising", !.rounds = @ + 1]
    /\ UNCHANGED <<now, item, checks, state, run, cached, posted, budget>>

EndRound(r) ==
    /\ pass' = [at |-> "notice", round |-> r.round, next |-> "settle"] /\ UNCHANGED run
Retryable(r) == r.phase = "Failed" /\ r.attempt < MaxAttempts /\ intent.prs[r.pr] = "open"

\* revising and failedRevise: the round's latest run, as the cache shows it.
Revising ==
    /\ Idle /\ intent.phase = "Revising"
    /\ \E r \in Latest(cached, intent.rounds) :
         /\ r.phase # "Pending"
         /\ IF Retryable(r) THEN Create(r.round, r.pr, r.attempt + 1, r.trigger, r.took, r.read)
                                /\ UNCHANGED pass
            ELSE EndRound(r)
    /\ UNCHANGED <<now, item, checks, state, cached, intent, posted, budget>>

Posts(k) == posted[k] = 0 \* an earlier one is found by its marker
PostNotice ==
    /\ pass.at = "notice"
    /\ posted' = IF Posts(pass.round) THEN [posted EXCEPT ![pass.round] = @ + 1] ELSE posted
    /\ pass' = [at |-> pass.next, round |-> pass.round]
    /\ UNCHANGED <<now, item, checks, state, run, cached, intent, budget>>

MoveCursor ==
    /\ pass.at = "cursor" /\ pass' = Rest
    /\ intent' = [intent EXCEPT !.noticed = pass.round]
    /\ UNCHANGED <<now, item, checks, state, run, cached, posted, budget>>

EndReviseRound ==
    /\ pass.at = "settle" /\ pass' = Rest
    /\ intent' = [intent EXCEPT !.phase = "InReview"]
    /\ UNCHANGED <<now, item, checks, state, run, cached, posted, budget>>

\* blocked: nothing but the limit is looked at.
Unblock ==
    /\ Idle
    /\ \/ intent.phase = "MaxRevisions" /\ RevisionRounds(cached) < MaxRevisions + Raised
       \/ intent.phase = "MaxCheckFixes" /\ CheckFixRounds(cached) < MaxCheckFixes + Raised
    /\ intent' = [intent EXCEPT !.phase = "InReview"]
    /\ UNCHANGED <<now, item, checks, state, run, cached, posted, pass, budget>>

(***************************************************************************)
(* Everything else.                                                        *)
(***************************************************************************)
Fault ==
    /\ ~Idle /\ budget.faults > 0 /\ pass' = Rest
    /\ budget' = [budget EXCEPT !.faults = @ - 1]
    /\ UNCHANGED <<now, item, checks, state, run, cached, intent, posted>>

\* The run reconciler: a round whose pull request is recorded ended, or whose
\* intent has ended, is aborted, and no other outcome is possible.
Finish(r) ==
    /\ r.phase = "Pending"
    /\ \E phase \in (IF Ended \/ intent.prs[r.pr] # "open" THEN {"Failed"}
                     ELSE {"Failed", "Complete"} \cup (IF r.trigger = "checks" THEN {} ELSE {"NoUsableFeedback"})) :
         run' = (run \ {r}) \cup {[r EXCEPT !.phase = phase]}
    /\ UNCHANGED <<now, item, checks, state, cached, intent, posted, pass, budget>>

Sync ==
    /\ cached # run /\ cached' = run
    /\ UNCHANGED <<now, item, checks, state, run, intent, posted, pass, budget>>

Tick ==
    /\ now < MaxTime /\ now' = now + 1
    /\ UNCHANGED <<item, checks, state, run, cached, intent, posted, pass, budget>>

Leave(i, p) ==
    /\ item[i].at = 0 /\ state[p] = "open"
    /\ item' = [item EXCEPT ![i] = [pr |-> p, at |-> now]]
    /\ UNCHANGED <<now, checks, state, run, cached, intent, posted, pass, budget>>

FailCheck(p) ==
    /\ p \notin checks /\ budget.checks > 0
    /\ checks' = checks \cup {p} /\ budget' = [budget EXCEPT !.checks = @ - 1]
    /\ UNCHANGED <<now, item, state, run, cached, intent, posted, pass>>

EndPullRequest(p) ==
    /\ state[p] = "open" /\ \E s \in {"merged", "closed"} : state' = [state EXCEPT ![p] = s]
    /\ UNCHANGED <<now, item, checks, run, cached, intent, posted, pass, budget>>

RaiseLimits ==
    /\ budget.raises > 0 /\ budget' = [budget EXCEPT !.raises = @ - 1]
    /\ UNCHANGED <<now, item, checks, state, run, cached, intent, posted, pass>>

Controller == ReadPullRequests \/ SyncRoundNotice \/ StartRound \/ Revising \/ Unblock
Continue == CreateReviseRun \/ EnterRevising \/ PostNotice \/ MoveCursor \/ EndReviseRound

Next ==
    \/ Controller \/ Continue \/ Fault \/ Sync \/ Tick \/ RaiseLimits
    \/ \E r \in run : Finish(r)
    \/ \E p \in PR : FailCheck(p) \/ EndPullRequest(p) \/ \E i \in Item : Leave(i, p)

Spec == Init /\ [][Next]_vars

\* The poll and the runs' watch bring every pass back, runs settle (IntentRuns),
\* the cache follows and time passes.
Fairness ==
    /\ WF_vars(Controller) /\ WF_vars(Continue) /\ WF_vars(Sync) /\ WF_vars(Tick)
    /\ WF_vars(\E r \in run : Finish(r))

FairSpec == Spec /\ Fairness

(***************************************************************************)
(* Properties.                                                             *)
(***************************************************************************)
\* A review or a command starts at most one round, by its id, whatever its
\* time says (reviewConsumed, eligiblePRCommand).
TakenOnce ==
    \A i \in Item, r, s \in run : i \in r.took /\ i \in s.took => r.round = s.round

\* A round number is one lease over all the repositories, though its run's
\* name is one repository's and the cache lags (leasedRound).
OneLeasePerRound == \A r, s \in run : r.round = s.round => r.pr = s.pr

\* The feedback a round's agent is told to act on: all there was when it was
\* leased (threadWindow), unless the round is a check fix.
Heard(i) == \E r \in run : r.pr = item[i].pr /\ r.trigger # "checks" /\ r.attempt = 1 /\ r.at >= item[i].at

HeardOrDue(i) == Heard(i) \/ i \in Eligible(run, item[i].pr, Item)

\* A check-fix round of its pull request, decided on before i was there or its
\* quiet was over, was leased after i was left: its agent is not given i, and
\* the next window starts at its lease.
ShutOut(i) ==
    \E r \in run : /\ r.pr = item[i].pr /\ r.trigger = "checks" /\ r.attempt = 1 /\ item[i].at < r.at
                    /\ r.read < item[i].at + (IF i \in Reviews THEN ReviewQuietMax ELSE 1)

\* A request for changes on an open pull request is read by a round of its
\* own, or still starts one, unless a check-fix round was leased inside its
\* quiet window: no other round's window, retry, block or lost lease drops it
\* (reviewCutoff, roundLeasedAt).
NoFeedbackLost ==
    \A i \in Item : item[i].at > 0 /\ state[item[i].pr] = "open" => HeardOrDue(i) \/ ShutOut(i)

\* A review "may wait out a round on another, and is still read by its own
\* pull request's next round" (intent_revise.go:858-859).
StillRead == \A i \in Item : item[i].at > 0 /\ state[item[i].pr] = "open" => HeardOrDue(i)

\* A command left on one pull request before a round of another is leased is
\* served before that other one's next round (roundOrder).
ServedInTurn ==
    \A r, s \in run : r.pr = s.pr /\ s.round = r.round + 1 =>
        \A c \in Commands : item[c].pr # r.pr /\ 0 < item[c].at /\ item[c].at < r.at
                            /\ state[item[c].pr] = "open" => Heard(c)

\* Each round has one notice, and the cursor never passes a round without
\* one (finishPRRound, deliverRoundNotice).
NoticeOnce == \A k \in 1..MaxRound : posted[k] <= 1 /\ (k <= intent.noticed => posted[k] = 1)

\* Nothing a round's notice says is undone: once it is posted, no run of that
\* round completes (owedRoundNotice, roundInFlight).
NoticeFinal ==
    [][\A r \in run : r.phase = "Pending" /\ posted[r.round] > 0 => [r EXCEPT !.phase = "Complete"] \notin run']_vars

\* Every request for changes on a pull request that stays open is answered by
\* a round, unless a limit holds the intent: no lease left behind and no
\* round on a sibling keeps it waiting.
EveryRequestHeard ==
    \A i \in Item : (0 < item[i].at /\ item[i].at + ReviewQuietMax <= MaxTime) ~>
                        Heard(i) \/ state[item[i].pr] # "open" \/ Blocked

\* A merge by a person ends the intent, whatever it was doing.
MergeObserved == (\A p \in PR : state[p] = "merged") ~> intent.phase = "Merged"
=============================================================================
