------------------------------ MODULE RunUsage ------------------------------
(***************************************************************************)
(* The usage of one run: what its pod spends through the egress broker,    *)
(* the broker's ledger of it, the run controller's measurement of it once  *)
(* the run settles or is deleted, and its fold into the usage rollups.     *)
(*                                                                         *)
(* One worker handles the run, reads it fresh and is its only writer, but  *)
(* for people, who delete it.  The pod, the broker and the controller's    *)
(* process have lives of their own.  A request spends one, charged to the  *)
(* ledger as it settles; pricing, the shortfall of a cut answer and the    *)
(* ledger's eviction of pods idle for a day are left out.  The run is      *)
(* attributed, on a brokered harness, and measuring is on.                 *)
(***************************************************************************)
EXTENDS Integers, Sequences, FiniteSets, SequencesExt

CONSTANTS
    Kind,       \* "intent", an IntentRun, or "stage", an Investigation or Remediation
    Aborts,     \* whether the run may settle before its Job does
    Deletes,    \* when people delete it, one of DeleteTimes
    LateFaults, \* whether a pass may fail between its mark and the release
    MaxRequests, MaxBoots, MaxFaults \* bounds

DeleteTimes == {"final", "settled", "any"}

RunUsageAssumption ==
    /\ Kind \in {"intent", "stage"} /\ {Aborts, LateFaults} \subseteq BOOLEAN /\ Deletes \in DeleteTimes
    /\ {MaxRequests, MaxBoots, MaxFaults} \subseteq Nat

\* The rollups the run contributes to, in turn; an IntentRun's first two are one here.
Owes == IF Kind = "intent" THEN <<"user", "project">> ELSE <<"user">>

VARIABLES
    pod,    \* "running", "terminating" (its Job deleted), "ended"
    spent,  \* requests it has made
    broker, \* its ledger: the pod's entry, and whether it booted before the Job
    run,    \* the run, as the API server holds it
    rollup, \* what each scope has folded, in turn
    rights, \* whether the controller may write the rollups
    pass,   \* what the worker is at
    first,  \* the meter's memory of the run: "none", "looked", "waited"
    budget

vars == <<pod, spent, broker, run, rollup, rights, pass, first, budget>>
world == <<pod, spent, broker, budget>>

\* "late", a history: whether the pod could still make requests when it was found.
Unknown == [final |-> FALSE, source |-> "none", figure |-> 0, late |-> FALSE]
Rest == [at |-> "idle"]
Sources == {"none", "reported", "partial", "measured"}
Usages == [final: BOOLEAN, source: Sources, figure: Nat, late: BOOLEAN]
TypeOK ==
    /\ pod \in {"running", "terminating", "ended"} /\ spent \in 0..MaxRequests
    /\ broker \in [entry: BOOLEAN, seen: Nat, inflight: Nat, whole: BOOLEAN]
    /\ broker.seen + broker.inflight <= spent
    /\ run \in [settled: BOOLEAN, deleting: BOOLEAN, usage: Usages, jobs: BOOLEAN, held: BOOLEAN,
                mark: {"none", "Aggregated", "RollupForbidden"}]
    /\ run.usage.final <=> run.usage.source # "none"
    /\ ~run.held => run.mark # "none"
    /\ \A s \in ToSet(Owes) : rollup[s] \in Seq(Usages)
    /\ first \in {"none", "looked", "waited"}

Init ==
    /\ pod = "running" /\ spent = 0
    /\ broker = [entry |-> FALSE, seen |-> 0, inflight |-> 0, whole |-> TRUE]
    /\ run = [settled |-> FALSE, deleting |-> FALSE, usage |-> Unknown, jobs |-> TRUE, held |-> TRUE, mark |-> "none"]
    /\ rollup = [s \in ToSet(Owes) |-> <<>>] /\ rights = TRUE
    /\ pass = Rest /\ first = "none"
    /\ budget = [boots |-> MaxBoots, faults |-> MaxFaults]

Gone == run.deleting /\ ~run.jobs /\ ~run.held

(***************************************************************************)
(* The pod and the broker                                                  *)
(***************************************************************************)
\* admit: the pod's request takes a slot.
Admit ==
    /\ pod # "ended" /\ spent < MaxRequests /\ spent' = spent + 1
    /\ broker' = [broker EXCEPT !.entry = TRUE, !.inflight = @ + 1]
    /\ UNCHANGED <<pod, run, rollup, rights, pass, first, budget>>
\* Its usage is charged, and its slot released.
SettleRequest ==
    /\ broker.inflight > 0
    /\ broker' = [broker EXCEPT !.seen = @ + 1, !.inflight = @ - 1]
    /\ UNCHANGED <<pod, spent, run, rollup, rights, pass, first, budget>>
\* The agent finishes, or its grace period ends; requests it left are cut.
EndPod ==
    /\ pod # "ended" /\ pod' = "ended"
    /\ UNCHANGED <<spent, broker, run, rollup, rights, pass, first, budget>>
Spend(kind) == budget[kind] > 0 /\ budget' = [budget EXCEPT ![kind] = @ - 1]
Boot ==
    /\ Spend("boots")
    /\ broker' = [entry |-> FALSE, seen |-> 0, inflight |-> 0, whole |-> FALSE]
    /\ UNCHANGED <<pod, spent, run, rollup, rights, pass, first>>

(***************************************************************************)
(* The run controller                                                      *)
(***************************************************************************)
\* intentEnded, deadlines: the Job is deleted in the background.
DeleteJob ==
    /\ Aborts /\ pass = Rest /\ ~run.settled /\ ~run.deleting
    /\ pod = "running" /\ pod' = "terminating"
    /\ UNCHANGED <<spent, broker, run, rollup, rights, pass, first, budget>>
\* The run settles: its Job finished, or is deleted.
SettleRun ==
    /\ pass = Rest /\ ~run.settled /\ ~run.deleting /\ pod # "running"
    /\ run' = [run EXCEPT !.settled = TRUE]
    /\ UNCHANGED <<pod, spent, broker, rollup, rights, pass, first, budget>>

Owed(r) == r.held /\ r.mark = "none"
\* Pending, PendingDeleted: whether the usage is to be measured.
Pending(r) == (r.settled \/ r.deleting) /\ ~r.usage.final /\ (r.deleting => Owed(r))

\* A pass over a settled or deleted run; finalize deletes the Job first.
Begin ==
    /\ pass = Rest /\ ~Gone /\ (run.settled \/ run.deleting)
    /\ Pending(run) \/ run.held \/ (run.deleting /\ run.jobs)
    /\ run' = IF run.deleting THEN [run EXCEPT !.jobs = FALSE] ELSE run
    /\ pod' = IF run.deleting /\ pod = "running" THEN "terminating" ELSE pod
    /\ pass' = [at |-> IF Pending(run) THEN "fetch" ELSE "roll", read |-> run']
    /\ UNCHANGED <<spent, broker, rollup, rights, first, budget>>

\* Looked at again later: nothing else is done.
Again == pass' = Rest /\ first' = IF first = "none" THEN "looked" ELSE first
Found(source, figure) ==
    /\ pass' = [at |-> "apply", read |-> pass.read,
                usage |-> [final |-> TRUE, source |-> source, figure |-> figure, late |-> pod # "ended"]]
    /\ first' = "none"
\* Decide
Verdict_Booted == IF broker.inflight > 0 THEN "partial" ELSE "measured"
Verdict == IF broker.inflight > 0 \/ ~broker.whole THEN "partial" ELSE "measured"
Ready_Drained == broker.inflight = 0
Ready == broker.inflight = 0 \/ first = "waited"
Fetch ==
    /\ pass.at = "fetch"
    /\ IF ~broker.entry THEN Found("reported", 0)
       ELSE IF Ready THEN Found(Verdict, broker.seen) ELSE Again
    /\ UNCHANGED <<run, rollup, rights, world>>
\* The broker does not answer.
FetchFails ==
    /\ pass.at = "fetch"
    /\ IF first = "waited" THEN Found("reported", 0) ELSE Again
    /\ UNCHANGED <<run, rollup, rights, world>>
\* Two minutes after the first look of this process.
Waited ==
    /\ first = "looked" /\ first' = "waited"
    /\ UNCHANGED <<run, rollup, rights, pass, world>>

\* Only an IntentRun deleted since is left to its deletion's own measurement.
Guarded == Kind = "intent" /\ ~pass.read.deleting /\ run.deleting
\* Apply, on a fresh read.
Apply ==
    /\ pass.at = "apply"
    /\ run' = IF Gone \/ run.usage.final \/ Guarded THEN run
              ELSE [run EXCEPT !.usage = pass.usage]
    /\ pass' = [at |-> "roll", read |-> pass.read]
    /\ UNCHANGED <<rollup, rights, first, world>>

Due(r) == r.deleting \/ (r.settled /\ r.usage.final)
\* rollUpUsage, Settle: the run read fresh, if the pass found it owed.
Roll ==
    /\ pass.at = "roll"
    /\ pass' = IF ~Owed(pass.read) \/ Gone THEN Rest
               ELSE IF Owed(run) /\ Due(run) THEN [at |-> "fold", read |-> pass.read, obj |-> run, todo |-> Owes]
               ELSE [at |-> "release", read |-> pass.read]
    /\ UNCHANGED <<run, rollup, rights, first, world>>

\* ApplyUsage: the ledger has the run's key.
Folded(s) == rollup[s] # <<>>
Fold ==
    /\ pass.at = "fold" /\ pass.todo # <<>> /\ rights
    /\ LET s == Head(pass.todo)
       IN  rollup' = IF Folded(s) THEN rollup ELSE [rollup EXCEPT ![s] = Append(@, pass.obj.usage)]
    /\ pass' = [pass EXCEPT !.todo = Tail(@)]
    /\ UNCHANGED <<run, rights, first, world>>
\* The mark, refused if the run was written since.
Mark(mark) ==
    /\ IF run # pass.obj THEN pass' = [at |-> "roll", read |-> pass.read] /\ UNCHANGED run
       ELSE /\ run' = [run EXCEPT !.mark = mark]
            /\ pass' = [at |-> "release", read |-> pass.read]
    /\ UNCHANGED <<rollup, rights, first, world>>
Reached == pass.todo = <<>>
MarkAggregated == pass.at = "fold" /\ Reached /\ Mark("Aggregated")
MarkForbidden == pass.at = "fold" /\ pass.todo # <<>> /\ ~rights /\ Mark("RollupForbidden")
Release ==
    /\ pass.at = "release" /\ pass' = Rest
    /\ run' = IF run.mark # "none" THEN [run EXCEPT !.held = FALSE] ELSE run
    /\ UNCHANGED <<rollup, rights, first, world>>

(***************************************************************************)
(* People, and failures                                                    *)
(***************************************************************************)
Delete ==
    /\ ~run.deleting
    /\ Deletes = "any" \/ (run.settled /\ (Deletes = "settled" \/ run.usage.final))
    /\ run' = [run EXCEPT !.deleting = TRUE]
    /\ UNCHANGED <<rollup, rights, pass, first, world>>
TurnOff ==
    /\ rights /\ Spend("faults") /\ rights' = FALSE
    /\ UNCHANGED <<pod, spent, broker, run, rollup, pass, first>>
Late == LateFaults \/ pass.at # "release"
\* A failed call: the pass ends and is tried again.
Fail ==
    /\ pass # Rest /\ Late /\ Spend("faults") /\ pass' = Rest
    /\ UNCHANGED <<pod, spent, broker, run, rollup, rights, first>>
Restart ==
    /\ Late /\ Spend("faults") /\ pass' = Rest /\ first' = "none"
    /\ UNCHANGED <<pod, spent, broker, run, rollup, rights>>

PassStep == Fetch \/ FetchFails \/ Apply \/ Roll \/ Fold \/ MarkAggregated \/ MarkForbidden \/ Release
Next ==
    \/ Admit \/ SettleRequest \/ EndPod \/ Boot
    \/ DeleteJob \/ SettleRun \/ Begin \/ PassStep \/ Waited
    \/ Delete \/ TurnOff \/ Fail \/ Restart
Spec == Init /\ [][Next]_vars

\* The worker goes on, its wait ends, and the pod ends; the broker owes nothing.
Fairness == WF_vars(PassStep) /\ WF_vars(Begin) /\ WF_vars(Waited) /\ WF_vars(EndPod) /\ WF_vars(SettleRun)
FairSpec == Spec /\ Fairness

(***************************************************************************)
(* Properties                                                              *)
(***************************************************************************)
\* No rollup takes the run twice, whatever fails between fold and mark.
FoldedOnce == \A s \in ToSet(Owes) : Len(rollup[s]) <= 1

\* A run marked aggregated is in every rollup it owes, as it says itself.
MarkTrue == run.mark = "Aggregated" => \A s \in ToSet(Owes) : rollup[s] = <<run.usage>>

\* What is folded was measured first, or given up on (Due, PendingDeleted).
FoldedMeasured == \A s \in ToSet(Owes) : rollup[s] # <<>> => rollup[s][1].final

\* A figure is never more than the run spends; called measured it is all it ever
\* spends, unless the run settled while its deleted Job's pod had time left (Decide).
MeasuredWhole ==
    /\ run.usage.figure <= spent
    /\ run.usage.source = "measured" /\ ~run.usage.late => run.usage.figure = spent
\* The same of every run, its pod ended or not.
AbortedMeasured == run.usage.source = "measured" => run.usage.figure = spent

\* A deleted run is let go, whatever the broker does.
ReleasedEventually == run.deleting ~> Gone
\* A settled run's usage becomes final, or is rolled up without rights.
FinalEventually == run.settled ~> (run.usage.final \/ run.mark # "none")
=============================================================================
