------------------------------- MODULE Rollups -------------------------------
(***************************************************************************)
(* The all-time statistics: each Finding's terminal phase, and each run's  *)
(* spend, folded once into every scope's FindingRollup; the reversal when  *)
(* a Finding is revived; the finalizers that keep a run until its spend is *)
(* folded; and the TTL that deletes completed Findings.                    *)
(*                                                                         *)
(* Each controller has one worker and decides on its informer's copy.  A   *)
(* fold and the marker that records it are two writes, with a failure, a   *)
(* revival or a deletion possible in between.  The monthly trend, the      *)
(* recommendation histogram and the attempts move with the phase counts    *)
(* and are left out; every Finding has a repository.                       *)
(***************************************************************************)
EXTENDS Integers, Sequences, FiniteSets, FiniteSetsExt, SequencesExt

CONSTANTS
    Findings,
    Runs,     \* the runs, of the Finding each one belongs to: RunOf
    Ledger,   \* maxLedger: the keys a rollup remembers
    Deletes,  \* how Findings are deleted, among DeleteKinds
    Races,    \* whether a Finding may move on before it is counted
    Collects, \* whether a run may be deleted while its result is collected
    MaxMoves, MaxFaults \* bounds

DeleteKinds == {"ttl", "background", "foreground"}
Terminal == {"Remediated", "HandedOff"} \* the second one revivable
Phases == {"open"} \cup Terminal
Keys == Terminal \cup {"deleted"}

RollupsAssumption ==
    /\ Ledger \in Nat \ {0} /\ {MaxMoves, MaxFaults} \subseteq Nat
    /\ Deletes \subseteq DeleteKinds /\ {Races, Collects} \subseteq BOOLEAN
    /\ Findings # {}

VARIABLES
    finding, run, \* as the API server holds them; a gone one as it was last
    shown,        \* the informers' copies: of Findings, of runs
    rollup,       \* each scope's FindingRollup
    log,          \* the ledger keys ever folded into it, in turn
    spent,        \* the runs whose spend it holds
    emitted,      \* how often each Finding's and run's metric was emitted
    fpass, rpass, \* what the worker of each kind is at
    collecting,   \* runs whose result a pass of their own controller holds
    late,         \* a history: runs deleted before that result was stamped on them
    budget

vars == <<finding, run, shown, rollup, log, spent, emitted, fpass, rpass, collecting, late, budget>>
stats == <<rollup, log, spent, emitted, late>>

FindingScopes == <<"total", "repository">>
RunScopes == <<"total", "model">> \* repository is as total, harness as model
Scopes == ToSet(FindingScopes \o RunScopes)
RunOf(r) == CHOOSE f \in Findings : TRUE

Uncounted == [phase |-> "none", seq |-> 0]
Rest == [at |-> "idle"]
TypeOK ==
    /\ \A f \in Findings :
        /\ finding[f] \in [phase: Phases, expired: BOOLEAN, deleting: BOOLEAN, gone: BOOLEAN, version: Nat,
                           marks: [ToSet(FindingScopes) -> [phase: Keys \cup {"none"}, seq: Nat]]]
        /\ finding[f].expired => finding[f].phase \in Terminal
        /\ shown.findings[f].version <= finding[f].version
    /\ \A r \in Runs :
        /\ run[r] \in [settled: BOOLEAN, stage: BOOLEAN, marks: SUBSET Scopes, deleting: BOOLEAN,
                       finalizers: SUBSET (Scopes \cup {"jobs"}), version: Nat]
        /\ run[r].finalizers # ToSet(RunScopes) \cup {"jobs"} => run[r].deleting
        /\ run[r].stage => run[r].settled
    /\ \A s \in Scopes : \A p \in Keys : rollup[s][p] >= 0
    /\ collecting \subseteq Runs /\ late \subseteq Runs

Init ==
    /\ finding = [f \in Findings |->
          [phase |-> "open", expired |-> FALSE, deleting |-> FALSE, gone |-> FALSE, version |-> 0,
           marks |-> [s \in ToSet(FindingScopes) |-> Uncounted]]]
    /\ run = [r \in Runs |-> [settled |-> FALSE, stage |-> FALSE, marks |-> {}, deleting |-> FALSE,
                              finalizers |-> ToSet(RunScopes) \cup {"jobs"}, version |-> 0]]
    /\ shown = [findings |-> finding, runs |-> run]
    /\ rollup = [s \in Scopes |-> [p \in Keys |-> 0]]
    /\ log = [s \in Scopes |-> <<>>] /\ spent = [s \in Scopes |-> {}]
    /\ emitted = [x \in Findings \cup Runs |-> 0]
    /\ fpass = Rest /\ rpass = Rest /\ collecting = {} /\ late = {}
    /\ budget = [moves |-> MaxMoves, faults |-> MaxFaults]

(***************************************************************************)
(* The fold: a delta under a ledger key, at most once per rollup.          *)
(***************************************************************************)
Recent(s) == ToSet(IF Len(log[s]) <= Ledger THEN log[s] ELSE SubSeq(log[s], Len(log[s]) - Ledger + 1, Len(log[s])))
Folded_Never(s, key) == FALSE
Folded(s, key) == key \in Recent(s)
\* applyFinding: the phase counted before gives way to the new one.
Moved(counts, prev, phase) == [p \in Keys |-> IF p = phase THEN counts[p] + 1
                                              ELSE IF p = prev /\ counts[p] > 0 THEN counts[p] - 1
                                              ELSE counts[p]]
\* Twice stands for any more.
Emit(x) == emitted' = [emitted EXCEPT ![x] = Min({@ + 1, 2})]

(***************************************************************************)
(* Findings                                                                *)
(***************************************************************************)
\* The phase a Finding is to be counted under; none, in flight.
Standing(v) == IF v.phase \in Terminal THEN v.phase ELSE IF v.deleting THEN "deleted" ELSE "none"
ToCount(v) == SelectSeq(FindingScopes, LAMBDA s : v.marks[s].phase # Standing(v))

\* The pass starts from the informer's copy.
BeginFinding(f) ==
    /\ fpass = Rest
    /\ LET v == shown.findings[f]
       IN  /\ ~v.gone /\ (ToCount(v) # <<>> \/ v.expired)
           /\ fpass' = [at |-> "fold", key |-> f, read |-> v, marks |-> v.marks, todo |-> ToCount(v)]
    /\ UNCHANGED <<finding, run, shown, stats, rpass, collecting, budget>>

\* countFinding, uncountFinding: one scope, under the key after its marker's.
FoldFinding ==
    /\ fpass.at = "fold" /\ fpass.todo # <<>>
    /\ LET s == Head(fpass.todo)
           mark == fpass.marks[s]
           key == <<fpass.key, mark.seq + 1>>
           phase == Standing(fpass.read)
       IN  /\ IF Folded(s, key) THEN UNCHANGED <<rollup, log>>
              ELSE /\ rollup' = [rollup EXCEPT ![s] = Moved(@, mark.phase, phase)]
                   /\ log' = [log EXCEPT ![s] = Append(@, key)]
           /\ IF s = "total" /\ mark.seq = 0 THEN Emit(fpass.key) ELSE UNCHANGED emitted
           /\ fpass' = [fpass EXCEPT !.todo = Tail(@), !.marks[s] = [phase |-> phase, seq |-> mark.seq + 1]]
    /\ UNCHANGED <<finding, run, shown, spent, late, rpass, collecting, budget>>

Written(f) == finding[f].version + 1
\* The markers are written to the Finding as it was read, or not at all.
MarkFinding ==
    /\ fpass.at = "fold" /\ fpass.todo = <<>>
    /\ LET f == fpass.key
       IN  IF fpass.marks = fpass.read.marks
           THEN fpass' = [fpass EXCEPT !.at = "ttl"] /\ UNCHANGED finding
           ELSE IF finding[f].gone \/ finding[f].version # fpass.read.version
           THEN fpass' = Rest /\ UNCHANGED finding
           ELSE /\ finding' = [finding EXCEPT ![f].marks = fpass.marks, ![f].version = Written(f)]
                /\ fpass' = [fpass EXCEPT !.at = "ttl"]
    /\ UNCHANGED <<run, shown, stats, rpass, collecting, budget>>

\* A deleted Finding's runs are deleted with it.
Cascade(f) == run' = [r \in Runs |-> IF RunOf(r) = f THEN [run[r] EXCEPT !.deleting = TRUE, !.version = @ + 1]
                                     ELSE run[r]]
Deletable == Collects \/ collecting = {}
\* enforceTTL: decided on the Finding as the pass read it.
Expired == fpass.read.expired /\ ~fpass.read.deleting
EnforceTTL ==
    /\ fpass.at = "ttl" /\ fpass' = Rest
    /\ IF "ttl" \in Deletes /\ Expired /\ ~finding[fpass.key].gone
       THEN /\ Deletable
            /\ finding' = [finding EXCEPT ![fpass.key].gone = TRUE, ![fpass.key].version = Written(fpass.key)]
            /\ Cascade(fpass.key)
       ELSE UNCHANGED <<finding, run>>
    /\ UNCHANGED <<shown, stats, rpass, collecting, budget>>

(***************************************************************************)
(* Runs                                                                    *)
(***************************************************************************)
\* A scope whose key the run never reported has nothing to fold into.
Keyed(v, s) == s = "total" \/ v.stage
Owed(v) == SelectSeq(RunScopes, LAMBDA s : s \notin v.marks)
Countable(v) == v.settled \/ v.deleting
BeginRun(r) ==
    /\ rpass = Rest
    /\ LET v == shown.runs[r]
       IN  /\ Countable(v)
           /\ Owed(v) # <<>> \/ (v.deleting /\ v.finalizers \cap v.marks # {})
           /\ rpass' = [at |-> "fold", key |-> r, read |-> v, marks |-> v.marks, todo |-> Owed(v)]
    /\ UNCHANGED <<finding, run, shown, stats, fpass, collecting, budget>>

FoldRun ==
    /\ rpass.at = "fold" /\ rpass.todo # <<>>
    /\ LET s == Head(rpass.todo)
           key == <<rpass.key, 0>>
       IN  IF Keyed(rpass.read, s)
           THEN /\ IF Folded(s, key) THEN UNCHANGED <<log, spent>>
                   ELSE /\ log' = [log EXCEPT ![s] = Append(@, key)]
                        /\ spent' = [spent EXCEPT ![s] = @ \cup IF rpass.read.stage THEN {rpass.key} ELSE {}]
                /\ IF s = "total" THEN Emit(rpass.key) ELSE UNCHANGED emitted
           ELSE UNCHANGED <<log, spent, emitted>>
    /\ rpass' = [rpass EXCEPT !.todo = Tail(@), !.marks = @ \cup {Head(rpass.todo)}]
    /\ UNCHANGED <<finding, run, shown, rollup, late, fpass, collecting, budget>>

MarkRun ==
    /\ rpass.at = "fold" /\ rpass.todo = <<>>
    /\ IF rpass.marks = rpass.read.marks THEN rpass' = [rpass EXCEPT !.at = "release"] /\ UNCHANGED run
       ELSE IF run[rpass.key].version # rpass.read.version THEN rpass' = Rest /\ UNCHANGED run
       ELSE /\ run' = [run EXCEPT ![rpass.key].marks = rpass.marks, ![rpass.key].version = @ + 1]
            /\ rpass' = [rpass EXCEPT !.at = "release"]
    /\ UNCHANGED <<finding, shown, stats, fpass, collecting, budget>>

\* releaseFinalizers: a deleted run's, of the scopes the pass has marked.
Released(r) == run[r].finalizers \ rpass.marks
ReleaseRun ==
    /\ rpass.at = "release" /\ rpass' = Rest
    /\ IF rpass.read.deleting /\ Released(rpass.key) # run[rpass.key].finalizers
       THEN run' = [run EXCEPT ![rpass.key].finalizers = Released(rpass.key), ![rpass.key].version = @ + 1]
       ELSE UNCHANGED run
    /\ UNCHANGED <<finding, shown, stats, fpass, collecting, budget>>

Gone(r) == run[r].deleting /\ run[r].finalizers = {}

(***************************************************************************)
(* The runs' own controllers, the lifecycle, people, failures.             *)
(***************************************************************************)
\* A run's result is read, then stamped on it, deleted meanwhile or not.
Collect(r) ==
    /\ collecting = {} /\ ~run[r].settled /\ ~run[r].deleting
    /\ collecting' = {r}
    /\ UNCHANGED <<finding, run, shown, stats, fpass, rpass, budget>>
StampRun(r, stage) ==
    /\ r \in collecting /\ ~Gone(r)
    /\ run' = [run EXCEPT ![r].settled = TRUE, ![r].stage = stage, ![r].version = @ + 1]
    /\ collecting' = collecting \ {r}
    /\ late' = IF run[r].deleting THEN late \cup {r} ELSE late
    /\ UNCHANGED <<finding, shown, rollup, log, spent, emitted, fpass, rpass, budget>>
\* finalize: the Job of a deleted run is cleaned up.
FinalizeRun(r) ==
    /\ run[r].deleting /\ "jobs" \in run[r].finalizers /\ r \notin collecting
    /\ run' = [run EXCEPT ![r].finalizers = @ \ {"jobs"}, ![r].version = @ + 1]
    /\ UNCHANGED <<finding, shown, stats, fpass, rpass, collecting, budget>>

Spend(kind) == budget[kind] > 0 /\ budget' = [budget EXCEPT ![kind] = @ - 1]
Change(f, v) == /\ Spend("moves") /\ ~finding[f].gone
                /\ finding' = [finding EXCEPT ![f] = [v EXCEPT !.version = @ + 1]]
                /\ UNCHANGED <<shown, stats, fpass, rpass, collecting>>

Counted(f) == \A s \in ToSet(FindingScopes) : finding[f].marks[s].phase = Standing(finding[f])
Complete(f, phase) ==
    /\ finding[f].phase = "open" /\ ~finding[f].deleting /\ (Races \/ Counted(f))
    /\ Change(f, [finding[f] EXCEPT !.phase = phase]) /\ UNCHANGED run
Revive(f) ==
    /\ finding[f].phase = "HandedOff" /\ ~finding[f].deleting
    /\ Races \/ Counted(f)
    /\ Change(f, [finding[f] EXCEPT !.phase = "open", !.expired = FALSE]) /\ UNCHANGED run
Delete(f) ==
    /\ Deletable
    /\ \/ "background" \in Deletes /\ Change(f, [finding[f] EXCEPT !.gone = TRUE]) /\ Cascade(f)
       \/ "foreground" \in Deletes /\ ~finding[f].deleting
          /\ Change(f, [finding[f] EXCEPT !.deleting = TRUE]) /\ Cascade(f)
Expire(f) ==
    /\ "ttl" \in Deletes /\ finding[f].phase \in Terminal /\ ~finding[f].expired /\ ~finding[f].gone
    /\ finding' = [finding EXCEPT ![f].expired = TRUE]
    /\ UNCHANGED <<run, shown, stats, fpass, rpass, collecting, budget>>

\* A foreground deletion ends once the runs are gone.
Collected(f) ==
    /\ finding[f].deleting /\ ~finding[f].gone /\ \A r \in Runs : RunOf(r) = f => Gone(r)
    /\ finding' = [finding EXCEPT ![f].gone = TRUE, ![f].version = Written(f)]
    /\ UNCHANGED <<run, shown, stats, fpass, rpass, collecting, budget>>

SyncFinding(f) ==
    /\ shown.findings[f] # finding[f] /\ shown' = [shown EXCEPT !.findings[f] = finding[f]]
    /\ UNCHANGED <<finding, run, stats, fpass, rpass, collecting, budget>>
SyncRun(r) ==
    /\ shown.runs[r] # run[r] /\ shown' = [shown EXCEPT !.runs[r] = run[r]]
    /\ UNCHANGED <<finding, run, stats, fpass, rpass, collecting, budget>>

\* A failed write, or a restart: the pass is lost.
Fault ==
    /\ Spend("faults")
    /\ \/ fpass # Rest /\ fpass' = Rest /\ UNCHANGED rpass
       \/ rpass # Rest /\ rpass' = Rest /\ UNCHANGED fpass
    /\ UNCHANGED <<finding, run, shown, stats, collecting>>

FindingStep == FoldFinding \/ MarkFinding \/ EnforceTTL
RunStep == FoldRun \/ MarkRun \/ ReleaseRun
Next ==
    \/ FindingStep \/ RunStep \/ Fault
    \/ \E f \in Findings : \/ BeginFinding(f) \/ SyncFinding(f) \/ Revive(f) \/ Delete(f) \/ Expire(f)
                           \/ Collected(f) \/ \E p \in Terminal : Complete(f, p)
    \/ \E r \in Runs : \/ BeginRun(r) \/ SyncRun(r) \/ Collect(r) \/ FinalizeRun(r)
                       \/ \E stage \in BOOLEAN : StampRun(r, stage)
Spec == Init /\ [][Next]_vars

Fairness ==
    /\ WF_vars(FindingStep) /\ WF_vars(RunStep)
    /\ \A f \in Findings : SF_vars(BeginFinding(f)) /\ WF_vars(SyncFinding(f))
    /\ \A r \in Runs : /\ SF_vars(BeginRun(r)) /\ WF_vars(SyncRun(r)) /\ WF_vars(FinalizeRun(r))
                       /\ WF_vars(\E stage \in BOOLEAN : StampRun(r, stage))
FairSpec == Spec /\ Fairness

(***************************************************************************)
(* Properties                                                              *)
(***************************************************************************)
\* No contribution is folded twice into a scope, whatever fails between the
\* fold and its marker (Apply's ledger).
FoldedOnce == \A s \in Scopes : IsInjective(log[s])

Folds(s, f) == {i \in 1..Len(log[s]) : log[s][i][1] = f}
\* Where every fold has its marker, a scope counts exactly the Findings
\* whose marker says so (countFinding, uncountFinding).
CountsTrue ==
    \A s \in ToSet(FindingScopes) :
        (\A f \in Findings : Cardinality(Folds(s, f)) = finding[f].marks[s].seq) =>
            \A p \in Keys : rollup[s][p] = Cardinality({f \in Findings : finding[f].marks[s].phase = p})

\* A run is gone only when every scope holds its spend, unless it was deleted
\* while its result was being collected (releaseFinalizers).
SpendKept ==
    \A r \in Runs \ late : Gone(r) /\ run[r].stage => \A s \in ToSet(RunScopes) : r \in spent[s]
\* The same of every run.
CollectedKept == \A r \in Runs : Gone(r) /\ run[r].stage => \A s \in ToSet(RunScopes) : r \in spent[s]

\* A Finding is gone only when every scope counted it as it ended.
CountedBeforeGone == \A f \in Findings : finding[f].gone => Counted(f)

\* The TTL deletes no Finding in flight (enforceTTL).
RevivedKept == \A f \in Findings : finding[f].gone => finding[f].phase \in Terminal

\* A metric is emitted once per Finding and run (RecordCompletion, RecordStage).
EmittedOnce == \A x \in Findings \cup Runs : emitted[x] <= 1

Revived(f) == finding[f].phase = "open" /\ ~finding[f].deleting /\ ~finding[f].gone

\* A completed Finding is counted, unless it is revived or deleted.
CountedEventually ==
    \A f \in Findings : finding[f].phase \in Terminal ~> (finding[f].gone \/ Counted(f))
\* A revived Finding's count is reversed.
ReversedEventually ==
    \A f \in Findings : Revived(f) ~> (~Revived(f) \/ Counted(f))
\* A deleted run's finalizers are released.
ReleasedEventually == \A r \in Runs : run[r].deleting ~> Gone(r)
=============================================================================
