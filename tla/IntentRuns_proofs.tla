-------------------------- MODULE IntentRuns_proofs --------------------------
(***************************************************************************)
(* The two-phase push and the slots of the intent runs, for any number of  *)
(* runs, slots, suspensions, faults and pushes by people: a run says       *)
(* Complete only with its commit on the branch, no branch people pushed to *)
(* is overwritten, a suspended or ended intent gets no push, and until a   *)
(* pass is cut short no more agents run than there are slots.              *)
(***************************************************************************)
EXTENDS IntentRuns, FiniteSetTheorems, TLAPS

-----------------------------------------------------------------------------
(* Types                                                                     *)
Phases == {"Pending", "Running", "Complete", "Failed"}
Statuses == [phase: Phases, jobRef: BOOLEAN, pushed: BOOLEAN, held: BOOLEAN, outcome: Outcome]
JobStates == {"none", "unplaced", "active", "done", "gone"}
Wants == {"active", "suspended", "ended"}
Commits == {"base", "human", "maul"}
PassSet == [run: Run, at: Step, outcome: Outcome]
Budgets == [suspends: 0..MaxSuspends, pushes: 0..MaxPushes, faults: 0..MaxFaults]

Typed ==
    /\ run \in [Run -> Statuses] /\ job \in [Run -> JobStates]
    /\ intent \in [Run -> Wants] /\ cached \in [Run -> Wants]
    /\ branch \in [Run -> Seq(Commits)] /\ pass \in PassSet
    /\ delivered \subseteq Run /\ barred \subseteq Run /\ budget \in Budgets

(* The push                                                                  *)
Pushing == {"precommit", "commit", "prebranch", "head", "move", "create"}
Moving == {"head", "move", "create"}

\* A pass works on a Running run, and pushes what is not a plan.
Working ==
    /\ pass.at \in Pushing \cup {"record"} => run[pass.run].phase = "Running"
    /\ pass.at \in Pushing => pass.run \notin Plans /\ run[pass.run].jobRef
    /\ \A r \in Run : (run[r].pushed => r \notin Plans)
                     /\ (run[r].held => run[r].phase = "Running" /\ run[r].jobRef)

\* maul's commit is on a branch only where it was put, and nothing settles as
\* pushed before.
HasCommit(r) == \E i \in 1..Len(branch[r]) : branch[r][i] = "maul"
Delivery ==
    /\ delivered \cap Plans = {}
    /\ \A r \in Run : HasCommit(r) => r \in delivered
    /\ pass.at = "settle" /\ pass.outcome = "ok" /\ pass.run \notin Plans => pass.run \in delivered
    /\ CompleteIsPushed

\* A pass past its gate is about an intent that still wanted the push.
Gated == \A r \in barred : intent[r] # "active" /\ ~(pass.run = r /\ pass.at \in Moving)

PushInv == Typed /\ Working /\ Delivery /\ Gated

(* The slots, until a pass is cut short                                      *)
Stopping(r) == pass.run = r /\ pass.at = "stop"
Recording(r) == pass.run = r /\ pass.at = "record"
Settling(r) == pass.run = r /\ pass.at = "settle"
Live(r) == job[r] \in {"unplaced", "active"}
Over(r) == job[r] \in {"done", "gone"}

\* A Job that may still run is of a run that holds its slot, or is about to
\* be stopped; the agent of a run that pushes is done.
JobsKept ==
    /\ \A r \in Run : Live(r) => HoldsSlot(r) \/ Stopping(r)
    /\ \A r \in Run : ~run[r].jobRef => job[r] \in {"none", "gone"} \/ Recording(r)
    /\ \A r \in Run : run[r].held \/ run[r].pushed \/ (pass.run = r /\ pass.at \in Pushing) => Over(r)
    /\ \A r \in Run : Settling(r) => IF pass.outcome = "unschedulable" THEN HoldsSlot(r) ELSE ~Live(r)
AbortsDone ==
    /\ \A r \in Run : run[r].outcome # "none" => Settled(r)
    /\ \A r \in Run : run[r].outcome = "aborted" \/ (Settling(r) /\ pass.outcome = "aborted") => job[r] \in {"none", "gone"}
SlotsUsed == {r \in Run : HoldsSlot(r) \/ Stopping(r)}
SlotsCounted == IsFiniteSet(SlotsUsed) /\ Cardinality(SlotsUsed) <= MaxConcurrent
SlotInv == Faultless => JobsKept /\ AbortsDone /\ SlotsCounted

-----------------------------------------------------------------------------
(* What a step does                                                          *)
Status(r, phase, jobRef, pushed, held, outcome) ==
    /\ run'[r].phase = phase /\ run'[r].jobRef = jobRef /\ run'[r].pushed = pushed
    /\ run'[r].held = held /\ run'[r].outcome = outcome

LEMMA StatusIs ==
    ASSUME NEW s \in Statuses
    PROVE  s.phase \in Phases /\ s.jobRef \in BOOLEAN /\ s.pushed \in BOOLEAN /\ s.held \in BOOLEAN /\ s.outcome \in Outcome
BY DEF Statuses

LEMMA PhaseWritten ==
    ASSUME NEW s \in Statuses, NEW p \in Phases
    PROVE  LET t == [s EXCEPT !.phase = p] IN
           t \in Statuses /\ t.phase = p /\ t.jobRef = s.jobRef /\ t.pushed = s.pushed /\ t.held = s.held /\ t.outcome = s.outcome
BY DEF Statuses
LEMMA JobWritten ==
    ASSUME NEW s \in Statuses
    PROVE  LET t == [s EXCEPT !.jobRef = TRUE] IN
           t \in Statuses /\ t.phase = s.phase /\ t.jobRef = TRUE /\ t.pushed = s.pushed /\ t.held = s.held /\ t.outcome = s.outcome
BY DEF Statuses
LEMMA PushWritten ==
    ASSUME NEW s \in Statuses
    PROVE  LET t == [s EXCEPT !.pushed = TRUE] IN
           t \in Statuses /\ t.phase = s.phase /\ t.jobRef = s.jobRef /\ t.pushed = TRUE /\ t.held = s.held /\ t.outcome = s.outcome
BY DEF Statuses
LEMMA HoldWritten ==
    ASSUME NEW s \in Statuses
    PROVE  LET t == [s EXCEPT !.held = TRUE] IN
           t \in Statuses /\ t.phase = s.phase /\ t.jobRef = s.jobRef /\ t.pushed = s.pushed /\ t.held = TRUE /\ t.outcome = s.outcome
BY DEF Statuses

LEMMA PassIs == ASSUME Typed PROVE pass.run \in Run /\ pass.at \in Step /\ pass.outcome \in Outcome
BY DEF Typed, PassSet

LEMMA GoIs ==
    ASSUME NEW r \in Run, NEW at \in Step, NEW outcome \in Outcome, Go(r, at, outcome)
    PROVE  pass' \in PassSet /\ pass'.run = r /\ pass'.at = at /\ pass'.outcome = outcome
BY DEF Go, PassSet

LEMMA RestIs == Rest \in PassSet /\ Rest.at = "idle"
<1>1. (CHOOSE r \in Run : TRUE) \in Run BY IntentRunsAssumption
<1>2. "idle" \in Step /\ "none" \in Outcome BY DEF Step, Outcome
<1> QED BY <1>1, <1>2 DEF Rest, PassSet

\* The writes of a run's status: each is of one run, and says this of it.
LEMMA RunWrites ==
    ASSUME Typed, Next
    PROVE  /\ run' \in [Run -> Statuses]
           /\ \/ UNCHANGED run
              \/ \E r \in Run :
                    /\ \A q \in Run : q # r => run'[q] = run[q]
                    /\ \/ Grant(r) /\ Status(r, "Running", run[r].jobRef, run[r].pushed, run[r].held, run[r].outcome)
                       \/ RequeuePending(r) /\ Status(r, "Pending", run[r].jobRef, run[r].pushed, run[r].held, run[r].outcome)
                       \/ RecordJob /\ r = pass.run /\ Status(r, run[r].phase, TRUE, run[r].pushed, run[r].held, run[r].outcome)
                       \/ PushGate /\ r = pass.run /\ pass' = Rest /\ job' = job
                          /\ Status(r, run[r].phase, run[r].jobRef, run[r].pushed, TRUE, run[r].outcome)
                       \/ PushCommit /\ r = pass.run /\ Status(r, run[r].phase, run[r].jobRef, TRUE, run[r].held, run[r].outcome)
                       \/ WriteSettled /\ r = pass.run
                          /\ Status(r, IF pass.outcome = "ok" THEN "Complete" ELSE "Failed", run[r].jobRef, run[r].pushed, FALSE, pass.outcome)
<1> DEFINE r0 == pass.run
           s0 == run[r0]
<1>0. run \in [Run -> Statuses] /\ r0 \in Run /\ s0 \in Statuses BY PassIs DEF Typed
<1>1. ASSUME NEW r \in Run, Grant(r) \/ RequeuePending(r)
      PROVE  /\ run' \in [Run -> Statuses] /\ \A q \in Run : q # r => run'[q] = run[q]
             /\ \/ Grant(r) /\ Status(r, "Running", run[r].jobRef, run[r].pushed, run[r].held, run[r].outcome)
                \/ RequeuePending(r) /\ Status(r, "Pending", run[r].jobRef, run[r].pushed, run[r].held, run[r].outcome)
  <2> DEFINE with(p) == [run[r] EXCEPT !.phase = p]
  <2>1. /\ Grant(r) => run' = [run EXCEPT ![r] = with("Running")]
        /\ RequeuePending(r) => run' = [run EXCEPT ![r] = with("Pending")]
    BY DEF Grant, RequeuePending
  <2>2. "Running" \in Phases /\ "Pending" \in Phases /\ run[r] \in Statuses BY <1>0 DEF Phases
  <2>3. \A p \in Phases : LET t == with(p) IN
           t \in Statuses /\ t.phase = p /\ t.jobRef = run[r].jobRef /\ t.pushed = run[r].pushed /\ t.held = run[r].held /\ t.outcome = run[r].outcome
    BY <2>2, PhaseWritten
  <2> HIDE DEF with
  <2> QED BY <1>0, <1>1, <2>1, <2>2, <2>3 DEF Status
<1> DEFINE Rest1 == \A q \in Run : q # r0 => run'[q] = run[q]
<1>2. ASSUME NEW t \in Statuses, run' = [run EXCEPT ![r0] = t]
      PROVE  run' \in [Run -> Statuses] /\ Rest1 /\ run'[r0] = t
  BY <1>0, <1>2
<1> HIDE DEF Rest1
<1>3. ASSUME RecordJob
      PROVE  run' \in [Run -> Statuses] /\ Rest1 /\ Status(r0, s0.phase, TRUE, s0.pushed, s0.held, s0.outcome)
  <2>1. run' = [run EXCEPT ![r0] = [s0 EXCEPT !.jobRef = TRUE]] BY <1>3 DEF RecordJob
  <2> QED BY <1>0, <1>2, <2>1, JobWritten DEF Status
<1>4. ASSUME PushGate, ~UNCHANGED run
      PROVE  /\ run' \in [Run -> Statuses] /\ Rest1 /\ Status(r0, s0.phase, s0.jobRef, s0.pushed, TRUE, s0.outcome)
             /\ pass' = Rest /\ job' = job
  <2>1. run' = [run EXCEPT ![r0] = [s0 EXCEPT !.held = TRUE]] /\ pass' = Rest /\ job' = job BY <1>4 DEF PushGate, Return
  <2> QED BY <1>0, <1>2, <2>1, HoldWritten DEF Status
<1>5. ASSUME PushCommit
      PROVE  run' \in [Run -> Statuses] /\ Rest1 /\ Status(r0, s0.phase, s0.jobRef, TRUE, s0.held, s0.outcome)
  <2>1. run' = [run EXCEPT ![r0] = [s0 EXCEPT !.pushed = TRUE]] BY <1>5 DEF PushCommit
  <2> QED BY <1>0, <1>2, <2>1, PushWritten DEF Status
<1>6. ASSUME WriteSettled
      PROVE  /\ run' \in [Run -> Statuses] /\ Rest1
             /\ Status(r0, IF pass.outcome = "ok" THEN "Complete" ELSE "Failed", s0.jobRef, s0.pushed, FALSE, pass.outcome)
  <2> DEFINE p == IF pass.outcome = "ok" THEN "Complete" ELSE "Failed"
  <2>1. run' = [run EXCEPT ![r0] = [s0 EXCEPT !.phase = p, !.outcome = pass.outcome, !.held = FALSE]]
    BY <1>6 DEF WriteSettled
  <2>2. p \in Phases /\ pass.outcome \in Outcome BY PassIs DEF Phases
  <2>3. run' \in [Run -> Statuses] /\ Rest1 /\ Status(r0, p, s0.jobRef, s0.pushed, FALSE, pass.outcome)
    <3> DEFINE w == [s0 EXCEPT !.phase = p, !.outcome = pass.outcome, !.held = FALSE]
    <3> HIDE DEF p
    <3>1. /\ w \in Statuses /\ w.phase = p /\ w.jobRef = s0.jobRef /\ w.pushed = s0.pushed /\ w.held = FALSE
          /\ w.outcome = pass.outcome
      <4> HIDE DEF s0
      <4> QED BY <1>0, <2>2 DEF Statuses
    <3>2. run' = [run EXCEPT ![r0] = w] BY <2>1
    <3> HIDE DEF w
    <3>3. run' \in [Run -> Statuses] /\ Rest1 /\ run'[r0] = w BY <1>2, <3>1, <3>2
    <3> QED BY <3>1, <3>3 DEF Status
  <2> QED BY <2>3
<1>7. \/ \E r \in Run : Grant(r) \/ RequeuePending(r)
      \/ RecordJob \/ PushGate \/ PushCommit \/ WriteSettled \/ UNCHANGED run
  <2>1. Continue => RecordJob \/ PushGate \/ PushCommit \/ WriteSettled \/ UNCHANGED run
    BY Zenon DEF Continue, ReadHead, FastForward, CreateBranch, Put, Refuse, StopJob
  <2>2. \A r \in Run : Begin(r) => Grant(r) \/ RequeuePending(r) \/ UNCHANGED run
    BY Zenon DEF Begin, Abort, Launch, Collect, DeleteUnschedulableJob
  <2>3. Fault => UNCHANGED run BY Zenon DEF Fault
  <2>4. \A r \in Run : Place(r) \/ Finish(r) \/ Expire(r) \/ Sync(r) \/ People(r) => UNCHANGED run
    BY Zenon DEF Place, Finish, Expire, Sync, People, Suspend, Resume, End, PeoplePush
  <2> QED BY <2>1, <2>2, <2>3, <2>4, Zenon DEF Next
<1> QED BY <1>0, <1>1, <1>3, <1>4, <1>5, <1>6, <1>7 DEF Rest1

\* Where a step leaves the pass.
LEMMA PassGoes ==
    ASSUME Typed, Next
    PROVE  /\ pass' \in PassSet
           /\ \/ UNCHANGED pass
              \/ pass' = Rest
              \/ /\ pass.at = "idle" /\ pass'.at \in {"record", "prebranch", "precommit", "settle"}
                 /\ Abort(pass'.run) \/ Launch(pass'.run) \/ Collect(pass'.run)
              \/ pass'.run = pass.run /\ Continue /\ ~RecordJob /\ pass'.at \in {"commit", "prebranch", "head", "move", "create", "settle", "stop"}
<1>0. pass.run \in Run /\ pass.outcome \in Outcome BY PassIs
<1>1. Rest \in PassSet BY RestIs
<1>2. {"record", "prebranch", "precommit", "settle", "commit", "head", "move", "create", "stop"} \subseteq Step BY DEF Step
<1>3. {"none", "ok", "not_built", "aborted", "launch_refused", "unschedulable", "hold_expired", "head_moved", "branch_exists"} \subseteq Outcome
  BY DEF Outcome
<1>4. ASSUME NEW r \in Run, Abort(r) \/ Launch(r) \/ Collect(r)
      PROVE  pass.at = "idle" /\ pass'.run = r /\ pass'.at \in {"record", "prebranch", "precommit", "settle"} /\ pass' \in PassSet
  <2>1. pass.at = "idle" BY <1>4, Zenon DEF Abort, Launch, Collect, Idle
  <2>2. \E at \in {"record", "prebranch", "precommit", "settle"}, o \in Outcome : Go(r, at, o)
    <3>1. CASE Abort(r) BY <1>3, <3>1 DEF Abort, Settle
    <3>2. CASE Launch(r) BY <1>3, <3>2 DEF Launch, Settle
    <3>3. CASE Collect(r) BY <1>3, <3>3 DEF Collect, Settle
    <3> QED BY <1>4, <3>1, <3>2, <3>3
  <2> QED BY <1>2, <2>1, <2>2, GoIs
<1>5. ASSUME Continue, ~RecordJob
      PROVE  \/ pass' = Rest
             \/ pass'.run = pass.run /\ pass' \in PassSet /\ pass'.at \in {"commit", "prebranch", "head", "move", "create", "settle", "stop"}
  <2>1. pass' = Rest \/ \E at \in {"commit", "prebranch", "head", "move", "create", "settle", "stop"}, o \in Outcome : Go(pass.run, at, o)
    <3>1. CASE PushGate BY <1>3, <3>1 DEF PushGate, Call, Settle, Return, PastGate
    <3>2. CASE PushCommit \/ ReadHead BY <1>3, <3>2 DEF PushCommit, ReadHead, Call, Settle
    <3>3. CASE FastForward \/ CreateBranch BY <1>3, <3>3 DEF FastForward, CreateBranch, Put, Refuse, Settle
    <3>4. CASE WriteSettled \/ StopJob BY <1>3, <3>4 DEF WriteSettled, StopJob, Call, Return
    <3> QED BY <1>5, <3>1, <3>2, <3>3, <3>4 DEF Continue
  <2> QED BY <1>0, <1>2, <2>1, GoIs
<1>6. \/ Continue \/ Fault \/ UNCHANGED pass
      \/ \E r \in Run : Abort(r) \/ Launch(r) \/ Collect(r)
  <2>1. \A r \in Run : Place(r) \/ Finish(r) \/ Expire(r) \/ Sync(r) \/ People(r) => UNCHANGED pass
    BY Zenon DEF Place, Finish, Expire, Sync, People, Suspend, Resume, End, PeoplePush
  <2>2. \A r \in Run : Begin(r) => Abort(r) \/ Launch(r) \/ Collect(r) \/ UNCHANGED pass
    BY Zenon DEF Begin, Grant, RequeuePending, DeleteUnschedulableJob
  <2> QED BY <2>1, <2>2, Zenon DEF Next
<1>7. RecordJob \/ Fault => pass' = Rest BY Zenon DEF RecordJob, Fault, Return
<1>8. pass \in PassSet BY DEF Typed
<1> QED BY <1>0, <1>1, <1>4, <1>5, <1>6, <1>7, <1>8

\* A Job starts once, when it is launched, and is never alive again.
LEMMA JobMoves ==
    ASSUME Typed, Next
    PROVE  /\ job' \in [Run -> JobStates]
           /\ \A r \in Run :
                \/ job'[r] = job[r]
                \/ Launch(r) /\ job[r] = "none" /\ job'[r] = "unplaced" /\ pass'.at = "record" /\ pass'.run = r
                \/ job[r] = "unplaced" /\ job'[r] = "active"
                \/ Live(r) /\ job'[r] = "done"
                \/ job'[r] = "gone"
<1>0. job \in [Run -> JobStates] /\ pass.run \in Run BY PassIs DEF Typed
<1>1. {"none", "unplaced", "active", "done", "gone"} \subseteq JobStates BY DEF JobStates
<1>2. \/ UNCHANGED job
      \/ \E r \in Run : job' = [job EXCEPT ![r] = "gone"]
      \/ \E r \in Run : job[r] = "unplaced" /\ job' = [job EXCEPT ![r] = "active"]
      \/ \E r \in Run : Live(r) /\ job' = [job EXCEPT ![r] = "done"]
      \/ \E r \in Run : Launch(r) /\ job[r] = "none" /\ job' = [job EXCEPT ![r] = "unplaced"]
                        /\ pass'.at = "record" /\ pass'.run = r
  <2>1. ASSUME Continue
        PROVE  UNCHANGED job \/ job' = [job EXCEPT ![pass.run] = "gone"]
    BY <2>1, Zenon DEF Continue, RecordJob, PushGate, PushCommit, ReadHead, FastForward, CreateBranch, Put, Refuse, WriteSettled, StopJob
  <2>2. ASSUME NEW r \in Run, Place(r) \/ Finish(r) \/ Expire(r) \/ Sync(r) \/ People(r)
        PROVE  \/ UNCHANGED job \/ job' = [job EXCEPT ![r] = "gone"]
               \/ job[r] = "unplaced" /\ job' = [job EXCEPT ![r] = "active"]
               \/ Live(r) /\ job' = [job EXCEPT ![r] = "done"]
    BY <2>2, Zenon DEF Place, Finish, Expire, Sync, People, Suspend, Resume, End, PeoplePush, Live
  <2>3. ASSUME NEW r \in Run, Grant(r) \/ Abort(r) \/ RequeuePending(r) \/ Collect(r) \/ DeleteUnschedulableJob(r)
        PROVE  UNCHANGED job \/ job' = [job EXCEPT ![r] = "gone"]
    BY <2>3, Zenon DEF Grant, Abort, RequeuePending, Collect, DeleteUnschedulableJob
  <2>4. ASSUME NEW r \in Run, Launch(r)
        PROVE  \/ UNCHANGED job
               \/ job[r] = "none" /\ job' = [job EXCEPT ![r] = "unplaced"] /\ pass'.at = "record" /\ pass'.run = r
    <3>1. \/ UNCHANGED job
          \/ job' = [job EXCEPT ![r] = IF job[r] = "none" THEN "unplaced" ELSE job[r]] /\ Go(r, "record", "none")
      BY <2>4, Zenon DEF Launch
    <3>2. Go(r, "record", "none") => pass'.at = "record" /\ pass'.run = r BY DEF Go
    <3>3. [job EXCEPT ![r] = job[r]] = job BY <1>0
    <3> QED BY <3>1, <3>2, <3>3
  <2>5. Fault => UNCHANGED job BY Zenon DEF Fault
  <2> QED BY <1>0, <2>1, <2>2, <2>3, <2>4, <2>5, Zenon DEF Next, Begin
<1> QED BY <1>0, <1>1, <1>2

\* What people and faults do.
LEMMA WorldMoves ==
    ASSUME Typed, Next
    PROVE  /\ intent' \in [Run -> Wants] /\ cached' \in [Run -> Wants] /\ barred' \subseteq Run /\ budget' \in Budgets
           /\ Faultless' => Faultless /\ ~Fault
<1>0. /\ intent \in [Run -> Wants] /\ cached \in [Run -> Wants] /\ barred \subseteq Run
      /\ budget.suspends \in 0..MaxSuspends /\ budget.pushes \in 0..MaxPushes /\ budget.faults \in 0..MaxFaults
      /\ budget = [suspends |-> budget.suspends, pushes |-> budget.pushes, faults |-> budget.faults]
  BY DEF Typed, Budgets
<1>1. {"active", "suspended", "ended"} \subseteq Wants BY DEF Wants
<1>2. intent' \in [Run -> Wants] /\ cached' \in [Run -> Wants] /\ barred' \subseteq Run
  <2>1. \/ UNCHANGED <<intent, cached, barred>>
        \/ \E r \in Run : \/ intent' = intent /\ cached' = [cached EXCEPT ![r] = intent[r]] /\ barred' = barred
                          \/ \E w \in {"active", "suspended", "ended"} :
                                intent' = [intent EXCEPT ![r] = w] /\ cached' = cached /\ barred' \in {barred, barred \cup {r}, barred \ {r}}
    <3>1. Continue \/ Fault \/ (\E r \in Run : Begin(r) \/ Place(r) \/ Finish(r) \/ Expire(r) \/ (r \notin Plans /\ PeoplePush(r)))
            => UNCHANGED <<intent, cached, barred>>
      BY Zenon DEF Continue, RecordJob, PushGate, PushCommit, ReadHead, FastForward, CreateBranch, Put, Refuse, WriteSettled, StopJob,
           Fault, Begin, Grant, Abort, RequeuePending, Launch, Collect, DeleteUnschedulableJob, Place, Finish, Expire, PeoplePush
    <3>2. ASSUME NEW r \in Run, Sync(r) PROVE intent' = intent /\ cached' = [cached EXCEPT ![r] = intent[r]] /\ barred' = barred
      BY <3>2 DEF Sync
    <3>3. ASSUME NEW r \in Run, Suspend(r) \/ Resume(r) \/ End(r)
          PROVE  \E w \in {"active", "suspended", "ended"} :
                   intent' = [intent EXCEPT ![r] = w] /\ cached' = cached /\ barred' \in {barred, barred \cup {r}, barred \ {r}}
      BY <3>3 DEF Suspend, Resume, End, Bar
    <3> QED BY <3>1, <3>2, <3>3, Zenon DEF Next, People
  <2> QED BY <1>0, <1>1, <2>1
<1>3. budget' \in Budgets /\ (Faultless' => Faultless /\ ~Fault)
  <2>1. \/ UNCHANGED budget /\ ~Fault
        \/ budget.suspends > 0 /\ budget' = [budget EXCEPT !.suspends = @ - 1] /\ ~Fault
        \/ budget.pushes > 0 /\ budget' = [budget EXCEPT !.pushes = @ - 1] /\ ~Fault
        \/ budget.faults > 0 /\ budget' = [budget EXCEPT !.faults = @ - 1]
    <3>1. CASE Fault BY <3>1 DEF Fault
    <3>2. CASE ~Fault
      <4>1. Continue \/ (\E r \in Run : Begin(r) \/ Place(r) \/ Finish(r) \/ Expire(r) \/ Sync(r)) => UNCHANGED budget
        BY Zenon DEF Continue, RecordJob, PushGate, PushCommit, ReadHead, FastForward, CreateBranch, Put, Refuse, WriteSettled, StopJob,
             Begin, Grant, Abort, RequeuePending, Launch, Collect, DeleteUnschedulableJob, Place, Finish, Expire, Sync
      <4>2. ASSUME NEW r \in Run, People(r)
            PROVE  \/ UNCHANGED budget
                   \/ budget.suspends > 0 /\ budget' = [budget EXCEPT !.suspends = @ - 1]
                   \/ budget.pushes > 0 /\ budget' = [budget EXCEPT !.pushes = @ - 1]
        BY <4>2, Zenon DEF People, Suspend, Resume, End, PeoplePush
      <4> QED BY <3>2, <4>1, <4>2, Zenon DEF Next
    <3> QED BY <3>1, <3>2
  <2> USE IntentRunsAssumption DEF Faultless, Budgets
  <2>2. CASE UNCHANGED budget /\ ~Fault BY <1>0, <2>2
  <2>3. CASE budget.suspends > 0 /\ budget' = [budget EXCEPT !.suspends = @ - 1] /\ ~Fault BY <1>0, <2>3
  <2>4. CASE budget.pushes > 0 /\ budget' = [budget EXCEPT !.pushes = @ - 1] /\ ~Fault BY <1>0, <2>4
  <2>5. CASE budget.faults > 0 /\ budget' = [budget EXCEPT !.faults = @ - 1] BY <1>0, <2>5
  <2> QED BY <2>1, <2>2, <2>3, <2>4, <2>5
<1> QED BY <1>2, <1>3

\* A branch grows by people's commits, is deleted by them, or grows by the
\* commit of the run that pushes to it.
LEMMA BranchMoves ==
    ASSUME Typed, Next
    PROVE  /\ branch' \in [Run -> Seq(Commits)]
           /\ \/ UNCHANGED <<branch, delivered>>
              \/ /\ UNCHANGED <<delivered, pass>>
                 /\ \E r \in Run : /\ PeoplePush(r)
                                   /\ \A q \in Run : q # r => branch'[q] = branch[q]
                                   /\ branch'[r] = <<>> \/ branch'[r] = Append(branch[r], "human")
              \/ /\ pass.at \in {"move", "create"} /\ delivered' = delivered \cup {pass.run}
                 /\ \A q \in Run : q # pass.run => branch'[q] = branch[q]
                 /\ \/ branch'[pass.run] = Append(branch[pass.run], "maul")
                    \/ branch[pass.run] = <<>> /\ branch'[pass.run] = <<"maul">>
<1>0. branch \in [Run -> Seq(Commits)] /\ pass.run \in Run BY PassIs DEF Typed
<1>1. "human" \in Commits /\ "maul" \in Commits BY DEF Commits
<1>2. ASSUME NEW r \in Run, NEW c \in Commits PROVE Append(branch[r], c) \in Seq(Commits) /\ <<c>> \in Seq(Commits) /\ <<>> \in Seq(Commits)
  <2>1. branch[r] \in Seq(Commits) BY <1>0
  <2> QED BY <2>1
<1>3. \/ UNCHANGED <<branch, delivered>>
      \/ \E r \in Run : PeoplePush(r)
      \/ FastForward /\ branch' = [branch EXCEPT ![pass.run] = Append(branch[pass.run], "maul")] /\ delivered' = delivered \cup {pass.run}
      \/ CreateBranch /\ branch[pass.run] = <<>> /\ branch' = [branch EXCEPT ![pass.run] = <<"maul">>] /\ delivered' = delivered \cup {pass.run}
  <2>1. Continue \/ Fault => \/ UNCHANGED <<branch, delivered>>
                             \/ FastForward /\ branch' = [branch EXCEPT ![pass.run] = Append(branch[pass.run], "maul")] /\ delivered' = delivered \cup {pass.run}
                             \/ CreateBranch /\ branch[pass.run] = <<>> /\ branch' = [branch EXCEPT ![pass.run] = <<"maul">>] /\ delivered' = delivered \cup {pass.run}
    BY Zenon DEF Continue, RecordJob, PushGate, PushCommit, ReadHead, FastForward, CreateBranch, Put, Refuse, WriteSettled, StopJob, Fault
  <2>2. \A r \in Run : Begin(r) \/ Place(r) \/ Finish(r) \/ Expire(r) \/ Sync(r) \/ Suspend(r) \/ Resume(r) \/ End(r) => UNCHANGED <<branch, delivered>>
    BY Zenon DEF Begin, Grant, Abort, RequeuePending, Launch, Collect, DeleteUnschedulableJob, Place, Finish, Expire, Sync, Suspend, Resume, End
  <2> QED BY <2>1, <2>2, Zenon DEF Next, People
<1>4. CASE \E r \in Run : PeoplePush(r)
  <2>1. PICK r \in Run : PeoplePush(r) BY <1>4
  <2>2. /\ UNCHANGED <<delivered, pass>>
        /\ branch' = [branch EXCEPT ![r] = Append(branch[r], "human")] \/ branch' = [branch EXCEPT ![r] = <<>>]
    BY <2>1, Zenon DEF PeoplePush
  <2> QED BY <1>0, <1>1, <1>2, <2>1, <2>2
<1>5. CASE FastForward /\ branch' = [branch EXCEPT ![pass.run] = Append(branch[pass.run], "maul")] /\ delivered' = delivered \cup {pass.run}
  <2>1. pass.at = "move" BY <1>5 DEF FastForward
  <2> QED BY <1>0, <1>1, <1>2, <1>5, <2>1
<1>6. CASE CreateBranch /\ branch[pass.run] = <<>> /\ branch' = [branch EXCEPT ![pass.run] = <<"maul">>] /\ delivered' = delivered \cup {pass.run}
  <2>1. pass.at = "create" BY <1>6 DEF CreateBranch
  <2> QED BY <1>0, <1>1, <1>2, <1>6, <2>1
<1> QED BY <1>0, <1>3, <1>4, <1>5, <1>6

LEMMA TypedStep == ASSUME Typed, [Next]_vars PROVE Typed'
<1>1. CASE Next
  <2>1. delivered' \subseteq Run BY <1>1, BranchMoves, PassIs DEF Typed
  <2> QED BY <1>1, <2>1, RunWrites, PassGoes, JobMoves, WorldMoves, BranchMoves DEF Typed
<1>2. CASE UNCHANGED vars BY <1>2 DEF vars, Typed
<1> QED BY <1>1, <1>2

-----------------------------------------------------------------------------
(* The push                                                                  *)
LEMMA RunFields ==
    ASSUME Typed, NEW r \in Run
    PROVE  /\ run[r].phase \in Phases /\ run[r].jobRef \in BOOLEAN /\ run[r].pushed \in BOOLEAN
           /\ run[r].held \in BOOLEAN /\ run[r].outcome \in Outcome
BY StatusIs DEF Typed

\* A step that leaves a pass about to push found it pushing or collected its run.
LEMMA PushesFrom ==
    ASSUME Typed, Next, pass'.at \in Pushing \cup {"record"}, pass' # pass
    PROVE  LET r == pass'.run IN
           /\ r \in Run
           /\ \/ /\ UNCHANGED run /\ run[r].phase = "Running"
                 /\ pass'.at \in Pushing => run[r].jobRef /\ (r \notin Plans \/ run[r].pushed) /\ (run[r].pushed \/ job[r] = "done")
              \/ /\ r = pass.run /\ pass.at \in Pushing /\ pass'.at \in Pushing
                 /\ run' = run \/ PushCommit
<1> DEFINE r == pass'.run
<1>0. pass' \in PassSet /\ r \in Run BY PassGoes DEF PassSet
<1>1. CASE pass' = Rest BY <1>1, RestIs DEF Pushing
<1>2. CASE Abort(r) BY <1>2 DEF Abort, Settle, Go, Pushing
<1>3. CASE Launch(r)
  <2>1. UNCHANGED run /\ run[r].phase = "Running" BY <1>3, Zenon DEF Launch
  <2>2. pass'.at \notin Pushing BY <1>3 DEF Launch, Settle, Go, Pushing
  <2> QED BY <1>0, <2>1, <2>2
<1>4. CASE Collect(r)
  <2>1. UNCHANGED run /\ run[r].phase = "Running" /\ run[r].jobRef BY <1>4, Zenon DEF Collect
  <2>2. run[r].pushed \/ (r \notin Plans /\ job[r] = "done") BY <1>4 DEF Collect, Settle, Go, Pushing
  <2> QED BY <1>0, <2>1, <2>2
<1>5. CASE r = pass.run /\ Continue /\ ~RecordJob
  <2>1. CASE PushGate \/ ReadHead
    <3>1. pass.at \in Pushing BY <2>1 DEF PushGate, ReadHead, Pushing
    <3>2. UNCHANGED run
      <4>1. PushGate => UNCHANGED run \/ pass' = Rest BY Zenon DEF PushGate, Return
      <4>2. ReadHead => UNCHANGED run BY Zenon DEF ReadHead
      <4> QED BY <2>1, <4>1, <4>2, RestIs DEF Pushing
    <3>3. pass'.at \in Pushing
      <4>1. pass'.at # "record" BY <2>1 DEF PushGate, ReadHead, Call, Settle, Go, Return, Rest, PastGate
      <4> QED BY <4>1
    <3> QED BY <1>0, <1>5, <3>1, <3>2, <3>3
  <2>2. CASE PushCommit
    <3>1. pass.at \in Pushing /\ pass'.at \in Pushing BY <2>2 DEF PushCommit, Call, Go, Pushing
    <3> QED BY <1>0, <1>5, <2>2, <3>1
  <2>3. CASE FastForward \/ CreateBranch \/ WriteSettled \/ StopJob
    <3>1. pass'.at \in {"settle", "stop", "idle"}
      BY <2>3, RestIs DEF FastForward, CreateBranch, Put, Refuse, WriteSettled, StopJob, Call, Settle, Go, Return
    <3> QED BY <3>1 DEF Pushing
  <2> QED BY <1>5, <2>1, <2>2, <2>3 DEF Continue
<1> QED BY <1>0, <1>1, <1>2, <1>3, <1>4, <1>5, PassGoes

LEMMA WorkingStep == ASSUME Typed, Working, Next PROVE Working'
<1>0. pass' \in PassSet /\ pass.run \in Run BY PassGoes, PassIs
<1>1. \A r \in Run : (run'[r].pushed => r \notin Plans)
                     /\ (run'[r].held => run'[r].phase = "Running" /\ run'[r].jobRef)
  <2>1. PushGate \/ PushCommit => pass.at \in Pushing BY DEF PushGate, PushCommit, Pushing
  <2>2. \A r \in Run : (Grant(r) => run[r].phase = "Pending") /\ (RequeuePending(r) => ~run[r].jobRef)
    BY Zenon DEF Grant, Launchable, RequeuePending
  <2>3. CASE UNCHANGED run BY <2>3 DEF Working
  <2>4. CASE ~UNCHANGED run
    <3>1. PICK r \in Run :
             /\ \A q \in Run : q # r => run'[q] = run[q]
             /\ \/ Grant(r) /\ Status(r, "Running", run[r].jobRef, run[r].pushed, run[r].held, run[r].outcome)
                \/ RequeuePending(r) /\ Status(r, "Pending", run[r].jobRef, run[r].pushed, run[r].held, run[r].outcome)
                \/ RecordJob /\ r = pass.run /\ Status(r, run[r].phase, TRUE, run[r].pushed, run[r].held, run[r].outcome)
                \/ PushGate /\ r = pass.run /\ pass' = Rest /\ job' = job
                   /\ Status(r, run[r].phase, run[r].jobRef, run[r].pushed, TRUE, run[r].outcome)
                \/ PushCommit /\ r = pass.run /\ Status(r, run[r].phase, run[r].jobRef, TRUE, run[r].held, run[r].outcome)
                \/ WriteSettled /\ r = pass.run
                   /\ Status(r, IF pass.outcome = "ok" THEN "Complete" ELSE "Failed", run[r].jobRef, run[r].pushed, FALSE, pass.outcome)
      BY <2>4, RunWrites, Zenon
    <3>2. run'[r].pushed => r \notin Plans BY <2>1, <3>1 DEF Working, Status
    <3>3. run'[r].held => run'[r].phase = "Running" /\ run'[r].jobRef
      <4>1. ASSUME Grant(r) \/ RequeuePending(r) PROVE ~run[r].held
        BY <2>2, <4>1 DEF Working
      <4>2. CASE Status(r, "Running", run[r].jobRef, run[r].pushed, run[r].held, run[r].outcome) /\ Grant(r)
        BY <4>1, <4>2 DEF Status
      <4>3. CASE Status(r, "Pending", run[r].jobRef, run[r].pushed, run[r].held, run[r].outcome) /\ RequeuePending(r)
        BY <4>1, <4>3 DEF Status
      <4>5. CASE pass.at \in Pushing /\ run'[r].phase = run[r].phase /\ run'[r].jobRef = run[r].jobRef /\ r = pass.run
        BY <4>5 DEF Working
      <4>6. CASE run'[r].held = run[r].held /\ run'[r].phase = run[r].phase /\ run'[r].jobRef = TRUE BY <4>6 DEF Working
      <4>7. CASE run'[r].held = FALSE BY <4>7
      <4> QED BY <2>1, <3>1, <4>2, <4>3, <4>5, <4>6, <4>7 DEF Status
    <3> QED BY <3>1, <3>2, <3>3 DEF Working
  <2> QED BY <2>3, <2>4
<1>2. ASSUME pass'.at \in Pushing \cup {"record"}
      PROVE  /\ run'[pass'.run].phase = "Running"
             /\ pass'.at \in Pushing => pass'.run \notin Plans /\ run'[pass'.run].jobRef
  <2>1. CASE pass' = pass
    <3>1. run'[pass.run].phase = run[pass.run].phase /\ (run[pass.run].jobRef => run'[pass.run].jobRef)
      <4>1. WriteSettled => pass.at = "settle" BY DEF WriteSettled
      <4>2. \A r \in Run : Grant(r) \/ RequeuePending(r) => pass.at = "idle" BY Zenon DEF Grant, RequeuePending, Idle
      <4> QED BY <1>0, <1>2, <2>1, <4>1, <4>2, RunWrites DEF Status, Pushing
    <3> QED BY <1>2, <2>1, <3>1 DEF Working
  <2>2. CASE pass' # pass
    <3>1. CASE /\ UNCHANGED run /\ run[pass'.run].phase = "Running"
               /\ pass'.at \in Pushing => run[pass'.run].jobRef /\ (pass'.run \notin Plans \/ run[pass'.run].pushed)
      BY <1>2, <2>2, <3>1, PushesFrom DEF Working
    <3>2. CASE pass'.run = pass.run /\ pass.at \in Pushing /\ (run' = run \/ PushCommit)
      <4>1. run'[pass.run].phase = run[pass.run].phase /\ run'[pass.run].jobRef = run[pass.run].jobRef
        <5>1. CASE run' = run BY <5>1
        <5>2. CASE PushCommit
          <6>1. run' = [run EXCEPT ![pass.run] = [run[pass.run] EXCEPT !.pushed = TRUE]] BY <5>2 DEF PushCommit
          <6> QED BY <1>0, <6>1, PushWritten DEF Typed
        <5> QED BY <3>2, <5>1, <5>2
      <4> QED BY <3>2, <4>1 DEF Working
    <3> QED BY <1>2, <2>2, <3>1, <3>2, PushesFrom
  <2> QED BY <2>1, <2>2
<1> QED BY <1>1, <1>2 DEF Working

LEMMA GatedStep == ASSUME Typed, Gated, Next PROVE Gated'
<1>0. pass.run \in Run /\ intent \in [Run -> Wants] BY PassIs DEF Typed
<1> SUFFICES ASSUME NEW r \in barred' PROVE intent'[r] # "active" /\ ~(pass'.run = r /\ pass'.at \in Moving)
  BY DEF Gated
<1>1. CASE \E q \in Run : Suspend(q) \/ Resume(q) \/ End(q)
  <2>1. PICK q \in Run : Suspend(q) \/ Resume(q) \/ End(q) BY <1>1
  <2>2. CASE Suspend(q) BY <1>0, <2>2 DEF Suspend, Bar, Gated, Moving
  <2>3. CASE Resume(q) BY <1>0, <2>3 DEF Resume, Gated
  <2>4. CASE End(q) BY <1>0, <2>4 DEF End, Bar, Gated, Moving
  <2> QED BY <2>1, <2>2, <2>3, <2>4
<1>2. CASE UNCHANGED <<barred, intent>>
  <2>1. ASSUME pass'.at \in Moving, pass' # pass
        PROVE  pass'.run = pass.run /\ (intent[pass.run] = "active" \/ pass.at \in Moving)
    <3>1. CASE pass' = Rest BY <2>1, <3>1, RestIs DEF Moving
    <3>2. CASE pass'.at \in {"record", "prebranch", "precommit", "settle"} BY <2>1, <3>2 DEF Moving
    <3>3. CASE pass'.run = pass.run /\ Continue /\ ~RecordJob
      <4>1. CASE PushGate
        <5>1. intent[pass.run] = "active" BY <2>1, <4>1 DEF PushGate, Return, Rest, Settle, Go, Moving
        <5> QED BY <3>3, <5>1
      <4>2. CASE ReadHead BY <3>3, <4>2 DEF ReadHead, Moving
      <4>3. CASE PushCommit \/ FastForward \/ CreateBranch \/ WriteSettled \/ StopJob
        <5>1. pass'.at \in {"prebranch", "settle", "stop", "idle"}
          BY <4>3, RestIs DEF PushCommit, FastForward, CreateBranch, Put, Refuse, WriteSettled, StopJob, Call, Settle, Go, Return
        <5> QED BY <2>1, <5>1 DEF Moving
      <4> QED BY <3>3, <4>1, <4>2, <4>3 DEF Continue
    <3> QED BY <2>1, <3>1, <3>2, <3>3, PassGoes
  <2> QED BY <1>2, <2>1 DEF Gated
<1>3. (\E q \in Run : Suspend(q) \/ Resume(q) \/ End(q)) \/ UNCHANGED <<barred, intent>>
  <2>1. Continue \/ Fault \/ (\E q \in Run : Begin(q) \/ Place(q) \/ Finish(q) \/ Expire(q) \/ Sync(q) \/ (q \notin Plans /\ PeoplePush(q)))
          => UNCHANGED <<barred, intent>>
    BY Zenon DEF Continue, RecordJob, PushGate, PushCommit, ReadHead, FastForward, CreateBranch, Put, Refuse, WriteSettled, StopJob,
         Fault, Begin, Grant, Abort, RequeuePending, Launch, Collect, DeleteUnschedulableJob, Place, Finish, Expire, Sync, PeoplePush
  <2> QED BY <2>1, Zenon DEF Next, People
<1> QED BY <1>1, <1>2, <1>3

\* Nothing leaves `delivered'.
LEMMA DeliveredGrows ==
    ASSUME Typed, Next
    PROVE  delivered \subseteq delivered'
BY BranchMoves

LEMMA DeliveryStep == ASSUME Typed, Working, Delivery, Next PROVE Delivery'
<1>0. /\ pass.run \in Run /\ delivered \subseteq delivered'
      /\ \A r \in Run : branch[r] \in Seq(Commits)
  BY PassIs, DeliveredGrows DEF Typed
<1>1. delivered' \cap Plans = {}
  <2>1. CASE pass.at \in {"move", "create"} /\ delivered' = delivered \cup {pass.run}
    BY <2>1 DEF Working, Delivery, Pushing
  <2>2. CASE UNCHANGED delivered BY <2>2 DEF Delivery
  <2> QED BY <2>1, <2>2, BranchMoves
<1>2. ASSUME NEW r \in Run, HasCommit(r)' PROVE r \in delivered'
  <2>1. CASE branch'[r] = branch[r] BY <1>0, <1>2, <2>1 DEF Delivery, HasCommit
  <2>2. CASE branch'[r] = <<>> BY <1>2, <2>2 DEF HasCommit
  <2>3. CASE branch'[r] = Append(branch[r], "human")
    <3>1. PICK i \in 1..Len(branch'[r]) : branch'[r][i] = "maul" BY <1>2 DEF HasCommit
    <3>2. i \in 1..Len(branch[r]) /\ branch[r][i] = "maul" BY <1>0, <2>3, <3>1
    <3> QED BY <1>0, <3>2 DEF Delivery, HasCommit
  <2>4. CASE r \in delivered' BY <2>4
  <2> QED BY <1>0, <2>1, <2>2, <2>3, <2>4, BranchMoves
<1>3. ASSUME pass'.at = "settle", pass'.outcome = "ok", pass'.run \notin Plans PROVE pass'.run \in delivered'
  <2>1. CASE pass' = pass BY <1>0, <1>3, <2>1 DEF Delivery
  <2>2. CASE pass' = Rest BY <1>3, <2>2, RestIs
  <2>3. CASE Abort(pass'.run) \/ Launch(pass'.run) \/ Collect(pass'.run)
    <3>1. ~Abort(pass'.run) BY <1>3 DEF Abort, Settle, Go
    <3>2. ~Launch(pass'.run) BY <1>3 DEF Launch, Settle, Go
    <3>3. ~Collect(pass'.run) BY <1>3 DEF Collect, Settle, Go
    <3> QED BY <2>3, <3>1, <3>2, <3>3
  <2>4. CASE pass'.run = pass.run /\ Continue /\ ~RecordJob
    <3>1. CASE FastForward
      <4>1. pass'.run \in delivered' BY <1>3, <2>4, <3>1 DEF FastForward, Put, Refuse, Settle, Go
      <4> QED BY <4>1
    <3>2. CASE CreateBranch
      <4>1. CASE branch[pass.run] = <<>> BY <2>4, <3>2, <4>1 DEF CreateBranch, Put
      <4>2. CASE branch[pass.run] # <<>>
        <5>1. Last(branch[pass.run]) = "maul" BY <1>3, <3>2, <4>2 DEF CreateBranch, Refuse, Settle, Go
        <5>2. /\ Len(branch[pass.run]) \in 1..Len(branch[pass.run])
              /\ branch[pass.run][Len(branch[pass.run])] = "maul"
          BY <1>0, <4>2, <5>1 DEF Last
        <5> QED BY <1>0, <2>4, <5>2 DEF Delivery, HasCommit
      <4> QED BY <4>1, <4>2
    <3>3. CASE PushGate \/ PushCommit \/ ReadHead
      BY <1>3, <3>3, RestIs DEF PushGate, PushCommit, ReadHead, Call, Settle, Go, Return, PastGate
    <3>4. CASE WriteSettled \/ StopJob
      BY <1>3, <3>4, RestIs DEF WriteSettled, StopJob, Call, Go, Return
    <3> QED BY <2>4, <3>1, <3>2, <3>3, <3>4 DEF Continue
  <2> QED BY <2>1, <2>2, <2>3, <2>4, PassGoes
<1>4. ASSUME NEW r \in Builds \cup Revises, run'[r].phase = "Complete" PROVE r \in delivered'
  <2>0. r \in Run /\ r \notin Plans BY IntentRunsAssumption DEF Run
  <2>1. CASE run[r].phase = "Complete" BY <1>0, <2>1 DEF Delivery, CompleteIsPushed
  <2>2. CASE run[r].phase # "Complete"
    <3>1. WriteSettled /\ r = pass.run /\ pass.outcome = "ok"
      <4>1. PICK q \in Run :
              /\ \A o \in Run : o # q => run'[o] = run[o]
              /\ \/ Grant(q) /\ Status(q, "Running", run[q].jobRef, run[q].pushed, run[q].held, run[q].outcome)
                 \/ RequeuePending(q) /\ Status(q, "Pending", run[q].jobRef, run[q].pushed, run[q].held, run[q].outcome)
                 \/ RecordJob /\ q = pass.run /\ Status(q, run[q].phase, TRUE, run[q].pushed, run[q].held, run[q].outcome)
                 \/ PushGate /\ q = pass.run /\ pass' = Rest /\ job' = job
                    /\ Status(q, run[q].phase, run[q].jobRef, run[q].pushed, TRUE, run[q].outcome)
                 \/ PushCommit /\ q = pass.run /\ Status(q, run[q].phase, run[q].jobRef, TRUE, run[q].held, run[q].outcome)
                 \/ WriteSettled /\ q = pass.run
                    /\ Status(q, IF pass.outcome = "ok" THEN "Complete" ELSE "Failed", run[q].jobRef, run[q].pushed, FALSE, pass.outcome)
        BY <1>4, <2>2, RunWrites, Zenon
      <4>2. q = r BY <1>4, <2>0, <2>2, <4>1
      <4> QED BY <1>4, <2>2, <4>1, <4>2 DEF Status
    <3>2. pass.at = "settle" BY <3>1 DEF WriteSettled
    <3> QED BY <1>0, <2>0, <3>1, <3>2 DEF Delivery
  <2> QED BY <2>1, <2>2
<1> QED BY <1>1, <1>2, <1>3, <1>4 DEF Delivery, CompleteIsPushed

LEMMA PushStep == ASSUME PushInv, [Next]_vars PROVE PushInv'
<1>1. CASE Next
  BY <1>1, TypedStep, WorkingStep, DeliveryStep, GatedStep DEF PushInv
<1>2. CASE UNCHANGED vars
  BY <1>2 DEF vars, PushInv, Typed, Working, Delivery, HasCommit, CompleteIsPushed, Gated
<1> QED BY <1>1, <1>2

LEMMA PushInit == ASSUME Init PROVE PushInv
<1> DEFINE s0 == [phase |-> "Pending", jobRef |-> FALSE, pushed |-> FALSE, held |-> FALSE, outcome |-> "none"]
<1>1. s0 \in Statuses /\ s0.phase = "Pending" /\ s0.pushed = FALSE /\ s0.held = FALSE
  BY DEF Statuses, Phases, Outcome
<1>2. run = [r \in Run |-> s0] BY DEF Init
<1> HIDE DEF s0
<1>3. \A r \in Run : run[r] = s0 BY <1>2
<1>4. /\ job = [r \in Run |-> "none"] /\ intent = [r \in Run |-> "active"] /\ cached = intent
      /\ branch = [r \in Run |-> IF r \in Revises THEN <<"base">> ELSE <<>>]
      /\ pass = Rest /\ delivered = {} /\ barred = {}
      /\ budget = [suspends |-> MaxSuspends, pushes |-> MaxPushes, faults |-> MaxFaults]
  BY DEF Init
<1>5. Typed
  <2>1. run \in [Run -> Statuses] BY <1>1, <1>2
  <2>2. job \in [Run -> JobStates] BY <1>4 DEF JobStates
  <2>3. intent \in [Run -> Wants] /\ cached \in [Run -> Wants] BY <1>4 DEF Wants
  <2>4. branch \in [Run -> Seq(Commits)]
    <3>1. "base" \in Commits BY DEF Commits
    <3>2. <<"base">> \in Seq(Commits) /\ <<>> \in Seq(Commits) BY <3>1
    <3> QED BY <1>4, <3>2
  <2>5. budget \in Budgets BY <1>4, IntentRunsAssumption DEF Budgets
  <2> QED BY <1>4, <2>1, <2>2, <2>3, <2>4, <2>5, RestIs DEF Typed
<1>6. Working BY <1>1, <1>3, <1>4, RestIs DEF Working, Pushing
<1>7. Delivery
  <2>1. \A r \in Run : ~HasCommit(r) BY <1>4 DEF HasCommit
  <2>2. CompleteIsPushed BY <1>1, <1>3 DEF CompleteIsPushed, Run
  <2> QED BY <1>4, <2>1, <2>2, RestIs DEF Delivery
<1> QED BY <1>4, <1>5, <1>6, <1>7 DEF PushInv, Gated

-----------------------------------------------------------------------------
(* Theorems of the push                                                      *)

\* Whatever people, faults and lost answers do between two calls of a pass, a
\* pass pushes only for a Running run that is not a plan, maul's commit is on
\* a branch only where `delivered' says so, and a pass is past its gate only
\* for an intent that wanted the push when it was read.
THEOREM PushInvariant == Spec => []PushInv
<1> QED BY PushInit, PushStep, PTL DEF Spec

\* The state of the runs, their Jobs, branches and intents keeps its types,
\* and only a Running run is held (hold, settle in run_controller.go).
THEOREM TypeCorrect == Spec => []TypeOK
<1>1. ASSUME PushInv PROVE TypeOK
  <2>1. /\ run \in [Run -> Statuses] /\ job \in [Run -> JobStates] /\ intent \in [Run -> Wants] /\ cached \in [Run -> Wants]
        /\ branch \in [Run -> Seq(Commits)] /\ pass \in PassSet /\ barred \subseteq Run /\ budget \in Budgets
    BY <1>1 DEF PushInv, Typed
  <2>2. delivered \subseteq Builds \cup Revises BY <1>1 DEF PushInv, Typed, Delivery, Run
  <2>3. \A r \in Run : run[r].held => run[r].phase = "Running" BY <1>1 DEF PushInv, Working
  <2> QED BY <2>1, <2>2, <2>3 DEF TypeOK, Statuses, Phases, JobStates, Wants, Commits, PassSet, Budgets
<1> QED BY <1>1, PushInvariant, PTL

\* A build or revise run that says Complete has put its commit on the branch,
\* though the pass that put it may have ended before it could say so (settle).
THEOREM CompleteIsPushedHolds == Spec => []CompleteIsPushed
<1>1. PushInv => CompleteIsPushed BY DEF PushInv, Delivery
<1> QED BY <1>1, PushInvariant, PTL

\* An intent suspended or ended before the live read of pushGate sees no
\* commit of that run reach its branch, whatever the informer's cache shows.
THEOREM WantedWhenPushedHolds == Spec => WantedWhenPushed
<1>1. ASSUME PushInv, [Next]_vars PROVE \A r \in barred : r \in delivered' => r \in delivered
  <2>1. CASE Next
    <3>1. CASE UNCHANGED delivered BY <3>1
    <3>2. CASE pass.at \in {"move", "create"} /\ delivered' = delivered \cup {pass.run}
      BY <1>1, <3>2 DEF PushInv, Gated, Moving
    <3> QED BY <1>1, <2>1, <3>1, <3>2, BranchMoves DEF PushInv
  <2>2. CASE UNCHANGED vars BY <2>2 DEF vars
  <2> QED BY <1>1, <2>1, <2>2
<1> QED BY <1>1, PushInvariant, PTL DEF Spec, WantedWhenPushed

LEMMA PrefixOfAppend ==
    ASSUME NEW S, NEW s \in Seq(S), NEW e \in S
    PROVE  IsPrefix(s, Append(s, e))
<1>1. Len(Append(s, e)) = Len(s) + 1 /\ Len(s) \in Nat BY DEF Append
<1>2. \A i \in 1..Len(s) : Append(s, e)[i] = s[i] BY DEF Append
<1>3. SubSeq(s, 1, Len(s)) = SubSeq(Append(s, e), 1, Len(s)) BY <1>1, <1>2 DEF SubSeq
<1> QED BY <1>1, <1>3 DEF IsPrefix

\* advanceBranch and createBranch never overwrite what people put on a branch:
\* a step of the controller leaves a branch as it is or longer by a commit.
THEOREM NothingForcedHolds == Spec => NothingForced
<1>1. ASSUME PushInv, [Next]_vars PROVE AppendsOnly
  <2>0. Typed BY <1>1 DEF PushInv
  <2>1. CASE Next
    <3>1. CASE UNCHANGED branch BY <3>1 DEF AppendsOnly
    <3>2. ASSUME NEW r \in Run, PeoplePush(r) PROVE AppendsOnly
      <4>1. budget' = [budget EXCEPT !.pushes = budget.pushes - 1] BY <3>2 DEF PeoplePush
      <4>2. budget'.pushes < budget.pushes BY <2>0, <4>1 DEF Typed, Budgets
      <4> QED BY <4>2 DEF AppendsOnly
    <3>3. ASSUME NEW r \in Run, \A q \in Run : q # r => branch'[q] = branch[q],
                 branch'[r] = Append(branch[r], "maul") \/ (branch[r] = <<>> /\ branch'[r] = <<"maul">>)
          PROVE  AppendsOnly
      <4>1. branch[r] \in Seq(Commits) /\ "maul" \in Commits BY <2>0 DEF Typed, Commits
      <4>2. <<"maul">> = Append(<<>>, "maul") OBVIOUS
      <4>3. IsPrefix(branch[r], branch'[r]) BY <3>3, <4>1, <4>2, PrefixOfAppend
      <4> QED BY <3>3, <4>3 DEF AppendsOnly
    <3> QED BY <2>0, <2>1, <3>1, <3>2, <3>3, BranchMoves, PassIs
  <2>2. CASE UNCHANGED vars BY <2>2 DEF vars, AppendsOnly
  <2> QED BY <1>1, <2>1, <2>2
<1> QED BY <1>1, PushInvariant, PTL DEF Spec, NothingForced

-----------------------------------------------------------------------------
(* The slots                                                                 *)

\* Between the calls of a pass only people, agents and the informer move.
LEMMA Midway ==
    ASSUME Next, ~Fault, pass.at # "idle"
    PROVE  Continue \/ UNCHANGED <<run, pass>>
<1>1. \A r \in Run : ~Begin(r)
  BY Zenon DEF Begin, Grant, Abort, RequeuePending, Launch, Collect, DeleteUnschedulableJob, Idle
<1>2. \A r \in Run : Place(r) \/ Finish(r) \/ Expire(r) \/ Sync(r) \/ People(r) => UNCHANGED <<run, pass>>
  BY Zenon DEF Place, Finish, Expire, Sync, People, Suspend, Resume, End, PeoplePush
<1> QED BY <1>1, <1>2, Zenon DEF Next

\* Nor does a call but the one the pass stands at.
LEMMA CallMade ==
    ASSUME Next, ~Fault, NEW at \in {"record", "settle", "stop"}, pass.at = at
    PROVE  \/ UNCHANGED <<run, pass>>
           \/ at = "record" /\ RecordJob
           \/ at = "settle" /\ WriteSettled
           \/ at = "stop" /\ StopJob
<1>1. CASE UNCHANGED <<run, pass>> BY <1>1
<1>2. CASE Continue
  BY <1>2 DEF Continue, RecordJob, PushGate, PushCommit, ReadHead, FastForward, CreateBranch, WriteSettled, StopJob
<1> QED BY <1>1, <1>2, Midway

\* A Job that is over stays over, and only a launch makes one live.
LEMMA JobsEnd ==
    ASSUME Typed, Next, NEW r \in Run
    PROVE  /\ Over(r) => Over(r)'
           /\ job[r] = "gone" => job'[r] = "gone"
           /\ ~Live(r) /\ Live(r)' => Launch(r) /\ pass'.at = "record" /\ pass'.run = r
           /\ job[r] \in {"none", "gone"} => job'[r] \in {"none", "gone"} \/ (Launch(r) /\ pass'.at = "record" /\ pass'.run = r)
BY JobMoves DEF Over, Live

\* What a pass that comes to settle a run knows of its Job.
LEMMA SettlesFrom ==
    ASSUME Typed, Working, JobsKept, Next, pass' # pass, pass'.at = "settle"
    PROVE  LET r == pass'.run IN
           /\ r \in Run /\ UNCHANGED run
           /\ IF pass'.outcome = "unschedulable" THEN HoldsSlot(r) ELSE job'[r] \in {"none", "done", "gone"}
           /\ pass'.outcome = "aborted" => job'[r] \in {"none", "gone"}
<1> DEFINE r == pass'.run
           Kept == IF pass'.outcome = "unschedulable" THEN HoldsSlot(r) ELSE job'[r] \in {"none", "done", "gone"}
           Gone == pass'.outcome = "aborted" => job'[r] \in {"none", "gone"}
<1>0. pass' \in PassSet /\ r \in Run /\ job \in [Run -> JobStates] /\ pass.run \in Run
  BY PassGoes, PassIs DEF Typed, PassSet
<1>1. CASE pass' = Rest BY <1>1, RestIs
<1>2. ASSUME pass.at = "idle", ~run[r].jobRef PROVE job[r] \in {"none", "gone"}
  BY <1>0, <1>2 DEF JobsKept, Recording
<1>3. CASE Abort(r)
  <2>1. /\ UNCHANGED run /\ pass'.outcome = "aborted" /\ pass.at = "idle"
        /\ job' = IF run[r].jobRef THEN [job EXCEPT ![r] = "gone"] ELSE job
    BY <1>3 DEF Abort, Settle, Go, Idle
  <2>2. job'[r] \in {"none", "gone"} BY <1>0, <1>2, <2>1
  <2> QED BY <1>0, <2>1, <2>2
<1>4. CASE Launch(r)
  <2>1. /\ UNCHANGED <<run, job>> /\ pass'.outcome \in {"head_moved", "launch_refused"} /\ pass.at = "idle" /\ ~run[r].jobRef
    BY <1>4 DEF Launch, Settle, Go, Idle
  <2> QED BY <1>0, <1>2, <2>1
<1>5. CASE Collect(r)
  <2>1. UNCHANGED run /\ run[r].phase = "Running" BY <1>5, Zenon DEF Collect
  <2>2. \/ pass'.outcome = "aborted" /\ job' = [job EXCEPT ![r] = "gone"]
        \/ UNCHANGED job /\ job[r] = "gone" /\ pass'.outcome \in {"hold_expired", "aborted"}
        \/ UNCHANGED job /\ job[r] = "unplaced" /\ pass'.outcome = "unschedulable"
        \/ UNCHANGED job /\ job[r] = "done" /\ pass'.outcome \in {"not_built", "ok"}
    BY <1>5 DEF Collect, Settle, Go
  <2>3. CASE pass'.outcome = "aborted" /\ job' = [job EXCEPT ![r] = "gone"] BY <1>0, <2>1, <2>3
  <2>4. CASE UNCHANGED job /\ job[r] = "gone" /\ pass'.outcome \in {"hold_expired", "aborted"} BY <1>0, <2>1, <2>4
  <2>5. CASE UNCHANGED job /\ job[r] = "unplaced" /\ pass'.outcome = "unschedulable"
    <3>1. ~run[r].held BY <1>0, <2>5 DEF JobsKept, Over
    <3> QED BY <1>0, <2>1, <2>5, <3>1 DEF HoldsSlot
  <2>6. CASE UNCHANGED job /\ job[r] = "done" /\ pass'.outcome \in {"not_built", "ok"} BY <1>0, <2>1, <2>6
  <2> QED BY <2>2, <2>3, <2>4, <2>5, <2>6
<1>6. CASE r = pass.run /\ Continue /\ ~RecordJob
  <2>1. CASE PushGate
    <3>1. UNCHANGED run /\ pass'.outcome = "aborted" /\ job' = [job EXCEPT ![r] = "gone"]
      BY <1>6, <2>1, RestIs DEF PushGate, PastGate, Call, Settle, Go, Return
    <3> QED BY <1>0, <3>1
  <2>2. CASE ReadHead \/ FastForward \/ CreateBranch
    <3>1. pass.at \in Pushing BY <2>2 DEF ReadHead, FastForward, CreateBranch, Pushing
    <3>2. UNCHANGED <<run, job>> BY <2>2, Zenon DEF ReadHead, FastForward, CreateBranch, Put, Refuse
    <3>3. pass'.outcome \in {"ok", "head_moved", "branch_exists"}
      BY <2>2 DEF ReadHead, FastForward, CreateBranch, Put, Refuse, Call, Settle, Go
    <3>4. job[r] \in {"done", "gone"} BY <1>0, <1>6, <3>1 DEF JobsKept, Over
    <3> QED BY <1>0, <3>2, <3>3, <3>4
  <2>3. CASE PushCommit \/ WriteSettled \/ StopJob
    BY <2>3, RestIs DEF PushCommit, WriteSettled, StopJob, Call, Go, Return
  <2> QED BY <1>6, <2>1, <2>2, <2>3 DEF Continue
<1> QED BY <1>1, <1>3, <1>4, <1>5, <1>6, PassGoes

\* What is written of a run, and when.
LEMMA RunMoves ==
    ASSUME Typed, Next, NEW r \in Run
    PROVE  \/ run'[r] = run[r]
           \/ Grant(r) /\ Status(r, "Running", run[r].jobRef, run[r].pushed, run[r].held, run[r].outcome)
           \/ RequeuePending(r) /\ Status(r, "Pending", run[r].jobRef, run[r].pushed, run[r].held, run[r].outcome)
           \/ RecordJob /\ r = pass.run /\ Status(r, run[r].phase, TRUE, run[r].pushed, run[r].held, run[r].outcome)
           \/ PushGate /\ r = pass.run /\ pass' = Rest /\ job' = job
              /\ Status(r, run[r].phase, run[r].jobRef, run[r].pushed, TRUE, run[r].outcome)
           \/ PushCommit /\ r = pass.run /\ Status(r, run[r].phase, run[r].jobRef, TRUE, run[r].held, run[r].outcome)
           \/ WriteSettled /\ r = pass.run
              /\ Status(r, IF pass.outcome = "ok" THEN "Complete" ELSE "Failed", run[r].jobRef, run[r].pushed, FALSE, pass.outcome)
<1>1. CASE UNCHANGED run BY <1>1
<1>2. CASE ~UNCHANGED run
  <2>1. PICK q \in Run :
          /\ \A o \in Run : o # q => run'[o] = run[o]
          /\ \/ Grant(q) /\ Status(q, "Running", run[q].jobRef, run[q].pushed, run[q].held, run[q].outcome)
             \/ RequeuePending(q) /\ Status(q, "Pending", run[q].jobRef, run[q].pushed, run[q].held, run[q].outcome)
             \/ RecordJob /\ q = pass.run /\ Status(q, run[q].phase, TRUE, run[q].pushed, run[q].held, run[q].outcome)
             \/ PushGate /\ q = pass.run /\ pass' = Rest /\ job' = job
                /\ Status(q, run[q].phase, run[q].jobRef, run[q].pushed, TRUE, run[q].outcome)
             \/ PushCommit /\ q = pass.run /\ Status(q, run[q].phase, run[q].jobRef, TRUE, run[q].held, run[q].outcome)
             \/ WriteSettled /\ q = pass.run
                /\ Status(q, IF pass.outcome = "ok" THEN "Complete" ELSE "Failed", run[q].jobRef, run[q].pushed, FALSE, pass.outcome)
    BY <1>2, RunWrites, Zenon
  <2>2. CASE q # r BY <2>1, <2>2
  <2>3. CASE q = r BY <2>1, <2>3, Zenon
  <2> QED BY <2>2, <2>3
<1> QED BY <1>1, <1>2

\* When each of those writes is made.
LEMMA WrittenAt ==
    /\ \A r \in Run : Grant(r) => pass.at = "idle" /\ run[r].phase = "Pending" /\ UNCHANGED <<pass, job>>
    /\ \A r \in Run : RequeuePending(r) => pass.at = "idle" /\ run[r].phase = "Running" /\ ~run[r].jobRef /\ UNCHANGED <<pass, job>>
    /\ RecordJob => pass.at = "record" /\ UNCHANGED job
    /\ PushGate \/ PushCommit => pass.at \in Pushing
    /\ WriteSettled => pass.at = "settle" /\ UNCHANGED job
    /\ WriteSettled /\ pass.outcome = "unschedulable" => pass'.at = "stop" /\ pass'.run = pass.run
    /\ StopJob => pass.at = "stop" /\ job' = [job EXCEPT ![pass.run] = "gone"]
    /\ \A r \in Run : Launch(r) => /\ pass.at = "idle" /\ run[r].phase = "Running" /\ ~run[r].jobRef /\ UNCHANGED run
<1>1. /\ \A r \in Run : Grant(r) => pass.at = "idle" /\ run[r].phase = "Pending" /\ UNCHANGED <<pass, job>>
      /\ \A r \in Run : RequeuePending(r) => pass.at = "idle" /\ run[r].phase = "Running" /\ ~run[r].jobRef /\ UNCHANGED <<pass, job>>
      /\ \A r \in Run : Launch(r) => /\ pass.at = "idle" /\ run[r].phase = "Running" /\ ~run[r].jobRef /\ UNCHANGED run
  BY Zenon DEF Grant, Launchable, RequeuePending, Launch, Idle
<1>2. /\ RecordJob => pass.at = "record" /\ UNCHANGED job
      /\ WriteSettled => pass.at = "settle" /\ UNCHANGED job
      /\ StopJob => pass.at = "stop" /\ job' = [job EXCEPT ![pass.run] = "gone"]
  BY Zenon DEF RecordJob, WriteSettled, StopJob
<1>3. PushGate \/ PushCommit => pass.at \in Pushing BY DEF PushGate, PushCommit, Pushing
<1>4. WriteSettled /\ pass.outcome = "unschedulable" => pass'.at = "stop" /\ pass'.run = pass.run
  BY DEF WriteSettled, Call, Go
<1> QED BY <1>1, <1>2, <1>3, <1>4

LEMMA JobsKeptStep == ASSUME Typed, Working, JobsKept, Next, ~Fault PROVE JobsKept'
<1> SUFFICES ASSUME NEW r \in Run
             PROVE  /\ Live(r)' => HoldsSlot(r)' \/ Stopping(r)'
                    /\ ~run'[r].jobRef => job'[r] \in {"none", "gone"} \/ Recording(r)'
                    /\ run'[r].held \/ run'[r].pushed \/ (pass'.run = r /\ pass'.at \in Pushing) => Over(r)'
                    /\ Settling(r)' => IF pass'.outcome = "unschedulable" THEN HoldsSlot(r)' ELSE ~Live(r)'
  BY DEF JobsKept
<1>0. /\ pass.run \in Run /\ pass' \in PassSet /\ job \in [Run -> JobStates]
      /\ run[r].jobRef \in BOOLEAN /\ run[r].held \in BOOLEAN /\ run[r].pushed \in BOOLEAN
  BY PassIs, PassGoes, RunFields DEF Typed
<1>1. Live(r)' => HoldsSlot(r)' \/ Stopping(r)'
  <2>1. SUFFICES ASSUME Live(r)' PROVE HoldsSlot(r)' \/ Stopping(r)'
    OBVIOUS
  <2>2. CASE ~Live(r)
    <3>1. Launch(r) BY <2>1, <2>2, JobsEnd
    <3>2. run'[r] = run[r] /\ run[r].phase = "Running" /\ ~run[r].jobRef BY <3>1, WrittenAt
    <3>3. ~run[r].held BY <3>2 DEF Working
    <3> QED BY <3>2, <3>3 DEF HoldsSlot
  <2>3. CASE Live(r) /\ HoldsSlot(r)
    <3>0. run[r].phase = "Running" /\ run[r].held = FALSE /\ ~Over(r) /\ job[r] \notin {"none", "gone"}
      BY <1>0, <2>3 DEF HoldsSlot, Live, Over
    <3>1. ~PushGate \/ r # pass.run BY <3>0, WrittenAt DEF JobsKept
    <3>2. ~RequeuePending(r) BY <3>0, WrittenAt DEF JobsKept, Recording
    <3>3. CASE WriteSettled /\ r = pass.run
      <4>1. pass.outcome = "unschedulable" BY <2>3, <3>3, WrittenAt DEF JobsKept, Settling
      <4> QED BY <3>3, <4>1, WrittenAt DEF Stopping
    <3>4. CASE ~(WriteSettled /\ r = pass.run)
      <4>1. run'[r].phase = "Running" /\ run'[r].held = FALSE BY <3>0, <3>1, <3>2, <3>4, RunMoves DEF Status
      <4> QED BY <4>1 DEF HoldsSlot
    <3> QED BY <3>3, <3>4
  <2>4. CASE Stopping(r)
    <3>1. CASE StopJob
      <4>1. job'[r] = "gone" BY <1>0, <2>4, <3>1, WrittenAt DEF Stopping
      <4> QED BY <2>1, <4>1 DEF Live
    <3>2. CASE ~StopJob
      <4>1. UNCHANGED pass BY <2>4, <3>2, CallMade DEF Stopping
      <4> QED BY <2>4, <4>1 DEF Stopping
    <3> QED BY <3>1, <3>2
  <2> QED BY <2>2, <2>3, <2>4 DEF JobsKept
<1>2. ~run'[r].jobRef => job'[r] \in {"none", "gone"} \/ Recording(r)'
  <2>1. SUFFICES ASSUME ~run'[r].jobRef PROVE job'[r] \in {"none", "gone"} \/ Recording(r)'
    OBVIOUS
  <2>2. ~run[r].jobRef BY <1>0, <2>1, RunMoves DEF Status
  <2>3. CASE job[r] \in {"none", "gone"} BY <2>3, JobsEnd DEF Recording
  <2>4. CASE Recording(r)
    <3>1. CASE RecordJob
      <4>1. run' = [run EXCEPT ![r] = [run[r] EXCEPT !.jobRef = TRUE]] BY <2>4, <3>1 DEF RecordJob, Recording
      <4>2. run'[r].jobRef = TRUE BY <4>1, JobWritten DEF Typed
      <4> QED BY <2>1, <4>2
    <3>2. CASE ~RecordJob
      <4>1. UNCHANGED pass BY <2>4, <3>2, CallMade DEF Recording
      <4> QED BY <2>4, <4>1 DEF Recording
    <3> QED BY <3>1, <3>2
  <2> QED BY <2>2, <2>3, <2>4 DEF JobsKept
<1>3. run'[r].held \/ run'[r].pushed \/ (pass'.run = r /\ pass'.at \in Pushing) => Over(r)'
  <2>0. Over(r) => Over(r)' BY JobsEnd
  <2>1. CASE run'[r].held \/ run'[r].pushed
    <3>1. run[r].held \/ run[r].pushed \/ (r = pass.run /\ pass.at \in Pushing)
      BY <1>0, <2>1, RunMoves, WrittenAt DEF Status
    <3> QED BY <2>0, <3>1 DEF JobsKept
  <2>2. CASE pass'.run = r /\ pass'.at \in Pushing
    <3>1. CASE pass' = pass BY <2>0, <2>2, <3>1 DEF JobsKept
    <3>2. CASE pass' # pass
      <4>1. run[r].pushed \/ job[r] = "done" \/ (r = pass.run /\ pass.at \in Pushing) BY <2>2, <3>2, PushesFrom
      <4> QED BY <2>0, <4>1 DEF JobsKept, Over
    <3> QED BY <3>1, <3>2
  <2> QED BY <2>1, <2>2
<1>4. Settling(r)' => IF pass'.outcome = "unschedulable" THEN HoldsSlot(r)' ELSE ~Live(r)'
  <2>1. SUFFICES ASSUME Settling(r)' PROVE IF pass'.outcome = "unschedulable" THEN HoldsSlot(r)' ELSE ~Live(r)'
    OBVIOUS
  <2>2. CASE pass' = pass
    <3>1. Settling(r) BY <2>1, <2>2 DEF Settling
    <3>2. UNCHANGED run
      <4>1. ~WriteSettled BY <2>1, <2>2, RestIs DEF WriteSettled, Call, Go, Return, Settling
      <4> QED BY <3>1, <4>1, CallMade DEF Settling
    <3>3. ~Live(r) => ~Live(r)' BY <3>1, JobsEnd, WrittenAt DEF Settling
    <3> QED BY <2>2, <3>1, <3>2, <3>3 DEF JobsKept, HoldsSlot
  <2>3. CASE pass' # pass BY <2>1, <2>3, SettlesFrom DEF Settling, HoldsSlot, Live
  <2> QED BY <2>2, <2>3
<1> QED BY <1>1, <1>2, <1>3, <1>4

LEMMA AbortsDoneStep == ASSUME Typed, Working, JobsKept, AbortsDone, Next, ~Fault PROVE AbortsDone'
<1> SUFFICES ASSUME NEW r \in Run
             PROVE  /\ run'[r].outcome # "none" => Settled(r)'
                    /\ run'[r].outcome = "aborted" \/ (Settling(r)' /\ pass'.outcome = "aborted") => job'[r] \in {"none", "gone"}
  BY DEF AbortsDone
<1>0. pass.run \in Run /\ run[r].outcome \in Outcome BY PassIs, RunFields
<1>1. run'[r].outcome # "none" => Settled(r)'
  <2>1. CASE run[r].outcome # "none" /\ ~(WriteSettled /\ r = pass.run)
    <3>1. run[r].phase \in {"Complete", "Failed"} BY <2>1 DEF AbortsDone, Settled
    <3>2. run'[r].phase = run[r].phase BY <2>1, <3>1, RunMoves, WrittenAt DEF Status
    <3> QED BY <3>1, <3>2 DEF Settled
  <2>2. CASE WriteSettled /\ r = pass.run
    <3>1. run' = [run EXCEPT ![r] = [run[r] EXCEPT !.phase = IF pass.outcome = "ok" THEN "Complete" ELSE "Failed",
                                                   !.outcome = pass.outcome, !.held = FALSE]]
      BY <2>2 DEF WriteSettled
    <3>2. run'[r].phase \in {"Complete", "Failed"} BY <3>1 DEF Typed, Statuses
    <3> QED BY <3>2 DEF Settled
  <2>3. CASE run[r].outcome = "none" /\ ~(WriteSettled /\ r = pass.run)
    <3>1. run'[r].outcome = run[r].outcome BY <2>3, RunMoves DEF Status
    <3> QED BY <2>3, <3>1
  <2> QED BY <2>1, <2>2, <2>3
<1>2. ASSUME run[r].outcome = "aborted" \/ (Settling(r) /\ pass.outcome = "aborted") PROVE job'[r] \in {"none", "gone"}
  <2>1. job[r] \in {"none", "gone"} BY <1>2 DEF AbortsDone
  <2>2. ~Launch(r)
    <3>1. run[r].outcome = "aborted" => run[r].phase # "Running" BY DEF AbortsDone, Settled
    <3> QED BY <1>2, <3>1, WrittenAt DEF Settling
  <2> QED BY <2>1, <2>2, JobsEnd
<1>3. run'[r].outcome = "aborted" => job'[r] \in {"none", "gone"}
  <2>1. SUFFICES ASSUME run'[r].outcome = "aborted", run[r].outcome # "aborted" PROVE job'[r] \in {"none", "gone"}
    BY <1>2
  <2>2. r = pass.run /\ pass.at = "settle" /\ pass.outcome = "aborted" BY <2>1, RunMoves, WrittenAt DEF Status
  <2> QED BY <1>2, <2>2 DEF Settling
<1>4. Settling(r)' /\ pass'.outcome = "aborted" => job'[r] \in {"none", "gone"}
  <2>1. CASE pass' = pass BY <1>2, <2>1 DEF Settling
  <2>2. CASE pass' # pass BY <2>2, SettlesFrom DEF Settling
  <2> QED BY <2>1, <2>2
<1> QED BY <1>1, <1>3, <1>4

\* A slot is taken by a grant alone, which counts those in use.
LEMMA SlotsStep == ASSUME Typed, Working, JobsKept, SlotsCounted, Next, ~Fault PROVE SlotsCounted'
<1>0. pass.run \in Run /\ pass' \in PassSet BY PassIs, PassGoes
<1>1. ASSUME NEW r \in Run, HoldsSlot(r)', ~HoldsSlot(r) PROVE Grant(r)
  <2>1. run'[r].phase = "Running" /\ ~run'[r].held BY <1>1 DEF HoldsSlot
  <2>2. run'[r] # run[r] BY <1>1 DEF HoldsSlot
  <2> QED BY <1>1, <2>1, <2>2, RunMoves DEF HoldsSlot, Status
<1>2. ASSUME NEW r \in Run, Stopping(r)', ~Stopping(r) PROVE HoldsSlot(r)
  <2>1. pass' # pass BY <1>2 DEF Stopping
  <2>2. r = pass.run /\ Continue BY <1>2, <2>1, PassGoes, RestIs DEF Stopping
  <2>3. WriteSettled /\ pass.outcome = "unschedulable"
    <3>1. ~(RecordJob \/ PushGate \/ PushCommit \/ ReadHead)
      BY <1>2, RestIs DEF Stopping, RecordJob, PushGate, PushCommit, ReadHead, PastGate, Call, Settle, Go, Return
    <3>2. ~(FastForward \/ CreateBranch \/ StopJob)
      BY <1>2, RestIs DEF Stopping, FastForward, CreateBranch, StopJob, Put, Refuse, Settle, Go, Return
    <3>3. WriteSettled => pass.outcome = "unschedulable"
      BY <1>2, RestIs DEF Stopping, WriteSettled, Return
    <3> QED BY <2>2, <3>1, <3>2, <3>3 DEF Continue
  <2> QED BY <2>2, <2>3, WrittenAt DEF JobsKept, Settling
<1>3. CASE \E r \in Run : Grant(r)
  <2>1. PICK g \in Run : Grant(g) BY <1>3
  <2>2. pass.at = "idle" /\ UNCHANGED pass BY <2>1, WrittenAt
  <2>3. SlotsUsed = {q \in Run : HoldsSlot(q)} BY <2>2 DEF SlotsUsed, Stopping
  <2>4. Cardinality(SlotsUsed) < MaxConcurrent BY <2>1, <2>3, Zenon DEF Grant
  <2>5. \A r \in Run : r # g => run'[r] = run[r]
    <3>1. run' = [run EXCEPT ![g].phase = "Running"] BY <2>1 DEF Grant
    <3> QED BY <3>1 DEF Typed
  <2>6. SlotsUsed' \subseteq SlotsUsed \cup {g}
    <3>1. \A r \in Run : ~Stopping(r)' BY <2>2 DEF Stopping
    <3> QED BY <2>5, <3>1 DEF SlotsUsed, HoldsSlot
  <2>7. IsFiniteSet(SlotsUsed \cup {g}) /\ Cardinality(SlotsUsed \cup {g}) <= MaxConcurrent
    <3>1. IsFiniteSet(SlotsUsed) /\ Cardinality(SlotsUsed) \in Nat BY FS_CardinalityType DEF SlotsCounted
    <3>2. /\ IsFiniteSet(SlotsUsed \cup {g})
          /\ Cardinality(SlotsUsed \cup {g}) = Cardinality(SlotsUsed) \/ Cardinality(SlotsUsed \cup {g}) = Cardinality(SlotsUsed) + 1
      BY <3>1, FS_AddElement
    <3> QED BY <2>4, <3>1, <3>2, IntentRunsAssumption
  <2>8. IsFiniteSet(SlotsUsed') /\ Cardinality(SlotsUsed') <= Cardinality(SlotsUsed \cup {g})
    BY <2>6, <2>7, FS_Subset
  <2>9. Cardinality(SlotsUsed') \in Nat /\ Cardinality(SlotsUsed \cup {g}) \in Nat BY <2>7, <2>8, FS_CardinalityType
  <2> QED BY <2>7, <2>8, <2>9, IntentRunsAssumption DEF SlotsCounted
<1>4. CASE ~\E r \in Run : Grant(r)
  <2>1. SlotsUsed' \subseteq SlotsUsed BY <1>1, <1>2, <1>4 DEF SlotsUsed
  <2>2. IsFiniteSet(SlotsUsed') /\ Cardinality(SlotsUsed') <= Cardinality(SlotsUsed) BY <2>1, FS_Subset DEF SlotsCounted
  <2>3. Cardinality(SlotsUsed') \in Nat /\ Cardinality(SlotsUsed) \in Nat BY <2>2, FS_CardinalityType DEF SlotsCounted
  <2> QED BY <2>2, <2>3, IntentRunsAssumption DEF SlotsCounted
<1> QED BY <1>3, <1>4

LEMMA SlotStep == ASSUME PushInv, SlotInv, [Next]_vars PROVE SlotInv'
<1>1. CASE Next
  <2>1. SUFFICES ASSUME Faultless' PROVE JobsKept' /\ AbortsDone' /\ SlotsCounted' BY DEF SlotInv
  <2>2. Typed /\ Working BY DEF PushInv
  <2>3. Faultless /\ ~Fault BY <1>1, <2>1, <2>2, WorldMoves
  <2>4. JobsKept /\ AbortsDone /\ SlotsCounted BY <2>3 DEF SlotInv
  <2> QED BY <1>1, <2>2, <2>3, <2>4, JobsKeptStep, AbortsDoneStep, SlotsStep
<1>2. CASE UNCHANGED vars
  BY <1>2 DEF vars, SlotInv, Faultless, JobsKept, AbortsDone, SlotsCounted, SlotsUsed, HoldsSlot, Stopping, Recording, Settling,
     Live, Over, Settled
<1> QED BY <1>1, <1>2

LEMMA SlotInit == ASSUME Init PROVE SlotInv
<1>1. /\ \A r \in Run : /\ run[r].phase = "Pending" /\ ~run[r].pushed /\ ~run[r].held
                        /\ run[r].outcome = "none" /\ job[r] = "none"
      /\ pass.at = "idle"
  BY RestIs DEF Init
<1>2. JobsKept BY <1>1 DEF JobsKept, Live, Over, Recording, Settling, Pushing
<1>3. AbortsDone BY <1>1 DEF AbortsDone, Settling
<1>4. SlotsUsed = {} BY <1>1 DEF SlotsUsed, HoldsSlot, Stopping
<1>5. SlotsCounted BY <1>4, FS_EmptySet, IntentRunsAssumption DEF SlotsCounted
<1> QED BY <1>2, <1>3, <1>5 DEF SlotInv

LEMMA SlotInvariant == Spec => [](PushInv /\ SlotInv)
<1>1. Init => PushInv /\ SlotInv BY PushInit, SlotInit
<1>2. PushInv /\ SlotInv /\ [Next]_vars => (PushInv /\ SlotInv)' BY PushStep, SlotStep
<1> QED BY <1>1, <1>2, PTL DEF Spec

\* Until a pass is cut short (a failed write, a restart) no more agents run
\* than the pool has slots: a live Job is of a run that holdsSlot counts, or
\* of one whose StopJob is the next call.
THEOREM AgentsBoundedHolds == Spec => []AgentsBounded
<1>1. ASSUME PushInv, SlotInv PROVE AgentsBounded
  <2> SUFFICES ASSUME Faultless PROVE Cardinality({r \in Run : job[r] = "active"}) <= MaxConcurrent
    BY DEF AgentsBounded
  <2> DEFINE Agents == {r \in Run : job[r] = "active"}
  <2>1. JobsKept /\ SlotsCounted BY <1>1 DEF SlotInv
  <2>2. Agents \subseteq SlotsUsed BY <2>1 DEF JobsKept, SlotsUsed, Live
  <2>3. IsFiniteSet(Agents) /\ Cardinality(Agents) <= Cardinality(SlotsUsed) BY <2>1, <2>2, FS_Subset DEF SlotsCounted
  <2>4. Cardinality(Agents) \in Nat /\ Cardinality(SlotsUsed) \in Nat BY <2>1, <2>3, FS_CardinalityType DEF SlotsCounted
  <2>5. Cardinality(Agents) <= MaxConcurrent BY <2>1, <2>3, <2>4, IntentRunsAssumption DEF SlotsCounted
  <2> QED BY <2>5
<1> QED BY <1>1, SlotInvariant, PTL

\* Until a pass is cut short, a run aborted because its intent ended
\* (intentEnded, endedBeforePush) leaves no agent running.
THEOREM EndedJobStoppedHolds == Spec => []EndedJobStopped
<1>1. ASSUME PushInv, SlotInv PROVE EndedJobStopped
  <2>1. Faultless => AbortsDone BY <1>1 DEF SlotInv
  <2> QED BY <2>1 DEF AbortsDone, AbortedJobStopped, EndedJobStopped
<1> QED BY <1>1, SlotInvariant, PTL

\* A run that says Complete is pushed, and until a pass is cut short agents stay
\* within the slots and the agent of an ended intent stops, for any runs, slots,
\* suspensions, pushes and faults (collect, settle).
THEOREM RunsDeliverHolds == Spec => []RunsDeliver
<1>1. TypeOK /\ CompleteIsPushed /\ AgentsBounded /\ EndedJobStopped => RunsDeliver BY DEF RunsDeliver
<1> QED BY <1>1, TypeCorrect, CompleteIsPushedHolds, AgentsBoundedHolds, EndedJobStoppedHolds, PTL

\* No step of the controller moves a branch for an intent that had stopped wanting
\* it, or over what people put there (pushGate, advanceBranch, createBranch).
THEOREM PushesWantedHolds == Spec => PushesWanted
BY WantedWhenPushedHolds, NothingForcedHolds DEF PushesWanted
=============================================================================
