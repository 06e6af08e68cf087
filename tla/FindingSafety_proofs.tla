------------------------ MODULE FindingSafety_proofs ------------------------
(***************************************************************************)
(* The safety invariants of a finding's passage through the pipeline, for   *)
(* any number of findings, attempts, slots, faults and actions by people:   *)
(* review bookkeeping, the run a finding names, the attempt budgets, what   *)
(* follows a successful remediation, and the sandbox breaker.               *)
(***************************************************************************)
EXTENDS FindingPipeline_proofs

-----------------------------------------------------------------------------
(* The lifecycle and the review                                              *)

\* phaseTimes records the phase the finding is in, or the one it failed from;
\* a finding in review has its pull request recorded, and only it a pending close.
Recorded(f) ==
    /\ fnd[f].phase # "Failed" => fnd[f].prior = fnd[f].phase
    /\ fnd[f].phase = "Failed" => fnd[f].prior \in {"Investigating", "Remediating", "InReview"}
    /\ fnd[f].phase \in {"Failed", "HandedOff"} => fnd[f].revived = TRUE
    /\ fnd[f].phase = "InReview" => fnd[f].pr > 0
    /\ fnd[f].closePending # "none" => fnd[f].phase = "InReview"

LifeInv == \A f \in Findings : Recorded(f)

LEMMA FirstFinding ==
    ASSUME Init, NEW f \in Findings
    PROVE  /\ fnd[f].phase = Absent /\ fnd[f].prior = Absent /\ fnd[f].revived = FALSE
           /\ fnd[f].activeRun = NoRun /\ fnd[f].attInv = 0 /\ fnd[f].attRem = 0
           /\ fnd[f].analysis = FALSE /\ fnd[f].pr = 0 /\ fnd[f].closePending = "none"
           /\ \A n \in Attempts : inv[f][n] = NotCreated /\ rem[f][n] = NotCreated
           /\ gate[f] = Idle /\ invW = Idle /\ spawn[f] = NoStep /\ remW = NoStep
<1>1. fnd[f] = NewFinding
  BY DEF Init, ClusterInit
<1>2. /\ \A n \in Attempts : inv[f][n] = NotCreated /\ rem[f][n] = NotCreated
      /\ gate[f] = Idle /\ invW = Idle /\ spawn[f] = NoStep /\ remW = NoStep
  BY DEF Init, ClusterInit, InvInit, RemInit
<1> QED BY <1>1, <1>2 DEF NewFinding

LEMMA LifeInit == Init => LifeInv
BY FirstFinding DEF LifeInv, Recorded, Absent

LEMMA LifeKept ==
    ASSUME IType, [Next]_vars, LifeInv
    PROVE  LifeInv'
<1> SUFFICES ASSUME NEW f \in Findings PROVE Recorded(f)'
  BY DEF LifeInv
<1>1. Recorded(f) /\ fnd[f] \in Finding
  BY FindingTyped DEF LifeInv
<1>2. FindingStep(f)
  BY FindingSteps
<1>3. invW \in InvSteps /\ remW \in RemSteps
  BY DEF IType, TypeOK, InvTypeOK, RemTypeOK
<1>4. CASE Untouched(f) \/ RemediationCounted(f)
  BY <1>1, <1>4 DEF Untouched, RemediationCounted, SameLife, SameRest, SameReview, Recorded
<1>5. CASE MovedAlone(f)
  BY <1>1, <1>5 DEF MovedAlone, MovedTo, SameRest, SameReview, Recorded, Absent
<1>6. CASE ReviewedAlone(f)
  BY <1>1, <1>6 DEF ReviewedAlone, SameLife, MovedTo, SameReview, Recorded
<1>7. CASE InvestigationBegun(f) \/ RemediationBegun(f)
  BY <1>1, <1>7 DEF InvestigationBegun, RemediationBegun, MovedTo, SameReview, Recorded
<1>8. CASE InvestigationReleased(f)
  <2>1. invW.to \in {"Enhanced", "Failed"}
    BY <1>3, <1>8, InvStepTypes DEF InvestigationReleased, InvRelease
  <2> QED BY <1>1, <1>8, <2>1 DEF InvestigationReleased, MovedTo, SameReview, Recorded
<1>9. CASE VerdictRouted(f)
  <2>1. invW.to \in {"Dismissed", "AwaitingApproval", "Queued", "HandedOff"}
    BY <1>3, <1>9, InvStepTypes DEF VerdictRouted, InvRoute
  <2> QED BY <1>1, <1>9, <2>1 DEF VerdictRouted, SameLife, MovedTo, SameReview, Recorded
<1>10. CASE PullRequestRecorded(f)
  <2>1. remW.pr \in 1..Len(prs[f]) /\ prs[f] \in Seq({"open", "closed", "merged"})
    BY <1>10 DEF PullRequestRecorded, RemRecord, IType, WorkerPR, TypeOK, ClusterTypeOK
  <2>2. remW.pr > 0
    BY <2>1
  <2> QED BY <1>1, <1>10, <2>2 DEF PullRequestRecorded, SameLife, MovedTo, Recorded
<1>11. CASE RemediationFinished(f)
  <2>1. remW.to \in {"Queued", "Failed", "HandedOff"}
    BY <1>3, <1>11, RemStepTypes DEF RemediationFinished, RemFinish
  <2> QED BY <1>1, <1>11, <2>1 DEF RemediationFinished, MovedTo, SameReview, Recorded
<1> QED BY <1>2, <1>4, <1>5, <1>6, <1>7, <1>8, <1>9, <1>10, <1>11 DEF FindingStep

LEMMA Lives == Spec => []LifeInv
BY LifeInit, LifeKept, Typed, PTL DEF Spec

\* A close waits to be settled only while its finding is in review, whatever
\* deliveries, rechecks and other controllers' writes come between: no write
\* that takes a finding out of InReview leaves closePending behind, and the
\* finding enters InReview with none.
THEOREM PendingClose == Spec => []PendingCloseInReview
<1>1. LifeInv => PendingCloseInReview
  BY DEF LifeInv, Recorded, PendingCloseInReview
<1> QED BY <1>1, Lives, PTL

-----------------------------------------------------------------------------
(* Investigations: attempts are numbered without gaps, the gate opens the    *)
(* next one only when the last is over and its verdict, if any, is written,  *)
(* and an analysis is recorded only when nothing is left to write.           *)

\* The finding's n-th Investigation is unsettled, or its result not yet
\* written to the finding.
Busy(f, n) == InFlight(inv[f][n]) \/ Reporting(invW, f, n)

Untried(f) ==
    fnd[f].prior \in {Absent, "Opened"} =>
        /\ fnd[f].attInv = 0 /\ fnd[f].analysis = FALSE /\ gate[f] = Idle
        /\ \A n \in Attempts : ~Exists(inv[f][n])

GateHolds(f) ==
    gate[f] # Idle =>
        /\ gate[f].attempt = fnd[f].attInv + 1
        /\ fnd[f].prior # "Investigating"
        /\ fnd[f].phase = "Enhanced" \/ fnd[f].revived = TRUE
        /\ gate[f].step = "advance" => Exists(inv[f][gate[f].attempt])

Numbered(f) ==
    \A n \in Attempts :
        /\ n <= fnd[f].attInv => Exists(inv[f][n])
        /\ Exists(inv[f][n]) => n <= fnd[f].attInv + 1
        /\ Exists(inv[f][n]) /\ n = fnd[f].attInv + 1 => fnd[f].prior # "Investigating"

Named(f) ==
    fnd[f].phase = "Investigating" =>
        fnd[f].attInv > 0 /\ fnd[f].activeRun = [kind |-> "inv", n |-> fnd[f].attInv]

OneBusy(f) ==
    \A n \in Attempts :
        /\ Reporting(invW, f, n) => Settled(inv[f][n])
        /\ Busy(f, n) => n \in {fnd[f].attInv, fnd[f].attInv + 1}
        /\ Busy(f, n) /\ n = fnd[f].attInv =>
              /\ gate[f] = Idle
              /\ \A m \in Attempts : m = n + 1 => ~Exists(inv[f][m])
              /\ fnd[f].prior # "Enhanced"
              /\ fnd[f].prior = "Investigating" => fnd[f].phase = "Investigating"

\* Once an analysis is recorded, nothing is busy, and a finding still before
\* its investigation has its next attempt already used up.
AnalysisLast(f) ==
    fnd[f].analysis = TRUE =>
        /\ \A n \in Attempts : ~Busy(f, n)
        /\ fnd[f].prior = "Enhanced" =>
              \E n \in Attempts : n = fnd[f].attInv + 1 /\ Exists(inv[f][n])
        /\ gate[f].step = "create" => Exists(inv[f][gate[f].attempt])
        /\ ~(fnd[f].phase = "Failed" /\ fnd[f].prior = "Investigating")

AnalysisFirst(f) ==
    fnd[f].prior \in {"Queued", "AwaitingApproval", "Remediating", "InReview", "Remediated"} =>
        fnd[f].analysis = TRUE

Investigated(f) ==
    /\ Untried(f) /\ GateHolds(f) /\ Numbered(f) /\ Named(f) /\ OneBusy(f)
    /\ AnalysisLast(f) /\ AnalysisFirst(f)

InvestigationInv == \A f \in Findings : Investigated(f)

LEMMA InvestigationInit == Init => InvestigationInv
<1> SUFFICES ASSUME Init, NEW f \in Findings PROVE Investigated(f)
  BY DEF InvestigationInv
<1>1. /\ fnd[f].phase = Absent /\ fnd[f].prior = Absent
      /\ fnd[f].attInv = 0 /\ fnd[f].analysis = FALSE
      /\ \A n \in Attempts : inv[f][n] = NotCreated
      /\ gate[f] = Idle /\ invW = Idle
  BY FirstFinding
<1>2. \A n \in Attempts : n > 0 /\ ~Exists(inv[f][n]) /\ ~Busy(f, n) /\ ~Reporting(invW, f, n)
  BY <1>1 DEF Exists, Busy, InFlight, Reporting, NotCreated, Idle, Attempts
<1>3. Untried(f) /\ GateHolds(f) /\ Named(f) /\ AnalysisLast(f) /\ AnalysisFirst(f)
  BY <1>1, <1>2 DEF Untried, GateHolds, Named, AnalysisLast, AnalysisFirst, Absent
<1>4. Numbered(f) /\ OneBusy(f)
  BY <1>1, <1>2 DEF Numbered, OneBusy, Attempts
<1> QED BY <1>3, <1>4 DEF Investigated

\* The runs, the gate and the worker are left alone, and so are the analysis
\* and the count: the finding moves.
LEMMA InvestigatedMoved ==
    ASSUME NEW f \in Findings, Investigated(f), Recorded(f), Recorded(f)', UNCHANGED <<inv, gate, invW>>,
           fnd'[f].attInv = fnd[f].attInv, fnd'[f].analysis = fnd[f].analysis,
           fnd'[f].phase = "Investigating" => fnd'[f].activeRun = fnd[f].activeRun,
           \/ SameLife(fnd[f], fnd'[f])
           \/ /\ fnd[f].phase = Absent /\ MovedTo(fnd[f], fnd'[f], "Opened")
           \/ /\ fnd[f].phase = "Opened" \/ (fnd[f].phase = "Failed" /\ fnd[f].prior = "Investigating")
              /\ MovedTo(fnd[f], fnd'[f], "Enhanced")
           \/ /\ fnd[f].phase \notin {Absent, "Opened", "Enhanced", "Investigating"}
              /\ \/ /\ fnd[f].analysis = TRUE \/ fnd[f].prior \in {"AwaitingApproval", "Queued", "Remediating", "InReview"}
                    /\ \E to \in {"Queued", "Remediating", "InReview", "Remediated"} : MovedTo(fnd[f], fnd'[f], to)
                 \/ fnd[f].prior # "Enhanced" /\ MovedTo(fnd[f], fnd'[f], "Failed")
           \/ fnd[f].phase # Absent /\ MovedTo(fnd[f], fnd'[f], "HandedOff")
    PROVE  Investigated(f)'
<1> DEFINE c == fnd[f]
           d == fnd'[f]
<1>1. /\ \A n \in Attempts : Busy(f, n)' <=> Busy(f, n)
      /\ \A n \in Attempts : Reporting(invW, f, n)' <=> Reporting(invW, f, n)
  BY DEF Busy, Reporting, InFlight
<1>2. \/ d.prior = c.prior /\ d.phase = c.phase /\ d.revived = c.revived
      \/ d.prior = d.phase /\ d.revived = c.revived /\ d.phase = "Opened" /\ c.phase = Absent
      \/ /\ d.prior = d.phase /\ d.revived = c.revived /\ d.phase = "Enhanced"
         /\ c.phase = "Opened" \/ (c.phase = "Failed" /\ c.prior = "Investigating")
      \/ /\ d.prior = d.phase /\ d.revived = c.revived /\ d.phase \in {"Queued", "Remediating", "InReview", "Remediated"}
         /\ c.phase \notin {Absent, "Opened", "Enhanced", "Investigating"}
         /\ c.analysis = TRUE \/ c.prior \in {"AwaitingApproval", "Queued", "Remediating", "InReview"}
      \/ /\ d.prior = c.prior /\ d.revived = TRUE /\ d.phase = "Failed"
         /\ c.phase \notin {Absent, "Opened", "Enhanced", "Investigating"} /\ c.prior # "Enhanced"
      \/ d.prior = d.phase /\ d.revived = TRUE /\ d.phase = "HandedOff" /\ c.phase # Absent
  BY DEF SameLife, MovedTo
<1>3. /\ d.attInv = c.attInv /\ d.analysis = c.analysis
      /\ d.phase = "Investigating" => d.activeRun = c.activeRun
  OBVIOUS
<1>4. /\ c.phase # "Failed" => c.prior = c.phase
      /\ c.phase = "Failed" => c.prior \in {"Investigating", "Remediating", "InReview"} /\ c.revived = TRUE
      /\ d.phase = "Failed" => d.prior \in {"Investigating", "Remediating", "InReview"}
  BY DEF Recorded
<1> HIDE DEF c, d
<1>5. Untried(f)'
  BY <1>1, <1>2, <1>3, <1>4 DEF Investigated, Untried, AnalysisFirst, c, d, Absent
<1>6. GateHolds(f)'
  BY <1>1, <1>2, <1>3, <1>4 DEF Investigated, Untried, GateHolds, c, d, Absent
<1>7. Numbered(f)'
  BY <1>1, <1>2, <1>3, <1>4 DEF Investigated, Untried, Numbered, c, d, Absent
<1>8. Named(f)'
  BY <1>1, <1>2, <1>3, <1>4 DEF Investigated, Named, c, d, Absent
<1>9. OneBusy(f)'
  <2>1. OneBusy(f) /\ (c.prior \in {Absent, "Opened"} => c.attInv = 0)
    BY DEF Investigated, Untried, c
  <2>2. ASSUME NEW n \in Attempts, Busy(f, n), n = c.attInv
        PROVE  /\ gate[f] = Idle /\ \A m \in Attempts : m = n + 1 => ~Exists(inv[f][m])
               /\ c.prior \notin {"Enhanced", Absent, "Opened"}
               /\ c.prior = "Investigating" => c.phase = "Investigating"
    BY <2>1, <2>2 DEF OneBusy, c, Attempts
  <2>3. ASSUME NEW n \in Attempts, Busy(f, n), n = c.attInv
        PROVE  d.prior # "Enhanced" /\ (d.prior = "Investigating" => d.phase = "Investigating")
    BY <1>2, <1>4, <2>2, <2>3 DEF Absent
  <2>4. ASSUME NEW n \in Attempts
        PROVE  /\ Reporting(invW, f, n) => Settled(inv[f][n])
               /\ Busy(f, n) => n \in {c.attInv, c.attInv + 1}
    BY <2>1, <2>4 DEF OneBusy, c
  <2> QED BY <1>1, <1>3, <2>2, <2>3, <2>4 DEF OneBusy, c, d
<1>10. AnalysisLast(f)'
  BY <1>1, <1>2, <1>3, <1>4 DEF Investigated, Untried, AnalysisLast, c, d, Absent
<1>11. AnalysisFirst(f)'
  BY <1>1, <1>2, <1>3, <1>4 DEF Investigated, Untried, AnalysisFirst, c, d, Absent
<1> QED BY <1>5, <1>6, <1>7, <1>8, <1>9, <1>10, <1>11 DEF Investigated

LEMMA InvestigatedUntouched ==
    ASSUME NEW f \in Findings, IType, Investigated(f), Recorded(f), Untouched(f), InvestigationStep(f)
    PROVE  Investigated(f)'
<1> USE DEF Untouched, SameLife, SameRest, SameCounts, SameWork
<1>1. /\ fnd[f].attInv \in Nat /\ \A n \in Attempts : n \in Nat /\ n > 0
      /\ gate \in [Findings -> GateSteps]
  BY FindingTyped DEF Finding, Attempts, IType, TypeOK, InvTypeOK
<1>2. /\ Untried(f) /\ GateHolds(f) /\ Numbered(f) /\ Named(f) /\ OneBusy(f)
      /\ AnalysisLast(f) /\ AnalysisFirst(f)
  BY DEF Investigated
<1>3. Named(f)' /\ AnalysisFirst(f)'
  BY <1>2 DEF Named, AnalysisFirst
<1>4. CASE InvestigationQuiet(f)
  <2>1. \A n \in Attempts : /\ Exists(inv'[f][n]) <=> Exists(inv[f][n])
                            /\ Settled(inv[f][n]) => Settled(inv'[f][n])
                            /\ InFlight(inv'[f][n]) => InFlight(inv[f][n])
                            /\ Reporting(invW', f, n) => Reporting(invW, f, n)
                            /\ Busy(f, n)' => Busy(f, n)
    BY <1>4 DEF InvestigationQuiet, Exists, InFlight, Settled, Busy
  <2>2. gate'[f] \in {gate[f], Idle}
    BY <1>4 DEF InvestigationQuiet
  <2>3. Untried(f)'
    BY <1>2, <2>1, <2>2 DEF Untried
  <2>4. GateHolds(f)'
    <3>1. gate[f] # Idle => gate[f].attempt \in Attempts
      BY <1>1 DEF GateSteps, Idle
    <3> QED BY <1>2, <2>1, <2>2, <3>1 DEF GateHolds
  <2>5. Numbered(f)'
    BY <1>2, <2>1 DEF Numbered
  <2>6. OneBusy(f)'
    BY <1>2, <2>1, <2>2 DEF OneBusy
  <2>7. AnalysisLast(f)'
    <3>1. gate'[f].step = "create" => gate'[f] = gate[f] /\ gate[f].attempt \in Attempts
      BY <1>1, <2>2 DEF GateSteps, Idle
    <3> QED BY <1>2, <2>1, <2>2, <3>1 DEF AnalysisLast
  <2> QED BY <1>3, <2>3, <2>4, <2>5, <2>6, <2>7 DEF Investigated
<1>5. CASE InvestigationAdmitted(f)
  <2>1. /\ gate[f] = Idle /\ fnd[f].phase = "Enhanced" /\ fnd[f].prior = "Enhanced"
        /\ gate'[f] = [step |-> "create", attempt |-> fnd[f].attInv + 1] /\ inv' = inv /\ invW' = invW
    BY <1>5 DEF InvestigationAdmitted, Recorded
  <2>2. gate'[f].step = "create" /\ gate'[f].attempt = fnd[f].attInv + 1 /\ gate'[f].step # "advance"
    BY <2>1
  <2>3. \A n \in Attempts : Busy(f, n)' <=> Busy(f, n)
    BY <2>1 DEF Busy
  <2>4. Untried(f)' /\ GateHolds(f)' /\ Numbered(f)'
    BY <1>2, <2>1, <2>2 DEF Untried, GateHolds, Numbered, Absent
  <2>5. OneBusy(f)'
    BY <1>2, <2>1, <2>3 DEF OneBusy
  <2>6. AnalysisLast(f)'
    BY <1>2, <2>1, <2>2, <2>3 DEF AnalysisLast
  <2> QED BY <1>3, <2>4, <2>5, <2>6 DEF Investigated
<1>6. CASE InvestigationCreated(f)
  <2>1. PICK n \in Attempts :
          /\ gate[f] = [step |-> "create", attempt |-> n]
          /\ gate'[f] = [step |-> "advance", attempt |-> n]
          /\ OnlyRun(inv[f], inv'[f], n) /\ inv'[f][n].refused = inv[f][n].refused
          /\ inv'[f][n].phase = IF Exists(inv[f][n]) THEN inv[f][n].phase ELSE "Pending"
          /\ invW' = invW
    BY <1>6 DEF InvestigationCreated
  <2>2. /\ gate[f] # Idle /\ gate[f].attempt = n /\ gate[f].step = "create"
        /\ gate'[f] # Idle /\ gate'[f].attempt = n /\ gate'[f].step = "advance" /\ gate'[f].step # "create"
    BY <2>1 DEF Idle
  <2>3. /\ n = fnd[f].attInv + 1 /\ fnd[f].prior # "Investigating"
        /\ fnd[f].phase = "Enhanced" \/ fnd[f].revived = TRUE
    BY <1>2, <2>2 DEF GateHolds
  <2>4. /\ Exists(inv'[f][n])
        /\ \A m \in Attempts : m # n => /\ Exists(inv'[f][m]) <=> Exists(inv[f][m])
                                        /\ Settled(inv'[f][m]) <=> Settled(inv[f][m])
                                        /\ Busy(f, m)' <=> Busy(f, m)
        /\ Exists(inv[f][n]) => /\ Settled(inv'[f][n]) <=> Settled(inv[f][n])
                                /\ Busy(f, n)' <=> Busy(f, n)
    BY <2>1 DEF OnlyRun, Exists, Settled, Busy, InFlight
  <2>5. Reporting(invW, f, n) => Exists(inv[f][n])
    BY <1>2 DEF OneBusy, Settled, Exists
  <2>6. Untried(f)' /\ GateHolds(f)'
    BY <1>2, <2>2, <2>3, <2>4 DEF Untried, GateHolds, Absent
  <2>7. Numbered(f)'
    BY <1>1, <1>2, <2>3, <2>4 DEF Numbered
  <2>8. OneBusy(f)'
    BY <1>1, <1>2, <2>1, <2>2, <2>3, <2>4, <2>5 DEF OneBusy
  <2>9. AnalysisLast(f)'
    <3>1. fnd[f].analysis = TRUE => Exists(inv[f][n])
      BY <1>2, <2>2 DEF AnalysisLast
    <3> QED BY <1>2, <2>2, <2>4, <3>1 DEF AnalysisLast
  <2> QED BY <1>3, <2>6, <2>7, <2>8, <2>9 DEF Investigated
<1>7. CASE InvestigationCounted(f)
  <2>1. gate'[f] = Idle /\ inv' = inv /\ invW' = invW /\ gate'[f].step # "create"
    BY <1>7 DEF InvestigationCounted, Idle
  <2>2. \A n \in Attempts : Busy(f, n)' <=> Busy(f, n)
    BY <2>1 DEF Busy
  <2>3. Untried(f)' /\ GateHolds(f)' /\ Numbered(f)' /\ AnalysisLast(f)'
    BY <1>2, <2>1, <2>2 DEF Untried, GateHolds, Numbered, AnalysisLast
  <2>4. OneBusy(f)'
    BY <1>2, <2>1, <2>2 DEF OneBusy
  <2> QED BY <1>3, <2>3, <2>4 DEF Investigated
<1>8. CASE InvestigationEnded(f)
  <2>1. PICK n \in Attempts :
          /\ inv[f][n].phase = "Running" /\ Settled(inv'[f][n]) /\ OnlyRun(inv[f], inv'[f], n)
          /\ invW = Idle /\ Reporting(invW', f, n) /\ gate' = gate
    BY <1>8 DEF InvestigationEnded
  <2>2. \A m \in Attempts : /\ Exists(inv'[f][m]) <=> Exists(inv[f][m])
                            /\ Reporting(invW', f, m) => m = n
                            /\ Busy(f, m)' => Busy(f, m)
    BY <2>1 DEF OnlyRun, Exists, Settled, Busy, InFlight, Reporting, Idle
  <2>3. Untried(f)' /\ Numbered(f)'
    BY <1>2, <2>1, <2>2 DEF Untried, Numbered
  <2>4. GateHolds(f)' /\ AnalysisLast(f)'
    <3>1. gate[f] # Idle => gate[f].attempt \in Attempts
      BY <1>1 DEF GateSteps, Idle
    <3>2. gate[f].step = "create" => gate[f] # Idle
      BY DEF Idle
    <3> QED BY <1>2, <2>1, <2>2, <3>1, <3>2 DEF GateHolds, AnalysisLast
  <2>5. OneBusy(f)'
    BY <1>2, <2>1, <2>2 DEF OneBusy
  <2> QED BY <1>3, <2>3, <2>4, <2>5 DEF Investigated
<1>9. CASE InvestigationReported(f)
  <2>1. invW' = Idle /\ UNCHANGED <<inv, gate>>
    BY <1>9 DEF InvestigationReported
  <2>2. \A n \in Attempts : ~Reporting(invW', f, n) /\ (Busy(f, n)' => Busy(f, n))
    BY <2>1 DEF Busy, Reporting, Idle
  <2>3. Untried(f)' /\ Numbered(f)' /\ GateHolds(f)' /\ AnalysisLast(f)'
    BY <1>2, <2>1, <2>2 DEF Untried, Numbered, GateHolds, AnalysisLast
  <2>4. OneBusy(f)'
    BY <1>2, <2>1, <2>2 DEF OneBusy
  <2> QED BY <1>3, <2>3, <2>4 DEF Investigated
<1> QED BY <1>4, <1>5, <1>6, <1>7, <1>8, <1>9 DEF InvestigationStep

\* The worker writes its result to the finding, and the run it reports was
\* the only one left.
LEMMA ReportIsLast ==
    ASSUME NEW f \in Findings, fnd[f] \in Finding, Investigated(f), Recorded(f),
           NEW n \in Attempts, Reporting(invW, f, n)
    PROVE  /\ fnd[f].analysis = FALSE
           /\ Settled(inv[f][n]) /\ \A m \in Attempts : ~InFlight(inv[f][m])
           /\ fnd[f].phase = "Investigating" => n = fnd[f].attInv
           /\ fnd[f].prior \notin {Absent, "Opened"}
           /\ \/ /\ n = fnd[f].attInv /\ gate[f] = Idle /\ fnd[f].prior # "Enhanced"
                 /\ fnd[f].prior = "Investigating" => fnd[f].phase = "Investigating"
              \/ n = fnd[f].attInv + 1 /\ Exists(inv[f][n]) /\ fnd[f].prior # "Investigating"
<1>1. /\ fnd[f].attInv \in Nat /\ fnd[f].analysis \in BOOLEAN
      /\ \A m \in Attempts : m \in Nat /\ m > 0
  BY DEF Finding, Attempts
<1>2. /\ Untried(f) /\ Numbered(f) /\ OneBusy(f) /\ AnalysisLast(f)
      /\ fnd[f].phase = "Investigating" => fnd[f].prior = "Investigating"
  BY DEF Investigated, Recorded
<1>3. Busy(f, n) /\ Settled(inv[f][n]) /\ Exists(inv[f][n]) /\ ~InFlight(inv[f][n])
  BY <1>2 DEF Busy, OneBusy, Settled, Exists, InFlight
<1>4. fnd[f].analysis = FALSE
  BY <1>1, <1>2, <1>3 DEF AnalysisLast
<1>5. \A m \in Attempts : InFlight(inv[f][m]) => Busy(f, m) /\ Exists(inv[f][m])
  BY DEF Busy, InFlight, Exists
<1>6. n \in {fnd[f].attInv, fnd[f].attInv + 1}
  BY <1>2, <1>3 DEF OneBusy
<1>7. CASE n = fnd[f].attInv
  <2>1. /\ gate[f] = Idle /\ fnd[f].prior # "Enhanced"
        /\ fnd[f].prior = "Investigating" => fnd[f].phase = "Investigating"
        /\ \A m \in Attempts : m = n + 1 => ~Exists(inv[f][m])
    BY <1>2, <1>3, <1>7 DEF OneBusy
  <2>2. \A m \in Attempts : InFlight(inv[f][m]) => m = n
    BY <1>2, <1>5, <1>7, <2>1 DEF OneBusy
  <2> QED BY <1>2, <1>3, <1>4, <1>7, <2>1, <2>2 DEF Untried
<1>8. CASE n = fnd[f].attInv + 1
  <2>1. fnd[f].prior # "Investigating"
    BY <1>2, <1>3, <1>8 DEF Numbered
  <2>2. \A m \in Attempts : InFlight(inv[f][m]) => m = n
    BY <1>1, <1>2, <1>3, <1>5, <1>8 DEF OneBusy
  <2> QED BY <1>2, <1>3, <1>4, <1>8, <2>1, <2>2 DEF Untried
<1> QED BY <1>6, <1>7, <1>8

\* A finding's remediation begins after its analysis is recorded, and an
\* analysed finding past its investigation does not come back to it.
Past(f) ==
    (\E n \in Attempts : Exists(rem[f][n])) \/ spawn[f] # NoStep \/ RemOn(remW, f) =>
        /\ fnd[f].analysis = TRUE
        /\ fnd[f].prior \notin {Absent, "Opened", "Enhanced", "Investigating"}

PastInv == \A f \in Findings : Past(f)

LEMMA InvestigationKept ==
    ASSUME IType, [Next]_vars, LifeInv, LifeInv', PastInv, InvestigationInv
    PROVE  InvestigationInv'
<1> SUFFICES ASSUME NEW f \in Findings PROVE Investigated(f)'
  BY DEF InvestigationInv
<1>1. Recorded(f) /\ Recorded(f)' /\ Investigated(f) /\ FindingStep(f) /\ fnd[f] \in Finding
  BY FindingSteps, FindingTyped DEF LifeInv, InvestigationInv
<1>2. /\ Untried(f) /\ GateHolds(f) /\ Numbered(f) /\ Named(f) /\ OneBusy(f)
      /\ AnalysisLast(f) /\ AnalysisFirst(f)
      /\ fnd[f].attInv \in Nat /\ \A n \in Attempts : n \in Nat /\ n > 0
  BY <1>1 DEF Investigated, Finding, Attempts
<1>3. invW \in InvSteps /\ gate \in [Findings -> GateSteps] /\ remW \in RemSteps
  BY DEF IType, TypeOK, InvTypeOK, RemTypeOK
<1>4. CASE Untouched(f)
  BY <1>1, <1>4, InvestigatedUntouched, InvestigationSteps
<1>5. CASE MovedAlone(f)
  <2>1. UNCHANGED <<inv, gate, invW>>
    BY <1>5 DEF MovedAlone, aside
  <2>2. fnd'[f].attInv = fnd[f].attInv /\ fnd'[f].analysis = fnd[f].analysis /\ fnd'[f].activeRun = fnd[f].activeRun
    BY <1>5 DEF MovedAlone, SameRest, SameCounts, SameWork
  <2>3. fnd[f].phase = "AwaitingApproval" => fnd[f].prior = "AwaitingApproval"
    BY <1>1 DEF Recorded
  <2> QED BY <1>1, <1>5, <2>1, <2>2, <2>3, InvestigatedMoved DEF MovedAlone, Absent
<1>6. CASE ReviewedAlone(f)
  <2>1. UNCHANGED <<inv, gate, invW>>
    BY <1>6 DEF ReviewedAlone, aside
  <2>2. fnd'[f].attInv = fnd[f].attInv /\ fnd'[f].analysis = fnd[f].analysis /\ fnd'[f].activeRun = fnd[f].activeRun
    BY <1>6 DEF ReviewedAlone, SameCounts, SameWork
  <2>3. fnd[f].phase = "InReview" /\ fnd[f].prior = "InReview"
    BY <1>1, <1>6 DEF Recorded, ReviewedAlone
  <2> QED BY <1>1, <1>6, <2>1, <2>2, <2>3, InvestigatedMoved DEF ReviewedAlone, Absent
<1>7. CASE RemediationCounted(f)
  <2>1. UNCHANGED <<inv, gate, invW>>
    BY <1>7 DEF RemediationCounted, SpawnCount, invVars
  <2>2. /\ fnd'[f].attInv = fnd[f].attInv /\ fnd'[f].analysis = fnd[f].analysis
        /\ fnd'[f].activeRun = fnd[f].activeRun /\ SameLife(fnd[f], fnd'[f])
    BY <1>7 DEF RemediationCounted, SameWork
  <2> QED BY <1>1, <2>1, <2>2, InvestigatedMoved
<1>8. CASE RemediationBegun(f)
  <2>1. UNCHANGED <<inv, gate, invW>>
    BY <1>8 DEF RemediationBegun, RemAdvance, invVars
  <2>2. /\ fnd'[f].attInv = fnd[f].attInv /\ fnd'[f].analysis = fnd[f].analysis
        /\ MovedTo(fnd[f], fnd'[f], "Remediating") /\ fnd[f].phase = "Queued" /\ fnd[f].prior = "Queued"
        /\ fnd'[f].phase # "Investigating"
    BY <1>1, <1>8 DEF RemediationBegun, SameCounts, Recorded, MovedTo
  <2> QED BY <1>1, <2>1, <2>2, InvestigatedMoved DEF Absent
<1>9. CASE PullRequestRecorded(f)
  <2>1. UNCHANGED <<inv, gate, invW>>
    BY <1>9 DEF PullRequestRecorded, RemRecord, invVars
  <2>2. /\ fnd'[f].attInv = fnd[f].attInv /\ fnd'[f].analysis = fnd[f].analysis
        /\ \/ fnd[f].phase = "Remediating" /\ fnd[f].prior = "Remediating" /\ MovedTo(fnd[f], fnd'[f], "InReview")
           \/ SameLife(fnd[f], fnd'[f])
    BY <1>1, <1>9 DEF PullRequestRecorded, SameCounts, Recorded
  <2>3. fnd'[f].phase = "Investigating" => fnd'[f].activeRun = fnd[f].activeRun
    <3>1. RemOn(remW, f) /\ Past(f)
      BY <1>9 DEF PullRequestRecorded, RemRecord, RemOn, NoStep, PastInv
    <3>2. fnd[f].phase # "Investigating"
      BY <1>1, <3>1 DEF Past, Recorded
    <3> QED BY <2>2, <3>2 DEF SameLife, MovedTo
  <2> QED BY <1>1, <2>1, <2>2, <2>3, InvestigatedMoved DEF Absent
<1>10. CASE RemediationFinished(f)
  <2>1. UNCHANGED <<inv, gate, invW>>
    BY <1>10 DEF RemediationFinished, RemFinish, invVars
  <2>2. /\ fnd'[f].attInv = fnd[f].attInv /\ fnd'[f].analysis = fnd[f].analysis
        /\ MovedTo(fnd[f], fnd'[f], remW.to) /\ fnd[f].phase = "Remediating" /\ fnd[f].prior = "Remediating"
        /\ remW.to \in {"Queued", "Failed", "HandedOff"}
    BY <1>1, <1>3, <1>10, RemStepTypes DEF RemediationFinished, RemFinish, SameCounts, Recorded
  <2>3. fnd'[f].phase # "Investigating"
    BY <2>2 DEF MovedTo
  <2> QED BY <1>1, <2>1, <2>2, <2>3, InvestigatedMoved DEF Absent
<1>11. CASE InvestigationBegun(f)
  <2> DEFINE a == fnd[f].attInv
  <2>1. /\ inv' = inv /\ invW' = invW /\ gate'[f] = Idle /\ gate[f].step = "advance" /\ gate[f] # Idle
    BY <1>3, <1>11 DEF InvestigationBegun, GateAdvance, Idle
  <2>2. gate[f].attempt = a + 1 /\ gate[f].attempt \in Attempts /\ Exists(inv[f][gate[f].attempt])
    BY <1>2, <1>3, <2>1, GateStepTypes DEF GateHolds
  <2>3. /\ fnd'[f].attInv = a + 1 /\ fnd'[f].analysis = fnd[f].analysis
        /\ fnd'[f].activeRun = [kind |-> "inv", n |-> a + 1]
        /\ fnd'[f].phase = "Investigating" /\ fnd'[f].prior = "Investigating"
    BY <1>11, <2>2 DEF InvestigationBegun, MovedTo
  <2>4. \A n \in Attempts : Busy(f, n)' <=> Busy(f, n)
    BY <2>1 DEF Busy
  <2>5. gate'[f].step # "create"
    BY <2>1 DEF Idle
  <2>6. Untried(f)' /\ GateHolds(f)' /\ Named(f)' /\ AnalysisFirst(f)'
    <3>1. Untried(f)' /\ GateHolds(f)' /\ AnalysisFirst(f)'
      BY <2>1, <2>3 DEF Untried, GateHolds, AnalysisFirst, Absent
    <3>2. Named(f)'
      BY <1>2, <2>3 DEF Named
    <3> QED BY <3>1, <3>2
  <2>7. Numbered(f)'
    BY <1>2, <2>1, <2>2, <2>3 DEF Numbered
  <2>8. OneBusy(f)'
    <3>1. ASSUME NEW n \in Attempts, Busy(f, n) PROVE n = a + 1
      BY <1>2, <2>1, <3>1 DEF OneBusy
    <3>2. \A m \in Attempts : m = a + 2 => ~Exists(inv[f][m])
      BY <1>2 DEF Numbered
    <3> QED BY <1>2, <2>1, <2>3, <2>4, <3>1, <3>2 DEF OneBusy
  <2>9. AnalysisLast(f)'
    BY <1>2, <2>1, <2>3, <2>4, <2>5 DEF AnalysisLast
  <2> QED BY <2>6, <2>7, <2>8, <2>9 DEF Investigated
<1>12. CASE InvestigationReleased(f) \/ VerdictRouted(f)
  <2> DEFINE n == invW.n
  <2>1. UNCHANGED <<inv, gate>> /\ invW' = Idle /\ n \in Attempts /\ Reporting(invW, f, n)
    BY <1>3, <1>12, InvStepTypes DEF InvestigationReleased, VerdictRouted, InvRelease, InvRoute, Reporting
  <2>2. /\ fnd[f].analysis = FALSE
        /\ Settled(inv[f][n]) /\ \A m \in Attempts : ~InFlight(inv[f][m])
        /\ fnd[f].phase = "Investigating" => n = fnd[f].attInv
        /\ fnd[f].prior \notin {Absent, "Opened"}
        /\ \/ /\ n = fnd[f].attInv /\ gate[f] = Idle /\ fnd[f].prior # "Enhanced"
              /\ fnd[f].prior = "Investigating" => fnd[f].phase = "Investigating"
           \/ n = fnd[f].attInv + 1 /\ Exists(inv[f][n]) /\ fnd[f].prior # "Investigating"
    BY <1>1, <2>1, ReportIsLast
  <2> HIDE DEF n
  <2>3. \A m \in Attempts : ~Busy(f, m)' /\ ~Reporting(invW', f, m)
    BY <2>1, <2>2 DEF Busy, Reporting, Idle
  <2>4. fnd'[f].attInv = fnd[f].attInv
    BY <1>12 DEF InvestigationReleased, VerdictRouted, SameCounts
  <2>5. OneBusy(f)'
    BY <2>3 DEF OneBusy
  <2>6. \/ /\ fnd[f].phase = "Investigating" /\ fnd[f].prior = "Investigating"
           /\ fnd'[f].analysis = FALSE
           /\ \/ fnd'[f].phase = "Enhanced" /\ fnd'[f].prior = "Enhanced"
              \/ fnd'[f].phase = "Failed" /\ fnd'[f].prior = "Investigating"
           /\ fnd'[f].revived = fnd[f].revived \/ fnd'[f].revived = TRUE
        \/ /\ fnd[f].phase = "Investigating" /\ fnd[f].prior = "Investigating"
           /\ fnd'[f].analysis = TRUE /\ fnd'[f].prior = fnd'[f].phase
           /\ fnd'[f].phase \in {"Dismissed", "AwaitingApproval", "Queued", "HandedOff"}
           /\ fnd'[f].revived = fnd[f].revived \/ fnd'[f].revived = TRUE
        \/ /\ fnd[f].phase # "Investigating" /\ SameLife(fnd[f], fnd'[f])
           /\ fnd'[f].analysis = TRUE
    <3>1. CASE InvestigationReleased(f)
      <4>1. invW.to \in {"Enhanced", "Failed"}
        BY <1>3, <3>1, InvStepTypes DEF InvestigationReleased, InvRelease
      <4> QED BY <1>1, <2>2, <3>1, <4>1 DEF InvestigationReleased, MovedTo, Recorded
    <3>2. CASE VerdictRouted(f)
      <4>1. invW.to \in {"Dismissed", "AwaitingApproval", "Queued", "HandedOff"}
        BY <1>3, <3>2, InvStepTypes DEF VerdictRouted, InvRoute
      <4> QED BY <1>1, <3>2, <4>1 DEF VerdictRouted, MovedTo, Recorded
    <3> QED BY <1>12, <3>1, <3>2
  <2>7. gate'[f] = gate[f] /\ (gate[f].step = "create" => gate[f] # Idle)
    BY <2>1 DEF Idle
  <2>8. Untried(f)' /\ GateHolds(f)' /\ Named(f)' /\ AnalysisFirst(f)'
    BY <1>2, <2>1, <2>2, <2>4, <2>6 DEF Untried, GateHolds, Named, AnalysisFirst, SameLife, Absent
  <2>9. Numbered(f)'
    BY <1>2, <2>1, <2>4, <2>6 DEF Numbered, SameLife
  <2>10. AnalysisLast(f)'
    BY <1>2, <2>1, <2>2, <2>3, <2>4, <2>6, <2>7 DEF AnalysisLast, GateHolds, SameLife
  <2> QED BY <2>5, <2>8, <2>9, <2>10 DEF Investigated
<1> QED BY <1>1, <1>4, <1>5, <1>6, <1>7, <1>8, <1>9, <1>10, <1>11, <1>12 DEF FindingStep

-----------------------------------------------------------------------------
(* Remediations: the reconcile under way finds its run where it left it, and *)
(* a Remediating finding names a run that was granted.                       *)

Handled(f) ==
    RemOn(remW, f) =>
        /\ remW.step \in {"advance", "recordJob", "ensurePR", "stamp"} => rem[f][remW.n].phase = "Running"
        /\ remW.step = "finish" => Settled(rem[f][remW.n])
        /\ remW.step = "record" => rem[f][remW.n].phase = "Complete"

Granted(f) ==
    fnd[f].phase = "Remediating" =>
        /\ fnd[f].activeRun.kind = "rem"
        /\ rem[f][fnd[f].activeRun.n].phase \notin {"none", "Pending"}

Leasing(f) == spawn[f].step = "count" => Exists(rem[f][spawn[f].attempt])

RemediationInv == \A f \in Findings : Past(f) /\ Handled(f) /\ Granted(f) /\ Leasing(f)

\* A run once created is never taken away, and once granted never ungranted.
LEMMA RunsGrow ==
    ASSUME NEW f \in Findings, RemediationStep(f), NEW n \in Attempts
    PROVE  /\ Exists(rem[f][n]) => Exists(rem'[f][n])
           /\ rem[f][n].phase \notin {"none", "Pending"} => rem'[f][n].phase \notin {"none", "Pending"}
           /\ Settled(rem[f][n]) => rem'[f][n].phase = rem[f][n].phase \/ RemediationStamped(f)
<1>1. CASE RemediationQuiet(f) \/ RemediationJobRecorded(f)
  BY <1>1 DEF RemediationQuiet, RemediationJobRecorded, SameRuns, Exists
<1>2. CASE RemediationCreated(f)
  BY <1>2 DEF RemediationCreated, OnlyRun, Exists, Settled
<1>3. CASE RemediationGranted(f)
  BY <1>3 DEF RemediationGranted, OnlyRun, Exists, Settled
<1>4. CASE RemediationEnded(f)
  <2>1. PICK m \in Attempts : /\ OnlyRun(rem[f], rem'[f], m) /\ rem[f][m].phase = "Running"
                              /\ rem'[f][m].phase \in {"Complete", "Failed"}
    BY <1>4 DEF RemediationEnded
  <2> QED BY <2>1 DEF OnlyRun, Exists, Settled
<1>5. CASE RemediationStamped(f)
  BY <1>5 DEF RemediationStamped, OnlyRun, Exists
<1>6. CASE UNCHANGED rem
  BY <1>6
<1> QED BY <1>1, <1>2, <1>3, <1>4, <1>5, <1>6
     DEF RemediationStep, RemediationDecided, RemediationNumbered, RemediationAdvanced,
         RemediationTaken, RemediationPREnsured, RemediationReported

\* A finding's remediation is begun by the spawner's decision alone.
LEMMA RemediationDecides ==
    ASSUME NEW f \in Findings, RemediationStep(f),
           (\E n \in Attempts : Exists(rem'[f][n])) \/ spawn'[f] # NoStep \/ RemOn(remW', f)
    PROVE  \/ (\E n \in Attempts : Exists(rem[f][n])) \/ spawn[f] # NoStep \/ RemOn(remW, f)
           \/ RemediationDecided(f)
<1> SUFFICES ASSUME \A n \in Attempts : ~Exists(rem[f][n]), spawn[f] = NoStep, ~RemOn(remW, f),
                    ~RemediationDecided(f)
             PROVE  FALSE
  OBVIOUS
<1>1. ~(RemediationCreated(f) \/ RemediationNumbered(f))
  <2>1. spawn[f].step \notin {"create", "count"}
    BY DEF NoStep
  <2>2. \A n : [step |-> "create", attempt |-> n].step = "create"
    OBVIOUS
  <2> QED BY <2>1, <2>2 DEF RemediationCreated, RemediationNumbered
<1>2. ~(RemediationGranted(f) \/ RemediationTaken(f) \/ RemediationEnded(f))
  BY DEF RemediationGranted, RemediationTaken, RemediationEnded, Exists
<1>3. ~(RemediationAdvanced(f) \/ RemediationJobRecorded(f) \/ RemediationPREnsured(f)
        \/ RemediationStamped(f) \/ RemediationReported(f))
  BY DEF RemediationAdvanced, RemediationJobRecorded, RemediationPREnsured, RemediationStamped,
         RemediationReported, RemOn, NoStep
<1>4. RemediationQuiet(f)
  BY <1>1, <1>2, <1>3 DEF RemediationStep
<1> QED BY <1>4 DEF RemediationQuiet, SameRuns, Exists

LEMMA PastKept ==
    ASSUME IType, [Next]_vars, LifeInv, NEW f \in Findings, Past(f)
    PROVE  Past(f)'
<1>1. Recorded(f) /\ FindingStep(f) /\ RemediationStep(f)
  BY FindingSteps, RemediationSteps DEF LifeInv
<1> SUFFICES ASSUME (\E n \in Attempts : Exists(rem'[f][n])) \/ spawn'[f] # NoStep \/ RemOn(remW', f)
             PROVE  /\ fnd'[f].analysis = TRUE
                    /\ fnd'[f].prior \notin {Absent, "Opened", "Enhanced", "Investigating"}
  BY DEF Past
<1>2. CASE RemediationDecided(f)
  BY <1>1, <1>2 DEF RemediationDecided, Recorded, Absent
<1>3. CASE ~RemediationDecided(f)
  <2>1. fnd[f].analysis = TRUE /\ fnd[f].prior \notin {Absent, "Opened", "Enhanced", "Investigating"}
    BY <1>1, <1>3, RemediationDecides DEF Past
  <2>2. fnd[f].phase \notin {Absent, "Opened", "Enhanced", "Investigating"}
    BY <1>1, <2>1 DEF Recorded, Absent
  <2>3. CASE Untouched(f) \/ RemediationCounted(f)
    BY <2>1, <2>3 DEF Untouched, RemediationCounted, SameLife, SameRest, SameWork
  <2>4. CASE MovedAlone(f)
    BY <2>1, <2>2, <2>4 DEF MovedAlone, MovedTo, SameRest, SameWork, Absent
  <2>5. CASE ReviewedAlone(f)
    BY <2>1, <2>2, <2>5 DEF ReviewedAlone, MovedTo, SameLife, SameWork, Absent
  <2>6. CASE VerdictRouted(f)
    BY <2>1, <2>2, <2>6 DEF VerdictRouted, SameLife, Absent
  <2>7. CASE RemediationBegun(f) \/ PullRequestRecorded(f)
    BY <2>1, <2>7 DEF RemediationBegun, PullRequestRecorded, MovedTo, SameLife, Absent
  <2>8. CASE RemediationFinished(f)
    <3>1. remW.to \in {"Queued", "Failed", "HandedOff"}
      BY <2>8, RemStepTypes DEF RemediationFinished, RemFinish, IType, TypeOK, RemTypeOK
    <3> QED BY <2>1, <2>8, <3>1 DEF RemediationFinished, MovedTo, Absent
  <2> QED BY <1>1, <2>2, <2>3, <2>4, <2>5, <2>6, <2>7, <2>8
          DEF FindingStep, InvestigationBegun, InvestigationReleased
<1> QED BY <1>2, <1>3

LEMMA HandledKept ==
    ASSUME IType, [Next]_vars, NEW f \in Findings, Handled(f), Leasing(f)
    PROVE  Handled(f)' /\ Leasing(f)'
<1>1. RemediationStep(f) /\ remW \in RemSteps /\ spawn \in [Findings -> SpawnSteps]
  BY RemediationSteps DEF IType, TypeOK, RemTypeOK
<1>2. /\ RemOn(remW, f) => remW.n \in Attempts
      /\ spawn[f].step = "count" => spawn[f].attempt \in Attempts
      /\ NoStep.step = "idle" /\ ~RemOn(NoStep, f)
  BY <1>1, RemStepTypes, SpawnStepTypes DEF RemOn, NoStep
<1>3. Leasing(f)'
  <2>1. CASE RemediationCreated(f)
    BY <2>1 DEF RemediationCreated, Leasing, Exists
  <2>2. CASE spawn'[f] \in {spawn[f], NoStep}
    BY <1>1, <1>2, <2>2, RunsGrow DEF Leasing
  <2>3. CASE RemediationDecided(f)
    BY <2>3 DEF RemediationDecided, Leasing
  <2>4. RemediationCreated(f) \/ RemediationDecided(f) \/ spawn'[f] \in {spawn[f], NoStep}
    BY <1>1 DEF RemediationStep, RemediationQuiet, RemediationNumbered, RemediationGranted, RemediationAdvanced,
         RemediationTaken, RemediationJobRecorded, RemediationEnded, RemediationPREnsured,
         RemediationStamped, RemediationReported
  <2> QED BY <2>1, <2>2, <2>3, <2>4
<1>4. CASE RemediationQuiet(f)
  BY <1>2, <1>3, <1>4 DEF RemediationQuiet, SameRuns, Handled, Settled
<1>5. CASE RemediationCreated(f)
  <2>1. PICK n \in Attempts : /\ OnlyRun(rem[f], rem'[f], n) /\ remW' = remW
                              /\ Exists(rem[f][n]) => rem'[f][n].phase = rem[f][n].phase
    BY <1>5 DEF RemediationCreated
  <2>2. Handled(f)'
    BY <1>2, <2>1 DEF OnlyRun, Handled, Settled, Exists
  <2> QED BY <1>3, <2>2
<1>6. CASE RemediationGranted(f) \/ RemediationTaken(f)
  BY <1>3, <1>6 DEF RemediationGranted, RemediationTaken, Handled
<1>7. CASE RemediationAdvanced(f) \/ RemediationJobRecorded(f) \/ RemediationReported(f)
  BY <1>2, <1>3, <1>7 DEF RemediationAdvanced, RemediationJobRecorded, RemediationReported, Handled
<1>8. CASE RemediationEnded(f)
  <2>1. PICK n \in Attempts : remW'.step = "finish" /\ remW'.n = n /\ rem'[f][n].phase \in {"Complete", "Failed"}
    BY <1>8 DEF RemediationEnded
  <2> QED BY <1>3, <2>1 DEF Handled, Settled
<1>9. CASE RemediationPREnsured(f) \/ RemediationStamped(f)
  BY <1>2, <1>3, <1>9 DEF RemediationPREnsured, RemediationStamped, Handled, RemOn, NoStep
<1>10. CASE RemediationDecided(f) \/ RemediationNumbered(f)
  BY <1>3, <1>10 DEF RemediationDecided, RemediationNumbered, Handled
<1> QED BY <1>1, <1>3, <1>4, <1>5, <1>6, <1>7, <1>8, <1>9, <1>10 DEF RemediationStep

LEMMA GrantedKept ==
    ASSUME IType, [Next]_vars, LifeInv, InvestigationInv, NEW f \in Findings, Handled(f), Granted(f)
    PROVE  Granted(f)'
<1>1. /\ Recorded(f) /\ Investigated(f) /\ FindingStep(f) /\ RemediationStep(f) /\ fnd[f] \in Finding
      /\ remW \in RemSteps /\ invW \in InvSteps
  BY FindingSteps, RemediationSteps, FindingTyped
     DEF LifeInv, InvestigationInv, IType, TypeOK, RemTypeOK, InvTypeOK
<1>2. CASE fnd[f].phase = "Remediating" /\ fnd'[f].phase = "Remediating" /\ fnd'[f].activeRun = fnd[f].activeRun
  <2>1. fnd[f].activeRun.n \in Attempts
    BY <1>1, <1>2 DEF Granted, Finding, NoRun
  <2> QED BY <1>1, <1>2, <2>1, RunsGrow DEF Granted
<1>3. CASE fnd'[f].phase # "Remediating"
  BY <1>3 DEF Granted
<1>4. CASE Untouched(f) \/ RemediationCounted(f)
  BY <1>2, <1>3, <1>4 DEF Untouched, RemediationCounted, SameLife, SameRest, SameWork
<1>5. CASE MovedAlone(f) \/ ReviewedAlone(f) \/ InvestigationBegun(f)
  BY <1>3, <1>5 DEF MovedAlone, ReviewedAlone, InvestigationBegun, MovedTo, SameLife
<1>6. CASE InvestigationReleased(f)
  BY <1>1, <1>3, <1>6, InvStepTypes DEF InvestigationReleased, InvRelease, MovedTo
<1>7. CASE VerdictRouted(f)
  <2>1. invW.n \in Attempts /\ Reporting(invW, f, invW.n)
    BY <1>1, <1>7, InvStepTypes DEF VerdictRouted, InvRoute, Reporting
  <2>2. fnd[f].phase # "Remediating"
    BY <1>1, <2>1, ReportIsLast DEF Investigated, AnalysisFirst, Recorded
  <2> QED BY <1>1, <1>3, <1>7, <2>2, InvStepTypes DEF VerdictRouted, InvRoute, MovedTo, SameLife
<1>8. CASE RemediationBegun(f)
  <2>1. rem' = rem /\ RemOn(remW, f) /\ remW.step = "advance"
    BY <1>8 DEF RemediationBegun, RemAdvance, RemOn, NoStep
  <2>2. rem[f][remW.n].phase = "Running"
    BY <2>1 DEF Handled
  <2> QED BY <1>8, <2>1, <2>2 DEF RemediationBegun, Granted
<1>9. CASE PullRequestRecorded(f)
  BY <1>3, <1>9 DEF PullRequestRecorded, MovedTo, SameLife
<1>10. CASE RemediationFinished(f)
  BY <1>1, <1>3, <1>10, RemStepTypes DEF RemediationFinished, RemFinish, MovedTo
<1> QED BY <1>1, <1>4, <1>5, <1>6, <1>7, <1>8, <1>9, <1>10 DEF FindingStep

FindingInv == LifeInv /\ InvestigationInv /\ RemediationInv

LEMMA FindingInitially == Init => FindingInv
<1> SUFFICES ASSUME Init, NEW f \in Findings PROVE Past(f) /\ Handled(f) /\ Granted(f) /\ Leasing(f)
  BY LifeInit, InvestigationInit DEF FindingInv, RemediationInv
<1>1. /\ fnd[f].phase = Absent /\ spawn[f] = NoStep /\ remW = NoStep
      /\ \A n \in Attempts : rem[f][n] = NotCreated
  BY FirstFinding
<1>2. fnd[f].phase # "Remediating" /\ spawn[f].step # "count" /\ ~RemOn(remW, f)
  <2>1. fnd[f].phase # "Remediating"
    BY <1>1, Zenon DEF Absent
  <2> QED BY <1>1, <2>1 DEF RemOn, NoStep
<1>3. \A n \in Attempts : ~Exists(rem[f][n])
  BY <1>1 DEF Exists, NotCreated
<1> QED BY <1>1, <1>2, <1>3 DEF Past, Handled, Granted, Leasing

LEMMA FindingKept ==
    ASSUME IType, [Next]_vars, FindingInv
    PROVE  FindingInv'
<1>1. LifeInv /\ InvestigationInv /\ PastInv /\ LifeInv'
  BY LifeKept DEF FindingInv, RemediationInv, PastInv
<1>2. InvestigationInv'
  BY <1>1, InvestigationKept
<1>3. ASSUME NEW f \in Findings PROVE Past(f)' /\ Handled(f)' /\ Granted(f)' /\ Leasing(f)'
  <2>1. Past(f) /\ Handled(f) /\ Granted(f) /\ Leasing(f)
    BY DEF FindingInv, RemediationInv
  <2> QED BY <1>1, <2>1, PastKept, HandledKept, GrantedKept
<1> QED BY <1>1, <1>2, <1>3 DEF FindingInv, RemediationInv

LEMMA FindingHolds == Spec => []FindingInv
<1>1. FindingInv /\ IType /\ [Next]_vars => FindingInv'
  BY FindingKept
<1> QED BY <1>1, FindingInitially, Typed, PTL DEF Spec

\* The status of an Investigating or a Remediating finding names the run that
\* is doing the work: the attempt counted by openInvestigation's second write,
\* whose child its first write created, or the child the grant moved to Running
\* before it moved the finding.  No late verdict, duplicate create or lagging
\* cache leaves it naming a run that does not exist.
THEOREM NamesItsRun == Spec => []ActiveRunNamed
<1>1. IType /\ FindingInv => ActiveRunNamed
  <2> SUFFICES ASSUME IType, FindingInv, NEW f \in Findings
               PROVE  /\ fnd[f].phase = "Investigating" =>
                            /\ fnd[f].activeRun = [kind |-> "inv", n |-> fnd[f].attInv]
                            /\ inv[f][fnd[f].attInv].phase # "none"
                      /\ fnd[f].phase = "Remediating" =>
                            /\ fnd[f].activeRun.kind = "rem"
                            /\ rem[f][fnd[f].activeRun.n].phase \notin {"none", "Pending"}
    BY DEF ActiveRunNamed
  <2>1. Named(f) /\ Numbered(f) /\ Granted(f) /\ fnd[f].attInv \in 0..MaxRuns
    BY FindingTyped DEF FindingInv, InvestigationInv, Investigated, RemediationInv, Finding
  <2>2. fnd[f].attInv > 0 => fnd[f].attInv \in Attempts
    BY <2>1, MaxRunsAssumption DEF Attempts
  <2> QED BY <2>1, <2>2, MaxRunsAssumption DEF Named, Numbered, Granted, Exists, Attempts
<1> QED BY <1>1, Typed, FindingHolds, PTL

-----------------------------------------------------------------------------
(* The attempts that count: those of the first n that bear no mark.          *)

Unmarked(n, marked) == {m \in 1..n : m \notin marked}
Count(n, marked) == Cardinality(Unmarked(n, marked))

LEMMA CountType ==
    ASSUME NEW n \in Nat, NEW marked
    PROVE  IsFiniteSet(Unmarked(n, marked)) /\ Count(n, marked) \in Nat
<1>1. IsFiniteSet(1..n) /\ Unmarked(n, marked) \in SUBSET (1..n)
  BY FS_Interval DEF Unmarked
<1>2. IsFiniteSet(Unmarked(n, marked))
  BY <1>1, FS_Subset
<1> QED BY <1>2, FS_CardinalityType DEF Count

LEMMA CountNone == ASSUME NEW marked PROVE Count(0, marked) = 0
<1>1. Unmarked(0, marked) = {}
  BY DEF Unmarked
<1> QED BY <1>1, FS_EmptySet DEF Count

LEMMA CountNext ==
    ASSUME NEW n \in Nat, NEW marked
    PROVE  /\ Count(n + 1, marked) <= Count(n, marked) + 1
           /\ n + 1 \in marked => Count(n + 1, marked) = Count(n, marked)
<1>1. IsFiniteSet(Unmarked(n, marked)) /\ Count(n, marked) \in Nat
  BY CountType
<1>2. n + 1 \notin Unmarked(n, marked)
  BY DEF Unmarked
<1>3. CASE n + 1 \in marked
  <2>1. Unmarked(n + 1, marked) = Unmarked(n, marked)
    BY <1>3 DEF Unmarked
  <2> QED BY <1>1, <2>1 DEF Count
<1>4. CASE n + 1 \notin marked
  <2>1. Unmarked(n + 1, marked) = Unmarked(n, marked) \cup {n + 1}
    BY <1>4 DEF Unmarked
  <2>2. Cardinality(Unmarked(n, marked) \cup {n + 1}) = Cardinality(Unmarked(n, marked)) + 1
    BY <1>1, <1>2, FS_AddElement
  <2> QED BY <1>1, <1>4, <2>1, <2>2 DEF Count
<1> QED BY <1>3, <1>4

\* More marks, fewer counted; a mark on one that counted, strictly fewer.
LEMMA CountMarked ==
    ASSUME NEW n \in Nat, NEW marked, NEW more, marked \subseteq more
    PROVE  /\ Count(n, more) <= Count(n, marked)
           /\ \A k \in 1..n : k \in more /\ k \notin marked => Count(n, more) < Count(n, marked)
<1>1. /\ IsFiniteSet(Unmarked(n, marked)) /\ Count(n, marked) \in Nat
      /\ IsFiniteSet(Unmarked(n, more)) /\ Count(n, more) \in Nat
  BY CountType
<1>2. Unmarked(n, more) \in SUBSET Unmarked(n, marked)
  BY DEF Unmarked
<1>3. Count(n, more) <= Count(n, marked)
  BY <1>1, <1>2, FS_Subset DEF Count
<1>4. ASSUME NEW k \in 1..n, k \in more, k \notin marked PROVE Count(n, more) # Count(n, marked)
  <2>1. Unmarked(n, more) # Unmarked(n, marked)
    BY <1>4 DEF Unmarked
  <2> QED BY <1>1, <1>2, <2>1, FS_Subset DEF Count
<1> QED BY <1>1, <1>3, <1>4

\* Fewer attempts, fewer counted.
LEMMA CountUpTo ==
    ASSUME NEW n \in Nat, NEW k \in Nat, k <= n, NEW marked
    PROVE  Count(k, marked) <= Count(n, marked)
<1>1. IsFiniteSet(Unmarked(n, marked))
  BY CountType
<1>2. Unmarked(k, marked) \in SUBSET Unmarked(n, marked)
  BY DEF Unmarked
<1> QED BY <1>1, <1>2, FS_Subset DEF Count

\* consumedAttempts' subtraction counts the same.
LEMMA CountConsumed ==
    ASSUME NEW n \in Nat \ {0}, NEW marked, n \notin marked
    PROVE  n - Cardinality({m \in 1..(n - 1) : m \in marked}) = Count(n, marked)
<1> DEFINE taken == {m \in 1..(n - 1) : m \in marked}
           free == Unmarked(n, marked)
<1>1. IsFiniteSet(free) /\ Cardinality(free) \in Nat
  BY CountType DEF Count
<1>2. IsFiniteSet(taken) /\ Cardinality(taken) \in Nat
  <2>1. IsFiniteSet(1..(n - 1)) /\ taken \in SUBSET (1..(n - 1))
    BY FS_Interval
  <2> QED BY <2>1, FS_Subset, FS_CardinalityType
<1>3. free \cup taken = 1..n /\ free \cap taken = {}
  <2>1. \A x : x \in free <=> x \in 1..n /\ x \notin marked
    BY DEF Unmarked
  <2>2. \A x : x \in taken <=> x \in 1..(n - 1) /\ x \in marked
    OBVIOUS
  <2>3. \A x : x \in 1..n <=> x \in 1..(n - 1) \/ x = n
    OBVIOUS
  <2> HIDE DEF free, taken
  <2>4. \A x : x \in free \cup taken <=> x \in 1..n
    <3>1. ASSUME NEW x PROVE x \in free \cup taken => x \in 1..n
      BY <2>1, <2>2, <2>3
    <3>2. ASSUME NEW x, x \in 1..n PROVE x \in free \cup taken
      <4>1. CASE x \in marked
        BY <2>2, <2>3, <3>2, <4>1
      <4>2. CASE x \notin marked
        BY <2>1, <3>2, <4>2
      <4> QED BY <4>1, <4>2
    <3> QED BY <3>1, <3>2
  <2> QED BY <2>1, <2>2, <2>4, Zenon
<1>4. Cardinality(1..n) = n /\ Cardinality({}) = 0
  BY FS_Interval, FS_EmptySet
<1> HIDE DEF taken, free
<1>5. Cardinality(free \cup taken) = Cardinality(free) + Cardinality(taken) - Cardinality(free \cap taken)
  BY <1>1, <1>2, FS_Union
<1>6. n - Cardinality(taken) = Cardinality(free)
  <2>1. Cardinality(free \cup taken) = n /\ Cardinality(free \cap taken) = 0
    BY <1>3, <1>4, Zenon
  <2>2. Cardinality(free) \in Nat /\ Cardinality(taken) \in Nat
    BY <1>1, <1>2
  <2> QED BY <1>5, <2>1, <2>2
<1> QED BY <1>6 DEF Count, free, taken

-----------------------------------------------------------------------------
(* The budget of investigations                                              *)

RefusedInv(f) == {m \in Attempts : inv[f][m].refused = TRUE}

\* Until the finding first fails or is handed off, its attempts that count are
\* within the budget, and one is left whenever the gate may open another.
Budgeted(f) ==
    /\ \A n \in Attempts : inv[f][n].refused = TRUE => inv[f][n].phase = "Failed"
    /\ fnd[f].revived = FALSE =>
          /\ \A n \in Attempts : Exists(inv[f][n]) => Count(n, RefusedInv(f)) <= MaxAttempts
          /\ fnd[f].prior = "Enhanced" => Count(fnd[f].attInv, RefusedInv(f)) < MaxAttempts
          /\ \A n \in Attempts :
                Reporting(invW, f, n) /\ invW.step = "release" /\ invW.to = "Enhanced" =>
                    Count(n, RefusedInv(f)) < MaxAttempts

BudgetInv == \A f \in Findings : Budgeted(f)

\* A failure or a hand-off is never forgotten.
LEMMA RevivedStays ==
    ASSUME NEW f \in Findings, FindingStep(f), fnd[f] \in Finding, fnd'[f] \in Finding, fnd'[f].revived = FALSE
    PROVE  fnd[f].revived = FALSE
<1>1. fnd[f].revived \in BOOLEAN /\ fnd'[f].revived \in BOOLEAN
  BY DEF Finding
<1>2. (\E to : MovedTo(fnd[f], fnd'[f], to)) \/ SameLife(fnd[f], fnd'[f])
  BY DEF FindingStep, Untouched, MovedAlone, ReviewedAlone, InvestigationBegun, InvestigationReleased,
         VerdictRouted, RemediationCounted, RemediationBegun, PullRequestRecorded, RemediationFinished
<1> QED BY <1>1, <1>2 DEF MovedTo, SameLife

\* How a finding gets back to Enhanced, or stays there.
LEMMA BackToEnhanced ==
    ASSUME IType, [Next]_vars, NEW f \in Findings, Recorded(f), Investigated(f), fnd'[f].prior = "Enhanced"
    PROVE  /\ fnd'[f].attInv = fnd[f].attInv
           /\ \/ fnd[f].prior = "Enhanced" \/ fnd[f].prior = "Opened" \/ fnd[f].revived = TRUE
              \/ /\ UNCHANGED inv /\ fnd[f].phase = "Investigating"
                 /\ Reporting(invW, f, fnd[f].attInv) /\ fnd[f].attInv \in Attempts
                 /\ invW.step = "release" /\ invW.to = "Enhanced"
<1>1. /\ FindingStep(f) /\ fnd[f] \in Finding /\ invW \in InvSteps /\ remW \in RemSteps
  BY FindingSteps, FindingTyped DEF IType, TypeOK, InvTypeOK, RemTypeOK
<1>2. CASE Untouched(f) \/ RemediationCounted(f)
  BY <1>2 DEF Untouched, RemediationCounted, SameLife, SameRest, SameCounts
<1>3. CASE MovedAlone(f)
  BY <1>3 DEF MovedAlone, MovedTo, SameRest, SameCounts, Recorded
<1>4. CASE ReviewedAlone(f)
  BY <1>4 DEF ReviewedAlone, MovedTo, SameLife, SameCounts, Recorded
<1>5. CASE InvestigationBegun(f) \/ RemediationBegun(f)
  BY <1>5 DEF InvestigationBegun, RemediationBegun, MovedTo
<1>6. CASE InvestigationReleased(f)
  <2>1. invW.n \in Attempts /\ Reporting(invW, f, invW.n) /\ invW.to \in {"Enhanced", "Failed"}
        /\ UNCHANGED inv /\ invW.step = "release"
    BY <1>1, <1>6, InvStepTypes DEF InvestigationReleased, InvRelease, Reporting
  <2>2. invW.n = fnd[f].attInv
    BY <1>1, <1>6, <2>1, ReportIsLast DEF InvestigationReleased
  <2>3. invW.to = "Enhanced"
    BY <1>6, <2>1 DEF InvestigationReleased, MovedTo, Recorded
  <2> QED BY <1>6, <2>1, <2>2, <2>3 DEF InvestigationReleased, SameCounts
<1>7. CASE VerdictRouted(f)
  BY <1>1, <1>7, InvStepTypes DEF VerdictRouted, InvRoute, MovedTo, SameLife, SameCounts
<1>8. CASE PullRequestRecorded(f)
  BY <1>8 DEF PullRequestRecorded, MovedTo, SameLife, SameCounts
<1>9. CASE RemediationFinished(f)
  BY <1>1, <1>9, RemStepTypes DEF RemediationFinished, RemFinish, MovedTo, SameCounts, Recorded
<1> QED BY <1>1, <1>2, <1>3, <1>4, <1>5, <1>6, <1>7, <1>8, <1>9 DEF FindingStep

\* Marks are never taken off an Investigation, and mark a failed one.
LEMMA RefusalsStay ==
    ASSUME NEW f \in Findings, InvestigationStep(f),
           \A n \in Attempts : inv[f][n].refused = TRUE => inv[f][n].phase = "Failed"
    PROVE  /\ RefusedInv(f) \subseteq RefusedInv(f)'
           /\ \A n \in Attempts : inv'[f][n].refused = TRUE => inv'[f][n].phase = "Failed"
<1>1. CASE InvestigationQuiet(f)
  BY <1>1 DEF InvestigationQuiet, RefusedInv, InFlight
<1>2. CASE InvestigationCreated(f)
  BY <1>2 DEF InvestigationCreated, RefusedInv, OnlyRun, Exists
<1>3. CASE InvestigationEnded(f)
  <2>1. PICK n \in Attempts : /\ inv[f][n].phase = "Running" /\ OnlyRun(inv[f], inv'[f], n)
                              /\ \/ inv'[f][n].phase = "Failed" /\ inv'[f][n].refused = TRUE
                                 \/ inv'[f][n].refused = inv[f][n].refused
    BY <1>3 DEF InvestigationEnded
  <2> QED BY <2>1 DEF RefusedInv, OnlyRun
<1>4. CASE UNCHANGED inv
  BY <1>4 DEF RefusedInv
<1> QED BY <1>1, <1>2, <1>3, <1>4 DEF InvestigationStep, InvestigationAdmitted, InvestigationCounted, InvestigationReported

LEMMA BudgetKept ==
    ASSUME IType, IType', [Next]_vars, LifeInv, InvestigationInv, BudgetInv
    PROVE  BudgetInv'
<1> SUFFICES ASSUME NEW f \in Findings PROVE Budgeted(f)'
  BY DEF BudgetInv
<1> DEFINE old == RefusedInv(f)
           new == RefusedInv(f)'
           att == fnd[f].attInv
<1>1. /\ Recorded(f) /\ Investigated(f) /\ Budgeted(f) /\ FindingStep(f) /\ InvestigationStep(f)
      /\ fnd[f] \in Finding /\ fnd'[f] \in Finding
  BY FindingSteps, InvestigationSteps, FindingTyped
     DEF LifeInv, InvestigationInv, BudgetInv, IType, TypeOK, ClusterTypeOK
<1>2. old \subseteq new /\ \A n \in Attempts : inv'[f][n].refused = TRUE => inv'[f][n].phase = "Failed"
  BY <1>1, RefusalsStay DEF Budgeted
<1>3. att \in Nat /\ MaxAttempts \in Nat /\ MaxAttempts > 0 /\ \A n \in Attempts : n \in Nat /\ n > 0
  BY <1>1, MaxAttemptsAssumption DEF Finding, Attempts
<1> HIDE DEF old, new, att
<1>4. \A n \in Nat : Count(n, new) <= Count(n, old) /\ Count(n, new) \in Nat /\ Count(n, old) \in Nat
  BY <1>2, CountMarked, CountType
<1> SUFFICES ASSUME fnd'[f].revived = FALSE
             PROVE  /\ \A n \in Attempts : Exists(inv'[f][n]) => Count(n, new) <= MaxAttempts
                    /\ fnd'[f].prior = "Enhanced" => Count(fnd'[f].attInv, new) < MaxAttempts
                    /\ \A n \in Attempts :
                          Reporting(invW', f, n) /\ invW'.step = "release" /\ invW'.to = "Enhanced" =>
                              Count(n, new) < MaxAttempts
  BY <1>2 DEF Budgeted, new
<1>5. fnd[f].revived = FALSE
  BY <1>1, RevivedStays
<1>6. /\ \A n \in Attempts : Exists(inv[f][n]) => Count(n, old) <= MaxAttempts
      /\ fnd[f].prior = "Enhanced" => Count(att, old) < MaxAttempts
      /\ \A n \in Attempts :
            Reporting(invW, f, n) /\ invW.step = "release" /\ invW.to = "Enhanced" =>
                Count(n, old) < MaxAttempts
  BY <1>1, <1>5 DEF Budgeted, old, att
<1>7. ASSUME NEW n \in Attempts, Exists(inv'[f][n]) PROVE Count(n, new) <= MaxAttempts
  <2>1. CASE Exists(inv[f][n])
    BY <1>3, <1>4, <1>6, <2>1
  <2>2. CASE ~Exists(inv[f][n])
    <3>1. gate[f] = [step |-> "create", attempt |-> n]
      <4>1. ~InvestigationQuiet(f)
        BY <1>7, <2>2 DEF InvestigationQuiet, Exists, InFlight
      <4>2. ~InvestigationEnded(f)
        BY <1>7, <2>2 DEF InvestigationEnded, OnlyRun, Exists
      <4>3. InvestigationCreated(f)
        BY <1>1, <1>7, <2>2, <4>1, <4>2
           DEF InvestigationStep, InvestigationAdmitted, InvestigationCounted, InvestigationReported
      <4> QED BY <1>7, <2>2, <4>3 DEF InvestigationCreated, OnlyRun
    <3>2. gate[f] # Idle /\ gate[f].attempt = n
      BY <3>1 DEF Idle
    <3>3. n = att + 1 /\ fnd[f].prior = "Enhanced"
      BY <1>1, <1>5, <3>2 DEF Investigated, GateHolds, Recorded, att
    <3>4. Count(n, old) <= Count(att, old) + 1
      BY <1>3, <3>3, CountNext
    <3> QED BY <1>3, <1>4, <1>6, <3>3, <3>4
  <2> QED BY <2>1, <2>2
<1>8. ASSUME fnd'[f].prior = "Enhanced" PROVE Count(fnd'[f].attInv, new) < MaxAttempts
  <2>1. fnd'[f].attInv = att
    BY <1>1, <1>8, BackToEnhanced DEF att
  <2>2. CASE fnd[f].prior = "Enhanced"
    BY <1>3, <1>4, <1>6, <2>1, <2>2
  <2>3. CASE fnd[f].prior = "Opened"
    <3>1. att = 0
      BY <1>1, <2>3 DEF Investigated, Untried, att
    <3> QED BY <1>3, <2>1, <3>1, CountNone
  <2>4. CASE Reporting(invW, f, att) /\ att \in Attempts /\ invW.step = "release" /\ invW.to = "Enhanced"
    BY <1>3, <1>4, <1>6, <2>1, <2>4
  <2> QED BY <1>1, <1>5, <1>8, <2>2, <2>3, <2>4, BackToEnhanced DEF att
<1>9. ASSUME NEW n \in Attempts, Reporting(invW', f, n), invW'.step = "release", invW'.to = "Enhanced"
      PROVE  Count(n, new) < MaxAttempts
  <2>1. CASE invW' = invW
    BY <1>3, <1>4, <1>6, <1>9, <2>1
  <2>2. CASE invW' # invW
    <3>1. InvestigationEnded(f)
      <4>1. ~InvestigationQuiet(f)
        BY <1>9, <2>2 DEF InvestigationQuiet
      <4>2. ~InvestigationReported(f)
        BY <1>9 DEF InvestigationReported, Reporting, Idle
      <4> QED BY <1>1, <2>2, <4>1, <4>2 DEF InvestigationStep, InvestigationAdmitted, InvestigationCreated,
                                         InvestigationCounted
    <3>2. /\ inv[f][n].phase = "Running"
          /\ \/ inv'[f][n].refused = TRUE
             \/ /\ inv'[f][n].refused = inv[f][n].refused /\ OnlyRun(inv[f], inv'[f], n)
                /\ InvConsumed(f, n) < MaxAttempts
      BY <1>9, <3>1 DEF InvestigationEnded, Reporting
    <3>3. n \notin old /\ Exists(inv[f][n])
      BY <1>1, <3>2 DEF Budgeted, RefusedInv, Exists, old
    <3>4. CASE inv'[f][n].refused = TRUE
      <4>1. n \in new /\ n \in 1..n
        BY <1>3, <3>4 DEF RefusedInv, new
      <4>2. Count(n, new) < Count(n, old)
        BY <1>2, <1>3, <3>3, <4>1, CountMarked
      <4> QED BY <1>3, <1>4, <1>6, <3>3, <4>2
    <3>5. CASE InvConsumed(f, n) < MaxAttempts
      <4>1. {m \in 1..(n - 1) : inv[f][m].refused} = {m \in 1..(n - 1) : m \in old}
        <5>1. \A m \in 1..(n - 1) : m \in Attempts
          BY <1>3, MaxRunsAssumption DEF Attempts
        <5>2. \A m \in Attempts : inv[f][m].refused \in BOOLEAN
          BY DEF IType, TypeOK, ClusterTypeOK, Run
        <5> QED BY <5>1, <5>2 DEF RefusedInv, old
      <4>2. InvConsumed(f, n) = Count(n, old)
        BY <1>3, <3>3, <4>1, CountConsumed DEF InvConsumed
      <4> QED BY <1>3, <1>4, <3>5, <4>2
    <3> QED BY <3>2, <3>4, <3>5
  <2> QED BY <2>1, <2>2
<1> QED BY <1>7, <1>8, <1>9

LEMMA BudgetInitially == Init => BudgetInv
<1> SUFFICES ASSUME Init, NEW f \in Findings PROVE Budgeted(f)
  BY DEF BudgetInv
<1>1. /\ fnd[f].prior = Absent /\ invW = Idle
      /\ \A n \in Attempts : inv[f][n] = NotCreated
  BY FirstFinding
<1>2. fnd[f].prior # "Enhanced"
  BY <1>1, Zenon DEF Absent
<1>3. ASSUME NEW n \in Attempts
      PROVE  ~Exists(inv[f][n]) /\ inv[f][n].refused = FALSE /\ ~Reporting(invW, f, n)
  <2>1. inv[f][n] = NotCreated
    BY <1>1
  <2>2. invW.step = "idle"
    BY <1>1 DEF Idle
  <2> QED BY <2>1, <2>2 DEF Exists, NotCreated, Reporting
<1>4. \A n \in Attempts : inv[f][n].refused = TRUE => inv[f][n].phase = "Failed"
  BY <1>3
<1>5. fnd[f].prior = "Enhanced" => Count(fnd[f].attInv, RefusedInv(f)) < MaxAttempts
  BY <1>2
<1>6. \A n \in Attempts : Exists(inv[f][n]) => Count(n, RefusedInv(f)) <= MaxAttempts
  BY <1>3
<1>7. \A n \in Attempts :
         Reporting(invW, f, n) /\ invW.step = "release" /\ invW.to = "Enhanced" =>
             Count(n, RefusedInv(f)) < MaxAttempts
  BY <1>3
<1> QED BY <1>4, <1>5, <1>6, <1>7, Zenon DEF Budgeted

\* --max-attempts holds, whatever interleaves, is retried, is lost or is
\* restarted: of the Investigations a finding is given before it first fails
\* or is handed off, at most MaxAttempts had an agent that was not refused.
\* consumedAttempts, read by the worker that ends a run, and the count the gate
\* numbers the next child by are kept by two reconcilers, and agree.
THEOREM InvestigationsBudgeted == Spec => []InvestigationBudget
<1>1. BudgetInv /\ FindingInv /\ IType /\ IType' /\ [Next]_vars => BudgetInv'
  BY BudgetKept DEF FindingInv
<1>2. IType /\ BudgetInv => InvestigationBudget
  <2> SUFFICES ASSUME IType, BudgetInv, NEW f \in Findings, NEW n \in Attempts, inv[f][n].phase # "none",
                      Cardinality({m \in 1..n : ~inv[f][m].refused}) > MaxAttempts
               PROVE  fnd[f].revived
    BY DEF InvestigationBudget
  <2>1. {m \in 1..n : ~inv[f][m].refused} = Unmarked(n, RefusedInv(f))
    <3>1. \A m \in 1..n : m \in Attempts
      BY MaxRunsAssumption DEF Attempts
    <3>2. \A m \in Attempts : inv[f][m].refused \in BOOLEAN
      BY DEF IType, TypeOK, ClusterTypeOK, Run
    <3>3. \A m \in 1..n : ~inv[f][m].refused <=> m \notin RefusedInv(f)
      <4> SUFFICES ASSUME NEW m \in 1..n PROVE ~inv[f][m].refused <=> m \notin RefusedInv(f)
        OBVIOUS
      <4>1. m \in Attempts /\ inv[f][m].refused \in BOOLEAN
        BY <3>1, <3>2, Zenon
      <4>2. CASE inv[f][m].refused = TRUE
        BY <4>1, <4>2 DEF RefusedInv
      <4>3. CASE inv[f][m].refused = FALSE
        BY <4>1, <4>3 DEF RefusedInv
      <4> QED BY <4>1, <4>2, <4>3
    <3> QED BY <3>3, Zenon DEF Unmarked
  <2>2. Count(n, RefusedInv(f)) > MaxAttempts
    BY <2>1, Zenon DEF Count
  <2>3. Count(n, RefusedInv(f)) \in Nat /\ MaxAttempts \in Nat
    BY CountType, MaxAttemptsAssumption DEF Attempts
  <2>4. fnd[f].revived \in BOOLEAN
    BY FindingTyped DEF Finding
  <2>5. Exists(inv[f][n]) /\ Budgeted(f)
    BY DEF Exists, BudgetInv
  <2>6. CASE fnd[f].revived = FALSE
    BY <2>2, <2>3, <2>5, <2>6 DEF Budgeted
  <2> QED BY <2>4, <2>6
<1> QED BY <1>1, <1>2, BudgetInitially, Typed, FindingHolds, PTL DEF Spec

-----------------------------------------------------------------------------
(* Review: once a finding's pull request is recorded, nothing of its         *)
(* remediation is left to record another over it.                            *)

\* A pull request that was merged stays so.
LEMMA MergedStays ==
    ASSUME IType, [Next]_vars, NEW f \in Findings, NEW i \in 1..Len(prs[f]), prs[f][i] = "merged"
    PROVE  prs'[f][i] = "merged"
<1>1. prs \in [Findings -> Seq({"open", "closed", "merged"})] /\ i \in DOMAIN prs[f]
  BY DEF IType, TypeOK, ClusterTypeOK
<1>2. CASE prs' = prs
  BY <1>2
<1>3. CASE Remediate
  <2>1. CASE RemEnsurePR
    <3>1. \/ prs' = prs
          \/ prs' = [prs EXCEPT ![remW.f] = Append(@, "open")]
      BY <2>1 DEF RemEnsurePR
    <3>2. prs[f] \in Seq({"open", "closed", "merged"}) /\ Append(prs[f], "open")[i] = prs[f][i]
      BY <1>1, SMTT(30)
    <3> QED BY <1>1, <3>1, <3>2
  <2>2. CASE RemAdvance \/ RemRecordJob \/ RemStamp \/ RemRecord \/ RemFinish
    BY <1>2, <2>2 DEF RemAdvance, RemRecordJob, RemStamp, RemRecord, RemFinish
  <2>3. ASSUME NEW g \in Findings, \/ SpawnAdmit(g) \/ SpawnRevive(g) \/ SpawnRetryAdmit(g)
                                   \/ SpawnDecide(g) \/ SpawnCreate(g) \/ SpawnCount(g)
        PROVE  prs' = prs
    BY <2>3 DEF SpawnAdmit, SpawnRevive, SpawnRetryAdmit, SpawnDecide, SpawnCreate, SpawnCount, cluster
  <2>4. ASSUME NEW g \in Findings, NEW n \in Attempts,
               \/ Observe(g, n) \/ RemGrant(g, n) \/ RemLaunch(g, n) \/ RemHoldForImage(g, n)
               \/ RemFail(g, n) \/ RemSandboxRefused(g, n) \/ RemHandOff(g, n) \/ RemPush(g, n)
        PROVE  prs' = prs
    BY <2>4 DEF Observe, RemGrant, RemLaunch, RemHoldForImage, RemFail, RemSandboxRefused, RemHandOff,
                RemPush, cluster
  <2> QED BY <1>2, <1>3, <2>1, <2>2, <2>3, <2>4 DEF Remediate, RemNext
<1>4. CASE People
  <2>1. ASSUME NEW g \in Findings, NEW j \in DOMAIN prs[g], ReviewPR(g, j)
        PROVE  prs'[f][i] = prs[f][i]
    BY <1>1, <2>1 DEF ReviewPR
  <2>2. ASSUME NEW g \in Findings, \/ CloseIssue(g) \/ ReopenIssue(g) \/ Approve(g) \/ Retry(g)
                                   \/ Suspend(g) \/ Resume(g)
        PROVE  prs' = prs
    BY <2>2 DEF CloseIssue, ReopenIssue, Approve, Retry, Suspend, Resume, Ask, others
  <2> QED BY <1>2, <1>4, <2>1, <2>2 DEF People, PeopleNext
<1>5. CASE Investigate
  <2>1. ASSUME NEW g \in Findings, GateAdmit(g) \/ GateCreate(g) \/ GateAdvance(g) \/ GatePark(g) \/ GateRetryRevert(g)
        PROVE  prs' = prs
    BY <2>1 DEF GateAdmit, GateCreate, GateAdvance, GatePark, GateRetryRevert, cluster
  <2>2. ASSUME NEW g \in Findings, NEW n \in Attempts, \/ InvGrant(g, n) \/ InvLaunch(g, n) \/ InvFail(g, n)
                                                        \/ InvSandboxRefused(g, n) \/ InvApply(g, n)
        PROVE  prs' = prs
    BY <2>2 DEF InvGrant, InvLaunch, InvFail, InvSandboxRefused, InvApply
  <2>3. CASE InvRecordJob \/ InvRelease \/ InvRoute
    BY <1>2, <2>3 DEF InvRecordJob, InvRelease, InvRoute
  <2> QED BY <1>2, <1>5, <2>1, <2>2, <2>3 DEF Investigate, InvNext
<1>6. CASE Integrate
  BY <1>2, <1>6 DEF Integrate, IntegrationNext, Ingest, Enhance, SettleReview, DeliverPR, others
<1>7. CASE Agents \/ UNCHANGED vars
  BY <1>2, <1>7 DEF Agents, JobEnds, JobVanishes, vars, cluster
<1>8. CASE Faults
  BY <1>2, <1>8 DEF Faults, InvFault, InvError, InvRestart, GateError, RemFault, RemError, RemRestart, SpawnError
<1> QED BY <1>3, <1>4, <1>5, <1>6, <1>7, <1>8 DEF Next

\* A finding changes its run, or its remediation's phase, in these steps only.
LEMMA RemediatingSteps ==
    ASSUME IType, [Next]_vars, LifeInv, InvestigationInv, NEW f \in Findings
    PROVE  /\ fnd'[f].phase = "Remediating" =>
                 \/ fnd[f].phase = "Remediating" /\ fnd'[f].activeRun = fnd[f].activeRun
                 \/ RemediationBegun(f)
           /\ fnd'[f].phase = "InReview" =>
                 \/ fnd[f].phase = "InReview"
                 \/ PullRequestRecorded(f) /\ fnd[f].phase = "Remediating"
           /\ fnd'[f].phase = "Remediated" =>
                 \/ fnd[f].phase = "Remediated" /\ (fnd'[f].pr = fnd[f].pr \/ PullRequestRecorded(f))
                 \/ fnd[f].phase = "InReview" /\ fnd'[f].pr = fnd[f].pr /\ prs' = prs
                      /\ prs[f][fnd[f].pr] = "merged"
<1>1. /\ Recorded(f) /\ Investigated(f) /\ FindingStep(f) /\ fnd[f] \in Finding
      /\ remW \in RemSteps /\ invW \in InvSteps
  BY FindingSteps, FindingTyped DEF LifeInv, InvestigationInv, IType, TypeOK, RemTypeOK, InvTypeOK
<1>2. CASE Untouched(f) \/ RemediationCounted(f)
  BY <1>2 DEF Untouched, RemediationCounted, SameLife, SameRest, SameWork, SameReview
<1>3. CASE MovedAlone(f)
  BY <1>3 DEF MovedAlone, MovedTo
<1>4. CASE ReviewedAlone(f)
  BY <1>4 DEF ReviewedAlone, MovedTo, SameLife, SameWork
<1>5. CASE InvestigationBegun(f)
  BY <1>5 DEF InvestigationBegun, MovedTo
<1>6. CASE InvestigationReleased(f)
  BY <1>1, <1>6, InvStepTypes DEF InvestigationReleased, InvRelease, MovedTo
<1>7. CASE VerdictRouted(f)
  <2>1. invW.n \in Attempts /\ Reporting(invW, f, invW.n)
    BY <1>1, <1>7, InvStepTypes DEF VerdictRouted, InvRoute, Reporting
  <2>2. fnd[f].phase # "Remediating"
    BY <1>1, <2>1, ReportIsLast DEF Investigated, AnalysisFirst, Recorded
  <2> QED BY <1>1, <1>7, <2>2, InvStepTypes DEF VerdictRouted, InvRoute, MovedTo, SameLife, SameReview
<1>8. CASE RemediationBegun(f)
  BY <1>8 DEF RemediationBegun, MovedTo
<1>9. CASE PullRequestRecorded(f)
  BY <1>9 DEF PullRequestRecorded, MovedTo, SameLife
<1>10. CASE RemediationFinished(f)
  BY <1>1, <1>10, RemStepTypes DEF RemediationFinished, RemFinish, MovedTo
<1> QED BY <1>1, <1>2, <1>3, <1>4, <1>5, <1>6, <1>7, <1>8, <1>9, <1>10 DEF FindingStep

\* The spawner's create under way, if any, is of a run that exists.
Spawned(f) == spawn[f].step = "create" => Exists(rem[f][spawn[f].attempt])

\* Once the spawner has nothing left to create, nothing starts outside Queued.
LEMMA NothingStarts ==
    ASSUME NEW f \in Findings, RemediationStep(f), spawn[f] \in SpawnSteps,
           Spawned(f), fnd[f].phase # "Queued"
    PROVE  /\ Spawned(f)'
           /\ \A n \in Attempts : InFlight(rem'[f][n]) => InFlight(rem[f][n])
<1>1. /\ NoStep.step = "idle"
      /\ \A n : [step |-> "create", attempt |-> n].step = "create"
      /\ \A n : [step |-> "create", attempt |-> n].attempt = n
      /\ spawn[f].step = "create" => spawn[f].attempt \in Attempts
  BY DEF SpawnSteps, NoStep
<1>2. CASE RemediationQuiet(f) \/ RemediationJobRecorded(f)
  <2>1. \A n \in Attempts : rem'[f][n].phase = rem[f][n].phase
    BY <1>2 DEF RemediationQuiet, RemediationJobRecorded, SameRuns
  <2>2. spawn'[f] \in {spawn[f], NoStep}
    BY <1>2 DEF RemediationQuiet, RemediationJobRecorded
  <2> QED BY <1>1, <2>1, <2>2 DEF Spawned, Exists, InFlight
<1>3. CASE RemediationCreated(f)
  <2>1. PICK n \in Attempts : /\ spawn[f] = [step |-> "create", attempt |-> n]
                              /\ spawn'[f] = [step |-> "count", attempt |-> n]
                              /\ OnlyRun(rem[f], rem'[f], n)
                              /\ Exists(rem[f][n]) => rem'[f][n].phase = rem[f][n].phase
    BY <1>3 DEF RemediationCreated
  <2>2. Exists(rem[f][n])
    BY <1>1, <2>1 DEF Spawned
  <2> QED BY <2>1, <2>2 DEF OnlyRun, InFlight, Spawned
<1>4. CASE RemediationGranted(f)
  BY <1>1, <1>4 DEF RemediationGranted, OnlyRun, InFlight, Spawned, Exists
<1>5. CASE RemediationEnded(f)
  <2>1. PICK n \in Attempts : /\ OnlyRun(rem[f], rem'[f], n) /\ rem'[f][n].phase \in {"Complete", "Failed"}
                              /\ spawn'[f] = spawn[f]
    BY <1>5 DEF RemediationEnded
  <2> QED BY <1>1, <2>1 DEF OnlyRun, InFlight, Spawned, Exists
<1>6. CASE RemediationStamped(f)
  BY <1>1, <1>6 DEF RemediationStamped, OnlyRun, InFlight, Spawned, Exists
<1>7. CASE RemediationNumbered(f)
  BY <1>1, <1>7 DEF RemediationNumbered, Spawned
<1>8. CASE UNCHANGED <<rem, spawn>>
  BY <1>8 DEF Spawned
<1> QED BY <1>2, <1>3, <1>4, <1>5, <1>6, <1>7, <1>8
     DEF RemediationStep, RemediationDecided, RemediationAdvanced, RemediationTaken,
         RemediationPREnsured, RemediationReported

\* The worker comes to a finding for a run that is Running or Pending, and to
\* record a pull request for one it has stamped.
LEMMA WorkerComes ==
    ASSUME NEW f \in Findings, RemediationStep(f), Handled(f), RemOn(remW', f)
    PROVE  /\ \/ RemOn(remW, f) /\ remW'.n = remW.n
              \/ remW'.n \in Attempts /\ InFlight(rem[f][remW'.n])
           /\ remW'.step = "record" =>
                 RemOn(remW, f) /\ (remW' = remW \/ rem[f][remW.n].phase = "Running")
<1>1. ~RemOn(NoStep, f) /\ NoStep.step = "idle"
  BY DEF RemOn, NoStep
<1>2. CASE remW' = remW
  BY <1>2
<1>3. CASE RemediationGranted(f) \/ RemediationTaken(f)
  BY <1>3 DEF RemediationGranted, RemediationTaken, InFlight
<1>4. CASE RemediationEnded(f)
  BY <1>4 DEF RemediationEnded, InFlight
<1>5. CASE RemediationPREnsured(f) \/ RemediationStamped(f)
  BY <1>1, <1>5 DEF RemediationPREnsured, RemediationStamped, Handled, RemOn
<1> QED BY <1>1, <1>2, <1>3, <1>4, <1>5
     DEF RemediationStep, RemediationQuiet, RemediationDecided, RemediationCreated, RemediationNumbered,
         RemediationAdvanced, RemediationJobRecorded, RemediationReported

Reviewed(f) ==
    /\ fnd[f].phase \in {"Remediating", "InReview", "Remediated"} => Spawned(f)
    /\ fnd[f].phase = "Remediating" =>
          /\ \A n \in Attempts : InFlight(rem[f][n]) => n = fnd[f].activeRun.n
          /\ RemOn(remW, f) => remW.n = fnd[f].activeRun.n
    /\ fnd[f].phase \in {"InReview", "Remediated"} =>
          /\ \A n \in Attempts : ~InFlight(rem[f][n])
          /\ ~(RemOn(remW, f) /\ remW.step = "record")
    /\ fnd[f].phase = "Remediated" => fnd[f].pr \in 1..Len(prs[f]) /\ prs[f][fnd[f].pr] = "merged"

ReviewInv == \A f \in Findings : Reviewed(f)

LEMMA ReviewKept ==
    ASSUME IType, IType', [Next]_vars, FindingInv, FindingInv', RemediationLeases, ReviewInv
    PROVE  ReviewInv'
<1> SUFFICES ASSUME NEW f \in Findings PROVE Reviewed(f)'
  BY DEF ReviewInv
<1>1. /\ Reviewed(f) /\ Recorded(f) /\ Handled(f) /\ RemediationStep(f)
      /\ Leased(rem[f], fnd[f].attRem, spawn[f] # NoStep)
      /\ spawn[f] # NoStep => spawn[f].attempt = fnd[f].attRem + 1
      /\ fnd[f].attRem \in 0..MaxRuns /\ spawn[f] \in SpawnSteps /\ remW \in RemSteps
  BY RemediationSteps, FindingTyped
     DEF ReviewInv, FindingInv, LifeInv, RemediationInv, RemediationLeases, Finding, IType, TypeOK, RemTypeOK
<1>2. /\ ~RemOn(NoStep, f) /\ NoStep.step = "idle"
      /\ RemOn(remW, f) => remW.n \in Attempts
  BY <1>1, RemStepTypes DEF RemOn, NoStep
<1>3. /\ fnd'[f].phase = "Remediating" =>
            \/ fnd[f].phase = "Remediating" /\ fnd'[f].activeRun = fnd[f].activeRun
            \/ RemediationBegun(f)
      /\ fnd'[f].phase = "InReview" =>
            \/ fnd[f].phase = "InReview"
            \/ PullRequestRecorded(f) /\ fnd[f].phase = "Remediating"
      /\ fnd'[f].phase = "Remediated" =>
            \/ fnd[f].phase = "Remediated" /\ (fnd'[f].pr = fnd[f].pr \/ PullRequestRecorded(f))
            \/ fnd[f].phase = "InReview" /\ fnd'[f].pr = fnd[f].pr /\ prs' = prs
                 /\ prs[f][fnd[f].pr] = "merged"
  BY RemediatingSteps DEF FindingInv
<1>4. CASE fnd[f].phase = "Remediating" /\ fnd'[f].phase = "Remediating" /\ fnd'[f].activeRun = fnd[f].activeRun
  <2>1. Spawned(f)' /\ \A n \in Attempts : InFlight(rem'[f][n]) => InFlight(rem[f][n])
    BY <1>1, <1>4, NothingStarts DEF Reviewed
  <2>2. RemOn(remW', f) => remW'.n = fnd[f].activeRun.n
    BY <1>1, <1>4, WorkerComes DEF Reviewed
  <2> QED BY <1>1, <1>4, <2>1, <2>2 DEF Reviewed
<1>5. CASE RemediationBegun(f)
  <2>1. /\ RemOn(remW, f) /\ remW.step = "advance" /\ remW' = NoStep /\ UNCHANGED <<rem, spawn>>
        /\ fnd'[f].phase = "Remediating" /\ fnd'[f].activeRun = [kind |-> "rem", n |-> remW.n]
    BY <1>5 DEF RemediationBegun, RemAdvance, RemOn, NoStep, MovedTo
  <2>2. remW.n \in Attempts /\ InFlight(rem[f][remW.n])
    BY <1>1, <1>2, <2>1 DEF Handled, InFlight
  <2>3. \A n \in Attempts : InFlight(rem[f][n]) => n = remW.n
    BY <1>1, <2>2, LeasedOne
  <2>4. Spawned(f)
    <3> SUFFICES ASSUME spawn[f].step = "create" PROVE Exists(rem[f][spawn[f].attempt])
      BY DEF Spawned
    <3>1. spawn[f] # NoStep
      BY DEF NoStep
    <3>2. remW.n = fnd[f].attRem + 1
      BY <1>1, <2>2, <3>1, MaxRunsAssumption DEF Leased, Attempts
    <3> QED BY <1>1, <2>2, <3>1, <3>2 DEF Exists, InFlight
  <2> QED BY <1>2, <2>1, <2>3, <2>4 DEF Reviewed, Spawned
<1>6. CASE fnd[f].phase \in {"InReview", "Remediated"} /\ fnd'[f].phase \in {"InReview", "Remediated"}
  <2>1. Spawned(f)' /\ \A n \in Attempts : InFlight(rem'[f][n]) => InFlight(rem[f][n])
    BY <1>1, <1>6, NothingStarts DEF Reviewed
  <2>2. ~(RemOn(remW', f) /\ remW'.step = "record")
    <3> SUFFICES ASSUME RemOn(remW', f), remW'.step = "record" PROVE FALSE
      OBVIOUS
    <3>1. RemOn(remW, f) /\ (remW' = remW \/ rem[f][remW.n].phase = "Running")
      BY <1>1, WorkerComes
    <3> QED BY <1>1, <1>2, <1>6, <3>1 DEF Reviewed, InFlight
  <2>3. ~PullRequestRecorded(f)
    BY <1>1, <1>6 DEF PullRequestRecorded, RemRecord, Reviewed, RemOn, NoStep
  <2>4. ASSUME fnd'[f].phase = "Remediated"
        PROVE  fnd'[f].pr \in 1..Len(prs'[f]) /\ prs'[f][fnd'[f].pr] = "merged"
    <3>1. fnd'[f].pr = fnd[f].pr /\ prs[f][fnd[f].pr] = "merged"
      BY <1>1, <1>3, <2>3, <2>4 DEF Reviewed
    <3>2. fnd[f].pr \in 0..Len(prs[f]) /\ fnd'[f].pr \in 0..Len(prs'[f]) /\ prs[f] \in Seq({"open", "closed", "merged"})
      BY DEF IType, TypeOK, ClusterTypeOK
    <3>3. fnd[f].pr > 0
      BY <1>1, <1>6, <3>2 DEF Reviewed, Recorded
    <3> QED BY <3>1, <3>2, <3>3, MergedStays
  <2> QED BY <1>1, <1>6, <2>1, <2>2, <2>4 DEF Reviewed
<1>7. CASE PullRequestRecorded(f) /\ fnd[f].phase = "Remediating" /\ fnd'[f].phase = "InReview"
  <2>1. RemOn(remW, f) /\ remW.step = "record" /\ remW' = NoStep /\ UNCHANGED <<rem, spawn>>
    BY <1>7 DEF PullRequestRecorded, RemRecord, RemOn, NoStep
  <2>2. \A n \in Attempts : ~InFlight(rem[f][n])
    BY <1>1, <1>7, <2>1 DEF Reviewed, Handled, InFlight
  <2> QED BY <1>1, <1>2, <1>7, <2>1, <2>2 DEF Reviewed, Spawned
<1>8. CASE fnd'[f].phase \notin {"Remediating", "InReview", "Remediated"}
  BY <1>8 DEF Reviewed
<1> QED BY <1>3, <1>4, <1>5, <1>6, <1>7, <1>8

LEMMA ReviewInitially == Init => ReviewInv
<1> SUFFICES ASSUME Init, NEW f \in Findings PROVE Reviewed(f)
  BY DEF ReviewInv
<1>1. fnd[f].phase \notin {"Remediating", "InReview", "Remediated"}
  BY FirstFinding, Zenon DEF Absent
<1> QED BY <1>1 DEF Reviewed

\* A Remediated finding's recorded pull request was merged: it is the one the
\* review settled by, and no attempt still running, no reconcile late to record
\* what it pushed, records another over it.  Only a SpawnDecide whose cache
\* misses the latest attempt can undo it: of the two attempts in flight then,
\* the second records its pull request after the first's merge.
THEOREM RemediatedMerged == Spec => ([][SeesLatest]_vars => []RemediatedIsMerged)
<1>1. RemediationLeases /\ IType /\ [Next]_vars /\ [SeesLatest]_vars => RemediationLeases'
  BY RemLeasesKept, Zenon
<1>2. ReviewInv /\ RemediationLeases /\ FindingInv /\ FindingInv' /\ IType /\ IType' /\ [Next]_vars => ReviewInv'
  BY ReviewKept
<1>3. IType /\ ReviewInv => RemediatedIsMerged
  <2> SUFFICES ASSUME ReviewInv, NEW f \in Findings, fnd[f].phase = "Remediated"
               PROVE  fnd[f].pr > 0 /\ prs[f][fnd[f].pr] = "merged"
    BY DEF RemediatedIsMerged
  <2>1. fnd[f].pr \in 1..Len(prs[f]) /\ prs[f][fnd[f].pr] = "merged"
    BY DEF ReviewInv, Reviewed
  <2> QED BY <2>1
<1> QED BY <1>1, <1>2, <1>3, ReviewInitially, RemLeasesInitially, Typed, FindingHolds, PTL DEF Spec

-----------------------------------------------------------------------------
(* The sandbox breaker                                                       *)

RunsOf(k) == IF k = "inv" THEN inv ELSE rem

\* What a step may do to a run's Job: nothing; a launch, on the image Pin
\* picks; its end, which only the repository's image can make a refusal; and
\* its disappearance.
JobMove(k, f, n) ==
    LET old == job[k][f][n]
        new == job'[k][f][n]
    IN \/ new = old
       \/ RunsOf(k)[f][n].phase = "Running" /\ new = [state |-> "running", repoImage |-> Pin(k, f)]
       \/ /\ old.state = "running" /\ new.state # "none" /\ new.repoImage = old.repoImage
          /\ new.state = "refused" => old.repoImage = TRUE
       \/ new.state = "gone" /\ (old.state # "none" \/ Exists(RunsOf(k)[f][n]))

LEMMA JobCreated ==
    ASSUME job \in Jobs, NEW k \in Kinds, NEW f \in Findings, NEW n \in Attempts,
           NEW j \in Kinds, NEW g \in Findings, NEW m \in Attempts,
           CreateJob(j, g, m, Pin(j, g)), RunsOf(j)[g][m].phase = "Running"
    PROVE  JobMove(k, f, n)
<1>1. CASE k = j /\ f = g /\ n = m
  <2>1. \/ job'[k][f][n] = job[k][f][n]
        \/ job'[k][f][n] = [state |-> "running", repoImage |-> Pin(k, f)]
    BY <1>1 DEF CreateJob, Jobs
  <2> QED BY <1>1, <2>1 DEF JobMove
<1>2. CASE ~(k = j /\ f = g /\ n = m)
  <2>1. job'[k][f][n] = job[k][f][n]
    BY <1>2 DEF CreateJob, Jobs
  <2> QED BY <2>1 DEF JobMove
<1> QED BY <1>1, <1>2

LEMMA JobGone ==
    ASSUME job \in Jobs, NEW k \in Kinds, NEW f \in Findings, NEW n \in Attempts,
           NEW j \in Kinds, NEW g \in Findings, NEW m \in Attempts,
           job' = [job EXCEPT ![j][g][m].state = "gone"],
           job[j][g][m].state # "none" \/ Exists(RunsOf(j)[g][m])
    PROVE  JobMove(k, f, n)
<1>1. CASE k = j /\ f = g /\ n = m
  <2>1. job'[k][f][n].state = "gone"
    BY <1>1 DEF Jobs, Job
  <2> QED BY <1>1, <2>1 DEF JobMove
<1>2. CASE ~(k = j /\ f = g /\ n = m)
  <2>1. job'[k][f][n] = job[k][f][n]
    BY <1>2 DEF Jobs
  <2> QED BY <2>1 DEF JobMove
<1> QED BY <1>1, <1>2

LEMMA JobSteps ==
    ASSUME IType, [Next]_vars, FindingInv, NEW k \in Kinds, NEW f \in Findings, NEW n \in Attempts
    PROVE  JobMove(k, f, n)
<1>1. job \in Jobs /\ invW \in InvSteps /\ remW \in RemSteps
  BY DEF IType, TypeOK, ClusterTypeOK, InvTypeOK, RemTypeOK, Jobs
<1>2. ASSUME job' = job PROVE JobMove(k, f, n)
  BY <1>2 DEF JobMove
<1>3. CASE Investigate
  <2>1. ASSUME NEW g \in Findings, GateAdmit(g) \/ GateCreate(g) \/ GateAdvance(g) \/ GatePark(g) \/ GateRetryRevert(g)
        PROVE  job' = job
    BY <2>1 DEF GateAdmit, GateCreate, GateAdvance, GatePark, GateRetryRevert, cluster
  <2>2. ASSUME NEW g \in Findings, NEW m \in Attempts, \/ InvGrant(g, m) \/ InvFail(g, m)
                                                        \/ InvSandboxRefused(g, m) \/ InvApply(g, m)
        PROVE  job' = job
    BY <2>2 DEF InvGrant, InvFail, InvSandboxRefused, InvApply
  <2>3. ASSUME NEW g \in Findings, NEW m \in Attempts, InvLaunch(g, m)
        PROVE  JobMove(k, f, n)
    <3>1. CreateJob("inv", g, m, Pin("inv", g)) /\ RunsOf("inv")[g][m].phase = "Running" /\ "inv" \in Kinds
      BY <2>3 DEF InvLaunch, RunsOf, Kinds
    <3> QED BY <1>1, <3>1, JobCreated
  <2>4. CASE InvRecordJob \/ InvRoute
    BY <1>2, <2>4 DEF InvRecordJob, InvRoute
  <2>5. CASE InvRelease
    <3>1. CASE job' = job
      BY <1>2, <3>1
    <3>2. CASE job' = [job EXCEPT !["inv"][invW.f][invW.n].state = "gone"]
      <4>1. invW.f \in Findings /\ invW.n \in Attempts /\ Reporting(invW, invW.f, invW.n)
        BY <1>1, <2>5, InvStepTypes DEF InvRelease, Reporting, Idle
      <4>2. Exists(RunsOf("inv")[invW.f][invW.n]) /\ "inv" \in Kinds
        BY <4>1 DEF FindingInv, InvestigationInv, Investigated, OneBusy, Settled, Exists, RunsOf, Kinds
      <4> QED BY <1>1, <3>2, <4>1, <4>2, JobGone
    <3> QED BY <2>5, <3>1, <3>2 DEF InvRelease
  <2> QED BY <1>2, <1>3, <2>1, <2>2, <2>3, <2>4, <2>5 DEF Investigate, InvNext
<1>4. CASE Remediate
  <2>1. ASSUME NEW g \in Findings, \/ SpawnAdmit(g) \/ SpawnRevive(g) \/ SpawnRetryAdmit(g)
                                   \/ SpawnDecide(g) \/ SpawnCreate(g) \/ SpawnCount(g)
        PROVE  job' = job
    BY <2>1 DEF SpawnAdmit, SpawnRevive, SpawnRetryAdmit, SpawnDecide, SpawnCreate, SpawnCount, cluster
  <2>2. ASSUME NEW g \in Findings, NEW m \in Attempts,
               \/ Observe(g, m) \/ RemGrant(g, m) \/ RemHoldForImage(g, m)
               \/ RemFail(g, m) \/ RemSandboxRefused(g, m) \/ RemHandOff(g, m) \/ RemPush(g, m)
        PROVE  job' = job
    BY <2>2 DEF Observe, RemGrant, RemHoldForImage, RemFail, RemSandboxRefused, RemHandOff, RemPush, cluster
  <2>3. ASSUME NEW g \in Findings, NEW m \in Attempts, RemLaunch(g, m)
        PROVE  JobMove(k, f, n)
    <3>1. CreateJob("rem", g, m, Pin("rem", g)) /\ RunsOf("rem")[g][m].phase = "Running" /\ "rem" \in Kinds
      BY <2>3 DEF RemLaunch, Launchable, RunsOf, Kinds
    <3> QED BY <1>1, <3>1, JobCreated
  <2>4. CASE RemAdvance \/ RemRecordJob \/ RemEnsurePR \/ RemStamp \/ RemRecord
    BY <1>2, <2>4 DEF RemAdvance, RemRecordJob, RemEnsurePR, RemStamp, RemRecord
  <2>5. CASE RemFinish
    <3>1. CASE job' = job
      BY <1>2, <3>1
    <3>2. CASE job' = [job EXCEPT !["rem"][remW.f][remW.n].state = "gone"]
      <4>1. remW.f \in Findings /\ remW.n \in Attempts /\ RemOn(remW, remW.f) /\ remW.step = "finish"
        BY <1>1, <2>5, RemStepTypes DEF RemFinish, RemOn, NoStep
      <4>2. Exists(RunsOf("rem")[remW.f][remW.n]) /\ "rem" \in Kinds
        BY <4>1 DEF FindingInv, RemediationInv, Handled, Settled, Exists, RunsOf, Kinds
      <4> QED BY <1>1, <3>2, <4>1, <4>2, JobGone
    <3> QED BY <2>5, <3>1, <3>2 DEF RemFinish
  <2> QED BY <1>2, <1>4, <2>1, <2>2, <2>3, <2>4, <2>5 DEF Remediate, RemNext
<1>5. CASE Integrate
  BY <1>2, <1>5 DEF Integrate, IntegrationNext, Ingest, Enhance, SettleReview, DeliverPR, others
<1>6. CASE People
  <2>1. ASSUME NEW g \in Findings, \/ CloseIssue(g) \/ ReopenIssue(g) \/ Approve(g) \/ Retry(g)
                                   \/ Suspend(g) \/ Resume(g) \/ \E i \in DOMAIN prs[g] : ReviewPR(g, i)
        PROVE  job' = job
    BY <2>1 DEF CloseIssue, ReopenIssue, Approve, Retry, Suspend, Resume, Ask, others, ReviewPR
  <2> QED BY <1>2, <1>6, <2>1 DEF People, PeopleNext
<1>7. CASE Agents
  <2>1. PICK j \in Kinds, g \in Findings, m \in Attempts : JobEnds(j, g, m) \/ JobVanishes(j, g, m)
    BY <1>7 DEF Agents
  <2>2. CASE JobVanishes(j, g, m)
    BY <1>1, <2>2, JobGone DEF JobVanishes
  <2>3. CASE JobEnds(j, g, m)
    <3>1. PICK end \in (IF j = "inv" THEN InvEnds ELSE RemEnds)
                           \cup (IF job[j][g][m].repoImage THEN {"refused", "pullFailed"} ELSE {}) :
             job' = [job EXCEPT ![j][g][m].state = end]
      BY <2>3 DEF JobEnds
    <3>2. job[j][g][m].repoImage \in BOOLEAN /\ job[j][g][m].state = "running"
      BY <1>1, <2>3 DEF JobEnds, Jobs, Job
    <3>3. end # "none" /\ (end = "refused" => job[j][g][m].repoImage = TRUE)
      BY <3>1, <3>2 DEF InvEnds, RemEnds
    <3>4. CASE k = j /\ f = g /\ n = m
      <4>1. job'[k][f][n].state = end /\ job'[k][f][n].repoImage = job[k][f][n].repoImage
        BY <1>1, <3>1, <3>4 DEF Jobs, Job
      <4> QED BY <3>2, <3>3, <3>4, <4>1 DEF JobMove
    <3>5. CASE ~(k = j /\ f = g /\ n = m)
      <4>1. job'[k][f][n] = job[k][f][n]
        BY <1>1, <3>1, <3>5 DEF Jobs
      <4> QED BY <4>1 DEF JobMove
    <3> QED BY <3>4, <3>5
  <2> QED BY <2>1, <2>2, <2>3
<1>8. CASE Faults \/ UNCHANGED vars
  BY <1>2, <1>8 DEF Faults, InvFault, InvError, InvRestart, GateError, RemFault, RemError, RemRestart,
                   SpawnError, vars, cluster
<1> QED BY <1>3, <1>4, <1>5, <1>6, <1>7, <1>8 DEF Next

\* A run's agent is refused by the sandbox probe, and the breaker trips.
Refusing(k, f) ==
    \E n \in Attempts :
        /\ RunsOf(k)[f][n].phase = "Running" /\ job[k][f][n].state = "refused"
        /\ OnlyRun(RunsOf(k)[f], RunsOf(k)'[f], n) /\ RunsOf(k)'[f][n].phase = "Failed"
        /\ breaker'[k] = TRUE /\ UNCHANGED <<job, faults>>

\* The breaker is reset by a fault only.
BreakerMove(k) ==
    \/ breaker'[k] \in {breaker[k], TRUE} /\ faults' = faults
    \/ faults' = faults + 1

LEMMA BreakerSteps ==
    ASSUME IType, [Next]_vars, NEW k \in Kinds
    PROVE  BreakerMove(k)
<1>1. breaker \in [Kinds -> BOOLEAN] /\ faults \in Nat
  BY MaxFaultsAssumption DEF IType, TypeOK, ClusterTypeOK
<1>2. ASSUME UNCHANGED <<breaker, faults>> PROVE BreakerMove(k)
  BY <1>2 DEF BreakerMove
<1>3. CASE Investigate
  <2>1. ASSUME NEW g \in Findings, GateAdmit(g) \/ GateCreate(g) \/ GateAdvance(g) \/ GatePark(g) \/ GateRetryRevert(g)
        PROVE  UNCHANGED <<breaker, faults>>
    BY <2>1 DEF GateAdmit, GateCreate, GateAdvance, GatePark, GateRetryRevert, cluster
  <2>2. ASSUME NEW g \in Findings, NEW m \in Attempts, InvGrant(g, m) \/ InvLaunch(g, m) \/ InvFail(g, m) \/ InvApply(g, m)
        PROVE  UNCHANGED <<breaker, faults>>
    BY <2>2 DEF InvGrant, InvLaunch, InvFail, InvApply
  <2>3. ASSUME NEW g \in Findings, NEW m \in Attempts, InvSandboxRefused(g, m) PROVE BreakerMove(k)
    BY <1>1, <2>3 DEF InvSandboxRefused, BreakerMove, Kinds
  <2>4. CASE InvRecordJob \/ InvRelease \/ InvRoute
    BY <1>2, <2>4 DEF InvRecordJob, InvRelease, InvRoute
  <2> QED BY <1>2, <1>3, <2>1, <2>2, <2>3, <2>4 DEF Investigate, InvNext
<1>4. CASE Remediate
  <2>1. ASSUME NEW g \in Findings, \/ SpawnAdmit(g) \/ SpawnRevive(g) \/ SpawnRetryAdmit(g)
                                   \/ SpawnDecide(g) \/ SpawnCreate(g) \/ SpawnCount(g)
        PROVE  UNCHANGED <<breaker, faults>>
    BY <2>1 DEF SpawnAdmit, SpawnRevive, SpawnRetryAdmit, SpawnDecide, SpawnCreate, SpawnCount, cluster
  <2>2. ASSUME NEW g \in Findings, NEW m \in Attempts,
               \/ Observe(g, m) \/ RemGrant(g, m) \/ RemLaunch(g, m) \/ RemHoldForImage(g, m)
               \/ RemFail(g, m) \/ RemHandOff(g, m) \/ RemPush(g, m)
        PROVE  UNCHANGED <<breaker, faults>>
    BY <2>2 DEF Observe, RemGrant, RemLaunch, RemHoldForImage, RemFail, RemHandOff, RemPush, cluster
  <2>3. ASSUME NEW g \in Findings, NEW m \in Attempts, RemSandboxRefused(g, m) PROVE BreakerMove(k)
    BY <1>1, <2>3 DEF RemSandboxRefused, BreakerMove, Kinds
  <2>4. CASE RemAdvance \/ RemRecordJob \/ RemEnsurePR \/ RemStamp \/ RemRecord \/ RemFinish
    BY <1>2, <2>4 DEF RemAdvance, RemRecordJob, RemEnsurePR, RemStamp, RemRecord, RemFinish
  <2> QED BY <1>2, <1>4, <2>1, <2>2, <2>3, <2>4 DEF Remediate, RemNext
<1>5. CASE Faults
  BY <1>5 DEF Faults, InvFault, InvError, InvRestart, GateError, RemFault, RemError, RemRestart, SpawnError, BreakerMove
<1>6. CASE Integrate
  BY <1>2, <1>6 DEF Integrate, IntegrationNext, Ingest, Enhance, SettleReview, DeliverPR, others
<1>7. CASE People
  <2>1. ASSUME NEW g \in Findings, \/ CloseIssue(g) \/ ReopenIssue(g) \/ Approve(g) \/ Retry(g)
                                   \/ Suspend(g) \/ Resume(g) \/ \E i \in DOMAIN prs[g] : ReviewPR(g, i)
        PROVE  UNCHANGED <<breaker, faults>>
    BY <2>1 DEF CloseIssue, ReopenIssue, Approve, Retry, Suspend, Resume, Ask, others, ReviewPR
  <2> QED BY <1>2, <1>7, <2>1 DEF People, PeopleNext
<1>8. CASE Agents \/ UNCHANGED vars
  BY <1>2, <1>8 DEF Agents, JobEnds, JobVanishes, vars, cluster
<1> QED BY <1>3, <1>4, <1>5, <1>6, <1>7, <1>8 DEF Next

\* What the controllers' writes of a run leave alone.
Kept(old, new) ==
    \A n \in Attempts : /\ new[n].refused = old[n].refused
                        /\ Exists(old[n]) => Exists(new[n])
                        /\ InFlight(new[n]) => InFlight(old[n]) \/ ~Exists(old[n])

LEMMA PhaseWritten ==
    ASSUME NEW runs \in Runs, NEW f \in Findings, NEW g \in Findings, NEW n \in Attempts,
           NEW phase, phase \in {"Pending", "Running", "Complete", "Failed"},
           NEW next, next = [runs EXCEPT ![g][n].phase = phase],
           phase \in {"Complete", "Failed"} \/ InFlight(runs[g][n]) \/ ~Exists(runs[g][n])
    PROVE  Kept(runs[f], next[f])
<1>1. runs[g][n] \in Run
  BY DEF Runs
<1> QED BY <1>1 DEF Kept, Exists, InFlight, Runs, Run

LEMMA HoldWritten ==
    ASSUME NEW runs \in Runs, NEW f \in Findings, NEW g \in Findings, NEW n \in Attempts,
           NEW next, next = [runs EXCEPT ![g][n].phase = "Failed", ![g][n].held = TRUE]
    PROVE  Kept(runs[f], next[f])
<1>1. runs[g][n] \in Run
  BY DEF Runs
<1> QED BY <1>1 DEF Kept, Exists, InFlight, Runs, Run

LEMMA JobRefWritten ==
    ASSUME NEW runs \in Runs, NEW f \in Findings, NEW g \in Findings, NEW n \in Attempts, NEW b,
           NEW next, next = [runs EXCEPT ![g][n].jobRef = TRUE, ![g][n].repoImage = b]
    PROVE  Kept(runs[f], next[f])
<1>1. runs[g][n] \in Run
  BY DEF Runs
<1> QED BY <1>1 DEF Kept, Exists, InFlight, Runs, Run

LEMMA RefusalWritten ==
    ASSUME NEW runs \in Runs, NEW f \in Findings, NEW n \in Attempts,
           NEW next, next = [runs EXCEPT ![f][n].phase = "Failed", ![f][n].refused = TRUE]
    PROVE  OnlyRun(runs[f], next[f], n) /\ next[f][n].phase = "Failed"
<1>1. runs[f][n] \in Run
  BY DEF Runs
<1> QED BY <1>1 DEF OnlyRun, Runs, Run

LEMMA InvestigationRefusals ==
    ASSUME IType, [Next]_vars, NEW f \in Findings
    PROVE  Refusing("inv", f) \/ Kept(inv[f], inv'[f])
<1>1. inv \in Runs /\ job \in Jobs /\ invW \in InvSteps /\ gate \in [Findings -> GateSteps] /\ breaker \in [Kinds -> BOOLEAN]
  BY DEF IType, TypeOK, ClusterTypeOK, InvTypeOK, Runs, Jobs
<1>2. ASSUME inv' = inv PROVE Kept(inv[f], inv'[f])
  BY <1>2 DEF Kept
<1>3. CASE Investigate
  <2>1. ASSUME NEW g \in Findings, GateAdmit(g) \/ GateAdvance(g) \/ GatePark(g) \/ GateRetryRevert(g)
        PROVE  inv' = inv
    BY <2>1 DEF GateAdmit, GateAdvance, GatePark, GateRetryRevert, cluster
  <2>2. ASSUME NEW g \in Findings, GateCreate(g) PROVE Kept(inv[f], inv'[f])
    <3>1. gate[g].attempt \in Attempts
      BY <1>1, <2>2, GateStepTypes DEF GateCreate
    <3>2. CASE inv' = inv
      BY <1>2, <3>2
    <3>3. CASE ~Exists(inv[g][gate[g].attempt]) /\ inv' = [inv EXCEPT ![g][gate[g].attempt].phase = "Pending"]
      BY <1>1, <3>1, <3>3, PhaseWritten, Zenon
    <3> QED BY <2>2, <3>2, <3>3 DEF GateCreate, Exists
  <2>3. ASSUME NEW g \in Findings, NEW m \in Attempts, InvGrant(g, m) PROVE Kept(inv[f], inv'[f])
    <3>1. InFlight(inv[g][m]) /\ inv' = [inv EXCEPT ![g][m].phase = "Running"]
      BY <2>3 DEF InvGrant, InFlight
    <3> QED BY <1>1, <3>1, PhaseWritten, Zenon
  <2>4. ASSUME NEW g \in Findings, NEW m \in Attempts, InvLaunch(g, m) PROVE inv' = inv
    BY <2>4 DEF InvLaunch
  <2>5. ASSUME NEW g \in Findings, NEW m \in Attempts, InvFail(g, m) \/ InvApply(g, m)
        PROVE  Kept(inv[f], inv'[f])
    <3>1. \E phase \in {"Complete", "Failed"} : inv' = [inv EXCEPT ![g][m].phase = phase]
      BY <2>5 DEF InvFail, InvApply, InvStamp
    <3> QED BY <1>1, <3>1, PhaseWritten, Zenon
  <2>6. ASSUME NEW g \in Findings, NEW m \in Attempts, InvSandboxRefused(g, m)
        PROVE  Refusing("inv", f) \/ Kept(inv[f], inv'[f])
    <3>1. inv' = [inv EXCEPT ![g][m].phase = "Failed", ![g][m].refused = TRUE]
      BY <2>6 DEF InvSandboxRefused
    <3>2. CASE f # g
      <4>1. inv'[f] = inv[f]
        BY <1>1, <3>1, <3>2 DEF Runs
      <4> QED BY <4>1 DEF Kept
    <3>3. CASE f = g
      <4>1. OnlyRun(inv[f], inv'[f], m) /\ inv'[f][m].phase = "Failed"
        BY <1>1, <3>1, <3>3, RefusalWritten, Zenon
      <4>2. breaker'["inv"] = TRUE /\ UNCHANGED <<job, faults>>
        BY <1>1, <2>6 DEF InvSandboxRefused, Kinds
      <4>3. inv[f][m].phase = "Running" /\ job["inv"][f][m].state = "refused"
        BY <2>6, <3>3 DEF InvSandboxRefused, InvCollectable
      <4> QED BY <4>1, <4>2, <4>3 DEF Refusing, RunsOf
    <3> QED BY <3>2, <3>3
  <2>7. CASE InvRecordJob
    <3>1. invW.f \in Findings /\ invW.n \in Attempts
      BY <1>1, <2>7, InvStepTypes DEF InvRecordJob, Idle
    <3>2. inv' = [inv EXCEPT ![invW.f][invW.n].jobRef = TRUE,
                          ![invW.f][invW.n].repoImage = job["inv"][invW.f][invW.n].repoImage]
      BY <2>7 DEF InvRecordJob
    <3> QED BY <1>1, <3>1, <3>2, JobRefWritten, Zenon
  <2>8. CASE InvRelease \/ InvRoute
    BY <1>2, <2>8 DEF InvRelease, InvRoute
  <2> QED BY <1>2, <1>3, <2>1, <2>2, <2>3, <2>4, <2>5, <2>6, <2>7, <2>8 DEF Investigate, InvNext
<1>4. CASE Remediate
  <2>1. ASSUME NEW g \in Findings, \/ SpawnAdmit(g) \/ SpawnRevive(g) \/ SpawnRetryAdmit(g)
                                   \/ SpawnDecide(g) \/ SpawnCreate(g) \/ SpawnCount(g)
        PROVE  inv' = inv
    BY <2>1 DEF SpawnAdmit, SpawnRevive, SpawnRetryAdmit, SpawnDecide, SpawnCreate, SpawnCount, cluster
  <2>2. ASSUME NEW g \in Findings, NEW m \in Attempts,
               \/ Observe(g, m) \/ RemGrant(g, m) \/ RemLaunch(g, m) \/ RemHoldForImage(g, m)
               \/ RemFail(g, m) \/ RemSandboxRefused(g, m) \/ RemHandOff(g, m) \/ RemPush(g, m)
        PROVE  inv' = inv
    BY <2>2 DEF Observe, RemGrant, RemLaunch, RemHoldForImage, RemFail, RemSandboxRefused, RemHandOff, RemPush, cluster
  <2>3. CASE RemAdvance \/ RemRecordJob \/ RemEnsurePR \/ RemStamp \/ RemRecord \/ RemFinish
    BY <1>2, <2>3 DEF RemAdvance, RemRecordJob, RemEnsurePR, RemStamp, RemRecord, RemFinish
  <2> QED BY <1>2, <1>4, <2>1, <2>2, <2>3 DEF Remediate, RemNext
<1>5. CASE Integrate \/ People \/ Agents \/ Faults \/ UNCHANGED vars
  BY <1>2, <1>5, RunsKept
<1> QED BY <1>3, <1>4, <1>5 DEF Next

LEMMA RemediationRefusals ==
    ASSUME IType, [Next]_vars, NEW f \in Findings
    PROVE  Refusing("rem", f) \/ Kept(rem[f], rem'[f])
<1>1. rem \in Runs /\ job \in Jobs /\ remW \in RemSteps /\ spawn \in [Findings -> SpawnSteps] /\ breaker \in [Kinds -> BOOLEAN]
  BY DEF IType, TypeOK, ClusterTypeOK, RemTypeOK, Runs, Jobs
<1>2. ASSUME rem' = rem PROVE Kept(rem[f], rem'[f])
  BY <1>2 DEF Kept
<1>3. CASE Remediate
  <2>1. ASSUME NEW g \in Findings, \/ SpawnAdmit(g) \/ SpawnRevive(g) \/ SpawnRetryAdmit(g)
                                   \/ SpawnDecide(g) \/ SpawnCount(g)
        PROVE  rem' = rem
    BY <2>1 DEF SpawnAdmit, SpawnRevive, SpawnRetryAdmit, SpawnDecide, SpawnCount, cluster
  <2>2. ASSUME NEW g \in Findings, SpawnCreate(g) PROVE Kept(rem[f], rem'[f])
    <3>1. spawn[g].attempt \in Attempts
      BY <1>1, <2>2, SpawnStepTypes DEF SpawnCreate
    <3>2. CASE rem' = rem
      BY <1>2, <3>2
    <3>3. CASE ~Exists(rem[g][spawn[g].attempt]) /\ rem' = [rem EXCEPT ![g][spawn[g].attempt].phase = "Pending"]
      BY <1>1, <3>1, <3>3, PhaseWritten, Zenon
    <3> QED BY <2>2, <3>2, <3>3 DEF SpawnCreate, Exists
  <2>3. ASSUME NEW g \in Findings, NEW m \in Attempts, RemGrant(g, m) PROVE Kept(rem[f], rem'[f])
    <3>1. InFlight(rem[g][m]) /\ rem' = [rem EXCEPT ![g][m].phase = "Running"]
      BY <2>3 DEF RemGrant, InFlight
    <3> QED BY <1>1, <3>1, PhaseWritten, Zenon
  <2>4. ASSUME NEW g \in Findings, NEW m \in Attempts, Observe(g, m) \/ RemLaunch(g, m) \/ RemPush(g, m)
        PROVE  rem' = rem
    BY <2>4 DEF Observe, RemLaunch, RemPush, cluster
  <2>5. ASSUME NEW g \in Findings, NEW m \in Attempts, RemFail(g, m) \/ RemHandOff(g, m) \/ RemHoldForImage(g, m)
        PROVE  Kept(rem[f], rem'[f])
    <3>1. CASE RemFail(g, m) \/ RemHandOff(g, m)
      <4>1. \E phase \in {"Complete", "Failed"} : rem' = [rem EXCEPT ![g][m].phase = phase]
        BY <3>1 DEF RemFail, RemHandOff
      <4> QED BY <1>1, <4>1, PhaseWritten, Zenon
    <3>2. CASE RemHoldForImage(g, m)
      <4>1. rem' = [rem EXCEPT ![g][m].phase = "Failed", ![g][m].held = TRUE]
        BY <3>2 DEF RemHoldForImage
      <4> QED BY <1>1, <4>1, HoldWritten
    <3> QED BY <2>5, <3>1, <3>2
  <2>6. ASSUME NEW g \in Findings, NEW m \in Attempts, RemSandboxRefused(g, m)
        PROVE  Refusing("rem", f) \/ Kept(rem[f], rem'[f])
    <3>1. rem' = [rem EXCEPT ![g][m].phase = "Failed", ![g][m].refused = TRUE]
      BY <2>6 DEF RemSandboxRefused
    <3>2. CASE f # g
      <4>1. rem'[f] = rem[f]
        BY <1>1, <3>1, <3>2 DEF Runs
      <4> QED BY <4>1 DEF Kept
    <3>3. CASE f = g
      <4>1. OnlyRun(rem[f], rem'[f], m) /\ rem'[f][m].phase = "Failed"
        BY <1>1, <3>1, <3>3, RefusalWritten, Zenon
      <4>2. breaker'["rem"] = TRUE /\ UNCHANGED <<job, faults>>
        BY <1>1, <2>6 DEF RemSandboxRefused, Kinds
      <4>3. rem[f][m].phase = "Running" /\ job["rem"][f][m].state = "refused"
        BY <2>6, <3>3 DEF RemSandboxRefused, Collectable
      <4> QED BY <4>1, <4>2, <4>3 DEF Refusing, RunsOf
    <3> QED BY <3>2, <3>3
  <2>7. CASE RemRecordJob \/ RemStamp
    <3>1. remW.f \in Findings /\ remW.n \in Attempts
      BY <1>1, <2>7, RemStepTypes DEF RemRecordJob, RemStamp, NoStep
    <3>2. CASE RemRecordJob
      <4>1. rem' = [rem EXCEPT ![remW.f][remW.n].jobRef = TRUE,
                          ![remW.f][remW.n].repoImage = job["rem"][remW.f][remW.n].repoImage]
        BY <3>2 DEF RemRecordJob
      <4> QED BY <1>1, <3>1, <4>1, JobRefWritten, Zenon
    <3>3. CASE RemStamp
      <4>1. rem' = [rem EXCEPT ![remW.f][remW.n].phase = "Complete"]
        BY <3>3 DEF RemStamp
      <4> QED BY <1>1, <3>1, <4>1, PhaseWritten, Zenon
    <3> QED BY <2>7, <3>2, <3>3
  <2>8. CASE RemAdvance \/ RemEnsurePR \/ RemRecord \/ RemFinish
    BY <1>2, <2>8 DEF RemAdvance, RemEnsurePR, RemRecord, RemFinish
  <2> QED BY <1>2, <1>3, <2>1, <2>2, <2>3, <2>4, <2>5, <2>6, <2>7, <2>8 DEF Remediate, RemNext
<1>4. CASE Investigate
  <2>1. ASSUME NEW g \in Findings, GateAdmit(g) \/ GateCreate(g) \/ GateAdvance(g) \/ GatePark(g) \/ GateRetryRevert(g)
        PROVE  rem' = rem
    BY <2>1 DEF GateAdmit, GateCreate, GateAdvance, GatePark, GateRetryRevert, cluster
  <2>2. ASSUME NEW g \in Findings, NEW m \in Attempts, \/ InvGrant(g, m) \/ InvLaunch(g, m) \/ InvFail(g, m)
                                                        \/ InvSandboxRefused(g, m) \/ InvApply(g, m)
        PROVE  rem' = rem
    BY <2>2 DEF InvGrant, InvLaunch, InvFail, InvSandboxRefused, InvApply
  <2>3. CASE InvRecordJob \/ InvRelease \/ InvRoute
    BY <1>2, <2>3 DEF InvRecordJob, InvRelease, InvRoute
  <2> QED BY <1>2, <1>4, <2>1, <2>2, <2>3 DEF Investigate, InvNext
<1>5. CASE Integrate \/ People \/ Agents \/ Faults \/ UNCHANGED vars
  BY <1>2, <1>5, RunsKept
<1> QED BY <1>3, <1>4, <1>5 DEF Next

LEMMA RefusalSteps ==
    ASSUME IType, [Next]_vars, NEW k \in Kinds, NEW f \in Findings
    PROVE  Refusing(k, f) \/ Kept(RunsOf(k)[f], RunsOf(k)'[f])
<1>1. CASE k = "inv"
  BY <1>1, InvestigationRefusals DEF RunsOf
<1>2. CASE k = "rem"
  BY <1>2, RemediationRefusals DEF RunsOf
<1> QED BY <1>1, <1>2 DEF Kinds

\* The finding's attempts the sandbox probe refused.
RefusedRuns(k, f) == {n \in Attempts : RunsOf(k)[f][n].refused = TRUE}

\* A Job that a refusal may come of.
Refusable(j) == j.repoImage = TRUE /\ j.state \in {"running", "refused"}

\* A run exists before its Job; while the breaker is untripped, and while a Job
\* of an unsettled run may still be refused, the refusals are no more than the
\* faults that reset the breaker.
Broken(k, f) ==
    /\ \A n \in Attempts : /\ job[k][f][n].state # "none" => Exists(RunsOf(k)[f][n])
                           /\ job[k][f][n].state = "refused" => job[k][f][n].repoImage = TRUE
    /\ Cardinality(RefusedRuns(k, f)) <= faults + 1
    /\ breaker[k] = FALSE => Cardinality(RefusedRuns(k, f)) <= faults
    /\ \A n \in Attempts : InFlight(RunsOf(k)[f][n]) /\ Refusable(job[k][f][n]) =>
          Cardinality(RefusedRuns(k, f)) <= faults

BreakerInv == \A k \in Kinds, f \in Findings : Broken(k, f)

LEMMA RefusedFinite ==
    ASSUME NEW k, NEW f
    PROVE  IsFiniteSet(RefusedRuns(k, f)) /\ Cardinality(RefusedRuns(k, f)) \in Nat
<1>1. IsFiniteSet(Attempts) /\ RefusedRuns(k, f) \in SUBSET Attempts
  BY MaxRunsAssumption, FS_Interval DEF Attempts, RefusedRuns
<1> QED BY <1>1, FS_Subset, FS_CardinalityType

\* The Jobs a refusal may come of, after a step that refuses none: those it
\* could come of before, and one launched while the breaker was untripped.
LEMMA RefusableJobs ==
    ASSUME NEW k \in Kinds, NEW f \in Findings, NEW n \in Attempts, JobMove(k, f, n),
           breaker[k] \in BOOLEAN, Refusable(job'[k][f][n])
    PROVE  Refusable(job[k][f][n]) \/ (breaker[k] = FALSE /\ RunsOf(k)[f][n].phase = "Running")
<1> DEFINE old == job[k][f][n]
           new == job'[k][f][n]
<1>1. CASE RunsOf(k)[f][n].phase = "Running" /\ new = [state |-> "running", repoImage |-> Pin(k, f)]
  <2>1. Pin(k, f)
    BY <1>1 DEF Refusable
  <2> QED BY <1>1, <2>1 DEF Pin
<1>2. CASE new = old
  BY <1>2
<1>3. CASE /\ old.state = "running" /\ new.state # "none" /\ new.repoImage = old.repoImage
           /\ new.state = "refused" => old.repoImage = TRUE
  BY <1>3 DEF Refusable
<1>4. CASE new.state = "gone"
  BY <1>4 DEF Refusable
<1> QED BY <1>1, <1>2, <1>3, <1>4 DEF JobMove

LEMMA BrokenKept ==
    ASSUME IType, IType', [Next]_vars, FindingInv, NEW k \in Kinds, NEW f \in Findings, Broken(k, f),
           \A m, n \in Attempts : InFlight(RunsOf(k)[f][m]) /\ InFlight(RunsOf(k)[f][n]) => m = n
    PROVE  Broken(k, f)'
<1> DEFINE runs == RunsOf(k)[f]
           next == RunsOf(k)'[f]
           count == Cardinality(RefusedRuns(k, f))
           count1 == Cardinality(RefusedRuns(k, f)')
<1>1. /\ breaker[k] \in BOOLEAN /\ faults \in Nat /\ faults' \in Nat
      /\ BreakerMove(k) /\ \A n \in Attempts : JobMove(k, f, n)
  BY BreakerSteps, JobSteps, MaxFaultsAssumption DEF IType, TypeOK, ClusterTypeOK
<1>2. IsFiniteSet(RefusedRuns(k, f)) /\ count \in Nat
  BY RefusedFinite
<1>3. /\ \A n \in Attempts : /\ job[k][f][n].state # "none" => Exists(runs[n])
                             /\ job[k][f][n].state = "refused" => job[k][f][n].repoImage = TRUE
      /\ count <= faults + 1 /\ (breaker[k] = FALSE => count <= faults)
      /\ \A n \in Attempts : InFlight(runs[n]) /\ Refusable(job[k][f][n]) => count <= faults
  BY DEF Broken
<1>4. RefusedRuns(k, f)' = {n \in Attempts : next[n].refused = TRUE}
  BY DEF RefusedRuns
<1>5. RefusedRuns(k, f) = {n \in Attempts : runs[n].refused = TRUE}
  BY DEF RefusedRuns
<1>6. SUFFICES /\ \A n \in Attempts : /\ job'[k][f][n].state # "none" => Exists(next[n])
                                      /\ job'[k][f][n].state = "refused" => job'[k][f][n].repoImage = TRUE
               /\ count1 <= faults' + 1 /\ (breaker'[k] = FALSE => count1 <= faults')
               /\ \A n \in Attempts : InFlight(next[n]) /\ Refusable(job'[k][f][n]) => count1 <= faults'
  BY DEF Broken
<1>7. CASE Refusing(k, f)
  <2>1. PICK n \in Attempts :
           /\ runs[n].phase = "Running" /\ job[k][f][n].state = "refused"
           /\ OnlyRun(runs, next, n) /\ next[n].phase = "Failed"
           /\ breaker'[k] = TRUE /\ UNCHANGED <<job, faults>>
    BY <1>7 DEF Refusing
  <2> HIDE DEF runs, next
  <2>2. InFlight(runs[n]) /\ Refusable(job[k][f][n])
    BY <1>3, <2>1 DEF InFlight, Refusable
  <2>3. count <= faults
    BY <1>3, <2>2
  <2>4. count1 <= count + 1
    <3>1. RefusedRuns(k, f)' \in SUBSET (RefusedRuns(k, f) \cup {n})
      BY <1>4, <1>5, <2>1 DEF OnlyRun
    <3>2. IsFiniteSet(RefusedRuns(k, f) \cup {n}) /\ Cardinality(RefusedRuns(k, f) \cup {n}) \in {count, count + 1}
      BY <1>2, FS_AddElement
    <3>3. /\ IsFiniteSet(RefusedRuns(k, f)')
          /\ Cardinality(RefusedRuns(k, f)') <= Cardinality(RefusedRuns(k, f) \cup {n})
          /\ Cardinality(RefusedRuns(k, f)') \in Nat
      BY <3>1, <3>2, FS_Subset, FS_CardinalityType
    <3> QED BY <1>2, <3>2, <3>3
  <2>5. count1 \in Nat
    <3>1. IsFiniteSet(Attempts) /\ RefusedRuns(k, f)' \in SUBSET Attempts
      BY <1>4, MaxRunsAssumption, FS_Interval DEF Attempts
    <3> QED BY <3>1, FS_Subset, FS_CardinalityType
  <2>6. \A m \in Attempts : ~InFlight(next[m])
    BY <2>1, <2>2 DEF OnlyRun, InFlight, runs
  <2>7. \A m \in Attempts : Exists(runs[m]) => Exists(next[m])
    BY <2>1 DEF OnlyRun, Exists
  <2> HIDE DEF count, count1
  <2> QED BY <1>1, <1>2, <1>3, <2>1, <2>3, <2>4, <2>5, <2>6, <2>7
<1>8. CASE Kept(runs, next)
  <2> HIDE DEF runs, next
  <2>1. count1 = count
    BY <1>4, <1>5, <1>8, Zenon DEF Kept
  <2>2. faults' = faults + 1 \/ (faults' = faults /\ breaker'[k] \in {breaker[k], TRUE})
    BY <1>1 DEF BreakerMove
  <2>3. \A n \in Attempts : /\ job'[k][f][n].state # "none" => Exists(next[n])
                            /\ job'[k][f][n].state = "refused" => job'[k][f][n].repoImage = TRUE
    <3> SUFFICES ASSUME NEW n \in Attempts
                 PROVE  /\ job'[k][f][n].state # "none" => Exists(runs[n])
                        /\ job'[k][f][n].state = "refused" => job'[k][f][n].repoImage = TRUE
      BY <1>8 DEF Kept
    <3> QED BY <1>1, <1>3 DEF JobMove, Exists, runs
  <2>4. ASSUME NEW n \in Attempts, InFlight(next[n]), Refusable(job'[k][f][n])
        PROVE  count <= faults
    <3>1. Refusable(job[k][f][n]) \/ (breaker[k] = FALSE /\ runs[n].phase = "Running")
      BY <1>1, <2>4, RefusableJobs DEF runs
    <3>2. Exists(runs[n])
      BY <1>3, <3>1 DEF Refusable, Exists
    <3>3. InFlight(runs[n])
      BY <1>8, <2>4, <3>2, Zenon DEF Kept
    <3>4. CASE Refusable(job[k][f][n])
      BY <1>3, <3>3, <3>4
    <3>5. CASE breaker[k] = FALSE
      BY <1>3, <3>5
    <3> QED BY <3>1, <3>4, <3>5
  <2>5. count1 <= faults' + 1 /\ (breaker'[k] = FALSE => count1 <= faults')
    <3>1. faults' = faults + 1 \/ (faults' = faults /\ (breaker'[k] = FALSE => breaker[k] = FALSE))
      BY <2>2, Zenon
    <3>2. count \in Nat /\ faults \in Nat /\ count <= faults + 1
      BY <1>1, <1>2, <1>3
    <3>3. breaker[k] = FALSE => count <= faults
      BY <1>3
    <3> HIDE DEF count, count1
    <3>4. CASE faults' = faults + 1
      BY <2>1, <3>2, <3>4
    <3>5. CASE faults' = faults /\ (breaker'[k] = FALSE => breaker[k] = FALSE)
      BY <2>1, <3>2, <3>3, <3>5
    <3> QED BY <3>1, <3>4, <3>5
  <2>6. \A n \in Attempts : InFlight(next[n]) /\ Refusable(job'[k][f][n]) => count1 <= faults'
    <3>1. count <= faults => count1 <= faults'
      <4>1. count \in Nat /\ faults \in Nat /\ faults' \in {faults, faults + 1}
        BY <1>1, <1>2, <2>2
      <4> HIDE DEF count, count1
      <4> QED BY <2>1, <4>1
    <3> QED BY <2>4, <3>1
  <2> QED BY <2>3, <2>5, <2>6
<1> QED BY <1>7, <1>8, RefusalSteps

LEMMA BreakerInitially == Init => BreakerInv
<1> SUFFICES ASSUME Init, NEW k \in Kinds, NEW f \in Findings PROVE Broken(k, f)
  BY DEF BreakerInv
<1>1. \A n \in Attempts : RunsOf(k)[f][n] = NotCreated /\ job[k][f][n] = NoJob
  BY FirstFinding DEF Init, ClusterInit, RunsOf
<1>2. faults = 0
  BY DEF Init, ClusterInit
<1>3. RefusedRuns(k, f) = {}
  BY <1>1 DEF RefusedRuns, NotCreated
<1>4. Cardinality(RefusedRuns(k, f)) = 0
  BY <1>3, FS_EmptySet
<1>5. \A n \in Attempts : job[k][f][n].state = "none"
  BY <1>1 DEF NoJob
<1> QED BY <1>2, <1>4, <1>5 DEF Broken

\* The sandbox probe refuses a finding's image once per life of a controller's
\* process: the breaker it trips is read before every launch, a Job adopted by
\* its deterministic name was launched by the one run in flight, and only a
\* restart, which is a fault, untrips it.  Only a SpawnDecide whose cache misses
\* the latest attempt can undo it: the two remediations in flight then may both
\* have launched the refused image.
THEOREM RefusedOncePerLife == Spec => ([][SeesLatest]_vars => []RefusedOnce)
<1>1. RemediationLeases /\ IType /\ [Next]_vars /\ [SeesLatest]_vars => RemediationLeases'
  BY RemLeasesKept, Zenon
<1>2. InvestigationLeases /\ IType /\ [Next]_vars => InvestigationLeases'
  BY LeasesKept
<1>3. /\ IType /\ IType' /\ [Next]_vars /\ FindingInv /\ InvestigationLeases /\ RemediationLeases /\ BreakerInv
      => BreakerInv'
  <2> SUFFICES ASSUME IType, IType', [Next]_vars, FindingInv, InvestigationLeases, RemediationLeases, BreakerInv,
                      NEW k \in Kinds, NEW f \in Findings
               PROVE  Broken(k, f)'
    BY DEF BreakerInv
  <2>1. ASSUME NEW m \in Attempts, NEW n \in Attempts, InFlight(RunsOf(k)[f][m]), InFlight(RunsOf(k)[f][n])
        PROVE  m = n
    <3>1. /\ Leased(inv[f], fnd[f].attInv, gate[f] # Idle) /\ Leased(rem[f], fnd[f].attRem, spawn[f] # NoStep)
          /\ fnd[f].attInv \in 0..MaxRuns /\ fnd[f].attRem \in 0..MaxRuns
      BY FindingTyped DEF InvestigationLeases, RemediationLeases, Finding
    <3>2. CASE k = "inv"
      BY <2>1, <3>1, <3>2, LeasedOne DEF RunsOf
    <3>3. CASE k = "rem"
      BY <2>1, <3>1, <3>3, LeasedOne DEF RunsOf
    <3> QED BY <3>2, <3>3 DEF Kinds
  <2>2. Broken(k, f)
    BY DEF BreakerInv
  <2> QED BY <2>1, <2>2, BrokenKept
<1>4. BreakerInv /\ IType => RefusedOnce
  <2> SUFFICES ASSUME BreakerInv, IType, NEW f \in Findings
               PROVE  /\ Cardinality({n \in Attempts : inv[f][n].refused}) <= 1 + faults
                      /\ Cardinality({n \in Attempts : rem[f][n].refused}) <= 1 + faults
    BY DEF RefusedOnce
  <2>1. \A n \in Attempts : inv[f][n].refused \in BOOLEAN /\ rem[f][n].refused \in BOOLEAN
    BY DEF IType, TypeOK, ClusterTypeOK, Run
  <2>2. {n \in Attempts : inv[f][n].refused} = RefusedRuns("inv", f)
    BY <2>1 DEF RefusedRuns, RunsOf
  <2>3. {n \in Attempts : rem[f][n].refused} = RefusedRuns("rem", f)
    BY <2>1 DEF RefusedRuns, RunsOf
  <2>4. faults \in Nat /\ Cardinality(RefusedRuns("inv", f)) <= faults + 1
        /\ Cardinality(RefusedRuns("rem", f)) <= faults + 1
    BY MaxFaultsAssumption DEF BreakerInv, Broken, Kinds, IType, TypeOK, ClusterTypeOK
  <2>5. Cardinality(RefusedRuns("inv", f)) \in Nat /\ Cardinality(RefusedRuns("rem", f)) \in Nat
    BY RefusedFinite
  <2>6. Cardinality(RefusedRuns("inv", f)) <= 1 + faults /\ Cardinality(RefusedRuns("rem", f)) <= 1 + faults
    BY <2>4, <2>5
  <2> QED BY <2>2, <2>3, <2>6, Zenon
<1> QED BY <1>1, <1>2, <1>3, <1>4, BreakerInitially, LeasesInitially, RemLeasesInitially, Typed, FindingHolds, PTL
        DEF Spec

-----------------------------------------------------------------------------
(* While no reconcile has been cut short: the settled remediation of a       *)
(* Remediating finding is about to move it on.                               *)

Released(f) ==
    fnd[f].phase = "Remediating" /\ Settled(rem[f][fnd[f].activeRun.n]) =>
        RemOn(remW, f) /\ remW.step \in {"finish", "record"}

LEMMA FaultFree ==
    ASSUME IType, [Next]_vars, faults' = 0
    PROVE  faults = 0 /\ faults' = faults
<1>1. faults \in Nat /\ "inv" \in Kinds
  BY MaxFaultsAssumption DEF IType, TypeOK, ClusterTypeOK, Kinds
<1>2. BreakerMove("inv")
  BY <1>1, BreakerSteps
<1>3. faults' = faults \/ faults' = faults + 1
  BY <1>2, Zenon DEF BreakerMove
<1> QED BY <1>1, <1>3

LEMMA ReleasedKept ==
    ASSUME IType, [Next]_vars, FindingInv, NEW f \in Findings, faults' = faults, Released(f)
    PROVE  Released(f)'
<1> SUFFICES ASSUME fnd'[f].phase = "Remediating", Settled(rem'[f][fnd'[f].activeRun.n])
             PROVE  RemOn(remW', f) /\ remW'.step \in {"finish", "record"}
  BY DEF Released
<1>1. /\ RemediationStep(f) /\ Handled(f) /\ Granted(f) /\ fnd[f] \in Finding /\ remW \in RemSteps
  BY RemediationSteps, FindingTyped DEF FindingInv, RemediationInv, IType, TypeOK, RemTypeOK
<1>2. /\ ~RemOn(NoStep, f) /\ NoStep.step = "idle"
      /\ RemOn(remW, f) => remW.n \in Attempts
  BY <1>1, RemStepTypes DEF RemOn, NoStep
<1>3. \/ fnd[f].phase = "Remediating" /\ fnd'[f].activeRun = fnd[f].activeRun
      \/ RemediationBegun(f)
  BY RemediatingSteps DEF FindingInv
<1>4. ~RemediationBegun(f)
  <2> SUFFICES ASSUME RemediationBegun(f) PROVE FALSE
    OBVIOUS
  <2>1. RemOn(remW, f) /\ remW.step = "advance" /\ rem' = rem /\ fnd'[f].activeRun = [kind |-> "rem", n |-> remW.n]
    BY DEF RemediationBegun, RemAdvance, RemOn, NoStep
  <2>2. rem'[f][fnd'[f].activeRun.n].phase = "Running"
    BY <1>1, <2>1 DEF Handled
  <2> QED BY <2>2 DEF Settled
<1> DEFINE a == fnd[f].activeRun.n
<1>5. fnd[f].phase = "Remediating" /\ Settled(rem'[f][a])
  BY <1>3, <1>4
<1>6. a \in Attempts
  BY <1>1, <1>5 DEF Granted, Finding, NoRun
<1> HIDE DEF a
<1>7. CASE RemediationEnded(f)
  <2>1. RemOn(remW', f) /\ remW'.step = "finish"
    BY <1>7 DEF RemediationEnded
  <2> QED BY <2>1
<1>8. CASE RemediationStamped(f)
  <2>1. RemOn(remW', f) /\ remW'.step = "record"
    BY <1>8 DEF RemediationStamped
  <2> QED BY <2>1
<1>9. CASE ~RemediationEnded(f) /\ ~RemediationStamped(f)
  <2>1. Settled(rem[f][a])
    <3>1. CASE RemediationQuiet(f) \/ RemediationJobRecorded(f)
      BY <1>5, <1>6, <3>1 DEF RemediationQuiet, RemediationJobRecorded, SameRuns, Settled
    <3>2. CASE RemediationCreated(f)
      BY <1>5, <1>6, <3>2 DEF RemediationCreated, OnlyRun, Exists, Settled
    <3>3. CASE RemediationGranted(f)
      BY <1>5, <1>6, <3>3 DEF RemediationGranted, OnlyRun, Settled
    <3>4. CASE rem' = rem
      BY <1>5, <3>4
    <3> QED BY <1>1, <1>9, <3>1, <3>2, <3>3, <3>4
            DEF RemediationStep, RemediationDecided, RemediationNumbered, RemediationAdvanced, RemediationTaken,
                RemediationPREnsured, RemediationReported
  <2>2. RemOn(remW, f) /\ remW.step \in {"finish", "record"}
    BY <1>5, <2>1 DEF Released, a
  <2>3. ~RemediationReported(f)
    BY <1>5 DEF RemediationReported
  <2>4. remW' = remW
    BY <1>1, <1>2, <1>9, <2>2, <2>3
       DEF RemediationStep, RemediationQuiet, RemediationDecided, RemediationCreated, RemediationNumbered,
           RemediationGranted, RemediationAdvanced, RemediationTaken, RemediationJobRecorded, RemediationPREnsured
  <2> QED BY <2>2, <2>4
<1> QED BY <1>7, <1>8, <1>9

\* A Remediating finding is not left behind by the remediation it names: until
\* a reconcile fails between its two writes or the controller restarts, the
\* run's end is followed by the finding's own write, whichever way it ended.
THEOREM RemediationMovesOn == Spec => [](faults = 0 => RemediationReleases)
<1> DEFINE Inv == faults = 0 => \A f \in Findings : Released(f)
<1>1. Init => Inv
  <2> SUFFICES ASSUME Init, NEW f \in Findings PROVE Released(f)
    OBVIOUS
  <2>1. fnd[f].phase # "Remediating"
    BY FirstFinding, Zenon DEF Absent
  <2> QED BY <2>1 DEF Released
<1>2. Inv /\ FindingInv /\ IType /\ [Next]_vars => Inv'
  <2> SUFFICES ASSUME Inv, FindingInv, IType, [Next]_vars, faults' = 0, NEW f \in Findings PROVE Released(f)'
    OBVIOUS
  <2> QED BY FaultFree, ReleasedKept
<1>3. Inv => (faults = 0 => RemediationReleases)
  BY DEF RemediationReleases, Released, RemOn
<1> QED BY <1>1, <1>2, <1>3, Typed, FindingHolds, PTL DEF Spec

-----------------------------------------------------------------------------
(* Remediations are numbered without gaps, in order, one at a time.          *)

\* The attempts that do not count against --max-attempts.
MarkedRem(f) == {n \in Attempts : rem[f][n].refused = TRUE \/ rem[f][n].held = TRUE}

\* Every attempt counted exists; only a failed one is marked.
Tallied(f) ==
    \A n \in Attempts : /\ n <= fnd[f].attRem => Exists(rem[f][n])
                        /\ n \in MarkedRem(f) => rem[f][n].phase = "Failed"

\* At most one attempt exists that is not counted, its spawner not there yet or
\* cut short before it counted: the next, the latest counted being settled.
InTurn(f) ==
    LET att == fnd[f].attRem IN
    \A n \in Attempts : Exists(rem[f][n]) =>
        n <= att \/ (n = att + 1 /\ \A m \in Attempts : m = att => ~InFlight(rem[f][m]))

\* grant's second write follows its first: nothing cuts the worker between them.
GrantWhole == remW.step = "advance" => RemAdvance \/ remW' = remW

\* A mark is made on a Running run that fails with it, and stays.
LEMMA MarksMade ==
    ASSUME IType, IType', NEW f \in Findings, RemediationStep(f), Handled(f),
           \A n \in Attempts : n \in MarkedRem(f) => rem[f][n].phase = "Failed"
    PROVE  /\ MarkedRem(f) \subseteq MarkedRem(f)'
           /\ \A n \in Attempts : n \in MarkedRem(f)' => rem'[f][n].phase = "Failed"
<1>1. \A n \in Attempts : n \in MarkedRem(f)' <=> rem'[f][n].refused = TRUE \/ rem'[f][n].held = TRUE
  BY DEF MarkedRem
<1>2. \A n \in Attempts : n \in MarkedRem(f) <=> rem[f][n].refused = TRUE \/ rem[f][n].held = TRUE
  BY DEF MarkedRem
<1>3. SUFFICES ASSUME NEW n \in Attempts
               PROVE  /\ n \in MarkedRem(f) => n \in MarkedRem(f)'
                      /\ n \in MarkedRem(f)' => rem'[f][n].phase = "Failed"
  BY DEF MarkedRem
<1>4. ASSUME rem'[f][n].phase = rem[f][n].phase, SameMarks(rem[f][n], rem'[f][n])
      PROVE  /\ n \in MarkedRem(f) => n \in MarkedRem(f)'
             /\ n \in MarkedRem(f)' => rem'[f][n].phase = "Failed"
  BY <1>1, <1>2, <1>4 DEF SameMarks
<1>5. ASSUME rem[f][n].phase # "Failed", SameMarks(rem[f][n], rem'[f][n])
      PROVE  /\ n \in MarkedRem(f) => n \in MarkedRem(f)'
             /\ n \in MarkedRem(f)' => rem'[f][n].phase = "Failed"
  BY <1>1, <1>2, <1>5 DEF SameMarks
<1>6. ASSUME rem'[f][n] = rem[f][n]
      PROVE  rem'[f][n].phase = rem[f][n].phase /\ SameMarks(rem[f][n], rem'[f][n])
  BY <1>6 DEF SameMarks
<1>7. CASE RemediationQuiet(f) \/ RemediationJobRecorded(f)
  BY <1>4, <1>7 DEF RemediationQuiet, RemediationJobRecorded, SameRuns
<1>8. CASE RemediationCreated(f)
  <2>1. PICK m \in Attempts : /\ OnlyRun(rem[f], rem'[f], m) /\ SameMarks(rem[f][m], rem'[f][m])
                              /\ Exists(rem[f][m]) => rem'[f][m].phase = rem[f][m].phase
    BY <1>8 DEF RemediationCreated
  <2> QED BY <1>4, <1>5, <1>6, <2>1 DEF OnlyRun, Exists
<1>9. CASE RemediationGranted(f)
  <2>1. PICK m \in Attempts : /\ OnlyRun(rem[f], rem'[f], m) /\ SameMarks(rem[f][m], rem'[f][m])
                              /\ rem[f][m].phase = "Pending"
    BY <1>9 DEF RemediationGranted
  <2> QED BY <1>4, <1>5, <1>6, <2>1 DEF OnlyRun
<1>10. CASE RemediationEnded(f)
  <2>1. PICK m \in Attempts : /\ OnlyRun(rem[f], rem'[f], m) /\ rem[f][m].phase = "Running"
                              /\ SameMarks(rem[f][m], rem'[f][m]) \/ rem'[f][m].phase = "Failed"
    BY <1>10 DEF RemediationEnded
  <2>2. CASE n = m /\ rem'[f][m].phase = "Failed"
    BY <1>2, <2>1, <2>2
  <2> QED BY <1>4, <1>5, <1>6, <2>1, <2>2 DEF OnlyRun
<1>11. CASE RemediationStamped(f)
  <2>1. /\ OnlyRun(rem[f], rem'[f], remW.n) /\ SameMarks(rem[f][remW.n], rem'[f][remW.n])
        /\ rem[f][remW.n].phase = "Running"
    BY <1>11 DEF RemediationStamped, Handled, RemOn, NoStep
  <2> QED BY <1>4, <1>5, <1>6, <2>1 DEF OnlyRun
<1>12. CASE UNCHANGED rem
  BY <1>4, <1>6, <1>12
<1> QED BY <1>7, <1>8, <1>9, <1>10, <1>11, <1>12
     DEF RemediationStep, RemediationDecided, RemediationNumbered, RemediationAdvanced, RemediationTaken,
         RemediationPREnsured, RemediationReported

LEMMA TallyKept ==
    ASSUME IType, IType', [Next]_vars, FindingInv, RemediationLeases, NEW f \in Findings, Tallied(f)
    PROVE  Tallied(f)'
<1>1. /\ RemediationStep(f) /\ Handled(f) /\ Leasing(f)
      /\ spawn[f] # NoStep => spawn[f].attempt = fnd[f].attRem + 1
      /\ fnd[f].attRem \in 0..MaxRuns
  BY RemediationSteps, FindingTyped DEF FindingInv, RemediationInv, RemediationLeases, Finding
<1>2. \A n \in Attempts : n \in MarkedRem(f)' => rem'[f][n].phase = "Failed"
  BY <1>1, MarksMade DEF Tallied
<1>3. \A n \in Attempts : n <= fnd'[f].attRem => Exists(rem'[f][n])
  <2>1. CASE fnd'[f].attRem = fnd[f].attRem
    BY <1>1, <2>1, RunsGrow DEF Tallied
  <2>2. CASE SpawnCount(f)
    <3>1. spawn[f].step = "count" /\ spawn[f] # NoStep /\ rem' = rem
      BY <2>2 DEF SpawnCount, NoStep
    <3>2. fnd'[f].attRem \in {fnd[f].attRem, fnd[f].attRem + 1}
      BY <1>1, <2>2, <3>1 DEF SpawnCount, WriteFinding, IType, TypeOK, ClusterTypeOK, Finding
    <3>3. Exists(rem[f][fnd[f].attRem + 1])
      BY <1>1, <3>1 DEF Leasing
    <3> QED BY <1>1, <3>1, <3>2, <3>3, MaxRunsAssumption DEF Tallied, Attempts
  <2> QED BY <2>1, <2>2, Counted
<1> QED BY <1>2, <1>3 DEF Tallied

\* Only the spawner's create makes a run.
LEMMA NoneNew ==
    ASSUME NEW f \in Findings, RemediationStep(f), Handled(f), ~RemediationCreated(f), NEW n \in Attempts, Exists(rem'[f][n])
    PROVE  Exists(rem[f][n])
<1>1. CASE RemediationQuiet(f) \/ RemediationJobRecorded(f)
  BY <1>1 DEF RemediationQuiet, RemediationJobRecorded, SameRuns, Exists
<1>2. CASE RemediationGranted(f)
  BY <1>2 DEF RemediationGranted, OnlyRun, Exists
<1>3. CASE RemediationEnded(f)
  BY <1>3 DEF RemediationEnded, OnlyRun, Exists
<1>4. CASE RemediationStamped(f)
  <2>1. OnlyRun(rem[f], rem'[f], remW.n) /\ rem[f][remW.n].phase = "Running"
    BY <1>4 DEF RemediationStamped, Handled, RemOn, NoStep
  <2> QED BY <2>1 DEF OnlyRun, Exists
<1>5. CASE UNCHANGED rem
  BY <1>5
<1> QED BY <1>1, <1>2, <1>3, <1>4, <1>5
     DEF RemediationStep, RemediationDecided, RemediationNumbered, RemediationAdvanced, RemediationTaken,
         RemediationPREnsured, RemediationReported

\* What a step may make of one Remediation.
LEMMA RunMoves ==
    ASSUME NEW f \in Findings, RemediationStep(f), Handled(f), NEW n \in Attempts
    PROVE  \/ rem'[f][n].phase = rem[f][n].phase
           \/ /\ spawn[f].step = "create" /\ n = spawn[f].attempt
              /\ ~Exists(rem[f][n]) /\ rem'[f][n].phase = "Pending" /\ remW' = remW
           \/ /\ rem[f][n].phase = "Pending" /\ rem'[f][n].phase = "Running"
              /\ remW = NoStep /\ RemOn(remW', f) /\ remW'.step = "advance"
           \/ /\ rem[f][n].phase = "Running" /\ remW = NoStep
              /\ RemOn(remW', f) /\ remW'.step = "finish"
              /\ rem'[f][n].phase = "Failed" \/ (rem'[f][n].phase = "Complete" /\ remW'.to = "HandedOff")
           \/ /\ rem[f][n].phase = "Running" /\ rem'[f][n].phase = "Complete"
              /\ RemOn(remW, f) /\ remW.step = "stamp" /\ remW.n = n
              /\ RemOn(remW', f) /\ remW'.step = "record"
<1> SUFFICES ASSUME rem'[f][n].phase # rem[f][n].phase
             PROVE  \/ /\ spawn[f].step = "create" /\ n = spawn[f].attempt
                       /\ ~Exists(rem[f][n]) /\ rem'[f][n].phase = "Pending" /\ remW' = remW
                    \/ /\ rem[f][n].phase = "Pending" /\ rem'[f][n].phase = "Running"
                       /\ remW = NoStep /\ RemOn(remW', f) /\ remW'.step = "advance"
                    \/ /\ rem[f][n].phase = "Running" /\ remW = NoStep
                       /\ RemOn(remW', f) /\ remW'.step = "finish"
                       /\ rem'[f][n].phase = "Failed" \/ (rem'[f][n].phase = "Complete" /\ remW'.to = "HandedOff")
                    \/ /\ rem[f][n].phase = "Running" /\ rem'[f][n].phase = "Complete"
                       /\ RemOn(remW, f) /\ remW.step = "stamp" /\ remW.n = n
                       /\ RemOn(remW', f) /\ remW'.step = "record"
  OBVIOUS
<1>1. CASE RemediationCreated(f)
  <2>1. PICK m \in Attempts :
           /\ spawn[f] = [step |-> "create", attempt |-> m] /\ OnlyRun(rem[f], rem'[f], m)
           /\ rem'[f][m].phase = IF Exists(rem[f][m]) THEN rem[f][m].phase ELSE "Pending"
           /\ remW' = remW
    BY <1>1 DEF RemediationCreated
  <2>2. n = m
    BY <2>1 DEF OnlyRun
  <2> QED BY <2>1, <2>2
<1>2. CASE RemediationGranted(f)
  <2>1. PICK m \in Attempts :
           /\ remW = NoStep /\ rem[f][m].phase = "Pending"
           /\ OnlyRun(rem[f], rem'[f], m) /\ rem'[f][m].phase = "Running"
           /\ remW' = [step |-> "advance", f |-> f, n |-> m]
    BY <1>2 DEF RemediationGranted
  <2>2. n = m
    BY <2>1 DEF OnlyRun
  <2>3. remW'.step = "advance" /\ remW'.f = f /\ remW' # NoStep
    BY <2>1 DEF NoStep
  <2> QED BY <2>1, <2>2, <2>3 DEF RemOn
<1>3. CASE RemediationEnded(f)
  <2>1. PICK m \in Attempts :
           /\ remW = NoStep /\ rem[f][m].phase = "Running" /\ OnlyRun(rem[f], rem'[f], m)
           /\ RemOn(remW', f) /\ remW'.step = "finish"
           /\ rem'[f][m].phase = "Failed" \/ (rem'[f][m].phase = "Complete" /\ remW'.to = "HandedOff")
    BY <1>3 DEF RemediationEnded
  <2>2. n = m
    BY <2>1 DEF OnlyRun
  <2> QED BY <2>1, <2>2
<1>4. CASE RemediationStamped(f)
  <2>1. remW.step = "stamp" /\ remW # NoStep /\ remW.f = f
    BY <1>4 DEF RemediationStamped, NoStep
  <2>2. n = remW.n
    BY <1>4 DEF RemediationStamped, OnlyRun
  <2>3. rem[f][n].phase = "Running"
    BY <2>1, <2>2 DEF Handled, RemOn
  <2> QED BY <1>4, <2>1, <2>2, <2>3 DEF RemediationStamped, RemOn
<1> QED BY <1>1, <1>2, <1>3, <1>4
     DEF RemediationStep, RemediationQuiet, RemediationJobRecorded, SameRuns, RemediationDecided,
         RemediationNumbered, RemediationAdvanced, RemediationTaken, RemediationPREnsured, RemediationReported

LEMMA TurnsKept ==
    ASSUME IType, [Next]_vars, FindingInv, RemediationLeases, NEW f \in Findings, InTurn(f)
    PROVE  InTurn(f)'
<1>1. /\ RemediationStep(f) /\ Handled(f) /\ spawn \in [Findings -> SpawnSteps]
      /\ spawn[f] # NoStep => spawn[f].attempt = fnd[f].attRem + 1
      /\ fnd[f].attRem \in 0..MaxRuns /\ Leased(rem[f], fnd[f].attRem, spawn[f] # NoStep)
  BY RemediationSteps, FindingTyped
     DEF FindingInv, RemediationInv, RemediationLeases, Finding, IType, TypeOK, RemTypeOK
<1>2. NoStep.step = "idle"
  BY DEF NoStep
<1>3. CASE SpawnCount(f)
  <2>1. spawn[f].step = "count" /\ rem' = rem /\ spawn[f] # NoStep
    BY <1>2, <1>3 DEF SpawnCount
  <2>2. ~(fnd[f].attRem >= spawn[f].attempt)
    BY <1>1, <2>1
  <2>3. fnd'[f].attRem = fnd[f].attRem + 1
    BY <1>1, <1>3, <2>1, <2>2 DEF SpawnCount, WriteFinding, IType, TypeOK, ClusterTypeOK, Finding
  <2> QED BY <1>1, <2>1, <2>3, MaxRunsAssumption DEF InTurn, Attempts
<1>4. CASE ~SpawnCount(f)
  <2> DEFINE att == fnd[f].attRem
  <2>1. fnd'[f].attRem = att
    BY <1>4, Counted
  <2>2. ASSUME NEW m \in Attempts, m = att, ~InFlight(rem[f][m]) PROVE ~InFlight(rem'[f][m])
    <3>1. ~(spawn[f].step = "create" /\ m = spawn[f].attempt)
      BY <1>1, <1>2, <2>2
    <3> QED BY <1>1, <2>2, <3>1, RunMoves DEF InFlight
  <2>3. ASSUME NEW n \in Attempts, Exists(rem'[f][n]), ~Exists(rem[f][n])
        PROVE  n = att + 1 /\ \A m \in Attempts : m = att => ~InFlight(rem[f][m])
    <3>1. spawn[f].step = "create" /\ n = spawn[f].attempt
      BY <1>1, <2>3, RunMoves DEF Exists
    <3> QED BY <1>1, <1>2, <3>1 DEF Leased
  <2>4. ASSUME NEW n \in Attempts, Exists(rem'[f][n])
        PROVE  n <= att \/ (n = att + 1 /\ \A m \in Attempts : m = att => ~InFlight(rem'[f][m]))
    BY <2>2, <2>3, <2>4 DEF InTurn
  <2> QED BY <2>1, <2>4 DEF InTurn
<1> QED BY <1>3, <1>4

-----------------------------------------------------------------------------
(* A finding that was neither failed nor handed off, while no grant is cut   *)
(* short: its phase tells how far its remediations are.                      *)

Remedied == {"Queued", "Remediating", "InReview", "Remediated"}

NoneInFlight(f) == \A n \in Attempts : ~InFlight(rem[f][n])

Ordered(f) ==
    /\ spawn[f].step = "create" => \/ Exists(rem[f][spawn[f].attempt])
                                   \/ fnd[f].phase = "Queued" /\ NoneInFlight(f)
    /\ RemOn(remW, f) => \/ fnd[f].phase = "Remediating"
                         \/ fnd[f].phase = "Queued" /\ remW.step = "advance"
    /\ \A n \in Attempts :
          /\ Exists(rem[f][n]) => fnd[f].phase \in Remedied
          /\ rem[f][n].phase = "Pending" => fnd[f].phase = "Queued"
          /\ rem[f][n].phase = "Running" =>
                \/ fnd[f].phase = "Remediating"
                \/ fnd[f].phase = "Queued" /\ RemOn(remW, f)
          /\ rem[f][n].phase = "Complete" =>
                /\ fnd[f].phase \in {"Remediating", "InReview", "Remediated"}
                /\ fnd[f].phase = "Remediating" => n = fnd[f].activeRun.n
                /\ RemOn(remW, f) /\ remW.step = "finish" => remW.to = "HandedOff"

\* What a step may make of the reconcile of a finding's Remediation.
LEMMA WorkerMoves ==
    ASSUME IType, NEW f \in Findings, RemediationStep(f), GrantWhole
    PROVE  \/ remW' = remW
           \/ ~RemOn(remW', f) /\ ~RemOn(remW, f)
           \/ remW = NoStep /\ RemOn(remW', f) /\ remW'.step = "advance"
                /\ \E n \in Attempts : rem[f][n].phase = "Pending"
           \/ remW = NoStep /\ RemOn(remW', f) /\ \E n \in Attempts : rem[f][n].phase = "Running"
           \/ /\ RemOn(remW, f) /\ remW.step = "advance" /\ ~RemOn(remW', f)
              /\ fnd[f].phase = "Queued" => fnd'[f].phase = "Remediating"
           \/ RemOn(remW, f) /\ remW.step # "advance" /\ ~(RemOn(remW', f) /\ remW'.step = "finish")
<1>1. ~RemOn(NoStep, f) /\ NoStep.step = "idle"
  BY DEF RemOn, NoStep
<1>2. CASE remW' = remW
  BY <1>2
<1>3. CASE RemediationQuiet(f) /\ remW' # remW
  <2>1. ~RemOn(remW', f)
    BY <1>3 DEF RemediationQuiet
  <2>2. ASSUME RemOn(remW, f), remW.step = "advance", fnd[f].phase = "Queued" PROVE fnd'[f].phase = "Remediating"
    <3>1. RemAdvance /\ remW.f = f /\ remW.n \in Attempts /\ fnd \in [Findings -> Finding]
      BY <1>1, <1>3, <2>2, RemStepTypes DEF GrantWhole, RemOn, IType, TypeOK, RemTypeOK, ClusterTypeOK
    <3>2. fnd[f] \in Finding /\ "Remediating" \in Phases
      BY <3>1 DEF Phases
    <3> DEFINE moved == SetPhase(fnd[f], "Remediating")
               run == [kind |-> "rem", n |-> remW.n]
               new == [moved EXCEPT !.activeRun = run]
    <3>3. fnd'[f] = new
      BY <2>2, <3>1, Written DEF RemAdvance
    <3>4. moved \in Finding /\ moved.phase = "Remediating"
      BY <2>2, <3>2, SetPhaseFields DEF MovedTo
    <3> HIDE DEF moved, run
    <3> QED BY <3>3, <3>4 DEF Finding
  <2> QED BY <2>1, <2>2
<1>4. CASE RemediationGranted(f)
  <2>1. PICK n \in Attempts : remW = NoStep /\ rem[f][n].phase = "Pending"
                              /\ remW' = [step |-> "advance", f |-> f, n |-> n]
    BY <1>4 DEF RemediationGranted
  <2>2. remW'.step = "advance" /\ remW'.f = f /\ remW' # NoStep
    BY <2>1 DEF NoStep
  <2> QED BY <2>1, <2>2 DEF RemOn
<1>5. CASE RemediationTaken(f)
  <2>1. PICK n \in Attempts, step \in {"recordJob", "ensurePR"} :
           remW = NoStep /\ rem[f][n].phase = "Running" /\ remW' = [step |-> step, f |-> f, n |-> n]
    BY <1>5 DEF RemediationTaken
  <2>2. remW'.step \in {"recordJob", "ensurePR"} /\ remW'.f = f /\ remW' # NoStep
    BY <2>1 DEF NoStep
  <2> QED BY <2>1, <2>2 DEF RemOn
<1>6. CASE RemediationEnded(f)
  BY <1>6 DEF RemediationEnded
<1>7. CASE RemediationAdvanced(f)
  <2>1. remW.step = "advance" /\ remW.f = f /\ remW # NoStep
    BY <1>1, <1>7 DEF RemediationAdvanced
  <2> QED BY <1>1, <1>7, <2>1 DEF RemediationAdvanced, RemOn
<1>8. CASE RemediationJobRecorded(f) \/ RemediationPREnsured(f) \/ RemediationStamped(f) \/ RemediationReported(f)
  <2>1. /\ remW.step \in {"recordJob", "ensurePR", "stamp", "record", "finish"} /\ remW.f = f
        /\ remW' = NoStep \/ remW'.step \in {"stamp", "record"}
    BY <1>8 DEF RemediationJobRecorded, RemediationPREnsured, RemediationStamped, RemediationReported
  <2> QED BY <1>1, <2>1 DEF RemOn
<1> QED BY <1>2, <1>3, <1>4, <1>5, <1>6, <1>7, <1>8
     DEF RemediationStep, RemediationDecided, RemediationCreated, RemediationNumbered

\* How a finding that was neither failed nor handed off changes its phase.
LEMMA OrderlyMoves ==
    ASSUME IType, IType', [Next]_vars, NEW f \in Findings, FindingInv, fnd'[f].revived = FALSE,
           fnd[f].phase \in Remedied
    PROVE  \/ /\ fnd'[f].phase = fnd[f].phase
              /\ fnd[f].phase = "Remediating" => fnd'[f].activeRun = fnd[f].activeRun
           \/ RemediationBegun(f) /\ fnd'[f].phase = "Remediating"
           \/ PullRequestRecorded(f) /\ fnd[f].phase = "Remediating" /\ fnd'[f].phase = "InReview"
           \/ RemediationFinished(f) /\ fnd'[f].phase = "Queued" /\ remW.to = "Queued"
           \/ fnd[f].phase = "InReview" /\ fnd'[f].phase = "Remediated" /\ UNCHANGED aside
<1>1. /\ FindingStep(f) /\ Recorded(f)' /\ remW \in RemSteps
      /\ fnd'[f].phase = "Remediating" =>
            \/ fnd[f].phase = "Remediating" /\ fnd'[f].activeRun = fnd[f].activeRun
            \/ RemediationBegun(f)
  BY FindingSteps, LifeKept, RemediatingSteps DEF FindingInv, LifeInv, IType, TypeOK, RemTypeOK
<1>2. fnd'[f].phase \notin {"Failed", "HandedOff"}
  BY <1>1 DEF Recorded
<1>3. CASE fnd'[f].phase = fnd[f].phase
  BY <1>1, <1>3 DEF RemediationBegun
<1>4. CASE fnd'[f].phase # fnd[f].phase
  <2>1. ~(Untouched(f) \/ RemediationCounted(f) \/ VerdictRouted(f))
    <3>1. fnd[f].phase # "Investigating"
      BY DEF Remedied
    <3> QED BY <1>4, <3>1 DEF Untouched, RemediationCounted, VerdictRouted, SameLife
  <2>2. ~(InvestigationBegun(f) \/ InvestigationReleased(f))
    BY DEF InvestigationBegun, InvestigationReleased, Remedied
  <2>3. ~MovedAlone(f)
    BY <1>2 DEF MovedAlone, MovedTo, Remedied, Absent
  <2>4. CASE ReviewedAlone(f)
    BY <1>2, <1>4, <2>4 DEF ReviewedAlone, MovedTo, SameLife
  <2>5. CASE RemediationBegun(f)
    BY <2>5 DEF RemediationBegun, MovedTo
  <2>6. CASE PullRequestRecorded(f)
    BY <1>4, <2>6 DEF PullRequestRecorded, MovedTo, SameLife
  <2>7. CASE RemediationFinished(f)
    <3>1. remW.to \in {"Queued", "Failed", "HandedOff"} /\ fnd'[f].phase = remW.to
      BY <1>1, <2>7, RemStepTypes DEF RemediationFinished, RemFinish, MovedTo
    <3> QED BY <1>2, <2>7, <3>1
  <2> QED BY <1>1, <2>1, <2>2, <2>3, <2>4, <2>5, <2>6, <2>7 DEF FindingStep
<1> QED BY <1>3, <1>4

\* Before its first remediation, and once it is out of the remedied phases, a
\* finding has none and nothing under way about one.
LEMMA NothingBefore ==
    ASSUME NEW f \in Findings, RemediationStep(f), Leasing(f), spawn \in [Findings -> SpawnSteps],
           Ordered(f), fnd[f].phase \notin Remedied
    PROVE  spawn'[f] = NoStep /\ ~RemOn(remW', f) /\ \A n \in Attempts : ~Exists(rem'[f][n])
<1>1. \A n \in Attempts : ~Exists(rem[f][n])
  BY DEF Ordered
<1>2. ~RemOn(remW, f)
  BY DEF Ordered, Remedied
<1>3. spawn[f] = NoStep
  <2>1. spawn[f].step = "create" => Exists(rem[f][spawn[f].attempt])
    BY DEF Ordered, Remedied
  <2>2. spawn[f] \in SpawnSteps /\ (spawn[f] # NoStep => spawn[f].attempt \in Attempts /\ spawn[f].step \in {"create", "count"})
    BY SpawnStepTypes DEF SpawnSteps
  <2> QED BY <1>1, <2>1, <2>2 DEF Leasing
<1>4. ~RemediationDecided(f)
  BY DEF RemediationDecided, Remedied
<1> QED BY <1>1, <1>2, <1>3, <1>4, RemediationDecides

\* The spawner decides when none of the finding's Remediations is in flight, or
\* on an attempt that an earlier reconcile of it created and did not count.
LEMMA DecidedFree ==
    ASSUME IType, [Next]_vars, [SeesLatest]_vars, NEW f \in Findings, RemediationLeases, InTurn(f), RemediationDecided(f)
    PROVE  Exists(rem[f][spawn'[f].attempt]) \/ NoneInFlight(f)
<1> DEFINE att == fnd[f].attRem
<1>1. /\ Leased(rem[f], att, spawn[f] # NoStep) /\ RemediationLeases' /\ fnd' = fnd /\ rem' = rem
      /\ att \in 0..MaxRuns /\ spawn'[f] = [step |-> "create", attempt |-> att + 1]
  BY FindingTyped, RemLeasesKept DEF RemediationLeases, RemediationDecided, Finding
<1>2. spawn'[f] # NoStep /\ spawn'[f].attempt = att + 1
  BY <1>1 DEF NoStep
<1>3. Leased(rem'[f], fnd'[f].attRem, spawn'[f] # NoStep)
  BY <1>1 DEF RemediationLeases
<1> SUFFICES ASSUME ~Exists(rem[f][att + 1]), NEW n \in Attempts, InFlight(rem[f][n]) PROVE FALSE
  BY <1>2 DEF NoneInFlight
<1>4. n = att
  BY <1>1 DEF Leased, InFlight, Exists
<1> QED BY <1>1, <1>2, <1>3, <1>4 DEF Leased

\* While the finding stays in its phase.
LEMMA OrderedStays ==
    ASSUME IType, [Next]_vars, [SeesLatest]_vars, GrantWhole, NEW f \in Findings, FindingInv, RemediationLeases,
           Reviewed(f), InTurn(f), Ordered(f), fnd[f].phase \in Remedied, fnd'[f].phase = fnd[f].phase,
           fnd[f].phase = "Remediating" => fnd'[f].activeRun = fnd[f].activeRun
    PROVE  Ordered(f)'
<1>1. /\ RemediationStep(f) /\ Handled(f) /\ remW \in RemSteps
      /\ \A n \in Attempts : Exists(rem[f][n]) => Exists(rem'[f][n])
      /\ spawn[f].step = "create" => spawn[f].attempt \in Attempts
  <2>1. RemediationStep(f) /\ Handled(f) /\ remW \in RemSteps /\ spawn[f] \in SpawnSteps
    BY RemediationSteps DEF FindingInv, RemediationInv, IType, TypeOK, RemTypeOK
  <2>2. spawn[f].step = "create" => spawn[f].attempt \in Attempts
    BY <2>1 DEF SpawnSteps, NoStep
  <2> QED BY <2>1, <2>2, RunsGrow
<1>2. ~RemOn(NoStep, f) /\ NoStep.step = "idle"
  BY DEF RemOn, NoStep
<1>3. \A n \in Attempts : InFlight(rem[f][n]) => fnd[f].phase \in {"Queued", "Remediating"}
  BY DEF Ordered, InFlight
<1>4. ASSUME spawn'[f].step = "create"
      PROVE  Exists(rem'[f][spawn'[f].attempt]) \/ (fnd'[f].phase = "Queued" /\ NoneInFlight(f)')
  <2>1. ~RemediationCreated(f)
    <3> SUFFICES ASSUME RemediationCreated(f) PROVE FALSE
      OBVIOUS
    <3>1. PICK n \in Attempts : spawn'[f] = [step |-> "count", attempt |-> n]
      BY DEF RemediationCreated
    <3> QED BY <1>4, <3>1
  <2>2. spawn'[f] = spawn[f] \/ RemediationDecided(f)
    BY <1>1, <1>2, <1>4, <2>1
       DEF RemediationStep, RemediationQuiet, RemediationNumbered, RemediationGranted, RemediationAdvanced,
           RemediationTaken, RemediationJobRecorded, RemediationEnded, RemediationPREnsured,
           RemediationStamped, RemediationReported
  <2>3. CASE RemediationDecided(f)
    <3>1. /\ Exists(rem[f][spawn'[f].attempt]) \/ NoneInFlight(f)
          /\ rem' = rem /\ fnd' = fnd /\ fnd[f].phase = "Queued"
      BY <2>3, DecidedFree DEF RemediationDecided
    <3> QED BY <3>1 DEF NoneInFlight
  <2>4. CASE spawn'[f] = spawn[f] /\ Exists(rem[f][spawn[f].attempt])
    BY <1>1, <1>4, <2>4
  <2>5. CASE spawn'[f] = spawn[f] /\ ~Exists(rem[f][spawn[f].attempt])
    <3>1. spawn[f].step = "create" /\ fnd[f].phase = "Queued" /\ NoneInFlight(f)
      BY <1>4, <2>5 DEF Ordered
    <3>2. ASSUME NEW n \in Attempts PROVE ~InFlight(rem'[f][n])
      <4>1. ~InFlight(rem[f][n])
        BY <3>1 DEF NoneInFlight
      <4>2. CASE ~Exists(rem[f][n]) /\ rem'[f][n].phase = "Pending"
        <5>1. RemediationCreated(f)
          BY <1>1, <4>2
             DEF RemediationStep, RemediationQuiet, SameRuns, RemediationDecided, RemediationNumbered,
                 RemediationGranted, OnlyRun, RemediationAdvanced, RemediationTaken, RemediationJobRecorded,
                 RemediationEnded, RemediationPREnsured, RemediationStamped, RemediationReported, Exists
        <5> QED BY <2>1, <5>1
      <4> QED BY <1>1, <4>1, <4>2, RunMoves DEF InFlight
    <3> QED BY <3>1, <3>2 DEF NoneInFlight
  <2> QED BY <2>2, <2>3, <2>4, <2>5
<1>5. ASSUME RemOn(remW', f)
      PROVE  fnd'[f].phase = "Remediating" \/ (fnd'[f].phase = "Queued" /\ remW'.step = "advance")
  <2>1. CASE remW' = remW
    BY <1>5, <2>1 DEF Ordered
  <2>2. CASE remW = NoStep /\ \E n \in Attempts : rem[f][n].phase = "Running"
    BY <1>2, <2>2 DEF Ordered
  <2>3. CASE remW = NoStep /\ remW'.step = "advance" /\ \E n \in Attempts : rem[f][n].phase = "Pending"
    BY <2>3 DEF Ordered
  <2>4. CASE RemOn(remW, f) /\ remW.step # "advance"
    BY <2>4 DEF Ordered
  <2> QED BY <1>1, <1>5, <2>1, <2>2, <2>3, <2>4, WorkerMoves
<1>6. ASSUME NEW n \in Attempts
      PROVE  /\ rem'[f][n].phase = "Pending" => fnd'[f].phase = "Queued"
             /\ rem'[f][n].phase = "Running" => \/ fnd'[f].phase = "Remediating"
                                                \/ fnd'[f].phase = "Queued" /\ RemOn(remW', f)
  <2>1. CASE rem'[f][n].phase = rem[f][n].phase
    <3>1. ASSUME rem[f][n].phase = "Running", fnd[f].phase # "Remediating" PROVE RemOn(remW', f)
      <4>1. fnd[f].phase = "Queued" /\ RemOn(remW, f) /\ remW.step = "advance"
        BY <3>1 DEF Ordered
      <4> QED BY <1>1, <1>2, <4>1, WorkerMoves
    <3> QED BY <2>1, <3>1 DEF Ordered
  <2>2. CASE spawn[f].step = "create" /\ n = spawn[f].attempt /\ ~Exists(rem[f][n]) /\ rem'[f][n].phase = "Pending"
    BY <2>2 DEF Ordered
  <2>3. CASE rem[f][n].phase = "Pending" /\ rem'[f][n].phase = "Running" /\ RemOn(remW', f)
    BY <2>3 DEF Ordered
  <2>4. CASE rem'[f][n].phase \in {"Complete", "Failed"}
    BY <2>4
  <2> QED BY <1>1, <2>1, <2>2, <2>3, <2>4, RunMoves
<1>7. ASSUME NEW n \in Attempts, rem'[f][n].phase = "Complete"
      PROVE  /\ fnd'[f].phase \in {"Remediating", "InReview", "Remediated"}
             /\ fnd'[f].phase = "Remediating" => n = fnd'[f].activeRun.n
             /\ RemOn(remW', f) /\ remW'.step = "finish" => remW'.to = "HandedOff"
  <2>1. CASE rem[f][n].phase = "Complete"
    <3>1. /\ fnd[f].phase \in {"Remediating", "InReview", "Remediated"}
          /\ fnd[f].phase = "Remediating" => n = fnd[f].activeRun.n
          /\ RemOn(remW, f) /\ remW.step = "finish" => remW.to = "HandedOff"
      BY <2>1 DEF Ordered
    <3>2. ASSUME RemOn(remW', f), remW'.step = "finish" PROVE remW' = remW
      <4>1. ASSUME NEW m \in Attempts, rem[f][m].phase = "Running", remW = NoStep PROVE FALSE
        <5>1. fnd[f].phase = "Remediating"
          BY <1>2, <4>1 DEF Ordered
        <5>2. m = n
          BY <3>1, <4>1, <5>1 DEF Reviewed, InFlight
        <5> QED BY <2>1, <4>1, <5>2
      <4> QED BY <1>1, <3>2, <4>1, WorkerMoves
    <3> QED BY <3>1, <3>2
  <2>2. CASE rem[f][n].phase = "Running" /\ RemOn(remW', f) /\ fnd[f].phase = "Remediating"
             /\ (remW'.step = "finish" => remW'.to = "HandedOff")
    BY <2>2 DEF Reviewed, InFlight
  <2>3. CASE rem[f][n].phase = "Running" /\ remW = NoStep
             /\ RemOn(remW', f) /\ remW'.step = "finish" /\ remW'.to = "HandedOff"
    <3>1. fnd[f].phase = "Remediating"
      BY <1>2, <2>3 DEF Ordered
    <3> QED BY <2>2, <2>3, <3>1
  <2>4. CASE rem[f][n].phase = "Running" /\ RemOn(remW, f) /\ remW.step = "stamp"
             /\ RemOn(remW', f) /\ remW'.step = "record"
    <3>1. fnd[f].phase = "Remediating"
      BY <2>4 DEF Ordered
    <3> QED BY <2>2, <2>4, <3>1
  <2> QED BY <1>1, <1>7, <2>1, <2>3, <2>4, RunMoves
<1> QED BY <1>4, <1>5, <1>6, <1>7 DEF Ordered

\* When the finding moves on with its remediation.
LEMMA OrderedMoves ==
    ASSUME IType, IType', [Next]_vars, NEW f \in Findings, FindingInv, RemediationLeases,
           Reviewed(f), Ordered(f), fnd[f].phase \in Remedied, fnd'[f].revived = FALSE,
           fnd'[f].phase # fnd[f].phase
    PROVE  Ordered(f)'
<1>1. /\ RemediationStep(f) /\ Handled(f) /\ remW \in RemSteps
      /\ Leased(rem[f], fnd[f].attRem, spawn[f] # NoStep) /\ fnd[f].attRem \in 0..MaxRuns
  BY RemediationSteps, FindingTyped
     DEF FindingInv, RemediationInv, RemediationLeases, Finding, IType, TypeOK, RemTypeOK
<1>2. ~RemOn(NoStep, f) /\ NoStep.step = "idle"
  BY DEF RemOn, NoStep
<1>3. CASE RemediationBegun(f) /\ fnd'[f].phase = "Remediating"
  <2>1. /\ RemOn(remW, f) /\ remW.step = "advance" /\ remW.n \in Attempts /\ fnd[f].phase = "Queued"
        /\ rem' = rem /\ spawn' = spawn /\ ~RemOn(remW', f)
    BY <1>1, <1>2, <1>3, RemStepTypes DEF RemediationBegun, RemAdvance, RemOn
  <2>2. rem[f][remW.n].phase = "Running"
    BY <1>1, <2>1 DEF Handled
  <2>3. spawn[f].step = "create" => Exists(rem[f][spawn[f].attempt])
    BY <2>1, <2>2 DEF Ordered, NoneInFlight, InFlight
  <2>4. \A n \in Attempts : rem[f][n].phase # "Pending"
    BY <1>1, <2>1, <2>2, LeasedOne DEF InFlight
  <2>5. \A n \in Attempts : rem[f][n].phase # "Complete"
    BY <2>1 DEF Ordered
  <2> QED BY <1>3, <2>1, <2>3, <2>4, <2>5 DEF Ordered, Remedied
<1>4. CASE fnd[f].phase = "Remediating" /\ \/ PullRequestRecorded(f) /\ fnd'[f].phase = "InReview"
                                           \/ RemediationFinished(f) /\ fnd'[f].phase = "Queued" /\ remW.to = "Queued"
  <2>1. /\ RemOn(remW, f) /\ remW.step \in {"record", "finish"} /\ remW.n \in Attempts
        /\ rem' = rem /\ spawn' = spawn /\ ~RemOn(remW', f)
    BY <1>1, <1>2, <1>4, RemStepTypes DEF PullRequestRecorded, RemRecord, RemediationFinished, RemFinish, RemOn
  <2>2. /\ spawn[f].step = "create" => Exists(rem[f][spawn[f].attempt])
        /\ \A n \in Attempts : rem[f][n].phase # "Pending"
    BY <1>4 DEF Ordered
  <2>3. Settled(rem[f][remW.n])
    BY <1>1, <2>1 DEF Handled, Settled
  <2>4. remW.n = fnd[f].activeRun.n
    BY <1>4, <2>1 DEF Reviewed
  <2>5. \A n \in Attempts : rem[f][n].phase # "Running"
    BY <1>4, <2>3, <2>4 DEF Reviewed, InFlight, Settled
  <2>6. ASSUME NEW n \in Attempts, rem[f][n].phase = "Complete" PROVE fnd'[f].phase # "Queued"
    <3> SUFFICES ASSUME fnd'[f].phase = "Queued" PROVE FALSE
      OBVIOUS
    <3>1. RemediationFinished(f) /\ remW.to = "Queued"
      BY <1>4
    <3>2. remW.step = "finish"
      BY <3>1 DEF RemediationFinished, RemFinish
    <3> QED BY <2>1, <2>6, <3>1, <3>2 DEF Ordered
  <2> QED BY <1>4, <2>1, <2>2, <2>5, <2>6 DEF Ordered, Remedied
<1>5. CASE fnd[f].phase = "InReview" /\ fnd'[f].phase = "Remediated" /\ UNCHANGED aside
  <2>1. rem' = rem /\ spawn' = spawn /\ remW' = remW
    BY <1>5 DEF aside
  <2> QED BY <1>5, <2>1 DEF Ordered, Remedied
<1>6. \/ RemediationBegun(f) /\ fnd'[f].phase = "Remediating"
      \/ PullRequestRecorded(f) /\ fnd[f].phase = "Remediating" /\ fnd'[f].phase = "InReview"
      \/ RemediationFinished(f) /\ fnd'[f].phase = "Queued" /\ remW.to = "Queued"
      \/ fnd[f].phase = "InReview" /\ fnd'[f].phase = "Remediated" /\ UNCHANGED aside
  BY OrderlyMoves
<1>7. RemediationFinished(f) => fnd[f].phase = "Remediating"
  BY DEF RemediationFinished
<1> QED BY <1>3, <1>4, <1>5, <1>6, <1>7, Zenon

LEMMA OrderedKept ==
    ASSUME IType, IType', [Next]_vars, [SeesLatest]_vars, GrantWhole, NEW f \in Findings, FindingInv,
           RemediationLeases, Reviewed(f), InTurn(f), Ordered(f), fnd'[f].revived = FALSE
    PROVE  Ordered(f)'
<1>1. RemediationStep(f) /\ Leasing(f) /\ spawn \in [Findings -> SpawnSteps]
  BY RemediationSteps DEF FindingInv, RemediationInv, IType, TypeOK, RemTypeOK
<1>2. CASE fnd[f].phase \notin Remedied
  <2>1. spawn'[f].step # "create" /\ ~RemOn(remW', f) /\ \A n \in Attempts : ~Exists(rem'[f][n])
    BY <1>1, <1>2, NothingBefore DEF NoStep
  <2> QED BY <2>1 DEF Ordered, Exists
<1>3. CASE fnd[f].phase \in Remedied /\ fnd'[f].phase # fnd[f].phase
  BY <1>3, OrderedMoves
<1>4. CASE fnd[f].phase \in Remedied /\ fnd'[f].phase = fnd[f].phase
  <2>1. fnd[f].phase = "Remediating" => fnd'[f].activeRun = fnd[f].activeRun
    <3>1. RemediationBegun(f) => fnd[f].phase = "Queued"
      BY DEF RemediationBegun
    <3> QED BY <1>4, <3>1, OrderlyMoves
  <2> QED BY <1>4, <2>1, OrderedStays
<1> QED BY <1>2, <1>3, <1>4

\* A Remediation that succeeded was the last of the finding's.
Followed(f) ==
    \A n, m \in Attempts : Exists(rem[f][n]) /\ n = m + 1 => rem[f][m].phase # "Complete"

LEMMA FollowedKept ==
    ASSUME IType, [Next]_vars, NEW f \in Findings, FindingInv, RemediationLeases, InTurn(f), Ordered(f), Followed(f)
    PROVE  Followed(f)'
<1>1. /\ RemediationStep(f) /\ Handled(f) /\ fnd[f].attRem \in 0..MaxRuns
      /\ Leased(rem[f], fnd[f].attRem, spawn[f] # NoStep)
      /\ spawn[f] # NoStep => spawn[f].attempt = fnd[f].attRem + 1
  BY RemediationSteps, FindingTyped DEF FindingInv, RemediationInv, RemediationLeases, Finding
<1>2. SUFFICES ASSUME NEW n \in Attempts, NEW m \in Attempts, Exists(rem'[f][n]), n = m + 1,
                      rem'[f][m].phase = "Complete"
               PROVE  FALSE
  BY DEF Followed
<1>3. NoStep.step = "idle"
  BY DEF NoStep
<1>4. CASE Exists(rem[f][n])
  <2>1. rem[f][m].phase = "Running"
    BY <1>1, <1>2, <1>4, RunMoves DEF Followed
  <2>2. m \in {fnd[f].attRem, fnd[f].attRem + 1}
    BY <1>1, <2>1 DEF Leased, InFlight
  <2>3. n <= fnd[f].attRem \/ (n = fnd[f].attRem + 1 /\ (m = fnd[f].attRem => ~InFlight(rem[f][m])))
    BY <1>4 DEF InTurn
  <2> QED BY <1>1, <1>2, <2>1, <2>2, <2>3, MaxRunsAssumption DEF Attempts, InFlight
<1>5. CASE ~Exists(rem[f][n])
  <2>1. spawn[f].step = "create" /\ n = spawn[f].attempt
    BY <1>1, <1>2, <1>5, RunMoves DEF Exists
  <2>2. rem[f][m].phase # "Complete" /\ ~InFlight(rem[f][m])
    BY <1>5, <2>1 DEF Ordered, NoneInFlight
  <2>3. rem'[f][m].phase = rem[f][m].phase \/ m = spawn[f].attempt
    BY <1>1, <1>2, <2>2, RunMoves DEF InFlight
  <2> QED BY <1>2, <2>1, <2>2, <2>3, MaxRunsAssumption DEF Attempts
<1> QED BY <1>4, <1>5

\* Of the attempts there are, fewer than bound count.
Within(f, bound) == \A n \in Attempts : Exists(rem[f][n]) => Count(n, MarkedRem(f)) < bound

\* The attempts that count are within the budget, and one is left whenever the
\* spawner may create another.
Afforded(f) ==
    /\ Within(f, MaxAttempts + 1)
    /\ fnd[f].phase = "Queued" /\ NoneInFlight(f) => Within(f, MaxAttempts)
    /\ RemOn(remW, f) /\ remW.step = "finish" /\ remW.to = "Queued" => Within(f, MaxAttempts)

\* Marks only lower the count.
LEMMA WithinKept ==
    ASSUME NEW f \in Findings, NEW bound \in Nat, Within(f, bound), MarkedRem(f) \subseteq MarkedRem(f)',
           \A n \in Attempts : Exists(rem'[f][n]) => Exists(rem[f][n])
    PROVE  Within(f, bound)'
<1> SUFFICES ASSUME NEW n \in Attempts, Exists(rem'[f][n]) PROVE Count(n, MarkedRem(f)') < bound
  BY DEF Within
<1>1. Count(n, MarkedRem(f)) < bound /\ n \in Nat
  BY DEF Within, Attempts
<1> DEFINE marked == MarkedRem(f)
           more == MarkedRem(f)'
<1>2. marked \subseteq more
  OBVIOUS
<1> HIDE DEF marked, more
<1>3. Count(n, more) <= Count(n, marked) /\ Count(n, more) \in Nat /\ Count(n, marked) \in Nat
  BY <1>1, <1>2, CountMarked, CountType
<1>4. Count(n, marked) < bound
  BY <1>1 DEF marked
<1>5. Count(n, more) < bound
  BY <1>3, <1>4
<1> QED BY <1>5 DEF more

\* The attempt the spawner creates is the next one.
LEMMA NextWithin ==
    ASSUME IType, NEW f \in Findings, Tallied(f), Within(f, MaxAttempts),
           MarkedRem(f) \subseteq MarkedRem(f)',
           fnd[f].attRem + 1 \in Attempts,
           \A n \in Attempts : Exists(rem'[f][n]) => Exists(rem[f][n]) \/ n = fnd[f].attRem + 1
    PROVE  Within(f, MaxAttempts + 1)'
<1> DEFINE att == fnd[f].attRem
           marked == MarkedRem(f)
           more == MarkedRem(f)'
<1>1. att \in 0..MaxRuns /\ MaxRuns \in Nat /\ MaxAttempts \in Nat \ {0} /\ marked \subseteq more
  BY FindingTyped, MaxRunsAssumption, MaxAttemptsAssumption DEF Finding
<1>2. ASSUME NEW n \in Attempts, Exists(rem[f][n]) PROVE Count(n, marked) < MaxAttempts
  BY <1>2 DEF Within
<1>3. Count(att, marked) < MaxAttempts
  <2>1. CASE att = 0
    BY <1>1, <2>1, CountNone
  <2>2. CASE att # 0
    <3>1. att \in Attempts /\ Exists(rem[f][att])
      BY <1>1, <2>2 DEF Tallied, Attempts
    <3> QED BY <1>2, <3>1
  <2> QED BY <2>1, <2>2
<1>4. \A n \in Attempts : Exists(rem'[f][n]) => Exists(rem[f][n]) \/ n = att + 1
  OBVIOUS
<1> SUFFICES ASSUME NEW n \in Attempts, Exists(rem'[f][n]) PROVE Count(n, more) < MaxAttempts + 1
  BY DEF Within
<1> HIDE DEF att, marked, more
<1>5. n \in Nat /\ att \in Nat
  BY <1>1 DEF Attempts
<1>6. Count(n, more) <= Count(n, marked) /\ Count(n, more) \in Nat /\ Count(n, marked) \in Nat
  BY <1>1, <1>5, CountMarked, CountType
<1>7. CASE Exists(rem[f][n])
  BY <1>1, <1>2, <1>6, <1>7
<1>8. CASE n = att + 1
  <2>1. Count(att + 1, marked) <= Count(att, marked) + 1 /\ Count(att, marked) \in Nat
    BY <1>5, CountNext, CountType
  <2> QED BY <1>1, <1>3, <1>6, <1>8, <2>1
<1> QED BY <1>4, <1>7, <1>8

\* The attempt in flight is the last there is.
LEMMA InFlightLast ==
    ASSUME IType, NEW f \in Findings, RemediationLeases, InTurn(f),
           NEW n \in Attempts, InFlight(rem[f][n]), NEW m \in Attempts, Exists(rem[f][m])
    PROVE  m <= n
<1>1. Leased(rem[f], fnd[f].attRem, spawn[f] # NoStep) /\ fnd[f].attRem \in 0..MaxRuns
  BY FindingTyped DEF RemediationLeases, Finding
<1>2. n \in {fnd[f].attRem, fnd[f].attRem + 1}
  BY <1>1 DEF Leased
<1>3. m <= fnd[f].attRem \/ (m = fnd[f].attRem + 1 /\ n # fnd[f].attRem)
  BY DEF InTurn
<1> QED BY <1>1, <1>2, <1>3, MaxRunsAssumption DEF Attempts

\* An attempt that ends, and sends its finding back to the queue, leaves one:
\* it is marked, or consumedAttempts has found it within the budget.
LEMMA EndedWithin ==
    ASSUME IType, IType', NEW f \in Findings, RemediationLeases, Tallied(f), InTurn(f),
           Within(f, MaxAttempts + 1), MarkedRem(f) \subseteq MarkedRem(f)',
           \A m \in Attempts : Exists(rem'[f][m]) => Exists(rem[f][m]),
           RemediationEnded(f), remW'.to = "Queued"
    PROVE  Within(f, MaxAttempts)'
<1> DEFINE marked == MarkedRem(f)
           more == MarkedRem(f)'
<1>1. PICK n \in Attempts :
         /\ rem[f][n].phase = "Running"
         /\ \/ rem'[f][n].refused = TRUE
            \/ RemConsumed(f, n) < MaxAttempts
  BY DEF RemediationEnded
<1>2. InFlight(rem[f][n]) /\ Exists(rem[f][n]) /\ n \notin marked
  BY <1>1 DEF InFlight, Exists, Tallied
<1>3. ASSUME NEW m \in Attempts, Exists(rem'[f][m]) PROVE m <= n
  BY <1>2, <1>3, InFlightLast
<1>4. n \in Nat \ {0} /\ n \in 1..n /\ MaxAttempts \in Nat \ {0} /\ marked \subseteq more
  BY MaxAttemptsAssumption DEF Attempts
<1>5. rem'[f][n].refused = TRUE => n \in more
  BY DEF MarkedRem
<1>6. Count(n, marked) < MaxAttempts + 1
  BY <1>2 DEF Within
<1>7. RemConsumed(f, n) = n - Cardinality({m \in 1..(n - 1) : m \in marked})
  <2>1. ASSUME NEW m \in 1..(n - 1) PROVE (rem[f][m].refused \/ rem[f][m].held) <=> m \in marked
    <3>1. m \in Attempts
      BY MaxRunsAssumption DEF Attempts
    <3>2. rem[f][m].refused \in BOOLEAN /\ rem[f][m].held \in BOOLEAN
      BY <3>1 DEF IType, TypeOK, ClusterTypeOK, Run
    <3> QED BY <3>1, <3>2 DEF MarkedRem
  <2>2. {m \in 1..(n - 1) : rem[f][m].refused \/ rem[f][m].held} = {m \in 1..(n - 1) : m \in marked}
    BY <2>1
  <2> HIDE DEF marked
  <2> QED BY <2>2, Zenon DEF RemConsumed
<1> HIDE DEF marked, more
<1>8. RemConsumed(f, n) = Count(n, marked)
  BY <1>2, <1>4, <1>7, CountConsumed
<1>9. Count(n, more) < MaxAttempts
  <2>1. Count(n, marked) \in Nat /\ Count(n, more) \in Nat /\ Count(n, more) <= Count(n, marked)
    BY <1>4, CountType, CountMarked
  <2>2. CASE rem'[f][n].refused = TRUE
    <3>1. Count(n, more) < Count(n, marked)
      BY <1>2, <1>4, <1>5, <2>2, CountMarked
    <3> QED BY <1>4, <1>6, <2>1, <3>1
  <2>3. CASE RemConsumed(f, n) < MaxAttempts
    BY <1>4, <1>8, <2>1, <2>3
  <2> QED BY <1>1, <2>2, <2>3
<1> SUFFICES ASSUME NEW m \in Attempts, Exists(rem'[f][m]) PROVE Count(m, more) < MaxAttempts
  BY DEF Within, more
<1>10. m \in Nat /\ m <= n
  BY <1>3 DEF Attempts
<1>11. Count(m, more) <= Count(n, more) /\ Count(m, more) \in Nat /\ Count(n, more) \in Nat
  BY <1>4, <1>10, CountUpTo, CountType
<1> QED BY <1>4, <1>9, <1>11

LEMMA AffordedKept ==
    ASSUME IType, IType', [Next]_vars, GrantWhole, NEW f \in Findings, FindingInv, RemediationLeases,
           Reviewed(f), Tallied(f), InTurn(f), Ordered(f), Afforded(f), fnd'[f].revived = FALSE
    PROVE  Afforded(f)'
<1>1. /\ RemediationStep(f) /\ Handled(f) /\ Leasing(f) /\ spawn \in [Findings -> SpawnSteps]
      /\ spawn[f] # NoStep => spawn[f].attempt = fnd[f].attRem + 1
      /\ MaxAttempts \in Nat /\ MaxAttempts + 1 \in Nat
  BY RemediationSteps, MaxAttemptsAssumption
     DEF FindingInv, RemediationInv, RemediationLeases, IType, TypeOK, RemTypeOK
<1>2. MarkedRem(f) \subseteq MarkedRem(f)'
  BY <1>1, MarksMade DEF Tallied
<1>3. ~RemOn(NoStep, f) /\ NoStep.step = "idle"
  BY DEF RemOn, NoStep
<1>4. CASE fnd[f].phase \notin Remedied
  <2>1. ~RemOn(remW', f) /\ \A n \in Attempts : ~Exists(rem'[f][n])
    BY <1>1, <1>4, NothingBefore
  <2> QED BY <2>1 DEF Afforded, Within
<1>5. CASE \E n \in Attempts : Exists(rem'[f][n]) /\ ~Exists(rem[f][n])
  <2>1. PICK k \in Attempts : Exists(rem'[f][k]) /\ ~Exists(rem[f][k])
    BY <1>5
  <2>2. /\ spawn[f].step = "create" /\ spawn[f] # NoStep /\ k = spawn[f].attempt
        /\ rem'[f][k].phase = "Pending" /\ remW' = remW
    BY <1>1, <1>3, <2>1, RunMoves DEF Exists
  <2>3. \A n \in Attempts : Exists(rem'[f][n]) => Exists(rem[f][n]) \/ n = fnd[f].attRem + 1
    BY <1>1, <2>2, RunMoves DEF Exists
  <2>4. fnd[f].phase = "Queued" /\ NoneInFlight(f)
    BY <2>1, <2>2 DEF Ordered
  <2>5. Within(f, MaxAttempts + 1)'
    BY <1>1, <1>2, <2>2, <2>3, <2>4, NextWithin DEF Afforded
  <2>6. ~NoneInFlight(f)'
    BY <2>2 DEF NoneInFlight, InFlight
  <2>7. ~(RemOn(remW', f) /\ remW'.step = "finish")
    BY <2>2, <2>4 DEF Ordered
  <2> QED BY <2>5, <2>6, <2>7 DEF Afforded
<1>6. CASE fnd[f].phase \in Remedied /\ \A n \in Attempts : Exists(rem'[f][n]) => Exists(rem[f][n])
  <2>1. Within(f, MaxAttempts + 1)'
    BY <1>1, <1>2, <1>6, WithinKept DEF Afforded
  <2>2. ASSUME Within(f, MaxAttempts) PROVE Within(f, MaxAttempts)'
    BY <1>1, <1>2, <1>6, <2>2, WithinKept
  <2>3. ASSUME fnd'[f].phase = "Queued", NoneInFlight(f)' PROVE Within(f, MaxAttempts)'
    <3>1. CASE fnd[f].phase = "Queued"
      <4>1. ASSUME NEW n \in Attempts, InFlight(rem[f][n]) PROVE FALSE
        <5>1. ~InFlight(rem'[f][n])
          BY <2>3 DEF NoneInFlight
        <5> QED BY <1>1, <1>3, <3>1, <4>1, <5>1, RunMoves DEF InFlight, Ordered, Exists
      <4> QED BY <2>2, <3>1, <4>1 DEF Afforded, NoneInFlight
    <3>2. CASE fnd[f].phase # "Queued"
      <4>1. RemediationFinished(f) /\ remW.to = "Queued"
        BY <1>6, <2>3, <3>2, OrderlyMoves
      <4>2. RemOn(remW, f) /\ remW.step = "finish"
        BY <1>3, <4>1 DEF RemediationFinished, RemFinish, RemOn
      <4> QED BY <2>2, <4>1, <4>2 DEF Afforded
    <3> QED BY <3>1, <3>2
  <2>4. ASSUME RemOn(remW', f), remW'.step = "finish", remW'.to = "Queued" PROVE Within(f, MaxAttempts)'
    <3>1. CASE remW' = remW
      BY <2>2, <2>4, <3>1 DEF Afforded
    <3>2. CASE RemediationEnded(f)
      BY <1>2, <1>6, <2>4, <3>2, EndedWithin DEF Afforded
    <3>3. CASE remW' # remW /\ ~RemediationEnded(f)
      <4>1. ~(RemediationTaken(f) \/ RemediationGranted(f))
        <5> SUFFICES ASSUME RemediationTaken(f) \/ RemediationGranted(f) PROVE FALSE
          OBVIOUS
        <5>1. remW'.step \in {"advance", "recordJob", "ensurePR"}
          BY DEF RemediationTaken, RemediationGranted
        <5> QED BY <2>4, <5>1
      <4> QED BY <1>1, <1>3, <2>4, <3>3, <4>1
           DEF RemediationStep, RemediationQuiet, RemediationDecided, RemediationCreated, RemediationNumbered,
               RemediationAdvanced, RemediationJobRecorded, RemediationPREnsured, RemediationStamped,
               RemediationReported
    <3> QED BY <3>1, <3>2, <3>3
  <2> QED BY <2>1, <2>3, <2>4 DEF Afforded
<1> QED BY <1>4, <1>5, <1>6

TallyInv == \A f \in Findings : Tallied(f)

Untroubled(f) ==
    /\ InTurn(f)
    /\ fnd[f].revived = FALSE => Ordered(f) /\ Followed(f) /\ Afforded(f)

UntroubledInv == \A f \in Findings : Untroubled(f)

LEMMA UntroubledKept ==
    ASSUME IType, IType', [Next]_vars, [SeesLatest /\ GrantWhole]_vars, FindingInv, RemediationLeases,
           ReviewInv, TallyInv, UntroubledInv
    PROVE  UntroubledInv'
<1>0. CASE UNCHANGED vars
  BY <1>0 DEF vars, cluster, invVars, remVars, UntroubledInv, Untroubled, InTurn, Ordered, NoneInFlight, Followed,
              Afforded, Within, MarkedRem
<1> SUFFICES ASSUME SeesLatest, GrantWhole, NEW f \in Findings PROVE Untroubled(f)'
  BY <1>0 DEF UntroubledInv
<1>1. Untroubled(f) /\ Reviewed(f) /\ Tallied(f)
  BY DEF UntroubledInv, ReviewInv, TallyInv
<1>2. InTurn(f) /\ InTurn(f)'
  BY <1>1, TurnsKept DEF Untroubled
<1>3. ASSUME fnd'[f].revived = FALSE PROVE Ordered(f)' /\ Followed(f)' /\ Afforded(f)'
  <2>1. FindingStep(f) /\ fnd[f] \in Finding /\ fnd'[f] \in Finding
    BY FindingSteps, FindingTyped DEF FindingInv, LifeInv, IType, TypeOK, ClusterTypeOK
  <2>2. Ordered(f) /\ Followed(f) /\ Afforded(f)
    BY <1>1, <1>3, <2>1, RevivedStays DEF Untroubled
  <2> QED BY <1>1, <1>2, <1>3, <2>2, OrderedKept, FollowedKept, AffordedKept
<1> QED BY <1>2, <1>3 DEF Untroubled

LEMMA UntroubledInitially == Init => TallyInv /\ UntroubledInv
<1> SUFFICES ASSUME Init, NEW f \in Findings PROVE Tallied(f) /\ Untroubled(f)
  BY DEF TallyInv, UntroubledInv
<1>1. /\ \A n \in Attempts : ~Exists(rem[f][n]) /\ rem[f][n].phase = "none"
                             /\ rem[f][n].refused = FALSE /\ rem[f][n].held = FALSE
      /\ spawn[f].step = "idle" /\ ~RemOn(remW, f) /\ fnd[f].attRem = 0
  <2>1. NotCreated.phase = "none" /\ NotCreated.refused = FALSE /\ NotCreated.held = FALSE /\ NoStep.step = "idle"
    BY DEF NotCreated, NoStep
  <2>2. /\ \A n \in Attempts : rem[f][n] = NotCreated
        /\ spawn[f] = NoStep /\ remW = NoStep /\ fnd[f].attRem = 0
    BY FirstFinding, Zenon
  <2> QED BY <2>1, <2>2 DEF Exists, RemOn
<1>2. Tallied(f)
  BY <1>1 DEF Tallied, MarkedRem, Attempts
<1>3. InTurn(f) /\ Ordered(f) /\ Followed(f)
  BY <1>1 DEF InTurn, Ordered, Followed
<1>4. Afforded(f)
  BY <1>1 DEF Afforded, Within
<1> QED BY <1>2, <1>3, <1>4 DEF Untroubled

LEMMA UntroubledHolds == Spec => ([][SeesLatest /\ GrantWhole]_vars => [](TallyInv /\ UntroubledInv))
<1>0. [SeesLatest /\ GrantWhole]_vars => [SeesLatest]_vars
  OBVIOUS
<1>1. RemediationLeases /\ IType /\ [Next]_vars /\ [SeesLatest]_vars => RemediationLeases'
  BY RemLeasesKept, Zenon
<1>2. ReviewInv /\ RemediationLeases /\ FindingInv /\ FindingInv' /\ IType /\ IType' /\ [Next]_vars => ReviewInv'
  BY ReviewKept
<1>3. TallyInv /\ RemediationLeases /\ FindingInv /\ IType /\ IType' /\ [Next]_vars => TallyInv'
  BY TallyKept DEF TallyInv
<1>4. /\ TallyInv /\ UntroubledInv /\ ReviewInv /\ RemediationLeases /\ FindingInv /\ IType /\ IType'
      /\ [Next]_vars /\ [SeesLatest /\ GrantWhole]_vars
      => UntroubledInv'
  BY UntroubledKept, Zenon
<1> QED BY <1>0, <1>1, <1>2, <1>3, <1>4, UntroubledInitially, RemLeasesInitially, ReviewInitially, Typed, FindingHolds,
           PTL DEF Spec

\* A remediation that succeeded is not followed by another of the same finding
\* unless it failed or was handed off since, which takes a person to undo.  Two
\* things alone can undo it, whatever else is cut short, restarted or lags: a
\* worker that stops between the grant's two writes leaves the finding Queued,
\* its run goes on to succeed, and the spawner opens another; a SpawnDecide
\* whose cache misses the latest attempt opens one beside it.
THEOREM SuccessorRequested == Spec => ([][SeesLatest /\ GrantWhole]_vars => []SuccessorNeedsRequest)
<1>1. IType /\ UntroubledInv => SuccessorNeedsRequest
  <2> SUFFICES ASSUME IType, UntroubledInv, NEW f \in Findings, NEW n \in Attempts \ {1},
                      rem[f][n].phase # "none", rem[f][n - 1].phase = "Complete"
               PROVE  fnd[f].revived
    BY DEF SuccessorNeedsRequest
  <2>1. Untroubled(f) /\ n - 1 \in Attempts /\ n = (n - 1) + 1 /\ Exists(rem[f][n])
    BY MaxRunsAssumption DEF UntroubledInv, Attempts, Exists
  <2>2. ~Followed(f)
    BY <2>1 DEF Followed
  <2>3. fnd[f].revived \in BOOLEAN
    BY FindingTyped DEF Finding
  <2> QED BY <2>1, <2>2, <2>3 DEF Untroubled
<1> QED BY <1>1, UntroubledHolds, Typed, PTL

\* --max-attempts holds for remediations: of those a finding is given before it
\* first fails or is handed off, at most MaxAttempts had an agent that was
\* neither refused nor held.  The worker that ends an attempt decides it by the
\* attempt's number and the marks of the earlier ones, the spawner looks at the
\* phase alone, and the two agree, whatever else is cut short, restarted or
\* lags, until a grant is cut short, which leaves the finding Queued when its
\* last attempt fails, or the spawner's cache misses the latest attempt.
THEOREM RemediationsBudgeted == Spec => ([][SeesLatest /\ GrantWhole]_vars => []RemediationBudget)
<1>1. IType /\ UntroubledInv => RemediationBudget
  <2> SUFFICES ASSUME IType, UntroubledInv, NEW f \in Findings, NEW n \in Attempts,
                      rem[f][n].phase # "none",
                      Cardinality({m \in 1..n : ~rem[f][m].refused /\ ~rem[f][m].held}) > MaxAttempts
               PROVE  fnd[f].revived
    BY DEF RemediationBudget
  <2>1. \A m \in 1..n : (~rem[f][m].refused /\ ~rem[f][m].held) <=> m \notin MarkedRem(f)
    <3>1. \A m \in 1..n : m \in Attempts
      BY MaxRunsAssumption DEF Attempts
    <3>2. \A m \in Attempts : rem[f][m].refused \in BOOLEAN /\ rem[f][m].held \in BOOLEAN
      BY DEF IType, TypeOK, ClusterTypeOK, Run
    <3> QED BY <3>1, <3>2 DEF MarkedRem
  <2>2. {m \in 1..n : ~rem[f][m].refused /\ ~rem[f][m].held} = Unmarked(n, MarkedRem(f))
    BY <2>1 DEF Unmarked
  <2>3. Count(n, MarkedRem(f)) > MaxAttempts
    BY <2>2, Zenon DEF Count
  <2>4. Count(n, MarkedRem(f)) \in Nat /\ MaxAttempts \in Nat
    BY CountType, MaxAttemptsAssumption DEF Attempts
  <2>5. fnd[f].revived \in BOOLEAN
    BY FindingTyped DEF Finding
  <2>6. CASE fnd[f].revived = FALSE
    <3>1. Count(n, MarkedRem(f)) < MaxAttempts + 1
      BY <2>6 DEF UntroubledInv, Untroubled, Afforded, Within, Exists
    <3> QED BY <2>3, <2>4, <3>1
  <2> QED BY <2>5, <2>6
<1> QED BY <1>1, UntroubledHolds, Typed, PTL
=============================================================================
