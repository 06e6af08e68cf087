------------------------- MODULE ReviewClose_proofs -------------------------
(***************************************************************************)
(* What becomes of a finding in review is true, for any number of clicks,  *)
(* deliveries lost and copied, and reads that fail: it is Remediated or    *)
(* Failed only for what happened to its own pull request, handed off only  *)
(* for a close that was seen, and settled once.                            *)
(*                                                                         *)
(* None is inductive: the phase is written from a delivery sent, or a pull *)
(* request read, long before.  Evidence says that both stay true, because  *)
(* a merge is for ever and a close is remembered; Watched, that a pass     *)
(* knows of every close since it began, and why it has not read the issue. *)
(***************************************************************************)
EXTENDS ReviewClose, TLAPS

Passes == [at: {"pull", "issue", "write"}, of: Findings, pull: {"", "open", "closed", "merged", "unreadable"},
           issue: {"", "open", "closed"}, by: {"nobody", "person", "merge"}, closed: BOOLEAN]
Githubs == [issue: {"open", "closed"}, by: {"nobody", "person", "merge"},
            pull: {"open", "closed", "merged"}, wasClosed: BOOLEAN]
Bounds == {"click", "foreign", "lost", "copy", "unreadable", "failure"}

Types ==
    /\ fnd \in Findings /\ cache \in Findings /\ github \in Githubs
    /\ mail \in [Kinds -> Nat] /\ pass \in {Idle} \cup Passes /\ integration \in BOOLEAN
    /\ used \in [Bounds -> Nat]

Evidence ==
    /\ mail["merged"] > 0 => github.pull = "merged"
    /\ mail["closed"] > 0 => github.wasClosed
    /\ github.pull = "closed" => github.wasClosed
    /\ pass \in Passes => /\ pass.pull = "merged" => github.pull = "merged"
                          /\ pass.pull = "closed" => github.wasClosed

Watched ==
    pass \in Passes =>
        /\ pass.of.phase = "InReview"
        /\ github.issue = "closed" => pass.closed
        /\ pass.issue = "closed" => pass.closed
        /\ pass.at # "write" => pass.issue = ""
        /\ pass.at = "write" /\ pass.of.pending = "issue" /\ pass.pull \notin {"closed", "merged"} /\ pass.issue = ""
           => used.unreadable > 0

IInv == Types /\ Evidence /\ Watched /\ OutcomeTrue

-----------------------------------------------------------------------------
(* What a step may make of the finding                                       *)

LEMMA UseBound ==
    ASSUME NEW b \in Bounds, used \in [Bounds -> Nat], Use(b)
    PROVE  used' \in [Bounds -> Nat] /\ used'.unreadable >= used.unreadable /\ used'[b] > 0
BY DEF Use, Bounds

\* An unreadable answer once counted stays counted.
LEMMA UsedGrows ==
    ASSUME used \in [Bounds -> Nat], (\E b \in Bounds : Use(b)) \/ UNCHANGED used
    PROVE  used' \in [Bounds -> Nat] /\ (used.unreadable > 0 => used'.unreadable > 0)
<1>1. CASE UNCHANGED used
  BY <1>1
<1>2. CASE \E b \in Bounds : Use(b)
  <2>1. PICK b \in Bounds : Use(b)
    BY <1>2
  <2>2. used.unreadable \in Nat /\ used'.unreadable \in Nat
    BY <2>1, UseBound DEF Bounds
  <2> QED
    BY <2>1, <2>2, UseBound
<1> QED
  BY <1>1, <1>2

\* A write puts what it was given, but for the version.
LEMMA PutFinding ==
    ASSUME fnd \in Findings, NEW f \in Findings, Put(f)
    PROVE  fnd' \in Findings /\ fnd'.phase = f.phase
BY DEF Put, Findings

\* Sending leaves every other kind of delivery as it was.
LEMMA SendMail ==
    ASSUME NEW ks \in SUBSET Kinds, mail \in [Kinds -> Nat], Send(ks)
    PROVE  /\ mail' \in [Kinds -> Nat]
           /\ \A k \in Kinds \ ks : mail'[k] = mail[k]
BY DEF Send

\* Every way a finding may leave review: with proof of its outcome.
LEMMA HandledOutcome ==
    ASSUME NEW k \in Kinds, NEW f \in Findings
    PROVE  /\ Handled(k, f) \in Findings
           /\ \/ Handled(k, f).phase = f.phase
              \/ f.phase = "InReview" /\ k = "merged" /\ Handled(k, f).phase = "Remediated"
              \/ f.phase = "InReview" /\ k = "closed" /\ Handled(k, f).phase = "Failed"
BY DEF Handled, IssueClosed, Elsewhere, Settle, Kinds, Findings

LEMMA SettlementOutcome ==
    ASSUME NEW p \in Passes
    PROVE  LET f == SettlePendingClose(p.of, p.pull, p.issue) IN
           /\ f \in Findings
           /\ \/ f.phase = p.of.phase
              \/ p.pull = "merged" /\ f.phase = "Remediated"
              \/ p.pull = "closed" /\ f.phase = "Failed"
              \/ /\ f.phase = "HandedOff" /\ p.pull \notin {"closed", "merged"} /\ p.of.pending = "issue"
                 /\ p.issue \in {"", "closed"}
BY DEF SettlePendingClose, Settle, Passes, Findings

\* A pass under way is one of the Passes, and the idle one is not.
LEMMA UnderWay ==
    ASSUME pass \in {Idle} \cup Passes
    PROVE  pass \in Passes <=> pass.at \in {"pull", "issue", "write"}
<1>1. Idle.at = "idle"
  BY DEF Idle
<1>2. \A p \in Passes : p.at \in {"pull", "issue", "write"}
  BY DEF Passes
<1> QED
  BY <1>1, <1>2

LEMMA InitInv == Init => IInv
<1> SUFFICES ASSUME Init PROVE IInv
  OBVIOUS
<1>1. Types
  BY DEF Init, Types, Findings, Githubs, Bounds, Limit
<1>2. pass \notin Passes
  BY UnderWay, <1>1 DEF Init, Idle, Types
<1>3. mail["merged"] = 0 /\ mail["closed"] = 0
  BY DEF Init, Kinds
<1>4. Evidence
  BY <1>2, <1>3 DEF Init, Evidence
<1>5. Watched /\ OutcomeTrue
  BY <1>2 DEF Init, Watched, OutcomeTrue
<1> QED
  BY <1>1, <1>4, <1>5 DEF IInv

-----------------------------------------------------------------------------
(* The steps, one by one                                                     *)

LEMMA DeliverStep ==
    ASSUME IInv, NEW k \in Kinds, Deliver(k)
    PROVE  IInv' /\ (fnd'.phase = fnd.phase \/ (fnd.phase = "InReview" /\ fnd'.phase \in {"Remediated", "Failed"}))
<1> DEFINE f == Handled(k, fnd)
<1>1. f \in Findings /\ fnd \in Findings
  BY HandledOutcome DEF IInv, Types
<1>2. fnd' \in Findings /\ fnd'.phase = f.phase
  BY <1>1, PutFinding DEF Deliver
<1>3. used' \in [Bounds -> Nat] /\ (used.unreadable > 0 => used'.unreadable > 0)
  BY UsedGrows DEF Deliver, IInv, Types, Bounds
<1>4. mail' \in [Kinds -> Nat] /\ \A j \in Kinds : mail'[j] > 0 => mail[j] > 0
  BY DEF Deliver, IInv, Types
<1>5. Types'
  BY <1>2, <1>3, <1>4 DEF Deliver, IInv, Types
<1>6. Evidence'
  BY <1>4 DEF Deliver, IInv, Evidence, Kinds
<1>7. Watched'
  BY <1>3 DEF Deliver, IInv, Watched, Types, Bounds
<1>8. OutcomeTrue'
  BY <1>1, <1>2, HandledOutcome DEF Deliver, IInv, OutcomeTrue, Evidence
<1> QED
  BY <1>1, <1>2, <1>5, <1>6, <1>7, <1>8, HandledOutcome DEF IInv

LEMMA SettleStep ==
    ASSUME IInv, SettleReview
    PROVE  /\ IInv'
           /\ fnd.phase # "InReview" => fnd'.phase = fnd.phase
           /\ fnd'.phase = "HandedOff" /\ fnd.phase # "HandedOff"
              => pass.closed \/ (pass.issue = "" /\ used.unreadable > 0)
<1> DEFINE f == SettlePendingClose(pass.of, pass.pull, pass.issue)
<1>1. pass \in Passes /\ pass.at = "write"
  BY UnderWay DEF SettleReview, IInv, Types
<1>2. fnd' = fnd \/ (fnd = pass.of /\ f \in Findings /\ fnd' \in Findings /\ fnd'.phase = f.phase)
  BY <1>1, PutFinding, SettlementOutcome DEF SettleReview, IInv, Types
<1>3. pass' = Idle /\ pass' \notin Passes
  BY <1>1 DEF SettleReview, Idle, Passes
<1>4. Types'
  BY <1>2, <1>3 DEF SettleReview, IInv, Types
<1>5. Evidence' /\ Watched'
  BY <1>3 DEF SettleReview, IInv, Evidence, Watched
<1>6. OutcomeTrue'
  BY <1>1, <1>2, SettlementOutcome DEF SettleReview, IInv, OutcomeTrue, Evidence, Watched
<1>7. fnd.phase # "InReview" => fnd'.phase = fnd.phase
  BY <1>1, <1>2 DEF IInv, Watched
<1>8. fnd'.phase = "HandedOff" /\ fnd.phase # "HandedOff"
      => pass.closed \/ (pass.issue = "" /\ used.unreadable > 0)
  BY <1>1, <1>2, SettlementOutcome DEF IInv, Watched
<1> QED
  BY <1>4, <1>5, <1>6, <1>7, <1>8 DEF IInv

\* The reads, and the passes that are lost.
LEMMA ReadStep ==
    ASSUME IInv, Begin \/ ReadPull \/ ReadIssue \/ LosePass
    PROVE  IInv' /\ fnd' = fnd
<1>1. CASE Begin
  <2>1. pass' \in Passes /\ pass'.of.phase = "InReview" /\ pass'.pull = "" /\ pass'.issue = ""
        /\ pass'.at = "pull" /\ pass'.closed = (github.issue = "closed")
    BY <1>1 DEF Begin, Passes, IInv, Types, Githubs
  <2> QED
    BY <1>1, <2>1 DEF Begin, IInv, Types, Evidence, Watched, OutcomeTrue
<1>2. CASE ReadPull
  <2>1. pass \in Passes /\ pass.at = "pull"
    BY <1>2, UnderWay DEF ReadPull, IInv, Types
  <2>2. used' \in [Bounds -> Nat] /\ (used.unreadable > 0 => used'.unreadable > 0)
    BY <1>2, UsedGrows DEF ReadPull, IInv, Types, Bounds
  <2>3. PICK pull \in {"unreadable", github.pull} :
          pass' = [pass EXCEPT !.pull = pull,
                     !.at = IF pass.of.pending = "issue" /\ pull \in {"open", "unreadable"} THEN "issue" ELSE "write"]
    BY <1>2 DEF ReadPull
  <2>4. /\ pass' \in Passes /\ pass'.of = pass.of /\ pass'.pull = pull /\ pass'.issue = pass.issue
        /\ pass'.closed = pass.closed
        /\ pass'.at = "write" => pass.of.pending # "issue" \/ pull \notin {"open", "unreadable"}
    BY <2>1, <2>3 DEF Passes, IInv, Types, Githubs
  <2>5. github.pull \in {"open", "closed", "merged"}
    BY DEF IInv, Types, Githubs
  <2> QED
    BY <1>2, <2>1, <2>2, <2>3, <2>4, <2>5 DEF ReadPull, IInv, Types, Evidence, Watched, OutcomeTrue
<1>3. CASE ReadIssue
  <2>1. pass \in Passes /\ pass.at = "issue"
    BY <1>3, UnderWay DEF ReadIssue, IInv, Types
  <2>2. used' \in [Bounds -> Nat]
    BY <1>3, UseBound DEF ReadIssue, IInv, Types, Bounds
  <2>3. /\ pass' \in Passes /\ pass'.of = pass.of /\ pass'.pull = pass.pull /\ pass'.closed = pass.closed
        /\ pass'.at = "write"
        /\ \/ pass'.issue = github.issue
           \/ pass'.issue = "" /\ used'.unreadable > 0
    BY <1>3, <2>1, UseBound DEF ReadIssue, Passes, IInv, Types, Githubs, Bounds, Watched
  <2>4. github.issue \in {"open", "closed"}
    BY DEF IInv, Types, Githubs
  <2> QED
    BY <1>3, <2>1, <2>2, <2>3, <2>4 DEF ReadIssue, IInv, Types, Evidence, Watched, OutcomeTrue
<1>4. CASE LosePass
  <2>1. pass' = Idle /\ pass' \notin Passes
    BY <1>4 DEF LosePass, Idle, Passes
  <2>2. used' \in [Bounds -> Nat]
    BY <1>4, UseBound DEF LosePass, IInv, Types, Bounds
  <2> QED
    BY <1>4, <2>1, <2>2 DEF LosePass, IInv, Types, Evidence, Watched, OutcomeTrue
<1> QED
  BY <1>1, <1>2, <1>3, <1>4 DEF Begin, ReadPull, ReadIssue, LosePass

\* GitHub and the people on it touch no finding.
LEMMA WorldStep ==
    ASSUME IInv, Observe \/ People \/ \E k \in Kinds : Lose(k)
    PROVE  IInv' /\ fnd' = fnd
<1>1. CASE Observe
  BY <1>1 DEF Observe, IInv, Types, Evidence, Watched, OutcomeTrue
<1>2. CASE CloseIssue \/ ReopenIssue \/ Merge \/ ClosePull \/ ReopenPull \/ CloseElsewhere
  <2>1. used' \in [Bounds -> Nat] /\ (used.unreadable > 0 => used'.unreadable > 0)
    BY <1>2, UsedGrows DEF CloseIssue, ReopenIssue, Merge, ClosePull, ReopenPull, CloseElsewhere, IInv, Types, Bounds
  <2>2. github' \in Githubs
    BY <1>2 DEF CloseIssue, ReopenIssue, Merge, ClosePull, ReopenPull, CloseElsewhere, IInv, Types, Githubs
  <2>3. /\ github.pull = "merged" => github'.pull = "merged"
        /\ github.wasClosed => github'.wasClosed
        /\ github'.pull = "closed" => github'.wasClosed
    BY <1>2 DEF CloseIssue, ReopenIssue, Merge, ClosePull, ReopenPull, CloseElsewhere, IInv, Types, Githubs, Evidence
  <2>4. mail' \in [Kinds -> Nat]
    BY <1>2, SendMail DEF CloseIssue, ReopenIssue, Merge, ClosePull, ReopenPull, CloseElsewhere, IInv, Types, Kinds
  <2>5. /\ mail'["merged"] > 0 => github'.pull = "merged"
        /\ mail'["closed"] > 0 => github'.wasClosed
    <3>1. \A ks \in SUBSET Kinds : Send(ks) => \A k \in Kinds \ ks : mail'[k] = mail[k]
      BY SendMail DEF IInv, Types
    <3>2. CASE CloseIssue \/ ReopenIssue \/ CloseElsewhere
      <4>1. PICK ks \in {{"issue closed"}, {"issue reopened"}, {"closed elsewhere"}} : Send(ks)
        BY <3>2 DEF CloseIssue, ReopenIssue, CloseElsewhere
      <4>2. mail'["merged"] = mail["merged"] /\ mail'["closed"] = mail["closed"]
        BY <3>1, <4>1 DEF Kinds
      <4> QED
        BY <2>3, <4>2 DEF IInv, Evidence
    <3>3. CASE Merge
      <4>1. PICK ks \in {{"merged"}, {"merged", "issue closed"}} : Send(ks)
        BY <3>3 DEF Merge
      <4>2. mail'["closed"] = mail["closed"]
        BY <3>1, <4>1 DEF Kinds
      <4>3. github'.pull = "merged"
        BY <3>3 DEF Merge, IInv, Types, Githubs
      <4> QED
        BY <2>3, <4>2, <4>3 DEF IInv, Evidence
    <3>4. CASE ClosePull
      <4>1. mail'["merged"] = mail["merged"]
        BY <3>1, <3>4 DEF ClosePull, Kinds
      <4>2. github'.wasClosed
        BY <3>4 DEF ClosePull, IInv, Types, Githubs
      <4> QED
        BY <2>3, <4>1, <4>2 DEF IInv, Evidence
    <3>5. CASE ReopenPull
      BY <2>3, <3>5 DEF ReopenPull, IInv, Evidence
    <3> QED
      BY <1>2, <3>2, <3>3, <3>4, <3>5
  <2>6. /\ pass' \in {Idle} \cup Passes
        /\ pass' \in Passes => /\ pass \in Passes
                               /\ pass'.at = pass.at /\ pass'.of = pass.of /\ pass'.pull = pass.pull
                               /\ pass'.issue = pass.issue /\ (pass.closed => pass'.closed)
                               /\ github'.issue = "closed" => pass'.closed
    <3>1. CASE CloseIssue \/ Merge
      <4>1. Seen("closed")
        BY <3>1 DEF CloseIssue, Merge
      <4>2. pass' = pass \/ (pass \in Passes /\ pass' = [pass EXCEPT !.closed = TRUE])
        BY <4>1 DEF Seen, IInv, Types
      <4>3. pass # Idle => pass' = [pass EXCEPT !.closed = TRUE]
        BY <4>1 DEF Seen
      <4>4. Idle \notin Passes
        BY DEF Idle, Passes
      <4> QED
        BY <4>2, <4>3, <4>4 DEF Passes, IInv, Types
    <3>2. CASE ReopenIssue \/ ClosePull \/ ReopenPull \/ CloseElsewhere
      <4>1. pass' = pass /\ (github'.issue = "closed" => github.issue = "closed")
        BY <3>2 DEF ReopenIssue, ClosePull, ReopenPull, CloseElsewhere, IInv, Types, Githubs
      <4> QED
        BY <4>1 DEF IInv, Types, Watched
    <3> QED
      BY <1>2, <3>1, <3>2
  <2>7. fnd' = fnd /\ cache' = cache /\ integration' = integration
    BY <1>2 DEF CloseIssue, ReopenIssue, Merge, ClosePull, ReopenPull, CloseElsewhere
  <2>8. Types'
    BY <2>1, <2>2, <2>4, <2>6, <2>7 DEF IInv, Types
  <2>9. Evidence'
    BY <2>3, <2>5, <2>6 DEF IInv, Evidence
  <2>10. Watched'
    BY <2>1, <2>6 DEF IInv, Watched, Types, Bounds
  <2>11. OutcomeTrue'
    BY <2>3, <2>7 DEF IInv, OutcomeTrue
  <2> QED
    BY <2>7, <2>8, <2>9, <2>10, <2>11 DEF IInv
<1>3. CASE Suspend \/ Resume
  <2>1. used' \in [Bounds -> Nat] /\ (used.unreadable > 0 => used'.unreadable > 0)
    BY <1>3, UsedGrows DEF Suspend, Resume, IInv, Types, Bounds
  <2> QED
    BY <1>3, <2>1 DEF Suspend, Resume, IInv, Types, Evidence, Watched, OutcomeTrue, Bounds
<1>4. CASE \E k \in Kinds : Lose(k)
  <2>1. used' \in [Bounds -> Nat] /\ (used.unreadable > 0 => used'.unreadable > 0)
    BY <1>4, UsedGrows DEF Lose, IInv, Types, Bounds
  <2>2. mail' \in [Kinds -> Nat] /\ \A j \in Kinds : mail'[j] > 0 => mail[j] > 0
    BY <1>4 DEF Lose, IInv, Types
  <2> QED
    BY <1>4, <2>1, <2>2 DEF Lose, IInv, Types, Evidence, Watched, OutcomeTrue, Bounds, Kinds
<1> QED
  BY <1>1, <1>2, <1>3, <1>4 DEF People

LEMMA StutterStep == IInv /\ UNCHANGED vars => IInv'
BY DEF vars, IInv, Types, Evidence, Watched, OutcomeTrue

LEMMA NextStep ==
    ASSUME IInv, Next
    PROVE  /\ IInv'
           /\ fnd.phase # "InReview" => fnd'.phase = fnd.phase
           /\ fnd'.phase = "HandedOff" /\ fnd.phase # "HandedOff"
              => pass.closed \/ (pass.issue = "" /\ used.unreadable > 0)
<1>1. CASE \E k \in Kinds : Deliver(k)
  BY <1>1, DeliverStep
<1>2. CASE SettleReview
  BY <1>2, SettleStep
<1>3. CASE Begin \/ ReadPull \/ ReadIssue \/ LosePass
  BY <1>3, ReadStep
<1>4. CASE Observe \/ People \/ \E k \in Kinds : Lose(k)
  BY <1>4, WorldStep
<1> QED
  BY <1>1, <1>2, <1>3, <1>4 DEF Next, Pass

-----------------------------------------------------------------------------
(* A finding is Remediated only if its own pull request was merged, and      *)
(* Failed only if that was closed, however deliveries and reads fall         *)
(* (webhooks.go, settlePendingClose).                                        *)
THEOREM OutcomeIsTrue == Spec => []OutcomeTrue
<1>1. IInv /\ [Next]_vars => IInv'
  BY NextStep, StutterStep
<1>2. IInv => OutcomeTrue
  BY DEF IInv
<1> QED
  BY InitInv, <1>1, <1>2, PTL DEF Spec

(* A finding is handed off only for a close of its issue that stood at or    *)
(* after the pass began, or when the issue could not be read (settleReview). *)
THEOREM HandOffIsSeenClosed == Spec => HandOffSeenClosed
<1>1. IInv /\ [Next]_vars => IInv'
  BY NextStep, StutterStep
<1>2. IInv /\ [Next]_vars
      => [fnd'.phase = "HandedOff" /\ fnd.phase # "HandedOff"
          => pass.closed \/ (pass.issue = "" /\ used.unreadable > 0)]_vars
  BY NextStep
<1> QED
  BY InitInv, <1>1, <1>2, PTL DEF Spec, HandOffSeenClosed

(* A finding that left review does not move again: no later delivery and no  *)
(* pass still on its way settles it another time.                            *)
THEOREM SettledIsOnce == Spec => SettledOnce
<1>1. IInv /\ [Next]_vars => IInv'
  BY NextStep, StutterStep
<1>2. IInv /\ [Next]_vars => [fnd.phase # "InReview" => fnd'.phase = fnd.phase]_vars
  BY NextStep
<1> QED
  BY InitInv, <1>1, <1>2, PTL DEF Spec, SettledOnce
=============================================================================
