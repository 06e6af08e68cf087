------------------------ MODULE IntentApproval_proofs ------------------------
(***************************************************************************)
(* What is built is the plan its approver was shown, every revision        *)
(* consumed a replan of its own, and every command is settled read and     *)
(* answered once: proofs for any number of actions, edits, faults and      *)
(* attempts.                                                               *)
(***************************************************************************)
EXTENDS IntentApproval, FiniteSetTheorems, WellFoundedInduction, TLAPS

(* Greatest elements: of a set of naturals with an upper bound.            *)
LEMMA NatMin == ASSUME NEW T \in SUBSET Nat, T # {} PROVE \E x \in T : \A y \in T : x <= y
<1>1. PICK x \in T : \A y \in T : ~(<<y, x>> \in OpToRel(<, Nat))
  BY NatLessThanWellFounded, WFMin
<1>2. ASSUME NEW y \in T PROVE x <= y
  <2>1. ~(<<y, x>> \in OpToRel(<, Nat)) BY <1>1
  <2>2. x \in Nat /\ y \in Nat OBVIOUS
  <2>3. ~(y < x) BY <2>1, <2>2, Zenon DEF OpToRel
  <2> QED BY <2>3, <2>2
<1> QED BY <1>2

LEMMA MaxIn ==
    ASSUME NEW n \in Nat, NEW T \in SUBSET (0..n), T # {}
    PROVE  Max(T) \in T /\ \A y \in T : y <= Max(T)
<1> DEFINE D == {k \in 0..n : n - k \in T}
<1>1. D \in SUBSET Nat OBVIOUS
<1>2. PICK t \in T : TRUE OBVIOUS
<1>3. n - t \in D
  <2>1. t \in 0..n /\ n - t \in 0..n /\ n - (n - t) = t OBVIOUS
  <2> QED BY <2>1
<1>4. PICK d \in D : \A y \in D : d <= y BY <1>1, <1>3, NatMin, Zenon
<1>5. n - d \in T /\ d \in 0..n BY <1>4
<1>6. ASSUME NEW y \in T PROVE n - d >= y
  <2>1. y \in 0..n OBVIOUS
  <2>2. n - y \in D BY <2>1
  <2>3. d <= n - y BY <2>2, <1>4
  <2> QED BY <2>1, <2>3, <1>5
<1>7. \E x \in T : \A y \in T : x >= y BY <1>5, <1>6
<1>8. Max(T) \in T /\ \A y \in T : Max(T) >= y BY <1>7 DEF Max
<1>9. \A y \in T : y \in 0..n OBVIOUS
<1> QED BY <1>8, <1>9

-----------------------------------------------------------------------------
(* Types, without their bounds                                              *)
IntentPhases == {"Pending", "Planning", "AwaitingApproval", "Building", "Failed", "Closed"}
RunPhases == {"Pending", "Complete", "Failed"}
Plans == [rev: Nat, comment: Nat]
Approvals == [act: Nat, rev: Nat]
Intents == [phase: IntentPhases, input: Nat, plan: Plans, approval: Approvals, last: Nat, seen: Nat]
Labels == SUBSET {"trigger", "approve"}
Issues == [content: Content, open: BOOLEAN, labels: Labels]
Acts == [kind: ActionKinds, at: Nat, content: Content, shown: Nat]
Comments == [rev: Nat, at: Nat, edited: BOOLEAN]
Runs == [rev: Nat, attempt: Nat, phase: RunPhases]
Budgets == [edits: 0..MaxEdits, faults: 0..MaxFaults]

Ids == 1..Len(act)
Handling == {"answer", "reply", "consume", "close", "unlabel", "seen"}
Replanning == {"snapshot", "plan"}
Others == {"idle", "list", "end", "clear", "post", "record", "untrigger", "fail"}
Nexts == {"seen", "consume", "unlabel", "end"}
\* A pass that carries a list of actions.
Carries ==
    /\ pass = [k \in DOMAIN pass |-> pass[k]]
    /\ "at" \in DOMAIN pass /\ "issue" \in DOMAIN pass /\ "todo" \in DOMAIN pass
    /\ "newest" \in DOMAIN pass /\ "deferred" \in DOMAIN pass
    /\ pass.issue \in Issues /\ pass.newest \in Nat
    /\ pass.todo \in Seq(Nat) /\ (pass.at # "answer" => pass.todo # <<>>)
PassTyped ==
    /\ pass.at \in Handling \cup Replanning \cup Others
    /\ pass.at \in Handling \cup Replanning => Carries
    /\ pass.at = "list" => pass.issue \in Issues
    /\ pass.at = "reply" => pass.next \in Nexts
    /\ pass.at = "record" => pass.comment \in Nat
Typed ==
    /\ now \in Nat /\ issue \in Issues /\ act \in Seq(Acts) /\ comment \in Seq(Comments)
    /\ reply \in [1..MaxActs -> Nat] /\ input \in [1..MaxRevision -> Content \cup {"none"}]
    /\ run \in Runs /\ intent \in Intents /\ budget \in Budgets
    /\ PassTyped

LEMMA GotoKeeps ==
    ASSUME Carries, NEW at, Goto(at)
    PROVE  /\ pass'.at = at /\ pass'.issue = pass.issue /\ pass'.todo = pass.todo
           /\ pass'.newest = pass.newest /\ pass'.deferred = pass.deferred
           /\ (pass.todo # <<>> => Carries')
<1> USE DEF Goto
<1>1. /\ pass'.at = at /\ pass'.issue = pass.issue /\ pass'.todo = pass.todo
      /\ pass'.newest = pass.newest /\ pass'.deferred = pass.deferred
  BY DEF Carries
<1>2. pass' = [k \in DOMAIN pass' |-> pass'[k]] BY DEF Carries
<1>3. DOMAIN pass' = DOMAIN pass BY DEF Carries
<1> QED BY <1>1, <1>2, <1>3 DEF Carries

LEMMA GotoThenKeeps ==
    ASSUME Carries, NEW at, NEW next, GotoThen(at, next)
    PROVE  /\ pass'.at = at /\ pass'.next = next /\ pass'.issue = pass.issue /\ pass'.todo = pass.todo
           /\ pass'.newest = pass.newest /\ pass'.deferred = pass.deferred
           /\ (pass.todo # <<>> => Carries')
<1> USE DEF GotoThen
<1>1. /\ pass'.at = at /\ pass'.next = next /\ pass'.issue = pass.issue /\ pass'.todo = pass.todo
      /\ pass'.newest = pass.newest /\ pass'.deferred = pass.deferred
  BY DEF Carries
<1>2. pass' = [k \in DOMAIN pass' |-> pass'[k]] OBVIOUS
<1>3. DOMAIN pass' = DOMAIN pass \cup {"next"} BY DEF Carries
<1> QED BY <1>1, <1>2, <1>3 DEF Carries

LEMMA LabelSets ==
    ASSUME NEW s \in Labels
    PROVE  /\ s \ {"approve"} \in Labels /\ s \ {"trigger"} \in Labels
           /\ s \cup {"trigger"} \in Labels /\ s \cup {"approve"} \in Labels
BY DEF Labels

LEMMA IssueLabels ==
    ASSUME issue \in Issues
    PROVE  /\ \A s \in Labels : [issue EXCEPT !.labels = s] \in Issues
           /\ \A c \in Content : [issue EXCEPT !.content = c] \in Issues
           /\ [issue EXCEPT !.open = FALSE] \in Issues
           /\ issue.labels \in Labels /\ issue.content \in Content
BY DEF Issues

LEMMA TypedInit == Init => Typed
<1> SUFFICES ASSUME Init PROVE Typed OBVIOUS
<1> USE IntentApprovalAssumption DEF Init
<1>1. now \in Nat /\ act \in Seq(Acts) /\ comment \in Seq(Comments)
  <2>1. now = 1 /\ act = <<>> /\ comment = <<>> BY Zenon
  <2> HIDE DEF Init
  <2> QED BY <2>1
<1>2. issue \in Issues
  <2>1. {"trigger"} \in Labels BY DEF Labels
  <2> QED BY <2>1 DEF Issues, Content
<1>3. reply \in [1..MaxActs -> Nat] /\ input \in [1..MaxRevision -> Content \cup {"none"}] OBVIOUS
<1>4. run \in Runs BY DEF Runs, RunPhases
<1>5. intent \in Intents
  <2>1. None \in Plans BY DEF None, Plans
  <2>2. [act |-> 0, rev |-> 0] \in Approvals BY DEF Approvals
  <2>3. "Pending" \in IntentPhases BY DEF IntentPhases
  <2> QED BY <2>1, <2>2, <2>3 DEF Intents
<1>6. budget \in Budgets
  <2>1. budget = [edits |-> MaxEdits, faults |-> MaxFaults] OBVIOUS
  <2>2. MaxEdits \in Nat /\ MaxFaults \in Nat OBVIOUS
  <2> HIDE DEF Init
  <2> QED BY <2>1, <2>2 DEF Budgets
<1>7. PassTyped BY DEF PassTyped, Rest, Handling, Replanning, Others
<1> QED BY <1>1, <1>2, <1>3, <1>4, <1>5, <1>6, <1>7 DEF Typed

\* The pass of a step that leaves it alone, or ends it.
LEMMA PassEnds ==
    ASSUME PassTyped, UNCHANGED pass \/ pass' = Rest PROVE PassTyped'
BY DEF PassTyped, Carries, Rest, Handling, Replanning, Others

\* A step of a pass that carries a list to its next call.
LEMMA PassGoes ==
    ASSUME Carries, pass.todo # <<>>, NEW at \in (Handling \cup Replanning \cup {"end"}) \ {"reply"}, Goto(at)
    PROVE  PassTyped'
<1>1. pass'.at = at /\ Carries' BY GotoKeeps
<1> QED BY <1>1 DEF PassTyped, Handling, Replanning, Others

LEMMA PassReplies ==
    ASSUME Carries, pass.todo # <<>>, NEW next \in Nexts, GotoThen("reply", next)
    PROVE  PassTyped'
<1>1. pass'.at = "reply" /\ pass'.next = next /\ Carries' BY GotoThenKeeps
<1> QED BY <1>1 DEF PassTyped, Handling, Replanning, Others

-----------------------------------------------------------------------------
LEMMA WorldTyped ==
    ASSUME Typed, FinishPlan \/ (\E kind \in Kinds : Act(kind)) \/ Edit \/ Tick \/ Fault
    PROVE  Typed'
<1> USE IntentApprovalAssumption
<1>1. CASE FinishPlan
  <2>1. run' \in Runs BY <1>1 DEF FinishPlan, Typed, Runs, RunPhases
  <2> QED BY <1>1, <2>1, PassEnds DEF FinishPlan, Typed
<1>2. ASSUME NEW kind \in Kinds, Act(kind) PROVE Typed'
  <2> DEFINE c == Len(comment)
             a == [kind |-> kind, at |-> now, content |-> issue.content,
                   shown |-> IF c # 0 /\ ~comment[c].edited THEN comment[c].rev ELSE 0]
  <2>1. a.shown \in Nat
    <3>1. c # 0 => comment[c] \in Comments BY DEF Typed
    <3> QED BY <3>1 DEF Comments
  <2>2. a \in Acts BY <2>1, IssueLabels DEF Acts, Typed
  <2>3. act' \in Seq(Acts) BY <2>2, <1>2 DEF Act, Typed
  <2>4. issue' \in Issues
    <3>1. \A l \in {"trigger", "approve"} : issue.labels \cup {l} \in Labels BY LabelSets, IssueLabels DEF Typed
    <3> QED BY <3>1, <1>2, IssueLabels DEF Act, Typed
  <2> QED BY <2>3, <2>4, <1>2, PassEnds DEF Act, Typed
<1>3. CASE Edit
  <2>1. budget' \in Budgets BY <1>3 DEF Edit, SpendEdit, Typed, Budgets
  <2>2. issue' \in Issues BY <1>3, IssueLabels DEF Edit, Typed
  <2>3. comment' \in Seq(Comments)
    <3>1. ASSUME NEW c \in 1..Len(comment), comment' = [comment EXCEPT ![c].edited = TRUE] PROVE comment' \in Seq(Comments)
      <4>1. comment[c] \in Comments BY DEF Typed
      <4>2. [comment[c] EXCEPT !.edited = TRUE] \in Comments BY <4>1 DEF Comments
      <4>3. comment' = [comment EXCEPT ![c] = [comment[c] EXCEPT !.edited = TRUE]] BY <3>1
      <4> QED BY <4>2, <4>3 DEF Typed
    <3> QED BY <3>1, <1>3 DEF Edit, Typed
  <2> QED BY <2>1, <2>2, <2>3, <1>3, PassEnds DEF Edit, Typed
<1>4. CASE Tick BY <1>4, PassEnds DEF Tick, Typed
<1>5. CASE Fault
  <2>1. budget' \in Budgets BY <1>5 DEF Fault, Typed, Budgets
  <2> QED BY <1>5, <2>1, PassEnds DEF Fault, Typed
<1> QED BY <1>1, <1>2, <1>3, <1>4, <1>5

\* What the Intent's status may become, field by field.
LEMMA IntentFields ==
    ASSUME intent \in Intents
    PROVE  /\ intent.phase \in IntentPhases /\ intent.input \in Nat /\ intent.plan \in Plans
           /\ intent.plan.rev \in Nat /\ intent.plan.comment \in Nat /\ intent.approval.act \in Nat
           /\ intent.approval \in Approvals /\ intent.last \in Nat /\ intent.seen \in Nat
           /\ \A n \in Nat : [intent EXCEPT !.last = n] \in Intents /\ [intent EXCEPT !.seen = n] \in Intents
           /\ \A p \in IntentPhases : [intent EXCEPT !.phase = p] \in Intents
           /\ \A p \in Plans : [intent EXCEPT !.plan = p] \in Intents
           /\ \A r \in Plans, a \in Approvals, n \in Nat :
                 [intent EXCEPT !.phase = "Planning", !.input = @ + 1, !.plan = r, !.approval = a, !.last = n] \in Intents
           /\ \A c \in Nat : [intent EXCEPT !.phase = "AwaitingApproval", !.plan.comment = c] \in Intents
           /\ \A p \in IntentPhases, a \in Approvals : [intent EXCEPT !.phase = p, !.approval = a] \in Intents
<1>1. /\ intent.phase \in IntentPhases /\ intent.input \in Nat /\ intent.plan \in Plans
      /\ intent.approval \in Approvals /\ intent.last \in Nat /\ intent.seen \in Nat
  BY DEF Intents
<1>2. intent.plan.rev \in Nat /\ intent.plan.comment \in Nat /\ intent.approval.act \in Nat
  BY <1>1 DEF Plans, Approvals
<1>3. \A n \in Nat : [intent EXCEPT !.last = n] \in Intents /\ [intent EXCEPT !.seen = n] \in Intents BY DEF Intents
<1>4. \A p \in IntentPhases : [intent EXCEPT !.phase = p] \in Intents BY DEF Intents
<1>5. \A p \in Plans : [intent EXCEPT !.plan = p] \in Intents BY DEF Intents
<1>6. \A p \in IntentPhases, a \in Approvals : [intent EXCEPT !.phase = p, !.approval = a] \in Intents BY DEF Intents
<1>7. ASSUME NEW r \in Plans, NEW a \in Approvals, NEW n \in Nat
      PROVE  [intent EXCEPT !.phase = "Planning", !.input = @ + 1, !.plan = r, !.approval = a, !.last = n] \in Intents
  <2> DEFINE e == [intent EXCEPT !.phase = "Planning", !.input = @ + 1, !.plan = r, !.approval = a, !.last = n]
  <2>1. "Planning" \in IntentPhases BY DEF IntentPhases
  <2>2. intent.input + 1 \in Nat BY <1>1
  <2>3. \A m \in Nat : [intent EXCEPT !.phase = "Planning", !.input = m, !.plan = r, !.approval = a, !.last = n] \in Intents
    BY <2>1 DEF Intents
  <2>4. e = [intent EXCEPT !.phase = "Planning", !.input = intent.input + 1, !.plan = r, !.approval = a, !.last = n]
    OBVIOUS
  <2> HIDE DEF e
  <2>5. e \in Intents BY <2>2, <2>3, <2>4
  <2> QED BY <2>5 DEF e
<1>8. ASSUME NEW c \in Nat
      PROVE  [intent EXCEPT !.phase = "AwaitingApproval", !.plan.comment = c] \in Intents
  <2>1. "AwaitingApproval" \in IntentPhases BY DEF IntentPhases
  <2>2. [intent.plan EXCEPT !.comment = c] \in Plans BY <1>1 DEF Plans
  <2> DEFINE i == [intent EXCEPT !.phase = "AwaitingApproval", !.plan.comment = c]
  <2>3. intent.plan = [rev |-> intent.plan.rev, comment |-> intent.plan.comment] BY <1>1 DEF Plans
  <2>4. i.plan = [intent.plan EXCEPT !.comment = c] BY DEF Intents
  <2>5. i = [intent EXCEPT !.phase = "AwaitingApproval", !.plan = i.plan] BY DEF Intents
  <2> HIDE DEF i
  <2>6. i.plan \in Plans BY <2>2, <2>4
  <2>7. [intent EXCEPT !.phase = "AwaitingApproval", !.plan = i.plan] \in Intents BY <2>1, <2>6 DEF Intents
  <2>8. i \in Intents BY <2>5, <2>7, Zenon
  <2> QED BY <2>8 DEF i
<1> QED BY <1>1, <1>2, <1>3, <1>4, <1>5, <1>6, <1>7, <1>8

LEMMA HeadIn == ASSUME Carries, pass.todo # <<>> PROVE Head1 \in Nat /\ Tail(pass.todo) \in Seq(Nat)
BY DEF Carries, Head1

Answers == Answer \/ Reply \/ Consume \/ CloseIssue \/ RemoveRefusedLabel \/ RecordSeen \/ RecordListing \/ EndClosed
LEMMA AnsweringTyped == ASSUME Typed, Answers PROVE Typed'
<1> USE IntentApprovalAssumption
<1>0. /\ pass.at \in Handling => Carries
      /\ pass.at \in Handling \ {"answer"} => pass.todo # <<>>
  BY DEF Typed, PassTyped, Carries
<1>1. CASE Answer
  <2>1. Carries /\ pass.todo # <<>> BY <1>1, <1>0 DEF Answer, Handling
  <2>2. PassTyped'
    <3>1. Goto("snapshot") => PassTyped' BY <2>1, PassGoes DEF Handling, Replanning
    <3>2. Goto("close") => PassTyped' BY <2>1, PassGoes DEF Handling, Replanning
    <3>3. Goto("seen") => PassTyped' BY <2>1, PassGoes DEF Handling, Replanning
    <3>4. \A n \in Nexts : GotoThen("reply", n) => PassTyped' BY <2>1, PassReplies
    <3>5. "seen" \in Nexts /\ "consume" \in Nexts /\ "unlabel" \in Nexts BY DEF Nexts
    <3> QED BY <3>1, <3>2, <3>3, <3>4, <3>5, <1>1, Zenon DEF Answer
  <2>3. intent' \in Intents
    <3>1. intent.plan \in Plans BY IntentFields DEF Typed
    <3>2. [act |-> Head1, rev |-> intent.plan.rev] \in Approvals BY <3>1, <2>1, HeadIn DEF Plans, Approvals
    <3>3. "Building" \in IntentPhases BY DEF IntentPhases
    <3>4. \/ UNCHANGED intent
          \/ intent' = [intent EXCEPT !.phase = "Building", !.approval = [act |-> Head1, rev |-> intent.plan.rev]]
      BY <1>1, Zenon DEF Answer
    <3>5. intent \in Intents BY DEF Typed
    <3>6. [intent EXCEPT !.phase = "Building", !.approval = [act |-> Head1, rev |-> intent.plan.rev]] \in Intents
      BY <3>2, <3>3, <3>5, IntentFields
    <3> QED BY <3>4, <3>5, <3>6, Zenon
  <2> QED BY <1>1, <2>2, <2>3 DEF Answer, Typed
<1>2. CASE Reply
  <2>1. Carries /\ pass.todo # <<>> /\ pass.next \in Nexts BY <1>2, <1>0 DEF Reply, Handling, Typed, PassTyped
  <2>2. PassTyped' BY <1>2, <2>1, PassGoes DEF Reply, Nexts, Handling, Replanning
  <2>3. reply' \in [1..MaxActs -> Nat]
    <3>1. reply' = reply \/ reply' = [reply EXCEPT ![Head1] = @ + 1] BY <1>2, Zenon DEF Reply
    <3>2. reply \in [1..MaxActs -> Nat] BY DEF Typed
    <3> QED BY <3>1, <3>2
  <2> QED BY <1>2, <2>2, <2>3 DEF Reply, Typed
<1>3. CASE Consume
  <2>1. Carries /\ pass.todo # <<>> BY <1>3, <1>0 DEF Consume, Handling
  <2>2. PassTyped' BY <1>3, <2>1, PassGoes DEF Consume, Handling, Replanning
  <2>3. intent' \in Intents BY <1>3, <2>1, HeadIn, IntentFields DEF Consume, Typed
  <2> QED BY <1>3, <2>2, <2>3 DEF Consume, Typed
<1>4. CASE CloseIssue
  <2>1. Carries /\ pass.todo # <<>> BY <1>4, <1>0 DEF CloseIssue, Handling
  <2>2. PassTyped' BY <1>4, <2>1, PassReplies DEF CloseIssue, Nexts
  <2>3. issue' \in Issues BY <1>4, IssueLabels DEF CloseIssue, Typed
  <2> QED BY <1>4, <2>2, <2>3 DEF CloseIssue, Typed
<1>5. CASE RemoveRefusedLabel
  <2>1. Carries /\ pass.todo # <<>> BY <1>5, <1>0 DEF RemoveRefusedLabel, Handling
  <2>2. PassTyped' BY <1>5, <2>1, PassGoes DEF RemoveRefusedLabel, Handling, Replanning
  <2>3. issue' \in Issues
    <3>1. issue.labels \ {"approve"} \in Labels BY IssueLabels, LabelSets DEF Typed
    <3> QED BY <1>5, <3>1, IssueLabels DEF RemoveRefusedLabel, Typed
  <2> QED BY <1>5, <2>2, <2>3 DEF RemoveRefusedLabel, Typed
<1>6. CASE RecordSeen
  <2>1. Carries /\ pass.todo # <<>> BY <1>6, <1>0 DEF RecordSeen, Handling
  <2>2. PassTyped'
    <3>1. /\ pass' = [k \in DOMAIN pass' |-> pass'[k]] /\ DOMAIN pass' = DOMAIN pass
          /\ pass'.at = "answer" /\ pass'.todo = Tail(pass.todo) /\ pass'.issue = pass.issue /\ pass'.newest = pass.newest
      BY <1>6, <2>1 DEF RecordSeen, Carries
    <3>2. Carries' BY <3>1, <2>1, HeadIn DEF Carries
    <3> QED BY <3>1, <3>2 DEF PassTyped, Handling, Replanning, Others
  <2>3. intent' \in Intents
    <3>1. intent' = intent \/ intent' = [intent EXCEPT !.seen = Head1] BY <1>6, Zenon DEF RecordSeen
    <3>2. Head1 \in Nat /\ intent \in Intents BY <2>1, HeadIn DEF Typed
    <3>3. [intent EXCEPT !.seen = Head1] \in Intents BY <3>2, IntentFields
    <3> QED BY <3>1, <3>2, <3>3, Zenon
  <2> QED BY <1>6, <2>2, <2>3 DEF RecordSeen, Typed
<1>7. CASE RecordListing
  <2>1. Carries BY <1>7, <1>0 DEF RecordListing, Handling
  <2>2. PassTyped'
    <3>1. CASE pass' = Rest BY <3>1, PassEnds DEF Typed
    <3>2. CASE pass' = [at |-> "end"] BY <3>2 DEF PassTyped, Handling, Replanning, Others
    <3> QED BY <3>1, <3>2, <1>7, Zenon DEF RecordListing
  <2>3. intent' \in Intents
    <3>1. intent' = intent \/ intent' = [intent EXCEPT !.seen = pass.newest] BY <1>7, Zenon DEF RecordListing
    <3> QED BY <3>1, <2>1, IntentFields DEF Typed, Carries
  <2> QED BY <1>7, <2>2, <2>3 DEF RecordListing, Typed
<1>8. CASE EndClosed
  <2>1. intent' \in Intents
    <3>1. "Closed" \in IntentPhases BY DEF IntentPhases
    <3> QED BY <1>8, <3>1, IntentFields DEF EndClosed, Typed
  <2> QED BY <1>8, <2>1, PassEnds DEF EndClosed, Typed
<1> QED BY <1>1, <1>2, <1>3, <1>4, <1>5, <1>6, <1>7, <1>8 DEF Answers

-----------------------------------------------------------------------------
(* What the listings find                                                   *)
LEMMA NewestIn ==
    ASSUME act \in Seq(Acts), NEW kind
    PROVE  /\ Newest(kind) \in 0..Len(act)
           /\ Newest(kind) # 0 => Newest(kind) \in Ids /\ act[Newest(kind)].kind = kind
           /\ \A i \in Ids : act[i].kind = kind => i <= Newest(kind)
<1> DEFINE T == {i \in 1..Len(act) : act[i].kind = kind} \cup {0}
<1>1. Len(act) \in Nat /\ T \in SUBSET (0..Len(act)) /\ T # {} OBVIOUS
<1>2. Newest(kind) = Max(T) BY DEF Newest
<1>3. Max(T) \in T /\ \A y \in T : y <= Max(T) BY <1>1, MaxIn
<1> QED BY <1>1, <1>2, <1>3 DEF Ids

LEMMA NewestSettledIn ==
    ASSUME act \in Seq(Acts)
    PROVE  NewestSettled \in 0..Len(act) /\ \A d \in Deferred : NewestSettled < d
<1> DEFINE T == {i \in 1..Len(act) : IsCommand(i) /\ \A d \in Deferred : i < d} \cup {0}
<1>1. Len(act) \in Nat /\ T \in SUBSET (0..Len(act)) /\ T # {} OBVIOUS
<1>2. NewestSettled = Max(T) BY DEF NewestSettled
<1>3. Max(T) \in T BY <1>1, MaxIn
<1>4. \A d \in Deferred : d \in 1..Len(act) BY DEF Deferred, Listed
<1>5. \A d \in Deferred : Max(T) < d
  <2> SUFFICES ASSUME NEW d \in Deferred PROVE Max(T) < d OBVIOUS
  <2>1. d \in 1..Len(act) BY <1>4
  <2>2. Max(T) = 0 \/ \A e \in Deferred : Max(T) < e BY <1>3
  <2> QED BY <2>1, <2>2
<1>6. Max(T) \in 0..Len(act) BY <1>1, <1>3
<1> QED BY <1>2, <1>5, <1>6

LEMMA OwnIn ==
    ASSUME comment \in Seq(Comments)
    PROVE  /\ Own \in 0..Len(comment)
           /\ Own # 0 => Own \in 1..Len(comment) /\ comment[Own].rev = intent.plan.rev
           /\ \A c \in 1..Len(comment) : comment[c].rev = intent.plan.rev => c <= Own
<1> DEFINE T == {c \in 1..Len(comment) : comment[c].rev = intent.plan.rev} \cup {0}
<1>1. Len(comment) \in Nat /\ T \in SUBSET (0..Len(comment)) /\ T # {} OBVIOUS
<1>2. Own = Max(T) BY DEF Own
<1>3. Max(T) \in T /\ \A y \in T : y <= Max(T) BY <1>1, MaxIn
<1> QED BY <1>1, <1>2, <1>3

LEMMA GatheredIn == ASSUME act \in Seq(Acts), NEW labels PROVE Gathered(labels) \subseteq Ids
<1>1. Commands \subseteq Ids BY DEF Commands, Listed, Ids
<1>2. \A kind : Newest(kind) # 0 => Newest(kind) \in Ids BY NewestIn
<1>3. {i \in {Newest("replanLabel")} : i # 0 /\ After(i, intent.last)} \subseteq Ids BY <1>2
<1>4. {i \in {Newest("approveLabel")} : AwaitingLabel(i) /\ reply[i] = 0 /\ "approve" \in labels} \subseteq Ids
  BY <1>2 DEF AwaitingLabel
<1> QED BY <1>1, <1>3, <1>4, Zenon DEF Gathered

LEMMA ActIs ==
    ASSUME act \in Seq(Acts), NEW i \in Ids
    PROVE  act[i] \in Acts /\ act[i].at \in Nat /\ act[i].kind \in ActionKinds /\ i \in Nat /\ i # 0
<1>1. act[i] \in Acts BY DEF Ids
<1>2. i \in Nat /\ i # 0 BY DEF Ids
<1> QED BY <1>1, <1>2 DEF Acts

\* Of two actions, one is after the other, and none is after itself.
LEMMA AfterOrder ==
    ASSUME act \in Seq(Acts), NEW i \in Ids, NEW j \in Ids
    PROVE  ~After(i, i) /\ (After(i, j) => ~After(j, i)) /\ (i # j => After(i, j) \/ After(j, i))
<1>1. act[i].at \in Nat /\ act[j].at \in Nat /\ i \in Nat /\ j \in Nat /\ i # 0 /\ j # 0 BY ActIs
<1>2. IsCommand(i) \in BOOLEAN /\ IsCommand(j) \in BOOLEAN BY DEF IsCommand
<1>3. ~After(i, i) BY <1>1 DEF After, Second
<1>4. After(i, j) => ~After(j, i) BY <1>1, <1>2 DEF After, Second
<1>5. i # j => After(i, j) \/ After(j, i) BY <1>1, <1>2 DEF After, Second
<1> QED BY <1>3, <1>4, <1>5

LEMMA AfterTransitive ==
    ASSUME act \in Seq(Acts), NEW i \in Ids, NEW j \in Ids, NEW k \in Ids, After(i, j), After(j, k)
    PROVE  After(i, k)
<1>1. act[i].at \in Nat /\ act[j].at \in Nat /\ act[k].at \in Nat BY ActIs
<1>2. i \in Nat /\ j \in Nat /\ k \in Nat /\ j # 0 /\ k # 0 BY ActIs
<1> QED BY <1>1, <1>2 DEF After, Second

\* A list in order holds each of its actions.
LEMMA InOrderIs ==
    ASSUME act \in Seq(Acts), NEW s \in SUBSET Ids, NEW todo \in InOrder(s)
    PROVE  /\ todo \in Seq(Ids) /\ todo \in Seq(Nat)
           /\ \A k \in 1..Len(todo) : todo[k] \in s
           /\ \A j, k \in 1..Len(todo) : j < k => After(todo[k], todo[j])
           /\ \A i \in s : \E k \in 1..Len(todo) : todo[k] = i
<1>1. IsFiniteSet(s) /\ Cardinality(s) \in Nat
  <2>1. Len(act) \in Nat OBVIOUS
  <2>2. IsFiniteSet(Ids) BY <2>1, FS_Interval DEF Ids
  <2> QED BY <2>2, FS_Subset, FS_CardinalityType
<1> DEFINE n == Cardinality(s)
<1>2. todo \in [1..n -> s] /\ \A i, j \in 1..n : i < j => After(todo[j], todo[i]) BY Zenon DEF InOrder
<1>3. todo \in Seq(s) /\ Len(todo) = n BY <1>1, <1>2
<1>4. \A k \in 1..n : todo[k] \in Ids BY <1>2
<1>5. \A i, j \in 1..n : i # j => todo[i] # todo[j]
  <2> SUFFICES ASSUME NEW i \in 1..n, NEW j \in 1..n, i # j, todo[i] = todo[j] PROVE FALSE OBVIOUS
  <2>1. After(todo[i], todo[i])
    <3>1. i < j \/ j < i BY <1>1
    <3> QED BY <3>1, <1>2
  <2> QED BY <2>1, <1>4, AfterOrder
<1>6. \A i \in s : \E k \in 1..n : todo[k] = i
  <2>1. IsFiniteSet(1..n) /\ Cardinality(1..n) = n BY <1>1, FS_Interval
  <2>2. todo \in Injection(1..n, s) BY <1>2, <1>5 DEF Injection, IsInjective
  <2>3. todo \in Surjection(1..n, s) BY <2>1, <2>2, <1>1, FS_Injection
  <2> QED BY <2>3 DEF Surjection
<1>7. Ids \subseteq Nat BY DEF Ids
<1>8. todo \in Seq(Ids) /\ todo \in Seq(Nat)
  <2>1. \A k \in 1..Len(todo) : todo[k] \in Ids /\ todo[k] \in Nat BY <1>3, <1>4, <1>7
  <2> QED BY <1>3, <2>1
<1> HIDE DEF n
<1>9. Len(todo) = n BY <1>3
<1> QED BY <1>2, <1>8, <1>9, <1>6

\* What a listing gives the pass that answers.
LEMMA ListGives ==
    ASSUME Typed, List
    PROVE  /\ pass'.at = "answer" /\ pass'.issue = pass.issue /\ pass'.newest = NewestSettled
           /\ pass'.deferred = Deferred
           /\ pass'.todo \in InOrder(Gathered(pass.issue.labels))
           /\ Carries'
<1>1. PICK todo \in InOrder(Gathered(pass.issue.labels)) :
         pass' = [at |-> "answer", issue |-> pass.issue, todo |-> todo, newest |-> NewestSettled, deferred |-> Deferred]
  BY Zenon DEF List
<1>2. act \in Seq(Acts) /\ pass.issue \in Issues BY DEF Typed, PassTyped, List
<1>3. Gathered(pass.issue.labels) \in SUBSET Ids BY <1>2, GatheredIn
<1>4. todo \in Seq(Nat) BY <1>2, <1>3, InOrderIs
<1>5. NewestSettled \in Nat BY <1>2, NewestSettledIn
<1> QED BY <1>1, <1>2, <1>4, <1>5 DEF Carries

LEMMA BeginCarries ==
    ASSUME issue \in Issues, NEW i \in Nat, Begin(i)
    PROVE  Carries' /\ pass'.at = "snapshot" /\ pass'.todo = <<i>> /\ pass'.newest = 0 /\ pass'.deferred = {}
           /\ pass'.issue = issue
BY DEF Begin, Carries

LEMMA PlanningTyped ==
    ASSUME Typed, List \/ Poll \/ StartFirst \/ Revive \/ Snapshot \/ StartPlanning \/ Launch \/ RecordPlan
    PROVE  Typed'
<1> USE IntentApprovalAssumption
<1>1. CASE Poll
  <2>1. PassTyped' BY <1>1 DEF Poll, Typed, PassTyped, Handling, Replanning, Others
  <2> QED BY <1>1, <2>1 DEF Poll, Typed
<1>2. CASE List
  <2>1. PassTyped' BY <1>2, ListGives DEF PassTyped, Handling, Replanning
  <2>2. issue' \in Issues
    <3>1. issue.labels \ {"approve"} \in Labels BY IssueLabels, LabelSets DEF Typed
    <3>2. issue' = issue \/ issue' = [issue EXCEPT !.labels = @ \ {"approve"}] BY <1>2, Zenon DEF List
    <3> QED BY <3>1, <3>2, IssueLabels DEF Typed
  <2> QED BY <1>2, <2>1, <2>2 DEF List, Typed
<1>3. CASE StartFirst
  <2>1. PassTyped' BY <1>3, BeginCarries DEF StartFirst, Typed, PassTyped, Handling, Replanning
  <2> QED BY <1>3, <2>1 DEF StartFirst, Typed
<1>4. CASE Revive
  <2>1. Newest("replanLabel") \in Nat BY NewestIn DEF Typed
  <2>2. PassTyped' BY <1>4, <2>1, BeginCarries DEF Revive, Typed, PassTyped, Handling, Replanning
  <2> QED BY <1>4, <2>2 DEF Revive, Typed
<1>5. CASE Snapshot
  <2>1. Carries /\ pass.todo # <<>> BY <1>5 DEF Snapshot, Typed, PassTyped, Handling, Replanning, Carries
  <2>2. PassTyped' BY <1>5, <2>1, PassGoes DEF Snapshot, Handling, Replanning
  <2>3. pass.issue.content \in Content BY <2>1 DEF Carries, Issues
  <2>4. input' \in [1..MaxRevision -> Content \cup {"none"}]
    <3>1. input' = input \/ input' = [input EXCEPT ![intent.input + 1] = pass.issue.content] BY <1>5, Zenon DEF Snapshot
    <3> QED BY <3>1, <2>3 DEF Typed
  <2> QED BY <1>5, <2>2, <2>4 DEF Snapshot, Typed
<1>6. CASE StartPlanning
  <2>1. Carries /\ pass.todo # <<>> BY <1>6 DEF StartPlanning, Typed, PassTyped, Handling, Replanning, Carries
  <2>2. PassTyped'
    <3>1. Goto("seen") => PassTyped' BY <2>1, PassGoes DEF Handling, Replanning
    <3>2. GotoThen("reply", "seen") => PassTyped' BY <2>1, PassReplies DEF Nexts
    <3>3. pass' = Rest => PassTyped' BY PassEnds DEF Typed
    <3> QED BY <3>1, <3>2, <3>3, <1>6, Zenon DEF StartPlanning
  <2>3. intent' \in Intents
    <3>1. None \in Plans BY DEF None, Plans
    <3>2. Cleared(intent.approval) \in Approvals BY DEF Cleared, Approvals
    <3>3. "Planning" \in IntentPhases BY DEF IntentPhases
    <3>4. Consumed(Head1) \in Nat BY <2>1, HeadIn DEF Consumed
    <3>5. intent' = [intent EXCEPT !.phase = "Planning", !.input = @ + 1, !.plan = None,
                                !.approval = Cleared(@), !.last = Consumed(Head1)] BY <1>6, Zenon DEF StartPlanning
    <3>6. intent \in Intents BY DEF Typed
    <3>7. [intent EXCEPT !.phase = "Planning", !.input = @ + 1, !.plan = None,
                         !.approval = Cleared(intent.approval), !.last = Consumed(Head1)] \in Intents
      BY <3>1, <3>2, <3>4, <3>6, IntentFields
    <3> QED BY <3>5, <3>7
  <2> QED BY <1>6, <2>2, <2>3 DEF StartPlanning, Typed
<1>7. CASE Launch
  <2>1. run.attempt \in Nat /\ intent.input \in Nat BY IntentFields DEF Typed, Runs
  <2>2. \A n \in Nat : [rev |-> intent.input, attempt |-> n, phase |-> "Pending"] \in Runs BY <2>1 DEF Runs, RunPhases
  <2>3. \E n \in {run.attempt + 1, 1} : run' = [rev |-> intent.input, attempt |-> n, phase |-> "Pending"]
    BY <1>7 DEF Launch
  <2>4. run' \in Runs BY <2>1, <2>2, <2>3
  <2> QED BY <1>7, <2>4, PassEnds DEF Launch, Typed
<1>8. CASE RecordPlan
  <2>1. [rev |-> run.rev, comment |-> 0] \in Plans BY DEF Typed, Runs, Plans
  <2>2. intent' \in Intents BY <1>8, <2>1, IntentFields DEF RecordPlan, Typed
  <2> QED BY <1>8, <2>2, PassEnds DEF RecordPlan, Typed
<1> QED BY <1>1, <1>2, <1>3, <1>4, <1>5, <1>6, <1>7, <1>8

\* The calls a plan is posted and an intent failed with.
LEMMA PostingTyped ==
    ASSUME Typed, WriteBack \/ ClearLabel \/ PostPlan \/ RecordPosting \/ Spent \/ RemoveTrigger \/ Fail
    PROVE  Typed'
<1> USE IntentApprovalAssumption
<1> USE DEF Handling, Replanning, Others
<1>1. CASE WriteBack
  <2>1. Own \in Nat BY OwnIn DEF Typed
  <2>2. PassTyped' BY <1>1, <2>1 DEF WriteBack, PassTyped
  <2> QED BY <1>1, <2>2 DEF WriteBack, Typed
<1>2. CASE ClearLabel
  <2>1. PassTyped' BY <1>2 DEF ClearLabel, PassTyped
  <2>2. issue.labels \ {"approve"} \in Labels BY IssueLabels, LabelSets DEF Typed
  <2>3. issue' \in Issues BY <1>2, <2>2, IssueLabels DEF ClearLabel, Typed
  <2> QED BY <1>2, <2>1, <2>3 DEF ClearLabel, Typed
<1>3. CASE PostPlan
  <2>1. PassTyped'
    <3>1. Len(comment) + 1 \in Nat BY DEF Typed
    <3> QED BY <1>3, <3>1 DEF PostPlan, PassTyped
  <2>2. intent.plan.rev \in Nat BY IntentFields DEF Typed, Plans
  <2>3. [rev |-> intent.plan.rev, at |-> now, edited |-> FALSE] \in Comments BY <2>2 DEF Comments, Typed
  <2>4. comment' \in Seq(Comments) BY <1>3, <2>3 DEF PostPlan, Typed
  <2> QED BY <1>3, <2>1, <2>4 DEF PostPlan, Typed
<1>4. CASE RecordPosting
  <2>1. intent' \in Intents BY <1>4, IntentFields DEF RecordPosting, Typed, PassTyped
  <2> QED BY <1>4, <2>1, PassEnds DEF RecordPosting, Typed
<1>5. CASE Spent
  <2>1. PassTyped' BY <1>5 DEF Spent, PassTyped
  <2> QED BY <1>5, <2>1 DEF Spent, Typed
<1>6. CASE RemoveTrigger
  <2>1. PassTyped' BY <1>6 DEF RemoveTrigger, PassTyped
  <2>2. issue.labels \ {"trigger"} \in Labels BY IssueLabels, LabelSets DEF Typed
  <2>3. issue' \in Issues BY <1>6, <2>2, IssueLabels DEF RemoveTrigger, Typed
  <2> QED BY <1>6, <2>1, <2>3 DEF RemoveTrigger, Typed
<1>7. CASE Fail
  <2>1. "Failed" \in IntentPhases BY DEF IntentPhases
  <2>2. intent' \in Intents BY <1>7, <2>1, IntentFields DEF Fail, Typed
  <2> QED BY <1>7, <2>2, PassEnds DEF Fail, Typed
<1> QED BY <1>1, <1>2, <1>3, <1>4, <1>5, <1>6, <1>7

LEMMA TypedStep == ASSUME Typed, [Next]_vars PROVE Typed'
<1>1. CASE UNCHANGED vars
  <2>1. UNCHANGED <<now, issue, act, reply, comment, input, run, intent, pass, budget>> BY <1>1 DEF vars
  <2> QED BY <2>1, PassEnds DEF Typed
<1>2. CASE Next
  <2> USE WorldTyped, AnsweringTyped, PlanningTyped, PostingTyped
  <2>1. CASE Poll \/ Phase \/ Revive BY <2>1, Zenon DEF Phase
  <2>2. CASE Answering BY <2>2, Zenon DEF Answering, Answers
  <2>3. CASE Writing BY <2>3, Zenon DEF Writing
  <2>4. CASE FinishPlan \/ Edit \/ Tick \/ Fault \/ \E kind \in Kinds : Act(kind) BY <2>4, Zenon
  <2> QED BY <1>2, <2>1, <2>2, <2>3, <2>4, Zenon DEF Next
<1> QED BY <1>1, <1>2

\* The fields of each variable, before their bounds.
THEOREM TypedInvariant == Spec => []Typed
BY TypedInit, TypedStep, PTL DEF Spec

-----------------------------------------------------------------------------
(* What a step leaves alone                                                 *)
\* The steps of a pass, and the steps that begin one.
Passes == Poll \/ Phase \/ Revive \/ Answering \/ Writing

LEMMA StepIs ==
    ASSUME Next
    PROVE  Passes \/ FinishPlan \/ Edit \/ Tick \/ Fault \/ \E kind \in Kinds : Act(kind)
BY Zenon DEF Next, Passes

LEMMA ActStep ==
    ASSUME NEW kind, Act(kind), Typed, kind \in Kinds
    PROVE  /\ act' = Append(act, act'[Len(act) + 1]) /\ act'[Len(act) + 1] \in Acts
           /\ Len(act') = Len(act) + 1 /\ Len(act) < MaxActs /\ \A i \in Ids : act'[i] = act[i]
           /\ act'[Len(act) + 1].at = now /\ act'[Len(act) + 1].kind = kind
           /\ act'[Len(act) + 1].shown = IF Len(comment) # 0 /\ ~comment[Len(comment)].edited
                                         THEN comment[Len(comment)].rev ELSE 0
           /\ UNCHANGED <<now, reply, comment, input, run, intent, pass, budget>>
<1> USE IntentApprovalAssumption
<1> DEFINE c == Len(comment)
           a == [kind |-> kind, at |-> now, content |-> issue.content,
                 shown |-> IF c # 0 /\ ~comment[c].edited THEN comment[c].rev ELSE 0]
<1>1. act' = Append(act, a) /\ Len(act) < MaxActs
      /\ UNCHANGED <<now, reply, comment, input, run, intent, pass, budget>>
  BY Zenon DEF Act
<1>2. a.shown \in Nat
  <2>1. c # 0 => comment[c] \in Comments BY DEF Typed
  <2> QED BY <2>1 DEF Comments
<1>3. a \in Acts BY <1>2, IssueLabels DEF Acts, Typed
<1>4. a.at = now /\ a.kind = kind
      /\ a.shown = IF c # 0 /\ ~comment[c].edited THEN comment[c].rev ELSE 0
  OBVIOUS
<1> HIDE DEF a
<1>5. act'[Len(act) + 1] = a /\ Len(act') = Len(act) + 1 /\ \A i \in Ids : act'[i] = act[i]
  BY <1>1, <1>3 DEF Typed, Ids
<1> QED BY <1>1, <1>3, <1>4, <1>5

LEMMA PassStep == ASSUME Passes PROVE UNCHANGED <<now, act, budget>> /\ (PostPlan \/ UNCHANGED comment)
<1> USE Zenon
<1>1. CASE Poll BY <1>1 DEF Poll
<1>2. CASE Phase BY <1>2 DEF Phase, StartFirst, Launch, RecordPlan, WriteBack, Spent
<1>3. CASE Revive BY <1>3 DEF Revive
<1>4. CASE Answering
  <2>1. CASE List \/ Answer \/ Reply \/ Consume \/ CloseIssue BY <2>1 DEF List, Answer, Reply, Consume, CloseIssue
  <2>2. CASE RemoveRefusedLabel \/ RecordSeen \/ RecordListing \/ EndClosed
    BY <2>2 DEF RemoveRefusedLabel, RecordSeen, RecordListing, EndClosed
  <2> QED BY <1>4, <2>1, <2>2 DEF Answering
<1>5. CASE Writing
  <2>1. CASE Snapshot \/ StartPlanning \/ ClearLabel \/ PostPlan
    BY <2>1 DEF Snapshot, StartPlanning, ClearLabel, PostPlan
  <2>2. CASE RecordPosting \/ RemoveTrigger \/ Fail BY <2>2 DEF RecordPosting, RemoveTrigger, Fail
  <2> QED BY <1>5, <2>1, <2>2 DEF Writing
<1> QED BY <1>1, <1>2, <1>3, <1>4, <1>5 DEF Passes

\* Only these steps write the Intent's status.
StatusWrites == Answer \/ Consume \/ RecordSeen \/ RecordListing \/ EndClosed \/ StartPlanning \/ RecordPlan
                \/ RecordPosting \/ Fail
LEMMA StatusSteps == ASSUME Passes PROVE StatusWrites \/ UNCHANGED intent
<1> USE Zenon DEF StatusWrites
<1>1. CASE Poll BY <1>1 DEF Poll
<1>2. CASE Phase BY <1>2 DEF Phase, StartFirst, Launch, WriteBack, Spent
<1>3. CASE Revive BY <1>3 DEF Revive
<1>4. CASE Answering BY <1>4 DEF Answering, List, Reply, CloseIssue, RemoveRefusedLabel
<1>5. CASE Writing BY <1>5 DEF Writing, Snapshot, ClearLabel, PostPlan, RemoveTrigger
<1> QED BY <1>1, <1>2, <1>3, <1>4, <1>5 DEF Passes

\* What each of them writes.
LEMMA StatusGives ==
    ASSUME Typed, StatusWrites
    PROVE  /\ StartPlanning =>
                /\ intent'.phase = "Planning" /\ intent'.input = intent.input + 1 /\ intent'.approval.act = 0 /\ intent'.approval.rev = 0
                /\ intent'.last = Head1 /\ intent'.seen = intent.seen
                /\ intent'.plan.rev = 0 /\ intent'.plan.comment = 0
           /\ Consume => /\ intent'.last = Head1 /\ intent'.phase = intent.phase /\ intent'.seen = intent.seen
                         /\ intent'.plan = intent.plan /\ intent'.approval = intent.approval /\ intent'.input = intent.input
           /\ Answer =>
                /\ intent'.seen = intent.seen /\ intent'.plan = intent.plan
                /\ intent'.input = intent.input /\ intent'.last = intent.last
                /\ \/ intent' = intent
                   \/ /\ intent'.phase = "Building" /\ Admits(Head1) /\ Unchanged
                      /\ act[Head1].kind \notin Trigger /\ act[Head1].kind # "cancel"
                      /\ intent'.approval.act = Head1 /\ intent'.approval.rev = intent.plan.rev
           /\ RecordSeen \/ RecordListing =>
                /\ intent'.phase = intent.phase /\ intent'.plan = intent.plan /\ intent'.approval = intent.approval
                /\ intent'.input = intent.input /\ intent'.last = intent.last
           /\ EndClosed => intent'.phase = "Closed" /\ intent'.plan = intent.plan /\ intent'.approval = intent.approval
                           /\ intent'.seen = intent.seen /\ intent'.input = intent.input /\ intent'.last = intent.last
           /\ Fail => intent'.phase = "Failed" /\ intent'.plan = intent.plan /\ intent'.approval = intent.approval
                      /\ intent'.seen = intent.seen /\ intent'.input = intent.input /\ intent'.last = intent.last
           /\ RecordPlan => /\ intent'.phase = "Planning" /\ intent'.plan.rev = run.rev /\ intent'.plan.comment = 0
                            /\ intent'.approval = intent.approval /\ intent'.seen = intent.seen
                            /\ intent'.input = intent.input /\ intent'.last = intent.last
           /\ RecordPosting => /\ intent'.phase = "AwaitingApproval" /\ intent'.plan.rev = intent.plan.rev
                               /\ intent'.plan.comment = pass.comment /\ intent'.approval = intent.approval
                               /\ intent'.seen = intent.seen
                               /\ intent'.input = intent.input /\ intent'.last = intent.last
<1>0. intent \in Intents /\ intent.plan \in Plans BY IntentFields DEF Typed
<1>1. StartPlanning =>
        /\ intent'.phase = "Planning" /\ intent'.input = intent.input + 1 /\ intent'.approval.act = 0 /\ intent'.approval.rev = 0
        /\ intent'.last = Head1 /\ intent'.seen = intent.seen
        /\ intent'.plan.rev = 0 /\ intent'.plan.comment = 0
  <2> SUFFICES ASSUME StartPlanning PROVE <1>1!2 OBVIOUS
  <2>1. intent' = [intent EXCEPT !.phase = "Planning", !.input = @ + 1, !.plan = None,
                                 !.approval = Cleared(@), !.last = Consumed(Head1)]
    BY Zenon DEF StartPlanning
  <2> QED BY <2>1, <1>0 DEF Intents, None, Cleared, Consumed
<1>2. Consume => /\ intent'.last = Head1 /\ intent'.phase = intent.phase /\ intent'.seen = intent.seen
                 /\ intent'.plan = intent.plan /\ intent'.approval = intent.approval /\ intent'.input = intent.input
  BY <1>0 DEF Consume, Intents
<1>3. Answer =>
        /\ intent'.seen = intent.seen /\ intent'.plan = intent.plan
        /\ intent'.input = intent.input /\ intent'.last = intent.last
        /\ \/ intent' = intent
           \/ /\ intent'.phase = "Building" /\ Admits(Head1) /\ Unchanged
              /\ act[Head1].kind \notin Trigger /\ act[Head1].kind # "cancel"
              /\ intent'.approval.act = Head1 /\ intent'.approval.rev = intent.plan.rev
  <2> SUFFICES ASSUME Answer PROVE <1>3!2 OBVIOUS
  <2>1. \/ intent' = intent
        \/ /\ intent' = [intent EXCEPT !.phase = "Building", !.approval = [act |-> Head1, rev |-> intent.plan.rev]]
           /\ Admits(Head1) /\ Unchanged /\ act[Head1].kind \notin Trigger /\ act[Head1].kind # "cancel"
    BY Zenon DEF Answer
  <2>2. CASE intent' = intent BY <2>2
  <2>3. CASE intent' = [intent EXCEPT !.phase = "Building", !.approval = [act |-> Head1, rev |-> intent.plan.rev]]
    <3>1. /\ intent'.phase = "Building" /\ intent'.approval.act = Head1 /\ intent'.approval.rev = intent.plan.rev
          /\ intent'.seen = intent.seen /\ intent'.plan = intent.plan
          /\ intent'.input = intent.input /\ intent'.last = intent.last
      BY <2>3, <1>0 DEF Intents
    <3> QED BY <3>1, <2>1
  <2> QED BY <2>1, <2>2, <2>3
<1>4. RecordSeen \/ RecordListing =>
        /\ intent'.phase = intent.phase /\ intent'.plan = intent.plan /\ intent'.approval = intent.approval
        /\ intent'.input = intent.input /\ intent'.last = intent.last
  <2> SUFFICES ASSUME RecordSeen \/ RecordListing PROVE <1>4!2 OBVIOUS
  <2>1. intent' = intent \/ \E n : intent' = [intent EXCEPT !.seen = n] BY Zenon DEF RecordSeen, RecordListing
  <2> QED BY <2>1, <1>0 DEF Intents
<1>5. EndClosed => intent'.phase = "Closed" /\ intent'.plan = intent.plan /\ intent'.approval = intent.approval
                   /\ intent'.seen = intent.seen /\ intent'.input = intent.input /\ intent'.last = intent.last
  BY <1>0 DEF EndClosed, Intents
<1>6. Fail => intent'.phase = "Failed" /\ intent'.plan = intent.plan /\ intent'.approval = intent.approval
              /\ intent'.seen = intent.seen /\ intent'.input = intent.input /\ intent'.last = intent.last
  BY <1>0 DEF Fail, Intents
<1>7. RecordPlan => /\ intent'.phase = "Planning" /\ intent'.plan.rev = run.rev /\ intent'.plan.comment = 0
                    /\ intent'.approval = intent.approval /\ intent'.seen = intent.seen
                    /\ intent'.input = intent.input /\ intent'.last = intent.last
  BY <1>0 DEF RecordPlan, Intents
<1>8. RecordPosting => /\ intent'.phase = "AwaitingApproval" /\ intent'.plan.rev = intent.plan.rev
                       /\ intent'.plan.comment = pass.comment /\ intent'.approval = intent.approval
                       /\ intent'.seen = intent.seen
                       /\ intent'.input = intent.input /\ intent'.last = intent.last
  <2> SUFFICES ASSUME RecordPosting PROVE <1>8!2 OBVIOUS
  <2>1. intent' = [intent EXCEPT !.phase = "AwaitingApproval", !.plan.comment = pass.comment] BY Zenon DEF RecordPosting
  <2>2. intent'.plan = [intent.plan EXCEPT !.comment = pass.comment] BY <2>1, <1>0 DEF Intents
  <2>3. /\ intent'.phase = "AwaitingApproval" /\ intent'.approval = intent.approval
        /\ intent'.seen = intent.seen /\ intent'.input = intent.input /\ intent'.last = intent.last
    BY <2>1, <1>0 DEF Intents
  <2> QED BY <2>2, <2>3, <1>0 DEF Plans
<1> QED BY <1>1, <1>2, <1>3, <1>4, <1>5, <1>6, <1>7, <1>8, Zenon DEF StatusWrites

-----------------------------------------------------------------------------
(* Where a pass goes                                                        *)
KeepsList == pass'.todo = pass.todo /\ pass'.newest = pass.newest /\ pass'.deferred = pass.deferred /\ Carries'

LEMMA AnswerGoes ==
    ASSUME Typed, Answer
    PROVE  /\ pass.at = "answer" /\ Carries /\ pass.todo # <<>> /\ KeepsList
           /\ \/ pass'.at = "reply" /\ (pass'.next = "consume" => act[Head1].kind \in Trigger)
              \/ pass'.at = "close" /\ intent' = intent
              \/ pass'.at = "seen" /\ ~IsCommand(Head1)
              \/ /\ pass'.at = "snapshot" /\ intent' = intent /\ intent.phase = "AwaitingApproval"
                 /\ act[Head1].kind \in Trigger
                 /\ ~(IsCommand(Head1) /\ act[Head1].kind # "cancel" /\ Recorded(Head1))
<1>1. pass.at = "answer" /\ Carries /\ pass.todo # <<>>
  BY DEF Answer, Typed, PassTyped, Handling
<1> DEFINE i == Head1
           kind == act[Head1].kind
<1>2. \/ GotoThen("reply", "seen") \/ GotoThen("reply", "unlabel")
      \/ GotoThen("reply", "consume") /\ kind \in Trigger
      \/ Goto("close") /\ intent' = intent
      \/ Goto("seen") /\ ~IsCommand(i)
      \/ Goto("snapshot") /\ intent' = intent /\ intent.phase = "AwaitingApproval" /\ kind \in Trigger
         /\ ~(IsCommand(i) /\ kind # "cancel" /\ Recorded(i))
  <2>1. CASE IsCommand(i) /\ kind # "cancel" /\ Recorded(i) BY <1>1, <2>1, Zenon DEF Answer
  <2>2. CASE ~(IsCommand(i) /\ kind # "cancel" /\ Recorded(i)) /\ kind \in Trigger BY <1>1, <2>2, Zenon DEF Answer
  <2>3. CASE ~(IsCommand(i) /\ kind # "cancel" /\ Recorded(i)) /\ kind \notin Trigger BY <1>1, <2>3, Zenon DEF Answer
  <2> QED BY <2>1, <2>2, <2>3
<1>3. \A n : GotoThen("reply", n) => KeepsList /\ pass'.at = "reply" /\ pass'.next = n
  BY <1>1, GotoThenKeeps DEF KeepsList
<1>4. \A at : Goto(at) => KeepsList /\ pass'.at = at BY <1>1, GotoKeeps DEF KeepsList
<1> QED BY <1>1, <1>2, <1>3, <1>4

LEMMA HandlingGoes ==
    ASSUME Typed
    PROVE  /\ Reply => pass.at = "reply" /\ pass'.at = pass.next /\ pass.next \in Nexts
                       /\ Carries /\ pass.todo # <<>> /\ KeepsList
           /\ Consume => pass.at = "consume" /\ pass'.at = "seen" /\ Carries /\ pass.todo # <<>> /\ KeepsList
           /\ CloseIssue => pass.at = "close" /\ pass'.at = "reply" /\ pass'.next = "end"
                            /\ Carries /\ pass.todo # <<>> /\ KeepsList
           /\ RemoveRefusedLabel => pass.at = "unlabel" /\ pass'.at = "seen"
                                    /\ Carries /\ pass.todo # <<>> /\ KeepsList
           /\ RecordSeen => /\ pass.at = "seen" /\ pass'.at = "answer" /\ Carries /\ pass.todo # <<>> /\ Carries'
                            /\ pass'.todo = Tail(pass.todo)
                            /\ pass'.newest = pass.newest /\ pass'.deferred = pass.deferred
           /\ RecordListing => pass.at = "answer" /\ Carries /\ pass.todo = <<>> /\ pass'.at \in {"idle", "end"}
           /\ EndClosed => pass.at = "end" /\ pass'.at = "idle"
<1>0. /\ pass.at \in Handling => Carries
      /\ pass.at \in Handling \ {"answer"} => pass.todo # <<>>
      /\ pass.at = "reply" => pass.next \in Nexts
  BY DEF Typed, PassTyped, Carries
<1>1. \A at : Carries /\ pass.todo # <<>> /\ Goto(at) => KeepsList /\ pass'.at = at BY GotoKeeps DEF KeepsList
<1>2. Reply => pass.at = "reply" /\ pass'.at = pass.next /\ pass.next \in Nexts
               /\ Carries /\ pass.todo # <<>> /\ KeepsList
  BY <1>0, <1>1 DEF Reply, Handling
<1>3. Consume => pass.at = "consume" /\ pass'.at = "seen" /\ Carries /\ pass.todo # <<>> /\ KeepsList
  BY <1>0, <1>1 DEF Consume, Handling
<1>4. CloseIssue => pass.at = "close" /\ pass'.at = "reply" /\ pass'.next = "end"
                    /\ Carries /\ pass.todo # <<>> /\ KeepsList
  BY <1>0, GotoThenKeeps DEF CloseIssue, Handling, KeepsList
<1>5. RemoveRefusedLabel => pass.at = "unlabel" /\ pass'.at = "seen"
                            /\ Carries /\ pass.todo # <<>> /\ KeepsList
  BY <1>0, <1>1 DEF RemoveRefusedLabel, Handling
<1>6. RecordSeen => /\ pass.at = "seen" /\ pass'.at = "answer" /\ Carries /\ pass.todo # <<>> /\ Carries'
                    /\ pass'.todo = Tail(pass.todo)
                    /\ pass'.newest = pass.newest /\ pass'.deferred = pass.deferred
  <2> SUFFICES ASSUME RecordSeen PROVE <1>6!2 OBVIOUS
  <2>1. pass.at = "seen" /\ Carries /\ pass.todo # <<>> BY <1>0 DEF RecordSeen, Handling
  <2>2. pass' = [pass EXCEPT !.at = "answer", !.todo = Tail(pass.todo)] BY DEF RecordSeen
  <2>3. Tail(pass.todo) \in Seq(Nat) BY <2>1, HeadIn
  <2> QED BY <2>1, <2>2, <2>3 DEF Carries
<1>7. RecordListing => pass.at = "answer" /\ Carries /\ pass.todo = <<>> /\ pass'.at \in {"idle", "end"}
  BY <1>0 DEF RecordListing, Handling, Rest
<1>8. EndClosed => pass.at = "end" /\ pass'.at = "idle" BY DEF EndClosed, Rest
<1> QED BY <1>2, <1>3, <1>4, <1>5, <1>6, <1>7, <1>8

LEMMA ReplanGoes ==
    ASSUME Typed
    PROVE  /\ StartFirst => /\ pass.at = "idle" /\ intent.phase = "Pending" /\ pass'.at = "snapshot"
                            /\ pass'.todo = <<0>> /\ pass'.newest = 0 /\ pass'.deferred = {} /\ intent' = intent
           /\ Revive => /\ pass.at = "idle" /\ intent.phase = "Failed" /\ pass'.at = "snapshot"
                        /\ Newest("replanLabel") \in Ids /\ act[Newest("replanLabel")].kind = "replanLabel"
                        /\ After(Newest("replanLabel"), intent.last)
                        /\ pass'.todo = <<Newest("replanLabel")>> /\ pass'.newest = 0 /\ pass'.deferred = {}
                        /\ intent' = intent
           /\ Snapshot => pass.at = "snapshot" /\ pass'.at = "plan" /\ Carries /\ pass.todo # <<>> /\ KeepsList
                          /\ intent' = intent
           /\ StartPlanning =>
                /\ pass.at = "plan" /\ Carries /\ pass.todo # <<>>
                /\ intent.phase # "AwaitingApproval" => pass'.at = "idle"
                /\ intent.phase = "AwaitingApproval" =>
                     /\ KeepsList
                     /\ \/ pass'.at = "reply" /\ pass'.next = "seen"
                        \/ pass'.at = "seen" /\ ~IsCommand(Head1)
<1>0. pass.at \in Replanning => Carries /\ pass.todo # <<>> BY DEF Typed, PassTyped, Carries, Replanning
<1>1. StartFirst => /\ pass.at = "idle" /\ intent.phase = "Pending" /\ pass'.at = "snapshot"
                    /\ pass'.todo = <<0>> /\ pass'.newest = 0 /\ pass'.deferred = {} /\ intent' = intent
  BY BeginCarries DEF StartFirst, Idle, Typed
<1>2. Revive => /\ pass.at = "idle" /\ intent.phase = "Failed" /\ pass'.at = "snapshot"
                /\ Newest("replanLabel") \in Ids /\ act[Newest("replanLabel")].kind = "replanLabel"
                /\ After(Newest("replanLabel"), intent.last)
                /\ pass'.todo = <<Newest("replanLabel")>> /\ pass'.newest = 0 /\ pass'.deferred = {}
                /\ intent' = intent
  <2>1. Newest("replanLabel") # 0 => /\ Newest("replanLabel") \in Ids /\ Newest("replanLabel") \in Nat
                                     /\ act[Newest("replanLabel")].kind = "replanLabel"
    BY NewestIn DEF Typed, Ids
  <2> QED BY <2>1, BeginCarries DEF Revive, Idle, Typed
<1>3. Snapshot => pass.at = "snapshot" /\ pass'.at = "plan" /\ Carries /\ pass.todo # <<>> /\ KeepsList
                  /\ intent' = intent
  BY <1>0, GotoKeeps DEF Snapshot, Replanning, KeepsList
<1>4. StartPlanning =>
        /\ pass.at = "plan" /\ Carries /\ pass.todo # <<>>
        /\ intent.phase # "AwaitingApproval" => pass'.at = "idle"
        /\ intent.phase = "AwaitingApproval" =>
             /\ KeepsList
             /\ \/ pass'.at = "reply" /\ pass'.next = "seen"
                \/ pass'.at = "seen" /\ ~IsCommand(Head1)
  <2> SUFFICES ASSUME StartPlanning PROVE <1>4!2 OBVIOUS
  <2>1. pass.at = "plan" /\ Carries /\ pass.todo # <<>> BY <1>0 DEF StartPlanning, Replanning
  <2>2. IF intent.phase = "AwaitingApproval" THEN
           IF IsCommand(Head1) THEN GotoThen("reply", "seen") ELSE Goto("seen")
        ELSE pass' = Rest
    BY Zenon DEF StartPlanning
  <2> QED BY <2>1, <2>2, GotoKeeps, GotoThenKeeps DEF KeepsList, Rest
<1> QED BY <1>1, <1>2, <1>3, <1>4

-----------------------------------------------------------------------------
(* The plan shown on the issue                                              *)
\* Actions and comments are dated in order, and the last comment shows the
\* latest plan there is.
Dated ==
    /\ \A i \in Ids : act[i].at <= now
    /\ \A i, j \in Ids : i <= j => act[i].at <= act[j].at
    /\ \A c \in 1..Len(comment) : comment[c].at <= now /\ comment[c].rev <= comment[Len(comment)].rev
    /\ Len(comment) # 0 => comment[Len(comment)].rev <= intent.input

\* Whoever acted after the last comment was posted acted on its plan.
ShownLast ==
    Len(comment) # 0 /\ ~comment[Len(comment)].edited =>
        \A i \in Ids : act[i].at > comment[Len(comment)].at => act[i].shown = comment[Len(comment)].rev

\* What awaits approval, or is being posted, is the last comment's plan.
LastIs(c) == c = Len(comment) /\ c # 0 /\ comment[c].rev = intent.plan.rev
Planned ==
    /\ intent.phase = "AwaitingApproval" => LastIs(intent.plan.comment) /\ intent.plan.rev = intent.input
    /\ pass.at \in {"clear", "post", "record"} => intent.phase = "Planning" /\ intent.plan.rev = intent.input
    /\ pass.at = "record" => LastIs(pass.comment)

\* What a pass answers are actions taken; only the first plan has none.
Taken ==
    pass.at \in Handling \cup Replanning =>
        \A k \in 1..Len(pass.todo) :
            \/ pass.todo[k] \in Ids
            \/ pass.todo[k] = 0 /\ pass.at \in Replanning /\ intent.phase = "Pending"

Approved == intent.approval.act # 0 =>
    intent.approval.act \in Ids /\ act[intent.approval.act].shown = intent.approval.rev

LEMMA TypedNumbers ==
    ASSUME Typed
    PROVE  /\ now \in Nat /\ Len(act) \in Nat /\ Len(comment) \in Nat
           /\ intent.input \in Nat /\ intent.last \in Nat /\ intent.seen \in Nat
           /\ intent.plan.rev \in Nat /\ intent.plan.comment \in Nat
           /\ \A i \in Ids : act[i].at \in Nat
<1>1. intent \in Intents /\ now \in Nat /\ act \in Seq(Acts) /\ comment \in Seq(Comments) BY DEF Typed
<1>2. \A i \in Ids : act[i].at \in Nat BY <1>1, ActIs
<1>3. /\ intent.input \in Nat /\ intent.last \in Nat /\ intent.seen \in Nat
      /\ intent.plan.rev \in Nat /\ intent.plan.comment \in Nat
  BY <1>1, IntentFields, Zenon
<1> QED BY <1>1, <1>2, <1>3

LEMMA InputStep == ASSUME Typed, Passes PROVE intent'.input \in Nat /\ intent.input <= intent'.input
<1>1. intent.input \in Nat BY IntentFields DEF Typed
<1>2. intent'.input = intent.input \/ intent'.input = intent.input + 1 BY StatusSteps, StatusGives, Zenon DEF StatusWrites
<1> QED BY <1>1, <1>2

LEMMA CommentsIs == ASSUME Typed, NEW c \in 1..Len(comment)
                    PROVE comment[c] \in Comments /\ comment[c].rev \in Nat /\ comment[c].at \in Nat
                          /\ comment[c].edited \in BOOLEAN
<1>1. comment[c] \in Comments BY DEF Typed
<1> QED BY <1>1 DEF Comments

LEMMA EditedIs ==
    ASSUME NEW x \in Comments
    PROVE  LET e == [x EXCEPT !.edited = TRUE] IN e.rev = x.rev /\ e.at = x.at /\ e.edited = TRUE
BY DEF Comments

LEMMA EditGives ==
    ASSUME Typed, Edit
    PROVE  /\ UNCHANGED <<now, act, reply, input, run, intent, pass>>
           /\ Len(comment') = Len(comment) /\ budget.edits > 0 /\ budget' = [budget EXCEPT !.edits = @ - 1]
           /\ \A c \in 1..Len(comment) : /\ comment'[c].rev = comment[c].rev /\ comment'[c].at = comment[c].at
                                         /\ comment[c].edited => comment'[c].edited
                                         /\ comment'[c].edited \in BOOLEAN
           /\ \/ comment' = comment /\ issue'.labels = issue.labels /\ issue'.open = issue.open
              \/ UNCHANGED issue /\ \E c \in 1..Len(comment) : comment' = [comment EXCEPT ![c].edited = TRUE]
<1>1. UNCHANGED <<now, act, reply, input, run, intent, pass>> BY DEF Edit
<1>2. budget.edits > 0 /\ budget' = [budget EXCEPT !.edits = @ - 1] BY DEF Edit, SpendEdit
<1>3. \/ comment' = comment /\ \E c \in Content : issue' = [issue EXCEPT !.content = c]
      \/ UNCHANGED issue /\ \E c \in 1..Len(comment) : comment' = [comment EXCEPT ![c].edited = TRUE]
  BY Zenon DEF Edit
<1>4. issue \in Issues BY DEF Typed
<1>5. ASSUME NEW d \in 1..Len(comment), comment' = [comment EXCEPT ![d].edited = TRUE], NEW c \in 1..Len(comment)
      PROVE  /\ comment'[c].rev = comment[c].rev /\ comment'[c].at = comment[c].at
             /\ comment[c].edited => comment'[c].edited
             /\ comment'[c].edited \in BOOLEAN
  <2>0. comment \in Seq(Comments) BY DEF Typed
  <2>1. comment'[c] = IF c = d THEN [comment[c] EXCEPT !.edited = TRUE] ELSE comment[c]
    <3>1. c \in DOMAIN comment BY <2>0
    <3> QED BY <1>5, <3>1
  <2>2. comment[c] \in Comments /\ comment[c].edited \in BOOLEAN BY CommentsIs
  <2> DEFINE e == [comment[c] EXCEPT !.edited = TRUE]
  <2>3. e.rev = comment[c].rev /\ e.at = comment[c].at /\ e.edited = TRUE
    BY <2>2, Zenon, EditedIs
  <2> QED BY <2>1, <2>2, <2>3
<1>6. Len(comment') = Len(comment) BY <1>3 DEF Typed
<1>7. (\E c \in Content : issue' = [issue EXCEPT !.content = c]) => issue'.labels = issue.labels /\ issue'.open = issue.open
  BY <1>4 DEF Issues
<1> QED BY <1>1, <1>2, <1>3, <1>5, <1>6, <1>7, CommentsIs

LEMMA PostGives ==
    ASSUME Typed, PostPlan
    PROVE  /\ pass.at = "post" /\ pass'.at = "record" /\ pass'.comment = Len(comment) + 1
           /\ Len(comment') = Len(comment) + 1 /\ \A c \in 1..Len(comment) : comment'[c] = comment[c]
           /\ comment'[Len(comment) + 1] = [rev |-> intent.plan.rev, at |-> now, edited |-> FALSE]
           /\ UNCHANGED <<now, issue, act, reply, input, run, intent, budget>>
BY DEF PostPlan, Typed

LEMMA DatedStep == ASSUME Typed, Dated, Planned, Next PROVE Dated'
<1>0. now \in Nat /\ Len(comment) \in Nat /\ Len(act) \in Nat /\ \A i \in Ids : act[i].at \in Nat
  BY ActIs DEF Typed
<1>1. ASSUME NEW kind \in Kinds, Act(kind) PROVE Dated'
  BY <1>0, <1>1, ActStep DEF Dated, Ids
<1>2. CASE Tick BY <1>0, <1>2, CommentsIs DEF Tick, Dated, Ids
<1>3. CASE Edit BY <1>3, EditGives DEF Dated, Ids
<1>4. CASE FinishPlan \/ Fault BY <1>4 DEF FinishPlan, Fault, Dated, Ids
<1>5. CASE Passes
  <2>1. UNCHANGED <<now, act>> BY <1>5, PassStep
  <2>2. CASE PostPlan
    <3>1. intent.plan.rev = intent.input /\ intent.input \in Nat BY <2>2, PostGives, IntentFields DEF Planned, Typed
    <3>2. \A c \in 1..Len(comment) : comment[c].rev <= intent.input
      <4>1. ASSUME NEW c \in 1..Len(comment) PROVE comment[c].rev <= intent.input
        <5>1. Len(comment) \in 1..Len(comment) /\ Len(comment) # 0 BY <1>0
        <5>2. comment[c].rev <= comment[Len(comment)].rev /\ comment[Len(comment)].rev <= intent.input BY <5>1 DEF Dated
        <5> QED BY <5>1, <5>2, <3>1, CommentsIs
      <4> QED BY <4>1
    <3>3. /\ Len(comment') = Len(comment) + 1 /\ \A c \in 1..Len(comment) : comment'[c] = comment[c]
          /\ comment'[Len(comment) + 1].rev = intent.plan.rev /\ comment'[Len(comment) + 1].at = now
          /\ intent' = intent
      BY <2>2, PostGives
    <3> QED BY <1>0, <2>1, <3>1, <3>2, <3>3 DEF Dated, Ids
  <2>3. CASE UNCHANGED comment
    <3>1. intent'.input \in Nat /\ intent.input <= intent'.input /\ intent.input \in Nat
      BY <1>5, InputStep, IntentFields DEF Typed
    <3> QED BY <1>0, <2>1, <2>3, <3>1, CommentsIs DEF Dated, Ids
  <2> QED BY <1>5, <2>2, <2>3, PassStep
<1> QED BY <1>1, <1>2, <1>3, <1>4, <1>5, StepIs

LEMMA ShownLastStep == ASSUME Typed, Dated, ShownLast, Next PROVE ShownLast'
<1>0. now \in Nat /\ Len(comment) \in Nat /\ Len(act) \in Nat /\ \A i \in Ids : act[i].at \in Nat
  BY ActIs DEF Typed
<1>1. ASSUME NEW kind \in Kinds, Act(kind) PROVE ShownLast'
  BY <1>0, <1>1, ActStep DEF ShownLast, Ids
<1>3. CASE Edit
  <2>1. Len(comment) # 0 => Len(comment) \in 1..Len(comment) BY <1>0
  <2> QED BY <2>1, <1>3, EditGives DEF ShownLast, Ids
<1>4. CASE FinishPlan \/ Fault \/ Tick BY <1>4 DEF FinishPlan, Fault, Tick, ShownLast, Ids
<1>5. CASE Passes
  <2>1. UNCHANGED <<now, act>> BY <1>5, PassStep
  <2>2. CASE PostPlan BY <1>0, <2>1, <2>2, PostGives DEF ShownLast, Dated, Ids
  <2>3. CASE UNCHANGED comment BY <2>1, <2>3 DEF ShownLast, Ids
  <2> QED BY <1>5, <2>2, <2>3, PassStep
<1> QED BY <1>1, <1>3, <1>4, <1>5, StepIs

\* The calls that answer nobody.
Silent == Poll \/ Launch \/ RecordPlan \/ WriteBack \/ ClearLabel \/ PostPlan \/ RecordPosting \/ Spent
          \/ RemoveTrigger \/ Fail
LEMMA PassesAre ==
    ASSUME Passes
    PROVE  Answers \/ List \/ StartFirst \/ Revive \/ Snapshot \/ StartPlanning \/ Silent
BY Zenon DEF Passes, Answering, Writing, Phase, Answers, Silent

LEMMA SilentGoes ==
    ASSUME Typed, Silent
    PROVE  /\ pass'.at \in Others /\ UNCHANGED <<act, reply>>
           /\ \/ /\ pass'.at \notin {"clear", "post", "record"} /\ UNCHANGED comment
                 /\ UNCHANGED intent \/ intent'.phase # "AwaitingApproval"
              \/ /\ intent.phase = "Planning" /\ intent.plan.rev = intent.input /\ UNCHANGED <<comment, intent>>
                 /\ \/ pass'.at = "record" /\ pass'.comment = Own /\ Own # 0
                    \/ pass'.at = "clear" /\ ~(Own # 0 /\ ~comment[Own].edited)
              \/ pass.at = "clear" /\ pass'.at = "post" /\ UNCHANGED <<comment, intent>>
              \/ pass'.at = "record" /\ PostPlan
              \/ pass.at = "record" /\ pass'.at = "idle" /\ UNCHANGED comment /\ RecordPosting
           /\ pass'.at \in {"list", "end"} => Poll
           /\ intent'.last = intent.last /\ intent'.input = intent.input
           /\ intent'.phase = intent.phase \/ intent'.phase \in {"Planning", "AwaitingApproval", "Failed"}
<1> USE DEF Others
<1>1. CASE Poll BY <1>1 DEF Poll
<1>2. CASE WriteBack BY <1>2 DEF WriteBack
<1>3. CASE Launch BY <1>3 DEF Launch, Idle
<1>4. CASE RecordPlan
  <2>1. intent'.phase = "Planning" /\ intent'.last = intent.last /\ intent'.input = intent.input
    BY <1>4, StatusGives DEF StatusWrites
  <2> QED BY <1>4, <2>1 DEF RecordPlan, Idle
<1>5. CASE ClearLabel BY <1>5 DEF ClearLabel
<1>6. CASE PostPlan BY <1>6 DEF PostPlan
<1>7. CASE RecordPosting
  <2>1. intent'.phase = "AwaitingApproval" /\ intent'.last = intent.last /\ intent'.input = intent.input
    BY <1>7, StatusGives DEF StatusWrites
  <2> QED BY <1>7, <2>1 DEF RecordPosting, Rest
<1>8. CASE Spent BY <1>8 DEF Spent
<1>9. CASE RemoveTrigger BY <1>9 DEF RemoveTrigger
<1>10. CASE Fail
  <2>1. intent'.phase = "Failed" /\ intent'.last = intent.last /\ intent'.input = intent.input
    BY <1>10, StatusGives DEF StatusWrites
  <2> QED BY <1>10, <2>1 DEF Fail, Rest
<1> QED BY <1>1, <1>2, <1>3, <1>4, <1>5, <1>6, <1>7, <1>8, <1>9, <1>10 DEF Silent

\* Where the calls that answer go, in short.
LEMMA AnswersGo ==
    ASSUME Typed, Answers
    PROVE  /\ pass'.at \in Handling \cup {"snapshot", "idle", "end"} /\ UNCHANGED <<act, comment>>
           /\ pass'.at \in Handling \cup {"snapshot"} =>
                /\ pass.at \in Handling /\ Carries /\ pass.todo # <<>> /\ Carries'
                /\ pass'.newest = pass.newest /\ pass'.deferred = pass.deferred
                /\ \/ pass'.todo = pass.todo
                   \/ RecordSeen /\ pass'.todo = Tail(pass.todo)
           /\ \/ intent'.phase = intent.phase
              \/ intent'.phase = "Building" /\ intent.phase = "AwaitingApproval"
              \/ intent'.phase = "Closed" /\ pass'.at = "idle"
           /\ pass'.at = "snapshot" => intent' = intent /\ intent.phase = "AwaitingApproval"
           /\ intent'.plan = intent.plan /\ intent'.input = intent.input
           /\ intent'.last = intent.last \/ (Consume /\ intent'.last = Head1)
<1> USE AnswerGoes, HandlingGoes, StatusGives DEF StatusWrites, KeepsList, Handling, Nexts, Admits
<1>1. CASE Answer
  <2>1. UNCHANGED <<act, comment>> BY <1>1 DEF Answer
  <2> QED BY <1>1, <2>1
<1>2. CASE Reply
  <2>1. UNCHANGED <<act, comment, intent>> BY <1>2 DEF Reply
  <2> QED BY <1>2, <2>1
<1>3. CASE Consume
  <2>1. UNCHANGED <<act, comment>> BY <1>3 DEF Consume
  <2> QED BY <1>3, <2>1
<1>4. CASE CloseIssue
  <2>1. UNCHANGED <<act, comment, intent>> BY <1>4 DEF CloseIssue
  <2> QED BY <1>4, <2>1
<1>5. CASE RemoveRefusedLabel
  <2>1. UNCHANGED <<act, comment, intent>> BY <1>5 DEF RemoveRefusedLabel
  <2> QED BY <1>5, <2>1
<1>6. CASE RecordSeen
  <2>1. UNCHANGED <<act, comment>> BY <1>6 DEF RecordSeen
  <2> QED BY <1>6, <2>1
<1>7. CASE RecordListing
  <2>1. UNCHANGED <<act, comment>> BY <1>7 DEF RecordListing
  <2> QED BY <1>7, <2>1
<1>8. CASE EndClosed
  <2>1. UNCHANGED <<act, comment>> BY <1>8 DEF EndClosed
  <2> QED BY <1>8, <2>1
<1> QED BY <1>1, <1>2, <1>3, <1>4, <1>5, <1>6, <1>7, <1>8 DEF Answers

LEMMA PlannedStep == ASSUME Typed, Dated, Planned, Next PROVE Planned'
<1>0. Len(comment) \in Nat /\ intent.input \in Nat /\ intent.plan.rev \in Nat BY TypedNumbers
<1>1. ASSUME NEW kind \in Kinds, Act(kind) PROVE Planned'
  BY <1>1, ActStep DEF Planned, LastIs
<1>2. CASE Edit
  <2>1. Len(comment) # 0 => Len(comment) \in 1..Len(comment) BY <1>0
  <2> QED BY <2>1, <1>2, EditGives DEF Planned, LastIs
<1>3. CASE FinishPlan \/ Tick \/ Fault BY <1>3 DEF FinishPlan, Fault, Tick, Planned, Rest, LastIs
<1>4. CASE Passes
  <2>1. CASE Answers BY <2>1, AnswersGo DEF Planned, LastIs, Handling
  <2>2. CASE List
    <3>1. UNCHANGED <<comment, intent>> BY <2>2 DEF List
    <3> QED BY <3>1, <2>2, ListGives DEF Planned, LastIs
  <2>3. CASE StartFirst \/ Revive \/ Snapshot
    <3>1. UNCHANGED comment BY <2>3 DEF StartFirst, Revive, Snapshot
    <3> QED BY <3>1, <2>3, ReplanGoes DEF Planned, LastIs
  <2>4. CASE StartPlanning
    <3>1. UNCHANGED comment BY <2>4 DEF StartPlanning
    <3>2. intent'.phase = "Planning" BY <2>4, StatusGives DEF StatusWrites
    <3> QED BY <3>1, <3>2, <2>4, ReplanGoes DEF Planned, LastIs
  <2>5. CASE Silent
    <3>1. CASE PostPlan BY <3>1, <1>0, PostGives DEF Planned, LastIs
    <3>2. CASE RecordPosting
      <4>1. /\ intent'.phase = "AwaitingApproval" /\ intent'.plan.rev = intent.plan.rev
            /\ intent'.plan.comment = pass.comment /\ intent'.input = intent.input
        BY <3>2, StatusGives DEF StatusWrites, RecordPosting, StartPlanning
      <4>2. UNCHANGED comment /\ pass'.at = "idle" /\ pass.at = "record" BY <3>2 DEF RecordPosting, Rest
      <4> QED BY <4>1, <4>2 DEF Planned, LastIs
    <3>3. Own # 0 /\ intent.plan.rev = intent.input => LastIs(Own)
      <4> SUFFICES ASSUME Own # 0, intent.plan.rev = intent.input PROVE LastIs(Own) OBVIOUS
      <4>1. Own \in 1..Len(comment) /\ comment[Own].rev = intent.input BY OwnIn DEF Typed
      <4>2. Len(comment) # 0 /\ Len(comment) \in 1..Len(comment) BY <4>1, <1>0
      <4>3. comment[Own].rev <= comment[Len(comment)].rev /\ comment[Len(comment)].rev <= intent.input
        BY <4>1, <4>2 DEF Dated
      <4>4. comment[Len(comment)].rev = intent.plan.rev BY <4>1, <4>2, <4>3, <1>0, CommentsIs
      <4>5. Len(comment) <= Own BY <4>2, <4>4, OwnIn DEF Typed
      <4> QED BY <4>1, <4>2, <4>5, <1>0 DEF LastIs
    <3> QED BY <2>5, <3>1, <3>2, <3>3, SilentGoes DEF Planned, LastIs
  <2> QED BY <1>4, <2>1, <2>2, <2>3, <2>4, <2>5, PassesAre
<1> QED BY <1>1, <1>2, <1>3, <1>4, StepIs

LEMMA IdsGrow == ASSUME Typed, Next PROVE Ids \subseteq Ids' /\ \A i \in Ids : act'[i] = act[i]
<1>1. ASSUME NEW kind \in Kinds, Act(kind) PROVE Ids \subseteq Ids' /\ \A i \in Ids : act'[i] = act[i]
  BY <1>1, ActStep, TypedNumbers DEF Ids
<1>2. CASE UNCHANGED act BY <1>2 DEF Ids
<1>3. FinishPlan \/ Edit \/ Tick \/ Fault => UNCHANGED act BY DEF FinishPlan, Edit, Tick, Fault
<1> QED BY <1>1, <1>2, <1>3, StepIs, PassStep

LEMMA GatheredNow == ASSUME Typed, List PROVE pass'.todo \in InOrder(Gathered(pass.issue.labels))
                                               /\ Gathered(pass.issue.labels) \in SUBSET Ids /\ act \in Seq(Acts)
<1>1. act \in Seq(Acts) BY DEF Typed
<1> QED BY <1>1, ListGives, GatheredIn

LEMMA TakenStep == ASSUME Typed, Taken, Next PROVE Taken'
<1>0. Ids \subseteq Ids' BY IdsGrow
<1>1. ASSUME NEW kind \in Kinds, Act(kind) PROVE Taken'
  BY <1>0, <1>1, ActStep DEF Taken
<1>2. CASE Edit BY <1>0, <1>2, EditGives DEF Taken
<1>3. CASE FinishPlan \/ Tick BY <1>0, <1>3 DEF FinishPlan, Tick, Taken
<1>4. CASE Fault BY <1>4 DEF Fault, Rest, Taken, Handling, Replanning
<1>5. CASE Passes
  <2>1. CASE Answers
    <3> SUFFICES ASSUME pass'.at \in Handling \cup Replanning, NEW k \in 1..Len(pass'.todo) PROVE pass'.todo[k] \in Ids'
      BY Zenon DEF Taken
    <3>0. pass'.at \in Handling \cup {"snapshot"}
      <4>1. pass'.at \in Handling \cup {"snapshot", "idle", "end"} BY <2>1, AnswersGo, Zenon
      <4> QED BY <4>1 DEF Handling, Replanning
    <3>1. pass.at \in Handling /\ Carries BY <2>1, <3>0, AnswersGo, Zenon
    <3>2. pass'.todo = pass.todo \/ (pass.todo # <<>> /\ pass'.todo = Tail(pass.todo))
      BY <2>1, <3>0, AnswersGo, Zenon
    <3>3. \A j \in 1..Len(pass.todo) : pass.todo[j] \in Ids BY <3>1 DEF Taken, Handling, Replanning
    <3>4. pass.todo \in Seq(Nat) BY <3>1 DEF Carries
    <3>5. \E j \in 1..Len(pass.todo) : pass'.todo[k] = pass.todo[j]
      <4>1. CASE pass'.todo = pass.todo BY <4>1
      <4>2. CASE pass.todo # <<>> /\ pass'.todo = Tail(pass.todo)
        <5>1. k + 1 \in 1..Len(pass.todo) /\ pass'.todo[k] = pass.todo[k + 1] BY <4>2, <3>4
        <5> QED BY <5>1
      <4> QED BY <3>2, <4>1, <4>2
    <3> QED BY <3>3, <3>5, <1>0
  <2>2. CASE List
    <3> DEFINE s == Gathered(pass.issue.labels)
               todo == pass'.todo
    <3>1. todo \in InOrder(s) /\ s \in SUBSET Ids /\ act \in Seq(Acts) BY <2>2, GatheredNow
    <3> HIDE DEF s, todo
    <3>2. \A k \in 1..Len(todo) : todo[k] \in s BY <3>1, InOrderIs
    <3>3. \A k \in 1..Len(todo) : todo[k] \in Ids' BY <3>1, <3>2, <1>0
    <3> QED BY <3>3 DEF Taken, todo
  <2>3. CASE StartFirst BY <2>3, ReplanGoes DEF Taken, Replanning
  <2>4. CASE Revive BY <1>0, <2>4, ReplanGoes DEF Taken
  <2>5. CASE Snapshot BY <1>0, <2>5, ReplanGoes DEF Taken, KeepsList, Replanning
  <2>6. CASE StartPlanning BY <1>0, <2>6, ReplanGoes DEF Taken, KeepsList, Handling, Replanning
  <2>7. CASE Silent BY <2>7, SilentGoes DEF Taken, Handling, Replanning, Others
  <2> QED BY <1>5, <2>1, <2>2, <2>3, <2>4, <2>5, <2>6, <2>7, PassesAre
<1> QED BY <1>1, <1>2, <1>3, <1>4, <1>5, StepIs

LEMMA HeadTaken ==
    ASSUME Typed, Taken, Answers, pass.todo # <<>>, pass.at \in Handling
    PROVE  Head1 \in Ids /\ Head1 = pass.todo[1] /\ 1 \in 1..Len(pass.todo)
<1>1. Carries /\ pass.todo \in Seq(Nat) BY DEF Typed, PassTyped, Carries
<1>2. 1 \in 1..Len(pass.todo) /\ Head1 = pass.todo[1] BY <1>1 DEF Head1
<1> QED BY <1>2 DEF Taken, Handling, Replanning

LEMMA HeadPlanned ==
    ASSUME Typed, Taken, Snapshot \/ StartPlanning
    PROVE  /\ Head1 = pass.todo[1] /\ 1 \in 1..Len(pass.todo)
           /\ Head1 \in Ids \/ (Head1 = 0 /\ intent.phase = "Pending")
<1>1. pass.at \in Replanning /\ Carries /\ pass.todo # <<>> BY ReplanGoes DEF Replanning
<1>2. pass.todo \in Seq(Nat) BY <1>1 DEF Carries
<1>3. 1 \in 1..Len(pass.todo) /\ Head1 = pass.todo[1] BY <1>1, <1>2 DEF Head1
<1> QED BY <1>1, <1>3 DEF Taken

LEMMA ApprovedStep == ASSUME Typed, Dated, ShownLast, Planned, Taken, Approved, Next PROVE Approved'
<1>0. Ids \subseteq Ids' /\ \A i \in Ids : act'[i] = act[i] BY IdsGrow
<1>1. CASE UNCHANGED intent BY <1>0, <1>1 DEF Approved
<1>2. CASE intent'.approval = intent.approval BY <1>0, <1>2 DEF Approved
<1>3. CASE StartPlanning BY <1>3, StatusGives DEF Approved, StatusWrites
<1>4. CASE Answer
  <2>1. CASE intent' = intent BY <2>1, <1>1
  <2>2. CASE intent' # intent
    <3>1. /\ Admits(Head1) /\ Unchanged
          /\ intent'.approval.act = Head1 /\ intent'.approval.rev = intent.plan.rev
      BY <1>4, <2>2, StatusGives DEF StatusWrites
    <3>2. Head1 \in Ids BY <1>4, AnswerGoes, HeadTaken DEF Answers, Handling
    <3>3. LastIs(intent.plan.comment) BY <3>1 DEF Admits, Planned
    <3>4. act[Head1].at > comment[Len(comment)].at /\ ~comment[Len(comment)].edited
      BY <3>1, <3>3 DEF Admits, Unchanged, Unedited, PostedAt, LastIs
    <3>5. act[Head1].shown = intent.plan.rev BY <3>2, <3>3, <3>4 DEF ShownLast, LastIs
    <3> QED BY <3>1, <3>2, <3>5, <1>0 DEF Approved
  <2> QED BY <2>1, <2>2
<1>5. CASE StatusWrites
  <2>1. CASE Consume \/ RecordSeen \/ RecordListing \/ EndClosed \/ RecordPlan \/ RecordPosting \/ Fail
    <3>1. intent'.approval = intent.approval BY <2>1, StatusGives DEF StatusWrites
    <3> QED BY <3>1, <1>2
  <2> QED BY <1>3, <1>4, <1>5, <2>1 DEF StatusWrites
<1>6. FinishPlan \/ Edit \/ Tick \/ Fault \/ (\E kind \in Kinds : Act(kind)) => UNCHANGED intent
  BY Zenon DEF FinishPlan, Edit, Tick, Fault, Act
<1> QED BY <1>1, <1>5, <1>6, StepIs, StatusSteps

ShownInv == Typed /\ Dated /\ ShownLast /\ Planned /\ Taken /\ Approved

-----------------------------------------------------------------------------
(* Each trigger is consumed once, in order                                  *)
Triggers(i) == i \in Ids /\ act[i].kind \in Trigger

Phased ==
    /\ pass.at \in Handling \cup {"list"} => intent.phase \in {"Planning", "AwaitingApproval", "Building"}
    /\ pass.at \in Replanning => intent.phase \in {"Pending", "Failed", "AwaitingApproval"}
    /\ intent.phase = "Pending" => intent.input = 0 /\ intent.last = 0
    /\ intent.last # 0 => intent.last \in Ids

\* A pass answers in order; a trigger it carries is newer than the last one
\* consumed, or that one itself: a command listed again, or the one this
\* pass consumed.
Again(k) == /\ pass.todo[k] = intent.last /\ pass.at \notin Replanning
            /\ IsCommand(intent.last) \/ (k = 1 /\ pass.at # "answer")
InTurn == \A j, k \in 1..Len(pass.todo) : j < k =>
    pass.todo[j] \in Ids /\ pass.todo[k] \in Ids /\ After(pass.todo[k], pass.todo[j])
NewTriggers == \A k \in 1..Len(pass.todo) :
    Triggers(pass.todo[k]) => After(pass.todo[k], intent.last) \/ Again(k)
HeadTriggers ==
    /\ pass.at \in Replanning /\ pass.todo[1] # 0 => Triggers(pass.todo[1])
    /\ pass.at = "consume" \/ (pass.at = "reply" /\ pass.next = "consume") => Triggers(pass.todo[1])
Ordered == pass.at \in Handling \cup Replanning => InTurn /\ NewTriggers /\ HeadTriggers

LEMMA PhasedStep == ASSUME Typed, Taken, Phased, Next PROVE Phased'
<1>0. Ids \subseteq Ids' BY IdsGrow
<1>1. CASE UNCHANGED <<intent, pass>> BY <1>0, <1>1 DEF Phased
<1>2. FinishPlan \/ Edit \/ Tick \/ (\E kind \in Kinds : Act(kind)) => UNCHANGED <<intent, pass>>
  BY Zenon DEF FinishPlan, Edit, Tick, Act
<1>3. CASE Fault BY <1>0, <1>3 DEF Fault, Rest, Phased, Handling, Replanning
<1>4. CASE Answers
  <2>1. CASE Consume
    <3>1. Head1 \in Ids /\ pass.at \in Handling /\ pass'.at \in Handling
      BY <2>1, HeadTaken, HandlingGoes DEF Answers, Handling
    <3>2. intent'.last = Head1 /\ intent'.phase = intent.phase /\ intent'.input = intent.input
      BY <2>1, StatusGives DEF StatusWrites
    <3>3. intent.phase # "Pending" BY <3>1 DEF Phased
    <3> QED BY <3>1, <3>2, <3>3, <1>0 DEF Phased, Handling, Replanning
  <2>2. CASE Answers /\ ~Consume
    <3>1. intent'.last = intent.last /\ intent'.input = intent.input BY <2>2, AnswersGo, Zenon
    <3>2. pass'.at \in Handling \cup {"snapshot"} => pass.at \in Handling BY <2>2, AnswersGo, Zenon
    <3>3. intent'.phase = intent.phase \/ intent'.phase = "Building" \/ (intent'.phase = "Closed" /\ pass'.at = "idle")
      BY <2>2, AnswersGo, Zenon
    <3>4. pass'.at = "snapshot" => intent'.phase = "AwaitingApproval" BY <2>2, AnswersGo, Zenon
    <3>5. pass'.at \in Handling \cup {"snapshot", "idle", "end"} BY <2>2, AnswersGo, Zenon
    <3> QED BY <3>1, <3>2, <3>3, <3>4, <3>5, <1>0 DEF Phased, Handling, Replanning
  <2> QED BY <1>4, <2>1, <2>2
<1>5. CASE List
  <2>1. UNCHANGED intent /\ pass.at = "list" BY <1>5 DEF List
  <2> QED BY <2>1, <1>0, <1>5, ListGives DEF Phased, Replanning, Handling
<1>6. CASE StartFirst \/ Revive \/ Snapshot BY <1>0, <1>6, ReplanGoes DEF Phased, Replanning, Handling
<1>7. CASE StartPlanning
  <2>1. intent'.phase = "Planning" /\ intent'.last = Head1 BY <1>7, StatusGives DEF StatusWrites
  <2>2. Head1 \in Ids \/ Head1 = 0 BY <1>7, HeadPlanned
  <2>3. pass'.at \in {"idle", "reply", "seen"} BY <1>7, ReplanGoes
  <2> QED BY <1>0, <2>1, <2>2, <2>3 DEF Phased, Replanning, Handling
<1>8. CASE Silent
  <2>1. pass'.at = "list" => intent.phase \in {"Planning", "AwaitingApproval", "Building"} /\ UNCHANGED intent
    <3>1. pass'.at = "list" => Poll BY <1>8, SilentGoes
    <3>2. intent.phase \in IntentPhases BY DEF Typed, Intents
    <3> QED BY <3>1, <3>2 DEF Poll, Ended, IntentPhases
  <2>2. intent'.last = intent.last /\ intent'.input = intent.input BY <1>8, SilentGoes, Zenon
  <2>3. intent'.phase = intent.phase \/ intent'.phase # "Pending" BY <1>8, SilentGoes
  <2> QED BY <1>0, <1>8, <2>1, <2>2, <2>3, SilentGoes DEF Phased, Replanning, Handling, Others
<1> QED BY <1>1, <1>2, <1>3, <1>4, <1>5, <1>6, <1>7, <1>8, StepIs, PassesAre

\* Actions taken keep their order.
LEMMA AfterStable ==
    ASSUME Typed, Next
    PROVE  \A i \in Ids : /\ IsCommand(i)' = IsCommand(i) /\ Triggers(i)' = Triggers(i)
                          /\ \A j \in Ids \cup {0} : After(i, j)' = After(i, j)
<1>1. \A i \in Ids : act'[i] = act[i] BY IdsGrow
<1>0. Ids \subseteq Ids' BY IdsGrow
<1>2. \A i \in Ids : IsCommand(i)' = IsCommand(i) /\ Triggers(i)' = Triggers(i) BY <1>0, <1>1 DEF IsCommand, Triggers
<1>3. ASSUME NEW i \in Ids, NEW j \in Ids \cup {0} PROVE After(i, j)' = After(i, j)
  <2>1. CASE j = 0 BY <2>1 DEF After
  <2>2. CASE j \in Ids
    <3>1. act'[i] = act[i] /\ act'[j] = act[j] /\ IsCommand(i)' = IsCommand(i) /\ IsCommand(j)' = IsCommand(j)
      BY <1>1, <1>2, <2>2
    <3> QED BY <3>1, Zenon DEF After, Second
  <2> QED BY <2>1, <2>2
<1> QED BY <1>2, <1>3

LEMMA AfterZero == ASSUME NEW i PROVE After(i, 0)
BY DEF After

\* After a newer trigger is after the older one as well.
LEMMA AfterNewer ==
    ASSUME act \in Seq(Acts), NEW i \in Ids, NEW j \in Ids, NEW k \in Ids \cup {0}, After(i, j), After(j, k)
    PROVE  After(i, k)
BY AfterTransitive, AfterZero

\* A step that moves the last trigger consumed to the head of the list.
LEMMA ConsumeHead ==
    ASSUME Typed, Taken, Phased, Ordered, Consume \/ (StartPlanning /\ intent.phase = "AwaitingApproval")
    PROVE  /\ Head1 \in Ids /\ Triggers(Head1) /\ (Head1 = intent.last \/ After(Head1, intent.last))
           /\ StartPlanning => After(Head1, intent.last)
           /\ \A k \in 1..Len(pass.todo) : k # 1 => After(pass.todo[k], Head1)
           /\ Head1 = pass.todo[1] /\ 1 \in 1..Len(pass.todo)
<1>1. /\ Head1 = pass.todo[1] /\ 1 \in 1..Len(pass.todo) /\ Head1 \in Ids
      /\ pass.at \in {"consume", "plan"}
      /\ Consume => pass.at = "consume"
      /\ StartPlanning => pass.at = "plan" /\ intent.phase = "AwaitingApproval"
  <2>1. CASE Consume BY <2>1, HeadTaken, HandlingGoes DEF Answers, Handling, StartPlanning
  <2>2. CASE StartPlanning /\ intent.phase = "AwaitingApproval" BY <2>2, HeadPlanned, ReplanGoes DEF Consume
  <2> QED BY <2>1, <2>2
<1>2. Head1 # 0 BY <1>1, ActIs DEF Typed
<1>3. Triggers(Head1) BY <1>1, <1>2 DEF Ordered, HeadTriggers, Handling, Replanning
<1>4. After(Head1, intent.last) \/ Again(1) BY <1>1, <1>2, <1>3 DEF Ordered, NewTriggers, Handling, Replanning
<1>5. Again(1) => Head1 = intent.last /\ pass.at # "plan" BY <1>1 DEF Again, Replanning
<1>6. \A k \in 1..Len(pass.todo) : k # 1 => After(pass.todo[k], Head1)
  <2>1. \A k \in 1..Len(pass.todo) : k # 1 => 1 < k BY <1>1
  <2> QED BY <2>1, <1>1 DEF Ordered, InTurn, Handling, Replanning
<1> QED BY <1>1, <1>3, <1>4, <1>5, <1>6

\* A step that keeps the list and the last trigger consumed.
OrderedThen ==
    /\ pass'.todo = pass.todo /\ intent'.last = intent.last
    /\ pass'.at \in Handling \cup Replanning
    /\ pass'.at = "answer" => pass.at = "answer"
    /\ pass'.at \in Replanning => pass.at \in Replanning
    /\ (pass'.at = "consume" \/ (pass'.at = "reply" /\ pass'.next = "consume")) => Triggers(pass.todo[1])

LEMMA OrderedKept ==
    ASSUME Typed, Taken, Phased, Ordered, Next, pass.at \in Handling \cup Replanning, OrderedThen
    PROVE  Ordered'
<1>0. Ids \subseteq Ids' /\ \A i \in Ids : act'[i] = act[i] BY IdsGrow
<1>1. intent.last = 0 \/ intent.last \in Ids BY DEF Phased
<1>2. \A k \in 1..Len(pass.todo) : pass.todo[k] \in Ids \/ pass.todo[k] = 0 BY DEF Taken
<1>3. pass'.todo = pass.todo /\ intent'.last = intent.last BY DEF OrderedThen
<1>4. InTurn /\ NewTriggers /\ HeadTriggers BY DEF Ordered
<1>5. InTurn' BY <1>0, <1>3, <1>4 DEF InTurn, After, Second, IsCommand
<1>6. NewTriggers'
  <2> SUFFICES ASSUME NEW k \in 1..Len(pass'.todo), Triggers(pass.todo[k])'
               PROVE  After(pass.todo[k], intent.last)' \/ Again(k)'
    BY DEF NewTriggers
  <2> DEFINE i == pass.todo[k]
  <2>1. i \in Ids /\ Triggers(i) /\ k \in 1..Len(pass.todo) BY <1>0, <1>2, <1>3 DEF Triggers, Ids
  <2>2. CASE After(i, intent.last)
    <3>1. act'[i] = act[i] /\ (intent.last # 0 => act'[intent.last] = act[intent.last]) BY <1>0, <1>1, <2>1
    <3> QED BY <2>2, <3>1, <1>3 DEF After, Second, IsCommand
  <2>3. CASE Again(k)
    <3>1. act'[intent.last] = act[intent.last] BY <2>1, <2>3, <1>0 DEF Again
    <3> QED BY <2>3, <3>1, <1>3 DEF Again, OrderedThen, IsCommand
  <2> QED BY <1>4, <2>1, <2>2, <2>3 DEF NewTriggers
<1>7. HeadTriggers'
  <2>1. Triggers(pass.todo[1]) => Triggers(pass.todo[1])' BY <1>0, <1>3 DEF Triggers
  <2> QED BY <1>3, <1>4, <2>1 DEF HeadTriggers, OrderedThen
<1> QED BY <1>5, <1>6, <1>7 DEF Ordered

\* A step that consumes the head of the list.
LEMMA OrderedConsumed ==
    ASSUME Typed, Taken, Phased, Ordered, Next, Consume \/ (StartPlanning /\ intent.phase = "AwaitingApproval")
    PROVE  Ordered'
<1>0. Ids \subseteq Ids' /\ \A i \in Ids : act'[i] = act[i] BY IdsGrow
<1>1. /\ Head1 \in Ids /\ Head1 = pass.todo[1] /\ 1 \in 1..Len(pass.todo) /\ Triggers(Head1)
      /\ \A k \in 1..Len(pass.todo) : k # 1 => After(pass.todo[k], Head1)
  BY ConsumeHead
<1>2. pass'.todo = pass.todo /\ intent'.last = Head1 /\ pass'.at \in {"seen", "reply"}
      /\ (pass'.at = "reply" => pass'.next = "seen") /\ pass.at \in Handling \cup Replanning
  <2>1. CASE Consume BY <2>1, HandlingGoes, StatusGives DEF StatusWrites, KeepsList, Handling
  <2>2. CASE StartPlanning /\ intent.phase = "AwaitingApproval"
    BY <2>2, ReplanGoes, StatusGives DEF StatusWrites, KeepsList, Replanning
  <2> QED BY <2>1, <2>2
<1>3. InTurn /\ NewTriggers BY <1>2 DEF Ordered
<1>4. InTurn' BY <1>0, <1>2, <1>3 DEF InTurn, After, Second, IsCommand
<1>5. NewTriggers'
  <2> SUFFICES ASSUME NEW k \in 1..Len(pass'.todo), Triggers(pass.todo[k])'
               PROVE  After(pass.todo[k], intent.last)' \/ Again(k)'
    BY DEF NewTriggers
  <2>1. k \in 1..Len(pass.todo) BY <1>2
  <2>2. CASE k = 1 BY <1>1, <1>2, <2>2 DEF Again, Replanning
  <2>3. CASE k # 1
    <3>1. After(pass.todo[k], Head1) /\ pass.todo[k] \in Ids
      <4>1. 1 < k BY <2>1, <2>3
      <4> QED BY <1>1, <1>3, <2>1, <2>3, <4>1 DEF InTurn
    <3>2. act'[pass.todo[k]] = act[pass.todo[k]] /\ act'[Head1] = act[Head1] BY <3>1, <1>0, <1>1
    <3> QED BY <3>1, <3>2, <1>2 DEF After, Second, IsCommand
  <2> QED BY <2>2, <2>3
<1>6. HeadTriggers' BY <1>2 DEF HeadTriggers, Replanning
<1> QED BY <1>4, <1>5, <1>6 DEF Ordered

\* A listing gathers in order, and only triggers that are new or listed again.
LEMMA OrderedListed == ASSUME Typed, List, Phased PROVE Ordered'
<1> DEFINE s == Gathered(pass.issue.labels)
           todo == pass'.todo
<1>1. todo \in InOrder(s) /\ s \in SUBSET Ids /\ act \in Seq(Acts) BY GatheredNow
<1>2. pass'.at = "answer" /\ UNCHANGED <<act, intent>> BY ListGives DEF List
<1>3. \A i \in s : Triggers(i) => After(i, intent.last) \/ (i = intent.last /\ IsCommand(i))
  <2> SUFFICES ASSUME NEW i \in s, Triggers(i), ~After(i, intent.last) PROVE i = intent.last /\ IsCommand(i)
    OBVIOUS
  <2>1. i \in Commands \/ i = Newest("approveLabel") BY Zenon DEF Gathered
  <2>2. CASE i \in Commands
    <3>1. act[i].kind \in Trigger /\ IsCommand(i) BY <2>2 DEF Commands, Listed, Triggers
    <3>2. act[i].kind = "replan" BY <3>1 DEF IsCommand, Trigger, Label
    <3> QED BY <2>2, <3>1, <3>2 DEF Commands
  <2>3. CASE i = Newest("approveLabel")
    <3>1. i # 0 BY <1>1, ActIs
    <3>2. act[i].kind = "approveLabel" BY <1>1, <2>3, <3>1, NewestIn
    <3> QED BY <3>2 DEF Triggers, Trigger
  <2> QED BY <2>1, <2>2, <2>3
<1> HIDE DEF s
<1>4. /\ \A k \in 1..Len(todo) : todo[k] \in s
      /\ \A j, k \in 1..Len(todo) : j < k => After(todo[k], todo[j])
  BY <1>1, InOrderIs
<1>5. InTurn'
  <2>1. \A k \in 1..Len(todo) : todo[k] \in Ids BY <1>1, <1>4
  <2> QED BY <1>2, <1>4, <2>1 DEF InTurn, After, Second, IsCommand, Ids
<1>6. NewTriggers'
  <2>1. \A k \in 1..Len(todo) : Triggers(todo[k]) => After(todo[k], intent.last) \/ (todo[k] = intent.last /\ IsCommand(todo[k]))
    BY <1>3, <1>4
  <2> QED BY <1>2, <2>1 DEF NewTriggers, Triggers, Again, After, Second, IsCommand, Ids, Replanning
<1>7. HeadTriggers' BY <1>2 DEF HeadTriggers, Replanning
<1> QED BY <1>5, <1>6, <1>7 DEF Ordered

LEMMA OrderedTail == ASSUME Typed, Taken, Phased, Ordered, RecordSeen, Next PROVE Ordered'
<1>0. Ids \subseteq Ids' /\ \A i \in Ids : act'[i] = act[i] BY IdsGrow
<1>1. /\ pass.at = "seen" /\ pass'.at = "answer" /\ pass.todo \in Seq(Nat) /\ pass.todo # <<>>
      /\ pass'.todo = Tail(pass.todo)
  BY HandlingGoes DEF Carries
<1>2. intent'.last = intent.last BY StatusGives DEF StatusWrites
<1>3. \A k \in 1..Len(pass'.todo) : k + 1 \in 1..Len(pass.todo) /\ pass'.todo[k] = pass.todo[k + 1] /\ k + 1 # 1
  BY <1>1
<1>4. InTurn /\ NewTriggers BY <1>1 DEF Ordered, Handling
<1>5. \A k \in 1..Len(pass.todo) : pass.todo[k] \in Ids BY <1>1 DEF Taken, Handling, Replanning
<1>6. InTurn'
  <2> SUFFICES ASSUME NEW j \in 1..Len(pass'.todo), NEW k \in 1..Len(pass'.todo), j < k
               PROVE  pass'.todo[j] \in Ids' /\ pass'.todo[k] \in Ids' /\ After(pass.todo[k], pass.todo[j])'
    BY DEF InTurn
  <2>1. j + 1 < k + 1 BY <1>3
  <2>2. After(pass.todo[k + 1], pass.todo[j + 1]) /\ pass.todo[k + 1] \in Ids /\ pass.todo[j + 1] \in Ids
    BY <1>3, <1>4, <2>1 DEF InTurn
  <2>3. act'[pass.todo[k + 1]] = act[pass.todo[k + 1]] /\ act'[pass.todo[j + 1]] = act[pass.todo[j + 1]] BY <1>0, <2>2
  <2>4. pass'.todo[j] = pass.todo[j + 1] /\ pass'.todo[k] = pass.todo[k + 1] BY <1>3
  <2> QED BY <1>0, <2>2, <2>3, <2>4 DEF After, Second, IsCommand
<1>7. NewTriggers'
  <2> SUFFICES ASSUME NEW k \in 1..Len(pass'.todo), Triggers(pass.todo[k])'
               PROVE  After(pass.todo[k], intent.last)' \/ Again(k)'
    BY DEF NewTriggers
  <2> DEFINE i == pass.todo[k + 1]
  <2>1. i \in Ids /\ pass'.todo[k] = i /\ act'[i] = act[i] BY <1>0, <1>3, <1>5
  <2>2. Triggers(i) BY <2>1 DEF Triggers
  <2>3. CASE After(i, intent.last)
    <3>1. intent.last # 0 => act'[intent.last] = act[intent.last] BY <1>0 DEF Phased
    <3> QED BY <2>1, <2>3, <3>1, <1>2 DEF After, Second, IsCommand
  <2>4. CASE Again(k + 1)
    <3>1. i = intent.last /\ IsCommand(i) BY <2>4, <1>3 DEF Again
    <3> QED BY <3>1, <2>1, <1>1, <1>2 DEF Again, IsCommand, Replanning
  <2> QED BY <1>3, <1>4, <2>2, <2>3, <2>4 DEF NewTriggers
<1>8. HeadTriggers' BY <1>1 DEF HeadTriggers, Replanning
<1> QED BY <1>6, <1>7, <1>8 DEF Ordered

LEMMA OrderedAnswered == ASSUME Typed, Taken, Phased, Ordered, Answer, Next PROVE Ordered'
<1>0. pass.at = "answer" /\ pass.todo # <<>> /\ KeepsList /\ intent'.last = intent.last
  BY AnswerGoes, StatusGives DEF StatusWrites
<1>1. Head1 \in Ids /\ Head1 = pass.todo[1] /\ 1 \in 1..Len(pass.todo)
  BY <1>0, HeadTaken DEF Answers, Handling
<1>2. CASE pass'.at \in Handling
  <2>1. pass'.at # "answer" /\ pass'.at # "consume" BY AnswerGoes
  <2>2. pass'.at = "reply" /\ pass'.next = "consume" => Triggers(pass.todo[1])
    BY <1>0, <1>1, AnswerGoes DEF Triggers
  <2>3. OrderedThen BY <1>0, <1>2, <2>1, <2>2 DEF OrderedThen, KeepsList, Handling, Replanning
  <2> QED BY <1>0, <2>3, OrderedKept DEF Handling
<1>3. CASE pass'.at = "snapshot"
  <2>1. /\ act[Head1].kind \in Trigger
        /\ ~(IsCommand(Head1) /\ act[Head1].kind # "cancel" /\ Recorded(Head1))
    BY <1>3, AnswerGoes
  <2>2. InTurn /\ NewTriggers BY <1>0 DEF Ordered, Handling
  <2>3. Triggers(Head1) BY <1>1, <2>1 DEF Triggers
  <2>4. After(Head1, intent.last)
    <3>1. Again(1) => FALSE
      <4> SUFFICES ASSUME Again(1) PROVE FALSE OBVIOUS
      <4>1. Head1 = intent.last /\ IsCommand(Head1) BY <1>0, <1>1 DEF Again
      <4>2. Recorded(Head1) /\ act[Head1].kind # "cancel" BY <2>1, <4>1 DEF Recorded, Trigger
      <4> QED BY <2>1, <4>1, <4>2
    <3> QED BY <1>1, <2>2, <2>3, <3>1 DEF NewTriggers
  <2>5. UNCHANGED <<act, intent>> /\ pass'.todo = pass.todo BY <1>0, <1>3, AnswerGoes DEF Answer, KeepsList
  <2>6. InTurn' BY <2>2, <2>5 DEF InTurn, After, Second, IsCommand, Ids
  <2>7. NewTriggers'
    <3>1. ASSUME NEW k \in 1..Len(pass.todo), Triggers(pass.todo[k]) PROVE After(pass.todo[k], intent.last)
      <4>1. CASE k = 1 BY <4>1, <1>1, <2>4
      <4>2. CASE k # 1 /\ Again(k)
        <5>1. 1 < k BY <1>1, <4>2
        <5>2. After(intent.last, Head1) /\ intent.last \in Ids BY <1>1, <2>2, <4>2, <5>1 DEF InTurn, Again
        <5>3. act \in Seq(Acts) BY DEF Typed
        <5> QED BY <5>2, <5>3, <2>4, <1>1, AfterOrder
      <4> QED BY <4>1, <4>2, <3>1, <2>2 DEF NewTriggers
    <3> QED BY <3>1, <2>5 DEF NewTriggers, Triggers, Ids, After, Second, IsCommand
  <2>8. HeadTriggers' BY <1>1, <1>3, <2>3, <2>5 DEF HeadTriggers, Triggers, Ids
  <2> QED BY <2>6, <2>7, <2>8 DEF Ordered
<1> QED BY <1>2, <1>3, AnswerGoes DEF Handling

LEMMA OrderedStep == ASSUME Typed, Taken, Phased, Ordered, Next PROVE Ordered'
<1>1. CASE UNCHANGED <<intent, pass>>
  <2>1. CASE pass.at \in Handling \cup Replanning
    <3>1. InTurn /\ NewTriggers /\ HeadTriggers BY <2>1 DEF Ordered
    <3>2. OrderedThen BY <1>1, <2>1, <3>1 DEF OrderedThen, HeadTriggers
    <3> QED BY <2>1, <3>2, OrderedKept
  <2>2. CASE pass.at \notin Handling \cup Replanning BY <1>1, <2>2 DEF Ordered
  <2> QED BY <2>1, <2>2
<1>2. FinishPlan \/ Edit \/ Tick \/ (\E kind \in Kinds : Act(kind)) => UNCHANGED <<intent, pass>>
  BY Zenon DEF FinishPlan, Edit, Tick, Act
<1>3. CASE Fault BY <1>3 DEF Fault, Rest, Ordered, Handling, Replanning
<1>4. CASE Answers
  <2>1. CASE Answer BY <2>1, OrderedAnswered
  <2>2. CASE Consume BY <2>2, OrderedConsumed
  <2>3. CASE RecordSeen BY <2>3, OrderedTail
  <2>4. CASE RecordListing \/ EndClosed BY <2>4, HandlingGoes DEF Ordered, Handling, Replanning
  <2>5. CASE Reply \/ CloseIssue \/ RemoveRefusedLabel
    <3>1. CASE pass'.at = "end" BY <3>1 DEF Ordered, Handling, Replanning
    <3>2. CASE pass'.at # "end"
      <4>1. /\ pass.at \in Handling \ {"answer"} /\ pass'.at \in Handling \ {"answer"} /\ KeepsList
            /\ ~(pass'.at = "reply" /\ pass'.next = "consume")
            /\ pass'.at = "consume" => pass.at = "reply" /\ pass.next = "consume"
        BY <2>5, <3>2, HandlingGoes DEF Handling, Nexts
      <4>2. UNCHANGED intent BY <2>5 DEF Reply, CloseIssue, RemoveRefusedLabel
      <4>3. pass'.at = "consume" => Triggers(pass.todo[1]) BY <4>1 DEF Ordered, HeadTriggers
      <4>4. OrderedThen BY <4>1, <4>2, <4>3 DEF OrderedThen, KeepsList, Handling, Replanning
      <4> QED BY <4>1, <4>4, OrderedKept
    <3> QED BY <3>1, <3>2
  <2> QED BY <1>4, <2>1, <2>2, <2>3, <2>4, <2>5 DEF Answers
<1>5. CASE List BY <1>5, OrderedListed
<1>6. CASE StartFirst
  <2>1. pass'.at = "snapshot" /\ pass'.todo = <<0>> BY <1>6, ReplanGoes
  <2> QED BY <2>1 DEF Ordered, InTurn, NewTriggers, HeadTriggers, Triggers, Ids, Replanning
<1>7. CASE Revive
  <2>1. /\ pass'.at = "snapshot" /\ pass'.todo = <<Newest("replanLabel")>>
        /\ Newest("replanLabel") \in Ids /\ act[Newest("replanLabel")].kind = "replanLabel"
        /\ After(Newest("replanLabel"), intent.last)
    BY <1>7, ReplanGoes
  <2>2. UNCHANGED <<act, intent>> BY <1>7 DEF Revive
  <2> DEFINE i == Newest("replanLabel")
  <2> HIDE DEF i
  <2>3. pass'.todo = <<i>> /\ i \in Ids /\ act[i].kind \in Trigger /\ After(i, intent.last)
    BY <2>1 DEF i, Trigger
  <2>4. Len(pass'.todo) = 1 /\ pass'.todo[1] = i BY <2>3
  <2>5. InTurn' BY <2>4 DEF InTurn
  <2>6. NewTriggers' BY <2>2, <2>3, <2>4 DEF NewTriggers, After, Second, IsCommand
  <2>7. HeadTriggers' BY <2>1, <2>2, <2>3, <2>4 DEF HeadTriggers, Triggers, Ids
  <2> QED BY <2>5, <2>6, <2>7 DEF Ordered
<1>8. CASE Snapshot
  <2>1. pass.at = "snapshot" /\ pass'.at = "plan" /\ KeepsList /\ UNCHANGED intent BY <1>8, ReplanGoes
  <2>2. OrderedThen BY <2>1 DEF OrderedThen, KeepsList, Replanning
  <2> QED BY <2>1, <2>2, OrderedKept DEF Replanning
<1>9. CASE StartPlanning
  <2>1. CASE intent.phase = "AwaitingApproval" BY <1>9, <2>1, OrderedConsumed
  <2>2. CASE intent.phase # "AwaitingApproval" BY <1>9, <2>2, ReplanGoes DEF Ordered, Handling, Replanning
  <2> QED BY <2>1, <2>2
<1>10. CASE Silent BY <1>10, SilentGoes DEF Ordered, Handling, Replanning, Others
<1> QED BY <1>1, <1>2, <1>3, <1>4, <1>5, <1>6, <1>7, <1>8, <1>9, <1>10, StepIs, PassesAre

\* How the last trigger consumed and the input revision move together.
LEMMA LastMoves ==
    ASSUME Typed, Taken, Phased, Ordered, Next
    PROVE  /\ \/ intent'.last = intent.last
              \/ Triggers(intent'.last) /\ After(intent'.last, intent.last)
           /\ \/ intent'.input = intent.input
              \/ /\ intent'.input = intent.input + 1
                 /\ (intent.input = 0 \/ (Triggers(intent'.last) /\ After(intent'.last, intent.last)))
<1>1. CASE UNCHANGED intent BY <1>1
<1>2. FinishPlan \/ Edit \/ Tick \/ Fault \/ (\E kind \in Kinds : Act(kind)) => UNCHANGED intent
  BY Zenon DEF FinishPlan, Edit, Tick, Act, Fault
<1>3. CASE Answers
  <2>1. CASE Consume
    <3>1. intent'.last = Head1 /\ intent'.input = intent.input BY <2>1, StatusGives DEF StatusWrites
    <3> QED BY <2>1, <3>1, ConsumeHead
  <2>2. CASE ~Consume BY <1>3, <2>2, AnswersGo
  <2> QED BY <2>1, <2>2
<1>4. CASE StartPlanning
  <2>1. intent'.last = Head1 /\ intent'.input = intent.input + 1 BY <1>4, StatusGives DEF StatusWrites
  <2>2. /\ Head1 = pass.todo[1] /\ 1 \in 1..Len(pass.todo)
        /\ Head1 \in Ids \/ (Head1 = 0 /\ intent.phase = "Pending")
    BY <1>4, HeadPlanned
  <2>3. CASE Head1 = 0 /\ intent.phase = "Pending" BY <2>1, <2>3 DEF Phased
  <2>4. CASE Head1 \in Ids
    <3>1. Head1 # 0 BY <2>4, ActIs DEF Typed
    <3>2. pass.at \in Replanning BY <1>4, ReplanGoes DEF Replanning
    <3>3. Triggers(Head1) /\ NewTriggers BY <2>2, <3>1, <3>2 DEF Ordered, HeadTriggers
    <3>4. After(Head1, intent.last) BY <2>2, <3>2, <3>3 DEF NewTriggers, Again
    <3> QED BY <2>1, <3>3, <3>4
  <2> QED BY <2>2, <2>3, <2>4
<1>5. CASE Silent BY <1>5, SilentGoes
<1>6. List \/ StartFirst \/ Revive \/ Snapshot => UNCHANGED intent BY DEF List, StartFirst, Revive, Snapshot
<1> QED BY <1>1, <1>2, <1>3, <1>4, <1>5, <1>6, StepIs, PassesAre

\* The triggers consumed so far, by themselves or by a newer one.
Applied == {i \in 1..Len(act) : act[i].kind \in Trigger /\ intent.last # 0 /\ ~After(i, intent.last)}

LEMMA AppliedFinite == ASSUME Typed PROVE IsFiniteSet(Applied) /\ Cardinality(Applied) \in Nat
<1>1. IsFiniteSet(1..Len(act)) BY TypedNumbers, FS_Interval
<1>2. Applied \subseteq 1..Len(act) BY DEF Applied
<1> QED BY <1>1, <1>2, FS_Subset, FS_CardinalityType

LEMMA AppliedStep ==
    ASSUME Typed, Taken, Phased, Ordered, AppliedOnce, Next, Typed'
    PROVE  AppliedOnce'
<1> USE IntentApprovalAssumption
<1>0. Ids \subseteq Ids' /\ (\A i \in Ids : act'[i] = act[i]) /\ act \in Seq(Acts) BY IdsGrow DEF Typed
<1>1. intent.last = 0 \/ intent.last \in Ids BY DEF Phased
<1>2. IsFiniteSet(Applied) /\ Cardinality(Applied) \in Nat BY AppliedFinite
<1>3. IsFiniteSet(Applied') /\ Cardinality(Applied') \in Nat
  <2>1. Len(act') \in Nat BY DEF Typed
  <2>2. IsFiniteSet(1..Len(act')) /\ Applied' \subseteq 1..Len(act') BY <2>1, FS_Interval DEF Applied
  <2> QED BY <2>2, FS_Subset, FS_CardinalityType
<1>4. Applied \subseteq Applied'
  <2> SUFFICES ASSUME NEW i \in Applied PROVE i \in Applied' OBVIOUS
  <2>1. i \in Ids /\ act[i].kind \in Trigger /\ intent.last # 0 /\ ~After(i, intent.last) BY DEF Applied, Ids
  <2>2. intent.last \in Ids BY <1>1, <2>1
  <2>3. i \in Ids' /\ act'[i].kind \in Trigger /\ i \in 1..Len(act') BY <1>0, <2>1 DEF Ids
  <2>4. intent'.last # 0 /\ ~After(i, intent'.last)
    <3>1. CASE intent'.last = intent.last BY <2>1, <3>1
    <3>2. CASE Triggers(intent'.last) /\ After(intent'.last, intent.last)
      <4>1. intent'.last \in Ids BY <3>2 DEF Triggers
      <4>2. After(i, intent'.last) => After(i, intent.last) BY <1>0, <2>1, <2>2, <3>2, <4>1, AfterTransitive
      <4> QED BY <1>0, <2>1, <4>1, <4>2, ActIs
    <3> QED BY <3>1, <3>2, LastMoves
  <2>5. intent'.last \in Ids
    <3>1. Triggers(intent'.last) => intent'.last \in Ids BY DEF Triggers
    <3> QED BY <2>2, <3>1, LastMoves
  <2>6. ~After(i, intent.last)'
    <3>1. act'[i] = act[i] /\ act'[intent'.last] = act[intent'.last] BY <1>0, <2>1, <2>5
    <3> QED BY <3>1, <2>4 DEF After, Second, IsCommand
  <2> QED BY <2>3, <2>4, <2>6 DEF Applied
<1>5. Cardinality(Applied) <= Cardinality(Applied') BY <1>3, <1>4, FS_Subset
<1>6. intent.input \in Nat /\ intent.input <= 1 + Cardinality(Applied) BY TypedNumbers DEF AppliedOnce, Applied
<1>7. CASE intent'.input = intent.input BY <1>2, <1>3, <1>5, <1>6, <1>7 DEF AppliedOnce, Applied
<1>8. CASE intent'.input = intent.input + 1 /\ intent.input = 0
  BY <1>3, <1>8 DEF AppliedOnce, Applied
<1>9. CASE intent'.input = intent.input + 1 /\ Triggers(intent'.last) /\ After(intent'.last, intent.last)
  <2> DEFINE n == intent'.last
  <2>1. n \in Ids /\ n # 0 /\ act[n].kind \in Trigger BY <1>0, <1>9, ActIs DEF Triggers
  <2>2. n \notin Applied BY <1>9 DEF Applied
  <2>3. n \in Applied'
    <3>1. ~After(n, n) BY <1>0, <2>1, AfterOrder
    <3>2. act'[n] = act[n] /\ n \in 1..Len(act') BY <1>0, <2>1 DEF Ids
    <3>3. ~After(intent.last, intent.last)' BY <3>1, <3>2 DEF After, Second, IsCommand
    <3> QED BY <2>1, <3>2, <3>3 DEF Applied
  <2>4. Applied \cup {n} \subseteq Applied' BY <1>4, <2>3
  <2>5. Cardinality(Applied \cup {n}) = Cardinality(Applied) + 1 BY <1>2, <2>2, FS_AddElement
  <2>6. Cardinality(Applied \cup {n}) <= Cardinality(Applied') BY <1>3, <2>4, FS_Subset
  <2>7. intent'.input <= 1 + Cardinality(Applied') BY <1>2, <1>3, <1>6, <1>9, <2>5, <2>6
  <2> QED BY <2>7 DEF AppliedOnce, Applied
<1> QED BY <1>7, <1>8, <1>9, LastMoves

-----------------------------------------------------------------------------
(* Every command is settled read, and answered once                         *)
Settled(i) ==
    \/ reply[i] > 0
    \/ act[i].kind = "replan" /\ intent.last # 0 /\ ~After(i, intent.last)
    \/ intent.last # 0 /\ act[i].at < act[intent.last].at

\* A pass that answers a listing.
InPass == pass.at \in Handling \/ (pass.at \in Replanning /\ intent.phase = "AwaitingApproval")

Bounds ==
    /\ Len(act) <= MaxActs /\ intent.seen <= Len(act)
    /\ InPass => pass.newest \in 0..Len(act) /\ pass.deferred \subseteq Ids

\* Everything up to the newest recorded seen is settled; so is everything a
\* pass may yet record, but for what it is about to answer.
Read == \A i \in Ids : IsCommand(i) /\ i <= intent.seen => Settled(i)
Covered(i) == i <= pass.newest \/ \E k \in 1..Len(pass.todo) : i <= pass.todo[k]
Carried(i) == \E k \in 1..Len(pass.todo) : i = pass.todo[k]
ReadInPass == \A i \in Ids :
    IsCommand(i) /\ (\A d \in pass.deferred : i < d) /\ Covered(i) => Settled(i) \/ Carried(i)
DeferredLast == \A d \in pass.deferred : pass.newest < d
HeadReplied == pass.at \in {"consume", "unlabel", "seen"} /\ IsCommand(pass.todo[1]) => reply[pass.todo[1]] > 0
Skips == Read /\ (InPass => ReadInPass /\ DeferredLast /\ HeadReplied)

LEMMA ReplySteps == ASSUME Next PROVE Reply \/ UNCHANGED reply
<1>1. Passes => Reply \/ UNCHANGED reply
  <2> USE Zenon
  <2>1. Answers => Reply \/ UNCHANGED reply
    BY DEF Answers, Answer, Consume, CloseIssue, RemoveRefusedLabel, RecordSeen, RecordListing, EndClosed
  <2>2. List \/ StartFirst \/ Revive \/ Snapshot \/ StartPlanning => UNCHANGED reply
    BY DEF List, StartFirst, Revive, Snapshot, StartPlanning
  <2>3. Silent => UNCHANGED reply
    BY DEF Silent, Poll, Launch, RecordPlan, WriteBack, ClearLabel, PostPlan, RecordPosting, Spent, RemoveTrigger, Fail
  <2> QED BY <2>1, <2>2, <2>3, PassesAre
<1>2. FinishPlan \/ Edit \/ Tick \/ Fault \/ (\E kind \in Kinds : Act(kind)) => UNCHANGED reply
  BY Zenon DEF FinishPlan, Edit, Tick, Act, Fault
<1> QED BY <1>1, <1>2, StepIs

LEMMA ReplyGrows ==
    ASSUME Typed, Next
    PROVE  /\ \A i \in 1..MaxActs : reply[i] \in Nat /\ reply'[i] \in Nat /\ reply[i] <= reply'[i]
           /\ AnsweredOnce => AnsweredOnce'
           /\ Reply /\ Head1 \in 1..MaxActs => reply'[Head1] > 0
<1> USE IntentApprovalAssumption
<1>1. reply \in [1..MaxActs -> Nat] BY DEF Typed
<1>2. Reply \/ UNCHANGED reply BY ReplySteps
<1>3. CASE UNCHANGED reply
  <2>1. \A i \in 1..MaxActs : reply[i] \in Nat BY <1>1
  <2>2. Reply /\ Head1 \in 1..MaxActs => reply'[Head1] > 0
    <3> SUFFICES ASSUME Reply, Head1 \in 1..MaxActs PROVE reply[Head1] # 0 BY <1>3, <2>1
    <3>1. reply[Head1] # 0 \/ reply' = [reply EXCEPT ![Head1] = @ + 1] BY Zenon DEF Reply, Replies
    <3>2. reply[Head1] \in Nat BY <2>1
    <3>3. reply' = [reply EXCEPT ![Head1] = @ + 1] => reply'[Head1] = reply[Head1] + 1 BY <1>1
    <3> QED BY <3>1, <3>2, <3>3, <1>3
  <2> QED BY <1>3, <2>1, <2>2 DEF AnsweredOnce
<1>4. CASE reply' = [reply EXCEPT ![Head1] = @ + 1] /\ reply[Head1] = 0
  <2>1. \A i \in 1..MaxActs : reply'[i] = IF i = Head1 THEN reply[i] + 1 ELSE reply[i] BY <1>1, <1>4
  <2>2. \A i \in 1..MaxActs : reply[i] \in Nat BY <1>1
  <2> QED BY <1>4, <2>1, <2>2 DEF AnsweredOnce
<1>5. Reply => UNCHANGED reply \/ (reply' = [reply EXCEPT ![Head1] = @ + 1] /\ reply[Head1] = 0)
  BY Zenon DEF Reply, Replies
<1> QED BY <1>2, <1>3, <1>4, <1>5

\* No command is answered twice, wherever passes are cut short (postOnce).
THEOREM AnsweredOnceHolds == Spec => []AnsweredOnce
<1>1. Init => AnsweredOnce
  <2>1. Init => reply = [i \in 1..MaxActs |-> 0] BY DEF Init
  <2> QED BY <2>1 DEF AnsweredOnce
<1>2. Typed /\ AnsweredOnce /\ [Next]_vars => AnsweredOnce'
  <2>1. Typed /\ AnsweredOnce /\ Next => AnsweredOnce' BY ReplyGrows
  <2>2. AnsweredOnce /\ UNCHANGED vars => AnsweredOnce' BY DEF vars, AnsweredOnce
  <2> QED BY <2>1, <2>2
<1> QED BY <1>1, <1>2, TypedInvariant, PTL DEF Spec

LEMMA SettledStays ==
    ASSUME Typed, Taken, Phased, Ordered, Bounds, Next, NEW i \in Ids, Settled(i)
    PROVE  Settled(i)'
<1> USE IntentApprovalAssumption
<1>0. /\ \A j \in Ids : act'[j] = act[j] /\ act[j].at \in Nat
      /\ act \in Seq(Acts) /\ i # 0
  BY IdsGrow, ActIs DEF Typed
<1>1. CASE reply[i] > 0
  <2>1. i \in 1..MaxActs BY TypedNumbers DEF Bounds, Ids
  <2> QED BY <1>1, <2>1, ReplyGrows DEF Settled
<1>2. CASE intent.last # 0 /\ (act[i].at < act[intent.last].at \/ (act[i].kind = "replan" /\ ~After(i, intent.last)))
  <2>1. intent.last \in Ids BY <1>2 DEF Phased
  <2>2. CASE intent'.last = intent.last
    <3>1. act'[i] = act[i] /\ act'[intent.last] = act[intent.last] BY <1>0, <2>1
    <3> QED BY <1>2, <2>2, <3>1 DEF Settled, After, Second, IsCommand
  <2>3. CASE Triggers(intent'.last) /\ After(intent'.last, intent.last)
    <3> DEFINE n == intent'.last
    <3>1. n \in Ids /\ n # 0 BY <1>0, <2>3, ActIs DEF Triggers
    <3>2. act[intent.last].at <= act[n].at BY <1>0, <1>2, <2>1, <2>3, <3>1 DEF After
    <3>3. After(i, n) => After(i, intent.last) BY <1>0, <2>1, <2>3, <3>1, AfterTransitive
    <3>4. act[i].at < act[n].at \/ (act[i].kind = "replan" /\ ~After(i, n))
      BY <1>0, <1>2, <2>1, <3>1, <3>2, <3>3
    <3>5. act'[i] = act[i] /\ act'[n] = act[n] BY <1>0, <3>1
    <3> QED BY <3>1, <3>4, <3>5 DEF Settled, After, Second, IsCommand
  <2> QED BY <2>2, <2>3, LastMoves
<1> QED BY <1>1, <1>2 DEF Settled

\* What a pass reads of the world it keeps.
LEMMA BoundsStep == ASSUME Typed, Taken, Phased, Bounds, Next PROVE Bounds'
<1> USE IntentApprovalAssumption
<1>0. /\ Ids \subseteq Ids' /\ Len(act) \in Nat /\ Len(act') \in Nat /\ Len(act) <= Len(act') /\ Len(act') <= MaxActs
      /\ intent.seen \in Nat
  <2>1. ASSUME NEW kind \in Kinds, Act(kind) PROVE Len(act') = Len(act) + 1 /\ Len(act) < MaxActs
    BY <2>1, ActStep
  <2>2. UNCHANGED act \/ \E kind \in Kinds : Act(kind)
    <3>1. FinishPlan \/ Edit \/ Tick \/ Fault => UNCHANGED act BY DEF FinishPlan, Edit, Tick, Fault
    <3> QED BY <3>1, StepIs, PassStep
  <2> QED BY <2>1, <2>2, TypedNumbers, IdsGrow DEF Bounds
<1>1. intent'.seen <= Len(act')
  <2>1. CASE RecordSeen
    <3>1. Head1 \in Ids BY <2>1, HeadTaken, HandlingGoes DEF Answers, Handling
    <3>2. intent' = intent \/ intent' = [intent EXCEPT !.seen = Head1] BY <2>1, Zenon DEF RecordSeen
    <3>3. intent'.seen = intent.seen \/ intent'.seen = Head1 BY <3>2 DEF Typed, Intents
    <3> QED BY <1>0, <3>1, <3>3 DEF Bounds, Ids
  <2>2. CASE RecordListing
    <3>1. intent' = intent \/ intent' = [intent EXCEPT !.seen = pass.newest] BY <2>2, Zenon DEF RecordListing
    <3>2. intent'.seen = intent.seen \/ intent'.seen = pass.newest BY <3>1 DEF Typed, Intents
    <3>3. pass.newest \in 0..Len(act) BY <2>2, HandlingGoes DEF Bounds, InPass, Handling
    <3> QED BY <1>0, <3>2, <3>3 DEF Bounds
  <2>3. CASE StatusWrites /\ ~RecordSeen /\ ~RecordListing
    <3>1. intent'.seen = intent.seen BY <2>3, StatusGives, Zenon DEF StatusWrites
    <3> QED BY <1>0, <3>1 DEF Bounds
  <2>4. CASE UNCHANGED intent BY <1>0, <2>4 DEF Bounds
  <2>5. FinishPlan \/ Edit \/ Tick \/ Fault \/ (\E kind \in Kinds : Act(kind)) => UNCHANGED intent
    BY Zenon DEF FinishPlan, Edit, Tick, Act, Fault
  <2> QED BY <2>1, <2>2, <2>3, <2>4, <2>5, StepIs, StatusSteps
<1>2. InPass' => pass'.newest \in 0..Len(act') /\ pass'.deferred \subseteq Ids'
  <2>1. CASE UNCHANGED <<intent, pass>> BY <1>0, <2>1 DEF Bounds, InPass
  <2>2. FinishPlan \/ Edit \/ Tick \/ (\E kind \in Kinds : Act(kind)) => UNCHANGED <<intent, pass>>
    BY Zenon DEF FinishPlan, Edit, Tick, Act
  <2>3. CASE Fault BY <2>3 DEF Fault, Rest, InPass, Handling, Replanning
  <2>4. CASE Answers
    <3>1. pass'.at \in Handling \cup {"snapshot", "idle", "end"} BY <2>4, AnswersGo
    <3>2. CASE pass'.at \in {"idle", "end"} BY <3>2 DEF InPass, Handling, Replanning
    <3>3. CASE pass'.at \in Handling \cup {"snapshot"}
      <4>1. pass.at \in Handling /\ pass'.newest = pass.newest /\ pass'.deferred = pass.deferred
        BY <2>4, <3>3, AnswersGo, Zenon
      <4> QED BY <1>0, <4>1 DEF Bounds, InPass
    <3> QED BY <3>1, <3>2, <3>3
  <2>5. CASE List
    <3>1. Deferred \subseteq Ids BY DEF Deferred, Listed, Ids
    <3>2. NewestSettled \in 0..Len(act) BY NewestSettledIn DEF Typed
    <3> QED BY <1>0, <2>5, <3>1, <3>2, ListGives
  <2>6. CASE StartFirst \/ Revive BY <2>6, ReplanGoes DEF InPass, Handling, Replanning
  <2>7. CASE Snapshot BY <1>0, <2>7, ReplanGoes DEF InPass, Handling, Replanning, KeepsList, Bounds
  <2>8. CASE StartPlanning BY <1>0, <2>8, ReplanGoes DEF InPass, Handling, Replanning, KeepsList, Bounds
  <2>9. CASE Silent BY <2>9, SilentGoes DEF InPass, Handling, Replanning, Others
  <2> QED BY <2>1, <2>2, <2>3, <2>4, <2>5, <2>6, <2>7, <2>8, <2>9, StepIs, PassesAre
<1> QED BY <1>0, <1>1, <1>2 DEF Bounds

LEMMA ReadStep == ASSUME Typed, Dated, Taken, Phased, Ordered, Bounds, Skips, Next PROVE Read'
<1>0. /\ Ids \subseteq Ids' /\ Len(act) \in Nat /\ \A i \in Ids : act'[i] = act[i] /\ act[i].at \in Nat
      /\ intent.seen \in Nat
  BY TypedNumbers, IdsGrow
<1>1. ASSUME NEW n \in 0..Len(act), intent'.seen = n, \A i \in Ids : IsCommand(i) /\ i <= n => Settled(i)
      PROVE  Read'
  <2> SUFFICES ASSUME NEW i \in Ids', IsCommand(i)', i <= intent'.seen PROVE Settled(i)' BY DEF Read
  <2>1. i \in Ids BY <1>0, <1>1 DEF Ids
  <2>2. IsCommand(i) BY <1>0, <2>1 DEF IsCommand
  <2> QED BY <1>1, <2>1, <2>2, SettledStays
<1>2. CASE intent'.seen = intent.seen
  <2>1. intent.seen \in 0..Len(act) BY <1>0 DEF Bounds
  <2> QED BY <1>1, <1>2, <2>1 DEF Skips, Read
<1>3. CASE RecordSeen
  <2>1. Head1 \in Ids /\ Head1 = pass.todo[1] /\ 1 \in 1..Len(pass.todo) /\ pass.at = "seen"
    BY <1>3, HeadTaken, HandlingGoes DEF Answers, Handling
  <2>2. \/ intent' = intent
        \/ /\ intent' = [intent EXCEPT !.seen = Head1]
           /\ IsCommand(Head1) /\ \A d \in pass.deferred : Head1 < d
    BY <1>3, Zenon DEF RecordSeen
  <2>3. CASE intent' = intent BY <2>3, <1>2
  <2>4. CASE intent' = [intent EXCEPT !.seen = Head1] /\ IsCommand(Head1) /\ \A d \in pass.deferred : Head1 < d
    <3>1. intent'.seen = Head1 /\ Head1 \in 0..Len(act) BY <2>1, <2>4 DEF Typed, Intents, Ids
    <3>2. InPass /\ ReadInPass /\ HeadReplied /\ pass.deferred \subseteq Ids BY <2>1 DEF Skips, InPass, Handling, Bounds
    <3>3. ASSUME NEW i \in Ids, IsCommand(i), i <= Head1 PROVE Settled(i)
      <4>1. \A d \in pass.deferred : i < d
        <5>1. \A d \in pass.deferred : d \in Nat /\ Head1 < d BY <2>4, <3>2 DEF Ids
        <5>2. i \in Nat /\ Head1 \in Nat BY <2>1 DEF Ids
        <5> QED BY <3>3, <5>1, <5>2
      <4>2. Covered(i) BY <2>1, <3>3 DEF Covered
      <4>3. Settled(i) \/ Carried(i) BY <3>2, <3>3, <4>1, <4>2 DEF ReadInPass
      <4>4. ASSUME Carried(i) PROVE Settled(i)
        <5>1. PICK k \in 1..Len(pass.todo) : i = pass.todo[k] BY <4>4 DEF Carried
        <5>2. CASE k = 1 BY <2>1, <2>4, <3>2, <5>1, <5>2 DEF HeadReplied, Settled
        <5>3. CASE k # 1
          <6>1. 1 < k /\ InTurn BY <5>3, <2>1 DEF Ordered, Handling
          <6>2. After(i, Head1) BY <2>1, <5>1, <6>1 DEF InTurn
          <6>3. act[i].at <= act[Head1].at BY <2>1, <3>3 DEF Dated
          <6>4. i \in Nat /\ Head1 \in Nat /\ Head1 # 0 BY <2>1 DEF Ids
          <6>5. IsCommand(i) = IsCommand(Head1) /\ ~(i > Head1)
            BY <2>4, <3>3, <6>4 DEF IsCommand
          <6> QED BY <6>2, <6>3, <6>4, <6>5, <1>0, <2>1, <2>4, <3>3 DEF After, Second
        <5> QED BY <5>2, <5>3
      <4> QED BY <4>3, <4>4
    <3> QED BY <1>1, <3>1, <3>3
  <2> QED BY <2>2, <2>3, <2>4
<1>4. CASE RecordListing
  <2>1. pass.at = "answer" /\ Carries /\ pass.todo = <<>> BY <1>4, HandlingGoes
  <2>2. intent' = intent \/ intent' = [intent EXCEPT !.seen = pass.newest] BY <1>4, Zenon DEF RecordListing
  <2>3. CASE intent' = intent BY <2>3, <1>2
  <2>4. CASE intent' = [intent EXCEPT !.seen = pass.newest]
    <3>1. InPass /\ ReadInPass /\ DeferredLast /\ pass.newest \in 0..Len(act) /\ pass.deferred \subseteq Ids
      BY <2>1 DEF Skips, InPass, Handling, Bounds
    <3>2. intent'.seen = pass.newest BY <2>4 DEF Typed, Intents
    <3>3. ASSUME NEW i \in Ids, IsCommand(i), i <= pass.newest PROVE Settled(i)
      <4>1. \A d \in pass.deferred : i < d
        <5>1. \A d \in pass.deferred : d \in Nat /\ pass.newest < d BY <3>1 DEF DeferredLast, Ids
        <5>2. i \in Nat /\ pass.newest \in Nat BY <3>1 DEF Ids
        <5> QED BY <3>3, <5>1, <5>2
      <4>2. ~Carried(i) BY <2>1 DEF Carried
      <4> QED BY <3>1, <3>3, <4>1, <4>2 DEF ReadInPass, Covered
    <3> QED BY <1>1, <3>1, <3>2, <3>3
  <2> QED BY <2>2, <2>3, <2>4
<1>5. CASE StatusWrites /\ ~RecordSeen /\ ~RecordListing
  <2>1. intent'.seen = intent.seen BY <1>5, StatusGives, Zenon DEF StatusWrites
  <2> QED BY <2>1, <1>2
<1>6. CASE UNCHANGED intent BY <1>6, <1>2
<1>7. FinishPlan \/ Edit \/ Tick \/ Fault \/ (\E kind \in Kinds : Act(kind)) => UNCHANGED intent
  BY Zenon DEF FinishPlan, Edit, Tick, Act, Fault
<1> QED BY <1>3, <1>4, <1>5, <1>6, <1>7, StepIs, StatusSteps

LEMMA KeptInPass ==
    ASSUME Typed, Dated, Taken, Phased, Ordered, Bounds, Skips, Next, InPass,
           pass'.newest = pass.newest, pass'.deferred = pass.deferred,
           pass'.todo = pass.todo \/ (RecordSeen /\ pass'.todo = Tail(pass.todo))
    PROVE  ReadInPass' /\ DeferredLast'
<1>0. /\ Ids \subseteq Ids' /\ Len(act) \in Nat /\ \A i \in Ids : act'[i] = act[i]
      /\ pass.newest \in 0..Len(act) /\ ReadInPass /\ DeferredLast /\ HeadReplied
  BY TypedNumbers, IdsGrow DEF Bounds, Skips
<1>1. /\ pass.todo \in Seq(Nat) /\ \A k \in 1..Len(pass.todo) : pass.todo[k] \in Ids
      /\ pass.at \in Handling => pass.todo \in Seq(Nat)
  <2>1. Carries BY DEF InPass, Typed, PassTyped
  <2>2. \A k \in 1..Len(pass.todo) : pass.todo[k] \in Ids BY DEF InPass, Taken, Handling, Replanning
  <2> QED BY <2>1, <2>2 DEF Carries
<1>2. \A k \in 1..Len(pass'.todo) : \E j \in 1..Len(pass.todo) : pass'.todo[k] = pass.todo[j]
  <2>1. CASE pass'.todo = pass.todo BY <2>1
  <2>2. CASE RecordSeen /\ pass'.todo = Tail(pass.todo)
    <3>1. pass.todo # <<>> BY <2>2, HandlingGoes
    <3>2. \A k \in 1..Len(pass'.todo) : k + 1 \in 1..Len(pass.todo) /\ pass'.todo[k] = pass.todo[k + 1]
      BY <1>1, <2>2, <3>1
    <3> QED BY <3>2
  <2> QED BY <2>1, <2>2
<1>3. \A k \in 1..Len(pass.todo) : (IsCommand(pass.todo[k]) => Settled(pass.todo[k]))
                                   \/ \E j \in 1..Len(pass'.todo) : pass.todo[k] = pass'.todo[j]
  <2>1. CASE pass'.todo = pass.todo BY <2>1
  <2>2. CASE RecordSeen /\ pass'.todo = Tail(pass.todo)
    <3>1. pass.todo # <<>> /\ pass.at = "seen" BY <2>2, HandlingGoes
    <3>2. \A k \in 1..Len(pass.todo) : k # 1 => k - 1 \in 1..Len(pass'.todo) /\ pass.todo[k] = pass'.todo[k - 1]
      BY <1>1, <2>2, <3>1
    <3>3. IsCommand(pass.todo[1]) => Settled(pass.todo[1]) BY <1>0, <3>1 DEF HeadReplied, Settled
    <3> QED BY <3>2, <3>3
  <2> QED BY <2>1, <2>2
<1>4. ReadInPass'
  <2> SUFFICES ASSUME NEW i \in Ids', IsCommand(i)', \A d \in pass.deferred : i < d, Covered(i)'
               PROVE  Settled(i)' \/ Carried(i)'
    BY DEF ReadInPass
  <2>1. i <= pass.newest \/ \E k \in 1..Len(pass.todo) : i <= pass.todo[k] BY <1>2 DEF Covered
  <2>2. i \in Ids BY <1>0, <1>1, <2>1 DEF Ids
  <2>3. IsCommand(i) /\ Covered(i) BY <1>0, <2>1, <2>2 DEF IsCommand, Covered
  <2>4. Settled(i) \/ Carried(i) BY <1>0, <2>2, <2>3 DEF ReadInPass
  <2>5. Carried(i) => Settled(i) \/ Carried(i)' BY <1>3, <2>3 DEF Carried
  <2> QED BY <2>2, <2>4, <2>5, SettledStays
<1>5. DeferredLast' BY <1>0 DEF DeferredLast
<1> QED BY <1>4, <1>5

\* A listing leaves out only what is settled, or deferred.
LEMMA ListedReads == ASSUME Typed, Taken, Phased, Ordered, Bounds, Skips, Next, List PROVE ReadInPass' /\ DeferredLast' /\ HeadReplied'
<1>0. /\ Len(act) \in Nat /\ intent.seen \in Nat /\ reply \in [1..MaxActs -> Nat] /\ Len(act) <= MaxActs
      /\ \A i \in Ids : act[i].at \in Nat
  BY TypedNumbers DEF Typed, Bounds
<1>1. /\ pass'.at = "answer" /\ pass'.newest = NewestSettled /\ pass'.deferred = Deferred
      /\ UNCHANGED <<act, reply, intent>>
  BY ListGives DEF List
<1> DEFINE s == Gathered(pass.issue.labels)
           todo == pass'.todo
<1>2. todo \in InOrder(s) /\ s \in SUBSET Ids /\ act \in Seq(Acts) BY GatheredNow
<1>3. \A i \in Commands : i \in s BY DEF Gathered
<1> HIDE DEF s
<1>4. \A i \in s : \E k \in 1..Len(todo) : todo[k] = i BY <1>2, InOrderIs
<1>5. ReadInPass'
  <2> SUFFICES ASSUME NEW i \in Ids, IsCommand(i), \A d \in Deferred : i < d
               PROVE  Settled(i) \/ \E k \in 1..Len(todo) : i = todo[k]
    <3>1. \A i \in Ids : (Settled(i)' <=> Settled(i)) /\ (IsCommand(i)' <=> IsCommand(i))
      BY <1>1 DEF Settled, IsCommand, After, Second
    <3>2. \A i \in Ids : (\E k \in 1..Len(todo) : i = todo[k]) => Carried(i)' BY DEF Carried
    <3>3. Ids' = Ids BY <1>1 DEF Ids
    <3> QED BY <1>1, <3>1, <3>2, <3>3 DEF ReadInPass
  <2>1. i \notin Deferred
    <3>1. i \in Nat BY DEF Ids
    <3> QED BY <3>1
  <2>2. CASE i \in Commands BY <1>3, <1>4, <2>2
  <2>3. CASE i \in Listed /\ i \notin Commands
    <3>1. act[i].kind = "replan" /\ intent.last # i /\ ~After(i, intent.last) BY <2>1, <2>3 DEF Commands
    <3>2. intent.last # 0 BY <3>1 DEF After
    <3> QED BY <3>1, <3>2 DEF Settled
  <2>4. CASE i \notin Listed
    <3>1. \/ ~(i > intent.seen) \/ reply[i] # 0
          \/ intent.last # 0 /\ ~(act[i].at >= act[intent.last].at)
      BY <2>4 DEF Listed, Ids
    <3>2. CASE ~(i > intent.seen)
      <4>1. i <= intent.seen BY <1>0, <3>2 DEF Ids
      <4> QED BY <4>1 DEF Skips, Read
    <3>3. CASE reply[i] # 0
      <4>1. reply[i] \in Nat BY <1>0, IntentApprovalAssumption DEF Ids
      <4> QED BY <3>3, <4>1 DEF Settled
    <3>4. CASE intent.last # 0 /\ ~(act[i].at >= act[intent.last].at)
      <4>1. intent.last \in Ids BY <3>4 DEF Phased
      <4>2. act[i].at < act[intent.last].at BY <1>0, <3>4, <4>1
      <4> QED BY <3>4, <4>2 DEF Settled
    <3> QED BY <3>1, <3>2, <3>3, <3>4
  <2> QED BY <2>2, <2>3, <2>4
<1>6. DeferredLast'
  <2>1. \A d \in Deferred : NewestSettled < d BY <1>2, NewestSettledIn
  <2> QED BY <1>1, <2>1 DEF DeferredLast
<1>7. HeadReplied' BY <1>1 DEF HeadReplied
<1> QED BY <1>5, <1>6, <1>7

LEMMA SkipsStep == ASSUME Typed, Dated, Taken, Phased, Ordered, Bounds, Skips, Next PROVE Skips'
<1>0. Read' BY ReadStep
<1>1. CASE UNCHANGED <<intent, pass>>
  <2> SUFFICES ASSUME InPass PROVE ReadInPass' /\ DeferredLast' /\ HeadReplied' BY <1>0, <1>1 DEF Skips, InPass
  <2>1. ReadInPass' /\ DeferredLast' BY <1>1, KeptInPass
  <2>2. HeadReplied'
    <3> SUFFICES ASSUME pass.at \in {"consume", "unlabel", "seen"}, IsCommand(pass.todo[1])' PROVE reply'[pass.todo[1]] > 0
      BY <1>1 DEF HeadReplied
    <3>1. Carries /\ pass.todo # <<>> BY DEF Typed, PassTyped, Carries, Handling
    <3>2. 1 \in 1..Len(pass.todo) BY <3>1 DEF Carries
    <3>3. pass.todo[1] \in Ids BY <3>2 DEF Taken, Handling, Replanning
    <3>4. IsCommand(pass.todo[1]) BY <3>3, <1>1, IdsGrow DEF IsCommand
    <3>5. reply[pass.todo[1]] > 0 BY <3>4 DEF Skips, HeadReplied
    <3>6. pass.todo[1] \in 1..MaxActs BY <3>3, IntentApprovalAssumption, TypedNumbers DEF Bounds, Ids
    <3> QED BY <3>5, <3>6, ReplyGrows, IntentApprovalAssumption
  <2> QED BY <2>1, <2>2
<1>2. FinishPlan \/ Edit \/ Tick \/ (\E kind \in Kinds : Act(kind)) => UNCHANGED <<intent, pass>>
  BY Zenon DEF FinishPlan, Edit, Tick, Act
<1>3. CASE Fault BY <1>0, <1>3 DEF Fault, Rest, Skips, InPass, Handling, Replanning
<1>4. CASE Answers
  <2>1. CASE pass'.at \in {"idle", "end"} BY <1>0, <2>1 DEF Skips, InPass, Handling, Replanning
  <2>2. CASE pass'.at \in Handling \cup {"snapshot"}
    <3>1. pass.at \in Handling /\ pass'.newest = pass.newest /\ pass'.deferred = pass.deferred
          /\ (pass'.todo = pass.todo \/ (RecordSeen /\ pass'.todo = Tail(pass.todo))) /\ pass.todo # <<>>
      BY <1>4, <2>2, AnswersGo, Zenon
    <3>2. ReadInPass' /\ DeferredLast' BY <3>1, KeptInPass DEF InPass
    <3>3. Head1 \in Ids /\ Head1 = pass.todo[1] BY <1>4, <3>1, HeadTaken
    <3>4. Head1 \in 1..MaxActs BY <3>3, IntentApprovalAssumption, TypedNumbers DEF Bounds, Ids
    <3>5. HeadReplied'
      <4> SUFFICES ASSUME pass'.at \in {"consume", "unlabel", "seen"}, IsCommand(pass.todo[1])'
                   PROVE  reply'[pass'.todo[1]] > 0
        BY DEF HeadReplied
      <4>0. ~RecordSeen BY HandlingGoes
      <4>1. pass'.todo[1] = Head1 BY <3>1, <3>3, <4>0
      <4>2. IsCommand(Head1) BY <3>3, <4>1, IdsGrow DEF IsCommand
      <4>3. CASE Reply BY <3>4, <4>1, <4>3, ReplyGrows
      <4>4. CASE Consume \/ RemoveRefusedLabel
        <5>1. reply[Head1] > 0 BY <4>2, <3>1, <3>3, <4>4, HandlingGoes DEF Skips, HeadReplied, InPass
        <5> QED BY <3>4, <4>1, <5>1, ReplyGrows, IntentApprovalAssumption
      <4>5. CASE Answer
        <5>1. ~IsCommand(Head1) BY <4>5, AnswerGoes
        <5> QED BY <4>2, <5>1
      <4>6. CASE CloseIssue \/ RecordListing \/ EndClosed BY <4>6, HandlingGoes
      <4> QED BY <1>4, <4>0, <4>3, <4>4, <4>5, <4>6 DEF Answers
    <3> QED BY <1>0, <3>2, <3>5 DEF Skips
  <2> QED BY <1>4, <2>1, <2>2, AnswersGo
<1>5. CASE List BY <1>0, <1>5, ListedReads DEF Skips
<1>6. CASE StartFirst \/ Revive BY <1>0, <1>6, ReplanGoes DEF Skips, InPass, Handling, Replanning
<1>7. CASE Snapshot
  <2>1. KeepsList /\ pass.at = "snapshot" /\ pass'.at = "plan" /\ UNCHANGED intent BY <1>7, ReplanGoes
  <2>2. InPass' => InPass BY <2>1 DEF InPass, Handling, Replanning
  <2>3. InPass => ReadInPass' /\ DeferredLast' BY <2>1, KeptInPass DEF KeepsList
  <2>4. HeadReplied' BY <2>1 DEF HeadReplied
  <2> QED BY <1>0, <2>2, <2>3, <2>4 DEF Skips
<1>8. CASE StartPlanning
  <2>1. CASE intent.phase = "AwaitingApproval"
    <3>1. KeepsList /\ pass.at = "plan" /\ (pass'.at = "reply" \/ (pass'.at = "seen" /\ ~IsCommand(Head1)))
      BY <1>8, <2>1, ReplanGoes
    <3>2. InPass BY <2>1, <3>1 DEF InPass, Replanning
    <3>3. ReadInPass' /\ DeferredLast' BY <3>1, <3>2, KeptInPass DEF KeepsList
    <3>4. pass.todo[1] = Head1 /\ Head1 \in Ids BY <1>8, <2>1, HeadPlanned
    <3>5. IsCommand(Head1) <=> act'[Head1].kind \notin Label BY <3>4, IdsGrow DEF IsCommand
    <3>6. HeadReplied' BY <3>1, <3>4, <3>5 DEF HeadReplied, KeepsList, IsCommand
    <3> QED BY <1>0, <3>3, <3>6 DEF Skips
  <2>2. CASE intent.phase # "AwaitingApproval" BY <1>0, <1>8, <2>2, ReplanGoes DEF Skips, InPass, Handling, Replanning
  <2> QED BY <2>1, <2>2
<1>9. CASE Silent BY <1>0, <1>9, SilentGoes DEF Skips, InPass, Handling, Replanning, Others
<1> QED BY <1>1, <1>2, <1>3, <1>4, <1>5, <1>6, <1>7, <1>8, <1>9, StepIs, PassesAre

-----------------------------------------------------------------------------
(* A failed intent is triggered anew, or not at all                         *)
Relabelled ==
    pass.at = "fail" \/ intent.phase = "Failed" =>
        ("trigger" \in issue.labels =>
            \E i \in Ids : /\ act[i].kind = "replanLabel"
                           /\ intent.last # 0 => act[i].at >= act[intent.last].at)

LEMMA LabelsShrink == ASSUME Typed, Passes PROVE issue'.labels \subseteq issue.labels
<1>0. issue \in Issues BY DEF Typed
<1>1. \A s : [issue EXCEPT !.labels = s].labels = s BY <1>0 DEF Issues
<1>2. [issue EXCEPT !.open = FALSE].labels = issue.labels BY <1>0 DEF Issues
<1>3. Answers => \/ UNCHANGED issue
                 \/ issue' = [issue EXCEPT !.open = FALSE]
                 \/ issue' = [issue EXCEPT !.labels = @ \ {"approve"}]
  BY Zenon DEF Answers, Answer, Reply, Consume, CloseIssue, RemoveRefusedLabel, RecordSeen, RecordListing, EndClosed
<1>4. List => UNCHANGED issue \/ issue' = [issue EXCEPT !.labels = @ \ {"approve"}] BY Zenon DEF List
<1>5. StartFirst \/ Revive \/ Snapshot \/ StartPlanning => UNCHANGED issue
  BY Zenon DEF StartFirst, Revive, Snapshot, StartPlanning
<1>6. Silent => \/ UNCHANGED issue
                \/ issue' = [issue EXCEPT !.labels = @ \ {"approve"}]
                \/ issue' = [issue EXCEPT !.labels = @ \ {"trigger"}]
  BY Zenon DEF Silent, Poll, Launch, RecordPlan, WriteBack, ClearLabel, PostPlan, RecordPosting, Spent, RemoveTrigger, Fail
<1>7. /\ UNCHANGED issue => issue'.labels \subseteq issue.labels
      /\ issue' = [issue EXCEPT !.open = FALSE] => issue'.labels \subseteq issue.labels
      /\ issue' = [issue EXCEPT !.labels = @ \ {"approve"}] => issue'.labels \subseteq issue.labels
      /\ issue' = [issue EXCEPT !.labels = @ \ {"trigger"}] => issue'.labels \subseteq issue.labels
  BY <1>1, <1>2
<1> QED BY <1>3, <1>4, <1>5, <1>6, <1>7, PassesAre

\* Only a failing pass, its trigger removed, fails the intent.
LEMMA FailsFrom ==
    ASSUME Typed, Phased, Passes, pass'.at = "fail" \/ intent'.phase = "Failed"
    PROVE  /\ "trigger" \notin issue'.labels \/ pass.at = "fail" \/ intent.phase = "Failed"
           /\ intent'.last = intent.last
<1>1. CASE Answers
  <2>1. pass'.at # "fail"
    <3>1. pass'.at \in Handling \cup {"snapshot", "idle", "end"} BY <1>1, AnswersGo
    <3> QED BY <3>1 DEF Handling
  <2>2. intent.phase = "Failed" BY <1>1, <2>1, AnswersGo
  <2>3. Consume => FALSE BY <2>2, HandlingGoes DEF Phased, Handling
  <2> QED BY <1>1, <2>2, <2>3, AnswersGo
<1>2. CASE List \/ StartFirst \/ Revive \/ Snapshot
  <2>1. UNCHANGED intent BY <1>2 DEF List, StartFirst, Revive, Snapshot
  <2>2. pass'.at \in {"answer", "snapshot", "plan"} BY <1>2, ReplanGoes, ListGives
  <2> QED BY <2>1, <2>2
<1>3. CASE StartPlanning
  <2>1. intent'.phase = "Planning" BY <1>3, StatusGives DEF StatusWrites
  <2>2. pass'.at \in {"idle", "reply", "seen"} BY <1>3, ReplanGoes
  <2> QED BY <2>1, <2>2
<1>4. CASE Silent
  <2>1. intent'.last = intent.last BY <1>4, SilentGoes
  <2>2. CASE RemoveTrigger
    <3>1. issue' = [issue EXCEPT !.labels = @ \ {"trigger"}] BY <2>2 DEF RemoveTrigger
    <3>2. issue'.labels = issue.labels \ {"trigger"} BY <3>1 DEF Typed, Issues
    <3> QED BY <2>1, <3>2
  <2>3. CASE Fail BY <2>1, <2>3 DEF Fail
  <2>4. CASE Poll \/ Launch \/ WriteBack \/ ClearLabel \/ PostPlan \/ Spent
    <3>1. UNCHANGED intent BY <2>4 DEF Poll, Launch, WriteBack, ClearLabel, PostPlan, Spent
    <3>2. pass'.at # "fail" BY <2>4 DEF Poll, Launch, WriteBack, ClearLabel, PostPlan, Spent, Idle
    <3> QED BY <2>1, <3>1, <3>2
  <2>5. CASE RecordPlan \/ RecordPosting
    <3>1. intent'.phase # "Failed" BY <2>5, StatusGives DEF StatusWrites
    <3>2. pass'.at # "fail" BY <2>5 DEF RecordPlan, RecordPosting, Rest, Idle
    <3> QED BY <3>1, <3>2
  <2> QED BY <1>4, <2>2, <2>3, <2>4, <2>5 DEF Silent
<1> QED BY <1>1, <1>2, <1>3, <1>4, PassesAre

LEMMA RelabelledStep == ASSUME Typed, Dated, Phased, Relabelled, Next PROVE Relabelled'
<1>0. /\ Ids \subseteq Ids' /\ \A i \in Ids : act'[i] = act[i] /\ act[i].at \in Nat
      /\ now \in Nat /\ (intent.last # 0 => intent.last \in Ids)
  BY TypedNumbers, IdsGrow DEF Phased
<1>1. ASSUME intent'.last = intent.last, pass.at = "fail" \/ intent.phase = "Failed", "trigger" \in issue.labels
      PROVE  Relabelled'
  <2>1. PICK i \in Ids : act[i].kind = "replanLabel" /\ (intent.last # 0 => act[i].at >= act[intent.last].at)
    BY <1>1 DEF Relabelled
  <2>2. i \in Ids' /\ act'[i] = act[i] BY <1>0
  <2> QED BY <1>0, <1>1, <2>1, <2>2 DEF Relabelled
<1>2. ASSUME NEW kind \in Kinds, Act(kind) PROVE Relabelled'
  <2> SUFFICES ASSUME pass.at = "fail" \/ intent.phase = "Failed", "trigger" \in issue'.labels PROVE Relabelled'
    BY <1>2, ActStep DEF Relabelled
  <2>1. UNCHANGED <<intent, pass>> BY <1>2, ActStep
  <2>2. CASE "trigger" \in issue.labels BY <1>1, <2>1, <2>2
  <2>3. CASE "trigger" \notin issue.labels
    <3>1. kind = "replanLabel"
      <4>1. issue' = issue \/ (kind \in Label
                 /\ issue' = [issue EXCEPT !.labels = @ \cup {IF kind = "replanLabel" THEN "trigger" ELSE "approve"}])
        BY <1>2, Zenon DEF Act
      <4>2. \A s : [issue EXCEPT !.labels = s].labels = s BY DEF Typed, Issues
      <4>3. kind # "replanLabel" => issue' = issue \/ issue' = [issue EXCEPT !.labels = issue.labels \cup {"approve"}]
        BY <4>1
      <4>4. kind # "replanLabel" => issue'.labels = issue.labels \/ issue'.labels = issue.labels \cup {"approve"}
        BY <4>2, <4>3
      <4> QED BY <2>3, <4>4
    <3> DEFINE n == Len(act) + 1
    <3>2. act'[n].kind = "replanLabel" /\ act'[n].at = now /\ n \in Ids' BY <1>2, <3>1, ActStep, TypedNumbers DEF Ids
    <3>3. intent.last # 0 => act'[intent.last].at <= now BY <1>0 DEF Dated
    <3> QED BY <1>0, <2>1, <3>2, <3>3 DEF Relabelled
  <2> QED BY <2>2, <2>3
<1>3. CASE Edit
  <2>1. issue'.labels = issue.labels /\ UNCHANGED <<intent, pass, act>> BY <1>3, EditGives
  <2> QED BY <2>1 DEF Relabelled, Ids
<1>4. CASE FinishPlan \/ Tick BY <1>4 DEF FinishPlan, Tick, Relabelled, Ids
<1>5. CASE Fault BY <1>5 DEF Fault, Rest, Relabelled, Ids
<1>6. CASE Passes
  <2> SUFFICES ASSUME pass'.at = "fail" \/ intent'.phase = "Failed", "trigger" \in issue'.labels PROVE Relabelled'
    BY DEF Relabelled
  <2> QED BY <1>1, <1>6, FailsFrom, LabelsShrink
<1> QED BY <1>2, <1>3, <1>4, <1>5, <1>6, StepIs

ApprovalInv == ShownInv /\ Phased /\ Ordered /\ AppliedOnce /\ Bounds /\ Skips /\ Relabelled

THEOREM ApprovalInvariant == Spec => []ApprovalInv
<1>1. Init => ApprovalInv
  <2> SUFFICES ASSUME Init PROVE ApprovalInv OBVIOUS
  <2>1. Typed BY TypedInit
  <2>2. /\ Len(act) = 0 /\ Len(comment) = 0 /\ pass.at = "idle"
        /\ intent.phase = "Pending" /\ intent.approval.act = 0 /\ intent.input = 0 /\ intent.last = 0 /\ intent.seen = 0
    BY DEF Init, Rest
  <2>3. ShownInv BY <2>1, <2>2 DEF ShownInv, Dated, ShownLast, Planned, Taken, Approved, Ids, Handling, Replanning
  <2>4. Phased BY <2>2 DEF Phased, Handling, Replanning
  <2>5. Ordered BY <2>2 DEF Ordered, Handling, Replanning
  <2>6. AppliedOnce
    <3>1. Cardinality(Applied) \in Nat BY <2>1, AppliedFinite
    <3> QED BY <2>2, <3>1 DEF AppliedOnce, Applied
  <2>7. Bounds BY <2>2, IntentApprovalAssumption DEF Bounds, InPass, Handling, Replanning
  <2>8. Skips BY <2>2 DEF Skips, Read, InPass, Ids, Handling, Replanning
  <2>9. Relabelled BY <2>2 DEF Relabelled
  <2> QED BY <2>3, <2>4, <2>5, <2>6, <2>7, <2>8, <2>9 DEF ApprovalInv
<1>2. ApprovalInv /\ [Next]_vars => ApprovalInv'
  <2> SUFFICES ASSUME ApprovalInv, [Next]_vars PROVE ApprovalInv' OBVIOUS
  <2>1. CASE Next
    <3>1. Typed /\ Dated /\ ShownLast /\ Planned /\ Taken /\ Approved BY DEF ApprovalInv, ShownInv
    <3>2. Typed' BY <2>1, <3>1, TypedStep
    <3>3. ShownInv' BY <2>1, <3>1, <3>2, DatedStep, ShownLastStep, PlannedStep, TakenStep, ApprovedStep DEF ShownInv
    <3>4. Phased' /\ Ordered' BY <2>1, <3>1, PhasedStep, OrderedStep DEF ApprovalInv
    <3>5. AppliedOnce' BY <2>1, <3>1, <3>2, AppliedStep DEF ApprovalInv
    <3>6. Bounds' BY <2>1, <3>1, BoundsStep DEF ApprovalInv
    <3>7. Skips' BY <2>1, <3>1, SkipsStep DEF ApprovalInv
    <3>8. Relabelled' BY <2>1, <3>1, RelabelledStep DEF ApprovalInv
    <3> QED BY <3>3, <3>4, <3>5, <3>6, <3>7, <3>8 DEF ApprovalInv
  <2>2. CASE UNCHANGED vars
    <3>1. UNCHANGED <<now, issue, act, reply, comment, input, run, intent, pass, budget>> BY <2>2 DEF vars
    <3>2. Typed' /\ Dated' /\ ShownLast' /\ Planned' /\ Taken' /\ Approved'
      BY <3>1, TypedStep DEF ApprovalInv, ShownInv, Dated, ShownLast, Planned, Taken, Approved, Ids, LastIs
    <3>3. Phased' /\ Ordered' /\ Bounds' /\ Relabelled'
      BY <3>1 DEF ApprovalInv, Phased, Ordered, InTurn, NewTriggers, HeadTriggers, Triggers, Again, After, Second,
                  IsCommand, Bounds, InPass, Relabelled, Ids
    <3>4. Skips'
      BY <3>1 DEF ApprovalInv, Skips, Read, ReadInPass, DeferredLast, HeadReplied, Settled, Covered, Carried, After,
                  Second, IsCommand, InPass, Ids
    <3>5. AppliedOnce' BY <3>1 DEF ApprovalInv, AppliedOnce, After, Second, IsCommand
    <3> QED BY <3>2, <3>3, <3>4, <3>5 DEF ApprovalInv, ShownInv
  <2> QED BY <2>1, <2>2
<1> QED BY <1>1, <1>2, PTL DEF Spec

\* What is built is the plan its approver was shown, whatever people do and
\* wherever a pass is cut short (settlePlanApproval).
THEOREM ApprovedAsShownHolds == Spec => []ApprovedAsShown
<1>1. ApprovalInv => ApprovedAsShown BY DEF ApprovalInv, ShownInv, Approved, ApprovedAsShown
<1> QED BY <1>1, ApprovalInvariant, PTL

\* Every revision after the first consumed a replan of its own
\* (startPlanning).
THEOREM AppliedOnceHolds == Spec => []AppliedOnce
<1>1. ApprovalInv => AppliedOnce BY DEF ApprovalInv
<1> QED BY <1>1, ApprovalInvariant, PTL

\* No command is settled unread (newestSettled, recordSeen).
THEOREM NothingSkippedHolds == Spec => []NothingSkipped
<1>1. ApprovalInv => NothingSkipped
  <2> SUFFICES ASSUME ApprovalInv, NEW i \in 1..Len(act), IsCommand(i), i <= intent.seen, reply[i] = 0
               PROVE  \/ act[i].kind = "replan" /\ intent.last # 0 /\ ~After(i, intent.last)
                      \/ intent.last # 0 /\ act[i].at < act[intent.last].at
    BY DEF NothingSkipped
  <2> QED BY DEF ApprovalInv, Skips, Read, Settled, Ids
<1> QED BY <1>1, ApprovalInvariant, PTL

\* A failed intent that carries its trigger was given it anew (fail,
\* handOff).
THEOREM FailedUntriggeredHolds == Spec => []FailedUntriggered
<1>1. ApprovalInv => FailedUntriggered
  <2> SUFFICES ASSUME ApprovalInv, intent.phase = "Failed", "trigger" \in issue.labels
               PROVE  /\ Newest("replanLabel") # 0
                      /\ \/ After(Newest("replanLabel"), intent.last)
                         \/ act[Newest("replanLabel")].at = act[intent.last].at
    BY DEF FailedUntriggered
  <2>1. Typed /\ Dated /\ act \in Seq(Acts) BY DEF ApprovalInv, ShownInv, Typed
  <2>2. PICK i \in Ids : act[i].kind = "replanLabel" /\ (intent.last # 0 => act[i].at >= act[intent.last].at)
    BY DEF ApprovalInv, Relabelled
  <2> DEFINE n == Newest("replanLabel")
  <2>3. i <= n /\ i \in Nat /\ n \in 0..Len(act) /\ i # 0 BY <2>1, <2>2, NewestIn DEF Ids
  <2>4. n # 0 /\ n \in Ids BY <2>1, <2>3, NewestIn
  <2>5. act[i].at <= act[n].at BY <2>1, <2>3, <2>4 DEF Dated
  <2>6. intent.last # 0 => intent.last \in Ids BY DEF ApprovalInv, Phased
  <2>7. intent.last # 0 => act[n].at >= act[intent.last].at
    BY <2>1, <2>2, <2>4, <2>5, <2>6, TypedNumbers
  <2>8. intent.last # 0 => act[n].at \in Nat /\ act[intent.last].at \in Nat BY <2>1, <2>4, <2>6, TypedNumbers
  <2> HIDE DEF n
  <2>9. After(n, intent.last) \/ act[n].at = act[intent.last].at BY <2>7, <2>8 DEF After
  <2> QED BY <2>4, <2>9 DEF n
<1> QED BY <1>1, ApprovalInvariant, PTL

-----------------------------------------------------------------------------
(* Types, with their bounds                                                 *)
\* Every comment but the first of each revision took an edit of the last.
Spending == LET c == Len(comment) IN
    c # 0 => IF comment[c].edited THEN c + 1 + budget.edits <= comment[c].rev + MaxEdits
                                  ELSE c + budget.edits <= comment[c].rev + MaxEdits
Rewrites == LET c == Len(comment) IN
    pass.at \in {"clear", "post"} /\ c # 0 => comment[c].rev < intent.plan.rev \/ comment[c].edited
Snapshotted ==
    /\ intent.input # 0 => input[intent.input] # "none"
    /\ pass.at = "plan" => input[intent.input + 1] # "none"
Ranged ==
    /\ run.rev <= MaxRevision /\ run.attempt <= MaxAttempts
    /\ intent.plan.rev <= MaxRevision /\ intent.approval.rev <= MaxRevision
Standing ==
    /\ intent.phase = "Planning" => intent.input # 0
    /\ intent.phase = "Building" => intent.approval.rev = intent.input
    /\ intent.phase \in {"Pending", "Planning"} => intent.approval.act = 0
Clocked == now \in 1..MaxTime /\ \A i \in 1..MaxActs : reply[i] > 0 => i \in Ids
Sized == Spending /\ Rewrites /\ Snapshotted /\ Ranged /\ Standing /\ Clocked

LEMMA ApprovalParts ==
    ASSUME ApprovalInv
    PROVE  /\ Typed /\ Dated /\ ShownLast /\ Planned /\ Taken /\ Approved
           /\ Phased /\ Ordered /\ AppliedOnce /\ Bounds /\ Skips /\ Relabelled
BY DEF ApprovalInv, ShownInv

LEMMA UpToFinite == ASSUME NEW n \in Nat PROVE IsFiniteSet(1..n) /\ Cardinality(1..n) = n
BY FS_Interval

\* No revision is out of reach: each consumed an action of its own, and the
\* one a pass is about to plan has one.
LEMMA InputBound ==
    ASSUME ApprovalInv
    PROVE  /\ intent.input <= MaxRevision
           /\ pass.at \in Replanning => intent.input + 1 <= MaxRevision
<1> USE IntentApprovalAssumption, ApprovalParts
<1>1. IsFiniteSet(Applied) /\ Cardinality(Applied) \in Nat BY AppliedFinite
<1>2. IsFiniteSet(1..Len(act)) /\ Cardinality(1..Len(act)) = Len(act) /\ Len(act) \in Nat /\ intent.input \in Nat
  <2>1. Len(act) \in Nat /\ intent.input \in Nat BY TypedNumbers
  <2> QED BY <2>1, UpToFinite
<1>3. Applied \subseteq 1..Len(act) BY DEF Applied
<1>4. Cardinality(Applied) <= Len(act) BY <1>2, <1>3, FS_Subset
<1>5. intent.input <= 1 + Cardinality(Applied) BY DEF AppliedOnce, Applied
<1>6. Len(act) <= MaxActs BY DEF Bounds
<1>7. intent.input <= MaxRevision BY <1>1, <1>2, <1>4, <1>5, <1>6 DEF MaxRevision
<1>8. ASSUME pass.at \in Replanning PROVE intent.input + 1 <= MaxRevision
  <2>0. Carries /\ pass.todo # <<>> BY <1>8 DEF Typed, PassTyped, Carries, Replanning
  <2>1. 1 \in 1..Len(pass.todo) BY <2>0 DEF Carries
  <2>2. CASE pass.todo[1] = 0
    <3>1. intent.phase = "Pending"
      <4>1. pass.todo[1] \notin Ids BY <2>2 DEF Ids
      <4> QED BY <1>8, <2>1, <4>1 DEF Taken
    <3> QED BY <3>1 DEF Phased, MaxRevision
  <2>3. CASE pass.todo[1] # 0
    <3> DEFINE n == pass.todo[1]
    <3>1. Triggers(n) /\ NewTriggers BY <1>8, <2>3 DEF Ordered, HeadTriggers
    <3>2. After(n, intent.last) BY <1>8, <2>1, <3>1 DEF NewTriggers, Again
    <3>3. n \in 1..Len(act) /\ n \notin Applied BY <3>1, <3>2 DEF Triggers, Ids, Applied
    <3>4. Applied \cup {n} \subseteq 1..Len(act) BY <1>3, <3>3
    <3>5. Cardinality(Applied \cup {n}) = Cardinality(Applied) + 1 BY <1>1, <3>3, FS_AddElement
    <3>6. Cardinality(Applied) + 1 <= Len(act) BY <1>2, <3>4, <3>5, FS_Subset
    <3> QED BY <1>1, <1>2, <1>5, <1>6, <3>6 DEF MaxRevision
  <2> QED BY <2>2, <2>3
<1> QED BY <1>7, <1>8

LEMMA BudgetIs == ASSUME Typed
                  PROVE  /\ budget.edits \in Nat
                         /\ budget.edits <= MaxEdits
                         /\ \A n : [budget EXCEPT !.edits = n].edits = n
                         /\ \A m : [budget EXCEPT !.faults = m].edits = budget.edits
<1>1. budget \in Budgets BY DEF Typed
<1> QED BY <1>1, IntentApprovalAssumption DEF Budgets

LEMMA SpendingStep == ASSUME ApprovalInv, Spending, Rewrites, Standing, Next PROVE Spending'
<1> USE IntentApprovalAssumption, ApprovalParts
<1>0. /\ Len(comment) \in Nat /\ intent.input \in Nat /\ intent.plan.rev \in Nat
      /\ budget.edits \in Nat /\ budget.edits <= MaxEdits /\ MaxEdits \in Nat
      /\ Len(comment) # 0 => Len(comment) \in 1..Len(comment)
  BY TypedNumbers, BudgetIs
<1>1. ASSUME NEW kind \in Kinds, Act(kind) PROVE Spending' BY <1>1, ActStep DEF Spending
<1>2. CASE FinishPlan \/ Tick BY <1>2 DEF FinishPlan, Tick, Spending
<1>3. CASE Fault
  <2>1. budget'.edits = budget.edits /\ UNCHANGED comment BY <1>3, BudgetIs DEF Fault
  <2> QED BY <2>1 DEF Spending
<1>4. CASE Edit
  <2>1. budget'.edits = budget.edits - 1 BY <1>4, EditGives, BudgetIs
  <2>2. Len(comment') = Len(comment) /\ \A c \in 1..Len(comment) : comment'[c].rev = comment[c].rev
    BY <1>4, EditGives
  <2>3. Len(comment) # 0 => comment[Len(comment)].rev \in Nat BY <1>0, CommentsIs
  <2>4. Len(comment) # 0 => Len(comment) + budget.edits <= comment[Len(comment)].rev + MaxEdits
    BY <1>0, <2>3 DEF Spending
  <2>5. Len(comment) # 0 => Len(comment) + 1 + (budget.edits - 1) <= comment[Len(comment)].rev + MaxEdits
                            /\ Len(comment) + (budget.edits - 1) <= comment[Len(comment)].rev + MaxEdits
    BY <1>0, <2>3, <2>4
  <2> QED BY <1>0, <2>1, <2>2, <2>5 DEF Spending
<1>5. CASE PostPlan
  <2>1. /\ pass.at = "post" /\ Len(comment') = Len(comment) + 1
        /\ comment'[Len(comment) + 1] = [rev |-> intent.plan.rev, at |-> now, edited |-> FALSE] /\ budget' = budget
    BY <1>5, PostGives
  <2>2. intent.plan.rev = intent.input /\ intent.input # 0 BY <2>1 DEF Planned, Standing
  <2>3. CASE Len(comment) = 0 BY <1>0, <2>1, <2>2, <2>3 DEF Spending
  <2>4. CASE Len(comment) # 0
    <3> DEFINE last == comment[Len(comment)]
    <3>1. last.rev \in Nat /\ last.edited \in BOOLEAN BY <1>0, <2>4, CommentsIs
    <3>2. last.rev <= intent.plan.rev BY <2>2, <2>4 DEF Dated
    <3>3. last.rev < intent.plan.rev \/ last.edited BY <2>1, <2>4 DEF Rewrites
    <3>4. IF last.edited THEN Len(comment) + 1 + budget.edits <= last.rev + MaxEdits
                         ELSE Len(comment) + budget.edits <= last.rev + MaxEdits
      BY <2>4 DEF Spending
    <3> HIDE DEF last
    <3>5. Len(comment) + 1 + budget.edits <= intent.plan.rev + MaxEdits BY <1>0, <3>1, <3>2, <3>3, <3>4
    <3> QED BY <1>0, <2>1, <3>5 DEF Spending
  <2> QED BY <2>3, <2>4
<1>6. CASE Passes /\ UNCHANGED comment
  <2>1. UNCHANGED budget BY <1>6, PassStep
  <2> QED BY <1>6, <2>1 DEF Spending
<1> QED BY <1>1, <1>2, <1>3, <1>4, <1>5, <1>6, StepIs, PassStep

LEMMA RewritesStep == ASSUME ApprovalInv, Rewrites, Next PROVE Rewrites'
<1> USE ApprovalParts
<1>0. /\ Len(comment) \in Nat /\ intent.input \in Nat /\ intent.plan.rev \in Nat
      /\ Len(comment) # 0 => Len(comment) \in 1..Len(comment)
  BY TypedNumbers
<1>1. ASSUME NEW kind \in Kinds, Act(kind) PROVE Rewrites' BY <1>1, ActStep DEF Rewrites
<1>2. CASE FinishPlan \/ Tick BY <1>2 DEF FinishPlan, Tick, Rewrites
<1>3. CASE Fault BY <1>3 DEF Fault, Rest, Rewrites
<1>4. CASE Edit BY <1>0, <1>4, EditGives DEF Rewrites
<1>5. CASE Answers
  <2>1. pass'.at \in Handling \cup {"snapshot", "idle", "end"} BY <1>5, AnswersGo
  <2> QED BY <2>1 DEF Rewrites, Handling
<1>6. CASE List \/ StartFirst \/ Revive \/ Snapshot \/ StartPlanning
  <2>1. pass'.at \in {"answer", "snapshot", "plan", "idle", "reply", "seen"} BY <1>6, ListGives, ReplanGoes
  <2> QED BY <2>1 DEF Rewrites
<1>7. CASE Silent
  <2> SUFFICES ASSUME pass'.at \in {"clear", "post"} PROVE Rewrites' BY DEF Rewrites
  <2>1. UNCHANGED <<comment, intent>>
        /\ \/ pass.at = "clear"
           \/ intent.plan.rev = intent.input /\ ~(Own # 0 /\ ~comment[Own].edited)
    BY <1>7, SilentGoes
  <2>2. CASE pass.at = "clear" BY <2>1, <2>2 DEF Rewrites
  <2>3. CASE intent.plan.rev = intent.input /\ ~(Own # 0 /\ ~comment[Own].edited)
    <3> SUFFICES ASSUME Len(comment) # 0, ~(comment[Len(comment)].rev < intent.plan.rev)
                 PROVE  comment[Len(comment)].edited
      BY <2>1 DEF Rewrites
    <3>1. comment[Len(comment)].rev = intent.plan.rev
      <4>1. comment[Len(comment)].rev <= intent.input BY DEF Dated
      <4> QED BY <1>0, <2>3, <4>1, CommentsIs
    <3>2. Own \in 0..Len(comment) /\ Len(comment) <= Own BY <1>0, <3>1, OwnIn DEF Typed
    <3>3. Own = Len(comment) BY <1>0, <3>2
    <3> QED BY <2>3, <3>3
  <2> QED BY <2>1, <2>2, <2>3
<1> QED BY <1>1, <1>2, <1>3, <1>4, <1>5, <1>6, <1>7, StepIs, PassesAre

\* What a step does to the intent, in one list.
LEMMA IntentStep ==
    ASSUME Typed, Next
    PROVE  \/ UNCHANGED intent
           \/ StartPlanning
           \/ Answer /\ intent' # intent
           \/ RecordPlan
           \/ /\ Consume \/ RecordSeen \/ RecordListing \/ EndClosed \/ Fail \/ RecordPosting
              /\ intent'.plan.rev = intent.plan.rev /\ intent'.approval = intent.approval
              /\ intent'.input = intent.input
              /\ intent'.phase \in {intent.phase, "Closed", "Failed", "AwaitingApproval"}
<1>1. FinishPlan \/ Edit \/ Tick \/ Fault \/ (\E kind \in Kinds : Act(kind)) => UNCHANGED intent
  BY Zenon DEF FinishPlan, Edit, Tick, Act, Fault
<1>2. CASE Consume \/ RecordSeen \/ RecordListing
  <2>1. intent'.plan.rev = intent.plan.rev /\ intent'.approval = intent.approval /\ intent'.input = intent.input
        /\ intent'.phase = intent.phase
    BY <1>2, StatusGives DEF StatusWrites
  <2> QED BY <1>2, <2>1
<1>3. CASE EndClosed \/ Fail \/ RecordPosting
  <2>1. /\ intent'.plan.rev = intent.plan.rev /\ intent'.approval = intent.approval /\ intent'.input = intent.input
        /\ intent'.phase \in {"Closed", "Failed", "AwaitingApproval"}
    BY <1>3, StatusGives DEF StatusWrites
  <2> QED BY <1>3, <2>1
<1> QED BY <1>1, <1>2, <1>3, StepIs, StatusSteps DEF StatusWrites

LEMMA SnapshottedStep == ASSUME ApprovalInv, Snapshotted, Next PROVE Snapshotted'
<1> USE IntentApprovalAssumption, ApprovalParts
<1>0. input \in [1..MaxRevision -> Content \cup {"none"}] /\ intent.input \in Nat /\ MaxRevision \in Nat
  <2>1. MaxRevision \in Nat BY DEF MaxRevision
  <2> QED BY <2>1, TypedNumbers DEF Typed
<1>1. CASE Snapshot
  <2>1. UNCHANGED intent /\ pass.at = "snapshot" /\ Carries BY <1>1, ReplanGoes
  <2>2. intent.input + 1 \in 1..MaxRevision BY <1>0, <2>1, InputBound DEF Replanning
  <2>3. \/ input' = input /\ input[intent.input + 1] # "none"
        \/ input' = [input EXCEPT ![intent.input + 1] = pass.issue.content]
    BY <1>1, Zenon DEF Snapshot
  <2>4. pass.issue.content # "none" BY <2>1 DEF Carries, Issues, Content
  <2>5. input'[intent.input + 1] # "none" BY <1>0, <2>2, <2>3, <2>4
  <2>6. intent.input # 0 => input'[intent.input] # "none"
    <3> SUFFICES ASSUME intent.input # 0 PROVE input'[intent.input] # "none" OBVIOUS
    <3>1. intent.input \in 1..MaxRevision /\ intent.input # intent.input + 1 BY <1>0, InputBound
    <3>2. input'[intent.input] = input[intent.input] BY <1>0, <2>3, <3>1
    <3> QED BY <3>2 DEF Snapshotted
  <2> QED BY <2>1, <2>5, <2>6 DEF Snapshotted
<1>2. CASE ~Snapshot
  <2>1. UNCHANGED input
    <3> USE Zenon
    <3>1. FinishPlan \/ Edit \/ Tick \/ Fault \/ (\E kind \in Kinds : Act(kind)) => UNCHANGED input
      BY DEF FinishPlan, Edit, Tick, Act, Fault
    <3>2. Answers => UNCHANGED input
      BY DEF Answers, Answer, Reply, Consume, CloseIssue, RemoveRefusedLabel, RecordSeen, RecordListing, EndClosed
    <3>3. List \/ StartFirst \/ Revive \/ StartPlanning => UNCHANGED input BY DEF List, StartFirst, Revive, StartPlanning
    <3>4. Silent => UNCHANGED input
      BY DEF Silent, Poll, Launch, RecordPlan, WriteBack, ClearLabel, PostPlan, RecordPosting, Spent, RemoveTrigger, Fail
    <3> QED BY <1>2, <3>1, <3>2, <3>3, <3>4, StepIs, PassesAre
  <2>2. pass'.at = "plan" => UNCHANGED pass
    <3>1. FinishPlan \/ Edit \/ Tick \/ (\E kind \in Kinds : Act(kind)) => UNCHANGED pass
      BY Zenon DEF FinishPlan, Edit, Tick, Act
    <3>2. Fault => pass'.at # "plan" BY DEF Fault, Rest
    <3>3. Answers => pass'.at # "plan"
      <4>1. Answers => pass'.at \in Handling \cup {"snapshot", "idle", "end"} BY AnswersGo
      <4> QED BY <4>1 DEF Handling
    <3>4. List \/ StartFirst \/ Revive \/ StartPlanning => pass'.at # "plan" BY ListGives, ReplanGoes
    <3>5. Silent => pass'.at # "plan" BY SilentGoes DEF Others
    <3> QED BY <1>2, <3>1, <3>2, <3>3, <3>4, <3>5, StepIs, PassesAre
  <2>3. CASE StartPlanning
    <3>1. intent'.input = intent.input + 1 /\ pass.at = "plan" /\ pass'.at # "plan"
      BY <2>3, StatusGives, ReplanGoes DEF StatusWrites
    <3> QED BY <2>1, <3>1 DEF Snapshotted
  <2>4. CASE ~StartPlanning
    <3>1. intent'.input = intent.input BY <2>4, IntentStep, StatusGives DEF StatusWrites
    <3> QED BY <2>1, <2>2, <3>1 DEF Snapshotted
  <2> QED BY <2>3, <2>4
<1> QED BY <1>1, <1>2

LEMMA RangedStep == ASSUME ApprovalInv, Ranged, Next PROVE Ranged'
<1> USE IntentApprovalAssumption, ApprovalParts
<1>0. /\ intent.input \in Nat /\ intent.input <= MaxRevision /\ run.rev \in Nat /\ run.attempt \in Nat
      /\ MaxRevision \in Nat
  BY TypedNumbers, InputBound DEF Typed, Runs, MaxRevision
<1>1. run'.rev <= MaxRevision /\ run'.attempt <= MaxAttempts
  <2>1. CASE Launch
    <3>1. /\ run' = [rev |-> intent.input, attempt |-> IF run.rev = intent.input THEN run.attempt + 1 ELSE 1,
                     phase |-> "Pending"]
          /\ run.rev # intent.input \/ (run.phase = "Failed" /\ run.attempt < MaxAttempts)
      BY <2>1, Zenon DEF Launch
    <3> QED BY <1>0, <3>1
  <2>2. CASE FinishPlan
    <3>1. \E p \in {"Complete", "Failed"} : run' = [run EXCEPT !.phase = p] BY <2>2 DEF FinishPlan
    <3>2. run'.rev = run.rev /\ run'.attempt = run.attempt BY <3>1 DEF Typed, Runs
    <3> QED BY <3>2 DEF Ranged
  <2>3. CASE ~Launch /\ ~FinishPlan
    <3>1. UNCHANGED run
      <4> USE Zenon
      <4>1. Edit \/ Tick \/ Fault \/ (\E kind \in Kinds : Act(kind)) => UNCHANGED run BY DEF Edit, Tick, Act, Fault
      <4>2. Answers => UNCHANGED run
        BY DEF Answers, Answer, Reply, Consume, CloseIssue, RemoveRefusedLabel, RecordSeen, RecordListing, EndClosed
      <4>3. List \/ StartFirst \/ Revive \/ Snapshot \/ StartPlanning => UNCHANGED run
        BY DEF List, StartFirst, Revive, Snapshot, StartPlanning
      <4>4. Silent /\ ~Launch => UNCHANGED run
        BY DEF Silent, Poll, RecordPlan, WriteBack, ClearLabel, PostPlan, RecordPosting, Spent, RemoveTrigger, Fail
      <4> QED BY <2>3, <4>1, <4>2, <4>3, <4>4, StepIs, PassesAre
    <3> QED BY <3>1 DEF Ranged
  <2> QED BY <2>1, <2>2, <2>3
<1>2. intent'.plan.rev <= MaxRevision /\ intent'.approval.rev <= MaxRevision
  <2>1. CASE StartPlanning
    <3>1. intent'.plan.rev = 0 /\ intent'.approval.rev = 0 BY <2>1, StatusGives DEF StatusWrites
    <3> QED BY <1>0, <3>1
  <2>2. CASE Answer /\ intent' # intent
    <3>1. intent'.plan = intent.plan /\ intent'.approval.rev = intent.plan.rev BY <2>2, StatusGives DEF StatusWrites
    <3> QED BY <3>1 DEF Ranged
  <2>3. CASE RecordPlan
    <3>1. intent'.plan.rev = run.rev /\ intent'.approval = intent.approval BY <2>3, StatusGives DEF StatusWrites
    <3> QED BY <3>1 DEF Ranged
  <2> QED BY <2>1, <2>2, <2>3, IntentStep DEF Ranged
<1> QED BY <1>1, <1>2 DEF Ranged

LEMMA StandingStep == ASSUME ApprovalInv, Standing, Next PROVE Standing'
<1> USE ApprovalParts
<1>0. intent.input \in Nat BY TypedNumbers
<1>1. CASE StartPlanning
  <2>1. intent'.phase = "Planning" /\ intent'.input = intent.input + 1 /\ intent'.approval.act = 0
    BY <1>1, StatusGives DEF StatusWrites
  <2> QED BY <1>0, <2>1 DEF Standing
<1>2. CASE Answer /\ intent' # intent
  <2>1. /\ intent'.phase = "Building" /\ Admits(Head1) /\ intent'.input = intent.input
        /\ intent'.approval.rev = intent.plan.rev
    BY <1>2, StatusGives DEF StatusWrites
  <2> QED BY <2>1 DEF Standing, Admits, Planned
<1>3. CASE RecordPlan
  <2>1. intent'.phase = "Planning" /\ intent'.input = intent.input /\ intent'.approval = intent.approval
    BY <1>3, StatusGives DEF StatusWrites
  <2>2. intent.phase = "Planning" BY <1>3 DEF RecordPlan
  <2> QED BY <2>1, <2>2 DEF Standing
<1> QED BY <1>1, <1>2, <1>3, IntentStep DEF Standing

LEMMA ClockedStep == ASSUME ApprovalInv, Clocked, Next PROVE Clocked'
<1> USE IntentApprovalAssumption, ApprovalParts
<1>0. Ids \subseteq Ids' /\ now \in Nat /\ reply \in [1..MaxActs -> Nat] BY IdsGrow DEF Typed
<1>1. now' \in 1..MaxTime
  <2>1. UNCHANGED now \/ (now < MaxTime /\ now' = now + 1)
    <3>1. FinishPlan \/ Edit \/ Fault \/ (\E kind \in Kinds : Act(kind)) => UNCHANGED now
      BY Zenon DEF FinishPlan, Edit, Act, Fault
    <3> QED BY <3>1, StepIs, PassStep DEF Tick
  <2> QED BY <1>0, <2>1 DEF Clocked
<1>2. \A i \in 1..MaxActs : reply'[i] > 0 => i \in Ids'
  <2>1. CASE UNCHANGED reply BY <1>0, <2>1 DEF Clocked
  <2>2. CASE Reply
    <3>1. Head1 \in Ids BY <2>2, HandlingGoes, HeadTaken DEF Answers, Handling
    <3>2. reply' = reply \/ reply' = [reply EXCEPT ![Head1] = @ + 1] BY <2>2, Zenon DEF Reply
    <3>3. \A i \in 1..MaxActs : i # Head1 => reply'[i] = reply[i] BY <1>0, <3>2
    <3> QED BY <1>0, <3>1, <3>3 DEF Clocked
  <2>3. Reply \/ UNCHANGED reply BY ReplySteps
  <2> QED BY <2>1, <2>2, <2>3
<1> QED BY <1>1, <1>2 DEF Clocked

\* The invariants together bound every field of the state.
LEMMA SizedTypes == ASSUME ApprovalInv, AnsweredOnce, Sized PROVE TypeOK
<1> USE IntentApprovalAssumption, ApprovalParts
<1>0. /\ Len(act) \in Nat /\ Len(comment) \in Nat /\ intent.input \in Nat /\ intent.last \in Nat /\ intent.seen \in Nat
      /\ intent.plan.rev \in Nat /\ intent.plan.comment \in Nat /\ Len(act) <= MaxActs /\ intent.seen <= Len(act)
      /\ intent.input <= MaxRevision /\ MaxRevision \in Nat
  BY TypedNumbers, InputBound DEF Bounds, MaxRevision
<1>1. now \in 1..MaxTime BY DEF Sized, Clocked
<1>2. issue \in [content: Content, open: BOOLEAN, labels: SUBSET {"trigger", "approve"}]
  BY DEF Typed, Issues, Labels
<1>3. Len(comment) <= MaxRevision + MaxEdits
  <2>1. CASE Len(comment) = 0 BY <1>0, <2>1
  <2>2. CASE Len(comment) # 0
    <3> DEFINE last == comment[Len(comment)]
    <3>1. last.rev \in Nat BY <1>0, <2>2, CommentsIs
    <3>2. last.rev <= intent.input BY <2>2 DEF Dated
    <3>3. IF last.edited THEN Len(comment) + 1 + budget.edits <= last.rev + MaxEdits
                         ELSE Len(comment) + budget.edits <= last.rev + MaxEdits
      BY <2>2 DEF Sized, Spending
    <3>4. budget.edits \in Nat BY BudgetIs
    <3> HIDE DEF last
    <3> QED BY <1>0, <3>1, <3>2, <3>3, <3>4
  <2> QED BY <2>1, <2>2
<1>4. reply \in [1..MaxActs -> 0..2] /\ \A i \in 1..MaxActs : reply[i] > 0 => Done(i)
  <2>1. reply \in [1..MaxActs -> Nat] BY DEF Typed
  <2>2. \A i \in 1..MaxActs : reply[i] \in 0..2 BY <2>1 DEF AnsweredOnce
  <2>3. \A i \in 1..MaxActs : reply[i] > 0 => i \in Ids BY DEF Sized, Clocked
  <2>4. \A i \in Ids : Done(i) BY <1>0 DEF Done, Ids
  <2> QED BY <2>1, <2>2, <2>3, <2>4
<1>5. input \in [1..MaxRevision -> Content \cup {"none"}] BY DEF Typed
<1>6. run \in [rev: 0..MaxRevision, attempt: 0..MaxAttempts, phase: {"Pending", "Complete", "Failed"}]
  <2>1. run.rev \in Nat /\ run.attempt \in Nat /\ run.phase \in RunPhases
        /\ run = [rev |-> run.rev, attempt |-> run.attempt, phase |-> run.phase]
    BY DEF Typed, Runs
  <2>2. run.rev \in 0..MaxRevision /\ run.attempt \in 0..MaxAttempts BY <1>0, <2>1 DEF Sized, Ranged
  <2> QED BY <2>1, <2>2, Zenon DEF RunPhases
<1>7. intent \in [phase: {"Pending", "Planning", "AwaitingApproval", "Building", "Failed", "Closed"},
                  input: 0..MaxRevision, plan: [rev: 0..MaxRevision, comment: Nat],
                  approval: [act: 0..MaxActs, rev: 0..MaxRevision], last: 0..MaxActs, seen: 0..MaxActs]
  <2> DEFINE Bounded == [rev: 0..MaxRevision, comment: Nat]
             Given == [act: 0..MaxActs, rev: 0..MaxRevision]
  <2>1. intent.plan \in Bounded
    <3>1. intent.plan = [rev |-> intent.plan.rev, comment |-> intent.plan.comment] BY IntentFields DEF Typed, Plans
    <3>2. intent.plan.rev \in 0..MaxRevision BY <1>0 DEF Sized, Ranged
    <3> QED BY <1>0, <3>1, <3>2
  <2>2. intent.approval \in Given
    <3>1. /\ intent.approval = [act |-> intent.approval.act, rev |-> intent.approval.rev]
          /\ intent.approval.act \in Nat /\ intent.approval.rev \in Nat
      BY IntentFields DEF Typed, Approvals
    <3>2. intent.approval.rev \in 0..MaxRevision BY <1>0, <3>1 DEF Sized, Ranged
    <3>3. intent.approval.act \in 0..MaxActs BY <1>0, <3>1 DEF Approved, Ids
    <3> QED BY <3>1, <3>2, <3>3
  <2>3. intent.last \in 0..MaxActs BY <1>0 DEF Phased, Ids
  <2>4. intent.seen \in 0..MaxActs /\ intent.input \in 0..MaxRevision BY <1>0
  <2>5. intent.phase \in IntentPhases BY IntentFields DEF Typed
  <2>6. intent = [phase |-> intent.phase, input |-> intent.input, plan |-> intent.plan, approval |-> intent.approval,
                  last |-> intent.last, seen |-> intent.seen]
    <3>1. intent \in Intents BY DEF Typed
    <3> QED BY <3>1 DEF Intents
  <2>7. intent \in [phase: IntentPhases, input: 0..MaxRevision, plan: Bounded, approval: Given,
                    last: 0..MaxActs, seen: 0..MaxActs]
    <3> HIDE DEF Bounded, Given
    <3> QED BY <2>1, <2>2, <2>3, <2>4, <2>5, <2>6
  <2> QED BY <2>7 DEF IntentPhases
<1>8. intent.input > 0 => input[intent.input] # "none" BY <1>0 DEF Sized, Snapshotted
<1>9. intent.phase = "AwaitingApproval" => Posted /\ intent.plan.rev = intent.input BY DEF Planned, LastIs, Posted
<1>10. /\ intent.phase = "Building" => intent.approval.rev = intent.input
       /\ intent.phase \in {"Pending", "Planning"} => intent.approval.act = 0
  BY DEF Sized, Standing
<1> QED BY <1>0, <1>1, <1>2, <1>3, <1>4, <1>5, <1>6, <1>7, <1>8, <1>9, <1>10, Zenon DEF TypeOK

\* The intent's state stays within the types of its status, and a plan that
\* awaits approval, or is built, is the plan of the latest input.
THEOREM TypeCorrect == Spec => []TypeOK
<1> USE IntentApprovalAssumption
<1>1. Init => Sized
  <2> SUFFICES ASSUME Init PROVE Sized OBVIOUS
  <2>1. /\ Len(comment) = 0 /\ intent.input = 0 /\ intent.phase = "Pending" /\ intent.approval.act = 0
        /\ intent.approval.rev = 0 /\ intent.plan.rev = 0 /\ pass.at = "idle" /\ run.rev = 0 /\ run.attempt = 0
        /\ now = 1
    BY DEF Init, Rest, None
  <2>2. reply = [i \in 1..MaxActs |-> 0] BY DEF Init
  <2>3. Ranged BY <2>1 DEF Ranged, MaxRevision
  <2>4. Clocked BY <2>1, <2>2 DEF Clocked
  <2> QED BY <2>1, <2>3, <2>4 DEF Sized, Spending, Rewrites, Snapshotted, Standing
<1>2. ApprovalInv /\ Sized /\ [Next]_vars => Sized'
  <2>1. ApprovalInv /\ Sized /\ Next => Sized'
    BY SpendingStep, RewritesStep, SnapshottedStep, RangedStep, StandingStep, ClockedStep DEF Sized
  <2>2. Sized /\ UNCHANGED vars => Sized'
    BY DEF vars, Sized, Spending, Rewrites, Snapshotted, Ranged, Standing, Clocked, Ids
  <2> QED BY <2>1, <2>2
<1>3. ApprovalInv /\ AnsweredOnce /\ Sized => TypeOK BY SizedTypes
<1> QED BY <1>1, <1>2, <1>3, ApprovalInvariant, AnsweredOnceHolds, PTL DEF Spec

\* What is built is what was approved, every trigger is applied once and every
\* command is answered once and never settled unread, at any call of any pass, for
\* any actions, edits and faults (pollIssue).
THEOREM ApprovalTrueHolds == Spec => []ApprovalTrue
<1>1. TypeOK /\ ApprovedAsShown /\ AppliedOnce /\ AnsweredOnce /\ NothingSkipped /\ FailedUntriggered
        => ApprovalTrue
  BY DEF ApprovalTrue
<1> QED
  BY <1>1, TypeCorrect, ApprovedAsShownHolds, AppliedOnceHolds, AnsweredOnceHolds, NothingSkippedHolds,
     FailedUntriggeredHolds, PTL
=============================================================================
