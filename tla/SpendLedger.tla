---------------------------- MODULE SpendLedger ----------------------------
(***************************************************************************)
(* The egress broker's spend ledger: what a request must reserve to be     *)
(* admitted, the wait for one of its pod's slots, the charges its response *)
(* makes as it streams, and the return of its reservation.                 *)
(*                                                                         *)
(* Every operation of the ledger is one step under its lock; the requests  *)
(* run in parallel and their handlers hold it only for those steps.  One   *)
(* unit stands for tokens and for micro-USD, which are counted alike; the  *)
(* budget annotation, which lowers a pod's cap, and the checks before the  *)
(* ledger are left out.  The ledger is in memory: these are the lives of   *)
(* one process.  Time is counted in minutes.                               *)
(***************************************************************************)
EXTENDS Integers, FiniteSets, FiniteSetsExt

CONSTANTS
    Pods, Requests,
    PodLimit, HourLimit, RequestLimit, Cap, \* 0 is no limit
    Waits,      \* whether a request waits for a slot (ConcurrencyWait)
    Reserves,   \* the reservations requests make; 0 is a request with no output bound
    Overrun,    \* what the answer to one of those may use
    Window,     \* the buckets of the hour, 60
    Ttl,        \* minutes an idle pod is kept, 1440
    MaxMinute   \* bound

ASSUME SpendAssumption ==
    /\ {PodLimit, HourLimit, RequestLimit, Cap, Overrun, Ttl, MaxMinute} \subseteq Nat
    /\ Window \in Nat \ {0} /\ Reserves \subseteq Nat /\ Waits \in BOOLEAN
    /\ IsFiniteSet(Requests)

VARIABLES
    clock,
    pods,      \* each pod's counters
    hour,      \* the hour's buckets
    reserved,  \* outstanding reservations of every pod
    lastSweep,
    req,       \* each request
    billed     \* what was charged in each minute, for the properties only

ledgerVars == <<clock, pods, hour, reserved, lastSweep, req, billed>>

States == {"new", "waiting", "woken", "sent", "charged", "done", "refused"}
Holding == {"sent", "charged"}
InFlight(p) == {r \in Requests : req[r].pod = p /\ req[r].at \in Holding}

Counters == [requests: Nat, inflight: Nat, spent: Nat, reserved: Nat, seen: Nat]
LedgerTypeOK ==
    /\ clock \in Nat /\ lastSweep \in Nat /\ reserved \in Nat
    /\ pods \in [Pods -> Counters]
    /\ hour \in [0..(Window - 1) -> [minute: Nat, sum: Nat]]
    /\ req \in [Requests -> [at: States, pod: Pods, reserve: Nat, used: Nat, seen: Nat]]
    /\ billed \in [0..MaxMinute -> Nat]

\* An evicted pod counts like one never seen.
Fresh == [requests |-> 0, inflight |-> 0, spent |-> 0, reserved |-> 0, seen |-> 0]
LedgerInit ==
    /\ clock = 0 /\ lastSweep = 0 /\ reserved = 0
    /\ pods = [p \in Pods |-> Fresh]
    /\ hour = [i \in 0..(Window - 1) |-> [minute |-> 0, sum |-> 0]]
    /\ req \in [Requests -> {[at |-> "new", pod |-> p, reserve |-> 0, used |-> 0, seen |-> 0] : p \in Pods}]
    /\ billed = [m \in 0..MaxMinute |-> 0]

(***************************************************************************)
(* Admission                                                               *)
(***************************************************************************)
\* sum
HourSum(h, now) == MapThenSumSet(LAMBDA i : IF now - h[i].minute < Window THEN h[i].sum ELSE 0, DOMAIN h)

\* over, and the limit's being set
Over(committed, n, limit) == limit > 0 /\ (committed >= limit \/ committed + n > limit)

\* sweepLocked
IdlePod(c) == c.inflight = 0 /\ clock - c.seen > Ttl
SweepDue == clock > lastSweep
Swept(p) == IF SweepDue /\ IdlePod(pods[p]) THEN Fresh ELSE pods[p]

Refused(c, n) ==
    \/ Over(HourSum(hour, clock) + reserved, n, HourLimit)
    \/ Over(c.spent + c.reserved, n, PodLimit)
    \/ RequestLimit > 0 /\ c.requests >= RequestLimit
Full_Late(c) == Cap > 0 /\ c.inflight > Cap
Full(c) == Cap > 0 /\ c.inflight >= Cap

\* tryAdmit
TryAdmit(r, n) ==
    LET p == req[r].pod
        c == [Swept(p) EXCEPT !.seen = clock]
        put(e) == pods' = [q \in Pods |-> IF q = p THEN e ELSE Swept(q)]
        to(state) == req' = [req EXCEPT ![r].at = state, ![r].reserve = n]
    IN  /\ lastSweep' = IF SweepDue THEN clock ELSE lastSweep
        /\ \/ /\ Refused(c, n)
              /\ put(c) /\ to("refused") /\ UNCHANGED reserved
           \/ /\ ~Refused(c, n) /\ Full(c)
              /\ put(c) /\ to(IF Waits THEN "waiting" ELSE "refused") /\ UNCHANGED reserved
           \/ /\ ~Refused(c, n) /\ ~Full(c)
              /\ put([c EXCEPT !.requests = @ + 1, !.inflight = @ + 1, !.reserved = @ + n])
              /\ to("sent") /\ reserved' = reserved + n
        /\ UNCHANGED <<clock, hour, billed>>

\* reserve: a request's worst case.
Arrive(r) == req[r].at = "new" /\ \E n \in Reserves : TryAdmit(r, n)
\* admit: a freed slot, and every limit again.
Retry(r) == req[r].at = "woken" /\ TryAdmit(r, req[r].reserve)
\* admit: its deadline, or its caller gone; a slot freed just then may go unread.
GiveUp(r) ==
    /\ req[r].at \in {"waiting", "woken"}
    /\ req' = [req EXCEPT ![r].at = "refused"]
    /\ UNCHANGED <<clock, pods, hour, reserved, lastSweep, billed>>

(***************************************************************************)
(* The answer                                                              *)
(***************************************************************************)
Bound(q) == IF q.reserve = 0 THEN Overrun ELSE q.reserve
\* The upstream works on the answer.
Generate(r) ==
    /\ req[r].at = "sent" /\ req[r].used < Bound(req[r])
    /\ req' = [req EXCEPT ![r].used = @ + 1]
    /\ UNCHANGED <<clock, pods, hour, reserved, lastSweep, billed>>

\* add
Bucket(n) ==
    LET i == clock % Window
    IN  [hour EXCEPT ![i] = [minute |-> clock, sum |-> n + IF @.minute = clock THEN @.sum ELSE 0]]

\* chargeLocked: the request has now been charged total.
Charge(r, total, state) ==
    LET p == req[r].pod
        n == total - req[r].seen
    IN  /\ req' = [req EXCEPT ![r].seen = total, ![r].at = state]
        /\ pods' = [pods EXCEPT ![p].spent = @ + n, ![p].seen = clock]
        /\ hour' = IF n > 0 THEN Bucket(n) ELSE hour
        /\ billed' = [billed EXCEPT ![clock] = @ + n]
        /\ UNCHANGED <<clock, reserved, lastSweep>>

\* The stream reports its usage so far.
Report(r) ==
    /\ req[r].at = "sent" /\ req[r].used > req[r].seen
    /\ Charge(r, req[r].used, "sent")
\* The answer ends, its usage final.
Complete(r) == req[r].at = "sent" /\ Charge(r, req[r].used, "charged")
\* shortfall; with no output bound, what has streamed, taken as exact.
WorstCase(q) == IF q.reserve = 0 THEN q.used ELSE IF q.seen < q.reserve THEN q.reserve ELSE q.seen
\* The answer is cut short, its usage unknown.
CutShort(r) == req[r].at = "sent" /\ Charge(r, WorstCase(req[r]), "charged")
\* The upstream answered nothing but an error.
UpstreamFails(r) ==
    /\ req[r].at = "sent" /\ req[r].used = 0
    /\ Charge(r, req[r].seen, "charged")

\* release, its pod's waiters woken.
Woken_One(p) == LET w == {q \in Requests : req[q].pod = p /\ req[q].at = "waiting"}
                IN  IF w = {} THEN {} ELSE {CHOOSE q \in w : TRUE}
Woken(p) == {q \in Requests : req[q].pod = p /\ req[q].at = "waiting"}
ReleaseAt_Sent == Holding
ReleaseAt == {"charged"}
Release(r) ==
    LET p == req[r].pod
        n == req[r].reserve
    IN  /\ req[r].at \in ReleaseAt
        /\ pods' = [pods EXCEPT ![p].inflight = @ - 1, ![p].reserved = @ - n, ![p].seen = clock]
        /\ reserved' = reserved - n
        /\ req' = [q \in Requests |-> IF q = r THEN [req[q] EXCEPT !.at = "done"]
                                      ELSE IF q \in Woken(p) THEN [req[q] EXCEPT !.at = "woken"] ELSE req[q]]
        /\ UNCHANGED <<clock, hour, lastSweep, billed>>

Tick ==
    /\ clock < MaxMinute /\ clock' = clock + 1
    /\ UNCHANGED <<pods, hour, reserved, lastSweep, req, billed>>

LedgerNext ==
    \/ \E r \in Requests :
          \/ Arrive(r) \/ Retry(r) \/ GiveUp(r)
          \/ Generate(r) \/ Report(r) \/ Complete(r) \/ CutShort(r) \/ UpstreamFails(r) \/ Release(r)
    \/ Tick
LedgerSpec == LedgerInit /\ [][LedgerNext]_ledgerVars

(***************************************************************************)
(* Properties                                                              *)
(***************************************************************************)
\* A pod never has more requests in flight than the cap (tryAdmit).
InFlightCapped == Cap > 0 => \A p \in Pods : Cardinality(InFlight(p)) <= Cap

\* No request sleeps while its pod has a free slot (release, freed).
NoLostWakeup == \A r \in Requests : req[r].at = "waiting" => Full(pods[req[r].pod])

\* What a pod had the models do stays within its limit, however its requests
\* overlap or are cut; those with no bound may overrun it once (tryAdmit).
Used(p) == MapThenSumSet(LAMBDA r : req[r].used, {r \in Requests : req[r].pod = p})
PodBounded == \A p \in Pods : Used(p) <= PodLimit + (Cap * Overrun)

\* The charges of any trailing hour, all pods together, stay within its limit.
Trailing == MapThenSumSet(LAMBDA m : billed[m], {m \in DOMAIN billed : m <= clock /\ clock - m < Window})
HourBounded == Trailing <= HourLimit + (Cardinality(Pods) * Cap * Overrun)

\* The minute buckets sum to what was charged in the hour (hourWindow).
WindowTrue == HourSum(hour, clock) = Trailing

\* The counters hold what the requests in flight reserved, and nothing leaks,
\* whatever the sweep evicts (release, sweepLocked).
ReservedBy(S) == MapThenSumSet(LAMBDA r : req[r].reserve, S)
ReservationsTrue ==
    /\ \A p \in Pods : pods[p].reserved = ReservedBy(InFlight(p)) /\ pods[p].inflight = Cardinality(InFlight(p))
    /\ reserved = ReservedBy({r \in Requests : req[r].at \in Holding})

\* A request is charged all it had the model do, cut short or not (shortfall).
ChargedWhole == \A r \in Requests : req[r].at \in {"charged", "done"} => req[r].seen >= req[r].used
=============================================================================
