------------------------------- MODULE Deliveries -------------------------------
(***************************************************************************)
(* The webhook receiver of integration-controller (internal/webhook) and   *)
(* the sweep of the App's delivery log (redeliver.go).  A delivery is      *)
(* answered before it is handled: it is remembered by its GUID, queued for *)
(* the workers and answered 202, or, the queue full, forgotten again and   *)
(* answered 503.  GitHub logs what it was answered and never tries again;  *)
(* the sweep asks for every GUID whose attempts all failed.                *)
(***************************************************************************)
EXTENDS Integers, Sequences, FiniteSets, SequencesExt

CONSTANTS
    GUIDs,
    QueueSize, Workers,
    Cap,             \* GUIDs remembered
    maxAttempts,     \* attempts after which the sweep gives a delivery up
    MaxSends,        \* bound: attempts in all
    MaxBursts,       \* bound: duplicates GitHub submits itself
    MaxTimeouts,     \* bound: answers that come too late for GitHub
    MaxStops,        \* bound: shutdowns of the receiver
    MaxCrashes,      \* bound: kills of the receiver
    MaxExpiries,     \* bound: remembered GUIDs that outlive their TTL
    MaxReplays       \* bound: replays asked for

DeliveriesAssumption ==
    /\ {QueueSize, Workers, Cap, maxAttempts} \subseteq Nat \ {0}
    /\ {MaxSends, MaxBursts, MaxTimeouts, MaxStops, MaxCrashes, MaxExpiries, MaxReplays} \subseteq Nat

VARIABLES
    attempts,  \* GitHub's attempts, oldest first: what it was answered, how far the receiver is
    server,    \* "up", "draining" or "down"
    seen,      \* the GUIDs remembered: TRUE once past their TTL
    order,     \* the ring of GUIDs
    next,      \* its next slot
    queue,
    handling,  \* GUIDs the workers are at
    handled,   \* how often each GUID was handled
    sweep,     \* attempts a sweep is still to ask for
    recent,    \* the GUIDs remembered, in the order they were
    forgot,    \* the GUIDs that expired, were evicted or were dropped
    loose,     \* history: GUIDs answered 202 on a request not queued yet, or lost by a kill
    used       \* the bounds used up

vars == <<attempts, server, seen, order, next, queue, handling, handled, sweep, recent, forgot, loose, used>>
Dedup == <<seen, order, next, recent, forgot>>
Pool == <<queue, handling, handled, loose>>

Limit == [burst |-> MaxBursts, timeout |-> MaxTimeouts, stop |-> MaxStops, crash |-> MaxCrashes,
          expiry |-> MaxExpiries, replay |-> MaxReplays]
Use(b) == used[b] < Limit[b] /\ used' = [used EXCEPT ![b] = @ + 1]
Count(s, d) == Cardinality({i \in DOMAIN s : s[i] = d})

TypeOK ==
    /\ Len(attempts) <= MaxSends /\ \A i \in DOMAIN attempts :
           attempts[i] \in [guid: GUIDs, answer: {"none", "ok", "failed"}, at: {"sent", "queuing", "over"}]
    /\ server \in {"up", "draining", "down"} /\ next \in 1..Cap
    /\ order \in [1..Cap -> GUIDs \cup {""}]
    /\ DOMAIN seen \subseteq GUIDs /\ Cardinality(DOMAIN seen) <= Cap
    /\ queue \in Seq(GUIDs) /\ Len(queue) <= QueueSize /\ Len(handling) <= Workers
    /\ handled \in [GUIDs -> Nat] /\ forgot \cup loose \subseteq GUIDs /\ sweep \subseteq DOMAIN attempts

Forgotten == [d \in {} |-> FALSE]
Init ==
    /\ attempts = <<>> /\ server = "up" /\ seen = Forgotten /\ order = [i \in 1..Cap |-> ""] /\ next = 1
    /\ queue = <<>> /\ handling = <<>> /\ handled = [d \in GUIDs |-> 0]
    /\ sweep = {} /\ recent = <<>> /\ forgot = {} /\ loose = {} /\ used = [b \in DOMAIN Limit |-> 0]
----------------------------------------------------------------------------
(* The receiver *)
\* What GitHub takes for the answer: nothing that comes after its timeout.
Answer(i, a, at) ==
    attempts' = [attempts EXCEPT ![i].at = at, ![i].answer = IF @ = "none" THEN a ELSE @]

\* dedup.add of a new GUID: it takes the oldest slot of the ring.
Remember(d) ==
    LET kept == (DOMAIN seen \ {order[next]}) \cup {d} IN
    /\ seen' = [e \in kept |-> IF e = d THEN FALSE ELSE seen[e]]
    /\ order' = [order EXCEPT ![next] = d] /\ next' = (next % Cap) + 1
    /\ recent' = Append(recent, d) /\ forgot' = forgot \cup (DOMAIN seen \ kept)

Fresh(d) == d \in DOMAIN seen /\ ~seen[d]
Queuing(d) == \E i \in DOMAIN attempts : attempts[i].guid = d /\ attempts[i].at = "queuing"

\* receiver, to the dedup: a fresh duplicate is answered 202, an expired one refreshed.
Receive(i) ==
    /\ attempts[i].at = "sent" /\ server = "up"
    /\ LET d == attempts[i].guid IN
       IF Fresh(d) THEN Answer(i, "ok", "over") /\ UNCHANGED Dedup
       ELSE /\ Answer(i, "none", "queuing")
            /\ IF d \in DOMAIN seen THEN seen' = [seen EXCEPT ![d] = FALSE] /\ UNCHANGED <<order, next, recent, forgot>>
               ELSE Remember(d)
    /\ loose' = IF Fresh(attempts[i].guid) /\ Queuing(attempts[i].guid) THEN loose \cup {attempts[i].guid} ELSE loose
    /\ UNCHANGED <<queue, handling, handled, server, sweep, used>>

\* Mutant: a delivery refused for a full queue stays remembered.
Forget_Not(d) == UNCHANGED Dedup

\* dedup.remove: the ring keeps its slot.
Forget(d) ==
    /\ seen' = [e \in DOMAIN seen \ {d} |-> seen[e]]
    /\ recent' = SelectSeq(recent, LAMBDA e : e # d) /\ UNCHANGED <<order, next, forgot>>

\* receiver, from the dedup on.
Enqueue(i) ==
    /\ attempts[i].at = "queuing" /\ server # "down"
    /\ IF Len(queue) < QueueSize
       THEN /\ queue' = Append(queue, attempts[i].guid) /\ loose' = loose \ {attempts[i].guid}
            /\ Answer(i, "ok", "over") /\ UNCHANGED Dedup
       ELSE Forget(attempts[i].guid) /\ Answer(i, "failed", "over") /\ UNCHANGED <<queue, loose>>
    /\ UNCHANGED <<server, handling, handled, sweep, used>>

Take ==
    /\ server # "down" /\ queue # <<>> /\ Len(handling) < Workers
    /\ handling' = Append(handling, Head(queue)) /\ queue' = Tail(queue)
    /\ UNCHANGED <<attempts, server, handled, loose, sweep, used>> /\ UNCHANGED Dedup

\* dispatch: an error is recorded, and not tried again.
Dispatch ==
    /\ handling # <<>> /\ handled' = [handled EXCEPT ![Head(handling)] = @ + 1] /\ handling' = Tail(handling)
    /\ UNCHANGED <<attempts, server, queue, loose, sweep, used>> /\ UNCHANGED Dedup

\* Minutes: far longer than a request takes to be queued.
Expire(d) ==
    /\ ~Queuing(d) /\ Fresh(d) /\ Use("expiry") /\ seen' = [seen EXCEPT ![d] = TRUE]
    /\ forgot' = forgot \cup {d}
    /\ UNCHANGED <<attempts, server, order, next, recent, sweep>> /\ UNCHANGED Pool

\* Serve: the listener stops, what it took is queued, the queue is drained.
Stop == server = "up" /\ Use("stop") /\ server' = "draining" /\ UNCHANGED <<attempts, sweep>>
        /\ UNCHANGED Dedup /\ UNCHANGED Pool

Emptied ==
    /\ seen' = Forgotten /\ order' = [i \in 1..Cap |-> ""] /\ next' = 1
    /\ recent' = <<>> /\ forgot' = forgot \cup DOMAIN seen

Drained == queue = <<>> /\ handling = <<>> /\ \A i \in DOMAIN attempts : attempts[i].at # "queuing"

Exit ==
    /\ server = "draining" /\ Drained /\ server' = "down" /\ Emptied
    /\ queue' = <<>> /\ handling' = <<>> /\ sweep' = {} /\ UNCHANGED <<attempts, handled, loose, used>>

Crash ==
    /\ server # "down" /\ Use("crash") /\ server' = "down" /\ Emptied
    /\ queue' = <<>> /\ handling' = <<>> /\ sweep' = {} /\ UNCHANGED handled
    /\ loose' = loose \cup Range(queue) \cup Range(handling)
    /\ attempts' = [i \in DOMAIN attempts |->
         IF attempts[i].at = "queuing" THEN [attempts[i] EXCEPT !.at = "over", !.answer = IF @ = "none" THEN "failed" ELSE @]
         ELSE attempts[i]]

Start == server = "down" /\ server' = "up" /\ UNCHANGED <<attempts, sweep, used>> /\ UNCHANGED Dedup /\ UNCHANGED Pool
----------------------------------------------------------------------------
(* GitHub *)
Attempt(d) ==
    /\ Len(attempts) < MaxSends
    /\ attempts' = Append(attempts, [guid |-> d, answer |-> "none", at |-> "sent"])
Sent(d) == \E i \in DOMAIN attempts : attempts[i].guid = d
Outside == UNCHANGED server /\ UNCHANGED Dedup /\ UNCHANGED Pool

Deliver(d) == ~Sent(d) /\ Attempt(d) /\ UNCHANGED <<sweep, used>> /\ Outside
Burst(d) == Sent(d) /\ Use("burst") /\ Attempt(d) /\ UNCHANGED sweep /\ Outside

\* No answer in time: what the receiver does with the attempt goes on.
Timeout(i) ==
    /\ attempts[i].answer = "none" /\ Use("timeout")
    /\ attempts' = [attempts EXCEPT ![i].answer = "failed"] /\ UNCHANGED sweep /\ Outside

Refused(i) ==
    /\ attempts[i].at = "sent" /\ server # "up" /\ Answer(i, "failed", "over")
    /\ UNCHANGED <<sweep, used>> /\ Outside
----------------------------------------------------------------------------
(* The sweep *)
Logged(d) == {i \in DOMAIN attempts : attempts[i].guid = d /\ attempts[i].answer # "none"}
Newest(S) == CHOOSE i \in S : \A j \in S : j <= i

\* Mutant: the attempt about to be made is counted too.
Given_Early(d) == Cardinality(Logged(d)) + 1 >= maxAttempts
Given(d) == Cardinality(Logged(d)) >= maxAttempts

\* pickRedeliveries, pickReplays: the newest attempt of each GUID.
pickRedeliveries ==
    {Newest(Logged(d)) : d \in {e \in GUIDs : /\ Logged(e) # {} /\ ~Given(e)
                                              /\ \A i \in Logged(e) : attempts[i].answer = "failed"}}
pickReplays == {Newest(Logged(d)) : d \in {e \in GUIDs : Logged(e) # {}}}

\* The interval (10 minutes) is longer than GitHub waits for an answer (10 seconds).
Sweep ==
    /\ sweep = {} /\ server = "up" /\ \A i \in DOMAIN attempts : attempts[i].answer # "none"
    /\ pickRedeliveries # {} /\ sweep' = pickRedeliveries
    /\ UNCHANGED <<attempts, used>> /\ Outside

\* A replay drops the dedup window first.
Replay ==
    /\ sweep = {} /\ server = "up" /\ Use("replay") /\ Emptied /\ sweep' = pickReplays
    /\ UNCHANGED <<attempts, server>> /\ UNCHANGED Pool

Redeliver(i) ==
    /\ i \in sweep /\ Attempt(attempts[i].guid) /\ sweep' = sweep \ {i} /\ UNCHANGED used /\ Outside

Receiving(i) == Receive(i) \/ Enqueue(i) \/ Refused(i)
Working == Take \/ Dispatch \/ Exit \/ Start \/ Sweep \/ (\E i \in sweep : Redeliver(i))

Next ==
    \/ Working \/ Stop \/ Crash \/ Replay
    \/ \E i \in DOMAIN attempts : Receiving(i) \/ Timeout(i)
    \/ \E d \in GUIDs : Deliver(d) \/ Burst(d) \/ Expire(d)

Spec == Init /\ [][Next]_vars

\* Requests are answered, workers and sweeps run, and a stopped receiver is restarted.
FairSpec ==
    /\ Spec /\ WF_vars(Take) /\ WF_vars(Dispatch) /\ WF_vars(Exit) /\ WF_vars(Start) /\ WF_vars(Sweep)
    /\ WF_vars(\E i \in sweep : Redeliver(i))
    /\ \A i \in 1..MaxSends : WF_vars(i \in DOMAIN attempts /\ Receiving(i))
----------------------------------------------------------------------------
Assured(d) == handled[d] > 0 \/ Count(queue, d) > 0 \/ Count(handling, d) > 0 \/ Queuing(d)

(* "No delivery is dropped between a 202 and its handling" (webhook.go:187-189). *)
NoneDropped == \A i \in DOMAIN attempts : attempts[i].answer = "ok" => Assured(attempts[i].guid)

(* A GUID GitHub was answered 202 for, and will not send again, was        *)
(* handled, or is on its way to be: but for one answered as the duplicate  *)
(* of a request that had not been queued yet, and is then refused, and     *)
(* what a kill takes with the queue.                                       *)
AnsweredIsHandled ==
    \A i \in DOMAIN attempts : attempts[i].answer = "ok" => Assured(attempts[i].guid) \/ attempts[i].guid \in loose

(* A GUID is handled once, unless the receiver forgot it: its TTL passed,  *)
(* it was evicted, or the process restarted.                               *)
HandledOnce ==
    \A d \in GUIDs : handled[d] + Count(queue, d) + Count(handling, d) > 1 => d \in forgot

(* "The last 1024 delivery IDs are deduplicated".                          *)
LastRemembered ==
    \A i \in DOMAIN recent : i + Cap > Len(recent) => recent[i] \in DOMAIN seen

(* "Losing a delivery is not losing work": one refused while the receiver  *)
(* was down, or its queue full, is handled in the end.                     *)
EventuallyHandled == \A d \in GUIDs : Sent(d) ~> handled[d] > 0
=============================================================================
