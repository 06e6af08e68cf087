------------------------------ MODULE Cluster ------------------------------
(***************************************************************************)
(* The state the finding controllers share: the API server's Findings,      *)
(* Investigations and Remediations, the agent Jobs, and the forge's pull    *)
(* requests.  Every status write in the code re-reads the object and writes *)
(* it under optimistic concurrency, so each write is one atomic step here;  *)
(* the steps of one reconcile are separate, and a fault may drop the rest.  *)
(***************************************************************************)
EXTENDS FindingPhases

CONSTANTS Findings,       \* the findings' names
          MaxRuns,        \* bound: attempts a finding may reach, per kind
          MaxAttempts,    \* --max-attempts, for either kind
          DeclaresImage,  \* the findings whose repository declares a runner image
          MaxFaults       \* bound: reconciles cut short (API error or restart)

ASSUME MaxRunsAssumption == MaxRuns \in Nat \ {0}
ASSUME MaxAttemptsAssumption == MaxAttempts \in Nat \ {0}
ASSUME MaxFaultsAssumption == MaxFaults \in Nat
ASSUME DeclaresImageAssumption == DeclaresImage \subseteq Findings

VARIABLES fnd,      \* the Findings
          inv,      \* inv[f][n]: Investigation <f>-inv-<n>
          rem,      \* rem[f][n]: Remediation <f>-rem-<n>
          job,      \* job[k][f][n]: the agent Job of that run
          prs,      \* prs[f]: the pull requests opened from branch maul/<f>, by number
          breaker,  \* runnerguard.Breaker of each controller process, in memory
          faults    \* reconciles cut short so far

cluster == <<fnd, inv, rem, job, prs, breaker, faults>>

Kinds == {"inv", "rem"}
Attempts == 1..MaxRuns
NoRun == [kind |-> "none", n |-> 0]

\* The Finding's status and spec, beyond its lifecycle: the active run, the
\* attempt counters, whether an analysis is recorded, the recorded pull
\* request, a review close waiting to be settled and the tracking issue.
Finding == [phase : Phases \cup {Absent}, prior : Phases \cup {Absent},
            revived : BOOLEAN, approval : Stamps, retry : Stamps,
            suspend : BOOLEAN, activeRun : [kind : Kinds, n : Attempts] \cup {NoRun},
            attInv : 0..MaxRuns, attRem : 0..MaxRuns, analysis : BOOLEAN,
            pr : Nat, prState : {"none", "open", "closed", "merged"},
            closePending : {"none", "issue", "repo"}, tracking : {"open", "closed"}]

NewFinding == [phase |-> Absent, prior |-> Absent, revived |-> FALSE,
               approval |-> "none", retry |-> "none", suspend |-> FALSE,
               activeRun |-> NoRun, attInv |-> 0, attRem |-> 0, analysis |-> FALSE,
               pr |-> 0, prState |-> "none", closePending |-> "none", tracking |-> "open"]

\* An Investigation or Remediation: its phase, whether its JobRef is recorded,
\* whether the Job it records runs the repository's image, and the conditions
\* SandboxRefused and DefaultImageHeld.
Run == [phase : {"none", "Pending", "Running", "Complete", "Failed"}, jobRef : BOOLEAN,
        repoImage : BOOLEAN, refused : BOOLEAN, held : BOOLEAN]

NotCreated == [phase |-> "none", jobRef |-> FALSE, repoImage |-> FALSE,
               refused |-> FALSE, held |-> FALSE]

\* A Job: absent, running, gone (deleted, or its TTL took it), or how it ended.
JobStates == {"none", "running", "gone", "refused", "pullFailed", "bad",
              "ignore", "manual", "remediate", "hold", "unfixable", "fixed"}

Job == [state : JobStates, repoImage : BOOLEAN]

NoJob == [state |-> "none", repoImage |-> FALSE]

Settled(run) == run.phase \in {"Complete", "Failed"}
InFlight(run) == run.phase \in {"Pending", "Running"}

\* Finding f, written at status by a handler that leaves everything else alone.
WriteFinding(f, status) == fnd' = [fnd EXCEPT ![f] = status]

ClusterTypeOK ==
    /\ fnd \in [Findings -> Finding]
    /\ inv \in [Findings -> [Attempts -> Run]]
    /\ rem \in [Findings -> [Attempts -> Run]]
    /\ job \in [Kinds -> [Findings -> [Attempts -> Job]]]
    /\ prs \in [Findings -> Seq({"open", "closed", "merged"})]
    /\ breaker \in [Kinds -> BOOLEAN]
    /\ faults \in 0..MaxFaults

ClusterInit ==
    /\ fnd = [f \in Findings |-> NewFinding]
    /\ inv = [f \in Findings |-> [n \in Attempts |-> NotCreated]]
    /\ rem = [f \in Findings |-> [n \in Attempts |-> NotCreated]]
    /\ job = [k \in Kinds |-> [f \in Findings |-> [n \in Attempts |-> NoJob]]]
    /\ prs = [f \in Findings |-> <<>>]
    /\ breaker = [k \in Kinds |-> FALSE]
    /\ faults = 0

-----------------------------------------------------------------------------
(* Agent Jobs (external: the cluster runs the pod).                          *)

\* jobs.Client.Create adopts a Job that already exists: names are
\* deterministic per finding, kind and attempt.
CreateJob(k, f, n, repoImage) ==
    job' = IF job[k][f][n].state \in {"none", "gone"}
           THEN [job EXCEPT ![k][f][n] = [state |-> "running", repoImage |-> repoImage]]
           ELSE job

\* Mutant of Pin: the breaker is never read.
Pin_NoBreaker(k, f) == f \in DeclaresImage /\ ~fnd[f].revived

\* runnerguard.Guard.Pin: may this launch run the repository's image?
Pin(k, f) == f \in DeclaresImage /\ ~breaker[k] /\ ~fnd[f].revived

InvEnds == {"bad", "ignore", "manual", "remediate", "hold"}
RemEnds == {"bad", "unfixable", "fixed"}

\* The agent ends.  Only a repository image can be refused by the sandbox
\* probe or fail its pull for good.
JobEnds(k, f, n) ==
    /\ job[k][f][n].state = "running"
    /\ \E end \in (IF k = "inv" THEN InvEnds ELSE RemEnds)
                    \cup (IF job[k][f][n].repoImage THEN {"refused", "pullFailed"} ELSE {}) :
           job' = [job EXCEPT ![k][f][n].state = end]
    /\ UNCHANGED <<fnd, inv, rem, prs, breaker, faults>>

\* The Job is deleted, or its TTL expires, before its result is collected
\* (afterwards nobody looks at it again).
JobVanishes(k, f, n) ==
    /\ job[k][f][n].state \notin {"none", "gone"}
    /\ ~Settled((IF k = "inv" THEN inv ELSE rem)[f][n])
    /\ job' = [job EXCEPT ![k][f][n].state = "gone"]
    /\ UNCHANGED <<fnd, inv, rem, prs, breaker, faults>>
=============================================================================
