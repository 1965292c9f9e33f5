------------------------------ MODULE Election ------------------------------
(***************************************************************************)
(* setupLeaderElection (internal/ingress/controller/status.go) and the     *)
(* callbacks Start gives it (wls.go): the goroutines of one process around *)
(* the leader election of client-go, which share the variable stopCh and   *)
(* the flag currentLeader.                                                 *)
(*                                                                         *)
(* Term t is the t-th call of elector.Run.  LeaderElector.Run acquires the *)
(* lease, starts OnStartedLeading in a goroutine of its own, renews until  *)
(* that fails, and calls OnStoppedLeading before it returns.               *)
(***************************************************************************)
EXTENDS Integers, FiniteSets

CONSTANTS MaxTerms,    \* bound: calls of elector.Run
          MaxLeases,   \* bound: how often another process gets the lease
          PromptStart  \* OnStartedLeading is through before a renewal can fail

ASSUME ElectionAssumption ==
  MaxTerms \in Nat \ {0} /\ MaxLeases \in Nat /\ PromptStart \in BOOLEAN

Terms == 1 .. MaxTerms

VARIABLES lease,     \* who holds the lease: "free", "me" or "other"
          run,       \* the goroutine of elector.Run, per term
          started,   \* the goroutine of OnStartedLeading, per term
          poller,    \* the goroutine of statusSync.Run, per term: "pass" is the polled function
          stopCh,    \* the channel in the variable stopCh, by its term; 0 is nil
          closed,    \* the channels that are closed
          currentLeader,
          gauge,     \* leader_election_status
          panicked, leases

vars == <<lease, run, started, poller, stopCh, closed, currentLeader, gauge, panicked, leases>>

RunStates == {"none", "acquire", "renew", "close", "next", "unset", "report", "done"}
StartedStates == {"none", "make", "poll", "set", "report", "done"}

Init ==
  /\ lease = "free"
  /\ run = [t \in Terms |-> IF t = 1 THEN "acquire" ELSE "none"]
  /\ started = [t \in Terms |-> "none"]
  /\ poller = [t \in Terms |-> "off"]
  /\ stopCh = 0 /\ closed = {} /\ currentLeader = FALSE /\ gauge = FALSE
  /\ panicked = FALSE
  /\ leases = 0

---------------------------------------------------------------------------
(* The lease in the ConfigMap. *)

(* It expires, or another process takes it once it has. *)
LeaseExpires ==
  /\ lease # "free" /\ leases < MaxLeases
  /\ lease' = "free"
  /\ leases' = leases + 1
  /\ UNCHANGED <<run, started, poller, stopCh, closed, currentLeader, gauge, panicked>>

OtherAcquires ==
  /\ lease = "free" /\ leases < MaxLeases
  /\ lease' = "other"
  /\ leases' = leases + 1
  /\ UNCHANGED <<run, started, poller, stopCh, closed, currentLeader, gauge, panicked>>

(* acquire succeeds at once when the record still names this process. *)
Acquire(t) ==
  /\ ~panicked /\ run[t] = "acquire" /\ lease # "other"
  /\ lease' = "me"
  /\ run' = [run EXCEPT ![t] = "renew"]
  /\ started' = [started EXCEPT ![t] = "make"]
  /\ UNCHANGED <<poller, stopCh, closed, currentLeader, gauge, panicked, leases>>

(* Mutant of RenewFails: the next Run starts before OnStoppedLeading. *)
RenewFailsRestarts(t) ==
  /\ ~panicked /\ run[t] = "renew" /\ t < MaxTerms
  /\ PromptStart => started[t] = "done"
  /\ run' = [run EXCEPT ![t] = "close", ![t + 1] = "acquire"]
  /\ UNCHANGED <<lease, started, poller, stopCh, closed, currentLeader, gauge, panicked, leases>>

(* The renewal fails for RenewDeadline: the lease is lost, or the API      *)
(* server could not be reached and the record still names this process.    *)
RenewFails(t) ==
  /\ ~panicked /\ run[t] = "renew" /\ t < MaxTerms
  /\ PromptStart => started[t] = "done"
  /\ run' = [run EXCEPT ![t] = "close"]
  /\ UNCHANGED <<lease, started, poller, stopCh, closed, currentLeader, gauge, panicked, leases>>

---------------------------------------------------------------------------
(* OnStartedLeading *)

(* Mutant of MakeStopCh: a channel that is there is used again. *)
MakeStopChOnce(t) ==
  /\ ~panicked /\ started[t] = "make"
  /\ stopCh' = IF stopCh = 0 THEN t ELSE stopCh
  /\ started' = [started EXCEPT ![t] = "poll"]
  /\ UNCHANGED <<lease, run, poller, closed, currentLeader, gauge, panicked, leases>>

MakeStopCh(t) ==
  /\ ~panicked /\ started[t] = "make"
  /\ stopCh' = t
  /\ started' = [started EXCEPT ![t] = "poll"]
  /\ UNCHANGED <<lease, run, poller, closed, currentLeader, gauge, panicked, leases>>

(* Mutant of RunStatusSync: the status sync is only started once. *)
RunStatusSyncOnce(t) ==
  /\ ~panicked /\ started[t] = "poll"
  /\ poller' = IF \A u \in Terms : poller[u] = "off"
               THEN [poller EXCEPT ![stopCh] = "on"] ELSE poller
  /\ started' = [started EXCEPT ![t] = "set"]
  /\ UNCHANGED <<lease, run, stopCh, closed, currentLeader, gauge, panicked, leases>>

(* go n.syncStatus.Run(stopCh) *)
RunStatusSync(t) ==
  /\ ~panicked /\ started[t] = "poll"
  /\ poller' = [poller EXCEPT ![stopCh] = "on"]
  /\ started' = [started EXCEPT ![t] = "set"]
  /\ UNCHANGED <<lease, run, stopCh, closed, currentLeader, gauge, panicked, leases>>

(* n.setLeader(true) *)
SetLeader(t) ==
  /\ ~panicked /\ started[t] = "set"
  /\ currentLeader' = TRUE
  /\ started' = [started EXCEPT ![t] = "report"]
  /\ UNCHANGED <<lease, run, poller, stopCh, closed, gauge, panicked, leases>>

(* n.metricCollector.OnStartedLeading *)
ReportLeader(t) ==
  /\ ~panicked /\ started[t] = "report"
  /\ gauge' = TRUE
  /\ started' = [started EXCEPT ![t] = "done"]
  /\ UNCHANGED <<lease, run, poller, stopCh, closed, currentLeader, panicked, leases>>

---------------------------------------------------------------------------
(* OnStoppedLeading *)

(* Mutant of CloseStopCh: the channel stays open. *)
DropStopCh(t) ==
  /\ ~panicked /\ run[t] = "close"
  /\ run' = [run EXCEPT ![t] = "next"]
  /\ UNCHANGED <<lease, started, poller, stopCh, closed, currentLeader, gauge, panicked, leases>>

(* close(stopCh) panics if it is nil or closed. *)
CloseStopCh(t) ==
  /\ ~panicked /\ run[t] = "close"
  /\ panicked' = (stopCh \in closed \cup {0})
  /\ closed' = closed \cup ({stopCh} \ {0})
  /\ run' = [run EXCEPT ![t] = "next"]
  /\ UNCHANGED <<lease, started, poller, stopCh, currentLeader, gauge, leases>>

(* cancelContext(), and newLeaderCtx starts the next Run. *)
NewLeaderCtx(t) ==
  /\ ~panicked /\ run[t] = "next"
  /\ run' = [run EXCEPT ![t] = "unset", ![t + 1] = "acquire"]
  /\ UNCHANGED <<lease, started, poller, stopCh, closed, currentLeader, gauge, panicked, leases>>

(* Mutant of UnsetLeader: the flag stays. *)
KeepLeader(t) ==
  /\ ~panicked /\ run[t] = "unset"
  /\ run' = [run EXCEPT ![t] = "report"]
  /\ UNCHANGED <<lease, started, poller, stopCh, closed, currentLeader, gauge, panicked, leases>>

(* n.setLeader(false) *)
UnsetLeader(t) ==
  /\ ~panicked /\ run[t] = "unset"
  /\ currentLeader' = FALSE
  /\ run' = [run EXCEPT ![t] = "report"]
  /\ UNCHANGED <<lease, started, poller, stopCh, closed, gauge, panicked, leases>>

(* n.metricCollector.OnStoppedLeading *)
ReportFollower(t) ==
  /\ ~panicked /\ run[t] = "report"
  /\ gauge' = FALSE
  /\ run' = [run EXCEPT ![t] = "done"]
  /\ UNCHANGED <<lease, started, poller, stopCh, closed, currentLeader, panicked, leases>>

---------------------------------------------------------------------------
(* The poll of a term: PollUntil only looks at its channel between two     *)
(* calls of the function, and may take the tick when both are ready.       *)

(* The function begins: it gets the active endpoints and calls Clean. *)
PollPass(t) ==
  /\ ~panicked /\ poller[t] = "on"
  /\ poller' = [poller EXCEPT ![t] = "pass"]
  /\ UNCHANGED <<lease, run, started, stopCh, closed, currentLeader, gauge, panicked, leases>>

PassEnds(t) ==
  /\ ~panicked /\ poller[t] = "pass"
  /\ poller' = [poller EXCEPT ![t] = "on"]
  /\ UNCHANGED <<lease, run, started, stopCh, closed, currentLeader, gauge, panicked, leases>>

(* PollUntil finds its channel closed. *)
PollerEnds(t) ==
  /\ ~panicked /\ poller[t] = "on" /\ t \in closed
  /\ poller' = [poller EXCEPT ![t] = "ended"]
  /\ UNCHANGED <<lease, run, started, stopCh, closed, currentLeader, gauge, panicked, leases>>

---------------------------------------------------------------------------
RunStep(t) == Acquire(t) \/ CloseStopCh(t) \/ NewLeaderCtx(t) \/ UnsetLeader(t) \/ ReportFollower(t)
StartedStep(t) == MakeStopCh(t) \/ RunStatusSync(t) \/ SetLeader(t) \/ ReportLeader(t)
PollStep(t) == PollPass(t) \/ PassEnds(t) \/ PollerEnds(t)

Next ==
  \/ LeaseExpires \/ OtherAcquires
  \/ \E t \in Terms : RunStep(t) \/ RenewFails(t) \/ StartedStep(t) \/ PollStep(t)

Spec == Init /\ [][Next]_vars

(* The goroutines run; nothing is assumed of the lease. *)
FairSpec ==
  /\ Spec
  /\ \A t \in Terms : WF_vars(RunStep(t)) /\ WF_vars(StartedStep(t)) /\ WF_vars(PollStep(t))

---------------------------------------------------------------------------
(* The process leads in term t: it renews, and it has the lease. *)
Leading(t) == run[t] = "renew" /\ lease = "me"

(* The types; a term only starts after the one before it gave up leading.  *)
TypeOK ==
  /\ lease \in {"free", "me", "other"}
  /\ run \in [Terms -> RunStates]
  /\ started \in [Terms -> StartedStates]
  /\ poller \in [Terms -> {"off", "on", "pass", "ended"}]
  /\ stopCh \in 0 .. MaxTerms /\ closed \subseteq Terms
  /\ {currentLeader, gauge, panicked} \subseteq BOOLEAN /\ leases \in 0 .. MaxLeases
  /\ \A t, u \in Terms : t < u /\ run[u] # "none" => run[t] \in {"unset", "report", "done"}

(* Whenever OnStoppedLeading runs, the variable stopCh holds the channel   *)
(* of the term that ends (status.go:59-71): no nil and no closed channel   *)
(* is ever closed, which would end the process.                            *)
NoPanic == ~panicked

(* Before the status sync of a term polls, those of all earlier terms were *)
(* told to stop (wls.go:176, status.go:104-113): one poll at most is on an *)
(* open channel.  The others are those that have not looked at theirs      *)
(* since, and they may be anywhere in a pass, beside that of the new term. *)
OnePoller ==
  /\ \A t, u \in Terms : t < u /\ poller[u] # "off" => t \in closed
  /\ Cardinality({t \in Terms : poller[t] \in {"on", "pass"} /\ t \notin closed}) <= 1

(* A lasting leader keeps its poll going. *)
LeaderPolls ==
  \A t \in Terms :
    <>[]Leading(t) => <>[](poller[t] \in {"on", "pass"} /\ t \notin closed)

(* A process that stops leading for good neither takes itself for the      *)
(* leader nor reports that it is (wls.go:182-185, controller.go:86-88).    *)
NonLeaderKnows ==
  <>[](\A t \in Terms : run[t] # "renew") => <>[](~currentLeader /\ ~gauge)

---------------------------------------------------------------------------
(* "if I'm the leader, clean up the entries in redis immediately"          *)
(* (wls.go:277): the flag OnUpdate looks at is set in a lasting leader.    *)
LeaderCleansOnUpdate == \A t \in Terms : <>[]Leading(t) => <>[]currentLeader

(* "this instance is the leader" whenever the polled function runs         *)
(* (status.go:102-103), so that one pass at most is under way.             *)
OnlyLeaderPolls == \A t \in Terms : poller[t] = "pass" => t \notin closed
=============================================================================
