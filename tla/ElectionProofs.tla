--------------------------- MODULE ElectionProofs ---------------------------
(***************************************************************************)
(* What TLAPS proves of Election for any number of terms and of changes of *)
(* the lease: the channel that OnStoppedLeading closes is the one that     *)
(* OnStartedLeading of the same term has made, as long as the latter is    *)
(* through when the renewal fails (PromptStart).                           *)
(***************************************************************************)
EXTENDS Election, FiniteSetTheorems, TLAPS

(* The term is over: its channel was closed. *)
Over == {"next", "unset", "report", "done"}

(* How far OnStartedLeading may be, given where Run is. *)
StartedFollowsRun ==
  \A t \in Terms :
    /\ run[t] \in {"none", "acquire"} <=> started[t] = "none"
    /\ run[t] \in Over \cup {"close"} => started[t] = "done" /\ t < MaxTerms

(* The variable stopCh holds the channel of the term under way from        *)
(* MakeStopCh on, and the closed channels are those of the terms over.     *)
ChannelOfTerm ==
  /\ \A t \in Terms :
       run[t] \in {"renew", "close"} /\ started[t] \in {"poll", "set", "report", "done"} => stopCh = t
  /\ \A t \in Terms : t \in closed <=> run[t] \in Over

(* A poll belongs to a term that was led. *)
PollerOfTerm == \A t \in Terms : poller[t] # "off" => started[t] \in {"set", "report", "done"}

ElectionInv == TypeOK /\ NoPanic /\ StartedFollowsRun /\ ChannelOfTerm /\ PollerOfTerm

(* The first term is waiting for the lease and nothing else has begun. *)
LEMMA ElectionInitially == Init => ElectionInv
<1>. SUFFICES ASSUME Init PROVE ElectionInv
  OBVIOUS
<1>1. TypeOK
  <2>1. {currentLeader, gauge, panicked} \subseteq BOOLEAN
    BY DEF Init
  <2>2. stopCh \in 0 .. MaxTerms /\ leases \in 0 .. MaxLeases /\ closed \subseteq Terms
    BY ElectionAssumption DEF Init
  <2>3. lease \in {"free", "me", "other"}
    BY DEF Init
  <2>4. /\ run \in [Terms -> RunStates]
        /\ started \in [Terms -> StartedStates]
        /\ poller \in [Terms -> {"off", "on", "pass", "ended"}]
    BY DEF Init, RunStates, StartedStates
  <2>5. \A t, u \in Terms : t < u /\ run[u] # "none" => run[t] \in {"unset", "report", "done"}
    BY ElectionAssumption DEF Init, Terms
  <2>. QED  BY <2>1, <2>2, <2>3, <2>4, <2>5 DEF TypeOK
<1>2. NoPanic
  BY DEF Init, NoPanic
<1>3. StartedFollowsRun /\ ChannelOfTerm /\ PollerOfTerm
  BY DEF Init, StartedFollowsRun, ChannelOfTerm, PollerOfTerm, Over
<1>. QED  BY <1>1, <1>2, <1>3 DEF ElectionInv

(* Only the lease changes hands. *)
LEMMA LeaseKeeps ==
  ASSUME ElectionInv, LeaseExpires \/ OtherAcquires
  PROVE  ElectionInv'
  BY ElectionAssumption
  DEF LeaseExpires, OtherAcquires, ElectionInv, TypeOK, NoPanic, StartedFollowsRun,
      ChannelOfTerm, PollerOfTerm

(* The goroutine of elector.Run keeps the invariant: the term whose        *)
(* OnStoppedLeading runs is the one that made the channel.                 *)
LEMMA RunKeeps ==
  ASSUME PromptStart, ElectionInv, NEW t \in Terms, RunStep(t) \/ RenewFails(t)
  PROVE  ElectionInv'
<1>. USE ElectionAssumption DEF Terms, Over
<1>1. CASE Acquire(t)
  BY <1>1 DEF Acquire, ElectionInv, TypeOK, NoPanic, StartedFollowsRun, ChannelOfTerm,
              PollerOfTerm, RunStates, StartedStates
<1>2. CASE RenewFails(t)
  BY <1>2 DEF RenewFails, ElectionInv, TypeOK, NoPanic, StartedFollowsRun, ChannelOfTerm,
              PollerOfTerm, RunStates
<1>3. CASE CloseStopCh(t)
  <2>1. stopCh = t /\ t \notin closed
    BY <1>3 DEF CloseStopCh, ElectionInv, StartedFollowsRun, ChannelOfTerm
  <2>. QED
    BY <1>3, <2>1 DEF CloseStopCh, ElectionInv, TypeOK, NoPanic, StartedFollowsRun,
                      ChannelOfTerm, PollerOfTerm, RunStates
<1>4. CASE NewLeaderCtx(t)
  <2>1. t + 1 \in Terms /\ run[t + 1] = "none"
    BY <1>4 DEF NewLeaderCtx, ElectionInv, TypeOK, StartedFollowsRun
  <2>. QED
    BY <1>4, <2>1 DEF NewLeaderCtx, ElectionInv, TypeOK, NoPanic, StartedFollowsRun,
                      ChannelOfTerm, PollerOfTerm, RunStates
<1>5. CASE UnsetLeader(t)
  BY <1>5 DEF UnsetLeader, ElectionInv, TypeOK, NoPanic, StartedFollowsRun, ChannelOfTerm,
              PollerOfTerm, RunStates
<1>6. CASE ReportFollower(t)
  BY <1>6 DEF ReportFollower, ElectionInv, TypeOK, NoPanic, StartedFollowsRun, ChannelOfTerm,
              PollerOfTerm, RunStates
<1>. QED  BY <1>1, <1>2, <1>3, <1>4, <1>5, <1>6 DEF RunStep

(* So does the goroutine of OnStartedLeading: no later term has begun. *)
LEMMA StartedKeeps ==
  ASSUME ElectionInv, NEW t \in Terms, StartedStep(t)
  PROVE  ElectionInv'
<1>. USE ElectionAssumption DEF Terms, Over
<1>1. run[t] = "renew"
  <2>1. started[t] \notin {"none", "done"}
    BY DEF StartedStep, MakeStopCh, RunStatusSync, SetLeader, ReportLeader
  <2>2. run[t] \in RunStates
    BY DEF ElectionInv, TypeOK
  <2>. QED  BY <2>1, <2>2 DEF ElectionInv, StartedFollowsRun, RunStates
<1>2. \A u \in Terms : u # t => run[u] \notin {"renew", "close"}
  BY <1>1 DEF ElectionInv, TypeOK
<1>3. CASE MakeStopCh(t)
  <2>1. TypeOK' /\ NoPanic'
    BY <1>3 DEF MakeStopCh, ElectionInv, TypeOK, NoPanic, StartedStates
  <2>2. StartedFollowsRun' /\ PollerOfTerm'
    BY <1>1, <1>3 DEF MakeStopCh, ElectionInv, TypeOK, StartedFollowsRun, PollerOfTerm
  <2>3. ChannelOfTerm'
    BY <1>2, <1>3 DEF MakeStopCh, ElectionInv, TypeOK, ChannelOfTerm
  <2>. QED  BY <2>1, <2>2, <2>3 DEF ElectionInv
<1>4. CASE RunStatusSync(t)
  <2>1. stopCh = t
    BY <1>1, <1>4 DEF RunStatusSync, ElectionInv, ChannelOfTerm
  <2>. QED
    BY <1>1, <1>4, <2>1 DEF RunStatusSync, ElectionInv, TypeOK, NoPanic, StartedFollowsRun,
                            ChannelOfTerm, PollerOfTerm, StartedStates
<1>5. CASE SetLeader(t)
  BY <1>1, <1>5 DEF SetLeader, ElectionInv, TypeOK, NoPanic, StartedFollowsRun,
                    ChannelOfTerm, PollerOfTerm, StartedStates
<1>6. CASE ReportLeader(t)
  BY <1>1, <1>6 DEF ReportLeader, ElectionInv, TypeOK, NoPanic, StartedFollowsRun,
                    ChannelOfTerm, PollerOfTerm, StartedStates
<1>. QED  BY <1>3, <1>4, <1>5, <1>6 DEF StartedStep

(* And so does a poll, whether its channel is closed or not. *)
LEMMA PollerKeeps ==
  ASSUME ElectionInv, NEW t \in Terms, PollStep(t)
  PROVE  ElectionInv'
  BY DEF PollStep, PollPass, PassEnds, PollerEnds, ElectionInv, TypeOK, NoPanic, StartedFollowsRun, ChannelOfTerm,
         PollerOfTerm

(* A step that changes nothing keeps the invariant. *)
LEMMA ElectionStutter == ElectionInv /\ UNCHANGED vars => ElectionInv'
  BY DEF vars, ElectionInv, TypeOK, NoPanic, StartedFollowsRun, ChannelOfTerm, PollerOfTerm

(* The invariant of the election holds in every reachable state. *)
LEMMA ElectionInvariant ==
  ASSUME PromptStart
  PROVE  Spec => []ElectionInv
<1>1. ElectionInv /\ [Next]_vars => ElectionInv'
  BY LeaseKeeps, RunKeeps, StartedKeeps, PollerKeeps, ElectionStutter DEF Next
<1>. QED  BY ElectionInitially, <1>1, PTL DEF Spec

(* close(stopCh) in OnStoppedLeading (status.go:59-71) meets neither a nil *)
(* nor a closed channel, however often the lease is lost and won again,    *)
(* provided OnStartedLeading is through before a renewal can fail.         *)
THEOREM ElectionNeverPanics ==
  ASSUME PromptStart
  PROVE  Spec => []NoPanic
<1>1. ElectionInv => NoPanic
  BY DEF ElectionInv
<1>. QED  BY ElectionInvariant, <1>1, PTL

(* The types, and with them that a term begins only once the term before   *)
(* it has closed its channel: OnStoppedLeading calls go newLeaderCtx       *)
(* (status.go) after close, in whatever order the callbacks then run.      *)
THEOREM ElectionTypes ==
  ASSUME PromptStart
  PROVE  Spec => []TypeOK
<1>1. ElectionInv => TypeOK
  BY DEF ElectionInv
<1>. QED  BY ElectionInvariant, <1>1, PTL

(* A term that polls has begun, so the channels of all earlier terms are   *)
(* closed (wls.go:176).                                                    *)
LEMMA OpenPollers == ElectionInv => OnePoller
<1>. SUFFICES ASSUME ElectionInv PROVE OnePoller
  OBVIOUS
<1>. DEFINE S == {t \in Terms : poller[t] \in {"on", "pass"} /\ t \notin closed}
<1>0. \A t, u \in Terms : t < u /\ poller[u] # "off" => t \in closed
  <2>. SUFFICES ASSUME NEW t \in Terms, NEW u \in Terms, t < u, poller[u] # "off"
                PROVE  t \in closed
    OBVIOUS
  <2>1. run[u] # "none"
    BY DEF ElectionInv, PollerOfTerm, StartedFollowsRun
  <2>. QED  BY <2>1 DEF ElectionInv, TypeOK, ChannelOfTerm, Over
<1>1. \A t, u \in S : t = u
  <2>. SUFFICES ASSUME NEW t \in S, NEW u \in S, t < u PROVE FALSE
    BY ElectionAssumption DEF Terms
  <2>. QED  BY <1>0
<1>2. CASE S = {}
  BY <1>0, <1>2, FS_EmptySet DEF OnePoller
<1>3. CASE S # {}
  <2>1. PICK x \in S : S = {x}
    BY <1>1, <1>3
  <2>. HIDE DEF S
  <2>2. Cardinality(S) = 1
    BY <2>1, FS_Singleton
  <2>. QED  BY <1>0, <2>2 DEF OnePoller, S
<1>. QED  BY <1>2, <1>3

(* For any number of terms, a status sync polls only once the channels of  *)
(* all earlier ones are closed, and at most one has an open channel; polls *)
(* of earlier terms may still be in a pass of theirs (OnlyLeaderPolls is   *)
(* not a theorem), which StickySessions' theorems allow for.               *)
THEOREM ElectionOnePoller ==
  ASSUME PromptStart
  PROVE  Spec => []OnePoller
<1>. QED  BY ElectionInvariant, OpenPollers, PTL
=============================================================================
