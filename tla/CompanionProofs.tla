-------------------------- MODULE CompanionProofs --------------------------
(***************************************************************************)
(* What holds of the running service on a good day, for any number of      *)
(* recoveries, any budget, with and without a MAC.                         *)
(***************************************************************************)
EXTENDS Companion, DaemonProofs

(* Which events and calls belong to which trigger, and what the desktop    *)
(* and the machine are doing meanwhile.                                    *)
Triggered ==
    /\ dpms \in {"On", "Off"} /\ stable \in {"On", "Off"}
    /\ pc[Poller] \in {"idle", "BLANK", "UNBLANK", "blank", "ensure"}
    /\ pc[Poller] \in {"BLANK", "blank"} => dpms = "Off" /\ stable = "Off"
    /\ pc[Poller] \in {"UNBLANK", "ensure"} => dpms = "On" /\ stable = "On"
    /\ \/ machine = "up"       /\ pc[Logind] \in {"idle", "RESUME"}
       \/ machine = "sleeping" /\ pc[Logind] \in {"idle", "SUSPEND", "down"}
       \/ machine = "asleep"   /\ pc[Logind] = "idle"

(* The recovery that _recovery names was not cancelled.                    *)
Uncancelled == recovery \notin cancelled /\ \A r \in cancelled : Live(r)

(* What is under way was asked by the event handled last.                  *)
Wished ==
    /\ wish \in Events
    /\ pc[Poller] = "blank" => wish = "BLANK"
    /\ pc[Poller] = "ensure" => wish = "UNBLANK"
    /\ pc[Logind] = "down" => wish = "SUSPEND"
    /\ ~ NoneAlive => wish \in {"UNBLANK", "RESUME"}

(* The panel is lit when the state says so, and when a recovery has        *)
(* reached the TV and waits to settle, or settles.                         *)
LitOn      == state = "ON" => tv = "lit"
LitReached == \A r \in Recs \ cancelled : rpc[r] \in {"lock", "settle"} => tv = "lit"

(* A recovery that turns the panel off again does so for a desktop that is *)
(* off, or whose unblank comes after it.                                   *)
SettlesOff ==
    \A r \in Recs \ cancelled : rpc[r] = "settle" =>
        dpms = "Off" \/ stable = "Off" \/ pc[Poller] = "UNBLANK"

(* While the state does not fit the desktop, somebody is about to see to   *)
(* it.                                                                     *)
WillLight ==
    dpms = "On" /\ machine = "up" /\ state # "ON" =>
        \/ stable = "Off" \/ pc[Poller] \in {"UNBLANK", "ensure"}
        \/ pc[Logind] = "RESUME" \/ ~ NoneAlive
WillDarken ==
    dpms = "Off" /\ state = "ON" =>
        \/ stable = "On" \/ pc[Poller] \in {"BLANK", "blank"}
        \/ pc[Logind] = "down" \/ ~ NoneAlive

GoodDay ==
    /\ ~ swallowed
    /\ Triggered /\ Uncancelled /\ Wished
    /\ LitOn /\ LitReached /\ SettlesOff /\ WillLight /\ WillDarken

-----------------------------------------------------------------------------
(* The service is a daemon: each of its steps is one of Daemon, or leaves  *)
(* the daemon alone, and loses no cancel.                                  *)
LEMMA DaemonSteps ==
    ASSUME [CompanionNext]_allvars
    PROVE  [Next]_vars /\ swallowed' = swallowed
<1>p. Poller \in Slots /\ Logind \in Slots
    BY CompanionAssumption
<1>e. \A old, cur : Drm!Reaction(old, cur) = Drm!NoEvent \/ Drm!Reaction(old, cur) \in Events
  <2> SUFFICES ASSUME NEW old, NEW cur
               PROVE  Drm!Reaction(old, cur) \in {Drm!NoEvent, "BLANK", "UNBLANK"}
    BY DEF Events
  <2> QED
    BY Zenon DEF Drm!Reaction
<1>1. ASSUME NEW t \in Slots, NEW event \in Events, Dispatch(t, event)
      PROVE  [Next]_vars /\ swallowed' = swallowed
    BY <1>1 DEF Next, Dispatch
<1>2. ASSUME NEW t \in Slots, Handle(t)
      PROVE  [Next]_vars /\ swallowed' = swallowed
    BY <1>2 DEF Next, Handle, OnBlank, OnUnblank, OnSuspend, OnShutdown, PowerDown, OnResume
<1>3. ASSUME NEW t \in Slots, Return(t)
      PROVE  [Next]_vars /\ swallowed' = swallowed
    BY <1>3 DEF Next, Return, BlankReturns, EnsureReturns, SettleReturns, DownReturns
<1>4. ASSUME NEW r \in Recs, Recovers(r)
      PROVE  [Next]_vars /\ swallowed' = swallowed
  <2>1. Recover(r) \/ Unwind(r)
    BY <1>4 DEF Recovers, Recover
  <2>2. swallowed' = swallowed
    BY <2>1 DEF Recover, Attempt, BurstSent, TornDown, GiveUp, ReachReturns, RecSettles,
       RecSettleReturns, Unwind
  <2> QED
    BY <2>1, <2>2 DEF Next
<1>5. CASE UNCHANGED vars
    BY <1>5 DEF vars
<1>6. CASE PollSamples
    BY <1>1, <1>5, <1>6, <1>e, <1>p DEF PollSamples
<1>7. CASE Suspends \/ WakesUp
    BY <1>1, <1>7, <1>p DEF Suspends, WakesUp, Events
<1>8. CASE DesktopSwitches \/ FallsAsleep
    BY <1>5, <1>8 DEF DesktopSwitches, FallsAsleep
<1>9. CASE Boots /\ UNCHANGED <<world, wish>>
    BY <1>9 DEF Boots, Next
<1> QED
    BY <1>2, <1>3, <1>4, <1>5, <1>6, <1>7, <1>8, <1>9
    DEF CompanionNext, Handles, DaemonStep, Acknowledged, allvars

(* Companion implements Daemon: putting one TV, one desktop and one        *)
(* machine around the daemon, and acknowledging its commands, adds no      *)
(* behaviour to it. All that DaemonProofs proves holds of the service as   *)
(* well.                                                                   *)
THEOREM Implements == CompanionSpec => Spec
<1>1. CompanionInit => Init
    BY DEF CompanionInit
<1>2. [CompanionNext]_allvars => [Next]_vars
    BY DaemonSteps
<1> QED
    BY <1>1, <1>2, PTL DEF CompanionSpec, Spec

-----------------------------------------------------------------------------
(* _cancel_recovery called by a handler: at most the panel lights up, by   *)
(* the recovery that is cancelled.                                         *)
LEMMA Cancels ==
    ASSUME TypeOK, LockHeld, Uncancelled, lock = Nobody, CancelRecovery
    PROVE  /\ \A r \in cancelled' : Live(r)
           /\ tv = "lit" => tv' = "lit"
           /\ tv' # tv => tv' = "lit" /\ ~ NoneAlive
<1>1. \A r \in Recs : rpc[r] # "settle"
    BY DaemonAssumption DEF LockHeld
<1>2. \A r \in cancelled' : Live(r)
    BY DEF CancelRecovery, Running, Uncancelled
<1>3. tv' \in IF Running /\ rpc[recovery] = "reach" THEN MaybeDone("lit") ELSE {tv}
    BY <1>1 DEF CancelRecovery, Running, TypeOK
<1>4. tv = "lit" => tv' = "lit"
    BY <1>3 DEF MaybeDone
<1>5. ASSUME tv' # tv PROVE tv' = "lit" /\ ~ NoneAlive
    BY <1>3, <1>5 DEF MaybeDone, NoneAlive, Running, Uncancelled, TypeOK
<1> QED
    BY <1>2, <1>4, <1>5

-----------------------------------------------------------------------------
(* A handler cancels the recovery and starts none: with it goes everything *)
(* that was under way.                                                     *)
LEMMA GoodCancel ==
    ASSUME IInv, IInv', GoodDay, ~ swallowed', NEW t \in Slots,
           CancelRecovery, recovery' = Nobody, lock = Nobody,
           UNCHANGED <<rpc, state, world>>
    PROVE  /\ NoneAlive' /\ Uncancelled' /\ LitOn' /\ LitReached' /\ SettlesOff'
           /\ tv' # tv => tv' = "lit" /\ wish \in {"UNBLANK", "RESUME"}
<1>1. /\ \A r \in cancelled' : Live(r)
      /\ tv = "lit" => tv' = "lit"
      /\ tv' # tv => tv' = "lit" /\ ~ NoneAlive
    BY Cancels DEF IInv, GoodDay
<1>2. NoneAlive'
    BY CancelNone DEF IInv, GoodDay
<1>3. Uncancelled'
    BY <1>1, DaemonAssumption DEF IInv, TypeOK, Uncancelled, Live
<1>4. LitReached' /\ SettlesOff'
    BY <1>2 DEF LitReached, SettlesOff, NoneAlive, Live
<1>5. LitOn'
    BY <1>1 DEF GoodDay, LitOn
<1> QED
    BY <1>1, <1>2, <1>3, <1>4, <1>5 DEF GoodDay, Wished

(* A recovery is started while no other is at work.                        *)
LEMMA GoodStart ==
    ASSUME IInv, IInv', ~ swallowed', StartRecovery, \A r \in cancelled' : Live(r)
    PROVE  ~ NoneAlive' /\ Uncancelled' /\ LitReached' /\ SettlesOff'
<1>1. PICK n \in Recs : ~ Live(n) /\ recovery' = n /\ rpc' = [rpc EXCEPT ![n] = "net"]
    BY DEF StartRecovery
<1>2. /\ n \notin cancelled' /\ rpc'[n] = "net"
      /\ \A r \in Recs \ {n} : rpc'[r] = rpc[r]
    BY <1>1 DEF IInv, TypeOK
<1>3. \A r \in Recs \ cancelled' : rpc'[r] \in {"lock", "settle"} => FALSE
    BY <1>1, <1>2 DEF IInv, Exclusive, Single, Live
<1>4. ~ NoneAlive'
    BY <1>1, <1>2 DEF NoneAlive, Live
<1>5. Uncancelled'
    BY <1>1, <1>2 DEF Uncancelled, Live, IInv, TypeOK
<1> QED
    BY <1>3, <1>4, <1>5 DEF LitReached, SettlesOff

(* The two triggers of the service.                                        *)
LEMMA Slotted ==
    /\ Slots = {Poller, Logind} /\ Poller # Logind
    /\ Poller \in Slots /\ Logind \in Slots
BY CompanionAssumption

(* GoodDay is kept by every step.                                          *)
LEMMA GoodStep ==
    ASSUME IInv, IInv', GoodDay, [CompanionNext]_allvars
    PROVE  GoodDay'
<1>s. ~ swallowed'
    BY DaemonSteps DEF GoodDay
<1>t. /\ TypeOK /\ TypeOK' /\ LockHeld /\ Exclusive /\ Single' /\ Alone'
    BY <1>s DEF IInv, GoodDay, Exclusive
<1>g. /\ Triggered /\ Uncancelled /\ Wished
      /\ LitOn /\ LitReached /\ SettlesOff /\ WillLight /\ WillDarken
    BY DEF GoodDay
<1>p. pc \in [Slots -> {"idle"} \cup Events \cup Calls]
    BY <1>t DEF TypeOK
<1>c. cancelled \subseteq Recs
    BY <1>t DEF TypeOK
<1>n. ASSUME lock = Nobody, NEW t \in Slots PROVE pc[t] \notin {"blank", "ensure", "down"}
    BY <1>n, <1>t, DaemonAssumption DEF LockHeld, InCall, Calls
<1> USE Slotted
(* A step of the world, which only calls dispatch.                         *)
<1>1. ASSUME UNCHANGED <<state, recovery, rpc, cancelled, tv, wish>>,
             UNCHANGED pc \/ (\E t \in Slots, event \in Events : Dispatch(t, event)),
             Triggered', SettlesOff', WillLight', WillDarken'
      PROVE  GoodDay'
  <2>1. Uncancelled' /\ LitOn' /\ LitReached'
    BY <1>1, <1>g DEF Uncancelled, LitOn, LitReached, Live
  <2>2. \A t \in Slots : pc'[t] \in Calls => pc'[t] = pc[t]
    BY <1>1, <1>p DEF Dispatch, Events, Calls
  <2>3. NoneAlive' <=> NoneAlive
    BY <1>1 DEF NoneAlive, Live
  <2>4. Wished'
    BY <1>1, <1>g, <2>2, <2>3 DEF Wished, Calls
  <2> QED
    BY <1>1, <1>s, <2>1, <2>4 DEF GoodDay
<1>2. CASE PollSamples
  <2>1. /\ pc[Poller] = "idle" /\ stable # dpms /\ stable' = dpms
        /\ UNCHANGED <<dpms, machine, wish>>
    BY <1>2 DEF PollSamples, Drm!Poll
  <2>2. PICK event \in {"BLANK", "UNBLANK"} :
            /\ Dispatch(Poller, event)
            /\ event = "BLANK" <=> dpms = "Off"
    <3>1. Drm!Reaction(stable, dpms) = IF dpms = "Off" THEN "BLANK" ELSE "UNBLANK"
      <4>1. CASE stable = "On" /\ dpms = "Off"
        BY <4>1, Zenon DEF Drm!Reaction
      <4>2. CASE stable = "Off" /\ dpms = "On"
        BY <4>2, Zenon DEF Drm!Reaction
      <4> QED
        BY <1>g, <2>1, <4>1, <4>2 DEF Triggered
    <3> QED
        BY <1>2, <3>1 DEF PollSamples, Drm!NoEvent
  <2>3. /\ UNCHANGED <<state, recovery, rpc, cancelled, tv>>
        /\ pc' = [pc EXCEPT ![Poller] = event]
    BY <2>2 DEF Dispatch, recs
  <2>4. Triggered'
    BY <1>g, <1>p, <2>1, <2>2, <2>3 DEF Triggered
  <2>5. NoneAlive' <=> NoneAlive
    BY <2>3 DEF NoneAlive, Live
  <2>6. SettlesOff'
    BY <1>g, <1>p, <2>1, <2>2, <2>3 DEF SettlesOff, Triggered
  <2>7. WillLight' /\ WillDarken'
    BY <1>g, <1>p, <2>1, <2>2, <2>3, <2>5 DEF WillLight, WillDarken, Triggered
  <2> QED
    BY <1>1, <2>1, <2>2, <2>3, <2>4, <2>6, <2>7 DEF Events
<1>3. CASE DesktopSwitches
  <2>1. /\ stable = dpms /\ pc[Poller] = "idle" /\ UNCHANGED <<vars, machine, wish, stable>>
        /\ dpms' \in {"On", "Off"} \ {dpms}
    BY <1>3 DEF DesktopSwitches, Drm!DpmsChanges
  <2>2. Triggered' /\ SettlesOff'
    BY <1>g, <2>1 DEF Triggered, SettlesOff, vars
  <2>3. WillLight' /\ WillDarken'
    BY <1>g, <2>1 DEF Triggered, WillLight, WillDarken, vars
  <2> QED
    BY <1>1, <2>1, <2>2, <2>3 DEF vars
<1>4. CASE Suspends \/ FallsAsleep \/ WakesUp
  <2>1. /\ UNCHANGED <<dpms, stable, wish, state, recovery, rpc, cancelled, tv>>
        /\ pc'[Poller] = pc[Poller]
        /\ \/ machine' = "sleeping" /\ pc'[Logind] = "SUSPEND" /\ pc[Logind] = "idle"
           \/ machine' = "asleep" /\ pc'[Logind] = "idle" /\ pc[Logind] = "idle"
           \/ machine' = "up" /\ pc'[Logind] = "RESUME" /\ pc[Logind] = "idle"
    BY <1>4, <1>p DEF Suspends, FallsAsleep, WakesUp, Dispatch, vars, recs
  <2>2. UNCHANGED pc \/ (\E t \in Slots, event \in Events : Dispatch(t, event))
    BY <1>4 DEF Suspends, FallsAsleep, WakesUp, vars, Events
  <2>3. Triggered' /\ SettlesOff'
    BY <1>g, <2>1 DEF Triggered, SettlesOff
  <2>4. NoneAlive' <=> NoneAlive
    BY <2>1 DEF NoneAlive, Live
  <2>5. WillLight' /\ WillDarken'
    BY <1>g, <2>1, <2>4 DEF WillLight, WillDarken
  <2> QED
    BY <1>1, <2>1, <2>2, <2>3, <2>5
<1>5. ASSUME NEW t \in Slots, Handles(t) PROVE GoodDay'
  <2>1. Handle(t) /\ wish' = pc[t] /\ UNCHANGED <<dpms, stable, machine>>
    BY <1>5 DEF Handles, world
  <2>2. CASE OnBlank(t)
    <3>1. /\ t = Poller /\ pc[t] = "BLANK" /\ dpms = "Off" /\ lock = Nobody
          /\ \A u \in Slots \ {t} : pc'[u] = pc[u]
          /\ \/ state = "ON" /\ pc'[t] = "blank"
             \/ state # "ON" /\ pc'[t] = "idle"
        BY <1>g, <1>p, <2>2 DEF OnBlank, Handling, Granted, Await, Finish, Triggered
    <3>2. /\ NoneAlive' /\ Uncancelled' /\ LitOn' /\ LitReached' /\ SettlesOff'
        BY <1>s, <2>1, <2>2, <3>1, GoodCancel DEF OnBlank, world
    <3>3. Triggered' /\ Wished'
        BY <1>g, <2>1, <3>1, <3>2, <1>n DEF Triggered, Wished, Events
    <3>4. WillLight' /\ WillDarken'
        BY <2>1, <2>2, <3>1 DEF WillLight, WillDarken, OnBlank
    <3> QED
        BY <1>s, <3>2, <3>3, <3>4 DEF GoodDay
  <2>3. CASE OnUnblank(t)
    <3>1. /\ t = Poller /\ pc[t] = "UNBLANK" /\ dpms = "On" /\ stable = "On" /\ lock = Nobody
          /\ \A u \in Slots \ {t} : pc'[u] = pc[u]
          /\ pc'[t] \in {"ensure", "idle"} /\ state' = state
        BY <1>g, <1>p, <2>3 DEF OnUnblank, Handling, Granted, Await, Finish, Triggered
    <3>2. Triggered' /\ Wished' /\ WillDarken'
        BY <1>g, <2>1, <3>1, <1>n DEF Triggered, Wished, WillDarken, Events
    <3>3. CASE state = "ON"
      <4>1. CancelRecovery /\ recovery' = Nobody /\ UNCHANGED <<rpc, state, world>>
        BY <2>1, <2>3, <3>3 DEF OnUnblank, world
      <4>2. Uncancelled' /\ LitOn' /\ LitReached' /\ SettlesOff'
        BY <1>s, <3>1, <4>1, GoodCancel
      <4>3. WillLight'
        BY <3>1, <3>3 DEF WillLight
      <4> QED
        BY <1>s, <3>2, <4>2, <4>3 DEF GoodDay
    <3>4. CASE state # "ON" /\ StartRecovery /\ cancelled' = cancelled
      <4>1. ~ NoneAlive' /\ Uncancelled' /\ LitReached' /\ SettlesOff'
        BY <1>g, <1>s, <3>4, GoodStart DEF Uncancelled
      <4>2. LitOn' /\ WillLight'
        BY <3>1, <3>4, <4>1 DEF LitOn, WillLight
      <4> QED
        BY <1>s, <3>2, <4>1, <4>2 DEF GoodDay
    <3>5. CASE state # "ON" /\ UNCHANGED <<recs, tv>>
      <4>1. Uncancelled' /\ LitReached' /\ LitOn'
        BY <1>g, <3>1, <3>5 DEF Uncancelled, LitReached, LitOn, Live, recs
      <4>2. SettlesOff'
        BY <1>t, <3>1, <3>5, DaemonAssumption DEF SettlesOff, LockHeld, recs
      <4>3. WillLight'
        <5>1. CASE Running
            BY <1>g, <1>t, <3>5, <5>1
            DEF WillLight, Uncancelled, NoneAlive, Running, Live, TypeOK, recs
        <5>2. CASE ~ Running
            BY <2>3, <3>1, <3>5, <5>2, <1>p, <1>t DEF WillLight, OnUnblank, Await, StartRecovery, recs, Live, TypeOK
        <5> QED
            BY <5>1, <5>2
      <4> QED
        BY <1>s, <3>2, <4>1, <4>2, <4>3 DEF GoodDay
    <3> QED
        BY <2>3, <3>3, <3>4, <3>5 DEF OnUnblank
  <2>4. CASE OnSuspend(t)
    <3>1. /\ t = Logind /\ pc[t] = "SUSPEND" /\ machine = "sleeping" /\ lock = Nobody
          /\ \A u \in Slots \ {t} : pc'[u] = pc[u]
          /\ pc'[t] = "down"
        BY <1>g, <1>p, <2>4 DEF OnSuspend, PowerDown, Handling, Granted, Await, Triggered
    <3>2. /\ NoneAlive' /\ Uncancelled' /\ LitOn' /\ LitReached' /\ SettlesOff'
        BY <1>s, <2>1, <2>4, <3>1, GoodCancel DEF OnSuspend, PowerDown, world
    <3>3. Triggered' /\ Wished'
        BY <1>g, <2>1, <3>1, <3>2, <1>n DEF Triggered, Wished, Events
    <3>4. WillLight' /\ WillDarken'
        BY <2>1, <2>4, <3>1 DEF WillLight, WillDarken, OnSuspend
    <3> QED
        BY <1>s, <3>2, <3>3, <3>4 DEF GoodDay
  <2>5. CASE OnShutdown(t)
    BY <1>g, <2>5 DEF OnShutdown, PowerDown, Handling, Triggered
  <2>6. CASE OnResume(t)
    <3>1. /\ t = Logind /\ pc[t] = "RESUME" /\ machine = "up" /\ lock = Nobody
          /\ \A u \in Slots \ {t} : pc'[u] = pc[u]
          /\ pc'[t] = "idle" /\ state' = state
        BY <1>g, <1>p, <2>6 DEF OnResume, Handling, Granted, Finish, Triggered
    <3>2. /\ \A r \in cancelled' : Live(r)
          /\ tv = "lit" => tv' = "lit"
        BY <1>g, <1>t, <2>6, <3>1, Cancels DEF OnResume
    <3>3. ~ NoneAlive' /\ Uncancelled' /\ LitReached' /\ SettlesOff'
        BY <1>s, <2>6, <3>2, GoodStart DEF OnResume
    <3>4. Triggered' /\ Wished'
        BY <1>g, <2>1, <3>1, <1>n DEF Triggered, Wished, Events
    <3>5. LitOn' /\ WillLight' /\ WillDarken'
        BY <1>g, <3>1, <3>2, <3>3 DEF LitOn, WillLight, WillDarken
    <3> QED
        BY <1>s, <3>3, <3>4, <3>5 DEF GoodDay
  <2> QED
    BY <2>1, <2>2, <2>3, <2>4, <2>5, <2>6 DEF Handle
<1>6. ASSUME NEW t \in Slots, DaemonStep(Acknowledged(t)) PROVE GoodDay'
  <2>1. /\ Return(t) /\ UNCHANGED <<dpms, stable, machine, wish>>
        /\ doubt' => pc[t] = "down" /\ ~ Reachable
        /\ pc[t] = "ensure" => Settles(pc'[t] = "settle")
    BY <1>6 DEF DaemonStep, Acknowledged, world
  <2>2. NoneAlive /\ lock = t
    BY <1>t, <2>1 DEF Return, BlankReturns, EnsureReturns, SettleReturns, DownReturns,
       Exclusive, Alone, LockHeld, InCall, Calls
  <2>3. ASSUME UNCHANGED recs, Triggered', Wished', LitOn', WillLight', WillDarken'
        PROVE  GoodDay'
    <3>1. NoneAlive' /\ Uncancelled'
        BY <1>g, <2>2, <2>3 DEF NoneAlive, Uncancelled, Live, recs
    <3>2. LitReached' /\ SettlesOff'
        BY <3>1 DEF NoneAlive, LitReached, SettlesOff, Live
    <3> QED
        BY <1>s, <2>3, <3>1, <3>2 DEF GoodDay
  <2>4. CASE BlankReturns(t)
    <3>1. /\ t = Poller /\ pc[t] = "blank" /\ dpms = "Off" /\ state' = "SCREEN_OFF"
          /\ \A u \in Slots \ {t} : pc'[u] = pc[u]
          /\ pc'[t] = "idle" /\ UNCHANGED recs
        BY <1>g, <1>p, <2>1, <2>4 DEF BlankReturns, Finish, Triggered
    <3>2. NoneAlive' <=> NoneAlive
        BY <3>1 DEF NoneAlive, Live, recs
    <3>3. Triggered' /\ Wished'
        BY <1>g, <2>1, <3>1, <3>2 DEF Triggered, Wished
    <3> QED
        BY <2>1, <2>3, <3>1, <3>3 DEF LitOn, WillLight, WillDarken
  <2>5. CASE EnsureReturns(t)
    <3>1. t = Poller /\ pc[t] = "ensure" /\ dpms = "On"
        BY <1>g, <2>5 DEF EnsureReturns, Triggered
    <3>2. ~ doubt' /\ pc'[t] # "settle"
        BY <2>1, <3>1 DEF Settles
    <3>3. Finish(t) /\ state' = "ON" /\ tv' = "lit" /\ UNCHANGED recs
        BY <1>p, <2>5, <3>2 DEF EnsureReturns, Await, Lit
    <3>4. \A u \in Slots : pc'[u] = IF u = t THEN "idle" ELSE pc[u]
        BY <1>p, <3>3 DEF Finish
    <3>5. NoneAlive' <=> NoneAlive
        BY <3>3 DEF NoneAlive, Live, recs
    <3>6. Triggered' /\ Wished'
        BY <1>g, <2>1, <3>1, <3>4, <3>5 DEF Triggered, Wished
    <3> QED
        BY <2>1, <2>3, <3>1, <3>3, <3>6 DEF LitOn, WillLight, WillDarken
  <2>6. CASE SettleReturns(t)
    BY <1>g, <2>6 DEF SettleReturns, Triggered
  <2>7. CASE DownReturns(t)
    <3>1. /\ t = Logind /\ pc[t] = "down" /\ machine = "sleeping" /\ state' = "POWERED_OFF"
          /\ \A u \in Slots \ {t} : pc'[u] = pc[u]
          /\ pc'[t] = "idle" /\ UNCHANGED recs
        BY <1>g, <1>p, <2>7 DEF DownReturns, Finish, Triggered
    <3>2. NoneAlive' <=> NoneAlive
        BY <3>1 DEF NoneAlive, Live, recs
    <3>3. Triggered' /\ Wished'
        BY <1>g, <2>1, <3>1, <3>2 DEF Triggered, Wished
    <3> QED
        BY <2>1, <2>3, <3>1, <3>3 DEF LitOn, WillLight, WillDarken
  <2> QED
    BY <2>1, <2>4, <2>5, <2>6, <2>7 DEF Return
<1>7. ASSUME NEW r \in Recs, DaemonStep(Recovers(r)) PROVE GoodDay'
  <2>1. Recovers(r) /\ UNCHANGED <<dpms, stable, machine, wish>>
    BY <1>7 DEF DaemonStep, world
  <2>2. pc' = pc /\ recovery' = recovery /\ Triggered'
    <3>1. pc' = pc /\ recovery' = recovery
        BY <2>1 DEF Recovers, Attempt, BurstSent, TornDown, ReachReturns, RecSettles,
           RecSettleReturns, Unwind, tasks
    <3> QED
        BY <1>g, <2>1, <3>1 DEF Triggered
  <2>3. \A q \in Recs \ {r} : rpc'[q] = rpc[q]
    BY <1>t, <2>1 DEF Recovers, Attempt, BurstSent, TornDown, ReachReturns, RecSettles,
       RecSettleReturns, Unwind, Die, Move, BeginReach, TypeOK
  (* The cancelled recovery unwinds; the others are not concerned.         *)
  <2>4. CASE Unwind(r)
    <3>1. r \in cancelled /\ cancelled' = cancelled \ {r} /\ rpc'[r] = "dead"
          /\ state' = state /\ tv' = tv
        BY <1>t, <2>4 DEF Unwind, Die, Move, TypeOK
    <3>2. NoneAlive' <=> NoneAlive
        BY <2>3, <3>1 DEF NoneAlive, Live
    <3>3. Uncancelled' /\ LitReached' /\ SettlesOff'
        BY <1>g, <1>c, <2>1, <2>2, <2>3, <3>1 DEF Uncancelled, LitReached, SettlesOff, Live
    <3>4. Wished' /\ LitOn' /\ WillLight' /\ WillDarken'
        BY <1>g, <2>1, <2>2, <3>1, <3>2 DEF Wished, LitOn, WillLight, WillDarken
    <3> QED
        BY <1>s, <2>2, <3>3, <3>4 DEF GoodDay
  (* The recovery at work is the only one, and nobody is in a call.        *)
  <2>5. CASE ~ Unwind(r)
    <3>1. /\ r \notin cancelled /\ Live(r) /\ cancelled' = cancelled
          /\ ~ NoneAlive /\ r = recovery
      <4>1. r \notin cancelled /\ Live(r) /\ cancelled' = cancelled
        BY <2>1, <2>5 DEF Recovers, Attempt, BurstSent, TornDown, ReachReturns, RecSettles,
           RecSettleReturns, At, Live
      <4> QED
        BY <1>t, <4>1 DEF NoneAlive, Exclusive, Single
    <3>2. \A q \in Recs \ cancelled : q # r => rpc'[q] = "dead"
        BY <1>t, <2>3, <3>1 DEF Exclusive, Single, Live
    <3>3. Uncancelled'
        BY <1>g, <1>c, <2>2, <2>3, <3>1 DEF Uncancelled, Live
    <3>4. Wished'
        BY <1>g, <2>1, <2>2, <3>1 DEF Wished
    (* It goes on, without reaching the TV.                                *)
    <3>5. ASSUME state' = state, tv = "lit" => tv' = "lit",
                 rpc'[r] \in {"burst", "teardown", "reach", "sleep"}
          PROVE  GoodDay'
      <4>1. ~ NoneAlive'
        BY <3>1, <3>5 DEF NoneAlive, Live
      <4>2. LitReached' /\ SettlesOff'
        BY <3>1, <3>2, <3>5 DEF LitReached, SettlesOff
      <4>3. LitOn' /\ WillLight' /\ WillDarken'
        BY <1>g, <3>5, <4>1 DEF LitOn, WillLight, WillDarken
      <4> QED
        BY <1>s, <2>2, <3>3, <3>4, <4>2, <4>3 DEF GoodDay
    <3>6. CASE Attempt(r) \/ BurstSent(r) \/ TornDown(r)
        BY <1>t, <3>5, <3>6
        DEF Attempt, BurstSent, TornDown, BeginReach, Move, MaybeWoken, TypeOK
    <3>7. CASE ReachReturns(r) /\ rpc'[r] = "sleep" /\ ~ Reachable
        BY <3>5, <3>7 DEF ReachReturns, Lit, Unsure, MaybeDone
    <3>8. CASE ReachReturns(r) /\ ~ doubt'
      <4>1. state' = state /\ tv' = "lit" /\ rpc'[r] = "lock"
        BY <1>t, <3>8 DEF ReachReturns, Lit, Unsure, Move, TypeOK
      <4>2. ~ NoneAlive'
        BY <3>1, <4>1 DEF NoneAlive, Live
      <4>3. LitReached' /\ SettlesOff'
        BY <3>1, <3>2, <4>1 DEF LitReached, SettlesOff
      <4>4. LitOn' /\ WillLight' /\ WillDarken'
        BY <4>1, <4>2 DEF LitOn, WillLight, WillDarken
      <4> QED
        BY <1>s, <2>2, <3>3, <3>4, <4>3, <4>4 DEF GoodDay
    <3>9. CASE RecSettles(r) /\ Settles(rpc'[r] = "settle")
      <4>1. tv = "lit" /\ tv' = tv
        BY <1>g, <3>1, <3>9 DEF RecSettles, At, LitReached
      <4>2. LitReached' /\ LitOn'
        BY <4>1 DEF LitReached, LitOn
      <4>3. CASE rpc'[r] = "settle"
        <5>1. dpms = "Off" /\ state' = state /\ ~ NoneAlive'
            BY <1>t, <3>1, <3>9, <4>3 DEF RecSettles, Settles, Die, Move, NoneAlive, Live, TypeOK
        <5>2. SettlesOff' /\ WillLight' /\ WillDarken'
            BY <2>1, <5>1 DEF SettlesOff, WillLight, WillDarken
        <5> QED
            BY <1>s, <2>2, <3>3, <3>4, <4>2, <5>2 DEF GoodDay
      <4>4. CASE rpc'[r] # "settle"
        <5>1. dpms # "Off" /\ state' = "ON" /\ rpc'[r] = "dead"
            BY <1>t, <3>9, <4>4 DEF RecSettles, Settles, Die, Move, TypeOK
        <5>2. SettlesOff' /\ WillLight' /\ WillDarken'
            BY <2>1, <3>1, <3>2, <5>1 DEF SettlesOff, WillLight, WillDarken
        <5> QED
            BY <1>s, <2>2, <3>3, <3>4, <4>2, <5>2 DEF GoodDay
      <4> QED
        BY <4>3, <4>4
    <3>10. CASE RecSettleReturns(r) /\ ~ doubt'
      <4>1. state' = "SCREEN_OFF" /\ rpc[r] = "settle" /\ rpc'[r] = "dead"
        BY <1>t, <3>10 DEF RecSettleReturns, Settled, Die, Move, At, TypeOK
      <4>2. LitReached' /\ SettlesOff' /\ LitOn' /\ WillDarken'
        BY <3>1, <3>2, <4>1 DEF LitReached, SettlesOff, LitOn, WillDarken
      <4>3. WillLight'
        BY <1>g, <2>1, <2>2, <3>1, <4>1 DEF SettlesOff, WillLight
      <4> QED
        BY <1>s, <2>2, <3>3, <3>4, <4>2, <4>3 DEF GoodDay
    <3> QED
        BY <2>1, <2>5, <3>6, <3>7, <3>8, <3>9, <3>10 DEF Recovers
  <2> QED
    BY <2>4, <2>5
<1>8. CASE Boots /\ UNCHANGED <<world, wish>>
  <2>1. /\ UNCHANGED <<state, pc, recovery, rpc, cancelled, dpms, stable, machine, wish>>
        /\ tv # "lit"
    BY <1>8 DEF Boots, tasks, recs, world
  <2>2. NoneAlive' <=> NoneAlive
    BY <2>1 DEF NoneAlive, Live
  <2>3. Triggered' /\ Uncancelled' /\ Wished' /\ SettlesOff'
    BY <1>g, <2>1, <2>2 DEF Triggered, Uncancelled, Wished, SettlesOff, Live
  <2>4. LitOn' /\ LitReached' /\ WillLight' /\ WillDarken'
    BY <1>g, <2>1, <2>2 DEF LitOn, LitReached, WillLight, WillDarken
  <2> QED
    BY <1>s, <2>3, <2>4 DEF GoodDay
<1>9. CASE UNCHANGED allvars
  <2>1. NoneAlive' <=> NoneAlive
    BY <1>9 DEF NoneAlive, Live, allvars, vars
  <2> QED
    BY <1>9, <2>1 DEF GoodDay, Triggered, Uncancelled, Wished, SettlesOff, LitOn, LitReached,
       WillLight, WillDarken, Live, allvars, vars, world
<1> QED
    BY <1>2, <1>3, <1>4, <1>5, <1>6, <1>7, <1>8, <1>9 DEF CompanionNext

-----------------------------------------------------------------------------
(* A daemon, on a good day.                                                *)
CompanionInv == IInv /\ GoodDay

(* The two invariants hold of the service: IInv because it is a daemon.    *)
LEMMA CompanionInductive == CompanionSpec => []CompanionInv
<1>1. CompanionInit => GoodDay
  <2> SUFFICES ASSUME CompanionInit PROVE GoodDay
    OBVIOUS
  <2>1. Init /\ dpms = "On" /\ stable = "On" /\ machine = "up" /\ wish = "UNBLANK" /\ tv = "lit"
    BY CompanionAssumption DEF CompanionInit, Init, Drm!DrmInit, Drm!Unreadable
  <2>2. Triggered /\ Wished
    BY <2>1, Slotted DEF Init, Triggered, Wished, NoneAlive, Live, Events
  <2>3. Uncancelled /\ LitOn /\ LitReached /\ SettlesOff /\ WillLight /\ WillDarken
    BY <2>1 DEF Init, Uncancelled, LitOn, LitReached, SettlesOff, WillLight, WillDarken
  <2> QED
    BY <2>1, <2>2, <2>3 DEF Init, GoodDay
<1>2. GoodDay /\ IInv /\ IInv' /\ [CompanionNext]_allvars => GoodDay'
    BY GoodStep
<1> QED
    BY <1>1, <1>2, Implements, Inductive, PTL DEF CompanionSpec, CompanionInv

(* At rest nobody has the lock and no recovery is at work.                 *)
LEMMA Rests ==
    ASSUME CompanionInv, \A t \in Slots : pc[t] = "idle", \A r \in Recs : ~ Live(r)
    PROVE  Quiet /\ NoneAlive
BY DEF CompanionInv, IInv, TypeOK, LockHeld, Quiet, InCall, Calls, Alive, NoneAlive, Live, Owners

(* Once the service is at rest with the desktop on, the panel is lit and   *)
(* the state says so, for any number of recoveries and any budget.         *)
THEOREM RestsLitHolds == CompanionSpec => []RestsLit
<1>1. CompanionInv => RestsLit
  <2> SUFFICES ASSUME CompanionInv, AtRest, dpms = "On" PROVE tv = "lit" /\ state = "ON"
    BY DEF RestsLit
  <2>1. NoneAlive
    BY Rests DEF AtRest
  <2> QED
    BY <2>1, Slotted DEF CompanionInv, GoodDay, WillLight, LitOn, AtRest
<1> QED
    BY <1>1, CompanionInductive, PTL

(* Once it is at rest with the desktop off, the panel is not lit, unless a *)
(* blank cut a recovery short and left doubt.                              *)
THEOREM RestsDarkHolds == CompanionSpec => []RestsDark
<1>1. CompanionInv => RestsDark
  <2> SUFFICES ASSUME CompanionInv, AtRest, dpms = "Off", ~ doubt
               PROVE  tv # "lit" /\ state # "ON"
    BY DEF RestsDark
  <2>1. NoneAlive /\ lock = Nobody
    BY Rests DEF AtRest, Quiet
  <2>2. state # "ON"
    BY <2>1, Slotted DEF CompanionInv, GoodDay, WillDarken, AtRest
  <2>3. tv = Shows[state] /\ state \in States
    BY <2>1 DEF CompanionInv, GoodDay, IInv, TypeOK, Believed, BelievedIdle
  <2> QED
    BY <2>2, <2>3 DEF Shows, States
<1> QED
    BY <1>1, CompanionInductive, PTL

(* The machine sleeps with the TV off, unless the power-down got no answer *)
(* or an unblank came between it and the sleep.                            *)
THEOREM SleepsDarkHolds == CompanionSpec => []SleepsDark
<1>1. CompanionInv => SleepsDark
  <2> SUFFICES ASSUME CompanionInv, machine = "asleep", down, ~ doubt
               PROVE  tv = "off" /\ state = "POWERED_OFF"
    BY DEF SleepsDark
  <2>1. TypeOK /\ LockHeld /\ DownHolds /\ Believed
    BY DEF CompanionInv, GoodDay, IInv, Exclusive
  <2>2. NoneAlive /\ state = "POWERED_OFF" /\ \A t \in Slots : InCall(t) => pc[t] = "down"
    BY <2>1 DEF DownHolds
  <2>3. \A t \in Slots : pc[t] # "down"
    BY Slotted DEF CompanionInv, GoodDay, Triggered
  <2>4. \A r \in Recs : lock # r
    BY <2>1, <2>2 DEF LockHeld, NoneAlive, Live, Believed, CancelledDoubt
  <2>5. lock = Nobody
    BY <2>1, <2>2, <2>3, <2>4 DEF TypeOK, LockHeld, Owners
  <2> QED
    BY <2>1, <2>2, <2>5 DEF Believed, BelievedIdle, Shows
<1> QED
    BY <1>1, CompanionInductive, PTL

-----------------------------------------------------------------------------
(* Every step of the service is one that TvFollower allows.                *)
Follows == [Follower!Handled \/ Follower!Obeys \/ Follower!Boots]_<<wish, tv>>

(* What each event asks of the TV, read off.                               *)
LEMMA AsksOf ==
    /\ Follower!Asks["BLANK"] = {"dark"}
    /\ Follower!Asks["UNBLANK"] = {"booting", "lit", "dark"}
    /\ Follower!Asks["RESUME"] = {"booting", "lit", "dark"}
    /\ Follower!Asks["SUSPEND"] = {"off"}
BY DEF Follower!Asks

(* Every step is the handling of an event, the TV obeying the last one or  *)
(* booting, or no step of TvFollower at all.                               *)
LEMMA FollowStep ==
    ASSUME CompanionInv, [CompanionNext]_allvars
    PROVE  Follows
<1>t. /\ TypeOK /\ LockHeld /\ Exclusive
      /\ Triggered /\ Uncancelled /\ Wished
    BY DEF CompanionInv, IInv, GoodDay
<1> USE Slotted
<1>1. ASSUME UNCHANGED <<wish, tv>> PROVE Follows
    BY <1>1 DEF Follows
<1>2. ASSUME UNCHANGED wish, tv' \in Follower!Asks[wish] \cup {tv} PROVE Follows
    BY <1>2 DEF Follows, Follower!Obeys
(* A handler may let the command of the recovery it cancels take effect.   *)
<1>3. ASSUME NEW t \in Slots, Handles(t) PROVE Follows
  <2>1. Handle(t) /\ wish' = pc[t]
    BY <1>3 DEF Handles
  <2>2. wish' \in Follower!Wishes
    BY <2>1 DEF Handle, OnBlank, OnUnblank, OnSuspend, OnShutdown, PowerDown, OnResume,
       Handling, Follower!Wishes
  <2>3. CASE tv' = tv
    BY <2>2, <2>3 DEF Follows, Follower!Handled
  <2>4. CASE tv' # tv
    <3>1. CancelRecovery /\ lock = Nobody
        BY <2>1, <2>4 DEF Handle, OnBlank, OnUnblank, OnSuspend, OnShutdown, PowerDown,
           OnResume, Handling, Granted
    <3>2. tv' = "lit" /\ ~ NoneAlive
        BY <1>t, <2>4, <3>1, Cancels
    <3>3. tv' \in Follower!Asks[wish]
        BY <1>t, <3>2, AsksOf DEF Wished
    <3> QED
        BY <2>2, <3>3 DEF Follows, Follower!Handled
  <2> QED
    BY <2>3, <2>4
<1>4. ASSUME NEW t \in Slots, DaemonStep(Acknowledged(t)) PROVE Follows
  <2>1. /\ Return(t) /\ UNCHANGED wish
        /\ doubt' => pc[t] = "down" /\ ~ Reachable
    BY <1>4 DEF DaemonStep, Acknowledged
  <2>2. CASE BlankReturns(t)
    <3>1. t = Poller /\ wish = "BLANK"
        BY <1>t, <2>2 DEF BlankReturns, Triggered, Wished
    <3>2. tv' = "dark"
        BY <1>t, <2>1, <2>2, <3>1 DEF BlankReturns, Triggered
    <3> QED
        BY <1>2, <2>1, <3>1, <3>2, AsksOf
  <2>3. CASE EnsureReturns(t)
    <3>1. t = Poller /\ wish = "UNBLANK"
        BY <1>t, <2>3 DEF EnsureReturns, Triggered, Wished
    <3>2. tv' = "lit"
        BY <2>1, <2>3 DEF EnsureReturns, Lit
    <3> QED
        BY <1>2, <2>1, <3>1, <3>2, AsksOf
  <2>4. CASE SettleReturns(t)
    BY <1>t, <2>4 DEF SettleReturns, Triggered
  <2>5. CASE DownReturns(t)
    <3>1. t = Logind /\ wish = "SUSPEND"
        BY <1>t, <2>5 DEF DownReturns, Triggered, Wished
    <3>2. tv' \in {"off", tv}
        BY <2>5 DEF DownReturns, MaybeDone
    <3> QED
        BY <1>2, <2>1, <3>1, <3>2, AsksOf
  <2> QED
    BY <2>1, <2>2, <2>3, <2>4, <2>5 DEF Return
<1>5. ASSUME NEW r \in Recs, DaemonStep(Recovers(r)) PROVE Follows
  <2>1. Recovers(r) /\ UNCHANGED wish
    BY <1>5 DEF DaemonStep
  <2>2. CASE Unwind(r)
    BY <1>1, <2>1, <2>2 DEF Unwind
  <2>3. CASE ~ Unwind(r)
    <3>1. wish \in {"UNBLANK", "RESUME"}
      <4>1. r \notin cancelled /\ Live(r)
        BY <2>1, <2>3 DEF Recovers, Attempt, BurstSent, TornDown, ReachReturns, RecSettles,
           RecSettleReturns, At, Live
      <4> QED
        BY <1>t, <4>1 DEF Wished, NoneAlive
    <3>2. tv' \in {"booting", "lit", "dark", tv}
        BY <2>1, <2>3 DEF Recovers, Attempt, BurstSent, TornDown, ReachReturns, RecSettles,
           RecSettleReturns, MaybeWoken, Lit, Unsure, MaybeDone, Settled
    <3> QED
        BY <1>2, <2>1, <3>1, <3>2, AsksOf
  <2> QED
    BY <2>2, <2>3
<1>6. ASSUME PollSamples \/ DesktopSwitches \/ Suspends \/ FallsAsleep \/ WakesUp
      PROVE  Follows
    BY <1>1, <1>6 DEF PollSamples, DesktopSwitches, Suspends, FallsAsleep, WakesUp, Dispatch, vars
<1>7. CASE Boots /\ UNCHANGED <<world, wish>>
    BY <1>7 DEF Boots, Follows, Follower!Boots
<1>8. CASE UNCHANGED allvars
    BY <1>1, <1>8 DEF allvars, vars
<1> QED
    BY <1>3, <1>4, <1>5, <1>6, <1>7, <1>8 DEF CompanionNext

(* The whole service implements TvFollower: the TV only ever does what the *)
(* event handled last asks of it.                                          *)
THEOREM LastEventRulesHolds == CompanionSpec => LastEventRules
<1>1. CompanionInit => Follower!Init
    BY CompanionAssumption DEF CompanionInit, Init, Follower!Init
<1>2. CompanionInv /\ [CompanionNext]_allvars
          => [Follower!Handled \/ Follower!Obeys \/ Follower!Boots]_<<wish, tv>>
    BY FollowStep DEF Follows
<1> QED
    BY <1>1, <1>2, CompanionInductive, PTL
    DEF CompanionSpec, LastEventRules, Follower!FollowerSpec
=============================================================================
