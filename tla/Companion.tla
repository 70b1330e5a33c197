----------------------------- MODULE Companion -----------------------------
(***************************************************************************)
(* The running service of _cmd_run: the Daemon, the DRM poll and the       *)
(* logind watcher that feed it, the desktop, the machine and the TV.       *)
(*                                                                         *)
(* This is the composition on a good day: every command is acknowledged,   *)
(* the TV boots within the budget of a recovery, the dpms node can be      *)
(* read, and each suspend is handled within its three seconds.  What is    *)
(* left is the interplay of the parts: poll, queue, recovery, settling on  *)
(* a dpms value of its own, and sleeping in between.  Only the power-down  *)
(* may fail: it is sent to a TV that is off or still booting as well.      *)
(***************************************************************************)
EXTENDS Daemon

CONSTANTS
    Poller,     \* the slot of the DRM poll
    Logind      \* the slot of the logind signals

(* The service starts while the desktop and the TV are on.                 *)
ASSUME CompanionAssumption ==
    /\ Slots = {Poller, Logind} /\ Poller # Logind
    /\ StartPanels = {"lit"}

VARIABLES dpms, stable,     \* of DrmWatcher
          machine,          \* up, sleeping (inhibited by the watcher), asleep
          wish              \* history: the event handled last

Drm == INSTANCE DrmWatcher

world == <<dpms, stable, machine>>
allvars == <<vars, world, wish>>

CompanionInit ==
    /\ Init
    /\ dpms = "On"
    /\ Drm!DrmInit(dpms)
    /\ machine = "up"
    /\ wish = "UNBLANK"

Awake == machine # "asleep"

-----------------------------------------------------------------------------
(* The triggers.                                                           *)

PollSamples ==
    /\ Awake
    /\ pc[Poller] = "idle"
    /\ Drm!Poll(dpms)
    /\ LET event == Drm!Reaction(stable, dpms)
       IN  IF event = Drm!NoEvent THEN UNCHANGED vars ELSE Dispatch(Poller, event)
    /\ UNCHANGED <<machine, wish>>

(* dpms goes between On and Off here; the nodes that report Standby do not *)
(* belong to a good day.  Neither does a flip back before the poll has     *)
(* seen the first one and its event was handled: it would be missed.       *)
DesktopSwitches ==
    /\ Awake
    /\ stable = dpms /\ pc[Poller] = "idle"
    /\ Drm!DpmsChanges
    /\ dpms' \in {"On", "Off"}
    /\ UNCHANGED <<vars, machine, wish>>

Suspends ==
    /\ machine = "up"
    /\ Dispatch(Logind, "SUSPEND")
    /\ machine' = "sleeping"
    /\ UNCHANGED <<dpms, stable, wish>>

(* The inhibitor is released when SUSPEND has been handled.                *)
FallsAsleep ==
    /\ machine = "sleeping"
    /\ pc[Logind] = "idle"
    /\ machine' = "asleep"
    /\ UNCHANGED <<vars, dpms, stable, wish>>

WakesUp ==
    /\ machine = "asleep"
    /\ Dispatch(Logind, "RESUME")
    /\ machine' = "up"
    /\ UNCHANGED <<dpms, stable, wish>>

-----------------------------------------------------------------------------
(* The daemon's steps on a good day.                                       *)

(* Mutant of Settles: the TV stays lit, whatever dpms says.                *)
SettlesLit(intoOff) == ~ intoOff

(* _settle_awake reads dpms itself, whatever the poll has seen.            *)
Settles(intoOff) == (dpms = "Off") <=> intoOff

Acknowledged(t) ==
    /\ Return(t)
    /\ doubt' => pc[t] = "down" /\ ~ Reachable
    /\ pc[t] = "ensure" => Settles(pc'[t] = "settle")

Recovers(r) ==
    \/ Attempt(r) /\ (rpc'[r] = "burst" => tv' # "off")
    \/ BurstSent(r) \/ TornDown(r) \/ Unwind(r)
    \/ ReachReturns(r) /\ ~ doubt'
    \/ ReachReturns(r) /\ rpc'[r] = "sleep" /\ ~ Reachable /\ tries[r] < MaxTries
    \/ RecSettles(r) /\ Settles(rpc'[r] = "settle")
    \/ RecSettleReturns(r) /\ ~ doubt'

DaemonStep(A) == Awake /\ A /\ UNCHANGED <<world, wish>>
Handles(t) == Awake /\ Handle(t) /\ wish' = pc[t] /\ UNCHANGED world

CompanionNext ==
    \/ PollSamples \/ DesktopSwitches
    \/ Suspends \/ FallsAsleep \/ WakesUp
    \/ \E t \in Slots : Handles(t) \/ DaemonStep(Acknowledged(t))
    \/ \E r \in Recs : DaemonStep(Recovers(r))
    \/ Boots /\ UNCHANGED <<world, wish>>

CompanionSpec ==
    /\ CompanionInit /\ [][CompanionNext]_allvars
    /\ WF_allvars(PollSamples)
    /\ \A t \in Slots : /\ WF_allvars(Handles(t))
                        /\ WF_allvars(DaemonStep(Acknowledged(t)))
    /\ \A r \in Recs : WF_allvars(DaemonStep(Recovers(r)))
    /\ WF_allvars(Boots /\ UNCHANGED <<world, wish>>)

-----------------------------------------------------------------------------
(* Nothing is under way and the poll has caught up.                        *)
AtRest ==
    /\ machine = "up"
    /\ stable = dpms
    /\ \A t \in Slots : pc[t] = "idle"
    /\ \A r \in Recs : ~ Live(r)

(* At rest with the desktop on, the panel is lit and the daemon knows it,  *)
(* after any interleaving of blanks, suspends and resumes with a recovery. *)
RestsLit == AtRest /\ dpms = "On" => tv = "lit" /\ state = "ON"

(* At rest with the desktop off, no panel is left lit.  Excepted is a      *)
(* recovery that a blank cut short with its last command unanswered: that  *)
(* blank is dropped, as the state was not ON yet.                          *)
RestsDark == AtRest /\ dpms = "Off" /\ ~ doubt => tv # "lit" /\ state # "ON"

(* The machine sleeps only after the TV was powered off.  Excepted are a   *)
(* power-down that got no answer, and an unblank that was handled after    *)
(* the suspend, before the machine was asleep.                             *)
SleepsDark ==
    machine = "asleep" /\ down /\ ~ doubt => tv = "off" /\ state = "POWERED_OFF"

(* Once the desktop stays on, the panel lights up and stays lit.           *)
PanelFollows ==
    <>[](dpms = "On" /\ machine = "up") => <>[](tv = "lit")

(* Nothing that was asked before the last event still moves the TV: no     *)
(* cancelled recovery lights or wakes it after a blank or a suspend, no    *)
(* blank still in flight darkens it after a suspend and its resume.        *)
Follower == INSTANCE TvFollower
LastEventRules == Follower!FollowerSpec
=============================================================================
