------------------------------- MODULE Daemon -------------------------------
(***************************************************************************)
(* The state machine of daemon.py: it turns the display events of the      *)
(* desktop (blank, unblank, suspend, resume, shutdown) into commands for   *)
(* one TV.  asyncio runs one task at a time, so an action is the code      *)
(* between two awaits.  Everything that calls Daemon.dispatch is a slot;   *)
(* dispatches queue on the FIFO asyncio.Lock, and at most one of them is   *)
(* inside a handler.  The recovery task (_recover) runs beside them and    *)
(* takes the same lock only for its last step, _settle_awake.              *)
(*                                                                         *)
(* A client call is an await: it starts with the action that reaches it    *)
(* and ends with a "...Returns" action that acknowledges it or fails it.   *)
(* A failed or cancelled call may still have taken effect on the TV.       *)
(* The delays and time-outs of the code are the free choice of when a      *)
(* call fails and when a recovery gives up; MaxTries stands for the        *)
(* 300 s recover_budget.                                                   *)
(***************************************************************************)
EXTENDS Naturals, Sequences, SequencesExt

CONSTANTS
    Slots,          \* concurrent calls of dispatch (DRM poll, D-Bus signal tasks)
    Recs,           \* identities of recovery tasks
    Nobody,         \* "no task": a free lock, _recovery = None
    MaxTries,       \* attempts one recovery fits into its budget
    HasMac,         \* a MAC is configured, so Wake-on-LAN can be sent
    StartPanels     \* what the TV may be doing when the daemon starts

ASSUME DaemonAssumption ==
    /\ Slots \cap Recs = {}
    /\ Nobody \notin Slots \cup Recs
    /\ MaxTries \in Nat \ {0}
    /\ HasMac \in BOOLEAN
    /\ StartPanels \subseteq {"lit", "dark", "off"}

VARIABLES
    state,      \* Daemon._state
    lock,       \* the holder of Daemon._lock
    waiters,    \* its FIFO of waiting tasks
    pc,         \* where each slot is: idle, waiting for the lock with an event,
                \* or inside the handler, awaiting a client call
    recovery,   \* Daemon._recovery
    rpc,        \* where each recovery task is
    cancelled,  \* tasks whose cancel() was called and not yet delivered
    tries,      \* attempts a recovery has begun
    stage,      \* open, stopping (triggers cancelled), closing (aclose called)
    tv,         \* the TV: lit, dark (panel off), off (powered down), booting
    \* History variables, read by the properties only:
    doubt,      \* a command was sent whose outcome state does not record
    down,       \* a suspend or shutdown was handled, and no wake-up since
    swallowed   \* some cancel() was lost on its way to a recovery

tasks == <<lock, waiters, pc>>
recs  == <<recovery, rpc, cancelled, tries>>
vars  == <<state, lock, waiters, pc, recovery, rpc, cancelled, tries,
           stage, tv, doubt, down, swallowed>>

Owners == Slots \cup Recs
Events == {"BLANK", "UNBLANK", "SUSPEND", "RESUME", "SHUTDOWN"}
States == {"ON", "SCREEN_OFF", "POWERED_OFF"}
Panels == {"lit", "dark", "off", "booting"}
Calls  == {"blank", "ensure", "settle", "down"}
RecPCs == {"dead", "net", "burst", "teardown", "reach", "sleep", "lock", "settle"}

TypeOK ==
    /\ state \in States
    /\ lock \in Owners \cup {Nobody}
    /\ waiters \in Seq(Owners)
    /\ pc \in [Slots -> {"idle"} \cup Events \cup Calls]
    /\ recovery \in Recs \cup {Nobody}
    /\ rpc \in [Recs -> RecPCs]
    /\ cancelled \subseteq Recs
    /\ tries \in [Recs -> 0 .. MaxTries]
    /\ stage \in {"open", "stopping", "closing"}
    /\ tv \in Panels
    /\ doubt \in BOOLEAN
    /\ down \in BOOLEAN
    /\ swallowed \in BOOLEAN

(***************************************************************************)
(* Daemon.__init__: the state is taken to be ON, whatever the TV does.     *)
(***************************************************************************)
Init ==
    /\ state = "ON"
    /\ lock = Nobody
    /\ waiters = << >>
    /\ pc = [t \in Slots |-> "idle"]
    /\ recovery = Nobody
    /\ rpc = [r \in Recs |-> "dead"]
    /\ cancelled = {}
    /\ tries = [r \in Recs |-> 0]
    /\ stage = "open"
    /\ tv \in StartPanels
    /\ doubt = TRUE
    /\ down = FALSE
    /\ swallowed = FALSE

-----------------------------------------------------------------------------
(* The TV: what a command that failed may have done all the same.          *)

Reachable == tv \in {"lit", "dark"}
MaybeDone(panel) == IF Reachable THEN {tv, panel} ELSE {tv}
MaybeWoken == IF tv = "off" THEN {"off", "booting"} ELSE {tv}

(* ensure_on inside a handler sends Wake-on-LAN itself when it has a MAC.  *)
MaybeEnsured == MaybeDone("lit") \cup (IF HasMac THEN MaybeWoken ELSE {})

(* ensure_on that returns has had its turnOnScreen answered, or            *)
(* _unblank_resilient used up its three tries and returned like a success, *)
(* on a connection that was stale or broke, with the TV in any condition.  *)
Lit      == tv' = "lit" /\ doubt' = FALSE
Unsure   == tv' \in MaybeDone("lit") /\ doubt' = TRUE

-----------------------------------------------------------------------------
(* The lock and the recovery task, as the handlers use them.               *)

Granted(o) == lock = Nobody /\ waiters # << >> /\ Head(waiters) = o

Handling(t, event) ==
    /\ pc[t] = event
    /\ Granted(t)
    /\ waiters' = Tail(waiters)

Await(t, call) == lock' = t /\ pc' = [pc EXCEPT ![t] = call]
Finish(t)      == lock' = Nobody /\ pc' = [pc EXCEPT ![t] = "idle"]

LeaveQueue(o) ==
    \E i \in DOMAIN waiters : waiters[i] = o /\ waiters' = RemoveAt(waiters, i)

Live(r) == rpc[r] # "dead"
Running == recovery # Nobody /\ Live(recovery)

(* Mutant of CancelRecovery: the reference is dropped, the task runs on.   *)
ForgetRecovery == UNCHANGED <<cancelled, doubt, tv>>

(* task.cancel(): the task notices when it next runs.  What its call in    *)
(* flight does to the panel is decided here, since a later command follows *)
(* it on the same connection.                                              *)
CancelRecovery ==
    /\ cancelled' = IF Running THEN cancelled \cup {recovery} ELSE cancelled
    /\ doubt' = (doubt \/ (Running /\ rpc[recovery] # "net"))
    /\ tv' \in IF Running /\ rpc[recovery] = "reach" THEN MaybeDone("lit")
               ELSE IF Running /\ rpc[recovery] = "settle" THEN MaybeDone("dark")
               ELSE {tv}

StartRecovery ==
    \E r \in Recs :
        /\ ~ Live(r)
        /\ recovery' = r
        /\ rpc' = [rpc EXCEPT ![r] = "net"]
        /\ UNCHANGED tries

-----------------------------------------------------------------------------
(* dispatch: a caller takes its place in the queue of the lock.            *)
Dispatch(t, event) ==
    /\ pc[t] = "idle"
    /\ pc' = [pc EXCEPT ![t] = event]
    /\ waiters' = Append(waiters, t)
    /\ UNCHANGED <<state, lock, recs, stage, tv, doubt, down, swallowed>>

(* Mutant of OnBlank: it lets a running recovery go on.                    *)
OnBlankBeside(t) ==
    /\ Handling(t, "BLANK")
    /\ \/ state = "ON" /\ Await(t, "blank")
       \/ state # "ON" /\ Finish(t)
    /\ UNCHANGED <<state, recs, stage, tv, doubt, down, swallowed>>

(* _on_blank *)
OnBlank(t) ==
    /\ Handling(t, "BLANK")
    /\ CancelRecovery
    /\ recovery' = Nobody
    /\ \/ state = "ON" /\ Await(t, "blank")
       \/ state # "ON" /\ Finish(t)
    /\ UNCHANGED <<state, rpc, tries, stage, down, swallowed>>

(* Mutant of BlankReturns: the lock is not released when the call failed.  *)
BlankReturnsLocked(t) ==
    /\ pc[t] = "blank"
    /\ \/ Reachable /\ tv' = "dark" /\ state' = "SCREEN_OFF" /\ doubt' = FALSE /\ lock' = Nobody
       \/ tv' \in MaybeDone("dark") /\ doubt' = TRUE /\ UNCHANGED <<state, lock>>
    /\ pc' = [pc EXCEPT ![t] = "idle"]
    /\ UNCHANGED <<waiters, recs, stage, down, swallowed>>

BlankReturns(t) ==
    /\ pc[t] = "blank"
    /\ \/ Reachable /\ tv' = "dark" /\ state' = "SCREEN_OFF" /\ doubt' = FALSE
       \/ tv' \in MaybeDone("dark") /\ doubt' = TRUE /\ UNCHANGED state
    /\ Finish(t)
    /\ UNCHANGED <<waiters, recs, stage, down, swallowed>>

(* Mutant of OnUnblank: a TV that is powered off is left to the resume.    *)
OnUnblankLeavesOff(t) ==
    /\ Handling(t, "UNBLANK")
    /\ \/ state # "SCREEN_OFF" /\ Finish(t)
       \/ state = "SCREEN_OFF" /\ Await(t, "ensure")
    /\ down' = FALSE
    /\ UNCHANGED <<state, recs, tv, doubt, stage, swallowed>>

(* _on_unblank *)
OnUnblank(t) ==
    /\ Handling(t, "UNBLANK")
    /\ \/ /\ state = "ON"
          /\ CancelRecovery
          /\ recovery' = Nobody
          /\ Finish(t)
          /\ UNCHANGED <<rpc, tries>>
       \/ /\ state # "ON" /\ Running
          /\ Finish(t)
          /\ UNCHANGED <<recs, tv, doubt>>
       \/ /\ state = "POWERED_OFF" /\ ~ Running
          /\ StartRecovery
          /\ Finish(t)
          /\ UNCHANGED <<cancelled, tv, doubt>>
       \/ /\ state = "SCREEN_OFF" /\ ~ Running
          /\ Await(t, "ensure")
          /\ UNCHANGED <<recs, tv, doubt>>
    /\ down' = FALSE
    /\ UNCHANGED <<state, stage, swallowed>>

EnsureReturns(t) ==
    /\ pc[t] = "ensure"
    /\ \/ /\ \/ (Reachable \/ HasMac) /\ Lit
             \/ tv' \in MaybeEnsured /\ doubt' = TRUE
          /\ \/ Await(t, "settle") /\ UNCHANGED state
             \/ Finish(t) /\ state' = "ON"
          /\ UNCHANGED recs
       \/ /\ tv' \in MaybeEnsured
          /\ doubt' = TRUE
          /\ StartRecovery
          /\ Finish(t)
          /\ UNCHANGED <<state, cancelled>>
    /\ UNCHANGED <<waiters, stage, down, swallowed>>

(* Mutant of Settled: without its return, the state ends up ON after all.  *)
SettledOn ==
    /\ state' = "ON"
    /\ \/ Reachable /\ tv' = "dark" /\ doubt' = FALSE
       \/ tv' \in MaybeDone("dark") /\ doubt' = TRUE

(* _settle_awake reads dpms, which may be On, Off or unreadable at that    *)
(* moment: with Off it turns the panel off again, otherwise the state is   *)
(* ON.  This is the first case's call returning.                           *)
Settled ==
    \/ Reachable /\ tv' = "dark" /\ state' = "SCREEN_OFF" /\ doubt' = FALSE
    \/ tv' \in MaybeDone("dark") /\ state' = "ON" /\ doubt' = TRUE

SettleReturns(t) ==
    /\ pc[t] = "settle"
    /\ Settled
    /\ Finish(t)
    /\ UNCHANGED <<waiters, recs, stage, down, swallowed>>

(* Mutant of PowerDown: a running recovery goes on.                        *)
PowerDownBeside(t, event) ==
    /\ Handling(t, event)
    /\ Await(t, "down")
    /\ UNCHANGED <<state, recs, stage, tv, doubt, down, swallowed>>

(* _on_suspend and _on_shutdown *)
PowerDown(t, event) ==
    /\ Handling(t, event)
    /\ CancelRecovery
    /\ recovery' = Nobody
    /\ Await(t, "down")
    /\ UNCHANGED <<state, rpc, tries, stage, down, swallowed>>

OnSuspend(t)  == PowerDown(t, "SUSPEND")
OnShutdown(t) == PowerDown(t, "SHUTDOWN")

DownReturns(t) ==
    /\ pc[t] = "down"
    /\ \/ Reachable /\ tv' = "off" /\ doubt' = FALSE
       \/ tv' \in MaybeDone("off") /\ doubt' = TRUE
    /\ state' = "POWERED_OFF"
    /\ down' = TRUE
    /\ Finish(t)
    /\ UNCHANGED <<waiters, recs, stage, swallowed>>

(* Mutant of OnResume: a second recovery is started beside the first.      *)
OnResumeBeside(t) ==
    /\ Handling(t, "RESUME")
    /\ StartRecovery
    /\ Finish(t)
    /\ down' = FALSE
    /\ UNCHANGED <<state, cancelled, stage, tv, doubt, swallowed>>

(* _on_resume *)
OnResume(t) ==
    /\ Handling(t, "RESUME")
    /\ CancelRecovery
    /\ StartRecovery
    /\ Finish(t)
    /\ down' = FALSE
    /\ UNCHANGED <<state, stage, swallowed>>

(* The caller of dispatch is cancelled: LogindWatcher._handle_bounded      *)
(* bounds suspend and shutdown by 3 s, the wait for the lock included (a   *)
(* free lock is granted at once), and a stopping daemon cancels the        *)
(* triggers that await dispatch.                                           *)
CallAborted(call) ==
    tv' \in CASE call = "down"   -> MaybeDone("off")
              [] call = "ensure" -> MaybeEnsured
              [] OTHER           -> MaybeDone("dark")

CancelDispatch(t) ==
    /\ \/ pc[t] \in {"SUSPEND", "SHUTDOWN"} /\ lock # Nobody
       \/ pc[t] = "down"
       \/ stage = "stopping" /\ pc[t] \in {"BLANK", "UNBLANK", "blank", "ensure", "settle"}
    /\ \/ /\ pc[t] \in Events
          /\ LeaveQueue(t)
          /\ pc' = [pc EXCEPT ![t] = "idle"]
          /\ UNCHANGED <<lock, tv, doubt>>
       \/ /\ pc[t] \in Calls
          /\ CallAborted(pc[t])
          /\ doubt' = TRUE
          /\ Finish(t)
          /\ UNCHANGED waiters
    /\ UNCHANGED <<state, recs, stage, down, swallowed>>

-----------------------------------------------------------------------------
(* _recover: wait for a route, then attempt after attempt until one        *)
(* reaches the TV or the budget is spent.                                  *)

At(r, place) == rpc[r] = place /\ r \notin cancelled
Move(r, place) == rpc' = [rpc EXCEPT ![r] = place]
Die(r) == Move(r, "dead") /\ tries' = [tries EXCEPT ![r] = 0]

(* ensure_on begins; a stale connection is torn down first.                *)
BeginReach(r) == \E place \in {"teardown", "reach"} : Move(r, place)

(* Mutant of Attempt: the loop does not look at its deadline.              *)
AttemptForever(r) ==
    /\ At(r, "net") \/ At(r, "sleep")
    /\ tries' = [tries EXCEPT ![r] = @ + 1]
    /\ BeginReach(r)
    /\ doubt' = TRUE
    /\ UNCHANGED <<state, tasks, recovery, cancelled, stage, tv, down, swallowed>>

(* The head of the loop: the first attempt always bursts, later ones when  *)
(* four seconds have passed since the last burst.                          *)
Attempt(r) ==
    /\ At(r, "net") \/ At(r, "sleep")
    /\ tries[r] < MaxTries
    /\ tries' = [tries EXCEPT ![r] = @ + 1]
    /\ \/ HasMac /\ tv' \in MaybeWoken /\ Move(r, "burst")
       \/ (HasMac => tries[r] > 0) /\ BeginReach(r) /\ UNCHANGED tv
    /\ doubt' = TRUE
    /\ UNCHANGED <<state, tasks, recovery, cancelled, stage, down, swallowed>>

BurstSent(r) ==
    /\ At(r, "burst")
    /\ BeginReach(r)
    /\ UNCHANGED <<state, tasks, recovery, cancelled, tries, stage, tv,
                   doubt, down, swallowed>>

TornDown(r) ==
    /\ At(r, "teardown")
    /\ Move(r, "reach")
    /\ UNCHANGED <<state, tasks, recovery, cancelled, tries, stage, tv,
                   doubt, down, swallowed>>

(* The budget is spent, the network never came, or send_wol_burst raised   *)
(* (it is called outside the try).                                         *)
GiveUp(r) ==
    /\ At(r, "net") \/ At(r, "sleep") \/ At(r, "burst")
    /\ Die(r)
    /\ UNCHANGED <<state, tasks, recovery, cancelled, stage, tv, doubt, down,
                   swallowed>>

(* Mutant of ReachReturns: the budget starts again after every failure.    *)
ReachReturnsAfresh(r) ==
    /\ At(r, "reach")
    /\ \/ Reachable /\ Move(r, "lock") /\ waiters' = Append(waiters, r) /\ UNCHANGED tries
       \/ Move(r, "sleep") /\ tries' = [tries EXCEPT ![r] = 0] /\ UNCHANGED waiters
    /\ UNCHANGED tv
    /\ doubt' = TRUE
    /\ UNCHANGED <<state, lock, pc, recovery, cancelled, stage, down, swallowed>>

ReachReturns(r) ==
    /\ At(r, "reach")
    /\ \/ /\ (Reachable /\ Lit) \/ Unsure
          /\ Move(r, "lock")
          /\ waiters' = Append(waiters, r)
       \/ /\ Unsure
          /\ Move(r, "sleep")
          /\ UNCHANGED waiters
    /\ UNCHANGED <<state, lock, pc, recovery, cancelled, tries, stage,
                   down, swallowed>>

RecSettles(r) ==
    /\ At(r, "lock")
    /\ Granted(r)
    /\ waiters' = Tail(waiters)
    /\ \/ lock' = r /\ Move(r, "settle") /\ UNCHANGED <<state, tries>>
       \/ lock' = Nobody /\ Die(r) /\ state' = "ON"
    /\ UNCHANGED <<pc, recovery, cancelled, stage, tv, doubt, down, swallowed>>

RecSettleReturns(r) ==
    /\ At(r, "settle")
    /\ Settled
    /\ lock' = Nobody
    /\ Die(r)
    /\ UNCHANGED <<waiters, pc, recovery, cancelled, stage, down, swallowed>>

(* Mutant of Unwind: the lock is released by a plain statement at the end. *)
UnwindHolding(r) ==
    /\ r \in cancelled
    /\ cancelled' = cancelled \ {r}
    /\ Die(r)
    /\ \/ rpc[r] = "lock" /\ LeaveQueue(r)
       \/ rpc[r] # "lock" /\ UNCHANGED waiters
    /\ UNCHANGED <<state, lock, pc, recovery, stage, tv, doubt, down, swallowed>>

(* The CancelledError arrives and ends the task, ...                       *)
Unwind(r) ==
    /\ r \in cancelled
    /\ cancelled' = cancelled \ {r}
    /\ Die(r)
    /\ \/ rpc[r] = "lock" /\ LeaveQueue(r) /\ UNCHANGED lock
       \/ rpc[r] = "settle" /\ lock' = Nobody /\ UNCHANGED waiters
       \/ rpc[r] \notin {"lock", "settle"} /\ UNCHANGED <<lock, waiters>>
    /\ UNCHANGED <<state, pc, recovery, stage, tv, doubt, down,
                   swallowed>>

(* ... or it is lost: WebOsClient._teardown catches it around the gather   *)
(* of its reader, and wait_for drops it when the attempt has just ended    *)
(* (Python 3.11).  The task goes on, and nothing refers to it any more.    *)
(* Bound: one lost cancel in a behaviour.                                  *)
CancelLost(r) ==
    /\ r \in cancelled
    /\ rpc[r] \in {"teardown", "reach"}
    /\ ~ swallowed
    /\ cancelled' = cancelled \ {r}
    /\ Move(r, "reach")
    /\ swallowed' = TRUE
    /\ UNCHANGED <<state, tasks, recovery, tries, stage, tv, doubt, down>>

-----------------------------------------------------------------------------
(* The end of _cmd_run: the triggers are cancelled, then aclose.           *)
Stop ==
    /\ stage = "open"
    /\ stage' = "stopping"
    /\ UNCHANGED <<state, tasks, recs, tv, doubt, down, swallowed>>

Aclose ==
    /\ stage = "stopping"
    /\ stage' = "closing"
    /\ CancelRecovery
    /\ recovery' = Nobody
    /\ UNCHANGED <<state, tasks, rpc, tries, down, swallowed>>

(* The environment: a TV woken by Wake-on-LAN is up after a while.          *)
Boots ==
    /\ tv = "booting"
    /\ tv' \in {"lit", "dark"}
    /\ UNCHANGED <<state, tasks, recs, stage, doubt, down, swallowed>>

Handle(t) == OnBlank(t) \/ OnUnblank(t) \/ OnSuspend(t) \/ OnShutdown(t) \/ OnResume(t)
Return(t) == BlankReturns(t) \/ EnsureReturns(t) \/ SettleReturns(t) \/ DownReturns(t)
Recover(r) == \/ Attempt(r) \/ BurstSent(r) \/ TornDown(r) \/ GiveUp(r)
              \/ ReachReturns(r) \/ RecSettles(r) \/ RecSettleReturns(r)

Next ==
    \/ \E t \in Slots : \/ \E event \in Events : Dispatch(t, event)
                        \/ Handle(t) \/ Return(t) \/ CancelDispatch(t)
    \/ \E r \in Recs : Recover(r) \/ Unwind(r) \/ CancelLost(r)
    \/ Stop \/ Aclose \/ Boots

Spec == Init /\ [][Next]_vars

(* Every await of the code is bounded by a time-out or by the FIFO lock,   *)
(* and asyncio runs every task that is ready, so no task stands still.     *)
Fairness ==
    /\ \A t \in Slots : WF_vars(Handle(t)) /\ WF_vars(Return(t))
    /\ \A r \in Recs : WF_vars(Recover(r)) /\ WF_vars(Unwind(r) \/ CancelLost(r))

FairSpec == Spec /\ Fairness

-----------------------------------------------------------------------------
(* Safety.                                                                 *)

Alive == {r \in Recs : Live(r) /\ r \notin cancelled}
InCall(t) == pc[t] \in Calls

(* The one recovery that can still act is the one _recovery names: starting*)
(* one cancels the other first (_start_recovery, _cancel_recovery).        *)
OneRecovery == swallowed \/ (Alive \subseteq {recovery})

(* "don't start a competing attempt" (daemon.py:86-87): while a handler    *)
(* awaits the TV no recovery is at work on it as well.                     *)
NoCompetingAttempt ==
    swallowed \/ ((\E t \in Slots : InCall(t)) => Alive = {})

(* A handled suspend or shutdown is final until a resume or an unblank: no *)
(* recovery that was under way puts the state back or wakes the TV.        *)
StaysDown == down /\ ~ swallowed => state = "POWERED_OFF" /\ Alive = {}

(* When nothing is under way and every command was acknowledged, _state    *)
(* says what the TV really does; the next event is decided on _state.      *)
Shows == [ON |-> "lit", SCREEN_OFF |-> "dark", POWERED_OFF |-> "off"]
Quiet == lock = Nobody /\ Alive = {}
BeliefSound == Quiet /\ ~ doubt /\ ~ swallowed => tv = Shows[state]

(* After a handled suspend or shutdown the daemon itself never wakes a TV  *)
(* that is off: no burst of a cancelled recovery is sent any more.         *)
TvStaysOff == [][down /\ down' /\ ~ swallowed' /\ tv = "off" => tv' = "off"]_vars

(* "async with self._lock" around every handler and _settle_awake, and     *)
(* cancels at each of their awaits: whoever holds the lock is in a call    *)
(* that ends, and the queue has everybody who waits for it, once, and      *)
(* nobody else.  So nothing is left behind that would block every later    *)
(* event: no lock without a task to release it, no place in the queue      *)
(* without a task to take the lock.                                        *)
Waiting == {t \in Slots : pc[t] \in Events} \cup {r \in Recs : rpc[r] = "lock"}
Working == {t \in Slots : InCall(t)} \cup {r \in Recs : rpc[r] = "settle"}

LockSound ==
    /\ Working = {lock} \ {Nobody}
    /\ ToSet(waiters) = Waiting
    /\ IsInjective(waiters)

(* recover_budget (daemon.py:147-197): a recovery never gets further from  *)
(* its end, whatever fails, is cancelled or comes in between: each of its  *)
(* steps leaves fewer attempts, or fewer awaits of this one, ahead of it.  *)
Ahead == [dead |-> 0, settle |-> 1, lock |-> 2, sleep |-> 3, net |-> 3,
          reach |-> 4, teardown |-> 5, burst |-> 6]
Left(r) == IF Live(r) THEN 7 * (MaxTries - tries[r]) + Ahead[rpc[r]] ELSE 0

RecoveryAdvances ==
    [][\A r \in Recs : Live(r) => \/ rpc'[r] = rpc[r] /\ tries'[r] = tries[r]
                                  \/ Left(r)' < Left(r)]_vars

-----------------------------------------------------------------------------
(* Liveness, under FairSpec.                                               *)

(* Every dispatched event is handled (or its caller gave up): the FIFO     *)
(* lock starves nobody and no handler keeps it.                            *)
EventHandled == \A t \in Slots : pc[t] \in Events ~> pc[t] = "idle"

(* Every recovery ends: it reaches the TV and settles, spends its budget,  *)
(* or unwinds after a cancel, even while events keep taking the lock.      *)
RecoveryEnds == \A r \in Recs : Live(r) ~> ~ Live(r)

-----------------------------------------------------------------------------
(* What a test asserts of the code, and the code does not always do.       *)

(* tests/test_daemon.py:163-164: after a suspend the recovery is cancelled *)
(* or done, and the state is POWERED_OFF.                                  *)
SuspendEndsRecovery == down => state = "POWERED_OFF" /\ Alive = {}
=============================================================================
