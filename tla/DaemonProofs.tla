---------------------------- MODULE DaemonProofs ----------------------------
(***************************************************************************)
(* What holds of Daemon for every number of slots and recoveries, with and *)
(* without a MAC, and for every budget.                                    *)
(*                                                                         *)
(* TypeOK is inductive as it stands.  OneRecovery, NoCompetingAttempt and  *)
(* StaysDown are not, not even together: that a handler starts its         *)
(* recovery alone rests on the lock (LockHeld), and that a power-down is   *)
(* final rests on the handlers that are in a call at the time (DownHolds). *)
(* BeliefSound further needs what a recovery knows at each of its places   *)
(* (Believed).  All of it is claimed only until a cancel is lost.          *)
(*                                                                         *)
(* LockSound is LockHeld and what the queue holds (FifoHolds), which rests *)
(* on what a queue is (QueueProofs); RecoveryAdvances needs the types      *)
(* alone.  Both hold after a lost cancel too.                              *)
(***************************************************************************)
EXTENDS Daemon, QueueProofs

-----------------------------------------------------------------------------
(* Types.                                                                  *)

(* A waiter leaves the queue of asyncio.Lock: a queue of tasks is left.    *)
LEMMA LeaveQueueType ==
    ASSUME waiters \in Seq(Owners), NEW o, LeaveQueue(o)
    PROVE  waiters' \in Seq(Owners)
BY Members, Without DEF LeaveQueue

(* _cancel_recovery keeps the types.                                       *)
LEMMA CancelType ==
    ASSUME TypeOK, CancelRecovery
    PROVE  cancelled' \subseteq Recs /\ doubt' \in BOOLEAN /\ tv' \in Panels
<1>1. cancelled' \subseteq Recs
    BY DEF TypeOK, CancelRecovery, Running
<1>2. tv' \in Panels
    BY DEF TypeOK, CancelRecovery, MaybeDone, Panels
<1>3. doubt' \in BOOLEAN
    BY Zenon DEF TypeOK, CancelRecovery
<1> QED BY <1>1, <1>2, <1>3

RecType ==
    /\ recovery \in Recs \cup {Nobody}
    /\ rpc \in [Recs -> RecPCs]
    /\ tries \in [Recs -> 0 .. MaxTries]

(* _start_recovery keeps the types of what names and places the recovery.  *)
LEMMA StartType ==
    ASSUME TypeOK, StartRecovery
    PROVE  RecType'
BY DEF TypeOK, StartRecovery, RecType, RecPCs

(* A recovery that goes from one await to the next stays at a known place. *)
LEMMA MoveType ==
    ASSUME TypeOK, NEW r \in Recs, NEW place \in RecPCs, Move(r, place)
    PROVE  rpc' \in [Recs -> RecPCs]
BY DEF TypeOK, Move

(* So does one that returns.                                               *)
LEMMA DieType ==
    ASSUME TypeOK, NEW r \in Recs, Die(r)
    PROVE  rpc' \in [Recs -> RecPCs] /\ tries' \in [Recs -> 0 .. MaxTries]
BY DaemonAssumption DEF TypeOK, Die, Move, RecPCs

(* _settle_awake ends in one of the three states.                          *)
LEMMA SettledType ==
    ASSUME TypeOK, Settled
    PROVE  tv' \in Panels /\ state' \in States /\ doubt' \in BOOLEAN
BY DEF TypeOK, Settled, MaybeDone, Panels, States

(* A handler takes its owner off the queue and awaits the TV or returns.   *)
LEMMA HandlerType ==
    ASSUME TypeOK, NEW t \in Slots, NEW event, Handling(t, event)
    PROVE  waiters' \in Seq(Owners)
<1>1. waiters \in Seq(Owners) /\ waiters # << >> /\ waiters' = Tail(waiters)
    BY DEF TypeOK, Handling, Granted
<1> QED
    BY <1>1

LEMMA LeavesType ==
    ASSUME TypeOK, NEW t \in Slots, NEW call \in Calls, Await(t, call) \/ Finish(t)
    PROVE  pc' \in [Slots -> {"idle"} \cup Events \cup Calls] /\ lock' \in Owners \cup {Nobody}
BY DEF TypeOK, Await, Finish, Owners

(* Daemon.__init__ builds a state of the right types, ...                  *)
LEMMA TypeInit == Init => TypeOK
<1> SUFFICES ASSUME Init PROVE TypeOK
    OBVIOUS
<1> USE DEF Init
<1>1. tries \in [Recs -> 0 .. MaxTries]
    BY DaemonAssumption
<1>2. tv \in Panels
    BY DaemonAssumption DEF Panels
<1>3. pc \in [Slots -> {"idle"} \cup Events \cup Calls] /\ rpc \in [Recs -> RecPCs]
    BY DEF RecPCs
<1>4. waiters \in Seq(Owners)
    BY EmptySeq
<1> QED
    BY <1>1, <1>2, <1>3, <1>4 DEF TypeOK, States

(* ... and every step of every task keeps them.                            *)
LEMMA TypeStep == TypeOK /\ [Next]_vars => TypeOK'
<1> SUFFICES ASSUME TypeOK, [Next]_vars PROVE TypeOK'
    OBVIOUS
<1> USE DEF TypeOK, tasks, recs
<1>1. ASSUME NEW t \in Slots, NEW event \in Events, Dispatch(t, event) PROVE TypeOK'
    BY <1>1, AppendProperties DEF Dispatch, Owners
<1>2. ASSUME NEW t \in Slots, OnBlank(t) PROVE TypeOK'
  <2>1. waiters' \in Seq(Owners)
    BY <1>2, HandlerType DEF OnBlank
  <2>2. pc' \in [Slots -> {"idle"} \cup Events \cup Calls] /\ lock' \in Owners \cup {Nobody}
    BY <1>2, LeavesType DEF OnBlank, Calls
  <2>3. cancelled' \subseteq Recs /\ doubt' \in BOOLEAN /\ tv' \in Panels
    BY <1>2, CancelType DEF OnBlank
  <2> QED
    BY <1>2, <2>1, <2>2, <2>3 DEF OnBlank
<1>3. ASSUME NEW t \in Slots, OnUnblank(t) PROVE TypeOK'
  <2>1. waiters' \in Seq(Owners)
    BY <1>3, HandlerType DEF OnUnblank
  <2>2. pc' \in [Slots -> {"idle"} \cup Events \cup Calls] /\ lock' \in Owners \cup {Nobody}
    BY <1>3, LeavesType DEF OnUnblank, Calls
  <2>3. RecType'
    BY <1>3, StartType DEF OnUnblank, RecType
  <2>4. cancelled' \subseteq Recs /\ doubt' \in BOOLEAN /\ tv' \in Panels
    BY <1>3, CancelType DEF OnUnblank
  <2> QED
    BY <1>3, <2>1, <2>2, <2>3, <2>4 DEF OnUnblank, RecType
<1>4. ASSUME NEW t \in Slots, NEW event \in Events, PowerDown(t, event) PROVE TypeOK'
  <2>1. waiters' \in Seq(Owners)
    BY <1>4, HandlerType DEF PowerDown
  <2>2. pc' \in [Slots -> {"idle"} \cup Events \cup Calls] /\ lock' \in Owners \cup {Nobody}
    BY <1>4, LeavesType DEF PowerDown, Calls
  <2>3. cancelled' \subseteq Recs /\ doubt' \in BOOLEAN /\ tv' \in Panels
    BY <1>4, CancelType DEF PowerDown
  <2> QED
    BY <1>4, <2>1, <2>2, <2>3 DEF PowerDown
<1>5. ASSUME NEW t \in Slots, OnResume(t) PROVE TypeOK'
  <2>1. waiters' \in Seq(Owners)
    BY <1>5, HandlerType DEF OnResume
  <2>2. RecType'
    BY <1>5, StartType DEF OnResume
  <2>3. cancelled' \subseteq Recs /\ doubt' \in BOOLEAN /\ tv' \in Panels
    BY <1>5, CancelType DEF OnResume
  <2> QED
    BY <1>5, <2>1, <2>2, <2>3 DEF OnResume, Finish, RecType
<1>6. ASSUME NEW t \in Slots, BlankReturns(t) PROVE TypeOK'
    BY <1>6 DEF BlankReturns, Finish, MaybeDone, Reachable, States, Panels
<1>7. ASSUME NEW t \in Slots, EnsureReturns(t) PROVE TypeOK'
  <2>1. pc' \in [Slots -> {"idle"} \cup Events \cup Calls] /\ lock' \in Owners \cup {Nobody}
    BY <1>7 DEF EnsureReturns, Await, Finish, Owners, Calls
  <2>2. RecType'
    BY <1>7, StartType DEF EnsureReturns, RecType
  <2>3. tv' \in Panels /\ doubt' \in BOOLEAN
    BY <1>7 DEF EnsureReturns, Lit, Unsure, MaybeEnsured, MaybeDone, MaybeWoken, Panels
  <2> QED
    BY <1>7, <2>1, <2>2, <2>3 DEF EnsureReturns, RecType, States
<1>8. ASSUME NEW t \in Slots, SettleReturns(t) PROVE TypeOK'
    BY <1>8, SettledType DEF SettleReturns, Finish
<1>9. ASSUME NEW t \in Slots, DownReturns(t) PROVE TypeOK'
    BY <1>9 DEF DownReturns, Finish, MaybeDone, Reachable, States, Panels
<1>10. ASSUME NEW t \in Slots, CancelDispatch(t) PROVE TypeOK'
    BY <1>10, LeaveQueueType DEF CancelDispatch, Finish, CallAborted, MaybeEnsured, MaybeDone, MaybeWoken, Reachable, Panels, Calls
<1>11. ASSUME NEW r \in Recs, Attempt(r) PROVE TypeOK'
  <2>1. rpc' \in [Recs -> RecPCs]
    BY <1>11, MoveType DEF Attempt, BeginReach, RecPCs
  <2>2. tries' \in [Recs -> 0 .. MaxTries]
    BY <1>11, DaemonAssumption DEF Attempt
  <2>3. tv' \in Panels
    BY <1>11 DEF Attempt, MaybeWoken, Panels
  <2> QED
    BY <1>11, <2>1, <2>2, <2>3 DEF Attempt
<1>12. ASSUME NEW r \in Recs, BurstSent(r) \/ TornDown(r) PROVE TypeOK'
    BY <1>12 DEF BurstSent, TornDown, BeginReach, Move, RecPCs
<1>13. ASSUME NEW r \in Recs, GiveUp(r) PROVE TypeOK'
    BY <1>13, DieType DEF GiveUp
<1>14. ASSUME NEW r \in Recs, ReachReturns(r) PROVE TypeOK'
  <2>1. rpc' \in [Recs -> RecPCs]
    BY <1>14, MoveType DEF ReachReturns, RecPCs
  <2>2. waiters' \in Seq(Owners)
    BY <1>14, AppendProperties DEF ReachReturns, Owners
  <2>3. tv' \in Panels /\ doubt' \in BOOLEAN
    BY <1>14 DEF ReachReturns, Lit, Unsure, MaybeDone, Panels
  <2> QED
    BY <1>14, <2>1, <2>2, <2>3 DEF ReachReturns
<1>15. ASSUME NEW r \in Recs, RecSettles(r) PROVE TypeOK'
  <2>1. rpc' \in [Recs -> RecPCs] /\ tries' \in [Recs -> 0 .. MaxTries]
    BY <1>15, MoveType, DieType DEF RecSettles, RecPCs
  <2> QED
    BY <1>15, <2>1 DEF RecSettles, Granted, Owners, States
<1>16. ASSUME NEW r \in Recs, RecSettleReturns(r) PROVE TypeOK'
    BY <1>16, DieType, SettledType DEF RecSettleReturns
<1>17. ASSUME NEW r \in Recs, Unwind(r) PROVE TypeOK'
    BY <1>17, LeaveQueueType, DieType DEF Unwind
<1>18. ASSUME NEW r \in Recs, CancelLost(r) PROVE TypeOK'
    BY <1>18, MoveType DEF CancelLost, RecPCs
<1>19. CASE Stop
    BY <1>19 DEF Stop
<1>20. CASE Aclose
    BY <1>20, CancelType DEF Aclose
<1>21. CASE Boots
    BY <1>21 DEF Boots, Panels
<1>22. CASE UNCHANGED vars
    BY <1>22 DEF vars
<1> HIDE DEF TypeOK, tasks, recs
<1> QED
    BY <1>1, <1>2, <1>3, <1>4, <1>5, <1>6, <1>7, <1>8, <1>9, <1>10, <1>11, <1>12,
       <1>13, <1>14, <1>15, <1>16, <1>17, <1>18, <1>19, <1>20, <1>21, <1>22
    DEF Next, Handle, Return, Recover, OnSuspend, OnShutdown, Events

-----------------------------------------------------------------------------
(* The holder of the lock is the one task inside a handler or settling.    *)
LockHeld ==
    /\ \A t \in Slots : InCall(t) <=> lock = t
    /\ \A r \in Recs : rpc[r] = "settle" <=> lock = r

(* A recovery that starts does not settle yet, nor did its identity.       *)
LEMMA NewIsQuiet ==
    ASSUME TypeOK, StartRecovery
    PROVE  \A r \in Recs : rpc'[r] = "settle" <=> rpc[r] = "settle"
BY DEF TypeOK, StartRecovery, Live

(* asyncio.Lock excludes: every step keeps LockHeld.                       *)
LEMMA LockStep == TypeOK /\ LockHeld /\ [Next]_vars => LockHeld'
<1> SUFFICES ASSUME TypeOK, LockHeld, [Next]_vars PROVE LockHeld'
    OBVIOUS
<1> USE DaemonAssumption DEF TypeOK, LockHeld, InCall, tasks, recs, Calls, Events
<1>1. ASSUME NEW t \in Slots, NEW event \in Events, Dispatch(t, event) PROVE LockHeld'
    BY <1>1 DEF Dispatch
<1>2. ASSUME NEW t \in Slots, OnBlank(t) PROVE LockHeld'
    BY <1>2 DEF OnBlank, Handling, Granted, Await, Finish
<1>3. ASSUME NEW t \in Slots, OnUnblank(t) PROVE LockHeld'
    BY <1>3 DEF OnUnblank, Handling, Granted, Await, Finish, StartRecovery
<1>4. ASSUME NEW t \in Slots, NEW event \in Events, PowerDown(t, event) PROVE LockHeld'
    BY <1>4 DEF PowerDown, Handling, Granted, Await, Finish
<1>5. ASSUME NEW t \in Slots, OnResume(t) PROVE LockHeld'
    BY <1>5 DEF OnResume, Handling, Granted, Finish, StartRecovery
<1>6. ASSUME NEW t \in Slots, BlankReturns(t) \/ SettleReturns(t) \/ DownReturns(t) PROVE LockHeld'
    BY <1>6 DEF BlankReturns, SettleReturns, DownReturns, Finish
<1>7. ASSUME NEW t \in Slots, EnsureReturns(t) PROVE LockHeld'
  <2>1. lock = t
    BY <1>7 DEF EnsureReturns
  <2>2. \A r \in Recs : rpc'[r] = "settle" <=> rpc[r] = "settle"
    BY <1>7, NewIsQuiet DEF EnsureReturns
  <2>3. Await(t, "settle") \/ Finish(t)
    BY <1>7 DEF EnsureReturns
  <2>4. CASE Await(t, "settle")
    BY <2>1, <2>2, <2>4 DEF Await
  <2>5. CASE Finish(t)
    BY <2>1, <2>2, <2>5 DEF Finish
  <2> QED
    BY <2>3, <2>4, <2>5
<1>8. ASSUME NEW t \in Slots, CancelDispatch(t) PROVE LockHeld'
    BY <1>8 DEF CancelDispatch, Finish
<1>9. ASSUME NEW r \in Recs, Attempt(r) \/ BurstSent(r) \/ TornDown(r) \/ GiveUp(r) PROVE LockHeld'
    BY <1>9 DEF Attempt, BurstSent, TornDown, GiveUp, BeginReach, At, Move, Die
<1>10. ASSUME NEW r \in Recs, ReachReturns(r) \/ CancelLost(r) PROVE LockHeld'
    BY <1>10 DEF ReachReturns, CancelLost, At, Move
<1>11. ASSUME NEW r \in Recs, RecSettles(r) PROVE LockHeld'
    BY <1>11 DEF RecSettles, Granted, Move, Die
<1>12. ASSUME NEW r \in Recs, RecSettleReturns(r) PROVE LockHeld'
    BY <1>12 DEF RecSettleReturns, At, Move, Die
<1>13. ASSUME NEW r \in Recs, Unwind(r) PROVE LockHeld'
    BY <1>13 DEF Unwind, Move, Die
<1>14. CASE Stop \/ Aclose \/ Boots \/ UNCHANGED vars
    BY <1>14 DEF Stop, Aclose, Boots, vars
<1> HIDE DEF TypeOK, LockHeld, InCall, tasks, recs, Calls
<1> QED
    BY <1>1, <1>2, <1>3, <1>4, <1>5, <1>6, <1>7, <1>8, <1>9, <1>10, <1>11, <1>12,
       <1>13, <1>14
    DEF Next, Handle, Return, Recover, OnSuspend, OnShutdown

-----------------------------------------------------------------------------
(* No recovery is at work; only the one _recovery names is; none beside a  *)
(* handler that awaits the TV; none after a power-down, which no handler   *)
(* that would change the state is in the way of either.                    *)
NoneAlive == \A r \in Recs : r \in cancelled \/ ~ Live(r)
Single    == \A r \in Recs : r \in cancelled \/ ~ Live(r) \/ r = recovery
Alone     == \A t \in Slots : InCall(t) => NoneAlive
DownHolds ==
    down => /\ state = "POWERED_OFF"
            /\ NoneAlive
            /\ \A t \in Slots : InCall(t) => pc[t] = "down"

Exclusive == Single /\ Alone /\ DownHolds

(* Every step keeps the recoveries apart until a cancel is lost: whoever   *)
(* starts one holds the lock and has cancelled the other or found none.    *)
LEMMA ExclusiveStep ==
    TypeOK /\ LockHeld /\ (swallowed \/ Exclusive) /\ [Next]_vars => (swallowed \/ Exclusive)'
<1> SUFFICES ASSUME TypeOK, LockHeld, swallowed \/ Exclusive, [Next]_vars, ~ swallowed'
             PROVE  Exclusive'
    BY DEF TypeOK
<1>0. ASSUME ~ swallowed PROVE Exclusive
    BY <1>0
<1> USE DaemonAssumption DEF TypeOK, LockHeld, Exclusive, Single, Alone, DownHolds, NoneAlive, InCall, Live, tasks, recs, Calls, Events
<1>1. ASSUME NEW t \in Slots, NEW event \in Events, Dispatch(t, event) PROVE Exclusive'
    BY <1>1, <1>0 DEF Dispatch
<1>2. ASSUME NEW t \in Slots, OnBlank(t) PROVE Exclusive'
    BY <1>2, <1>0 DEF OnBlank, Handling, Granted, Await, Finish, CancelRecovery, Running
<1>3. ASSUME NEW t \in Slots, OnUnblank(t) PROVE Exclusive'
    BY <1>3, <1>0 DEF OnUnblank, Handling, Granted, Await, Finish, StartRecovery, CancelRecovery, Running
<1>4. ASSUME NEW t \in Slots, NEW event \in Events, PowerDown(t, event) PROVE Exclusive'
    BY <1>4, <1>0 DEF PowerDown, Handling, Granted, Await, Finish, CancelRecovery, Running
<1>5. ASSUME NEW t \in Slots, OnResume(t) PROVE Exclusive'
    BY <1>5, <1>0 DEF OnResume, Handling, Granted, Finish, StartRecovery, CancelRecovery, Running
<1>6. ASSUME NEW t \in Slots, BlankReturns(t) \/ SettleReturns(t) \/ DownReturns(t) PROVE Exclusive'
    BY <1>6, <1>0 DEF BlankReturns, SettleReturns, DownReturns, Finish
<1>7. ASSUME NEW t \in Slots, EnsureReturns(t) PROVE Exclusive'
    BY <1>7, <1>0 DEF EnsureReturns, Finish, Await, StartRecovery
<1>8. ASSUME NEW t \in Slots, CancelDispatch(t) PROVE Exclusive'
    BY <1>8, <1>0 DEF CancelDispatch, Finish
<1>9. ASSUME NEW r \in Recs, Attempt(r) \/ BurstSent(r) \/ TornDown(r) \/ GiveUp(r) PROVE Exclusive'
    BY <1>9, <1>0 DEF Attempt, BurstSent, TornDown, GiveUp, BeginReach, At, Move, Die
<1>10. ASSUME NEW r \in Recs, ReachReturns(r) PROVE Exclusive'
    BY <1>10, <1>0 DEF ReachReturns, At, Move
<1>11. ASSUME NEW r \in Recs, RecSettles(r) PROVE Exclusive'
    BY <1>11, <1>0 DEF RecSettles, Granted, At, Move, Die
<1>12. ASSUME NEW r \in Recs, RecSettleReturns(r) PROVE Exclusive'
    BY <1>12, <1>0 DEF RecSettleReturns, At, Move, Die
<1>13. ASSUME NEW r \in Recs, Unwind(r) PROVE Exclusive'
    BY <1>13, <1>0 DEF Unwind, Move, Die
<1>14. ASSUME NEW r \in Recs, CancelLost(r) PROVE Exclusive'
    BY <1>14 DEF CancelLost
<1>15. CASE Aclose
    BY <1>15, <1>0 DEF Aclose, CancelRecovery, Running
<1>16. CASE Stop \/ Boots \/ UNCHANGED vars
    BY <1>16, <1>0 DEF Stop, Boots, vars
<1> HIDE DEF TypeOK, LockHeld, Exclusive, Single, Alone, DownHolds, NoneAlive, InCall, Live, tasks, recs, Calls
<1> QED
    BY <1>1, <1>2, <1>3, <1>4, <1>5, <1>6, <1>7, <1>8, <1>9, <1>10, <1>11, <1>12,
       <1>13, <1>14, <1>15, <1>16
    DEF Next, Handle, Return, Recover, OnSuspend, OnShutdown

-----------------------------------------------------------------------------
(* Without doubt, the state is true when nothing is under way, ...         *)
BelievedIdle == lock = Nobody /\ NoneAlive /\ ~ doubt => tv = Shows[state]

(* ... a recovery that has sent nothing yet leaves it so, and one that     *)
(* waits for the lock to settle has lit the panel; ...                     *)
BelievedBy(r) ==
    Live(r) /\ r \notin cancelled /\ ~ doubt =>
        /\ rpc[r] \in {"net", "lock", "settle"}
        /\ rpc[r] = "net" => tv = Shows[state]
        /\ rpc[r] = "lock" => tv = "lit"

(* ... one that was cancelled while settling leaves doubt.                 *)
CancelledDoubt == \A r \in cancelled : lock = r => doubt /\ NoneAlive

Believed ==
    /\ BelievedIdle
    /\ \A r \in Recs : BelievedBy(r)
    /\ CancelledDoubt

(* _cancel_recovery raises doubt unless the state is true after it.        *)
LEMMA CancelBelieved ==
    ASSUME TypeOK, Exclusive, Believed, lock = Nobody, CancelRecovery, ~ doubt'
    PROVE  tv' = Shows[state] /\ ~ doubt
<1>1. ~ doubt /\ ~ (Running /\ rpc[recovery] # "net")
    BY DEF CancelRecovery
<1>2. tv' = tv
    BY <1>1 DEF CancelRecovery
<1>3. CASE Running
  <2>1. recovery \in Recs /\ Live(recovery) /\ rpc[recovery] = "net"
    BY <1>1, <1>3 DEF Running, TypeOK
  <2>2. CASE recovery \in cancelled
    <3>1. NoneAlive
        BY <2>2 DEF NoneAlive, Exclusive, Single
    <3> QED
        BY <3>1, <1>1, <1>2 DEF Believed, BelievedIdle, BelievedBy
  <2>3. CASE recovery \notin cancelled
    BY <2>1, <2>3, <1>1, <1>2 DEF Believed, BelievedIdle, BelievedBy
  <2> QED
    BY <2>2, <2>3
<1>4. CASE ~ Running
  <2>1. NoneAlive
    BY <1>4, DaemonAssumption DEF NoneAlive, Exclusive, Single, Running, TypeOK
  <2> QED
    BY <2>1, <1>1, <1>2 DEF Believed, BelievedIdle, BelievedBy
<1> QED
    BY <1>3, <1>4

(* _cancel_recovery with no start after it leaves no recovery at work.     *)
LEMMA CancelNone ==
    ASSUME TypeOK, Exclusive, CancelRecovery, recovery' = Nobody, UNCHANGED rpc
    PROVE  NoneAlive'
BY DaemonAssumption DEF TypeOK, Exclusive, Single, CancelRecovery, NoneAlive, Live, Running

(* With no recovery at work only the first part of Believed is left.       *)
LEMMA QuietBelieved ==
    ASSUME TypeOK', NoneAlive', lock' \notin Recs,
           lock' = Nobody /\ ~ doubt' => tv' = Shows[state']
    PROVE  Believed'
BY DEF TypeOK, NoneAlive, Believed, BelievedIdle, BelievedBy, CancelledDoubt

(* Every step keeps Believed.                                              *)
LEMMA BelievedStep ==
    ASSUME TypeOK, LockHeld, Exclusive, Believed, [Next]_vars, ~ swallowed'
    PROVE  Believed'
<1> USE DaemonAssumption DEF TypeOK, LockHeld, Exclusive, Single, Alone, NoneAlive, Believed, BelievedIdle, BelievedBy, CancelledDoubt, InCall, Live, tasks, recs, Calls, Events, Shows
<1>0. TypeOK'
    BY TypeStep
<1>1. ASSUME NEW t \in Slots, NEW event \in Events, Dispatch(t, event) PROVE Believed'
    BY <1>1 DEF Dispatch
<1>2. ASSUME NEW t \in Slots, OnBlank(t) PROVE Believed'
  <2>1. NoneAlive'
    BY <1>2, CancelNone DEF OnBlank
  <2>2. ~ doubt' => tv' = Shows[state']
    BY <1>2, CancelBelieved DEF OnBlank, Handling, Granted
  <2>3. lock' \notin Recs
    BY <1>2 DEF OnBlank, Await, Finish
  <2> QED
    BY <1>0, <2>1, <2>2, <2>3, QuietBelieved
<1>3. ASSUME NEW t \in Slots, OnUnblank(t) PROVE Believed'
    BY <1>3 DEF OnUnblank, Handling, Granted, Await, Finish, StartRecovery, CancelRecovery, Running, MaybeDone
<1>4. ASSUME NEW t \in Slots, NEW event \in Events, PowerDown(t, event) PROVE Believed'
    BY <1>4 DEF PowerDown, Handling, Granted, Await, Finish, CancelRecovery, Running, MaybeDone
<1>5. ASSUME NEW t \in Slots, OnResume(t) PROVE Believed'
  <2>1. ~ doubt' => tv' = Shows[state']
    BY <1>5, CancelBelieved DEF OnResume, Handling, Granted
  <2>2. PICK n \in Recs : ~ Live(n) /\ recovery' = n /\ rpc' = [rpc EXCEPT ![n] = "net"]
    BY <1>5 DEF OnResume, StartRecovery
  <2>3. \A r \in Recs \ {n} : r \in cancelled' \/ ~ Live(r)'
    BY <1>5, <2>2 DEF OnResume, CancelRecovery, Running
  <2>4. lock' = Nobody
    BY <1>5 DEF OnResume, Finish
  <2>5. state' = state /\ rpc'[n] = "net"
    BY <1>5, <2>2 DEF OnResume
  <2>6. BelievedIdle' /\ CancelledDoubt'
    BY <1>0, <2>1, <2>4
  <2>7. ASSUME NEW r \in Recs PROVE BelievedBy(r)'
    BY <2>1, <2>3, <2>5
  <2> QED
    BY <2>6, <2>7
<1>6. ASSUME NEW t \in Slots, BlankReturns(t) PROVE Believed'
    BY <1>6 DEF BlankReturns, Finish
<1>6a. ASSUME NEW t \in Slots, SettleReturns(t) PROVE Believed'
    BY <1>6a DEF SettleReturns, Settled, Finish
<1>6b. ASSUME NEW t \in Slots, DownReturns(t) PROVE Believed'
    BY <1>6b DEF DownReturns, Finish
<1>7. ASSUME NEW t \in Slots, EnsureReturns(t) PROVE Believed'
  <2>1. NoneAlive /\ lock = t
    BY <1>7 DEF EnsureReturns
  <2>2. CASE StartRecovery /\ doubt' /\ Finish(t)
    BY <1>0, <2>2 DEF Finish
  <2>3. ASSUME Lit \/ doubt', UNCHANGED recs,
               Await(t, "settle") \/ (Finish(t) /\ state' = "ON")
        PROVE  Believed'
    <3>1. NoneAlive'
        BY <2>1, <2>3
    <3>2. lock' \notin Recs
        BY <2>3 DEF Await, Finish
    <3>3. lock' = Nobody /\ ~ doubt' => tv' = Shows[state']
      <4>1. ~ doubt' => tv' = "lit"
          BY <2>3 DEF Lit
      <4>2. lock' = Nobody => state' = "ON"
          BY <2>3 DEF Await, Finish
      <4> QED
          BY <2>3, <4>1, <4>2
    <3> QED
        BY <1>0, <3>1, <3>2, <3>3, QuietBelieved
  <2> QED
    BY <1>7, <2>2, <2>3 DEF EnsureReturns
<1>8. ASSUME NEW t \in Slots, CancelDispatch(t) PROVE Believed'
    BY <1>8 DEF CancelDispatch, Finish
<1>9. ASSUME NEW r \in Recs, Attempt(r) \/ BurstSent(r) \/ TornDown(r) PROVE Believed'
    BY <1>9 DEF Attempt, BurstSent, TornDown, BeginReach, At, Move
<1>9a. ASSUME NEW r \in Recs, GiveUp(r) PROVE Believed'
    BY <1>9a DEF GiveUp, At, Move, Die
<1>10. ASSUME NEW r \in Recs, ReachReturns(r) PROVE Believed'
  <2>1. lock \notin Recs \/ rpc[r] # "settle"
    BY <1>10 DEF ReachReturns, At
  <2>2. /\ ~ doubt' => tv' = "lit"
        /\ r \notin cancelled /\ rpc[r] = "reach"
        /\ UNCHANGED <<state, lock, pc, recovery, cancelled>>
    BY <1>10 DEF ReachReturns, Lit, Unsure, At
  <2>3. PICK place \in {"lock", "sleep"} :
            /\ rpc' = [rpc EXCEPT ![r] = place]
            /\ place = "sleep" => doubt'
    BY <1>10 DEF ReachReturns, Lit, Unsure, Move
  <2>4. rpc'[r] = place /\ \A q \in Recs \ {r} : rpc'[q] = rpc[q]
    BY <2>3
  <2>5. \A q \in Recs \ {r} : q \in cancelled \/ ~ Live(q)
    BY <2>2
  <2> QED
    BY <1>0, <2>1, <2>2, <2>3, <2>4, <2>5
<1>11. ASSUME NEW r \in Recs, RecSettles(r) PROVE Believed'
    BY <1>11 DEF RecSettles, Granted, At, Move, Die
<1>12. ASSUME NEW r \in Recs, RecSettleReturns(r) PROVE Believed'
    BY <1>12 DEF RecSettleReturns, Settled, At, Move, Die
<1>13. ASSUME NEW r \in Recs, Unwind(r) PROVE Believed'
    BY <1>13 DEF Unwind, Move, Die
<1>14. ASSUME NEW r \in Recs, CancelLost(r) PROVE Believed'
    BY <1>14 DEF CancelLost
<1>15. CASE Aclose
    BY <1>15 DEF Aclose, CancelRecovery, Running, MaybeDone
<1>16. CASE Stop \/ UNCHANGED vars
    BY <1>16 DEF Stop, vars
<1>17. CASE Boots
    BY <1>17 DEF Boots, States
<1> HIDE DEF TypeOK, LockHeld, Exclusive, Single, Alone, NoneAlive, Believed, BelievedIdle, BelievedBy, CancelledDoubt, InCall, Live, tasks, recs, Calls, Shows
<1> QED
    BY <1>1, <1>2, <1>3, <1>4, <1>5, <1>6, <1>6a, <1>6b, <1>7, <1>8, <1>9, <1>9a, <1>10, <1>11, <1>12,
       <1>13, <1>14, <1>15, <1>16, <1>17
    DEF Next, Handle, Return, Recover, OnSuspend, OnShutdown

-----------------------------------------------------------------------------
(* The inductive invariant.                                                *)
IInv ==
    /\ TypeOK
    /\ LockHeld
    /\ swallowed \/ (Exclusive /\ Believed)

(* A cancel that was lost stays lost.                                      *)
LEMMA SwallowedStays ==
    ASSUME [Next]_vars, ~ swallowed'
    PROVE  ~ swallowed
<1> USE DEF tasks, recs
<1>1. ASSUME NEW t \in Slots, NEW event \in Events, Dispatch(t, event) PROVE ~ swallowed
    BY <1>1 DEF Dispatch
<1>2. ASSUME NEW t \in Slots, Handle(t) PROVE ~ swallowed
    BY <1>2 DEF Handle, OnBlank, OnUnblank, OnSuspend, OnShutdown, PowerDown, OnResume
<1>3. ASSUME NEW t \in Slots, Return(t) \/ CancelDispatch(t) PROVE ~ swallowed
    BY <1>3 DEF Return, BlankReturns, EnsureReturns, SettleReturns, DownReturns, CancelDispatch
<1>4. ASSUME NEW r \in Recs, Recover(r) PROVE ~ swallowed
    BY <1>4 DEF Recover, Attempt, BurstSent, TornDown, GiveUp, ReachReturns, RecSettles, RecSettleReturns
<1>5. ASSUME NEW r \in Recs, Unwind(r) \/ CancelLost(r) PROVE ~ swallowed
    BY <1>5 DEF Unwind, CancelLost
<1>6. CASE Stop \/ Aclose \/ Boots \/ UNCHANGED vars
    BY <1>6 DEF Stop, Aclose, Boots, vars
<1> QED
    BY <1>1, <1>2, <1>3, <1>4, <1>5, <1>6 DEF Next

(* The invariant holds of a daemon that has just been built.               *)
LEMMA IInvInit == Init => IInv
<1> SUFFICES ASSUME Init PROVE IInv
    OBVIOUS
<1>1. TypeOK
    BY TypeInit
<1>2. LockHeld
    BY DaemonAssumption DEF Init, LockHeld, InCall, Calls
<1>3. Exclusive
    BY DEF Init, Exclusive, Single, Alone, DownHolds, InCall, Live, Calls
<1>4. Believed
    BY DEF Init, Believed, BelievedIdle, BelievedBy, CancelledDoubt
<1> QED
    BY <1>1, <1>2, <1>3, <1>4 DEF IInv

(* Every step of the daemon and of its environment keeps the invariant.    *)
LEMMA IInvStep == IInv /\ [Next]_vars => IInv'
<1> SUFFICES ASSUME IInv, [Next]_vars PROVE IInv'
    OBVIOUS
<1>1. TypeOK' /\ LockHeld'
    BY TypeStep, LockStep DEF IInv
<1>2. ASSUME ~ swallowed' PROVE Exclusive' /\ Believed'
  <2>1. Exclusive /\ Believed
    BY <1>2, SwallowedStays DEF IInv
  <2> QED
    BY <1>2, <2>1, ExclusiveStep, BelievedStep DEF IInv
<1> QED
    BY <1>1, <1>2 DEF IInv

(* The invariant holds in every state the daemon reaches.                  *)
THEOREM Inductive == Spec => []IInv
<1> QED
    BY IInvInit, IInvStep, PTL DEF Spec

(* Every variable keeps its type, and no recovery exceeds its budget.      *)
THEOREM TypeCorrect == Spec => []TypeOK
<1>1. IInv => TypeOK
    BY DEF IInv
<1> QED
    BY <1>1, Inductive, PTL

(* NoneAlive in terms of the set the properties speak of.                  *)
LEMMA AliveNone == NoneAlive <=> Alive = {}
BY DEF NoneAlive, Alive

(* daemon.py:135-144: no recovery is at work besides the one _recovery     *)
(* names, whatever resumes, blanks and unblanks overlap.                   *)
THEOREM OneRecoveryHolds == Spec => []OneRecovery
<1>1. IInv => OneRecovery
    BY DEF IInv, Exclusive, Single, OneRecovery, Alive
<1> QED
    BY <1>1, Inductive, PTL

(* daemon.py:85-88: a handler that awaits the TV has it for itself.        *)
THEOREM NoCompetingAttemptHolds == Spec => []NoCompetingAttempt
<1>1. IInv => NoCompetingAttempt
    BY AliveNone DEF IInv, Exclusive, Alone, NoCompetingAttempt
<1> QED
    BY <1>1, Inductive, PTL

(* daemon.py:104-115: after a handled suspend or shutdown the state stays  *)
(* POWERED_OFF and nothing is at work until a resume or an unblank.        *)
THEOREM StaysDownHolds == Spec => []StaysDown
<1>1. IInv => StaysDown
    BY AliveNone DEF IInv, Exclusive, DownHolds, StaysDown
<1> QED
    BY <1>1, Inductive, PTL

(* When nothing is under way and every command was acknowledged, _state    *)
(* is what the TV shows.                                                   *)
THEOREM BeliefSoundHolds == Spec => []BeliefSound
<1>1. IInv => BeliefSound
    BY AliveNone DEF IInv, Believed, BelievedIdle, BeliefSound, Quiet
<1> QED
    BY <1>1, Inductive, PTL

(* What TvStaysOff says of one step.                                       *)
DownStep == down /\ down' /\ ~ swallowed' /\ tv = "off" => tv' = "off"

(* A step after a power-down does not wake the TV: the handlers that could *)
(* are not in a call, and no recovery is at work.                          *)
LEMMA TvStaysOffStep == IInv /\ [Next]_vars => DownStep
<1> SUFFICES ASSUME IInv, [Next]_vars, down, down', ~ swallowed', tv = "off"
             PROVE  tv' = "off"
    BY DEF DownStep
<1>1. TypeOK /\ NoneAlive /\ \A t \in Slots : InCall(t) => pc[t] = "down"
    BY SwallowedStays DEF IInv, Exclusive, DownHolds
<1>2. ASSUME NEW panel PROVE MaybeDone(panel) = {"off"}
    BY DEF MaybeDone, Reachable
<1>3. ASSUME CancelRecovery PROVE tv' = "off"
    BY <1>2, <1>3 DEF CancelRecovery
<1>4. ASSUME NEW t \in Slots, NEW event \in Events, Dispatch(t, event) PROVE tv' = "off"
    BY <1>4 DEF Dispatch
<1>5. ASSUME NEW t \in Slots, Handle(t) PROVE tv' = "off"
    BY <1>3, <1>5 DEF Handle, OnBlank, OnUnblank, OnSuspend, OnShutdown, PowerDown, OnResume
<1>6. ASSUME NEW t \in Slots, Return(t) PROVE tv' = "off"
  <2>1. DownReturns(t)
    BY <1>1, <1>6 DEF Return, BlankReturns, EnsureReturns, SettleReturns, InCall, Calls
  <2> QED
    BY <1>2, <2>1 DEF DownReturns
<1>7. ASSUME NEW t \in Slots, CancelDispatch(t) PROVE tv' = "off"
  <2>1. CASE pc[t] \in Calls
    <3>1. pc[t] = "down" /\ CallAborted(pc[t])
        BY <1>1, <1>7, <2>1 DEF CancelDispatch, InCall, Calls, Events
    <3> QED
        BY <1>2, <3>1 DEF CallAborted
  <2>2. CASE pc[t] \notin Calls
    BY <1>7, <2>2 DEF CancelDispatch
  <2> QED
    BY <2>1, <2>2
<1>8. ASSUME NEW r \in Recs, Recover(r) PROVE FALSE
    BY <1>1, <1>8 DEF Recover, NoneAlive, Live, At, Attempt, BurstSent, TornDown,
       GiveUp, ReachReturns, RecSettles, RecSettleReturns
<1>9. ASSUME NEW r \in Recs, Unwind(r) \/ CancelLost(r) PROVE tv' = "off"
    BY <1>9 DEF Unwind, CancelLost
<1>10. CASE Stop \/ Aclose \/ Boots \/ UNCHANGED vars
    BY <1>3, <1>10 DEF Stop, Aclose, Boots, vars
<1> QED
    BY <1>4, <1>5, <1>6, <1>7, <1>8, <1>9, <1>10 DEF Next

(* After a handled suspend or shutdown no packet and no command of the     *)
(* daemon wakes a TV that is off.                                          *)
THEOREM TvStaysOffHolds == Spec => TvStaysOff
<1>1. IInv /\ [Next]_vars => [DownStep]_vars
    BY TvStaysOffStep
<1> QED
    BY <1>1, Inductive, PTL DEF Spec, TvStaysOff, DownStep
-----------------------------------------------------------------------------
(* The queue of the lock has everybody who waits for it, once, and nobody  *)
(* else.                                                                   *)
FifoHolds == ToSet(waiters) = Waiting /\ IsInjective(waiters)

(* Everybody who may wait is an owner of the lock.                         *)
LEMMA WaitingType == Waiting \in SUBSET Owners
BY DEF Waiting, Owners

(* A task that begins to wait joins the queue.                             *)
LEMMA FifoJoin ==
    ASSUME TypeOK, FifoHolds, NEW o \in Owners, o \notin Waiting,
           waiters' = Append(waiters, o), Waiting' = Waiting \cup {o}
    PROVE  FifoHolds'
BY Joins DEF FifoHolds, TypeOK

(* The task at the head takes the lock and waits no more.                  *)
LEMMA FifoServe ==
    ASSUME TypeOK, FifoHolds, waiters # << >>, waiters' = Tail(waiters),
           Waiting' = Waiting \ {Head(waiters)}
    PROVE  FifoHolds'
BY Served DEF FifoHolds, TypeOK

(* A task that is cancelled while it waits leaves its place.               *)
LEMMA FifoLeave ==
    ASSUME TypeOK, FifoHolds, NEW o, LeaveQueue(o), Waiting' = Waiting \ {o}
    PROVE  FifoHolds'
BY Leaves DEF FifoHolds, TypeOK, LeaveQueue

(* A task that does something else leaves the queue alone.                 *)
LEMMA FifoQuiet ==
    ASSUME FifoHolds, waiters' = waiters, Waiting' = Waiting
    PROVE  FifoHolds'
BY DEF FifoHolds

(* A recovery that starts does not wait for the lock yet, nor did its      *)
(* identity.                                                               *)
LEMMA NewWaitsNot ==
    ASSUME TypeOK, StartRecovery
    PROVE  {r \in Recs : rpc'[r] = "lock"} = {r \in Recs : rpc[r] = "lock"}
BY DEF TypeOK, StartRecovery, Live

(* Every handler takes its caller from the head of the queue.              *)
LEMMA HandlerServes ==
    ASSUME TypeOK, FifoHolds, NEW t \in Slots, NEW event \in Events, Handling(t, event),
           \/ \E call \in Calls : pc' = [pc EXCEPT ![t] = call]
           \/ pc' = [pc EXCEPT ![t] = "idle"],
           {r \in Recs : rpc'[r] = "lock"} = {r \in Recs : rpc[r] = "lock"}
    PROVE  FifoHolds'
<1>1. {s \in Slots : pc'[s] \in Events} = {s \in Slots : pc[s] \in Events} \ {t}
    BY DEF TypeOK, Calls, Events
<1>2. t \notin Recs
    BY DaemonAssumption
<1>3. Waiting' = Waiting \ {t}
    BY <1>1, <1>2 DEF Waiting
<1> QED
    BY <1>3, FifoServe DEF Handling, Granted

(* asyncio.Lock is fair and forgets who is cancelled: every step keeps     *)
(* FifoHolds.                                                              *)
LEMMA FifoStep == TypeOK /\ FifoHolds /\ [Next]_vars => FifoHolds'
<1> SUFFICES ASSUME TypeOK, FifoHolds, [Next]_vars PROVE FifoHolds'
    OBVIOUS
<1> USE DEF tasks, recs
<1>0. ASSUME NEW t \in Slots PROVE t \in Owners /\ t \notin Recs
    BY DaemonAssumption DEF Owners
<1>1. ASSUME NEW t \in Slots, NEW event \in Events, Dispatch(t, event) PROVE FifoHolds'
  <2>1. {s \in Slots : pc'[s] \in Events} = {s \in Slots : pc[s] \in Events} \cup {t}
      BY <1>1 DEF Dispatch, TypeOK
  <2>2. pc[t] \notin Events
      BY <1>1 DEF Dispatch, Events
  <2>3. t \notin Waiting /\ Waiting' = Waiting \cup {t}
      BY <1>0, <1>1, <2>1, <2>2 DEF Dispatch, Waiting
  <2> QED
      BY <1>0, <1>1, <2>3, FifoJoin DEF Dispatch
<1>2. ASSUME NEW t \in Slots, Handle(t) PROVE FifoHolds'
  <2>1. CASE OnBlank(t)
      BY <2>1, HandlerServes DEF OnBlank, Await, Finish, Calls, Events
  <2>2. CASE OnUnblank(t)
    <3>1. {r \in Recs : rpc'[r] = "lock"} = {r \in Recs : rpc[r] = "lock"}
        BY <2>2, NewWaitsNot DEF OnUnblank
    <3> QED
        BY <2>2, <3>1, HandlerServes DEF OnUnblank, Await, Finish, Calls, Events
  <2>3. ASSUME NEW event \in Events, PowerDown(t, event) PROVE FifoHolds'
      BY <2>3, HandlerServes DEF PowerDown, Await, Calls
  <2>4. CASE OnResume(t)
      BY <2>4, NewWaitsNot, HandlerServes DEF OnResume, Finish, Events
  <2> QED
      BY <1>2, <2>1, <2>2, <2>3, <2>4 DEF Handle, OnSuspend, OnShutdown, Events
<1>3. ASSUME NEW t \in Slots, Return(t) PROVE FifoHolds'
  <2>1. /\ waiters' = waiters /\ pc[t] \in Calls
        /\ Finish(t) \/ Await(t, "settle")
      BY <1>3 DEF Return, BlankReturns, EnsureReturns, SettleReturns, DownReturns, Calls
  <2>2. {s \in Slots : pc'[s] \in Events} = {s \in Slots : pc[s] \in Events}
      BY <2>1 DEF TypeOK, Finish, Await, Calls, Events
  <2>3. {r \in Recs : rpc'[r] = "lock"} = {r \in Recs : rpc[r] = "lock"}
      BY <1>3, NewWaitsNot DEF Return, BlankReturns, EnsureReturns, SettleReturns, DownReturns
  <2> QED
      BY <2>1, <2>2, <2>3, FifoQuiet DEF Waiting
<1>4. ASSUME NEW t \in Slots, CancelDispatch(t) PROVE FifoHolds'
  <2>1. pc' = [pc EXCEPT ![t] = "idle"] /\ rpc' = rpc
      BY <1>4 DEF CancelDispatch, Finish
  <2>2. CASE pc[t] \in Events
    <3>1. LeaveQueue(t)
        BY <1>4, <2>2 DEF CancelDispatch, Events, Calls
    <3>2. Waiting' = Waiting \ {t}
        BY <1>0, <2>1 DEF TypeOK, Waiting, Events
    <3> QED
        BY <3>1, <3>2, FifoLeave
  <2>3. CASE pc[t] \in Calls
    <3>1. waiters' = waiters
        BY <1>4, <2>3 DEF CancelDispatch, Events, Calls
    <3>2. Waiting' = Waiting
        BY <2>1, <2>3 DEF TypeOK, Waiting, Events, Calls
    <3> QED
        BY <3>1, <3>2, FifoQuiet
  <2> QED
      BY <1>4, <2>2, <2>3 DEF CancelDispatch
<1>5. ASSUME NEW r \in Recs, Attempt(r) \/ BurstSent(r) \/ TornDown(r) \/ GiveUp(r)
                             \/ RecSettleReturns(r) \/ CancelLost(r)
      PROVE  FifoHolds'
  <2>1. /\ waiters' = waiters /\ pc' = pc /\ rpc[r] # "lock"
        /\ \E place \in RecPCs \ {"lock"} : Move(r, place)
      BY <1>5 DEF Attempt, BurstSent, TornDown, GiveUp, RecSettleReturns, CancelLost,
                  BeginReach, At, Die, RecPCs
  <2>2. Waiting' = Waiting
      BY <2>1 DEF TypeOK, Waiting, Move
  <2> QED
      BY <2>1, <2>2, FifoQuiet
<1>6. ASSUME NEW r \in Recs, ReachReturns(r) PROVE FifoHolds'
  <2>1. r \in Owners /\ r \notin Waiting /\ pc' = pc
      BY <1>6, DaemonAssumption DEF ReachReturns, At, Waiting, Owners
  <2>2. CASE Move(r, "lock") /\ waiters' = Append(waiters, r)
    <3>1. Waiting' = Waiting \cup {r}
        BY <2>1, <2>2 DEF TypeOK, Waiting, Move
    <3> QED
        BY <2>1, <2>2, <3>1, FifoJoin
  <2>3. CASE Move(r, "sleep") /\ waiters' = waiters
    <3>1. Waiting' = Waiting
        BY <1>6, <2>1, <2>3 DEF TypeOK, ReachReturns, At, Waiting, Move
    <3> QED
        BY <2>3, <3>1, FifoQuiet
  <2> QED
      BY <1>6, <2>2, <2>3 DEF ReachReturns
<1>7. ASSUME NEW r \in Recs, RecSettles(r) PROVE FifoHolds'
  <2>1. /\ pc' = pc /\ rpc[r] = "lock" /\ Granted(r) /\ waiters' = Tail(waiters)
        /\ Move(r, "settle") \/ Move(r, "dead")
      BY <1>7 DEF RecSettles, At, Die
  <2>2. Waiting' = Waiting \ {r}
      BY <1>0, <2>1 DEF TypeOK, Waiting, Move
  <2> QED
      BY <2>1, <2>2, FifoServe DEF Granted
<1>8. ASSUME NEW r \in Recs, Unwind(r) PROVE FifoHolds'
  <2>1. Move(r, "dead") /\ pc' = pc
      BY <1>8 DEF Unwind, Die
  <2>2. CASE rpc[r] = "lock"
    <3>1. LeaveQueue(r)
        BY <1>8, <2>2 DEF Unwind
    <3>2. Waiting' = Waiting \ {r}
        BY <1>0, <2>1 DEF TypeOK, Waiting, Move
    <3> QED
        BY <3>1, <3>2, FifoLeave
  <2>3. CASE rpc[r] # "lock"
    <3>1. waiters' = waiters
        BY <1>8, <2>3 DEF Unwind
    <3>2. Waiting' = Waiting
        BY <2>1, <2>3 DEF TypeOK, Waiting, Move
    <3> QED
        BY <3>1, <3>2, FifoQuiet
  <2> QED
      BY <2>2, <2>3
<1>9. CASE Stop \/ Aclose \/ Boots \/ UNCHANGED vars
  <2>1. waiters' = waiters /\ pc' = pc /\ rpc' = rpc
      BY <1>9 DEF Stop, Aclose, Boots, vars
  <2> QED
      BY <2>1, FifoQuiet DEF Waiting
<1> QED
    BY <1>1, <1>2, <1>3, <1>4, <1>5, <1>6, <1>7, <1>8, <1>9 DEF Next, Recover

(* Nobody waits when the daemon starts.                                    *)
LEMMA FifoInit == Init => FifoHolds
BY NobodyWaits DEF Init, FifoHolds, Waiting, Events

(* daemon.py:54: nothing is left behind that would block the lock for      *)
(* ever: it is held by the one task that is inside and will release it,    *)
(* and exactly the tasks that wait for it have a place in its queue.       *)
THEOREM LockSoundHolds == Spec => []LockSound
<1>1. IInv /\ FifoHolds => LockSound
  <2> SUFFICES ASSUME IInv, FifoHolds PROVE LockSound
      OBVIOUS
  <2>1. Working = {lock} \ {Nobody}
      BY DaemonAssumption DEF IInv, TypeOK, LockHeld, Working, Owners
  <2> QED
      BY <2>1 DEF FifoHolds, LockSound
<1>2. IInv /\ FifoHolds /\ [Next]_vars => FifoHolds'
    BY FifoStep DEF IInv
<1> QED
    BY <1>1, <1>2, FifoInit, Inductive, PTL DEF Spec

-----------------------------------------------------------------------------
(* What RecoveryAdvances says of one step.                                 *)
AdvanceStep ==
    \A r \in Recs : Live(r) => \/ rpc'[r] = rpc[r] /\ tries'[r] = tries[r]
                               \/ Left(r)' < Left(r)

(* What is left of a recovery is a number, and more than nothing until the *)
(* recovery is over.                                                       *)
LEMMA LeftType ==
    ASSUME TypeOK, NEW r \in Recs
    PROVE  Left(r) \in Nat /\ (Left(r) = 0 <=> ~ Live(r))
<1>1. /\ rpc[r] \in RecPCs /\ tries[r] \in Nat /\ tries[r] <= MaxTries
      /\ MaxTries \in Nat
    BY DaemonAssumption DEF TypeOK
<1> QED
    BY <1>1 DEF Left, Live, Ahead, RecPCs

(* A recovery that ends has nothing left.                                  *)
LEMMA DeadAdvances ==
    ASSUME TypeOK, NEW r \in Recs, Die(r)
    PROVE  AdvanceStep
<1>1. \A s \in Recs \ {r} : rpc'[s] = rpc[s] /\ tries'[s] = tries[s]
    BY DEF TypeOK, Die, Move
<1>2. rpc'[r] = "dead"
    BY DEF TypeOK, Die, Move
<1>3. Left(r)' = 0
    BY <1>2 DEF Left, Live
<1>4. Live(r) => Left(r)' < Left(r)
    BY <1>3, LeftType
<1> QED
    BY <1>1, <1>4 DEF AdvanceStep

(* So does one that goes on to a nearer await of the same attempt.         *)
LEMMA MoveAdvances ==
    ASSUME TypeOK, NEW r \in Recs, NEW place \in RecPCs \ {"dead"}, Move(r, place),
           tries' = tries, place = rpc[r] \/ Ahead[place] < Ahead[rpc[r]]
    PROVE  AdvanceStep
<1>1. \A s \in Recs \ {r} : rpc'[s] = rpc[s] /\ tries'[s] = tries[s]
    BY DEF TypeOK, Move
<1>2. rpc'[r] = place /\ tries'[r] = tries[r]
    BY DEF TypeOK, Move
<1>3. /\ rpc[r] \in RecPCs /\ tries[r] \in Nat /\ tries[r] <= MaxTries
      /\ MaxTries \in Nat
    BY DaemonAssumption DEF TypeOK
<1>4. Live(r) => rpc'[r] = rpc[r] \/ Left(r)' < Left(r)
    BY <1>2, <1>3 DEF Left, Live, Ahead, RecPCs
<1> QED
    BY <1>1, <1>2, <1>4 DEF AdvanceStep
(* An attempt that begins counts, whatever it begins with.                 *)
LEMMA AttemptAdvances ==
    ASSUME TypeOK, NEW r \in Recs, Attempt(r)
    PROVE  AdvanceStep
<1>1. PICK place \in {"burst", "teardown", "reach"} : Move(r, place)
    BY DEF Attempt, BeginReach
<1>2. tries' = [tries EXCEPT ![r] = @ + 1] /\ tries[r] < MaxTries /\ Live(r)
    BY DEF Attempt, At, Live
<1>3. \A s \in Recs \ {r} : rpc'[s] = rpc[s] /\ tries'[s] = tries[s]
    BY <1>1, <1>2 DEF TypeOK, Move
<1>4. rpc'[r] = place /\ tries'[r] = tries[r] + 1
    BY <1>1, <1>2 DEF TypeOK, Move
<1>5. rpc[r] \in RecPCs /\ tries[r] \in Nat /\ MaxTries \in Nat
    BY DaemonAssumption DEF TypeOK
<1>6. Ahead[place] \in 0 .. 6 /\ Ahead[rpc[r]] \in 0 .. 6 /\ Ahead[rpc[r]] # 0
    BY <1>2, <1>5 DEF Ahead, RecPCs, Live
<1>7. /\ Left(r) = 7 * (MaxTries - tries[r]) + Ahead[rpc[r]]
      /\ Left(r)' = 7 * (MaxTries - (tries[r] + 1)) + Ahead[place]
    BY <1>2, <1>4 DEF Left, Live
<1>8. Left(r)' < Left(r)
    BY <1>2, <1>5, <1>6, <1>7
<1> QED
    BY <1>3, <1>8 DEF AdvanceStep

(* A handler moves no recovery but the one that it starts.                 *)
LEMMA OthersStay ==
    ASSUME TypeOK, StartRecovery \/ UNCHANGED <<rpc, tries>>
    PROVE  AdvanceStep
BY DEF TypeOK, StartRecovery, AdvanceStep

(* Every step brings every recovery nearer to its end, or leaves it.       *)
LEMMA RecoveryAdvancesStep == TypeOK /\ [Next]_vars => AdvanceStep
<1> SUFFICES ASSUME TypeOK, [Next]_vars PROVE AdvanceStep
    OBVIOUS
<1> USE DEF tasks, recs
<1>1. ASSUME NEW t \in Slots, \/ \E event \in Events : Dispatch(t, event)
                              \/ Handle(t) \/ Return(t) \/ CancelDispatch(t)
      PROVE  AdvanceStep
  <2>1. StartRecovery \/ UNCHANGED <<rpc, tries>>
      BY <1>1 DEF Dispatch, Handle, OnBlank, OnUnblank, OnSuspend, OnShutdown, PowerDown,
                  OnResume, Return, BlankReturns, EnsureReturns, SettleReturns,
                  DownReturns, CancelDispatch
  <2> QED
      BY <2>1, OthersStay
<1>2. ASSUME NEW r \in Recs, Attempt(r) PROVE AdvanceStep
    BY <1>2, AttemptAdvances
<1>3. ASSUME NEW r \in Recs, BurstSent(r) PROVE AdvanceStep
    BY <1>3, MoveAdvances DEF BurstSent, BeginReach, At, RecPCs, Ahead
<1>4. ASSUME NEW r \in Recs, TornDown(r) PROVE AdvanceStep
    BY <1>4, MoveAdvances DEF TornDown, At, RecPCs, Ahead
<1>5. ASSUME NEW r \in Recs, GiveUp(r) \/ RecSettleReturns(r) \/ Unwind(r) PROVE AdvanceStep
    BY <1>5, DeadAdvances DEF GiveUp, RecSettleReturns, Unwind
<1>6. ASSUME NEW r \in Recs, ReachReturns(r) PROVE AdvanceStep
    BY <1>6, MoveAdvances DEF ReachReturns, At, RecPCs, Ahead
<1>7. ASSUME NEW r \in Recs, RecSettles(r) PROVE AdvanceStep
    BY <1>7, MoveAdvances, DeadAdvances DEF RecSettles, At, RecPCs, Ahead
<1>8. ASSUME NEW r \in Recs, CancelLost(r) PROVE AdvanceStep
    BY <1>8, MoveAdvances DEF CancelLost, RecPCs, Ahead
<1>9. CASE Stop \/ Aclose \/ Boots \/ UNCHANGED vars
    BY <1>9, OthersStay DEF Stop, Aclose, Boots, vars
<1> QED
    BY <1>1, <1>2, <1>3, <1>4, <1>5, <1>6, <1>7, <1>8, <1>9 DEF Next, Recover

(* daemon.py:146-197: whatever comes in between, no recovery goes on for   *)
(* ever: only so many of its steps are left (LeftType), and each takes one *)
(* off.                                                                    *)
THEOREM RecoveryAdvancesHolds == Spec => RecoveryAdvances
<1>1. TypeOK /\ [Next]_vars => [AdvanceStep]_vars
    BY RecoveryAdvancesStep
<1> QED
    BY <1>1, TypeCorrect, PTL DEF Spec, RecoveryAdvances, AdvanceStep
=============================================================================
