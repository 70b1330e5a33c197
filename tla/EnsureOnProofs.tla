--------------------------- MODULE EnsureOnProofs ---------------------------
(***************************************************************************)
(* EnsureOn implements Ensuring for every number of bursts and tries, with *)
(* and without a MAC.  A return that claims an answer has had one with the *)
(* panel lit in the same step, so beside the types the simulation needs    *)
(* only that an answer ends the call (AnswerEnds) and that a burst is      *)
(* allowed (Allowed).  The types need that a loop that goes on has         *)
(* attempts left (Left).  The same counters, and the place within a turn   *)
(* of a loop, make StepsLeft fall with every step (EnsureAdvances).        *)
(***************************************************************************)
EXTENDS EnsureOn, TLAPS

(* turnOnScreen answers at most once in a call: the call is over then.     *)
AnswerEnds == pc \in Active => ~ answered

(* A burst is sent, and turnOnScreen called, only with an attempt left.    *)
Left == /\ pc = "burst" => bursts < MaxBursts
        /\ pc \in Active => tries < MaxTries

(* A burst is sent only by a call that may send it.                        *)
Allowed == pc = "burst" => args.wol /\ HasMac

EInv == TypeOK /\ AnswerEnds /\ Left /\ Allowed

(* The call starts from and stays in states of the right types: the two    *)
(* retry loops never count past wol_attempts and tries.                    *)
LEMMA EInvStep == EInv /\ [Next]_vars => EInv'
<1> SUFFICES ASSUME EInv, [Next]_vars PROVE EInv'
    OBVIOUS
<1> USE EnsureAssumption DEF EInv, TypeOK, AnswerEnds, Left, Allowed, Active, Over, Panels
<1>1. ASSUME NEW force \in BOOLEAN, NEW wol \in BOOLEAN, EnsureIsCalled(force, wol)
      PROVE  EInv'
  <2>1. args' \in [force : BOOLEAN, wol : BOOLEAN]
    BY <1>1 DEF EnsureIsCalled
  <2>2. bursts' \in 0 .. MaxBursts /\ tries' \in 0 .. MaxTries /\ tries' < MaxTries
    BY <1>1 DEF EnsureIsCalled
  <2> QED
    BY <1>1, <2>1, <2>2 DEF EnsureIsCalled
<1>2. CASE WaitForNetwork
    BY <1>2 DEF WaitForNetwork
<1>3. CASE EnsureConnected
    BY <1>3 DEF EnsureConnected
<1>4. CASE ConnectFails
    BY <1>4 DEF ConnectFails
<1>5. CASE PowerStateRead
    BY <1>5 DEF PowerStateRead, MaybeLinked
<1>6. CASE TurnOnScreen
    BY <1>6 DEF TurnOnScreen
<1>7. CASE TurnOnScreenFails
  <2>1. tries' \in 0 .. MaxTries /\ (pc' \in Active => tries' < MaxTries)
    BY <1>7 DEF TurnOnScreenFails
  <2>2. tv' \in Panels /\ connected' \in BOOLEAN
    BY <1>7 DEF TurnOnScreenFails, MaybeLit, MaybeLinked
  <2> QED
    BY <1>7, <2>1, <2>2 DEF TurnOnScreenFails
<1>8. CASE Paused
    BY <1>8 DEF Paused
<1>9. CASE RequestBreaks
    BY <1>9 DEF RequestBreaks, MaybeLit, MaybeLinked
<1>10. CASE SendWolBurst
    BY <1>10 DEF SendWolBurst, MaybeWoken
<1>11. CASE WolInterval
    BY <1>11 DEF WolInterval
<1>12. CASE Cancel
    BY <1>12 DEF Cancel, MaybeLit, MaybeLinked
<1>13. CASE ReaderEnds
    BY <1>13 DEF ReaderEnds
<1>14. CASE Boots \/ Elsewhere
    BY <1>14 DEF Boots, Elsewhere
<1>15. CASE UNCHANGED vars
    BY <1>15 DEF vars
<1> QED
    BY <1>1, <1>2, <1>3, <1>4, <1>5, <1>6, <1>7, <1>8, <1>9, <1>10, <1>11, <1>12, <1>13, <1>14,
       <1>15
    DEF Next, Step

(* A client that was just built is idle, with nothing counted yet.         *)
LEMMA EInvInit == Init => EInv
<1> SUFFICES ASSUME Init PROVE EInv
    OBVIOUS
<1> USE EnsureAssumption DEF Init, Active, Over, Panels
<1>1. bursts \in 0 .. MaxBursts /\ tries \in 0 .. MaxTries
    OBVIOUS
<1> QED
    BY <1>1 DEF EInv, TypeOK, AnswerEnds, Left, Allowed

(* The types of EnsureOn, in every reachable state: in particular neither  *)
(* loop counts past its limit, whatever the TV and the link do.            *)
THEOREM TypesHold == Spec => []TypeOK
<1>1. EInv => TypeOK
    BY DEF EInv
<1> QED
    BY <1>1, EInvInit, EInvStep, PTL DEF Spec

-----------------------------------------------------------------------------
(* The simulation.                                                         *)

(* A step inside a call, or the one that ends it, is allowed by Ensuring.  *)
LEMMA StepPromised ==
    ASSUME EInv, Step
    PROVE  Promise!Works \/ Promise!Ends \/ UNCHANGED <<Call, args.wol, tv>>
<1> USE DEF EInv, TypeOK, AnswerEnds, Allowed, Active, Over, Call, Reachable, Promise!Reachable, Promise!Effects
<1>1. CASE WaitForNetwork \/ EnsureConnected \/ ConnectFails \/ Paused \/ WolInterval
    BY <1>1 DEF WaitForNetwork, EnsureConnected, ConnectFails, Paused, WolInterval, Promise!Ends
<1>2. CASE PowerStateRead
    BY <1>2 DEF PowerStateRead, Promise!Ends
<1>3. CASE TurnOnScreen
    BY <1>3 DEF TurnOnScreen, Promise!Ends
<1>4. CASE TurnOnScreenFails
    BY <1>4 DEF TurnOnScreenFails, MaybeLit, Promise!Ends, Promise!Works
<1>5. CASE RequestBreaks \/ Cancel
    BY <1>5 DEF RequestBreaks, Cancel, MaybeLit, Promise!Ends
<1>6. CASE SendWolBurst
    BY <1>6 DEF SendWolBurst, MaybeWoken, Promise!Ends, Promise!Works
<1> QED
    BY <1>1, <1>2, <1>3, <1>4, <1>5, <1>6 DEF Step


(* So is every other step, and the start.                                  *)
LEMMA NextPromised ==
    EInv /\ [Next]_vars => [Promise!Next]_<<Call, args.wol, tv>>
<1> SUFFICES ASSUME EInv, [Next]_vars
             PROVE  [Promise!Next]_<<Call, args.wol, tv>>
    OBVIOUS
<1> USE DEF EInv, TypeOK, AnswerEnds, Active, Over, Call
<1>1. ASSUME NEW force \in BOOLEAN, NEW wol \in BOOLEAN, EnsureIsCalled(force, wol)
      PROVE  Promise!Starts
    BY <1>1 DEF EnsureIsCalled, Promise!Starts
<1>2. CASE Step
    BY <1>2, StepPromised DEF Promise!Next
<1>3. CASE ReaderEnds
    BY <1>3 DEF ReaderEnds
<1>4. CASE Boots
    BY <1>4 DEF Boots, Promise!Boots, Promise!Next
<1>5. CASE Elsewhere
    BY <1>5 DEF Elsewhere, Promise!Elsewhere, Promise!Next
<1>6. CASE UNCHANGED vars
    BY <1>6 DEF vars
<1> QED
    BY <1>1, <1>2, <1>3, <1>4, <1>5, <1>6 DEF Next, Promise!Next

(* ensure_on keeps the promise Daemon relies on, whatever the limits of    *)
(* its two retry loops.                                                    *)
THEOREM PromiseHolds == Spec => KeepsPromise
<1>1. Init => Promise!Init
    BY DEF Init, Promise!Init, Call, Active
<1> QED
    BY <1>1, EInvInit, EInvStep, NextPromised, PTL DEF Spec, KeepsPromise, Promise!Spec

-----------------------------------------------------------------------------
(* The end of a call.                                                      *)

(* What EnsureAdvances says of one step.                                   *)
AdvanceStep == pc \in Active => \/ UNCHANGED <<pc, bursts, tries>>
                               \/ StepsLeft' < StepsLeft

(* What is left of a call is a number, and more than nothing until the     *)
(* call is over.                                                           *)
LEMMA StepsLeftType ==
    ASSUME EInv
    PROVE  StepsLeft \in Nat /\ (StepsLeft = 0 <=> pc \in Over)
<1>1. /\ MaxBursts \in Nat /\ MaxTries \in Nat
      /\ bursts \in Nat /\ bursts <= MaxBursts /\ tries \in Nat /\ tries <= MaxTries
      /\ pc \in Active => tries < MaxTries
    BY EnsureAssumption DEF EInv, TypeOK, Left
<1>2. pc \in Active => Ahead[pc] \in Nat
    BY DEF Active, Ahead
<1>3. pc \in Active => StepsLeft \in Nat /\ StepsLeft # 0
    BY <1>1, <1>2 DEF StepsLeft
<1>4. pc \in Over <=> pc \notin Active
    BY DEF EInv, TypeOK, Active, Over
<1> QED
    BY <1>3, <1>4 DEF StepsLeft

(* A call that is over has nothing left.                                   *)
LEMMA OverAdvances ==
    ASSUME EInv, pc \in Active, pc' \in Over
    PROVE  StepsLeft' < StepsLeft
<1>1. StepsLeft' = 0
    BY DEF StepsLeft, Active, Over
<1>2. StepsLeft \in Nat /\ StepsLeft # 0
    BY StepsLeftType DEF Active, Over
<1> QED
    BY <1>1, <1>2

(* A call that goes on: to a nearer await of this round, or to another one *)
(* that was counted.                                                       *)
LEMMA RoundAdvances ==
    ASSUME EInv, pc \in Active, pc' \in Active,
           \/ bursts' = bursts /\ tries' = tries /\ Ahead[pc'] < Ahead[pc]
           \/ bursts' = bursts + 1 /\ tries' = tries /\ Ahead[pc'] < Ahead[pc] + 3
           \/ bursts' = bursts /\ tries' = tries + 1 /\ Ahead[pc'] < Ahead[pc] + 2
    PROVE  StepsLeft' < StepsLeft
<1>1. /\ MaxBursts \in Nat /\ MaxTries \in Nat /\ bursts \in Nat /\ tries \in Nat
    BY EnsureAssumption DEF EInv, TypeOK
<1>2. Ahead[pc] \in Nat /\ Ahead[pc'] \in Nat
    BY DEF Active, Ahead
<1>3. /\ StepsLeft = 3 * (MaxBursts - bursts) + 2 * (MaxTries - tries) + Ahead[pc]
      /\ StepsLeft' = 3 * (MaxBursts - bursts') + 2 * (MaxTries - tries') + Ahead[pc']
    BY DEF StepsLeft
<1> QED
    BY <1>1, <1>2, <1>3

(* Every step of a call brings it nearer to its end, and no other step     *)
(* takes it away again.                                                    *)
LEMMA EnsureAdvancesStep == EInv /\ [Next]_vars => AdvanceStep
<1> SUFFICES ASSUME EInv, [Next]_vars, pc \in Active
             PROVE  \/ UNCHANGED <<pc, bursts, tries>>
                    \/ StepsLeft' < StepsLeft
    BY DEF AdvanceStep
<1> USE DEF Active, Over, Ahead
<1>1. CASE \E force, wol \in BOOLEAN : EnsureIsCalled(force, wol)
    BY <1>1 DEF EnsureIsCalled
<1>2. CASE WaitForNetwork
    BY <1>2, OverAdvances, RoundAdvances DEF WaitForNetwork
<1>3. CASE EnsureConnected
    BY <1>3, RoundAdvances DEF EnsureConnected
<1>4. CASE ConnectFails
    BY <1>4, OverAdvances, RoundAdvances DEF ConnectFails
<1>5. CASE PowerStateRead
    BY <1>5, OverAdvances, RoundAdvances DEF PowerStateRead
<1>6. CASE TurnOnScreen \/ RequestBreaks \/ Cancel
    BY <1>6, OverAdvances DEF TurnOnScreen, RequestBreaks, Cancel
<1>7. CASE TurnOnScreenFails
    BY <1>7, OverAdvances, RoundAdvances DEF TurnOnScreenFails
<1>8. CASE Paused
    BY <1>8, RoundAdvances DEF Paused
<1>9. CASE SendWolBurst
    BY <1>9, OverAdvances, RoundAdvances DEF SendWolBurst
<1>10. CASE WolInterval
    BY <1>10, RoundAdvances DEF WolInterval
<1>11. CASE ReaderEnds \/ Boots \/ Elsewhere \/ UNCHANGED vars
    BY <1>11 DEF ReaderEnds, Boots, Elsewhere, vars
<1> QED
    BY <1>1, <1>2, <1>3, <1>4, <1>5, <1>6, <1>7, <1>8, <1>9, <1>10, <1>11 DEF Next, Step

(* webos.py:338-412: whatever the TV and the connection do, only so many   *)
(* steps of a call are left (StepsLeftType), and each takes one off.       *)
THEOREM EnsureAdvancesHolds == Spec => EnsureAdvances
<1>1. EInv /\ [Next]_vars => [AdvanceStep]_vars
    BY EnsureAdvancesStep
<1> QED
    BY <1>1, EInvInit, EInvStep, PTL DEF Spec, EnsureAdvances, AdvanceStep
=============================================================================
