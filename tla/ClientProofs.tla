---------------------------- MODULE ClientProofs ----------------------------
(***************************************************************************)
(* What holds of the connection for any number of callers and sockets.     *)
(*                                                                         *)
(* The argument rests on _lock: Holding says who is within, so at most one *)
(* caller at a time opens or tears down, and LinkInv says for each place   *)
(* within what is left of _ws, _connected and _reader there.  A cancel can *)
(* hit any of those places, and the invariant is what the next caller then *)
(* finds.  Only the reader task and new requests act beside the holder.    *)
(*                                                                         *)
(* LockSound and CallAdvances follow callers and the lock alone: Moves     *)
(* says where each action takes its caller, Onward that it is further on.  *)
(***************************************************************************)
EXTENDS WebOsClient, QueueProofs

Places == {"idle", "lock", "dial", "register", "reply"} \cup Teardowns \cup Gathers

(* TypeOK, in the three groups of variables an action may leave alone.     *)
CallsOK ==
    /\ pending \subseteq {c \in Callers : pc[c] = "reply"}
    /\ pc \in [Callers -> Places]
    /\ op \in [Callers -> Ops]
    /\ via \in [Callers -> Conns \cup {NoConn}]
    /\ fut \in [Callers -> {"none", "waiting", "answered", "failed"}]
LinkOK ==
    /\ connected \in BOOLEAN
    /\ ws \in Conns \cup {NoConn}
    /\ reader \in Conns \cup {NoConn}
    /\ registerQ \in Seq([frame : Frames, from : Conns])
    /\ sock \in [Conns -> {"unused", "open", "closed"}]
    /\ rd \in [Conns -> {"none", "running", "cancelled", "done"}]
    /\ paired \subseteq Conns
LockOK == holder \in Callers \cup {Nobody} /\ queue \in Seq(Callers)

(* TypeOK is its three groups, before and after a step.                    *)
LEMMA Typed == /\ TypeOK <=> CallsOK /\ LinkOK /\ LockOK
               /\ TypeOK' <=> CallsOK' /\ LinkOK' /\ LockOK'
BY DEF TypeOK, CallsOK, LinkOK, LockOK, Places

(* Each await for a closing socket is followed by the one for its reader.  *)
LEMMA Gathered == \A t \in Teardowns : Gather[t] \in Gathers
BY DEF Gather, Gathers, Teardowns

(* Reading a frame leaves a sequence of frames.                            *)
LEMMA FrameRead ==
    ASSUME NEW S, registerQ \in Seq(S), registerQ # << >>, registerQ' = Tail(registerQ)
    PROVE  registerQ' \in Seq(S)
OBVIOUS

(* What the pieces of a step do to the calls.                              *)
LEMMA OverTyped ==
    ASSUME CallsOK, NEW c \in Callers, Over(c)
    PROVE  CallsOK'
BY DEF CallsOK, Over, Ops, Places, NoConn

(* A caller moves on, and nothing else of the calls changes.               *)
LEMMA GoTyped ==
    ASSUME CallsOK, NEW c \in Callers, pc[c] # "reply",
           NEW place \in Places, Go(c, place)
    PROVE  CallsOK'
BY DEF CallsOK, Go

(* request() sends, or raises because there is no connection.              *)
LEMMA SendTyped ==
    ASSUME CallsOK, LinkOK, NEW c \in Callers, Send(c)
    PROVE  CallsOK'
<1>1. CASE Over(c)
    BY <1>1, OverTyped
<1>2. CASE ~ Over(c)
    BY <1>2 DEF CallsOK, LinkOK, Send, Places
<1> QED
    BY <1>1, <1>2

(* connect() returns: a request goes on to send, a plain connect is over.  *)
LEMMA ConnectedTyped ==
    ASSUME CallsOK, LinkOK, NEW c \in Callers, Connected(c)
    PROVE  CallsOK'
BY SendTyped, OverTyped DEF Connected

(* A caller that is cancelled leaves the FIFO queue of _lock.              *)
LEMMA LeftQueue ==
    ASSUME NEW c \in Callers, queue \in Seq(Callers), LeaveQueue(c)
    PROVE  queue' \in Seq(Callers)
BY Members, Without DEF LeaveQueue

(* _fail_pending answers futures with an exception and makes none.         *)
LEMMA FailedTyped ==
    ASSUME CallsOK, FailPending
    PROVE  fut' \in [Callers -> {"none", "waiting", "answered", "failed"}]
BY DEF CallsOK, FailPending, Failed

(* _teardown lets go of the connection and fails what was pending.         *)
LEMMA ForgetTyped ==
    ASSUME CallsOK, NEW c \in Callers, NEW place, Forget(c, place)
    PROVE  CallsOK'
<1>1. fut' \in [Callers -> {"none", "waiting", "answered", "failed"}] /\ pending' = {}
    BY FailedTyped DEF Forget, FailPending
<1> QED
    BY <1>1 DEF CallsOK, Forget, Places, Ops

-----------------------------------------------------------------------------
(* Where a caller holds _lock.                                             *)
Opening == {"dial", "register"}
Within  == Opening \cup Teardowns \cup Gathers

(* The task in _lock is the one between taking it and giving it back.      *)
Holding == \A c \in Callers : holder = c <=> pc[c] \in Within

(* Where the caller is decides what is left of the connection: from the    *)
(* start of a teardown to the next socket _connected is clear, a gathered  *)
(* reader leaves no open socket, and a dial starts from nothing.           *)
Down        == \A c \in Callers : pc[c] \in Within \ {"register"} => ~ connected
Gathering   == \A c \in Callers : pc[c] \in Gathers =>
                  reader = NoConn /\ \A n \in Conns : sock[n] # "open"
Dialing     == \A c \in Callers : pc[c] = "dial" => ws = NoConn /\ reader = NoConn
Registering == \A c \in Callers : pc[c] = "register" => ws # NoConn

ReaderOfSocket == reader \in {NoConn, ws}
OpenIsRead     == \A n \in Conns : sock[n] = "open" => ws = n /\ rd[n] = "running"

LinkInv == /\ Down /\ Gathering /\ Dialing /\ Registering
           /\ ReaderOfSocket /\ OpenIsRead /\ ConnectedHasReader

(* A future that waits knows its socket.                                   *)
Routed == \A c \in Callers : fut[c] = "waiting" => via[c] \in Conns

-----------------------------------------------------------------------------
(* TypeOK holds of a new client.                                           *)
LEMMA TypeInit == Init => TypeOK
<1> SUFFICES ASSUME Init PROVE CallsOK /\ LinkOK /\ LockOK
    BY Typed
<1>1. CallsOK
    BY DEF Init, CallsOK, Places, Ops, NoConn
<1>2. LinkOK
  <2>1. << >> \in Seq([frame : Frames, from : Conns])
    OBVIOUS
  <2>2. sock \in [Conns -> {"unused", "open", "closed"}]
    BY DEF Init
  <2>3. rd \in [Conns -> {"none", "running", "cancelled", "done"}]
    BY DEF Init
  <2> QED
    BY <2>1, <2>2, <2>3 DEF Init, LinkOK
<1>3. LockOK
    BY DEF Init, LockOK
<1> QED
    BY <1>1, <1>2, <1>3

(* TypeOK is kept by every step; the steps are grouped as in Next.         *)
LEMMA TypeStep == TypeOK /\ [Next]_vars => TypeOK'
<1> SUFFICES ASSUME TypeOK, [Next]_vars PROVE TypeOK'
    OBVIOUS
<1>t. CallsOK /\ LinkOK /\ LockOK
    BY Typed
<1> SUFFICES CallsOK' /\ LinkOK' /\ LockOK'
    BY Typed
<1>1. ASSUME NEW c \in Callers, RequestNow(c) PROVE CallsOK' /\ LinkOK' /\ LockOK'
  <2>1. CallsOK'
    BY <1>1, <1>t, SendTyped DEF RequestNow
  <2> QED
    BY <1>1, <1>t, <2>1 DEF RequestNow, link, LinkOK, LockOK
<1>2. ASSUME NEW c \in Callers, NEW what \in Ops, Call(c, what)
      PROVE  CallsOK' /\ LinkOK' /\ LockOK'
  <2>1. CallsOK'
    BY <1>2, <1>t DEF Call, CallsOK, Places
  <2>2. LinkOK'
    BY <1>2, <1>t DEF Call, link, LinkOK
  <2>3. LockOK'
    BY <1>2, <1>t DEF Call, LockOK
  <2> QED
    BY <2>1, <2>2, <2>3
<1>3. ASSUME NEW c \in Callers, Connect(c) PROVE CallsOK' /\ LinkOK' /\ LockOK'
  <2>1. queue' \in Seq(Callers)
    BY <1>3, <1>t DEF Connect, Locked, LockOK
  <2>2. CASE connected
    <3>1. CallsOK'
        BY <1>3, <2>2, <1>t, ConnectedTyped DEF Connect
    <3> QED
        BY <1>3, <2>1, <2>2, <1>t, <3>1 DEF Connect, LinkOK, LockOK
  <2>3. CASE ~ connected
    <3>1. Go(c, "clear") \/ Go(c, "dial")
        BY <1>3, <2>3 DEF Connect, StartTeardown
    <3>2. CallsOK'
        BY <1>3, <3>1, <1>t, GoTyped DEF Connect, Locked, Places, Teardowns
    <3>3. LinkOK'
        BY <1>3, <2>3, <1>t DEF Connect, StartTeardown, LinkOK
    <3> QED
        BY <1>3, <2>1, <2>3, <3>2, <3>3 DEF Connect, LockOK
  <2> QED
    BY <2>2, <2>3
<1>4. ASSUME NEW c \in Callers, Close(c) PROVE CallsOK' /\ LinkOK' /\ LockOK'
  <2>1. CallsOK'
    BY <1>4, <1>t, GoTyped DEF Close, Locked, StartTeardown, Places, Teardowns
  <2>2. LinkOK'
    BY <1>4, <1>t DEF Close, StartTeardown, LinkOK
  <2>3. LockOK'
    BY <1>4, <1>t DEF Close, Locked, LockOK
  <2> QED
    BY <2>1, <2>2, <2>3
<1>5. ASSUME NEW c \in Callers, SocketClosed(c) PROVE CallsOK' /\ LinkOK' /\ LockOK'
  <2>1. CallsOK'
    <3>1. CASE reader # NoConn
        BY <1>5, <3>1, <1>t, GoTyped, Gathered DEF SocketClosed, Places, Teardowns
    <3>2. CASE reader = NoConn
        BY <1>5, <3>2, <1>t, ForgetTyped DEF SocketClosed
    <3> QED
        BY <3>1, <3>2
  <2>2. sock' \in [Conns -> {"unused", "open", "closed"}]
    BY <1>5, <1>t DEF SocketClosed, LinkOK
  <2>3. rd' \in [Conns -> {"none", "running", "cancelled", "done"}]
    BY <1>5, <1>t DEF SocketClosed, LinkOK
  <2>4. ws' \in Conns \cup {NoConn} /\ holder' \in Callers \cup {Nobody}
    BY <1>5, <1>t DEF SocketClosed, Forget, LinkOK, LockOK
  <2> QED
    BY <1>5, <1>t, <2>1, <2>2, <2>3, <2>4 DEF SocketClosed, LinkOK, LockOK
<1>6. ASSUME NEW c \in Callers, ReaderGathered(c) PROVE CallsOK' /\ LinkOK' /\ LockOK'
  <2>1. CallsOK'
    BY <1>6, <1>t, ForgetTyped DEF ReaderGathered
  <2> QED
    BY <1>6, <1>t, <2>1 DEF ReaderGathered, Forget, LinkOK, LockOK
<1>7. ASSUME NEW c \in Callers, DialOpens(c) PROVE CallsOK' /\ LinkOK' /\ LockOK'
  <2>1. CallsOK'
    BY <1>7, <1>t, GoTyped DEF DialOpens, Places
  <2>2. LinkOK'
    BY <1>7, <1>t DEF DialOpens, LinkOK
  <2> QED
    BY <1>7, <1>t, <2>1, <2>2 DEF DialOpens, LockOK
<1>8. ASSUME NEW c \in Callers, DialFails(c) \/ RequestEnds(c)
      PROVE  CallsOK' /\ LinkOK' /\ LockOK'
  <2>1. CallsOK'
    BY <1>8, <1>t, OverTyped DEF DialFails, RequestEnds
  <2> QED
    BY <1>8, <1>t, <2>1 DEF DialFails, RequestEnds, link, LinkOK, LockOK
<1>9. ASSUME NEW c \in Callers, Registered(c) PROVE CallsOK' /\ LinkOK' /\ LockOK'
  <2>1. CallsOK'
    BY <1>9, <1>t, ConnectedTyped DEF Registered
  <2>2. registerQ' \in Seq([frame : Frames, from : Conns])
    BY <1>9, <1>t, FrameRead DEF Registered, LinkOK
  <2> QED
    BY <1>9, <1>t, <2>1, <2>2 DEF Registered, LinkOK, LockOK
<1>10. ASSUME NEW c \in Callers, Prompted(c) PROVE CallsOK' /\ LinkOK' /\ LockOK'
  <2>1. registerQ' \in Seq([frame : Frames, from : Conns])
    BY <1>10, <1>t, FrameRead DEF Prompted, LinkOK
  <2> QED
    BY <1>10, <1>t, <2>1 DEF Prompted, calls, CallsOK, LinkOK, LockOK
<1>11. ASSUME NEW c \in Callers, HandshakeFails(c) PROVE CallsOK' /\ LinkOK' /\ LockOK'
  <2>1. CallsOK'
    BY <1>11, <1>t, GoTyped DEF HandshakeFails, StartTeardown, Places, Teardowns
  <2>2. registerQ' \in Seq([frame : Frames, from : Conns])
    <3>1. CASE UNCHANGED registerQ
        BY <1>t, <3>1 DEF LinkOK
    <3>2. CASE registerQ # << >> /\ registerQ' = Tail(registerQ)
        BY <1>t, <3>2, FrameRead DEF LinkOK
    <3> QED
        BY <1>11, <3>1, <3>2 DEF HandshakeFails
  <2> QED
    BY <1>11, <1>t, <2>1, <2>2 DEF HandshakeFails, StartTeardown, LinkOK, LockOK
<1>12. ASSUME NEW c \in Callers, Cancel(c) PROVE CallsOK' /\ LinkOK' /\ LockOK'
  <2>1. CASE Over(c)
    <3>1. CallsOK'
        BY <2>1, <1>t, OverTyped
    <3>2. LinkOK'
        BY <1>12, <1>t DEF Cancel, StartTeardown, link, LinkOK
    <3>3. LockOK'
      <4>1. CASE LeaveQueue(c) /\ UNCHANGED holder
        BY <4>1, <1>t, LeftQueue DEF LockOK
      <4>2. CASE ~ (LeaveQueue(c) /\ UNCHANGED holder)
        BY <1>12, <4>2, <1>t DEF Cancel, LockOK
      <4> QED
        BY <4>1, <4>2
    <3> QED
        BY <3>1, <3>2, <3>3
  <2>2. CASE ~ Over(c)
    <3>1. /\ pc[c] = "register" /\ Go(c, "undo") /\ connected' = FALSE
          /\ UNCHANGED <<ws, reader, registerQ, sock, rd, paired, holder, queue>>
        BY <1>12, <2>2 DEF Cancel, StartTeardown
    <3>2. CallsOK'
        BY <3>1, <1>t, GoTyped DEF Places, Teardowns
    <3> QED
        BY <3>1, <3>2, <1>t DEF LinkOK, LockOK
  <2> QED
    BY <2>1, <2>2
<1>13. ASSUME NEW n \in Conns, NEW frame \in Frames, RegisterFrame(n, frame)
       PROVE  CallsOK' /\ LinkOK' /\ LockOK'
  <2>1. [frame |-> frame, from |-> n] \in [frame : Frames, from : Conns]
    OBVIOUS
  <2>2. registerQ' \in Seq([frame : Frames, from : Conns])
    BY <1>13, <1>t, <2>1, AppendProperties DEF RegisterFrame, LinkOK
  <2> QED
    BY <1>13, <1>t, <2>2 DEF RegisterFrame, calls, CallsOK, LinkOK, LockOK
<1>14. ASSUME NEW n \in Conns, NEW c \in Callers, Answer(n, c)
       PROVE  CallsOK' /\ LinkOK' /\ LockOK'
    BY <1>14, <1>t DEF Answer, link, CallsOK, LinkOK, LockOK
<1>15. ASSUME NEW n \in Conns, ReaderEnds(n) PROVE CallsOK' /\ LinkOK' /\ LockOK'
  <2>1. fut' \in [Callers -> {"none", "waiting", "answered", "failed"}] /\ pending' = {}
    BY <1>15, <1>t, FailedTyped DEF ReaderEnds, FailPending
  <2> QED
    BY <1>15, <1>t, <2>1 DEF ReaderEnds, CallsOK, LinkOK, LockOK
<1>16. ASSUME NEW n \in Conns, Drops(n) PROVE CallsOK' /\ LinkOK' /\ LockOK'
    BY <1>16, <1>t DEF Drops, calls, CallsOK, LinkOK, LockOK
<1>17. ASSUME UNCHANGED vars PROVE CallsOK' /\ LinkOK' /\ LockOK'
    BY <1>17, <1>t DEF vars, CallsOK, LinkOK, LockOK
<1> QED
    BY <1>1, <1>2, <1>3, <1>4, <1>5, <1>6, <1>7, <1>8, <1>9, <1>10, <1>11, <1>12, <1>13,
       <1>14, <1>15, <1>16, <1>17
    DEF Next, Step

(* Every variable of the connection keeps its type, and only a caller that *)
(* awaits a reply has a future in _pending.                                *)
THEOREM TypeCorrect == Spec => []TypeOK
BY TypeInit, TypeStep, PTL DEF Spec

-----------------------------------------------------------------------------
(* The lock is taken, kept or given back by one caller's step.             *)
LEMMA Taken ==
    ASSUME CallsOK, Holding, NEW c \in Callers, holder = Nobody, holder' = c,
           NEW place \in Within, pc' = [pc EXCEPT ![c] = place]
    PROVE  Holding'
BY ClientAssumption DEF CallsOK, Holding

(* A step of one caller that stays on its side of _lock.                   *)
LEMMA Kept ==
    ASSUME CallsOK, Holding, NEW c \in Callers, UNCHANGED holder,
           NEW place, pc' = [pc EXCEPT ![c] = place],
           place \in Within <=> pc[c] \in Within
    PROVE  Holding'
BY DEF CallsOK, Holding

(* The holder gives _lock back.                                            *)
LEMMA Released ==
    ASSUME CallsOK, Holding, NEW c \in Callers, holder' = Nobody, pc[c] \in Within,
           NEW place, pc' = [pc EXCEPT ![c] = place], place \notin Within
    PROVE  Holding'
BY ClientAssumption DEF CallsOK, Holding

(* The only caller within is the holder.                                   *)
LEMMA Alone ==
    ASSUME Holding, NEW c \in Callers, NEW d \in Callers, c # d, pc[c] \in Within
    PROVE  pc[d] \notin Within
BY DEF Holding

(* A caller that found a connection leaves connect, with or without a      *)
(* future.                                                                 *)
LEMMA Goes ==
    ASSUME NEW c, Connected(c)
    PROVE  pc' = [pc EXCEPT ![c] = "idle"] \/ pc' = [pc EXCEPT ![c] = "reply"]
BY DEF Connected, Send, Over

(* The places with _lock and those without it.                             *)
LEMMA Outside ==
    /\ {"idle", "lock", "reply"} \cap Within = {}
    /\ Within = {"dial", "register", "clear", "undo", "final",
                 "clearReader", "undoReader", "finalReader"}
BY DEF Within, Opening, Teardowns, Gathers

(* _teardown goes on under _lock or gives it back.                         *)
LEMMA ForgetHolds ==
    ASSUME CallsOK, Holding, NEW c \in Callers, pc[c] \in Within, Forget(c, pc[c])
    PROVE  Holding'
<1>1. CASE pc' = [pc EXCEPT ![c] = "dial"] /\ UNCHANGED holder
    BY <1>1, Kept, Outside
<1>2. CASE pc' = [pc EXCEPT ![c] = "idle"] /\ holder' = Nobody
    BY <1>2, Released, Outside
<1> QED
    BY <1>1, <1>2 DEF Forget

(* Holding is kept by every step.                                          *)
LEMMA HoldingStep == TypeOK /\ Holding /\ [Next]_vars => Holding'
<1> SUFFICES ASSUME TypeOK, Holding, [Next]_vars PROVE Holding'
    OBVIOUS
<1>t. CallsOK
    BY Typed
<1>1. ASSUME NEW c \in Callers, RequestNow(c) PROVE Holding'
  <2>1. pc' = [pc EXCEPT ![c] = "idle"] \/ pc' = [pc EXCEPT ![c] = "reply"]
    BY <1>1 DEF RequestNow, Send, Over
  <2> QED
    BY <1>1, <1>t, <2>1, Kept, Outside DEF RequestNow
<1>2. ASSUME NEW c \in Callers, NEW what \in Ops, Call(c, what) PROVE Holding'
    BY <1>2, <1>t, Kept, Outside DEF Call
<1>3. ASSUME NEW c \in Callers, Connect(c) PROVE Holding'
  <2>1. CASE connected
    BY <1>3, <2>1, <1>t, Goes, Kept, Outside DEF Connect, Locked
  <2>2. CASE ~ connected
    <3>1. pc' = [pc EXCEPT ![c] = "clear"] \/ pc' = [pc EXCEPT ![c] = "dial"]
        BY <1>3, <2>2 DEF Connect, StartTeardown, Go
    <3> QED
        BY <1>3, <2>2, <1>t, <3>1, Taken, Outside DEF Connect, Locked
  <2> QED
    BY <2>1, <2>2
<1>4. ASSUME NEW c \in Callers, Close(c) PROVE Holding'
    BY <1>4, <1>t, Taken, Outside DEF Close, Locked, StartTeardown, Go
<1>5. ASSUME NEW c \in Callers, SocketClosed(c) PROVE Holding'
  <2>1. pc[c] \in Teardowns /\ pc[c] \in Within
    BY <1>5 DEF SocketClosed, Within
  <2>2. CASE reader # NoConn
    <3>1. Gather[pc[c]] \in Within
        BY <2>1, Gathered DEF Within
    <3> QED
        BY <1>5, <1>t, <2>1, <2>2, <3>1, Kept DEF SocketClosed, Go
  <2>3. CASE reader = NoConn
    BY <1>5, <1>t, <2>1, <2>3, ForgetHolds DEF SocketClosed
  <2> QED
    BY <2>2, <2>3
<1>6. ASSUME NEW c \in Callers, ReaderGathered(c) PROVE Holding'
    BY <1>6, <1>t, ForgetHolds DEF ReaderGathered, Within
<1>7. ASSUME NEW c \in Callers, DialOpens(c) PROVE Holding'
    BY <1>7, <1>t, Kept, Outside DEF DialOpens, Go
<1>8. ASSUME NEW c \in Callers, DialFails(c) PROVE Holding'
    BY <1>8, <1>t, Released, Outside DEF DialFails, Over
<1>9. ASSUME NEW c \in Callers, Registered(c) PROVE Holding'
    BY <1>9, <1>t, Goes, Released, Outside DEF Registered
<1>10. ASSUME NEW c \in Callers, HandshakeFails(c) PROVE Holding'
    BY <1>10, <1>t, Kept, Outside DEF HandshakeFails, StartTeardown, Go
<1>11. ASSUME NEW c \in Callers, RequestEnds(c) PROVE Holding'
    BY <1>11, <1>t, Kept, Outside DEF RequestEnds, Over
<1>12. ASSUME NEW c \in Callers, Cancel(c) PROVE Holding'
  <2>1. CASE pc[c] \in {"lock", "reply"}
    BY <1>12, <1>t, <2>1, Kept, Outside DEF Cancel, Over, Teardowns
  <2>2. CASE pc[c] \in Teardowns \cup {"dial"}
    BY <1>12, <1>t, <2>2, Released, Outside DEF Cancel, Over, Teardowns
  <2>3. CASE pc[c] = "register"
    BY <1>12, <1>t, <2>3, Kept, Outside DEF Cancel, StartTeardown, Go, Teardowns
  <2> QED
    BY <1>12, <2>1, <2>2, <2>3 DEF Cancel
<1>13. ASSUME UNCHANGED <<pc, holder>> PROVE Holding'
    BY <1>13 DEF Holding
<1>14. ASSUME NEW c \in Callers, Prompted(c) PROVE UNCHANGED <<pc, holder>>
    BY <1>14 DEF Prompted, calls
<1>15. ASSUME NEW n \in Conns, NEW frame \in Frames, RegisterFrame(n, frame)
       PROVE  UNCHANGED <<pc, holder>>
    BY <1>15 DEF RegisterFrame, calls
<1>16. ASSUME NEW n \in Conns, NEW c \in Callers, Answer(n, c)
       PROVE  UNCHANGED <<pc, holder>>
    BY <1>16 DEF Answer
<1>17. ASSUME NEW n \in Conns, ReaderEnds(n) \/ Drops(n) PROVE UNCHANGED <<pc, holder>>
    BY <1>17 DEF ReaderEnds, Drops, calls
<1>18. ASSUME UNCHANGED vars PROVE UNCHANGED <<pc, holder>>
    BY <1>18 DEF vars
<1> QED
    BY <1>1, <1>2, <1>3, <1>4, <1>5, <1>6, <1>7, <1>8, <1>9, <1>10, <1>11, <1>12, <1>13,
       <1>14, <1>15, <1>16, <1>17, <1>18
    DEF Next, Step

-----------------------------------------------------------------------------
(* A step that leaves the connection alone, and in which nobody enters.    *)
LEMMA Undisturbed ==
    ASSUME LinkInv, UNCHANGED <<connected, ws, reader, sock, rd>>,
           \A d \in Callers : pc'[d] = pc[d] \/ pc'[d] \notin Within
    PROVE  LinkInv'
<1>1. \A d \in Callers : pc'[d] \in Within => pc'[d] = pc[d]
    OBVIOUS
<1>2. Down' /\ Dialing' /\ Registering'
    BY <1>1, Outside DEF LinkInv, Down, Dialing, Registering
<1>3. Gathering'
    BY <1>1 DEF LinkInv, Gathering, Within
<1>4. ReaderOfSocket' /\ OpenIsRead' /\ ConnectedHasReader'
    BY DEF LinkInv, ReaderOfSocket, OpenIsRead, ConnectedHasReader
<1> QED
    BY <1>2, <1>3, <1>4 DEF LinkInv

(* The start of a teardown, of a connection or of what is left of one.     *)
LEMMA TornDown ==
    ASSUME CallsOK, Holding', LinkInv, NEW c \in Callers, NEW kind \in Teardowns,
           StartTeardown(c, kind), UNCHANGED <<ws, reader, sock, rd>>
    PROVE  LinkInv'
<1>1. /\ connected' = FALSE
      /\ \A d \in Callers : pc'[d] = IF d = c THEN kind ELSE pc[d]
    BY DEF StartTeardown, Go, CallsOK
<1>2. Down' /\ ConnectedHasReader'
    BY <1>1 DEF Down, ConnectedHasReader
<1>3. Gathering' /\ Dialing' /\ Registering'
    BY <1>1 DEF LinkInv, Gathering, Dialing, Registering, Gathers, Teardowns
<1>4. ReaderOfSocket' /\ OpenIsRead'
    BY DEF LinkInv, ReaderOfSocket, OpenIsRead
<1> QED
    BY <1>2, <1>3, <1>4 DEF LinkInv

(* The end of a teardown, with every socket closed.                        *)
LEMMA Forgotten ==
    ASSUME CallsOK, Holding, LinkInv, NEW c \in Callers, pc[c] \in Within,
           Forget(c, pc[c]), ~ connected, connected' = FALSE, reader' = NoConn,
           \A n \in Conns : sock'[n] # "open"
    PROVE  LinkInv'
<1>1. /\ ws' = NoConn /\ pc'[c] \in {"dial", "idle"}
      /\ \A d \in Callers : d # c => pc'[d] = pc[d]
    BY DEF Forget, CallsOK
<1>2. \A d \in Callers : d # c => pc'[d] \notin Within
    BY <1>1, Alone
<1>3. Down' /\ Gathering' /\ Dialing'
    BY <1>1, <1>2, Outside DEF Down, Gathering, Dialing, Gathers
<1>4. Registering'
    BY <1>1, <1>2, Outside DEF Registering
<1>5. ReaderOfSocket' /\ OpenIsRead' /\ ConnectedHasReader'
    BY <1>1 DEF ReaderOfSocket, OpenIsRead, ConnectedHasReader
<1> QED
    BY <1>3, <1>4, <1>5 DEF LinkInv

(* What is left of the connection at each place is kept by every step: the *)
(* steps that touch it are those of the holder, of which there is one, and *)
(* of the reader.                                                          *)
LEMMA LinkStep == TypeOK /\ Holding /\ LinkInv /\ [Next]_vars => LinkInv'
<1> SUFFICES ASSUME TypeOK, Holding, LinkInv, [Next]_vars PROVE LinkInv'
    OBVIOUS
<1>t. CallsOK /\ LinkOK
    BY Typed
<1>h. Holding'
    BY HoldingStep
<1>1. ASSUME NEW c \in Callers,
             \/ RequestNow(c) \/ DialFails(c) \/ Registered(c) \/ RequestEnds(c)
             \/ \E what \in Ops : Call(c, what)
      PROVE  LinkInv'
  <2>1. /\ UNCHANGED <<connected, ws, reader, sock, rd>>
        /\ \E place \in {"idle", "lock", "reply"} : pc' = [pc EXCEPT ![c] = place]
    BY <1>1, Goes DEF RequestNow, DialFails, Registered, RequestEnds, Call, link, Send, Over
  <2> QED
    BY <2>1, <1>t, Undisturbed, Outside DEF CallsOK
<1>2. ASSUME NEW c \in Callers, Connect(c) PROVE LinkInv'
  <2>1. CASE connected
    <3>1. /\ UNCHANGED <<connected, ws, reader, sock, rd>>
          /\ \E place \in {"idle", "reply"} : pc' = [pc EXCEPT ![c] = place]
        BY <1>2, <2>1, Goes DEF Connect
    <3> QED
        BY <3>1, <1>t, Undisturbed, Outside DEF CallsOK
  <2>2. CASE ~ connected /\ StartTeardown(c, "clear")
    BY <1>2, <2>2, <1>t, <1>h, TornDown DEF Connect, Teardowns
  <2>3. CASE ~ connected /\ ~ StartTeardown(c, "clear")
    <3>1. /\ ws = NoConn /\ reader = NoConn /\ pc' = [pc EXCEPT ![c] = "dial"]
          /\ UNCHANGED <<connected, ws, reader, sock, rd>>
        BY <1>2, <2>3 DEF Connect, Go
    <3>2. \A d \in Callers : pc'[d] = IF d = c THEN "dial" ELSE pc[d]
        BY <3>1, <1>t DEF CallsOK
    <3>3. Down' /\ Dialing' /\ Registering'
        BY <2>3, <3>1, <3>2 DEF LinkInv, Down, Dialing, Registering
    <3>4. Gathering'
        BY <3>1, <3>2 DEF LinkInv, Gathering, Gathers
    <3>5. ReaderOfSocket' /\ OpenIsRead' /\ ConnectedHasReader'
        BY <3>1 DEF LinkInv, ReaderOfSocket, OpenIsRead, ConnectedHasReader
    <3> QED
        BY <3>3, <3>4, <3>5 DEF LinkInv
  <2> QED
    BY <2>1, <2>2, <2>3
<1>3. ASSUME NEW c \in Callers, Close(c) PROVE LinkInv'
    BY <1>3, <1>t, <1>h, TornDown DEF Close, Teardowns
<1>4. ASSUME NEW c \in Callers, SocketClosed(c) PROVE LinkInv'
  <2>1. /\ pc[c] \in Teardowns /\ pc[c] \in Within
        /\ ~ connected /\ connected' = FALSE
    BY <1>4, <1>t DEF SocketClosed, Within, LinkOK, LinkInv, Down, Teardowns
  <2>2. \A n \in Conns : sock'[n] # "open"
    <3>1. \A n \in Conns : n # NoConn /\ (sock[n] = "open" => ws = n)
        BY DEF LinkInv, OpenIsRead, Conns, NoConn
    <3>2. CASE ws = NoConn
        BY <1>4, <3>1, <3>2 DEF SocketClosed
    <3>3. CASE ws # NoConn
        BY <1>4, <1>t, <3>1, <3>3 DEF SocketClosed, LinkOK
    <3> QED
        BY <3>2, <3>3
  <2>3. CASE reader = NoConn
    BY <1>4, <1>t, <2>1, <2>2, <2>3, Forgotten DEF SocketClosed
  <2>4. CASE reader # NoConn
    <3>1. /\ \A d \in Callers : pc'[d] = IF d = c THEN Gather[pc[c]] ELSE pc[d]
          /\ connected' = connected /\ reader' = NoConn /\ ws' = ws
        BY <1>4, <1>t, <2>4 DEF SocketClosed, Go, CallsOK
    <3>2. pc'[c] \in Gathers /\ \A d \in Callers : d # c => pc'[d] \notin Within
        BY <3>1, <2>1, Gathered, Alone
    <3>3. Down' /\ Gathering'
        BY <2>1, <2>2, <3>1, <3>2 DEF Down, Gathering, Within
    <3>4. Dialing' /\ Registering'
        BY <3>2, Outside DEF Dialing, Registering, Gathers
    <3>5. ReaderOfSocket' /\ OpenIsRead' /\ ConnectedHasReader'
        BY <2>1, <2>2, <3>1 DEF ReaderOfSocket, OpenIsRead, ConnectedHasReader
    <3> QED
        BY <3>3, <3>4, <3>5 DEF LinkInv
  <2> QED
    BY <2>3, <2>4
<1>5. ASSUME NEW c \in Callers, ReaderGathered(c) PROVE LinkInv'
  <2>1. pc[c] \in Gathers /\ pc[c] \in Within /\ pc[c] # "register"
    BY <1>5 DEF ReaderGathered, Within, Gathers
  <2>2. /\ ~ connected /\ connected' = FALSE /\ reader' = NoConn
        /\ \A n \in Conns : sock'[n] # "open"
    BY <1>5, <1>t, <2>1 DEF ReaderGathered, LinkOK, LinkInv, Down, Gathering
  <2> QED
    BY <1>5, <1>t, <2>1, <2>2, Forgotten DEF ReaderGathered
<1>6. ASSUME NEW c \in Callers, DialOpens(c) PROVE LinkInv'
  <2>1. pc[c] = "dial" /\ pc[c] \in Within /\ ws = NoConn
    BY <1>6, Outside DEF DialOpens, LinkInv, Dialing
  <2>2. \A m \in Conns : sock[m] # "open"
    BY <2>1 DEF LinkInv, OpenIsRead, Conns, NoConn
  <2>3. PICK n \in Conns :
            /\ ws' = n /\ reader' = n
            /\ sock' = [sock EXCEPT ![n] = "open"]
            /\ rd' = [rd EXCEPT ![n] = "running"]
    BY <1>6 DEF DialOpens
  <2>4. \A d \in Callers : pc'[d] = IF d = c THEN "register" ELSE pc[d]
    BY <1>6, <1>t DEF DialOpens, Go, CallsOK
  <2>5. n # NoConn
    BY DEF Conns, NoConn
  <2>6. \A d \in Callers : d # c => pc'[d] \notin Within
    BY <2>1, <2>4, Alone
  <2>7. Down' /\ Dialing' /\ Registering'
    BY <2>3, <2>4, <2>5, <2>6, Outside DEF Down, Dialing, Registering
  <2>8. Gathering'
    BY <2>4, <2>6 DEF Gathering, Within, Gathers
  <2>9. ReaderOfSocket' /\ ConnectedHasReader'
    BY <2>3, <2>5, <1>t DEF ReaderOfSocket, ConnectedHasReader, LinkOK
  <2>10. OpenIsRead'
    BY <2>2, <2>3, <1>t DEF OpenIsRead, LinkOK
  <2> QED
    BY <2>7, <2>8, <2>9, <2>10 DEF LinkInv
<1>7. ASSUME NEW c \in Callers, HandshakeFails(c) PROVE LinkInv'
    BY <1>7, <1>t, <1>h, TornDown DEF HandshakeFails, Teardowns
<1>8. ASSUME NEW c \in Callers, Cancel(c) PROVE LinkInv'
  <2>1. CASE StartTeardown(c, "undo") /\ UNCHANGED <<ws, reader, sock, rd>>
    BY <2>1, <1>t, <1>h, TornDown DEF Teardowns
  <2>2. CASE ~ (StartTeardown(c, "undo") /\ UNCHANGED <<ws, reader, sock, rd>>)
    <3>1. /\ UNCHANGED <<connected, ws, reader, sock, rd>>
          /\ pc' = [pc EXCEPT ![c] = "idle"]
        BY <1>8, <2>2 DEF Cancel, Over, link
    <3> QED
        BY <3>1, <1>t, Undisturbed, Outside DEF CallsOK
  <2> QED
    BY <2>1, <2>2
<1>9. ASSUME NEW n \in Conns, ReaderEnds(n) PROVE LinkInv'
  <2>1. /\ UNCHANGED <<ws, reader, sock, pc>> /\ connected' = FALSE
        /\ sock[n] # "open"
    BY <1>9 DEF ReaderEnds, LinkInv, OpenIsRead
  <2>2. \A m \in Conns : sock[m] = "open" => rd'[m] = rd[m]
    BY <1>9, <1>t, <2>1 DEF ReaderEnds, LinkOK
  <2>3. Down' /\ Gathering' /\ Dialing' /\ Registering'
    BY <2>1 DEF LinkInv, Down, Gathering, Dialing, Registering
  <2>4. ReaderOfSocket' /\ OpenIsRead' /\ ConnectedHasReader'
    BY <2>1, <2>2 DEF LinkInv, ReaderOfSocket, OpenIsRead, ConnectedHasReader
  <2> QED
    BY <2>3, <2>4 DEF LinkInv
<1>10. ASSUME NEW n \in Conns, Drops(n) PROVE LinkInv'
  <2>1. /\ UNCHANGED <<connected, ws, reader, rd, pc>>
        /\ \A m \in Conns : sock'[m] = "open" => sock[m] = "open"
    BY <1>10, <1>t DEF Drops, calls, LinkOK
  <2>2. Down' /\ Gathering' /\ Dialing' /\ Registering'
    BY <2>1 DEF LinkInv, Down, Gathering, Dialing, Registering
  <2>3. ReaderOfSocket' /\ OpenIsRead' /\ ConnectedHasReader'
    BY <2>1 DEF LinkInv, ReaderOfSocket, OpenIsRead, ConnectedHasReader
  <2> QED
    BY <2>2, <2>3 DEF LinkInv
<1>11. ASSUME UNCHANGED <<connected, ws, reader, sock, rd, pc>> PROVE LinkInv'
    BY <1>11, Undisturbed
<1>12. ASSUME \/ \E c \in Callers : Prompted(c)
              \/ \E n \in Conns : \E frame \in Frames : RegisterFrame(n, frame)
              \/ \E n \in Conns : \E c \in Callers : Answer(n, c)
              \/ UNCHANGED vars
       PROVE  UNCHANGED <<connected, ws, reader, sock, rd, pc>>
    BY <1>12 DEF Prompted, RegisterFrame, Answer, calls, link, vars
<1> QED
    BY <1>1, <1>2, <1>3, <1>4, <1>5, <1>6, <1>7, <1>8, <1>9, <1>10, <1>11, <1>12
    DEF Next, Step

-----------------------------------------------------------------------------
(* The futures.                                                            *)
WaitInv == NoOrphan /\ Routed

(* _fail_pending leaves nobody waiting: whoever waits is in _pending.      *)
LEMMA Rejected ==
    ASSUME WaitInv, FailPending
    PROVE  WaitInv'
<1>1. \A c \in Callers : fut'[c] # "waiting"
    BY DEF WaitInv, NoOrphan, FailPending, Failed
<1> QED
    BY <1>1 DEF WaitInv, NoOrphan, Routed

(* A step that gives nobody a future and ends no reader.                   *)
LEMMA StillWaiting ==
    ASSUME WaitInv, UNCHANGED <<fut, via, pending>>,
           \A n \in Conns : rd[n] \in {"running", "cancelled"}
                             => rd'[n] \in {"running", "cancelled"}
    PROVE  WaitInv'
BY DEF WaitInv, NoOrphan, Routed

(* A call that ends takes its future with it.                              *)
LEMMA OverWaits ==
    ASSUME CallsOK, WaitInv, NEW c \in Callers, Over(c), UNCHANGED rd
    PROVE  WaitInv'
BY DEF CallsOK, Over, WaitInv, NoOrphan, Routed

(* A request waits for an answer on the current socket, whose reader runs. *)
LEMMA SendWaits ==
    ASSUME CallsOK, LinkOK, LinkInv, WaitInv, NEW c \in Callers, Send(c),
           ws # NoConn, UNCHANGED rd
    PROVE  WaitInv'
<1>1. CASE Over(c)
    BY <1>1, OverWaits
<1>2. CASE ~ Over(c)
  <2>1. ws \in Conns /\ rd[ws] = "running"
    BY <1>2 DEF Send, LinkOK, LinkInv, OpenIsRead
  <2>2. /\ \A d \in Callers \ {c} : fut'[d] = fut[d] /\ via'[d] = via[d]
        /\ via'[c] = ws /\ pending' = pending \cup {c}
    BY <1>2 DEF Send, CallsOK
  <2> QED
    BY <2>1, <2>2 DEF WaitInv, NoOrphan, Routed
<1> QED
    BY <1>1, <1>2

(* No step ends a reader without failing what waits for it.                *)
LEMMA WaitStep == TypeOK /\ LinkInv /\ WaitInv /\ [Next]_vars => WaitInv'
<1> SUFFICES ASSUME TypeOK, LinkInv, WaitInv, [Next]_vars PROVE WaitInv'
    OBVIOUS
<1>t. CallsOK /\ LinkOK
    BY Typed
<1>1. ASSUME NEW c \in Callers, RequestNow(c) PROVE WaitInv'
    BY <1>1, <1>t, SendWaits DEF RequestNow, link, LinkInv, ConnectedHasReader
<1>2. ASSUME NEW c \in Callers, ws # NoConn, Connected(c), UNCHANGED rd PROVE WaitInv'
    BY <1>2, <1>t, SendWaits, OverWaits DEF Connected
<1>3. ASSUME NEW c \in Callers, Over(c), UNCHANGED rd PROVE WaitInv'
    BY <1>3, <1>t, OverWaits
<1>4. ASSUME UNCHANGED <<fut, via, pending, rd>> PROVE WaitInv'
    BY <1>4, StillWaiting
<1>5. ASSUME NEW c \in Callers, Connect(c) PROVE WaitInv'
  <2>1. CASE connected
    BY <1>2, <1>5, <2>1 DEF Connect, LinkInv, ConnectedHasReader
  <2>2. CASE ~ connected
    BY <1>4, <1>5, <2>2 DEF Connect, StartTeardown, Go
  <2> QED
    BY <2>1, <2>2
<1>6. ASSUME NEW c \in Callers, Registered(c) PROVE WaitInv'
    BY <1>2, <1>6 DEF Registered, LinkInv, Registering
<1>7. ASSUME NEW c \in Callers, DialFails(c) \/ RequestEnds(c) PROVE WaitInv'
    BY <1>3, <1>7 DEF DialFails, RequestEnds, link
<1>8. ASSUME NEW c \in Callers, Cancel(c) PROVE WaitInv'
  <2>1. /\ UNCHANGED rd
        /\ Over(c) \/ UNCHANGED <<fut, via, pending>>
    BY <1>8 DEF Cancel, StartTeardown, Go, link
  <2> QED
    BY <1>3, <1>4, <2>1
<1>9. ASSUME NEW c \in Callers, SocketClosed(c) PROVE WaitInv'
  <2>1. CASE reader = NoConn
    BY <1>9, <2>1, Rejected DEF SocketClosed, Forget
  <2>2. CASE reader # NoConn
    <3>1. UNCHANGED <<fut, via, pending>>
        BY <1>9, <2>2 DEF SocketClosed, Go
    <3>2. \A n \in Conns : rd[n] \in {"running", "cancelled"}
                           => rd'[n] \in {"running", "cancelled"}
        BY <1>9, <2>2, <1>t DEF SocketClosed, LinkOK
    <3> QED
        BY <3>1, <3>2, StillWaiting
  <2> QED
    BY <2>1, <2>2
<1>10. ASSUME NEW c \in Callers, ReaderGathered(c) PROVE WaitInv'
    BY <1>10, Rejected DEF ReaderGathered, Forget
<1>11. ASSUME NEW c \in Callers, DialOpens(c) PROVE WaitInv'
  <2>1. UNCHANGED <<fut, via, pending>>
    BY <1>11 DEF DialOpens, Go
  <2>2. \A n \in Conns : rd[n] \in {"running", "cancelled"}
                         => rd'[n] \in {"running", "cancelled"}
    BY <1>11, <1>t DEF DialOpens, LinkOK
  <2> QED
    BY <2>1, <2>2, StillWaiting
<1>12. ASSUME NEW n \in Conns, ReaderEnds(n) PROVE WaitInv'
    BY <1>12, Rejected DEF ReaderEnds
<1>13. ASSUME NEW n \in Conns, NEW c \in Callers, Answer(n, c) PROVE WaitInv'
  <2>1. /\ fut' = [fut EXCEPT ![c] = "answered"] /\ pending' = pending \ {c}
        /\ UNCHANGED <<via, rd>>
    BY <1>13 DEF Answer, link
  <2> QED
    BY <2>1, <1>t DEF CallsOK, WaitInv, NoOrphan, Routed
<1>14. ASSUME \/ \E c \in Callers :
                     \/ Close(c) \/ Prompted(c) \/ HandshakeFails(c)
                     \/ \E what \in Ops : Call(c, what)
              \/ \E n \in Conns :
                     Drops(n) \/ \E frame \in Frames : RegisterFrame(n, frame)
              \/ UNCHANGED vars
       PROVE  UNCHANGED <<fut, via, pending, rd>>
    BY <1>14
    DEF Close, Prompted, HandshakeFails, Call, Drops, RegisterFrame, StartTeardown, Go,
        link, calls, vars
<1> QED
    BY <1>1, <1>4, <1>5, <1>6, <1>7, <1>8, <1>9, <1>10, <1>11, <1>12, <1>13, <1>14
    DEF Next, Step

-----------------------------------------------------------------------------
(* The handshake.  A step in which nobody enters it and that leaves its    *)
(* socket and its queue alone, or takes a frame.                           *)
LEMMA SameHandshake ==
    ASSUME HandshakeHonest, UNCHANGED <<registerQ, ws>>,
           \A d \in Callers : pc'[d] = "register" => pc[d] = "register"
    PROVE  HandshakeHonest'
BY DEF HandshakeHonest

(* A handshake that reads a frame leaves the later ones of the same        *)
(* socket.                                                                 *)
LEMMA FrameTaken ==
    ASSUME LinkOK, HandshakeHonest, UNCHANGED ws, registerQ # << >>,
           registerQ' = Tail(registerQ),
           \A d \in Callers : pc'[d] = "register" => pc[d] = "register"
    PROVE  HandshakeHonest'
<1>1. registerQ \in Seq([frame : Frames, from : Conns])
    BY DEF LinkOK
<1>2. \A i \in DOMAIN Tail(registerQ) :
         i + 1 \in DOMAIN registerQ /\ Tail(registerQ)[i] = registerQ[i + 1]
    BY <1>1
<1> QED
    BY <1>2 DEF HandshakeHonest

(* A handshake starts from an empty queue, and until it ends only the      *)
(* reader of its own socket adds to it.                                    *)
LEMMA HandshakeStep ==
    TypeOK /\ Holding /\ LinkInv /\ HandshakeHonest /\ [Next]_vars => HandshakeHonest'
<1> SUFFICES ASSUME TypeOK, Holding, LinkInv, HandshakeHonest, [Next]_vars
             PROVE  HandshakeHonest'
    OBVIOUS
<1>t. CallsOK /\ LinkOK
    BY Typed
<1>1. ASSUME NEW c \in Callers, NEW place \in Places \ {"register"},
             pc' = [pc EXCEPT ![c] = place], UNCHANGED <<registerQ, ws>>
      PROVE  HandshakeHonest'
    BY <1>1, <1>t, SameHandshake DEF CallsOK
<1>2. ASSUME NEW c \in Callers,
             \/ RequestNow(c) \/ Connect(c) \/ Close(c) \/ DialFails(c)
             \/ RequestEnds(c) \/ Cancel(c) \/ \E what \in Ops : Call(c, what)
      PROVE  HandshakeHonest'
  <2>1. /\ UNCHANGED <<registerQ, ws>>
        /\ \E place \in {"idle", "lock", "reply", "clear", "dial", "final", "undo"} :
               pc' = [pc EXCEPT ![c] = place]
    <3>1. CASE RequestNow(c) \/ Connect(c) \/ Close(c)
        BY <3>1, Goes DEF RequestNow, Connect, Close, StartTeardown, Go, link, Send, Over
    <3>2. CASE \/ DialFails(c) \/ RequestEnds(c) \/ Cancel(c)
               \/ \E what \in Ops : Call(c, what)
        BY <3>2 DEF DialFails, RequestEnds, Cancel, Call, StartTeardown, Go, link, Over
    <3> QED
        BY <1>2, <3>1, <3>2
  <2> QED
    BY <1>1, <2>1 DEF Places, Teardowns
<1>3. ASSUME NEW c \in Callers, Registered(c) \/ Prompted(c) PROVE HandshakeHonest'
  <2>1. \/ UNCHANGED pc \/ pc' = [pc EXCEPT ![c] = "idle"]
        \/ pc' = [pc EXCEPT ![c] = "reply"]
    BY <1>3, Goes DEF Registered, Prompted, calls
  <2>2. \A d \in Callers : pc'[d] = "register" => pc[d] = "register"
    BY <2>1, <1>t DEF CallsOK
  <2> QED
    BY <1>3, <1>t, <2>2, FrameTaken DEF Registered, Prompted
<1>4. ASSUME NEW c \in Callers, HandshakeFails(c) PROVE HandshakeHonest'
  <2>1. \A d \in Callers : pc'[d] = "register" => pc[d] = "register"
    BY <1>4, <1>t DEF HandshakeFails, StartTeardown, Go, CallsOK
  <2> QED
    BY <1>4, <1>t, <2>1, SameHandshake, FrameTaken DEF HandshakeFails
<1>5. ASSUME NEW c \in Callers, SocketClosed(c) \/ ReaderGathered(c)
      PROVE  HandshakeHonest'
  <2>1. pc[c] \in Within
    BY <1>5 DEF SocketClosed, ReaderGathered, Within
  <2>2. pc'[c] # "register" /\ \A d \in Callers \ {c} : pc'[d] = pc[d]
    BY <1>5, <1>t, Gathered
    DEF SocketClosed, ReaderGathered, Forget, Go, Gathers, CallsOK
  <2>3. \A d \in Callers : pc'[d] # "register"
    BY <2>1, <2>2, Alone, Outside
  <2> QED
    BY <2>3 DEF HandshakeHonest
<1>6. ASSUME NEW c \in Callers, DialOpens(c) PROVE HandshakeHonest'
    BY <1>6 DEF DialOpens, HandshakeHonest
<1>7. ASSUME NEW n \in Conns, NEW frame \in Frames, RegisterFrame(n, frame)
      PROVE  HandshakeHonest'
  <2>1. ws = n /\ UNCHANGED <<pc, ws>>
    BY <1>7 DEF RegisterFrame, calls, LinkInv, OpenIsRead
  <2>2. registerQ \in Seq([frame : Frames, from : Conns])
    BY <1>t DEF LinkOK
  <2>3. \A i \in DOMAIN registerQ' :
           \/ registerQ'[i].from = n
           \/ i \in DOMAIN registerQ /\ registerQ'[i] = registerQ[i]
    <3> DEFINE f == [frame |-> frame, from |-> n]
    <3>1. f \in [frame : Frames, from : Conns] /\ f.from = n
        OBVIOUS
    <3>2. registerQ' = Append(registerQ, f)
        BY <1>7 DEF RegisterFrame
    <3> HIDE DEF f
    <3>3. \A i \in DOMAIN registerQ' :
             i \in 1 .. Len(registerQ) \/ registerQ'[i] = f
        BY <3>1, <3>2, <2>2, AppendProperties, LenProperties
    <3>4. \A i \in 1 .. Len(registerQ) : i \in DOMAIN registerQ /\ registerQ'[i] = registerQ[i]
        BY <3>1, <3>2, <2>2, AppendProperties, LenProperties
    <3> QED
        BY <3>1, <3>3, <3>4
  <2> QED
    BY <2>1, <2>3 DEF HandshakeHonest
<1>8. ASSUME \/ \E n \in Conns :
                    \/ ReaderEnds(n) \/ Drops(n)
                    \/ \E c \in Callers : Answer(n, c)
             \/ UNCHANGED vars
      PROVE  HandshakeHonest'
  <2>1. UNCHANGED <<registerQ, ws, pc>>
    BY <1>8 DEF ReaderEnds, Drops, Answer, link, calls, vars
  <2> QED
    BY <2>1, SameHandshake
<1> QED
    BY <1>2, <1>3, <1>4, <1>5, <1>6, <1>7, <1>8 DEF Next, Step

-----------------------------------------------------------------------------
CInv == TypeOK /\ Holding /\ LinkInv /\ WaitInv /\ HandshakeHonest

(* The parts above make one inductive invariant.                           *)
LEMMA ClientInv == Spec => []CInv
<1>1. Init => CInv
  <2> SUFFICES ASSUME Init PROVE CInv
    OBVIOUS
  <2>1. TypeOK
    BY TypeInit
  <2>2. Holding
    BY ClientAssumption, Outside DEF Init, Holding
  <2>3. LinkInv
    BY Outside
    DEF Init, LinkInv, Down, Gathering, Dialing, Registering, ReaderOfSocket, OpenIsRead,
        ConnectedHasReader, Gathers
  <2>4. WaitInv /\ HandshakeHonest
    BY DEF Init, WaitInv, NoOrphan, Routed, HandshakeHonest
  <2> QED
    BY <2>1, <2>2, <2>3, <2>4 DEF CInv
<1>2. CInv /\ [Next]_vars => CInv'
    BY TypeStep, HoldingStep, LinkStep, WaitStep, HandshakeStep DEF CInv
<1> QED
    BY <1>1, <1>2, PTL DEF Spec

(* Opening, handshaking and closing exclude each other: at most one caller *)
(* is in the part of connect or close that holds _lock, through every      *)
(* cancel, failure and time-out.                                           *)
OneInLock == \A c, d \in Callers : pc[c] \in Within /\ pc[d] \in Within => c = d

(* connect and close serialise what they do to the connection.             *)
THEOREM OneInLockHolds == Spec => []OneInLock
<1>1. CInv => OneInLock
    BY DEF CInv, Holding, OneInLock
<1> QED
    BY <1>1, ClientInv, PTL

(* Whoever trusts _connected finds a socket whose reader runs and will     *)
(* clear it, for any number of callers and sockets.                        *)
THEOREM ConnectedHasReaderHolds == Spec => []ConnectedHasReader
<1>1. CInv => ConnectedHasReader
    BY DEF CInv, LinkInv
<1> QED
    BY <1>1, ClientInv, PTL

(* No request is left waiting when its reader has ended.                   *)
THEOREM NoOrphanHolds == Spec => []NoOrphan
<1>1. CInv => NoOrphan
    BY DEF CInv, WaitInv
<1> QED
    BY <1>1, ClientInv, PTL

(* A handshake reads only frames of its own socket.                        *)
THEOREM HandshakeHonestHolds == Spec => []HandshakeHonest
<1>1. CInv => HandshakeHonest
    BY DEF CInv
<1> QED
    BY <1>1, ClientInv, PTL

(* No open socket is ever lost from _ws.                                   *)
THEOREM NoLeakHolds == Spec => []NoLeak
<1>1. CInv => NoLeak
    BY DEF CInv, LinkInv, OpenIsRead, NoLeak
<1> QED
    BY <1>1, ClientInv, PTL
-----------------------------------------------------------------------------
(* The queue of _lock has everybody who waits for it, once, and nobody     *)
(* else.                                                                   *)
FifoHolds == ToSet(queue) = Waiting /\ IsInjective(queue)

(* A call that begins to wait joins the queue.                             *)
LEMMA FifoJoin ==
    ASSUME TypeOK, FifoHolds, NEW c \in Callers, c \notin Waiting,
           queue' = Append(queue, c), Waiting' = Waiting \cup {c}
    PROVE  FifoHolds'
BY Joins DEF FifoHolds, TypeOK

(* The call at the head goes on.                                           *)
LEMMA FifoServe ==
    ASSUME TypeOK, FifoHolds, queue # << >>, queue' = Tail(queue),
           Waiting' = Waiting \ {Head(queue)}
    PROVE  FifoHolds'
BY Served DEF FifoHolds, TypeOK

(* A call that is cancelled while it waits leaves its place.               *)
LEMMA FifoLeave ==
    ASSUME TypeOK, FifoHolds, NEW c \in Callers, LeaveQueue(c),
           Waiting' = Waiting \ {c}
    PROVE  FifoHolds'
BY Leaves DEF FifoHolds, TypeOK, LeaveQueue

(* A step within the lock or outside it leaves the queue alone.            *)
LEMMA FifoQuiet ==
    ASSUME TypeOK, FifoHolds, NEW c \in Callers, NEW place, queue' = queue,
           pc' = [pc EXCEPT ![c] = place], pc[c] # "lock", place # "lock"
    PROVE  FifoHolds'
<1>1. Waiting' = Waiting
    BY DEF TypeOK, Waiting
<1> QED
    BY <1>1 DEF FifoHolds

(* What takes the lock was at the head of its queue.                       *)
LEMMA FifoLocked ==
    ASSUME TypeOK, FifoHolds, NEW c \in Callers, Locked(c), NEW place,
           pc' = [pc EXCEPT ![c] = place], place # "lock"
    PROVE  FifoHolds'
<1>1. Waiting' = Waiting \ {c}
    BY DEF TypeOK, Waiting
<1> QED
    BY <1>1, FifoServe DEF Locked

(* Nobody waits for the lock of a new client.                              *)
LEMMA FifoInit == Init => FifoHolds
BY NobodyWaits DEF Init, FifoHolds, Waiting

(* Where a teardown leads.                                                 *)
LEMMA AfterTeardown ==
    ASSUME NEW c, NEW place, Forget(c, place)
    PROVE  \/ place \in {"clear", "clearReader"} /\ pc' = [pc EXCEPT ![c] = "dial"]
           \/ pc' = [pc EXCEPT ![c] = "idle"]
BY DEF Forget

(* How far each place is from the end of a call.                           *)
LEMMA AheadOf ==
    /\ Ahead["idle"] = 0 /\ Ahead["reply"] = 1
    /\ Ahead["finalReader"] = 2 /\ Ahead["undoReader"] = 2
    /\ Ahead["final"] = 3 /\ Ahead["undo"] = 3
    /\ Ahead["register"] = 4 /\ Ahead["dial"] = 5
    /\ Ahead["clearReader"] = 6 /\ Ahead["clear"] = 7 /\ Ahead["lock"] = 8
    /\ Gather["clear"] = "clearReader" /\ Gather["undo"] = "undoReader"
    /\ Gather["final"] = "finalReader"
    /\ Places = {"idle", "reply", "finalReader", "undoReader", "final", "undo", "register",
                 "dial", "clearReader", "clear", "lock"}
BY DEF Ahead, Gather, Places, Teardowns, Gathers

(* A call goes on to a place nearer its end, which is not the queue.       *)
Onward(c) ==
    \E place \in Places \ {"lock"} :
        /\ pc' = [pc EXCEPT ![c] = place]
        /\ Ahead[place] < Ahead[pc[c]]

(* A place that is nearer the end will do.                                 *)
LEMMA OnwardTo ==
    ASSUME NEW c \in Callers, NEW place \in Places \ {"lock"},
           pc' = [pc EXCEPT ![c] = place], Ahead[place] < Ahead[pc[c]]
    PROVE  Onward(c)
BY DEF Onward

(* Every step of a call within the lock or outside it goes onward, ...     *)
LEMMA Moves ==
    ASSUME TypeOK, NEW c \in Callers,
           \/ SocketClosed(c) \/ ReaderGathered(c) \/ DialOpens(c) \/ DialFails(c)
           \/ Registered(c) \/ HandshakeFails(c) \/ RequestEnds(c)
    PROVE  queue' = queue /\ pc[c] # "lock" /\ Onward(c)
<1>1. CASE SocketClosed(c)
  <2>1. queue' = queue /\ pc[c] \in {"clear", "undo", "final"}
      BY <1>1 DEF SocketClosed, Teardowns
  <2>2. CASE reader # NoConn
    <3>1. pc' = [pc EXCEPT ![c] = Gather[pc[c]]]
        BY <1>1, <2>2 DEF SocketClosed, Go
    <3>2. /\ Gather[pc[c]] \in Places \ {"lock"}
          /\ Ahead[Gather[pc[c]]] < Ahead[pc[c]]
        BY <2>1, AheadOf
    <3> QED
        BY <2>1, <3>1, <3>2, OnwardTo
  <2>3. CASE reader = NoConn
    <3>1. Forget(c, pc[c])
        BY <1>1, <2>3 DEF SocketClosed
    <3>2. PICK place \in {"idle", "dial"} :
              pc' = [pc EXCEPT ![c] = place] /\ (place = "dial" => pc[c] = "clear")
        BY <2>1, <3>1, AfterTeardown
    <3>3. Ahead[place] < Ahead[pc[c]] /\ place \in Places \ {"lock"}
        BY <2>1, <3>2, AheadOf
    <3> QED
        BY <2>1, <3>2, <3>3, OnwardTo
  <2> QED
      BY <2>2, <2>3
<1>2. CASE ReaderGathered(c)
  <2>1. /\ queue' = queue /\ pc[c] \in {"clearReader", "undoReader", "finalReader"}
        /\ Forget(c, pc[c])
      BY <1>2 DEF ReaderGathered, Gathers
  <2>2. PICK place \in {"idle", "dial"} :
            pc' = [pc EXCEPT ![c] = place] /\ (place = "dial" => pc[c] = "clearReader")
      BY <2>1, AfterTeardown
  <2>3. Ahead[place] < Ahead[pc[c]] /\ place \in Places \ {"lock"}
      BY <2>1, <2>2, AheadOf
  <2> QED
      BY <2>1, <2>2, <2>3, OnwardTo
<1>3. CASE DialOpens(c)
  <2>1. queue' = queue /\ pc[c] = "dial" /\ pc' = [pc EXCEPT ![c] = "register"]
      BY <1>3 DEF DialOpens, Go
  <2>2. Ahead["register"] < Ahead["dial"] /\ "register" \in Places \ {"lock"}
      BY AheadOf
  <2> QED
      BY <2>1, <2>2, OnwardTo
<1>4. CASE DialFails(c)
  <2>1. queue' = queue /\ pc[c] = "dial" /\ pc' = [pc EXCEPT ![c] = "idle"]
      BY <1>4 DEF DialFails, Over
  <2>2. Ahead["idle"] < Ahead["dial"] /\ "idle" \in Places \ {"lock"}
      BY AheadOf
  <2> QED
      BY <2>1, <2>2, OnwardTo
<1>5. CASE Registered(c)
  <2>1. queue' = queue /\ pc[c] = "register" /\ Connected(c)
      BY <1>5 DEF Registered
  <2>2. PICK place \in {"idle", "reply"} : pc' = [pc EXCEPT ![c] = place]
      BY <2>1, Goes
  <2>3. Ahead[place] < Ahead["register"] /\ place \in Places \ {"lock"}
      BY AheadOf
  <2> QED
      BY <2>1, <2>2, <2>3, OnwardTo
<1>6. CASE HandshakeFails(c)
  <2>1. queue' = queue /\ pc[c] = "register" /\ pc' = [pc EXCEPT ![c] = "undo"]
      BY <1>6 DEF HandshakeFails, StartTeardown, Go
  <2>2. Ahead["undo"] < Ahead["register"] /\ "undo" \in Places \ {"lock"}
      BY AheadOf
  <2> QED
      BY <2>1, <2>2, OnwardTo
<1>7. CASE RequestEnds(c)
  <2>1. queue' = queue /\ pc[c] = "reply" /\ pc' = [pc EXCEPT ![c] = "idle"]
      BY <1>7 DEF RequestEnds, Over
  <2>2. Ahead["idle"] < Ahead["reply"] /\ "idle" \in Places \ {"lock"}
      BY AheadOf
  <2> QED
      BY <2>1, <2>2, OnwardTo
<1> QED
    BY <1>1, <1>2, <1>3, <1>4, <1>5, <1>6, <1>7

(* ... and so does a call that takes the lock, ...                         *)
LEMMA LockedMoves ==
    ASSUME NEW c \in Callers, Connect(c) \/ Close(c)
    PROVE  Locked(c) /\ pc[c] = "lock" /\ Onward(c)
<1>1. Locked(c) /\ pc[c] = "lock"
    BY DEF Connect, Close, Locked
<1>2. PICK place \in {"idle", "reply", "clear", "dial", "final"} :
          pc' = [pc EXCEPT ![c] = place]
  <2>1. CASE Connect(c)
      BY <2>1, Goes DEF Connect, StartTeardown, Go
  <2>2. CASE Close(c)
      BY <2>2 DEF Close, StartTeardown, Go
  <2> QED
      BY <2>1, <2>2
<1>3. place \in Places \ {"lock"} /\ Ahead[place] < Ahead["lock"]
    BY AheadOf
<1> QED
    BY <1>1, <1>2, <1>3, OnwardTo

(* ... and one that is cancelled.                                          *)
LEMMA CancelMoves ==
    ASSUME NEW c \in Callers, Cancel(c)
    PROVE  /\ IF pc[c] = "lock" THEN LeaveQueue(c) ELSE queue' = queue
           /\ Onward(c)
<1>1. IF pc[c] = "lock" THEN LeaveQueue(c) ELSE queue' = queue
    BY DEF Cancel, link, Teardowns
<1>2. CASE pc[c] \in {"lock", "dial", "reply", "clear", "undo", "final"}
  <2>1. pc' = [pc EXCEPT ![c] = "idle"]
      BY <1>2 DEF Cancel, Over, Teardowns
  <2>2. Ahead["idle"] < Ahead[pc[c]] /\ "idle" \in Places \ {"lock"}
      BY <1>2, AheadOf
  <2> QED
      BY <1>1, <2>1, <2>2, OnwardTo
<1>3. CASE pc[c] = "register"
  <2>1. pc' = [pc EXCEPT ![c] = "undo"]
      BY <1>3 DEF Cancel, StartTeardown, Go, Teardowns
  <2>2. Ahead["undo"] < Ahead[pc[c]] /\ "undo" \in Places \ {"lock"}
      BY <1>3, AheadOf
  <2> QED
      BY <1>1, <2>1, <2>2, OnwardTo
<1> QED
    BY <1>2, <1>3 DEF Cancel, Teardowns

(* The reader task, the TV and a prompt move nobody.                       *)
LEMMA NobodyMoves ==
    ASSUME \/ \E c \in Callers : Prompted(c)
           \/ \E n \in Conns : \/ \E frame \in Frames : RegisterFrame(n, frame)
                               \/ \E c \in Callers : Answer(n, c)
                               \/ ReaderEnds(n) \/ Drops(n)
           \/ UNCHANGED vars
    PROVE  queue' = queue /\ pc' = pc
BY DEF Prompted, RegisterFrame, Answer, ReaderEnds, Drops, calls, link, vars

(* asyncio.Lock is fair and forgets who is cancelled: every step keeps     *)
(* FifoHolds.                                                              *)
LEMMA FifoStep == TypeOK /\ FifoHolds /\ [Next]_vars => FifoHolds'
<1> SUFFICES ASSUME TypeOK, FifoHolds, [Next]_vars PROVE FifoHolds'
    OBVIOUS
<1>1. ASSUME NEW c \in Callers, RequestNow(c) PROVE FifoHolds'
  <2>1. /\ queue' = queue /\ pc[c] = "idle"
        /\ pc' = [pc EXCEPT ![c] = "idle"] \/ pc' = [pc EXCEPT ![c] = "reply"]
      BY <1>1 DEF RequestNow, Send, Over
  <2> QED
      BY <2>1, FifoQuiet
<1>2. ASSUME NEW c \in Callers, NEW what \in Ops, Call(c, what) PROVE FifoHolds'
  <2>1. c \notin Waiting /\ Waiting' = Waiting \cup {c}
      BY <1>2 DEF Call, Waiting, TypeOK
  <2> QED
      BY <1>2, <2>1, FifoJoin DEF Call
<1>3. ASSUME NEW c \in Callers, Connect(c) \/ Close(c) PROVE FifoHolds'
    BY <1>3, LockedMoves, FifoLocked DEF Onward
<1>4. ASSUME NEW c \in Callers,
             \/ SocketClosed(c) \/ ReaderGathered(c) \/ DialOpens(c) \/ DialFails(c)
             \/ Registered(c) \/ HandshakeFails(c) \/ RequestEnds(c)
      PROVE  FifoHolds'
    BY <1>4, Moves, FifoQuiet DEF Onward
<1>5. ASSUME NEW c \in Callers, Cancel(c) PROVE FifoHolds'
  <2>1. CASE pc[c] = "lock"
    <3>1. Waiting' = Waiting \ {c}
        BY <1>5, CancelMoves DEF Waiting, TypeOK, Onward
    <3> QED
        BY <1>5, <2>1, <3>1, CancelMoves, FifoLeave
  <2>2. CASE pc[c] # "lock"
      BY <1>5, <2>2, CancelMoves, FifoQuiet DEF Onward
  <2> QED
      BY <2>1, <2>2
<1>6. ASSUME queue' = queue, pc' = pc PROVE FifoHolds'
    BY <1>6 DEF FifoHolds, Waiting
<1> QED
    BY <1>1, <1>2, <1>3, <1>4, <1>5, <1>6, NobodyMoves DEF Next, Step

(* webos.py:149, 153: whatever fails or is cancelled, _lock is held by the *)
(* one call that is within, or free, and exactly the calls that wait for   *)
(* it have a place in its queue.                                           *)
THEOREM LockSoundHolds == Spec => []LockSound
<1>1. CInv /\ FifoHolds => LockSound
  <2> SUFFICES ASSUME CInv, FifoHolds PROVE LockSound
      OBVIOUS
  <2>1. holder \in Callers \cup {Nobody}
      BY DEF CInv, TypeOK
  <2>2. \A c \in Callers : holder = c <=> c \in Working
      BY DEF CInv, Holding, Working, Within, Opening
  <2>3. Working \subseteq Callers
      BY DEF Working
  <2>4. Working = {holder} \ {Nobody}
      BY <2>1, <2>2, <2>3, ClientAssumption
  <2> QED
      BY <2>4 DEF FifoHolds, LockSound
<1>2. CInv /\ FifoHolds /\ [Next]_vars => FifoHolds'
    BY FifoStep DEF CInv
<1> QED
    BY <1>1, <1>2, FifoInit, ClientInv, PTL DEF Spec

(* What CallAdvances says of one step.                                     *)
CallStep ==
    \A c \in Callers : pc[c] # "idle" /\ pc'[c] # pc[c] => Ahead[pc'[c]] < Ahead[pc[c]]

(* A step of one call moves no other.                                      *)
LEMMA OneMoves ==
    ASSUME TypeOK, NEW c \in Callers, NEW place, pc' = [pc EXCEPT ![c] = place],
           pc[c] = "idle" \/ Ahead[place] < Ahead[pc[c]]
    PROVE  CallStep
BY DEF TypeOK, CallStep

(* Every step brings every call nearer to its end, or leaves it.           *)
LEMMA CallAdvancesStep == TypeOK /\ [Next]_vars => CallStep
<1> SUFFICES ASSUME TypeOK, [Next]_vars PROVE CallStep
    OBVIOUS
<1>1. ASSUME NEW c \in Callers, RequestNow(c) PROVE CallStep
  <2>1. /\ pc[c] = "idle"
        /\ pc' = [pc EXCEPT ![c] = "idle"] \/ pc' = [pc EXCEPT ![c] = "reply"]
      BY <1>1 DEF RequestNow, Send, Over
  <2> QED
      BY <2>1, OneMoves
<1>2. ASSUME NEW c \in Callers, NEW what \in Ops, Call(c, what) PROVE CallStep
    BY <1>2, OneMoves DEF Call
<1>3. ASSUME NEW c \in Callers, Connect(c) \/ Close(c) PROVE CallStep
    BY <1>3, LockedMoves, OneMoves DEF Onward
<1>4. ASSUME NEW c \in Callers,
             \/ SocketClosed(c) \/ ReaderGathered(c) \/ DialOpens(c) \/ DialFails(c)
             \/ Registered(c) \/ HandshakeFails(c) \/ RequestEnds(c)
      PROVE  CallStep
    BY <1>4, Moves, OneMoves DEF Onward
<1>5. ASSUME NEW c \in Callers, Cancel(c) PROVE CallStep
    BY <1>5, CancelMoves, OneMoves DEF Onward
<1>6. ASSUME queue' = queue, pc' = pc PROVE CallStep
    BY <1>6 DEF CallStep
<1> QED
    BY <1>1, <1>2, <1>3, <1>4, <1>5, <1>6, NobodyMoves DEF Next, Step

(* webos.py:146-194, 259-285: a call goes through its awaits in one        *)
(* direction, whatever fails, times out or is cancelled: it opens,         *)
(* registers and sends at most once.                                       *)
THEOREM CallAdvancesHolds == Spec => CallAdvances
<1>1. TypeOK /\ [Next]_vars => [CallStep]_vars
    BY CallAdvancesStep
<1> QED
    BY <1>1, TypeCorrect, PTL DEF Spec, CallAdvances, CallStep
=============================================================================
