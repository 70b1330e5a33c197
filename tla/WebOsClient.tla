---------------------------- MODULE WebOsClient ----------------------------
(***************************************************************************)
(* The connection of webos.py: WebOsClient opens a web socket on demand,   *)
(* registers with the TV, starts a reader task for the socket, and matches *)
(* answers to the futures in _pending.  Connecting and closing hold        *)
(* WebOsClient._lock; requests do not.                                     *)
(*                                                                         *)
(* Callers are the tasks that use the client (a handler of the daemon, its *)
(* recovery task, a CLI command); each runs one connect, request or close  *)
(* at a time and may be cancelled wherever it awaits.  An action is the    *)
(* code between two awaits.  Sockets are numbered in the order they open;  *)
(* MaxConns bounds them.  A frame matters only by its kind, a request only *)
(* by who sent it, and the delays of the network and the time-outs are the *)
(* free choice of when a step happens.                                     *)
(***************************************************************************)
EXTENDS Naturals, Sequences, SequencesExt

CONSTANTS Callers, Nobody, MaxConns

ASSUME ClientAssumption ==
    /\ Nobody \notin Callers
    /\ MaxConns \in Nat \ {0}

NoConn == 0
Conns  == 1 .. MaxConns
Frames == {"registered", "prompt", "error"}

VARIABLES
    connected,  \* _connected
    ws,         \* _ws: the socket in use
    reader,     \* _reader: the socket its task reads
    pending,    \* _pending: the callers whose futures are registered
    registerQ,  \* _register_q: the frames and the sockets they came from
    holder,     \* the task that holds _lock
    queue,      \* its FIFO of waiting tasks
    pc,         \* where each caller is
    op,         \* what it was called for
    via,        \* the socket its request went out on
    fut,        \* its future: none, waiting, answered, failed
    sock,       \* each socket: unused, open, closed
    rd,         \* the reader task of each socket: none, running, cancelled, done
    paired      \* sockets on which the TV has accepted the registration

link  == <<connected, ws, reader, registerQ, sock, rd, paired>>
calls == <<pc, op, via, fut, pending>>
vars  == <<connected, ws, reader, pending, registerQ, holder, queue, pc, op, via,
           fut, sock, rd, paired>>

Ops == {"connect", "request", "close"}

(* clear, undo, final: the three calls of _teardown (a stale connection    *)
(* before opening, a failed handshake, close); each awaits ws.close() and  *)
(* then the reader.                                                        *)
Teardowns == {"clear", "undo", "final"}
Gathers   == {"clearReader", "undoReader", "finalReader"}
Gather    == [clear |-> "clearReader", undo |-> "undoReader", final |-> "finalReader"]

TypeOK ==
    /\ connected \in BOOLEAN
    /\ ws \in Conns \cup {NoConn}
    /\ reader \in Conns \cup {NoConn}
    /\ pending \subseteq {c \in Callers : pc[c] = "reply"}
    /\ registerQ \in Seq([frame : Frames, from : Conns])
    /\ holder \in Callers \cup {Nobody}
    /\ queue \in Seq(Callers)
    /\ pc \in [Callers -> {"idle", "lock", "dial", "register", "reply"} \cup Teardowns \cup Gathers]
    /\ op \in [Callers -> Ops]
    /\ via \in [Callers -> Conns \cup {NoConn}]
    /\ fut \in [Callers -> {"none", "waiting", "answered", "failed"}]
    /\ sock \in [Conns -> {"unused", "open", "closed"}]
    /\ rd \in [Conns -> {"none", "running", "cancelled", "done"}]
    /\ paired \subseteq Conns

Init ==
    /\ connected = FALSE
    /\ ws = NoConn
    /\ reader = NoConn
    /\ pending = {}
    /\ registerQ = << >>
    /\ holder = Nobody
    /\ queue = << >>
    /\ pc = [c \in Callers |-> "idle"]
    /\ op = [c \in Callers |-> "connect"]
    /\ via = [c \in Callers |-> NoConn]
    /\ fut = [c \in Callers |-> "none"]
    /\ sock = [n \in Conns |-> "unused"]
    /\ rd = [n \in Conns |-> "none"]
    /\ paired = {}

-----------------------------------------------------------------------------
(* Mutant of Over: the future of the call stays in _pending.               *)
OverPending(c) ==
    /\ pc' = [pc EXCEPT ![c] = "idle"]
    /\ op' = [op EXCEPT ![c] = "connect"]
    /\ via' = [via EXCEPT ![c] = NoConn]
    /\ fut' = [fut EXCEPT ![c] = "none"]
    /\ UNCHANGED pending

(* A call is over, with a result or an exception; op and via go back to    *)
(* their initial values, which nothing reads any more.                     *)
Over(c) ==
    /\ pc' = [pc EXCEPT ![c] = "idle"]
    /\ op' = [op EXCEPT ![c] = "connect"]
    /\ via' = [via EXCEPT ![c] = NoConn]
    /\ fut' = [fut EXCEPT ![c] = "none"]
    /\ pending' = pending \ {c}

Go(c, place) ==
    /\ pc' = [pc EXCEPT ![c] = place]
    /\ UNCHANGED <<op, via, fut, pending>>

(* _fail_pending: every future still waiting is rejected.                  *)
Failed(f) == [c \in Callers |-> IF c \in pending /\ f[c] = "waiting" THEN "failed" ELSE f[c]]
FailPending == fut' = Failed(fut) /\ pending' = {}

(* request after _ensure_connected: register a future, then send.  On a    *)
(* closed socket the send raises and the future is dropped.                *)
Send(c) ==
    \/ /\ sock[ws] = "open"
       /\ pc' = [pc EXCEPT ![c] = "reply"]
       /\ via' = [via EXCEPT ![c] = ws]
       /\ fut' = [fut EXCEPT ![c] = "waiting"]
       /\ pending' = pending \cup {c}
       /\ UNCHANGED op
    \/ sock[ws] # "open" /\ Over(c)

(* What follows connect in the call: a request sends, a connect returns.   *)
Connected(c) ==
    \/ op[c] = "request" /\ Send(c)
    \/ op[c] = "connect" /\ Over(c)

LeaveQueue(c) ==
    \E i \in DOMAIN queue : queue[i] = c /\ queue' = RemoveAt(queue, i)

-----------------------------------------------------------------------------
(* request with a live connection: no await before the send.               *)
RequestNow(c) ==
    /\ pc[c] = "idle"
    /\ connected
    /\ Send(c)
    /\ UNCHANGED <<link, holder, queue>>

(* connect, close, and request without a connection: wait for _lock.       *)
Call(c, what) ==
    /\ pc[c] = "idle"
    /\ what = "request" => ~ connected
    /\ pc' = [pc EXCEPT ![c] = "lock"]
    /\ op' = [op EXCEPT ![c] = what]
    /\ queue' = Append(queue, c)
    /\ UNCHANGED <<link, holder, via, fut, pending>>

Locked(c) ==
    /\ pc[c] = "lock"
    /\ holder = Nobody
    /\ queue # << >>
    /\ Head(queue) = c
    /\ queue' = Tail(queue)

(* Mutant of StartTeardown: _connected stays set during the teardown.      *)
StartTeardownConnected(c, kind) ==
    /\ Go(c, kind)
    /\ UNCHANGED connected

(* _teardown up to its first await.                                        *)
StartTeardown(c, kind) ==
    /\ connected' = FALSE
    /\ Go(c, kind)

(* Mutant of Connect: _open does not tear a stale connection down.         *)
ConnectOver(c) ==
    /\ Locked(c)
    /\ op[c] # "close"
    /\ \/ connected /\ Connected(c) /\ UNCHANGED holder
       \/ ~ connected /\ holder' = c /\ Go(c, "dial")
    /\ UNCHANGED link

(* connect with _lock: nothing to do, or _open.                            *)
Connect(c) ==
    /\ Locked(c)
    /\ op[c] # "close"
    /\ \/ connected /\ Connected(c) /\ UNCHANGED <<holder, connected>>
       \/ /\ ~ connected
          /\ holder' = c
          /\ \/ (ws # NoConn \/ reader # NoConn) /\ StartTeardown(c, "clear")
             \/ ws = NoConn /\ reader = NoConn /\ Go(c, "dial") /\ UNCHANGED connected
    /\ UNCHANGED <<ws, reader, registerQ, sock, rd, paired>>

(* close with _lock.                                                       *)
Close(c) ==
    /\ Locked(c)
    /\ op[c] = "close"
    /\ holder' = c
    /\ StartTeardown(c, "final")
    /\ UNCHANGED <<ws, reader, registerQ, sock, rd, paired>>

-----------------------------------------------------------------------------
(* Mutant of Forget: a handshake that failed is tried again by _open.      *)
ForgetRetries(c, place) ==
    /\ ws' = NoConn
    /\ FailPending
    /\ UNCHANGED via
    /\ \/ /\ place \notin {"final", "finalReader"}
          /\ pc' = [pc EXCEPT ![c] = "dial"]
          /\ UNCHANGED <<op, holder>>
       \/ /\ place \in {"final", "finalReader"}
          /\ holder' = Nobody
          /\ pc' = [pc EXCEPT ![c] = "idle"]
          /\ op' = [op EXCEPT ![c] = "connect"]

(* _teardown after the reader: forget the socket, fail what is pending,    *)
(* and go on with what the teardown was for.                               *)
Forget(c, place) ==
    /\ ws' = NoConn
    /\ \/ /\ place \in {"clear", "clearReader"}
          /\ FailPending
          /\ pc' = [pc EXCEPT ![c] = "dial"]
          /\ UNCHANGED <<op, via, holder>>
       \/ /\ place \notin {"clear", "clearReader"}
          /\ holder' = Nobody
          /\ pc' = [pc EXCEPT ![c] = "idle"]
          /\ op' = [op EXCEPT ![c] = "connect"]
          /\ FailPending
          /\ UNCHANGED via

(* ws.close() has returned (at once when there is no socket); the reader   *)
(* is cancelled and gathered.                                              *)
SocketClosed(c) ==
    /\ pc[c] \in Teardowns
    /\ sock' = IF ws = NoConn THEN sock ELSE [sock EXCEPT ![ws] = "closed"]
    /\ reader' = NoConn
    /\ \/ /\ reader # NoConn
          /\ rd' = [rd EXCEPT ![reader] = IF @ = "running" THEN "cancelled" ELSE @]
          /\ Go(c, Gather[pc[c]])
          /\ UNCHANGED <<ws, holder>>
       \/ /\ reader = NoConn
          /\ Forget(c, pc[c])
          /\ UNCHANGED rd
    /\ UNCHANGED <<connected, registerQ, queue, paired>>

(* The gathered reader is done, or a cancel() arrived during the gather    *)
(* and _teardown caught it: the call goes on all the same.                 *)
ReaderGathered(c) ==
    /\ pc[c] \in Gathers
    /\ Forget(c, pc[c])
    /\ UNCHANGED <<connected, reader, registerQ, queue, sock, rd, paired>>

(* Mutant of DialOpens: the queue of register frames is not drained.       *)
DialOpensUndrained(c) ==
    /\ pc[c] = "dial"
    /\ \A n \in Conns : rd[n] # "cancelled"
    /\ \E n \in Conns :
          /\ sock[n] = "unused"
          /\ \A m \in 1 .. n - 1 : sock[m] # "unused"
          /\ ws' = n
          /\ reader' = n
          /\ sock' = [sock EXCEPT ![n] = "open"]
          /\ rd' = [rd EXCEPT ![n] = "running"]
    /\ connected' = TRUE
    /\ Go(c, "register")
    /\ UNCHANGED <<registerQ, holder, queue, paired>>

(* The web socket opens: _connected is set, the reader starts, and the     *)
(* handshake drains the queue of register frames and sends its own.  A     *)
(* reader that was cancelled is gone by then: it needed one loop pass.     *)
DialOpens(c) ==
    /\ pc[c] = "dial"
    /\ \A n \in Conns : rd[n] # "cancelled"
    /\ \E n \in Conns :
          /\ sock[n] = "unused"
          /\ \A m \in 1 .. n - 1 : sock[m] # "unused"
          /\ ws' = n
          /\ reader' = n
          /\ sock' = [sock EXCEPT ![n] = "open"]
          /\ rd' = [rd EXCEPT ![n] = "running"]
    /\ connected' = TRUE
    /\ registerQ' = << >>
    /\ Go(c, "register")
    /\ UNCHANGED <<holder, queue, paired>>

(* Mutant of DialFails: the lock is released only after a success.         *)
DialFailsLocked(c) ==
    /\ pc[c] = "dial"
    /\ Over(c)
    /\ UNCHANGED <<link, holder, queue>>

(* Refused, unreachable, or open_timeout.                                  *)
DialFails(c) ==
    /\ pc[c] = "dial"
    /\ holder' = Nobody
    /\ Over(c)
    /\ UNCHANGED <<link, queue>>

(* _handshake takes a frame: registered ends it, a prompt goes on waiting. *)
Registered(c) ==
    /\ pc[c] = "register"
    /\ registerQ # << >>
    /\ Head(registerQ).frame = "registered"
    /\ registerQ' = Tail(registerQ)
    /\ holder' = Nobody
    /\ Connected(c)
    /\ UNCHANGED <<connected, ws, reader, queue, sock, rd, paired>>

Prompted(c) ==
    /\ pc[c] = "register"
    /\ registerQ # << >>
    /\ Head(registerQ).frame = "prompt"
    /\ registerQ' = Tail(registerQ)
    /\ UNCHANGED <<connected, ws, reader, holder, queue, calls, sock, rd, paired>>

(* Mutant of HandshakeFails: no pair_timeout, only a rejection ends it.    *)
HandshakeWaits(c) ==
    /\ pc[c] = "register"
    /\ registerQ # << >>
    /\ Head(registerQ).frame = "error"
    /\ registerQ' = Tail(registerQ)
    /\ StartTeardown(c, "undo")
    /\ UNCHANGED <<ws, reader, holder, queue, sock, rd, paired>>

(* Rejected, or pair_timeout: the handshake raises and _open tears down.   *)
HandshakeFails(c) ==
    /\ pc[c] = "register"
    /\ \/ UNCHANGED registerQ
       \/ /\ registerQ # << >>
          /\ Head(registerQ).frame = "error"
          /\ registerQ' = Tail(registerQ)
    /\ StartTeardown(c, "undo")
    /\ UNCHANGED <<ws, reader, holder, queue, sock, rd, paired>>

(* The request has its answer, was rejected, or timed out.                 *)
RequestEnds(c) ==
    /\ pc[c] = "reply"
    /\ Over(c)
    /\ UNCHANGED <<link, holder, queue>>

(* task.cancel() reaches the caller.  In a handshake it tears down first;  *)
(* in ws.close() it leaves _ws and _reader to the next _open.              *)
Cancel(c) ==
    \/ /\ pc[c] = "lock"
       /\ LeaveQueue(c)
       /\ Over(c)
       /\ UNCHANGED <<link, holder>>
    \/ /\ pc[c] \in Teardowns \cup {"dial"}
       /\ holder' = Nobody
       /\ Over(c)
       /\ UNCHANGED <<link, queue>>
    \/ /\ pc[c] = "register"
       /\ StartTeardown(c, "undo")
       /\ UNCHANGED <<ws, reader, registerQ, sock, rd, paired, holder, queue>>
    \/ /\ pc[c] = "reply"
       /\ Over(c)
       /\ UNCHANGED <<link, holder, queue>>

-----------------------------------------------------------------------------
(* _read_loop and the TV.                                                  *)

(* A frame for the handshake.  The TV may answer as long as the socket is  *)
(* open; the bound is two unread frames.                                   *)
RegisterFrame(n, frame) ==
    /\ rd[n] = "running"
    /\ sock[n] = "open"
    /\ n \notin paired
    /\ Len(registerQ) < 2
    /\ registerQ' = Append(registerQ, [frame |-> frame, from |-> n])
    /\ paired' = IF frame = "registered" THEN paired \cup {n} ELSE paired
    /\ UNCHANGED <<connected, ws, reader, sock, rd, holder, queue, calls>>

(* The answer to a pending request.                                        *)
Answer(n, c) ==
    /\ rd[n] = "running"
    /\ sock[n] = "open"
    /\ c \in pending
    /\ via[c] = n
    /\ fut' = [fut EXCEPT ![c] = "answered"]
    /\ pending' = pending \ {c}
    /\ UNCHANGED <<link, holder, queue, pc, op, via>>

(* Mutant of ReaderEnds: no _fail_pending in its finally clause.           *)
ReaderEndsSilently(n) ==
    /\ \/ rd[n] = "running" /\ sock[n] = "closed"
       \/ rd[n] = "cancelled"
    /\ rd' = [rd EXCEPT ![n] = "done"]
    /\ connected' = FALSE
    /\ UNCHANGED <<ws, reader, registerQ, sock, paired, holder, queue, calls>>

(* The socket closed or the task was cancelled: the loop ends, and its     *)
(* finally clause clears _connected and rejects every pending future.      *)
ReaderEnds(n) ==
    /\ \/ rd[n] = "running" /\ sock[n] = "closed"
       \/ rd[n] = "cancelled"
    /\ rd' = [rd EXCEPT ![n] = "done"]
    /\ connected' = FALSE
    /\ FailPending
    /\ UNCHANGED <<ws, reader, registerQ, sock, paired, holder, queue, pc, op, via>>

(* The TV goes away, or the network does.                                  *)
Drops(n) ==
    /\ sock[n] = "open"
    /\ sock' = [sock EXCEPT ![n] = "closed"]
    /\ UNCHANGED <<connected, ws, reader, registerQ, rd, paired, holder, queue, calls>>

Step(c) ==
    \/ Connect(c) \/ Close(c) \/ SocketClosed(c) \/ ReaderGathered(c)
    \/ DialOpens(c) \/ DialFails(c)
    \/ Registered(c) \/ Prompted(c) \/ HandshakeFails(c) \/ RequestEnds(c)

Next ==
    \/ \E c \in Callers :
          \/ RequestNow(c)
          \/ \E what \in Ops : Call(c, what)
          \/ Step(c) \/ Cancel(c)
    \/ \E n \in Conns :
          \/ \E frame \in Frames : RegisterFrame(n, frame)
          \/ \E c \in Callers : Answer(n, c)
          \/ ReaderEnds(n) \/ Drops(n)

Spec == Init /\ [][Next]_vars

(* open_timeout, pair_timeout, the request time-out and the close time-out *)
(* bound every await; asyncio runs every task that is ready.               *)
FairSpec ==
    /\ Spec
    /\ \A c \in Callers : WF_vars(Step(c)) /\ WF_vars(HandshakeFails(c))
    /\ \A n \in Conns : WF_vars(ReaderEnds(n))

-----------------------------------------------------------------------------
(* _connected is believed without asking the socket: whenever it is set,   *)
(* the reader of the socket in use is running and will clear it.           *)
ConnectedHasReader ==
    connected => ws # NoConn /\ reader = ws /\ rd[ws] = "running"

(* No request waits on a dead connection: while a future is waiting it is  *)
(* registered and the reader of its own socket has yet to end, so the end  *)
(* of the connection rejects it at once and not after the time-out.        *)
NoOrphan ==
    \A c \in Callers :
        fut[c] = "waiting" => c \in pending /\ rd[via[c]] \in {"running", "cancelled"}

(* A handshake ends on the answer of its own connection: no frame that an  *)
(* earlier connection left behind is in the queue it reads.                *)
HandshakeHonest ==
    \A c \in Callers : pc[c] = "register" =>
        \A i \in DOMAIN registerQ : registerQ[i].from = ws

(* No connection leaks, whichever await a cancel or a failure hits: a      *)
(* socket that is open is the one in _ws, where the next _open or close    *)
(* finds it.                                                               *)
NoLeak == \A n \in Conns : sock[n] = "open" => ws = n

(* "async with self._lock" around connect and close, with failures, time-  *)
(* outs and cancels at each of their awaits: whoever holds the lock is in  *)
(* one of the two, alone, and the queue has everybody who waits for it,    *)
(* once, and nobody else; so no call is ever shut out for good.            *)
Waiting == {c \in Callers : pc[c] = "lock"}
Working == {c \in Callers : pc[c] \in {"dial", "register"} \cup Teardowns \cup Gathers}

LockSound ==
    /\ Working = {holder} \ {Nobody}
    /\ ToSet(queue) = Waiting
    /\ IsInjective(queue)

(* A call never goes back: whatever fails, it clears a stale connection,   *)
(* opens, registers and sends once at most, in this order, and what went   *)
(* wrong is told to its caller (which may retry) instead.                  *)
Ahead == [idle |-> 0, reply |-> 1, finalReader |-> 2, undoReader |-> 2, final |-> 3,
          undo |-> 3, register |-> 4, dial |-> 5, clearReader |-> 6, clear |-> 7, lock |-> 8]

CallAdvances ==
    [][\A c \in Callers : pc[c] # "idle" /\ pc'[c] # pc[c] =>
          Ahead[pc'[c]] < Ahead[pc[c]]]_vars

(* Every call ends, although all of them may queue on _lock behind a       *)
(* handshake nobody answers.                                               *)
CallEnds == \A c \in Callers : pc[c] # "idle" ~> pc[c] = "idle"
=============================================================================
