--------------------------- MODULE LogindWatcher ---------------------------
(***************************************************************************)
(* triggers/logind.py: a watcher holds a delay inhibitor (a file           *)
(* descriptor) so that logind waits, for InhibitDelayMaxSec at most, while *)
(* the TV is powered off.  Every PrepareForSleep / PrepareForShutdown      *)
(* signal runs _on_sleep / _on_shutdown in a task of its own.  When run    *)
(* fails or its bus goes away, _supervise starts another watcher.          *)
(*                                                                         *)
(* Daemon.dispatch is seen from here as an await of any length: RESUME     *)
(* waits for the lock behind whatever handler holds it; SUSPEND and        *)
(* SHUTDOWN end after handled_timeout (3 s) at the latest, which is less   *)
(* than InhibitDelayMaxSec (5 s).  logind and the machine are the          *)
(* environment; nothing of the process runs while the machine sleeps.      *)
(***************************************************************************)
EXTENDS Naturals, FiniteSets

CONSTANTS
    MaxWatchers,    \* bound: the watchers _supervise starts, one after another
    Slots,          \* bound: signal tasks one watcher has under way at a time
    Fds,            \* file descriptors call_inhibit can return
    None

ASSUME LogindAssumption ==
    /\ MaxWatchers \in Nat \ {0}
    /\ None \notin Fds

Watchers == 1 .. MaxWatchers
Tasks    == Watchers \X Slots

VARIABLES
    run,        \* LogindWatcher.run of each watcher: unused, acquiring,
                \* listening, failed (still subscribed), lost (bus gone)
    pc,         \* each signal task: idle, awaiting dispatch, awaiting call_inhibit
    fd,         \* _inhibitor_fd of each watcher
    open,       \* the inhibitors the process really holds open
    machine,    \* up, delayed (going to sleep), asleep, halting
    raced       \* history: a watcher awaited two call_inhibit at once

vars == <<run, pc, fd, open, machine, raced>>

TypeOK ==
    /\ run \in [Watchers -> {"unused", "acquiring", "listening", "failed", "lost"}]
    /\ pc \in [Tasks -> {"idle", "suspend", "resume", "shutdown", "inhibit"}]
    /\ fd \in [Watchers -> Fds \cup {None}]
    /\ open \subseteq Fds
    /\ machine \in {"up", "delayed", "asleep", "halting"}
    /\ raced \in BOOLEAN
    /\ \A x \in Tasks : pc[x] # "idle" => run[x[1]] # "unused"

Init ==
    /\ run = [w \in Watchers |-> IF w = 1 THEN "acquiring" ELSE "unused"]
    /\ pc = [x \in Tasks |-> "idle"]
    /\ fd = [w \in Watchers |-> None]
    /\ open = {}
    /\ machine = "up"
    /\ raced = FALSE

Awake == machine # "asleep"
Go(x, place) == pc' = [pc EXCEPT ![x] = place]

-----------------------------------------------------------------------------
(* _acquire_inhibitor tests _inhibitor_fd, awaits call_inhibit, assigns.   *)

Acquiring(w) == run[w] = "acquiring" \/ \E s \in Slots : pc[<<w, s>>] = "inhibit"

InhibitGranted(w) ==
    \E n \in Fds \ open :
        open' = open \cup {n} /\ fd' = [fd EXCEPT ![w] = n]

(* Mutant of Release: the closed descriptor stays in _inhibitor_fd.        *)
ReleaseStale(w) == open' = open \ {fd[w]} /\ UNCHANGED fd

(* _release_inhibitor *)
Release(w) ==
    /\ open' = open \ {fd[w]}
    /\ fd' = [fd EXCEPT ![w] = None]

(* The end of run's set-up: the handlers were registered before it.        *)
RunAcquires(w) ==
    /\ Awake
    /\ run[w] = "acquiring"
    /\ InhibitGranted(w)
    /\ run' = [run EXCEPT ![w] = "listening"]
    /\ UNCHANGED <<pc, machine, raced>>

(* call_inhibit raises, before the try: the handlers stay registered.      *)
RunFails(w) ==
    /\ Awake
    /\ run[w] = "acquiring"
    /\ run' = [run EXCEPT ![w] = "failed"]
    /\ UNCHANGED <<pc, fd, open, machine, raced>>

(* wait_for_disconnect ends; the finally clause releases.                  *)
BusLost(w) ==
    /\ Awake
    /\ run[w] = "listening"
    /\ run' = [run EXCEPT ![w] = "lost"]
    /\ Release(w)
    /\ UNCHANGED <<pc, machine, raced>>

(* _supervise after its delay; run has subscribed and awaits call_inhibit. *)
Supervise(w) ==
    /\ Awake
    /\ run[w] \in {"failed", "lost"}
    /\ w < MaxWatchers
    /\ run[w + 1] = "unused"
    /\ run' = [run EXCEPT ![w + 1] = "acquiring"]
    /\ UNCHANGED <<pc, fd, open, machine, raced>>

-----------------------------------------------------------------------------
(* A signal becomes a task of every watcher that is subscribed.            *)

(* Mutant of Subscribed: the handlers are registered in the constructor.   *)
SubscribedAll == Watchers

Subscribed == {w \in Watchers : run[w] \in {"acquiring", "listening", "failed"}}

(* Bound: a signal comes when another one would still find a free slot, so *)
(* that the machine can always wake up.                                    *)
Room == \A w \in Subscribed : Cardinality({s \in Slots : pc[<<w, s>>] = "idle"}) > 1

Signal(place) ==
    \E slot \in [Subscribed -> Slots] :
        /\ \A w \in Subscribed : pc[<<w, slot[w]>>] = "idle"
        /\ pc' = [x \in Tasks |->
                    IF x[1] \in Subscribed /\ x[2] = slot[x[1]] THEN place ELSE pc[x]]

(* PrepareForSleep(true): _on_sleep dispatches SUSPEND, then releases.     *)
PrepareForSleep ==
    /\ machine = "up"
    /\ Room
    /\ machine' = "delayed"
    /\ Signal("suspend")
    /\ UNCHANGED <<run, fd, open, raced>>

SuspendHandled(w, s) ==
    /\ Awake
    /\ pc[<<w, s>>] = "suspend"
    /\ Release(w)
    /\ Go(<<w, s>>, "idle")
    /\ UNCHANGED <<run, machine, raced>>

(* The machine sleeps when no inhibitor delays it, or after the longest    *)
(* delay, when the bounded SUSPEND is over.                                *)
Sleeps ==
    /\ machine = "delayed"
    /\ open = {} \/ \A x \in Tasks : pc[x] # "suspend"
    /\ machine' = "asleep"
    /\ UNCHANGED <<run, pc, fd, open, raced>>

(* PrepareForSleep(false): _on_sleep dispatches RESUME, then acquires.     *)
Wakes ==
    /\ machine = "asleep"
    /\ machine' = "up"
    /\ Signal("resume")
    /\ UNCHANGED <<run, fd, open, raced>>

(* Mutant of ResumeHandled: it acquires without looking for a descriptor.  *)
ResumeAcquires(w, s) ==
    /\ Awake
    /\ pc[<<w, s>>] = "resume"
    /\ Go(<<w, s>>, "inhibit")
    /\ raced' = (raced \/ Acquiring(w))
    /\ UNCHANGED <<run, fd, open, machine>>

ResumeHandled(w, s) ==
    /\ Awake
    /\ pc[<<w, s>>] = "resume"
    /\ \/ fd[w] # None /\ Go(<<w, s>>, "idle") /\ UNCHANGED raced
       \/ fd[w] = None /\ Go(<<w, s>>, "inhibit") /\ raced' = (raced \/ Acquiring(w))
    /\ UNCHANGED <<run, fd, open, machine>>

TaskAcquires(w, s) ==
    /\ Awake
    /\ pc[<<w, s>>] = "inhibit"
    /\ run[w] # "lost"
    /\ InhibitGranted(w)
    /\ Go(<<w, s>>, "idle")
    /\ UNCHANGED <<run, machine, raced>>

(* A D-Bus error, or the bus went away: the task ends with it.             *)
TaskFails(w, s) ==
    /\ Awake
    /\ pc[<<w, s>>] = "inhibit"
    /\ Go(<<w, s>>, "idle")
    /\ UNCHANGED <<run, fd, open, machine, raced>>

(* PrepareForShutdown(true): dispatches SHUTDOWN, then releases.           *)
PrepareForShutdown ==
    /\ machine = "up"
    /\ Room
    /\ machine' = "halting"
    /\ Signal("shutdown")
    /\ UNCHANGED <<run, fd, open, raced>>

ShutdownHandled(w, s) ==
    /\ Awake
    /\ pc[<<w, s>>] = "shutdown"
    /\ Release(w)
    /\ Go(<<w, s>>, "idle")
    /\ UNCHANGED <<run, machine, raced>>

(* PrepareForShutdown(false), the shutdown was called off: _on_shutdown    *)
(* does nothing.                                                           *)
ShutdownCalledOff ==
    /\ machine = "halting"
    /\ machine' = "up"
    /\ UNCHANGED <<run, pc, fd, open, raced>>

Next ==
    \/ \E w \in Watchers :
          \/ RunAcquires(w) \/ RunFails(w) \/ BusLost(w) \/ Supervise(w)
          \/ \E s \in Slots :
                \/ SuspendHandled(w, s) \/ ResumeHandled(w, s) \/ ShutdownHandled(w, s)
                \/ TaskAcquires(w, s) \/ TaskFails(w, s)
    \/ PrepareForSleep \/ Sleeps \/ Wakes \/ PrepareForShutdown \/ ShutdownCalledOff

Spec == Init /\ [][Next]_vars

-----------------------------------------------------------------------------
(* _inhibitor_fd is a descriptor the process owns: no path closes one      *)
(* twice, or closes a number that another descriptor has taken meanwhile.  *)
FdOwned ==
    \A w \in Watchers :
        fd[w] # None => fd[w] \in open /\ \A v \in Watchers \ {w} : fd[v] # fd[w]

(* An inhibitor nobody can release any more would delay every later        *)
(* suspend.  Through signals in any order, failing calls, lost buses and   *)
(* new watchers, only two overlapping acquisitions of one watcher (two     *)
(* RESUMEs that waited for the same lock) can leave one behind.            *)
LeakNeedsRace == raced \/ open \subseteq {fd[w] : w \in Watchers}

(* logind.py:3-5, the inhibitor buys time "between the signal and the      *)
(* machine actually sleeping, so the TV can be powered off first": no      *)
(* machine sleeps while a listening watcher still handles the signal.      *)
TvOffFirst ==
    \A w \in Watchers, s \in Slots :
        machine = "asleep" /\ run[w] = "listening" => pc[<<w, s>>] # "suspend"
=============================================================================
