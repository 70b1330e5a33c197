---------------------------- MODULE LogindProofs ----------------------------
(***************************************************************************)
(* What holds of LogindWatcher for every number of watchers, signal tasks  *)
(* and descriptors.  TypeOK and FdOwned need nothing but each other.       *)
(* LeakNeedsRace needs that without two overlapping acquisitions the one   *)
(* that awaits call_inhibit is alone and finds the watcher's descriptor    *)
(* empty (Alone), which holds of a new watcher because nobody has touched  *)
(* it (Fresh).  TvOffFirst, which a shutdown that is called off breaks,    *)
(* holds as long as every suspend finds the watchers Prepared.             *)
(***************************************************************************)
EXTENDS LogindWatcher, TLAPS

(* A watcher that was not started has no descriptor.                       *)
Fresh == \A w \in Watchers : run[w] = "unused" => fd[w] = None

(* Acquisitions of one watcher that never overlapped.                      *)
Alone ==
    raced \/ \A w \in Watchers :
        /\ run[w] = "acquiring" => fd[w] = None /\ \A s \in Slots : pc[<<w, s>>] # "inhibit"
        /\ \A s \in Slots : pc[<<w, s>>] = "inhibit" =>
             fd[w] = None /\ \A r \in Slots : pc[<<w, r>>] = "inhibit" => r = s

LInv == TypeOK /\ FdOwned /\ Fresh /\ Alone /\ LeakNeedsRace

-----------------------------------------------------------------------------
(* The two operations on descriptors, for the watcher that performs them.  *)

(* call_inhibit returns a descriptor that is open nowhere else.            *)
LEMMA GrantOwned ==
    ASSUME TypeOK, FdOwned, NEW w \in Watchers, InhibitGranted(w)
    PROVE  /\ FdOwned' /\ fd' \in [Watchers -> Fds \cup {None}] /\ open' \subseteq Fds
           /\ \A v \in Watchers \ {w} : fd'[v] = fd[v]
           /\ fd[w] = None /\ LeakNeedsRace => open' \subseteq {fd'[v] : v \in Watchers} \/ raced
<1>1. PICK n \in Fds \ open : open' = open \cup {n} /\ fd' = [fd EXCEPT ![w] = n]
    BY DEF InhibitGranted
<1>2. /\ fd' \in [Watchers -> Fds \cup {None}] /\ open' \subseteq Fds
      /\ fd'[w] = n /\ \A v \in Watchers \ {w} : fd'[v] = fd[v]
    BY <1>1 DEF TypeOK
<1>3. FdOwned'
    BY <1>1, <1>2 DEF FdOwned
<1>4. fd[w] = None /\ LeakNeedsRace => open' \subseteq {fd'[v] : v \in Watchers} \/ raced
  <2> SUFFICES ASSUME fd[w] = None, open \subseteq {fd[v] : v \in Watchers},
                      NEW m \in open'
               PROVE  \E v \in Watchers : fd'[v] = m
    BY DEF LeakNeedsRace
  <2>1. CASE m = n
    BY <2>1, <1>2
  <2>2. CASE m \in open
    BY <2>2, <1>2, LogindAssumption DEF TypeOK
  <2> QED
    BY <2>1, <2>2, <1>1
<1> QED
    BY <1>2, <1>3, <1>4

(* _release_inhibitor closes the watcher's own descriptor and no other.    *)
LEMMA ReleaseOwned ==
    ASSUME TypeOK, FdOwned, NEW w \in Watchers, Release(w)
    PROVE  /\ FdOwned' /\ fd' \in [Watchers -> Fds \cup {None}] /\ open' \subseteq Fds
           /\ fd'[w] = None /\ \A v \in Watchers \ {w} : fd'[v] = fd[v]
           /\ LeakNeedsRace => open' \subseteq {fd'[v] : v \in Watchers} \/ raced
<1>1. /\ fd' \in [Watchers -> Fds \cup {None}] /\ open' \subseteq Fds
      /\ fd'[w] = None /\ \A v \in Watchers \ {w} : fd'[v] = fd[v]
    BY DEF Release, TypeOK
<1>2. FdOwned'
    BY <1>1 DEF FdOwned, Release
<1>3. ASSUME open \subseteq {fd[v] : v \in Watchers}, NEW m \in open'
      PROVE  \E v \in Watchers : fd'[v] = m
    BY <1>3, <1>1 DEF Release
<1> QED
    BY <1>1, <1>2, <1>3 DEF LeakNeedsRace

(* A signal starts tasks of the watchers that are subscribed, and none of  *)
(* them begins with an acquisition.                                        *)
LEMMA SignalTasks ==
    ASSUME TypeOK, NEW place \in {"suspend", "resume", "shutdown"}, Signal(place)
    PROVE  /\ pc' \in [Tasks -> {"idle", "suspend", "resume", "shutdown", "inhibit"}]
           /\ \A x \in Tasks : pc'[x] # "idle" => pc[x] # "idle" \/ run[x[1]] # "unused"
           /\ \A x \in Tasks : pc'[x] = "inhibit" => pc[x] = "inhibit"
<1>1. PICK slot \in [Subscribed -> Slots] :
        pc' = [x \in Tasks |->
                 IF x[1] \in Subscribed /\ x[2] = slot[x[1]] THEN place ELSE pc[x]]
    BY DEF Signal
<1>2. \A x \in Tasks : pc'[x] = pc[x] \/ (pc'[x] = place /\ x[1] \in Subscribed)
    BY <1>1
<1>3. \A w \in Subscribed : run[w] # "unused"
    BY DEF Subscribed
<1>4. pc' \in [Tasks -> {"idle", "suspend", "resume", "shutdown", "inhibit"}]
    BY <1>1 DEF TypeOK
<1> QED
    BY <1>2, <1>3, <1>4

-----------------------------------------------------------------------------
(* The constructor and the first call of run.                              *)
LEMMA LInit == Init => LInv
<1> SUFFICES ASSUME Init PROVE LInv
    OBVIOUS
<1>1. TypeOK
    BY DEF Init, TypeOK
<1>2. FdOwned /\ Fresh
    BY DEF Init, FdOwned, Fresh
<1>3. \A w \in Watchers : fd[w] = None
    BY DEF Init
<1>4. \A w \in Watchers, s \in Slots : pc[<<w, s>>] # "inhibit"
    BY DEF Init, Tasks
<1>5. Alone
    BY <1>3, <1>4 DEF Alone
<1>6. LeakNeedsRace
    BY DEF Init, LeakNeedsRace
<1> QED
    BY <1>1, <1>2, <1>5, <1>6 DEF LInv

(* Every step of a watcher, of its tasks and of logind keeps the invariant.*)
LEMMA LStep == LInv /\ [Next]_vars => LInv'
<1> SUFFICES ASSUME LInv, [Next]_vars PROVE LInv'
    OBVIOUS
<1>t. TypeOK /\ FdOwned /\ Fresh /\ Alone /\ LeakNeedsRace
    BY DEF LInv
<1>p. \A w \in Watchers, s \in Slots : <<w, s>> \in Tasks
    BY DEF Tasks
<1>1. ASSUME NEW w \in Watchers, RunAcquires(w) PROVE LInv'
  <2>1. /\ FdOwned' /\ fd' \in [Watchers -> Fds \cup {None}] /\ open' \subseteq Fds
        /\ \A v \in Watchers \ {w} : fd'[v] = fd[v]
        /\ fd[w] = None => open' \subseteq {fd'[v] : v \in Watchers} \/ raced
    BY <1>1, <1>t, GrantOwned DEF RunAcquires
  <2>2. TypeOK' /\ Fresh'
    BY <1>1, <1>t, <2>1 DEF RunAcquires, TypeOK, Fresh, Tasks
  <2>3. Alone' /\ LeakNeedsRace'
    BY <1>1, <1>t, <2>1 DEF RunAcquires, TypeOK, Alone, LeakNeedsRace
  <2> QED
    BY <2>1, <2>2, <2>3 DEF LInv
<1>2. ASSUME NEW w \in Watchers, RunFails(w) PROVE LInv'
  <2>1. TypeOK' /\ FdOwned' /\ Fresh'
    BY <1>2, <1>t DEF RunFails, TypeOK, FdOwned, Fresh, Tasks
  <2>2. Alone'
    BY <1>2, <1>t DEF RunFails, TypeOK, Alone
  <2>3. LeakNeedsRace'
    BY <1>2, <1>t DEF RunFails, LeakNeedsRace
  <2> QED
    BY <2>1, <2>2, <2>3 DEF LInv
<1>3. ASSUME NEW w \in Watchers, BusLost(w) PROVE LInv'
  <2>1. /\ FdOwned' /\ fd' \in [Watchers -> Fds \cup {None}] /\ open' \subseteq Fds
        /\ fd'[w] = None /\ \A v \in Watchers \ {w} : fd'[v] = fd[v]
        /\ open' \subseteq {fd'[v] : v \in Watchers} \/ raced
    BY <1>3, <1>t, ReleaseOwned DEF BusLost
  <2>2. TypeOK' /\ Fresh'
    BY <1>3, <1>t, <2>1 DEF BusLost, TypeOK, Fresh, Tasks
  <2>3. Alone' /\ LeakNeedsRace'
    BY <1>3, <1>t, <2>1 DEF BusLost, TypeOK, Alone, LeakNeedsRace
  <2> QED
    BY <2>1, <2>2, <2>3 DEF LInv
<1>4. ASSUME NEW w \in Watchers, Supervise(w) PROVE LInv'
  <2>1. w + 1 \in Watchers /\ run' = [run EXCEPT ![w + 1] = "acquiring"]
        /\ run[w + 1] = "unused" /\ UNCHANGED <<pc, fd, open, machine, raced>>
    BY <1>4, LogindAssumption DEF Supervise, Watchers
  <2>2. \A s \in Slots : pc[<<w + 1, s>>] = "idle"
    BY <1>t, <1>p, <2>1 DEF TypeOK
  <2>3. fd[w + 1] = None
    BY <1>t, <2>1 DEF Fresh
  <2>4. TypeOK' /\ FdOwned' /\ Fresh' /\ LeakNeedsRace'
    BY <1>t, <2>1 DEF TypeOK, FdOwned, Fresh, LeakNeedsRace, Tasks
  <2>5. Alone'
    BY <1>t, <2>1, <2>2, <2>3 DEF TypeOK, Alone
  <2> QED
    BY <2>4, <2>5 DEF LInv
<1>5. ASSUME NEW w \in Watchers, NEW s \in Slots,
             SuspendHandled(w, s) \/ ShutdownHandled(w, s)
      PROVE  LInv'
  <2>0. Release(w) /\ Go(<<w, s>>, "idle") /\ UNCHANGED <<run, machine, raced>>
    BY <1>5 DEF SuspendHandled, ShutdownHandled
  <2>1. /\ FdOwned' /\ fd' \in [Watchers -> Fds \cup {None}] /\ open' \subseteq Fds
        /\ fd'[w] = None /\ \A v \in Watchers \ {w} : fd'[v] = fd[v]
        /\ open' \subseteq {fd'[v] : v \in Watchers} \/ raced
    BY <2>0, <1>t, ReleaseOwned
  <2>2. \A x \in Tasks : pc'[x] = "idle" \/ pc'[x] = pc[x]
    BY <2>0, <1>t DEF Go, TypeOK
  <2>3. TypeOK' /\ Fresh'
    BY <2>0, <1>t, <2>1, <2>2 DEF TypeOK, Fresh, Go
  <2>4. Alone' /\ LeakNeedsRace'
    BY <2>0, <1>t, <1>p, <2>1, <2>2 DEF TypeOK, Alone, LeakNeedsRace
  <2> QED
    BY <2>1, <2>3, <2>4 DEF LInv
<1>6. ASSUME NEW w \in Watchers, NEW s \in Slots, ResumeHandled(w, s) PROVE LInv'
  <2>1. UNCHANGED <<run, fd, open, machine>> /\ pc[<<w, s>>] = "resume" /\ <<w, s>> \in Tasks
    BY <1>6, <1>p DEF ResumeHandled
  <2>2. TypeOK' /\ FdOwned' /\ Fresh'
    BY <1>6, <1>t, <2>1 DEF ResumeHandled, Go, TypeOK, FdOwned, Fresh
  <2>3. LeakNeedsRace'
    BY <1>6, <1>t, <2>1 DEF ResumeHandled, LeakNeedsRace
  <2>4. Alone'
    <3>1. CASE Go(<<w, s>>, "idle") /\ UNCHANGED raced
        BY <3>1, <1>t, <1>p, <2>1 DEF Go, TypeOK, Alone
    <3>2. CASE fd[w] = None /\ Go(<<w, s>>, "inhibit") /\ raced' = (raced \/ Acquiring(w))
      <4>1. CASE Acquiring(w) \/ raced
        BY <3>2, <4>1 DEF Alone
      <4>2. CASE ~ Acquiring(w) /\ ~ raced
        <5>1. run[w] # "acquiring" /\ \A r \in Slots : pc[<<w, r>>] # "inhibit"
            BY <4>2 DEF Acquiring
        <5>2. \A r \in Slots : pc'[<<w, r>>] = "inhibit" => r = s
            BY <5>1, <3>2, <1>t, <1>p DEF Go, TypeOK
        <5>3. \A v \in Watchers \ {w}, r \in Slots : pc'[<<v, r>>] = pc[<<v, r>>]
            BY <3>2, <1>t, <1>p DEF Go, TypeOK
        <5>4. \A v \in Watchers :
                /\ run[v] = "acquiring" => fd[v] = None /\ \A r \in Slots : pc[<<v, r>>] # "inhibit"
                /\ \A r \in Slots : pc[<<v, r>>] = "inhibit" =>
                     fd[v] = None /\ \A t \in Slots : pc[<<v, t>>] = "inhibit" => t = r
            BY <4>2, <1>t DEF Alone
        <5>5. run' = run /\ fd' = fd /\ fd[w] = None
            BY <2>1, <3>2
        <5>6. ASSUME NEW v \in Watchers
              PROVE  /\ run'[v] = "acquiring" =>
                          fd'[v] = None /\ \A r \in Slots : pc'[<<v, r>>] # "inhibit"
                     /\ \A r \in Slots : pc'[<<v, r>>] = "inhibit" =>
                          fd'[v] = None /\ \A t \in Slots : pc'[<<v, t>>] = "inhibit" => t = r
          <6>1. CASE v = w
            BY <6>1, <5>1, <5>2, <5>5
          <6>2. CASE v # w
            BY <6>2, <5>3, <5>4, <5>5
          <6> QED BY <6>1, <6>2
        <5> QED
            BY <5>6 DEF Alone
      <4> QED BY <4>1, <4>2
    <3> QED
        BY <1>6, <3>1, <3>2 DEF ResumeHandled
  <2> QED
    BY <2>2, <2>3, <2>4 DEF LInv
<1>7. ASSUME NEW w \in Watchers, NEW s \in Slots, TaskAcquires(w, s) PROVE LInv'
  <2>0. InhibitGranted(w) /\ Go(<<w, s>>, "idle") /\ UNCHANGED <<run, machine, raced>>
        /\ pc[<<w, s>>] = "inhibit"
    BY <1>7 DEF TaskAcquires
  <2>1. /\ FdOwned' /\ fd' \in [Watchers -> Fds \cup {None}] /\ open' \subseteq Fds
        /\ \A v \in Watchers \ {w} : fd'[v] = fd[v]
        /\ fd[w] = None => open' \subseteq {fd'[v] : v \in Watchers} \/ raced
    BY <2>0, <1>t, GrantOwned
  <2>2. \A x \in Tasks : pc'[x] = IF x = <<w, s>> THEN "idle" ELSE pc[x]
    BY <2>0, <1>t DEF Go, TypeOK
  <2>3. run[w] # "unused"
    BY <2>0, <1>t, <1>p DEF TypeOK
  <2>4. TypeOK' /\ Fresh'
    BY <2>0, <1>t, <2>1, <2>2, <2>3 DEF TypeOK, Fresh, Go
  <2>5. ~ raced => fd[w] = None /\ run[w] # "acquiring"
                   /\ \A r \in Slots : pc[<<w, r>>] = "inhibit" => r = s
    BY <2>0, <1>t DEF Alone
  <2>6. \A v \in Watchers, r \in Slots :
           pc'[<<v, r>>] = "inhibit" => pc[<<v, r>>] = "inhibit" /\ (v = w => r # s)
    BY <1>p, <2>2
  <2>7. Alone'
    <3>1. CASE raced
        BY <3>1, <2>0 DEF Alone
    <3>2. CASE ~ raced
        BY <3>2, <2>0, <2>1, <2>5, <2>6, <1>t DEF Alone
    <3> QED BY <3>1, <3>2
  <2>8. LeakNeedsRace'
    <3>1. CASE raced
        BY <3>1, <2>0 DEF LeakNeedsRace
    <3>2. CASE ~ raced
        BY <3>2, <2>0, <2>1, <2>5 DEF LeakNeedsRace
    <3> QED BY <3>1, <3>2
  <2> QED
    BY <2>1, <2>4, <2>7, <2>8 DEF LInv
<1>8. ASSUME NEW w \in Watchers, NEW s \in Slots, TaskFails(w, s) PROVE LInv'
  <2>1. \A x \in Tasks : pc'[x] = "idle" \/ pc'[x] = pc[x]
    BY <1>8, <1>t DEF TaskFails, Go, TypeOK
  <2>2. TypeOK' /\ FdOwned' /\ Fresh'
    BY <1>8, <1>t, <2>1 DEF TaskFails, Go, TypeOK, FdOwned, Fresh
  <2>3. \A v \in Watchers, r \in Slots : pc'[<<v, r>>] = "inhibit" => pc[<<v, r>>] = "inhibit"
    BY <1>p, <2>1
  <2>4. Alone'
    BY <1>8, <1>t, <2>3 DEF TaskFails, Alone
  <2>5. LeakNeedsRace'
    BY <1>8, <1>t DEF TaskFails, LeakNeedsRace
  <2> QED
    BY <2>2, <2>4, <2>5 DEF LInv
<1>9. ASSUME PrepareForSleep \/ Wakes \/ PrepareForShutdown PROVE LInv'
  <2>1. /\ \E place \in {"suspend", "resume", "shutdown"} : Signal(place)
        /\ UNCHANGED <<run, fd, open, raced>>
        /\ machine' \in {"up", "delayed", "asleep", "halting"}
    BY <1>9 DEF PrepareForSleep, Wakes, PrepareForShutdown
  <2>2. /\ pc' \in [Tasks -> {"idle", "suspend", "resume", "shutdown", "inhibit"}]
        /\ \A x \in Tasks : pc'[x] # "idle" => pc[x] # "idle" \/ run[x[1]] # "unused"
        /\ \A x \in Tasks : pc'[x] = "inhibit" => pc[x] = "inhibit"
    BY <2>1, <1>t, SignalTasks
  <2>3. TypeOK' /\ FdOwned' /\ Fresh'
    BY <1>t, <2>1, <2>2 DEF TypeOK, FdOwned, Fresh
  <2>4. \A v \in Watchers, r \in Slots : pc'[<<v, r>>] = "inhibit" => pc[<<v, r>>] = "inhibit"
    BY <1>p, <2>2
  <2>5. Alone'
    BY <1>t, <2>1, <2>4 DEF Alone
  <2>6. LeakNeedsRace'
    BY <1>t, <2>1 DEF LeakNeedsRace
  <2> QED
    BY <2>3, <2>5, <2>6 DEF LInv
<1>10. ASSUME Sleeps \/ ShutdownCalledOff \/ UNCHANGED vars PROVE LInv'
  <2>1. /\ UNCHANGED <<run, pc, fd, open, raced>>
        /\ machine' \in {"up", "delayed", "asleep", "halting"}
    BY <1>10, <1>t DEF Sleeps, ShutdownCalledOff, vars, TypeOK
  <2>2. TypeOK' /\ FdOwned' /\ Fresh'
    BY <1>t, <2>1 DEF TypeOK, FdOwned, Fresh
  <2>3. Alone'
    BY <1>t, <2>1 DEF Alone
  <2>4. LeakNeedsRace'
    BY <1>t, <2>1 DEF LeakNeedsRace
  <2> QED
    BY <2>2, <2>3, <2>4 DEF LInv
<1> QED
    BY <1>1, <1>2, <1>3, <1>4, <1>5, <1>6, <1>7, <1>8, <1>9, <1>10 DEF Next

(* The strengthened invariant, from which the three results follow.        *)
THEOREM LogindInductive == Spec => []LInv
<1>1. Init => LInv
    BY LInit
<1>2. LInv /\ [Next]_vars => LInv'
    BY LStep
<1> QED
    BY <1>1, <1>2, PTL DEF Spec

-----------------------------------------------------------------------------
(* Tasks of a watcher exist only once its run has subscribed to signals.   *)
THEOREM LogindTypes == Spec => []TypeOK
<1>1. LInv => TypeOK
    BY DEF LInv
<1> QED
    BY <1>1, LogindInductive, PTL

(* _release_inhibitor never closes a descriptor that is somebody else's:   *)
(* what _inhibitor_fd holds is open and is this watcher's alone.           *)
THEOREM FdOwnedHolds == Spec => []FdOwned
<1>1. LInv => FdOwned
    BY DEF LInv
<1> QED
    BY <1>1, LogindInductive, PTL

(* An inhibitor is left behind only when _acquire_inhibitor overlapped     *)
(* itself.                                                                 *)
THEOREM LeakNeedsRaceHolds == Spec => []LeakNeedsRace
<1>1. LInv => LeakNeedsRace
    BY DEF LInv
<1> QED
    BY <1>1, LogindInductive, PTL

-----------------------------------------------------------------------------
(* What a suspend must find for the TV to go first: every watcher that     *)
(* listens has an inhibitor, and no watcher is still busy with an earlier  *)
(* suspend or shutdown, whose end would release that inhibitor too soon.   *)
Prepared ==
    \A w \in Subscribed :
        /\ run[w] = "listening" => fd[w] # None
        /\ \A s \in Slots : pc[<<w, s>>] \notin {"suspend", "shutdown"}

(* While logind waits, a watcher that still handles the suspend has its    *)
(* inhibitor and no other task that would release it.                      *)
Guarded(w, s) ==
    /\ run[w] = "listening" => fd[w] # None
    /\ \A r \in Slots \ {s} : pc[<<w, r>>] \notin {"suspend", "shutdown"}

Delaying ==
    machine = "delayed" =>
        \A w \in Watchers, s \in Slots :
            run[w] \in {"acquiring", "listening"} /\ pc[<<w, s>>] = "suspend" => Guarded(w, s)

PInv == LInv /\ Delaying /\ TvOffFirst

(* A suspend that finds the watchers prepared leaves them guarded: each    *)
(* gets one task, and it had none.                                         *)
LEMMA SuspendGuarded ==
    ASSUME TypeOK, Prepared, PrepareForSleep
    PROVE  Delaying' /\ TvOffFirst'
<1>1. /\ machine' = "delayed" /\ UNCHANGED <<run, fd>>
      /\ \E slot \in [Subscribed -> Slots] :
            pc' = [x \in Tasks |->
                     IF x[1] \in Subscribed /\ x[2] = slot[x[1]] THEN "suspend" ELSE pc[x]]
    BY DEF PrepareForSleep, Signal
<1>2. PICK slot \in [Subscribed -> Slots] :
        pc' = [x \in Tasks |->
                 IF x[1] \in Subscribed /\ x[2] = slot[x[1]] THEN "suspend" ELSE pc[x]]
    BY <1>1
<1>3. ASSUME NEW w \in Watchers, NEW s \in Slots, run'[w] \in {"acquiring", "listening"},
             pc'[<<w, s>>] = "suspend"
      PROVE  Guarded(w, s)'
  <2>1. w \in Subscribed
    BY <1>1, <1>3 DEF Subscribed
  <2>2. \A r \in Slots : pc'[<<w, r>>] = IF r = slot[w] THEN "suspend" ELSE pc[<<w, r>>]
    BY <1>2, <2>1 DEF Tasks
  <2>3. \A r \in Slots : pc[<<w, r>>] \notin {"suspend", "shutdown"}
    BY <2>1 DEF Prepared
  <2>4. s = slot[w]
    BY <1>3, <2>2, <2>3
  <2>5. run'[w] = "listening" => fd'[w] # None
    BY <1>1, <2>1 DEF Prepared
  <2> QED
    BY <2>2, <2>3, <2>4, <2>5 DEF Guarded
<1>4. TvOffFirst'
    BY <1>1 DEF TvOffFirst
<1> QED
    BY <1>3, <1>4 DEF Delaying

(* Every other step of a delayed machine keeps what its watchers hold.     *)
LEMMA PStep == PInv /\ [Next]_vars /\ [PrepareForSleep => Prepared]_vars => PInv'
<1> SUFFICES ASSUME PInv, [Next]_vars, [PrepareForSleep => Prepared]_vars
             PROVE  Delaying' /\ TvOffFirst'
    BY LStep DEF PInv
<1>t. TypeOK /\ FdOwned /\ Delaying /\ TvOffFirst
    BY DEF PInv, LInv
<1>p. \A w \in Watchers, s \in Slots : <<w, s>> \in Tasks
    BY DEF Tasks
<1>1. ASSUME Awake, machine' = machine, UNCHANGED pc,
             \A w \in Watchers : /\ run'[w] \in {"acquiring", "listening"} =>
                                      \/ run[w] \in {"acquiring", "listening"}
                                      \/ \A s \in Slots : pc[<<w, s>>] = "idle"
                                 /\ run'[w] = "listening" =>
                                      fd'[w] # None \/ (run[w] = "listening" /\ fd'[w] = fd[w])
      PROVE  Delaying' /\ TvOffFirst'
  <2>1. TvOffFirst'
    BY <1>1 DEF TvOffFirst, Awake
  <2>2. Delaying'
    BY <1>1, <1>t DEF Delaying, Guarded
  <2> QED
    BY <2>1, <2>2
<1>2. ASSUME NEW w \in Watchers, RunAcquires(w) PROVE Delaying' /\ TvOffFirst'
  <2>1. PICK n \in Fds \ open : fd' = [fd EXCEPT ![w] = n]
    BY <1>2 DEF RunAcquires, InhibitGranted
  <2>2. fd'[w] # None /\ \A v \in Watchers \ {w} : fd'[v] = fd[v] /\ run'[v] = run[v]
    BY <1>2, <1>t, <2>1, LogindAssumption DEF RunAcquires, TypeOK
  <2> QED
    BY <1>1, <1>2, <2>2 DEF RunAcquires
<1>3. ASSUME NEW w \in Watchers, RunFails(w) PROVE Delaying' /\ TvOffFirst'
  <2>1. run'[w] = "failed" /\ fd' = fd /\ \A v \in Watchers \ {w} : run'[v] = run[v]
    BY <1>3, <1>t DEF RunFails, TypeOK
  <2> QED
    BY <1>1, <1>3, <2>1 DEF RunFails
<1>4. ASSUME NEW w \in Watchers, BusLost(w) PROVE Delaying' /\ TvOffFirst'
  <2>1. run'[w] = "lost" /\ \A v \in Watchers \ {w} : fd'[v] = fd[v] /\ run'[v] = run[v]
    BY <1>4, <1>t DEF BusLost, Release, TypeOK
  <2> QED
    BY <1>1, <1>4, <2>1 DEF BusLost
<1>5. ASSUME NEW w \in Watchers, Supervise(w) PROVE Delaying' /\ TvOffFirst'
  <2>1. /\ w + 1 \in Watchers /\ run' = [run EXCEPT ![w + 1] = "acquiring"]
        /\ run[w + 1] = "unused" /\ fd' = fd
    BY <1>5, LogindAssumption DEF Supervise, Watchers
  <2>2. \A s \in Slots : pc[<<w + 1, s>>] = "idle"
    BY <1>t, <1>p, <2>1 DEF TypeOK
  <2>3. run'[w + 1] = "acquiring" /\ \A v \in Watchers \ {w + 1} : run'[v] = run[v]
    BY <1>t, <2>1 DEF TypeOK
  <2> QED
    BY <1>1, <1>5, <2>1, <2>2, <2>3 DEF Supervise
<1>6. ASSUME NEW w \in Watchers, NEW s \in Slots,
             SuspendHandled(w, s) \/ ShutdownHandled(w, s)
      PROVE  Delaying' /\ TvOffFirst'
  <2>1. /\ pc[<<w, s>>] \in {"suspend", "shutdown"} /\ Awake /\ UNCHANGED <<run, machine>>
        /\ \A v \in Watchers \ {w} : fd'[v] = fd[v]
        /\ \A x \in Tasks : pc'[x] = IF x = <<w, s>> THEN "idle" ELSE pc[x]
    BY <1>6, <1>t DEF SuspendHandled, ShutdownHandled, Release, Go, TypeOK
  <2>2. TvOffFirst'
    BY <2>1 DEF TvOffFirst, Awake
  <2>3. ASSUME machine = "delayed", NEW v \in Watchers, NEW r \in Slots,
               run[v] \in {"acquiring", "listening"}, pc'[<<v, r>>] = "suspend"
        PROVE  Guarded(v, r)'
    <3>1. <<v, r>> # <<w, s>> /\ pc[<<v, r>>] = "suspend"
        BY <1>p, <2>1, <2>3
    <3>2. Guarded(v, r)
        BY <1>t, <2>3, <3>1 DEF Delaying
    <3>3. v # w
        BY <2>1, <3>1, <3>2 DEF Guarded
    <3>4. \A q \in Slots : pc'[<<v, q>>] = pc[<<v, q>>]
        BY <1>p, <2>1, <3>3
    <3> QED
        BY <2>1, <3>2, <3>3, <3>4 DEF Guarded
  <2> QED
    BY <2>1, <2>2, <2>3 DEF Delaying
<1>7. ASSUME NEW w \in Watchers, NEW s \in Slots,
             ResumeHandled(w, s) \/ TaskAcquires(w, s) \/ TaskFails(w, s)
      PROVE  Delaying' /\ TvOffFirst'
  <2>1. /\ Awake /\ UNCHANGED <<run, machine>>
        /\ \A x \in Tasks : pc'[x] \in {"idle", "inhibit"} \/ pc'[x] = pc[x]
    BY <1>7, <1>t DEF ResumeHandled, TaskAcquires, TaskFails, Go, TypeOK
  <2>2. \A v \in Watchers : fd[v] # None => fd'[v] # None
    BY <1>7, <1>t, LogindAssumption
       DEF ResumeHandled, TaskAcquires, TaskFails, InhibitGranted, TypeOK
  <2>3. TvOffFirst'
    BY <2>1 DEF TvOffFirst, Awake
  <2>4. \A v \in Watchers, r \in Slots :
           pc'[<<v, r>>] \in {"suspend", "shutdown"} => pc'[<<v, r>>] = pc[<<v, r>>]
    BY <1>p, <2>1
  <2>5. Delaying'
    BY <1>t, <2>1, <2>2, <2>4 DEF Delaying, Guarded
  <2> QED
    BY <2>3, <2>5
<1>8. CASE PrepareForSleep
  <2>1. machine # machine'
    BY <1>8 DEF PrepareForSleep
  <2> QED
    BY <1>8, <2>1, <1>t, SuspendGuarded DEF vars
<1>9. CASE Sleeps
  <2>1. machine = "delayed" /\ machine' = "asleep" /\ UNCHANGED <<run, pc, fd, open>>
        /\ (open = {} \/ \A x \in Tasks : pc[x] # "suspend")
    BY <1>9 DEF Sleeps
  <2>2. ASSUME NEW w \in Watchers, NEW s \in Slots, run[w] = "listening"
        PROVE  pc[<<w, s>>] # "suspend"
    <3>1. CASE open = {}
        BY <3>1, <1>t, <2>1, <2>2 DEF FdOwned, Delaying, Guarded
    <3>2. CASE \A x \in Tasks : pc[x] # "suspend"
        BY <3>2, <1>p
    <3> QED
        BY <2>1, <3>1, <3>2
  <2> QED
    BY <2>1, <2>2 DEF Delaying, TvOffFirst
<1>10. CASE Wakes \/ PrepareForShutdown \/ ShutdownCalledOff
    BY <1>10 DEF Wakes, PrepareForShutdown, ShutdownCalledOff, Delaying, TvOffFirst
<1>11. CASE UNCHANGED vars
    BY <1>11, <1>t DEF vars, Delaying, TvOffFirst, Guarded
<1> QED
    BY <1>2, <1>3, <1>4, <1>5, <1>6, <1>7, <1>8, <1>9, <1>10, <1>11 DEF Next

(* A suspend waits for the TV whenever it finds every listening watcher    *)
(* with an inhibitor and done with earlier suspends and shutdowns: however *)
(* buses, restarts and tasks behave meanwhile, what TvOffFirst suffers     *)
(* from was there before the suspend (as after a shutdown called off).     *)
THEOREM TvOffFirstIfPrepared ==
    Spec /\ [][PrepareForSleep => Prepared]_vars => []TvOffFirst
<1>1. Init => PInv
    BY LInit DEF Init, PInv, Delaying, TvOffFirst
<1>2. PInv /\ [Next]_vars /\ [PrepareForSleep => Prepared]_vars => PInv'
    BY PStep
<1>3. PInv => TvOffFirst
    BY DEF PInv
<1> QED
    BY <1>1, <1>2, <1>3, PTL DEF Spec
=============================================================================
