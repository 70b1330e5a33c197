------------------------------ MODULE MCDaemon ------------------------------
(* Instances of Daemon for TLC.                                            *)
EXTENDS Daemon

(* Slots are interchangeable, and so are recovery identities.              *)
Symmetry == Permutations(Slots) \cup Permutations(Recs)

(* The safety run follows the daemon to its end, but not past a lost       *)
(* cancel: what happens then is the subject of MCDaemonLost.               *)
NoneLost == ~ swallowed

(* The liveness run also leaves out the end of the service.  Both          *)
(* conditions can only turn false for good, so the behaviours kept are     *)
(* those in which Stop and CancelLost are never taken.                     *)
Serving == stage = "open" /\ ~ swallowed
=============================================================================
