----------------------------- MODULE DrmWatcher -----------------------------
(***************************************************************************)
(* triggers/drm.py: DrmWatcher.run samples the dpms node of one connector  *)
(* every poll_interval and reports a change from On to Off or back.  It    *)
(* awaits dispatch, so it takes no sample while an event of its own is     *)
(* being handled.  What it compares with is the sample it acted on last,   *)
(* not the state the daemon believes the TV to be in.                      *)
(***************************************************************************)

VARIABLES
    dpms,       \* the dpms node, as the kernel has it
    stable      \* the local of run: the last value sampled

DpmsValues == {"On", "Standby", "Suspend", "Off"}
NoEvent    == "none"
Unreadable == "unreadable"

(* Mutant of Reaction: only the way down is noticed.                       *)
ReactionToOff(old, cur) == IF old = "On" /\ cur = "Off" THEN "BLANK" ELSE NoEvent

(* What a sample reports; any other change (by way of Standby) is silent.  *)
Reaction(old, cur) ==
    CASE old = "On" /\ cur = "Off" -> "BLANK"
      [] old = "Off" /\ cur = "On" -> "UNBLANK"
      [] OTHER                     -> NoEvent

(* The first read of run: `self._read_dpms() or "On"`.                     *)
DrmInit(cur) == stable = (IF cur = Unreadable THEN "On" ELSE cur)

(* One turn of the loop; an unreadable node changes nothing.  stable is    *)
(* assigned after the dispatch, but nothing reads it in between.           *)
Poll(cur) ==
    /\ cur \notin {Unreadable, stable}
    /\ stable' = cur
    /\ UNCHANGED dpms

(* The desktop switches the connector's power.                             *)
DpmsChanges ==
    /\ dpms' \in DpmsValues \ {dpms}
    /\ UNCHANGED stable

=============================================================================
