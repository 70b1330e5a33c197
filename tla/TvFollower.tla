----------------------------- MODULE TvFollower -----------------------------
(***************************************************************************)
(* What the service promises of the TV: it only ever does what the event   *)
(* handled last asks of it.  Handling an event supersedes everything that  *)
(* was asked before; a command of the earlier one that was on its way may  *)
(* take effect at that moment, and not any more afterwards.                *)
(*                                                                         *)
(* Companion shows that the daemon, its recoveries, the poll and the       *)
(* logind signals together implement this.                                 *)
(***************************************************************************)

VARIABLES
    wish,       \* the event handled last
    tv          \* the TV: lit, dark (panel off), off (powered down), booting

Wishes == {"BLANK", "UNBLANK", "SUSPEND", "RESUME", "SHUTDOWN"}

(* A TV that is brought back is woken, lit, and turned dark again when the *)
(* desktop has blanked in the meantime.                                    *)
Asks == [BLANK    |-> {"dark"},
         UNBLANK  |-> {"booting", "lit", "dark"},
         RESUME   |-> {"booting", "lit", "dark"},
         SUSPEND  |-> {"off"},
         SHUTDOWN |-> {"off"}]

Init == wish = "UNBLANK" /\ tv = "lit"

Handled == wish' \in Wishes /\ tv' \in Asks[wish] \cup {tv}

Obeys == tv' \in Asks[wish] /\ UNCHANGED wish

(* A TV that was woken is up after a while, whatever is asked meanwhile.   *)
Boots == tv = "booting" /\ tv' \in {"lit", "dark"} /\ UNCHANGED wish

FollowerSpec == Init /\ [][Handled \/ Obeys \/ Boots]_<<wish, tv>>
=============================================================================
