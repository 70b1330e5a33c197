------------------------------ MODULE Ensuring ------------------------------
(***************************************************************************)
(* What the rest of the service may expect of WebOsClient.ensure_on: what  *)
(* it does to the TV while it is under way, and what its return means.     *)
(* Daemon is built on exactly this: the ways EnsureReturns (Wake-on-LAN    *)
(* allowed) and ReachReturns (not allowed) change the TV are those of one  *)
(* call here.  EnsureOn implements it.                                     *)
(***************************************************************************)

CONSTANT HasMac     \* a MAC is configured, so Wake-on-LAN can be sent

VARIABLES
    call,   \* idle or active; then lit (it returned after an answer), unsure
            \* (it returned without one), raised
    wol,    \* the call may send Wake-on-LAN
    tv      \* the TV, as in Daemon

Reachable == tv \in {"lit", "dark"}

(* What a call may do to the TV: light it when it can hear, wake it.       *)
Effects ==
    {tv} \cup (IF Reachable THEN {"lit"} ELSE {})
         \cup (IF wol /\ HasMac /\ tv = "off" THEN {"booting"} ELSE {})

Starts == call # "active" /\ call' = "active" /\ wol' \in BOOLEAN /\ UNCHANGED tv

Works ==
    /\ call = "active"
    /\ tv' \in Effects
    /\ UNCHANGED <<call, wol>>

Ends ==
    /\ call = "active"
    /\ \/ Reachable /\ tv' = "lit" /\ call' = "lit"
       \/ tv' \in Effects /\ call' \in {"unsure", "raised"}
    /\ UNCHANGED wol

(* The environment: the TV boots, and between two calls it obeys the other *)
(* commands of the service.                                                *)
Boots == tv = "booting" /\ tv' \in {"lit", "dark"} /\ UNCHANGED <<call, wol>>

Elsewhere == call # "active" /\ tv' \in {"dark", "off"} /\ UNCHANGED <<call, wol>>

Init == call = "idle" /\ wol \in BOOLEAN /\ tv \in {"lit", "dark", "off"}
Next == Starts \/ Works \/ Ends \/ Boots \/ Elsewhere
Spec == Init /\ [][Next]_<<call, wol, tv>>
=============================================================================
