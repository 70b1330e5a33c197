------------------------------ MODULE EnsureOn ------------------------------
(***************************************************************************)
(* WebOsClient.ensure_on with _try_reach and _unblank_resilient: reach the *)
(* TV, wake it by Wake-on-LAN when it cannot be reached, turn its panel on.*)
(* The caller's time-out and cancel may hit any await (Cancel).            *)
(*                                                                         *)
(* Below it lies request(), seen through its outcomes: an answer of a TV   *)
(* that can hear; an error the retry loops catch (WebOsError, OSError,     *)
(* which TimeoutError is a subclass of); or an exception they do not       *)
(* catch, such as ConnectionClosed from a send on a socket that the reader *)
(* has not yet seen closing.  A failed command may have reached the TV.    *)
(***************************************************************************)
EXTENDS Naturals

CONSTANTS
    HasMac,     \* a MAC is configured
    MaxBursts,  \* wol_attempts
    MaxTries    \* tries of _unblank_resilient

ASSUME EnsureAssumption ==
    /\ HasMac \in BOOLEAN
    /\ MaxBursts \in Nat
    /\ MaxTries \in Nat \ {0}

VARIABLES
    pc,         \* where the call is
    args,       \* its arguments: force_unblank, allow_wol
    connected,  \* WebOsClient._connected, which may be stale
    bursts,     \* Wake-on-LAN bursts sent in this call
    tries,      \* turnOnScreen calls that failed since the TV was reached
    answered,   \* turnOnScreen was answered (or refused as needless)
    tv          \* the TV, as in Daemon

vars == <<pc, args, connected, bursts, tries, answered, tv>>

Active == {"route", "reach", "query", "unblank", "pause", "burst", "interval"}
Over   == {"idle", "returned", "raised"}
Panels == {"lit", "dark", "off", "booting"}

TypeOK ==
    /\ pc \in Active \cup Over
    /\ args \in [force : BOOLEAN, wol : BOOLEAN]
    /\ connected \in BOOLEAN
    /\ bursts \in 0 .. MaxBursts
    /\ tries \in 0 .. MaxTries
    /\ answered \in BOOLEAN
    /\ tv \in Panels

Init ==
    /\ pc = "idle"
    /\ args \in [force : BOOLEAN, wol : BOOLEAN]
    /\ connected = FALSE
    /\ bursts = 0
    /\ tries = 0
    /\ answered = FALSE
    /\ tv \in {"lit", "dark", "off"}

-----------------------------------------------------------------------------
Reachable == tv \in {"lit", "dark"}
MaybeLit   == IF Reachable THEN {tv, "lit"} ELSE {tv}
MaybeWoken == IF tv = "off" THEN {"off", "booting"} ELSE {tv}

(* request() reconnects a link it knows to be broken, which may succeed    *)
(* only with a TV that can hear.                                           *)
MaybeLinked == {connected, FALSE} \cup (IF Reachable THEN {TRUE} ELSE {})

(* ensure_on is called: the wait for a route is optional.                  *)
EnsureIsCalled(force, wol) ==
    /\ pc \in Over
    /\ args' = [force |-> force, wol |-> wol]
    /\ bursts' = 0
    /\ tries' = 0
    /\ answered' = FALSE
    /\ pc' \in {"route", "reach"}
    /\ UNCHANGED <<connected, tv>>

(* wait_for_network: a route appears, or network_wait is over.             *)
WaitForNetwork ==
    /\ pc = "route"
    /\ pc' \in {"reach", "raised"}
    /\ UNCHANGED <<args, connected, bursts, tries, answered, tv>>

-----------------------------------------------------------------------------
(* _try_reach.                                                             *)

EnsureConnected ==
    /\ pc = "reach"
    /\ connected \/ Reachable
    /\ connected' = TRUE
    /\ pc' = "query"
    /\ UNCHANGED <<args, bursts, tries, answered, tv>>

(* connect raised: the next burst is due, if there is to be one.           *)
ConnectFails ==
    /\ pc = "reach"
    /\ ~ connected
    /\ pc' = IF args.wol /\ HasMac /\ bursts < MaxBursts THEN "burst" ELSE "raised"
    /\ UNCHANGED <<args, connected, bursts, tries, answered, tv>>

(* A dark panel may report Active for a moment after waking up; a state    *)
(* that cannot be read counts as awake.                                    *)
PowerStateRead ==
    /\ pc = "query"
    /\ \/ Reachable /\ connected' = TRUE
       \/ connected' \in MaybeLinked
    /\ \/ pc' = "unblank" /\ (args.force \/ tv = "dark")
       \/ pc' = "returned" /\ ~ args.force
    /\ UNCHANGED <<args, bursts, tries, answered, tv>>

-----------------------------------------------------------------------------
(* _unblank_resilient.                                                     *)

(* Mutant of TurnOnScreen: every error counts as "already lit".            *)
TurnOnScreenAnyError ==
    /\ pc = "unblank"
    /\ tv' \in MaybeLit
    /\ connected' \in MaybeLinked
    /\ answered' = TRUE
    /\ pc' = "returned"
    /\ UNCHANGED <<args, bursts, tries>>

(* turnOnScreen is acknowledged, or refused with a 500 by a lit panel.     *)
TurnOnScreen ==
    /\ pc = "unblank"
    /\ Reachable
    /\ tv' = "lit"
    /\ connected' = TRUE
    /\ answered' = TRUE
    /\ pc' = "returned"
    /\ UNCHANGED <<args, bursts, tries>>

(* Mutant of TurnOnScreenFails: tried again until it works.                *)
TurnOnScreenAgain ==
    /\ pc = "unblank"
    /\ tv' \in MaybeLit
    /\ connected' \in MaybeLinked
    /\ tries' = tries + 1
    /\ pc' = "pause"
    /\ UNCHANGED <<args, bursts, answered>>

(* After the last failure it returns as after a success.                   *)
TurnOnScreenFails ==
    /\ pc = "unblank"
    /\ tv' \in MaybeLit
    /\ connected' \in MaybeLinked
    /\ tries' = tries + 1
    /\ pc' = IF tries' < MaxTries THEN "pause" ELSE "returned"
    /\ UNCHANGED <<args, bursts, answered>>

Paused ==
    /\ pc = "pause"
    /\ pc' = "unblank"
    /\ UNCHANGED <<args, connected, bursts, tries, answered, tv>>

(* What neither layer catches ends the whole call.                         *)
RequestBreaks ==
    /\ pc \in {"query", "unblank"}
    /\ tv' \in IF pc = "unblank" THEN MaybeLit ELSE {tv}
    /\ connected' \in MaybeLinked
    /\ pc' = "raised"
    /\ UNCHANGED <<args, bursts, tries, answered>>

-----------------------------------------------------------------------------
(* The Wake-on-LAN loop of ensure_on.                                      *)

(* Mutant of SendWolBurst: attempts are not counted.                       *)
SendWolBurstUncounted ==
    /\ pc = "burst"
    /\ tv' \in MaybeWoken
    /\ pc' \in {"interval", "raised"}
    /\ UNCHANGED <<args, connected, bursts, tries, answered>>

(* send_wol_burst; it raises when no socket can be made.                   *)
SendWolBurst ==
    /\ pc = "burst"
    /\ tv' \in MaybeWoken
    /\ bursts' = bursts + 1
    /\ pc' \in {"interval", "raised"}
    /\ UNCHANGED <<args, connected, tries, answered>>

WolInterval ==
    /\ pc = "interval"
    /\ pc' = "reach"
    /\ UNCHANGED <<args, connected, bursts, tries, answered, tv>>

-----------------------------------------------------------------------------
(* The caller gives up: wait_for's time-out, or a cancel.                  *)
Cancel ==
    /\ pc \in Active
    /\ tv' \in IF pc = "unblank" THEN MaybeLit ELSE {tv}
    /\ connected' \in MaybeLinked
    /\ pc' = "raised"
    /\ UNCHANGED <<args, bursts, tries, answered>>

(* The environment: the reader task sees the connection end, the TV boots, *)
(* and between two calls the service sends other commands.                 *)
ReaderEnds ==
    /\ connected
    /\ connected' = FALSE
    /\ UNCHANGED <<pc, args, bursts, tries, answered, tv>>

Boots ==
    /\ tv = "booting"
    /\ tv' \in {"lit", "dark"}
    /\ UNCHANGED <<pc, args, connected, bursts, tries, answered>>

Elsewhere ==
    /\ pc \in Over
    /\ tv' \in {"dark", "off"}
    /\ UNCHANGED <<pc, args, connected, bursts, tries, answered>>

Step ==
    \/ WaitForNetwork \/ EnsureConnected \/ ConnectFails \/ PowerStateRead
    \/ TurnOnScreen \/ TurnOnScreenFails \/ Paused \/ RequestBreaks
    \/ SendWolBurst \/ WolInterval \/ Cancel

Next ==
    \/ \E force, wol \in BOOLEAN : EnsureIsCalled(force, wol)
    \/ Step \/ ReaderEnds \/ Boots \/ Elsewhere

Spec == Init /\ [][Next]_vars

(* Every await of the call has a time-out of its own or a fixed length.    *)
FairSpec == Spec /\ WF_vars(Step)

-----------------------------------------------------------------------------
(* The call as the daemon sees it.                                         *)
Call ==
    CASE pc \in Active                 -> "active"
      [] pc = "returned" /\ answered   -> "lit"
      [] pc = "returned" /\ ~ answered -> "unsure"
      [] OTHER                         -> pc

Promise == INSTANCE Ensuring WITH call <- Call, wol <- args.wol

(* ensure_on never dims the TV, wakes it only by Wake-on-LAN, lights it    *)
(* only when it can hear, and has lit it when turnOnScreen was answered:   *)
(* all that Daemon assumes of EnsureReturns and ReachReturns.              *)
KeepsPromise == Promise!Spec

(* Every call ends by itself, whatever the TV and the network do: two      *)
(* nested retry loops around a connection that comes and goes.             *)
EnsureEnds == pc \in Active ~> pc \in Over

(* webos.py:338-412: both loops count every round, so no step of a call    *)
(* takes it further from its end: fewer bursts, fewer tries, or fewer      *)
(* awaits of this round are ahead of it, whatever the TV and the           *)
(* connection do between them.                                             *)
Ahead == [unblank |-> 0, pause |-> 1, query |-> 1, burst |-> 1, reach |-> 2,
          interval |-> 3, route |-> 3]
StepsLeft ==
    IF pc \in Active
    THEN 3 * (MaxBursts - bursts) + 2 * (MaxTries - tries) + Ahead[pc]
    ELSE 0

EnsureAdvances ==
    [][(pc \in Active) => \/ UNCHANGED <<pc, bursts, tries>>
                          \/ StepsLeft' < StepsLeft]_vars

(* daemon.py:128: after ensure_on "TV is reachable and lit".               *)
ReturnsLit == [][(pc \in Active /\ pc' = "returned" /\ args.force) => tv' = "lit"]_vars
=============================================================================
