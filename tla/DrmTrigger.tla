----------------------------- MODULE DrmTrigger -----------------------------
(***************************************************************************)
(* triggers/drm.py: which connector DrmWatcher watches, and what it says   *)
(* of it, under _supervise of __main__.py.                                 *)
(*                                                                         *)
(* One DrmWatcher serves two callers: run polls with it, and the daemon    *)
(* asks its current() whenever a recovery settles.  The first of the two   *)
(* that finds a connector fixes it, in _path, for the life of the service. *)
(* The kernel and the cables change the connectors at any time.            *)
(***************************************************************************)
EXTENDS Integers, Sequences

CONSTANTS
    Connectors,     \* the directories card*-*, in the order of sorted()
    Name,           \* [connector -> its name without the card's number]
    NoName,         \* config.yaml has no `connector`
    Edids,          \* [connector -> what its edid file may hold]
    Reported,       \* the dpms values that the driver reports
    NoPath          \* _path is None

VARIABLES
    configured, \* self.connector: a name, or NoName
    node,       \* [connector -> what sysfs says of it]
    path,       \* _path
    pc,         \* run: starting, polling, dispatching, or backoff
    stable,     \* the local of run: the last value sampled
    cur,        \* the local of run: the value sampled now
    delay,      \* the local of _supervise, in seconds
    heard       \* history: the state that the events told of, or "unsure"

(* The poll of DrmWatcher, over the connector watched.                     *)
Drm == INSTANCE DrmWatcher WITH dpms <- node[path].dpms
Absent == "absent"

vars == <<configured, node, path, pc, stable, cur, delay, heard>>

Directories == {Connectors[i] : i \in DOMAIN Connectors}
DpmsNodes == Reported \cup {Drm!Unreadable, Absent}
Facts(c) == [dpms : DpmsNodes, edid : Edids[c], connected : BOOLEAN]

ASSUME ConnectorsAssumption == Connectors \in Seq(Directories)
ASSUME DrmTriggerAssumption ==
    /\ NoPath \notin Directories
    /\ Reported \subseteq Drm!DpmsValues
    /\ Name \in [Directories -> STRING \cup {NoName}]
    /\ \A c \in Directories :
         Edids[c] \subseteq [header : BOOLEAN, packed : 0 .. 65535]

Init ==
    /\ node \in [Directories -> [dpms : {"On", "Off", Absent},
                                 edid : UNION {Edids[c] : c \in Directories},
                                 connected : {TRUE}]]
    /\ \A c \in Directories : node[c] \in Facts(c)
    /\ configured \in {NoName} \cup {Name[c] : c \in Directories}
    /\ path = NoPath
    /\ pc = "starting"
    /\ stable = "On" /\ cur = "On"
    /\ delay = 2
    /\ heard = "unsure"

-----------------------------------------------------------------------------
(* Which connector.                                                        *)

(* The manufacturer's three letters, as numbers; bit 15 is not theirs.  A  *)
(* file that is unreadable, too short or of another kind has no header.    *)
NoId == <<>>
PnpId(edid) ==
    LET letters == <<(edid.packed \div 1024) % 32,
                     (edid.packed \div 32) % 32,
                     edid.packed % 32>>
    IN  IF edid.header /\ \A i \in 1 .. 3 : letters[i] # 0 THEN letters ELSE NoId

LgIds == {<<7, 19, 13>>, <<12, 7, 4>>}      \* GSM and LGD

Candidates == {c \in Directories : node[c].dpms # Absent}
Lgs == {c \in Candidates : PnpId(node[c].edid) \in LgIds}
Attached == {c \in Candidates : node[c].connected}
Named == {c \in Candidates : Name[c] = configured}

(* The first of some candidates, in the order of sorted().                 *)
FirstOf(some) ==
    IF some = {} THEN NoPath
    ELSE Connectors[CHOOSE i \in DOMAIN Connectors :
                        /\ Connectors[i] \in some
                        /\ \A j \in 1 .. i - 1 : Connectors[j] \notin some]

(* Mutant of Chosen: a connected panel is as good as one of LG's.          *)
ChosenAttached ==
    IF path # NoPath THEN path
    ELSE IF configured # NoName THEN FirstOf(Named)
    ELSE FirstOf(IF Attached # {} THEN Attached ELSE Candidates)

(* resolve; NoPath is its FileNotFoundError.                               *)
Chosen ==
    IF path # NoPath THEN path
    ELSE IF configured # NoName THEN FirstOf(Named)
    ELSE FirstOf(IF Lgs # {} THEN Lgs
                 ELSE IF Attached # {} THEN Attached
                 ELSE Candidates)

(* _read_dpms of the connector c; a node that is gone cannot be read.      *)
ReadDpms(c) ==
    IF node[c].dpms = Absent THEN Drm!Unreadable ELSE node[c].dpms

-----------------------------------------------------------------------------
(* run, under _supervise.                                                  *)

Sure(value) == IF value \in {"On", "Off"} THEN value ELSE "unsure"

(* The first read is reported to nobody: what it says is taken as known.   *)
RunStarts ==
    /\ pc = "starting" /\ Chosen # NoPath
    /\ path' = Chosen
    /\ stable' = (IF ReadDpms(Chosen) = Drm!Unreadable THEN "On" ELSE ReadDpms(Chosen))
    /\ heard' = Sure(stable')
    /\ pc' = "polling"
    /\ UNCHANGED <<configured, node, cur, delay>>

RunCrashes ==
    /\ pc = "starting" /\ Chosen = NoPath
    /\ pc' = "backoff"
    /\ UNCHANGED <<configured, node, path, stable, cur, delay, heard>>

(* Mutant of Longer: the doubling has no end.                              *)
LongerAlways(seconds) == seconds * 2

Longer(seconds) == IF seconds * 2 < 60 THEN seconds * 2 ELSE 60

(* Mutant of Supervise: the trigger is restarted once.                     *)
SuperviseOnce ==
    /\ pc = "backoff" /\ delay = 2
    /\ pc' = "starting"
    /\ delay' = Longer(delay)
    /\ UNCHANGED <<configured, node, path, stable, cur, heard>>

(* The delay is over; it is never shortened again.                         *)
Supervise ==
    /\ pc = "backoff"
    /\ pc' = "starting"
    /\ delay' = Longer(delay)
    /\ UNCHANGED <<configured, node, path, stable, cur, heard>>

(* A sample that tells something new; any other is passed over.            *)
Sample ==
    /\ pc = "polling"
    /\ ReadDpms(path) \notin {Drm!Unreadable, stable}
    /\ cur' = ReadDpms(path)
    /\ pc' = "dispatching"
    /\ UNCHANGED <<configured, node, path, stable, delay, heard>>

(* dispatch has returned.  A change by way of Standby leaves a listener    *)
(* in doubt, as nothing is said of it.                                     *)
Dispatched ==
    /\ pc = "dispatching"
    /\ heard' = CASE Drm!Reaction(stable, cur) = "BLANK"     -> "Off"
                  [] Drm!Reaction(stable, cur) = "UNBLANK"   -> "On"
                  [] {stable, cur} \subseteq {"On", "Off"}   -> heard
                  [] OTHER                                   -> "unsure"
    /\ stable' = cur
    /\ pc' = "polling"
    /\ UNCHANGED <<configured, node, path, cur, delay>>

(* current, asked by the daemon: it may be the first to choose, and it     *)
(* never raises.                                                           *)
Current ==
    /\ path = NoPath /\ Chosen # NoPath
    /\ path' = Chosen
    /\ UNCHANGED <<configured, node, pc, stable, cur, delay, heard>>

(* A driver loads, a cable is plugged, a panel sleeps, the desktop blanks. *)
Changes(c) ==
    /\ \E facts \in Facts(c), what \in {"dpms", "edid", "connected"} :
         /\ \A other \in DOMAIN facts \ {what} : facts[other] = node[c][other]
         /\ node' = [node EXCEPT ![c] = facts]
    /\ UNCHANGED <<configured, path, pc, stable, cur, delay, heard>>

RunStep == RunStarts \/ RunCrashes \/ Supervise \/ Sample \/ Dispatched

Next == RunStep \/ Current \/ \E c \in Directories : Changes(c)

(* The event loop runs what is due, and every dispatch returns.            *)
DrmTriggerSpec == Init /\ [][Next]_vars /\ WF_vars(RunStep)

-----------------------------------------------------------------------------
(* Types: the connector, once there is one, is a directory of sysfs, and   *)
(* _supervise never waits more than a minute, however often run crashed.   *)
TypeOK ==
    /\ DOMAIN node = Directories /\ \A c \in Directories : node[c] \in Facts(c)
    /\ configured \in {NoName} \cup {Name[c] : c \in Directories}
    /\ path \in Directories \cup {NoPath}
    /\ pc \in {"starting", "polling", "dispatching", "backoff"}
    /\ stable \in Reported \cup {"On"} /\ cur \in Reported \cup {"On"}
    /\ delay \in 2 .. 60
    /\ heard \in {"On", "Off", "unsure"}
    /\ pc \in {"polling", "dispatching"} => path # NoPath

(* A change that lasts is told, whatever flickered before it and while an  *)
(* event was being handled: a listener ends up knowing the state of the    *)
(* connector watched, or was never told anything definite.                 *)
ChangesTold ==
    \A value \in {"On", "Off"} :
        <>[](path # NoPath /\ ReadDpms(path) = value)
            => <>[](heard \in {value, "unsure"})

(* When the connectors appear together with the one that is meant, as      *)
(* they do when the driver is loaded after the service has started, and    *)
(* stay, then the trigger ends up polling that one, whoever of run and     *)
(* current chose it and whatever the panels reported before.  Meant is     *)
(* the configured one, or else the panel that alone is LG's.               *)
Meant(tv) ==
    Candidates # {} => {tv} = IF configured # NoName THEN Named ELSE Lgs
TvWatched ==
    \A tv \in Directories :
        [](Meant(tv)) /\ <>[](Candidates # {})
            => <>[](path = tv /\ pc \in {"polling", "dispatching"})
=============================================================================
