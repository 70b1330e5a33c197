------------------------------- MODULE Setup -------------------------------
(***************************************************************************)
(* What the commands and the service leave on disk: config.yaml, the       *)
(* config.toml it replaced, the client key, and the systemd unit.          *)
(*                                                                         *)
(* Two processes share these files without a lock: the command the user    *)
(* runs and the daemon that systemd runs.  Every file is written in place, *)
(* so a save is two steps, and a process may be killed between any two.    *)
(* A file cut short reads like an empty one: the text fits one write, so   *)
(* it is either there or not.  Where two saves of config.yaml meet, the    *)
(* end of the longer text may stick out of the shorter one; keys are       *)
(* equally long.  A system that loses completed writes (power cut before   *)
(* the page cache was flushed) is left out, and so are the settings other  *)
(* than the two addresses.                                                 *)
(***************************************************************************)
EXTENDS Discovery

CONSTANTS
    Cli, Daemon,    \* the two processes
    Hosts,          \* addresses on the network; a MAC address is its host's
    Answers,        \* what a host may answer to a scan, a subset of Answer
    Tvs,            \* the hosts that are LG TVs, and accept on port 3001
    Old,            \* the TV of an earlier installation
    MaxKeys,        \* bound: pairings granted in a behaviour
    NoFile, Empty,  \* a file that does not exist, and one without content
    Mixed           \* what two saves at once may leave: not a YAML mapping

ASSUME SetupAssumption ==
    /\ Hosts \subseteq Nat \ {None} /\ IsFiniteSet(Hosts) /\ Tvs \subseteq Hosts
    /\ Old \in Tvs
    /\ Answers \subseteq Answer
    /\ MaxKeys \in Nat
    /\ Cli # Daemon

VARIABLES
    yaml, legacy,   \* config.yaml and config.toml
    named,          \* history: the address in the Config last on disk as a whole
    key,            \* the key in the client-key file; NoKey if absent or empty
    enabled,        \* the unit is installed and enabled
    trusted, issued,\* the keys each TV accepts, and how many were ever granted
    pc, kind,       \* of a process: where it is, and the command it runs
    cfg, ckey,      \* the Config and the client key a process holds in memory
    pick,           \* of setup: the user's choice, and how it was made
    history         \* history: what has happened to the files

files == <<yaml, legacy, named, key, enabled>>
tvs   == <<trusted, issued>>
procs == <<pc, kind, cfg, ckey, pick>>
vars  == <<files, tvs, procs, history>>

Procs   == {Cli, Daemon}
NoKey   == 0
Keys    == 1..MaxKeys
Config  == [ip : Hosts \cup {None}, mac : Hosts \cup {None}]
Default == [ip |-> None, mac |-> None]
NoPick  == [ip |-> None, mac |-> None, how |-> "none"]
Commands == {"setup", "pair", "use"}    \* use: on, off, status and probe

ASSUME NoFileAssumption ==
    /\ {NoFile, Empty, Mixed} \cap Config = {}
    /\ NoFile # Empty /\ Mixed \notin {NoFile, Empty}

(* The three saves of a Config: who saves, when truncated, and then.       *)
Truncated == [migrate |-> "migrating", write |-> "writing", fill |-> "filling"]
Written   == [migrating |-> "unlink", writing |-> "askPair", filling |-> "wol"]
Saving    == DOMAIN Written
Migration == {"migrate", "migrating", "unlink"}
Serving   == {"active", "savekey", "savingkey"}

TypeOK ==
    /\ yaml \in Config \cup {NoFile, Empty, Mixed} /\ named \in Hosts \cup {None}
    /\ legacy \in Config \cup {NoFile}
    /\ key \in Keys \cup {NoKey} /\ enabled \in BOOLEAN
    /\ trusted \in [Hosts -> SUBSET Keys] /\ issued \in 0..MaxKeys
    /\ \A h \in Hosts : \A k \in trusted[h] : k <= issued
    /\ pc \in [Procs -> {"idle", "failed", "load", "loaded", "askMac",
                         "connect", "paired", "install"}
                        \cup Serving \cup Migration
                        \cup DOMAIN Truncated \cup Saving \cup {Written[s] : s \in Saving}]
    /\ kind \in [Procs -> Commands \cup {"run"}]
    /\ cfg \in [Procs -> Config] /\ ckey \in [Procs -> Keys \cup {NoKey}]
    /\ pick \in [ip : Hosts \cup {None}, mac : Hosts \cup {None},
                 how : {"none", "typed", "kept", "enter", "misled"}]
    /\ history \subseteq {"configured", "torn", "overlap", "blank", "crossed"}

(* An installation of an earlier version, one of this version with its     *)
(* service running, and none at all.                                       *)
Init ==
    /\ LET c == [ip |-> Old, mac |-> Old] IN
         \/ /\ yaml = NoFile /\ legacy = c /\ enabled = TRUE
            /\ named = Old /\ history = {"configured"}
         \/ /\ yaml = c /\ legacy = NoFile /\ enabled = TRUE
            /\ named = Old /\ history = {"configured"}
         \/ /\ yaml = NoFile /\ legacy = NoFile /\ enabled = FALSE
            /\ named = None /\ history = {}
    /\ key = NoKey /\ trusted = [h \in Hosts |-> {}] /\ issued = 0
    /\ pc = [p \in Procs |-> "idle"]
    /\ kind = [p \in Procs |-> IF p = Daemon THEN "run" ELSE "use"]
    /\ cfg = [p \in Procs |-> Default] /\ ckey = [p \in Procs |-> NoKey]
    /\ pick = NoPick

(* A command holds, or is about to get, the key for its TV.                *)
Pairing == pc[Cli] \in {"connect", "savekey", "savingkey",
                        "paired", "fill", "filling", "wol"}

Step(p, from, to) == pc[p] = from /\ pc' = [pc EXCEPT ![p] = to]

(* Nothing that the process holds in memory is used any more.              *)
Exit(p, to) ==
    /\ pc' = [pc EXCEPT ![p] = to]
    /\ kind' = [kind EXCEPT ![p] = IF p = Daemon THEN "run" ELSE "use"]
    /\ cfg' = [cfg EXCEPT ![p] = Default] /\ ckey' = [ckey EXCEPT ![p] = NoKey]
    /\ pick' = IF p = Cli THEN NoPick ELSE pick

-----------------------------------------------------------------------------
(* Config.load and Config.save.                                            *)

(* Mutant of Parsed: an empty file is not taken for an empty mapping.      *)
ParsedRaw(text) == text

Parsed(text) == IF text \in Config THEN text ELSE Default

(* Text that is no mapping is not read: see Refused.                       *)
Load(p) ==
    /\ yaml # Mixed
    /\ IF yaml = NoFile /\ legacy # NoFile
       THEN Step(p, "load", "migrate") /\ cfg' = [cfg EXCEPT ![p] = legacy]
       ELSE /\ Step(p, "load", "loaded")
            /\ cfg' = [cfg EXCEPT ![p] = Parsed(yaml)]
    /\ history' = history \cup
         (IF pc'[p] = "migrate" /\ \E q \in Procs \ {p} : pc[q] \in Migration
          THEN {"overlap"} ELSE {}) \cup
         (IF p = Cli /\ yaml = Empty THEN {"blank"} ELSE {})
    /\ UNCHANGED <<files, tvs, kind, ckey, pick>>

(* Mutant of Truncate: the old file is dropped before the new one exists.  *)
TruncateUnlinked(p) ==
    /\ pc[p] \in DOMAIN Truncated
    /\ Step(p, pc[p], Truncated[pc[p]])
    /\ yaml' = Empty
    /\ legacy' = IF pc[p] = "migrate" THEN NoFile ELSE legacy
    /\ UNCHANGED <<named, key, enabled, tvs, kind, cfg, ckey, pick, history>>

Truncate(p) ==
    /\ pc[p] \in DOMAIN Truncated
    /\ Step(p, pc[p], Truncated[pc[p]])
    /\ yaml' = Empty
    /\ UNCHANGED <<legacy, named, key, enabled, tvs, kind, cfg, ckey, pick, history>>

(* Another save may have filled the file since it was truncated.           *)
Write(p) ==
    /\ pc[p] \in Saving
    /\ Step(p, pc[p], Written[pc[p]])
    /\ \/ /\ yaml' = cfg[p] /\ named' = cfg[p].ip
          /\ history' = (history \ {"torn"}) \cup {"configured"}
       \/ /\ yaml \notin {Empty, cfg[p]}
          /\ yaml' = Mixed /\ UNCHANGED named
          /\ history' = history \cup {"torn"}
    /\ pick' = IF p = Cli THEN NoPick ELSE pick
    /\ UNCHANGED <<legacy, key, enabled, tvs, kind, cfg, ckey>>

Unlink(p) ==
    /\ Step(p, "unlink", "loaded")
    /\ legacy' = NoFile
    /\ UNCHANGED <<yaml, named, key, enabled, tvs, kind, cfg, ckey, pick, history>>

-----------------------------------------------------------------------------
(* main: load, validate, and the command.                                  *)

Start(c) ==
    /\ Step(Cli, "idle", "load")
    /\ kind' = [kind EXCEPT ![Cli] = c]
    /\ history' = history \ ({"crossed"} \cup
                    (IF pc[Daemon] \in Migration THEN {} ELSE {"overlap", "blank"}))
    /\ UNCHANGED <<files, tvs, cfg, ckey, pick>>

(* Config.load raises over what is no mapping; validate refuses a Config   *)
(* without an address, except for setup.                                   *)
Refused(p) ==
    /\ \/ pc[p] = "load" /\ yaml = Mixed
       \/ pc[p] = "loaded" /\ kind[p] # "setup" /\ cfg[p].ip = None
    /\ Exit(p, IF p = Daemon THEN "failed" ELSE "idle")
    /\ UNCHANGED <<files, tvs, history>>

(* _make_client reads the key file.                                        *)
MakeClient(p, from, to) ==
    /\ Step(p, from, to)
    /\ ckey' = [ckey EXCEPT ![p] = key]
    /\ UNCHANGED <<files, tvs, kind, cfg, pick, history>>

Connects(p) ==
    /\ kind[p] # "setup" /\ cfg[p].ip # None
    /\ MakeClient(p, "loaded", IF p = Daemon THEN "active" ELSE "connect")

-----------------------------------------------------------------------------
(* _handshake, with the TV at the configured address.  A key that the TV   *)
(* does not accept brings up the prompt; the user may let it pass.         *)

Known(p) == ckey[p] \in trusted[cfg[p].ip] /\ UNCHANGED tvs

Grants(p) ==
    /\ ckey[p] \notin trusted[cfg[p].ip] /\ issued < MaxKeys
    /\ issued' = issued + 1
    /\ trusted' = [trusted EXCEPT ![cfg[p].ip] = @ \cup {issued'}]

(* Mutant of KeyReceived: the client keeps the key it presented.           *)
KeyPresented(p) == ckey[p]

KeyReceived(p) == issued + 1

(* A new key is saved before anything else, but probe is given no place to *)
(* keep one.  A command that uses the TV is then done with what this model *)
(* is about.                                                               *)
Handshake(p) ==
    /\ pc[p] = IF p = Daemon THEN "active" ELSE "connect"
    /\ cfg[p].ip \in Tvs
    /\ \/ /\ Grants(p)
          /\ ckey' = [ckey EXCEPT ![p] = KeyReceived(p)]
          /\ Step(p, pc[p], "savekey")
          /\ UNCHANGED <<kind, cfg, pick>>
       \/ /\ p = Cli /\ kind[p] # "use" /\ Known(p)
          /\ Step(p, pc[p], "paired")
          /\ UNCHANGED <<kind, cfg, ckey, pick>>
       \/ /\ kind[p] = "use" /\ (Known(p) \/ Grants(p))
          /\ Exit(p, "idle")
    /\ UNCHANGED <<files, history>>

HandshakeFails ==
    /\ pc[Cli] = "connect"
    /\ Exit(Cli, "idle")
    /\ UNCHANGED <<files, tvs, history>>

TruncateKey(p) ==
    /\ Step(p, "savekey", "savingkey")
    /\ key' = NoKey
    /\ UNCHANGED <<yaml, legacy, named, enabled, tvs, kind, cfg, ckey, pick, history>>

WriteKey(p) ==
    /\ pc[p] = "savingkey"
    /\ key' = ckey[p]
    /\ IF kind[p] = "use" THEN Exit(p, "idle")
       ELSE /\ Step(p, "savingkey", IF p = Daemon THEN "active" ELSE "paired")
            /\ UNCHANGED <<kind, cfg, ckey, pick>>
    /\ history' = IF p = Daemon /\ Pairing /\ cfg[Cli].ip # cfg[p].ip
                  THEN history \cup {"crossed"} ELSE history
    /\ UNCHANGED <<yaml, legacy, named, enabled, tvs>>

(* A reset of the TV, not while a command or a save of its key is under way.*)
Forgets(h) ==
    /\ pc[Cli] = "idle" /\ pc[Daemon] \notin {"savekey", "savingkey"}
    /\ trusted[h] # {}
    /\ trusted' = [trusted EXCEPT ![h] = {}]
    /\ UNCHANGED <<files, issued, procs, history>>

-----------------------------------------------------------------------------
(* _cmd_setup and _choose_tv.                                              *)

KeepsConfig ==
    /\ kind[Cli] = "setup" /\ yaml # NoFile
    /\ Step(Cli, "loaded", "askPair")
    /\ UNCHANGED <<files, tvs, kind, cfg, ckey, pick, history>>

(* The MAC address setup offers: that of the Config loaded, else that of   *)
(* the choice, else what the neighbour table has by now.                   *)
OfferedMac(old, found, now) ==
    CASE old # None -> old [] found # None -> found [] OTHER -> now

Offered(now) == OfferedMac(cfg[Cli].mac, pick.mac, now)

(* Mutant of EnterTakes: Enter takes the first of the list in any case.    *)
EnterTakesFirst(current, offered) ==
    IF offered = << >> THEN current ELSE offered[1].ip

(* Enter at the first prompt: the configured address, else number 1, else, *)
(* where nothing is offered, no address.                                   *)
EnterTakes(current, offered) ==
    IF current # None \/ offered = << >> THEN current ELSE offered[1].ip

(* The MAC address that comes with an address: that of the device on the   *)
(* list, or what the neighbour table has.                                  *)
MacsOf(ip, lan) ==
    IF \E c \in Candidates(lan) : c.ip = ip
    THEN {Candidate(ip, lan[ip]).mac} ELSE {None, ip}

(* What the prompt may return over one network.  The user picks or types   *)
(* an address, or presses Enter.  How is history: "kept" is Enter with an  *)
(* address configured; of the others "misled" is one that took no          *)
(* confirmed device although the scan met one.                             *)
Chosen(current, lan) ==
    LET enter     == EnterTakes(current, Discover(lan))
        confirmed == {c.ip : c \in {d \in Candidates(lan) : d.webos}}
        how       == IF current # None THEN "kept"
                     ELSE IF confirmed = {} \/ enter \in confirmed THEN "enter" ELSE "misled"
        Made(ip, by) == {[ip |-> ip, mac |-> mac, how |-> by] : mac \in MacsOf(ip, lan)}
    IN  Made(enter, how) \cup UNION {Made(ip, "typed") : ip \in Hosts}

Choices == [current \in Hosts \cup {None} |->
                UNION {Chosen(current, lan) : lan \in [Hosts -> Answers]}]

(* (A host that is no TV may be chosen as well; pairing fails then.)       *)
Choose ==
    /\ kind[Cli] = "setup"
    /\ Step(Cli, "loaded", "askMac")
    /\ \E choice \in Choices[cfg[Cli].ip] : choice.ip # None /\ pick' = choice
    /\ UNCHANGED <<files, tvs, kind, cfg, ckey, history>>

(* "An IP address is required."                                            *)
ChoosesNone ==
    /\ kind[Cli] = "setup" /\ pc[Cli] = "loaded"
    /\ \E choice \in Choices[cfg[Cli].ip] : choice.ip = None
    /\ Exit(Cli, "idle")
    /\ UNCHANGED <<files, tvs, history>>

(* Enter takes what is offered.                                            *)
AnswersMac ==
    /\ Step(Cli, "askMac", "write")
    /\ \E mac \in {Offered(now) : now \in {None, pick.ip}} \cup {pick.ip} :
         cfg' = [cfg EXCEPT ![Cli] = [ip |-> pick.ip, mac |-> mac]]
    /\ pick' = [NoPick EXCEPT !.how = pick.how]
    /\ UNCHANGED <<files, tvs, kind, ckey, history>>

AsksToPair ==
    \/ MakeClient(Cli, "askPair", "connect")
    \/ /\ pc[Cli] = "askPair" /\ key # NoKey
       /\ Exit(Cli, "install")
       /\ UNCHANGED <<files, tvs, history>>

(* _cmd_pair after the handshake: a missing MAC address is filled in.      *)
FillsMac ==
    /\ pc[Cli] = "paired"
    /\ \/ /\ cfg[Cli].mac = None
          /\ Step(Cli, "paired", "fill")
          /\ cfg' = [cfg EXCEPT ![Cli].mac = cfg[Cli].ip]
       \/ Step(Cli, "paired", "wol") /\ UNCHANGED cfg
    /\ UNCHANGED <<files, tvs, kind, ckey, pick, history>>

(* enable_tv_wol: what is not a WebOsError ends the command here, so setup *)
(* gets no further.                                                        *)
EnablesWol ==
    /\ pc[Cli] = "wol"
    /\ Exit(Cli, "idle") \/ (kind[Cli] = "setup" /\ Exit(Cli, "install"))
    /\ UNCHANGED <<files, tvs, history>>

-----------------------------------------------------------------------------
(* service.py and systemd.                                                 *)

(* The last question of setup, or `service install' on its own.  enable    *)
(* --now starts a service that is not running; it leaves one that is       *)
(* running alone, with the Config and the key it was started with.         *)
Install ==
    /\ pc[Cli] \in {"install", "idle"}
    /\ enabled' = TRUE
    /\ pc' = [pc EXCEPT ![Cli] = "idle",
                        ![Daemon] = IF @ = "idle" THEN "load" ELSE @]
    /\ UNCHANGED <<yaml, legacy, named, key, tvs, kind, cfg, ckey, pick, history>>

(* Declined, or systemctl fails; setup ends well all the same.             *)
InstallsNot ==
    /\ pc[Cli] = "install"
    /\ Exit(Cli, "idle")
    /\ UNCHANGED <<files, tvs, history>>

(* Mutant of Restarts: without Restart=on-failure.                         *)
RestartsNever == FALSE /\ UNCHANGED vars

Restarts ==
    /\ Step(Daemon, "failed", "load")
    /\ UNCHANGED <<files, tvs, kind, cfg, ckey, pick, history>>

Login ==
    /\ enabled
    /\ Step(Daemon, "idle", "load")
    /\ UNCHANGED <<files, tvs, kind, cfg, ckey, pick, history>>

(* A kill between the two steps of a save loses what was saved before; a   *)
(* migration still has the old file, unless another one was at work too.   *)
Tears(p) ==
    \/ pc[p] \in {"writing", "filling"}
    \/ pc[p] = "migrating" /\ "overlap" \in history

(* A daemon killed in the midst of saving its key leaves none, also where  *)
(* a command has just saved one.                                           *)
Dies(p, to) ==
    /\ history' = history \cup (IF Tears(p) THEN {"torn"} ELSE {}) \cup
         (IF p = Daemon /\ pc[p] = "savingkey" /\ Pairing THEN {"crossed"} ELSE {})
    /\ Exit(p, to)

Interrupted ==
    /\ pc[Cli] # "idle"
    /\ Dies(Cli, "idle")
    /\ UNCHANGED <<files, tvs>>

(* An error that nothing catches ends the daemon, not within these saves.  *)
Crashes ==
    /\ pc[Daemon] = "active"
    /\ Dies(Daemon, "failed")
    /\ UNCHANGED <<files, tvs>>

(* The session ends, the user restarts the service from a terminal, or     *)
(* remove() disables it: systemd stops the daemon with a signal that it    *)
(* does not handle, whatever a command is doing meanwhile.                 *)
Stops(still) ==
    /\ pc[Daemon] # "idle"
    /\ enabled' = still
    /\ Dies(Daemon, "idle")
    /\ UNCHANGED <<yaml, legacy, named, key, tvs>>

SessionEnds    == Stops(enabled)
RemovesService == Stops(FALSE)

-----------------------------------------------------------------------------
FileStep(p) == \/ Load(p) \/ Truncate(p) \/ Write(p) \/ Unlink(p)
               \/ Refused(p) \/ Connects(p) \/ TruncateKey(p) \/ WriteKey(p)

Next ==
    \/ \E c \in Commands : Start(c)
    \/ \E p \in Procs : FileStep(p) \/ Handshake(p)
    \/ HandshakeFails \/ KeepsConfig \/ Choose \/ ChoosesNone
    \/ AnswersMac \/ AsksToPair \/ FillsMac \/ EnablesWol
    \/ Install \/ InstallsNot \/ Restarts \/ Login \/ Crashes \/ Interrupted
    \/ SessionEnds \/ RemovesService
    \/ \E h \in Tvs : Forgets(h)

(* The daemon runs, and systemd restarts it; the user owes nobody a step.  *)
SetupSpec ==
    /\ Init /\ [][Next]_vars
    /\ WF_vars(FileStep(Daemon)) /\ WF_vars(Restarts)

-----------------------------------------------------------------------------
(* config.py:86-88: a Config that was on disk once is lost only by a kill  *)
(* in the midst of a save over it, or by another save at the same time.  A *)
(* kill during the migration alone loses nothing, whatever it hits.        *)
SettingsKept ==
    "configured" \in history /\ "torn" \notin history =>
        yaml \in Config \/ legacy # NoFile \/ \E p \in Procs : pc[p] \in Saving

(* __main__.py:166, "Paired. Key saved.": from there until setup asks on   *)
(* the key on file is one the TV accepts, or the daemon is replacing it;   *)
(* unless the daemon, which serves the TV it was started for, saved the    *)
(* key of another TV meanwhile, or was killed while it saved one.          *)
PairedKeyKept ==
    /\ Pairing /\ pc[Cli] \notin {"connect", "savekey", "savingkey"}
    /\ "crossed" \notin history
    => key \in trusted[cfg[Cli].ip] \/ pc[Daemon] = "savingkey"

(* __main__.py:61, `current_ip or "1"', and discover.py:166, "confirmed    *)
(* ones first": config.yaml comes to name another TV only where the user   *)
(* picked or typed one, or pressed Enter when no TV was configured, and    *)
(* then a confirmed one if the scan met any.  No migration, no filling in  *)
(* of a MAC address and no Enter in a later setup points it at another TV, *)
(* except where a command and the daemon migrated at once, or the command  *)
(* read a config.yaml without content, and so took the TV for unconfigured.*)
TvAsChosen ==
    [][named' # named =>
         \/ {"overlap", "blank"} \cap history # {}
         \/ /\ pc[Cli] = "writing" /\ pc'[Cli] = "askPair"
            /\ pick.how = "typed" \/ (named = None /\ pick.how = "enter")]_vars

(* The service's Restart=on-failure: when it stays wanted and config.yaml  *)
(* stays usable it runs again and again, whatever was killed, cut short or *)
(* read while half written before.                                         *)
ServiceSettles ==
    <>[](pc[Daemon] # "idle" /\ yaml \in Config) => []<>(pc[Daemon] \in Serving)

-----------------------------------------------------------------------------
(* src/INSTALL.md:135: setup "Fills in the MAC address from the device     *)
(* you picked - press Enter to accept".                                    *)
OffersPickedMac ==
    pc[Cli] = "askMac" /\ pick.mac # None =>
        \A now \in {None, pick.ip} : Offered(now) = pick.mac
=============================================================================
