---------------------------- MODULE SetupProofs ----------------------------
(***************************************************************************)
(* What holds of the files for any hosts, any number of pairings and any   *)
(* order of the commands, the daemon and the kills.                        *)
(*                                                                         *)
(* SettingsKept needs that a migration still has the file it migrates      *)
(* (Sourced) until it removes it, and that it removes it only when         *)
(* config.yaml is there or being saved (Replaced); two migrations at once  *)
(* could break both, so that they are noticed (Noticed) comes with it.     *)
(*                                                                         *)
(* PairedKeyKept needs that a key being saved is one the TV has accepted   *)
(* (Accepted), and that what a command presents to its TV is still the key *)
(* on file when it presents it (Presents).                                 *)
(*                                                                         *)
(* TvAsChosen needs to know whose address everybody holds who may still    *)
(* save (Holds), that a daemon which migrates does so before a command     *)
(* gets to read the file (Alone), and what Enter takes: the list of the    *)
(* scan is sorted (ScanOffers), because the place of each host, counted    *)
(* from those before it, meets each number once.                           *)
(***************************************************************************)
EXTENDS Setup, FiniteSetTheorems, TLAPS

(* The list of the scan, whatever the hosts answer.                        *)

(* What the scan met has the address of the host that answered, and one    *)
(* candidate an address.                                                   *)
LEMMA FoundHosts ==
    ASSUME NEW lan \in [Hosts -> Answers]
    PROVE  /\ \A c \in Candidates(lan) : /\ c.ip \in Hosts /\ c.webos \in BOOLEAN
                                         /\ c = Candidate(c.ip, lan[c.ip])
           /\ IsFiniteSet(Candidates(lan))
<1>1. ASSUME NEW c \in Candidates(lan)
      PROVE  /\ c.ip \in Hosts /\ c.webos \in BOOLEAN
             /\ c = Candidate(c.ip, lan[c.ip])
  <2>1. PICK ip \in Hosts : c = Candidate(ip, lan[ip])
      BY DEF Candidates
  <2> QED
      BY <2>1 DEF Candidate
<1> DEFINE At == [c \in Candidates(lan) |-> c.ip]
<1>2. At \in Injection(Candidates(lan), Hosts)
    BY <1>1 DEF Injection, IsInjective
<1>3. IsFiniteSet(Candidates(lan))
    BY <1>2, FS_Injection, SetupAssumption
<1> QED
    BY <1>1, <1>3

(* The sort key orders the candidates, and tells any two of them apart.    *)
LEMMA InOrder ==
    ASSUME NEW lan \in [Hosts -> Answers]
    PROVE  /\ \A c \in Candidates(lan) : ~ Before(c, c)
           /\ \A c, d \in Candidates(lan) : c # d => Before(c, d) \/ Before(d, c)
           /\ \A c, d, e \in Candidates(lan) :
                 Before(c, d) /\ Before(d, e) => Before(c, e)
<1>1. \A c \in Candidates(lan) : c.ip \in Nat /\ c.webos \in BOOLEAN
    BY FoundHosts, SetupAssumption
<1>2. ASSUME NEW c \in Candidates(lan), NEW d \in Candidates(lan), c # d
      PROVE  c.ip < d.ip \/ d.ip < c.ip
    BY <1>1, <1>2, FoundHosts
<1>3. \A c, d \in Candidates(lan) : c # d => Before(c, d) \/ Before(d, c)
    BY <1>1, <1>2 DEF Before
<1>4. \A c, d, e \in Candidates(lan) : Before(c, d) /\ Before(d, e) => Before(c, e)
    BY <1>1 DEF Before
<1> QED
    BY <1>1, <1>3, <1>4 DEF Before

(* Every candidate has a place on the list, and one that comes before      *)
(* another has a smaller one.                                              *)
LEMMA PlaceOf ==
    ASSUME NEW lan \in [Hosts -> Answers]
    PROVE  LET found == Candidates(lan)
           IN  /\ Cardinality(found) \in Nat
               /\ \A c \in found : Place(c, found) \in 1..Cardinality(found)
               /\ \A c, d \in found : Before(c, d) => Place(c, found) < Place(d, found)
<1> DEFINE found    == Candidates(lan)
           Above(c) == {d \in found : Before(d, c)}
<1>1. IsFiniteSet(found) /\ Cardinality(found) \in Nat
    BY FoundHosts, FS_CardinalityType
<1>2. ASSUME NEW c \in found
      PROVE  IsFiniteSet(Above(c)) /\ Cardinality(Above(c)) \in 0..(Cardinality(found) - 1)
  <2>1. /\ IsFiniteSet(Above(c)) /\ Cardinality(Above(c)) <= Cardinality(found)
        /\ Cardinality(Above(c)) = Cardinality(found) => Above(c) = found
      BY <1>1, FS_Subset
  <2>2. Above(c) # found
      BY InOrder
  <2>3. Cardinality(Above(c)) \in Nat
      BY <2>1, FS_CardinalityType
  <2> QED
      BY <1>1, <2>1, <2>2, <2>3
<1>3. ASSUME NEW c \in found, NEW d \in found, Before(c, d)
      PROVE  Cardinality(Above(c)) < Cardinality(Above(d))
  <2>1. Above(c) \in SUBSET Above(d)
      BY <1>3, InOrder
  <2>2. Above(c) # Above(d)
      BY <1>3, InOrder
  <2>3. /\ Cardinality(Above(c)) <= Cardinality(Above(d))
        /\ Cardinality(Above(d)) = Cardinality(Above(c)) => Above(d) = Above(c)
      BY <1>2, <2>1, FS_Subset
  <2> QED
      BY <1>2, <2>2, <2>3
<1>4. \A c \in found : Place(c, found) = Cardinality(Above(c)) + 1
    BY DEF Place
<1> HIDE DEF found, Above
<1>5. \A c \in found : Place(c, found) \in 1..Cardinality(found)
    BY <1>1, <1>2, <1>4
<1>6. ASSUME NEW c \in found, NEW d \in found, Before(c, d)
      PROVE  Place(c, found) < Place(d, found)
    BY <1>2, <1>3, <1>4, <1>6
<1> QED
    BY <1>1, <1>5, <1>6 DEF found

(* The list holds every candidate, each at its own place.                  *)
LEMMA Sorted ==
    ASSUME NEW lan \in [Hosts -> Answers]
    PROVE  LET found == Candidates(lan)
           IN  /\ DOMAIN Discover(lan) = 1..Cardinality(found)
               /\ \A i \in 1..Cardinality(found) :
                     /\ Discover(lan)[i] \in found
                     /\ Place(Discover(lan)[i], found) = i
               /\ \A c \in found : Discover(lan)[Place(c, found)] = c
<1> DEFINE found == Candidates(lan)
           n     == Cardinality(found)
           At    == [c \in found |-> Place(c, found)]
<1>1. n \in Nat /\ IsFiniteSet(found) /\ \A c \in found : Place(c, found) \in 1..n
    BY PlaceOf, FoundHosts
<1>2. \A c, d \in found : Place(c, found) = Place(d, found) => c = d
    BY <1>1, InOrder, PlaceOf
<1>3. At \in Injection(found, 1..n)
    BY <1>1, <1>2 DEF Injection, IsInjective
<1>4. IsFiniteSet(1..n) /\ Cardinality(1..n) = n
    BY <1>1, FS_Interval
<1>5. At \in Surjection(found, 1..n)
    BY <1>3, <1>4, FS_Injection
<1>6. \A i \in 1..n : \E c \in found : Place(c, found) = i
    BY <1>5 DEF Surjection
<1>7. /\ DOMAIN Discover(lan) = 1..n
      /\ \A i \in 1..n : Discover(lan)[i] = CHOOSE c \in found : Place(c, found) = i
    BY DEF Discover
<1>8. \A i \in 1..n : Discover(lan)[i] \in found /\ Place(Discover(lan)[i], found) = i
    BY <1>6, <1>7
<1>9. \A c \in found : Discover(lan)[Place(c, found)] = c
    BY <1>1, <1>2, <1>8
<1> QED
    BY <1>7, <1>8, <1>9

(* discover.py:166, "likely TVs, WebOS-confirmed ones first".              *)
ScanOffersTvs ==
    \A lan \in [Hosts -> Answers] :
        LET offered == Discover(lan)
            At(ip)  == {i \in DOMAIN offered : offered[i].ip = ip}
        IN  /\ \A ip \in Hosts : Cardinality(At(ip)) <= 1
            /\ \A tv \in Tvs :
                 lan[tv].ssdp \/ (lan[tv].arp /\ lan[tv].open # {}) => At(tv) # {}
            /\ \A i \in DOMAIN offered : offered[i].webos => offered[1].webos

(* Whatever the hosts answer, every TV that answered the search, or was a  *)
(* neighbour with an open port, is on the list, and no host is on it       *)
(* twice; where a host of the list is confirmed, the first one is.         *)
THEOREM ScanOffers == ScanOffersTvs
<1> SUFFICES ASSUME NEW lan \in [Hosts -> Answers]
             PROVE  LET offered == Discover(lan)
                        At(ip)  == {i \in DOMAIN offered : offered[i].ip = ip}
                    IN  /\ \A ip \in Hosts : Cardinality(At(ip)) <= 1
                        /\ \A tv \in Tvs :
                             lan[tv].ssdp \/ (lan[tv].arp /\ lan[tv].open # {})
                               => At(tv) # {}
                        /\ \A i \in DOMAIN offered :
                             offered[i].webos => offered[1].webos
    BY DEF ScanOffersTvs
<1> DEFINE found   == Candidates(lan)
           n       == Cardinality(found)
           offered == Discover(lan)
           At(ip)  == {i \in DOMAIN offered : offered[i].ip = ip}
<1>1. n \in Nat /\ DOMAIN offered = 1..n
    BY PlaceOf, Sorted
<1>2. \A i \in 1..n : offered[i] \in found /\ Place(offered[i], found) = i
    BY Sorted
<1>3. ASSUME NEW ip \in Hosts PROVE Cardinality(At(ip)) <= 1
  <2>1. ASSUME NEW i \in At(ip), NEW j \in At(ip) PROVE i = j
    <3>1. i \in 1..n /\ j \in 1..n /\ offered[i].ip = ip /\ offered[j].ip = ip
        BY <1>1
    <3>2. offered[i] = offered[j]
        BY <3>1, <1>2, FoundHosts
    <3> QED
        BY <3>1, <3>2, <1>2
  <2>2. CASE At(ip) = {}
    <3>1. \A S : S = {} => Cardinality(S) = 0
        BY FS_EmptySet
    <3>2. Cardinality(At(ip)) = 0
        BY <2>2, <3>1, Zenon
    <3> QED
        BY <3>2
  <2>3. CASE At(ip) # {}
    <3>1. PICK i : At(ip) = {i}
        BY <2>1, <2>3
    <3>2. Cardinality({i}) = 1
        BY FS_Singleton
    <3> QED
        BY <3>1, <3>2
  <2> QED
      BY <2>2, <2>3
<1>4. ASSUME NEW tv \in Tvs, lan[tv].ssdp \/ (lan[tv].arp /\ lan[tv].open # {})
      PROVE  At(tv) # {}
  <2> DEFINE c == Candidate(tv, lan[tv])
  <2>1. tv \in Hosts /\ tv \in DOMAIN lan /\ lan[tv] \in Answer
      BY SetupAssumption
  <2>2. lan[tv].open # {} => OpenSsapPort(lan[tv]) # None
      BY <2>1 DEF Answer, OpenSsapPort, None
  <2>3. c \in found
    <3>1. c.webos \/ c.ssap_port # None
        BY <1>4, <2>2 DEF Candidate
    <3>2. lan[tv].ssdp \/ (lan[tv].arp /\ OpenSsapPort(lan[tv]) # None)
        BY <1>4, <2>2
    <3> QED
        BY <2>1, <3>1, <3>2 DEF Candidates
  <2>4. offered[Place(c, found)] = c /\ Place(c, found) \in 1..n
      BY <2>3, PlaceOf, Sorted
  <2>5. c.ip = tv
      BY DEF Candidate
  <2> QED
      BY <1>1, <2>4, <2>5
<1>5. ASSUME NEW i \in DOMAIN offered, offered[i].webos
      PROVE  offered[1].webos
  <2>1. 1 \in 1..n /\ i \in 1..n
      BY <1>1
  <2>2. /\ offered[1] \in found /\ Place(offered[1], found) = 1
        /\ offered[i] \in found /\ Place(offered[i], found) = i
      BY <1>2, <2>1
  <2>3. ~ Before(offered[i], offered[1])
      BY <2>1, <2>2, PlaceOf
  <2> QED
      BY <1>5, <2>3 DEF Before
<1> QED
    BY <1>3, <1>4, <1>5

(* What Enter takes: the address that is configured, or a host of the list *)
(* that is confirmed if the scan met any such, or no address.              *)
LEMMA EnterIs ==
    ASSUME NEW current \in Hosts \cup {None}, NEW lan \in [Hosts -> Answers]
    PROVE  LET enter == EnterTakes(current, Discover(lan))
           IN  /\ enter \in Hosts \cup {None}
               /\ current # None => enter = current
               /\ (\E c \in Candidates(lan) : c.webos) /\ current = None =>
                    \E c \in Candidates(lan) : c.webos /\ c.ip = enter
<1> DEFINE found   == Candidates(lan)
           offered == Discover(lan)
           enter   == EnterTakes(current, offered)
<1>1. /\ Cardinality(found) \in Nat /\ DOMAIN offered = 1..Cardinality(found)
      /\ \A i \in 1..Cardinality(found) : offered[i] \in found
      /\ \A c \in found : /\ Place(c, found) \in 1..Cardinality(found)
                          /\ offered[Place(c, found)] = c
    BY PlaceOf, Sorted
<1>2. CASE current # None
    BY <1>2 DEF EnterTakes
<1>3. CASE current = None /\ offered = << >>
  <2>1. 1..Cardinality(found) = {}
    BY <1>1, <1>3
  <2> QED
    BY <1>1, <1>3, <2>1 DEF EnterTakes
<1>4. CASE current = None /\ offered # << >>
  <2>1. enter = offered[1].ip
    BY <1>4 DEF EnterTakes
  <2>2. 1 \in 1..Cardinality(found)
    <3>1. CASE Cardinality(found) = 0
        BY <3>1, <1>1, <1>4 DEF Discover
    <3> QED
        BY <3>1, <1>1
  <2>3. offered[1] \in found /\ offered[1].ip \in Hosts
    BY <1>1, <2>2, FoundHosts
  <2>4. ASSUME NEW c \in found, c.webos PROVE offered[1].webos
    BY <2>4, <1>1, ScanOffers DEF ScanOffersTvs
  <2> QED
    BY <1>4, <2>1, <2>3, <2>4
<1> QED
    BY <1>2, <1>3, <1>4

(* What pick may be.                                                       *)
Picks == [ip : Hosts \cup {None}, mac : Hosts \cup {None},
          how : {"none", "typed", "kept", "enter", "misled"}]

(* What the prompt for the TV may return when current is configured.       *)
LEMMA ChoicesAre ==
    ASSUME NEW current \in Hosts \cup {None}, NEW choice \in Choices[current]
    PROVE  /\ choice \in Picks
           /\ \/ choice.how = "typed"
              \/ choice.how = "kept" /\ choice.ip = current
              \/ choice.how = "enter" /\ current = None
<1>1. PICK lan \in [Hosts -> Answers] : choice \in Chosen(current, lan)
    BY DEF Choices
<1> DEFINE enter == EnterTakes(current, Discover(lan))
           confirmed == {c.ip : c \in {d \in Candidates(lan) : d.webos}}
           how == IF current # None THEN "kept"
                  ELSE IF confirmed = {} \/ enter \in confirmed THEN "enter" ELSE "misled"
<1>2. /\ how \in {"kept", "enter"} /\ (how = "kept" => enter = current)
      /\ (how = "enter" => current = None) /\ enter \in Hosts \cup {None}
  <2>1. /\ enter \in Hosts \cup {None} /\ (current # None => enter = current)
        /\ (\E c \in Candidates(lan) : c.webos) /\ current = None =>
             \E c \in Candidates(lan) : c.webos /\ c.ip = enter
    BY EnterIs
  <2> HIDE DEF enter
  <2>2. current = None => confirmed = {} \/ enter \in confirmed
    BY <2>1
  <2> QED
    BY <2>1, <2>2
<1>3. \E ip \in Hosts \cup {None}, mac \in MacsOf(choice.ip, lan) :
         /\ choice \in {[ip |-> ip, mac |-> mac, how |-> "typed"],
                        [ip |-> enter, mac |-> mac, how |-> how]}
    BY <1>1, <1>2 DEF Chosen
<1>4. choice.ip \in Hosts \cup {None}
    BY <1>2, <1>3
<1>5. MacsOf(choice.ip, lan) \subseteq Hosts \cup {None}
  <2>1. CASE \E c \in Candidates(lan) : c.ip = choice.ip
    <3>1. choice.ip \in Hosts
        BY <2>1, FoundHosts
    <3> QED
        BY <2>1, <3>1 DEF MacsOf, Candidate
  <2>2. CASE ~ \E c \in Candidates(lan) : c.ip = choice.ip
    BY <2>2, <1>4 DEF MacsOf
  <2> QED
    BY <2>1, <2>2
<1> HIDE DEF enter, how
<1> QED
    BY <1>2, <1>3, <1>5 DEF Picks

-----------------------------------------------------------------------------
(* The saves of a Config, written out.                                     *)
LEMMA Saves ==
    /\ DOMAIN Truncated = {"migrate", "write", "fill"}
    /\ Saving = {"migrating", "writing", "filling"}
    /\ Truncated["migrate"] = "migrating" /\ Truncated["write"] = "writing"
    /\ Truncated["fill"] = "filling"
    /\ Written["migrating"] = "unlink" /\ Written["writing"] = "askPair"
    /\ Written["filling"] = "wol"
BY DEF Truncated, Written, Saving

Places == {"idle", "failed", "load", "loaded", "askMac", "connect", "paired", "install",
           "active", "savekey", "savingkey", "migrate", "migrating", "unlink",
           "write", "fill", "writing", "filling", "askPair", "wol"}

(* Where a process can be.                                                 *)
LEMMA PlacesAre ==
    {"idle", "failed", "load", "loaded", "askMac", "connect", "paired", "install"}
      \cup Serving \cup Migration
      \cup DOMAIN Truncated \cup Saving \cup {Written[s] : s \in Saving} = Places
<1>1. {Written[s] : s \in Saving} = {"unlink", "askPair", "wol"}
    BY Saves
<1> QED
    BY <1>1, Saves DEF Places, Serving, Migration

-----------------------------------------------------------------------------
(* TypeOK with the places written out.                                     *)
DataOK ==
    /\ yaml \in Config \cup {NoFile, Empty, Mixed} /\ named \in Hosts \cup {None}
    /\ legacy \in Config \cup {NoFile}
    /\ key \in Keys \cup {NoKey} /\ enabled \in BOOLEAN
    /\ trusted \in [Hosts -> SUBSET Keys] /\ issued \in 0..MaxKeys
    /\ \A h \in Hosts : \A k \in trusted[h] : k <= issued
    /\ kind \in [Procs -> Commands \cup {"run"}]
    /\ cfg \in [Procs -> Config] /\ ckey \in [Procs -> Keys \cup {NoKey}]
    /\ pick \in Picks
    /\ history \subseteq {"configured", "torn", "overlap", "blank", "crossed"}

(* TypeOK is the types of the data and the places of the processes.        *)
LEMMA Typed == /\ TypeOK <=> DataOK /\ pc \in [Procs -> Places]
               /\ TypeOK' <=> DataOK' /\ pc' \in [Procs -> Places]
BY PlacesAre DEF TypeOK, DataOK, Picks

(* A process that ends, or fails, forgets.                                 *)
LEMMA Exited ==
    ASSUME DataOK, pc \in [Procs -> Places], NEW p \in Procs, NEW to \in Places,
           Exit(p, to)
    PROVE  /\ pc' \in [Procs -> Places]
           /\ pc'[p] = to /\ \A q \in Procs \ {p} : pc'[q] = pc[q]
           /\ kind' \in [Procs -> Commands \cup {"run"}]
           /\ cfg' \in [Procs -> Config] /\ ckey' \in [Procs -> Keys \cup {NoKey}]
           /\ pick' \in Picks
           /\ \A q \in Procs \ {p} : cfg'[q] = cfg[q] /\ ckey'[q] = ckey[q]
BY DEF Exit, DataOK, Config, Default, NoPick, Picks, Commands

(* TypeOK holds of every set of files the service may find.                *)
LEMMA TypeInit == Init => TypeOK
<1> SUFFICES ASSUME Init PROVE DataOK /\ pc \in [Procs -> Places]
    BY Typed
<1>1. pc \in [Procs -> Places]
    BY DEF Init, Places
<1>2. /\ yaml \in Config \cup {NoFile, Empty, Mixed} /\ legacy \in Config \cup {NoFile}
      /\ named \in Hosts \cup {None} /\ enabled \in BOOLEAN /\ history \subseteq {"configured", "torn", "overlap", "blank", "crossed"}
  <2>1. Old \in Hosts /\ [ip |-> Old, mac |-> Old] \in Config
    BY SetupAssumption DEF Config
  <2> QED
    BY <2>1 DEF Init
<1>3. /\ trusted \in [Hosts -> SUBSET Keys] /\ issued \in 0..MaxKeys
      /\ \A h \in Hosts : \A k \in trusted[h] : k <= issued
    BY SetupAssumption DEF Init
<1>4. /\ kind \in [Procs -> Commands \cup {"run"}]
      /\ cfg \in [Procs -> Config] /\ ckey \in [Procs -> Keys \cup {NoKey}]
      /\ pick \in Picks
    BY DEF Init, Config, Default, NoPick, Picks, Commands
<1> QED
    BY <1>1, <1>2, <1>3, <1>4 DEF DataOK, Init

(* TypeOK is kept by every step.                                           *)
LEMMA TypeStep == TypeOK /\ [Next]_vars => TypeOK'
<1> SUFFICES ASSUME TypeOK, [Next]_vars PROVE TypeOK'
    OBVIOUS
<1>t. DataOK /\ pc \in [Procs -> Places]
    BY Typed
<1>c. Cli \in Procs /\ Daemon \in Procs
    BY DEF Procs
<1> SUFFICES DataOK' /\ pc' \in [Procs -> Places]
    BY Typed
<1>1. ASSUME NEW p \in Procs, Load(p) PROVE DataOK' /\ pc' \in [Procs -> Places]
  <2>1. pc' \in [Procs -> Places]
    BY <1>1, <1>t DEF Load, Step, Places
  <2>2. cfg' \in [Procs -> Config]
    BY <1>1, <1>t DEF Load, Parsed, DataOK, Config, Default
  <2> QED
    BY <1>1, <1>t, <2>1, <2>2 DEF Load, DataOK, files, tvs
<1>2. ASSUME NEW p \in Procs, Truncate(p)
      PROVE  DataOK' /\ pc' \in [Procs -> Places]
  <2>1. pc' \in [Procs -> Places]
    BY <1>2, <1>t, Saves DEF Truncate, Step, Places
  <2> QED
    BY <1>2, <1>t, <2>1 DEF Truncate, DataOK, tvs
<1>3. ASSUME NEW p \in Procs, Write(p)
      PROVE  DataOK' /\ pc' \in [Procs -> Places]
  <2>1. pc' \in [Procs -> Places]
    BY <1>3, <1>t, Saves DEF Write, Step, Places
  <2>2. cfg[p] \in Config /\ cfg[p].ip \in Hosts \cup {None}
    BY <1>t DEF DataOK, Config
  <2>3. pick' \in Picks
    BY <1>3, <1>t DEF Write, DataOK, NoPick, Picks
  <2> QED
    BY <1>3, <1>t, <2>1, <2>2, <2>3 DEF Write, DataOK, tvs
<1>4. ASSUME NEW p \in Procs, Unlink(p)
      PROVE  DataOK' /\ pc' \in [Procs -> Places]
  <2>1. pc' \in [Procs -> Places]
    BY <1>4, <1>t DEF Unlink, Step, Places
  <2> QED
    BY <1>4, <1>t, <2>1 DEF Unlink, DataOK, tvs
<1>5. ASSUME NEW c \in Commands, Start(c)
      PROVE  DataOK' /\ pc' \in [Procs -> Places]
  <2>1. pc' \in [Procs -> Places]
    BY <1>5, <1>t, <1>c DEF Start, Step, Places
  <2> QED
    BY <1>5, <1>t, <1>c, <2>1 DEF Start, DataOK, tvs, files
<1>6. ASSUME NEW p \in Procs, Refused(p)
      PROVE  DataOK' /\ pc' \in [Procs -> Places]
  <2>1. \E to \in Places : Exit(p, to)
    BY <1>6 DEF Refused, Places
  <2> QED
    BY <1>6, <1>t, <2>1, Exited DEF Refused, DataOK, tvs, files
<1>7. ASSUME NEW p \in Procs, Connects(p)
      PROVE  DataOK' /\ pc' \in [Procs -> Places]
  <2>1. pc' \in [Procs -> Places]
    BY <1>7, <1>t DEF Connects, MakeClient, Step, Places
  <2> QED
    BY <1>7, <1>t, <2>1 DEF Connects, MakeClient, DataOK, tvs, files
<1>8. ASSUME NEW p \in Procs, Handshake(p)
      PROVE  DataOK' /\ pc' \in [Procs -> Places]
  <2>1. /\ pc' \in [Procs -> Places] /\ kind' \in [Procs -> Commands \cup {"run"}]
        /\ cfg' \in [Procs -> Config] /\ pick' \in Picks
        /\ UNCHANGED <<yaml, legacy, named, key, enabled, history>>
    <3>1. "idle" \in Places /\ Exit(p, "idle") => /\ pc' \in [Procs -> Places]
                                              /\ kind' \in [Procs -> Commands \cup {"run"}]
                                              /\ cfg' \in [Procs -> Config]
                                              /\ pick' \in Picks
        BY <1>t, Exited
    <3> QED
        BY <1>8, <1>t, <3>1 DEF Handshake, Step, Places, DataOK, files
  <2>2. CASE Known(p)
    <3>1. ckey' \in [Procs -> Keys \cup {NoKey}]
      <4>1. Exit(p, "idle") \/ UNCHANGED ckey
        BY <1>8, <2>2 DEF Handshake, Known, Grants
      <4> QED
        BY <4>1, <1>t DEF Exit, DataOK
    <3> QED
        BY <2>1, <2>2, <3>1, <1>t DEF Known, DataOK, tvs
  <2>3. CASE Grants(p)
    <3>1. cfg[p].ip \in Hosts
        BY <1>8, SetupAssumption DEF Handshake
    <3>2. issued' = issued + 1 /\ issued' \in Keys
        BY <2>3, <1>t, SetupAssumption DEF Grants, DataOK, Keys
    <3>3. trusted' = [trusted EXCEPT ![cfg[p].ip] = @ \cup {issued'}]
        BY <2>3 DEF Grants
    <3>4. trusted' \in [Hosts -> SUBSET Keys]
        BY <3>1, <3>2, <3>3, <1>t DEF DataOK
    <3>5. \A h \in Hosts : \A k \in trusted'[h] : k = issued' \/ k \in trusted[h]
        BY <3>1, <3>3, <1>t DEF DataOK
    <3>6. \A h \in Hosts : \A k \in trusted'[h] : k <= issued'
      <4> SUFFICES ASSUME NEW h \in Hosts, NEW k \in trusted'[h] PROVE k <= issued'
        OBVIOUS
      <4>1. CASE k = issued'
        BY <4>1, <3>2, SetupAssumption DEF Keys
      <4>2. CASE k \in trusted[h]
        <5>1. k \in Keys /\ k <= issued /\ issued \in 0..MaxKeys
            BY <4>2, <1>t DEF DataOK
        <5> QED
            BY <5>1, <3>2, SetupAssumption DEF Keys
      <4> QED
        BY <4>1, <4>2, <3>5
    <3>7. ckey' \in [Procs -> Keys \cup {NoKey}]
      <4>1. \/ ckey' = [ckey EXCEPT ![p] = issued + 1]
            \/ ckey' = [ckey EXCEPT ![p] = NoKey]
            \/ UNCHANGED ckey
        BY <1>8 DEF Handshake, KeyReceived, Exit
      <4> QED
        BY <4>1, <3>2, <1>t DEF DataOK
    <3>8. issued' \in 0..MaxKeys
        BY <3>2, SetupAssumption DEF Keys
    <3> QED
        BY <2>1, <3>4, <3>6, <3>7, <3>8, <1>t DEF DataOK
  <2> QED
    BY <1>8, <2>2, <2>3 DEF Handshake
<1>9. ASSUME HandshakeFails PROVE DataOK' /\ pc' \in [Procs -> Places]
  <2>1. \E to \in Places : Exit(Cli, to)
    BY <1>9 DEF HandshakeFails, Places
  <2> QED
    BY <1>9, <1>t, <1>c, <2>1, Exited DEF HandshakeFails, DataOK, tvs, files
<1>10. ASSUME NEW p \in Procs, TruncateKey(p)
       PROVE  DataOK' /\ pc' \in [Procs -> Places]
  <2>1. pc' \in [Procs -> Places]
    BY <1>10, <1>t DEF TruncateKey, Step, Places
  <2> QED
    BY <1>10, <1>t, <2>1 DEF TruncateKey, DataOK, tvs
<1>11. ASSUME NEW p \in Procs, WriteKey(p)
       PROVE  DataOK' /\ pc' \in [Procs -> Places]
  <2>1. "idle" \in Places /\ key' = ckey[p] /\ UNCHANGED <<yaml, legacy, named, enabled, tvs>>
        /\ history' \subseteq {"configured", "torn", "overlap", "blank", "crossed"}
    BY <1>11, <1>t DEF WriteKey, Places, DataOK
  <2>2. CASE kind[p] = "use"
    <3>1. Exit(p, "idle")
        BY <1>11, <2>2 DEF WriteKey
    <3> QED
        BY <3>1, <1>t, <2>1, Exited DEF DataOK, tvs
  <2>3. CASE kind[p] # "use"
    <3>1. pc' \in [Procs -> Places]
        BY <1>11, <2>3, <1>t DEF WriteKey, Step, Places
    <3>2. UNCHANGED <<kind, cfg, ckey, pick>>
        BY <1>11, <2>3 DEF WriteKey
    <3> QED
        BY <3>1, <3>2, <1>t, <2>1 DEF DataOK, tvs
  <2> QED
    BY <2>2, <2>3
<1>12. ASSUME NEW h \in Tvs, Forgets(h)
       PROVE  DataOK' /\ pc' \in [Procs -> Places]
  <2>1. /\ trusted' \in [Hosts -> SUBSET Keys] /\ UNCHANGED <<files, issued, procs, history>>
        /\ \A g \in Hosts : trusted'[g] \subseteq trusted[g]
    BY <1>12, <1>t DEF Forgets, DataOK
  <2> QED
    BY <2>1, <1>t DEF DataOK, files, procs
<1>13. ASSUME KeepsConfig PROVE DataOK' /\ pc' \in [Procs -> Places]
  <2>1. pc' \in [Procs -> Places]
    BY <1>13, <1>t, <1>c DEF KeepsConfig, Step, Places
  <2> QED
    BY <1>13, <1>t, <1>c, <2>1 DEF KeepsConfig, DataOK, tvs, files
<1>14. ASSUME Choose \/ ChoosesNone PROVE DataOK' /\ pc' \in [Procs -> Places]
  <2>1. CASE Choose
    <3>1. pc' \in [Procs -> Places]
        BY <2>1, <1>t, <1>c DEF Choose, Step, Places
    <3>2. cfg[Cli].ip \in Hosts \cup {None} /\ pick' \in Choices[cfg[Cli].ip]
        BY <2>1, <1>t, <1>c DEF Choose, DataOK, Config
    <3>3. pick' \in Picks
        BY <3>2, ChoicesAre
    <3> QED
        BY <2>1, <1>t, <3>1, <3>3 DEF Choose, DataOK, tvs, files
  <2>2. CASE ChoosesNone
    <3>1. Exit(Cli, "idle") /\ "idle" \in Places
        BY <2>2 DEF ChoosesNone, Places
    <3> QED
        BY <2>2, <1>t, <1>c, <3>1, Exited DEF ChoosesNone, DataOK, tvs, files
  <2> QED
    BY <1>14, <2>1, <2>2
<1>15. ASSUME AnswersMac PROVE DataOK' /\ pc' \in [Procs -> Places]
  <2>1. pc' \in [Procs -> Places]
    BY <1>15, <1>t, <1>c DEF AnswersMac, Step, Places
  <2>2. \A now \in {None, pick.ip} : Offered(now) \in Hosts \cup {None}
    <3>1. \A old, found, now \in Hosts \cup {None} :
              OfferedMac(old, found, now) \in Hosts \cup {None}
        BY DEF OfferedMac
    <3>2. cfg[Cli].mac \in Hosts \cup {None} /\ pick.mac \in Hosts \cup {None}
          /\ pick.ip \in Hosts \cup {None}
        BY <1>t, <1>c DEF DataOK, Config, Picks
    <3> QED
        BY <3>1, <3>2 DEF Offered
  <2>3. cfg' \in [Procs -> Config]
    <3>1. PICK mac \in {Offered(now) : now \in {None, pick.ip}} \cup {pick.ip} :
              cfg' = [cfg EXCEPT ![Cli] = [ip |-> pick.ip, mac |-> mac]]
        BY <1>15 DEF AnswersMac
    <3>2. mac \in Hosts \cup {None} /\ pick.ip \in Hosts \cup {None}
        BY <2>2, <1>t DEF DataOK, Picks
    <3>3. [ip |-> pick.ip, mac |-> mac] \in Config
        BY <3>2 DEF Config
    <3>4. cfg \in [Procs -> Config]
        BY <1>t DEF DataOK
    <3> QED
        BY <3>1, <3>3, <3>4
  <2>4. pick' \in Picks
    BY <1>15, <1>t DEF AnswersMac, NoPick, DataOK, Picks
  <2> QED
    BY <1>15, <1>t, <2>1, <2>3, <2>4 DEF AnswersMac, DataOK, tvs, files
<1>16. ASSUME AsksToPair PROVE DataOK' /\ pc' \in [Procs -> Places]
  <2>1. CASE MakeClient(Cli, "askPair", "connect")
    <3>1. pc' \in [Procs -> Places]
        BY <2>1, <1>t, <1>c DEF MakeClient, Step, Places
    <3> QED
        BY <2>1, <3>1, <1>t, <1>c DEF MakeClient, DataOK, tvs, files
  <2>2. CASE Exit(Cli, "install") /\ UNCHANGED <<files, tvs, history>>
    <3>1. "install" \in Places
        BY DEF Places
    <3> QED
        BY <2>2, <3>1, <1>t, <1>c, Exited DEF DataOK, tvs, files
  <2> QED
    BY <1>16, <2>1, <2>2 DEF AsksToPair
<1>17. ASSUME FillsMac PROVE DataOK' /\ pc' \in [Procs -> Places]
  <2>1. pc' \in [Procs -> Places]
    BY <1>17, <1>t, <1>c DEF FillsMac, Step, Places
  <2>2. cfg[Cli] \in Config /\ [cfg[Cli] EXCEPT !.mac = cfg[Cli].ip] \in Config
    BY <1>t, <1>c DEF DataOK, Config
  <2>3. cfg' = cfg \/ cfg' = [cfg EXCEPT ![Cli] = [cfg[Cli] EXCEPT !.mac = cfg[Cli].ip]]
    BY <1>17 DEF FillsMac
  <2>4. cfg' \in [Procs -> Config]
    BY <1>t, <2>2, <2>3 DEF DataOK
  <2> QED
    BY <1>17, <1>t, <2>1, <2>4 DEF FillsMac, DataOK, tvs, files
<1>18. ASSUME EnablesWol PROVE DataOK' /\ pc' \in [Procs -> Places]
  <2>1. \E to \in Places : Exit(Cli, to)
    BY <1>18 DEF EnablesWol, Places
  <2> QED
    BY <1>18, <1>t, <1>c, <2>1, Exited DEF EnablesWol, DataOK, tvs, files
<1>19. ASSUME Install PROVE DataOK' /\ pc' \in [Procs -> Places]
  <2>1. pc' \in [Procs -> Places]
    BY <1>19, <1>t, <1>c DEF Install, Step, Places
  <2> QED
    BY <1>19, <1>t, <1>c, <2>1 DEF Install, DataOK, tvs, files
<1>20. ASSUME InstallsNot PROVE DataOK' /\ pc' \in [Procs -> Places]
  <2>1. \E to \in Places : Exit(Cli, to)
    BY <1>20 DEF InstallsNot, Places
  <2> QED
    BY <1>20, <1>t, <1>c, <2>1, Exited DEF InstallsNot, DataOK, tvs, files
<1>21. ASSUME Restarts PROVE DataOK' /\ pc' \in [Procs -> Places]
  <2>1. pc' \in [Procs -> Places]
    BY <1>21, <1>t, <1>c DEF Restarts, Step, Places
  <2> QED
    BY <1>21, <1>t, <1>c, <2>1 DEF Restarts, DataOK, tvs, files
<1>22. ASSUME Login PROVE DataOK' /\ pc' \in [Procs -> Places]
  <2>1. pc' \in [Procs -> Places]
    BY <1>22, <1>t, <1>c DEF Login, Step, Places
  <2> QED
    BY <1>22, <1>t, <1>c, <2>1 DEF Login, DataOK, tvs, files
<1>23. ASSUME Crashes PROVE DataOK' /\ pc' \in [Procs -> Places]
  <2>1. \E to \in Places : Exit(Daemon, to)
    BY <1>23 DEF Crashes, Dies, Places
  <2> QED
    BY <1>23, <1>t, <1>c, <2>1, Exited DEF Crashes, Dies, DataOK, tvs, files
<1>24. ASSUME Interrupted PROVE DataOK' /\ pc' \in [Procs -> Places]
  <2>1. \E to \in Places : Exit(Cli, to)
    BY <1>24 DEF Interrupted, Dies, Places
  <2> QED
    BY <1>24, <1>t, <1>c, <2>1, Exited DEF Interrupted, Dies, DataOK, tvs, files
<1>25. ASSUME NEW still \in BOOLEAN, Stops(still)
       PROVE  DataOK' /\ pc' \in [Procs -> Places]
  <2>1. "idle" \in Places /\ Exit(Daemon, "idle")
    BY <1>25 DEF Stops, Dies, Places
  <2>2. history' \subseteq {"configured", "torn", "overlap", "blank", "crossed"}
    BY <1>25, <1>t DEF Stops, Dies, DataOK
  <2> QED
    BY <1>25, <1>t, <1>c, <2>1, <2>2, Exited DEF Stops, DataOK, tvs
<1>26. ASSUME UNCHANGED vars PROVE DataOK' /\ pc' \in [Procs -> Places]
    BY <1>26, <1>t DEF vars, files, tvs, procs, DataOK
<1> QED
  <2>1. enabled \in BOOLEAN /\ FALSE \in BOOLEAN
    BY <1>t DEF DataOK
  <2> QED
    BY <2>1, <1>1, <1>2, <1>3, <1>4, <1>5, <1>6, <1>7, <1>8, <1>9, <1>10, <1>11, <1>12, <1>13,
       <1>14, <1>15, <1>16, <1>17, <1>18, <1>19, <1>20, <1>21, <1>22, <1>23, <1>24, <1>25, <1>26
    DEF Next, FileStep, SessionEnds, RemovesService
-----------------------------------------------------------------------------
(* The settings.  The places that matter to them:                          *)
Busy == {"migrate", "migrating", "unlink", "writing", "filling"}

(* Two processes that migrate at once are noticed.                         *)
Noticed ==
    pc[Cli] \in Migration /\ pc[Daemon] \in Migration => "overlap" \in history

(* A migration has its source until it removes it.                         *)
Sourced ==
    "overlap" \notin history =>
        \A p \in Procs : pc[p] \in {"migrate", "migrating"} => legacy # NoFile

(* ... and removes it when there is another file, or about to be one.      *)
Replaced ==
    "torn" \notin history =>
        \A p \in Procs : pc[p] = "unlink" =>
            yaml \in Config \/ \E q \in Procs : pc[q] \in Saving

SInv == SettingsKept /\ Noticed /\ Sourced /\ Replaced

(* Steps that touch neither file and neither begin nor end a save.         *)
LEMMA Quiet ==
    ASSUME SInv, UNCHANGED <<yaml, legacy>>,
           history' \ {"blank", "crossed"} = history \ {"blank", "crossed"},
           \A q \in Procs : pc'[q] = pc[q] \/ (pc[q] \notin Busy /\ pc'[q] \notin Busy)
    PROVE  SInv'
<1>1. \A h \in {"configured", "torn", "overlap"} : h \in history' <=> h \in history
    OBVIOUS
<1>2. \A q \in Procs : /\ pc'[q] \in Saving <=> pc[q] \in Saving
                       /\ pc'[q] \in Migration <=> pc[q] \in Migration
                       /\ pc'[q] \in Busy => pc'[q] = pc[q]
    BY Saves DEF Busy, Migration
<1>3. SettingsKept'
    BY <1>1, <1>2 DEF SInv, SettingsKept
<1>4. Noticed'
    BY <1>1, <1>2 DEF SInv, Noticed, Procs
<1>5. Sourced'
    BY <1>1, <1>2 DEF SInv, Sourced, Busy
<1>6. Replaced'
    BY <1>1, <1>2 DEF SInv, Replaced, Busy
<1> QED
    BY <1>3, <1>4, <1>5, <1>6 DEF SInv

(* Nothing is being migrated at the start.                                 *)
LEMMA SettingsInit == Init => SInv
<1> SUFFICES ASSUME Init PROVE SInv
    OBVIOUS
<1>1. \A p \in Procs : pc[p] = "idle"
    BY DEF Init
<1>2. Noticed /\ Sourced /\ Replaced
    BY <1>1 DEF Noticed, Sourced, Replaced, Migration, Procs
<1>3. [ip |-> Old, mac |-> Old] \in Config
    BY SetupAssumption DEF Config
<1>4. SettingsKept
    BY <1>3, NoFileAssumption DEF Init, SettingsKept
<1> QED
    BY <1>2, <1>4 DEF SInv

(* SInv is kept by every step.                                             *)
LEMMA SettingsStep == TypeOK /\ SInv /\ [Next]_vars => SInv'
<1> SUFFICES ASSUME TypeOK, SInv, [Next]_vars PROVE SInv'
    OBVIOUS
<1>t. DataOK /\ pc \in [Procs -> Places]
    BY Typed
<1>i. SettingsKept /\ Noticed /\ Sourced /\ Replaced
    BY DEF SInv
<1>c. Cli \in Procs /\ Daemon \in Procs /\ Procs = {Cli, Daemon} /\ Cli # Daemon
    BY SetupAssumption DEF Procs
<1>1. ASSUME NEW p \in Procs, Load(p) PROVE SInv'
  <2>1. CASE pc'[p] # "migrate"
    BY <1>1, <2>1, <1>t, Quiet DEF Load, Step, files, Busy
  <2>2. CASE pc'[p] = "migrate"
    <3>1. /\ legacy # NoFile /\ UNCHANGED <<yaml, legacy>> /\ pc[p] = "load"
          /\ \A q \in Procs \ {p} : pc'[q] = pc[q]
        BY <1>1, <2>2, <1>t DEF Load, Step, files
    <3>2. history \subseteq history' /\ \A h \in {"configured", "torn"} : h \in history' <=> h \in history
        BY <1>1, <2>2 DEF Load
    <3>3. (\E q \in Procs \ {p} : pc[q] \in Migration) => "overlap" \in history'
        BY <1>1, <2>2 DEF Load
    <3>4. \A q \in Procs : pc'[q] \in Saving <=> pc[q] \in Saving
        BY <2>2, <3>1, Saves
    <3>5. SettingsKept' /\ Replaced'
        BY <2>2, <3>1, <3>2, <3>4, <1>i DEF SettingsKept, Replaced
    <3>6. Noticed' /\ Sourced'
        BY <2>2, <3>1, <3>2, <3>3, <1>i, <1>c DEF Noticed, Sourced
    <3> QED
        BY <3>5, <3>6 DEF SInv
  <2> QED
    BY <2>1, <2>2
<1>2. ASSUME NEW p \in Procs, Truncate(p) PROVE SInv'
  <2>1. /\ pc[p] \in {"migrate", "write", "fill"} /\ pc'[p] \in Saving
        /\ pc'[p] = "migrating" => pc[p] = "migrate"
        /\ pc'[p] \in {"migrating", "writing", "filling"}
        /\ \A q \in Procs \ {p} : pc'[q] = pc[q]
        /\ UNCHANGED <<legacy, history>>
    BY <1>2, <1>t, Saves DEF Truncate, Step
  <2>2. SettingsKept' /\ Replaced'
    BY <2>1 DEF SettingsKept, Replaced
  <2>3. Noticed' /\ Sourced'
    BY <2>1, <1>i, <1>c DEF Noticed, Sourced, Migration
  <2> QED
    BY <2>2, <2>3 DEF SInv
<1>3. ASSUME NEW p \in Procs, Write(p) PROVE SInv'
  <2>1. /\ pc[p] \in Saving /\ pc'[p] \in {"unlink", "askPair", "wol"}
        /\ pc'[p] = "unlink" => pc[p] = "migrating"
        /\ \A q \in Procs \ {p} : pc'[q] = pc[q]
        /\ UNCHANGED legacy
        /\ "overlap" \in history' <=> "overlap" \in history
    BY <1>3, <1>t, Saves DEF Write, Step
  <2>2. yaml' \in Config \/ "torn" \in history'
    BY <1>3, <1>t DEF Write, DataOK
  <2>3. SettingsKept' /\ Replaced'
    BY <2>2 DEF SettingsKept, Replaced
  <2>4. Noticed' /\ Sourced'
    BY <2>1, <1>i, <1>c DEF Noticed, Sourced, Migration
  <2> QED
    BY <2>3, <2>4 DEF SInv
<1>4. ASSUME NEW p \in Procs, Unlink(p) PROVE SInv'
  <2>1. /\ pc[p] = "unlink" /\ pc'[p] = "loaded"
        /\ \A q \in Procs \ {p} : pc'[q] = pc[q]
        /\ UNCHANGED <<yaml, history>>
    BY <1>4, <1>t DEF Unlink, Step
  <2>2. \A q \in Procs : pc'[q] \in Saving <=> pc[q] \in Saving
    BY <2>1, Saves
  <2>3. SettingsKept'
    BY <2>1, <2>2, <1>i DEF SettingsKept, Replaced
  <2>4. Replaced'
    BY <2>1, <2>2, <1>i DEF Replaced
  <2>5. Noticed' /\ Sourced'
    BY <2>1, <1>i, <1>c DEF Noticed, Sourced, Migration
  <2> QED
    BY <2>3, <2>4, <2>5 DEF SInv
<1>5. ASSUME NEW c \in Commands, Start(c) PROVE SInv'
  <2>1. /\ pc[Cli] = "idle" /\ pc'[Cli] = "load" /\ pc'[Daemon] = pc[Daemon]
        /\ UNCHANGED <<yaml, legacy>>
    BY <1>5, <1>t, <1>c DEF Start, Step, files
  <2>2. CASE pc[Daemon] \in Migration
    BY <1>5, <1>c, <2>1, <2>2, Quiet DEF Start, Busy
  <2>3. CASE pc[Daemon] \notin Migration
    <3>1. \A h \in {"configured", "torn"} : h \in history' <=> h \in history
        BY <1>5, <2>3 DEF Start
    <3>2. \A q \in Procs : /\ pc'[q] \in Saving <=> pc[q] \in Saving
                           /\ pc'[q] \notin Migration
        BY <2>1, <2>3, <1>c, Saves DEF Migration
    <3> QED
        BY <2>1, <3>1, <3>2, <1>i, <1>c
        DEF SInv, SettingsKept, Noticed, Sourced, Replaced, Migration
  <2> QED
    BY <2>2, <2>3
<1>6. ASSUME NEW p \in Procs, NEW to \in {"idle", "failed"}, Dies(p, to),
             UNCHANGED <<yaml, legacy>>
      PROVE  SInv'
  <2>1. /\ pc'[p] = to /\ \A q \in Procs \ {p} : pc'[q] = pc[q]
        /\ \A h \in {"configured", "overlap"} : h \in history' <=> h \in history
        /\ history \subseteq history'
    BY <1>6, <1>t DEF Dies, Exit
  <2>2. Noticed' /\ Sourced'
    BY <2>1, <1>6, <1>i, <1>c DEF Noticed, Sourced, Migration
  <2>3. CASE Tears(p)
    <3>1. "torn" \in history'
        BY <1>6, <2>3 DEF Dies
    <3> QED
        BY <2>2, <3>1 DEF SInv, SettingsKept, Replaced
  <2>4. CASE ~ Tears(p) /\ pc[p] \notin Saving
    <3>1. \A q \in Procs : pc[q] \in Saving => pc'[q] \in Saving
        BY <2>1, <2>4
    <3>2. \A q \in Procs : pc'[q] = "unlink" => pc[q] = "unlink"
        BY <2>1
    <3> QED
        BY <2>1, <2>2, <3>1, <3>2, <1>6, <1>i DEF SInv, SettingsKept, Replaced
  <2>5. CASE ~ Tears(p) /\ pc[p] \in Saving
    <3>1. pc[p] = "migrating" /\ "overlap" \notin history
        BY <2>5, Saves DEF Tears
    <3>2. legacy' # NoFile
        BY <3>1, <1>6, <1>i DEF Sourced
    <3>3. \A q \in Procs : pc'[q] # "unlink"
        BY <3>1, <2>1, <1>i, <1>c DEF Noticed, Migration
    <3> QED
        BY <2>2, <3>2, <3>3 DEF SInv, SettingsKept, Replaced
  <2> QED
    BY <2>3, <2>4, <2>5
<1>7. ASSUME NEW p \in Procs, Refused(p) \/ Connects(p) \/ TruncateKey(p) PROVE SInv'
    BY <1>7, <1>t, Quiet
    DEF Refused, Connects, TruncateKey, MakeClient, Exit, Step, files, Busy
<1>8. ASSUME NEW p \in Procs, WriteKey(p) PROVE SInv'
  <2>1. pc[p] = "savingkey" /\ pc'[p] \in {"active", "idle", "paired"}
        /\ \A q \in Procs \ {p} : pc'[q] = pc[q]
    BY <1>8, <1>t DEF WriteKey, Exit, Step
  <2> QED
    BY <1>8, <2>1, Quiet DEF WriteKey, Busy
<1>9. ASSUME NEW p \in Procs, Handshake(p) PROVE SInv'
  <2>1. /\ pc[p] \in {"active", "connect"} /\ pc'[p] \in {"savekey", "idle", "paired"}
        /\ \A q \in Procs \ {p} : pc'[q] = pc[q]
        /\ UNCHANGED <<yaml, legacy, history>>
    BY <1>9, <1>t DEF Handshake, Exit, Step, files
  <2> QED
    BY <2>1, Quiet DEF Busy
<1>10. ASSUME HandshakeFails \/ EnablesWol \/ InstallsNot PROVE SInv'
    BY <1>10, <1>t, <1>c, Quiet DEF HandshakeFails, EnablesWol, InstallsNot, Exit, files, Busy
<1>11. ASSUME KeepsConfig \/ AsksToPair \/ FillsMac \/ AnswersMac PROVE SInv'
    BY <1>11, <1>t, <1>c, Quiet
    DEF KeepsConfig, AsksToPair, FillsMac, AnswersMac, MakeClient, Exit, Step, files, Busy
<1>12. ASSUME Choose \/ ChoosesNone PROVE SInv'
  <2>1. /\ pc[Cli] = "loaded" /\ pc'[Cli] \in {"askMac", "idle"}
        /\ \A q \in Procs \ {Cli} : pc'[q] = pc[q]
        /\ UNCHANGED <<files, history>>
    BY <1>12, <1>t, <1>c DEF Choose, ChoosesNone, Step, Exit
  <2> QED
    BY <2>1, Quiet DEF files, Busy
<1>13. ASSUME Install \/ Restarts \/ Login PROVE SInv'
  <2>1. /\ \A q \in Procs : pc'[q] = pc[q] \/ (pc[q] \notin Busy /\ pc'[q] \notin Busy)
        /\ UNCHANGED <<yaml, legacy, history>>
    BY <1>13, <1>t, <1>c DEF Install, Restarts, Login, Step, files, Busy
  <2> QED
    BY <2>1, Quiet
<1>14. ASSUME NEW h \in Tvs, Forgets(h) PROVE SInv'
    BY <1>14, Quiet DEF Forgets, files, procs
<1>15. ASSUME UNCHANGED vars PROVE SInv'
    BY <1>15, Quiet DEF vars, files, procs
<1>16. ASSUME Crashes \/ Interrupted \/ SessionEnds \/ RemovesService PROVE SInv'
  <2>1. /\ Dies(Cli, "idle") \/ Dies(Daemon, "failed") \/ Dies(Daemon, "idle")
        /\ UNCHANGED <<yaml, legacy>>
    BY <1>16 DEF Crashes, Interrupted, SessionEnds, RemovesService, Stops, files
  <2> QED
    BY <2>1, <1>6, <1>c
<1> QED
    BY <1>1, <1>2, <1>3, <1>4, <1>5, <1>7, <1>8, <1>9, <1>10, <1>11, <1>12, <1>13, <1>14,
       <1>15, <1>16
    DEF Next, FileStep
-----------------------------------------------------------------------------
(* The key on file.  Of a command: its handshake is over.                  *)
After == {"paired", "fill", "filling", "wol"}
KeyPlaces == After \cup {"connect", "savekey", "savingkey"}

(* A key that is being saved is one the TV accepts.                        *)
Accepted ==
    \A p \in Procs : pc[p] \in {"savekey", "savingkey"} =>
        cfg[p].ip \in Tvs /\ ckey[p] \in trusted[cfg[p].ip]

AtTv == pc[Cli] \in After => cfg[Cli].ip \in Tvs

(* What a command presents is on file, unless the daemon has a better one. *)
Presents ==
    pc[Cli] = "connect" /\ cfg[Cli].ip \in Tvs /\ "crossed" \notin history =>
        key = ckey[Cli] \/ key \in trusted[cfg[Cli].ip] \/ pc[Daemon] = "savingkey"

PInv == PairedKeyKept /\ Accepted /\ AtTv /\ Presents

(* PairedKeyKept, with the places after the handshake written out.         *)
LEMMA KeptIs ==
    /\ PairedKeyKept <=>
         (pc[Cli] \in After /\ "crossed" \notin history =>
            key \in trusted[cfg[Cli].ip] \/ pc[Daemon] = "savingkey")
    /\ PairedKeyKept' <=>
         (pc'[Cli] \in After /\ "crossed" \notin history' =>
            key' \in trusted'[cfg'[Cli].ip] \/ pc'[Daemon] = "savingkey")
BY DEF PairedKeyKept, Pairing, After

(* Steps that touch no key: a process goes on with what it had, or is not  *)
(* concerned with keys any more, and the daemon does not drop a save that  *)
(* a command relies on.                                                    *)
LEMMA QuietKeys ==
    ASSUME PInv, UNCHANGED <<key, trusted>>,
           ("crossed" \in history' <=> "crossed" \in history) \/ pc'[Cli] \notin KeyPlaces,
           \A p \in Procs :
              \/ pc'[p] \notin KeyPlaces
              \/ /\ cfg'[p].ip = cfg[p].ip /\ ckey'[p] = ckey[p]
                 /\ pc'[p] = pc[p] \/ {pc[p], pc'[p]} \subseteq After,
           pc[Daemon] = "savingkey" => pc'[Daemon] = "savingkey" \/ pc'[Cli] \notin KeyPlaces
    PROVE  PInv'
<1>c. Cli \in Procs /\ Daemon \in Procs
    BY DEF Procs
<1>1. Accepted'
    BY DEF PInv, Accepted, KeyPlaces, After
<1>2. AtTv' /\ Presents'
    BY <1>c DEF PInv, AtTv, Presents, KeyPlaces, After
<1>3. PairedKeyKept'
    BY <1>c, KeptIs DEF PInv, KeyPlaces, After
<1> QED
    BY <1>1, <1>2, <1>3 DEF PInv

(* No key is being saved at the start.                                     *)
LEMMA KeysInit == Init => PInv
BY KeptIs DEF Init, PInv, Accepted, AtTv, Presents, After, Procs

(* PInv is kept by every step.                                             *)
LEMMA KeysStep == TypeOK /\ PInv /\ [Next]_vars => PInv'
<1> SUFFICES ASSUME TypeOK, PInv, [Next]_vars PROVE PInv'
    OBVIOUS
<1>t. DataOK /\ pc \in [Procs -> Places]
    BY Typed
<1>i. PairedKeyKept /\ Accepted /\ AtTv /\ Presents
    BY DEF PInv
<1>c. Cli \in Procs /\ Daemon \in Procs /\ Procs = {Cli, Daemon} /\ Cli # Daemon
    BY SetupAssumption DEF Procs
<1>h. Tvs \subseteq Hosts
    BY SetupAssumption
<1>1. ASSUME NEW p \in Procs, Load(p) PROVE PInv'
  <2>1. /\ pc[p] = "load" /\ pc'[p] \in {"migrate", "loaded"}
        /\ \A q \in Procs \ {p} : pc'[q] = pc[q] /\ cfg'[q] = cfg[q]
        /\ UNCHANGED <<key, trusted, ckey>>
        /\ "crossed" \in history' <=> "crossed" \in history
    BY <1>1, <1>t DEF Load, Step, DataOK, files, tvs
  <2> QED
    BY <2>1, <1>c, QuietKeys DEF KeyPlaces, After
<1>2. ASSUME NEW p \in Procs, Truncate(p) \/ Write(p) \/ Unlink(p) PROVE PInv'
  <2>1. /\ \/ pc'[p] \notin KeyPlaces \/ {pc[p], pc'[p]} \subseteq After
        /\ pc[p] # "savingkey"
    BY <1>2, <1>t, Saves DEF Truncate, Write, Unlink, Step, KeyPlaces, After
  <2>2. /\ \A q \in Procs \ {p} : pc'[q] = pc[q]
        /\ UNCHANGED <<key, trusted, cfg, ckey>>
        /\ "crossed" \in history' <=> "crossed" \in history
    BY <1>2, <1>t DEF Truncate, Write, Unlink, Step, tvs
  <2> QED
    BY <2>1, <2>2, <1>c, QuietKeys
<1>3. ASSUME NEW c \in Commands, Start(c) PROVE PInv'
  <2>1. pc'[Cli] = "load" /\ \A q \in Procs \ {Cli} : pc'[q] = pc[q]
        /\ UNCHANGED <<key, trusted, cfg, ckey>>
    BY <1>3, <1>t, <1>c DEF Start, Step, files, tvs
  <2> QED
    BY <2>1, <1>c, QuietKeys DEF KeyPlaces, After
<1>4. ASSUME NEW p \in Procs, NEW to \in {"idle", "failed", "install"}, Exit(p, to),
             UNCHANGED <<key, trusted>>,
             "crossed" \in history' <=> "crossed" \in history,
             pc[p] # "savingkey" \/ p = Cli \/ pc[Cli] \notin KeyPlaces
      PROVE  PInv'
  <2>1. /\ pc'[p] \notin KeyPlaces
        /\ \A q \in Procs \ {p} : pc'[q] = pc[q] /\ cfg'[q] = cfg[q] /\ ckey'[q] = ckey[q]
    BY <1>4, <1>t DEF Exit, KeyPlaces, After, DataOK
  <2>2. pc[Daemon] = "savingkey" => pc'[Daemon] = "savingkey" \/ pc'[Cli] \notin KeyPlaces
    BY <2>1, <1>4, <1>c DEF KeyPlaces, After
  <2> QED
    BY <1>4, <2>1, <2>2, QuietKeys
<1>5. ASSUME NEW p \in Procs, Refused(p) PROVE PInv'
    BY <1>5, <1>4 DEF Refused, files, tvs
<1>6. ASSUME HandshakeFails \/ InstallsNot \/ EnablesWol PROVE PInv'
    BY <1>6, <1>4, <1>c DEF HandshakeFails, InstallsNot, EnablesWol, files, tvs
<1>7. ASSUME Crashes \/ Interrupted \/ SessionEnds \/ RemovesService PROVE PInv'
  <2>1. PICK p \in Procs, to \in {"idle", "failed"} : Dies(p, to) /\ UNCHANGED <<key, trusted>>
    BY <1>7, <1>c DEF Crashes, Interrupted, SessionEnds, RemovesService, Stops, files, tvs
  <2>2. CASE p = Daemon /\ pc[p] = "savingkey" /\ Pairing
    <3>1. /\ "crossed" \in history' /\ pc'[p] \notin KeyPlaces
          /\ \A q \in Procs \ {p} : pc'[q] = pc[q] /\ cfg'[q] = cfg[q] /\ ckey'[q] = ckey[q]
        BY <2>1, <2>2, <1>t DEF Dies, Exit, KeyPlaces, After, DataOK
    <3>2. Accepted' /\ AtTv'
        BY <2>1, <2>2, <3>1, <1>i, <1>c DEF Accepted, AtTv, KeyPlaces
    <3> QED
        BY <3>1, <3>2, KeptIs DEF PInv, Presents
  <2>3. CASE ~ (p = Daemon /\ pc[p] = "savingkey" /\ Pairing)
    <3>1. "crossed" \in history' <=> "crossed" \in history
        BY <2>1, <2>3 DEF Dies
    <3>2. pc[p] # "savingkey" \/ p = Cli \/ pc[Cli] \notin KeyPlaces
        BY <2>3, <1>c DEF Pairing, KeyPlaces, After
    <3> QED
        BY <2>1, <3>1, <3>2, <1>4 DEF Dies
  <2> QED
    BY <2>2, <2>3
<1>8. ASSUME NEW p \in Procs, NEW from \in {"loaded", "askPair"},
             NEW to \in {"active", "connect"}, MakeClient(p, from, to),
             p = Daemon => to = "active"
      PROVE  PInv'
  <2>1. /\ pc[p] = from /\ pc'[p] = to /\ \A q \in Procs \ {p} : pc'[q] = pc[q]
        /\ ckey'[p] = key /\ \A q \in Procs \ {p} : ckey'[q] = ckey[q]
        /\ UNCHANGED <<key, trusted, cfg, history>>
    BY <1>8, <1>t DEF MakeClient, Step, DataOK, files, tvs
  <2>2. CASE to = "active"
    BY <2>1, <2>2, <1>c, QuietKeys DEF KeyPlaces, After
  <2>3. CASE to = "connect"
    <3>1. p = Cli
        BY <2>3, <1>8, <1>c
    <3>2. Accepted'
        BY <2>1, <2>3, <3>1, <1>i, <1>c DEF Accepted
    <3>3. AtTv' /\ Presents' /\ PairedKeyKept'
        BY <2>1, <2>3, <3>1, KeptIs DEF AtTv, Presents, After
    <3> QED
        BY <3>2, <3>3 DEF PInv
  <2> QED
    BY <2>2, <2>3
<1>9. ASSUME NEW p \in Procs, Connects(p) PROVE PInv'
    BY <1>9, <1>8, <1>c DEF Connects
<1>10. ASSUME AsksToPair PROVE PInv'
    BY <1>10, <1>8, <1>4, <1>c DEF AsksToPair, files, tvs
<1>11. ASSUME NEW p \in Procs, Handshake(p) PROVE PInv'
  <2>0. /\ cfg[p].ip \in Tvs /\ pc[p] = IF p = Daemon THEN "active" ELSE "connect"
        /\ \A q \in Procs \ {p} : pc'[q] = pc[q] /\ cfg'[q] = cfg[q] /\ ckey'[q] = ckey[q]
        /\ UNCHANGED <<key, history>>
    BY <1>11, <1>t DEF Handshake, Step, Exit, DataOK, files
  <2>g. \A h \in Tvs : trusted[h] \subseteq trusted'[h]
    BY <1>11, <2>0, <1>t, <1>h DEF Handshake, Known, Grants, DataOK, tvs
  <2>1. CASE p = Cli /\ Known(p) /\ pc'[p] = "paired" /\ UNCHANGED <<cfg, ckey>>
    <3>1. ckey[Cli] \in trusted[cfg[Cli].ip] /\ UNCHANGED trusted
        BY <2>1 DEF Known, tvs
    <3>2. Accepted'
        BY <2>0, <2>1, <3>1, <1>i, <1>c DEF Accepted
    <3>3. AtTv' /\ Presents'
        BY <2>0, <2>1 DEF AtTv, Presents
    <3>4. PairedKeyKept'
        BY <3>1, <2>0, <2>1, <1>i, <1>c, KeptIs DEF Presents
    <3> QED
        BY <3>2, <3>3, <3>4 DEF PInv
  <2>2. CASE Grants(p) /\ pc'[p] = "savekey" /\ UNCHANGED cfg /\ ckey'[p] = issued'
    <3>1. ckey'[p] \in trusted'[cfg[p].ip]
        BY <2>2, <2>0, <1>t, <1>h DEF Grants, DataOK
    <3>2. Accepted'
        BY <2>g, <2>2, <3>1, <2>0, <1>i DEF Accepted
    <3>3. AtTv'
        BY <2>0, <2>2, <1>i, <1>c DEF AtTv, After
    <3>4. Presents' /\ PairedKeyKept'
      <4>1. CASE p = Cli
        BY <4>1, <2>2, KeptIs DEF Presents, After
      <4>2. CASE p = Daemon
        BY <4>2, <2>0, <2>2, <2>g, <1>i, <1>c, KeptIs DEF Presents, AtTv
      <4> QED
        BY <4>1, <4>2, <1>c
    <3> QED
        BY <3>2, <3>3, <3>4 DEF PInv
  <2>3. CASE pc'[p] = "idle"
    <3>1. Accepted'
        BY <2>0, <2>3, <2>g, <1>i DEF Accepted
    <3>2. AtTv' /\ Presents' /\ PairedKeyKept'
      <4>1. CASE p = Cli
        BY <4>1, <2>3, KeptIs DEF AtTv, Presents, After
      <4>2. CASE p = Daemon
        BY <4>2, <2>0, <2>3, <2>g, <1>i, <1>c, KeptIs DEF Presents, AtTv
      <4> QED
        BY <4>1, <4>2, <1>c
    <3> QED
        BY <3>1, <3>2 DEF PInv
  <2>4. \/ p = Cli /\ Known(p) /\ pc'[p] = "paired" /\ UNCHANGED <<cfg, ckey>>
        \/ Grants(p) /\ pc'[p] = "savekey" /\ UNCHANGED cfg /\ ckey'[p] = issued'
        \/ pc'[p] = "idle"
    BY <1>11, <1>t DEF Handshake, Step, Exit, Grants, KeyReceived, DataOK
  <2> QED
    BY <2>1, <2>2, <2>3, <2>4
<1>12. ASSUME NEW p \in Procs, TruncateKey(p) PROVE PInv'
  <2>1. /\ pc[p] = "savekey" /\ pc'[p] = "savingkey" /\ \A q \in Procs \ {p} : pc'[q] = pc[q]
        /\ UNCHANGED <<trusted, cfg, ckey, history>>
    BY <1>12, <1>t DEF TruncateKey, Step, tvs
  <2>2. Accepted'
    BY <2>1, <1>i DEF Accepted
  <2>3. AtTv' /\ Presents' /\ PairedKeyKept'
    BY <2>1, <1>i, <1>c, KeptIs DEF AtTv, Presents, After
  <2> QED
    BY <2>2, <2>3 DEF PInv
<1>13. ASSUME NEW p \in Procs, WriteKey(p) PROVE PInv'
  <2>1. /\ pc[p] = "savingkey" /\ key' = ckey[p] /\ UNCHANGED trusted
        /\ pc'[p] \in {"active", "idle", "paired"} /\ (p = Daemon => pc'[p] # "paired")
        /\ pc'[p] = "paired" => cfg'[p] = cfg[p]
        /\ \A q \in Procs \ {p} : pc'[q] = pc[q] /\ cfg'[q] = cfg[q] /\ ckey'[q] = ckey[q]
        /\ history \subseteq history'
    BY <1>13, <1>t DEF WriteKey, Step, Exit, DataOK, tvs
  <2>2. Accepted' /\ ckey[p] \in trusted[cfg[p].ip] /\ cfg[p].ip \in Tvs
    BY <2>1, <1>i DEF Accepted
  <2>3. AtTv'
    BY <2>1, <2>2, <1>i, <1>c DEF AtTv, After
  <2>4. CASE p = Cli
    BY <2>1, <2>2, <2>3, <2>4, KeptIs DEF PInv, Presents, After
  <2>5. CASE p = Daemon
    <3>1. Pairing /\ "crossed" \notin history' => cfg[Cli].ip = cfg[p].ip
        BY <1>13, <2>5 DEF WriteKey
    <3>2. pc[Cli] \in KeyPlaces => Pairing
        BY DEF Pairing, KeyPlaces, After
    <3>3. pc'[Cli] \in KeyPlaces /\ "crossed" \notin history' => key' \in trusted'[cfg'[Cli].ip]
        BY <2>1, <2>2, <2>5, <3>1, <3>2, <1>c
    <3> QED
        BY <2>2, <2>3, <3>3, KeptIs DEF PInv, Presents, KeyPlaces
  <2> QED
    BY <2>4, <2>5, <1>c
<1>14. ASSUME NEW h \in Tvs, Forgets(h) PROVE PInv'
    BY <1>14, <1>c, KeptIs DEF Forgets, procs, PInv, Accepted, AtTv, Presents, After
<1>15. ASSUME KeepsConfig PROVE PInv'
    BY <1>15, <1>t, <1>c, QuietKeys DEF KeepsConfig, Step, files, tvs, KeyPlaces, After
<1>16. ASSUME Choose \/ ChoosesNone PROVE PInv'
  <2>1. CASE Choose
    <3>1. Step(Cli, "loaded", "askMac") /\ UNCHANGED <<files, tvs, cfg, ckey, history>>
        BY <2>1 DEF Choose
    <3> QED
        BY <3>1, <1>t, <1>c, QuietKeys DEF Step, files, tvs, KeyPlaces, After
  <2>2. CASE ChoosesNone
    BY <2>2, <1>4, <1>c DEF ChoosesNone, files, tvs
  <2> QED
    BY <1>16, <2>1, <2>2
<1>17. ASSUME AnswersMac \/ FillsMac PROVE PInv'
  <2>1. /\ \/ pc[Cli] = "askMac" /\ pc'[Cli] = "write"
           \/ {pc[Cli], pc'[Cli]} \subseteq After /\ cfg'[Cli].ip = cfg[Cli].ip
        /\ \A q \in Procs \ {Cli} : pc'[q] = pc[q] /\ cfg'[q] = cfg[q]
        /\ UNCHANGED <<key, trusted, ckey, history>>
    BY <1>17, <1>t, <1>c DEF AnswersMac, FillsMac, Step, DataOK, Config, files, tvs, After
  <2> QED
    BY <2>1, <1>c, QuietKeys DEF KeyPlaces, After
<1>18. ASSUME Install \/ Restarts \/ Login PROVE PInv'
  <2>1. /\ \A q \in Procs : pc'[q] = pc[q] \/ (pc[q] # "savingkey" /\ pc'[q] \in {"idle", "load"})
        /\ UNCHANGED <<key, trusted, cfg, ckey, history>>
    BY <1>18, <1>t, <1>c DEF Install, Restarts, Login, Step, files, tvs
  <2> QED
    BY <2>1, <1>c, QuietKeys DEF KeyPlaces, After
<1>19. ASSUME UNCHANGED vars PROVE PInv'
    BY <1>19, QuietKeys DEF vars, files, tvs, procs
<1> QED
    BY <1>1, <1>2, <1>3, <1>5, <1>6, <1>7, <1>9, <1>10, <1>11, <1>12, <1>13, <1>14, <1>15,
       <1>16, <1>17, <1>18, <1>19
    DEF Next, FileStep

-----------------------------------------------------------------------------
(* The TV that config.yaml names.  Neither two migrations at once nor an   *)
(* empty file has been seen by the command that runs.                      *)
Clean == {"overlap", "blank"} \cap history = {}

(* named is the address on file, wherever it is by now.                    *)
NamesIt ==
    /\ yaml \in Config => yaml.ip = named
    /\ yaml = NoFile => named = IF legacy = NoFile THEN None ELSE legacy.ip
    /\ \A p \in Procs : pc[p] = "unlink" => yaml # NoFile

(* As long as there is something to migrate a command gets no further.     *)
MigratesFirst ==
    yaml = NoFile /\ legacy # NoFile => pc[Cli] \in {"idle", "load", "migrate"}

(* A daemon that migrates, and so may save what it read a while ago, does  *)
(* so before any command reads the file.                                   *)
Alone ==
    /\ pc[Daemon] \in {"migrate", "migrating"} => pc[Cli] \in {"idle", "load"}
    /\ pc[Daemon] = "migrate" => yaml = NoFile
    /\ \A p \in Procs : pc[p] \in Saving => yaml = Empty

(* The places at which a command holds the address on file.                *)
Named == {"unlink", "loaded", "askMac", "fill", "filling", "askPair", "connect",
          "savekey", "savingkey", "paired"}

(* Whoever is going to save holds the address on file, unless the user     *)
(* has chosen another or there was none.                                   *)
Holds ==
    /\ \A p \in Procs : pc[p] \in {"migrate", "migrating"} => cfg[p].ip = named
    /\ pc[Cli] \in Named => cfg[Cli].ip = named
    /\ pc[Cli] = "askMac" => \/ pick.how = "typed"
                             \/ pick.how = "kept" /\ pick.ip = named
                             \/ pick.how = "enter" /\ named = None
    /\ pc[Cli] \in {"write", "writing"} => \/ pick.how = "typed"
                                           \/ pick.how = "kept" /\ cfg[Cli].ip = named
                                           \/ pick.how = "enter" /\ named = None

(* The service saves nothing but what it migrates.                         *)
OnlyMigrates == pc[Daemon] \notin {"write", "writing", "fill", "filling"}

TInv == NamesIt /\ MigratesFirst /\ OnlyMigrates /\ (Clean => Alone /\ Holds)

(* named is the address on file before anything has happened.              *)
LEMMA NamedInit == Init => TInv
<1> SUFFICES ASSUME Init PROVE TInv
    OBVIOUS
<1>1. \A p \in Procs : pc[p] = "idle"
    BY DEF Init
<1>2. NoFile \notin Config /\ [ip |-> Old, mac |-> Old] \in Config
    BY NoFileAssumption, SetupAssumption DEF Config
<1>3. NamesIt
    BY <1>1, <1>2 DEF Init, NamesIt
<1>4. MigratesFirst /\ OnlyMigrates /\ Alone /\ Holds
    BY <1>1, Saves DEF MigratesFirst, OnlyMigrates, Alone, Holds, Named, Procs
<1> QED
    BY <1>3, <1>4 DEF TInv

(* Steps that touch neither file and begin no save: a process goes on with *)
(* the address it had, or is not going to save any.                        *)
LEMMA QuietNames ==
    ASSUME TInv, UNCHANGED <<yaml, legacy, named>>, Clean' => Clean,
           \A p \in Procs : pc'[p] # pc[p] =>
               pc'[p] \notin Busy \cup {"askMac", "write"} /\ (p = Cli \/ pc'[p] # "fill"),
           pc'[Cli] # pc[Cli] => \/ pc'[Cli] \in {"idle", "load"}
                                  \/ pc[Cli] \notin {"idle", "load", "migrate"},
           \A p \in Procs : pc'[p] = pc[p] => cfg'[p] = cfg[p],
           pc'[Cli] = pc[Cli] => pick' = pick,
           pc'[Cli] # pc[Cli] =>
               pc'[Cli] \notin Named \/ (pc[Cli] \in Named /\ cfg'[Cli].ip = cfg[Cli].ip)
    PROVE  TInv'
<1>c. Cli \in Procs /\ Daemon \in Procs
    BY DEF Procs
<1>1. NamesIt'
    BY DEF TInv, NamesIt, Busy
<1>2. MigratesFirst'
    BY <1>c DEF TInv, MigratesFirst, Busy
<1>4. OnlyMigrates'
    BY <1>c, SetupAssumption DEF TInv, OnlyMigrates, Busy
<1>3. ASSUME Clean' PROVE Alone' /\ Holds'
  <2>1. Alone /\ Holds
    BY <1>3 DEF TInv
  <2>2. Alone'
    BY <2>1, <1>c, Saves DEF Alone, Busy
  <2>3. Holds'
    BY <2>1, <1>c DEF Holds, Busy
  <2> QED
    BY <2>2, <2>3
<1> QED
    BY <1>1, <1>2, <1>3, <1>4 DEF TInv

(* TInv is kept by every step.                                             *)
LEMMA NamedStep == TypeOK /\ SInv /\ TInv /\ [Next]_vars => TInv'
<1> SUFFICES ASSUME TypeOK, SInv, TInv, [Next]_vars PROVE TInv'
    OBVIOUS
<1>t. DataOK /\ pc \in [Procs -> Places]
    BY Typed
<1>i. NamesIt /\ MigratesFirst /\ OnlyMigrates
    BY DEF TInv
<1>k. ASSUME Clean PROVE Alone /\ Holds
    BY <1>k DEF TInv
<1>c. Cli \in Procs /\ Daemon \in Procs /\ Procs = {Cli, Daemon} /\ Cli # Daemon
    BY SetupAssumption DEF Procs
<1>f. /\ NoFile \notin Config /\ Empty \notin Config /\ Mixed \notin Config
      /\ NoFile # Empty /\ NoFile # Mixed /\ Mixed # Empty
    BY NoFileAssumption
<1>1. ASSUME NEW p \in Procs, Load(p) PROVE TInv'
  <2>1. /\ pc[p] = "load" /\ pc'[p] \in {"migrate", "loaded"} /\ yaml # Mixed
        /\ pc'[p] = "migrate" <=> yaml = NoFile /\ legacy # NoFile
        /\ cfg'[p] = IF pc'[p] = "migrate" THEN legacy ELSE Parsed(yaml)
        /\ \A q \in Procs \ {p} : pc'[q] = pc[q] /\ cfg'[q] = cfg[q]
        /\ UNCHANGED <<yaml, legacy, named, pick>> /\ (Clean' => Clean)
    BY <1>1, <1>t DEF Load, Step, DataOK, files, Clean
  <2>2. NamesIt'
    BY <2>1, <1>i DEF NamesIt
  <2>3. MigratesFirst' /\ OnlyMigrates'
    BY <2>1, <1>i, <1>c DEF MigratesFirst, OnlyMigrates
  <2>4. ASSUME Clean' PROVE Alone' /\ Holds'
    <3>1. Alone /\ Holds
        BY <2>1, <2>4, <1>k
    <3>2. CASE pc'[p] = "migrate"
      <4>1. \A q \in Procs \ {p} : pc[q] \notin Migration
        BY <1>1, <2>4, <3>2 DEF Load, Clean
      <4>2. p = Daemon => pc[Cli] \in {"idle", "load"}
        BY <2>1, <3>2, <4>1, <1>i, <1>c DEF MigratesFirst, Migration
      <4>3. cfg'[p].ip = named
        BY <2>1, <3>2, <1>i DEF NamesIt
      <4>4. Alone'
        BY <2>1, <3>1, <3>2, <4>1, <4>2, <1>c, Saves DEF Alone, Migration
      <4>5. Holds'
        BY <2>1, <3>1, <3>2, <4>3, <1>c DEF Holds, Named
      <4> QED
        BY <4>4, <4>5
    <3>3. CASE pc'[p] = "loaded"
      <4>1. p = Cli => yaml # Empty
        BY <1>1, <2>4 DEF Load, Clean
      <4>2. p = Cli => cfg'[p].ip = named
        BY <2>1, <3>3, <4>1, <1>i, <1>t DEF NamesIt, Parsed, Default, DataOK
      <4>3. p = Cli => pc[Daemon] \notin {"migrate", "migrating"}
        <5>1. yaml = NoFile => legacy = NoFile
            BY <2>1, <3>3
        <5>2. pc[Daemon] = "migrate" => legacy # NoFile
            BY <1>c, <2>4, <2>1 DEF SInv, Sourced, Clean
        <5>3. pc[Daemon] = "migrating" => yaml = Empty
            BY <3>1, <1>c, Saves DEF Alone
        <5> QED
            BY <3>1, <4>1, <5>1, <5>2, <5>3 DEF Alone
      <4>4. Alone'
        BY <2>1, <3>1, <3>3, <4>3, <1>c, Saves DEF Alone
      <4>5. Holds'
        BY <2>1, <3>1, <3>3, <4>2, <1>c DEF Holds, Named
      <4> QED
        BY <4>4, <4>5
    <3> QED
        BY <2>1, <3>2, <3>3
  <2> QED
    BY <2>2, <2>3, <2>4 DEF TInv
<1>2. ASSUME NEW p \in Procs, Truncate(p) PROVE TInv'
  <2>1. /\ <<pc[p], pc'[p]>> \in {<<"migrate", "migrating">>, <<"write", "writing">>,
                                 <<"fill", "filling">>}
        /\ \A q \in Procs \ {p} : pc'[q] = pc[q]
        /\ yaml' = Empty /\ UNCHANGED <<legacy, named, cfg, pick, history>>
    BY <1>2, <1>t, Saves DEF Truncate, Step
  <2>2. NamesIt' /\ MigratesFirst' /\ OnlyMigrates'
    BY <2>1, <1>f, <1>i, <1>c DEF NamesIt, MigratesFirst, OnlyMigrates
  <2>3. ASSUME Clean PROVE Alone' /\ Holds'
    <3>1. Alone /\ Holds
        BY <2>3, <1>k
    <3>2. pc'[Daemon] \in {"migrate", "migrating"} => pc'[Cli] \in {"idle", "load"}
      <4>1. p = Cli => pc[Daemon] \notin {"migrate", "migrating"}
        BY <2>1, <3>1 DEF Alone
      <4> QED
        BY <2>1, <3>1, <4>1, <1>c DEF Alone
    <3>3. pc'[Daemon] = "migrate" => yaml' = NoFile
        BY <2>1, <3>1, <3>2, <1>c DEF Alone
    <3>4. Alone'
        BY <2>1, <3>2, <3>3 DEF Alone
    <3>5. Holds'
        BY <2>1, <3>1, <1>c DEF Holds, Named
    <3> QED
        BY <3>4, <3>5
  <2>4. Clean' <=> Clean
    BY <2>1 DEF Clean
  <2> QED
    BY <2>2, <2>3, <2>4 DEF TInv
<1>3. ASSUME NEW p \in Procs, Write(p) PROVE TInv'
  <2>1. /\ <<pc[p], pc'[p]>> \in {<<"migrating", "unlink">>, <<"writing", "askPair">>,
                                 <<"filling", "wol">>}
        /\ \A q \in Procs \ {p} : pc'[q] = pc[q]
        /\ UNCHANGED <<legacy, cfg>> /\ (Clean' <=> Clean)
        /\ \/ yaml' = cfg[p] /\ named' = cfg[p].ip
           \/ yaml' = Mixed /\ named' = named /\ yaml # Empty
        /\ pick' = IF p = Cli THEN NoPick ELSE pick
    BY <1>3, <1>t, Saves DEF Write, Step, Clean
  <2>2. NamesIt' /\ MigratesFirst' /\ OnlyMigrates'
    BY <2>1, <1>f, <1>t, <1>i, <1>c DEF NamesIt, MigratesFirst, OnlyMigrates, DataOK
  <2>3. ASSUME Clean PROVE Alone' /\ Holds'
    <3>1. Alone /\ Holds
        BY <2>3, <1>k
    <3>2. yaml' = cfg[p] /\ named' = cfg[p].ip
        BY <2>1, <3>1, Saves DEF Alone
    <3>0. p = Daemon => pc[p] = "migrating" /\ pc[Cli] \in {"idle", "load"}
        BY <2>1, <3>1, <1>i, <1>c DEF Alone, OnlyMigrates
    <3>3. \A q \in Procs \ {p} : pc[q] \notin {"migrate", "migrating"}
      <4>1. CASE p = Daemon
        BY <4>1, <3>0, <1>c
      <4>2. CASE p = Cli
        BY <4>2, <2>1, <3>1, <1>c DEF Alone
      <4> QED
        BY <4>1, <4>2, <1>c
    <3>4. \A q \in Procs : pc'[q] \notin Saving
      <4>1. CASE p = Daemon
        BY <4>1, <2>1, <3>0, <1>c, Saves
      <4>2. CASE p = Cli
        BY <4>2, <2>1, <3>3, <1>c, <1>i, Saves DEF OnlyMigrates
      <4> QED
        BY <4>1, <4>2, <1>c
    <3>5. Alone'
        BY <3>3, <3>4, <2>1, <1>c DEF Alone
    <3>6. Holds'
      <4>1. CASE p = Daemon
        <5>1. named' = named
            BY <4>1, <3>0, <3>1, <3>2, <1>c DEF Holds
        <5> QED
            BY <4>1, <5>1, <2>1, <3>0, <1>c DEF Holds, Named
      <4>2. CASE p = Cli
        BY <4>2, <2>1, <3>2, <3>3, <1>c DEF Holds, Named
      <4> QED
        BY <4>1, <4>2, <1>c
    <3> QED
        BY <3>5, <3>6
  <2> QED
    BY <2>1, <2>2, <2>3 DEF TInv
<1>4. ASSUME NEW p \in Procs, Unlink(p) PROVE TInv'
  <2>1. /\ pc[p] = "unlink" /\ pc'[p] = "loaded" /\ \A q \in Procs \ {p} : pc'[q] = pc[q]
        /\ UNCHANGED <<yaml, named, cfg, pick, history>> /\ legacy' = NoFile
    BY <1>4, <1>t DEF Unlink, Step
  <2>2. NamesIt' /\ MigratesFirst' /\ OnlyMigrates'
    BY <2>1, <1>i, <1>c DEF NamesIt, MigratesFirst, OnlyMigrates
  <2>3. ASSUME Clean PROVE Alone' /\ Holds'
    <3>1. Alone /\ Holds
        BY <2>3, <1>k
    <3>2. Alone'
        BY <2>1, <3>1, <1>c, Saves DEF Alone
    <3>3. Holds'
        BY <2>1, <3>1, <1>c DEF Holds, Named
    <3> QED
        BY <3>2, <3>3
  <2>4. Clean' <=> Clean
    BY <2>1 DEF Clean
  <2> QED
    BY <2>2, <2>3, <2>4 DEF TInv
<1>5. ASSUME NEW c \in Commands, Start(c) PROVE TInv'
  <2>1. /\ pc[Cli] = "idle" /\ pc'[Cli] = "load" /\ pc'[Daemon] = pc[Daemon]
        /\ UNCHANGED <<yaml, legacy, named, cfg, pick>>
    BY <1>5, <1>t, <1>c DEF Start, Step, files
  <2>2. NamesIt' /\ MigratesFirst' /\ OnlyMigrates'
    BY <2>1, <1>i, <1>c DEF NamesIt, MigratesFirst, OnlyMigrates
  <2>3. ASSUME Clean' PROVE Alone' /\ Holds'
    <3>1. CASE pc[Daemon] \in Migration
      <4>1. Clean
        BY <1>5, <2>3, <3>1 DEF Start, Clean
      <4> QED
        BY <2>1, <4>1, <1>k, <1>c, Saves DEF Alone, Holds, Named
    <3>2. CASE pc[Daemon] \notin Migration
      <4>1. \A q \in Procs : pc'[q] \notin {"migrate", "migrating"} /\ pc'[q] \notin Saving
        BY <2>1, <3>2, <1>c, <1>i, Saves DEF Migration, OnlyMigrates
      <4> QED
        BY <2>1, <4>1, <1>c DEF Alone, Holds, Named
    <3> QED
        BY <3>1, <3>2
  <2> QED
    BY <2>2, <2>3 DEF TInv
<1>6. ASSUME NEW p \in Procs, NEW to \in {"idle", "failed", "install"}, Exit(p, to),
             UNCHANGED <<yaml, legacy, named>>, Clean' <=> Clean,
             pc[p] # to, p = Cli => to = "idle" \/ pc[Cli] \notin {"idle", "load", "migrate"}
      PROVE  TInv'
  <2>1. /\ pc'[p] = to /\ \A q \in Procs \ {p} : pc'[q] = pc[q] /\ cfg'[q] = cfg[q]
        /\ p # Cli => pick' = pick
    BY <1>6, <1>t DEF Exit, DataOK
  <2>2. \A q \in Procs : pc'[q] # pc[q] => q = p
    BY <2>1
  <2>3. pc'[Cli] # pc[Cli] => \/ pc'[Cli] \in {"idle", "load"}
                             \/ pc[Cli] \notin {"idle", "load", "migrate"}
    BY <1>6, <2>1, <2>2, <1>c
  <2> QED
    BY <1>6, <2>1, <2>2, <2>3, <1>c, QuietNames DEF Busy, Named
<1>7. ASSUME NEW p \in Procs, Refused(p) PROVE TInv'
    BY <1>7, <1>6, <1>c DEF Refused, files, Clean
<1>8. ASSUME Crashes \/ Interrupted \/ SessionEnds \/ RemovesService PROVE TInv'
  <2>1. PICK p \in Procs, to \in {"idle", "failed"} :
            /\ Dies(p, to) /\ UNCHANGED <<yaml, legacy, named>>
            /\ pc[p] # to /\ (p = Cli => to = "idle")
    BY <1>8, <1>c DEF Crashes, Interrupted, SessionEnds, RemovesService, Stops, files
  <2>2. Clean' <=> Clean
    BY <2>1 DEF Dies, Clean
  <2> QED
    BY <2>1, <2>2, <1>6 DEF Dies
<1>9. ASSUME HandshakeFails \/ EnablesWol \/ InstallsNot \/ ChoosesNone PROVE TInv'
  <2>1. PICK to \in {"idle", "install"} :
            /\ Exit(Cli, to) /\ UNCHANGED <<files, history>>
            /\ pc[Cli] \in {"connect", "wol", "install", "loaded"} /\ pc[Cli] # to
    BY <1>9 DEF HandshakeFails, EnablesWol, InstallsNot, ChoosesNone
  <2> QED
    BY <2>1, <1>6, <1>c DEF files, Clean
<1>10. ASSUME NEW p \in Procs, NEW from \in {"loaded", "askPair"},
              NEW to \in {"active", "connect"}, MakeClient(p, from, to)
       PROVE  TInv'
  <2>1. /\ pc[p] = from /\ pc'[p] = to /\ \A q \in Procs \ {p} : pc'[q] = pc[q]
        /\ UNCHANGED <<yaml, legacy, named, cfg, pick, history>>
    BY <1>10, <1>t DEF MakeClient, Step, files
  <2> QED
    BY <2>1, <1>c, QuietNames DEF Busy, Named, Clean
<1>11. ASSUME NEW p \in Procs, Connects(p) PROVE TInv'
    BY <1>11, <1>10 DEF Connects
<1>12. ASSUME AsksToPair PROVE TInv'
    BY <1>12, <1>10, <1>6, <1>c DEF AsksToPair, files, Clean
<1>13. ASSUME NEW p \in Procs, Handshake(p) \/ TruncateKey(p) \/ WriteKey(p) PROVE TInv'
  <2>1. /\ pc[p] \in {"active", "connect", "savekey", "savingkey"}
        /\ \A q \in Procs \ {p} : pc'[q] = pc[q] /\ cfg'[q] = cfg[q]
        /\ UNCHANGED <<yaml, legacy, named>> /\ (Clean' <=> Clean)
        /\ (p = Cli \/ pick' = pick) /\ pc'[p] # pc[p]
        /\ \/ pc'[p] = "idle"
           \/ pc'[p] \in {"active", "savekey", "savingkey", "paired"} /\ cfg'[p] = cfg[p]
    BY <1>13, <1>t DEF Handshake, TruncateKey, WriteKey, Step, Exit, DataOK, files, Clean
  <2>2. p = Cli => pc[p] # "active"
    BY <1>13, <1>t, <1>c DEF Handshake, TruncateKey, WriteKey, Step
  <2>3. \A q \in Procs : pc'[q] # pc[q] => q = p
    BY <2>1
  <2> QED
    BY <2>1, <2>2, <2>3, <1>c, QuietNames DEF Busy, Named
<1>14. ASSUME KeepsConfig \/ FillsMac PROVE TInv'
  <2>1. /\ <<pc[Cli], pc'[Cli]>> \in {<<"loaded", "askPair">>, <<"paired", "fill">>,
                                     <<"paired", "wol">>}
        /\ \A q \in Procs \ {Cli} : pc'[q] = pc[q] /\ cfg'[q] = cfg[q]
        /\ cfg'[Cli].ip = cfg[Cli].ip /\ UNCHANGED <<yaml, legacy, named, pick, history>>
    BY <1>14, <1>t, <1>c DEF KeepsConfig, FillsMac, Step, DataOK, Config, files
  <2> QED
    BY <2>1, <1>c, QuietNames DEF Busy, Named, Clean
<1>15. ASSUME Install \/ Restarts \/ Login PROVE TInv'
  <2>1. /\ \A q \in Procs : pc'[q] = pc[q] \/ pc'[q] \in {"idle", "load"}
        /\ UNCHANGED <<yaml, legacy, named, cfg, pick, history>>
    BY <1>15, <1>t, <1>c DEF Install, Restarts, Login, Step, files
  <2> QED
    BY <2>1, <1>c, QuietNames DEF Busy, Named, Clean
<1>16. ASSUME NEW h \in Tvs, Forgets(h) PROVE TInv'
    BY <1>16, QuietNames DEF Forgets, files, procs, Clean
<1>17. ASSUME UNCHANGED vars PROVE TInv'
    BY <1>17, QuietNames DEF vars, files, procs, Clean
<1>18. ASSUME Choose PROVE TInv'
  <2>1. /\ pc[Cli] = "loaded" /\ pc'[Cli] = "askMac"
        /\ \A q \in Procs \ {Cli} : pc'[q] = pc[q]
        /\ UNCHANGED <<yaml, legacy, named, cfg, history>>
    BY <1>18, <1>t, <1>c DEF Choose, Step, files
  <2>2. NamesIt' /\ MigratesFirst' /\ OnlyMigrates'
    BY <2>1, <1>i, <1>c DEF NamesIt, MigratesFirst, OnlyMigrates
  <2>3. ASSUME Clean PROVE Alone' /\ Holds'
    <3>1. Alone /\ Holds
        BY <2>3, <1>k
    <3>2. cfg[Cli].ip = named
        BY <2>1, <3>1 DEF Holds, Named
    <3>3. \/ pick'.how = "typed"
          \/ pick'.how = "kept" /\ pick'.ip = named
          \/ pick'.how = "enter" /\ named = None
      <4>1. named \in Hosts \cup {None} /\ pick' \in Choices[named]
        BY <1>18, <1>t, <3>2 DEF Choose, DataOK
      <4> QED
        BY <4>1, ChoicesAre
    <3>4. Alone'
        BY <2>1, <3>1, <1>c, Saves DEF Alone
    <3>5. Holds'
        BY <2>1, <3>1, <3>2, <3>3, <1>c DEF Holds, Named
    <3> QED
        BY <3>4, <3>5
  <2>4. Clean' <=> Clean
    BY <2>1 DEF Clean
  <2> QED
    BY <2>2, <2>3, <2>4 DEF TInv
<1>19. ASSUME AnswersMac PROVE TInv'
  <2>1. /\ pc[Cli] = "askMac" /\ pc'[Cli] = "write"
        /\ \A q \in Procs \ {Cli} : pc'[q] = pc[q] /\ cfg'[q] = cfg[q]
        /\ cfg'[Cli].ip = pick.ip /\ pick'.how = pick.how
        /\ UNCHANGED <<yaml, legacy, named, history>>
    BY <1>19, <1>t, <1>c DEF AnswersMac, Step, files, DataOK, NoPick
  <2>2. NamesIt' /\ MigratesFirst' /\ OnlyMigrates'
    BY <2>1, <1>i, <1>c DEF NamesIt, MigratesFirst, OnlyMigrates
  <2>3. ASSUME Clean PROVE Alone' /\ Holds'
    <3>1. Alone /\ Holds
        BY <2>3, <1>k
    <3>2. Alone'
        BY <2>1, <3>1, <1>c, Saves DEF Alone
    <3>3. Holds'
        BY <2>1, <3>1, <1>c DEF Holds, Named
    <3> QED
        BY <3>2, <3>3
  <2>4. Clean' <=> Clean
    BY <2>1 DEF Clean
  <2> QED
    BY <2>2, <2>3, <2>4 DEF TInv
<1> QED
    BY <1>1, <1>2, <1>3, <1>4, <1>5, <1>7, <1>8, <1>9, <1>11, <1>12, <1>13, <1>14, <1>15,
       <1>16, <1>17, <1>18, <1>19
    DEF Next, FileStep

-----------------------------------------------------------------------------
(* Every file, and what every process holds in memory, keeps its type.     *)
THEOREM SetupTypes == SetupSpec => []TypeOK
<1> QED
    BY TypeInit, TypeStep, PTL DEF SetupSpec

(* Whatever is killed wherever, settings that were on disk are lost only   *)
(* by a kill in the midst of a save over them.                             *)
THEOREM SettingsKeptHolds == SetupSpec => []SettingsKept
<1>1. SInv => SettingsKept
    BY DEF SInv
<1> QED
    BY <1>1, SetupTypes, SettingsInit, SettingsStep, PTL DEF SetupSpec

(* After `pair' has said that the key is saved, the file has a key that    *)
(* this TV accepts, unless the daemon saved one of another TV.             *)
THEOREM PairedKeyKeptHolds == SetupSpec => []PairedKeyKept
<1>1. PInv => PairedKeyKept
    BY DEF PInv
<1> QED
    BY <1>1, SetupTypes, KeysInit, KeysStep, PTL DEF SetupSpec

(* What the file names, and what everybody is going to write to it, makes  *)
(* a step of [Next]_vars one that TvAsChosen allows.                       *)
LEMMA NamedAsChosen ==
    ASSUME TypeOK, TInv, [Next]_vars, named' # named, Clean
    PROVE  /\ pc[Cli] = "writing" /\ pc'[Cli] = "askPair"
           /\ pick.how = "typed" \/ (named = None /\ pick.how = "enter")
<1>t. DataOK /\ pc \in [Procs -> Places]
    BY Typed
<1>c. Cli \in Procs /\ Daemon \in Procs /\ Procs = {Cli, Daemon} /\ Cli # Daemon
    BY SetupAssumption DEF Procs
<1>1. PICK p \in Procs : Write(p)
    BY <1>c DEF Next, FileStep, Load, Truncate, Unlink, Refused, Connects, MakeClient, TruncateKey,
       WriteKey, Start, Handshake, HandshakeFails, KeepsConfig, Choose, ChoosesNone, AnswersMac,
       AsksToPair, FillsMac, EnablesWol, Install, InstallsNot, Restarts, Login, Crashes,
       Interrupted, SessionEnds, RemovesService, Stops, Forgets, files, vars
<1>2. /\ <<pc[p], pc'[p]>> \in {<<"migrating", "unlink">>, <<"writing", "askPair">>,
                               <<"filling", "wol">>}
      /\ named' = cfg[p].ip
    BY <1>1, <1>t, Saves DEF Write, Step
<1>3. Holds /\ OnlyMigrates
    BY DEF TInv
<1>4. pc[p] # "migrating"
    BY <1>2, <1>3 DEF Holds
<1>5. p = Cli /\ pc[Cli] # "filling"
    BY <1>2, <1>3, <1>4, <1>c DEF Holds, OnlyMigrates, Named
<1> QED
    BY <1>2, <1>3, <1>4, <1>5 DEF Holds

(* config.yaml comes to name another TV only where the user chose one, or  *)
(* by Enter where there was none, and then a confirmed one if there is any.*)
THEOREM TvAsChosenHolds == SetupSpec => TvAsChosen
<1>1. TypeOK /\ TInv /\ [Next]_vars =>
        [named' # named =>
           \/ {"overlap", "blank"} \cap history # {}
           \/ /\ pc[Cli] = "writing" /\ pc'[Cli] = "askPair"
              /\ pick.how = "typed" \/ (named = None /\ pick.how = "enter")]_vars
    BY NamedAsChosen DEF Clean
<1> QED
    BY <1>1, SetupTypes, SettingsInit, SettingsStep, NamedInit, NamedStep, PTL
    DEF SetupSpec, TvAsChosen
=============================================================================
