----------------------------- MODULE Discovery -----------------------------
(***************************************************************************)
(* discover.py: what one scan of the network offers to the user.  A host   *)
(* is its IPv4 address, a number, so that addresses compare the way        *)
(* _ip_key does.  What a host lets the scan see is an answer:              *)
(*   ssdp     it answers the search with a webOS or LG hint                *)
(*   arp      it is in the neighbour table when the scan begins            *)
(*   open     those of the two SSAP ports that accept a connection         *)
(*   airplay  what /info says: nothing, LG as the manufacturer, a model    *)
(*            that starts like an LG TV's, or something else               *)
(*   cert     port 3001 presents an LG Electronics certificate             *)
(*   mac      the neighbour table has its MAC address after a ping         *)
(* Names and labels are left out: they are only printed.                   *)
(***************************************************************************)
EXTENDS Integers, Sequences, FiniteSets

None == 0           \* no address, no MAC address, no port

Answer == [ssdp : BOOLEAN, arp : BOOLEAN, open : SUBSET {3000, 3001},
           airplay : {"silent", "lg", "model", "other"},
           cert : BOOLEAN, mac : BOOLEAN]

(* The secure port is tried first.                                         *)
OpenSsapPort(a) ==
    IF 3001 \in a.open THEN 3001 ELSE IF 3000 \in a.open THEN 3000 ELSE None

(* discover() and its _enrich, for one address.                            *)
Candidate(ip, a) ==
    [ip |-> ip, mac |-> IF a.mac THEN ip ELSE None, ssap_port |-> OpenSsapPort(a),
     webos |-> \/ a.ssdp
               \/ a.airplay \in {"lg", "model"}
               \/ OpenSsapPort(a) = 3001 /\ a.cert]

(* Hosts that answer the search with a hint, then neighbours that accept   *)
(* on a port; what is neither confirmed nor open in the end is dropped.    *)
Candidates(lan) ==
    LET seen == {ip \in DOMAIN lan :
                    lan[ip].ssdp \/ (lan[ip].arp /\ OpenSsapPort(lan[ip]) # None)}
    IN  {c \in {Candidate(ip, lan[ip]) : ip \in seen} : c.webos \/ c.ssap_port # None}

(* Mutant of Before: by port and address only.                             *)
BeforeByPort(c, d) ==
    \/ c.ssap_port # None /\ d.ssap_port = None
    \/ (c.ssap_port = None) = (d.ssap_port = None) /\ c.ip < d.ip

(* The sort key (not webos, no port, address).                             *)
Before(c, d) ==
    \/ c.webos /\ ~ d.webos
    \/ c.webos = d.webos /\ c.ssap_port # None /\ d.ssap_port = None
    \/ /\ c.webos = d.webos
       /\ (c.ssap_port = None) = (d.ssap_port = None)
       /\ c.ip < d.ip

(* No two candidates have the same key, so the place of one in the sorted  *)
(* list is told by how many come before it.                                *)
Place(c, found) == Cardinality({d \in found : Before(d, c)}) + 1

Discover(lan) ==
    LET found == Candidates(lan)
    IN  [i \in 1..Cardinality(found) |-> CHOOSE c \in found : Place(c, found) = i]

=============================================================================
