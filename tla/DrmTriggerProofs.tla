-------------------------- MODULE DrmTriggerProofs --------------------------
(***************************************************************************)
(* What holds of the DRM trigger for any number of connectors, whatever    *)
(* their names and EDIDs: it only ever looks at a connector that exists,   *)
(* and where the panel that is meant is always there to be chosen, it      *)
(* looks at no other.                                                      *)
(***************************************************************************)
EXTENDS DrmTrigger, WellFoundedInduction, TLAPS

-----------------------------------------------------------------------------
(* The choice.                                                             *)

(* Connectors is a sequence, so it has numbered places.                    *)
LEMMA Indices == DOMAIN Connectors = 1 .. Len(Connectors) /\ Len(Connectors) \in Nat
<1>1. Connectors \in Seq(Directories)
    BY ConnectorsAssumption
<1> QED
    BY <1>1

(* sorted(...)[0]: some candidates have a first, and it is one of them.    *)
LEMMA FirstIsOne ==
    ASSUME NEW some \in SUBSET Directories, some # {}
    PROVE  FirstOf(some) \in some
<1> DEFINE T == {i \in DOMAIN Connectors : Connectors[i] \in some}
           First(i) == /\ Connectors[i] \in some
                       /\ \A j \in 1 .. i - 1 : Connectors[j] \notin some
<1>1. T \subseteq Nat /\ T # {}
    BY Indices DEF Directories
<1>2. PICK i \in T : \A j \in T : ~ (<<j, i>> \in OpToRel(<, Nat))
    BY <1>1, WFMin, NatLessThanWellFounded
<1>3. \A j \in T : ~ (j < i)
    BY <1>1, <1>2 DEF OpToRel
<1>4. \A j \in 1 .. i - 1 : j \in DOMAIN Connectors /\ j < i
    BY Indices, <1>1
<1>5. i \in DOMAIN Connectors /\ First(i)
    BY <1>3, <1>4
<1>6. First(CHOOSE j \in DOMAIN Connectors : First(j))
    BY <1>5
<1> QED
    BY <1>6 DEF FirstOf

(* resolve: a choice is one of the candidates of the kind that is wanted.  *)
LEMMA ChosenIsOne ==
    ASSUME path = NoPath, Chosen # NoPath
    PROVE  /\ Chosen \in Candidates
           /\ configured # NoName => Chosen \in Named
           /\ configured = NoName /\ Lgs # {} => Chosen \in Lgs
<1>1. /\ Candidates \subseteq Directories /\ Named \subseteq Candidates
      /\ Lgs \subseteq Candidates /\ Attached \subseteq Candidates
    BY DEF Candidates, Named, Lgs, Attached
<1>2. \A some \in SUBSET Directories : FirstOf(some) # NoPath => FirstOf(some) \in some
    BY FirstIsOne DEF FirstOf
<1>3. CASE configured # NoName
    BY <1>1, <1>2, <1>3 DEF Chosen
<1>4. CASE configured = NoName
    BY <1>1, <1>2, <1>4 DEF Chosen
<1> QED
    BY <1>3, <1>4

(* resolve returns a directory or raises.                                  *)
LEMMA ChosenTyped ==
    ASSUME path \in Directories \cup {NoPath}
    PROVE  Chosen \in Directories \cup {NoPath}
BY ChosenIsOne DEF Chosen, Candidates

-----------------------------------------------------------------------------
(* Types.                                                                  *)

(* A value that can be read is one that the driver reports.                *)
LEMMA ReadTyped ==
    ASSUME NEW c \in Directories, node[c] \in Facts(c),
           ReadDpms(c) # Drm!Unreadable
    PROVE  ReadDpms(c) \in Reported
BY DEF ReadDpms, Facts, DpmsNodes

(* What a listener knows is one of three, whatever has just been told.     *)
LEMMA HeardTyped ==
    ASSUME TypeOK, Dispatched
    PROVE  heard' \in {"On", "Off", "unsure"}
BY Zenon DEF TypeOK, Dispatched

(* min(delay * 2, 60) stays between the first delay and a minute.          *)
LEMMA LongerTyped == \A d \in 2 .. 60 : Longer(d) \in 2 .. 60
BY DEF Longer

(* Whatever happens to a connector, sysfs says something of it.            *)
LEMMA ChangesTyped ==
    ASSUME TypeOK, NEW c \in Directories, Changes(c)
    PROVE  DOMAIN node' = Directories /\ \A d \in Directories : node'[d] \in Facts(d)
BY DEF TypeOK, Changes

(* TypeOK holds of a new service and is kept by every step.                *)
LEMMA TypeInit == Init => TypeOK
BY DEF Init, TypeOK

(* One step per action; only the two that choose and the two that sample   *)
(* need more than their own assignments.                                   *)
LEMMA TypeStep ==
    ASSUME TypeOK, [Next]_vars
    PROVE  TypeOK'
<1>1. CASE RunStarts
  <2>1. Chosen \in Directories
      BY <1>1, ChosenTyped DEF RunStarts, TypeOK
  <2>2. stable' \in Reported \cup {"On"}
      BY <1>1, <2>1, ReadTyped DEF RunStarts, TypeOK
  <2> QED
      BY <1>1, <2>1, <2>2 DEF RunStarts, TypeOK, Sure
<1>2. CASE RunCrashes
    BY <1>2 DEF RunCrashes, TypeOK
<1>3. CASE Supervise
    BY <1>3, LongerTyped DEF Supervise, TypeOK
<1>4. CASE Sample
  <2>1. path \in Directories
      BY <1>4 DEF Sample, TypeOK
  <2> QED
      BY <1>4, <2>1, ReadTyped DEF Sample, TypeOK
<1>5. CASE Dispatched
    BY <1>5, HeardTyped DEF Dispatched, TypeOK
<1>6. CASE Current
    BY <1>6, ChosenTyped DEF Current, TypeOK
<1>7. ASSUME NEW c \in Directories, Changes(c) PROVE TypeOK'
    BY <1>7, ChangesTyped DEF Changes, TypeOK
<1>8. CASE UNCHANGED vars
    BY <1>8 DEF vars, TypeOK
<1> QED
    BY <1>1, <1>2, <1>3, <1>4, <1>5, <1>6, <1>7, <1>8 DEF Next, RunStep

(* The connector polled is a directory of sysfs, run never polls without   *)
(* one, and no restart of _supervise waits longer than a minute, for any   *)
(* number of connectors and any number of crashes.                         *)
THEOREM DrmTypes == DrmTriggerSpec => []TypeOK
BY TypeInit, TypeStep, PTL DEF DrmTriggerSpec

-----------------------------------------------------------------------------
(* The choice is made once, by run or by current, among the connectors     *)
(* there are at that moment: by its name when one is configured, else from *)
(* LG's panels when there are any.                                         *)
ChosenOnce ==
    path' # path =>
        /\ path = NoPath /\ path' \in Candidates
        /\ IF configured # NoName THEN Name[path'] = configured
                                  ELSE Lgs # {} => path' \in Lgs

(* Only run and current assign _path, and only what resolve chose.         *)
LEMMA ChosenOnceStep ==
    ASSUME [Next]_vars, path' # path
    PROVE  path = NoPath /\ Chosen # NoPath /\ path' = Chosen
<1>1. RunStarts \/ Current
    BY DEF Next, RunStep, RunCrashes, Supervise, Sample, Dispatched, Changes, vars
<1> QED
    BY <1>1 DEF RunStarts, Current, Chosen

(* resolve fixes _path for the life of the service and never takes a       *)
(* connector without a dpms node, nor another panel than LG's if there is  *)
(* one of LG's, whoever called it first.                                   *)
THEOREM ChosenOnceHolds == DrmTriggerSpec => [][ChosenOnce]_vars
<1>1. ASSUME [Next]_vars PROVE [ChosenOnce]_vars
    BY <1>1, ChosenOnceStep, ChosenIsOne DEF ChosenOnce, Named
<1> QED
    BY <1>1, PTL DEF DrmTriggerSpec

(* The safety half of TvWatched.  As long as the panel that is meant is    *)
(* among the candidates whenever there are any, which other panels come    *)
(* and go and whoever calls resolve first, no other is ever looked at.     *)
THEOREM OnlyTvWatched ==
    ASSUME NEW CONSTANT tv \in Directories
    PROVE  DrmTriggerSpec /\ []Meant(tv) => [](path \in {NoPath, tv})
<1> DEFINE OnlyTv == path \in {NoPath, tv}
<1>1. Init => OnlyTv
    BY DEF Init
<1>2. OnlyTv /\ Meant(tv) /\ [Next]_vars => OnlyTv'
  <2> SUFFICES ASSUME OnlyTv, Meant(tv), [Next]_vars PROVE OnlyTv'
      OBVIOUS
  <2>1. CASE path' = path
      BY <2>1
  <2>2. CASE path' # path
    <3>1. path = NoPath /\ Chosen # NoPath /\ path' = Chosen
        BY <2>2, ChosenOnceStep
    <3>2. Chosen \in {tv}
        BY <3>1, ChosenIsOne DEF Meant
    <3> QED
        BY <3>1, <3>2
  <2> QED
      BY <2>1, <2>2
<1> HIDE DEF OnlyTv
<1>3. DrmTriggerSpec /\ []Meant(tv) => []OnlyTv
    BY <1>1, <1>2, PTL DEF DrmTriggerSpec
<1> QED
    BY <1>3 DEF OnlyTv
=============================================================================
