---------------------------- MODULE MCDrmTrigger ----------------------------
(* Instances of DrmTrigger for TLC.                                        *)
EXTENDS DrmTrigger

CONSTANTS card0, card1

MCConnectors == <<card0, card1>>
MCName == [c \in {card0, card1} |-> IF c = card0 THEN "eDP-1" ELSE "HDMI-A-1"]

(* The TV is on the second card and may have no readable EDID; on the      *)
(* first is another panel, which may be by LG Display.  1E6D is GSM, 30E4  *)
(* is LGD, 0DAE is CMN with bit 15 clear.                                  *)
Panel(packed) == [header |-> TRUE, packed |-> packed]
NoEdid == [header |-> FALSE, packed |-> 0]
MCEdids == [c \in {card0, card1} |->
              IF c = card1 THEN {Panel(7789), NoEdid} ELSE {Panel(3502), Panel(12516)}]
=============================================================================
