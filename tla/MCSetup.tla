------------------------------ MODULE MCSetup ------------------------------
(* An instance of Setup for TLC: the TV configured before and another one. *)
EXTENDS Setup

MCHosts == {1, 2}
MCTvs   == {1, 2}

(* Every way to be found and to be confirmed, one at a time, with the MAC  *)
(* address known or not.                                                   *)
Silent == [ssdp |-> FALSE, arp |-> FALSE, open |-> {}, airplay |-> "silent",
           cert |-> FALSE, mac |-> FALSE]
Open(ports) == [Silent EXCEPT !.arp = TRUE, !.open = ports]

MCAnswers == {
    Silent,
    [Silent EXCEPT !.arp = TRUE, !.mac = TRUE],
    [Silent EXCEPT !.ssdp = TRUE, !.mac = TRUE],
    [Silent EXCEPT !.ssdp = TRUE, !.open = {3001}],
    [Silent EXCEPT !.open = {3001}, !.airplay = "lg", !.mac = TRUE],
    Open({3000}),
    [Open({3001}) EXCEPT !.mac = TRUE],
    [Open({3000, 3001}) EXCEPT !.cert = TRUE, !.mac = TRUE],
    [Open({3000}) EXCEPT !.cert = TRUE],
    [Open({3000}) EXCEPT !.airplay = "model", !.mac = TRUE],
    [Open({3001}) EXCEPT !.airplay = "other"]}
=============================================================================
