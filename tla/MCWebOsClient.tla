--------------------------- MODULE MCWebOsClient ---------------------------
(* Instances of WebOsClient for TLC.                                       *)
EXTENDS WebOsClient

=============================================================================
