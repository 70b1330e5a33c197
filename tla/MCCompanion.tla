---------------------------- MODULE MCCompanion ----------------------------
(* Instances of Companion for TLC.                                         *)
EXTENDS Companion

=============================================================================
