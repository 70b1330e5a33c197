----------------------------- MODULE MCEnsureOn -----------------------------
(* Instances of EnsureOn for TLC.                                          *)
EXTENDS EnsureOn
=============================================================================
