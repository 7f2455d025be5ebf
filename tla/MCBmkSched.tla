---------------------------- MODULE MCBmkSched ----------------------------
(***************************************************************************)
(* Instances of BmkSched for TLC.                                          *)
(***************************************************************************)
EXTENDS BmkSched

=============================================================================
