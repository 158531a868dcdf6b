---------------------------- MODULE MCSeedQueue ----------------------------
(* Instances of SeedQueue for TLC: the cfg files give the constants.        *)
EXTENDS SeedQueue
=============================================================================
