-------------------------- MODULE MCFuzzerManager --------------------------
(* Instances of FuzzerManager for TLC: the cfg files give the constants.    *)
EXTENDS FuzzerManager
=============================================================================
