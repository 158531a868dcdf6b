---------------------------- MODULE MCForkServer ----------------------------
(* An instance of ForkServer for TLC: every way to run the target.          *)
EXTENDS ForkServer

AllModes == {"forkserver", "persistent", "no_forkserver"}
=============================================================================
