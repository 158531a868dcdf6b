---------------------------- MODULE MCSyncFuzzers ---------------------------
(* An instance of SyncFuzzers, and with it of OutDir, for TLC.              *)
EXTENDS SyncFuzzers

SecondSeed == {2}
=============================================================================
