----------------------------- MODULE MCCaseInfo -----------------------------
(* Instances of CaseInfo for TLC: the routes each run lets the clients call. *)
EXTENDS CaseInfo, TLC

AllRoutes == Routes
PauseOnly == {"/pause"}
WriteCurOnly == {"/write/cur"}
OneOfEachKind == {"/pause", "/resume", "/read/all", "/write/queue"}

\* The clients are interchangeable in every safety property.
ClientSymmetry == Permutations(Clients)
=============================================================================
