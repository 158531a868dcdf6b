------------------------------ MODULE DataArea ------------------------------
(***************************************************************************)
(* What the protocol on status and op promises about the data areas of     *)
(* struct CaseInfo.  It is a lock the clients never hold: a client goes in *)
(* unless the fuzzer is serving, and a claim asks nobody inside to come    *)
(* out.  The fuzzer serves once for each claim, and only clients a claim   *)
(* has overtaken can be inside meanwhile.  A fuzzer that starts clears the *)
(* areas whoever is inside, and lets clients in before it is done.         *)
(***************************************************************************)
CONSTANT Clients

VARIABLES
  claimed,     \* somebody has asked the fuzzer to use the areas
  fuzzer,      \* "out", "serving" or "clearing"
  inside,      \* the clients that use them
  overtaken    \* those of them that were inside when a claim was made

vars == <<claimed, fuzzer, inside, overtaken>>

Init ==
  /\ claimed = FALSE
  /\ fuzzer = "out"
  /\ inside = {}
  /\ overtaken = {}

Enter(c) ==
  /\ fuzzer # "serving"
  /\ c \notin inside
  /\ inside' = inside \cup {c}
  /\ UNCHANGED <<claimed, fuzzer, overtaken>>

Leave(c) ==
  /\ c \in inside
  /\ inside' = inside \ {c}
  /\ overtaken' = overtaken \ {c}
  /\ UNCHANGED <<claimed, fuzzer>>

\* The clients are threads of one process, and die together.
Die ==
  /\ inside' = {}
  /\ overtaken' = {}
  /\ UNCHANGED <<claimed, fuzzer>>

Claim ==
  /\ claimed' = TRUE
  /\ overtaken' = inside
  /\ UNCHANGED <<fuzzer, inside>>

Serve ==
  /\ claimed
  /\ fuzzer = "out"
  /\ inside \subseteq overtaken
  /\ fuzzer' = "serving"
  /\ UNCHANGED <<claimed, inside, overtaken>>

Answer ==
  /\ fuzzer = "serving"
  /\ fuzzer' = "out"
  /\ claimed' = FALSE
  /\ UNCHANGED <<inside, overtaken>>

Clear ==
  /\ fuzzer = "out"
  /\ fuzzer' = "clearing"
  /\ UNCHANGED <<claimed, inside, overtaken>>

\* The fuzzer has cleared the areas, or dies, or finds no operation to serve.
Stop ==
  /\ fuzzer # "out"
  /\ fuzzer' = "out"
  /\ UNCHANGED <<claimed, inside, overtaken>>

Next ==
  \/ Serve \/ Answer \/ Clear \/ Stop \/ Claim \/ Die
  \/ \E c \in Clients : Enter(c) \/ Leave(c)

Spec == Init /\ [][Next]_vars
=============================================================================
