------------------------------ MODULE MCStages ------------------------------
(* An instance of Stages for TLC: the numbers of config.h, every input of   *)
(* one byte, inputs of two bytes around carries and borrows, and a few of   *)
(* three, which with these bounds have a byte the effector map may exclude. *)
EXTENDS Stages

Config8 == <<-128, -1, 0, 1, 16, 32, 64, 100, 127>>
Config16 == Config8 \o
  <<-32768, -129, 128, 255, 256, 512, 1000, 1024, 4096, 32767>>

Edges == {0, 1, 15, 31, 64, 100, 127, 128, 144, 224, 240, 255}

SmallInputs ==
  {<<b>> : b \in Byte} \cup (Edges \X Edges)
    \cup {<<0, 0, 0>>, <<255, 128, 1>>, <<232, 7, 232>>}
=============================================================================
