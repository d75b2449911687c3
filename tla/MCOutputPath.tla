---------------------------- MODULE MCOutputPath ----------------------------
(***************************************************************************)
(* A pin left as an input with a voltage reference (37, in the cfg).        *)
(* The codec's identity, taken for capabilities or for a pin control, has  *)
(* another step and another voltage reference.                             *)
(***************************************************************************)
EXTENDS OutputPath

MCSteps == [n \in Nodes |-> CASE n = "converter" -> 87
                              [] n = "mixer" -> 23
                              [] n = "pin" -> 0]
=============================================================================
