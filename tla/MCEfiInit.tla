----------------------------- MODULE MCEfiInit -----------------------------
(***************************************************************************)
(* Two buses that are probed and one that is not, two devices of three     *)
(* functions: up to three HD audio functions anywhere, so that a find can  *)
(* hide another and up to three searches find something.                   *)
(*                                                                         *)
(* Firmware that has every mode, the largest last or first; two modes with  *)
(* as many rows; the largest mode behind one that is missing; no mode 0.   *)
(***************************************************************************)
EXTENDS EfiInit, TLC

Small == [cols |-> 80, rows |-> 25]
Wide  == [cols |-> 100, rows |-> 25]
High  == [cols |-> 80, rows |-> 50]

Modes(first, second, third) == 0 :> first @@ 1 :> second @@ 2 :> third

MCTables == {Modes(Small, Wide, High), Modes(High, Small, Wide), Modes(Small, NoSize, High),
             Modes(NoSize, Small, High), Modes(Small, Wide, NoSize)}
=============================================================================
