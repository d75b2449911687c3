--------------------------- MODULE MCAmpExchange ---------------------------
(***************************************************************************)
(* Eight verbs are the scan's reading of the amplifier (three), an unmute   *)
(* (two) and a refresh (three), in either order after the scan. A response *)
(* may be late by all of them: the shift can grow, shrink by a loss, and   *)
(* be drained before a task begins.                                        *)
(***************************************************************************)
EXTENDS AmpExchange

(* One side muted; every value that can be mistaken for another differs.   *)
MCPower == [left |-> 20, right |-> 158]
=============================================================================
