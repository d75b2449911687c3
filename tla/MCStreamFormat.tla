--------------------------- MODULE MCStreamFormat ---------------------------
(***************************************************************************)
(* Every argument of set with up to 17 channels.                           *)
(***************************************************************************)
EXTENDS StreamFormat
=============================================================================
