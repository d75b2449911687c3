--------------------------- MODULE MCStreamControl ---------------------------
(***************************************************************************)
(* Controllers without input streams and with two; two output streams.     *)
(***************************************************************************)
EXTENDS StreamControl
=============================================================================
