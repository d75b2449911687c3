----------------------------- MODULE MCConsole -----------------------------
(***************************************************************************)
(* Keys: Enter, backspace, blank, '$', '1', 'a' (a hex digit), 'n', an     *)
(* arrow key without a character, and a key beyond the byte range.         *)
(***************************************************************************)
EXTENDS Console, TLC

MCNames == {<<110>>, <<97, 110>>}

(* "n" stands for nodeio with three parameters, "an" for one with one.     *)
MCParams == <<110>> :> 3 @@ <<97, 110>> :> 1
=============================================================================
