--------------------------- MODULE MCPrintFormat ---------------------------
(***************************************************************************)
(* Every number of 8 bits, unsigned and signed, alone and after a text, and *)
(* a line that is cut off within a number, a string or nowhere.            *)
(***************************************************************************)
EXTENDS PrintFormat

MCFormats ==
  UNION {{<<Number("u", n)>>, <<Number("d", n)>>,
          <<Char("="), Char("$"), Number("x", n)>>,
          <<Text(<<"n", "o">>), Number("d", n), Char("."), Number("u", n)>>} :
         n \in Numbers}
    \cup {<<Number("X", n), Char("!")>> : n \in {0, 255, 4660, 65535}}
=============================================================================
