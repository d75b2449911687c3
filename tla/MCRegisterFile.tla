--------------------------- MODULE MCRegisterFile ---------------------------
(***************************************************************************)
(* Every format word of 16 bits, every argument of set with up to 17       *)
(* channels, and the registers its word and everything else goes to.       *)
(***************************************************************************)
EXTENDS PlayedFormat

MCWords == 0..65535

(* Distinct bytes, to tell which of them arrived where.                    *)
MCValues == {<<11, 22, 33, 44, 55, 66, 77, 88>>, <<254, 253, 252, 251, 250, 249, 248, 247>>}

MCPositions == {<<100, 101, 102, 103>>}
MCDescriptorBuffer == <<0, 16, 32, 48>>
MCPositionBuffer == <<0, 144, 160, 176>>

(* The driver's own: a parameter, a gain of 16 bits, a stream number; and   *)
(* what nodeio may be given: a node, a verb or a payload that is too large. *)
MCVerbs == {[node |-> 2, verb |-> \hF00, payload |-> 9],
            [node |-> 27, verb |-> \h300, payload |-> \hB057],
            [node |-> 63, verb |-> \h706, payload |-> 16],
            [node |-> 300, verb |-> \h705, payload |-> 3],
            [node |-> 5, verb |-> \h1705, payload |-> 0],
            [node |-> 5, verb |-> \h705, payload |-> \hF0301]}

(* Nothing, beginnings of several names, of one, and more than a name.     *)
MCAbbreviations == {"", "corb", "s", "sdn", "o", "osdnb", "icsx"}
=============================================================================
