-------------------------- MODULE MCWidgetDatabase --------------------------
(***************************************************************************)
(* A codec of seven nodes: one absent, a converter, a mixer whose          *)
(* connection list takes five responses, holds range entries and has one   *)
(* input amplifier more than a verb can name, a pin, a selector with a     *)
(* long list, an input converter whose input amplifier has no              *)
(* capabilities, and a pin whose device and location have no names and     *)
(* whose colour is printed wrongly.                                        *)
(***************************************************************************)
EXTENDS WidgetDump, TLC

NoConfig == [location |-> "None", device |-> "Other", connection |-> 0,
             colour |-> 0, rest |-> 0]

Plain == [type |-> "Absent", digital |-> FALSE, hasList |-> FALSE, hasIn |-> FALSE,
          hasOut |-> FALSE, streams |-> {}, config |-> NoConfig, pins |-> {}, entries |-> <<>>,
          long |-> FALSE, selection |-> 0, inCap |-> NoCap, outCap |-> NoCap]

MCCodec ==
  0 :> Plain @@
  1 :> [Plain EXCEPT !.type = "Output", !.streams = {5, 6, 8, 17},
                     !.digital = TRUE, !.hasOut = TRUE, !.outCap = 87 + 128] @@
  2 :> [Plain EXCEPT !.type = "Mixer", !.hasList = TRUE,
                     !.entries = <<1, 4, 133, 3, 6, 1, 131, 4, 2, 5, 1, 6, 3, 2, 4, 1, 5>>,
                     !.selection = 2,
                     !.hasIn = TRUE, !.inCap = 23 + 128] @@
  3 :> [Plain EXCEPT !.type = "PinComplex", !.pins = {2, 3, 4},
                     !.config = [location |-> "Front", device |-> "HeadphoneOut",
                                 connection |-> 1, colour |-> 4, rest |-> 4095],
                     !.hasList = TRUE, !.entries = <<2, 1>>, !.selection = 1,
                     !.hasIn = TRUE, !.inCap = 0, !.hasOut = TRUE, !.outCap = 64] @@
  4 :> [Plain EXCEPT !.type = "Selector", !.hasList = TRUE,
                     !.entries = <<3, 1>>, !.long = TRUE, !.selection = 1] @@
  5 :> [Plain EXCEPT !.type = "Input", !.streams = {0, 10, 20}, !.hasIn = TRUE] @@
  6 :> [Plain EXCEPT !.type = "PinComplex", !.pins = {5},
                     !.config = [location |-> "Top", device |-> "CD",
                                 connection |-> 8, colour |-> 14, rest |-> 0]]

(* Every amplifier is set differently, left and right too.                 *)
MCBios == [n \in 0..6 |-> [a \in 0..(IF n = 2 THEN 17 ELSE IF n \in {3, 5} THEN 1 ELSE 0) |->
             [left |-> 40 * n + 2 * a, right |-> 40 * n + 2 * a + 1]]]

(* A reset leaves every amplifier muted at volume 0.                       *)
MCReset == [n \in 0..6 |-> [a \in DOMAIN MCBios[n] |-> [left |-> 128, right |-> 128]]]
=============================================================================
