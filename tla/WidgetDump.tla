----------------------------- MODULE WidgetDump -----------------------------
(***************************************************************************)
(* HDA::Widget::dump, which the node command calls: what a user is told of *)
(* the codec, as the set of the facts it prints. It reads the database and *)
(* nothing else, so a user is told what was true when a verb was answered, *)
(* and of what was never answered what the constructors put there.         *)
(***************************************************************************)
EXTENDS WidgetDatabase

dumpAmp(part, channel, a) ==
  IF ~a.valid THEN {}
  ELSE {<<part, channel, side, a[side] % 128,
          CASE ~a.canMute                    -> "noMute"
            [] a.canMute /\ a[side] >= 128   -> "MUTED"
            [] a.canMute /\ a[side] < 128    -> "unmuted">> : side \in {"left", "right"}}

InputAmps(x) ==
  IF ~x.hasIn THEN {}
  ELSE {<<"inputAmps">>} \cup
       UNION {dumpAmp("input", i - 1, x.inputAmps[i]) : i \in DOMAIN x.inputAmps}

OutputAmp(x) ==
  IF ~x.hasOut THEN {}
  ELSE {<<"outputAmp">>} \cup dumpAmp("output", 0, x.outputAmp)

Connections(x) == {<<"connection", i, x.list[i]>> : i \in DOMAIN x.list}

(* Samples per second as they are printed, by bit.                         *)
Rates == <<8000, 11025, 16000, 22050, 32000, 44100, 48000, 88200, 96000,
           1764000, 1920000, 3840000>>

Widths == <<8, 16, 20, 24, 32>>

dumpSupportedStreams(bits) ==
  {<<"sps", Rates[b + 1]>> : b \in bits \cap 0..11}
    \cup {<<"bits", Widths[b - 15]>> : b \in bits \cap 16..20}

(* dumpInput and dumpOutput.                                               *)
dumpConverter(x) == InputAmps(x) \cup OutputAmp(x) \cup Connections(x)
                    \cup dumpSupportedStreams(x.streams)

dumpMixer(x) == Connections(x) \cup InputAmps(x) \cup OutputAmp(x)

(* The array has 16 places and 13 names: the rest are null pointers.       *)
ColourNames == <<"Unknown", "Black", "Grey", "Blue", "Green", "Red", "Orange", "Yellow",
                 "Purple", "Pink", "Reserved", "White", "Other",
                 "null", "null", "null">>

dumpJackInfo(x) == {<<"colour", ColourNames[x.colour + 1]>>, <<"location", x.location>>}

PinFlags(x) == {f \in {<<"headphone">>, <<"inputPin">>, <<"outputPin">>} :
                  \/ f = <<"headphone">> /\ x.headphone
                  \/ f = <<"inputPin">> /\ x.inputPin
                  \/ f = <<"outputPin">> /\ x.outputPin}

(* Faulty: the selection is taken to count from 1.                         *)
SelectedFromOne(x) == {<<"selected", i, x.list[i]>> : i \in DOMAIN x.list \cap {x.selection}}

Selected(x) == {<<"selected", i, x.list[i]>> : i \in DOMAIN x.list \cap {x.selection + 1}}

dumpPinComplex(x) == {<<"function", x.device>>} \cup PinFlags(x) \cup dumpJackInfo(x)
                     \cup Connections(x) \cup Selected(x)

dump(x) ==
  {<<"ID", x.id>>, <<"type", x.type>>}
    \cup (IF x.digital THEN {<<"digital">>} ELSE {})
    \cup CASE x.type \in {"Input", "Output"} -> dumpConverter(x)
           [] x.type = "Mixer"               -> dumpMixer(x)
           [] x.type = "PinComplex"          -> dumpPinComplex(x)
           [] OTHER                          -> {}
-----------------------------------------------------------------------------
(* What the facts mean, in terms of the codec's registers.                  *)

SampleHz == <<8000, 11025, 16000, 22050, 32000, 44100, 48000, 88200, 96000,
              176400, 192000, 384000>>

(* The colour codes of the default configuration.                           *)
TrueColour(code) == CASE code <= 9       -> ColourNames[code + 1]
                      [] code \in 10..13 -> "Reserved"
                      [] code = 14       -> "White"
                      [] code = 15       -> "Other"

(* Bits 16..20 of the register: 8, 16, 20, 24 and 32 bits a sample.        *)
SampleBits(bit) == IF bit \in 17..19 THEN 4 * (bit - 13) ELSE IF bit = 16 THEN 8 ELSE 32

ShownLevel(cap, s, f) ==
  /\ cap # NoCap
  /\ f[4] = s[f[3]] % 128
  /\ f[5] = IF cap < 128 THEN "noMute" ELSE IF s[f[3]] < 128 THEN "unmuted" ELSE "MUTED"

(* What fact f says of node n is true of the codec.                        *)
TrueOf(n, f) ==
  LET c == Codec[n] IN
  CASE f[1] = "ID"           -> f[2] = n
    [] f[1] = "type"         -> f[2] = c.type
    [] f[1] = "digital"      -> c.digital
    [] f[1] = "connection"   -> f[3] = c.entries[f[2]] % 128
    [] f[1] = "selected"     -> f[2] = c.selection + 1 /\ f[3] = c.entries[f[2]] % 128
    [] f[1] = "sps"          -> \E b \in c.streams \cap 0..11 : f[2] = SampleHz[b + 1]
    [] f[1] = "bits"         -> \E b \in c.streams \cap 16..20 : f[2] = SampleBits(b)
    [] f[1] = "function"     -> f[2] = c.config.device
    [] f[1] = "location"     -> f[2] = c.config.location
    [] f[1] = "colour"       -> f[2] = TrueColour(c.config.colour)
    [] f[1] = "headphone"    -> 3 \in c.pins
    [] f[1] = "outputPin"    -> 4 \in c.pins
    [] f[1] = "inputPin"     -> 5 \in c.pins
    [] f[1] = "inputAmps"    -> c.hasIn
    [] f[1] = "outputAmp"    -> c.hasOut
    [] f[1] = "input"        -> ShownLevel(c.inCap, settings[n][f[2]], f)
    [] f[1] = "output"       -> ShownLevel(c.outCap, settings[n][Inputs(n)], f)

(* What is printed in place of a name the driver does not have.            *)
Unnamed == {<<"type", "Unknown">>, <<"function", "Unknown">>, <<"location", "Unknown">>}

(* What is printed wrongly of node n: the rates above 96000, tenfold, and a *)
(* colour with a code above 10 (NamesShown).                                *)
Misprinted(n, f) ==
  \/ \E b \in Codec[n].streams \cap 9..11 : f = <<"sps", Rates[b + 1]>>
  \/ f[1] = "colour" /\ Codec[n].config.colour > 10

(* What a lost response may have put in place of the truth: node 0 in a     *)
(* list, its first entry as the selected one, volume 0.                     *)
Placeholder(f) == \/ f = <<"colour", "Unknown">>
                  \/ f[1] = "connection" /\ f[3] = 0
                  \/ f[1] = "selected" /\ (f[2] = 1 \/ f[3] = 0)
                  \/ f[1] \in {"input", "output"} /\ f[4] = 0 /\ f[5] # "MUTED"

(* A user is told nothing false: every fact that the node command prints    *)
(* after the scan is true of the codec or says that it is not known, the    *)
(* misprints above excepted. Only a lost response makes it print the        *)
(* placeholders, and only they are false. Amplifier levels are as old as    *)
(* the last reading, which RefreshRepairs is about; here they are compared  *)
(* until the controller is reset, and those of the input amplifiers for the *)
(* first sixteen.                                                           *)
NodeShows ==
  task = "none" =>
    \A n \in Nodes : widgets[n] # DefaultWidget(0) =>
      \A f \in dump(widgets[n]) :
        \/ TrueOf(n, f)
        \/ f \in Unnamed
        \/ Misprinted(n, f)
        \/ lost > 0 /\ Placeholder(f)
        \/ wasReset /\ f[1] \in {"input", "output"}
        \/ f[1] = "input" /\ f[2] >= Addressed

(* Where nothing was ever lost, the rates and the colour printed of a node *)
(* are those of the codec. False: 192000 samples per second are printed as *)
(* 1920000, and the names of the colours after the reserved ones are three *)
(* places before their codes.                                              *)
NamesShown ==
  task = "none" /\ lost = 0 =>
    \A n \in Nodes : \A f \in dump(widgets[n]) :
      f[1] \in {"sps", "colour"} => TrueOf(n, f)
=============================================================================
