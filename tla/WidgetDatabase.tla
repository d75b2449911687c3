--------------------------- MODULE WidgetDatabase ---------------------------
(***************************************************************************)
(* HDACodec::m_widgets: what the driver believes about the codec.          *)
(* collectWidgetInformation fills it from the HDACodec constructor, before *)
(* the controller is reset; refreshWidget re-reads the amplifiers; the     *)
(* unmute command takes the gain it sets from it. Each action is one       *)
(* exchange of a verb and its response. An exchange may return no          *)
(* response; a response is the codec's own answer (ImmediateCommand says   *)
(* when it is).                                                            *)
(*                                                                         *)
(* A register is abstracted to what the driver extracts from it: a number, *)
(* or the set of the bits that are 1. A node may have more input           *)
(* amplifiers than the sixteen a verb can name. An amplifier setting is the byte the *)
(* codec keeps: the volume, plus 128 if muted. The capabilities are the    *)
(* 0 dB step, plus 128 if the amplifier can mute.                          *)
(***************************************************************************)
EXTENDS Integers, Sequences

CONSTANTS
  LastNode,      \* nodes 0..LastNode are scanned (63 in the code)
  Codec,         \* Codec[n]: the registers of node n, a record of CodecNode
  Bios,          \* Bios[n][a]: the settings before the controller is reset
  Reset,         \* Reset[n][a]: the settings a reset may leave in the codec
  Channels,      \* channels given to the unmute command
  MaxTimeouts,   \* bound on the exchanges without a response
  MaxCommands,   \* bound on the commands given
  NoResponse     \* the outcome of an exchange without a response

Nodes == 0..LastNode

NoCap == 256     \* the amplifier capabilities are 0

Types == {"Output", "Input", "Mixer", "Selector", "PinComplex", "BeepGen", "Vendor"}

(* The default configuration of a pin, as the codec's registers encode it. *)
Devices   == [LineOut |-> 0, Speaker |-> 1, HeadphoneOut |-> 2, CD |-> 3, SPDIFout |-> 4,
              Modem |-> 6, LineIn |-> 8, Aux |-> 9, MicIn |-> 10, SPDIFin |-> 12, Other |-> 15]
Locations == [None |-> 0, Rear |-> 1, Front |-> 2, Left |-> 3, Right |-> 4, Top |-> 5, Bottom |-> 6]

Config == [location : DOMAIN Locations, device : DOMAIN Devices,
           connection : 0..15, colour : 0..15, rest : 0..4095]

ConfigWord(c) == Locations[c.location] * 2^24 + Devices[c.device] * 2^20
                 + c.connection * 2^16 + c.colour * 2^12 + c.rest

CodecNode == [type : Types \cup {"Absent", "Other"},
              digital : BOOLEAN, hasList : BOOLEAN, hasIn : BOOLEAN, hasOut : BOOLEAN,
              streams : SUBSET (0..31), config : Config, pins : SUBSET (0..31),
              entries : Seq(0..255), long : BOOLEAN, selection : 0..255,
              inCap : 0..NoCap, outCap : 0..NoCap]

ASSUME LastNodeAssumption == LastNode \in Nat
ASSUME CodecAssumption == /\ DOMAIN Codec = Nodes
                          /\ \A n \in Nodes : Codec[n] \in CodecNode
ASSUME LengthAssumption == \A n \in Nodes : Len(Codec[n].entries) <= 127   \* seven bits
ASSUME NoResponseAssumption ==
  /\ NoResponse \notin Int
  /\ \A n \in Nodes : NoResponse # Codec[n].type /\ NoResponse # Codec[n].streams
                      /\ NoResponse # Codec[n].pins
ASSUME ChannelsAssumption == Channels \subseteq 0..15   \* the verb carries four bits
ASSUME BoundsAssumption == MaxTimeouts \in Nat /\ MaxCommands \in Nat

Setting == [left : 0..255, right : 0..255]

Inputs(n) == IF ~Codec[n].hasIn THEN 0
             ELSE IF Codec[n].type = "Mixer" THEN Len(Codec[n].entries)
             ELSE 1

(* The amplifiers of a node: its input amplifiers, then the output one.    *)
Amplifiers(n) == 0..Inputs(n)

IsSettings(s) == /\ DOMAIN s = Nodes
                 /\ \A n \in Nodes : s[n] \in [Amplifiers(n) -> Setting]

ASSUME SettingsAssumption == IsSettings(Bios) /\ IsSettings(Reset)

DefaultAmp == [valid |-> FALSE, canMute |-> FALSE, step |-> 0, left |-> 0, right |-> 0]

DefaultWidget(id) ==
  [id |-> id, type |-> "Unknown", digital |-> FALSE, hasIn |-> FALSE, hasOut |-> FALSE,
   streams |-> {}, device |-> "Unknown", location |-> "Unknown", colour |-> 0,
   headphone |-> FALSE, inputPin |-> FALSE, outputPin |-> FALSE,
   list |-> <<>>, selection |-> 0, inputAmps |-> <<>>, outputAmp |-> DefaultAmp]

VARIABLES
  task,       \* "scan", "refresh", "unmute", or "none" between commands
  pc,         \* the exchange of the task that is next
  node,       \* the node the task has come to
  w,          \* the widget being collected or refreshed
  amp,        \* the amplifier of w being read; a member of Amplifiers(node)
  reading,    \* what is known of that amplifier
  offset,     \* the connection list entry to read next
  gain,       \* the gain of the unmute command
  widgets,    \* m_widgets
  settings,   \* the codec's amplifier settings
  wasReset,   \* the controller was reset after the scan
  lost,       \* exchanges without a response
  lostBefore, \* history: lost when the task began
  commands    \* commands given

taskVars == <<task, pc, node, w, amp, reading, offset, gain>>
vars == <<taskVars, widgets, settings, wasReset, lost, lostBefore, commands>>

Init == /\ task = "scan"
        /\ pc = "cap"
        /\ node = 0
        /\ w = DefaultWidget(0)
        /\ amp = 0
        /\ reading = DefaultAmp
        /\ offset = 0
        /\ gain = 0
        /\ widgets = [n \in Nodes |-> DefaultWidget(0)]
        /\ settings = Bios
        /\ wasReset = FALSE
        /\ lost = 0
        /\ lostBefore = 0
        /\ commands = 0
-----------------------------------------------------------------------------
(* sendVerb followed by readVerbResponse.                                  *)
Exchange(truth, r) == \/ r = truth /\ UNCHANGED lost
                      \/ r = NoResponse /\ lost < MaxTimeouts /\ lost' = lost + 1

Answered(r) == r # NoResponse

ValueOr(r, default) == IF Answered(r) THEN r ELSE default

Unchanged == UNCHANGED <<wasReset, lostBefore, commands>>

(* The loop over the nodes goes on, or ends the task.                      *)
NextNode ==
  /\ node' = IF node = LastNode THEN 0 ELSE node + 1
  /\ task' = IF node = LastNode THEN "none" ELSE task
  /\ pc' = IF task = "scan" THEN "cap" ELSE "refresh"
-----------------------------------------------------------------------------
(* collectWidgetInformation                                                *)

AfterPins == IF Codec[node].hasList THEN "length" ELSE "amps"

AfterCap == CASE Codec[node].type \in {"Output", "Input"} -> "streams"
              [] Codec[node].type = "PinComplex" -> "config"
              [] OTHER -> AfterPins

(* The widget capabilities. A node that is absent is skipped, one that does *)
(* not answer is stored with its number and nothing else.                   *)
ReadCap ==
  /\ task = "scan" /\ pc = "cap"
  /\ \E r \in {Codec[node].type, NoResponse} :
       /\ Exchange(Codec[node].type, r)
       /\ \/ /\ Answered(r) /\ r # "Absent"
             /\ w' = [DefaultWidget(node) EXCEPT
                        !.type = IF r \in Types THEN r ELSE @,
                        !.digital = Codec[node].digital,
                        !.hasIn = Codec[node].hasIn,
                        !.hasOut = Codec[node].hasOut]
             /\ pc' = AfterCap
             /\ UNCHANGED <<task, node, widgets>>
          \/ /\ r = "Absent"
             /\ NextNode
             /\ UNCHANGED <<w, widgets>>
          \/ /\ ~Answered(r)
             /\ widgets' = [widgets EXCEPT ![node] = DefaultWidget(node)]
             /\ NextNode
             /\ UNCHANGED w
  /\ UNCHANGED <<amp, reading, offset, gain, settings>> /\ Unchanged

ReadStreams ==
  /\ task = "scan" /\ pc = "streams"
  /\ \E r \in {Codec[node].streams, NoResponse} :
       /\ Exchange(Codec[node].streams, r)
       /\ w' = [w EXCEPT !.streams = ValueOr(r, {})]
  /\ pc' = AfterPins
  /\ UNCHANGED <<task, node, amp, reading, offset, gain, widgets, settings>>
  /\ Unchanged

(* Bits first..first + 3 of a register.                                    *)
Nibble(word, first) == (word \div 2^first) % 16

LocationOf(code) == CASE code = 1 -> "Rear"
                      [] code = 2 -> "Front"
                      [] code = 3 -> "Left"
                      [] code = 4 -> "Right"
                      [] OTHER -> "Unknown"

DeviceOf(code) == CASE code = 0  -> "LineOut"
                    [] code = 1  -> "Speaker"
                    [] code = 2  -> "HeadphoneOut"
                    [] code = 4  -> "SPDIFout"
                    [] code = 8  -> "LineIn"
                    [] code = 10 -> "MicIn"
                    [] code = 12 -> "SPDIFin"
                    [] OTHER -> "Unknown"

WithConfig(x, config) == [x EXCEPT !.location = LocationOf(Nibble(config, 24)),
                                   !.device   = DeviceOf(Nibble(config, 20)),
                                   !.colour   = Nibble(config, 12)]

ReadConfig ==
  /\ task = "scan" /\ pc = "config"
  /\ LET config == ConfigWord(Codec[node].config) IN
     \E r \in {config, NoResponse} :
       /\ Exchange(config, r)
       /\ w' = IF Answered(r) THEN WithConfig(w, r) ELSE w
  /\ pc' = "pins"
  /\ UNCHANGED <<task, node, amp, reading, offset, gain, widgets, settings>>
  /\ Unchanged

ReadPins ==
  /\ task = "scan" /\ pc = "pins"
  /\ \E r \in {Codec[node].pins, NoResponse} :
       /\ Exchange(Codec[node].pins, r)
       /\ w' = IF Answered(r)
               THEN [w EXCEPT !.outputPin = 4 \in r, !.inputPin = 5 \in r,
                              !.headphone = 3 \in r]
               ELSE w
  /\ pc' = AfterPins
  /\ UNCHANGED <<task, node, amp, reading, offset, gain, widgets, settings>>
  /\ Unchanged

AfterList(length) == IF length # 0 /\ w.type # "Mixer" THEN "selection" ELSE "amps"

(* The connection list length; the long form is not read.                  *)
ReadLength ==
  /\ task = "scan" /\ pc = "length"
  /\ LET length == Len(Codec[node].entries) IN
     \E r \in {length, NoResponse} :
       /\ Exchange(length, r)
       /\ \/ /\ Answered(r) /\ ~Codec[node].long
             /\ w' = [w EXCEPT !.list = [i \in 1..length |-> 0]]
             /\ pc' = IF length = 0 THEN "amps" ELSE "entries"
          \/ /\ Answered(r) /\ Codec[node].long
             /\ UNCHANGED w
             /\ pc' = AfterList(length)
          \/ /\ ~Answered(r)
             /\ UNCHANGED w
             /\ pc' = "amps"
  /\ offset' = 0
  /\ UNCHANGED <<task, node, amp, reading, gain, widgets, settings>>
  /\ Unchanged

(* Of the codec: the response to a verb that asks for the entries from      *)
(* number from + 1 on, four to a word.                                      *)
EntryAt(entries, i) == IF i \in DOMAIN entries THEN entries[i] ELSE 0

EntryWord(entries, from) ==
  EntryAt(entries, from + 1) + 256 * EntryAt(entries, from + 2)
    + 65536 * EntryAt(entries, from + 3) + 16777216 * EntryAt(entries, from + 4)

(* The entries a response brings.                                          *)
Group(length) == {i \in 1..length : offset < i /\ i <= offset + 4}

(* Faulty: every entry of a group is taken from the low byte.               *)
Unshifted(data, k) == data

(* data >>= 8, k times.                                                     *)
Shifted(data, k) == data \div 256^k

(* Faulty: bit 7 of an entry is kept.                                       *)
EntryUnmasked(data) == data % 256

Entry(data) == data % 128

(* Faulty: the offset stays.                                                *)
NextOffsetSame == offset

NextOffset == offset + 4

(* Each entry is the low byte of what the shifts have left of the response, *)
(* without its bit 7. The entries of a response that is missing stay 0.     *)
ReadEntries ==
  /\ task = "scan" /\ pc = "entries"
  /\ LET length == Len(w.list)
         truth  == EntryWord(Codec[node].entries, offset)
     IN \E r \in {truth, NoResponse} :
          /\ Exchange(truth, r)
          /\ w' = IF Answered(r)
                  THEN [w EXCEPT !.list = [i \in 1..length |->
                          IF i \in Group(length)
                          THEN Entry(Shifted(r, i - 1 - offset)) ELSE @[i]]]
                  ELSE w
          /\ offset' = NextOffset
          /\ pc' = IF NextOffset < length THEN "entries" ELSE AfterList(length)
  /\ UNCHANGED <<task, node, amp, reading, gain, widgets, settings>>
  /\ Unchanged

ReadSelection ==
  /\ task = "scan" /\ pc = "selection"
  /\ \E r \in {Codec[node].selection, NoResponse} :
       /\ Exchange(Codec[node].selection, r)
       /\ w' = [w EXCEPT !.selection = ValueOr(r, @)]
  /\ pc' = "amps"
  /\ UNCHANGED <<task, node, amp, reading, offset, gain, widgets, settings>>
  /\ Unchanged
-----------------------------------------------------------------------------
(* getInputAmplifierInfo and getOutputAmplifierInfo, from the scan and from *)
(* refreshWidget. Amplifier Len(x.inputAmps) is the output amplifier.       *)

IsInput(x, a) == a < Len(x.inputAmps)

ReadsOutput(x) == IF task = "scan" THEN x.hasOut ELSE x.outputAmp.valid

(* Amplifier a of widget x is next, or the widget is done.                 *)
ReadAmpsFrom(x, a) ==
  /\ w' = x
  /\ amp' = a
  /\ \/ /\ IsInput(x, a) \/ (a = Len(x.inputAmps) /\ ReadsOutput(x))
        /\ pc' = "ampCap"
        /\ UNCHANGED <<task, node, widgets>>
     \/ /\ ~IsInput(x, a)
        /\ a = Len(x.inputAmps) => ~ReadsOutput(x)
        /\ widgets' = [widgets EXCEPT ![node] = x]
        /\ NextNode

NumberOfAmps == IF ~w.hasIn THEN 0
                ELSE IF w.type = "Mixer" THEN Len(w.list)
                ELSE 1

StartAmps ==
  /\ task = "scan" /\ pc = "amps"
  /\ ReadAmpsFrom([w EXCEPT !.inputAmps = [i \in 1..NumberOfAmps |-> DefaultAmp]],
                  0)
  /\ UNCHANGED <<reading, offset, gain, settings, lost>> /\ Unchanged

StartRefresh ==
  /\ task = "refresh" /\ pc = "refresh"
  /\ ReadAmpsFrom(widgets[node], 0)
  /\ UNCHANGED <<reading, offset, gain, settings, lost>> /\ Unchanged

WithAmp(x, a, value) ==
  IF IsInput(x, a) THEN [x EXCEPT !.inputAmps[a + 1] = value]
                   ELSE [x EXCEPT !.outputAmp = value]

(* Faulty: the channel is not advanced.                                    *)
CodecAmpFirst(a) == settings[w.id][IF IsInput(w, a) THEN 0 ELSE Inputs(w.id)]

(* channel & 0x0F: the verb has four bits for the input amplifier.         *)
Channel(a) == a % 16

(* Of the codec: w.id is the node the verbs name.                          *)
CodecAmp(a) == settings[w.id][IF IsInput(w, a) THEN Channel(a) ELSE Inputs(w.id)]

CapOf(a) == IF IsInput(w, a) THEN Codec[w.id].inCap ELSE Codec[w.id].outCap

(* Faulty: a missing response is taken as all ones.                        *)
CapOrAllOnes(r) == ValueOr(r, 127)

CapOrNone(r) == ValueOr(r, NoCap)

(* No capabilities and no response alike leave the amplifier invalid.      *)
ReadAmpCap ==
  /\ pc = "ampCap"
  /\ \E r \in {CapOf(amp), NoResponse} :
       /\ Exchange(CapOf(amp), r)
       /\ LET cap == CapOrNone(r) IN
          \/ /\ cap # NoCap
             /\ reading' = [DefaultAmp EXCEPT !.valid = TRUE, !.step = cap % 128,
                                              !.canMute = cap >= 128]
             /\ pc' = "ampRight"
             /\ UNCHANGED <<task, node, w, amp, widgets>>
          \/ /\ cap = NoCap
             /\ ReadAmpsFrom(WithAmp(w, amp, DefaultAmp), amp + 1)
             /\ UNCHANGED reading
  /\ UNCHANGED <<offset, gain, settings>> /\ Unchanged

ReadAmpRight ==
  /\ pc = "ampRight"
  /\ \E r \in {CodecAmp(amp).right, NoResponse} :
       /\ Exchange(CodecAmp(amp).right, r)
       /\ reading' = [reading EXCEPT !.right = ValueOr(r, @)]
  /\ pc' = "ampLeft"
  /\ UNCHANGED <<task, node, w, amp, offset, gain, widgets, settings>>
  /\ Unchanged

ReadAmpLeft ==
  /\ pc = "ampLeft"
  /\ \E r \in {CodecAmp(amp).left, NoResponse} :
       /\ Exchange(CodecAmp(amp).left, r)
       /\ LET read == [reading EXCEPT !.left = ValueOr(r, @)]
          IN ReadAmpsFrom(WithAmp(w, amp, read), amp + 1)
  /\ UNCHANGED <<reading, offset, gain, settings>> /\ Unchanged
-----------------------------------------------------------------------------
(* HDACodec::reset, after the constructor and before any command. It resets *)
(* the link; a codec may keep its settings across that.                     *)
ResetController ==
  /\ task = "none" /\ ~wasReset
  /\ wasReset' = TRUE
  /\ settings' \in {settings, Reset}
  /\ UNCHANGED <<taskVars, widgets, lost, lostBefore, commands>>

Ready == task = "none" /\ wasReset /\ commands < MaxCommands

(* The refresh command, cmdRefresh.                                        *)
Refresh ==
  /\ Ready
  /\ task' = "refresh"
  /\ pc' = "refresh"
  /\ lostBefore' = lost
  /\ commands' = commands + 1
  /\ UNCHANGED <<node, w, amp, reading, offset, gain, widgets, settings,
                 wasReset, lost>>

(* Faulty: an input amplifier goes before the output amplifier.            *)
GainForInputFirst(x) == CASE x.inputAmps # <<>> -> x.inputAmps[1].step
                          [] x.inputAmps = <<>> /\ x.outputAmp.valid -> x.outputAmp.step
                          [] OTHER -> 127

(* The unmute command, cmdUnmute: the gain comes from the database.        *)
GainFor(x) == CASE x.outputAmp.valid -> x.outputAmp.step
                [] ~x.outputAmp.valid /\ x.inputAmps # <<>> -> x.inputAmps[1].step
                [] OTHER -> 127

Unmute ==
  /\ Ready
  /\ \E n \in Nodes, channel \in Channels :
       /\ node' = n
       /\ amp' = channel
       /\ gain' = GainFor(widgets[n])
  /\ task' = "unmute"
  /\ pc' = "setInput"
  /\ lostBefore' = lost
  /\ commands' = commands + 1
  /\ UNCHANGED <<w, reading, offset, widgets, settings, wasReset, lost>>

Both(s) == [left |-> s, right |-> s]

(* A set verb without a response may have reached the codec or not.        *)
SetAmp(a) ==
  \E r \in {0, NoResponse} :
    /\ Exchange(0, r)
    /\ settings' \in {[settings EXCEPT ![node][a] = Both(gain)]}
                       \cup (IF Answered(r) THEN {} ELSE {settings})

(* Verb 0x3007cgg: input amplifier c, left and right.                      *)
SetInputAmp ==
  /\ task = "unmute" /\ pc = "setInput"
  /\ pc' = "setOutput"
  /\ \/ amp < Inputs(node) /\ SetAmp(amp)
     \/ /\ amp >= Inputs(node)
        /\ \E r \in {0, NoResponse} : Exchange(0, r)
        /\ UNCHANGED settings
  /\ UNCHANGED <<task, node, w, amp, reading, offset, gain, widgets>>
  /\ Unchanged

(* Verb 0x300B0gg: the output amplifier, left and right.                   *)
SetOutputAmp ==
  /\ task = "unmute" /\ pc = "setOutput"
  /\ task' = "none"
  /\ pc' = "refresh"
  /\ node' = 0
  /\ SetAmp(Inputs(node))
  /\ UNCHANGED <<w, amp, reading, offset, gain, widgets>> /\ Unchanged

(* All commands are given.                                                 *)
Finished == /\ task = "none" /\ wasReset /\ commands = MaxCommands
            /\ UNCHANGED vars

Step == \/ ReadCap \/ ReadStreams \/ ReadConfig \/ ReadPins
        \/ ReadLength \/ ReadEntries \/ ReadSelection
        \/ StartAmps \/ StartRefresh
        \/ ReadAmpCap \/ ReadAmpRight \/ ReadAmpLeft
        \/ SetInputAmp \/ SetOutputAmp

Next == Step \/ ResetController \/ Refresh \/ Unmute \/ Finished

(* The driver's thread runs; commands are the user's choice.               *)
Spec == Init /\ [][Next]_vars /\ WF_vars(Step)
-----------------------------------------------------------------------------
Amp == [valid : BOOLEAN, canMute : BOOLEAN, step : 0..127, left : 0..255, right : 0..255]

WidgetOK(x) == /\ x.id \in Nodes
               /\ \A i \in DOMAIN x.list : x.list[i] \in 0..127
               /\ \A i \in DOMAIN x.inputAmps : x.inputAmps[i] \in Amp
               /\ x.outputAmp \in Amp
               /\ x.selection \in 0..255

TypeOK == /\ task \in {"scan", "refresh", "unmute", "none"}
          /\ node \in Nodes
          /\ WidgetOK(w)
          /\ \A n \in Nodes : WidgetOK(widgets[n])
          /\ IsSettings(settings)
          /\ reading \in Amp
          /\ gain \in 0..127
          /\ lost \in 0..MaxTimeouts
          /\ lostBefore \in 0..lost
          /\ commands \in 0..MaxCommands

(* The amplifier as the database should show it.                           *)
TrueAmp(cap, s) == IF cap = NoCap THEN DefaultAmp
                   ELSE [valid |-> TRUE, canMute |-> cap >= 128, step |-> cap % 128,
                         left |-> s.left, right |-> s.right]

KnownList(n) == IF Codec[n].hasList /\ ~Codec[n].long
                THEN [i \in DOMAIN Codec[n].entries |-> Codec[n].entries[i] % 128]
                ELSE <<>>

KnownInputs(n) == CASE ~Codec[n].hasIn -> 0
                    [] Codec[n].hasIn /\ Codec[n].type = "Mixer" -> Len(KnownList(n))
                    [] OTHER -> 1

IsPin(n) == Codec[n].type = "PinComplex"

(* The devices and locations the driver has a name for.                    *)
Named == {"LineOut", "Speaker", "HeadphoneOut", "SPDIFout", "LineIn", "MicIn", "SPDIFin"}
Sides == {"Rear", "Front", "Left", "Right"}

Describe(n) ==
  LET c == Codec[n] IN
  [id |-> n, type |-> IF c.type \in Types THEN c.type ELSE "Unknown",
   digital |-> c.digital, hasIn |-> c.hasIn, hasOut |-> c.hasOut,
   streams |-> IF c.type \in {"Output", "Input"} THEN c.streams ELSE {},
   device |-> IF IsPin(n) /\ c.config.device \in Named THEN c.config.device ELSE "Unknown",
   location |-> IF IsPin(n) /\ c.config.location \in Sides THEN c.config.location
                ELSE "Unknown",
   colour |-> IF IsPin(n) THEN c.config.colour ELSE 0,
   headphone |-> IsPin(n) /\ 3 \in c.pins,
   inputPin  |-> IsPin(n) /\ 5 \in c.pins,
   outputPin |-> IsPin(n) /\ 4 \in c.pins,
   list |-> KnownList(n),
   selection |-> IF c.hasList /\ c.entries # <<>> /\ c.type # "Mixer"
                 THEN c.selection ELSE 0,
   inputAmps |-> [i \in 1..KnownInputs(n) |-> TrueAmp(c.inCap, settings[n][i - 1])],
   outputAmp |-> IF c.hasOut THEN TrueAmp(c.outCap, settings[n][Inputs(n)])
                 ELSE DefaultAmp]

(* Widget x is what d says, the first sixteen input amplifiers with their  *)
(* levels: from the seventeenth on the verbs name the first ones again.    *)
Addressed == 16

Agrees(x, d) ==
  /\ [x EXCEPT !.inputAmps = <<>>] = [d EXCEPT !.inputAmps = <<>>]
  /\ Len(x.inputAmps) = Len(d.inputAmps)
  /\ \A i \in DOMAIN x.inputAmps : i <= Addressed => x.inputAmps[i] = d.inputAmps[i]

(* A scan in which every verb was answered leaves in the database what the *)
(* codec says: every list entry, the output amplifier and each of the first *)
(* sixteen input amplifiers, and nothing of a node that is absent.          *)
ScanExact ==
  task = "none" /\ ~wasReset /\ lost = 0 =>
    \A n \in Nodes : IF Codec[n].type = "Absent" THEN widgets[n] = DefaultWidget(0)
                     ELSE Agrees(widgets[n], Describe(n))

(* What widget x says of the registers of node n that do not change is true *)
(* or the default, and the number of its input amplifiers follows the list  *)
(* that was read.                                                           *)
NothingWrong(x, n) ==
  LET d == Describe(n) IN
  /\ x.id = n
  /\ Codec[n].type # "Absent" => x.type \in {d.type, "Unknown"}
  /\ x.streams \in {d.streams, {}}
  /\ x.device \in {d.device, "Unknown"}
  /\ x.location \in {d.location, "Unknown"}
  /\ x.colour \in {d.colour, 0}
  /\ <<x.headphone, x.inputPin, x.outputPin>> \in
       {<<d.headphone, d.inputPin, d.outputPin>>, <<FALSE, FALSE, FALSE>>}
  /\ x.selection \in {d.selection, 0}
  /\ Len(x.list) \in {Len(d.list), 0}
  /\ \A i \in DOMAIN x.list : x.list[i] \in {d.list[i], 0}
  /\ Len(x.inputAmps) \in {Len(d.inputAmps), 0}
  /\ x.type = "Mixer" /\ Codec[n].hasIn => Len(x.inputAmps) = Len(x.list)
  /\ \A i \in DOMAIN x.inputAmps :
       x.inputAmps[i].valid => x.inputAmps[i].step = Codec[n].inCap % 128
  /\ x.outputAmp.valid => x.outputAmp.step = Codec[n].outCap % 128

(* Lost responses leave defaults, never a wrong value, in the database.     *)
TrueOrDefault ==
  \A n \in Nodes : widgets[n] # DefaultWidget(0) => NothingWrong(widgets[n], n)

(* A refresh without a lost response repairs the first sixteen input       *)
(* amplifiers the database has an entry for, and every output amplifier it *)
(* has as valid, whatever was lost before and whatever was written since;  *)
(* no output amplifier that was valid is given up. One that was not valid  *)
(* stays so (RefreshUpdates). If no response was ever lost the whole       *)
(* database is what the codec says.                                        *)
RefreshRepairs ==
  [][task = "refresh" /\ lost' = lostBefore =>
       \A n \in Nodes :
         LET x == widgets'[n]
             d == Describe(n)
         IN /\ widgets[n].outputAmp.valid => x.outputAmp.valid
            /\ task' = "none" =>
                 /\ \A i \in DOMAIN x.inputAmps : i <= Addressed => x.inputAmps[i] = d.inputAmps[i]
                 /\ x.outputAmp.valid => x.outputAmp = d.outputAmp
                 /\ lost' = 0 /\ Codec[n].type # "Absent" => Agrees(x, d)]_vars

(* "Update internal node database": after a refresh without a lost response *)
(* the database has the output amplifier of every widget that has one.       *)
(* False: an output amplifier whose capabilities were lost once is     *)
(* passed over by every refresh.                                            *)
RefreshUpdates ==
  [][task = "refresh" /\ task' = "none" /\ lost' = lostBefore =>
       \A n \in Nodes :
         widgets'[n].hasOut => widgets'[n].outputAmp = Describe(n).outputAmp]_vars

(* An unmute whose verbs were answered leaves the output amplifier unmuted, *)
(* and at the 0 dB step of that amplifier if the database has it as valid,  *)
(* even if responses were lost while the database was collected.            *)
UnmuteReaches0dB ==
  [][task = "unmute" /\ task' = "none" /\ lost' = lostBefore =>
       LET s == settings'[node][Inputs(node)] IN
       /\ s.left < 128 /\ s.right < 128
       /\ widgets[node].outputAmp.valid => s = Both(Codec[node].outCap % 128)]_vars

(* Every scan and every command ends.                                       *)
TasksEnd == task # "none" ~> task = "none"
=============================================================================
