------------------------ MODULE WidgetDatabaseProofs ------------------------
(***************************************************************************)
(* Proofs about WidgetDatabase, for every codec, any number of nodes, and  *)
(* any number of lost responses and of commands.                           *)
(*                                                                         *)
(* A verb whose response is lost must never let the database say more than *)
(* it was told. The inductive invariant therefore tells three strengths of *)
(* knowledge apart. Whatever was lost, a stored widget is the default or   *)
(* Scanned: each register is the codec's own or the default. If nothing    *)
(* was ever lost (lost = 0) the widgets the scan has passed are Complete.  *)
(* If nothing was lost since the running task began (lost = lostBefore)    *)
(* the amplifiers of the nodes the task has passed are those of the codec, *)
(* whatever an earlier task lost. Collecting and Reading say the same of   *)
(* the widget in hand, as far as the exchange at pc has brought it. Each   *)
(* action moves one exchange further; the theorems read the properties off *)
(* the invariant. The last section is about what the node command prints   *)
(* of the database, in WidgetDump: the gains it shows before the reset     *)
(* need LevelInv beside the invariant.                                     *)
(***************************************************************************)
EXTENDS WidgetDump, SequenceTheorems, TLAPS

(* The exchanges of one amplifier, and those of one node before its        *)
(* amplifiers.                                                             *)
AmpPcs  == {"ampCap", "ampRight", "ampLeft"}
ScanPcs == {"streams", "config", "pins", "length", "entries", "selection", "amps"}

(* Which exchange may be next in which task. Only the scan runs before the *)
(* reset, and it is the first task: nothing was lost before it.            *)
Control ==
  /\ \/ task = "scan" /\ pc \in {"cap"} \cup ScanPcs \cup AmpPcs
     \/ task = "refresh" /\ pc \in {"refresh"} \cup AmpPcs
     \/ task = "unmute" /\ pc \in {"setInput", "setOutput"}
     \/ task = "none" /\ pc \in {"cap", "refresh"} /\ node = 0
  /\ task = "scan" => ~wasReset
  /\ task \in {"refresh", "unmute"} => wasReset
  /\ ~wasReset => lostBefore = 0

(* The type the driver has a name for.                                     *)
TypeOf(n) == IF Codec[n].type \in Types THEN Codec[n].type ELSE "Unknown"

(* The ranges of the fields of a widget.                                   *)
TypeNames     == Types \cup {"Unknown"}
DeviceNames   == Named \cup {"Unknown"}
LocationNames == Sides \cup {"Unknown"}
BitSets  == SUBSET (0..31)
Lists    == Seq(0..127)
AmpLists == Seq(Amp)
Bytes    == 0..255
Nibbles  == 0..15

Widget == [id : Nodes, type : TypeNames, digital : BOOLEAN,
           hasIn : BOOLEAN, hasOut : BOOLEAN, streams : BitSets,
           device : DeviceNames, location : LocationNames, colour : Nibbles,
           headphone : BOOLEAN, inputPin : BOOLEAN, outputPin : BOOLEAN,
           list : Lists, selection : Bytes, inputAmps : AmpLists, outputAmp : Amp]

(* Every variable is in its range. The amplifier and the offset are        *)
(* bounded where they are used.                                            *)
Ranges ==
  /\ node \in Nodes /\ w \in Widget /\ reading \in Amp /\ gain \in 0..127
  /\ widgets \in [Nodes -> Widget] /\ IsSettings(settings)
  /\ wasReset \in BOOLEAN
  /\ lost \in 0..MaxTimeouts /\ lostBefore \in 0..lost /\ commands \in 0..MaxCommands

(* The registers of node n as Describe has them.                           *)
Streams(n)   == IF Codec[n].type \in {"Output", "Input"} THEN Codec[n].streams ELSE {}
Device(n)    == IF IsPin(n) /\ Codec[n].config.device \in Named
                THEN Codec[n].config.device ELSE "Unknown"
Location(n)  == IF IsPin(n) /\ Codec[n].config.location \in Sides
                THEN Codec[n].config.location ELSE "Unknown"
Colour(n)    == IF IsPin(n) THEN Codec[n].config.colour ELSE 0
Flag(n, bit) == IsPin(n) /\ bit \in Codec[n].pins
Selection(n) == IF Codec[n].hasList /\ Codec[n].entries # <<>> /\ Codec[n].type # "Mixer"
                THEN Codec[n].selection ELSE 0

(* The widget capabilities of node n are in widget x.                      *)
Identity(x, n) ==
  /\ x.id = n /\ Codec[n].type # "Absent" /\ x.type = TypeOf(n)
  /\ x.digital = Codec[n].digital /\ x.hasIn = Codec[n].hasIn /\ x.hasOut = Codec[n].hasOut

ConfigExact(x, n) == /\ x.device = Device(n)
                     /\ x.location = Location(n)
                     /\ x.colour = Colour(n)

FlagsExact(x, n) == /\ x.headphone = Flag(n, 3)
                    /\ x.inputPin = Flag(n, 5)
                    /\ x.outputPin = Flag(n, 4)

(* The connection list entry the driver should have: seven bits.           *)
Truth(n, i) == Codec[n].entries[i] % 128

(* Each register of x is the codec's own, or the default because its       *)
(* response was lost.                                                      *)
Registers(x, n) ==
  /\ x.streams \in {Streams(n), {}}
  /\ x.device \in {Device(n), "Unknown"}
  /\ x.location \in {Location(n), "Unknown"}
  /\ x.colour \in {Colour(n), 0}
  /\ FlagsExact(x, n) \/ (~x.headphone /\ ~x.inputPin /\ ~x.outputPin)
  /\ x.selection \in {Selection(n), 0}
  /\ x.list # <<>> =>
       /\ Codec[n].hasList /\ ~Codec[n].long
       /\ Len(x.list) = Len(Codec[n].entries)
       /\ \A i \in 1..Len(x.list) : x.list[i] \in {Truth(n, i), 0}

(* Every register of x is the codec's own.                                 *)
RegistersExact(x, n) ==
  /\ x.streams = Streams(n)
  /\ ConfigExact(x, n) /\ FlagsExact(x, n)
  /\ x.list = KnownList(n)
  /\ x.selection = Selection(n)

(* The input amplifiers of x follow the list that was read, which may be   *)
(* shorter than that of the codec.                                         *)
AmpCount(x) == IF ~x.hasIn THEN 0 ELSE IF x.type = "Mixer" THEN Len(x.list) ELSE 1

(* Amplifier a has the capabilities cap, as getInputAmplifierInfo takes    *)
(* them from the response.                                                 *)
Capable(a, cap) == /\ cap # NoCap
                   /\ a.valid /\ a.step = cap % 128 /\ a.canMute = (cap >= 128)

(* Each amplifier of x is not valid or has the capabilities of its node.   *)
AmpsKnown(x, n) ==
  /\ Len(x.inputAmps) = AmpCount(x)
  /\ \A i \in 1..Len(x.inputAmps) :
       x.inputAmps[i] = DefaultAmp \/ Capable(x.inputAmps[i], Codec[n].inCap)
  /\ x.outputAmp = DefaultAmp \/ (Codec[n].hasOut /\ Capable(x.outputAmp, Codec[n].outCap))

(* Whatever was lost, x says nothing wrong of node n.                      *)
Scanned(x, n) == Identity(x, n) /\ Registers(x, n) /\ AmpsKnown(x, n)

(* The amplifiers of node n under the settings s.                          *)
InputTruth(s, n, i) == TrueAmp(Codec[n].inCap, s[n][Channel(i - 1)])
OutputTruth(s, n)   == TrueAmp(Codec[n].outCap, s[n][Inputs(n)])

(* The amplifiers of x before a are as the codec has them.                 *)
AmpsDone(s, x, n, a) ==
  /\ \A i \in 1..Len(x.inputAmps) : i <= a => x.inputAmps[i] = InputTruth(s, n, i)
  /\ a > Len(x.inputAmps) => x.outputAmp = OutputTruth(s, n)

(* All amplifiers of x are as the codec has them; the output amplifier may *)
(* be left out.                                                            *)
AmpsExact(s, x, n) ==
  /\ \A i \in 1..Len(x.inputAmps) : x.inputAmps[i] = InputTruth(s, n, i)
  /\ x.outputAmp \in {OutputTruth(s, n), DefaultAmp}

(* An output amplifier that the codec has is in x.                         *)
OutputKnown(x, n) == Codec[n].hasOut /\ Codec[n].outCap # NoCap => x.outputAmp.valid

(* Nothing of node n is missing in x, whatever its settings are.           *)
Complete(x, n) == Scanned(x, n) /\ RegistersExact(x, n) /\ OutputKnown(x, n)

(* x is node n's widget when exchange p of the scan is next, whatever was  *)
(* lost.                                                                   *)
CollectedTo(x, n, p, o) ==
  /\ Identity(x, n) /\ Registers(x, n)
  /\ x.inputAmps = <<>> /\ x.outputAmp = DefaultAmp
  /\ p = "streams" => Codec[n].type \in {"Output", "Input"}
  /\ p \in {"config", "pins"} => IsPin(n)
  /\ p \in {"streams", "config", "pins", "length"} => x.list = <<>>
  /\ p \in {"length", "entries", "selection"} => Codec[n].hasList
  /\ p = "entries" => /\ ~Codec[n].long
                      /\ o \in Nat /\ o < Len(x.list)
                      /\ Len(x.list) = Len(Codec[n].entries)
  /\ p = "selection" => Selection(n) = Codec[n].selection
  /\ p # "amps" => x.selection = 0

(* And if nothing was lost, all registers before p are there.              *)
ReadTo(x, n, p, o) ==
  /\ p # "streams" => x.streams = Streams(n)
  /\ p # "config" => ConfigExact(x, n)
  /\ p \notin {"config", "pins"} => FlagsExact(x, n)
  /\ p = "entries" => \A i \in 1..Len(x.list) : i <= o => x.list[i] = Truth(n, i)
  /\ p \in {"selection", "amps"} => x.list = KnownList(n)
  /\ p = "amps" => x.selection = Selection(n)

(* The widget the scan has in hand.                                        *)
Collecting == /\ CollectedTo(w, node, pc, offset)
              /\ lost = 0 => ReadTo(w, node, pc, offset)

(* The capabilities and the setting of amplifier a in the order the driver *)
(* reads the amplifiers of x.                                              *)
CapAt(x, n, a) == IF a < Len(x.inputAmps) THEN Codec[n].inCap ELSE Codec[n].outCap

LevelAt(s, x, n, a) == s[n][IF a < Len(x.inputAmps) THEN Channel(a) ELSE Inputs(n)]

(* An amplifier of w is being read.                                        *)
Reading ==
  /\ Scanned(w, node)
  /\ amp \in 0..Len(w.inputAmps)
  /\ amp = Len(w.inputAmps) => ReadsOutput(w)
  /\ lost = 0 => /\ RegistersExact(w, node)
                 /\ task = "refresh" => OutputKnown(w, node)
  /\ lost = lostBefore => AmpsDone(settings, w, node, amp)
  /\ pc \in {"ampRight", "ampLeft"} => Capable(reading, CapAt(w, node, amp))
  /\ pc = "ampLeft" /\ lost = lostBefore =>
       reading.right = LevelAt(settings, w, node, amp).right

(* The running task has stored node n, or the scan has just ended: the     *)
(* settings have not changed since its amplifiers were read.               *)
Fresh(n) == \/ task \in {"scan", "refresh"} /\ n < node
            \/ task = "none" /\ ~wasReset

(* What the database holds of node n.                                      *)
Known(n) ==
  LET x == widgets[n] IN
  /\ x \in {DefaultWidget(0), DefaultWidget(n)} \/ Scanned(x, n)
  /\ task = "scan" /\ n >= node => x = DefaultWidget(0)
  /\ lost = 0 /\ (task = "scan" => n < node) =>
       IF Codec[n].type = "Absent" THEN x = DefaultWidget(0) ELSE Complete(x, n)
  /\ lost = lostBefore /\ Fresh(n) => AmpsExact(settings, x, n)

(* The inductive invariant.                                                *)
IInv == /\ Control /\ Ranges
        /\ task = "scan" /\ pc \in ScanPcs => Collecting
        /\ pc \in AmpPcs => Reading
        /\ \A n \in Nodes : Known(n)
        /\ task = "unmute" => gain = GainFor(widgets[node]) /\ amp \in 0..15
-----------------------------------------------------------------------------
(* The codec and the constants. *)

(* An exchange brings the codec's answer, or it is lost and counted.       *)
LEMMA Exchanged ==
  ASSUME NEW truth, truth # NoResponse, NEW r, lost \in 0..MaxTimeouts,
         Exchange(truth, r)
  PROVE  /\ \/ r = truth /\ Answered(r) /\ lost' = lost
            \/ r = NoResponse /\ ~Answered(r) /\ lost' = lost + 1
         /\ lost' \in 0..MaxTimeouts
  BY BoundsAssumption DEF Exchange, Answered

(* The ranges of the registers of a node.                                  *)
LEMMA NodeRegisters ==
  ASSUME NEW n \in Nodes
  PROVE  /\ Codec[n].type \in Types \cup {"Absent", "Other"}
         /\ Codec[n].digital \in BOOLEAN /\ Codec[n].hasList \in BOOLEAN
         /\ Codec[n].hasIn \in BOOLEAN /\ Codec[n].hasOut \in BOOLEAN
         /\ Codec[n].long \in BOOLEAN
         /\ Codec[n].streams \in SUBSET (0..31) /\ Codec[n].pins \in SUBSET (0..31)
         /\ Codec[n].config \in Config
         /\ Codec[n].entries \in Seq(0..255) /\ Codec[n].selection \in 0..255
         /\ Codec[n].inCap \in 0..NoCap /\ Codec[n].outCap \in 0..NoCap
<1>1. Codec[n] \in CodecNode
  BY CodecAssumption
<1>2. /\ Codec[n].type \in Types \cup {"Absent", "Other"}
      /\ Codec[n].config \in Config
  BY <1>1, SMT DEF CodecNode
<1>3. /\ Codec[n].digital \in BOOLEAN /\ Codec[n].hasList \in BOOLEAN
      /\ Codec[n].hasIn \in BOOLEAN /\ Codec[n].hasOut \in BOOLEAN
      /\ Codec[n].long \in BOOLEAN
  BY <1>1, SMT DEF CodecNode
<1>4. Codec[n].streams \in SUBSET (0..31)
  BY <1>1, Zenon DEF CodecNode
<1>7. Codec[n].pins \in SUBSET (0..31)
  BY <1>1, Zenon DEF CodecNode
<1>5. Codec[n].entries \in Seq(0..255) /\ Codec[n].selection \in 0..255
  BY <1>1, SMT DEF CodecNode
<1>6. Codec[n].inCap \in 0..NoCap /\ Codec[n].outCap \in 0..NoCap
  BY <1>1, SMT DEF CodecNode
<1> QED
  BY <1>2, <1>3, <1>4, <1>5, <1>6, <1>7

(* No answer is taken for a missing one.                                   *)
LEMMA NotNoResponse ==
  ASSUME NEW n \in Nodes
  PROVE  /\ Codec[n].type # NoResponse /\ Codec[n].streams # NoResponse
         /\ Codec[n].pins # NoResponse
         /\ \A k \in Int : k # NoResponse
  BY NoResponseAssumption

(* The fields of a default configuration.                                  *)
LEMMA ConfigFields ==
  ASSUME NEW c \in Config
  PROVE  /\ c.location \in {"None", "Rear", "Front", "Left", "Right", "Top", "Bottom"}
         /\ c.device \in {"LineOut", "Speaker", "HeadphoneOut", "CD", "SPDIFout",
                          "Modem", "LineIn", "Aux", "MicIn", "SPDIFin", "Other"}
         /\ c.connection \in 0..15 /\ c.colour \in 0..15 /\ c.rest \in 0..4095
  BY DEF Config, Locations, Devices

(* The driver's tables undo the encoding, for the devices and the          *)
(* locations it has a name for.                                            *)
LEMMA NamesOfCodes ==
  ASSUME NEW c \in Config
  PROVE  /\ LocationOf(Locations[c.location])
              = IF c.location \in Sides THEN c.location ELSE "Unknown"
         /\ DeviceOf(Devices[c.device])
              = IF c.device \in Named THEN c.device ELSE "Unknown"
         /\ Locations[c.location] \in 0..15 /\ Devices[c.device] \in 0..15
<1>1. LocationOf(Locations[c.location])
        = IF c.location \in Sides THEN c.location ELSE "Unknown"
  BY ConfigFields, SMT DEF LocationOf, Locations, Sides
<1>2. DeviceOf(Devices[c.device]) = IF c.device \in Named THEN c.device ELSE "Unknown"
  BY ConfigFields, SMT DEF DeviceOf, Devices, Named
<1>3. Locations[c.location] \in 0..15 /\ Devices[c.device] \in 0..15
  BY ConfigFields, SMT DEF Locations, Devices
<1> QED
  BY <1>1, <1>2, <1>3

(* Shifting and masking the configuration word gives back its fields.      *)
LEMMA ConfigRead ==
  ASSUME NEW c \in Config
  PROVE  /\ ConfigWord(c) \in Int
         /\ LocationOf(Nibble(ConfigWord(c), 24))
              = IF c.location \in Sides THEN c.location ELSE "Unknown"
         /\ DeviceOf(Nibble(ConfigWord(c), 20))
              = IF c.device \in Named THEN c.device ELSE "Unknown"
         /\ Nibble(ConfigWord(c), 12) = c.colour
<1>1. /\ Locations[c.location] \in 0..15 /\ Devices[c.device] \in 0..15
      /\ c.connection \in 0..15 /\ c.colour \in 0..15 /\ c.rest \in 0..4095
  BY NamesOfCodes, ConfigFields
<1>l. PICK l \in 0..15 : l = Locations[c.location]
  BY <1>1
<1>d. PICK d \in 0..15 : d = Devices[c.device]
  BY <1>1
<1>m. PICK m \in 0..15 : m = c.connection
  BY <1>1
<1>k. PICK k \in 0..15 : k = c.colour
  BY <1>1
<1>r. PICK r \in 0..4095 : r = c.rest
  BY <1>1
<1>2. ConfigWord(c) = l * 16777216 + d * 1048576 + m * 65536 + k * 4096 + r
  <2>1. 2^24 = 16777216 /\ 2^20 = 1048576 /\ 2^16 = 65536 /\ 2^12 = 4096
    BY SMT
  <2> QED
    BY <1>l, <1>d, <1>m, <1>k, <1>r, <2>1, SMT DEF ConfigWord
<1>3. /\ ConfigWord(c) \in Int
      /\ Nibble(ConfigWord(c), 24) = l
      /\ Nibble(ConfigWord(c), 20) = d
      /\ Nibble(ConfigWord(c), 12) = k
  <2> DEFINE word == l * 16777216 + d * 1048576 + m * 65536 + k * 4096 + r
  <2>1. word \in Int /\ word \div 16777216 = l
    BY SMT
  <2>2. word \div 1048576 = l * 16 + d
    BY SMT
  <2>3. word \div 4096 = l * 4096 + d * 256 + m * 16 + k
    BY SMT
  <2>4. l % 16 = l /\ (l * 16 + d) % 16 = d
    BY SMT
  <2>5. (l * 4096 + d * 256 + m * 16 + k) % 16 = k
    BY SMT
  <2>6. 2^24 = 16777216 /\ 2^20 = 1048576 /\ 2^12 = 4096
    BY SMT
  <2>7. ConfigWord(c) = word
    BY <1>2
  <2> HIDE DEF word
  <2> QED
    BY <2>1, <2>2, <2>3, <2>4, <2>5, <2>6, <2>7, SMT DEF Nibble
<1>4. /\ LocationOf(Locations[c.location])
           = IF c.location \in Sides THEN c.location ELSE "Unknown"
      /\ DeviceOf(Devices[c.device])
           = IF c.device \in Named THEN c.device ELSE "Unknown"
  BY NamesOfCodes
<1>5. /\ LocationOf(Nibble(ConfigWord(c), 24)) = LocationOf(Locations[c.location])
      /\ DeviceOf(Nibble(ConfigWord(c), 20)) = DeviceOf(Devices[c.device])
  BY <1>l, <1>d, <1>3
<1> QED
  BY <1>k, <1>3, <1>4, <1>5, SMT

(* A verb names one of the first sixteen amplifiers, and those it names as *)
(* they are numbered.                                                      *)
LEMMA ChannelBounds ==
  ASSUME NEW a \in Nat
  PROVE  Channel(a) \in Nat /\ Channel(a) <= a /\ (a < Addressed => Channel(a) = a)
  BY SMT DEF Channel, Addressed

(* The widget a constructor makes.                                         *)
LEMMA DefaultWidgets ==
  ASSUME NEW n \in Nodes
  PROVE  /\ DefaultWidget(n) \in Widget /\ DefaultAmp \in Amp
         /\ DefaultWidget(n).list = <<>> /\ DefaultWidget(n).inputAmps = <<>>
         /\ DefaultWidget(n).outputAmp = DefaultAmp
<1>1. DefaultAmp \in Amp
  BY DEF DefaultAmp, Amp
<1>2. /\ <<>> \in Lists /\ <<>> \in AmpLists /\ {} \in BitSets
      /\ "Unknown" \in TypeNames /\ "Unknown" \in DeviceNames
      /\ "Unknown" \in LocationNames /\ 0 \in Nibbles /\ 0 \in Bytes
  BY DEF Lists, AmpLists, BitSets, TypeNames, DeviceNames, LocationNames, Nibbles, Bytes
<1>3. DefaultWidget(n) \in Widget
  BY <1>1, <1>2, SMT DEF DefaultWidget, Widget
<1> QED
  BY <1>1, <1>3, SMT DEF DefaultWidget

(* The list the driver should have is that of the codec, entry by entry,   *)
(* without bit 7.                                                          *)
LEMMA ListKnown ==
  ASSUME NEW n \in Nodes
  PROVE  /\ KnownList(n) \in Seq(0..127)
         /\ ~(Codec[n].hasList /\ ~Codec[n].long) => KnownList(n) = <<>>
         /\ Codec[n].hasList /\ ~Codec[n].long =>
              /\ Len(KnownList(n)) = Len(Codec[n].entries)
              /\ \A i \in 1..Len(Codec[n].entries) : KnownList(n)[i] = Truth(n, i)
         /\ \A i \in 1..Len(Codec[n].entries) : Truth(n, i) \in 0..127
<1>1. Codec[n].entries \in Seq(0..255)
  BY NodeRegisters
<1>2. \A i \in 1..Len(Codec[n].entries) : Truth(n, i) \in 0..127
  <2>1. TAKE i \in 1..Len(Codec[n].entries)
  <2>2. Codec[n].entries[i] \in 0..255
    BY <1>1, ElementOfSeq
  <2>3. PICK e \in 0..255 : e = Codec[n].entries[i]
    BY <2>2, Zenon
  <2>4. e % 128 \in 0..127
    BY SMT
  <2> QED
    BY <2>3, <2>4, Zenon DEF Truth
<1>3. CASE Codec[n].hasList /\ ~Codec[n].long
  <2>1. KnownList(n) = [i \in 1..Len(Codec[n].entries) |-> Truth(n, i)]
    BY <1>1, <1>3 DEF KnownList, Truth
  <2> QED
    BY <1>1, <1>2, <1>3, <2>1
<1>4. CASE ~(Codec[n].hasList /\ ~Codec[n].long)
  BY <1>2, <1>4 DEF KnownList
<1> QED
  BY <1>3, <1>4

(* Four bytes, shifted out of the word they make.                          *)
LEMMA BytesOfWord ==
  ASSUME NEW a \in Bytes, NEW b \in Bytes, NEW c \in Bytes, NEW d \in Bytes
  PROVE  LET word == a + 256 * b + 65536 * c + 16777216 * d
         IN /\ word \in Int
            /\ Entry(Shifted(word, 0)) = a % 128 /\ Entry(Shifted(word, 1)) = b % 128
            /\ Entry(Shifted(word, 2)) = c % 128 /\ Entry(Shifted(word, 3)) = d % 128
<1> DEFINE word == a + 256 * b + 65536 * c + 16777216 * d
<1>1. a \in 0..255 /\ b \in 0..255 /\ c \in 0..255 /\ d \in 0..255
  BY DEF Bytes
<1>2. /\ word \in Int /\ word \div 1 = word
      /\ word \div 256 = b + 256 * c + 65536 * d
      /\ word \div 65536 = c + 256 * d
      /\ word \div 16777216 = d
  BY <1>1, SMT
<1>3. /\ word % 128 = a % 128
      /\ (b + 256 * c + 65536 * d) % 128 = b % 128
      /\ (c + 256 * d) % 128 = c % 128
  BY <1>1, SMT
<1>4. 256^0 = 1 /\ 256^1 = 256 /\ 256^2 = 65536 /\ 256^3 = 16777216
  BY SMT
<1> HIDE DEF word
<1>5. /\ Entry(Shifted(word, 0)) = a % 128 /\ Entry(Shifted(word, 1)) = b % 128
      /\ Entry(Shifted(word, 2)) = c % 128 /\ Entry(Shifted(word, 3)) = d % 128
  BY <1>2, <1>3, <1>4, SMT DEF Entry, Shifted
<1> QED
  BY <1>2, <1>5 DEF word

(* The shifts bring each entry of a response to its place.                 *)
LEMMA EntryOfWord ==
  ASSUME NEW n \in Nodes, NEW from \in Nat
  PROVE  LET data == EntryWord(Codec[n].entries, from)
         IN /\ data \in Int
            /\ \A i \in 1..Len(Codec[n].entries) :
                 from < i /\ i <= from + 4 => Entry(Shifted(data, i - 1 - from)) = Truth(n, i)
<1> DEFINE entries == Codec[n].entries
           data == EntryWord(entries, from)
<1>1. entries \in Seq(0..255) /\ Len(entries) \in Nat /\ DOMAIN entries = 1..Len(entries)
  BY NodeRegisters
<1>2. \A j : EntryAt(entries, j) \in Bytes
  <2> SUFFICES ASSUME NEW j PROVE EntryAt(entries, j) \in Bytes
    OBVIOUS
  <2>1. j \in 1..Len(entries) => entries[j] \in 0..255
    BY <1>1, ElementOfSeq
  <2> QED
    BY <1>1, <2>1 DEF EntryAt, Bytes
<1>a. PICK a \in Bytes : a = EntryAt(entries, from + 1)
  BY <1>2
<1>b. PICK b \in Bytes : b = EntryAt(entries, from + 2)
  BY <1>2
<1>c. PICK c \in Bytes : c = EntryAt(entries, from + 3)
  BY <1>2
<1>d. PICK d \in Bytes : d = EntryAt(entries, from + 4)
  BY <1>2
<1>3. data = a + 256 * b + 65536 * c + 16777216 * d
  BY <1>a, <1>b, <1>c, <1>d DEF EntryWord
<1>4. /\ data \in Int
      /\ Entry(Shifted(data, 0)) = a % 128 /\ Entry(Shifted(data, 1)) = b % 128
      /\ Entry(Shifted(data, 2)) = c % 128 /\ Entry(Shifted(data, 3)) = d % 128
  BY <1>3, BytesOfWord
<1> HIDE DEF data
<1>5. ASSUME NEW i \in 1..Len(entries), from < i, i <= from + 4
      PROVE  Entry(Shifted(data, i - 1 - from)) = Truth(n, i)
  <2>1. EntryAt(entries, i) = entries[i]
    BY <1>1 DEF EntryAt
  <2>2. CASE i = from + 1
    <3>1. i - 1 - from = 0
      BY <1>1, <2>2
    <3> QED
      BY <1>a, <1>4, <2>1, <2>2, <3>1 DEF Truth
  <2>3. CASE i = from + 2
    <3>1. i - 1 - from = 1
      BY <1>1, <2>3
    <3> QED
      BY <1>b, <1>4, <2>1, <2>3, <3>1 DEF Truth
  <2>4. CASE i = from + 3
    <3>1. i - 1 - from = 2
      BY <1>1, <2>4
    <3> QED
      BY <1>c, <1>4, <2>1, <2>4, <3>1 DEF Truth
  <2>5. CASE i = from + 4
    <3>1. i - 1 - from = 3
      BY <1>1, <2>5
    <3> QED
      BY <1>d, <1>4, <2>1, <2>5, <3>1 DEF Truth
  <2> QED
    BY <1>1, <1>5, <2>2, <2>3, <2>4, <2>5
<1> QED
  BY <1>4, <1>5 DEF data

(* The driver counts no more input amplifiers than the codec has settings  *)
(* for.                                                                    *)
LEMMA Channels0 ==
  ASSUME NEW n \in Nodes
  PROVE  /\ Inputs(n) \in Nat /\ KnownInputs(n) \in Nat
         /\ KnownInputs(n) <= Inputs(n)
  BY NodeRegisters, ListKnown DEF Inputs, KnownInputs

(* An amplifier is valid exactly if the node has capabilities for it.      *)
LEMMA TrueAmps ==
  ASSUME NEW cap \in 0..NoCap, NEW s \in Setting
  PROVE  /\ TrueAmp(cap, s) \in Amp
         /\ cap = NoCap => TrueAmp(cap, s) = DefaultAmp
         /\ cap # NoCap => Capable(TrueAmp(cap, s), cap)
<1>1. s.left \in 0..255 /\ s.right \in 0..255
  BY SMT DEF Setting
<1>2. CASE cap = NoCap
  <2>1. TrueAmp(cap, s) = DefaultAmp
    BY <1>2 DEF TrueAmp
  <2>2. DefaultAmp \in Amp
    BY DEF DefaultAmp, Amp
  <2> QED
    BY <1>2, <2>1, <2>2
<1>3. CASE cap # NoCap
  <2>1. cap \in 0..255 /\ cap % 128 \in 0..127 /\ (cap >= 128) \in BOOLEAN
    BY <1>3, SMT DEF NoCap
  <2>2. TrueAmp(cap, s) = [valid |-> TRUE, canMute |-> cap >= 128, step |-> cap % 128,
                           left |-> s.left, right |-> s.right]
    BY <1>3 DEF TrueAmp
  <2> QED
    BY <1>1, <1>3, <2>1, <2>2, SMT DEF Amp, Capable
<1> QED
  BY <1>2, <1>3

(* The settings of a node's amplifiers are in their range.                 *)
LEMMA TruthOfAmps ==
  ASSUME NEW n \in Nodes, NEW s, IsSettings(s)
  PROVE  /\ \A a \in 0..Inputs(n) : s[n][a] \in Setting
         /\ OutputTruth(s, n) \in Amp
         /\ \A i \in 1..Inputs(n) : InputTruth(s, n, i) \in Amp
<1>1. \A a \in 0..Inputs(n) : s[n][a] \in Setting
  BY DEF IsSettings, Amplifiers
<1>2. OutputTruth(s, n) \in Amp
  BY <1>1, Channels0, NodeRegisters, TrueAmps DEF OutputTruth
<1>3. \A i \in 1..Inputs(n) : InputTruth(s, n, i) \in Amp
  <2> SUFFICES ASSUME NEW i \in 1..Inputs(n) PROVE InputTruth(s, n, i) \in Amp
    OBVIOUS
  <2>1. i - 1 \in Nat /\ i - 1 <= Inputs(n) /\ Inputs(n) \in Nat
    BY Channels0
  <2>2. Channel(i - 1) \in 0..Inputs(n)
    <3>1. Channel(i - 1) \in Nat /\ Channel(i - 1) <= i - 1
      BY <2>1, ChannelBounds
    <3> QED
      BY <2>1, <3>1
  <2> QED
    BY <1>1, <2>2, NodeRegisters, TrueAmps DEF InputTruth
<1> QED
  BY <1>1, <1>2, <1>3
-----------------------------------------------------------------------------
(* The steps of the scan within one node. *)

(* A step that stores nothing, changes no setting and moves to no other    *)
(* node keeps what is known of every node.                                 *)
LEMMA KnownKept ==
  ASSUME NEW n \in Nodes, Known(n), lost \in Nat, lostBefore \in 0..lost,
         lost' \in {lost, lost + 1},
         UNCHANGED <<widgets, settings, wasReset, lostBefore, task, node>>
  PROVE  Known(n)'
<1>1. /\ lost' = 0 => lost = 0
      /\ lost' = lostBefore' => lost = lostBefore
  BY SMT
<1>2. Fresh(n)' = Fresh(n)
  BY DEF Fresh
<1> QED
  BY <1>1, <1>2, Zenon DEF Known

(* A step of the scan within one node keeps the invariant if it brings the *)
(* widget in hand to the exchange it goes to.                              *)
LEMMA ScanStep ==
  ASSUME IInv, task = "scan", pc' \in ScanPcs,
         w' \in Widget, lost' \in {lost, lost + 1}, lost' \in 0..MaxTimeouts,
         CollectedTo(w', node, pc', offset'),
         lost' = 0 => ReadTo(w', node, pc', offset'),
         UNCHANGED <<task, node, amp, reading, gain, widgets, settings>>, Unchanged
  PROVE  IInv'
<1>1. /\ Control /\ Ranges /\ \A n \in Nodes : Known(n)
  BY DEF IInv
<1> USE <1>1 DEF Unchanged
<1>2. lost \in Nat /\ lostBefore \in 0..lost /\ lostBefore \in 0..lost'
  BY BoundsAssumption DEF Ranges
<1>3. \A n \in Nodes : Known(n)'
  BY <1>2, KnownKept
<1>4. pc' \notin AmpPcs /\ task' = "scan"
  BY DEF AmpPcs, ScanPcs
<1>5. Control'
  BY <1>4, SMT DEF Control
<1>6. IsSettings(settings)'
  BY DEF Ranges, IsSettings
<1>7. Ranges'
  BY <1>2, <1>6, Zenon DEF Ranges
<1>8. Collecting'
  BY Zenon DEF Collecting
<1> QED
  BY <1>3, <1>4, <1>5, <1>7, <1>8 DEF IInv

(* What the invariant says where such a step starts.                       *)
LEMMA ScanTask ==
  ASSUME IInv, task = "scan", pc \in ScanPcs
  PROVE  /\ node \in Nodes /\ w \in Widget /\ lost \in 0..MaxTimeouts
         /\ CollectedTo(w, node, pc, offset)
         /\ lost = 0 => ReadTo(w, node, pc, offset)
  BY DEF IInv, Ranges, Collecting

(* A function on 1..n is a sequence of length n.                           *)
LEMMA FunctionIsSequence ==
  ASSUME NEW n \in Nat, NEW S, NEW f \in [1..n -> S]
  PROVE  f \in Seq(S) /\ Len(f) = n
  OBVIOUS

(* A node without a connection list: nothing is listed or selected.        *)
LEMMA NothingListed ==
  ASSUME NEW n \in Nodes
  PROVE  ~Codec[n].hasList => KnownList(n) = <<>> /\ Selection(n) = 0
  BY DEF KnownList, Selection

(* A flag of a pin is a bit of its capabilities.                           *)
LEMMA FlagOfPin ==
  ASSUME NEW n \in Nodes, IsPin(n), NEW bit
  PROVE  Flag(n, bit) = (bit \in Codec[n].pins) /\ Flag(n, bit) \in BOOLEAN
<1>1. (bit \in Codec[n].pins) \in BOOLEAN
  OBVIOUS
<1> QED
  BY <1>1 DEF Flag

(* A flag is a Boolean, of a pin or not.                                   *)
LEMMA FlagsBoolean == \A n, bit : Flag(n, bit) \in BOOLEAN
  BY DEF Flag, IsPin

(* The three fields of the default configuration are stored; kept opaque   *)
(* in the proofs.                                                          *)
Configured(x, l, d, c) == [x EXCEPT !.location = l, !.device = d, !.colour = c]

(* Storing the configuration changes its three fields and nothing else.    *)
LEMMA SetConfig ==
  ASSUME NEW x \in Widget, NEW l \in LocationNames, NEW d \in DeviceNames, NEW c \in Nibbles
  PROVE  LET y == Configured(x, l, d, c) IN
         /\ y \in Widget /\ y.location = l /\ y.device = d /\ y.colour = c
         /\ y.id = x.id /\ y.type = x.type /\ y.digital = x.digital /\ y.hasIn = x.hasIn
         /\ y.hasOut = x.hasOut /\ y.streams = x.streams /\ y.headphone = x.headphone
         /\ y.inputPin = x.inputPin /\ y.outputPin = x.outputPin /\ y.list = x.list
         /\ y.selection = x.selection /\ y.inputAmps = x.inputAmps
         /\ y.outputAmp = x.outputAmp
<1> DEFINE x1 == [x EXCEPT !.location = l]
           x2 == [x1 EXCEPT !.device = d]
           x3 == [x2 EXCEPT !.colour = c]
<1>1. Configured(x, l, d, c) = x3
  BY DEF Configured
<1>2. /\ x1 \in Widget /\ x1.location = l /\ x1.id = x.id /\ x1.type = x.type
      /\ x1.digital = x.digital /\ x1.hasIn = x.hasIn /\ x1.hasOut = x.hasOut
      /\ x1.streams = x.streams /\ x1.device = x.device /\ x1.colour = x.colour
      /\ x1.headphone = x.headphone /\ x1.inputPin = x.inputPin
      /\ x1.outputPin = x.outputPin /\ x1.list = x.list /\ x1.selection = x.selection
      /\ x1.inputAmps = x.inputAmps /\ x1.outputAmp = x.outputAmp
  BY SMT DEF Widget
<1> HIDE DEF x1
<1>3. /\ x2 \in Widget /\ x2.device = d /\ x2.id = x1.id /\ x2.type = x1.type
      /\ x2.digital = x1.digital /\ x2.hasIn = x1.hasIn /\ x2.hasOut = x1.hasOut
      /\ x2.streams = x1.streams /\ x2.location = x1.location /\ x2.colour = x1.colour
      /\ x2.headphone = x1.headphone /\ x2.inputPin = x1.inputPin
      /\ x2.outputPin = x1.outputPin /\ x2.list = x1.list /\ x2.selection = x1.selection
      /\ x2.inputAmps = x1.inputAmps /\ x2.outputAmp = x1.outputAmp
  BY <1>2, SMT DEF Widget
<1> HIDE DEF x2
<1>4. /\ x3 \in Widget /\ x3.colour = c /\ x3.id = x2.id /\ x3.type = x2.type
      /\ x3.digital = x2.digital /\ x3.hasIn = x2.hasIn /\ x3.hasOut = x2.hasOut
      /\ x3.streams = x2.streams /\ x3.device = x2.device /\ x3.location = x2.location
      /\ x3.headphone = x2.headphone /\ x3.inputPin = x2.inputPin
      /\ x3.outputPin = x2.outputPin /\ x3.list = x2.list /\ x3.selection = x2.selection
      /\ x3.inputAmps = x2.inputAmps /\ x3.outputAmp = x2.outputAmp
  BY <1>3, SMT DEF Widget
<1> HIDE DEF x3
<1> QED
  BY <1>1, <1>2, <1>3, <1>4

(* A Boolean as a value of a field.                                        *)
Booleans == BOOLEAN

(* The three flags of the pin capabilities are stored.                     *)
Flagged(x, o, i, h) == [x EXCEPT !.outputPin = o, !.inputPin = i, !.headphone = h]

(* Storing the flags changes the three flags and nothing else.             *)
LEMMA SetFlags ==
  ASSUME NEW x \in Widget, NEW o \in Booleans, NEW i \in Booleans, NEW h \in Booleans
  PROVE  LET y == Flagged(x, o, i, h) IN
         /\ y \in Widget /\ y.outputPin = o /\ y.inputPin = i /\ y.headphone = h
         /\ y.id = x.id /\ y.type = x.type /\ y.digital = x.digital /\ y.hasIn = x.hasIn
         /\ y.hasOut = x.hasOut /\ y.streams = x.streams /\ y.device = x.device
         /\ y.location = x.location /\ y.colour = x.colour /\ y.list = x.list
         /\ y.selection = x.selection /\ y.inputAmps = x.inputAmps
         /\ y.outputAmp = x.outputAmp
<1> DEFINE x1 == [x EXCEPT !.outputPin = o]
           x2 == [x1 EXCEPT !.inputPin = i]
           x3 == [x2 EXCEPT !.headphone = h]
<1>1. Flagged(x, o, i, h) = x3
  BY DEF Flagged
<1>2. /\ x1 \in Widget /\ x1.outputPin = o /\ x1.id = x.id /\ x1.type = x.type
      /\ x1.digital = x.digital /\ x1.hasIn = x.hasIn /\ x1.hasOut = x.hasOut
      /\ x1.streams = x.streams /\ x1.device = x.device /\ x1.location = x.location
      /\ x1.colour = x.colour /\ x1.headphone = x.headphone /\ x1.inputPin = x.inputPin
      /\ x1.list = x.list /\ x1.selection = x.selection /\ x1.inputAmps = x.inputAmps
      /\ x1.outputAmp = x.outputAmp
  BY SMT DEF Widget, Booleans
<1> HIDE DEF x1
<1>3. /\ x2 \in Widget /\ x2.inputPin = i /\ x2.id = x1.id /\ x2.type = x1.type
      /\ x2.digital = x1.digital /\ x2.hasIn = x1.hasIn /\ x2.hasOut = x1.hasOut
      /\ x2.streams = x1.streams /\ x2.device = x1.device /\ x2.location = x1.location
      /\ x2.colour = x1.colour /\ x2.headphone = x1.headphone
      /\ x2.outputPin = x1.outputPin /\ x2.list = x1.list /\ x2.selection = x1.selection
      /\ x2.inputAmps = x1.inputAmps /\ x2.outputAmp = x1.outputAmp
  BY <1>2, SMT DEF Widget, Booleans
<1> HIDE DEF x2
<1>4. /\ x3 \in Widget /\ x3.headphone = h /\ x3.id = x2.id /\ x3.type = x2.type
      /\ x3.digital = x2.digital /\ x3.hasIn = x2.hasIn /\ x3.hasOut = x2.hasOut
      /\ x3.streams = x2.streams /\ x3.device = x2.device /\ x3.location = x2.location
      /\ x3.colour = x2.colour /\ x3.inputPin = x2.inputPin
      /\ x3.outputPin = x2.outputPin /\ x3.list = x2.list /\ x3.selection = x2.selection
      /\ x3.inputAmps = x2.inputAmps /\ x3.outputAmp = x2.outputAmp
  BY <1>3, SMT DEF Widget, Booleans
<1> HIDE DEF x3
<1> QED
  BY <1>1, <1>2, <1>3, <1>4

(* Storing the list changes the list and nothing else.                     *)
LEMMA SetList ==
  ASSUME NEW x \in Widget, NEW l \in Lists, NEW y, y = [x EXCEPT !.list = l]
  PROVE  /\ y \in Widget
         /\ y.list = l
         /\ y.id = x.id /\ y.type = x.type /\ y.digital = x.digital
         /\ y.hasIn = x.hasIn /\ y.hasOut = x.hasOut /\ y.streams = x.streams
         /\ y.device = x.device /\ y.location = x.location /\ y.colour = x.colour
         /\ y.headphone = x.headphone /\ y.inputPin = x.inputPin
         /\ y.outputPin = x.outputPin /\ y.selection = x.selection
         /\ y.inputAmps = x.inputAmps /\ y.outputAmp = x.outputAmp
<1>1. y \in Widget
  BY SMT DEF Widget
<1> QED
  BY SMT DEF Widget

(* Storing the input amplifiers changes nothing else.                      *)
LEMMA SetInputAmps ==
  ASSUME NEW x \in Widget, NEW a \in AmpLists, NEW y, y = [x EXCEPT !.inputAmps = a]
  PROVE  /\ y \in Widget
         /\ y.inputAmps = a
         /\ y.id = x.id /\ y.type = x.type /\ y.digital = x.digital
         /\ y.hasIn = x.hasIn /\ y.hasOut = x.hasOut /\ y.streams = x.streams
         /\ y.device = x.device /\ y.location = x.location /\ y.colour = x.colour
         /\ y.headphone = x.headphone /\ y.inputPin = x.inputPin
         /\ y.outputPin = x.outputPin /\ y.list = x.list /\ y.selection = x.selection
         /\ y.outputAmp = x.outputAmp
<1>1. y \in Widget
  BY SMT DEF Widget
<1> QED
  BY SMT DEF Widget

(* Storing the output amplifier changes nothing else.                      *)
LEMMA SetOutputAmpOf ==
  ASSUME NEW x \in Widget, NEW a \in Amp, NEW y, y = [x EXCEPT !.outputAmp = a]
  PROVE  /\ y \in Widget
         /\ y.outputAmp = a
         /\ y.id = x.id /\ y.type = x.type /\ y.digital = x.digital
         /\ y.hasIn = x.hasIn /\ y.hasOut = x.hasOut /\ y.streams = x.streams
         /\ y.device = x.device /\ y.location = x.location /\ y.colour = x.colour
         /\ y.headphone = x.headphone /\ y.inputPin = x.inputPin
         /\ y.outputPin = x.outputPin /\ y.list = x.list /\ y.selection = x.selection
         /\ y.inputAmps = x.inputAmps
<1>1. y \in Widget
  BY SMT DEF Widget
<1> QED
  BY SMT DEF Widget

(* The fields of the widget capabilities are stored.                       *)
Capped(x, t, d, i, o) ==
  [x EXCEPT !.type = t, !.digital = d, !.hasIn = i, !.hasOut = o]

(* Storing the widget capabilities changes four fields and nothing else.   *)
LEMMA SetCapabilities ==
  ASSUME NEW x \in Widget, NEW t \in TypeNames, NEW d \in Booleans,
         NEW i \in Booleans, NEW o \in Booleans
  PROVE  LET y == Capped(x, t, d, i, o) IN
         /\ y \in Widget /\ y.type = t /\ y.digital = d /\ y.hasIn = i /\ y.hasOut = o
         /\ y.id = x.id /\ y.streams = x.streams /\ y.device = x.device
         /\ y.location = x.location /\ y.colour = x.colour /\ y.headphone = x.headphone
         /\ y.inputPin = x.inputPin /\ y.outputPin = x.outputPin /\ y.list = x.list
         /\ y.selection = x.selection /\ y.inputAmps = x.inputAmps
         /\ y.outputAmp = x.outputAmp
<1> DEFINE x1 == [x EXCEPT !.type = t]
           x2 == [x1 EXCEPT !.digital = d]
           x3 == [x2 EXCEPT !.hasIn = i]
           x4 == [x3 EXCEPT !.hasOut = o]
<1>1. Capped(x, t, d, i, o) = x4
  BY DEF Capped
<1>2. /\ x1 \in Widget /\ x1.type = t /\ x1.id = x.id /\ x1.digital = x.digital
      /\ x1.hasIn = x.hasIn /\ x1.hasOut = x.hasOut /\ x1.streams = x.streams
      /\ x1.device = x.device /\ x1.location = x.location /\ x1.colour = x.colour
      /\ x1.headphone = x.headphone /\ x1.inputPin = x.inputPin
      /\ x1.outputPin = x.outputPin /\ x1.list = x.list /\ x1.selection = x.selection
      /\ x1.inputAmps = x.inputAmps /\ x1.outputAmp = x.outputAmp
  BY SMT DEF Widget, Booleans
<1> HIDE DEF x1
<1>3. /\ x2 \in Widget /\ x2.digital = d /\ x2.id = x1.id /\ x2.type = x1.type
      /\ x2.hasIn = x1.hasIn /\ x2.hasOut = x1.hasOut /\ x2.streams = x1.streams
      /\ x2.device = x1.device /\ x2.location = x1.location /\ x2.colour = x1.colour
      /\ x2.headphone = x1.headphone /\ x2.inputPin = x1.inputPin
      /\ x2.outputPin = x1.outputPin /\ x2.list = x1.list /\ x2.selection = x1.selection
      /\ x2.inputAmps = x1.inputAmps /\ x2.outputAmp = x1.outputAmp
  BY <1>2, SMT DEF Widget, Booleans
<1> HIDE DEF x2
<1>4. /\ x3 \in Widget /\ x3.hasIn = i /\ x3.id = x2.id /\ x3.type = x2.type
      /\ x3.digital = x2.digital /\ x3.hasOut = x2.hasOut /\ x3.streams = x2.streams
      /\ x3.device = x2.device /\ x3.location = x2.location /\ x3.colour = x2.colour
      /\ x3.headphone = x2.headphone /\ x3.inputPin = x2.inputPin
      /\ x3.outputPin = x2.outputPin /\ x3.list = x2.list /\ x3.selection = x2.selection
      /\ x3.inputAmps = x2.inputAmps /\ x3.outputAmp = x2.outputAmp
  BY <1>3, SMT DEF Widget, Booleans
<1> HIDE DEF x3
<1>5. /\ x4 \in Widget /\ x4.hasOut = o /\ x4.id = x3.id /\ x4.type = x3.type
      /\ x4.digital = x3.digital /\ x4.hasIn = x3.hasIn /\ x4.streams = x3.streams
      /\ x4.device = x3.device /\ x4.location = x3.location /\ x4.colour = x3.colour
      /\ x4.headphone = x3.headphone /\ x4.inputPin = x3.inputPin
      /\ x4.outputPin = x3.outputPin /\ x4.list = x3.list /\ x4.selection = x3.selection
      /\ x4.inputAmps = x3.inputAmps /\ x4.outputAmp = x3.outputAmp
  BY <1>4, SMT DEF Widget, Booleans
<1> HIDE DEF x4
<1> QED
  BY <1>1, <1>2, <1>3, <1>4, <1>5

(* The streams of a converter are read.                                    *)
LEMMA ReadStreamsKeeps == IInv /\ ReadStreams => IInv'
<1> SUFFICES ASSUME IInv, ReadStreams PROVE IInv'
  OBVIOUS
<1> USE DEF Unchanged
<1>1. task = "scan" /\ pc = "streams" /\ pc \in ScanPcs
  BY DEF ReadStreams, ScanPcs
<1>2. /\ node \in Nodes /\ w \in Widget /\ lost \in 0..MaxTimeouts
      /\ CollectedTo(w, node, "streams", offset)
      /\ lost = 0 => ReadTo(w, node, "streams", offset)
  BY <1>1, ScanTask
<1>3. PICK r \in {Codec[node].streams, NoResponse} :
        /\ Exchange(Codec[node].streams, r)
        /\ w' = [w EXCEPT !.streams = ValueOr(r, {})]
  BY DEF ReadStreams
<1>4. /\ \/ r = Codec[node].streams /\ Answered(r) /\ lost' = lost
         \/ r = NoResponse /\ ~Answered(r) /\ lost' = lost + 1
      /\ lost' \in 0..MaxTimeouts
  BY <1>2, <1>3, Exchanged, NotNoResponse
<1>5. DEFINE v == ValueOr(r, {})
<1>6. /\ v \in {Streams(node), {}}
      /\ lost' = 0 => lost = 0 /\ v = Streams(node)
  BY <1>2, <1>4, BoundsAssumption DEF CollectedTo, ValueOr, Streams
<1>7. Streams(node) \in BitSets /\ {} \in BitSets
  BY <1>2, NodeRegisters DEF Streams, BitSets
<1> HIDE DEF v
<1>8. w' = [w EXCEPT !.streams = v]
  BY <1>3 DEF v
<1>9. /\ pc' = AfterPins /\ pc' \in {"length", "amps"}
      /\ pc' = "length" <=> Codec[node].hasList
      /\ UNCHANGED <<task, node, amp, reading, offset, gain, widgets, settings>>
      /\ Unchanged
  BY DEF ReadStreams, AfterPins
<1>10. w' \in Widget
  BY <1>2, <1>6, <1>7, <1>8, SMT DEF Widget
<1>11. /\ w'.streams = v /\ w'.id = w.id /\ w'.type = w.type /\ w'.digital = w.digital
       /\ w'.hasIn = w.hasIn /\ w'.hasOut = w.hasOut
       /\ w'.device = w.device /\ w'.location = w.location /\ w'.colour = w.colour
       /\ w'.headphone = w.headphone /\ w'.inputPin = w.inputPin
       /\ w'.outputPin = w.outputPin /\ w'.list = w.list /\ w'.selection = w.selection
       /\ w'.inputAmps = w.inputAmps /\ w'.outputAmp = w.outputAmp
  BY <1>2, <1>8, SMT DEF Widget
<1>12. CollectedTo(w', node, pc', offset')
  BY <1>2, <1>6, <1>9, <1>11, SMT DEF CollectedTo, Identity, Registers, FlagsExact
<1>13. lost' = 0 => ReadTo(w', node, pc', offset')
  BY <1>2, <1>6, <1>9, <1>11, NothingListed, SMT DEF CollectedTo, ReadTo, ConfigExact,
                                                     FlagsExact
<1>14. pc' \in ScanPcs /\ lost' \in {lost, lost + 1}
  BY <1>4, <1>9, SMT DEF ScanPcs
<1> QED
  BY <1>1, <1>4, <1>9, <1>10, <1>12, <1>13, <1>14, ScanStep

(* The default configuration of a pin is read.                             *)
LEMMA ReadConfigKeeps == IInv /\ ReadConfig => IInv'
<1> SUFFICES ASSUME IInv, ReadConfig PROVE IInv'
  OBVIOUS
<1> USE DEF Unchanged
<1>1. task = "scan" /\ pc = "config" /\ pc \in ScanPcs
  BY DEF ReadConfig, ScanPcs
<1>2. /\ node \in Nodes /\ w \in Widget /\ lost \in 0..MaxTimeouts
      /\ CollectedTo(w, node, "config", offset)
      /\ lost = 0 => ReadTo(w, node, "config", offset)
  BY <1>1, ScanTask
<1> DEFINE config == ConfigWord(Codec[node].config)
<1>3. PICK r \in {config, NoResponse} :
        /\ Exchange(config, r)
        /\ w' = IF Answered(r) THEN WithConfig(w, r) ELSE w
  BY DEF ReadConfig
<1>4. /\ config \in Int /\ config # NoResponse
      /\ Codec[node].config \in Config
  BY <1>2, NodeRegisters, NotNoResponse, ConfigRead
<1>5. /\ \/ r = config /\ Answered(r) /\ lost' = lost
         \/ r = NoResponse /\ ~Answered(r) /\ lost' = lost + 1
      /\ lost' \in 0..MaxTimeouts
  BY <1>2, <1>3, <1>4, Exchanged
<1>6. IsPin(node)
  BY <1>2 DEF CollectedTo
<1>7. /\ LocationOf(Nibble(config, 24)) = Location(node)
      /\ DeviceOf(Nibble(config, 20)) = Device(node)
      /\ Nibble(config, 12) = Colour(node)
  BY <1>4, <1>6, ConfigRead, Zenon DEF Location, Device, Colour
<1>8. /\ Location(node) \in LocationNames /\ Device(node) \in DeviceNames
      /\ Colour(node) \in Nibbles
  BY <1>4, <1>6, NamesOfCodes, ConfigFields
     DEF Location, Device, Colour, LocationNames, DeviceNames, Nibbles
<1>9. /\ pc' = "pins"
      /\ UNCHANGED <<task, node, amp, reading, offset, gain, widgets, settings>>
      /\ Unchanged
  BY DEF ReadConfig
<1>10. /\ w' = w /\ lost' = lost + 1
       \/ /\ w' = Configured(w, Location(node), Device(node), Colour(node))
          /\ lost' = lost
  BY <1>3, <1>5, <1>7 DEF WithConfig, Configured
<1>11. /\ w' \in Widget
        /\ w'.id = w.id /\ w'.type = w.type /\ w'.digital = w.digital
        /\ w'.hasIn = w.hasIn /\ w'.hasOut = w.hasOut /\ w'.streams = w.streams
        /\ w'.headphone = w.headphone /\ w'.inputPin = w.inputPin
        /\ w'.outputPin = w.outputPin /\ w'.list = w.list /\ w'.selection = w.selection
        /\ w'.inputAmps = w.inputAmps /\ w'.outputAmp = w.outputAmp
  BY <1>2, <1>8, <1>10, SetConfig
<1>12. \/ ConfigExact(w', node)
       \/ w' = w /\ lost' = lost + 1
  BY <1>2, <1>8, <1>10, SetConfig DEF ConfigExact
<1>13. CollectedTo(w', node, pc', offset')
  BY <1>2, <1>9, <1>11, <1>12, SMT DEF CollectedTo, Identity, Registers, FlagsExact,
                                     ConfigExact
<1>14. lost' = 0 => ReadTo(w', node, pc', offset')
  BY <1>2, <1>5, <1>9, <1>11, <1>12, SMT DEF ReadTo, FlagsExact
<1>15. pc' \in ScanPcs /\ lost' \in {lost, lost + 1}
  BY <1>5, <1>9, SMT DEF ScanPcs
<1> QED
  BY <1>1, <1>5, <1>9, <1>11, <1>13, <1>14, <1>15, ScanStep

(* The capabilities of a pin are read.                                     *)
LEMMA ReadPinsKeeps == IInv /\ ReadPins => IInv'
<1> SUFFICES ASSUME IInv, ReadPins PROVE IInv'
  OBVIOUS
<1> USE DEF Unchanged
<1>1. task = "scan" /\ pc = "pins" /\ pc \in ScanPcs
  BY DEF ReadPins, ScanPcs
<1>2. /\ node \in Nodes /\ w \in Widget /\ lost \in 0..MaxTimeouts
      /\ CollectedTo(w, node, "pins", offset)
      /\ lost = 0 => ReadTo(w, node, "pins", offset)
  BY <1>1, ScanTask
<1>3. PICK r \in {Codec[node].pins, NoResponse} :
        /\ Exchange(Codec[node].pins, r)
        /\ w' = IF Answered(r)
                THEN [w EXCEPT !.outputPin = 4 \in r, !.inputPin = 5 \in r,
                               !.headphone = 3 \in r]
                ELSE w
  BY DEF ReadPins
<1>4. /\ \/ r = Codec[node].pins /\ Answered(r) /\ lost' = lost
         \/ r = NoResponse /\ ~Answered(r) /\ lost' = lost + 1
      /\ lost' \in 0..MaxTimeouts
  BY <1>2, <1>3, Exchanged, NotNoResponse
<1>5. IsPin(node)
  BY <1>2 DEF CollectedTo
<1>6. /\ Flag(node, 3) = (3 \in Codec[node].pins) /\ Flag(node, 3) \in BOOLEAN
      /\ Flag(node, 4) = (4 \in Codec[node].pins) /\ Flag(node, 4) \in BOOLEAN
      /\ Flag(node, 5) = (5 \in Codec[node].pins) /\ Flag(node, 5) \in BOOLEAN
  BY <1>2, <1>5, FlagOfPin
<1>7. /\ w' = w /\ lost' = lost + 1
      \/ /\ w' = Flagged(w, Flag(node, 4), Flag(node, 5), Flag(node, 3))
         /\ lost' = lost
  BY <1>3, <1>4, <1>6 DEF Flagged
<1>8. /\ pc' = AfterPins /\ pc' \in {"length", "amps"}
      /\ pc' = "length" <=> Codec[node].hasList
      /\ UNCHANGED <<task, node, amp, reading, offset, gain, widgets, settings>>
      /\ Unchanged
  BY DEF ReadPins, AfterPins
<1>f. PICK f \in Booleans : f = Flag(node, 4)
  BY FlagsBoolean DEF Booleans
<1>g. PICK g \in Booleans : g = Flag(node, 5)
  BY FlagsBoolean DEF Booleans
<1>k. PICK k \in Booleans : k = Flag(node, 3)
  BY FlagsBoolean DEF Booleans
<1>10. \/ w' = w /\ lost' = lost + 1
       \/ w' = Flagged(w, f, g, k) /\ lost' = lost
  BY <1>7, <1>f, <1>g, <1>k
<1>11. w \in Widget /\ f \in Booleans /\ g \in Booleans /\ k \in Booleans
  BY <1>2, <1>f, <1>g, <1>k
<1> DEFINE y == Flagged(w, f, g, k)
<1>12. /\ y \in Widget
       /\ y.id = w.id /\ y.type = w.type /\ y.digital = w.digital
       /\ y.hasIn = w.hasIn /\ y.hasOut = w.hasOut /\ y.streams = w.streams
       /\ y.device = w.device /\ y.location = w.location /\ y.colour = w.colour
       /\ y.list = w.list /\ y.selection = w.selection
       /\ y.inputAmps = w.inputAmps /\ y.outputAmp = w.outputAmp
       /\ y.headphone = k /\ y.inputPin = g /\ y.outputPin = f
  BY <1>11, SetFlags
<1>13. FlagsExact(y, node)
  BY <1>12, <1>f, <1>g, <1>k, SMT DEF FlagsExact
<1> HIDE DEF y
<1>14. /\ w' \in Widget
       /\ w'.id = w.id /\ w'.type = w.type /\ w'.digital = w.digital
       /\ w'.hasIn = w.hasIn /\ w'.hasOut = w.hasOut /\ w'.streams = w.streams
       /\ w'.device = w.device /\ w'.location = w.location /\ w'.colour = w.colour
       /\ w'.list = w.list /\ w'.selection = w.selection
       /\ w'.inputAmps = w.inputAmps /\ w'.outputAmp = w.outputAmp
  BY <1>10, <1>11, <1>12 DEF y
<1>15. FlagsExact(w', node) \/ (w' = w /\ lost' = lost + 1)
  BY <1>10, <1>13 DEF y
<1>16. CollectedTo(w', node, pc', offset')
  BY <1>2, <1>8, <1>14, <1>15, SMT DEF CollectedTo, Identity, Registers, FlagsExact
<1>17. lost' = 0 => ReadTo(w', node, pc', offset')
  BY <1>2, <1>4, <1>8, <1>14, <1>15, NothingListed, SMT DEF CollectedTo, ReadTo, ConfigExact
<1>18. pc' \in ScanPcs /\ lost' \in {lost, lost + 1}
  BY <1>4, <1>8, SMT DEF ScanPcs
<1> QED
  BY <1>1, <1>4, <1>8, <1>14, <1>16, <1>17, <1>18, ScanStep

(* The selected connection is read.                                        *)
LEMMA ReadSelectionKeeps == IInv /\ ReadSelection => IInv'
<1> SUFFICES ASSUME IInv, ReadSelection PROVE IInv'
  OBVIOUS
<1> USE DEF Unchanged
<1>1. task = "scan" /\ pc = "selection" /\ pc \in ScanPcs
  BY DEF ReadSelection, ScanPcs
<1>2. /\ node \in Nodes /\ w \in Widget /\ lost \in 0..MaxTimeouts
      /\ CollectedTo(w, node, "selection", offset)
      /\ lost = 0 => ReadTo(w, node, "selection", offset)
  BY <1>1, ScanTask
<1>3. PICK r \in {Codec[node].selection, NoResponse} :
        /\ Exchange(Codec[node].selection, r)
        /\ w' = [w EXCEPT !.selection = ValueOr(r, @)]
  BY DEF ReadSelection
<1>4. Codec[node].selection \in Bytes /\ Codec[node].selection # NoResponse
  BY <1>2, NodeRegisters, NotNoResponse, SMT DEF Bytes
<1>5. /\ \/ r = Codec[node].selection /\ Answered(r) /\ lost' = lost
         \/ r = NoResponse /\ ~Answered(r) /\ lost' = lost + 1
      /\ lost' \in 0..MaxTimeouts
  BY <1>2, <1>3, <1>4, Exchanged
<1>6. w.selection = 0 /\ Selection(node) = Codec[node].selection
  BY <1>2 DEF CollectedTo
<1>7. PICK v : /\ w' = [w EXCEPT !.selection = v]
               /\ \/ v = Selection(node) /\ lost' = lost
                  \/ v = 0 /\ lost' = lost + 1
  BY <1>3, <1>5, <1>6 DEF ValueOr
<1>8. /\ pc' = "amps"
      /\ UNCHANGED <<task, node, amp, reading, offset, gain, widgets, settings>>
      /\ Unchanged
  BY DEF ReadSelection
<1>9. v \in Bytes
  BY <1>4, <1>6, <1>7 DEF Bytes
<1>10. w' \in Widget
  BY <1>2, <1>7, <1>9, SMT DEF Widget
<1>11. /\ w'.id = w.id /\ w'.type = w.type /\ w'.digital = w.digital
       /\ w'.hasIn = w.hasIn /\ w'.hasOut = w.hasOut /\ w'.streams = w.streams
       /\ w'.device = w.device /\ w'.location = w.location /\ w'.colour = w.colour
       /\ w'.headphone = w.headphone /\ w'.inputPin = w.inputPin
       /\ w'.outputPin = w.outputPin
       /\ w'.list = w.list /\ w'.selection = v
       /\ w'.inputAmps = w.inputAmps /\ w'.outputAmp = w.outputAmp
  BY <1>2, <1>7, SMT DEF Widget
<1>12. CollectedTo(w', node, pc', offset')
  BY <1>2, <1>7, <1>8, <1>11, SMT DEF CollectedTo, Identity, Registers, FlagsExact
<1>13. lost' = 0 => ReadTo(w', node, pc', offset')
  BY <1>2, <1>7, <1>8, <1>11, SMT DEF ReadTo, ConfigExact, FlagsExact
<1>14. pc' \in ScanPcs /\ lost' \in {lost, lost + 1}
  BY <1>5, <1>8, SMT DEF ScanPcs
<1> QED
  BY <1>1, <1>5, <1>8, <1>10, <1>12, <1>13, <1>14, ScanStep

(* The selection is asked for exactly where there is one.                  *)
LEMMA AfterListSelects ==
  ASSUME NEW x \in Widget, node \in Nodes, Identity(x, node), Codec[node].hasList,
         x = w
  PROVE  LET next == AfterList(Len(Codec[node].entries)) IN
         /\ next \in {"selection", "amps"}
         /\ next = "selection" => Selection(node) = Codec[node].selection
         /\ next = "amps" => Selection(node) = 0
<1>1. Codec[node].entries \in Seq(0..255)
  BY NodeRegisters
<1>2. Len(Codec[node].entries) = 0 <=> Codec[node].entries = <<>>
  BY <1>1, EmptySeq
<1>3. x.type = "Mixer" <=> Codec[node].type = "Mixer"
  BY SMT DEF Identity, TypeOf, Types
<1> QED
  BY <1>2, <1>3, SMT DEF AfterList, Selection

(* The length of the connection list is read; the long form is left out.   *)
LEMMA ReadLengthKeeps == IInv /\ ReadLength => IInv'
<1> SUFFICES ASSUME IInv, ReadLength PROVE IInv'
  OBVIOUS
<1> USE DEF Unchanged
<1>1. task = "scan" /\ pc = "length" /\ pc \in ScanPcs
  BY DEF ReadLength, ScanPcs
<1>2. /\ node \in Nodes /\ w \in Widget /\ lost \in 0..MaxTimeouts
      /\ CollectedTo(w, node, "length", offset)
      /\ lost = 0 => ReadTo(w, node, "length", offset)
  BY <1>1, ScanTask
<1> DEFINE length == Len(Codec[node].entries)
           zeros == [i \in 1..length |-> 0]
<1>3. PICK r \in {length, NoResponse} :
        /\ Exchange(length, r)
        /\ \/ /\ Answered(r) /\ ~Codec[node].long
              /\ w' = [w EXCEPT !.list = zeros]
              /\ pc' = IF length = 0 THEN "amps" ELSE "entries"
           \/ /\ Answered(r) /\ Codec[node].long
              /\ UNCHANGED w
              /\ pc' = AfterList(length)
           \/ /\ ~Answered(r)
              /\ UNCHANGED w
              /\ pc' = "amps"
  BY DEF ReadLength
<1>4. /\ offset' = 0
      /\ UNCHANGED <<task, node, amp, reading, gain, widgets, settings>>
      /\ Unchanged
  BY DEF ReadLength
<1>5. length \in Nat /\ length # NoResponse /\ Codec[node].entries \in Seq(0..255)
  BY <1>2, NodeRegisters, NotNoResponse
<1>6. /\ \/ Answered(r) /\ lost' = lost
         \/ ~Answered(r) /\ lost' = lost + 1
      /\ lost' \in 0..MaxTimeouts
  BY <1>2, <1>3, <1>5, Exchanged
<1>7. /\ Codec[node].hasList /\ Identity(w, node) /\ w.list = <<>> /\ w.selection = 0
      /\ w.inputAmps = <<>> /\ w.outputAmp = DefaultAmp
  BY <1>2 DEF CollectedTo
<1>8. lost' = 0 => /\ lost = 0 /\ Answered(r)
  BY <1>2, <1>6, BoundsAssumption
<1>9. CASE ~Answered(r)
  <2>1. w' = w /\ pc' = "amps" /\ lost' = lost + 1
    BY <1>3, <1>6, <1>9
  <2>2. CollectedTo(w', node, pc', offset')
    BY <1>2, <2>1, SMT DEF CollectedTo
  <2> QED
    BY <1>1, <1>2, <1>4, <1>6, <1>8, <1>9, <2>1, <2>2, ScanStep DEF ScanPcs
<1>10. CASE Answered(r) /\ Codec[node].long
  <2>1. w' = w /\ pc' = AfterList(length) /\ lost' = lost
    BY <1>3, <1>6, <1>10
  <2>2. /\ pc' \in {"selection", "amps"}
        /\ pc' = "selection" => Selection(node) = Codec[node].selection
        /\ pc' = "amps" => Selection(node) = 0
    BY <1>2, <1>7, <2>1, AfterListSelects
  <2>3. CollectedTo(w', node, pc', offset')
    BY <1>2, <1>7, <2>1, <2>2, SMT DEF CollectedTo
  <2>4. KnownList(node) = <<>>
    BY <1>2, <1>10, ListKnown
  <2>5. lost = 0 => ReadTo(w', node, pc', offset')
    BY <1>2, <1>7, <2>1, <2>2, <2>4, SMT DEF ReadTo
  <2> QED
    BY <1>1, <1>2, <1>4, <1>6, <2>1, <2>2, <2>3, <2>5, ScanStep DEF ScanPcs
<1>11. CASE Answered(r) /\ ~Codec[node].long
  <2>1. /\ w' = [w EXCEPT !.list = zeros] /\ lost' = lost
        /\ pc' = IF length = 0 THEN "amps" ELSE "entries"
    BY <1>3, <1>6, <1>11
  <2>2. /\ zeros \in Lists /\ Len(zeros) = length
        /\ \A i \in 1..length : zeros[i] = 0
    <3>1. zeros \in [1..length -> 0..127]
      BY <1>5
    <3> QED
      BY <1>5, <3>1 DEF Lists
  <2> HIDE DEF zeros
  <2>3. /\ w' \in Widget /\ w'.list = zeros
        /\ w'.id = w.id /\ w'.type = w.type /\ w'.digital = w.digital
        /\ w'.hasIn = w.hasIn /\ w'.hasOut = w.hasOut /\ w'.streams = w.streams
        /\ w'.device = w.device /\ w'.location = w.location /\ w'.colour = w.colour
        /\ w'.headphone = w.headphone /\ w'.inputPin = w.inputPin
        /\ w'.outputPin = w.outputPin /\ w'.selection = w.selection
        /\ w'.inputAmps = w.inputAmps /\ w'.outputAmp = w.outputAmp
    BY <1>2, <2>1, <2>2, SetList
  <2>4. CollectedTo(w', node, pc', offset')
    BY <1>2, <1>4, <1>5, <1>7, <1>11, <2>1, <2>2, <2>3, SMT
       DEF CollectedTo, Identity, Registers, FlagsExact
  <2>5. length = 0 => zeros = <<>> /\ KnownList(node) = <<>> /\ Selection(node) = 0
    <3>1. length = 0 => zeros = <<>>
      BY <2>2, EmptySeq DEF Lists
    <3>2. length = 0 => KnownList(node) = <<>>
      BY <1>2, <1>5, ListKnown, EmptySeq
    <3>3. length = 0 => Selection(node) = 0
      BY <1>5, EmptySeq DEF Selection
    <3> QED
      BY <3>1, <3>2, <3>3
  <2>6. lost = 0 => ReadTo(w', node, pc', offset')
    BY <1>2, <1>4, <1>7, <2>1, <2>2, <2>3, <2>5, SMT DEF ReadTo, ConfigExact, FlagsExact
  <2> QED
    BY <1>1, <1>2, <1>4, <1>6, <2>1, <2>3, <2>4, <2>6, ScanStep DEF ScanPcs
<1> QED
  BY <1>9, <1>10, <1>11

(* Up to four entries are read. The entries before the new offset are      *)
(* known afterwards, the others are as they were.                          *)
LEMMA ReadEntriesKeeps == IInv /\ ReadEntries => IInv'
<1> SUFFICES ASSUME IInv, ReadEntries PROVE IInv'
  OBVIOUS
<1> USE DEF Unchanged
<1>1. task = "scan" /\ pc = "entries" /\ pc \in ScanPcs
  BY DEF ReadEntries, ScanPcs
<1>2. /\ node \in Nodes /\ w \in Widget /\ lost \in 0..MaxTimeouts
      /\ CollectedTo(w, node, "entries", offset)
      /\ lost = 0 => ReadTo(w, node, "entries", offset)
  BY <1>1, ScanTask
<1> DEFINE length == Len(w.list)
           longer(r) == [i \in 1..length |->
                           IF i \in Group(length)
                           THEN Entry(Shifted(r, i - 1 - offset)) ELSE w.list[i]]
           data == EntryWord(Codec[node].entries, offset)
<1>3. PICK r \in {data, NoResponse} :
        /\ Exchange(data, r)
        /\ w' = IF Answered(r) THEN [w EXCEPT !.list = longer(r)] ELSE w
        /\ offset' = offset + 4
        /\ pc' = IF offset + 4 < length THEN "entries" ELSE AfterList(length)
  BY DEF ReadEntries, NextOffset
<1>4. /\ UNCHANGED <<task, node, amp, reading, gain, widgets, settings>>
      /\ Unchanged
  BY DEF ReadEntries
<1>0. data \in Int /\ data # NoResponse
  <2>1. offset \in Nat
    BY <1>2 DEF CollectedTo
  <2> QED
    BY <1>2, <2>1, EntryOfWord, NotNoResponse
<1>5. /\ \/ r = data /\ Answered(r) /\ lost' = lost
         \/ r = NoResponse /\ ~Answered(r) /\ lost' = lost + 1
      /\ lost' \in 0..MaxTimeouts
  <2> HIDE DEF data
  <2> QED
    BY <1>0, <1>2, <1>3, Exchanged
<1>6. /\ Codec[node].hasList /\ ~Codec[node].long /\ Identity(w, node)
      /\ w.selection = 0 /\ w.inputAmps = <<>> /\ w.outputAmp = DefaultAmp
      /\ offset \in Nat /\ offset < length /\ length = Len(Codec[node].entries)
  BY <1>2 DEF CollectedTo
<1>7. /\ w.list \in Seq(0..127) /\ Codec[node].entries \in Seq(0..255) /\ length \in Nat
  BY <1>2, NodeRegisters DEF Widget, Lists
<1>8. /\ \A i \in 1..length : w.list[i] \in {Truth(node, i), 0}
      /\ \A i \in 1..length : Truth(node, i) \in 0..127
      /\ lost = 0 => \A i \in 1..length : i <= offset => w.list[i] = Truth(node, i)
  <2>1. \A i \in 1..length : Truth(node, i) \in 0..127
    BY <1>2, <1>6, ListKnown
  <2>2. w.list # <<>>
    BY <1>6, <1>7
  <2>3. \A i \in 1..length : w.list[i] \in {Truth(node, i), 0}
    BY <1>2, <2>2 DEF CollectedTo, Registers
  <2>4. lost = 0 => \A i \in 1..length : i <= offset => w.list[i] = Truth(node, i)
    BY <1>2, SMT DEF ReadTo
  <2> QED
    BY <2>1, <2>3, <2>4
<1>9. /\ pc' \in {"entries", "selection", "amps"}
      /\ pc' = "entries" <=> offset' < length
      /\ pc' = "selection" => Selection(node) = Codec[node].selection
      /\ pc' = "amps" => Selection(node) = 0
      /\ offset' \in Nat /\ offset' = offset + 4
  <2>1. LET next == AfterList(length) IN
        /\ next \in {"selection", "amps"}
        /\ next = "selection" => Selection(node) = Codec[node].selection
        /\ next = "amps" => Selection(node) = 0
    BY <1>2, <1>6, AfterListSelects
  <2>2. offset + 4 \in Nat
    BY <1>6
  <2> QED
    BY <1>3, <2>1, <2>2
<1>10. PICK l : /\ w' = [w EXCEPT !.list = l] /\ l \in Seq(0..127) /\ Len(l) = length
                /\ \A i \in 1..length : l[i] \in {Truth(node, i), 0}
                /\ lost' = 0 =>
                     /\ lost = 0
                     /\ \A i \in 1..length : i <= offset' => l[i] = Truth(node, i)
  <2>1. CASE ~Answered(r)
    <3>1. w' = [w EXCEPT !.list = w.list]
      BY <1>2, <1>3, <2>1, SMT DEF Widget
    <3>2. lost' # 0
      BY <1>2, <1>5, <2>1, BoundsAssumption
    <3> QED
      BY <1>7, <1>8, <3>1, <3>2
  <2>2. CASE Answered(r)
    <3>1. w' = [w EXCEPT !.list = longer(r)] /\ r = data /\ lost' = lost
      BY <1>3, <1>5, <2>2
    <3>2. \A i \in 1..length : longer(r)[i] = IF i \in Group(length) THEN Truth(node, i)
                                              ELSE w.list[i]
      <4>1. \A i \in 1..Len(Codec[node].entries) :
              offset < i /\ i <= offset + 4 =>
                Entry(Shifted(data, i - 1 - offset)) = Truth(node, i)
        BY <1>2, <1>6, EntryOfWord
      <4>2. \A i \in 1..length :
              longer(data)[i] = IF i \in Group(length)
                                THEN Entry(Shifted(data, i - 1 - offset)) ELSE w.list[i]
        OBVIOUS
      <4> HIDE DEF longer, data
      <4> QED
        BY <1>6, <3>1, <4>1, <4>2 DEF Group
    <3>3. \A i \in 1..length : longer(r)[i] \in 0..127
      <4>1. \A i \in 1..length : w.list[i] \in 0..127
        BY <1>7, ElementOfSeq
      <4> QED
        BY <1>8, <3>2, <4>1
    <3>4. longer(r) \in Seq(0..127) /\ Len(longer(r)) = length
      <4>1. DOMAIN longer(r) = 1..length /\ longer(r) = [i \in 1..length |-> longer(r)[i]]
        OBVIOUS
      <4> HIDE DEF longer
      <4>2. longer(r) \in [1..length -> 0..127]
        BY <3>3, <4>1
      <4>3. length \in Nat
        BY <1>7
      <4> QED
        BY <4>2, <4>3, FunctionIsSequence, ZenonT(30)
    <3>5. \A i \in 1..length : i \in Group(length) <=> offset < i /\ i <= offset + 4
      BY DEF Group
    <3> HIDE DEF longer
    <3>6. \A i \in 1..length : longer(r)[i] \in {Truth(node, i), 0}
      BY <1>8, <3>2
    <3>7. lost = 0 => \A i \in 1..length : i <= offset' => longer(r)[i] = Truth(node, i)
      <4> SUFFICES ASSUME lost = 0, NEW i \in 1..length, i <= offset'
                   PROVE  longer(r)[i] = Truth(node, i)
        OBVIOUS
      <4>1. CASE i <= offset
        BY <1>8, <3>2, <4>1
      <4>2. CASE ~(i <= offset)
        <5>1. offset < i /\ i <= offset + 4
          BY <1>6, <1>9, <4>2, SMT
        <5> QED
          BY <3>2, <3>5, <5>1
      <4> QED
        BY <4>1, <4>2
    <3> QED
      BY <3>1, <3>4, <3>6, <3>7
  <2> QED
    BY <2>1, <2>2
<1> HIDE DEF length, longer, data
<1>11. /\ w' \in Widget /\ w'.list = l
       /\ w'.id = w.id /\ w'.type = w.type /\ w'.digital = w.digital
       /\ w'.hasIn = w.hasIn /\ w'.hasOut = w.hasOut /\ w'.streams = w.streams
       /\ w'.device = w.device /\ w'.location = w.location /\ w'.colour = w.colour
       /\ w'.headphone = w.headphone /\ w'.inputPin = w.inputPin
       /\ w'.outputPin = w.outputPin /\ w'.selection = w.selection
       /\ w'.inputAmps = w.inputAmps /\ w'.outputAmp = w.outputAmp
  <2>1. w \in Widget /\ l \in Lists
    BY <1>2, <1>10 DEF Lists
  <2> QED
    BY <1>10, <2>1, SetList
<1>12. CollectedTo(w', node, pc', offset')
  BY <1>2, <1>6, <1>9, <1>10, <1>11, SMT DEF CollectedTo, Identity, Registers, FlagsExact
<1>13. pc' # "entries" /\ lost' = 0 => l = KnownList(node)
  <2> SUFFICES ASSUME pc' # "entries", lost' = 0 PROVE l = KnownList(node)
    OBVIOUS
  <2>1. \A i \in 1..length : i <= offset'
    BY <1>7, <1>9, SMT
  <2>2. \A i \in 1..length : l[i] = KnownList(node)[i]
    BY <1>2, <1>6, <1>10, <2>1, ListKnown
  <2>3. KnownList(node) \in Seq(0..127) /\ Len(KnownList(node)) = length
    BY <1>2, <1>6, ListKnown
  <2> QED
    BY <1>10, <2>2, <2>3, SeqEqual
<1>14. lost' = 0 => ReadTo(w', node, pc', offset')
  <2> SUFFICES ASSUME lost' = 0 PROVE ReadTo(w', node, pc', offset')
    OBVIOUS
  <2>1. ReadTo(w, node, "entries", offset)
    BY <1>2, <1>10
  <2> QED
    BY <1>6, <1>9, <1>10, <1>11, <1>13, <2>1, SMT DEF ReadTo, ConfigExact, FlagsExact
<1>15. pc' \in ScanPcs /\ lost' \in {lost, lost + 1}
  BY <1>5, <1>9, SMT DEF ScanPcs
<1> QED
  BY <1>1, <1>4, <1>5, <1>11, <1>12, <1>14, <1>15, ScanStep
-----------------------------------------------------------------------------
(* The steps that store a widget. *)

(* Storing one node's widget keeps what is known of the other nodes.       *)
LEMMA StoredOther ==
  ASSUME IInv, task \in {"scan", "refresh"}, NextNode,
         NEW m \in Nodes, m # node, widgets'[m] = widgets[m],
         lost' \in {lost, lost + 1}, UNCHANGED settings, Unchanged
  PROVE  Known(m)'
<1> USE DEF Unchanged
<1>1. /\ Known(m) /\ node \in Nodes /\ lost \in 0..MaxTimeouts /\ lostBefore \in 0..lost
      /\ task = "refresh" => wasReset
      /\ task = "scan" => ~wasReset
  BY DEF IInv, Ranges, Control
<1>2. /\ lost' = 0 => lost = 0
      /\ lost' = lostBefore' => lost = lostBefore
  BY <1>1, BoundsAssumption, SMT
<1>3. m \in Int /\ node \in Int /\ m <= LastNode /\ node <= LastNode
  BY <1>1, LastNodeAssumption DEF Nodes
<1>4. /\ task' \in {task, "none"}
      /\ task' # "none" => node' = node + 1 /\ task' = task
      /\ task' = "none" => node = LastNode
  BY SMT DEF NextNode
<1>5. /\ task' = "scan" /\ m >= node' => task = "scan" /\ m >= node
      /\ (task' = "scan" => m < node') => (task = "scan" => m < node)
      /\ Fresh(m)' => Fresh(m)
  BY <1>1, <1>3, <1>4, SMT DEF Fresh
<1> QED
  BY <1>1, <1>2, <1>5, SMT DEF Known

(* A step that stores the widget of the node in hand and goes on to the    *)
(* next node, or ends the task, keeps the invariant.                       *)
LEMMA Stored ==
  ASSUME IInv, task \in {"scan", "refresh"}, NextNode,
         NEW x \in Widget, widgets' = [widgets EXCEPT ![node] = x],
         x \in {DefaultWidget(0), DefaultWidget(node)} \/ Scanned(x, node),
         lost' = 0 => IF Codec[node].type = "Absent" THEN x = DefaultWidget(0)
                      ELSE Complete(x, node),
         lost' = lostBefore => AmpsExact(settings, x, node),
         w' \in Widget, reading' \in Amp,
         lost' \in {lost, lost + 1}, lost' \in 0..MaxTimeouts,
         UNCHANGED <<gain, settings>>, Unchanged
  PROVE  IInv'
<1> USE DEF Unchanged
<1>1. Control /\ Ranges /\ node \in Nodes /\ widgets \in [Nodes -> Widget]
  BY DEF IInv, Ranges
<1>2. lost \in Nat /\ lostBefore \in 0..lost /\ lostBefore \in 0..lost'
  BY <1>1, BoundsAssumption DEF Ranges
<1>3. node \in Int /\ node >= 0 /\ node <= LastNode /\ LastNode \in Int
  BY <1>1, LastNodeAssumption DEF Nodes
<1>4. node' \in Nodes
  BY <1>3, SMT DEF NextNode, Nodes
<1>5. widgets' \in [Nodes -> Widget] /\ widgets'[node] = x
  BY <1>1
<1>6. Control'
  BY <1>1, SMT DEF NextNode, Control
<1>7. Ranges'
  <2>1. IsSettings(settings)'
    BY <1>1 DEF Ranges, IsSettings
  <2> QED
    BY <1>1, <1>2, <1>4, <1>5, <2>1, Zenon DEF Ranges
<1>8. pc' \notin ScanPcs /\ pc' \notin AmpPcs /\ task' # "unmute"
  BY SMT DEF NextNode, ScanPcs, AmpPcs
<1>9. ASSUME NEW m \in Nodes PROVE Known(m)'
  <2>1. CASE m # node
    BY <1>1, <2>1, StoredOther
  <2>2. CASE m = node
    <3>1. ~(task' = "scan" /\ m >= node')
      BY <1>3, <2>2, SMT DEF NextNode
    <3>2. widgets'[m] = x
      BY <1>5, <2>2
    <3> QED
      BY <2>2, <3>1, <3>2, Zenon DEF Known
  <2> QED
    BY <2>1, <2>2
<1> QED
  BY <1>6, <1>7, <1>8, <1>9 DEF IInv

(* A default widget claims no amplifier.                                   *)
LEMMA NoAmps ==
  ASSUME NEW n \in Nodes, NEW s
  PROVE  AmpsExact(s, DefaultWidget(n), n) /\ AmpsExact(s, DefaultWidget(0), n)
  BY DEF AmpsExact, DefaultWidget

(* Which exchange follows the widget capabilities.                         *)
LEMMA AfterCapReads ==
  ASSUME node \in Nodes
  PROVE  /\ AfterCap \in {"streams", "config", "length", "amps"}
         /\ AfterCap = "streams" <=> Codec[node].type \in {"Output", "Input"}
         /\ AfterCap = "config" <=> IsPin(node)
         /\ AfterCap = "length" => Codec[node].hasList
         /\ AfterCap = "amps" => ~Codec[node].hasList
  BY SMT DEF AfterCap, AfterPins, IsPin

(* The widget capabilities are read: the node is skipped, stored by its    *)
(* number alone, or collected.                                             *)
LEMMA ReadCapKeeps == IInv /\ ReadCap => IInv'
<1> SUFFICES ASSUME IInv, ReadCap PROVE IInv'
  OBVIOUS
<1> USE DEF Unchanged
<1>1. /\ task = "scan" /\ pc = "cap" /\ node \in Nodes /\ w \in Widget
      /\ lost \in 0..MaxTimeouts /\ lostBefore \in 0..lost /\ reading \in Amp
      /\ widgets \in [Nodes -> Widget]
      /\ Known(node)
  BY DEF IInv, Ranges, ReadCap
<1>2. PICK r \in {Codec[node].type, NoResponse} :
       /\ Exchange(Codec[node].type, r)
       /\ \/ /\ Answered(r) /\ r # "Absent"
             /\ w' = [DefaultWidget(node) EXCEPT
                        !.type = IF r \in Types THEN r ELSE @,
                        !.digital = Codec[node].digital,
                        !.hasIn = Codec[node].hasIn,
                        !.hasOut = Codec[node].hasOut]
             /\ pc' = AfterCap
             /\ UNCHANGED <<task, node, widgets>>
          \/ /\ r = "Absent"
             /\ NextNode
             /\ UNCHANGED <<w, widgets>>
          \/ /\ ~Answered(r)
             /\ widgets' = [widgets EXCEPT ![node] = DefaultWidget(node)]
             /\ NextNode
             /\ UNCHANGED w
  BY DEF ReadCap
<1>3. UNCHANGED <<amp, reading, offset, gain, settings>> /\ Unchanged
  BY DEF ReadCap
<1>4. /\ \/ r = Codec[node].type /\ Answered(r) /\ lost' = lost
         \/ r = NoResponse /\ ~Answered(r) /\ lost' = lost + 1
      /\ lost' \in 0..MaxTimeouts
  BY <1>1, <1>2, Exchanged, NotNoResponse
<1>5. 0 \in Nodes /\ lost' \in {lost, lost + 1}
  BY <1>4, LastNodeAssumption DEF Nodes
<1>6. CASE Answered(r) /\ r # "Absent"
  <2>1. /\ r = Codec[node].type /\ lost' = lost /\ Codec[node].type # "Absent"
        /\ w' = [DefaultWidget(node) EXCEPT
                   !.type = IF r \in Types THEN r ELSE @,
                   !.digital = Codec[node].digital,
                   !.hasIn = Codec[node].hasIn,
                   !.hasOut = Codec[node].hasOut]
        /\ pc' = AfterCap
        /\ UNCHANGED <<task, node, widgets>>
    BY <1>2, <1>4, <1>6 DEF Answered
  <2>2. /\ TypeOf(node) \in TypeNames
        /\ Codec[node].digital \in Booleans /\ Codec[node].hasIn \in Booleans
        /\ Codec[node].hasOut \in Booleans
    BY <1>1, NodeRegisters DEF TypeOf, TypeNames, Booleans
  <2> DEFINE d == DefaultWidget(node)
  <2>3. w' = Capped(d, TypeOf(node), Codec[node].digital, Codec[node].hasIn,
                    Codec[node].hasOut)
    <3>1. d.type = "Unknown"
      BY SMT DEF DefaultWidget
    <3> QED
      BY <2>1, <3>1 DEF Capped, TypeOf
  <2>4. /\ d \in Widget
        /\ d.id = node /\ d.streams = {} /\ d.device = "Unknown" /\ d.location = "Unknown"
        /\ d.colour = 0 /\ d.headphone = FALSE /\ d.inputPin = FALSE
        /\ d.outputPin = FALSE /\ d.list = <<>> /\ d.selection = 0
        /\ d.inputAmps = <<>> /\ d.outputAmp = DefaultAmp
    <3>1. d \in Widget
      BY <1>1, DefaultWidgets
    <3> QED
      BY <3>1, SMT DEF DefaultWidget
  <2> HIDE DEF d
  <2>5. /\ w' \in Widget
        /\ w'.type = TypeOf(node) /\ w'.digital = Codec[node].digital
        /\ w'.hasIn = Codec[node].hasIn /\ w'.hasOut = Codec[node].hasOut
        /\ w'.id = d.id /\ w'.streams = d.streams /\ w'.device = d.device
        /\ w'.location = d.location /\ w'.colour = d.colour
        /\ w'.headphone = d.headphone /\ w'.inputPin = d.inputPin
        /\ w'.outputPin = d.outputPin /\ w'.list = d.list
        /\ w'.selection = d.selection /\ w'.inputAmps = d.inputAmps
        /\ w'.outputAmp = d.outputAmp
    BY <2>2, <2>3, <2>4, SetCapabilities, SMTT(30)
  <2>6. /\ w'.id = node
        /\ w'.streams = {} /\ w'.device = "Unknown" /\ w'.location = "Unknown"
        /\ w'.colour = 0 /\ w'.headphone = FALSE /\ w'.inputPin = FALSE
        /\ w'.outputPin = FALSE /\ w'.list = <<>> /\ w'.selection = 0
        /\ w'.inputAmps = <<>> /\ w'.outputAmp = DefaultAmp
    BY <2>4, <2>5
  <2>7. /\ pc' \in {"streams", "config", "length", "amps"}
        /\ pc' = "streams" <=> Codec[node].type \in {"Output", "Input"}
        /\ pc' = "config" <=> IsPin(node)
        /\ pc' = "length" => Codec[node].hasList
        /\ pc' = "amps" => ~Codec[node].hasList
    BY <1>1, <2>1, AfterCapReads
  <2>8. CollectedTo(w', node, pc', offset')
    BY <2>1, <2>5, <2>6, <2>7, SMT DEF CollectedTo, Identity, Registers
  <2>9. /\ pc' # "streams" => Streams(node) = {}
        /\ pc' # "config" => /\ Device(node) = "Unknown" /\ Location(node) = "Unknown"
                             /\ Colour(node) = 0
                             /\ Flag(node, 3) = FALSE /\ Flag(node, 4) = FALSE
                             /\ Flag(node, 5) = FALSE
        /\ pc' = "amps" => KnownList(node) = <<>> /\ Selection(node) = 0
    <3>1. pc' = "amps" => KnownList(node) = <<>> /\ Selection(node) = 0
      BY <1>1, <2>7, NothingListed
    <3>2. pc' # "streams" => Streams(node) = {}
      BY <2>7 DEF Streams
    <3>3. pc' # "config" => ~IsPin(node)
      BY <2>7
    <3>4. ~IsPin(node) => /\ Device(node) = "Unknown" /\ Location(node) = "Unknown"
                          /\ Colour(node) = 0
                          /\ Flag(node, 3) = FALSE /\ Flag(node, 4) = FALSE
                          /\ Flag(node, 5) = FALSE
      BY DEF Device, Location, Colour, Flag
    <3> QED
      BY <3>1, <3>2, <3>3, <3>4
  <2>10. ReadTo(w', node, pc', offset')
    <3>1. pc' # "streams" => w'.streams = Streams(node)
      BY <2>6, <2>9
    <3>2. pc' # "config" => ConfigExact(w', node) /\ FlagsExact(w', node)
      BY <2>6, <2>9, Zenon DEF ConfigExact, FlagsExact
    <3>3. pc' = "amps" => w'.list = KnownList(node) /\ w'.selection = Selection(node)
      BY <2>6, <2>9
    <3> QED
      BY <2>7, <3>1, <3>2, <3>3, SMT DEF ReadTo
  <2>11. pc' \in ScanPcs
    BY <2>7 DEF ScanPcs
  <2> QED
    BY <1>1, <1>3, <1>4, <1>5, <2>1, <2>5, <2>8, <2>10, <2>11, ScanStep
<1>7. CASE ~(Answered(r) /\ r # "Absent")
  <2>1. widgets[node] = DefaultWidget(0)
    <3>1. node >= node
      BY <1>1, LastNodeAssumption DEF Nodes
    <3> QED
      BY <1>1, <3>1 DEF Known
  <2>2. PICK x \in {DefaultWidget(0), DefaultWidget(node)} :
          /\ NextNode /\ w' = w /\ widgets' = [widgets EXCEPT ![node] = x]
          /\ lost' = 0 => x = DefaultWidget(0) /\ Codec[node].type = "Absent"
    <3>1. CASE r = "Absent" /\ NextNode /\ UNCHANGED <<w, widgets>>
      <4>1. widgets' = [widgets EXCEPT ![node] = DefaultWidget(0)]
        BY <1>1, <2>1, <3>1
      <4>2. lost' = 0 => Codec[node].type = "Absent"
        BY <1>1, <1>4, <3>1, BoundsAssumption
      <4> QED
        BY <3>1, <4>1, <4>2
    <3>2. CASE /\ ~Answered(r) /\ NextNode /\ UNCHANGED w
               /\ widgets' = [widgets EXCEPT ![node] = DefaultWidget(node)]
      <4>1. lost' # 0
        BY <1>1, <1>4, <3>2, BoundsAssumption
      <4> QED
        BY <3>2, <4>1
    <3> QED
      BY <1>2, <1>7, <3>1, <3>2
  <2>3. x \in Widget /\ AmpsExact(settings, x, node)
    BY <1>1, <1>5, <2>2, DefaultWidgets, NoAmps
  <2> QED
    BY <1>1, <1>3, <1>4, <1>5, <2>2, <2>3, Stored
<1> QED
  BY <1>6, <1>7

(* The database has no more input amplifiers than the codec.               *)
LEMMA AmpCountBounds ==
  ASSUME NEW n \in Nodes, NEW x \in Widget, Scanned(x, n)
  PROVE  /\ Len(x.inputAmps) \in Nat /\ Len(x.inputAmps) = AmpCount(x)
         /\ Len(x.inputAmps) <= Inputs(n)
         /\ x.inputAmps \in Seq(Amp)
<1>1. x.inputAmps \in Seq(Amp) /\ x.list \in Seq(0..127)
  BY DEF Widget, AmpLists, Lists
<1>2. Codec[n].entries \in Seq(0..255)
  BY NodeRegisters
<1>3. x.type = "Mixer" <=> Codec[n].type = "Mixer"
  BY SMT DEF Scanned, Identity, TypeOf, Types
<1>4. x.hasIn = Codec[n].hasIn
  BY DEF Scanned, Identity
<1>5. Len(x.list) <= Len(Codec[n].entries)
  <2>1. CASE x.list = <<>>
    BY <1>2, <2>1
  <2>2. CASE x.list # <<>>
    BY <1>1, <2>2, SMT DEF Scanned, Registers
  <2> QED
    BY <2>1, <2>2
<1>6. Len(x.inputAmps) = AmpCount(x)
  BY DEF Scanned, AmpsKnown
<1>7. AmpCount(x) <= Inputs(n)
  BY <1>1, <1>2, <1>3, <1>4, <1>5, SMT DEF AmpCount, Inputs
<1> QED
  BY <1>1, <1>6, <1>7

(* A step loses one response at most.                                      *)
LEMMA LostGrows ==
  ASSUME IInv, lost' \in {lost, lost + 1}
  PROVE  /\ lost \in Nat /\ lostBefore \in 0..lost /\ lostBefore \in 0..lost'
         /\ lost' = 0 => lost = 0
         /\ lost' = lostBefore => lost = lostBefore
         /\ lost' = lost + 1 => lost' # 0 /\ lost' # lostBefore
  BY BoundsAssumption, SMT DEF IInv, Ranges

(* The amplifiers of x are done when there is no further one to read.      *)
LEMMA WidgetDone ==
  ASSUME IInv, task \in {"scan", "refresh"}, NEW x \in Widget, NEW a \in Nat,
         ~IsInput(x, a), a = Len(x.inputAmps) => ~ReadsOutput(x),
         Scanned(x, node), a <= Len(x.inputAmps) + 1,
         lost' = lostBefore => AmpsDone(settings, x, node, a),
         lost' = 0 => /\ RegistersExact(x, node)
                      /\ task = "refresh" => OutputKnown(x, node),
         lost' \in {lost, lost + 1}
  PROVE  /\ lost' = 0 => Complete(x, node)
         /\ lost' = lostBefore => AmpsExact(settings, x, node)
<1>1. Control /\ Ranges /\ node \in Nodes
  BY DEF IInv, Ranges
<1>2. Len(x.inputAmps) \in Nat /\ a >= Len(x.inputAmps)
  BY <1>1, AmpCountBounds DEF IsInput
<1>3. a = Len(x.inputAmps) \/ a > Len(x.inputAmps)
  BY <1>2
<1>4. x.hasOut = Codec[node].hasOut
  BY DEF Scanned, Identity
<1>5. \/ x.outputAmp = DefaultAmp
      \/ /\ Codec[node].hasOut /\ Codec[node].outCap # NoCap
         /\ x.outputAmp.valid
  BY DEF Scanned, AmpsKnown, Capable
<1>6. lost' = lostBefore => AmpsExact(settings, x, node)
  <2> SUFFICES ASSUME lost' = lostBefore PROVE AmpsExact(settings, x, node)
    OBVIOUS
  <2>1. \A i \in 1..Len(x.inputAmps) : x.inputAmps[i] = InputTruth(settings, node, i)
    BY <1>2 DEF AmpsDone
  <2>2. x.outputAmp \in {OutputTruth(settings, node), DefaultAmp}
    <3>1. CASE a > Len(x.inputAmps)
      BY <3>1 DEF AmpsDone
    <3>2. CASE a = Len(x.inputAmps)
      <4>1. ~ReadsOutput(x)
        BY <3>2
      <4>2. CASE task = "scan"
        BY <1>4, <1>5, <4>1, <4>2 DEF ReadsOutput
      <4>3. CASE task = "refresh"
        BY <1>5, <4>1, <4>3 DEF ReadsOutput
      <4> QED
        BY <4>2, <4>3
    <3> QED
      BY <1>3, <3>1, <3>2
  <2> QED
    BY <2>1, <2>2 DEF AmpsExact
<1>7. lost' = 0 => Complete(x, node)
  <2> SUFFICES ASSUME lost' = 0, task = "scan" PROVE OutputKnown(x, node)
    BY DEF Complete
  <2>1. lost' = lostBefore
    BY <1>1, SMT DEF Control
  <2>2. CASE a = Len(x.inputAmps)
    BY <1>4, <2>2 DEF ReadsOutput, OutputKnown
  <2>3. CASE a > Len(x.inputAmps)
    <3>1. x.outputAmp = OutputTruth(settings, node)
      BY <2>1, <2>3 DEF AmpsDone
    <3>2. settings[node][Inputs(node)] \in Setting /\ Codec[node].outCap \in 0..NoCap
      BY <1>1, TruthOfAmps, NodeRegisters, Channels0 DEF Ranges
    <3>3. Codec[node].outCap # NoCap => Capable(x.outputAmp, Codec[node].outCap)
      BY <3>1, <3>2, TrueAmps DEF OutputTruth
    <3> QED
      BY <3>3 DEF OutputKnown, Capable
  <2> QED
    BY <1>3, <2>2, <2>3
<1> QED
  BY <1>6, <1>7

(* ReadAmpsFrom keeps the invariant from any amplifier up to which the     *)
(* widget is done.                                                         *)
LEMMA FromAmp ==
  ASSUME IInv, task \in {"scan", "refresh"}, NEW x \in Widget, NEW a \in Nat,
         ReadAmpsFrom(x, a),
         Scanned(x, node), a <= Len(x.inputAmps) + 1,
         lost' = lostBefore => AmpsDone(settings, x, node, a),
         lost' = 0 => /\ RegistersExact(x, node)
                      /\ task = "refresh" => OutputKnown(x, node),
         lost' \in {lost, lost + 1}, lost' \in 0..MaxTimeouts, reading' \in Amp,
         UNCHANGED <<gain, settings>>, Unchanged
  PROVE  IInv'
<1> USE DEF Unchanged
<1>1. /\ Control /\ Ranges /\ node \in Nodes /\ \A n \in Nodes : Known(n)
      /\ w' = x /\ amp' = a
  BY DEF IInv, Ranges, ReadAmpsFrom
<1>2. Len(x.inputAmps) \in Nat
  BY <1>1, AmpCountBounds
<1>3. CASE /\ IsInput(x, a) \/ (a = Len(x.inputAmps) /\ ReadsOutput(x))
           /\ pc' = "ampCap"
           /\ UNCHANGED <<task, node, widgets>>
  <2>1. /\ lost \in Nat /\ lostBefore \in 0..lost /\ lostBefore \in 0..lost'
    BY LostGrows
  <2>2. \A n \in Nodes : Known(n)'
    BY <1>1, <1>3, <2>1, KnownKept
  <2>3. Control'
    BY <1>1, <1>3, SMT DEF Control, AmpPcs
  <2>4. Ranges'
    <3>1. IsSettings(settings)'
      BY <1>1 DEF Ranges, IsSettings
    <3> QED
      BY <1>1, <1>3, <2>1, <3>1, Zenon DEF Ranges
  <2>5. a \in 0..Len(x.inputAmps)
    BY <1>2, <1>3, SMT DEF IsInput
  <2>6. a = Len(x.inputAmps) => ReadsOutput(x)
    BY <1>2, <1>3, SMT DEF IsInput
  <2>7. ReadsOutput(x)' = ReadsOutput(x)
    BY <1>3 DEF ReadsOutput
  <2>8. Reading'
    BY <1>1, <1>3, <2>5, <2>6, <2>7, SMT DEF Reading, ReadsOutput
  <2> QED
    BY <1>3, <2>2, <2>3, <2>4, <2>8, SMT DEF IInv, ScanPcs
<1>4. CASE /\ ~IsInput(x, a)
           /\ a = Len(x.inputAmps) => ~ReadsOutput(x)
           /\ widgets' = [widgets EXCEPT ![node] = x]
           /\ NextNode
  <2>1. /\ lost' = 0 => Complete(x, node)
        /\ lost' = lostBefore => AmpsExact(settings, x, node)
    BY <1>4, WidgetDone
  <2>2. Codec[node].type # "Absent"
    BY DEF Scanned, Identity
  <2> QED
    BY <1>1, <1>4, <2>1, <2>2, Stored
<1> QED
  BY <1>3, <1>4 DEF ReadAmpsFrom
-----------------------------------------------------------------------------
(* The amplifiers. *)

(* The scan comes to the amplifiers of its widget.                         *)
LEMMA StartAmpsKeeps == IInv /\ StartAmps => IInv'
<1> SUFFICES ASSUME IInv, StartAmps PROVE IInv'
  OBVIOUS
<1>1. /\ task = "scan" /\ pc = "amps" /\ pc \in ScanPcs
      /\ UNCHANGED <<reading, offset, gain, settings, lost>> /\ Unchanged
  BY DEF StartAmps, ScanPcs
<1>2. /\ node \in Nodes /\ w \in Widget /\ lost \in 0..MaxTimeouts
      /\ CollectedTo(w, node, "amps", offset)
      /\ lost = 0 => ReadTo(w, node, "amps", offset)
      /\ reading \in Amp
  <2>1. reading \in Amp
    BY DEF IInv, Ranges
  <2> QED
    BY <1>1, <2>1, ScanTask
<1> DEFINE amps == [i \in 1..NumberOfAmps |-> DefaultAmp]
           x == [w EXCEPT !.inputAmps = amps]
<1>3. ReadAmpsFrom(x, 0)
  BY DEF StartAmps
<1>4. /\ Identity(w, node) /\ Registers(w, node) /\ w.outputAmp = DefaultAmp
      /\ lost = 0 => RegistersExact(w, node)
  BY <1>2, SMT DEF CollectedTo, ReadTo, RegistersExact
<1>5. NumberOfAmps \in Nat /\ NumberOfAmps = AmpCount(w)
  BY <1>2, SMT DEF NumberOfAmps, AmpCount, Widget, Lists
<1>6. /\ amps \in AmpLists /\ Len(amps) = AmpCount(w)
      /\ \A i \in 1..Len(amps) : amps[i] = DefaultAmp
  <2>1. amps \in [1..NumberOfAmps -> Amp]
    BY <1>2, DefaultWidgets
  <2>2. amps \in Seq(Amp) /\ Len(amps) = NumberOfAmps
    BY <1>5, <2>1, FunctionIsSequence
  <2> QED
    BY <1>5, <2>2 DEF AmpLists
<1> HIDE DEF amps
<1>7. /\ x \in Widget /\ x.inputAmps = amps
      /\ x.id = w.id /\ x.type = w.type /\ x.digital = w.digital
      /\ x.hasIn = w.hasIn /\ x.hasOut = w.hasOut /\ x.streams = w.streams
      /\ x.device = w.device /\ x.location = w.location /\ x.colour = w.colour
      /\ x.headphone = w.headphone /\ x.inputPin = w.inputPin
      /\ x.outputPin = w.outputPin /\ x.list = w.list /\ x.selection = w.selection
      /\ x.outputAmp = w.outputAmp
  BY <1>2, <1>6, SetInputAmps
<1> HIDE DEF x
<1>8. Scanned(x, node)
  <2>1. Identity(x, node)
    BY <1>4, <1>7 DEF Identity
  <2>2. Registers(x, node)
    BY <1>4, <1>7, SMT DEF Registers, FlagsExact
  <2>3. AmpsKnown(x, node)
    BY <1>4, <1>6, <1>7, SMT DEF AmpsKnown, AmpCount
  <2> QED
    BY <2>1, <2>2, <2>3 DEF Scanned
<1>9. lost = 0 => RegistersExact(x, node)
  BY <1>4, <1>7, SMT DEF RegistersExact, ConfigExact, FlagsExact
<1>10. Len(x.inputAmps) \in Nat
  BY <1>2, <1>7, <1>8, AmpCountBounds
<1>11. AmpsDone(settings, x, node, 0)
  BY <1>10, SMT DEF AmpsDone
<1> QED
  BY <1>1, <1>2, <1>3, <1>7, <1>8, <1>9, <1>10, <1>11, FromAmp

(* refreshWidget starts with the widget in the database.                   *)
LEMMA StartRefreshKeeps == IInv /\ StartRefresh => IInv'
<1> SUFFICES ASSUME IInv, StartRefresh PROVE IInv'
  OBVIOUS
<1> DEFINE x == widgets[node]
<1>1. /\ task = "refresh" /\ ReadAmpsFrom(x, 0)
      /\ lost' = lost /\ UNCHANGED <<reading, gain, settings>> /\ Unchanged
  BY DEF StartRefresh
<1>2. /\ node \in Nodes /\ lost \in 0..MaxTimeouts /\ reading \in Amp
      /\ x \in Widget /\ Known(node)
  BY DEF IInv, Ranges
<1>3. lost = 0 => IF Codec[node].type = "Absent" THEN x = DefaultWidget(0)
                  ELSE Complete(x, node)
  BY <1>1, <1>2, SMT DEF Known
<1>4. CASE Scanned(x, node)
  <2>1. lost = 0 => RegistersExact(x, node) /\ OutputKnown(x, node)
    BY <1>3, <1>4 DEF Complete, Scanned, Identity
  <2>2. Len(x.inputAmps) \in Nat
    BY <1>2, <1>4, AmpCountBounds
  <2>3. AmpsDone(settings, x, node, 0)
    BY <2>2, SMT DEF AmpsDone
  <2> HIDE DEF x
  <2> QED
    BY <1>1, <1>2, <1>4, <2>1, <2>2, <2>3, FromAmp
<1>5. CASE x \in {DefaultWidget(0), DefaultWidget(node)}
  <2>1. x.inputAmps = <<>> /\ ~x.outputAmp.valid
    BY <1>5, SMT DEF DefaultWidget, DefaultAmp
  <2>2. Len(x.inputAmps) = 0
    BY <2>1
  <2>3. w' = x /\ widgets' = [widgets EXCEPT ![node] = x] /\ NextNode
    BY <1>1, <2>1, <2>2, SMT DEF ReadAmpsFrom, IsInput, ReadsOutput
  <2>4. AmpsExact(settings, x, node)
    BY <1>2, <1>5, NoAmps
  <2> HIDE DEF x
  <2> QED
    BY <1>1, <1>2, <1>3, <1>5, <2>3, <2>4, Stored
<1> QED
  BY <1>2, <1>4, <1>5 DEF Known

(* Amplifier amp of w is exchanged for v, the amplifier that was read.     *)
LEMMA AmpRead ==
  ASSUME IInv, pc \in AmpPcs, NEW v \in Amp,
         v = DefaultAmp \/ Capable(v, CapAt(w, node, amp)),
         lost' \in {lost, lost + 1},
         lost' = lostBefore =>
           v = TrueAmp(CapAt(w, node, amp), LevelAt(settings, w, node, amp)),
         lost' = 0 => (v = DefaultAmp => CapAt(w, node, amp) = NoCap)
  PROVE  LET x == WithAmp(w, amp, v) IN
         /\ x \in Widget /\ amp + 1 \in Nat
         /\ Scanned(x, node) /\ amp + 1 <= Len(x.inputAmps) + 1
         /\ lost' = lostBefore => AmpsDone(settings, x, node, amp + 1)
         /\ lost' = 0 => /\ RegistersExact(x, node)
                         /\ task = "refresh" => OutputKnown(x, node)
<1>1. /\ Reading /\ Ranges /\ node \in Nodes /\ w \in Widget /\ Scanned(w, node)
  BY DEF IInv, Ranges, Reading
<1>2. /\ w.inputAmps \in Seq(Amp) /\ Len(w.inputAmps) \in Nat
      /\ amp \in 0..Len(w.inputAmps) /\ amp \in Nat
  BY <1>1, AmpCountBounds DEF Reading
<1>3. /\ lost' = 0 => /\ lost = 0
                      /\ RegistersExact(w, node)
                      /\ task = "refresh" => OutputKnown(w, node)
      /\ lost' = lostBefore => AmpsDone(settings, w, node, amp)
  BY <1>1, LostGrows DEF Reading
<1>4. /\ Identity(w, node) /\ Registers(w, node) /\ AmpsKnown(w, node)
  BY <1>1 DEF Scanned
<1> DEFINE x == WithAmp(w, amp, v)
           n == Len(w.inputAmps)
<1>5. CASE amp < n
  <2> DEFINE amps == [w.inputAmps EXCEPT ![amp + 1] = v]
  <2>1. x = [w EXCEPT !.inputAmps = amps]
    BY <1>1, <1>5, SMT DEF WithAmp, IsInput, Widget
  <2>2. amp + 1 \in 1..n
    BY <1>2, <1>5, SMT
  <2>3. /\ amps \in Seq(Amp) /\ Len(amps) = n
        /\ \A i \in 1..n : amps[i] = IF i = amp + 1 THEN v ELSE w.inputAmps[i]
    BY <1>2, <2>2
  <2> HIDE DEF amps
  <2>4. w \in Widget /\ amps \in AmpLists
    BY <1>1, <2>3 DEF AmpLists
  <2>5. /\ x \in Widget /\ x.inputAmps = amps
        /\ x.id = w.id /\ x.type = w.type /\ x.digital = w.digital
        /\ x.hasIn = w.hasIn /\ x.hasOut = w.hasOut /\ x.streams = w.streams
        /\ x.device = w.device /\ x.location = w.location /\ x.colour = w.colour
        /\ x.headphone = w.headphone /\ x.inputPin = w.inputPin
        /\ x.outputPin = w.outputPin /\ x.list = w.list /\ x.selection = w.selection
        /\ x.outputAmp = w.outputAmp
    BY <2>1, <2>4, SetInputAmps
  <2> HIDE DEF x
  <2>6. CapAt(w, node, amp) = Codec[node].inCap
    BY <1>5 DEF CapAt
  <2>7. Identity(x, node) /\ Registers(x, node)
    BY <1>4, <2>5, SMT DEF Identity, Registers, FlagsExact
  <2>8. AmpsKnown(x, node)
    <3>1. \A i \in 1..n : \/ amps[i] = DefaultAmp
                          \/ Capable(amps[i], Codec[node].inCap)
      BY <1>4, <2>3, <2>6 DEF AmpsKnown
    <3>2. AmpCount(x) = AmpCount(w)
      BY <2>5, SMT DEF AmpCount
    <3> QED
      BY <1>4, <2>3, <2>5, <3>1, <3>2 DEF AmpsKnown
  <2>9. ASSUME lost' = lostBefore PROVE AmpsDone(settings, x, node, amp + 1)
    <3>1. v = InputTruth(settings, node, amp + 1)
      <4>1. (amp + 1) - 1 = amp
        BY <1>2
      <4>2. v = TrueAmp(Codec[node].inCap, settings[node][Channel(amp)])
        BY <1>5, <2>6, <2>9 DEF LevelAt
      <4> QED
        BY <4>1, <4>2 DEF InputTruth
    <3>2. \A i \in 1..n : i <= amp => w.inputAmps[i] = InputTruth(settings, node, i)
      BY <1>3, <2>9 DEF AmpsDone
    <3>3. \A i \in 1..n : i <= amp + 1 /\ i # amp + 1 => i <= amp
      BY <1>2
    <3>4. ~(amp + 1 > n)
      BY <1>2, <1>5
    <3> QED
      BY <2>3, <2>5, <3>1, <3>2, <3>3, <3>4 DEF AmpsDone
  <2>10. lost' = 0 => /\ RegistersExact(x, node)
                      /\ task = "refresh" => OutputKnown(x, node)
    BY <1>3, <2>5, SMT DEF RegistersExact, ConfigExact, FlagsExact, OutputKnown
  <2>11. amp + 1 \in Nat /\ amp + 1 <= Len(x.inputAmps) + 1
    BY <1>2, <1>5, <2>3, <2>5
  <2> QED
    BY <2>5, <2>7, <2>8, <2>9, <2>10, <2>11 DEF x, Scanned
<1>6. CASE amp = n
  <2>1. x = [w EXCEPT !.outputAmp = v]
    BY <1>2, <1>6, SMT DEF WithAmp, IsInput
  <2>2. /\ x \in Widget /\ x.outputAmp = v
        /\ x.id = w.id /\ x.type = w.type /\ x.digital = w.digital
        /\ x.hasIn = w.hasIn /\ x.hasOut = w.hasOut /\ x.streams = w.streams
        /\ x.device = w.device /\ x.location = w.location /\ x.colour = w.colour
        /\ x.headphone = w.headphone /\ x.inputPin = w.inputPin
        /\ x.outputPin = w.outputPin /\ x.list = w.list /\ x.selection = w.selection
        /\ x.inputAmps = w.inputAmps
    BY <1>1, <2>1, SetOutputAmpOf
  <2> HIDE DEF x
  <2>3. CapAt(w, node, amp) = Codec[node].outCap
    BY <1>2, <1>6 DEF CapAt
  <2>4. Codec[node].hasOut
    <3>1. ReadsOutput(w)
      BY <1>1, <1>6 DEF Reading
    <3>2. CASE task = "scan"
      BY <1>4, <3>1, <3>2 DEF ReadsOutput, Identity
    <3>3. CASE task # "scan"
      <4>1. w.outputAmp.valid
        BY <3>1, <3>3 DEF ReadsOutput
      <4>2. ~DefaultAmp.valid
        BY SMT DEF DefaultAmp
      <4> QED
        BY <1>4, <4>1, <4>2 DEF AmpsKnown
    <3> QED
      BY <3>2, <3>3
  <2>5. Identity(x, node) /\ Registers(x, node)
    BY <1>4, <2>2, SMT DEF Identity, Registers, FlagsExact
  <2>6. AmpsKnown(x, node)
    <3>1. AmpCount(x) = AmpCount(w)
      BY <2>2, SMT DEF AmpCount
    <3> QED
      BY <1>4, <2>2, <2>3, <2>4, <3>1 DEF AmpsKnown
  <2>7. ASSUME lost' = lostBefore PROVE AmpsDone(settings, x, node, amp + 1)
    <3>1. v = OutputTruth(settings, node)
      BY <1>2, <1>6, <2>3, <2>7 DEF LevelAt, OutputTruth
    <3>2. \A i \in 1..n : i <= amp => w.inputAmps[i] = InputTruth(settings, node, i)
      BY <1>3, <2>7 DEF AmpsDone
    <3>3. \A i \in 1..n : i <= amp
      BY <1>2, <1>6
    <3> QED
      BY <2>2, <3>1, <3>2, <3>3 DEF AmpsDone
  <2>8. lost' = 0 => RegistersExact(x, node)
    BY <1>3, <2>2, SMT DEF RegistersExact, ConfigExact, FlagsExact
  <2>9. lost' = 0 => OutputKnown(x, node)
    BY <2>2, <2>3 DEF OutputKnown, Capable
  <2>10. amp + 1 \in Nat /\ amp + 1 <= Len(x.inputAmps) + 1
    BY <1>2, <1>6, <2>2
  <2> QED
    BY <2>2, <2>5, <2>6, <2>7, <2>8, <2>9, <2>10 DEF x, Scanned
<1> QED
  BY <1>2, <1>5, <1>6

(* The verb names the amplifier that is being read: the driver's count of  *)
(* inputs may be short, but an input it counts is the same input of the    *)
(* codec.                                                                  *)
LEMMA AmpOfCodec ==
  ASSUME IInv, pc \in AmpPcs
  PROVE  /\ CapOf(amp) = CapAt(w, node, amp) /\ CapAt(w, node, amp) \in 0..NoCap
         /\ CodecAmp(amp) = LevelAt(settings, w, node, amp)
         /\ LevelAt(settings, w, node, amp) \in Setting
<1>1. /\ Reading /\ Ranges /\ node \in Nodes /\ w \in Widget /\ Scanned(w, node)
      /\ IsSettings(settings)
  BY DEF IInv, Ranges, Reading
<1>2. /\ Len(w.inputAmps) \in Nat /\ Len(w.inputAmps) <= Inputs(node)
      /\ amp \in 0..Len(w.inputAmps)
  BY <1>1, AmpCountBounds DEF Reading
<1>3. w.id = node
  BY <1>1 DEF Scanned, Identity
<1>4. CapOf(amp) = CapAt(w, node, amp) /\ CapAt(w, node, amp) \in 0..NoCap
  BY <1>1, <1>3, NodeRegisters DEF CapOf, CapAt, IsInput
<1>5. CodecAmp(amp) = LevelAt(settings, w, node, amp)
  BY <1>3 DEF CodecAmp, LevelAt, IsInput
<1>6. Inputs(node) \in Nat /\ \A a \in 0..Inputs(node) : settings[node][a] \in Setting
  BY <1>1, Channels0, TruthOfAmps
<1>7. (IF amp < Len(w.inputAmps) THEN Channel(amp) ELSE Inputs(node)) \in 0..Inputs(node)
  <2>1. amp \in Nat
    BY <1>2
  <2>2. Channel(amp) \in Nat /\ Channel(amp) <= amp
    BY <2>1, ChannelBounds
  <2> QED
    BY <1>2, <1>6, <2>1, <2>2, SMT
<1> QED
  BY <1>4, <1>5, <1>6, <1>7 DEF LevelAt

(* Amplifiers are read by the scan and by the refresh only.                *)
LEMMA InAmps ==
  ASSUME IInv, pc \in AmpPcs
  PROVE  task \in {"scan", "refresh"}
  BY SMT DEF IInv, Control, AmpPcs

(* The default amplifier is not one that was read.                         *)
LEMMA DefaultNotCapable ==
  ASSUME NEW cap, Capable(DefaultAmp, cap)
  PROVE  FALSE
  BY SMT DEF Capable, DefaultAmp

(* The fields of an amplifier are stored one by one.                       *)
LEMMA SetValid ==
  ASSUME NEW a \in Amp, NEW v \in Booleans
  PROVE  LET y == [a EXCEPT !.valid = v] IN y \in Amp /\ y.valid = v
  BY SMT DEF Amp, Booleans

(* The 0 dB step is stored.                                                *)
LEMMA SetStep ==
  ASSUME NEW a \in Amp, NEW s \in 0..127
  PROVE  LET y == [a EXCEPT !.step = s] IN y \in Amp /\ y.step = s /\ y.valid = a.valid
  BY SMT DEF Amp

(* The mute capability is stored.                                          *)
LEMMA SetCanMute ==
  ASSUME NEW a \in Amp, NEW m \in Booleans
  PROVE  LET y == [a EXCEPT !.canMute = m] IN
         y \in Amp /\ y.canMute = m /\ y.step = a.step /\ y.valid = a.valid
  BY SMT DEF Amp, Booleans

(* A comparison is a Boolean.                                              *)
LEMMA Comparison ==
  ASSUME NEW a \in Int, NEW b \in Int
  PROVE  (a >= b) \in Booleans
  BY DEF Booleans

(* The capabilities as getInputAmplifierInfo takes them from the response.  *)
LEMMA CapabilitiesRead ==
  ASSUME NEW c \in 0..255
  PROVE  LET y == [DefaultAmp EXCEPT !.valid = TRUE, !.step = c % 128, !.canMute = c >= 128]
         IN y \in Amp /\ Capable(y, c)
<1>1. c % 128 \in 0..127 /\ (c >= 128) \in Booleans /\ TRUE \in Booleans
  BY Comparison DEF Booleans
<1> DEFINE y1 == [DefaultAmp EXCEPT !.valid = TRUE]
           y2 == [y1 EXCEPT !.step = c % 128]
           y3 == [y2 EXCEPT !.canMute = c >= 128]
<1>2. DefaultAmp \in Amp
  BY SMT DEF DefaultAmp, Amp
<1>3. y1 \in Amp /\ y1.valid = TRUE
  BY <1>1, <1>2, SetValid
<1>4. y3 = [DefaultAmp EXCEPT !.valid = TRUE, !.step = c % 128, !.canMute = c >= 128]
  OBVIOUS
<1> HIDE DEF y1
<1>5. y2 \in Amp /\ y2.valid = TRUE /\ y2.step = c % 128
  BY <1>1, <1>3, SetStep
<1> HIDE DEF y2
<1>6. y3 \in Amp /\ y3.valid = TRUE /\ y3.step = c % 128 /\ y3.canMute = (c >= 128)
  BY <1>1, <1>5, SetCanMute
<1> HIDE DEF y3
<1>7. c # NoCap
  BY SMT DEF NoCap
<1>8. Capable(y3, c)
  BY <1>6, <1>7, Zenon DEF Capable
<1> QED
  BY <1>4, <1>6, <1>8

(* What is known where ReadAmpsFrom is called: the amplifiers of x before a *)
(* are done.                                                                *)
Continues(x, a) ==
  /\ ReadAmpsFrom(x, a) /\ a \in Nat
  /\ Scanned(x, node) /\ a <= Len(x.inputAmps) + 1
  /\ lost' = lostBefore => AmpsDone(settings, x, node, a)
  /\ lost' = 0 => /\ RegistersExact(x, node)
                  /\ task = "refresh" => OutputKnown(x, node)
  /\ lost' \in {lost, lost + 1} /\ lost' \in 0..MaxTimeouts

(* The capabilities are there and the gains are read next, or the          *)
(* amplifier is left invalid and the next one is due.                      *)
LEMMA CapabilitiesAnswered ==
  ASSUME IInv, ReadAmpCap
  PROVE  LET cap == CapAt(w, node, amp) IN
         \/ /\ cap # NoCap /\ lost' = lost
            /\ reading' = [DefaultAmp EXCEPT !.valid = TRUE, !.step = cap % 128,
                                             !.canMute = cap >= 128]
            /\ pc' = "ampRight"
            /\ UNCHANGED <<task, node, w, amp, widgets>>
         \/ /\ Continues(WithAmp(w, amp, DefaultAmp), amp + 1)
            /\ WithAmp(w, amp, DefaultAmp) \in Widget
            /\ reading' = reading
<1>1. /\ pc = "ampCap" /\ pc \in AmpPcs /\ pc \notin {"ampRight", "ampLeft"}
      /\ UNCHANGED <<offset, gain, settings>> /\ Unchanged
  BY DEF ReadAmpCap, AmpPcs
<1>2. /\ node \in Nodes /\ lost \in 0..MaxTimeouts
  BY <1>1, InAmps DEF IInv, Ranges
<1> DEFINE cap == CapAt(w, node, amp)
<1>3. CapOf(amp) = cap /\ cap \in 0..NoCap /\ cap # NoResponse
  BY <1>1, AmpOfCodec, NotNoResponse, <1>2 DEF NoCap
<1>4. PICK r \in {cap, NoResponse} :
        /\ Exchange(cap, r)
        /\ \/ /\ CapOrNone(r) # NoCap
              /\ reading' = [DefaultAmp EXCEPT !.valid = TRUE, !.step = CapOrNone(r) % 128,
                                               !.canMute = CapOrNone(r) >= 128]
              /\ pc' = "ampRight"
              /\ UNCHANGED <<task, node, w, amp, widgets>>
           \/ /\ CapOrNone(r) = NoCap
              /\ ReadAmpsFrom(WithAmp(w, amp, DefaultAmp), amp + 1)
              /\ UNCHANGED reading
  BY <1>3 DEF ReadAmpCap
<1> HIDE DEF cap
<1>5. /\ \/ r = cap /\ Answered(r) /\ lost' = lost
         \/ r = NoResponse /\ ~Answered(r) /\ lost' = lost + 1
      /\ lost' \in 0..MaxTimeouts /\ lost' \in {lost, lost + 1}
  BY <1>2, <1>3, <1>4, Exchanged
<1>6. /\ CapOrNone(r) # NoCap => CapOrNone(r) = cap /\ lost' = lost
      /\ CapOrNone(r) = NoCap /\ lost' = lost => cap = NoCap
      /\ CapOrNone(r) = NoCap /\ cap # NoCap => lost' = lost + 1
  BY <1>2, <1>5, BoundsAssumption DEF CapOrNone, ValueOr
<1>7. CASE CapOrNone(r) # NoCap
  BY <1>4, <1>6, <1>7 DEF cap
<1>8. CASE CapOrNone(r) = NoCap
  <2>1. /\ ReadAmpsFrom(WithAmp(w, amp, DefaultAmp), amp + 1) /\ reading' = reading
    BY <1>4, <1>8
  <2>2. lost' = 0 \/ lost' = lostBefore => lost' = lost
    BY <1>5, LostGrows
  <2>3. DefaultAmp \in Amp /\ LevelAt(settings, w, node, amp) \in Setting
    BY <1>1, <1>2, DefaultWidgets, AmpOfCodec
  <2>4. cap = NoCap => DefaultAmp = TrueAmp(cap, LevelAt(settings, w, node, amp))
    BY <1>3, <2>3, TrueAmps
  <2> DEFINE x == WithAmp(w, amp, DefaultAmp)
  <2>5. /\ x \in Widget /\ amp + 1 \in Nat
        /\ Scanned(x, node) /\ amp + 1 <= Len(x.inputAmps) + 1
        /\ lost' = lostBefore => AmpsDone(settings, x, node, amp + 1)
        /\ lost' = 0 => /\ RegistersExact(x, node)
                        /\ task = "refresh" => OutputKnown(x, node)
    BY <1>1, <1>5, <1>6, <1>8, <2>2, <2>3, <2>4, AmpRead DEF cap
  <2> QED
    BY <1>5, <2>1, <2>5 DEF Continues
<1> QED
  BY <1>7, <1>8

(* The capabilities of an amplifier are read.                              *)
LEMMA ReadAmpCapKeeps == IInv /\ ReadAmpCap => IInv'
<1> SUFFICES ASSUME IInv, ReadAmpCap PROVE IInv'
  OBVIOUS
<1>1. /\ pc = "ampCap" /\ pc \in AmpPcs /\ pc \notin {"ampRight", "ampLeft"}
      /\ UNCHANGED <<offset, gain, settings>> /\ Unchanged
  BY DEF ReadAmpCap, AmpPcs
<1>2. /\ Reading /\ Ranges /\ Control /\ node \in Nodes /\ w \in Widget /\ reading \in Amp
      /\ lost \in 0..MaxTimeouts /\ \A n \in Nodes : Known(n)
      /\ task \in {"scan", "refresh"}
  BY <1>1, InAmps DEF IInv, Ranges
<1> DEFINE cap == CapAt(w, node, amp)
<1>3. CASE /\ Continues(WithAmp(w, amp, DefaultAmp), amp + 1)
           /\ WithAmp(w, amp, DefaultAmp) \in Widget
           /\ reading' = reading
  BY <1>1, <1>2, <1>3, FromAmp DEF Continues
<1>4. CASE /\ cap # NoCap /\ lost' = lost
           /\ reading' = [DefaultAmp EXCEPT !.valid = TRUE, !.step = cap % 128,
                                            !.canMute = cap >= 128]
           /\ pc' = "ampRight"
           /\ UNCHANGED <<task, node, w, amp, widgets>>
  <2>1. cap \in 0..NoCap
    BY <1>1, AmpOfCodec
  <2>2. PICK c \in 0..255 : c = cap
    BY <1>4, <2>1 DEF NoCap
  <2>3. reading' \in Amp /\ Capable(reading', cap)
    BY <1>4, <2>2, CapabilitiesRead
  <2>4. \A n \in Nodes : Known(n)'
    BY <1>1, <1>2, <1>4, LostGrows, KnownKept DEF Unchanged
  <2>5. Control'
    BY <1>1, <1>2, <1>4, SMT DEF Control, AmpPcs, Unchanged
  <2>6. Ranges'
    <3>1. IsSettings(settings)'
      BY <1>1, <1>2 DEF Ranges, IsSettings
    <3> QED
      BY <1>1, <1>2, <1>4, <2>3, <3>1, Zenon DEF Ranges, Unchanged
  <2>7. Reading'
    BY <1>1, <1>2, <1>4, <2>3, SMT DEF Reading, ReadsOutput, Unchanged
  <2>8. pc' \notin ScanPcs /\ task' # "unmute"
    BY <1>2, <1>4 DEF ScanPcs
  <2> QED
    BY <2>4, <2>5, <2>6, <2>7, <2>8 DEF IInv
<1> QED
  BY <1>3, <1>4, CapabilitiesAnswered

(* The right gain is read.                                                 *)
LEMMA ReadAmpRightKeeps == IInv /\ ReadAmpRight => IInv'
<1> SUFFICES ASSUME IInv, ReadAmpRight PROVE IInv'
  OBVIOUS
<1>1. /\ pc = "ampRight" /\ pc \in AmpPcs /\ pc' = "ampLeft"
      /\ UNCHANGED <<task, node, w, amp, offset, gain, widgets, settings>> /\ Unchanged
  BY DEF ReadAmpRight, AmpPcs
<1>2. /\ Reading /\ Ranges /\ Control /\ node \in Nodes /\ reading \in Amp
      /\ lost \in 0..MaxTimeouts /\ \A n \in Nodes : Known(n)
      /\ task \in {"scan", "refresh"}
  BY <1>1, InAmps DEF IInv, Ranges
<1> DEFINE level == LevelAt(settings, w, node, amp)
<1>3. /\ CodecAmp(amp) = level /\ level.right \in 0..255 /\ level.right # NoResponse
  <2>1. level \in Setting /\ CodecAmp(amp) = level
    BY <1>1, AmpOfCodec
  <2>2. level.right \in 0..255
    BY <2>1, SMT DEF Setting
  <2> QED
    BY <1>2, <2>1, <2>2, NotNoResponse
<1>4. PICK r \in {level.right, NoResponse} :
        Exchange(level.right, r) /\ reading' = [reading EXCEPT !.right = ValueOr(r, @)]
  BY <1>3 DEF ReadAmpRight
<1> HIDE DEF level
<1>5. /\ \/ r = level.right /\ Answered(r) /\ lost' = lost
         \/ r = NoResponse /\ ~Answered(r) /\ lost' = lost + 1
      /\ lost' \in 0..MaxTimeouts /\ lost' \in {lost, lost + 1}
  BY <1>2, <1>3, <1>4, Exchanged
<1>6. PICK v \in 0..255 : /\ reading' = [reading EXCEPT !.right = v]
                          /\ lost' = lostBefore => v = level.right
  <2>1. reading.right \in 0..255
    BY <1>2, SMT DEF Amp
  <2>2. ~Answered(r) => lost' # lostBefore
    BY <1>5, LostGrows
  <2>3. reading' = [reading EXCEPT !.right = IF Answered(r) THEN r ELSE reading.right]
    BY <1>4 DEF ValueOr
  <2>4. (IF Answered(r) THEN r ELSE reading.right) \in 0..255
    BY <1>3, <1>5, <2>1
  <2> QED
    BY <1>5, <2>2, <2>3, <2>4
<1>7. /\ reading' \in Amp /\ reading'.right = v /\ reading'.valid = reading.valid
      /\ reading'.step = reading.step /\ reading'.canMute = reading.canMute
  BY <1>2, <1>6, SMT DEF Amp
<1>8. \A n \in Nodes : Known(n)'
  BY <1>1, <1>2, <1>5, LostGrows, KnownKept DEF Unchanged
<1>9. Control'
  BY <1>1, <1>2, SMT DEF Control, AmpPcs, Unchanged
<1>10. Ranges'
  <2>1. IsSettings(settings)' /\ lostBefore \in 0..lost'
    BY <1>1, <1>2, <1>5, LostGrows DEF Ranges, IsSettings
  <2> QED
    BY <1>1, <1>2, <1>5, <1>7, <2>1, Zenon DEF Ranges, Unchanged
<1>11. Reading'
  <2>1. /\ Scanned(w, node) /\ amp \in 0..Len(w.inputAmps)
        /\ amp = Len(w.inputAmps) => ReadsOutput(w)
        /\ lost' = 0 => /\ RegistersExact(w, node)
                        /\ task = "refresh" => OutputKnown(w, node)
        /\ lost' = lostBefore => AmpsDone(settings, w, node, amp)
        /\ Capable(reading, CapAt(w, node, amp))
    BY <1>1, <1>2, <1>5, LostGrows DEF Reading
  <2>2. Capable(reading', CapAt(w, node, amp))
    BY <1>7, <2>1 DEF Capable
  <2>3. lost' = lostBefore => reading'.right = LevelAt(settings, w, node, amp).right
    BY <1>6, <1>7 DEF level
  <2>4. ReadsOutput(w)' = ReadsOutput(w)
    BY <1>1 DEF ReadsOutput
  <2> QED
    BY <1>1, <2>1, <2>2, <2>3, <2>4, SMT DEF Reading, ReadsOutput, Unchanged
<1>12. pc' \notin ScanPcs /\ task' # "unmute"
  BY <1>1, <1>2 DEF ScanPcs
<1> QED
  BY <1>8, <1>9, <1>10, <1>11, <1>12 DEF IInv

(* The left gain is the last exchange of an amplifier: with it the         *)
(* amplifier is done.                                                      *)
LEMMA LeftRead ==
  ASSUME IInv, ReadAmpLeft
  PROVE  \E v \in Amp, x \in Widget : x = WithAmp(w, amp, v) /\ Continues(x, amp + 1)
<1>1. pc = "ampLeft" /\ pc \in AmpPcs
  BY DEF ReadAmpLeft, AmpPcs
<1>2. /\ Reading /\ node \in Nodes /\ reading \in Amp /\ lost \in 0..MaxTimeouts
  BY <1>1 DEF IInv, Ranges
<1> DEFINE level == LevelAt(settings, w, node, amp)
           cap   == CapAt(w, node, amp)
<1>3. /\ CodecAmp(amp) = level /\ level \in Setting
      /\ level.left \in 0..255 /\ level.left # NoResponse
      /\ cap \in 0..NoCap
  <2>1. level \in Setting /\ CodecAmp(amp) = level /\ cap \in 0..NoCap
    BY <1>1, AmpOfCodec
  <2>2. level.left \in 0..255
    BY <2>1, SMT DEF Setting
  <2> QED
    BY <1>2, <2>1, <2>2, NotNoResponse
<1>4. Capable(reading, cap) /\ (lost = lostBefore => reading.right = level.right)
  BY <1>1, <1>2 DEF Reading
<1>5. PICK r \in {level.left, NoResponse} :
        /\ Exchange(level.left, r)
        /\ ReadAmpsFrom(WithAmp(w, amp, [reading EXCEPT !.left = ValueOr(r, @)]), amp + 1)
  BY <1>3 DEF ReadAmpLeft
<1> HIDE DEF level, cap
<1>6. /\ \/ r = level.left /\ Answered(r) /\ lost' = lost
         \/ r = NoResponse /\ ~Answered(r) /\ lost' = lost + 1
      /\ lost' \in 0..MaxTimeouts /\ lost' \in {lost, lost + 1}
  BY <1>2, <1>3, <1>5, Exchanged
<1> DEFINE l == IF Answered(r) THEN r ELSE reading.left
           v == [reading EXCEPT !.left = l]
<1>7. l \in 0..255 /\ (lost' = lostBefore => l = level.left /\ lost = lostBefore)
  <2>1. reading.left \in 0..255
    BY <1>2, SMT DEF Amp
  <2> QED
    BY <1>3, <1>6, <2>1, LostGrows
<1>8. ReadAmpsFrom(WithAmp(w, amp, v), amp + 1)
  BY <1>5 DEF ValueOr
<1> HIDE DEF l
<1>9. /\ v \in Amp /\ v.left = l /\ v.right = reading.right /\ v.valid = reading.valid
      /\ v.step = reading.step /\ v.canMute = reading.canMute
  BY <1>2, <1>7, SMT DEF Amp
<1> HIDE DEF v
<1>10. Capable(v, cap)
  BY <1>4, <1>9 DEF Capable
<1>11. lost' = lostBefore => v = TrueAmp(cap, level)
  <2> SUFFICES ASSUME lost' = lostBefore PROVE v = TrueAmp(cap, level)
    OBVIOUS
  <2>1. v.left = level.left /\ v.right = level.right
    BY <1>4, <1>7, <1>9
  <2>2. cap # NoCap /\ v.valid /\ v.step = cap % 128 /\ v.canMute = (cap >= 128)
    BY <1>10 DEF Capable
  <2>3. TrueAmp(cap, level) = [valid |-> TRUE, canMute |-> cap >= 128, step |-> cap % 128,
                               left |-> level.left, right |-> level.right]
    BY <2>2 DEF TrueAmp
  <2> QED
    BY <1>9, <2>1, <2>2, <2>3, SMT DEF Amp
<1>12. v # DefaultAmp
  BY <1>10, DefaultNotCapable
<1> DEFINE x == WithAmp(w, amp, v)
<1>13. /\ x \in Widget /\ amp + 1 \in Nat
       /\ Scanned(x, node) /\ amp + 1 <= Len(x.inputAmps) + 1
       /\ lost' = lostBefore => AmpsDone(settings, x, node, amp + 1)
       /\ lost' = 0 => /\ RegistersExact(x, node)
                       /\ task = "refresh" => OutputKnown(x, node)
  BY <1>1, <1>6, <1>9, <1>10, <1>11, <1>12, AmpRead DEF level, cap
<1>14. Continues(x, amp + 1)
  BY <1>6, <1>8, <1>13 DEF Continues
<1> HIDE DEF x
<1>15. x = WithAmp(w, amp, v)
  BY DEF x
<1> QED
  BY <1>9, <1>13, <1>14, <1>15

(* The left gain is read.                                                  *)
LEMMA ReadAmpLeftKeeps == IInv /\ ReadAmpLeft => IInv'
<1> SUFFICES ASSUME IInv, ReadAmpLeft PROVE IInv'
  OBVIOUS
<1>1. /\ pc = "ampLeft" /\ pc \in AmpPcs
      /\ UNCHANGED <<reading, offset, gain, settings>> /\ Unchanged
  BY DEF ReadAmpLeft, AmpPcs
<1>2. task \in {"scan", "refresh"} /\ reading \in Amp
  BY <1>1, InAmps DEF IInv, Ranges
<1> QED
  BY <1>1, <1>2, LeftRead, FromAmp DEF Continues
-----------------------------------------------------------------------------
(* The reset and the commands. *)

(* Between commands and while unmute writes, what the database says of the  *)
(* settings is not claimed: they may change.                                *)
LEMMA KnownOfCodec ==
  ASSUME NEW n \in Nodes, Known(n), lost \in Nat, lostBefore \in 0..lost,
         lost' \in {lost, lost + 1}, widgets' = widgets,
         task # "scan", task' # "scan", ~Fresh(n)'
  PROVE  Known(n)'
<1>1. lost' = 0 => lost = 0
  BY SMT
<1> QED
  BY <1>1, Zenon DEF Known

(* The settings may change under the database: from here on nothing is     *)
(* claimed of them until a refresh.                                        *)
LEMMA ResetControllerKeeps == IInv /\ ResetController => IInv'
<1> SUFFICES ASSUME IInv, ResetController PROVE IInv'
  OBVIOUS
<1>1. /\ task = "none" /\ wasReset' = TRUE /\ settings' \in {settings, Reset}
      /\ UNCHANGED <<task, pc, node, w, amp, reading, offset, gain, widgets,
                     lost, lostBefore, commands>>
  BY DEF ResetController, taskVars
<1>2. Control /\ Ranges /\ \A n \in Nodes : Known(n)
  BY DEF IInv
<1>3. lost \in Nat /\ lostBefore \in 0..lost
  BY <1>2, BoundsAssumption DEF Ranges
<1>4. \A n \in Nodes : Known(n)'
  <2>1. \A n \in Nodes : ~Fresh(n)'
    BY <1>1, SMT DEF Fresh
  <2> QED
    BY <1>1, <1>2, <1>3, <2>1, KnownOfCodec
<1>5. Control'
  BY <1>1, <1>2, SMT DEF Control
<1>6. IsSettings(settings)'
  BY <1>1, <1>2, SettingsAssumption DEF Ranges, IsSettings
<1>7. Ranges'
  BY <1>1, <1>2, <1>6, Zenon DEF Ranges
<1>8. pc' \notin AmpPcs /\ task' \notin {"scan", "unmute"}
  BY <1>1, <1>2, SMT DEF Control, AmpPcs
<1> QED
  BY <1>4, <1>5, <1>7, <1>8 DEF IInv

(* The refresh command begins.                                             *)
LEMMA RefreshKeeps == IInv /\ Refresh => IInv'
<1> SUFFICES ASSUME IInv, Refresh PROVE IInv'
  OBVIOUS
<1>1. /\ task = "none" /\ wasReset /\ commands < MaxCommands
      /\ task' = "refresh" /\ pc' = "refresh" /\ lostBefore' = lost
      /\ commands' = commands + 1
      /\ UNCHANGED <<node, w, amp, reading, offset, gain, widgets, settings,
                     wasReset, lost>>
  BY DEF Refresh, Ready
<1>2. Control /\ Ranges /\ \A n \in Nodes : Known(n)
  BY DEF IInv
<1>3. lost \in Nat /\ lostBefore \in 0..lost
  BY <1>2, BoundsAssumption DEF Ranges
<1>4. \A n \in Nodes : Known(n)'
  <2>1. node' = 0
    BY <1>1, <1>2, SMT DEF Control
  <2>2. ASSUME NEW n \in Nodes PROVE ~Fresh(n)'
    <3>1. ~(n < node')
      BY <2>1, LastNodeAssumption DEF Nodes
    <3> QED
      BY <1>1, <3>1, SMT DEF Fresh
  <2> QED
    BY <1>1, <1>2, <1>3, <2>2, KnownOfCodec
<1>5. Control'
  BY <1>1, <1>2, SMT DEF Control
<1>6. commands' \in 0..MaxCommands /\ lostBefore' \in 0..lost'
  BY <1>1, <1>2, <1>3, BoundsAssumption, SMT DEF Ranges
<1>7. Ranges'
  <2>1. IsSettings(settings)'
    BY <1>1, <1>2 DEF Ranges, IsSettings
  <2> QED
    BY <1>1, <1>2, <1>6, <2>1, Zenon DEF Ranges
<1>8. pc' \notin AmpPcs /\ task' \notin {"scan", "unmute"}
  BY <1>1, SMT DEF AmpPcs
<1> QED
  BY <1>4, <1>5, <1>7, <1>8 DEF IInv

(* The gain fits the seven bits of the verb.                               *)
LEMMA GainInRange ==
  ASSUME NEW x \in Widget
  PROVE  GainFor(x) \in 0..127
<1>1. x.outputAmp.step \in 0..127
  BY SMT DEF Widget, Amp
<1>2. ASSUME x.inputAmps # <<>> PROVE x.inputAmps[1].step \in 0..127
  <2>1. x.inputAmps \in Seq(Amp)
    BY DEF Widget, AmpLists
  <2>2. x.inputAmps[1] \in Amp
    BY <1>2, <2>1
  <2> QED
    BY <2>2, SMT DEF Amp
<1> QED
  BY <1>1, <1>2 DEF GainFor

(* The unmute command begins, with a gain from the database.               *)
LEMMA UnmuteKeeps == IInv /\ Unmute => IInv'
<1> SUFFICES ASSUME IInv, Unmute PROVE IInv'
  OBVIOUS
<1>1. /\ task = "none" /\ wasReset /\ commands < MaxCommands
      /\ task' = "unmute" /\ pc' = "setInput" /\ lostBefore' = lost
      /\ commands' = commands + 1
      /\ UNCHANGED <<w, reading, offset, widgets, settings, wasReset, lost>>
  BY DEF Unmute, Ready
<1>2. PICK n \in Nodes : /\ node' = n /\ gain' = GainFor(widgets[n])
                        /\ amp' \in 0..15
  BY ChannelsAssumption DEF Unmute
<1>3. Control /\ Ranges /\ \A m \in Nodes : Known(m)
  BY DEF IInv
<1>4. lost \in Nat /\ lostBefore \in 0..lost
  BY <1>3, BoundsAssumption DEF Ranges
<1>5. \A m \in Nodes : Known(m)'
  <2>1. \A m \in Nodes : ~Fresh(m)'
    BY <1>1, SMT DEF Fresh
  <2> QED
    BY <1>1, <1>3, <1>4, <2>1, KnownOfCodec
<1>6. Control'
  BY <1>1, <1>3, SMT DEF Control
<1>7. commands' \in 0..MaxCommands /\ lostBefore' \in 0..lost'
  BY <1>1, <1>3, <1>4, BoundsAssumption, SMT DEF Ranges
<1>8. gain' \in 0..127 /\ gain' = GainFor(widgets'[node'])
  <2>1. widgets[n] \in Widget
    BY <1>3 DEF Ranges
  <2> QED
    BY <1>1, <1>2, <2>1, GainInRange
<1>9. Ranges'
  <2>1. IsSettings(settings)'
    BY <1>1, <1>3 DEF Ranges, IsSettings
  <2> QED
    BY <1>1, <1>2, <1>3, <1>7, <1>8, <2>1, Zenon DEF Ranges
<1>10. pc' \notin AmpPcs /\ task' # "scan"
  BY <1>1, SMT DEF AmpPcs
<1>11. (gain = GainFor(widgets[node]))'
  BY <1>8, Zenon DEF GainFor
<1> QED
  BY <1>2, <1>5, <1>6, <1>9, <1>10, <1>11 DEF IInv

(* A setting that is written is the setting that is found.                 *)
LEMMA SettingWritten ==
  ASSUME NEW s, IsSettings(s), NEW n \in Nodes, NEW a \in 0..Inputs(n), NEW v \in Setting
  PROVE  /\ IsSettings([s EXCEPT ![n][a] = v])
         /\ [s EXCEPT ![n][a] = v][n][a] = v
<1>1. DOMAIN s = Nodes /\ \A m \in Nodes : s[m] \in [Amplifiers(m) -> Setting]
  BY DEF IsSettings
<1>2. a \in Amplifiers(n)
  BY DEF Amplifiers
<1> DEFINE t == [s EXCEPT ![n][a] = v]
<1>3. DOMAIN t = Nodes
  BY <1>1
<1>4. t[n] = [s[n] EXCEPT ![a] = v] /\ \A m \in Nodes : m # n => t[m] = s[m]
  BY <1>1
<1>5. [s[n] EXCEPT ![a] = v] \in [Amplifiers(n) -> Setting]
  BY <1>1, <1>2
<1>6. [s[n] EXCEPT ![a] = v][a] = v
  BY <1>1, <1>2
<1> HIDE DEF t
<1>7. IsSettings(t)
  BY <1>1, <1>3, <1>4, <1>5 DEF IsSettings
<1>8. t[n][a] = v
  BY <1>4, <1>6
<1> QED
  BY <1>7, <1>8 DEF t

(* A gain is a setting, not muted.                                         *)
LEMMA GainSetting == ASSUME NEW g \in 0..127 PROVE Both(g) \in Setting
  BY SMT DEF Both, Setting

(* One set verb: the codec took the gain, or it did not and no response     *)
(* came.                                                                    *)
LEMMA AmpSet ==
  ASSUME IInv, NEW a \in 0..Inputs(node), SetAmp(a)
  PROVE  /\ IsSettings(settings')
         /\ lost' \in {lost, lost + 1} /\ lost' \in 0..MaxTimeouts
         /\ lost' = lost => /\ settings' = [settings EXCEPT ![node][a] = Both(gain)]
                            /\ settings'[node][a] = Both(gain)
<1>1. /\ node \in Nodes /\ gain \in 0..127 /\ IsSettings(settings)
      /\ lost \in 0..MaxTimeouts
  BY DEF IInv, Ranges
<1>2. 0 # NoResponse
  BY <1>1, NotNoResponse
<1>3. PICK r \in {0, NoResponse} :
        /\ Exchange(0, r)
        /\ settings' \in {[settings EXCEPT ![node][a] = Both(gain)]}
                           \cup (IF Answered(r) THEN {} ELSE {settings})
  BY DEF SetAmp
<1>4. /\ \/ r = 0 /\ Answered(r) /\ lost' = lost
         \/ r = NoResponse /\ ~Answered(r) /\ lost' = lost + 1
      /\ lost' \in 0..MaxTimeouts
  BY <1>1, <1>2, <1>3, Exchanged
<1>5. /\ IsSettings([settings EXCEPT ![node][a] = Both(gain)])
      /\ [settings EXCEPT ![node][a] = Both(gain)][node][a] = Both(gain)
  BY <1>1, GainSetting, SettingWritten
<1>6. lost # lost + 1
  BY <1>1, BoundsAssumption
<1> QED
  BY <1>1, <1>3, <1>4, <1>5, <1>6

(* The first verb of unmute writes an input amplifier, or none if the      *)
(* channel is beyond the node's inputs.                                    *)
LEMMA SetInputAmpKeeps == IInv /\ SetInputAmp => IInv'
<1> SUFFICES ASSUME IInv, SetInputAmp PROVE IInv'
  OBVIOUS
<1>1. /\ task = "unmute" /\ pc' = "setOutput"
      /\ UNCHANGED <<task, node, w, amp, reading, offset, gain, widgets>>
      /\ UNCHANGED <<wasReset, lostBefore, commands>>
  BY DEF SetInputAmp, Unchanged
<1>2. /\ Control /\ Ranges /\ \A n \in Nodes : Known(n)
      /\ gain = GainFor(widgets[node]) /\ node \in Nodes /\ lost \in 0..MaxTimeouts
  BY <1>1 DEF IInv, Ranges
<1>3. /\ IsSettings(settings')
      /\ lost' \in {lost, lost + 1} /\ lost' \in 0..MaxTimeouts
  <2>1. CASE amp < Inputs(node) /\ SetAmp(amp)
    <3>1. amp \in 0..Inputs(node)
      BY <1>1, <1>2, <2>1, Channels0, SMT DEF IInv
    <3> QED
      BY <2>1, <3>1, AmpSet
  <2>2. CASE /\ \E r \in {0, NoResponse} : Exchange(0, r)
             /\ UNCHANGED settings
    <3>1. 0 # NoResponse
      BY <1>2, NotNoResponse
    <3>2. lost' \in {lost, lost + 1} /\ lost' \in 0..MaxTimeouts
      BY <1>2, <2>2, <3>1, Exchanged
    <3>3. IsSettings(settings')
      BY <1>2, <2>2 DEF Ranges
    <3> QED
      BY <3>2, <3>3
  <2> QED
    BY <2>1, <2>2 DEF SetInputAmp
<1>4. lost \in Nat /\ lostBefore \in 0..lost /\ lostBefore \in 0..lost'
  BY <1>3, LostGrows
<1>5. \A n \in Nodes : Known(n)'
  <2>1. \A n \in Nodes : ~Fresh(n)'
    BY <1>1, SMT DEF Fresh
  <2> QED
    BY <1>1, <1>2, <1>3, <1>4, <2>1, KnownOfCodec
<1>6. Control'
  BY <1>1, <1>2, SMT DEF Control
<1>7. Ranges'
  <2>1. IsSettings(settings)'
    BY <1>3 DEF IsSettings
  <2> QED
    BY <1>1, <1>2, <1>3, <1>4, <2>1, Zenon DEF Ranges
<1>8. pc' \notin AmpPcs /\ task' # "scan"
  BY <1>1, SMT DEF AmpPcs
<1>9. (gain = GainFor(widgets[node]))' /\ amp' \in 0..15
  <2>1. amp \in 0..15
    BY <1>1 DEF IInv
  <2> QED
    BY <1>1, <1>2, <2>1, Zenon DEF GainFor
<1> QED
  BY <1>5, <1>6, <1>7, <1>8, <1>9 DEF IInv

(* The second verb writes the output amplifier and ends the command.       *)
LEMMA SetOutputAmpKeeps == IInv /\ SetOutputAmp => IInv'
<1> SUFFICES ASSUME IInv, SetOutputAmp PROVE IInv'
  OBVIOUS
<1>1. /\ task = "unmute" /\ task' = "none" /\ pc' = "refresh" /\ node' = 0
      /\ UNCHANGED <<w, amp, reading, offset, gain, widgets>>
      /\ UNCHANGED <<wasReset, lostBefore, commands>> /\ SetAmp(Inputs(node))
  BY DEF SetOutputAmp, Unchanged
<1>2. /\ Control /\ Ranges /\ node \in Nodes /\ wasReset
      /\ \A n \in Nodes : Known(n)
  BY <1>1, SMT DEF IInv, Ranges, Control
<1>3. /\ IsSettings(settings')
      /\ lost' \in {lost, lost + 1} /\ lost' \in 0..MaxTimeouts
  <2>1. Inputs(node) \in 0..Inputs(node)
    <3>1. Inputs(node) \in Nat
      BY <1>2, Channels0
    <3> QED
      BY <3>1
  <2> QED
    BY <1>1, <2>1, AmpSet
<1>4. lost \in Nat /\ lostBefore \in 0..lost /\ lostBefore \in 0..lost'
  BY <1>3, LostGrows
<1>5. \A n \in Nodes : Known(n)'
  <2>1. \A n \in Nodes : ~Fresh(n)'
    BY <1>1, <1>2, SMT DEF Fresh
  <2> QED
    BY <1>1, <1>2, <1>3, <1>4, <2>1, KnownOfCodec
<1>6. Control'
  BY <1>1, <1>2, SMT DEF Control
<1>7. Ranges'
  <2>1. IsSettings(settings)' /\ node' \in Nodes
    BY <1>1, <1>3, LastNodeAssumption DEF IsSettings, Nodes
  <2> QED
    BY <1>1, <1>2, <1>3, <1>4, <2>1, Zenon DEF Ranges
<1>8. pc' \notin AmpPcs /\ task' \notin {"scan", "unmute"}
  BY <1>1, SMT DEF AmpPcs
<1> QED
  BY <1>5, <1>6, <1>7, <1>8 DEF IInv
-----------------------------------------------------------------------------
(* The invariant holds. *)

(* Nothing happens.                                                        *)
LEMMA StutterKeeps == IInv /\ UNCHANGED vars => IInv'
<1> SUFFICES ASSUME IInv, UNCHANGED vars PROVE IInv'
  OBVIOUS
<1>1. UNCHANGED <<task, pc, node, w, amp, reading, offset, gain, widgets, settings,
                  wasReset, lost, lostBefore, commands>>
  BY DEF vars, taskVars
<1>2. /\ Control /\ Ranges /\ \A n \in Nodes : Known(n)
      /\ task = "scan" /\ pc \in ScanPcs => Collecting
      /\ pc \in AmpPcs => Reading
      /\ task = "unmute" => gain = GainFor(widgets[node]) /\ amp \in 0..15
  BY DEF IInv
<1>3. \A n \in Nodes : Known(n)'
  <2>1. lost \in Nat /\ lostBefore \in 0..lost
    BY <1>2, BoundsAssumption DEF Ranges
  <2> QED
    BY <1>1, <1>2, <2>1, KnownKept
<1>4. Control'
  BY <1>1, <1>2, SMT DEF Control
<1>5. Ranges'
  <2>1. IsSettings(settings)'
    BY <1>1, <1>2 DEF Ranges, IsSettings
  <2> QED
    BY <1>1, <1>2, <2>1, Zenon DEF Ranges
<1>6. Collecting' <=> Collecting
  BY <1>1 DEF Collecting
<1>7. Reading' <=> Reading
  BY <1>1 DEF Reading, ReadsOutput
<1>8. (gain = GainFor(widgets[node]))' <=> gain = GainFor(widgets[node])
  BY <1>1 DEF GainFor
<1> QED
  BY <1>1, <1>2, <1>3, <1>4, <1>5, <1>6, <1>7, <1>8, Zenon DEF IInv

(* The HDACodec constructor starts the scan with an empty database.        *)
LEMMA InitInv == Init => IInv
<1> SUFFICES ASSUME Init PROVE IInv
  OBVIOUS
<1> DEFINE d == DefaultWidget(0)
<1>1. /\ task = "scan" /\ pc = "cap" /\ node = 0 /\ w = d /\ reading = DefaultAmp
      /\ gain = 0 /\ widgets = [n \in Nodes |-> d] /\ settings = Bios /\ wasReset = FALSE
      /\ lost = 0 /\ lostBefore = 0 /\ commands = 0
  BY DEF Init
<1>2. 0 \in Nodes /\ d \in Widget /\ DefaultAmp \in Amp
  <2>1. 0 \in Nodes
    BY LastNodeAssumption DEF Nodes
  <2> QED
    BY <2>1, DefaultWidgets
<1> HIDE DEF d
<1>3. Control
  BY <1>1, SMT DEF Control
<1>4. Ranges
  <2>1. widgets \in [Nodes -> Widget]
    BY <1>1, <1>2
  <2>2. IsSettings(settings)
    BY <1>1, SettingsAssumption
  <2>3. lost \in 0..MaxTimeouts /\ lostBefore \in 0..lost /\ commands \in 0..MaxCommands
        /\ gain \in 0..127
    BY <1>1, BoundsAssumption
  <2> QED
    BY <1>1, <1>2, <2>1, <2>2, <2>3 DEF Ranges
<1>5. ASSUME NEW n \in Nodes PROVE Known(n)
  <2>1. widgets[n] = d
    BY <1>1
  <2>2. ~(n < node)
    BY <1>1, LastNodeAssumption DEF Nodes
  <2>3. ~Fresh(n)
    BY <1>1, <2>2, SMT DEF Fresh
  <2> QED
    BY <1>1, <2>1, <2>2, <2>3, SMT DEF Known, d
<1>6. pc \notin ScanPcs /\ pc \notin AmpPcs /\ task # "unmute"
  BY <1>1, SMT DEF ScanPcs, AmpPcs
<1> QED
  BY <1>3, <1>4, <1>5, <1>6 DEF IInv

(* Every state of every behaviour satisfies the inductive invariant.       *)
THEOREM Invariance == Spec => []IInv
<1>1. Init => IInv
  BY InitInv
<1>2. IInv /\ [Next]_vars => IInv'
  <2> SUFFICES ASSUME IInv, [Next]_vars PROVE IInv'
    OBVIOUS
  <2>1. CASE ReadCap
    BY <2>1, ReadCapKeeps
  <2>2. CASE ReadStreams
    BY <2>2, ReadStreamsKeeps
  <2>3. CASE ReadConfig
    BY <2>3, ReadConfigKeeps
  <2>4. CASE ReadPins
    BY <2>4, ReadPinsKeeps
  <2>5. CASE ReadLength
    BY <2>5, ReadLengthKeeps
  <2>6. CASE ReadEntries
    BY <2>6, ReadEntriesKeeps
  <2>7. CASE ReadSelection
    BY <2>7, ReadSelectionKeeps
  <2>8. CASE StartAmps
    BY <2>8, StartAmpsKeeps
  <2>9. CASE StartRefresh
    BY <2>9, StartRefreshKeeps
  <2>10. CASE ReadAmpCap
    BY <2>10, ReadAmpCapKeeps
  <2>11. CASE ReadAmpRight
    BY <2>11, ReadAmpRightKeeps
  <2>12. CASE ReadAmpLeft
    BY <2>12, ReadAmpLeftKeeps
  <2>13. CASE SetInputAmp
    BY <2>13, SetInputAmpKeeps
  <2>14. CASE SetOutputAmp
    BY <2>14, SetOutputAmpKeeps
  <2>15. CASE ResetController
    BY <2>15, ResetControllerKeeps
  <2>16. CASE Refresh
    BY <2>16, RefreshKeeps
  <2>17. CASE Unmute
    BY <2>17, UnmuteKeeps
  <2>18. CASE Finished \/ UNCHANGED vars
    BY <2>18, StutterKeeps DEF Finished
  <2> QED
    BY <2>1, <2>2, <2>3, <2>4, <2>5, <2>6, <2>7, <2>8, <2>9, <2>10, <2>11, <2>12,
       <2>13, <2>14, <2>15, <2>16, <2>17, <2>18 DEF Next, Step
<1> QED
  BY <1>1, <1>2, PTL DEF Spec
-----------------------------------------------------------------------------
(* The theorems. *)

(* The elements of a sequence over S are in S.                             *)
LEMMA EachOfSeq ==
  ASSUME NEW S, NEW s \in Seq(S)
  PROVE  \A i \in DOMAIN s : s[i] \in S
<1>1. DOMAIN s = 1..Len(s)
  OBVIOUS
<1> QED
  BY <1>1, ElementOfSeq, Zenon

(* A widget in its range is one the type invariant admits.                 *)
LEMMA WidgetsOK ==
  ASSUME NEW x \in Widget
  PROVE  WidgetOK(x)
<1>1. /\ x.id \in Nodes /\ x.list \in Seq(0..127) /\ x.inputAmps \in Seq(Amp)
      /\ x.outputAmp \in Amp /\ x.selection \in 0..255
  BY SMT DEF Widget, Lists, AmpLists, Bytes
<1>2. \A i \in DOMAIN x.list : x.list[i] \in 0..127
  <2>1. x.list \in Seq(0..127)
    BY <1>1
  <2> QED
    BY <2>1, EachOfSeq, ZenonT(40)
<1>3. \A i \in DOMAIN x.inputAmps : x.inputAmps[i] \in Amp
  <2>1. x.inputAmps \in Seq(Amp)
    BY <1>1
  <2> QED
    BY <2>1, EachOfSeq, ZenonT(40)
<1> QED
  BY <1>1, <1>2, <1>3, Zenon DEF WidgetOK

(* The widgets collectWidgetInformation and refreshWidget build, the gain  *)
(* cmdUnmute takes and the codec's settings stay in their ranges: list     *)
(* entries have seven bits, gains fit the verb.                            *)
THEOREM TypeCorrect == Spec => []TypeOK
<1>1. IInv => TypeOK
  <2> SUFFICES ASSUME IInv PROVE TypeOK
    OBVIOUS
  <2>1. task \in {"scan", "refresh", "unmute", "none"}
    BY SMT DEF IInv, Control
  <2>2. /\ node \in Nodes /\ w \in Widget /\ widgets \in [Nodes -> Widget]
        /\ IsSettings(settings) /\ reading \in Amp /\ gain \in 0..127
        /\ lost \in 0..MaxTimeouts /\ lostBefore \in 0..lost /\ commands \in 0..MaxCommands
    BY DEF IInv, Ranges
  <2>3. WidgetOK(w) /\ \A n \in Nodes : WidgetOK(widgets[n])
    BY <2>2, WidgetsOK
  <2> QED
    BY <2>1, <2>2, <2>3 DEF TypeOK
<1> QED
  BY <1>1, Invariance, PTL

(* The fields of the exact widget, by the names the invariant has for      *)
(* them.                                                                   *)
LEMMA Described ==
  ASSUME NEW n \in Nodes, IsSettings(settings)
  PROVE  LET d == Describe(n) IN
         /\ d.id = n /\ d.type = TypeOf(n) /\ d.digital = Codec[n].digital
         /\ d.hasIn = Codec[n].hasIn /\ d.hasOut = Codec[n].hasOut
         /\ d.streams = Streams(n) /\ d.device = Device(n) /\ d.location = Location(n)
         /\ d.colour = Colour(n)
         /\ d.headphone = Flag(n, 3) /\ d.inputPin = Flag(n, 5) /\ d.outputPin = Flag(n, 4)
         /\ d.list = KnownList(n) /\ d.selection = Selection(n)
         /\ Len(d.inputAmps) = KnownInputs(n)
         /\ \A i \in 1..KnownInputs(n) :
              i <= Addressed => d.inputAmps[i] = InputTruth(settings, n, i)
         /\ d.outputAmp = IF Codec[n].hasOut THEN OutputTruth(settings, n) ELSE DefaultAmp
<1> DEFINE d == Describe(n)
           amps == [i \in 1..KnownInputs(n) |-> TrueAmp(Codec[n].inCap, settings[n][i - 1])]
<1>1. /\ d.id = n /\ d.type = TypeOf(n) /\ d.digital = Codec[n].digital
      /\ d.hasIn = Codec[n].hasIn /\ d.hasOut = Codec[n].hasOut
  BY SMT DEF Describe, TypeOf
<1>2. /\ d.streams = Streams(n) /\ d.device = Device(n) /\ d.location = Location(n)
      /\ d.colour = Colour(n)
  BY SMT DEF Describe, Streams, Device, Location, Colour
<1>3. d.headphone = Flag(n, 3) /\ d.inputPin = Flag(n, 5) /\ d.outputPin = Flag(n, 4)
  BY DEF Describe, Flag
<1>4. d.list = KnownList(n) /\ d.selection = Selection(n)
  BY SMT DEF Describe, Selection
<1>5. d.inputAmps = amps
  BY SMT DEF Describe
<1>6. KnownInputs(n) \in Nat
  BY Channels0
<1>7. /\ Len(amps) = KnownInputs(n)
      /\ \A i \in 1..KnownInputs(n) : i <= Addressed => amps[i] = InputTruth(settings, n, i)
  <2>1. Len(amps) = KnownInputs(n)
    BY <1>6
  <2>2. ASSUME NEW i \in 1..KnownInputs(n), i <= Addressed
        PROVE  amps[i] = InputTruth(settings, n, i)
    <3>1. i - 1 \in Nat /\ i - 1 < Addressed
      BY <1>6, <2>2 DEF Addressed
    <3>2. Channel(i - 1) = i - 1
      BY <3>1, ChannelBounds
    <3> QED
      BY <3>2 DEF InputTruth
  <2> QED
    BY <2>1, <2>2
<1>8. d.outputAmp = IF Codec[n].hasOut THEN OutputTruth(settings, n) ELSE DefaultAmp
  BY SMT DEF Describe, OutputTruth
<1> QED
  BY <1>1, <1>2, <1>3, <1>4, <1>5, <1>7, <1>8, Zenon

(* A list or amplifiers that are there are as many as the exact widget     *)
(* has.                                                                    *)
LEMMA InputsOfScanned ==
  ASSUME NEW n \in Nodes, NEW x \in Widget, Scanned(x, n)
  PROVE  /\ Len(x.list) \in {Len(KnownList(n)), 0}
         /\ \A i \in DOMAIN x.list : x.list[i] \in {KnownList(n)[i], 0}
         /\ Len(x.inputAmps) \in {KnownInputs(n), 0}
         /\ DOMAIN x.inputAmps = 1..Len(x.inputAmps)
<1>1. x.list \in Seq(0..127) /\ DOMAIN x.list = 1..Len(x.list)
  BY DEF Widget, Lists
<1>2. x.inputAmps \in Seq(Amp) /\ Len(x.inputAmps) = AmpCount(x)
  BY AmpCountBounds
<1>3. x.list # <<>> => /\ Codec[n].hasList /\ ~Codec[n].long
                       /\ Len(x.list) = Len(Codec[n].entries)
                       /\ \A i \in 1..Len(x.list) : x.list[i] \in {Truth(n, i), 0}
  BY DEF Scanned, Registers
<1>4. x.list = <<>> => Len(x.list) = 0 /\ DOMAIN x.list = {}
  BY <1>1
<1>5. Len(x.list) \in {Len(KnownList(n)), 0}
  BY <1>3, <1>4, ListKnown
<1>6. \A i \in DOMAIN x.list : x.list[i] \in {KnownList(n)[i], 0}
  BY <1>1, <1>3, <1>4, ListKnown
<1>7. x.hasIn = Codec[n].hasIn /\ (x.type = "Mixer" <=> Codec[n].type = "Mixer")
  BY SMT DEF Scanned, Identity, TypeOf, Types
<1>8. AmpCount(x) \in {KnownInputs(n), 0}
  BY <1>5, <1>7, SMT DEF AmpCount, KnownInputs
<1> QED
  BY <1>2, <1>5, <1>6, <1>8

(* A scanned widget says nothing wrong.                                    *)
LEMMA ScannedTrue ==
  ASSUME NEW n \in Nodes, NEW x \in Widget, Scanned(x, n), IsSettings(settings)
  PROVE  NothingWrong(x, n)
<1> DEFINE d == Describe(n)
<1>1. /\ d.id = n /\ d.type = TypeOf(n)
      /\ d.streams = Streams(n) /\ d.device = Device(n) /\ d.location = Location(n)
      /\ d.colour = Colour(n)
      /\ d.headphone = Flag(n, 3) /\ d.inputPin = Flag(n, 5) /\ d.outputPin = Flag(n, 4)
      /\ d.list = KnownList(n) /\ d.selection = Selection(n)
      /\ Len(d.inputAmps) = KnownInputs(n)
  BY Described
<1> HIDE DEF d
<1>2. Identity(x, n) /\ Registers(x, n) /\ AmpsKnown(x, n)
  BY DEF Scanned
<1>3. x.id = n /\ x.type = TypeOf(n) /\ x.hasIn = Codec[n].hasIn
  BY <1>2 DEF Identity
<1>4. /\ x.streams \in {Streams(n), {}} /\ x.device \in {Device(n), "Unknown"}
      /\ x.location \in {Location(n), "Unknown"} /\ x.colour \in {Colour(n), 0}
      /\ x.selection \in {Selection(n), 0}
  BY <1>2 DEF Registers
<1>5. <<x.headphone, x.inputPin, x.outputPin>> \in
        {<<d.headphone, d.inputPin, d.outputPin>>, <<FALSE, FALSE, FALSE>>}
  <2>1. CASE FlagsExact(x, n)
    BY <1>1, <2>1 DEF FlagsExact
  <2>2. CASE ~x.headphone /\ ~x.inputPin /\ ~x.outputPin
    <3>1. x.headphone \in BOOLEAN /\ x.inputPin \in BOOLEAN /\ x.outputPin \in BOOLEAN
      BY SMT DEF Widget
    <3>2. x.headphone = FALSE /\ x.inputPin = FALSE /\ x.outputPin = FALSE
      BY <2>2, <3>1
    <3> QED
      BY <3>2
  <2> QED
    BY <1>2, <2>1, <2>2 DEF Registers
<1>6. /\ Len(x.list) \in {Len(d.list), 0}
      /\ \A i \in DOMAIN x.list : x.list[i] \in {d.list[i], 0}
      /\ Len(x.inputAmps) \in {Len(d.inputAmps), 0}
      /\ DOMAIN x.inputAmps = 1..Len(x.inputAmps)
  BY <1>1, InputsOfScanned
<1>7. x.type = "Mixer" /\ Codec[n].hasIn => Len(x.inputAmps) = Len(x.list)
  BY <1>2, <1>3, SMT DEF AmpsKnown, AmpCount
<1>8. ~DefaultAmp.valid
  BY SMT DEF DefaultAmp
<1>9. /\ \A i \in DOMAIN x.inputAmps :
           x.inputAmps[i].valid => x.inputAmps[i].step = Codec[n].inCap % 128
      /\ x.outputAmp.valid => x.outputAmp.step = Codec[n].outCap % 128
  BY <1>2, <1>6, <1>8 DEF AmpsKnown, Capable
<1> QED
  BY <1>1, <1>3, <1>4, <1>5, <1>6, <1>7, <1>9 DEF d, NothingWrong

(* Neither does one of which only the number is known.                     *)
LEMMA DefaultTrue ==
  ASSUME NEW n \in Nodes
  PROVE  NothingWrong(DefaultWidget(n), n)
<1> DEFINE x == DefaultWidget(n)
           d == Describe(n)
<1>1. /\ x.id = n /\ x.type = "Unknown" /\ x.streams = {}
      /\ x.device = "Unknown" /\ x.location = "Unknown" /\ x.colour = 0
      /\ x.headphone = FALSE /\ x.inputPin = FALSE /\ x.outputPin = FALSE
      /\ x.selection = 0 /\ x.list = <<>> /\ x.inputAmps = <<>>
      /\ x.outputAmp.valid = FALSE
  BY SMT DEF DefaultWidget, DefaultAmp
<1> HIDE DEF x, d
<1>2. /\ Len(x.list) = 0 /\ DOMAIN x.list = {}
      /\ Len(x.inputAmps) = 0 /\ DOMAIN x.inputAmps = {}
  BY <1>1
<1>3. <<x.headphone, x.inputPin, x.outputPin>> = <<FALSE, FALSE, FALSE>>
  BY <1>1
<1>4. /\ \A i \in DOMAIN x.list : x.list[i] \in {d.list[i], 0}
      /\ \A i \in DOMAIN x.inputAmps :
           x.inputAmps[i].valid => x.inputAmps[i].step = Codec[n].inCap % 128
  BY <1>2
<1>5. x.id = n /\ x.type \in {d.type, "Unknown"} /\ x.streams \in {d.streams, {}}
      /\ x.device \in {d.device, "Unknown"} /\ x.location \in {d.location, "Unknown"}
      /\ x.colour \in {d.colour, 0} /\ x.selection \in {d.selection, 0}
  BY <1>1
<1>6. Len(x.list) \in {Len(d.list), 0} /\ Len(x.inputAmps) \in {Len(d.inputAmps), 0}
      /\ Len(x.inputAmps) = Len(x.list)
  BY <1>2
<1>7. ~x.outputAmp.valid
  BY <1>1
<1> QED
  BY <1>3, <1>4, <1>5, <1>6, <1>7 DEF x, d, NothingWrong

(* Whatever responses are lost, in the scan, in any refresh or in any      *)
(* unmute, a widget of the database has the codec's own registers or the   *)
(* defaults, and a valid amplifier has the capabilities of its node        *)
(* (collectWidgetInformation, refreshWidget).                              *)
THEOREM DatabaseTrueOrDefault == Spec => []TrueOrDefault
<1>1. IInv => TrueOrDefault
  <2> SUFFICES ASSUME IInv, NEW n \in Nodes, widgets[n] # DefaultWidget(0)
               PROVE  NothingWrong(widgets[n], n)
    BY DEF TrueOrDefault
  <2>1. /\ widgets[n] \in Widget /\ IsSettings(settings)
        /\ widgets[n] = DefaultWidget(n) \/ Scanned(widgets[n], n)
    BY DEF IInv, Ranges, Known
  <2> QED
    BY <2>1, ScannedTrue, DefaultTrue
<1> QED
  BY <1>1, Invariance, PTL

(* Two widgets are equal if their fields are.                              *)
LEMMA SameWidget ==
  ASSUME NEW x, NEW y, x \in Widget, y \in Widget,
         x.id = y.id, x.type = y.type, x.digital = y.digital, x.hasIn = y.hasIn,
         x.hasOut = y.hasOut, x.streams = y.streams, x.device = y.device,
         x.location = y.location, x.colour = y.colour, x.headphone = y.headphone,
         x.inputPin = y.inputPin, x.outputPin = y.outputPin, x.list = y.list,
         x.selection = y.selection, x.inputAmps = y.inputAmps, x.outputAmp = y.outputAmp
  PROVE  x = y
  BY SMT DEF Widget

(* The exact widget is a widget.                                           *)
LEMMA DescribeIsWidget ==
  ASSUME NEW n \in Nodes, NEW x \in Widget, Complete(x, n), IsSettings(settings)
  PROVE  Describe(n) \in Widget
<1> DEFINE amps == [i \in 1..KnownInputs(n) |-> TrueAmp(Codec[n].inCap, settings[n][i - 1])]
           out  == IF Codec[n].hasOut THEN TrueAmp(Codec[n].outCap, settings[n][Inputs(n)])
                   ELSE DefaultAmp
           h == IsPin(n) /\ 3 \in Codec[n].pins
           p == IsPin(n) /\ 5 \in Codec[n].pins
           o == IsPin(n) /\ 4 \in Codec[n].pins
<1>1. amps \in AmpLists
  <2>1. KnownInputs(n) \in Nat /\ KnownInputs(n) <= Inputs(n) /\ Inputs(n) \in Nat
    BY Channels0
  <2>2. ASSUME NEW i \in 1..KnownInputs(n)
        PROVE  TrueAmp(Codec[n].inCap, settings[n][i - 1]) \in Amp
    <3>1. i - 1 \in 0..Inputs(n)
      BY <2>1
    <3>2. settings[n][i - 1] \in Setting
      BY <3>1, TruthOfAmps
    <3> QED
      BY <3>2, NodeRegisters, TrueAmps
  <2>3. amps \in [1..KnownInputs(n) -> Amp]
    BY <2>2
  <2> QED
    BY <2>1, <2>3, FunctionIsSequence DEF AmpLists
<1>2. out \in Amp
  BY TruthOfAmps, DefaultWidgets DEF OutputTruth
<1>3. h \in Booleans /\ p \in Booleans /\ o \in Booleans
  BY DEF Booleans, IsPin
<1>4. /\ Streams(n) \in BitSets /\ Device(n) \in DeviceNames
      /\ Location(n) \in LocationNames /\ Colour(n) \in Nibbles
      /\ KnownList(n) \in Lists /\ Selection(n) \in Bytes /\ TypeOf(n) \in TypeNames
  BY SMT DEF Complete, RegistersExact, ConfigExact, Scanned, Identity, Widget
<1>5. /\ Codec[n].digital \in Booleans /\ Codec[n].hasIn \in Booleans
      /\ Codec[n].hasOut \in Booleans
  BY NodeRegisters DEF Booleans
<1>6. Describe(n) = [id |-> n, type |-> TypeOf(n), digital |-> Codec[n].digital,
                     hasIn |-> Codec[n].hasIn, hasOut |-> Codec[n].hasOut,
                     streams |-> Streams(n), device |-> Device(n), location |-> Location(n),
                     colour |-> Colour(n), headphone |-> h, inputPin |-> p, outputPin |-> o,
                     list |-> KnownList(n), selection |-> Selection(n),
                     inputAmps |-> amps, outputAmp |-> out]
  BY Zenon DEF Describe, TypeOf, Streams, Device, Location, Colour, Selection
<1> HIDE DEF amps, out, h, p, o
<1> QED
  BY <1>1, <1>2, <1>3, <1>4, <1>5, <1>6, SMT DEF Widget, Booleans

(* A complete widget whose amplifiers are exact agrees with the exact      *)
(* widget: an output amplifier that is left out is one the codec does not  *)
(* have.                                                                   *)
LEMMA CompleteIsExact ==
  ASSUME NEW n \in Nodes, NEW x \in Widget, Complete(x, n), AmpsExact(settings, x, n),
         IsSettings(settings)
  PROVE  Agrees(x, Describe(n))
<1> DEFINE d == Describe(n)
<1>1. /\ d.id = n /\ d.type = TypeOf(n) /\ d.digital = Codec[n].digital
      /\ d.hasIn = Codec[n].hasIn /\ d.hasOut = Codec[n].hasOut
      /\ d.streams = Streams(n) /\ d.device = Device(n) /\ d.location = Location(n)
      /\ d.colour = Colour(n)
      /\ d.headphone = Flag(n, 3) /\ d.inputPin = Flag(n, 5) /\ d.outputPin = Flag(n, 4)
      /\ d.list = KnownList(n) /\ d.selection = Selection(n)
      /\ Len(d.inputAmps) = KnownInputs(n)
      /\ \A i \in 1..KnownInputs(n) :
           i <= Addressed => d.inputAmps[i] = InputTruth(settings, n, i)
      /\ d.outputAmp = IF Codec[n].hasOut THEN OutputTruth(settings, n) ELSE DefaultAmp
  BY Described
<1>2. d \in Widget
  BY DescribeIsWidget
<1> HIDE DEF d
<1>3. /\ Identity(x, n) /\ AmpsKnown(x, n) /\ RegistersExact(x, n) /\ OutputKnown(x, n)
      /\ Scanned(x, n)
  BY DEF Complete, Scanned
<1>4. /\ x.id = d.id /\ x.type = d.type /\ x.digital = d.digital /\ x.hasIn = d.hasIn
      /\ x.hasOut = d.hasOut
  BY <1>1, <1>3 DEF Identity
<1>5. /\ x.streams = d.streams /\ x.device = d.device /\ x.location = d.location
      /\ x.colour = d.colour /\ x.list = d.list /\ x.selection = d.selection
  BY <1>1, <1>3 DEF RegistersExact, ConfigExact
<1>6. x.headphone = d.headphone /\ x.inputPin = d.inputPin /\ x.outputPin = d.outputPin
  BY <1>1, <1>3 DEF RegistersExact, FlagsExact
<1>7. /\ Len(x.inputAmps) = Len(d.inputAmps)
      /\ \A i \in DOMAIN x.inputAmps : i <= Addressed => x.inputAmps[i] = d.inputAmps[i]
  <2>1. x.inputAmps \in Seq(Amp)
    BY SMT DEF Widget, AmpLists
  <2>2. x.type = "Mixer" <=> Codec[n].type = "Mixer"
    BY <1>1, <1>4, SMT DEF TypeOf, Types
  <2>3. Len(x.inputAmps) = KnownInputs(n)
    BY <1>1, <1>3, <1>4, <1>5, <2>2, SMT DEF AmpsKnown, AmpCount, KnownInputs
  <2>4. \A i \in 1..Len(x.inputAmps) : i <= Addressed => x.inputAmps[i] = d.inputAmps[i]
    BY <1>1, <2>3 DEF AmpsExact
  <2> QED
    BY <1>1, <2>1, <2>3, <2>4
<1>8. x.outputAmp = d.outputAmp
  <2>1. x.outputAmp \in {OutputTruth(settings, n), DefaultAmp}
    BY DEF AmpsExact
  <2>2. CASE ~Codec[n].hasOut
    BY <1>1, <1>3, <2>2 DEF AmpsKnown
  <2>3. CASE Codec[n].hasOut /\ Codec[n].outCap = NoCap
    <3>1. OutputTruth(settings, n) = DefaultAmp
      BY <2>3 DEF OutputTruth, TrueAmp
    <3> QED
      BY <1>1, <2>1, <2>3, <3>1
  <2>4. CASE Codec[n].hasOut /\ Codec[n].outCap # NoCap
    <3>1. x.outputAmp.valid
      BY <1>3, <2>4 DEF OutputKnown
    <3>2. ~DefaultAmp.valid
      BY SMT DEF DefaultAmp
    <3> QED
      BY <1>1, <2>1, <2>4, <3>1, <3>2
  <2> QED
    BY <2>2, <2>3, <2>4
<1>9. [x EXCEPT !.inputAmps = <<>>] = [d EXCEPT !.inputAmps = <<>>]
  <2> DEFINE y == [x EXCEPT !.inputAmps = <<>>]
             z == [d EXCEPT !.inputAmps = <<>>]
  <2>1. <<>> \in AmpLists
    BY DEF AmpLists
  <2>2. /\ y \in Widget /\ y.inputAmps = <<>>
        /\ y.id = x.id /\ y.type = x.type /\ y.digital = x.digital
        /\ y.hasIn = x.hasIn /\ y.hasOut = x.hasOut /\ y.streams = x.streams
        /\ y.device = x.device /\ y.location = x.location /\ y.colour = x.colour
        /\ y.headphone = x.headphone /\ y.inputPin = x.inputPin
        /\ y.outputPin = x.outputPin /\ y.list = x.list /\ y.selection = x.selection
        /\ y.outputAmp = x.outputAmp
    BY <2>1, SetInputAmps
  <2>3. /\ z \in Widget /\ z.inputAmps = <<>>
        /\ z.id = d.id /\ z.type = d.type /\ z.digital = d.digital
        /\ z.hasIn = d.hasIn /\ z.hasOut = d.hasOut /\ z.streams = d.streams
        /\ z.device = d.device /\ z.location = d.location /\ z.colour = d.colour
        /\ z.headphone = d.headphone /\ z.inputPin = d.inputPin
        /\ z.outputPin = d.outputPin /\ z.list = d.list /\ z.selection = d.selection
        /\ z.outputAmp = d.outputAmp
    BY <1>2, <2>1, SetInputAmps
  <2> HIDE DEF y, z
  <2>4. y = z
    BY <1>4, <1>5, <1>6, <1>8, <2>2, <2>3, SameWidget
  <2> QED
    BY <2>4 DEF y, z
<1> QED
  BY <1>7, <1>9 DEF Agrees, d

(* When collectWidgetInformation ends with every verb answered, the        *)
(* database is the codec, node by node and field by field, as far as the   *)
(* verbs can name the input amplifiers, and an absent node is left at its  *)
(* default.                                                                *)
THEOREM ScanIsExact == Spec => []ScanExact
<1>1. IInv => ScanExact
  <2> SUFFICES ASSUME IInv, task = "none", ~wasReset, lost = 0, NEW n \in Nodes
               PROVE  IF Codec[n].type = "Absent" THEN widgets[n] = DefaultWidget(0)
                      ELSE Agrees(widgets[n], Describe(n))
    BY DEF ScanExact
  <2>1. Control /\ Ranges /\ Known(n) /\ widgets[n] \in Widget /\ IsSettings(settings)
    BY DEF IInv, Ranges
  <2>2. IF Codec[n].type = "Absent" THEN widgets[n] = DefaultWidget(0)
        ELSE Complete(widgets[n], n)
    BY <2>1, SMT DEF Known
  <2>3. lost = lostBefore /\ Fresh(n)
    BY <2>1, SMT DEF Control, Fresh
  <2>4. AmpsExact(settings, widgets[n], n)
    BY <2>1, <2>3 DEF Known
  <2> QED
    BY <2>1, <2>2, <2>4, CompleteIsExact
<1> QED
  BY <1>1, Invariance, PTL

(* The step that ends a refresh: the last node's widget is stored.          *)
LEMMA LastStored ==
  ASSUME IInv, task = "refresh", task' = "none", lost' = lostBefore,
         NEW x \in Widget, NEW a, Continues(x, a)
  PROVE  /\ node = LastNode /\ widgets' = [widgets EXCEPT ![node] = x]
         /\ AmpsExact(settings, x, node) /\ lost' \in {lost, lost + 1}
<1>1. /\ ~IsInput(x, a)
      /\ a = Len(x.inputAmps) => ~ReadsOutput(x)
      /\ widgets' = [widgets EXCEPT ![node] = x]
      /\ NextNode
  BY SMT DEF Continues, ReadAmpsFrom
<1>2. node = LastNode
  BY <1>1, SMT DEF NextNode
<1>3. AmpsExact(settings, x, node)
  BY <1>1, WidgetDone DEF Continues
<1> QED
  BY <1>1, <1>2, <1>3 DEF Continues

(* Whichever step ends a refresh, the amplifiers it stores are exact.      *)
LEMMA RefreshEnds ==
  ASSUME IInv, Next, task = "refresh", task' = "none", lost' = lostBefore
  PROVE  \E x \in Widget : /\ node = LastNode /\ widgets' = [widgets EXCEPT ![node] = x]
                           /\ AmpsExact(settings, x, node) /\ lost' \in {lost, lost + 1}
<1>1. /\ node \in Nodes /\ widgets[node] \in Widget /\ Known(node)
      /\ lost \in 0..MaxTimeouts
  BY DEF IInv, Ranges
<1>2. StartRefresh \/ ReadAmpCap \/ ReadAmpLeft
  BY SMT DEF Next, Step, ReadCap, ReadStreams, ReadConfig, ReadPins, ReadLength, ReadEntries,
             ReadSelection, StartAmps, ReadAmpRight, SetInputAmp, SetOutputAmp,
             ResetController, Refresh, Unmute, Ready, Finished
<1>3. CASE StartRefresh
  <2> DEFINE x == widgets[node]
  <2>1. ReadAmpsFrom(x, 0) /\ lost' = lost
    BY <1>3 DEF StartRefresh
  <2>2. /\ ~IsInput(x, 0)
        /\ 0 = Len(x.inputAmps) => ~ReadsOutput(x)
        /\ widgets' = [widgets EXCEPT ![node] = x]
        /\ NextNode
    BY <2>1, SMT DEF ReadAmpsFrom
  <2>3. node = LastNode
    BY <2>2, SMT DEF NextNode
  <2>4. CASE Scanned(x, node)
    <3>1. Len(x.inputAmps) \in Nat
      BY <1>1, <2>4, AmpCountBounds
    <3>2. AmpsDone(settings, x, node, 0)
      BY <3>1, SMT DEF AmpsDone
    <3>3. lost' = 0 => RegistersExact(x, node) /\ OutputKnown(x, node)
      BY <1>1, <2>1, <2>4, SMT DEF Known, Complete, Scanned, Identity
    <3> HIDE DEF x
    <3>4. x \in Widget
      BY <1>1 DEF x
    <3>5. AmpsExact(settings, x, node)
      BY <2>1, <2>2, <2>4, <3>1, <3>2, <3>3, <3>4, WidgetDone
    <3> QED
      BY <2>1, <2>2, <2>3, <3>4, <3>5
  <2>5. CASE x \in {DefaultWidget(0), DefaultWidget(node)}
    BY <1>1, <2>1, <2>2, <2>3, <2>5, NoAmps
  <2> QED
    BY <1>1, <2>4, <2>5 DEF Known
<1>4. CASE ReadAmpCap
  <2>1. \E x \in Widget : Continues(x, amp + 1)
    BY <1>4, CapabilitiesAnswered
  <2> QED
    BY <2>1, LastStored
<1>5. CASE ReadAmpLeft
  BY <1>5, LeftRead, LastStored
<1> QED
  BY <1>2, <1>3, <1>4, <1>5

(* When a refresh that lost nothing ends, the amplifiers of every node are *)
(* exact, and the rest is what it was.                                     *)
LEMMA RefreshExact ==
  ASSUME IInv, IInv', Next, task = "refresh", task' = "none", lost' = lostBefore,
         NEW n \in Nodes
  PROVE  /\ AmpsExact(settings, widgets'[n], n) /\ widgets'[n] \in Widget
         /\ \/ widgets'[n] \in {DefaultWidget(0), DefaultWidget(n)}
            \/ Scanned(widgets'[n], n)
         /\ lost' = 0 /\ Codec[n].type # "Absent" => Complete(widgets'[n], n)
<1>1. /\ node \in Nodes /\ Known(n) /\ widgets \in [Nodes -> Widget]
      /\ lost \in 0..MaxTimeouts /\ lostBefore \in 0..lost
  BY DEF IInv, Ranges
<1>2. PICK x \in Widget : /\ node = LastNode /\ widgets' = [widgets EXCEPT ![node] = x]
                          /\ AmpsExact(settings, x, node) /\ lost' \in {lost, lost + 1}
  BY RefreshEnds
<1>3. AmpsExact(settings, widgets'[n], n)
  <2>1. CASE n = node
    BY <1>1, <1>2, <2>1
  <2>2. CASE n # node
    <3>1. widgets'[n] = widgets[n]
      BY <1>1, <1>2, <2>2
    <3>2. n < node
      BY <1>1, <1>2, <2>2, LastNodeAssumption DEF Nodes
    <3>3. Fresh(n)
      BY <3>2, SMT DEF Fresh
    <3>4. lost = lostBefore
      BY <1>2, LostGrows
    <3> QED
      BY <1>1, <1>2, <3>1, <3>3, <3>4 DEF Known
  <2> QED
    BY <2>1, <2>2
<1>4. Known(n)' /\ widgets' \in [Nodes -> Widget]
  BY DEF IInv, Ranges
<1> QED
  BY <1>3, <1>4, SMT DEF Known

(* While the amplifiers of a node are refreshed, the output amplifier in   *)
(* hand is the one of the database until it is read itself.                *)
KeptInv == task = "refresh" /\ pc \in AmpPcs => w.outputAmp = widgets[node].outputAmp

(* No output amplifier that is valid is given up.                          *)
OutputsStay == \A n \in Nodes : widgets[n].outputAmp.valid => widgets'[n].outputAmp.valid

(* Reading an input amplifier leaves the output amplifier alone.           *)
LEMMA OtherAmps ==
  ASSUME IInv, pc \in AmpPcs, NEW v \in Amp, NEW x, x = WithAmp(w, amp, v)
  PROVE  /\ Len(x.inputAmps) = Len(w.inputAmps) /\ Len(w.inputAmps) \in Nat
         /\ amp \in 0..Len(w.inputAmps)
         /\ amp < Len(w.inputAmps) => x.outputAmp = w.outputAmp
<1>1. /\ Reading /\ w \in Widget /\ node \in Nodes
  BY DEF IInv, Ranges
<1>2. /\ w.inputAmps \in Seq(Amp) /\ Len(w.inputAmps) \in Nat
      /\ amp \in 0..Len(w.inputAmps) /\ amp \in Nat
  BY <1>1, AmpCountBounds DEF Reading
<1>3. CASE amp < Len(w.inputAmps)
  <2> DEFINE amps == [w.inputAmps EXCEPT ![amp + 1] = v]
  <2>1. x = [w EXCEPT !.inputAmps = amps]
    BY <1>1, <1>3, SMT DEF WithAmp, IsInput, Widget
  <2>2. amps \in AmpLists /\ Len(amps) = Len(w.inputAmps)
    BY <1>2, <1>3 DEF AmpLists
  <2> HIDE DEF amps
  <2> QED
    BY <1>1, <1>2, <2>1, <2>2, SetInputAmps
<1>4. CASE ~(amp < Len(w.inputAmps))
  <2>1. x = [w EXCEPT !.outputAmp = v]
    BY <1>4 DEF WithAmp, IsInput
  <2> QED
    BY <1>1, <1>2, <1>4, <2>1, SetOutputAmpOf
<1> QED
  BY <1>3, <1>4

(* An amplifier was read in a refresh: the next one is due, or the widget  *)
(* is stored, its output amplifier read or, if it was not valid, passed    *)
(* over.                                                                   *)
LEMMA KeptFrom ==
  ASSUME IInv, KeptInv, task = "refresh", pc \in AmpPcs,
         NEW v \in Amp, NEW x \in Widget, x = WithAmp(w, amp, v), Continues(x, amp + 1)
  PROVE  KeptInv' /\ (lost' = lostBefore => OutputsStay)
<1>1. /\ Len(x.inputAmps) = Len(w.inputAmps) /\ Len(w.inputAmps) \in Nat
      /\ amp \in 0..Len(w.inputAmps)
      /\ amp < Len(w.inputAmps) => x.outputAmp = w.outputAmp
  BY OtherAmps
<1>2. w.outputAmp = widgets[node].outputAmp
  BY DEF KeptInv
<1>3. node \in Nodes /\ widgets \in [Nodes -> Widget] /\ IsSettings(settings) /\ Known(node)
  BY DEF IInv, Ranges
<1>4. /\ ReadAmpsFrom(x, amp + 1) /\ w' = x
      /\ lost' = lostBefore => AmpsDone(settings, x, node, amp + 1)
  BY DEF Continues, ReadAmpsFrom
<1>5. CASE /\ IsInput(x, amp + 1) \/ (amp + 1 = Len(x.inputAmps) /\ ReadsOutput(x))
           /\ pc' = "ampCap" /\ UNCHANGED <<task, node, widgets>>
  <2>1. amp < Len(w.inputAmps)
    BY <1>1, <1>5 DEF IsInput
  <2> QED
    BY <1>1, <1>2, <1>4, <1>5, <2>1 DEF KeptInv, OutputsStay
<1>6. CASE /\ ~IsInput(x, amp + 1)
           /\ amp + 1 = Len(x.inputAmps) => ~ReadsOutput(x)
           /\ widgets' = [widgets EXCEPT ![node] = x] /\ NextNode
  <2>1. KeptInv'
    BY <1>6, SMT DEF NextNode, KeptInv, AmpPcs
  <2>2. ASSUME lost' = lostBefore, widgets[node].outputAmp.valid PROVE x.outputAmp.valid
    <3>1. CASE amp + 1 = Len(x.inputAmps)
      <4>1. amp < Len(w.inputAmps)
        BY <1>1, <3>1
      <4> QED
        BY <1>1, <1>2, <2>2, <4>1
    <3>2. CASE amp + 1 > Len(x.inputAmps)
      <4>1. x.outputAmp = OutputTruth(settings, node)
        BY <1>4, <2>2, <3>2 DEF AmpsDone
      <4>2. ~DefaultAmp.valid /\ ~DefaultWidget(0).outputAmp.valid
            /\ ~DefaultWidget(node).outputAmp.valid
        BY SMT DEF DefaultAmp, DefaultWidget
      <4>3. Codec[node].outCap # NoCap
        BY <1>3, <2>2, <4>2 DEF Known, Scanned, AmpsKnown, Capable
      <4>4. settings[node][Inputs(node)] \in Setting /\ Codec[node].outCap \in 0..NoCap
        BY <1>3, TruthOfAmps, NodeRegisters, Channels0
      <4> QED
        BY <4>1, <4>3, <4>4, TrueAmps DEF OutputTruth, Capable
    <3> QED
      BY <1>1, <1>6, <3>1, <3>2 DEF IsInput
  <2>3. lost' = lostBefore => OutputsStay
    BY <1>3, <1>6, <2>2 DEF OutputsStay
  <2> QED
    BY <2>1, <2>3
<1> QED
  BY <1>4, <1>5, <1>6, Zenon DEF ReadAmpsFrom

(* A step of a refresh keeps the output amplifiers unless it loses a       *)
(* response.                                                               *)
LEMMA KeptStep ==
  ASSUME IInv, KeptInv, Next, task = "refresh"
  PROVE  KeptInv' /\ (lost' = lostBefore => OutputsStay)
<1>1. StartRefresh \/ ReadAmpCap \/ ReadAmpRight \/ ReadAmpLeft
  BY SMT DEF Next, Step, ReadCap, ReadStreams, ReadConfig, ReadPins, ReadLength, ReadEntries,
             ReadSelection, StartAmps, SetInputAmp, SetOutputAmp,
             ResetController, Refresh, Unmute, Ready, Finished
<1>2. node \in Nodes /\ widgets \in [Nodes -> Widget]
  BY DEF IInv, Ranges
<1>3. CASE StartRefresh
  <2> DEFINE x == widgets[node]
  <2>1. w' = x /\ ReadAmpsFrom(x, 0)
    BY <1>3 DEF StartRefresh, ReadAmpsFrom
  <2>2. CASE UNCHANGED <<task, node, widgets>>
    BY <2>1, <2>2 DEF KeptInv, OutputsStay
  <2>3. CASE widgets' = [widgets EXCEPT ![node] = x] /\ NextNode
    <3>1. widgets' = widgets
      BY <1>2, <2>3
    <3>2. pc' \notin AmpPcs
      BY <2>3, SMT DEF NextNode, AmpPcs
    <3> QED
      BY <3>1, <3>2 DEF KeptInv, OutputsStay
  <2> QED
    BY <2>1, <2>2, <2>3, Zenon DEF ReadAmpsFrom
<1>4. CASE ReadAmpCap
  <2>1. pc \in AmpPcs
    BY <1>4 DEF ReadAmpCap, AmpPcs
  <2>2. CASE UNCHANGED <<task, node, w, amp, widgets>>
    BY <2>1, <2>2 DEF KeptInv, OutputsStay
  <2>3. CASE /\ Continues(WithAmp(w, amp, DefaultAmp), amp + 1)
             /\ WithAmp(w, amp, DefaultAmp) \in Widget
    <3>1. DefaultAmp \in Amp
      BY SMT DEF DefaultAmp, Amp
    <3> QED
      BY <2>1, <2>3, <3>1, KeptFrom
  <2> QED
    BY <1>4, <2>2, <2>3, CapabilitiesAnswered
<1>5. CASE ReadAmpRight
  BY <1>5 DEF ReadAmpRight, KeptInv, AmpPcs, OutputsStay
<1>6. CASE ReadAmpLeft
  <2>1. pc \in AmpPcs
    BY <1>6 DEF ReadAmpLeft, AmpPcs
  <2> QED
    BY <1>6, <2>1, LeftRead, KeptFrom
<1> QED
  BY <1>1, <1>3, <1>4, <1>5, <1>6

(* The output amplifier in hand is the database's in every state.          *)
LEMMA KeptInvariance == Spec => []KeptInv
<1>1. Init => KeptInv
  BY SMT DEF Init, KeptInv
<1>2. IInv /\ KeptInv /\ [Next]_vars => KeptInv'
  <2> SUFFICES ASSUME IInv, KeptInv, [Next]_vars PROVE KeptInv'
    OBVIOUS
  <2>1. CASE UNCHANGED vars
    BY <2>1 DEF vars, taskVars, KeptInv
  <2>2. CASE Next /\ task = "refresh"
    BY <2>2, KeptStep
  <2>3. CASE Next /\ task # "refresh"
    <3>1. CASE task' # "refresh"
      BY <3>1 DEF KeptInv
    <3>2. CASE Refresh
      BY <3>2, SMT DEF Refresh, KeptInv, AmpPcs
    <3>3. ~Refresh => task' # "refresh"
      BY <2>3, SMT DEF Next, Step, NextNode, ReadAmpsFrom, ReadCap, ReadStreams, ReadConfig,
             ReadPins, ReadLength, ReadEntries, ReadSelection, StartAmps, StartRefresh,
             ReadAmpCap, ReadAmpRight, ReadAmpLeft, SetInputAmp, SetOutputAmp,
             ResetController, Unmute, Finished, vars, taskVars
    <3> QED
      BY <3>1, <3>2, <3>3
  <2> QED
    BY <2>1, <2>2, <2>3
<1> QED
  BY <1>1, <1>2, Invariance, PTL DEF Spec

(* A refresh (cmdRefresh, refreshWidget) that loses no response repairs    *)
(* the first sixteen input amplifiers the database has an entry for and    *)
(* every output amplifier it has as valid, whatever was lost before and    *)
(* whatever unmute wrote since, and gives none of these up. If nothing was *)
(* ever lost, the database agrees with the codec in every field.           *)
THEOREM RefreshRepairsAll == Spec => RefreshRepairs
<1>1. ASSUME IInv, IInv', Next, task = "refresh", task' = "none",
             lost' = lostBefore, NEW n \in Nodes
      PROVE  LET x == widgets'[n]
                 d == Describe(n)
             IN /\ \A i \in DOMAIN x.inputAmps : i <= Addressed => x.inputAmps[i] = d.inputAmps[i]
                /\ x.outputAmp.valid => x.outputAmp = d.outputAmp
                /\ lost' = 0 /\ Codec[n].type # "Absent" => Agrees(x, d)
  <2> DEFINE x == widgets'[n]
             d == Describe(n)
  <2>1. /\ AmpsExact(settings, x, n) /\ x \in Widget
        /\ \/ x \in {DefaultWidget(0), DefaultWidget(n)}
           \/ Scanned(x, n)
        /\ lost' = 0 /\ Codec[n].type # "Absent" => Complete(x, n)
    BY <1>1, RefreshExact
  <2>2. IsSettings(settings)
    BY <1>1 DEF IInv, Ranges
  <2>3. /\ Len(d.inputAmps) = KnownInputs(n)
        /\ \A i \in 1..KnownInputs(n) :
             i <= Addressed => d.inputAmps[i] = InputTruth(settings, n, i)
        /\ d.outputAmp = IF Codec[n].hasOut THEN OutputTruth(settings, n) ELSE DefaultAmp
    BY <2>2, Described
  <2> HIDE DEF d, x
  <2>4. lost' = 0 /\ Codec[n].type # "Absent" => Agrees(x, d)
    BY <2>1, <2>2, CompleteIsExact DEF d
  <2>5. CASE x \in {DefaultWidget(0), DefaultWidget(n)}
    <3>1. x.inputAmps = <<>> /\ ~x.outputAmp.valid
      BY <2>5, SMT DEF DefaultWidget, DefaultAmp
    <3>2. DOMAIN x.inputAmps = {}
      BY <3>1
    <3> QED
      BY <2>4, <3>1, <3>2 DEF x, d
  <2>6. CASE Scanned(x, n)
    <3>1. /\ Len(x.inputAmps) \in {KnownInputs(n), 0}
          /\ DOMAIN x.inputAmps = 1..Len(x.inputAmps)
      BY <2>1, <2>6, InputsOfScanned
    <3>2. ASSUME NEW i \in DOMAIN x.inputAmps, i <= Addressed
          PROVE  x.inputAmps[i] = d.inputAmps[i]
      <4>1. x.inputAmps[i] = InputTruth(settings, n, i)
        BY <2>1, <3>1 DEF AmpsExact
      <4>2. i \in 1..KnownInputs(n)
        BY <3>1
      <4> QED
        BY <2>3, <3>2, <4>1, <4>2
    <3>3. x.outputAmp.valid => x.outputAmp = d.outputAmp
      <4>1. ~DefaultAmp.valid
        BY SMT DEF DefaultAmp
      <4> QED
        BY <2>1, <2>3, <2>6, <4>1 DEF AmpsExact, Scanned, AmpsKnown
    <3> QED
      BY <2>4, <3>2, <3>3 DEF x, d
  <2> QED
    BY <2>1, <2>5, <2>6
<1>2. IInv /\ IInv' /\ KeptInv /\ [Next]_vars =>
        [task = "refresh" /\ lost' = lostBefore =>
           \A n \in Nodes :
             LET x == widgets'[n]
                 d == Describe(n)
             IN /\ widgets[n].outputAmp.valid => x.outputAmp.valid
                /\ task' = "none" =>
                     /\ \A i \in DOMAIN x.inputAmps :
                          i <= Addressed => x.inputAmps[i] = d.inputAmps[i]
                     /\ x.outputAmp.valid => x.outputAmp = d.outputAmp
                     /\ lost' = 0 /\ Codec[n].type # "Absent" => Agrees(x, d)]_vars
  BY <1>1, KeptStep DEF OutputsStay
<1> QED
  BY <1>2, Invariance, KeptInvariance, PTL DEF Spec, RefreshRepairs

(* An unmute (cmdUnmute) that loses no response leaves the output          *)
(* amplifier of its node unmuted, and at the 0 dB step the codec names for *)
(* it if the database has the amplifier as valid: what the database has as *)
(* valid is right, even if other responses were lost.                      *)
THEOREM UnmuteReaches == Spec => UnmuteReaches0dB
<1>1. IInv /\ [Next]_vars =>
        [task = "unmute" /\ task' = "none" /\ lost' = lostBefore =>
           LET s == settings'[node][Inputs(node)] IN
           /\ s.left < 128 /\ s.right < 128
           /\ widgets[node].outputAmp.valid => s = Both(Codec[node].outCap % 128)]_vars
  <2> SUFFICES ASSUME IInv, Next, task = "unmute", task' = "none", lost' = lostBefore
               PROVE  LET s == settings'[node][Inputs(node)] IN
                      /\ s.left < 128 /\ s.right < 128
                      /\ widgets[node].outputAmp.valid
                           => s = Both(Codec[node].outCap % 128)
    OBVIOUS
  <2>1. /\ node \in Nodes /\ Known(node) /\ gain \in 0..127 /\ gain = GainFor(widgets[node])
        /\ lost \in 0..MaxTimeouts
    BY DEF IInv, Ranges
  <2>2. SetOutputAmp
    <3>1. pc \in {"setInput", "setOutput"} /\ task # "scan" /\ task # "refresh"
      BY SMT DEF IInv, Control
    <3>2. ~ReadAmpCap /\ ~ReadAmpRight /\ ~ReadAmpLeft
      BY <3>1, SMT DEF ReadAmpCap, ReadAmpRight, ReadAmpLeft
    <3>3. ~ReadCap /\ ~ReadStreams /\ ~ReadConfig /\ ~ReadPins /\ ~ReadLength
          /\ ~ReadEntries /\ ~ReadSelection /\ ~StartAmps /\ ~StartRefresh
      BY <3>1, SMT DEF ReadCap, ReadStreams, ReadConfig, ReadPins, ReadLength,
                       ReadEntries, ReadSelection, StartAmps, StartRefresh
    <3>4. ~SetInputAmp /\ ~ResetController /\ ~Refresh /\ ~Unmute /\ ~Finished
      BY SMT DEF SetInputAmp, ResetController, Refresh, Unmute, Ready, Finished
    <3> QED
      BY <3>2, <3>3, <3>4 DEF Next, Step
  <2>3. settings'[node][Inputs(node)] = Both(gain)
    <3>1. SetAmp(Inputs(node)) /\ Inputs(node) \in Nat
      BY <2>1, <2>2, Channels0 DEF SetOutputAmp
    <3>2. Inputs(node) \in 0..Inputs(node)
      BY <3>1
    <3>3. /\ lost' \in {lost, lost + 1}
          /\ lost' = lost => settings'[node][Inputs(node)] = Both(gain)
      BY <3>1, <3>2, AmpSet
    <3>4. lost' = lost
      BY <3>3, LostGrows
    <3> QED
      BY <3>3, <3>4
  <2>4. Both(gain).left < 128 /\ Both(gain).right < 128
    BY <2>1, SMT DEF Both
  <2>5. ASSUME widgets[node].outputAmp.valid PROVE gain = Codec[node].outCap % 128
    <3>1. gain = widgets[node].outputAmp.step
      BY <2>1, <2>5 DEF GainFor
    <3>2. ~DefaultAmp.valid /\ ~DefaultWidget(0).outputAmp.valid
          /\ ~DefaultWidget(node).outputAmp.valid
      BY SMT DEF DefaultWidget, DefaultAmp
    <3>3. Scanned(widgets[node], node)
      BY <2>1, <2>5, <3>2 DEF Known
    <3>4. Capable(widgets[node].outputAmp, Codec[node].outCap)
      BY <2>5, <3>2, <3>3 DEF Scanned, AmpsKnown
    <3> QED
      BY <3>1, <3>4 DEF Capable
  <2> QED
    BY <2>3, <2>4, <2>5
<1> QED
  BY <1>1, Invariance, PTL DEF Spec, UnmuteReaches0dB
-----------------------------------------------------------------------------
(* What the node command tells a user. *)

(* Amplifier a has the gains of the setting s, or 0 for a gain that was    *)
(* not heard of.                                                           *)
Heard(a, s) == a.left \in {s.left, 0} /\ a.right \in {s.right, 0}

(* The amplifiers of x have the gains of node n under the settings s, or 0. *)
Levels(s, x, n) ==
  /\ \A i \in 1..Len(x.inputAmps) : Heard(x.inputAmps[i], s[n][Channel(i - 1)])
  /\ Heard(x.outputAmp, s[n][Inputs(n)])

(* Until the reset nothing sets an amplifier, so what the scan has heard   *)
(* of the gains is still so.                                               *)
LevelInv ==
  ~wasReset =>
    /\ \A n \in Nodes : Levels(settings, widgets[n], n)
    /\ task = "scan" /\ pc \in AmpPcs => Levels(settings, w, node)
    /\ pc = "ampRight" => reading.left = 0 /\ reading.right = 0
    /\ pc = "ampLeft" =>
         /\ reading.left = 0
         /\ reading.right \in {LevelAt(settings, w, node, amp).right, 0}

(* A widget without amplifiers says nothing of the gains.                  *)
LEMMA NoLevels ==
  ASSUME NEW n, NEW s, NEW x, x.inputAmps = <<>>, x.outputAmp = DefaultAmp
  PROVE  Levels(s, x, n)
<1>1. Len(x.inputAmps) = 0
  OBVIOUS
<1>2. \A i \in 1..Len(x.inputAmps) : FALSE
  BY <1>1
<1>3. DefaultAmp.left = 0 /\ DefaultAmp.right = 0
  BY SMT DEF DefaultAmp
<1> QED
  BY <1>2, <1>3 DEF Levels, Heard

(* The exchanges before the amplifiers.                                    *)
LEMMA LevelsKept ==
  ASSUME LevelInv, ~wasReset, UNCHANGED <<widgets, settings>>, pc' \notin AmpPcs
  PROVE  LevelInv'
  BY DEF LevelInv, AmpPcs

(* The amplifiers of x before a are read: the next one is due, or x is     *)
(* stored.                                                                 *)
LEMMA LevelsFrom ==
  ASSUME IInv, LevelInv, ~wasReset, settings' = settings,
         NEW x \in Widget, NEW a, ReadAmpsFrom(x, a), Levels(settings, x, node)
  PROVE  LevelInv'
<1>1. /\ \A n \in Nodes : Levels(settings, widgets[n], n)
      /\ node \in Nodes /\ widgets \in [Nodes -> Widget]
  BY DEF LevelInv, IInv, Ranges
<1>2. w' = x
  BY DEF ReadAmpsFrom
<1>3. CASE pc' = "ampCap" /\ UNCHANGED <<task, node, widgets>>
  BY <1>1, <1>2, <1>3 DEF LevelInv
<1>4. CASE widgets' = [widgets EXCEPT ![node] = x] /\ NextNode
  <2>1. pc' \notin AmpPcs
    BY <1>4, SMT DEF NextNode, AmpPcs
  <2>2. \A n \in Nodes : Levels(settings, widgets'[n], n)
    BY <1>1, <1>4
  <2> QED
    BY <2>1, <2>2 DEF LevelInv, AmpPcs
<1> QED
  BY <1>3, <1>4, SMT DEF ReadAmpsFrom

(* Amplifier amp of w is exchanged for v, which was heard.                  *)
LEMMA LevelsRead ==
  ASSUME IInv, pc \in AmpPcs, Levels(settings, w, node),
         NEW v \in Amp, Heard(v, LevelAt(settings, w, node, amp))
  PROVE  /\ WithAmp(w, amp, v) \in Widget
         /\ Levels(settings, WithAmp(w, amp, v), node)
<1>1. /\ Reading /\ w \in Widget /\ node \in Nodes
  BY DEF IInv, Ranges
<1>2. /\ w.inputAmps \in Seq(Amp) /\ Len(w.inputAmps) \in Nat
      /\ amp \in 0..Len(w.inputAmps) /\ amp \in Nat
  BY <1>1, AmpCountBounds DEF Reading
<1> DEFINE x == WithAmp(w, amp, v)
           n == Len(w.inputAmps)
<1>3. CASE amp < n
  <2> DEFINE amps == [w.inputAmps EXCEPT ![amp + 1] = v]
  <2>1. x = [w EXCEPT !.inputAmps = amps]
    BY <1>1, <1>3, SMT DEF WithAmp, IsInput, Widget
  <2>2. amp + 1 \in 1..n /\ (amp + 1) - 1 = amp
    BY <1>2, <1>3, SMT
  <2>3. /\ amps \in AmpLists /\ Len(amps) = n
        /\ \A i \in 1..n : amps[i] = IF i = amp + 1 THEN v ELSE w.inputAmps[i]
    BY <1>2, <2>2 DEF AmpLists
  <2> HIDE DEF amps
  <2>4. x \in Widget /\ x.inputAmps = amps /\ x.outputAmp = w.outputAmp
    BY <1>1, <2>1, <2>3, SetInputAmps
  <2> HIDE DEF x
  <2>5. Heard(v, settings[node][Channel((amp + 1) - 1)])
    BY <1>3, <2>2 DEF LevelAt
  <2> QED
    BY <2>3, <2>4, <2>5 DEF Levels, x
<1>4. CASE amp = n
  <2>1. x = [w EXCEPT !.outputAmp = v]
    BY <1>2, <1>4, SMT DEF WithAmp, IsInput
  <2>2. x \in Widget /\ x.outputAmp = v /\ x.inputAmps = w.inputAmps
    BY <1>1, <2>1, SetOutputAmpOf
  <2> HIDE DEF x
  <2>3. Heard(v, settings[node][Inputs(node)])
    BY <1>2, <1>4 DEF LevelAt
  <2> QED
    BY <2>2, <2>3 DEF Levels, x
<1> QED
  BY <1>2, <1>3, <1>4

(* The amplifiers of a node start out invalid, with gains of 0.            *)
LEMMA StartAmpsLevels ==
  ASSUME IInv, LevelInv, ~wasReset, StartAmps
  PROVE  LevelInv'
<1>1. /\ task = "scan" /\ pc = "amps" /\ pc \in ScanPcs /\ settings' = settings
  BY DEF StartAmps, ScanPcs
<1>2. /\ node \in Nodes /\ w \in Widget /\ CollectedTo(w, node, "amps", offset)
  BY <1>1, ScanTask
<1> DEFINE amps == [i \in 1..NumberOfAmps |-> DefaultAmp]
           x == [w EXCEPT !.inputAmps = amps]
<1>3. ReadAmpsFrom(x, 0)
  BY DEF StartAmps
<1>4. w.outputAmp = DefaultAmp
  BY <1>2 DEF CollectedTo
<1>5. NumberOfAmps \in Nat
  BY <1>2, SMT DEF NumberOfAmps, Widget, Lists
<1>6. amps \in AmpLists /\ \A i \in 1..Len(amps) : amps[i] = DefaultAmp
  <2>1. amps \in [1..NumberOfAmps -> Amp]
    BY <1>2, DefaultWidgets
  <2>2. amps \in Seq(Amp) /\ Len(amps) = NumberOfAmps
    BY <1>5, <2>1, FunctionIsSequence
  <2> QED
    BY <1>5, <2>2 DEF AmpLists
<1> HIDE DEF amps
<1>7. x \in Widget /\ x.inputAmps = amps /\ x.outputAmp = w.outputAmp
  BY <1>2, <1>6, SetInputAmps
<1> HIDE DEF x
<1>8. DefaultAmp.left = 0 /\ DefaultAmp.right = 0
  BY SMT DEF DefaultAmp
<1>9. Levels(settings, x, node)
  BY <1>4, <1>6, <1>7, <1>8 DEF Levels, Heard
<1> QED
  BY <1>1, <1>3, <1>7, <1>9, LevelsFrom

(* Capabilities that are heard of start a reading with gains of 0; without *)
(* them the amplifier stays at its default.                                *)
LEMMA ReadAmpCapLevels ==
  ASSUME IInv, LevelInv, ~wasReset, task = "scan", ReadAmpCap
  PROVE  LevelInv'
<1>1. pc = "ampCap" /\ pc \in AmpPcs /\ settings' = settings
  BY DEF ReadAmpCap, AmpPcs
<1>2. /\ \A n \in Nodes : Levels(settings, widgets[n], n)
      /\ Levels(settings, w, node)
  BY <1>1 DEF LevelInv
<1>3. DefaultAmp \in Amp /\ DefaultAmp.left = 0 /\ DefaultAmp.right = 0
  BY SMT DEF DefaultAmp, Amp
<1> DEFINE cap == CapAt(w, node, amp)
<1>4. CASE Continues(WithAmp(w, amp, DefaultAmp), amp + 1)
  <2>1. ReadAmpsFrom(WithAmp(w, amp, DefaultAmp), amp + 1)
    BY <1>4 DEF Continues
  <2>2. Heard(DefaultAmp, LevelAt(settings, w, node, amp))
    BY <1>3 DEF Heard
  <2>3. /\ WithAmp(w, amp, DefaultAmp) \in Widget
        /\ Levels(settings, WithAmp(w, amp, DefaultAmp), node)
    BY <1>1, <1>2, <1>3, <2>2, LevelsRead
  <2> QED
    BY <1>1, <2>1, <2>3, LevelsFrom
<1>5. CASE /\ reading' = [DefaultAmp EXCEPT !.valid = TRUE, !.step = cap % 128,
                                            !.canMute = cap >= 128]
           /\ pc' = "ampRight"
           /\ UNCHANGED <<task, node, w, amp, widgets>>
  <2>1. reading'.left = 0 /\ reading'.right = 0
    BY <1>3, <1>5, SMT DEF Amp
  <2> QED
    BY <1>1, <1>2, <1>5, <2>1 DEF LevelInv
<1> QED
  BY <1>4, <1>5, CapabilitiesAnswered

(* The right gain is heard of, or stays 0.                                 *)
LEMMA ReadAmpRightLevels ==
  ASSUME IInv, LevelInv, ~wasReset, ReadAmpRight
  PROVE  LevelInv'
<1>1. /\ pc = "ampRight" /\ pc \in AmpPcs /\ pc' = "ampLeft"
      /\ UNCHANGED <<task, node, w, amp, widgets, settings>>
  BY DEF ReadAmpRight, AmpPcs
<1>2. reading \in Amp /\ reading.left = 0 /\ reading.right = 0
  BY <1>1 DEF IInv, Ranges, LevelInv
<1> DEFINE level == LevelAt(settings, w, node, amp)
<1>3. CodecAmp(amp) = level
  BY <1>1, AmpOfCodec
<1>4. PICK r \in {level.right, NoResponse} :
        Exchange(level.right, r) /\ reading' = [reading EXCEPT !.right = ValueOr(r, @)]
  BY <1>3 DEF ReadAmpRight
<1> DEFINE v == IF Answered(r) THEN r ELSE 0
<1>5. reading' = [reading EXCEPT !.right = v]
  BY <1>2, <1>4 DEF ValueOr
<1>6. v \in {level.right, 0}
  BY <1>4 DEF Answered
<1> HIDE DEF v, level
<1>7. reading'.left = 0 /\ reading'.right = v
  BY <1>2, <1>5, SMT DEF Amp
<1> QED
  BY <1>1, <1>6, <1>7 DEF LevelInv, level, AmpPcs

(* The left gain is heard of, or stays 0, and the amplifier is done.       *)
LEMMA ReadAmpLeftLevels ==
  ASSUME IInv, LevelInv, ~wasReset, task = "scan", ReadAmpLeft
  PROVE  LevelInv'
<1>1. pc = "ampLeft" /\ pc \in AmpPcs /\ settings' = settings
  BY DEF ReadAmpLeft, AmpPcs
<1> DEFINE level == LevelAt(settings, w, node, amp)
<1>2. /\ reading \in Amp /\ reading.left = 0 /\ reading.right \in {level.right, 0}
      /\ Levels(settings, w, node)
  BY <1>1 DEF IInv, Ranges, LevelInv
<1>3. CodecAmp(amp) = level /\ level.left \in 0..255
  BY <1>1, AmpOfCodec, SMT DEF Setting
<1>4. PICK r \in {level.left, NoResponse} :
        ReadAmpsFrom(WithAmp(w, amp, [reading EXCEPT !.left = ValueOr(r, @)]), amp + 1)
  BY <1>3 DEF ReadAmpLeft
<1> HIDE DEF level
<1> DEFINE l == IF Answered(r) THEN r ELSE 0
           v == [reading EXCEPT !.left = l]
<1>5. l \in {level.left, 0} /\ l \in 0..255
  BY <1>3, <1>4 DEF Answered
<1>6. ReadAmpsFrom(WithAmp(w, amp, v), amp + 1)
  BY <1>2, <1>4 DEF ValueOr
<1> HIDE DEF l
<1>7. v \in Amp /\ v.left = l /\ v.right = reading.right
  BY <1>2, <1>5, SMT DEF Amp
<1> HIDE DEF v
<1>8. Heard(v, LevelAt(settings, w, node, amp))
  BY <1>2, <1>5, <1>7 DEF Heard, level
<1>9. /\ WithAmp(w, amp, v) \in Widget
      /\ Levels(settings, WithAmp(w, amp, v), node)
  BY <1>1, <1>2, <1>7, <1>8, LevelsRead
<1> QED
  BY <1>1, <1>6, <1>9, LevelsFrom

(* A node that does not answer is stored without amplifiers.                *)
LEMMA ReadCapLevels ==
  ASSUME IInv, LevelInv, ~wasReset, ReadCap
  PROVE  LevelInv'
<1>1. /\ node \in Nodes /\ widgets \in [Nodes -> Widget]
      /\ \A n \in Nodes : Levels(settings, widgets[n], n)
      /\ settings' = settings
  BY DEF LevelInv, IInv, Ranges, ReadCap
<1>2. widgets' \in {widgets, [widgets EXCEPT ![node] = DefaultWidget(node)]}
  BY Zenon DEF ReadCap
<1>3. Levels(settings, DefaultWidget(node), node)
  BY <1>1, DefaultWidgets, NoLevels
<1>4. \A n \in Nodes : Levels(settings, widgets'[n], n)
  BY <1>1, <1>2, <1>3
<1>5. pc' \notin AmpPcs
  <2>1. pc' \in {AfterCap, "cap", "refresh"}
    BY SMT DEF ReadCap, NextNode
  <2> QED
    BY <1>1, <2>1, AfterCapReads DEF AmpPcs
<1> QED
  BY <1>1, <1>4, <1>5 DEF LevelInv, AmpPcs

(* What the scan says of the gains before the controller is reset is so.    *)
LEMMA LevelInvariance == Spec => []LevelInv
<1>1. Init => LevelInv
  <2> SUFFICES ASSUME Init PROVE LevelInv
    OBVIOUS
  <2>1. 0 \in Nodes /\ widgets = [n \in Nodes |-> DefaultWidget(0)] /\ pc = "cap"
    BY LastNodeAssumption DEF Init, Nodes
  <2>2. \A n \in Nodes : Levels(settings, widgets[n], n)
    BY <2>1, DefaultWidgets, NoLevels
  <2> QED
    BY <2>1, <2>2 DEF LevelInv, AmpPcs
<1>2. IInv /\ LevelInv /\ [Next]_vars => LevelInv'
  <2> SUFFICES ASSUME IInv, LevelInv, [Next]_vars, ~wasReset' PROVE LevelInv'
    BY DEF LevelInv
  <2>1. ~wasReset
    BY Zenon DEF Next, Step, Unchanged, ReadCap, ReadStreams, ReadConfig, ReadPins,
             ReadLength, ReadEntries, ReadSelection, StartAmps, StartRefresh, ReadAmpCap,
             ReadAmpRight, ReadAmpLeft, SetInputAmp, SetOutputAmp, ResetController, Refresh,
             Unmute, Finished, vars
  <2>2. task \notin {"refresh", "unmute"} /\ (pc \in AmpPcs => task = "scan")
    BY <2>1, InAmps DEF IInv, Control
  <2>3. CASE ReadCap
    BY <2>1, <2>3, ReadCapLevels
  <2>4. CASE ReadStreams \/ ReadConfig \/ ReadPins
    <3>1. pc' \in {"length", "amps", "pins"} /\ UNCHANGED <<widgets, settings>>
      BY <2>4 DEF ReadStreams, ReadConfig, ReadPins, AfterPins
    <3> QED
      BY <2>1, <3>1, LevelsKept DEF AmpPcs
  <2>5. CASE ReadLength \/ ReadEntries \/ ReadSelection
    <3>1. pc' \in {"entries", "selection", "amps"} /\ UNCHANGED <<widgets, settings>>
      BY <2>5, SMT DEF ReadLength, ReadEntries, ReadSelection, AfterList
    <3> QED
      BY <2>1, <3>1, LevelsKept DEF AmpPcs
  <2>6. CASE StartAmps
    BY <2>1, <2>6, StartAmpsLevels
  <2>7. CASE ReadAmpCap
    BY <2>1, <2>2, <2>7, ReadAmpCapLevels DEF ReadAmpCap, AmpPcs
  <2>8. CASE ReadAmpRight
    BY <2>1, <2>8, ReadAmpRightLevels
  <2>9. CASE ReadAmpLeft
    BY <2>1, <2>2, <2>9, ReadAmpLeftLevels DEF ReadAmpLeft, AmpPcs
  <2>10. CASE StartRefresh \/ SetInputAmp \/ SetOutputAmp
    BY <2>2, <2>10 DEF StartRefresh, SetInputAmp, SetOutputAmp
  <2>11. CASE ResetController
    BY <2>11 DEF ResetController
  <2>12. CASE Refresh \/ Unmute
    BY <2>1, <2>12 DEF Refresh, Unmute, Ready
  <2>13. CASE Finished \/ UNCHANGED vars
    BY <2>13 DEF Finished, vars, taskVars, LevelInv
  <2> QED
    BY <2>3, <2>4, <2>5, <2>6, <2>7, <2>8, <2>9, <2>10, <2>11, <2>12, <2>13 DEF Next, Step
<1> QED
  BY <1>1, <1>2, Invariance, PTL DEF Spec

(* What fact f tells of node n is true, or is not known, as NodeShows says. *)
Told(n, f) == \/ TrueOf(n, f)
              \/ f \in Unnamed
              \/ Misprinted(n, f)
              \/ lost > 0 /\ Placeholder(f)
              \/ wasReset /\ f[1] \in {"input", "output"}
              \/ f[1] = "input" /\ f[2] >= Addressed

(* What a widget of the database says when no task is running.             *)
Sound(x, n) ==
  /\ x \in Widget /\ Scanned(x, n)
  /\ lost = 0 => RegistersExact(x, n)
  /\ ~wasReset => Levels(settings, x, n)
  /\ ~wasReset /\ lost = 0 => AmpsExact(settings, x, n)

(* What the database has of one amplifier with setting s.                  *)
SoundAmp(a, cap, s) ==
  /\ cap \in 0..NoCap /\ s \in Setting /\ a \in Amp
  /\ a = DefaultAmp \/ Capable(a, cap)
  /\ ~wasReset => Heard(a, s)
  /\ ~wasReset /\ lost = 0 => a = TrueAmp(cap, s) \/ a = DefaultAmp

(* The facts of an amplifier that is read: one for each side.              *)
LEMMA AmpTold ==
  ASSUME NEW part, NEW channel, NEW cap, NEW s, NEW a, NEW f,
         f \in dumpAmp(part, channel, a), SoundAmp(a, cap, s), lost \in Nat
  PROVE  /\ f[1] = part /\ f[2] = channel
         /\ ~wasReset => \/ ShownLevel(cap, s, f)
                         \/ lost > 0 /\ f[4] = 0 /\ f[5] # "MUTED"
<1> USE DEF SoundAmp
<1>1. ~DefaultAmp.valid
  BY SMT DEF DefaultAmp
<1>2. a.valid /\ Capable(a, cap)
  BY <1>1 DEF dumpAmp
<1> DEFINE told(side) ==
      <<part, channel, side, a[side] % 128,
        CASE ~a.canMute                    -> "noMute"
          [] a.canMute /\ a[side] >= 128   -> "MUTED"
          [] a.canMute /\ a[side] < 128    -> "unmuted">>
<1>3. PICK side \in {"left", "right"} : f = told(side)
  BY <1>2, Zenon DEF dumpAmp
<1>4. a[side] \in 0..255 /\ s[side] \in 0..255
  BY <1>3, SMT DEF Amp, Setting
<1> DEFINE mute == CASE ~a.canMute                    -> "noMute"
                     [] a.canMute /\ a[side] >= 128   -> "MUTED"
                     [] a.canMute /\ a[side] < 128    -> "unmuted"
<1>5. /\ f[1] = part /\ f[2] = channel /\ f[3] = side /\ f[4] = a[side] % 128
      /\ f[5] = mute
  BY <1>3
<1>6. cap # NoCap /\ cap \in Int /\ (a.canMute <=> cap >= 128)
  <2>1. a.canMute = (cap >= 128) /\ cap # NoCap
    BY <1>2 DEF Capable
  <2>2. a.canMute <=> cap >= 128
    BY <2>1, Zenon
  <2> QED
    BY <2>1, <2>2 DEF NoCap
<1>7. CASE a[side] = s[side]
  <2>1. mute = IF cap < 128 THEN "noMute" ELSE IF s[side] < 128 THEN "unmuted" ELSE "MUTED"
    <3>1. CASE cap < 128
      BY <1>6, <3>1
    <3>2. CASE cap >= 128 /\ a[side] < 128
      BY <1>4, <1>6, <1>7, <3>2
    <3>3. CASE cap >= 128 /\ a[side] >= 128
      BY <1>4, <1>6, <1>7, <3>3
    <3> QED
      BY <1>4, <3>1, <3>2, <3>3
  <2> QED
    BY <1>5, <1>6, <1>7, <2>1 DEF ShownLevel
<1>8. CASE a[side] = 0 /\ lost > 0
  <2>1. mute # "MUTED"
    BY <1>4, <1>6, <1>8, SMT
  <2> QED
    BY <1>5, <1>8, <2>1
<1>9. ~wasReset => a[side] = s[side] \/ (a[side] = 0 /\ lost > 0)
  <2> SUFFICES ASSUME ~wasReset PROVE a[side] = s[side] \/ (a[side] = 0 /\ lost > 0)
    OBVIOUS
  <2>1. CASE lost = 0
    <3>1. a = TrueAmp(cap, s)
      BY <1>1, <1>2, <2>1
    <3> QED
      BY <1>3, <1>6, <3>1, SMT DEF TrueAmp
  <2>2. CASE lost > 0
    BY <1>3, <2>2 DEF Heard
  <2> QED
    BY <2>1, <2>2
<1> QED
  BY <1>5, <1>7, <1>8, <1>9

(* The input amplifiers.                                                   *)
LEMMA InputAmpsTold ==
  ASSUME NEW n \in Nodes, NEW x, Sound(x, n), lost \in Nat, IsSettings(settings),
         NEW f \in InputAmps(x)
  PROVE  Told(n, f)
<1>1. /\ x \in Widget /\ Scanned(x, n) /\ Codec[n].inCap \in 0..NoCap
      /\ Len(x.inputAmps) \in Nat /\ Len(x.inputAmps) <= Inputs(n) /\ Inputs(n) \in Nat
      /\ x.inputAmps \in Seq(Amp)
  BY NodeRegisters, AmpCountBounds, Channels0 DEF Sound
<1>2. x.hasIn /\ Codec[n].hasIn
  BY <1>1 DEF InputAmps, Scanned, Identity
<1>3. CASE f = <<"inputAmps">>
  BY <1>2, <1>3, SMT DEF Told, TrueOf
<1>4. CASE f # <<"inputAmps">>
  <2>1. PICK i \in DOMAIN x.inputAmps : f \in dumpAmp("input", i - 1, x.inputAmps[i])
    BY <1>2, <1>4 DEF InputAmps
  <2>2. i \in 1..Len(x.inputAmps) /\ i - 1 \in Nat /\ Channel(i - 1) \in 0..Inputs(n)
    <3>1. i \in 1..Len(x.inputAmps) /\ i - 1 \in Nat /\ i - 1 <= Inputs(n)
      BY <1>1, <2>1
    <3>2. Channel(i - 1) \in Nat /\ Channel(i - 1) <= i - 1
      BY <3>1, ChannelBounds
    <3> QED
      BY <1>1, <3>1, <3>2
  <2> DEFINE a == x.inputAmps[i]
             c == i - 1
             s == settings[n][Channel(c)]
             cap == Codec[n].inCap
  <2>3. a \in Amp /\ (a = DefaultAmp \/ Capable(a, cap))
    BY <1>1, <2>2, EachOfSeq DEF Scanned, AmpsKnown
  <2>4. s \in Setting
    BY <2>2, TruthOfAmps
  <2>5. /\ ~wasReset => Heard(a, s)
        /\ ~wasReset /\ lost = 0 => a = TrueAmp(cap, s)
    BY <2>2 DEF Sound, Levels, AmpsExact, InputTruth
  <2> HIDE DEF a, c, s, cap
  <2>6. f \in dumpAmp("input", c, a) /\ SoundAmp(a, cap, s)
    <3>1. f \in dumpAmp("input", c, a) /\ cap \in 0..NoCap
      BY <1>1, <2>1 DEF a, c, cap
    <3> QED
      BY <2>3, <2>4, <2>5, <3>1 DEF SoundAmp
  <2>7. /\ f[1] = "input" /\ f[2] = c
        /\ ~wasReset => \/ ShownLevel(cap, s, f)
                        \/ lost > 0 /\ f[4] = 0 /\ f[5] # "MUTED"
    BY <2>6, AmpTold
  <2>8. c < Addressed /\ ShownLevel(cap, s, f) => TrueOf(n, f)
    <3>1. c < Addressed => s = settings[n][c]
      BY <2>2, ChannelBounds DEF c, s, Addressed
    <3> QED
      BY <2>7, <3>1, SMT DEF TrueOf, cap
  <2>9. c < Addressed \/ c >= Addressed
    BY <2>2 DEF c, Addressed
  <2> QED
    BY <2>7, <2>8, <2>9 DEF Told, Placeholder
<1> QED
  BY <1>3, <1>4

(* The output amplifier.                                                   *)
LEMMA OutputAmpTold ==
  ASSUME NEW n \in Nodes, NEW x, Sound(x, n), lost \in Nat, IsSettings(settings),
         NEW f \in OutputAmp(x)
  PROVE  Told(n, f)
<1>1. /\ x \in Widget /\ Scanned(x, n) /\ Codec[n].outCap \in 0..NoCap
  BY NodeRegisters DEF Sound
<1>2. x.hasOut /\ Codec[n].hasOut
  BY <1>1 DEF OutputAmp, Scanned, Identity
<1>3. CASE f = <<"outputAmp">>
  BY <1>2, <1>3, SMT DEF Told, TrueOf
<1>4. CASE f # <<"outputAmp">>
  <2> DEFINE a == x.outputAmp
             s == settings[n][Inputs(n)]
             cap == Codec[n].outCap
  <2>1. f \in dumpAmp("output", 0, a)
    BY <1>2, <1>4 DEF OutputAmp
  <2>2. a \in Amp /\ (a = DefaultAmp \/ Capable(a, cap))
    BY <1>1, SMT DEF Scanned, AmpsKnown, Widget
  <2>3. s \in Setting
    <3>1. Inputs(n) \in 0..Inputs(n)
      BY Channels0
    <3> QED
      BY <3>1, TruthOfAmps
  <2>4. /\ ~wasReset => Heard(a, s)
        /\ ~wasReset /\ lost = 0 => a = TrueAmp(cap, s) \/ a = DefaultAmp
    BY DEF Sound, Levels, AmpsExact, OutputTruth
  <2> HIDE DEF a, s, cap
  <2>5. SoundAmp(a, cap, s)
    <3>1. cap \in 0..NoCap
      BY <1>1 DEF cap
    <3> QED
      BY <2>2, <2>3, <2>4, <3>1 DEF SoundAmp
  <2>6. /\ f[1] = "output"
        /\ ~wasReset => \/ ShownLevel(cap, s, f)
                        \/ lost > 0 /\ f[4] = 0 /\ f[5] # "MUTED"
    BY <2>1, <2>5, AmpTold
  <2>7. ShownLevel(cap, s, f) => TrueOf(n, f)
    BY <2>6, SMT DEF TrueOf, s, cap
  <2> QED
    BY <2>6, <2>7 DEF Told, Placeholder
<1> QED
  BY <1>3, <1>4

(* The entries of the connection list are those of the codec, or 0.        *)
LEMMA ListRead ==
  ASSUME NEW n \in Nodes, NEW x, Sound(x, n), lost \in Nat, NEW i \in DOMAIN x.list
  PROVE  /\ x.list[i] = Truth(n, i) \/ (lost > 0 /\ x.list[i] = 0)
         /\ Codec[n].hasList /\ Codec[n].entries # <<>>
<1>1. /\ x.list \in Seq(0..127) /\ Codec[n].entries \in Seq(0..255)
      /\ Registers(x, n) /\ (lost = 0 => x.list = KnownList(n))
  BY NodeRegisters, SMT DEF Sound, Scanned, RegistersExact, Widget, Lists
<1>2. i \in 1..Len(x.list) /\ x.list # <<>> /\ Len(x.list) # 0
  BY <1>1
<1>3. /\ Codec[n].hasList /\ ~Codec[n].long
      /\ Len(x.list) = Len(Codec[n].entries)
      /\ x.list[i] \in {Truth(n, i), 0}
  BY <1>1, <1>2, SMT DEF Registers
<1>4. Codec[n].entries # <<>>
  BY <1>2, <1>3
<1>5. lost = 0 => x.list[i] = Truth(n, i)
  BY <1>1, <1>2, <1>3, ListKnown
<1> QED
  BY <1>3, <1>4, <1>5

(* The connections, in the order of the list.                              *)
LEMMA ConnectionsTold ==
  ASSUME NEW n \in Nodes, NEW x, Sound(x, n), lost \in Nat, NEW f \in Connections(x)
  PROVE  Told(n, f)
<1>1. PICK i \in DOMAIN x.list : f = <<"connection", i, x.list[i]>>
  BY DEF Connections
<1>2. f[1] = "connection" /\ f[2] = i /\ f[3] = x.list[i]
  BY <1>1
<1>3. f[3] = Truth(n, i) => TrueOf(n, f)
  BY <1>2, SMT DEF TrueOf, Truth
<1> QED
  BY <1>2, <1>3, ListRead DEF Told, Placeholder

(* The selected connection counts from 0, and the facts from 1.            *)
LEMMA SelectedTold ==
  ASSUME NEW n \in Nodes, NEW x, Sound(x, n), lost \in Nat, x.type = "PinComplex",
         NEW f \in Selected(x)
  PROVE  Told(n, f)
<1>1. PICK i \in DOMAIN x.list : i = x.selection + 1 /\ f = <<"selected", i, x.list[i]>>
  BY DEF Selected
<1>2. f[1] = "selected" /\ f[2] = i /\ f[3] = x.list[i]
  BY <1>1
<1>3. Selection(n) = Codec[n].selection
  <2>1. Codec[n].type # "Mixer"
    BY SMT DEF Sound, Scanned, Identity, TypeOf, Types
  <2> QED
    BY <2>1, ListRead DEF Selection
<1>4. x.selection = Codec[n].selection \/ (lost > 0 /\ x.selection = 0)
  BY <1>3 DEF Sound, Scanned, Registers, RegistersExact
<1>5. CASE f[2] = 1 /\ lost > 0
  BY <1>2, <1>5 DEF Told, Placeholder
<1>6. CASE f[3] = 0 /\ lost > 0
  BY <1>2, <1>6 DEF Told, Placeholder
<1>7. CASE f[2] = Codec[n].selection + 1 /\ f[3] = Truth(n, i)
  <2>1. TrueOf(n, f)
    BY <1>2, <1>7, SMT DEF TrueOf, Truth
  <2> QED
    BY <2>1 DEF Told
<1> QED
  BY <1>1, <1>2, <1>4, <1>5, <1>6, <1>7, ListRead

(* Each bit of the stream register has its rate, as far as 96000 samples,  *)
(* or its width.                                                           *)
LEMMA StreamsTold ==
  ASSUME NEW n \in Nodes, NEW x, Sound(x, n), NEW f \in dumpSupportedStreams(x.streams)
  PROVE  Told(n, f)
<1>1. x.streams \subseteq Codec[n].streams
  BY DEF Sound, Scanned, Registers, Streams
<1>2. CASE \E b \in x.streams \cap 0..11 : f = <<"sps", Rates[b + 1]>>
  <2>1. PICK b \in x.streams \cap 0..11 : f = <<"sps", Rates[b + 1]>>
    BY <1>2
  <2>2. CASE b \in 9..11
    BY <1>1, <2>1, <2>2 DEF Told, Misprinted
  <2>3. CASE b \in 0..8
    <3>1. Rates[b + 1] = SampleHz[b + 1]
      BY <2>3, SMT DEF Rates, SampleHz
    <3>2. f[1] = "sps" /\ f[2] = SampleHz[b + 1] /\ b \in Codec[n].streams \cap 0..11
      BY <1>1, <2>1, <3>1
    <3>3. TrueOf(n, f)
      BY <3>2, SMT DEF TrueOf
    <3> QED
      BY <3>3 DEF Told
  <2> QED
    BY <2>1, <2>2, <2>3
<1>3. CASE \E b \in x.streams \cap 16..20 : f = <<"bits", Widths[b - 15]>>
  <2>1. PICK b \in x.streams \cap 16..20 : f = <<"bits", Widths[b - 15]>>
    BY <1>3
  <2>2. Widths[b - 15] = SampleBits(b)
    BY <2>1, SMT DEF Widths, SampleBits
  <2>3. f[1] = "bits" /\ f[2] = SampleBits(b) /\ b \in Codec[n].streams \cap 16..20
    BY <1>1, <2>1, <2>2
  <2>4. TrueOf(n, f)
    BY <2>3, SMT DEF TrueOf
  <2> QED
    BY <2>4 DEF Told
<1> QED
  BY <1>2, <1>3, Zenon DEF dumpSupportedStreams

(* A colour code up to the first reserved one has its own name.            *)
LEMMA ColourNamed ==
  ASSUME NEW code \in 0..10
  PROVE  ColourNames[code + 1] = TrueColour(code)
  BY SMT DEF ColourNames, TrueColour

(* The function of a pin and the place and colour of its jack.             *)
LEMMA JackTold ==
  ASSUME NEW n \in Nodes, NEW x, Sound(x, n), lost \in Nat, x.type = "PinComplex",
         NEW f \in dumpJackInfo(x) \cup {<<"function", x.device>>}
  PROVE  Told(n, f)
<1>1. IsPin(n) /\ Codec[n].config \in Config
  BY NodeRegisters, SMT DEF Sound, Scanned, Identity, TypeOf, Types, IsPin
<1>2. /\ x.device \in {Codec[n].config.device, "Unknown"}
      /\ x.location \in {Codec[n].config.location, "Unknown"}
      /\ x.colour = Codec[n].config.colour \/ (lost > 0 /\ x.colour = 0)
  BY <1>1 DEF Sound, Scanned, Registers, RegistersExact, ConfigExact, Device, Location, Colour
<1>3. CASE f = <<"function", x.device>>
  <2>1. CASE x.device = Codec[n].config.device
    BY <1>3, <2>1, SMT DEF Told, TrueOf
  <2>2. CASE x.device = "Unknown"
    BY <1>3, <2>2, SMT DEF Told, Unnamed
  <2> QED
    BY <1>2, <2>1, <2>2
<1>4. CASE f = <<"location", x.location>>
  <2>1. CASE x.location = Codec[n].config.location
    BY <1>4, <2>1, SMT DEF Told, TrueOf
  <2>2. CASE x.location = "Unknown"
    BY <1>4, <2>2, SMT DEF Told, Unnamed
  <2> QED
    BY <1>2, <2>1, <2>2
<1>5. CASE f = <<"colour", ColourNames[x.colour + 1]>>
  <2>1. CASE lost > 0 /\ x.colour = 0
    <3>1. ColourNames[0 + 1] = "Unknown"
      BY SMT DEF ColourNames
    <3> QED
      BY <1>5, <2>1, <3>1 DEF Told, Placeholder
  <2>2. CASE x.colour = Codec[n].config.colour
    <3>1. Codec[n].config.colour \in 0..15
      BY <1>1, ConfigFields
    <3>2. CASE Codec[n].config.colour \in 0..10
      <4>1. ColourNames[x.colour + 1] = TrueColour(Codec[n].config.colour)
        BY <2>2, <3>2, ColourNamed
      <4> QED
        BY <1>5, <4>1, SMT DEF Told, TrueOf
    <3>3. CASE Codec[n].config.colour > 10
      BY <1>5, <3>3, SMT DEF Told, Misprinted
    <3> QED
      BY <3>1, <3>2, <3>3
  <2> QED
    BY <1>2, <2>1, <2>2
<1> QED
  BY <1>3, <1>4, <1>5 DEF dumpJackInfo

(* The flags of a pin.                                                     *)
LEMMA FlagsTold ==
  ASSUME NEW n \in Nodes, NEW x, Sound(x, n), NEW f \in PinFlags(x)
  PROVE  Told(n, f)
<1>1. /\ x.headphone => 3 \in Codec[n].pins
      /\ x.inputPin => 5 \in Codec[n].pins
      /\ x.outputPin => 4 \in Codec[n].pins
  BY DEF Sound, Scanned, Registers, FlagsExact, Flag
<1>2. CASE f = <<"headphone">> /\ x.headphone
  BY <1>1, <1>2, SMT DEF Told, TrueOf
<1>3. CASE f = <<"inputPin">> /\ x.inputPin
  BY <1>1, <1>3, SMT DEF Told, TrueOf
<1>4. CASE f = <<"outputPin">> /\ x.outputPin
  BY <1>1, <1>4, SMT DEF Told, TrueOf
<1> QED
  BY <1>2, <1>3, <1>4, Zenon DEF PinFlags

(* Every fact of a widget that was scanned.                                *)
LEMMA SoundTold ==
  ASSUME NEW n \in Nodes, NEW x, Sound(x, n), lost \in Nat, IsSettings(settings),
         NEW f \in dump(x)
  PROVE  Told(n, f)
<1>1. /\ x.id = n /\ x.type = TypeOf(n) /\ x.digital = Codec[n].digital
  BY DEF Sound, Scanned, Identity
<1>2. CASE f = <<"ID", x.id>>
  BY <1>1, <1>2, SMT DEF Told, TrueOf
<1>3. CASE f = <<"type", x.type>>
  BY <1>1, <1>3, SMT DEF Told, TrueOf, TypeOf, Unnamed
<1>4. CASE f = <<"digital">> /\ x.digital
  BY <1>1, <1>4, SMT DEF Told, TrueOf
<1>5. CASE x.type \in {"Input", "Output"} /\ f \in dumpConverter(x)
  BY <1>5, InputAmpsTold, OutputAmpTold, ConnectionsTold, StreamsTold DEF dumpConverter
<1>6. CASE x.type = "Mixer" /\ f \in dumpMixer(x)
  BY <1>6, InputAmpsTold, OutputAmpTold, ConnectionsTold DEF dumpMixer
<1>7. CASE x.type = "PinComplex" /\ f \in dumpPinComplex(x)
  BY <1>7, JackTold, FlagsTold, ConnectionsTold, SelectedTold DEF dumpPinComplex
<1> QED
  BY <1>2, <1>3, <1>4, <1>5, <1>6, <1>7, SMT DEF dump

(* After the scan, and until the controller is reset, the database has the *)
(* gains that the codec has, or 0 for a gain that was not heard of; its    *)
(* registers it has at any time. So the node command tells nothing false,  *)
(* and without a lost response it tells nothing that is only a default.    *)
THEOREM DumpShowsTruth == Spec => []NodeShows
<1>1. IInv /\ LevelInv => NodeShows
  <2> SUFFICES ASSUME IInv, LevelInv, task = "none",
                      NEW n \in Nodes, widgets[n] # DefaultWidget(0),
                      NEW f \in dump(widgets[n])
               PROVE  Told(n, f)
    BY DEF NodeShows, Told
  <2> DEFINE x == widgets[n]
  <2>1. /\ x \in Widget /\ IsSettings(settings) /\ lost \in Nat /\ Known(n) /\ Control
    BY BoundsAssumption DEF IInv, Ranges
  <2>2. CASE Scanned(x, n)
    <3>1. lost = 0 => RegistersExact(x, n)
      BY <2>1, <2>2, SMT DEF Known, Complete, Scanned, Identity
    <3>2. ~wasReset => Levels(settings, x, n)
      BY DEF LevelInv
    <3>3. ~wasReset /\ lost = 0 => AmpsExact(settings, x, n)
      BY <2>1, SMT DEF Known, Fresh, Control
    <3>4. Sound(x, n)
      BY <2>1, <2>2, <3>1, <3>2, <3>3 DEF Sound
    <3> QED
      BY <2>1, <3>4, SoundTold
  <2>3. CASE x = DefaultWidget(n)
    <3>1. x.id = n /\ x.type = "Unknown" /\ ~x.digital
      BY <2>3, SMT DEF DefaultWidget
    <3> HIDE DEF x
    <3>2. f \in dump(x)
      BY DEF x
    <3>3. f \in {<<"ID", n>>, <<"type", "Unknown">>}
      BY <3>1, <3>2, SMT DEF dump
    <3>4. CASE f = <<"ID", n>>
      BY <3>4, SMT DEF Told, TrueOf
    <3>5. CASE f = <<"type", "Unknown">>
      BY <3>5, SMT DEF Told, Unnamed
    <3> QED
      BY <3>3, <3>4, <3>5
  <2> QED
    BY <2>1, <2>2, <2>3 DEF Known
<1> QED
  BY <1>1, Invariance, LevelInvariance, PTL
=============================================================================
