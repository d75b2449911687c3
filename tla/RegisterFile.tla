---------------------------- MODULE RegisterFile ----------------------------
(***************************************************************************)
(* Two ways to the same registers of the controller: by name, through the  *)
(* table regs and getReg, which the driver and the console commands "read" *)
(* and "write" take; and by the stream's base address and an offset, which *)
(* the outputStream functions and getPlayPos take. The other modules name  *)
(* registers and rely on names that reach registers of their own.          *)
(*                                                                         *)
(* The controller is storage here, a byte at each offset: which bytes an   *)
(* access reaches is the program's, what a write makes the controller do   *)
(* is the subject of StreamControl and ImmediateCommand. A value is the    *)
(* tuple of its bytes, the lowest first.                                   *)
(***************************************************************************)
EXTENDS Integers, Sequences, FiniteSetsExt

CONSTANTS
  InputStreams,      \* the numbers of input streams a controller may have
  Abbreviations,     \* words given to "write" that are no register's name
  Values,            \* values written, eight bytes
  Positions,         \* positions in the buffer, four bytes
  DescriptorBuffer,  \* m_descriptorBuffer, four bytes
  PositionBuffer,    \* m_dmaPositionBuffer, four bytes
  Verbs,             \* what sendVerb is given: node, verb and payload
  MaxAccesses        \* bound on the accesses

Byte == 0..255

ASSUME StreamsAssumption == InputStreams \subseteq 0..15
ASSUME ValuesAssumption ==
  /\ Values \subseteq [1..8 -> Byte]
  /\ Positions \cup {DescriptorBuffer, PositionBuffer} \subseteq [1..4 -> Byte]
  /\ PositionBuffer[1] = 0
ASSUME VerbsAssumption == Verbs \subseteq [node : Nat, verb : Nat, payload : Nat]
ASSUME MaxAssumption == MaxAccesses \in Nat

VARIABLES
  numIn,               \* the controller: its input streams
  memory,              \* the registers, by offset
  m_inputDescriptor,
  m_outputDescriptor,
  written,             \* history: what each register was given last, by name
  position,            \* history: where the controller is in the buffer
  asked,               \* history: what sendVerb was given last
  accesses

vars == <<numIn, memory, m_inputDescriptor, m_outputDescriptor, written, position,
          asked, accesses>>

(* Faulty: every register is accessed with 32 bits.                        *)
RegOf32Bits(offset, width, name) == [offset |-> offset, width |-> 4, name |-> name]

Reg(offset, width, name) == [offset |-> offset, width |-> width, name |-> name]

regs == <<
  Reg(\h00, 2, "gcap"), Reg(\h02, 1, "vmin"), Reg(\h03, 1, "vmax"), Reg(\h04, 2, "outpay"),
  Reg(\h08, 4, "gctl"), Reg(\h0C, 2, "wakeen"), Reg(\h0E, 2, "statests"), Reg(\h10, 2, "gsts"),
  Reg(\h18, 2, "outstrmpay"), Reg(\h1A, 2, "instrmpay"),
  Reg(\h20, 4, "intctl"), Reg(\h24, 4, "intsts"), Reg(\h30, 4, "wallclock"), Reg(\h38, 4, "ssync"),
  Reg(\h40, 4, "corblbase"), Reg(\h44, 4, "corbubase"), Reg(\h48, 2, "corbwp"), Reg(\h4A, 2, "corbrp"),
  Reg(\h4C, 1, "corbctl"), Reg(\h4D, 1, "corbsts"), Reg(\h4E, 1, "corbsize"),
  Reg(\h50, 4, "rirblbase"), Reg(\h54, 4, "rirbubase"), Reg(\h58, 2, "rirbwp"), Reg(\h5A, 2, "rintcnt"),
  Reg(\h5C, 1, "rirbctl"), Reg(\h5D, 1, "rirbsts"), Reg(\h5E, 1, "rirbsize"),
  Reg(\h70, 4, "dplbase"), Reg(\h74, 4, "dpubase"),
  Reg(\h80, 4, "sdnctl"), Reg(\h83, 1, "sdnsts"), Reg(\h84, 4, "sdnlpib"), Reg(\h88, 4, "sdncbl"),
  Reg(\h8C, 4, "sdnlvi"), Reg(\h90, 2, "sdnfifos"), Reg(\h92, 2, "sdnfmt"),
  Reg(\h98, 4, "sdnbdpl"), Reg(\h9C, 2, "sdnbdpu"),
  Reg(\h60, 4, "icw"), Reg(\h64, 4, "irr"), Reg(\h68, 2, "ics"),
  Reg(\h100, 4, "osdnctl"), Reg(\h103, 1, "osdnsts"), Reg(\h104, 4, "osdnlpib"), Reg(\h108, 4, "osdncbl"),
  Reg(\h10C, 4, "osdnlvi"), Reg(\h110, 2, "osdnfifos"), Reg(\h112, 2, "osdnfmt"),
  Reg(\h118, 4, "osdnbdpl"), Reg(\h11C, 2, "osdnbdpu") >>

Names == {regs[i].name : i \in DOMAIN regs}
-----------------------------------------------------------------------------
(* strncmp(string_view, char* ): the word is the beginning of the name.      *)
Matches(word, name) == Len(word) <= Len(name) /\ SubSeq(name, 1, Len(word)) = word

(* No name of the table is the beginning of another.                       *)
ASSUME TableAssumption ==
  \A i, j \in DOMAIN regs : Matches(regs[i].name, regs[j].name) <=> i = j

(* std::nullopt: nothing to read, nowhere to write.                        *)
NoReg == [offset |-> 0, width |-> 0, name |-> ""]

(* The first entry that matches.                                           *)
getReg(word) ==
  LET found == {i \in DOMAIN regs : Matches(word, regs[i].name)}
  IN IF found = {} THEN NoReg ELSE regs[Min(found)]

ReadBytes(mem, offset, width) == [i \in 1..width |-> mem[offset + i - 1]]

readReg(mem, word) == ReadBytes(mem, getReg(word).offset, getReg(word).width)

(* write8, write16 and write32, by the number of bytes.                    *)
Write(mem, offset, bytes) ==
  [o \in DOMAIN mem |-> IF o - offset + 1 \in DOMAIN bytes
                        THEN bytes[o - offset + 1] ELSE mem[o]]

writeReg(mem, word, v) ==
  Write(mem, getReg(word).offset, SubSeq(v, 1, getReg(word).width))
-----------------------------------------------------------------------------
(* The history: what is meant, without the table's offsets and order.      *)

Unknown == <<>>

(* The registers of a stream that are written, by their distance from its  *)
(* descriptor; only the first and the fifth stream have names for them.    *)
Fields == {0, 4, 8, 12, 18, 24, 28}

Stream(s) == \h80 + \h20 * s

StreamName(s, f) ==
  CASE s = 0 /\ f = 0  -> {"sdnctl"}    [] s = 4 /\ f = 0  -> {"osdnctl"}
    [] s = 0 /\ f = 4  -> {"sdnlpib"}   [] s = 4 /\ f = 4  -> {"osdnlpib"}
    [] s = 0 /\ f = 8  -> {"sdncbl"}    [] s = 4 /\ f = 8  -> {"osdncbl"}
    [] s = 0 /\ f = 12 -> {"sdnlvi"}    [] s = 4 /\ f = 12 -> {"osdnlvi"}
    [] s = 0 /\ f = 18 -> {"sdnfmt"}    [] s = 4 /\ f = 18 -> {"osdnfmt"}
    [] s = 0 /\ f = 24 -> {"sdnbdpl"}   [] s = 4 /\ f = 24 -> {"osdnbdpl"}
    [] s = 0 /\ f = 28 -> {"sdnbdpu"}   [] s = 4 /\ f = 28 -> {"osdnbdpu"}
    [] OTHER -> {}

(* The last byte of the control has a name of its own.                     *)
Halves == {{"sdnctl", "sdnsts"}, {"osdnctl", "osdnsts"}}

Overlaps(n, m) == n # m /\ {n, m} \in Halves

(* A word that is no name is taken to mean any name it may stand for.      *)
Meant(word) == {n \in Names : Matches(word, n)}

(* One of names was written v; nothing is known of registers that share    *)
(* bytes with it, nor of any of the names if they are several.             *)
Remember(given, names, v) ==
  [n \in Names |->
     IF n \in names /\ \A m \in names : m = n THEN v
     ELSE IF n \in names \/ \E m \in names : Overlaps(n, m) THEN Unknown
     ELSE given[n]]
-----------------------------------------------------------------------------
(* Faulty: the output streams are taken to come first.                     *)
OutputDescriptorFirst == Stream(0)

(* Bits 8 to 11 of GCAP, read by reset, are the number of input streams.   *)
OutputDescriptor == \h80 + \h20 * (readReg(memory, "gcap")[2] % 16)

(* Accesses begin where reset has found the stream descriptors.            *)
Init == /\ numIn \in InputStreams
        /\ memory = [o \in 0..(Stream(16) - 1) |-> IF o = 1 THEN 64 + numIn ELSE 0]
        /\ m_inputDescriptor = \h80
        /\ m_outputDescriptor = OutputDescriptor
        /\ written = [n \in Names |-> Unknown]
        /\ position = Unknown
        /\ asked = Unknown
        /\ accesses = 0

(* The driver's own writes by name, and the command "write".               *)
WriteByName(word, v) ==
  /\ memory' = writeReg(memory, word, v)
  /\ written' = Remember(written, Meant(word), v)
  /\ position' = IF Meant(word) \cap StreamName(numIn, 4) = {} THEN position ELSE Unknown
  /\ asked' = IF "icw" \in Meant(word) THEN Unknown ELSE asked

Zero == <<0, 0, 0, 0>>

outputStreamSetDescriptorList ==
  LET low  == Write(memory, m_outputDescriptor + 24, DescriptorBuffer)
      high == Write(low, m_outputDescriptor + 28, Zero)
      given == Remember(written, StreamName(numIn, 24), DescriptorBuffer)
  IN /\ memory' = Write(high, m_outputDescriptor + 12, <<1, 0, 0, 0>>)
     /\ written' = Remember(Remember(given, StreamName(numIn, 28), Zero),
                            StreamName(numIn, 12), <<1, 0, 0, 0>>)
     /\ UNCHANGED <<position, asked>>

(* A 32 bit write to a register of the output stream.                      *)
WriteOutput(f, v) ==
  /\ memory' = Write(memory, m_outputDescriptor + f, v)
  /\ written' = Remember(written, StreamName(numIn, f), v)
  /\ UNCHANGED <<position, asked>>

outputStreamLength(v) == WriteOutput(8, SubSeq(v, 1, 4))

(* Faulty: the format is written as one byte.                              *)
outputStreamFormatShort(v) == WriteOutput(18, <<v[1], 0, 0, 0>>)

(* 16 bits, written as 32.                                                 *)
outputStreamFormat(v) == WriteOutput(18, <<v[1], v[2], 0, 0>>)

outputStreamTurnOn ==
  LET dplbase == [PositionBuffer EXCEPT ![1] = 1]
      run == <<2, 0, 20, 0>>
      feedback == writeReg(writeReg(memory, "dplbase", dplbase), "dpubase", Zero)
      given == Remember(Remember(written, {"dplbase"}, dplbase), {"dpubase"}, Zero)
  IN /\ memory' = Write(feedback, m_outputDescriptor, run)
     /\ written' = Remember(given, StreamName(numIn, 0), run)
     /\ UNCHANGED <<position, asked>>

outputStreamTurnOff ==
  LET stop == <<0, 0, 20, 0>>
  IN /\ memory' = Write(memory, m_inputDescriptor, stop)
     /\ written' = Remember(written, StreamName(0, 0), stop)
     /\ UNCHANGED <<position, asked>>

(* Byte i of x, the lowest is 0.                                           *)
ByteOf(x, i) == (x \div 256^i) % 256

(* The bitwise disjunction of two bytes.                                   *)
Or(x, y) ==
  LET bit(k) == IF (x \div k) % 2 = 0 /\ (y \div k) % 2 = 0 THEN 0 ELSE k
  IN bit(1) + bit(2) + bit(4) + bit(8) + bit(16) + bit(32) + bit(64) + bit(128)

(* Faulty: a payload of 16 bits is cut to 8.                               *)
ShortCommandWord(c) ==
  << ByteOf(c.payload, 0), ByteOf(c.verb, 0),
     Or(ByteOf(c.node * 16, 0), ByteOf(c.verb, 1)), ByteOf(c.node * 16, 1) >>

(* The codec is 0; node, verb and payload are shifted by 20, 8 and 0 bits  *)
(* and combined as they are, even where they reach into one another.       *)
CommandWord(c) ==
  << ByteOf(c.payload, 0),
     Or(ByteOf(c.payload, 1), ByteOf(c.verb, 0)),
     Or(Or(ByteOf(c.payload, 2), ByteOf(c.verb, 1)), ByteOf(c.node * 16, 0)),
     Or(Or(ByteOf(c.payload, 3), ByteOf(c.verb, 2)), ByteOf(c.node * 16, 1)) >>

(* ics is written before and after icw.                                    *)
sendVerb(c) ==
  LET clear == <<2, 0, 0, 0>>
      start == <<1, 0, 0, 0>>
      sent  == writeReg(writeReg(memory, "ics", clear), "icw", CommandWord(c))
      given == Remember(Remember(written, {"ics"}, clear), {"icw"}, CommandWord(c))
  IN /\ memory' = writeReg(sent, "ics", start)
     /\ written' = Remember(given, {"ics"}, start)
     /\ asked' = c
     /\ UNCHANGED position

Access == \/ \E word \in Names \cup Abbreviations, v \in Values : WriteByName(word, v)
          \/ outputStreamSetDescriptorList
          \/ \E v \in Values : outputStreamLength(v) \/ outputStreamFormat(v)
          \/ outputStreamTurnOn \/ outputStreamTurnOff
          \/ \E c \in Verbs : sendVerb(c)

(* The controller plays on.                                                *)
Advance ==
  \E p \in Positions :
    /\ memory' = Write(memory, Stream(numIn) + 4, p)
    /\ written' = Remember(written, StreamName(numIn, 4), p)
    /\ position' = p
    /\ UNCHANGED asked

Finished == accesses = MaxAccesses /\ UNCHANGED vars

Next == \/ /\ accesses < MaxAccesses
           /\ accesses' = accesses + 1
           /\ Access \/ Advance
           /\ UNCHANGED <<numIn, m_inputDescriptor, m_outputDescriptor>>
        \/ Finished

Spec == Init /\ [][Next]_vars

(* "playpos".                                                              *)
getPlayPos == ReadBytes(memory, m_outputDescriptor + 4, 4)
-----------------------------------------------------------------------------
(* What a codec makes of the word in ICW: the codec that is addressed, its *)
(* node, and a verb, which has a payload of 8 bits if it begins with 7 or  *)
(* F and one of 16 bits otherwise.                                         *)
IsLong(verb) == verb \div 256 \in {7, 15}

Executed(w) ==
  LET verb == 256 * (w[3] % 16) + w[2] IN
  [codec |-> w[4] \div 16,
   node |-> 16 * (w[4] % 16) + w[3] \div 16,
   verb |-> IF IsLong(verb) THEN verb ELSE 256 * (w[3] % 16),
   payload |-> IF IsLong(verb) THEN w[1] ELSE 256 * w[2] + w[1]]

(* The fields of the command are within their widths.                      *)
InFields(c) == /\ c.node < 256
               /\ c.verb < 4096
               /\ IF IsLong(c.verb) THEN c.payload < 256
                  ELSE c.verb % 256 = 0 /\ c.payload < 65536

(* A register read by its full name holds what was written to it last,     *)
(* cut to its width.                                                       *)
Holds(mem, given, n) ==
  given[n] # Unknown => LET value == readReg(mem, n)
                        IN value # <<>> /\ value = SubSeq(given[n], 1, Len(value))

StreamNames == UNION {StreamName(s, f) : s \in {0, 4}, f \in Fields}

(* Every register that is not a stream's is reached by its full name, and   *)
(* by no access that names another, whatever the word: the table's prefix   *)
(* match hides no name, no two entries overlap, and an access to a stream   *)
(* stays in the stream.                                                     *)
RegistersSeparate == \A n \in Names \ StreamNames : Holds(memory, written, n)

(* What the driver writes to the stream it plays can be read under the sdn  *)
(* names if there are no input streams, under the osdn names if there are   *)
(* four, and is never seen under the names of another stream; "playpos" is  *)
(* where the controller is, whatever else is written.                       *)
StreamShows == /\ \A n \in StreamNames : Holds(memory, written, n)
               /\ position # Unknown => getPlayPos = position

(* Whatever is written to other registers after it, the codec finds in ICW  *)
(* what sendVerb was given, for itself, if the fields are within their      *)
(* widths. "nodeio" passes on any number: a verb or a payload that reaches  *)
(* into its neighbour may change it, but the codec only if it or the node   *)
(* is too large for 28 bits, and the node only from bit 20 on.              *)
VerbIntact ==
  asked # Unknown =>
    LET done == Executed(readReg(memory, "icw")) IN
    /\ InFields(asked) => done = [codec |-> 0, node |-> asked.node, verb |-> asked.verb,
                                  payload |-> asked.payload]
    /\ asked.node < 256 /\ asked.verb < 4096 /\ asked.payload < 2^28 => done.codec = 0
    /\ asked.payload < 2^20 /\ asked.verb < 4096 => done.node = asked.node % 256
=============================================================================
