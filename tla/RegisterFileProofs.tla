------------------------- MODULE RegisterFileProofs -------------------------
(***************************************************************************)
(* Proofs about RegisterFile, for every number of input streams, every     *)
(* word and value given to "write", every verb and every position of the   *)
(* controller: a register is reached by its name and by no access that     *)
(* names another (RegistersSeparate); what the driver writes to its stream *)
(* is seen under the stream's own names and no other's (StreamShows); the  *)
(* codec finds in ICW what sendVerb was given (VerbIntact).                *)
(*                                                                         *)
(* The table is taken as it stands, entry by entry. Every access is a      *)
(* sequence of writes, each of some bytes at some offset on behalf of some *)
(* names: Covers says when such a write suits the table, and the accesses  *)
(* by name and by stream are shown to consist of writes that do.           *)
(***************************************************************************)
EXTENDS RegisterFile, SequenceTheorems, WellFoundedInduction, TLAPS

Entries == 1..51
Offset(j) == regs[j].offset
Width(j)  == regs[j].width
Name(j)   == regs[j].name
End(j)    == Offset(j) + Width(j)

Memory == [0..639 -> Byte]
Quad   == [1..4 -> Byte]
Bytes  == [1..4 -> Byte] \cup [1..8 -> Byte]

(* The bytes of entry j are v's.                                           *)
Shows(mem, v, j) == \A i \in 1..Width(j) : mem[Offset(j) + i - 1] = v[i]

(* Every register about which something is known holds it.                 *)
Truthful(mem, given) ==
  /\ mem \in Memory
  /\ given \in [Names -> Bytes \cup {Unknown}]
  /\ \A j \in Entries : given[Name(j)] # Unknown => Shows(mem, given[Name(j)], j)

(* The four bytes at offset are p's.                                       *)
PlaysAt(mem, offset, p) ==
  p # Unknown => p \in [1..4 -> Byte] /\ \A i \in 1..4 : mem[offset + i - 1] = p[i]

(* Both, for the stream numbered s.                                        *)
Fine(mem, given, s, p) == Truthful(mem, given) /\ PlaysAt(mem, Stream(s) + 4, p)

(* The invariant.                                                          *)
RegisterInv ==
  /\ numIn \in 0..15
  /\ m_inputDescriptor = Stream(0)
  /\ m_outputDescriptor = Stream(numIn)
  /\ Fine(memory, written, numIn, position)
  /\ asked # Unknown => asked \in Verbs /\ written["icw"] = CommandWord(asked)
-----------------------------------------------------------------------------
(* The table, entry by entry.                                              *)

LEMMA TableSize == DOMAIN regs = Entries
  BY DEF regs, Entries

LEMMA EntryRanges ==
  \A j \in Entries : Offset(j) \in 0..639 /\ Width(j) \in {1, 2, 4} /\ End(j) <= 640
<1> SUFFICES ASSUME NEW j \in Entries
             PROVE  Offset(j) \in 0..639 /\ Width(j) \in {1, 2, 4} /\ End(j) <= 640
  OBVIOUS
<1>1. Offset(j) \in Nat
  BY SMTT(30) DEF regs, Reg, Entries, Offset
<1>2. Width(j) \in {1, 2, 4}
  BY SMTT(30) DEF regs, Reg, Entries, Width
<1>3. Offset(j) + Width(j) <= 640
  BY SMTT(30) DEF regs, Reg, Entries, Offset, Width
<1>4. PICK a, w : a = Offset(j) /\ w = Width(j)
  OBVIOUS
<1>5. a \in Nat /\ w \in {1, 2, 4} /\ a + w <= 640
  BY <1>1, <1>2, <1>3, <1>4
<1>6. a \in 0..639
  BY <1>5
<1> QED
  BY <1>2, <1>3, <1>4, <1>6 DEF End

(* No two entries have the same name.                                      *)
LEMMA DistinctNames == \A i, j \in Entries : Name(i) = Name(j) => i = j
  BY DEF regs, Reg, Entries, Name

LEMMA NamesOfEntries ==
  /\ \A j \in Entries : Name(j) \in Names
  /\ \A n \in Names : \E j \in Entries : n = Name(j)
  BY TableSize DEF Names, Name

(* The entry lies before or behind the bytes from from to to.              *)
Beside(j, from, to) == End(j) <= from \/ to <= Offset(j)

(* Two entries share no byte, the control and the status of a stream        *)
(* excepted.                                                               *)
LEMMA EntriesDisjoint ==
  \A i, j \in Entries :
    i # j => Beside(i, Offset(j), End(j)) \/ Overlaps(Name(i), Name(j))
<1>1. \A i, j \in Entries :
        \/ i = j
        \/ Beside(i, Offset(j), End(j))
        \/ Name(i) \in {"sdnctl", "sdnsts"} /\ Name(j) \in {"sdnctl", "sdnsts"}
        \/ Name(i) \in {"osdnctl", "osdnsts"} /\ Name(j) \in {"osdnctl", "osdnsts"}
  BY DEF regs, Reg, Entries, Offset, Width, End, Name, Beside
<1>2. \A i, j \in Entries : i # j => Name(i) # Name(j)
  BY DistinctNames
<1>3. SUFFICES ASSUME NEW i \in Entries, NEW j \in Entries, i # j,
                      ~Beside(i, Offset(j), End(j))
               PROVE  Overlaps(Name(i), Name(j))
  OBVIOUS
<1>4. Name(i) # Name(j)
  BY <1>2, <1>3
<1>5. \/ Name(i) \in {"sdnctl", "sdnsts"} /\ Name(j) \in {"sdnctl", "sdnsts"}
      \/ Name(i) \in {"osdnctl", "osdnsts"} /\ Name(j) \in {"osdnctl", "osdnsts"}
  BY <1>1, <1>3
<1>6. {Name(i), Name(j)} \in Halves
  BY <1>4, <1>5 DEF Halves
<1> QED
  BY <1>4, <1>6 DEF Overlaps

(* A stream's registers: the named ones are in the first and fifth stream.  *)
LEMMA OtherStreams ==
  \A s \in 0..15, f \in Fields, j \in Entries :
    s \notin {0, 4} => Beside(j, Stream(s) + f, Stream(s) + f + 4)
  BY DEF regs, Reg, Entries, Offset, Width, End, Fields, Stream, Beside

LEMMA FirstStream ==
  \A f \in Fields, j \in Entries :
    \/ Beside(j, 128 + f, 132 + f)
    \/ f = 0  /\ Name(j) \in {"sdnctl", "sdnsts"}
    \/ f = 4  /\ Name(j) = "sdnlpib"
    \/ f = 8  /\ Name(j) = "sdncbl"
    \/ f = 12 /\ Name(j) = "sdnlvi"
    \/ f = 18 /\ Name(j) = "sdnfmt"
    \/ f = 24 /\ Name(j) = "sdnbdpl"
    \/ f = 28 /\ Name(j) = "sdnbdpu"
  BY DEF regs, Reg, Entries, Offset, Width, End, Name, Fields, Beside

LEMMA FifthStream ==
  \A f \in Fields, j \in Entries :
    \/ Beside(j, 256 + f, 260 + f)
    \/ f = 0  /\ Name(j) \in {"osdnctl", "osdnsts"}
    \/ f = 4  /\ Name(j) = "osdnlpib"
    \/ f = 8  /\ Name(j) = "osdncbl"
    \/ f = 12 /\ Name(j) = "osdnlvi"
    \/ f = 18 /\ Name(j) = "osdnfmt"
    \/ f = 24 /\ Name(j) = "osdnbdpl"
    \/ f = 28 /\ Name(j) = "osdnbdpu"
  BY DEF regs, Reg, Entries, Offset, Width, End, Name, Fields, Beside

(* The name of a stream's register is that of an entry at its place.        *)
LEMMA StreamNameEntry ==
  \A s \in {0, 4}, f \in Fields : \E j \in Entries :
    StreamName(s, f) = {Name(j)} /\ Offset(j) = Stream(s) + f /\ Width(j) <= 4
<1>1. /\ Name(31) = "sdnctl" /\ Offset(31) = 128 /\ Width(31) <= 4
      /\ Name(33) = "sdnlpib" /\ Offset(33) = 132 /\ Width(33) <= 4
      /\ Name(34) = "sdncbl" /\ Offset(34) = 136 /\ Width(34) <= 4
      /\ Name(35) = "sdnlvi" /\ Offset(35) = 140 /\ Width(35) <= 4
      /\ Name(37) = "sdnfmt" /\ Offset(37) = 146 /\ Width(37) <= 4
      /\ Name(38) = "sdnbdpl" /\ Offset(38) = 152 /\ Width(38) <= 4
      /\ Name(39) = "sdnbdpu" /\ Offset(39) = 156 /\ Width(39) <= 4
  BY SMTT(30) DEF regs, Reg, Offset, Width, Name
<1>2. /\ Name(43) = "osdnctl" /\ Offset(43) = 256 /\ Width(43) <= 4
      /\ Name(45) = "osdnlpib" /\ Offset(45) = 260 /\ Width(45) <= 4
      /\ Name(46) = "osdncbl" /\ Offset(46) = 264 /\ Width(46) <= 4
      /\ Name(47) = "osdnlvi" /\ Offset(47) = 268 /\ Width(47) <= 4
      /\ Name(49) = "osdnfmt" /\ Offset(49) = 274 /\ Width(49) <= 4
      /\ Name(50) = "osdnbdpl" /\ Offset(50) = 280 /\ Width(50) <= 4
      /\ Name(51) = "osdnbdpu" /\ Offset(51) = 284 /\ Width(51) <= 4
  BY SMTT(30) DEF regs, Reg, Offset, Width, Name
<1>3. ASSUME NEW f \in Fields
      PROVE  \E j \in 31..39 : StreamName(0, f) = {Name(j)} /\ Offset(j) = 128 + f /\ Width(j) <= 4
  BY <1>1 DEF Fields, StreamName
<1>4. ASSUME NEW f \in Fields
      PROVE  \E j \in 43..51 : StreamName(4, f) = {Name(j)} /\ Offset(j) = 256 + f /\ Width(j) <= 4
  BY <1>2 DEF Fields, StreamName
<1>5. Stream(0) = 128 /\ Stream(4) = 256 /\ 31..39 \subseteq Entries /\ 43..51 \subseteq Entries
  BY DEF Stream, Entries
<1> QED
  BY <1>3, <1>4, <1>5

LEMMA NoStreamName == \A s \in 0..15, f \in Fields : s \notin {0, 4} => StreamName(s, f) = {}
  BY DEF StreamName

(* Four bytes written to a stream reach the entry that is named, the one    *)
(* it overlaps with, and no other.                                         *)
LEMMA StreamEntries ==
  ASSUME NEW s \in 0..15, NEW f \in Fields, NEW j \in Entries
  PROVE  \/ Beside(j, Stream(s) + f, Stream(s) + f + 4)
         \/ Name(j) \in StreamName(s, f)
         \/ \E m \in StreamName(s, f) : Overlaps(Name(j), m)
<1>1. CASE s \notin {0, 4}
  BY <1>1, OtherStreams
<1>2. CASE s = 0
  <2>1. Stream(s) + f = 128 + f /\ Stream(s) + f + 4 = 132 + f
    BY <1>2 DEF Stream, Fields
  <2>2. CASE f = 0 /\ Name(j) = "sdnsts"
    BY <1>2, <2>2 DEF StreamName, Overlaps, Halves
  <2>3. CASE ~(f = 0 /\ Name(j) = "sdnsts")
    BY <1>2, <2>1, <2>3, FirstStream DEF StreamName
  <2> QED
    BY <2>2, <2>3
<1>3. CASE s = 4
  <2>1. Stream(s) + f = 256 + f /\ Stream(s) + f + 4 = 260 + f
    BY <1>3 DEF Stream, Fields
  <2>2. CASE f = 0 /\ Name(j) = "osdnsts"
    BY <1>3, <2>2 DEF StreamName, Overlaps, Halves
  <2>3. CASE ~(f = 0 /\ Name(j) = "osdnsts")
    BY <1>3, <2>1, <2>3, FifthStream DEF StreamName
  <2> QED
    BY <2>2, <2>3
<1> QED
  BY <1>1, <1>2, <1>3
-----------------------------------------------------------------------------
(* The words.                                                              *)

(* A full name is the beginning of no other.                               *)
LEMMA MatchesOne == \A i, j \in Entries : Matches(Name(i), Name(j)) <=> i = j
  BY TableAssumption, TableSize DEF Name

LEMMA MeantIsName == \A n \in Names : Meant(n) = {n}
<1> SUFFICES ASSUME NEW n \in Names PROVE Meant(n) = {n}
  OBVIOUS
<1>1. PICK j \in Entries : n = Name(j)
  BY NamesOfEntries
<1>2. \A m \in Names : Matches(n, m) <=> m = n
  BY <1>1, MatchesOne, NamesOfEntries
<1> QED
  BY <1>2 DEF Meant

(* < on the natural numbers, as a set of pairs.                            *)
LEMMA LessThanRelation == OpToRel(<, Nat) = {ss \in Nat \X Nat : ss[1] < ss[2]}
  BY DEF OpToRel

(* A set of numbers that is not empty has a least one: < is well-founded   *)
(* on the natural numbers.                                                 *)
LEMMA LeastNumber ==
  ASSUME NEW T \in SUBSET Nat, T # {}
  PROVE  \E x \in T : \A y \in T : x <= y
<1> DEFINE R == {ss \in Nat \X Nat : ss[1] < ss[2]}
<1>1. IsWellFoundedOn(R, Nat)
  BY NatLessThanWellFounded, LessThanRelation
<1>2. \A x, y \in Nat : x < y => <<x, y>> \in R
  OBVIOUS
<1> HIDE DEF R
<1>3. PICK x \in T : \A y \in T : ~(<<y, x>> \in R)
  BY <1>1, WFMin
<1>4. ASSUME NEW y \in T PROVE x <= y
  <2>1. x \in Nat /\ y \in Nat /\ ~(<<y, x>> \in R)
    BY <1>3
  <2>2. ~(y < x)
    BY <1>2, <2>1
  <2> QED
    BY <2>1, <2>2
<1> QED
  BY <1>4

(* A word reaches nothing and means nothing, or it reaches an entry whose   *)
(* name is among those it means.                                           *)
LEMMA WordReaches ==
  ASSUME NEW word
  PROVE  \/ getReg(word) = NoReg /\ Meant(word) = {}
         \/ \E j \in Entries : getReg(word) = regs[j] /\ Name(j) \in Meant(word)
<1> DEFINE found == {i \in DOMAIN regs : Matches(word, regs[i].name)}
<1>1. CASE found = {}
  <2>1. getReg(word) = NoReg
    BY <1>1 DEF getReg
  <2>2. \A i \in Entries : ~Matches(word, Name(i))
    BY <1>1, TableSize DEF Name
  <2>3. Meant(word) = {}
    BY <2>2, NamesOfEntries DEF Meant
  <2> QED
    BY <2>1, <2>3
<1>2. CASE found # {}
  <2>1. found \subseteq Entries
    BY TableSize
  <2>2. \E i \in found : \A k \in found : i <= k
    <3>1. found \in SUBSET Nat
      BY <2>1 DEF Entries
    <3> HIDE DEF found
    <3> QED
      BY <1>2, <3>1, LeastNumber
  <2>3. Min(found) \in found
    BY <2>2 DEF Min
  <2>4. getReg(word) = regs[Min(found)]
    BY <1>2 DEF getReg
  <2>5. Matches(word, Name(Min(found))) /\ Min(found) \in Entries
    BY <2>1, <2>3 DEF Name
  <2>6. Name(Min(found)) \in Meant(word)
    BY <2>5, NamesOfEntries DEF Meant
  <2> QED
    BY <2>4, <2>5, <2>6
<1> QED
  BY <1>1, <1>2

(* A register is reached by its name.                                      *)
LEMMA NameReaches == \A j \in Entries : getReg(Name(j)) = regs[j]
<1> SUFFICES ASSUME NEW j \in Entries PROVE getReg(Name(j)) = regs[j]
  OBVIOUS
<1>1. Meant(Name(j)) = {Name(j)}
  BY MeantIsName, NamesOfEntries
<1>2. PICK i \in Entries : getReg(Name(j)) = regs[i] /\ Name(i) \in Meant(Name(j))
  BY <1>1, WordReaches
<1>3. i = j
  BY <1>1, <1>2, DistinctNames
<1> QED
  BY <1>2, <1>3
-----------------------------------------------------------------------------
(* Writing.                                                                *)

(* Rows of k bytes.                                                        *)
Row(k) == [1..k -> Byte]

(* In new the k bytes at offset are those given, the others as in mem.      *)
Differs(mem, new, offset, k, bytes) ==
  /\ new \in Memory
  /\ \A i \in 1..k : offset + i - 1 <= 639 => new[offset + i - 1] = bytes[i]
  /\ \A o \in 0..639 : o < offset \/ offset + k <= o => new[o] = mem[o]

(* The byte at o after the write.                                          *)
Result(mem, offset, bytes, o) ==
  IF o - offset + 1 \in DOMAIN bytes THEN bytes[o - offset + 1] ELSE mem[o]

LEMMA WriteAt ==
  ASSUME NEW mem \in Memory, NEW offset \in Nat, NEW k \in 0..4, NEW bytes \in Row(k)
  PROVE  Differs(mem, Write(mem, offset, bytes), offset, k, bytes)
<1> SUFFICES ASSUME NEW new, new = Write(mem, offset, bytes)
             PROVE  Differs(mem, new, offset, k, bytes)
  OBVIOUS
<1>1. DOMAIN mem = 0..639 /\ DOMAIN bytes = 1..k
  BY DEF Memory, Row
<1>2. new = [o \in DOMAIN mem |-> Result(mem, offset, bytes, o)]
  BY DEF Write, Result
<1>3. \A o \in 0..639 : new[o] = Result(mem, offset, bytes, o)
  BY <1>1, <1>2
<1>4. DOMAIN new = 0..639 /\ new = [o \in DOMAIN new |-> new[o]]
  BY <1>1, <1>2
<1>5. ASSUME NEW o \in 0..639, o - offset + 1 \in 1..k
      PROVE  new[o] = bytes[o - offset + 1]
  <2>1. new[o] = Result(mem, offset, bytes, o)
    BY <1>3
  <2> QED
    BY <1>1, <1>5, <2>1, Zenon DEF Result
<1>6. ASSUME NEW o \in 0..639, o - offset + 1 \notin 1..k
      PROVE  new[o] = mem[o]
  <2>1. new[o] = Result(mem, offset, bytes, o)
    BY <1>3
  <2> QED
    BY <1>1, <1>6, <2>1, Zenon DEF Result
<1>7. new \in Memory
  <2>1. ASSUME NEW o \in 0..639 PROVE new[o] \in Byte
    <3>1. mem[o] \in Byte
      BY DEF Memory
    <3>2. CASE o - offset + 1 \in 1..k
      <4>1. \A m \in 1..k : bytes[m] \in Byte
        BY DEF Row
      <4> QED
        BY <1>5, <3>2, <4>1
    <3>3. CASE o - offset + 1 \notin 1..k
      BY <1>6, <3>1, <3>3
    <3> QED
      BY <3>2, <3>3
  <2> QED
    BY <1>4, <2>1 DEF Memory
<1>8. ASSUME NEW i \in 1..k, offset + i - 1 <= 639
      PROVE  new[offset + i - 1] = bytes[i]
  <2>1. PICK o \in 0..639 : o = offset + i - 1
    BY <1>8
  <2>2. o - offset + 1 = i /\ o - offset + 1 \in 1..k
    BY <2>1
  <2> QED
    BY <1>5, <2>1, <2>2
<1>9. ASSUME NEW o \in 0..639, o < offset \/ offset + k <= o
      PROVE  new[o] = mem[o]
  <2>1. o - offset + 1 \notin 1..k
    BY <1>9
  <2> QED
    BY <1>6, <2>1
<1> QED
  BY <1>7, <1>8, <1>9 DEF Differs

(* A write at offset of k bytes, on behalf of names, is right for entry j:  *)
(* it is the one written, or one of several that may be, or overlaps with   *)
(* one, or is out of reach.                                                *)
Suits(j, names, v, offset, k, bytes) ==
  \/ /\ Name(j) \in names /\ \A m \in names : m = Name(j)
     /\ Offset(j) = offset /\ Width(j) <= k
     /\ \A i \in 1..Width(j) : bytes[i] = v[i]
  \/ Name(j) \in names /\ \E m \in names : m # Name(j)
  \/ Name(j) \notin names /\ \E m \in names : Overlaps(Name(j), m)
  \/ Name(j) \notin names /\ Beside(j, offset, offset + k)

Covers(names, v, offset, k, bytes) ==
  \A j \in Entries : Suits(j, names, v, offset, k, bytes)

(* What is known remains true when a write suits every entry.              *)
LEMMA TruthfulWrite ==
  ASSUME NEW mem, NEW given, Truthful(mem, given),
         NEW names, NEW v \in Bytes, NEW offset \in Nat, NEW k \in 0..4,
         NEW bytes \in Row(k), Covers(names, v, offset, k, bytes)
  PROVE  Truthful(Write(mem, offset, bytes), Remember(given, names, v))
<1> DEFINE new == Write(mem, offset, bytes)
           known == Remember(given, names, v)
<1>1. mem \in Memory
  BY DEF Truthful
<1>2. /\ new \in Memory
      /\ \A i \in 1..k : offset + i - 1 <= 639 => new[offset + i - 1] = bytes[i]
      /\ \A o \in 0..639 : o < offset \/ offset + k <= o => new[o] = mem[o]
  <2>1. Differs(mem, new, offset, k, bytes)
    BY <1>1, WriteAt
  <2> QED
    BY <2>1 DEF Differs
<1>3. given \in [Names -> Bytes \cup {Unknown}]
  BY DEF Truthful
<1>5. known \in [Names -> Bytes \cup {Unknown}]
  BY <1>3 DEF Remember
<1>6. ASSUME NEW j \in Entries, known[Name(j)] # Unknown
      PROVE  Shows(new, known[Name(j)], j)
  <2>1. Name(j) \in Names /\ Suits(j, names, v, offset, k, bytes)
    BY NamesOfEntries DEF Covers
  <2>2. /\ Offset(j) \in 0..639 /\ Width(j) \in {1, 2, 4}
        /\ Offset(j) + Width(j) <= 640
    BY EntryRanges DEF End
  <2>3. known[Name(j)]
          = IF Name(j) \in names /\ \A m \in names : m = Name(j) THEN v
            ELSE IF Name(j) \in names \/ \E m \in names : Overlaps(Name(j), m)
                 THEN Unknown
            ELSE given[Name(j)]
    BY <2>1 DEF Remember
  <2>4. CASE /\ Name(j) \in names /\ \A m \in names : m = Name(j)
             /\ Offset(j) = offset /\ Width(j) <= k
             /\ \A i \in 1..Width(j) : bytes[i] = v[i]
    <3>1. known[Name(j)] = v
      BY <2>3, <2>4
    <3>2. ASSUME NEW i \in 1..Width(j) PROVE new[Offset(j) + i - 1] = v[i]
      <4>1. i \in 1..k /\ offset + i - 1 <= 639
        BY <2>2, <2>4
      <4> QED
        BY <1>2, <2>4, <4>1
    <3> QED
      BY <3>1, <3>2 DEF Shows
  <2>5. CASE Name(j) \in names /\ \E m \in names : m # Name(j)
    BY <1>6, <2>3, <2>5
  <2>6. CASE Name(j) \notin names /\ \E m \in names : Overlaps(Name(j), m)
    BY <1>6, <2>3, <2>6
  <2>7. CASE /\ Name(j) \notin names /\ Beside(j, offset, offset + k)
             /\ ~\E m \in names : Overlaps(Name(j), m)
    <3>1. known[Name(j)] = given[Name(j)]
      BY <2>3, <2>7
    <3>2. Shows(mem, given[Name(j)], j)
      BY <1>6, <3>1 DEF Truthful
    <3>3. ASSUME NEW i \in 1..Width(j)
          PROVE  new[Offset(j) + i - 1] = given[Name(j)][i]
      <4>1. Offset(j) + Width(j) <= offset \/ offset + k <= Offset(j)
        BY <2>7 DEF Beside, End
      <4>2. /\ Offset(j) + i - 1 \in 0..639
            /\ Offset(j) + i - 1 < offset \/ offset + k <= Offset(j) + i - 1
        <5>1. PICK a, w : a = Offset(j) /\ w = Width(j)
          OBVIOUS
        <5>2. /\ a \in 0..639 /\ w \in {1, 2, 4} /\ a + w <= 640
              /\ i \in 1..w /\ (a + w <= offset \/ offset + k <= a)
          BY <2>2, <3>3, <4>1, <5>1
        <5>3. a + i - 1 \in 0..639 /\ (a + i - 1 < offset \/ offset + k <= a + i - 1)
          BY <5>2
        <5> QED
          BY <5>1, <5>3
      <4>3. new[Offset(j) + i - 1] = mem[Offset(j) + i - 1]
        BY <1>2, <4>2
      <4> QED
        BY <3>2, <4>3 DEF Shows
    <3> QED
      BY <3>1, <3>3 DEF Shows
  <2> QED
    BY <2>1, <2>4, <2>5, <2>6, <2>7 DEF Suits
<1> QED
  BY <1>2, <1>5, <1>6 DEF Truthful

(* The position is not reached by a write beside it.                       *)
Aside(offset, k, bytes, at) ==
  /\ offset \in Nat /\ k \in 0..4 /\ bytes \in Row(k)
  /\ at \in 0..636 /\ (at + 4 <= offset \/ offset + k <= at)

LEMMA PlaysOn ==
  ASSUME NEW mem \in Memory, NEW offset, NEW k, NEW bytes, NEW at, NEW p,
         PlaysAt(mem, at, p), Aside(offset, k, bytes, at)
  PROVE  PlaysAt(Write(mem, offset, bytes), at, p)
<1>0. /\ offset \in Nat /\ k \in 0..4 /\ bytes \in Row(k)
      /\ at \in 0..636 /\ (at + 4 <= offset \/ offset + k <= at)
  BY DEF Aside
<1>1. ASSUME NEW i \in 1..4
      PROVE  Write(mem, offset, bytes)[at + i - 1] = mem[at + i - 1]
  <2>1. at + i - 1 \in 0..639
    BY <1>0, <1>1
  <2>2. at + i - 1 < offset \/ offset + k <= at + i - 1
    BY <1>0, <1>1
  <2>3. PICK new : new = Write(mem, offset, bytes)
    OBVIOUS
  <2>4. Differs(mem, new, offset, k, bytes)
    BY <1>0, <2>3, WriteAt
  <2> QED
    BY <2>1, <2>2, <2>3, <2>4 DEF Differs
<1> QED
  BY <1>1 DEF PlaysAt
-----------------------------------------------------------------------------
(* A write by name, and a write to a stream.                               *)

LEMMA PrefixBytes ==
  ASSUME NEW v \in Bytes, NEW k \in {1, 2, 4}
  PROVE  SubSeq(v, 1, k) \in [1..k -> Byte] /\ \A i \in 1..k : SubSeq(v, 1, k)[i] = v[i]
<1>1. PICK n \in {4, 8} : v \in [1..n -> Byte]
  BY DEF Bytes
<1>2. v \in Seq(Byte) /\ Len(v) = n
  BY <1>1, LenProperties, SeqDef
<1>3. k <= n
  BY <1>1
<1>4. \A i \in 1..k : v[i] \in Byte
  BY <1>1, <1>3
<1>5. SubSeq(v, 1, k) = [i \in 1..k |-> v[i]]
  BY <1>2, <1>3
<1> QED
  BY <1>4, <1>5

LEMMA NoBytes == \A v \in Bytes : SubSeq(v, 1, 0) = <<>>
<1> SUFFICES ASSUME NEW v \in Bytes PROVE SubSeq(v, 1, 0) = <<>>
  OBVIOUS
<1>1. PICK n \in {4, 8} : v \in [1..n -> Byte]
  BY DEF Bytes
<1>2. v \in Seq(Byte)
  BY <1>1, SeqDef
<1> QED
  BY <1>2

LEMMA EntryBytes ==
  ASSUME NEW j \in Entries, NEW v \in Bytes
  PROVE  /\ Offset(j) \in Nat /\ Width(j) \in 0..4
         /\ SubSeq(v, 1, Width(j)) \in Row(Width(j))
<1>1. Offset(j) \in 0..639 /\ Width(j) \in {1, 2, 4}
  BY EntryRanges
<1>2. \A k \in {1, 2, 4} : SubSeq(v, 1, k) \in Row(k)
  BY PrefixBytes DEF Row
<1>3. Offset(j) \in Nat /\ Width(j) \in 0..4
  BY <1>1
<1> QED
  BY <1>1, <1>2, <1>3

(* A word that reaches an entry suits the table.                           *)
LEMMA NamedCovers ==
  ASSUME NEW word, NEW j \in Entries, getReg(word) = regs[j], Name(j) \in Meant(word),
         NEW v \in Bytes
  PROVE  Covers(Meant(word), v, Offset(j), Width(j), SubSeq(v, 1, Width(j)))
<1> DEFINE bytes == SubSeq(v, 1, Width(j))
<1>1. Width(j) \in {1, 2, 4} /\ Width(j) <= Width(j)
  BY EntryRanges
<1>2. \A i \in 1..Width(j) : bytes[i] = v[i]
  BY <1>1, PrefixBytes
<1> HIDE DEF bytes
<1> SUFFICES ASSUME NEW e \in Entries
             PROVE  Suits(e, Meant(word), v, Offset(j), Width(j), bytes)
  BY DEF Covers, bytes
<1>3. CASE e = j
  <2>1. CASE \A m \in Meant(word) : m = Name(j)
    BY <1>1, <1>2, <1>3, <2>1 DEF Suits
  <2>2. CASE \E m \in Meant(word) : m # Name(j)
    BY <1>3, <2>2 DEF Suits
  <2> QED
    BY <2>1, <2>2
<1>4. CASE e # j
  <2>1. Name(e) # Name(j)
    BY <1>4, DistinctNames
  <2>2. CASE Name(e) \in Meant(word)
    BY <2>1, <2>2 DEF Suits
  <2>3. CASE Name(e) \notin Meant(word)
    <3>1. Beside(e, Offset(j), Offset(j) + Width(j)) \/ Overlaps(Name(e), Name(j))
      BY <1>4, EntriesDisjoint DEF End
    <3> QED
      BY <2>3, <3>1 DEF Suits
  <2> QED
    BY <2>2, <2>3
<1> QED
  BY <1>3, <1>4

(* Nothing is written by a word that reaches nothing.                      *)
LEMMA NothingWritten ==
  ASSUME NEW mem \in Memory, NEW word, getReg(word) = NoReg, NEW v \in Bytes
  PROVE  writeReg(mem, word, v) = mem
<1>1. writeReg(mem, word, v) = Write(mem, 0, <<>>)
  <2>1. getReg(word).offset = 0 /\ getReg(word).width = 0
    <3>1. NoReg.offset = 0 /\ NoReg.width = 0
      BY DEF NoReg
    <3> QED
      BY <3>1
  <2>2. SubSeq(v, 1, getReg(word).width) = <<>>
    BY <2>1, NoBytes
  <2> QED
    BY <2>1, <2>2 DEF writeReg
<1>2. DOMAIN mem = 0..639
  BY DEF Memory
<1>3. \A o \in 0..639 : o - 0 + 1 \notin DOMAIN <<>>
  OBVIOUS
<1>4. Write(mem, 0, <<>>) = [o \in DOMAIN mem |-> mem[o]]
  BY <1>2, <1>3 DEF Write
<1>5. mem = [o \in DOMAIN mem |-> mem[o]]
  BY DEF Memory
<1> QED
  BY <1>1, <1>4, <1>5

(* A write by name, or by a word that may be several, keeps what is known   *)
(* true.                                                                   *)
LEMMA NamedWrite ==
  ASSUME NEW mem, NEW given, Truthful(mem, given), NEW word, NEW v \in Bytes
  PROVE  Truthful(writeReg(mem, word, v), Remember(given, Meant(word), v))
<1>1. CASE getReg(word) = NoReg /\ Meant(word) = {}
  <2>1. writeReg(mem, word, v) = mem
    BY <1>1, NothingWritten DEF Truthful
  <2>2. Remember(given, Meant(word), v) = [n \in Names |-> given[n]]
    BY <1>1 DEF Remember
  <2>3. Remember(given, Meant(word), v) = given
    BY <2>2 DEF Truthful
  <2> QED
    BY <2>1, <2>3
<1>2. ASSUME NEW j \in Entries, getReg(word) = regs[j], Name(j) \in Meant(word)
      PROVE  Truthful(writeReg(mem, word, v), Remember(given, Meant(word), v))
  <2>1. /\ Offset(j) \in Nat /\ Width(j) \in 0..4
        /\ SubSeq(v, 1, Width(j)) \in Row(Width(j))
    BY EntryBytes
  <2>2. writeReg(mem, word, v) = Write(mem, Offset(j), SubSeq(v, 1, Width(j)))
    BY <1>2 DEF writeReg, Offset, Width
  <2>3. Covers(Meant(word), v, Offset(j), Width(j), SubSeq(v, 1, Width(j)))
    BY <1>2, NamedCovers
  <2> QED
    BY <2>1, <2>2, <2>3, TruthfulWrite
<1> QED
  BY <1>1, <1>2, WordReaches

LEMMA FullNameWrite ==
  ASSUME NEW mem, NEW given, Truthful(mem, given), NEW n \in Names, NEW v \in Bytes
  PROVE  Truthful(writeReg(mem, n, v), Remember(given, {n}, v))
  BY NamedWrite, MeantIsName

(* Four bytes written to a stream suit the table.                          *)
LEMMA StreamCovers ==
  ASSUME NEW s \in 0..15, NEW f \in Fields, NEW v \in [1..4 -> Byte]
  PROVE  Covers(StreamName(s, f), v, Stream(s) + f, 4, v)
<1> SUFFICES ASSUME NEW j \in Entries
             PROVE  Suits(j, StreamName(s, f), v, Stream(s) + f, 4, v)
  BY DEF Covers
<1>1. CASE Name(j) \in StreamName(s, f)
  <2>1. s \in {0, 4}
    BY <1>1, NoStreamName
  <2>2. PICK e \in Entries : /\ StreamName(s, f) = {Name(e)}
                             /\ Offset(e) = Stream(s) + f /\ Width(e) <= 4
    BY <2>1, StreamNameEntry
  <2>3. e = j
    BY <1>1, <2>2, DistinctNames
  <2> QED
    BY <2>2, <2>3 DEF Suits
<1>2. CASE Name(j) \notin StreamName(s, f)
  BY <1>2, StreamEntries DEF Suits
<1> QED
  BY <1>1, <1>2

LEMMA StreamRange == \A s \in 0..15, f \in Fields : Stream(s) + f \in Nat
  BY DEF Stream, Fields

LEMMA StreamWrite ==
  ASSUME NEW mem, NEW given, Truthful(mem, given),
         NEW s \in 0..15, NEW f \in Fields, NEW v \in [1..4 -> Byte]
  PROVE  Truthful(Write(mem, Stream(s) + f, v), Remember(given, StreamName(s, f), v))
<1>1. v \in Bytes
  BY DEF Bytes
<1>2. Stream(s) + f \in Nat /\ 4 \in 0..4 /\ v \in Row(4)
  BY StreamRange DEF Row
<1>3. Covers(StreamName(s, f), v, Stream(s) + f, 4, v)
  BY StreamCovers
<1> QED
  BY <1>1, <1>2, <1>3, TruthfulWrite

(* The position is not reached by writes to other registers of any stream,  *)
(* nor by names other than its own.                                        *)
LEMMA StreamKeepsPosition ==
  ASSUME NEW mem \in Memory, NEW s \in 0..15, NEW p,
         PlaysAt(mem, Stream(s) + 4, p),
         NEW t \in 0..15, NEW f \in Fields \ {4}, NEW v \in [1..4 -> Byte]
  PROVE  PlaysAt(Write(mem, Stream(t) + f, v), Stream(s) + 4, p)
<1>1. /\ Stream(t) + f \in Nat /\ Stream(s) + 4 \in 0..636
      /\ (Stream(s) + 4) + 4 <= Stream(t) + f \/ (Stream(t) + f) + 4 <= Stream(s) + 4
  BY DEF Stream, Fields
<1>2. 4 \in 0..4 /\ v \in Row(4)
  BY DEF Row
<1>3. PICK offset, at : offset = Stream(t) + f /\ at = Stream(s) + 4
  OBVIOUS
<1>4. Aside(offset, 4, v, at)
  BY <1>1, <1>2, <1>3 DEF Aside
<1>5. PlaysAt(mem, at, p)
  BY <1>3
<1>6. PlaysAt(Write(mem, offset, v), at, p)
  BY <1>4, <1>5, PlaysOn
<1> QED
  BY <1>3, <1>6

LEMMA NameKeepsPosition ==
  ASSUME NEW mem \in Memory, NEW s \in 0..15, NEW p,
         PlaysAt(mem, Stream(s) + 4, p),
         NEW word, NEW v \in Bytes, Meant(word) \cap StreamName(s, 4) = {}
  PROVE  PlaysAt(writeReg(mem, word, v), Stream(s) + 4, p)
<1>1. CASE getReg(word) = NoReg
  BY <1>1, NothingWritten
<1>2. ASSUME NEW j \in Entries, getReg(word) = regs[j], Name(j) \in Meant(word)
      PROVE  PlaysAt(writeReg(mem, word, v), Stream(s) + 4, p)
  <2>1. /\ Offset(j) \in Nat /\ Width(j) \in 0..4
        /\ SubSeq(v, 1, Width(j)) \in Row(Width(j))
    BY EntryBytes
  <2>2. writeReg(mem, word, v) = Write(mem, Offset(j), SubSeq(v, 1, Width(j)))
    BY <1>2 DEF writeReg, Offset, Width
  <2>3. Name(j) \notin StreamName(s, 4)
    BY <1>2
  <2>4. ~\E m \in StreamName(s, 4) : Overlaps(Name(j), m)
    BY DEF StreamName, Overlaps, Halves
  <2>5. Beside(j, Stream(s) + 4, (Stream(s) + 4) + 4)
    BY <2>3, <2>4, StreamEntries DEF Fields
  <2>6. Stream(s) + 4 \in 0..636
    BY DEF Stream
  <2>7. \/ (Stream(s) + 4) + 4 <= Offset(j)
        \/ Offset(j) + Width(j) <= Stream(s) + 4
    BY <2>5 DEF Beside, End
  <2>8. PICK offset, k, bytes, at :
          /\ offset = Offset(j) /\ k = Width(j)
          /\ bytes = SubSeq(v, 1, Width(j)) /\ at = Stream(s) + 4
    OBVIOUS
  <2>9. offset \in Nat /\ k \in 0..4 /\ bytes \in Row(k)
    BY <2>1, <2>8
  <2>10. Aside(offset, k, bytes, at)
    BY <2>6, <2>7, <2>8, <2>9 DEF Aside
  <2>11. PlaysAt(mem, at, p)
    BY <2>8
  <2>12. PlaysAt(Write(mem, offset, bytes), at, p)
    BY <2>10, <2>11, PlaysOn
  <2> QED
    BY <2>2, <2>8, <2>12
<1> QED
  BY <1>1, <1>2, WordReaches
-----------------------------------------------------------------------------
(* The bytes of a command.                                                 *)

LEMMA FourBytes ==
  ASSUME NEW a \in Byte, NEW b \in Byte, NEW c \in Byte, NEW d \in Byte
  PROVE  <<a, b, c, d>> \in [1..4 -> Byte]
  OBVIOUS

LEMMA ConstantBytes ==
  /\ Zero \in [1..4 -> Byte]
  /\ <<1, 0, 0, 0>> \in [1..4 -> Byte] /\ <<2, 0, 0, 0>> \in [1..4 -> Byte]
  /\ <<2, 0, 20, 0>> \in [1..4 -> Byte] /\ <<0, 0, 20, 0>> \in [1..4 -> Byte]
<1>1. 0 \in Byte /\ 1 \in Byte /\ 2 \in Byte /\ 20 \in Byte
  BY DEF Byte
<1> QED
  BY <1>1, FourBytes DEF Zero

LEMMA ByteValues ==
  ASSUME NEW x \in Nat
  PROVE  /\ ByteOf(x, 0) = x % 256
         /\ ByteOf(x, 1) = (x \div 256) % 256
         /\ ByteOf(x, 2) = (x \div 65536) % 256
         /\ ByteOf(x, 3) = (x \div 16777216) % 256
<1>1. 256^0 = 1 /\ 256^1 = 256 /\ 256^2 = 65536 /\ 256^3 = 16777216
  OBVIOUS
<1> QED
  BY <1>1 DEF ByteOf

LEMMA BytesInRange == \A x \in Nat, i \in 0..3 : ByteOf(x, i) \in Byte
<1> SUFFICES ASSUME NEW x \in Nat, NEW i \in 0..3 PROVE ByteOf(x, i) \in Byte
  OBVIOUS
<1>1. i \in {0, 1, 2, 3}
  OBVIOUS
<1>2. /\ x % 256 \in Byte /\ (x \div 256) % 256 \in Byte
      /\ (x \div 65536) % 256 \in Byte /\ (x \div 16777216) % 256 \in Byte
  BY DEF Byte
<1>3. 256^0 = 1 /\ 256^1 = 256 /\ 256^2 = 65536 /\ 256^3 = 16777216
  OBVIOUS
<1>4. x \div 1 = x
  OBVIOUS
<1>5. /\ ByteOf(x, 0) \in Byte /\ ByteOf(x, 1) \in Byte
      /\ ByteOf(x, 2) \in Byte /\ ByteOf(x, 3) \in Byte
  BY <1>2, <1>3, <1>4 DEF ByteOf
<1> QED
  BY <1>1, <1>5

LEMMA OrByte == \A x, y \in Byte : Or(x, y) \in Byte
  BY DEF Or, Byte

LEMMA CommandBytes ==
  ASSUME NEW c \in [node : Nat, verb : Nat, payload : Nat]
  PROVE  CommandWord(c) \in [1..4 -> Byte]
<1>1. c.payload \in Nat /\ c.verb \in Nat /\ c.node * 16 \in Nat
  OBVIOUS
<1>2. \A i \in 0..3 : /\ ByteOf(c.payload, i) \in Byte /\ ByteOf(c.verb, i) \in Byte
                      /\ ByteOf(c.node * 16, i) \in Byte
  BY <1>1, BytesInRange
<1>3. 0 \in 0..3 /\ 1 \in 0..3 /\ 2 \in 0..3 /\ 3 \in 0..3
  OBVIOUS
<1> QED
  BY <1>2, <1>3, OrByte, FourBytes DEF CommandWord
-----------------------------------------------------------------------------
(* The invariant.                                                          *)

LEMMA DriverNames == {"gcap", "icw", "ics", "dplbase", "dpubase"} \subseteq Names
<1>1. /\ Name(1) = "gcap" /\ Name(40) = "icw" /\ Name(42) = "ics"
      /\ Name(29) = "dplbase" /\ Name(30) = "dpubase"
  BY DEF Name, regs, Reg
<1>2. 1 \in Entries /\ 40 \in Entries /\ 42 \in Entries /\ 29 \in Entries /\ 30 \in Entries
  BY DEF Entries
<1> QED
  BY <1>1, <1>2, NamesOfEntries

LEMMA NotOfStreams ==
  \A s \in 0..15, f \in Fields, n \in {"icw", "ics", "dplbase", "dpubase"} :
    n \notin StreamName(s, f)
  BY DEF StreamName

(* What is known of ICW is what was known, unless it is written.           *)
LEMMA IcwKept ==
  ASSUME NEW given, NEW names, NEW v, "icw" \notin names
  PROVE  Remember(given, names, v)["icw"] = given["icw"]
<1>1. \A m \in names : ~Overlaps("icw", m)
  BY DEF Overlaps, Halves
<1> QED
  BY <1>1, DriverNames DEF Remember

LEMMA IcwWritten ==
  ASSUME NEW given, NEW v
  PROVE  Remember(given, {"icw"}, v)["icw"] = v
  BY DriverNames DEF Remember

LEMMA InitInv == Init => RegisterInv
<1> SUFFICES ASSUME Init PROVE RegisterInv
  OBVIOUS
<1>1. numIn \in 0..15
  BY StreamsAssumption DEF Init
<1>2. /\ memory = [o \in 0..639 |-> IF o = 1 THEN 64 + numIn ELSE 0]
      /\ memory \in Memory
  <2>1. memory = [o \in 0..639 |-> IF o = 1 THEN 64 + numIn ELSE 0]
    BY DEF Init, Stream
  <2>2. 64 + numIn \in Byte /\ 0 \in Byte
    BY <1>1 DEF Byte
  <2> QED
    BY <2>1, <2>2 DEF Memory
<1>3. m_outputDescriptor = Stream(numIn)
  <2>1. getReg("gcap") = regs[1] /\ Offset(1) = 0 /\ Width(1) = 2
    <3>1. 1 \in Entries /\ Name(1) = "gcap"
      BY DEF Entries, Name, regs, Reg
    <3>2. Offset(1) = 0 /\ Width(1) = 2
      BY DEF Offset, Width, regs, Reg
    <3> QED
      BY <3>1, <3>2, NameReaches
  <2>2. readReg(memory, "gcap") = [i \in 1..2 |-> memory[0 + i - 1]]
    BY <2>1 DEF readReg, ReadBytes, Offset, Width
  <2>3. readReg(memory, "gcap")[2] = memory[1]
    BY <2>2
  <2>4. memory[1] = 64 + numIn
    BY <1>2
  <2>5. (64 + numIn) % 16 = numIn
    BY <1>1
  <2> QED
    BY <2>3, <2>4, <2>5 DEF Init, OutputDescriptor, Stream
<1>4. Truthful(memory, written)
  <2>1. written = [n \in Names |-> Unknown]
    BY DEF Init
  <2>2. \A j \in Entries : written[Name(j)] = Unknown
    BY <2>1, NamesOfEntries
  <2> QED
    BY <1>2, <2>1, <2>2 DEF Truthful
<1>5. m_inputDescriptor = Stream(0)
  BY DEF Init, Stream
<1> QED
  BY <1>1, <1>3, <1>4, <1>5 DEF RegisterInv, Init, Fine, PlaysAt

LEMMA NameStep ==
  ASSUME RegisterInv, UNCHANGED <<numIn, m_inputDescriptor, m_outputDescriptor>>,
         NEW word, NEW v \in Values, WriteByName(word, v)
  PROVE  RegisterInv'
<1>1. v \in Bytes
  BY ValuesAssumption DEF Bytes
<1>2. /\ memory' = writeReg(memory, word, v)
      /\ written' = Remember(written, Meant(word), v)
      /\ position' = IF Meant(word) \cap StreamName(numIn, 4) = {} THEN position
                     ELSE Unknown
      /\ asked' = IF "icw" \in Meant(word) THEN Unknown ELSE asked
  BY DEF WriteByName
<1>3. /\ Truthful(memory, written) /\ memory \in Memory /\ numIn \in 0..15
      /\ PlaysAt(memory, Stream(numIn) + 4, position)
  BY DEF RegisterInv, Fine, Truthful
<1>4. Truthful(memory', written')
  BY <1>1, <1>2, <1>3, NamedWrite
<1>5. PlaysAt(memory', Stream(numIn) + 4, position')
  <2>1. CASE Meant(word) \cap StreamName(numIn, 4) = {}
    BY <1>1, <1>2, <1>3, <2>1, NameKeepsPosition
  <2>2. CASE Meant(word) \cap StreamName(numIn, 4) # {}
    BY <1>2, <2>2 DEF PlaysAt
  <2> QED
    BY <2>1, <2>2
<1>6. asked' # Unknown => asked' \in Verbs /\ written'["icw"] = CommandWord(asked')
  BY <1>2, IcwKept DEF RegisterInv
<1> QED
  BY <1>3, <1>4, <1>5, <1>6 DEF RegisterInv, Fine

(* Where the register at distance f of stream s is.                        *)
Place(s, f) == Stream(s) + f

(* The registers that are written beside the position.                     *)
Others == Fields \ {4}

(* The numbers of streams.                                                 *)
Numbers == 0..15

(* A write to a register of stream s that is not its position.             *)
LEMMA OneStreamWrite ==
  ASSUME NEW mem, NEW given, NEW at \in Numbers, NEW p, Fine(mem, given, at, p),
         NEW s \in Numbers, NEW f \in Others, NEW v \in Quad
  PROVE  /\ Fine(Write(mem, Place(s, f), v), Remember(given, StreamName(s, f), v), at, p)
         /\ Remember(given, StreamName(s, f), v)["icw"] = given["icw"]
<1>1. Truthful(Write(mem, Place(s, f), v), Remember(given, StreamName(s, f), v))
  BY StreamWrite DEF Fine, Place, Quad, Others, Numbers
<1>2. mem \in Memory
  BY DEF Fine, Truthful
<1>3. PlaysAt(Write(mem, Place(s, f), v), Stream(at) + 4, p)
  BY <1>2, StreamKeepsPosition DEF Fine, Place, Quad, Others, Numbers
<1>4. "icw" \notin StreamName(s, f)
  BY NotOfStreams DEF Others, Numbers
<1> QED
  BY <1>1, <1>3, <1>4, IcwKept DEF Fine

(* A write by one of the names the driver uses.                            *)
LEMMA OneNameWrite ==
  ASSUME NEW mem, NEW given, NEW at \in Numbers, NEW p, Fine(mem, given, at, p),
         NEW n \in {"icw", "ics", "dplbase", "dpubase"}, NEW v \in Bytes
  PROVE  /\ Fine(writeReg(mem, n, v), Remember(given, {n}, v), at, p)
         /\ n # "icw" => Remember(given, {n}, v)["icw"] = given["icw"]
<1>1. n \in Names
  BY DriverNames
<1>2. Truthful(writeReg(mem, n, v), Remember(given, {n}, v))
  BY <1>1, FullNameWrite DEF Fine
<1>3. PlaysAt(writeReg(mem, n, v), Stream(at) + 4, p)
  <2>1. Meant(n) = {n}
    BY <1>1, MeantIsName
  <2>2. n \notin StreamName(at, 4)
    BY NotOfStreams DEF Fields, Numbers
  <2>3. Meant(n) \cap StreamName(at, 4) = {}
    BY <2>1, <2>2
  <2>4. mem \in Memory
    BY DEF Fine, Truthful
  <2> QED
    BY <2>3, <2>4, NameKeepsPosition DEF Fine, Numbers
<1>4. n # "icw" => Remember(given, {n}, v)["icw"] = given["icw"]
  BY IcwKept
<1> QED
  BY <1>2, <1>3, <1>4 DEF Fine

(* What remains of a step that changes none of the descriptors.            *)
LEMMA StepInv ==
  ASSUME RegisterInv, UNCHANGED <<numIn, m_inputDescriptor, m_outputDescriptor>>,
         Fine(memory', written', numIn, position'),
         asked' # Unknown => asked' \in Verbs /\ written'["icw"] = CommandWord(asked')
  PROVE  RegisterInv'
  BY DEF RegisterInv

LEMMA InvParts ==
  ASSUME RegisterInv
  PROVE  /\ numIn \in Numbers /\ 0 \in Numbers
         /\ m_inputDescriptor = Stream(0) /\ m_outputDescriptor = Stream(numIn)
         /\ Fine(memory, written, numIn, position)
  BY DEF RegisterInv, Numbers

(* A step of one write to the stream numbered s.                           *)
LEMMA StreamStep ==
  ASSUME RegisterInv, UNCHANGED <<numIn, m_inputDescriptor, m_outputDescriptor>>,
         NEW s \in Numbers, NEW f \in Others, NEW v \in Quad,
         memory' = Write(memory, Place(s, f), v),
         written' = Remember(written, StreamName(s, f), v),
         UNCHANGED <<position, asked>>
  PROVE  RegisterInv'
<1>0. numIn \in Numbers /\ Fine(memory, written, numIn, position)
  BY InvParts
<1>1. /\ Fine(memory', written', numIn, position')
      /\ written'["icw"] = written["icw"]
  BY <1>0, OneStreamWrite
<1>2. asked' # Unknown => asked' \in Verbs /\ written'["icw"] = CommandWord(asked')
  BY <1>1 DEF RegisterInv
<1> QED
  BY <1>1, <1>2, StepInv

LEMMA ValueBytes ==
  ASSUME NEW v \in Values
  PROVE  /\ SubSeq(v, 1, 4) \in Quad
         /\ <<v[1], v[2], 0, 0>> \in Quad
<1>1. v \in [1..8 -> Byte]
  BY ValuesAssumption
<1>2. SubSeq(v, 1, 4) \in Quad
  BY <1>1, PrefixBytes DEF Bytes, Quad
<1>3. v[1] \in Byte /\ v[2] \in Byte /\ 0 \in Byte
  BY <1>1 DEF Byte
<1> QED
  BY <1>2, <1>3, FourBytes DEF Quad

LEMMA WriteOutputStep ==
  ASSUME RegisterInv, UNCHANGED <<numIn, m_inputDescriptor, m_outputDescriptor>>,
         NEW f \in Others, NEW v \in Quad, WriteOutput(f, v)
  PROVE  RegisterInv'
<1>1. /\ memory' = Write(memory, Place(numIn, f), v)
      /\ written' = Remember(written, StreamName(numIn, f), v)
      /\ UNCHANGED <<position, asked>>
  BY InvParts DEF WriteOutput, Place
<1> QED
  BY <1>1, InvParts, StreamStep

LEMMA TurnOffStep ==
  ASSUME RegisterInv, UNCHANGED <<numIn, m_inputDescriptor, m_outputDescriptor>>,
         outputStreamTurnOff
  PROVE  RegisterInv'
<1> DEFINE stop == <<0, 0, 20, 0>>
<1>1. stop \in Quad
  BY ConstantBytes DEF Quad
<1>2. 0 \in Others /\ Place(0, 0) = Stream(0)
  BY DEF Fields, Stream, Place, Others
<1>3. /\ memory' = Write(memory, Place(0, 0), stop)
      /\ written' = Remember(written, StreamName(0, 0), stop)
      /\ UNCHANGED <<position, asked>>
  BY <1>2, InvParts DEF outputStreamTurnOff
<1> HIDE DEF stop
<1> QED
  BY <1>1, <1>2, <1>3, InvParts, StreamStep

LEMMA DescriptorListStep ==
  ASSUME RegisterInv, UNCHANGED <<numIn, m_inputDescriptor, m_outputDescriptor>>,
         outputStreamSetDescriptorList
  PROVE  RegisterInv'
<1>0. numIn \in Numbers /\ Fine(memory, written, numIn, position)
  BY InvParts
<1> DEFINE one == <<1, 0, 0, 0>>
           low  == Write(memory, Place(numIn, 24), DescriptorBuffer)
           high == Write(low, Place(numIn, 28), Zero)
           lowGiven == Remember(written, StreamName(numIn, 24), DescriptorBuffer)
           highGiven == Remember(lowGiven, StreamName(numIn, 28), Zero)
<1>1. one \in Quad /\ Zero \in Quad
  BY ConstantBytes DEF Quad
<1>2. DescriptorBuffer \in Quad
  BY ValuesAssumption DEF Quad
<1>3. 24 \in Others /\ 28 \in Others /\ 12 \in Others
  BY DEF Fields, Others
<1>4. /\ memory' = Write(high, Place(numIn, 12), one)
      /\ written' = Remember(highGiven, StreamName(numIn, 12), one)
      /\ UNCHANGED <<position, asked>>
  BY InvParts DEF outputStreamSetDescriptorList, Place
<1> HIDE DEF one
<1>5. /\ Fine(low, lowGiven, numIn, position)
      /\ lowGiven["icw"] = written["icw"]
  BY <1>2, <1>3, <1>0, OneStreamWrite
<1> HIDE DEF low, lowGiven
<1>6. /\ Fine(high, highGiven, numIn, position)
      /\ highGiven["icw"] = lowGiven["icw"]
  BY <1>1, <1>3, <1>5, <1>0, OneStreamWrite
<1> HIDE DEF high, highGiven
<1>7. /\ Fine(memory', written', numIn, position)
      /\ written'["icw"] = highGiven["icw"]
  BY <1>1, <1>3, <1>4, <1>6, <1>0, OneStreamWrite
<1>8. asked' # Unknown => asked' \in Verbs /\ written'["icw"] = CommandWord(asked')
  BY <1>4, <1>5, <1>6, <1>7 DEF RegisterInv
<1> QED
  BY <1>4, <1>7, <1>8, StepInv

LEMMA TurnOnStep ==
  ASSUME RegisterInv, UNCHANGED <<numIn, m_inputDescriptor, m_outputDescriptor>>,
         outputStreamTurnOn
  PROVE  RegisterInv'
<1>0. numIn \in Numbers /\ Fine(memory, written, numIn, position)
  BY InvParts
<1> DEFINE dplbase == [PositionBuffer EXCEPT ![1] = 1]
           run == <<2, 0, 20, 0>>
           low  == writeReg(memory, "dplbase", dplbase)
           high == writeReg(low, "dpubase", Zero)
           lowGiven == Remember(written, {"dplbase"}, dplbase)
           highGiven == Remember(lowGiven, {"dpubase"}, Zero)
<1>1. run \in Quad /\ Zero \in Quad /\ 0 \in Others
  BY ConstantBytes DEF Fields, Quad, Others
<1>2. dplbase \in Quad
  <2>1. PositionBuffer \in Quad /\ 1 \in Byte
    BY ValuesAssumption DEF Byte, Quad
  <2> QED
    BY <2>1 DEF Quad
<1>3. Place(numIn, 0) = Stream(numIn)
  BY InvParts DEF Stream, Place, Numbers
<1>4. /\ memory' = Write(high, Place(numIn, 0), run)
      /\ written' = Remember(highGiven, StreamName(numIn, 0), run)
      /\ UNCHANGED <<position, asked>>
  BY <1>3, InvParts DEF outputStreamTurnOn
<1> HIDE DEF run, dplbase
<1>5. dplbase \in Bytes /\ Zero \in Bytes
  BY <1>1, <1>2 DEF Bytes, Quad
<1>6. /\ Fine(low, lowGiven, numIn, position)
      /\ lowGiven["icw"] = written["icw"]
  BY <1>5, <1>0, OneNameWrite
<1> HIDE DEF low, lowGiven
<1>7. /\ Fine(high, highGiven, numIn, position)
      /\ highGiven["icw"] = lowGiven["icw"]
  BY <1>5, <1>6, <1>0, OneNameWrite
<1> HIDE DEF high, highGiven
<1>8. /\ Fine(memory', written', numIn, position)
      /\ written'["icw"] = highGiven["icw"]
  BY <1>1, <1>4, <1>7, <1>0, OneStreamWrite
<1>9. asked' # Unknown => asked' \in Verbs /\ written'["icw"] = CommandWord(asked')
  BY <1>4, <1>6, <1>7, <1>8 DEF RegisterInv
<1> QED
  BY <1>4, <1>8, <1>9, StepInv

LEMMA SendStep ==
  ASSUME RegisterInv, UNCHANGED <<numIn, m_inputDescriptor, m_outputDescriptor>>,
         NEW c \in Verbs, sendVerb(c)
  PROVE  RegisterInv'
<1>0. numIn \in Numbers /\ Fine(memory, written, numIn, position)
  BY InvParts
<1> DEFINE clear == <<2, 0, 0, 0>>
           start == <<1, 0, 0, 0>>
           ready == writeReg(memory, "ics", clear)
           sent  == writeReg(ready, "icw", CommandWord(c))
           readyGiven == Remember(written, {"ics"}, clear)
           sentGiven  == Remember(readyGiven, {"icw"}, CommandWord(c))
<1>1. clear \in Quad /\ start \in Quad
  BY ConstantBytes DEF Quad
<1>2. CommandWord(c) \in Quad
  BY VerbsAssumption, CommandBytes DEF Quad
<1>3. /\ memory' = writeReg(sent, "ics", start)
      /\ written' = Remember(sentGiven, {"ics"}, start)
      /\ asked' = c /\ position' = position
  BY DEF sendVerb
<1> HIDE DEF clear, start
<1>4. clear \in Bytes /\ start \in Bytes /\ CommandWord(c) \in Bytes
  BY <1>1, <1>2 DEF Bytes, Quad
<1>5. Fine(ready, readyGiven, numIn, position)
  BY <1>4, <1>0, OneNameWrite
<1> HIDE DEF ready, readyGiven
<1>6. Fine(sent, sentGiven, numIn, position)
  BY <1>4, <1>5, <1>0, OneNameWrite
<1>7. sentGiven["icw"] = CommandWord(c)
  BY IcwWritten
<1> HIDE DEF sent, sentGiven
<1>8. /\ Fine(memory', written', numIn, position)
      /\ written'["icw"] = sentGiven["icw"]
  BY <1>3, <1>4, <1>6, <1>0, OneNameWrite
<1>9. asked' \in Verbs /\ written'["icw"] = CommandWord(asked')
  BY <1>3, <1>7, <1>8
<1> QED
  BY <1>3, <1>8, <1>9, StepInv

LEMMA AdvanceStep ==
  ASSUME RegisterInv, UNCHANGED <<numIn, m_inputDescriptor, m_outputDescriptor>>,
         Advance
  PROVE  RegisterInv'
<1>1. PICK p \in Positions :
        /\ memory' = Write(memory, Stream(numIn) + 4, p)
        /\ written' = Remember(written, StreamName(numIn, 4), p)
        /\ position' = p
        /\ UNCHANGED asked
  BY DEF Advance
<1>2. p \in Quad /\ 4 \in Fields
  BY ValuesAssumption DEF Fields, Quad, Others
<1>3. Truthful(memory', written')
  BY <1>1, <1>2, InvParts, StreamWrite DEF Fine, Quad, Numbers
<1>4. PlaysAt(memory', Stream(numIn) + 4, position')
  <2>1. PICK at \in 0..636 : at = Stream(numIn) + 4
    BY InvParts DEF Stream, Numbers
  <2>2. at \in Nat /\ 4 \in 0..4 /\ memory \in Memory /\ p \in Row(4)
    BY <1>2, InvParts DEF Fine, Truthful, Quad, Row
  <2>3. Differs(memory, memory', at, 4, p)
    BY <1>1, <2>1, <2>2, WriteAt
  <2>4. \A i \in 1..4 : at + i - 1 <= 639
    OBVIOUS
  <2>5. \A i \in 1..4 : memory'[at + i - 1] = p[i]
    BY <2>3, <2>4 DEF Differs
  <2> QED
    BY <1>1, <1>2, <2>1, <2>5 DEF PlaysAt, Quad
<1>5. written'["icw"] = written["icw"]
  <2>1. "icw" \notin StreamName(numIn, 4)
    BY <1>2, InvParts, NotOfStreams DEF Numbers
  <2> QED
    BY <1>1, <2>1, IcwKept
<1>6. asked' # Unknown => asked' \in Verbs /\ written'["icw"] = CommandWord(asked')
  BY <1>1, <1>5 DEF RegisterInv
<1> QED
  BY <1>3, <1>4, <1>6, StepInv DEF Fine

(* RegisterInv is an inductive invariant.                                  *)
LEMMA RegisterInvariance == Spec => []RegisterInv
<1>1. RegisterInv /\ [Next]_vars => RegisterInv'
  <2> SUFFICES ASSUME RegisterInv, [Next]_vars PROVE RegisterInv'
    OBVIOUS
  <2>1. CASE UNCHANGED vars
    BY <2>1 DEF RegisterInv, vars
  <2>2. CASE Finished
    BY <2>1, <2>2 DEF Finished
  <2>3. ASSUME Access, UNCHANGED <<numIn, m_inputDescriptor, m_outputDescriptor>>
        PROVE  RegisterInv'
    <3>1. ASSUME NEW word, NEW v \in Values, WriteByName(word, v) PROVE RegisterInv'
      BY <2>3, <3>1, NameStep
    <3>2. CASE outputStreamSetDescriptorList
      BY <2>3, <3>2, DescriptorListStep
    <3>3. ASSUME NEW v \in Values, outputStreamLength(v) PROVE RegisterInv'
      <4>1. 8 \in Others
        BY DEF Fields, Others
      <4>2. SubSeq(v, 1, 4) \in Quad
        BY ValueBytes
      <4> QED
        BY <2>3, <3>3, <4>1, <4>2, WriteOutputStep DEF outputStreamLength
    <3>4. ASSUME NEW v \in Values, outputStreamFormat(v) PROVE RegisterInv'
      <4>1. 18 \in Others
        BY DEF Fields, Others
      <4>2. <<v[1], v[2], 0, 0>> \in Quad
        BY ValueBytes
      <4> QED
        BY <2>3, <3>4, <4>1, <4>2, WriteOutputStep DEF outputStreamFormat
    <3>5. CASE outputStreamTurnOn
      BY <2>3, <3>5, TurnOnStep
    <3>6. CASE outputStreamTurnOff
      BY <2>3, <3>6, TurnOffStep
    <3>7. ASSUME NEW c \in Verbs, sendVerb(c) PROVE RegisterInv'
      BY <2>3, <3>7, SendStep
    <3> QED
      BY <2>3, <3>1, <3>2, <3>3, <3>4, <3>5, <3>6, <3>7 DEF Access
  <2>4. CASE Advance /\ UNCHANGED <<numIn, m_inputDescriptor, m_outputDescriptor>>
    BY <2>4, AdvanceStep
  <2> QED
    BY <2>1, <2>2, <2>3, <2>4 DEF Next
<1> QED
  BY InitInv, <1>1, PTL DEF Spec
-----------------------------------------------------------------------------
(* What is read.                                                           *)

LEMMA ReadsEntry ==
  ASSUME NEW mem, NEW j \in Entries
  PROVE  readReg(mem, Name(j)) = [i \in 1..Width(j) |-> mem[Offset(j) + i - 1]]
  BY NameReaches DEF readReg, ReadBytes, Offset, Width

(* Every register reads as what it was given last.                         *)
LEMMA AllHold ==
  ASSUME NEW mem, NEW given, Truthful(mem, given), NEW n \in Names
  PROVE  Holds(mem, given, n)
<1> SUFFICES ASSUME given[n] # Unknown
             PROVE  /\ readReg(mem, n) # <<>>
                    /\ readReg(mem, n) = SubSeq(given[n], 1, Len(readReg(mem, n)))
  BY DEF Holds
<1>1. PICK j \in Entries : n = Name(j)
  BY NamesOfEntries
<1>2. given[n] \in Bytes /\ Shows(mem, given[n], j)
  BY <1>1 DEF Truthful
<1>3. PICK k \in {1, 2, 4} : k = Width(j)
  BY EntryRanges
<1>4. readReg(mem, n) = [i \in 1..k |-> mem[Offset(j) + i - 1]]
  BY <1>1, <1>3, ReadsEntry
<1>5. \A i \in 1..k : mem[Offset(j) + i - 1] = given[n][i]
  BY <1>2, <1>3 DEF Shows
<1>6. readReg(mem, n) = [i \in 1..k |-> given[n][i]]
  BY <1>4, <1>5
<1>7. /\ SubSeq(given[n], 1, k) \in [1..k -> Byte]
      /\ \A i \in 1..k : SubSeq(given[n], 1, k)[i] = given[n][i]
  BY <1>2, PrefixBytes
<1>8. readReg(mem, n) = SubSeq(given[n], 1, k)
  BY <1>6, <1>7
<1>9. Len(readReg(mem, n)) = k /\ readReg(mem, n) # <<>>
  <2>1. PICK r : r = readReg(mem, n)
    OBVIOUS
  <2>2. r \in [1..k -> Byte]
    BY <1>7, <1>8, <2>1
  <2>3. r \in Seq(Byte) /\ Len(r) = k
    BY <2>2, LenProperties, SeqDef
  <2>4. Len(<<>>) = 0 /\ k # 0
    OBVIOUS
  <2> QED
    BY <2>1, <2>3, <2>4
<1> QED
  BY <1>8, <1>9

LEMMA StreamNamesAreNames == StreamNames \subseteq Names
<1>1. \A s \in {0, 4}, f \in Fields : StreamName(s, f) \subseteq Names
  BY StreamNameEntry, NamesOfEntries
<1> QED
  BY <1>1 DEF StreamNames

(* Every register that is not a stream's is reached by its full name, and   *)
(* by no access that names another, whatever word is given to "write".     *)
THEOREM NamesReachTheirOwn == Spec => []RegistersSeparate
<1>1. RegisterInv => RegistersSeparate
  BY AllHold DEF RegisterInv, Fine, RegistersSeparate
<1> QED
  BY RegisterInvariance, <1>1, PTL

(* What the driver writes to the stream it plays is read under the names    *)
(* of that stream and never seen under another's; "playpos" is where the   *)
(* controller is, whatever else was written.                               *)
THEOREM StreamsShowTheirOwn == Spec => []StreamShows
<1>1. RegisterInv => StreamShows
  <2> SUFFICES ASSUME RegisterInv PROVE StreamShows
    OBVIOUS
  <2>1. \A n \in StreamNames : Holds(memory, written, n)
    BY AllHold, StreamNamesAreNames DEF RegisterInv, Fine
  <2>2. ASSUME position # Unknown PROVE getPlayPos = position
    <3>1. /\ position \in [1..4 -> Byte] /\ m_outputDescriptor = Stream(numIn)
          /\ \A i \in 1..4 : memory[(Stream(numIn) + 4) + i - 1] = position[i]
      BY <2>2 DEF RegisterInv, Fine, PlaysAt
    <3>2. getPlayPos = [i \in 1..4 |-> memory[(Stream(numIn) + 4) + i - 1]]
      BY <3>1 DEF getPlayPos, ReadBytes
    <3>3. getPlayPos = [i \in 1..4 |-> position[i]]
      BY <3>1, <3>2
    <3> QED
      BY <3>1, <3>3
  <2> QED
    BY <2>1, <2>2 DEF StreamShows
<1> QED
  BY RegisterInvariance, <1>1, PTL
-----------------------------------------------------------------------------
(* The command word, for every node, verb and payload.                     *)

(* The disjunction of bytes: of nothing, of one below 16, of one below 16   *)
(* and a multiple of 16, and of two below 16.                              *)
LEMMA OrNothing == \A x \in Byte : Or(x, 0) = x /\ Or(0, x) = x
  BY DEF Or, Byte

LEMMA OrNibbles == \A x, y \in 0..15 : Or(x, 16 * y) = x + 16 * y
  BY DEF Or

LEMMA OrHighNibble == \A x, y \in 0..15 : Or(x, 16 * y) \div 16 = y
  BY OrNibbles

LEMMA OrLowNibbles == \A x, y \in 0..15 : Or(x, y) \in 0..15
  BY DEF Or

(* The bytes of the three numbers that are in the word.                    *)
LEMMA NodeBytes ==
  ASSUME NEW n \in Nat
  PROVE  /\ ByteOf(n * 16, 0) = 16 * (n % 16)
         /\ ByteOf(n * 16, 1) = (n \div 16) % 256
<1>1. 256^0 = 1 /\ 256^1 = 256
  OBVIOUS
<1>2. (n * 16) % 256 = 16 * (n % 16)
  OBVIOUS
<1>3. (n * 16) \div 1 = n * 16 /\ (n * 16) \div 256 = n \div 16
  OBVIOUS
<1> QED
  BY <1>1, <1>2, <1>3 DEF ByteOf

LEMMA VerbBytes ==
  ASSUME NEW v \in Nat, v < 4096
  PROVE  /\ ByteOf(v, 0) = v % 256 /\ ByteOf(v, 0) \in Byte
         /\ ByteOf(v, 1) = v \div 256 /\ ByteOf(v, 1) \in 0..15
         /\ ByteOf(v, 2) = 0
<1>1. 256^0 = 1 /\ 256^1 = 256 /\ 256^2 = 65536
  OBVIOUS
<1>2. v \div 1 = v /\ v % 256 \in Byte
  BY DEF Byte
<1>3. v \div 256 \in 0..15 /\ (v \div 256) % 256 = v \div 256
  OBVIOUS
<1>4. v \div 65536 = 0
  OBVIOUS
<1> QED
  BY <1>1, <1>2, <1>3, <1>4 DEF ByteOf

LEMMA PayloadBytes ==
  ASSUME NEW p \in Nat
  PROVE  /\ ByteOf(p, 0) = p % 256 /\ ByteOf(p, 0) \in Byte /\ ByteOf(p, 1) \in Byte
         /\ p < 65536 => ByteOf(p, 1) = p \div 256 /\ ByteOf(p, 2) = 0
         /\ p < 2^20 => ByteOf(p, 2) \in 0..15 /\ ByteOf(p, 3) = 0
         /\ p < 2^28 => ByteOf(p, 3) \in 0..15
<1>1. /\ 256^0 = 1 /\ 256^1 = 256 /\ 256^2 = 65536 /\ 256^3 = 16777216
      /\ 2^20 = 1048576 /\ 2^28 = 268435456
  OBVIOUS
<1>2. p \div 1 = p /\ p % 256 \in Byte /\ (p \div 256) % 256 \in Byte
  BY DEF Byte
<1>3. p < 65536 => (p \div 256) % 256 = p \div 256 /\ (p \div 65536) % 256 = 0
  OBVIOUS
<1>4. p < 1048576 => (p \div 65536) % 256 \in 0..15 /\ (p \div 16777216) % 256 = 0
  OBVIOUS
<1>5. p < 268435456 => (p \div 16777216) % 256 \in 0..15
  OBVIOUS
<1> QED
  BY <1>1, <1>2, <1>3, <1>4, <1>5 DEF ByteOf

(* A command within 12 bits of verb: its word, byte by byte.               *)
LEMMA WordBytes ==
  ASSUME NEW c \in [node : Nat, verb : Nat, payload : Nat], c.verb < 4096,
         NEW w, w = CommandWord(c)
  PROVE  /\ w[1] = ByteOf(c.payload, 0)
         /\ w[2] = Or(ByteOf(c.payload, 1), ByteOf(c.verb, 0))
         /\ w[3] = Or(Or(ByteOf(c.payload, 2), ByteOf(c.verb, 1)), 16 * (c.node % 16))
         /\ w[4] = Or(Or(ByteOf(c.payload, 3), 0), (c.node \div 16) % 256)
<1>1. /\ ByteOf(c.verb, 2) = 0
      /\ ByteOf(c.node * 16, 0) = 16 * (c.node % 16)
      /\ ByteOf(c.node * 16, 1) = (c.node \div 16) % 256
  BY VerbBytes, NodeBytes
<1> QED
  BY <1>1 DEF CommandWord

(* The codec is addressed rightly if the payload has no more than 28 bits.  *)
LEMMA CodecZero ==
  ASSUME NEW c \in [node : Nat, verb : Nat, payload : Nat],
         c.node < 256, c.verb < 4096, c.payload < 2^28,
         NEW w, w = CommandWord(c)
  PROVE  w[4] \div 16 = 0
<1>1. PICK h : h = ByteOf(c.payload, 3)
  OBVIOUS
<1>2. h \in 0..15
  BY <1>1, PayloadBytes
<1>3. PICK n : n = (c.node \div 16) % 256
  OBVIOUS
<1>4. n \in 0..15
  BY <1>3
<1>5. w[4] = Or(Or(h, 0), n)
  BY <1>1, <1>3, WordBytes
<1>6. Or(h, 0) = h
  BY <1>2, OrNothing DEF Byte
<1>7. Or(h, n) \in 0..15
  BY <1>2, <1>4, OrLowNibbles
<1> QED
  BY <1>5, <1>6, <1>7

(* The node is addressed rightly, but for its bits beyond eight, if the     *)
(* payload has no more than 20 bits.                                       *)
LEMMA NodeReached ==
  ASSUME NEW c \in [node : Nat, verb : Nat, payload : Nat],
         c.verb < 4096, c.payload < 2^20,
         NEW w, w = CommandWord(c)
  PROVE  16 * (w[4] % 16) + w[3] \div 16 = c.node % 256
<1>1. PICK p, v, n : /\ p = ByteOf(c.payload, 2) /\ v = ByteOf(c.verb, 1)
                     /\ n = c.node
  OBVIOUS
<1>2. p \in 0..15 /\ v \in 0..15 /\ n \in Nat /\ ByteOf(c.payload, 3) = 0
  BY <1>1, PayloadBytes, VerbBytes
<1>3. w[4] = Or(Or(0, 0), (n \div 16) % 256) /\ w[3] = Or(Or(p, v), 16 * (n % 16))
  BY <1>1, <1>2, WordBytes
<1>4. w[4] = (n \div 16) % 256
  <2>1. (n \div 16) % 256 \in Byte /\ 0 \in Byte
    BY <1>2 DEF Byte
  <2> QED
    BY <1>3, <2>1, OrNothing
<1>5. w[3] \div 16 = n % 16
  <2>1. Or(p, v) \in 0..15
    BY <1>2, OrLowNibbles
  <2>2. n % 16 \in 0..15
    BY <1>2
  <2> QED
    BY <1>3, <2>1, <2>2, OrHighNibble
<1>6. 16 * (((n \div 16) % 256) % 16) + (n % 16) = n % 256
  BY <1>2
<1> QED
  BY <1>1, <1>4, <1>5, <1>6

(* A command whose fields are within their widths is what is executed.     *)
LEMMA FieldsArrive ==
  ASSUME NEW c \in [node : Nat, verb : Nat, payload : Nat], InFields(c),
         NEW w, w = CommandWord(c)
  PROVE  Executed(w) = [codec |-> 0, node |-> c.node, verb |-> c.verb,
                        payload |-> c.payload]
<1>1. c.node \in Nat /\ c.verb \in Nat /\ c.payload \in Nat
  OBVIOUS
<1>2. c.node < 256 /\ c.verb < 4096 /\ c.payload < 65536
  BY <1>1 DEF InFields
<1>3. 65536 < 2^20 /\ 65536 < 2^28 /\ c.payload < 2^20 /\ c.payload < 2^28
  <2>1. 2^20 = 1048576 /\ 2^28 = 268435456
    OBVIOUS
  <2> QED
    BY <1>1, <1>2, <2>1
<1>4. w[4] \div 16 = 0
  BY <1>2, <1>3, CodecZero
<1>5. 16 * (w[4] % 16) + w[3] \div 16 = c.node
  <2>1. c.node % 256 = c.node
    BY <1>1, <1>2
  <2> QED
    BY <1>2, <1>3, <2>1, NodeReached
<1>6. PICK v, p : v = c.verb /\ p = c.payload
  OBVIOUS
<1>7. /\ v \in Nat /\ p \in Nat /\ v < 4096 /\ p < 65536
      /\ IF IsLong(v) THEN p < 256 ELSE v % 256 = 0
  BY <1>1, <1>2, <1>6 DEF InFields
<1>8. w[1] = p % 256
  BY <1>2, <1>6, <1>7, PayloadBytes, WordBytes
<1>9. w[3] % 16 = v \div 256 /\ v \div 256 \in 0..15
  <2>1. /\ ByteOf(c.payload, 2) = 0 /\ ByteOf(c.verb, 1) = v \div 256
        /\ ByteOf(c.verb, 1) \in 0..15
    BY <1>1, <1>2, <1>6, PayloadBytes, VerbBytes
  <2>2. PICK n : n = c.node % 16
    OBVIOUS
  <2>3. n \in 0..15
    BY <1>1, <2>2
  <2>4. w[3] = Or(Or(0, v \div 256), 16 * n)
    BY <1>2, <2>1, <2>2, WordBytes
  <2>5. PICK h \in 0..15 : h = v \div 256
    BY <2>1
  <2>6. Or(0, h) = h
    BY <2>5, OrNothing DEF Byte
  <2>7. w[3] = h + 16 * n
    BY <2>3, <2>4, <2>5, <2>6, OrNibbles
  <2> QED
    BY <2>3, <2>5, <2>7
<1>10. w[2] = IF IsLong(v) THEN v % 256 ELSE p \div 256
  <2>1. /\ ByteOf(c.payload, 1) = p \div 256 /\ ByteOf(c.payload, 1) \in Byte
        /\ ByteOf(c.verb, 0) = v % 256 /\ ByteOf(c.verb, 0) \in Byte
    BY <1>1, <1>2, <1>6, PayloadBytes, VerbBytes
  <2>2. w[2] = Or(ByteOf(c.payload, 1), ByteOf(c.verb, 0))
    BY <1>2, WordBytes
  <2>3. CASE IsLong(v)
    <3>1. p \div 256 = 0
      BY <1>7, <2>3
    <3> QED
      BY <2>1, <2>2, <2>3, <3>1, OrNothing
  <2>4. CASE ~IsLong(v)
    <3>1. v % 256 = 0
      BY <1>7, <2>4
    <3> QED
      BY <2>1, <2>2, <2>4, <3>1, OrNothing
  <2> QED
    BY <2>3, <2>4
<1>11. PICK whole : whole = 256 * (w[3] % 16) + w[2]
  OBVIOUS
<1>12. CASE IsLong(v)
  <2>1. whole = v
    BY <1>7, <1>9, <1>10, <1>11, <1>12
  <2>2. w[1] = p
    BY <1>7, <1>8, <1>12
  <2> QED
    BY <1>4, <1>5, <1>6, <1>11, <1>12, <2>1, <2>2 DEF Executed
<1>13. CASE ~IsLong(v)
  <2>1. PICK h, q : h = v \div 256 /\ q = p \div 256
    OBVIOUS
  <2>2. h \in 0..15 /\ q \in 0..255 /\ w[3] % 16 = h /\ w[2] = q
    BY <1>7, <1>9, <1>10, <1>13, <2>1
  <2>3. whole = 256 * h + q /\ whole \div 256 = h
    <3>1. whole = 256 * h + q
      BY <1>11, <2>2
    <3>2. (256 * h + q) \div 256 = h
      BY <2>2
    <3> QED
      BY <3>1, <3>2
  <2>4. ~IsLong(whole)
    BY <1>13, <2>1, <2>3 DEF IsLong
  <2>5. 256 * (w[3] % 16) = v
    BY <1>7, <1>13, <2>1, <2>2
  <2>6. 256 * w[2] + w[1] = p
    BY <1>7, <1>8, <2>1, <2>2
  <2> QED
    BY <1>4, <1>5, <1>6, <1>11, <2>4, <2>5, <2>6 DEF Executed
<1> QED
  BY <1>12, <1>13

(* Whatever is written to other registers after it, the codec finds in ICW  *)
(* what sendVerb was given if the fields are within their widths; wider     *)
(* fields reach the codec's number from bit 28 on and the node's from bit   *)
(* 20 on.                                                                  *)
THEOREM CodecFindsVerb == Spec => []VerbIntact
<1>1. RegisterInv => VerbIntact
  <2> SUFFICES ASSUME RegisterInv, asked # Unknown PROVE VerbIntact
    BY DEF VerbIntact
  <2>1. asked \in [node : Nat, verb : Nat, payload : Nat]
    BY VerbsAssumption DEF RegisterInv
  <2>2. PICK w : w = CommandWord(asked)
    OBVIOUS
  <2>3. readReg(memory, "icw") = w
    <3>1. written["icw"] = w /\ w \in [1..4 -> Byte]
      BY <2>1, <2>2, CommandBytes DEF RegisterInv
    <3>2. 40 \in Entries /\ Name(40) = "icw" /\ Width(40) = 4
      BY DEF Entries, Name, Width, regs, Reg
    <3>3. readReg(memory, "icw") = [i \in 1..4 |-> memory[Offset(40) + i - 1]]
      <4>1. readReg(memory, Name(40))
              = [i \in 1..Width(40) |-> memory[Offset(40) + i - 1]]
        BY <3>2, ReadsEntry
      <4> QED
        BY <3>2, <4>1
    <3>4. w # Unknown
      BY <2>2 DEF CommandWord, Unknown
    <3>5. Shows(memory, w, 40)
      BY <3>1, <3>2, <3>4 DEF RegisterInv, Fine, Truthful
    <3>6. readReg(memory, "icw") = [i \in 1..4 |-> w[i]]
      BY <3>2, <3>3, <3>5 DEF Shows
    <3> QED
      BY <3>1, <3>6
  <2>4. Executed(w).codec = w[4] \div 16
    BY DEF Executed
  <2>5. Executed(w).node = 16 * (w[4] % 16) + w[3] \div 16
    BY DEF Executed
  <2>6. InFields(asked) => Executed(w) = [codec |-> 0, node |-> asked.node,
                                          verb |-> asked.verb, payload |-> asked.payload]
    BY <2>1, <2>2, FieldsArrive
  <2>7. asked.node < 256 /\ asked.verb < 4096 /\ asked.payload < 2^28
          => Executed(w).codec = 0
    BY <2>1, <2>2, <2>4, CodecZero
  <2>8. asked.payload < 2^20 /\ asked.verb < 4096 => Executed(w).node = asked.node % 256
    BY <2>1, <2>2, <2>5, NodeReached
  <2> QED
    BY <2>3, <2>6, <2>7, <2>8 DEF VerbIntact
<1> QED
  BY RegisterInvariance, <1>1, PTL
=============================================================================
