---------------------------- MODULE ConsoleProofs ----------------------------
(***************************************************************************)
(* Proofs about Console, for every size of the array, every rubbish in it, *)
(* every set of keys and of commands: the types (TypeCorrect), that the    *)
(* console implements CommandLine (ImplementsLine), and that the numbers   *)
(* among the words are read as written (ValuesAreExact).                   *)
(*                                                                         *)
(* TypeOK is inductive, and it is the only invariant the refinement needs: *)
(* a step of the console reads nothing of the array but the line before    *)
(* the index, which the refinement mapping shows, and the terminator it    *)
(* has just written. The work is in Enter, where loops over an array with  *)
(* indices meet a definition of words by sets of positions. Two inductions *)
(* carry it, over the calls a command makes of findNextParam; they are     *)
(* inductions over a set of numbers, that of the calls a statement holds   *)
(* for. What they show of each call is Continues: the call before ended    *)
(* where no word goes on, with as many words passed as calls were made.    *)
(* The values need of the words that they are texts (WordsTyped), and of   *)
(* the loop over a text that value and places together keep their          *)
(* remainder while digit after digit moves from the one to the other.      *)
(***************************************************************************)
EXTENDS Console, FiniteSetTheorems, SequenceTheorems, WellFoundedInduction, TLAPS
-----------------------------------------------------------------------------
(* Induction over the natural numbers, over a set: a proposition with a    *)
(* parameter is the set of the numbers it holds of.                        *)
LEMMA LessThanRelation == OpToRel(<, Nat) = {ss \in Nat \X Nat : ss[1] < ss[2]}
  BY DEF OpToRel

(* A set of numbers that is not empty has a least one: < is well-founded   *)
(* on the natural numbers.                                                 *)
LEMMA LeastNumber ==
  ASSUME NEW T \in SUBSET Nat, T # {}
  PROVE  \E x \in T : \A y \in T : x <= y
<1> DEFINE R == {ss \in Nat \X Nat : ss[1] < ss[2]}
<1>1. IsWellFoundedOn(R, Nat)
  BY NatLessThanWellFounded, LessThanRelation
<1>2. \A x, y \in Nat : x < y => <<x, y>> \in R
  OBVIOUS
<1> HIDE DEF R
<1>3. PICK x \in T : \A y \in T : ~(<<y, x>> \in R)
  BY <1>1, WFMin
<1>4. ASSUME NEW y \in T PROVE x <= y
  <2>1. x \in Nat /\ y \in Nat /\ ~(<<y, x>> \in R)
    BY <1>3
  <2>2. ~(y < x)
    BY <1>2, <2>1
  <2> QED
    BY <2>1, <2>2
<1> QED
  BY <1>4

(* A set that has 0, and n + 1 with every n, has every number.             *)
LEMMA InductiveSet ==
  ASSUME NEW T, 0 \in T, \A n \in Nat : n \in T => n + 1 \in T
  PROVE  Nat \subseteq T
<1> SUFFICES ASSUME ~(Nat \subseteq T) PROVE FALSE
  OBVIOUS
<1>1. PICK x \in Nat \ T : \A y \in Nat \ T : x <= y
  BY LeastNumber, Zenon
<1> QED
  BY <1>1

(* Where a loop ends that stops at the offsets in S.                       *)
LEMMA StopsAt ==
  ASSUME NEW v, NEW S \in SUBSET Nat, NEW m \in S, \A y \in S : m <= y
  PROVE  FirstOf(v, S) = m
<1>1. PICK x \in S : x = Min(S) /\ \A y \in S : x <= y
  BY Zenon DEF Min
<1>2. x = m
  BY <1>1
<1> QED
  BY <1>1, <1>2 DEF FirstOf
-----------------------------------------------------------------------------
(* The calls of findNextParam, one for the remainder of the other.         *)
Step(mem, v, f, i) == IF i = 0 THEN [param |-> v, remainder |-> v]
                      ELSE findNextParam(mem, f[i - 1].remainder)

(* The recursive function of Calls exists, and its values are what its     *)
(* definition says: by induction there is such a function on 0..k for      *)
(* every k.                                                                *)
LEMMA CallsDefined ==
  ASSUME NEW mem, NEW v, NEW n \in Nat
  PROVE  LET call == Calls(mem, v, n) IN
         /\ call[0] = [param |-> v, remainder |-> v]
         /\ \A i \in 1..n : call[i] = findNextParam(mem, call[i - 1].remainder)
<1> DEFINE T == {k \in Nat : \E f : f = [i \in 0..k |-> Step(mem, v, f, i)]}
<1>1. 0 \in T
  <2> DEFINE f == [i \in 0..0 |-> [param |-> v, remainder |-> v]]
  <2>1. f = [i \in 0..0 |-> Step(mem, v, f, i)]
    BY DEF Step
  <2> QED
    BY <2>1
<1>2. ASSUME NEW k \in Nat, k \in T PROVE k + 1 \in T
  <2>1. PICK f : f = [i \in 0..k |-> Step(mem, v, f, i)]
    BY <1>2
  <2> DEFINE g == [i \in 0..(k + 1) |-> IF i <= k THEN f[i]
                                         ELSE findNextParam(mem, f[k].remainder)]
  <2>2. ASSUME NEW i \in 0..(k + 1) PROVE g[i] = Step(mem, v, g, i)
    <3>1. CASE i = 0
      BY <2>1, <3>1 DEF Step
    <3>2. CASE i \in 1..k
      <4>1. g[i] = f[i] /\ g[i - 1] = f[i - 1]
        BY <3>2
      <4>2. f[i] = findNextParam(mem, f[i - 1].remainder)
        BY <2>1, <3>2 DEF Step
      <4> QED
        BY <3>2, <4>1, <4>2 DEF Step
    <3>3. CASE i = k + 1
      <4>1. g[i] = findNextParam(mem, f[k].remainder) /\ g[i - 1] = f[k]
        BY <3>3
      <4> QED
        BY <3>3, <4>1 DEF Step
    <3> QED
      BY <3>1, <3>2, <3>3
  <2>3. g = [i \in 0..(k + 1) |-> Step(mem, v, g, i)]
    <3>1. g = [i \in 0..(k + 1) |-> g[i]]
      OBVIOUS
    <3> HIDE DEF g
    <3> QED
      BY <2>2, <3>1, Zenon
  <2> HIDE DEF g
  <2>4. \E h : h = [i \in 0..(k + 1) |-> Step(mem, v, h, i)]
    BY <2>3, Zenon
  <2> QED
    BY <2>4
<1>3. n \in T
  <2> HIDE DEF T
  <2>1. \A k \in Nat : k \in T => k + 1 \in T
    BY <1>2
  <2>2. Nat \subseteq T
    BY <1>1, <2>1, InductiveSet, Zenon
  <2> QED
    BY <2>2
<1> DEFINE call == Calls(mem, v, n)
<1>4. PICK f : f = [i \in 0..n |-> Step(mem, v, f, i)]
  BY <1>3
<1>5. call = [i \in 0..n |-> Step(mem, v, call, i)]
  BY <1>4, Zenon DEF Calls, Step
<1> HIDE DEF call
<1>6. \A i \in 0..n : call[i] = Step(mem, v, call, i)
  BY <1>5
<1>7. \A i \in 1..n : call[i] = findNextParam(mem, call[i - 1].remainder)
  BY <1>6 DEF Step
<1>8. call[0] = [param |-> v, remainder |-> v]
  BY <1>6 DEF Step
<1> QED
  BY <1>7, <1>8 DEF call
-----------------------------------------------------------------------------
(* The array when a command is run, and the line in it.                    *)
IsArray(mem, size) == /\ mem \in [Indices -> Bytes] /\ size \in Indices
                      /\ mem[size] = 0

Typed(mem, size) == [i \in 1..size |-> mem[i - 1]]

(* sizeof(consoleBuffer), as a number.                                     *)
LEMMA SizeBounds == BufferSize \in Nat /\ BufferSize > 1
  BY SizeAssumption

(* A function on 1..n is a sequence of that length.                        *)
LEMMA FunctionIsSequence ==
  ASSUME NEW n \in Nat, NEW S, NEW f \in [1..n -> S]
  PROVE  f \in Seq(S) /\ Len(f) = n
  OBVIOUS

(* The line in the array, its length and its characters.                   *)
LEMMA TypedLine ==
  ASSUME NEW mem, NEW size, IsArray(mem, size)
  PROVE  /\ Typed(mem, size) \in Seq(Bytes) /\ Len(Typed(mem, size)) = size
         /\ size \in Nat /\ size < BufferSize
         /\ \A i \in 1..size : Typed(mem, size)[i] = mem[i - 1]
<1>1. size \in Nat /\ size < BufferSize
  BY SizeBounds DEF IsArray, Indices
<1>2. \A i \in 1..size : mem[i - 1] \in Bytes
  BY <1>1, SizeBounds DEF IsArray, Indices
<1>3. Typed(mem, size) \in [1..size -> Bytes]
  BY <1>2 DEF Typed
<1>4. Typed(mem, size) \in Seq(Bytes) /\ Len(Typed(mem, size)) = size
  BY <1>1, <1>3, FunctionIsSequence
<1>5. \A i \in 1..size : Typed(mem, size)[i] = mem[i - 1]
  BY DEF Typed
<1> QED
  BY <1>1, <1>4, <1>5

(* The letters a line begins with are as many as CommandLine has them.     *)
LEMMA LettersEnd ==
  ASSUME NEW line, NEW n \in 0..Len(line), Len(line) \in Nat,
         \A i \in 1..n : line[i] \in Line!Letters,
         n < Len(line) => line[n + 1] \notin Line!Letters
  PROVE  Line!CommandLength(line) = n
<1>1. PICK m \in 0..Len(line) :
        /\ m = Line!CommandLength(line)
        /\ \A i \in 1..m : line[i] \in Line!Letters
        /\ m < Len(line) => line[m + 1] \notin Line!Letters
  BY Zenon DEF Line!CommandLength
<1>2. ~(m < n)
  <2> SUFFICES ASSUME m < n PROVE FALSE
    OBVIOUS
  <2>1. m + 1 \in 1..n /\ m < Len(line)
    OBVIOUS
  <2> QED
    BY <1>1, <2>1
<1>3. ~(n < m)
  <2> SUFFICES ASSUME n < m PROVE FALSE
    OBVIOUS
  <2>1. n + 1 \in 1..m /\ n < Len(line)
    OBVIOUS
  <2> QED
    BY <1>1, <2>1
<1> QED
  BY <1>1, <1>2, <1>3

(* A line has a first character that is not a letter, or none.             *)
LEMMA FirstOther ==
  ASSUME NEW mem, NEW size, IsArray(mem, size)
  PROVE  \E n \in 0..size : /\ \A i \in 0..(n - 1) : isAlpha(mem[i])
                            /\ n < size => ~isAlpha(mem[n])
<1> DEFINE S == {i \in 0..size : i = size \/ ~isAlpha(mem[i])}
<1>1. size \in Nat /\ size \in S
  BY TypedLine
<1>2. PICK n \in S : \A y \in S : n <= y
  <2>1. S \in SUBSET Nat /\ S # {}
    BY <1>1
  <2> HIDE DEF S
  <2> QED
    BY <2>1, LeastNumber
<1>3. ASSUME NEW i \in 0..(n - 1) PROVE isAlpha(mem[i])
  BY <1>1, <1>2
<1> QED
  BY <1>1, <1>2, <1>3

(* getCommand stops where the letters of the line end: the terminator is   *)
(* not a letter, so it never runs past the line.                           *)
LEMMA CommandFound ==
  ASSUME NEW mem, NEW size, IsArray(mem, size)
  PROVE  LET line == Typed(mem, size)
             n == Line!CommandLength(line)
         IN /\ n \in 0..size
            /\ getCommand(mem, View(0, size)) = View(0, n)
            /\ Text(mem, View(0, n)) = Line!Command(line)
<1> DEFINE line == Typed(mem, size)
<1>1. /\ line \in Seq(Bytes) /\ Len(line) = size /\ size \in Nat /\ size < BufferSize
      /\ \A i \in 1..size : line[i] = mem[i - 1]
  BY TypedLine
<1> HIDE DEF line
<1>2. PICK n \in 0..size : /\ \A i \in 0..(n - 1) : isAlpha(mem[i])
                           /\ n < size => ~isAlpha(mem[n])
  BY FirstOther
<1>3. \A c : isAlpha(c) <=> c \in Line!Letters
  BY DEF isAlpha, Line!Letters
<1>4. Line!CommandLength(line) = n
  <2>1. ASSUME NEW i \in 1..n PROVE line[i] \in Line!Letters
    <3>1. i \in 1..size /\ i - 1 \in 0..(n - 1)
      BY <1>1
    <3>2. line[i] = mem[i - 1] /\ isAlpha(mem[i - 1])
      BY <1>1, <1>2, <3>1
    <3> QED
      BY <1>3, <3>2
  <2>2. n < size => line[n + 1] \notin Line!Letters
    BY <1>1, <1>2, <1>3
  <2> QED
    BY <1>1, <2>1, <2>2, LettersEnd
<1>5. getCommand(mem, View(0, size)) = View(0, n)
  <2> DEFINE v == View(0, size)
             S == {i \in Offsets(v) : ~isAlpha(mem[v.data + i]) \/ i >= v.size}
  <2>1. v.data = 0 /\ v.size = size /\ Offsets(v) = 0..(BufferSize - 1)
    BY SizeBounds DEF View, Offsets
  <2>2. n \in S
    BY <1>1, <1>2, <2>1, SizeBounds
  <2>3. ASSUME NEW y \in S PROVE n <= y
    BY <1>1, <1>2, <2>1, SizeBounds
  <2>4. S \in SUBSET Nat
    BY <2>1, SizeBounds
  <2>5. FirstOf(v, S) = n
    <3> HIDE DEF S
    <3> QED
      BY <2>2, <2>3, <2>4, StopsAt
  <2> QED
    BY <2>1, <2>5 DEF getCommand
<1>6. Text(mem, View(0, n)) = Line!Command(line)
  <2>1. Text(mem, View(0, n)) = [i \in 1..n |-> mem[i - 1]]
    BY <1>1 DEF Text, View
  <2>2. SubSeq(line, 1, n) = [i \in 1..n |-> line[i]]
    BY <1>1
  <2>3. \A i \in 1..n : line[i] = mem[i - 1]
    BY <1>1
  <2> QED
    BY <1>4, <2>1, <2>2, <2>3 DEF Line!Command
<1> QED
  BY <1>4, <1>5, <1>6 DEF line
-----------------------------------------------------------------------------
(* One call of findNextParam, for what begins at p.                        *)

(* A parameter from s, up to but not including e, is there.                *)
IsParam(mem, size, p, s, e) ==
  /\ s \in p..(size - 1) /\ e \in (s + 1)..size
  /\ \A k \in p..(s - 1) : mem[k] = Blank
  /\ \A k \in s..(e - 1) : mem[k] # Blank
  /\ e < size => mem[e] = Blank

AllBlank(mem, size, p) == \A k \in p..(size - 1) : mem[k] = Blank

(* Where the loops of findNextParam stop.                                  *)
Blanks(mem, v) == {i \in Offsets(v) : mem[v.data + i] = Blank}
Starts(mem, v) == {i \in Offsets(v) : i \notin Blanks(mem, v) \/ (i = v.size /\ i > 0)}
Ends(mem, v, start) == {i \in Offsets(v) : i >= start /\ (i \in Blanks(mem, v) \/ i = v.size)}

(* findNextParam, with the places where its two loops stop named.          *)
LEMMA FindsParam ==
  ASSUME NEW mem, NEW v, v.data # Nowhere
  PROVE  LET start == FirstOf(v, Starts(mem, v))
             end   == FirstOf(v, Ends(mem, v, start))
         IN findNextParam(mem, v) =
              IF start > 0 /\ start = v.size THEN NoParam
              ELSE [param |-> View(v.data + start, end - start),
                    remainder |-> View(v.data + end, v.size - end)]
  BY Zenon DEF findNextParam, Starts, Ends, Blanks

(* The same places, for what is left of the line from p on.                *)
LEMMA LoopSets ==
  ASSUME NEW mem, NEW size, IsArray(mem, size), NEW p \in 0..size, NEW start,
         NEW v, v = View(p, size - p)
  PROVE  /\ v.data = p /\ v.size = size - p /\ v.data # Nowhere
         /\ \A i : i \in Starts(mem, v) <=>
                     /\ i \in 0..(BufferSize - 1 - p)
                     /\ mem[p + i] # Blank \/ (i = size - p /\ i > 0)
         /\ \A i : i \in Ends(mem, v, start) <=>
                     /\ i \in 0..(BufferSize - 1 - p) /\ i >= start
                     /\ mem[p + i] = Blank \/ i = size - p
<1>1. size \in Nat /\ size < BufferSize /\ p \in Nat
  BY TypedLine
<1>2. v.data = p /\ v.size = size - p /\ v.data # Nowhere
  BY <1>1 DEF View, Nowhere
<1>3. \A i : i \in Blanks(mem, v) <=> i \in 0..(BufferSize - 1 - p) /\ mem[p + i] = Blank
  BY <1>2 DEF Blanks, Offsets
<1>4. \A i : i \in Starts(mem, v) <=>
               /\ i \in 0..(BufferSize - 1 - p)
               /\ mem[p + i] # Blank \/ (i = size - p /\ i > 0)
  BY <1>2, <1>3 DEF Starts, Offsets
<1>5. \A i : i \in Ends(mem, v, start) <=>
               /\ i \in 0..(BufferSize - 1 - p) /\ i >= start
               /\ mem[p + i] = Blank \/ i = size - p
  BY <1>2, <1>3 DEF Ends, Offsets
<1> QED
  BY <1>2, <1>4, <1>5

(* findNextParam returns the parameter that is there and continues behind  *)
(* it.                                                                     *)
LEMMA ParamFound ==
  ASSUME NEW mem, NEW size, IsArray(mem, size), NEW p \in 0..size,
         NEW s, NEW e, IsParam(mem, size, p, s, e)
  PROVE  findNextParam(mem, View(p, size - p)) =
           [param |-> View(s, e - s), remainder |-> View(e, size - e)]
<1> DEFINE v == View(p, size - p)
           S == Starts(mem, v)
           E == Ends(mem, v, s - p)
<1>1. /\ size \in Nat /\ size < BufferSize /\ p \in Nat /\ s \in Nat /\ e \in Nat
      /\ p <= s /\ s < size /\ s < e /\ e <= size /\ s - p \in Nat /\ e - p \in Nat
      /\ BufferSize \in Nat
  BY TypedLine, SizeBounds DEF IsParam
<1>0. v = View(p, size - p)
  OBVIOUS
<1>2. /\ v.data = p /\ v.size = size - p /\ v.data # Nowhere
      /\ \A i : i \in S <=> /\ i \in 0..(BufferSize - 1 - p)
                            /\ mem[p + i] # Blank \/ (i = size - p /\ i > 0)
      /\ \A i : i \in E <=> /\ i \in 0..(BufferSize - 1 - p) /\ i >= s - p
                            /\ mem[p + i] = Blank \/ i = size - p
  <2> HIDE DEF v
  <2> QED
    BY <1>1, <1>0, LoopSets
<1> HIDE DEF v
<1>3. FirstOf(v, S) = s - p
  <2>1. s - p \in S
    <3>1. p + (s - p) = s /\ mem[s] # Blank /\ s - p \in 0..(BufferSize - 1 - p)
      BY <1>1 DEF IsParam
    <3> QED
      BY <1>2, <3>1
  <2>2. ASSUME NEW y \in S PROVE s - p <= y
    <3>1. y \in 0..(BufferSize - 1 - p) /\ (mem[p + y] # Blank \/ y = size - p)
      BY <1>2
    <3>2. SUFFICES ASSUME y < s - p PROVE FALSE
      BY <1>1, <3>1
    <3>3. p + y \in p..(s - 1) /\ y # size - p
      BY <1>1, <3>1, <3>2
    <3> QED
      BY <3>1, <3>3 DEF IsParam
  <2>3. S \in SUBSET Nat
    BY <1>1, <1>2
  <2> HIDE DEF S
  <2> QED
    BY <2>1, <2>2, <2>3, StopsAt
<1>4. FirstOf(v, E) = e - p
  <2>1. e - p \in E
    <3>1. p + (e - p) = e /\ e - p \in 0..(BufferSize - 1 - p) /\ e - p >= s - p
      BY <1>1
    <3>2. mem[e] = Blank \/ e - p = size - p
      BY <1>1 DEF IsParam
    <3> QED
      BY <1>2, <3>1, <3>2
  <2>2. ASSUME NEW y \in E PROVE e - p <= y
    <3>1. y \in 0..(BufferSize - 1 - p) /\ y >= s - p /\ (mem[p + y] = Blank \/ y = size - p)
      BY <1>2
    <3>2. SUFFICES ASSUME y < e - p PROVE FALSE
      BY <1>1, <3>1
    <3>3. p + y \in s..(e - 1) /\ y # size - p
      BY <1>1, <3>1, <3>2
    <3> QED
      BY <3>1, <3>3 DEF IsParam
  <2>3. E \in SUBSET Nat
    BY <1>1, <1>2
  <2> HIDE DEF E
  <2> QED
    BY <2>1, <2>2, <2>3, StopsAt
<1>5. findNextParam(mem, v) = [param |-> View(v.data + (s - p), (e - p) - (s - p)),
                               remainder |-> View(v.data + (e - p), v.size - (e - p))]
  <2>1. s - p # v.size
    BY <1>1, <1>2
  <2> QED
    BY <1>2, <1>3, <1>4, <2>1, FindsParam
<1>6. /\ v.data + (s - p) = s /\ (e - p) - (s - p) = e - s
      /\ v.data + (e - p) = e /\ v.size - (e - p) = size - e
  BY <1>1, <1>2
<1> QED
  BY <1>5, <1>6 DEF v

(* Nothing but blanks is left: the views point nowhere.                    *)
LEMMA BlanksLeft ==
  ASSUME NEW mem, NEW size, IsArray(mem, size), NEW p \in 0..(size - 1),
         AllBlank(mem, size, p)
  PROVE  findNextParam(mem, View(p, size - p)) = NoParam
<1> DEFINE v == View(p, size - p)
           S == Starts(mem, v)
<1>1. /\ size \in Nat /\ size < BufferSize /\ p \in Nat /\ p < size /\ size - p \in Nat
      /\ BufferSize \in Nat /\ size - p > 0 /\ p \in 0..size
  BY TypedLine, SizeBounds
<1>0. v = View(p, size - p)
  OBVIOUS
<1>2. /\ v.data = p /\ v.size = size - p /\ v.data # Nowhere
      /\ \A i : i \in S <=> /\ i \in 0..(BufferSize - 1 - p)
                            /\ mem[p + i] # Blank \/ (i = size - p /\ i > 0)
  <2> HIDE DEF v
  <2> QED
    BY <1>1, <1>0, LoopSets
<1> HIDE DEF v
<1>3. FirstOf(v, S) = size - p
  <2>1. size - p \in S
    BY <1>1, <1>2
  <2>2. ASSUME NEW y \in S PROVE size - p <= y
    <3>1. y \in 0..(BufferSize - 1 - p) /\ (mem[p + y] # Blank \/ y = size - p)
      BY <1>2
    <3>2. SUFFICES ASSUME y < size - p PROVE FALSE
      BY <1>1, <3>1
    <3>3. p + y \in p..(size - 1) /\ y # size - p
      BY <1>1, <3>1, <3>2
    <3> QED
      BY <3>1, <3>3 DEF AllBlank
  <2>3. S \in SUBSET Nat
    BY <1>1, <1>2
  <2> HIDE DEF S
  <2> QED
    BY <2>1, <2>2, <2>3, StopsAt
<1> QED
  BY <1>1, <1>2, <1>3, FindsParam DEF v

(* At the end of the line: the parameter is empty.                         *)
LEMMA NothingLeft ==
  ASSUME NEW mem, NEW size, IsArray(mem, size)
  PROVE  findNextParam(mem, View(size, 0)) = [param |-> View(size, 0), remainder |-> View(size, 0)]
<1> DEFINE v == View(size, size - size)
           S == Starts(mem, v)
           E == Ends(mem, v, 0)
<1>1. /\ size \in Nat /\ size < BufferSize /\ size \in 0..size
      /\ BufferSize \in Nat /\ size - size = 0 /\ size + 0 = size /\ 0 \in Nat
  BY TypedLine, SizeBounds
<1>0. v = View(size, size - size)
  OBVIOUS
<1>2. /\ v.data = size /\ v.size = size - size /\ v.data # Nowhere
      /\ \A i : i \in S <=> /\ i \in 0..(BufferSize - 1 - size)
                            /\ mem[size + i] # Blank \/ (i = size - size /\ i > 0)
      /\ \A i : i \in E <=> /\ i \in 0..(BufferSize - 1 - size) /\ i >= 0
                            /\ mem[size + i] = Blank \/ i = size - size
  <2> HIDE DEF v
  <2> QED
    BY <1>1, <1>0, LoopSets
<1> HIDE DEF v
<1>3. FirstOf(v, S) = 0
  <2>1. 0 \in S
    BY <1>1, <1>2 DEF IsArray, Blank
  <2>2. S \in SUBSET Nat /\ \A y \in S : 0 <= y
    BY <1>1, <1>2
  <2> HIDE DEF S
  <2> QED
    BY <2>1, <2>2, StopsAt
<1>4. FirstOf(v, E) = 0
  <2>1. 0 \in E
    BY <1>1, <1>2
  <2>2. E \in SUBSET Nat /\ \A y \in E : 0 <= y
    BY <1>1, <1>2
  <2> HIDE DEF E
  <2> QED
    BY <2>1, <2>2, StopsAt
<1>5. findNextParam(mem, v) = [param |-> View(v.data + 0, 0 - 0),
                               remainder |-> View(v.data + 0, v.size - 0)]
  BY <1>2, <1>3, <1>4, FindsParam
<1>6. v = View(size, 0)
  BY <1>1 DEF v
<1> QED
  BY <1>1, <1>2, <1>5, <1>6
-----------------------------------------------------------------------------
(* The words of a text, as CommandLine has them.                           *)
IsText(text) == text \in Seq(Bytes)

(* The words that begin before or at position q.                           *)
UpTo(text, q)   == {j \in Line!Begins(text) : j <= q}
Passed(text, q) == Cardinality(UpTo(text, q))
Words(text)     == Cardinality(Line!Begins(text))

(* No word goes on behind position q.                                      *)
AtEnd(text, q) == q = 0 \/ q = Len(text) \/ text[q + 1] = Blank

(* Both modules mean the same blank.                                       *)
LEMMA LineBlank == Line!Blank = Blank
  BY DEF Line!Blank, Blank

(* Both modules mean the same cardinality.                                 *)
LEMMA LineCardinality == \A S : Line!Cardinality(S) = Cardinality(S)
  BY DEF Cardinality, Line!Cardinality

(* The words of a text are finitely many, and so are those up to a         *)
(* position.                                                               *)
LEMMA WordsFinite ==
  ASSUME NEW text, IsText(text)
  PROVE  /\ Len(text) \in Nat /\ Line!Begins(text) \subseteq 1..Len(text)
         /\ IsFiniteSet(Line!Begins(text)) /\ Words(text) \in Nat
         /\ \A q : IsFiniteSet(UpTo(text, q)) /\ Passed(text, q) \in Nat
         /\ \A q : UpTo(text, q) \in SUBSET Line!Begins(text)
<1>1. Len(text) \in Nat /\ Line!Begins(text) \subseteq 1..Len(text)
  BY DEF IsText, Line!Begins
<1>2. IsFiniteSet(1..Len(text))
  BY <1>1, FS_Interval
<1>3. IsFiniteSet(Line!Begins(text))
  BY <1>1, <1>2, FS_Subset
<1>4. \A q : UpTo(text, q) \in SUBSET Line!Begins(text)
  BY DEF UpTo
<1>5. \A q : IsFiniteSet(UpTo(text, q)) /\ Passed(text, q) \in Nat
  BY <1>3, <1>4, FS_Subset, FS_CardinalityType, Zenon DEF Passed
<1>6. Words(text) \in Nat
  BY <1>3, FS_CardinalityType, Zenon DEF Words
<1> QED
  BY <1>1, <1>3, <1>4, <1>5, <1>6

(* A word more: its beginning counts.                                      *)
LEMMA PassedGrows ==
  ASSUME NEW text, IsText(text), NEW i \in Line!Begins(text),
         NEW j \in Line!Begins(text), i < j
  PROVE  Passed(text, i) < Passed(text, j)
<1>1. IsFiniteSet(UpTo(text, j)) /\ Passed(text, i) \in Nat /\ Passed(text, j) \in Nat
  BY WordsFinite, Zenon
<1>2. i \in Nat /\ j \in Nat
  BY WordsFinite
<1>3. UpTo(text, i) \in SUBSET UpTo(text, j)
  <2>1. \A k \in Line!Begins(text) : k \in Nat
    BY WordsFinite
  <2>2. ASSUME NEW k \in UpTo(text, i) PROVE k \in UpTo(text, j)
    <3>1. k \in Line!Begins(text) /\ k <= i /\ k \in Nat
      BY <2>1 DEF UpTo
    <3>2. k <= j
      BY <1>2, <3>1
    <3> QED
      BY <3>1, <3>2 DEF UpTo
  <2> QED
    BY <2>2
<1>4. j \in UpTo(text, j) /\ j \notin UpTo(text, i)
  BY <1>2 DEF UpTo
<1>5. Passed(text, i) <= Passed(text, j)
  BY <1>1, <1>3, FS_Subset, Zenon DEF Passed
<1>6. Passed(text, i) # Passed(text, j)
  <2>1. UpTo(text, i) # UpTo(text, j)
    BY <1>4
  <2> QED
    BY <1>1, <1>3, <2>1, FS_Subset, Zenon DEF Passed
<1> QED
  BY <1>1, <1>5, <1>6

(* The word that begins at i is the n-th if n begin up to there.           *)
LEMMA WordAt ==
  ASSUME NEW text, IsText(text), NEW i \in Line!Begins(text)
  PROVE  /\ Passed(text, i) <= Words(text)
         /\ Line!Word(text, Passed(text, i)) = Line!WordFrom(text, i)
<1> DEFINE n == Passed(text, i)
           B == Line!Begins(text)
<1>1. n \in Nat /\ Words(text) \in Nat /\ n <= Words(text)
  <2>1. UpTo(text, i) \in SUBSET B /\ IsFiniteSet(B) /\ n \in Nat /\ Words(text) \in Nat
    BY WordsFinite, Zenon
  <2>2. n <= Words(text)
    BY <2>1, FS_Subset, Zenon DEF Passed, Words
  <2> QED
    BY <2>1, <2>2
<1>2. ASSUME NEW j \in B, Passed(text, j) = n PROVE j = i
  <2>1. i \in Nat /\ j \in Nat
    BY WordsFinite
  <2>2. ~(i < j)
    BY <1>1, <1>2, PassedGrows
  <2>3. ~(j < i)
    BY <1>1, <1>2, PassedGrows
  <2> QED
    BY <2>1, <2>2, <2>3
<1>3. \A j \in B : Cardinality({k \in B : k <= j}) = Passed(text, j)
  BY DEF Passed, UpTo
<1>4. (CHOOSE j \in B : Cardinality({k \in B : k <= j}) = n) = i
  <2>1. \E j \in B : Cardinality({k \in B : k <= j}) = n
    BY <1>3
  <2> HIDE DEF n, B
  <2>2. PICK j \in B : /\ j = (CHOOSE m \in B : Cardinality({k \in B : k <= m}) = n)
                       /\ Cardinality({k \in B : k <= j}) = n
    BY <2>1, Zenon
  <2> QED
    BY <1>2, <1>3, <2>2
<1>5. ~(n > Cardinality(B))
  BY <1>1 DEF Words
<1>6. Line!Word(text, n) = Line!WordFrom(text, CHOOSE j \in B : Cardinality({k \in B : k <= j}) = n)
  BY <1>5, LineCardinality DEF Line!Word
<1> QED
  BY <1>1, <1>4, <1>6

(* Behind the last word there are none but empty ones.                     *)
LEMMA NoWord ==
  ASSUME NEW text, NEW n, n > Words(text)
  PROVE  Line!Word(text, n) = <<>>
  BY LineCardinality DEF Line!Word, Words

(* A word ends before the next blank or with the text.                     *)
LEMMA WordRuns ==
  ASSUME NEW text, IsText(text), NEW s \in 1..Len(text), NEW e \in s..Len(text),
         \A k \in s..e : text[k] # Blank,
         e < Len(text) => text[e + 1] = Blank
  PROVE  Line!WordFrom(text, s) = SubSeq(text, s, e)
<1> DEFINE P(j) == /\ \A k \in s..j : text[k] # Line!Blank
                   /\ j < Len(text) => text[j + 1] = Line!Blank
<1>1. Len(text) \in Nat /\ s \in Nat /\ e \in Nat
  BY DEF IsText
<1>2. P(e)
  BY LineBlank
<1>3. ASSUME NEW j \in s..Len(text), P(j) PROVE j = e
  <2>1. ~(j < e)
    <3> SUFFICES ASSUME j < e PROVE FALSE
      OBVIOUS
    <3>1. j + 1 \in s..e /\ j < Len(text)
      BY <1>1
    <3> QED
      BY <1>3, <3>1, LineBlank
  <2>2. ~(e < j)
    <3> SUFFICES ASSUME e < j PROVE FALSE
      OBVIOUS
    <3>1. e + 1 \in s..j /\ e < Len(text)
      BY <1>1
    <3> QED
      BY <1>3, <3>1, LineBlank
  <2> QED
    BY <1>1, <2>1, <2>2
<1>4. (CHOOSE j \in s..Len(text) : P(j)) = e
  <2>1. \E j \in s..Len(text) : P(j)
    BY <1>2
  <2> HIDE DEF P
  <2>2. PICK j \in s..Len(text) : j = (CHOOSE m \in s..Len(text) : P(m)) /\ P(j)
    BY <2>1, Zenon
  <2> QED
    BY <1>3, <2>2
<1> QED
  BY <1>4, Zenon DEF Line!WordFrom

(* The next word after a position where none goes on.                      *)
LEMMA NextBegins ==
  ASSUME NEW text, IsText(text), NEW q \in 0..Len(text), AtEnd(text, q),
         NEW s \in (q + 1)..Len(text), text[s] # Blank,
         \A k \in (q + 1)..(s - 1) : text[k] = Blank
  PROVE  s \in Line!Begins(text) /\ Passed(text, s) = Passed(text, q) + 1
<1>1. Len(text) \in Nat /\ q \in Nat /\ s \in Nat /\ s > q
  BY DEF IsText
<1>2. s \in Line!Begins(text)
  <2>1. CASE s = q + 1
    <3>1. q = 0
      BY <1>1, <2>1 DEF AtEnd
    <3> QED
      BY <1>1, <2>1, <3>1, LineBlank DEF Line!Begins
  <2>2. CASE s # q + 1
    <3>1. s - 1 \in (q + 1)..(s - 1) /\ s \in 1..Len(text)
      BY <1>1, <2>2
    <3>2. text[s - 1] = Blank
      BY <3>1
    <3> QED
      BY <3>1, <3>2, LineBlank DEF Line!Begins
  <2> QED
    BY <2>1, <2>2
<1>3. UpTo(text, s) = UpTo(text, q) \cup {s}
  <2>1. ASSUME NEW j \in UpTo(text, s) PROVE j \in UpTo(text, q) \cup {s}
    <3>1. j \in Line!Begins(text) /\ j <= s /\ j \in 1..Len(text) /\ text[j] # Blank
      BY <2>1, LineBlank DEF UpTo, Line!Begins
    <3>2. SUFFICES ASSUME j # s, ~(j <= q) PROVE FALSE
      BY <3>1 DEF UpTo
    <3>3. j \in (q + 1)..(s - 1)
      BY <1>1, <3>1, <3>2
    <3> QED
      BY <3>1, <3>3
  <2>2. ASSUME NEW j \in UpTo(text, q) \cup {s} PROVE j \in UpTo(text, s)
    <3>1. j \in UpTo(text, q) => j \in Line!Begins(text) /\ j <= q /\ j \in Nat
      BY <1>1 DEF UpTo, Line!Begins
    <3> QED
      BY <1>1, <1>2, <2>2, <3>1 DEF UpTo
  <2> QED
    BY <2>1, <2>2
<1>4. s \notin UpTo(text, q)
  BY <1>1 DEF UpTo
<1>5. IsFiniteSet(UpTo(text, q))
  BY WordsFinite, Zenon
<1>6. Cardinality(UpTo(text, q) \cup {s}) = Cardinality(UpTo(text, q)) + 1
  BY <1>4, <1>5, FS_AddElement, Zenon
<1> QED
  BY <1>2, <1>3, <1>6 DEF Passed

(* Inside a word no other begins.                                          *)
LEMMA NoneBegins ==
  ASSUME NEW text, IsText(text), NEW s \in 1..Len(text), NEW e \in s..Len(text),
         \A k \in s..e : text[k] # Blank
  PROVE  Passed(text, e) = Passed(text, s)
<1>1. Len(text) \in Nat /\ s \in Nat /\ e \in Nat
  BY DEF IsText
<1>2. ASSUME NEW j \in UpTo(text, e) PROVE j \in UpTo(text, s)
  <2>1. /\ j \in Line!Begins(text) /\ j <= e /\ j \in 1..Len(text)
        /\ j > 1 => text[j - 1] = Blank
    BY <1>2, LineBlank DEF UpTo, Line!Begins
  <2>2. SUFFICES ASSUME ~(j <= s) PROVE FALSE
    BY <2>1 DEF UpTo
  <2>3. j > 1 /\ j - 1 \in s..e
    BY <1>1, <2>1, <2>2
  <2> QED
    BY <2>1, <2>3
<1>3. ASSUME NEW j \in UpTo(text, s) PROVE j \in UpTo(text, e)
  BY <1>1, <1>3 DEF UpTo, Line!Begins
<1>4. UpTo(text, e) = UpTo(text, s)
  BY <1>2, <1>3
<1> QED
  BY <1>4 DEF Passed

(* Where only blanks follow all words have begun.                          *)
LEMMA AllPassed ==
  ASSUME NEW text, IsText(text), NEW q \in 0..Len(text),
         \A k \in (q + 1)..Len(text) : text[k] = Blank
  PROVE  Passed(text, q) = Words(text)
<1>1. Len(text) \in Nat /\ q \in Nat
  BY DEF IsText
<1>2. ASSUME NEW j \in Line!Begins(text) PROVE j <= q
  <2>1. j \in 1..Len(text) /\ text[j] # Blank
    BY <1>2, LineBlank DEF Line!Begins
  <2>2. SUFFICES ASSUME ~(j <= q) PROVE FALSE
    OBVIOUS
  <2>3. j \in (q + 1)..Len(text)
    BY <1>1, <2>1, <2>2
  <2> QED
    BY <2>1, <2>3
<1>3. UpTo(text, q) = Line!Begins(text)
  BY <1>2 DEF UpTo
<1> QED
  BY <1>3 DEF Passed, Words
-----------------------------------------------------------------------------
(* The text behind the command, in the line and in the array.              *)
LEMMA RestOfLine ==
  ASSUME NEW mem, NEW size, IsArray(mem, size)
  PROVE  LET line == Typed(mem, size)
             L == Line!CommandLength(line)
             text == Line!Rest(line)
         IN /\ L \in 0..size /\ IsText(text) /\ Len(text) = size - L
            /\ \A i \in 1..(size - L) : text[i] = mem[L + i - 1]
<1> DEFINE line == Typed(mem, size)
           L == Line!CommandLength(line)
           text == Line!Rest(line)
<1>1. /\ line \in Seq(Bytes) /\ Len(line) = size /\ size \in Nat
      /\ \A i \in 1..size : line[i] = mem[i - 1]
  BY TypedLine
<1>2. L \in 0..size
  BY CommandFound
<1>3. text = SubSeq(line, L + 1, size)
  BY <1>1 DEF Line!Rest
<1> HIDE DEF line, L, text
<1>4. text \in Seq(Bytes) /\ Len(text) = size - L
  BY <1>1, <1>2, <1>3
<1>5. ASSUME NEW i \in 1..(size - L) PROVE text[i] = mem[L + i - 1]
  <2>1. text[i] = line[L + i]
    BY <1>1, <1>2, <1>3
  <2>2. L + i \in 1..size
    BY <1>1, <1>2
  <2>3. line[L + i] = mem[(L + i) - 1]
    BY <1>1, <2>2
  <2> QED
    BY <1>1, <1>2, <2>1, <2>3
<1> QED
  BY <1>2, <1>4, <1>5 DEF IsText, line, L, text

(* A view without characters is the empty word, wherever it points.        *)
LEMMA EmptyText ==
  ASSUME NEW mem, NEW data
  PROVE  Text(mem, View(data, 0)) = <<>>
  BY DEF Text, View

(* The characters of the view are those of the text from s to e.           *)
Covers(mem, v, text, s, e) ==
  /\ s \in 1..Len(text) /\ e \in s..Len(text) /\ v.size = e - s + 1
  /\ \A k \in 1..v.size : mem[v.data + k - 1] = text[s + k - 1]

(* Then the view is that part of the text.                                 *)
LEMMA ViewOfText ==
  ASSUME NEW mem, NEW v, NEW text, IsText(text), NEW s, NEW e, Covers(mem, v, text, s, e)
  PROVE  Text(mem, v) = SubSeq(text, s, e)
<1>1. /\ Len(text) \in Nat /\ s \in Nat /\ e \in Nat /\ v.size = e - s + 1
      /\ \A k \in 1..v.size : mem[v.data + k - 1] = text[s + k - 1]
  BY DEF IsText, Covers
<1>2. Text(mem, v) = [k \in 1..v.size |-> mem[v.data + k - 1]]
  BY DEF Text
<1>3. SubSeq(text, s, e) = [k \in 1..(e - s + 1) |-> text[s + k - 1]]
  BY <1>1 DEF IsText
<1> QED
  BY <1>1, <1>2, <1>3

(* Behind p there is a parameter, or there are blanks alone.               *)
LEMMA NextParam ==
  ASSUME NEW mem, NEW size, IsArray(mem, size), NEW p \in 0..(size - 1),
         ~AllBlank(mem, size, p)
  PROVE  \E s, e \in Nat : IsParam(mem, size, p, s, e)
<1> DEFINE S == {k \in p..(size - 1) : mem[k] # Blank}
<1>1. size \in Nat /\ p \in Nat
  BY TypedLine
<1>2. PICK s \in S : \A y \in S : s <= y
  <2>1. S \in SUBSET Nat /\ S # {}
    BY <1>1 DEF AllBlank
  <2> HIDE DEF S
  <2> QED
    BY <2>1, LeastNumber
<1>3. s \in p..(size - 1) /\ mem[s] # Blank /\ \A k \in p..(s - 1) : mem[k] = Blank
  BY <1>1, <1>2
<1> DEFINE E == {k \in (s + 1)..size : k = size \/ mem[k] = Blank}
<1>4. PICK e \in E : \A y \in E : e <= y
  <2>1. E \in SUBSET Nat /\ size \in E
    BY <1>1, <1>3
  <2> HIDE DEF E
  <2> QED
    BY <2>1, LeastNumber
<1>5. e \in (s + 1)..size /\ (e < size => mem[e] = Blank)
  BY <1>4
<1>6. ASSUME NEW k \in s..(e - 1) PROVE mem[k] # Blank
  BY <1>1, <1>3, <1>4, <1>5
<1> QED
  BY <1>1, <1>3, <1>5, <1>6 DEF IsParam
-----------------------------------------------------------------------------
(* Where findNextParam continues when it has been called i times.          *)
Continues(mem, size, v, i) ==
  LET line == Typed(mem, size)
      L    == Line!CommandLength(line)
      text == Line!Rest(line)
  IN \/ \E q \in 0..(size - L) :
          /\ v = View(L + q, (size - L) - q)
          /\ AtEnd(text, q)
          /\ Passed(text, q) = i \/ (q = size - L /\ i > Words(text))
     \/ v = View(Nowhere, 0) /\ i > Words(text) /\ Line!EndsInBlank(line)

(* One more call of findNextParam: it continues where it should, and its   *)
(* parameter is the next word of the line, or empty when there is none.    *)
LEMMA OneCall ==
  ASSUME NEW mem, NEW size, IsArray(mem, size), NEW i \in Nat, NEW v,
         Continues(mem, size, v, i)
  PROVE  LET r == findNextParam(mem, v) IN
         /\ Continues(mem, size, r.remainder, i + 1)
         /\ Text(mem, r.param) = Line!Word(Line!Rest(Typed(mem, size)), i + 1)
         /\ Text(mem, r.param) \in Seq(Bytes)
<1> DEFINE line == Typed(mem, size)
           L == Line!CommandLength(line)
           text == Line!Rest(line)
           len == size - L
           r == findNextParam(mem, v)
<1>1. /\ line \in Seq(Bytes) /\ Len(line) = size /\ size \in Nat /\ size < BufferSize
      /\ \A j \in 1..size : line[j] = mem[j - 1]
  BY TypedLine
<1>2. /\ L \in 0..size /\ IsText(text) /\ Len(text) = len
      /\ \A j \in 1..len : text[j] = mem[L + j - 1]
  BY RestOfLine
<1>3. /\ Words(text) \in Nat /\ L \in Nat /\ len \in Nat
      /\ \A q : Passed(text, q) \in Nat
  BY <1>1, <1>2, WordsFinite
<1>4. Continues(mem, size, v, i) <=>
        \/ \E q \in 0..len : /\ v = View(L + q, len - q)
                             /\ AtEnd(text, q)
                             /\ Passed(text, q) = i \/ (q = len /\ i > Words(text))
        \/ v = View(Nowhere, 0) /\ i > Words(text) /\ Line!EndsInBlank(line)
  BY Zenon DEF Continues
<1>5. Continues(mem, size, r.remainder, i + 1) <=>
        \/ \E q \in 0..len : /\ r.remainder = View(L + q, len - q)
                             /\ AtEnd(text, q)
                             /\ Passed(text, q) = i + 1 \/ (q = len /\ i + 1 > Words(text))
        \/ r.remainder = View(Nowhere, 0) /\ i + 1 > Words(text) /\ Line!EndsInBlank(line)
  BY Zenon DEF Continues
<1>6. SUFFICES /\ \/ \E q \in 0..len : /\ r.remainder = View(L + q, len - q)
                                       /\ AtEnd(text, q)
                                       /\ Passed(text, q) = i + 1 \/ (q = len /\ i + 1 > Words(text))
                  \/ r.remainder = View(Nowhere, 0) /\ i + 1 > Words(text) /\ Line!EndsInBlank(line)
               /\ Text(mem, r.param) = Line!Word(text, i + 1)
               /\ Text(mem, r.param) \in Seq(Bytes)
  BY <1>5
<1> HIDE DEF line, L, text
<1>7. CASE v = View(Nowhere, 0) /\ i > Words(text) /\ Line!EndsInBlank(line)
  <2>1. r = NoParam
    BY <1>7 DEF findNextParam, View
  <2>2. r.remainder = View(Nowhere, 0) /\ r.param = View(Nowhere, 0)
    BY <2>1 DEF NoParam
  <2>3. Text(mem, r.param) = <<>>
    BY <2>2, EmptyText
  <2>4. i + 1 > Words(text)
    BY <1>3, <1>7
  <2>5. Text(mem, r.param) \in Seq(Bytes)
    BY <2>3
  <2>6. Text(mem, r.param) = Line!Word(text, i + 1)
    BY <2>3, <2>4, NoWord
  <2> HIDE DEF r
  <2> QED
    BY <1>7, <2>2, <2>4, <2>5, <2>6
<1>8. ASSUME NEW q \in 0..len, v = View(L + q, len - q), AtEnd(text, q),
             Passed(text, q) = i \/ (q = len /\ i > Words(text))
      PROVE  /\ \/ \E t \in 0..len : /\ r.remainder = View(L + t, len - t)
                                     /\ AtEnd(text, t)
                                     /\ Passed(text, t) = i + 1 \/ (t = len /\ i + 1 > Words(text))
                \/ r.remainder = View(Nowhere, 0) /\ i + 1 > Words(text) /\ Line!EndsInBlank(line)
             /\ Text(mem, r.param) = Line!Word(text, i + 1)
             /\ Text(mem, r.param) \in Seq(Bytes)
  <2> DEFINE p == L + q
  <2>1. p \in 0..size /\ len - q = size - p /\ p \in Nat /\ q \in Nat
    BY <1>1, <1>2, <1>3, <1>8
  <2>2. CASE q = len
    <3>1. p = size /\ len - q = 0
      BY <1>1, <1>2, <1>3, <2>2
    <3>2. r.param = View(size, 0) /\ r.remainder = View(size, 0)
      BY <1>8, <3>1, NothingLeft
    <3>3. Passed(text, len) = Words(text)
      <4>1. \A k \in (len + 1)..Len(text) : text[k] = Blank
        BY <1>2, <1>3
      <4> QED
        BY <1>2, <1>3, <4>1, AllPassed
    <3>4. i + 1 > Words(text)
      BY <1>3, <1>8, <2>2, <3>3
    <3>5. Text(mem, r.param) = <<>> /\ Text(mem, r.param) = Line!Word(text, i + 1)
      BY <3>2, <3>4, EmptyText, NoWord
    <3>6. r.remainder = View(L + len, len - len) /\ AtEnd(text, len) /\ len \in 0..len
      BY <1>2, <1>3, <2>2, <3>1, <3>2 DEF AtEnd
    <3> QED
      BY <3>4, <3>5, <3>6
  <2>3. CASE q # len /\ AllBlank(mem, size, p)
    <3>1. p \in 0..(size - 1)
      BY <1>1, <1>2, <1>3, <2>1, <2>3
    <3>2. r = NoParam
      BY <1>8, <2>1, <2>3, <3>1, BlanksLeft
    <3>3. r.remainder = View(Nowhere, 0) /\ r.param = View(Nowhere, 0)
      BY <3>2 DEF NoParam
    <3>4. Passed(text, q) = Words(text)
      <4>1. ASSUME NEW k \in (q + 1)..Len(text) PROVE text[k] = Blank
        <5>1. k \in 1..len /\ L + k - 1 \in p..(size - 1)
          BY <1>1, <1>2, <1>3, <2>1
        <5>2. text[k] = mem[L + k - 1] /\ mem[L + k - 1] = Blank
          BY <1>2, <2>3, <5>1 DEF AllBlank
        <5> QED
          BY <5>2
      <4> QED
        BY <1>2, <4>1, AllPassed
    <3>5. i + 1 > Words(text)
      BY <1>3, <1>8, <2>3, <3>4
    <3>6. Line!EndsInBlank(line)
      <4>1. size - 1 \in p..(size - 1) /\ size \in 1..size /\ size # 0
        BY <1>1, <3>1
      <4>2. line[size] = Blank
        BY <1>1, <2>3, <4>1 DEF AllBlank
      <4>3. line # <<>>
        BY <1>1, <4>1
      <4> QED
        BY <1>1, <4>2, <4>3, LineBlank DEF Line!EndsInBlank
    <3>7. Text(mem, r.param) = <<>> /\ Text(mem, r.param) = Line!Word(text, i + 1)
      BY <3>3, <3>5, EmptyText, NoWord
    <3>8. Text(mem, r.param) \in Seq(Bytes)
      BY <3>7
    <3> HIDE DEF r
    <3> QED
      BY <3>3, <3>5, <3>6, <3>7, <3>8
  <2>4. CASE q # len /\ ~AllBlank(mem, size, p)
    <3>1. p \in 0..(size - 1) /\ Passed(text, q) = i
      BY <1>1, <1>2, <1>3, <1>8, <2>1, <2>4
    <3>2. PICK s \in Nat, e \in Nat : IsParam(mem, size, p, s, e)
      BY <2>4, <3>1, NextParam
    <3>3. r = [param |-> View(s, e - s), remainder |-> View(e, size - e)]
      BY <1>8, <2>1, <3>2, ParamFound
    <3> DEFINE b == s - L + 1
               t == e - L
    <3>4. /\ s >= p /\ s <= size - 1 /\ e >= s + 1 /\ e <= size
          /\ \A k \in p..(s - 1) : mem[k] = Blank
          /\ \A k \in s..(e - 1) : mem[k] # Blank
          /\ e < size => mem[e] = Blank
      BY <1>1, <3>2 DEF IsParam
    <3>5. /\ b \in (q + 1)..len /\ t \in b..len /\ b \in Nat /\ t \in Nat /\ b \in 1..len
          /\ L + b - 1 = s /\ t - b + 1 = e - s /\ L + t = e /\ len - t = size - e
      BY <1>1, <1>2, <1>3, <2>1, <3>4
    <3>6. ASSUME NEW k \in (q + 1)..(b - 1) PROVE text[k] = Blank
      <4>1. k \in 1..len /\ L + k - 1 \in p..(s - 1)
        BY <1>1, <1>2, <1>3, <2>1, <3>4, <3>5
      <4> QED
        BY <1>2, <3>4, <4>1
    <3>7. ASSUME NEW k \in b..t PROVE text[k] # Blank
      <4>1. k \in 1..len /\ L + k - 1 \in s..(e - 1)
        <5>1. k \in Nat /\ k >= s - L + 1 /\ k <= e - L
          BY <3>5
        <5>2. size \in Nat /\ L \in Nat /\ e <= size /\ s >= L
          BY <1>1, <1>3, <2>1, <3>4
        <5> QED
          BY <5>1, <5>2
      <4> QED
        BY <1>2, <3>4, <4>1
    <3>8. t < len => text[t + 1] = Blank
      <4>1. SUFFICES ASSUME t < len PROVE text[t + 1] = Blank
        OBVIOUS
      <4>2. t + 1 \in 1..len /\ L + (t + 1) - 1 = e /\ e < size
        BY <1>1, <1>2, <1>3, <3>5, <4>1
      <4> QED
        BY <1>2, <3>4, <4>2
    <3> HIDE DEF b, t, p, len
    <3>9. b \in Line!Begins(text) /\ Passed(text, b) = i + 1
      <4>1. q \in 0..Len(text) /\ b \in (q + 1)..Len(text) /\ text[b] # Blank
        BY <1>2, <1>8, <3>5, <3>7
      <4> QED
        BY <1>2, <1>8, <3>1, <3>6, <4>1, NextBegins
    <3>10. Passed(text, t) = i + 1
      BY <1>2, <3>5, <3>7, <3>9, NoneBegins
    <3>11. Line!Word(text, i + 1) = SubSeq(text, b, t)
      <4>1. Line!Word(text, i + 1) = Line!WordFrom(text, b)
        BY <1>2, <3>9, WordAt
      <4>2. b \in 1..Len(text) /\ t \in b..Len(text) /\ (t < Len(text) => text[t + 1] = Blank)
        BY <1>2, <3>5, <3>8
      <4>3. Line!WordFrom(text, b) = SubSeq(text, b, t)
        BY <1>2, <3>7, <4>2, WordRuns
      <4> QED
        BY <4>1, <4>3
    <3>12. Text(mem, r.param) = SubSeq(text, b, t)
      <4>1. r.param.data = s /\ r.param.size = t - b + 1
        BY <3>3, <3>5 DEF View
      <4>2. ASSUME NEW k \in 1..(t - b + 1) PROVE mem[s + k - 1] = text[b + k - 1]
        <5>1. b + k - 1 \in 1..len /\ L + (b + k - 1) - 1 = s + k - 1
          BY <1>3, <3>5
        <5> QED
          BY <1>2, <5>1
      <4>3. Covers(mem, r.param, text, b, t)
        BY <1>2, <3>5, <4>1, <4>2 DEF Covers
      <4> QED
        BY <1>2, <4>3, ViewOfText
    <3>13. r.remainder = View(L + t, len - t) /\ t \in 0..len
      BY <1>3, <3>3, <3>5
    <3>14. AtEnd(text, t)
      BY <1>2, <1>3, <3>5, <3>8 DEF AtEnd
    <3>15. SubSeq(text, b, t) \in Seq(Bytes)
      BY <1>2, <3>5 DEF IsText
    <3> QED
      BY <3>10, <3>11, <3>12, <3>13, <3>14, <3>15
  <2> QED
    BY <2>2, <2>3, <2>4
<1> QED
  BY <1>4, <1>7, <1>8
-----------------------------------------------------------------------------
(* What the command is handed, and Commands::execute.                      *)
LEMMA NonePassed ==
  ASSUME NEW text, IsText(text)
  PROVE  Passed(text, 0) = 0
<1>1. UpTo(text, 0) = {}
  BY WordsFinite DEF UpTo
<1> QED
  BY <1>1, FS_EmptySet, Zenon DEF Passed

(* By induction over the calls: each continues where it should, and the    *)
(* parameters of a command are the words of the line, in their order.      *)
LEMMA CallsFollow ==
  ASSUME NEW mem, NEW size, IsArray(mem, size), NEW n \in Nat
  PROVE  LET line == Typed(mem, size)
             L == Line!CommandLength(line)
             call == Calls(mem, View(L, size - L), n)
         IN /\ \A i \in 0..n : Continues(mem, size, call[i].remainder, i)
            /\ \A i \in 1..n : /\ Text(mem, call[i].param) = Line!Word(Line!Rest(line), i)
                              /\ Text(mem, call[i].param) \in Seq(Bytes)
<1> DEFINE line == Typed(mem, size)
           L == Line!CommandLength(line)
           text == Line!Rest(line)
           call == Calls(mem, View(L, size - L), n)
<1>1. /\ call[0] = [param |-> View(L, size - L), remainder |-> View(L, size - L)]
      /\ \A i \in 1..n : call[i] = findNextParam(mem, call[i - 1].remainder)
  BY CallsDefined
<1>2. L \in 0..size /\ IsText(text) /\ size \in Nat
  BY RestOfLine, TypedLine
<1>3. Continues(mem, size, call[0].remainder, 0)
  <2>1. call[0].remainder = View(L, size - L)
    BY <1>1
  <2>2. View(L, size - L) = View(L + 0, (size - L) - 0) /\ 0 \in 0..(size - L)
    BY <1>2
  <2>3. AtEnd(text, 0) /\ Passed(text, 0) = 0
    BY <1>2, NonePassed DEF AtEnd
  <2> HIDE DEF call
  <2> QED
    BY <2>1, <2>2, <2>3, Zenon DEF Continues
<1> HIDE DEF call
<1>4. ASSUME NEW i \in Nat, i + 1 \in 1..n, Continues(mem, size, call[i].remainder, i)
      PROVE  /\ Continues(mem, size, call[i + 1].remainder, i + 1)
             /\ Text(mem, call[i + 1].param) = Line!Word(text, i + 1)
             /\ Text(mem, call[i + 1].param) \in Seq(Bytes)
  <2>1. call[i + 1] = findNextParam(mem, call[i].remainder)
    BY <1>1, <1>4
  <2> DEFINE r == findNextParam(mem, call[i].remainder)
  <2>2. /\ Continues(mem, size, r.remainder, i + 1)
        /\ Text(mem, r.param) = Line!Word(text, i + 1)
        /\ Text(mem, r.param) \in Seq(Bytes)
    BY <1>4, OneCall
  <2> QED
    BY <2>1, <2>2
<1> HIDE DEF text
<1>5. \A i \in 0..n : Continues(mem, size, call[i].remainder, i)
  <2> DEFINE T == {k \in Nat : k <= n => Continues(mem, size, call[k].remainder, k)}
  <2>1. 0 \in T
    BY <1>3
  <2>2. ASSUME NEW k \in Nat, k \in T PROVE k + 1 \in T
    <3>1. SUFFICES ASSUME k + 1 <= n PROVE Continues(mem, size, call[k + 1].remainder, k + 1)
      OBVIOUS
    <3>2. k + 1 \in 1..n /\ Continues(mem, size, call[k].remainder, k)
      BY <2>2, <3>1
    <3> QED
      BY <1>4, <3>2
  <2>3. \A k \in Nat : k \in T => k + 1 \in T
    BY <2>2
  <2>4. Nat \subseteq T
    <3> HIDE DEF T
    <3> QED
      BY <2>1, <2>3, InductiveSet, Zenon
  <2> QED
    BY <2>4
<1>6. ASSUME NEW i \in 1..n
      PROVE  /\ Text(mem, call[i].param) = Line!Word(text, i)
             /\ Text(mem, call[i].param) \in Seq(Bytes)
  <2>1. i - 1 \in Nat /\ i - 1 \in 0..n /\ (i - 1) + 1 = i
    OBVIOUS
  <2>2. Continues(mem, size, call[i - 1].remainder, i - 1)
    BY <1>5, <2>1
  <2> QED
    BY <1>4, <2>1, <2>2
<1> QED
  BY <1>5, <1>6 DEF text, call

(* A view that points nowhere comes of a last blank.                       *)
LEMMA NowhereAtBlank ==
  ASSUME NEW mem, NEW size, IsArray(mem, size), NEW v, NEW i,
         Continues(mem, size, v, i), v.data = Nowhere
  PROVE  Line!EndsInBlank(Typed(mem, size))
<1> DEFINE line == Typed(mem, size)
           L == Line!CommandLength(line)
<1>1. L \in 0..size /\ size \in Nat
  BY RestOfLine, TypedLine
<1>2. ASSUME NEW q \in 0..(size - L), v = View(L + q, (size - L) - q) PROVE FALSE
  <2>1. v.data = L + q
    BY <1>2 DEF View
  <2> HIDE DEF L
  <2> QED
    BY <1>1, <2>1 DEF Nowhere
<1> QED
  BY <1>2, Zenon DEF Continues

(* Commands::execute, given the array and the number of characters typed,  *)
(* does with them what CommandLine does with the line: no word comes from  *)
(* behind the terminator, and only a line that ends in a blank has a       *)
(* command look at address 0.                                              *)
LEMMA ExecuteLine ==
  ASSUME NEW mem, NEW size, IsArray(mem, size)
  PROVE  LET line == Typed(mem, size)
             name == Line!Command(line)
         IN \/ /\ name \in Names /\ execute(mem, size) = Line!Run(line)
               /\ execute(mem, size).words \in Seq(Seq(Bytes))
            \/ /\ name \in Names /\ ~tidy /\ Line!EndsInBlank(line)
               /\ execute(mem, size) = Line!Unclear(name)
            \/ name \notin Names /\ execute(mem, size) = Line!NoSuchCommand
<1> DEFINE line == Typed(mem, size)
           L == Line!CommandLength(line)
           name == Line!Command(line)
           n == Params[name]
           call == Calls(mem, View(L, size - L), n)
<1>1. /\ getCommand(mem, View(0, size)) = View(0, L)
      /\ Text(mem, View(0, L)) = name
  BY CommandFound
<1>2. View(0, L).size = L
  BY DEF View
<1>3. execute(mem, size) =
        IF name \notin Names THEN Line!NoSuchCommand
        ELSE IF LooksNowhere(call, n) /\ ~tidy THEN Line!Unclear(name)
        ELSE Line!Ran(name, [i \in 1..n |-> Text(mem, call[i].param)])
  BY <1>1, <1>2, Zenon DEF execute
<1>4. CASE name \notin Names
  BY <1>3, <1>4
<1>5. ASSUME name \in Names
      PROVE  \/ /\ execute(mem, size) = Line!Run(line)
                /\ execute(mem, size).words \in Seq(Seq(Bytes))
             \/ ~tidy /\ Line!EndsInBlank(line) /\ execute(mem, size) = Line!Unclear(name)
  <2>1. n \in Nat
    BY <1>5, NamesAssumption
  <2>2. /\ \A i \in 0..n : Continues(mem, size, call[i].remainder, i)
        /\ \A i \in 1..n : /\ Text(mem, call[i].param) = Line!Word(Line!Rest(line), i)
                          /\ Text(mem, call[i].param) \in Seq(Bytes)
    BY <2>1, CallsFollow
  <2>3. ASSUME LooksNowhere(call, n) PROVE Line!EndsInBlank(line)
    <3>1. PICK i \in 1..(n - 1) : call[i].remainder.data = Nowhere
      BY <2>3, Zenon DEF LooksNowhere
    <3>2. i \in 0..n
      BY <2>1
    <3> HIDE DEF call, n
    <3> QED
      BY <2>2, <3>1, <3>2, NowhereAtBlank
  <2>4. [i \in 1..n |-> Text(mem, call[i].param)]
          = [i \in 1..n |-> Line!Word(Line!Rest(line), i)]
    <3> HIDE DEF call, n, line
    <3> QED
      BY <2>2
  <2>5. Line!Ran(name, [i \in 1..n |-> Text(mem, call[i].param)]) = Line!Run(line)
    BY <2>4, Zenon DEF Line!Run
  <2> DEFINE words == [i \in 1..n |-> Text(mem, call[i].param)]
  <2>6. words \in Seq(Seq(Bytes))
    <3>1. words \in [1..n -> Seq(Bytes)]
      <4> HIDE DEF call, n
      <4> QED
        BY <2>2
    <3> HIDE DEF words, n
    <3> QED
      BY <2>1, <3>1, FunctionIsSequence, Zenon
  <2>7. Line!Ran(name, words).words = words
    BY Zenon DEF Line!Ran
  <2> HIDE DEF call, n, line, name
  <2> QED
    BY <1>3, <1>5, <2>3, <2>5, <2>6, <2>7
<1> QED
  BY <1>4, <1>5
-----------------------------------------------------------------------------
(* The types.                                                              *)
LEMMA Kinds ==
  LET kinds == {"nothing", "ran", "unclear", "no such command"} IN
  /\ Line!Nothing.kind \in kinds
  /\ Line!NoSuchCommand.kind \in kinds
  /\ \A name : Line!Unclear(name).kind \in kinds
  /\ \A name, words : Line!Ran(name, words).kind \in kinds
<1>1. Line!Nothing.kind = "nothing"
  BY Zenon DEF Line!Nothing
<1>2. Line!NoSuchCommand.kind = "no such command"
  BY Zenon DEF Line!NoSuchCommand
<1>3. \A name : Line!Unclear(name).kind = "unclear"
  BY Zenon DEF Line!Unclear
<1>4. \A name, words : Line!Ran(name, words).kind = "ran"
  BY Zenon DEF Line!Ran
<1> QED
  BY <1>1, <1>2, <1>3, <1>4, Zenon

(* Whatever it is given, execute ends in one of the outcomes.              *)
LEMMA ExecuteKind ==
  ASSUME NEW mem, NEW size
  PROVE  execute(mem, size).kind \in {"nothing", "ran", "unclear", "no such command"}
<1>1. \/ execute(mem, size) = Line!NoSuchCommand
      \/ \E name : execute(mem, size) = Line!Unclear(name)
      \/ \E name, words : execute(mem, size) = Line!Ran(name, words)
  BY Zenon DEF execute
<1> QED
  BY <1>1, Kinds, Zenon

(* TypeOK but for the kind of the outcome.                                 *)
ArrayOK == /\ key \in Keys \cup {13}
           /\ consoleBuffer \in [Indices -> Bytes]
           /\ consoleBufferIdx \in Indices
           /\ tidy \in BOOLEAN

(* The array is rubbish, but rubbish of the right type.                    *)
LEMMA InitTypeOK == Init => TypeOK
<1> SUFFICES ASSUME Init PROVE TypeOK
  OBVIOUS
<1>1. ArrayOK
  BY SizeBounds, RubbishAssumption DEF Init, ArrayOK, Indices
<1>2. outcome.kind \in {"nothing", "ran", "unclear", "no such command"}
  BY Kinds, Zenon DEF Init
<1> QED
  BY <1>1, <1>2, Zenon DEF TypeOK, ArrayOK

(* Every key keeps the types: the index stays inside the array, the last   *)
(* element is kept for the terminator.                                     *)
LEMMA NextTypeOK == TypeOK /\ [Next]_vars => TypeOK'
<1> SUFFICES ASSUME TypeOK, [Next]_vars PROVE TypeOK'
  OBVIOUS
<1>1. ArrayOK
  BY Zenon DEF TypeOK, ArrayOK
<1>2. BufferSize \in Nat /\ BufferSize > 1 /\ consoleBufferIdx \in 0..(BufferSize - 1)
  BY <1>1, SizeBounds DEF ArrayOK, Indices
<1>3. CASE PressEnter /\ UNCHANGED tidy
  <2>1. ArrayOK'
    BY <1>1, <1>2, <1>3 DEF ArrayOK, PressEnter, Terminated, Indices, Bytes
  <2>2. outcome'.kind \in {"nothing", "ran", "unclear", "no such command"}
    <3>1. outcome' = execute(consoleBuffer', consoleBufferIdx)
      BY <1>3 DEF PressEnter
    <3> QED
      BY <3>1, ExecuteKind, Zenon
  <2> QED
    BY <2>1, <2>2, Zenon DEF TypeOK, ArrayOK
<1>4. CASE (PressCharacter \/ PressBackspace \/ PressOther) /\ UNCHANGED tidy
  <2>1. ASSUME PressCharacter PROVE ArrayOK'
    <3>1. key' \in Keys /\ key' \in Bytes /\ tidy' = tidy
      BY <1>4, <2>1 DEF PressCharacter, Bytes
    <3>2. CASE HasRoom
      <4>1. /\ consoleBuffer' = [consoleBuffer EXCEPT ![consoleBufferIdx] = key']
            /\ consoleBufferIdx' = consoleBufferIdx + 1
        BY <2>1, <3>2 DEF PressCharacter
      <4>2. consoleBufferIdx' \in Indices
        BY <1>2, <3>2, <4>1 DEF HasRoom, Indices
      <4> QED
        BY <1>1, <3>1, <4>1, <4>2 DEF ArrayOK
    <3>3. CASE ~HasRoom
      BY <1>1, <2>1, <3>1, <3>3 DEF ArrayOK, PressCharacter
    <3> QED
      BY <3>2, <3>3
  <2>2. ASSUME PressBackspace PROVE ArrayOK'
    BY <1>1, <1>2, <1>4, <2>2 DEF ArrayOK, PressBackspace, HasRoom, Indices
  <2>3. ASSUME PressOther PROVE ArrayOK'
    BY <1>1, <1>4, <2>3 DEF ArrayOK, PressOther
  <2>4. ArrayOK'
    BY <1>4, <2>1, <2>2, <2>3
  <2>5. outcome'.kind \in {"nothing", "ran", "unclear", "no such command"}
    <3>1. outcome' = Line!Nothing
      BY <1>4 DEF PressCharacter, PressBackspace, PressOther
    <3> QED
      BY <3>1, Kinds, Zenon
  <2> QED
    BY <2>4, <2>5, Zenon DEF TypeOK, ArrayOK
<1>5. CASE UNCHANGED vars
  BY <1>5, Zenon DEF TypeOK, vars
<1> QED
  BY <1>3, <1>4, <1>5 DEF Next

(* The index of the console's line stays inside its array, with room for   *)
(* the terminator, and the array and the outcome keep their types, for     *)
(* every size of the array, every set of keys and every set of commands    *)
(* (the loop of efi_init).                                                 *)
THEOREM TypeCorrect == Spec => []TypeOK
  BY InitTypeOK, NextTypeOK, PTL DEF Spec
-----------------------------------------------------------------------------
(* Every key does to the line what CommandLine says.                       *)
line == Typed(consoleBuffer, consoleBufferIdx)

(* The line typed so far, its length and its characters.                   *)
LEMMA LineNow ==
  ASSUME TypeOK
  PROVE  /\ consoleBufferIdx \in Nat /\ consoleBufferIdx < BufferSize
         /\ line \in Seq(Bytes) /\ Len(line) = consoleBufferIdx
         /\ \A i \in 1..consoleBufferIdx : line[i] = consoleBuffer[i - 1]
<1>1. consoleBuffer \in [Indices -> Bytes] /\ consoleBufferIdx \in Indices
  BY Zenon DEF TypeOK
<1>2. consoleBufferIdx \in Nat /\ consoleBufferIdx < BufferSize
  BY <1>1, SizeBounds DEF Indices
<1>3. \A i \in 1..consoleBufferIdx : consoleBuffer[i - 1] \in Bytes
  BY <1>1, <1>2, SizeBounds DEF Indices
<1>4. line \in [1..consoleBufferIdx -> Bytes]
  BY <1>3 DEF line, Typed
<1>5. line \in Seq(Bytes) /\ Len(line) = consoleBufferIdx
  BY <1>2, <1>4, FunctionIsSequence
<1>6. \A i \in 1..consoleBufferIdx : line[i] = consoleBuffer[i - 1]
  BY DEF line, Typed
<1> QED
  BY <1>2, <1>5, <1>6

(* After Enter there is no line.                                           *)
LEMMA EmptyLine ==
  ASSUME NEW mem
  PROVE  Typed(mem, 0) = <<>>
  BY DEF Typed

(* The console begins with an empty line.                                  *)
LEMMA InitLine == Init => Line!Init
<1> SUFFICES ASSUME Init PROVE Line!Init
  OBVIOUS
<1>1. key = 13 /\ outcome = Line!Nothing /\ tidy \in BOOLEAN /\ consoleBufferIdx = 0
  BY DEF Init
<1>2. Typed(consoleBuffer, consoleBufferIdx) = <<>>
  BY <1>1, EmptyLine
<1> QED
  BY <1>1, <1>2 DEF Line!Init, Line!Enter, Typed

(* Enter runs the line: the terminator is written behind it and changes    *)
(* none of its characters.                                                 *)
LEMMA EnterExecutes ==
  ASSUME TypeOK, PressEnter
  PROVE  Line!Execute
<1>1. /\ consoleBufferIdx \in Nat /\ consoleBufferIdx < BufferSize
      /\ line \in Seq(Bytes) /\ Len(line) = consoleBufferIdx
  BY LineNow
<1>2. /\ key' \in Keys \cap {13} /\ consoleBufferIdx' = 0
      /\ consoleBuffer' = [consoleBuffer EXCEPT ![consoleBufferIdx] = 0]
      /\ outcome' = execute(consoleBuffer', consoleBufferIdx)
  BY DEF PressEnter, Terminated
<1>3. consoleBuffer \in [Indices -> Bytes] /\ consoleBufferIdx \in Indices
  BY Zenon DEF TypeOK
<1>4. IsArray(consoleBuffer', consoleBufferIdx)
  BY <1>2, <1>3 DEF IsArray, Bytes
<1>5. Typed(consoleBuffer', consoleBufferIdx) = line
  <2>1. \A i \in 1..consoleBufferIdx : consoleBuffer'[i - 1] = consoleBuffer[i - 1]
    BY <1>1, <1>2, <1>3, SizeBounds DEF Indices
  <2> QED
    BY <2>1 DEF Typed, line
<1>6. \/ Line!Command(line) \in Names /\ outcome' = Line!Run(line)
      \/ /\ Line!Command(line) \in Names /\ ~tidy /\ Line!EndsInBlank(line)
         /\ outcome' = Line!Unclear(Line!Command(line))
      \/ Line!Command(line) \notin Names /\ outcome' = Line!NoSuchCommand
  BY <1>2, <1>4, <1>5, ExecuteLine
<1>7. Typed(consoleBuffer', consoleBufferIdx') = <<>>
  BY <1>2, EmptyLine
<1> QED
  BY <1>2, <1>6, <1>7 DEF Line!Execute, Line!Enter, line, Typed

(* Append, as a function.                                                  *)
LEMMA AppendCharacter ==
  ASSUME NEW text \in Seq(Bytes), NEW c \in Bytes, NEW n \in Nat, Len(text) = n
  PROVE  Append(text, c) = [i \in 1..(n + 1) |-> IF i <= n THEN text[i] ELSE c]
<1> DEFINE more == Append(text, c)
<1>1. /\ more \in Seq(Bytes) /\ Len(more) = n + 1
      /\ \A i \in 1..n : more[i] = text[i]
      /\ more[n + 1] = c
  BY AppendProperties
<1> HIDE DEF more
<1>2. more = [i \in 1..(n + 1) |-> more[i]]
  BY <1>1
<1>3. \A i \in 1..(n + 1) : more[i] = IF i <= n THEN text[i] ELSE c
  BY <1>1
<1> QED
  BY <1>2, <1>3 DEF more

(* A character is appended, unless the line is full.                       *)
LEMMA CharacterTypes ==
  ASSUME TypeOK, PressCharacter
  PROVE  Line!Type
<1>1. /\ consoleBufferIdx \in Nat /\ consoleBufferIdx < BufferSize
      /\ line \in Seq(Bytes) /\ Len(line) = consoleBufferIdx
      /\ \A i \in 1..consoleBufferIdx : line[i] = consoleBuffer[i - 1]
  BY LineNow
<1>2. key' \in Keys \cap Line!Printable /\ outcome' = Line!Nothing
  BY DEF PressCharacter, Line!Printable
<1>3. line' = IF Len(line) < BufferSize - 1 THEN Append(line, key') ELSE line
  <2>1. CASE HasRoom
    <3>1. /\ consoleBuffer' = [consoleBuffer EXCEPT ![consoleBufferIdx] = key']
          /\ consoleBufferIdx' = consoleBufferIdx + 1
      BY <2>1 DEF PressCharacter
    <3>2. consoleBuffer \in [Indices -> Bytes] /\ consoleBufferIdx \in Indices
      BY Zenon DEF TypeOK
    <3>3. \A i \in 1..(consoleBufferIdx + 1) :
            consoleBuffer'[i - 1] = IF i <= consoleBufferIdx THEN line[i] ELSE key'
      BY <1>1, <3>1, <3>2, SizeBounds DEF Indices
    <3>4. line' = [i \in 1..(consoleBufferIdx + 1) |-> consoleBuffer'[i - 1]]
      BY <3>1 DEF line, Typed
    <3>5. Append(line, key') = [i \in 1..(consoleBufferIdx + 1) |->
                                  IF i <= consoleBufferIdx THEN line[i] ELSE key']
      <4>1. key' \in Bytes
        BY DEF PressCharacter, Bytes
      <4> QED
        BY <1>1, <4>1, AppendCharacter
    <3>6. line' = Append(line, key')
      BY <3>3, <3>4, <3>5
    <3> QED
      BY <1>1, <2>1, <3>6 DEF HasRoom
  <2>2. CASE ~HasRoom
    <3>1. line' = line
      BY <2>2 DEF PressCharacter, line
    <3> QED
      BY <1>1, <2>2, <3>1 DEF HasRoom
  <2> QED
    BY <2>1, <2>2
<1> QED
  BY <1>2, <1>3, Zenon DEF Line!Type, line, Typed

(* Backspace takes the last character away, unless the line is full.       *)
LEMMA BackspaceErases ==
  ASSUME TypeOK, PressBackspace
  PROVE  Line!Erase
<1>1. /\ consoleBufferIdx \in Nat /\ consoleBufferIdx < BufferSize
      /\ line \in Seq(Bytes) /\ Len(line) = consoleBufferIdx
      /\ \A i \in 1..consoleBufferIdx : line[i] = consoleBuffer[i - 1]
  BY LineNow
<1>2. /\ key' \in Keys \cap {Line!Backspace} /\ outcome' = Line!Nothing
      /\ consoleBuffer' = consoleBuffer
  BY DEF PressBackspace, Line!Backspace
<1>3. line' = IF Len(line) \in 1..((BufferSize - 1) - 1)
              THEN SubSeq(line, 1, Len(line) - 1) ELSE line
  <2>1. CASE HasRoom /\ consoleBufferIdx > 0
    <3>1. consoleBufferIdx' = consoleBufferIdx - 1
      BY <2>1 DEF PressBackspace
    <3>2. line' = [i \in 1..(consoleBufferIdx - 1) |-> consoleBuffer[i - 1]]
      BY <1>2, <3>1 DEF line, Typed
    <3>3. SubSeq(line, 1, consoleBufferIdx - 1) = [i \in 1..(consoleBufferIdx - 1) |-> line[i]]
      BY <1>1, <2>1
    <3>4. line' = SubSeq(line, 1, Len(line) - 1)
      BY <1>1, <3>2, <3>3
    <3> QED
      BY <1>1, <2>1, <3>4, SizeBounds DEF HasRoom
  <2>2. CASE ~(HasRoom /\ consoleBufferIdx > 0)
    <3>1. line' = line
      BY <1>2, <2>2 DEF PressBackspace, line
    <3> QED
      BY <1>1, <2>2, <3>1, SizeBounds DEF HasRoom
  <2> QED
    BY <2>1, <2>2
<1> QED
  BY <1>2, <1>3, Zenon DEF Line!Erase, line, Typed

(* No other key changes the line.                                          *)
LEMMA OtherKeeps ==
  ASSUME PressOther
  PROVE  Line!Other
<1>1. /\ key' \in Keys \ (Line!Printable \cup {Line!Backspace, Line!Enter})
      /\ outcome' = Line!Nothing
  BY DEF PressOther, Line!Printable, Line!Backspace, Line!Enter
<1>2. line' = line
  BY DEF PressOther, line
<1> QED
  BY <1>1, <1>2, Zenon DEF Line!Other, line, Typed

(* Every step of the console is a step of the line, or changes nothing.    *)
LEMMA NextLine == TypeOK /\ [Next]_vars => [Line!Next]_(Line!lineVars)
<1> SUFFICES ASSUME TypeOK, [Next]_vars PROVE [Line!Next]_(Line!lineVars)
  OBVIOUS
<1>1. CASE Next
  <2>1. Line!Type \/ Line!Erase \/ Line!Other \/ Line!Execute
    BY <1>1, EnterExecutes, CharacterTypes, BackspaceErases, OtherKeeps, Zenon DEF Next
  <2>2. UNCHANGED tidy
    BY <1>1 DEF Next
  <2> QED
    BY <2>1, <2>2, Zenon DEF Line!Next
<1>2. CASE UNCHANGED vars
  BY <1>2, Zenon DEF vars, Line!lineVars
<1> QED
  BY <1>1, <1>2

(* The array that is never cleared, its index, and the parser that works   *)
(* on it with indices implement the editor of lines of CommandLine: a      *)
(* command gets the words of the line that was typed, in their order,      *)
(* never a character that an earlier line left in the array, never a word  *)
(* of another command (Commands::execute, getCommand and findNextParam).   *)
(* This holds for every size of the array, every rubbish in it, every set  *)
(* of keys and commands and every number of parameters they look for.      *)
THEOREM ImplementsLine == Spec => EditsLines
  BY InitLine, InitTypeOK, NextTypeOK, NextLine, PTL DEF Spec, EditsLines, Line!Spec
-----------------------------------------------------------------------------
(* The recursive functions of the values.                                  *)

(* f is the function on 0..n that starts with a and goes on by the steps G. *)
Follows(f, n, a, G) == f = [i \in 0..n |-> IF i = 0 THEN a ELSE G[i][f[i - 1]]]

(* There is such a function, and it stays where the steps stay: by         *)
(* induction on n.                                                         *)
LEMMA Followed ==
  ASSUME NEW S, NEW a \in S, NEW n \in Nat, NEW G,
         \A i \in 1..n : \A x \in S : G[i][x] \in S
  PROVE  \E f \in [0..n -> S] : Follows(f, n, a, G)
<1> DEFINE T == {k \in Nat : k <= n => \E f \in [0..k -> S] : Follows(f, k, a, G)}
<1>1. 0 \in T
  <2> DEFINE f == [i \in 0..0 |-> a]
  <2>1. f \in [0..0 -> S] /\ Follows(f, 0, a, G)
    BY DEF Follows
  <2> QED
    BY <2>1
<1>2. ASSUME NEW k \in Nat, k \in T PROVE k + 1 \in T
  <2> SUFFICES ASSUME k + 1 <= n
               PROVE  \E g \in [0..(k + 1) -> S] : Follows(g, k + 1, a, G)
    OBVIOUS
  <2>1. PICK f \in [0..k -> S] : Follows(f, k, a, G)
    BY <1>2
  <2> DEFINE g == [i \in 0..(k + 1) |-> IF i <= k THEN f[i] ELSE G[k + 1][f[k]]]
  <2>2. f[k] \in S /\ k + 1 \in 1..n
    OBVIOUS
  <2>3. g \in [0..(k + 1) -> S]
    BY <2>2
  <2>4. ASSUME NEW i \in 0..(k + 1)
        PROVE  g[i] = IF i = 0 THEN a ELSE G[i][g[i - 1]]
    <3>1. \A j \in 0..k : f[j] = IF j = 0 THEN a ELSE G[j][f[j - 1]]
      BY <2>1 DEF Follows
    <3>2. CASE i = 0
      BY <3>1, <3>2
    <3>3. CASE i \in 1..k
      <4>1. g[i] = f[i] /\ g[i - 1] = f[i - 1] /\ i \in 0..k /\ i # 0
        BY <3>3
      <4> QED
        BY <3>1, <4>1
    <3>4. CASE i = k + 1
      <4>1. g[i] = G[k + 1][f[k]] /\ g[i - 1] = f[k]
        BY <3>4
      <4> QED
        BY <3>4, <4>1
    <3> QED
      BY <3>2, <3>3, <3>4
  <2> HIDE DEF g
  <2>5. Follows(g, k + 1, a, G)
    BY <2>3, <2>4 DEF Follows
  <2> QED
    BY <2>3, <2>5
<1> HIDE DEF T
<1>3. Nat \subseteq T
  BY <1>1, <1>2, InductiveSet
<1>4. n \in T
  BY <1>3
<1> QED
  BY <1>4 DEF T

(* Every character of the text has a value.                                *)
AreDigits(text) == /\ Len(text) \in Nat
                   /\ \A i \in 1..Len(text) : hexchar2value(text[i]) \in Nat

(* The functions of ValueOf and Number.                                    *)
Value(text, b) ==
  CHOOSE value : value = [i \in 0..Len(text) |->
                   IF i = 0 THEN 0
                   ELSE (b * value[i - 1] + hexchar2value(text[i])) % Modulus]

Places(text, b) ==
  CHOOSE power : power = [i \in 0..Len(text) |-> IF i = 0 THEN 1 ELSE b * power[i - 1]]

Sums(text, b) ==
  CHOOSE sum : sum = [i \in 0..Len(text) |->
                 IF i = 0 THEN 0
                 ELSE sum[i - 1] + hexchar2value(text[Len(text) + 1 - i])
                                     * Places(text, b)[i - 1]]

(* The loop of the conversion: from a digit to the next.                   *)
LEMMA ValueFollows ==
  ASSUME NEW text, AreDigits(text), NEW b \in Nat
  PROVE  /\ ValueOf(text, b) = Value(text, b)[Len(text)]
         /\ Value(text, b)[0] = 0
         /\ \A i \in 0..Len(text) : Value(text, b)[i] \in Nat
         /\ \A i \in 1..Len(text) :
              Value(text, b)[i] = (b * Value(text, b)[i - 1] + hexchar2value(text[i])) % Modulus
<1> DEFINE L == Len(text)
           d(i) == hexchar2value(text[i])
           G == [i \in 1..L |-> [x \in Nat |-> (b * x + d(i)) % Modulus]]
           v == Value(text, b)
<1>1. L \in Nat /\ \A i \in 1..L : d(i) \in Nat
  BY DEF AreDigits
<1> HIDE DEF d
<1>2. Modulus \in Nat /\ Modulus > 0
  BY SizeAssumption
<1>3. \A i \in 1..L : \A x \in Nat : G[i][x] = (b * x + d(i)) % Modulus
  OBVIOUS
<1>4. \A i \in 1..L : \A x \in Nat : (b * x + d(i)) % Modulus \in Nat
  BY <1>1, <1>2
<1>5. \A i \in 1..L : \A x \in Nat : G[i][x] \in Nat
  BY <1>3, <1>4
<1> HIDE DEF L, G
<1>6. PICK f \in [0..L -> Nat] : Follows(f, L, 0, G)
  BY <1>1, <1>5, Followed
<1>7. f = [i \in 0..L |-> IF i = 0 THEN 0 ELSE (b * f[i - 1] + d(i)) % Modulus]
  <2>1. \A i \in 0..L : f[i] = IF i = 0 THEN 0 ELSE G[i][f[i - 1]]
    BY <1>6 DEF Follows
  <2>2. ASSUME NEW i \in 1..L PROVE f[i] = (b * f[i - 1] + d(i)) % Modulus
    <3>1. f[i - 1] \in Nat /\ i \in 0..L /\ i # 0
      BY <1>1
    <3> QED
      BY <1>3, <2>1, <3>1
  <2>3. f[0] = 0
    BY <1>1, <2>1
  <2>4. \A i \in 0..L : i # 0 => i \in 1..L
    BY <1>1
  <2> QED
    BY <2>2, <2>3, <2>4
<1>8. v = [i \in 0..L |-> IF i = 0 THEN 0 ELSE (b * v[i - 1] + d(i)) % Modulus]
  BY <1>7, Zenon DEF Value, L, d
<1>9. ValueOf(text, b) = v[L]
  BY Zenon DEF ValueOf, Value, L
<1> HIDE DEF v
<1>10. /\ v[0] = 0
       /\ \A i \in 1..L : v[i] = (b * v[i - 1] + d(i)) % Modulus
  BY <1>1, <1>8
<1>11. \A i \in 0..L : v[i] \in Nat
  <2> DEFINE T == {k \in Nat : k <= L => v[k] \in Nat}
  <2>1. 0 \in T
    BY <1>10
  <2>2. ASSUME NEW k \in Nat, k \in T PROVE k + 1 \in T
    <3> SUFFICES ASSUME k + 1 <= L PROVE v[k + 1] \in Nat
      OBVIOUS
    <3>1. k + 1 \in 1..L /\ (k + 1) - 1 = k /\ v[k] \in Nat
      BY <1>1, <2>2
    <3>2. v[k + 1] = (b * v[k] + d(k + 1)) % Modulus
      BY <1>10, <3>1
    <3> QED
      BY <1>4, <3>1, <3>2
  <2> HIDE DEF T
  <2>3. Nat \subseteq T
    BY <2>1, <2>2, InductiveSet
  <2> QED
    BY <1>1, <2>3 DEF T
<1> QED
  BY <1>9, <1>10, <1>11 DEF L, d, v

(* The powers of the base, the lowest first.                               *)
LEMMA PlacesFollow ==
  ASSUME NEW text, AreDigits(text), NEW b \in Nat
  PROVE  /\ Places(text, b)[0] = 1
         /\ \A i \in 0..Len(text) : Places(text, b)[i] \in Nat
         /\ \A i \in 1..Len(text) : Places(text, b)[i] = b * Places(text, b)[i - 1]
<1> DEFINE L == Len(text)
           G == [i \in 1..L |-> [x \in Nat |-> b * x]]
           p == Places(text, b)
<1>1. L \in Nat
  BY DEF AreDigits
<1>2. \A i \in 1..L : \A x \in Nat : G[i][x] = b * x /\ G[i][x] \in Nat
  OBVIOUS
<1> HIDE DEF L, G
<1>3. PICK f \in [0..L -> Nat] : Follows(f, L, 1, G)
  BY <1>1, <1>2, Followed
<1>4. f = [i \in 0..L |-> IF i = 0 THEN 1 ELSE b * f[i - 1]]
  <2>1. \A i \in 0..L : f[i] = IF i = 0 THEN 1 ELSE G[i][f[i - 1]]
    BY <1>3 DEF Follows
  <2>2. ASSUME NEW i \in 1..L PROVE f[i] = b * f[i - 1]
    <3>1. f[i - 1] \in Nat /\ i \in 0..L /\ i # 0
      BY <1>1
    <3> QED
      BY <1>2, <2>1, <3>1
  <2>3. f[0] = 1
    BY <1>1, <2>1
  <2>4. \A i \in 0..L : i # 0 => i \in 1..L
    BY <1>1
  <2> QED
    BY <2>2, <2>3, <2>4
<1>5. p = [i \in 0..L |-> IF i = 0 THEN 1 ELSE b * p[i - 1]]
  BY <1>4, Zenon DEF Places, L
<1> HIDE DEF p
<1>6. p[0] = 1 /\ \A i \in 1..L : p[i] = b * p[i - 1]
  BY <1>1, <1>5
<1>7. \A i \in 0..L : p[i] \in Nat
  <2> DEFINE T == {k \in Nat : k <= L => p[k] \in Nat}
  <2>1. 0 \in T
    BY <1>6
  <2>2. ASSUME NEW k \in Nat, k \in T PROVE k + 1 \in T
    <3> SUFFICES ASSUME k + 1 <= L PROVE p[k + 1] \in Nat
      OBVIOUS
    <3>1. k + 1 \in 1..L /\ (k + 1) - 1 = k /\ p[k] \in Nat
      BY <1>1, <2>2
    <3>2. p[k + 1] = b * p[k]
      BY <1>6, <3>1
    <3> QED
      BY <3>1, <3>2
  <2> HIDE DEF T
  <2>3. Nat \subseteq T
    BY <2>1, <2>2, InductiveSet
  <2> QED
    BY <1>1, <2>3 DEF T
<1> QED
  BY <1>6, <1>7 DEF L, p

(* The sums of the places, from the lowest.                                *)
LEMMA SumsFollow ==
  ASSUME NEW text, AreDigits(text), NEW b \in Nat
  PROVE  /\ Number(text, b) = Sums(text, b)[Len(text)]
         /\ Sums(text, b)[0] = 0
         /\ \A i \in 0..Len(text) : Sums(text, b)[i] \in Nat
         /\ \A i \in 1..Len(text) :
              Sums(text, b)[i] = Sums(text, b)[i - 1]
                + hexchar2value(text[Len(text) + 1 - i]) * Places(text, b)[i - 1]
<1> DEFINE L == Len(text)
           p == Places(text, b)
           t(i) == hexchar2value(text[Len(text) + 1 - i]) * p[i - 1]
           G == [i \in 1..L |-> [x \in Nat |-> x + t(i)]]
           s == Sums(text, b)
<1>1. L \in Nat
  BY DEF AreDigits
<1>2. \A i \in 1..L : t(i) \in Nat
  <2>1. ASSUME NEW i \in 1..L PROVE t(i) \in Nat
    <3>1. i - 1 \in 0..L /\ Len(text) + 1 - i \in 1..L
      BY <1>1
    <3>2. p[i - 1] \in Nat
      BY <3>1, PlacesFollow
    <3>3. hexchar2value(text[Len(text) + 1 - i]) \in Nat
      BY <3>1 DEF AreDigits
    <3> QED
      BY <3>2, <3>3
  <2> QED
    BY <2>1
<1>3. s = CHOOSE sum : sum = [i \in 0..L |-> IF i = 0 THEN 0 ELSE sum[i - 1] + t(i)]
  BY Zenon DEF Sums
<1>4. Number(text, b) = s[L]
  BY Zenon DEF Number, Sums, Places
<1> HIDE DEF t, p, s
<1>5. \A i \in 1..L : \A x \in Nat : G[i][x] = x + t(i) /\ G[i][x] \in Nat
  BY <1>2
<1> HIDE DEF L, G
<1>6. PICK f \in [0..L -> Nat] : Follows(f, L, 0, G)
  BY <1>1, <1>5, Followed
<1>7. f = [i \in 0..L |-> IF i = 0 THEN 0 ELSE f[i - 1] + t(i)]
  <2>1. \A i \in 0..L : f[i] = IF i = 0 THEN 0 ELSE G[i][f[i - 1]]
    BY <1>6 DEF Follows
  <2>2. ASSUME NEW i \in 1..L PROVE f[i] = f[i - 1] + t(i)
    <3>1. f[i - 1] \in Nat /\ i \in 0..L /\ i # 0
      BY <1>1
    <3> QED
      BY <1>5, <2>1, <3>1
  <2>3. f[0] = 0
    <3>1. 0 \in 0..L
      BY <1>1
    <3> QED
      BY <2>1, <3>1, Zenon
  <2>4. \A i \in 0..L : i # 0 => i \in 1..L
    BY <1>1
  <2> QED
    BY <2>2, <2>3, <2>4
<1>8. s = [i \in 0..L |-> IF i = 0 THEN 0 ELSE s[i - 1] + t(i)]
  BY <1>3, <1>7, Zenon
<1>9. s[0] = 0 /\ \A i \in 1..L : s[i] = s[i - 1] + t(i)
  BY <1>1, <1>8
<1>10. \A i \in 0..L : s[i] \in Nat
  <2> DEFINE T == {k \in Nat : k <= L => s[k] \in Nat}
  <2>1. 0 \in T
    BY <1>9
  <2>2. ASSUME NEW k \in Nat, k \in T PROVE k + 1 \in T
    <3> SUFFICES ASSUME k + 1 <= L PROVE s[k + 1] \in Nat
      OBVIOUS
    <3>1. k + 1 \in 1..L /\ (k + 1) - 1 = k /\ s[k] \in Nat
      BY <1>1, <2>2
    <3>2. s[k + 1] = s[k] + t(k + 1) /\ t(k + 1) \in Nat
      BY <1>2, <1>9, <3>1
    <3> QED
      BY <3>1, <3>2
  <2> HIDE DEF T
  <2>3. Nat \subseteq T
    BY <2>1, <2>2, InductiveSet
  <2> QED
    BY <1>1, <2>3 DEF T
<1> QED
  BY <1>4, <1>9, <1>10 DEF L, s, t, p

(* Quotient and remainder are the only numbers that make up the dividend.  *)
LEMMA QuotientAndRemainder ==
  ASSUME NEW a \in Nat, NEW b \in Nat, b > 0
  PROVE  /\ a \div b \in Nat /\ a % b \in Nat
         /\ a % b < b
         /\ a = b * (a \div b) + (a % b)
<1>1. a \div b \in Int /\ a % b \in 0..(b - 1)
  OBVIOUS
<1>2. a = b * (a \div b) + (a % b)
  OBVIOUS
<1>3. a \div b >= 0
  BY <1>1, <1>2
<1> QED
  BY <1>1, <1>2, <1>3

LEMMA DivisionUnique ==
  ASSUME NEW a \in Nat, NEW b \in Nat, NEW q \in Nat, NEW r \in Nat, r < b, a = b * q + r
  PROVE  a \div b = q /\ a % b = r
<1> DEFINE p == a \div b
           m == a % b
<1>1. p \in Nat /\ m \in Nat /\ m < b /\ a = b * p + m
  BY QuotientAndRemainder
<1> HIDE DEF p, m
<1>2. ~(p < q)
  <2> SUFFICES ASSUME p < q PROVE FALSE
    OBVIOUS
  <2>1. b * (q - p) >= b
    BY <1>1
  <2> QED
    BY <1>1, <2>1
<1>3. ~(q < p)
  <2> SUFFICES ASSUME q < p PROVE FALSE
    OBVIOUS
  <2>1. b * (p - q) >= b
    BY <1>1
  <2> QED
    BY <1>1, <2>1
<1>4. p = q
  BY <1>1, <1>2, <1>3
<1> QED
  BY <1>1, <1>4 DEF p, m

(* A multiple of the modulus changes no remainder.                         *)
LEMMA RemainderOfSum ==
  ASSUME NEW m \in Nat, m > 0, NEW k \in Nat, NEW y \in Nat
  PROVE  (m * k + y) % m = y % m
<1> DEFINE q == y \div m
           r == y % m
           a == m * k + y
<1>1. q \in Nat /\ r \in Nat /\ r < m /\ y = m * q + r
  BY QuotientAndRemainder
<1> HIDE DEF q, r
<1>2. k + q \in Nat /\ a \in Nat
  BY <1>1
<1>3. a = m * (k + q) + r
  BY <1>1
<1> HIDE DEF a
<1>4. a % m = r
  BY <1>1, <1>2, <1>3, DivisionUnique
<1> QED
  BY <1>4 DEF a, r

(* A remainder may be taken early.                                         *)
Early(m, x, p, s) == (((x % m) * p) + s) % m = ((x * p) + s) % m

LEMMA RemainderEarly ==
  ASSUME NEW m \in Nat, m > 0, NEW x \in Nat, NEW p \in Nat, NEW s \in Nat
  PROVE  Early(m, x, p, s)
<1> DEFINE q == x \div m
           r == x % m
<1>1. q \in Nat /\ r \in Nat /\ x = m * q + r
  BY QuotientAndRemainder
<1> HIDE DEF q, r
<1>2. x * p = m * (q * p) + r * p
  BY <1>1
<1> DEFINE y == (r * p) + s
           k == q * p
<1>3. r * p \in Nat /\ k \in Nat
  BY <1>1
<1>4. y \in Nat
  BY <1>3
<1>5. (x * p) + s = (m * k) + y
  BY <1>2, <1>3
<1> HIDE DEF y, k
<1>6. ((m * k) + y) % m = y % m
  BY <1>3, <1>4, RemainderOfSum
<1> QED
  BY <1>5, <1>6 DEF y, r, Early

(* One digit more is taken from the value to the places: the remainder of  *)
(* both together stays.                                                    *)
Moves(m, b, v, d, p, s) ==
  (((((b * v) + d) % m) * p) + s) % m = ((v * (b * p)) + (s + (d * p))) % m

LEMMA DigitMoves ==
  ASSUME NEW m \in Nat, m > 0, NEW b \in Nat, NEW v \in Nat, NEW d \in Nat,
         NEW p \in Nat, NEW s \in Nat
  PROVE  Moves(m, b, v, d, p, s)
<1> DEFINE x == (b * v) + d
<1>1. x \in Nat
  OBVIOUS
<1>2. (x * p) + s = (v * (b * p)) + (s + (d * p))
  OBVIOUS
<1> HIDE DEF x
<1>3. Early(m, x, p, s)
  BY <1>1, RemainderEarly
<1> QED
  BY <1>2, <1>3 DEF x, Early, Moves

(* The value of a text of digits is the number they write, modulo the      *)
(* width of a value: the value of the first Len - j digits and the sum of  *)
(* the last j places make it up, for every j.                              *)
LEMMA ValueIsNumber ==
  ASSUME NEW text, AreDigits(text), NEW b \in Nat
  PROVE  ValueOf(text, b) = Number(text, b) % Modulus
<1> DEFINE L == Len(text)
           M == Modulus
           v == Value(text, b)
           p == Places(text, b)
           s == Sums(text, b)
           d(i) == hexchar2value(text[i])
           both(j) == ((v[L - j] * p[j]) + s[j]) % M
<1>1. L \in Nat /\ \A i \in 1..L : d(i) \in Nat
  BY DEF AreDigits
<1>2. M \in Nat /\ M > 0
  BY SizeAssumption
<1>3. /\ ValueOf(text, b) = v[L] /\ v[0] = 0
      /\ \A i \in 0..L : v[i] \in Nat
      /\ \A i \in 1..L : v[i] = ((b * v[i - 1]) + d(i)) % M
  BY ValueFollows
<1>4. /\ p[0] = 1
      /\ \A i \in 0..L : p[i] \in Nat
      /\ \A i \in 1..L : p[i] = b * p[i - 1]
  BY PlacesFollow
<1>5. /\ Number(text, b) = s[L] /\ s[0] = 0
      /\ \A i \in 0..L : s[i] \in Nat
      /\ \A i \in 1..L : s[i] = s[i - 1] + (d(L + 1 - i) * p[i - 1])
  BY SumsFollow
<1> HIDE DEF L, M, v, p, s, d
<1>6. ASSUME NEW j \in 0..(L - 1) PROVE both(j) = both(j + 1)
  <2>1. /\ j \in 0..L /\ j + 1 \in 1..L /\ j + 1 \in 0..L /\ (j + 1) - 1 = j
        /\ L - j \in 1..L /\ (L - j) - 1 = L - (j + 1) /\ L - (j + 1) \in 0..L
        /\ L + 1 - (j + 1) = L - j
    BY <1>1
  <2>2. PICK w \in Nat, c \in Nat, q \in Nat, u \in Nat :
          w = v[L - (j + 1)] /\ c = d(L - j) /\ q = p[j] /\ u = s[j]
    BY <1>1, <1>3, <1>4, <1>5, <2>1
  <2>3. v[L - j] = ((b * w) + c) % M
    BY <1>3, <2>1, <2>2
  <2>4. p[j + 1] = b * q
    BY <1>4, <2>1, <2>2
  <2>5. s[j + 1] = u + (c * q)
    BY <1>5, <2>1, <2>2
  <2>6. both(j) = (((((b * w) + c) % M) * q) + u) % M
    BY <2>2, <2>3
  <2>7. both(j + 1) = ((w * (b * q)) + (u + (c * q))) % M
    BY <2>2, <2>4, <2>5
  <2>8. Moves(M, b, w, c, q, u)
    BY <1>2, DigitMoves
  <2> QED
    BY <2>6, <2>7, <2>8 DEF Moves
<1> DEFINE T == {k \in Nat : k <= L => both(k) = both(0)}
<1>7. Nat \subseteq T
  <2> HIDE DEF both
  <2>1. 0 \in T
    OBVIOUS
  <2>2. ASSUME NEW k \in Nat, k \in T PROVE k + 1 \in T
    <3> SUFFICES ASSUME k + 1 <= L PROVE both(k + 1) = both(0)
      OBVIOUS
    <3>1. k \in 0..(L - 1) /\ both(k) = both(0)
      BY <1>1, <2>2
    <3> QED
      BY <1>6, <3>1
  <2> HIDE DEF T
  <2> QED
    BY <2>1, <2>2, InductiveSet
<1>8. both(L) = both(0)
  <2> HIDE DEF both
  <2>1. L \in T
    BY <1>1, <1>7
  <2> QED
    BY <1>1, <2>1
<1>9. both(L) = s[L] % M
  <2>1. L - L = 0 /\ L \in 0..L
    BY <1>1
  <2>2. PICK q \in Nat, u \in Nat : q = p[L] /\ u = s[L]
    BY <1>4, <1>5, <2>1
  <2>3. (0 * q) + u = u
    OBVIOUS
  <2> QED
    BY <1>3, <2>1, <2>2, <2>3
<1>10. both(0) = v[L] % M
  <2>1. L - 0 = L /\ L \in 0..L
    BY <1>1
  <2>2. PICK w \in Nat : w = v[L]
    BY <1>3, <2>1
  <2>3. (w * 1) + 0 = w
    OBVIOUS
  <2> QED
    BY <1>4, <1>5, <2>1, <2>2, <2>3
<1>11. v[L] % M = v[L]
  <2>1. v[L] \in 0..(M - 1)
    <3>1. CASE L = 0
      BY <1>2, <1>3, <3>1
    <3>2. CASE L # 0
      <4>1. L \in 1..L /\ L - 1 \in 0..L
        BY <1>1, <3>2
      <4>2. PICK w \in Nat, c \in Nat : w = v[L - 1] /\ c = d(L)
        BY <1>1, <1>3, <4>1
      <4>3. v[L] = ((b * w) + c) % M
        BY <1>3, <4>1, <4>2
      <4> QED
        BY <1>2, <4>3
    <3> QED
      BY <3>1, <3>2
  <2> QED
    BY <1>2, <2>1
<1> HIDE DEF both
<1> QED
  BY <1>3, <1>5, <1>8, <1>9, <1>10, <1>11 DEF M
-----------------------------------------------------------------------------
(* The words of a command and their values.                                *)

(* A digit of either base has a value.                                     *)
LEMMA DigitsHaveValues ==
  ASSUME NEW c, isHex(c) \/ isNumeric(c)
  PROVE  hexchar2value(c) \in Nat
  BY DEF isHex, isNumeric, hexchar2value

(* valueFromStr reads a number as it is written, and nothing else.         *)
LEMMA WordValue ==
  ASSUME NEW word \in Seq(Bytes)
  PROVE  LET hex  == word # <<>> /\ word[1] = 36
             text == IF hex THEN Tail(word) ELSE word
             base == IF hex THEN 16 ELSE 10
             number == \A i \in 1..Len(text) :
                         IF hex THEN isHex(text[i]) ELSE isNumeric(text[i])
         IN valueFromStr(word) =
              IF word # <<>> /\ number THEN Number(text, base) % Modulus ELSE NoValue
<1>1. CASE word = <<>>
  BY <1>1 DEF valueFromStr
<1>2. CASE word # <<>> /\ word[1] = 36
  <2> DEFINE text == Tail(word)
             number == \A i \in 1..Len(text) : isHex(text[i])
  <2>1. /\ Len(text) \in Nat /\ Len(text) = Len(word) - 1 /\ Len(word) \in Nat
        /\ \A i \in 1..Len(text) : text[i] = word[i + 1]
    BY <1>2
  <2>2. valueFromStr(word) = valueFromHexStr(word)
    BY <1>2 DEF valueFromStr
  <2> HIDE DEF text
  <2>3. (\E i \in 2..Len(word) : ~isHex(word[i])) <=> ~number
    <3>1. ASSUME NEW i \in 2..Len(word), ~isHex(word[i]) PROVE ~number
      <4>1. i - 1 \in 1..Len(text) /\ (i - 1) + 1 = i
        BY <2>1
      <4>2. text[i - 1] = word[i]
        BY <2>1, <4>1
      <4> QED
        BY <3>1, <4>1, <4>2
    <3>2. ASSUME NEW i \in 1..Len(text), ~isHex(text[i])
          PROVE  \E k \in 2..Len(word) : ~isHex(word[k])
      <4>1. i + 1 \in 2..Len(word) /\ text[i] = word[i + 1]
        BY <2>1
      <4> QED
        BY <3>2, <4>1
    <3> QED
      BY <3>1, <3>2
  <2>4. ASSUME number PROVE ValueOf(text, 16) = Number(text, 16) % Modulus
    <3>1. AreDigits(text)
      BY <2>1, <2>4, DigitsHaveValues DEF AreDigits
    <3> QED
      BY <3>1, ValueIsNumber
  <2>5. valueFromStr(word) = IF number THEN Number(text, 16) % Modulus ELSE NoValue
    <3> HIDE DEF number
    <3> QED
      BY <2>2, <2>3, <2>4 DEF valueFromHexStr, text
  <2> HIDE DEF number
  <2> QED
    BY <1>2, <2>5 DEF text, number
<1>3. CASE word # <<>> /\ word[1] # 36
  <2> DEFINE number == \A i \in 1..Len(word) : isNumeric(word[i])
  <2>1. valueFromStr(word) = valueFromDecStr(word)
    BY <1>3 DEF valueFromStr
  <2>2. (\E i \in 1..Len(word) : ~isNumeric(word[i])) <=> ~number
    OBVIOUS
  <2>3. ASSUME number PROVE ValueOf(word, 10) = Number(word, 10) % Modulus
    <3>1. AreDigits(word)
      BY <2>3, DigitsHaveValues DEF AreDigits
    <3> QED
      BY <3>1, ValueIsNumber
  <2>4. valueFromStr(word) = IF number THEN Number(word, 10) % Modulus ELSE NoValue
    <3> HIDE DEF number
    <3> QED
      BY <2>1, <2>2, <2>3 DEF valueFromDecStr
  <2> HIDE DEF number
  <2> QED
    BY <1>3, <2>4 DEF number
<1> QED
  BY <1>1, <1>2, <1>3

(* The parameters of the last command are texts of bytes.                  *)
WordsTyped == outcome.words \in Seq(Seq(Bytes))

(* An outcome that ran nothing has no words.                               *)
LEMMA NoWords ==
  /\ Line!Nothing.words \in Seq(Seq(Bytes))
  /\ Line!NoSuchCommand.words \in Seq(Seq(Bytes))
  /\ \A name : Line!Unclear(name).words \in Seq(Seq(Bytes))
<1>1. <<>> \in Seq(Seq(Bytes))
  OBVIOUS
<1>2. Line!Nothing.words = <<>>
  BY Zenon DEF Line!Nothing
<1>3. Line!NoSuchCommand.words = <<>>
  BY Zenon DEF Line!NoSuchCommand
<1>4. \A name : Line!Unclear(name).words = <<>>
  BY Zenon DEF Line!Unclear
<1> QED
  BY <1>1, <1>2, <1>3, <1>4, Zenon

(* Enter hands a command texts of bytes, and no other key hands it any.    *)
LEMMA NextWords == TypeOK /\ WordsTyped /\ [Next]_vars => WordsTyped'
<1> SUFFICES ASSUME TypeOK, WordsTyped, [Next]_vars PROVE WordsTyped'
  OBVIOUS
<1>1. CASE PressEnter
  <2>1. IsArray(consoleBuffer', consoleBufferIdx)
    <3>1. consoleBuffer \in [Indices -> Bytes] /\ consoleBufferIdx \in Indices
      BY Zenon DEF TypeOK
    <3>2. consoleBuffer' = [consoleBuffer EXCEPT ![consoleBufferIdx] = 0]
      BY <1>1 DEF PressEnter, Terminated
    <3> QED
      BY <3>1, <3>2 DEF IsArray, Bytes
  <2>2. outcome' = execute(consoleBuffer', consoleBufferIdx)
    BY <1>1 DEF PressEnter
  <2>3. execute(consoleBuffer', consoleBufferIdx).words \in Seq(Seq(Bytes))
    BY <2>1, ExecuteLine, NoWords, Zenon
  <2> QED
    BY <2>2, <2>3, Zenon DEF WordsTyped
<1>2. CASE PressCharacter \/ PressBackspace \/ PressOther
  <2>1. outcome' = Line!Nothing
    BY <1>2 DEF PressCharacter, PressBackspace, PressOther
  <2> QED
    BY <2>1, NoWords, Zenon DEF WordsTyped
<1>3. CASE UNCHANGED vars
  BY <1>3, Zenon DEF WordsTyped, vars
<1> QED
  BY <1>1, <1>2, <1>3, Zenon DEF Next

(* Every parameter a command may hand to valueFromStr is read as the       *)
(* number written in it, in decimal or after a '$' in hexadecimal, modulo  *)
(* the width of a value, and as no value when it is not a number: the loop *)
(* that multiplies and adds in a word that wraps around loses nothing but  *)
(* what lies above the width. For every width and length of the number.    *)
THEOREM ValuesAreExact == Spec => []ValuesExact
<1>1. Init => WordsTyped
  BY NoWords, Zenon DEF Init, WordsTyped
<1>2. ASSUME WordsTyped PROVE ValuesExact
  <2>1. \A n \in 1..Len(outcome.words) : outcome.words[n] \in Seq(Bytes)
    BY <1>2 DEF WordsTyped
  <2> QED
    BY <2>1, WordValue, Zenon DEF ValuesExact
<1> QED
  BY <1>1, <1>2, InitTypeOK, NextTypeOK, NextWords, PTL DEF Spec
=============================================================================
