------------------------------ MODULE Console ------------------------------
(***************************************************************************)
(* The console loop of efi_init, Commands::execute, and how the commands   *)
(* take their parameters apart. The line is edited in an array that is     *)
(* never cleared: what an earlier, longer line left behind the index stays *)
(* there, and the parser works on the array with indices. It may look at   *)
(* one character past the end of what it was given, so that the 0 written  *)
(* there before the command is run is part of its argument.                *)
(*                                                                         *)
(* When only blanks are left findNextParam returns views that point        *)
(* nowhere; a command that looks for one more parameter has it read the    *)
(* byte at address 0.                                                      *)
(***************************************************************************)
EXTENDS Integers, Sequences, FiniteSetsExt

CONSTANTS
  Keys,         \* the keys pressed, by m_unicodeChar
  BufferSize,   \* sizeof(consoleBuffer), 256 in the code
  Rubbish,      \* what the array may hold before it is written
  Modulus,      \* 2 to the width of a value, 2^64 in the code
  Names,        \* the names of the commands
  Params        \* Params[name]: how often the command calls findNextParam

Indices == 0..(BufferSize - 1)
Bytes   == 0..255

ASSUME KeysAssumption == Keys \subseteq 0..65535
ASSUME SizeAssumption == BufferSize \in Nat \ {0, 1} /\ Modulus \in Nat \ {0}
ASSUME RubbishAssumption == Rubbish \subseteq Bytes /\ Rubbish # {}
ASSUME NamesAssumption == Names \subseteq Seq(Bytes) /\ Params \in [Names -> Nat]

VARIABLES
  key,                \* the last key read
  consoleBuffer,
  consoleBufferIdx,
  outcome,            \* what the last key ran
  tidy                \* the byte at address 0 is no blank

vars == <<key, consoleBuffer, consoleBufferIdx, outcome, tidy>>

Line == INSTANCE CommandLine
          WITH MaxLine <- BufferSize - 1,
               line <- [i \in 1..consoleBufferIdx |-> consoleBuffer[i - 1]]

Blank == 32

isAlpha(c)   == c \in (65..90) \cup (97..122)
isNumeric(c) == c \in 48..57
isHex(c)     == c \in (48..57) \cup (65..70) \cup (97..102)

hexchar2value(c) == CASE c \in 48..57  -> c - 48
                      [] c \in 65..70  -> c - 55
                      [] c \in 97..102 -> c - 87

Init == /\ key = 13
        /\ consoleBuffer \in [Indices -> Rubbish]
        /\ consoleBufferIdx = 0
        /\ outcome = Line!Nothing
        /\ tidy \in BOOLEAN
-----------------------------------------------------------------------------
(* Views of the array, string_view: where it begins and how long it is.    *)

Nowhere == -1

View(data, size) == [data |-> data, size |-> size]

Text(mem, v) == [i \in 1..v.size |-> mem[v.data + i - 1]]

(* The offsets in the array, from v's beginning: a loop may leave v.        *)
Offsets(v) == 0..(BufferSize - 1 - v.data)

(* Where a loop over v ends that stops at the offsets in stops.             *)
FirstOf(v, stops) == IF stops = {} THEN BufferSize - v.data ELSE Min(stops)

getCommand(mem, v) ==
  View(v.data, FirstOf(v, {i \in Offsets(v) : ~isAlpha(mem[v.data + i]) \/ i >= v.size}))

NoParam == [param |-> View(Nowhere, 0), remainder |-> View(Nowhere, 0)]

(* The views of NoParam again unless a blank is found at address 0.        *)
findNextParam(mem, v) ==
  IF v.data = Nowhere THEN NoParam ELSE
  LET blanks == {i \in Offsets(v) : mem[v.data + i] = Blank}
      start == FirstOf(v, {i \in Offsets(v) : i \notin blanks \/ (i = v.size /\ i > 0)})
      end == FirstOf(v, {i \in Offsets(v) : i >= start /\ (i \in blanks \/ i = v.size)})
  IN IF start > 0 /\ start = v.size THEN NoParam
     ELSE [param |-> View(v.data + start, end - start),
           remainder |-> View(v.data + end, v.size - end)]

(* The results of n calls, each for the remainder of the one before.       *)
Calls(mem, v, n) ==
  LET call[i \in 0..n] == IF i = 0 THEN [param |-> v, remainder |-> v]
                          ELSE findNextParam(mem, call[i - 1].remainder)
  IN call

(* A call that is given the views of NoParam.                              *)
LooksNowhere(call, n) == \E i \in 1..(n - 1) : call[i].remainder.data = Nowhere

(* Commands::execute of the first size characters.                         *)
execute(mem, size) ==
  LET cmd  == getCommand(mem, View(0, size))
      name == Text(mem, cmd)
      n    == Params[name]
      call == Calls(mem, View(cmd.size, size - cmd.size), n)
  IN IF name \notin Names THEN Line!NoSuchCommand
     ELSE IF LooksNowhere(call, n) /\ ~tidy THEN Line!Unclear(name)
     ELSE Line!Ran(name, [i \in 1..n |-> Text(mem, call[i].param)])
-----------------------------------------------------------------------------
(* The loop. A wait or a read that fails changes nothing.                  *)

(* Faulty: the 0 is not written.                                           *)
TerminatedAsIs(mem, i) == mem

Terminated(mem, i) == [mem EXCEPT ![i] = 0]

PressEnter ==
  /\ key' \in Keys \cap {13}
  /\ consoleBuffer' = Terminated(consoleBuffer, consoleBufferIdx)
  /\ outcome' = execute(consoleBuffer', consoleBufferIdx)
  /\ consoleBufferIdx' = 0

(* Faulty: the last element is not kept for the 0.                         *)
HasRoomForAll == consoleBufferIdx < BufferSize

HasRoom == consoleBufferIdx < BufferSize - 1

PressCharacter ==
  /\ key' \in Keys \cap (32..255)
  /\ IF HasRoom
     THEN /\ consoleBuffer' = [consoleBuffer EXCEPT ![consoleBufferIdx] = key']
          /\ consoleBufferIdx' = consoleBufferIdx + 1
     ELSE UNCHANGED <<consoleBuffer, consoleBufferIdx>>
  /\ outcome' = Line!Nothing

(* The test for room comes first for this key too.                         *)
PressBackspace ==
  /\ key' \in Keys \cap {8}
  /\ consoleBufferIdx' = IF HasRoom /\ consoleBufferIdx > 0
                         THEN consoleBufferIdx - 1 ELSE consoleBufferIdx
  /\ outcome' = Line!Nothing
  /\ UNCHANGED consoleBuffer

PressOther ==
  /\ key' \in Keys \ ({8, 13} \cup 32..255)
  /\ outcome' = Line!Nothing
  /\ UNCHANGED <<consoleBuffer, consoleBufferIdx>>

Next == /\ PressEnter \/ PressCharacter \/ PressBackspace \/ PressOther
        /\ UNCHANGED tidy

Spec == Init /\ [][Next]_vars
-----------------------------------------------------------------------------
(* valueFromStr; NoValue is std::nullopt.                                  *)

NoValue == -1

(* The loop of both conversions: c - '0', which the decimal one adds, is    *)
(* what hexchar2value gives for a decimal digit.                            *)
ValueOf(digits, base) ==
  LET value[i \in 0..Len(digits)] ==
        IF i = 0 THEN 0
        ELSE (base * value[i - 1] + hexchar2value(digits[i])) % Modulus
  IN value[Len(digits)]

(* Faulty: the '$' is taken to be a digit.                                 *)
valueFromHexStrAll(word) ==
  IF \E i \in 1..Len(word) : ~isHex(word[i]) THEN NoValue
  ELSE ValueOf(word, 16)

valueFromHexStr(word) ==
  IF \E i \in 2..Len(word) : ~isHex(word[i]) THEN NoValue
  ELSE ValueOf(Tail(word), 16)

valueFromDecStr(word) ==
  IF \E i \in 1..Len(word) : ~isNumeric(word[i]) THEN NoValue
  ELSE ValueOf(word, 10)

valueFromStr(word) == CASE word = <<>> -> NoValue
                        [] word # <<>> /\ word[1] = 36 -> valueFromHexStr(word)
                        [] OTHER -> valueFromDecStr(word)
-----------------------------------------------------------------------------
(* The index stays inside the array, with room for the terminator.         *)
TypeOK == /\ key \in Keys \cup {13}
          /\ consoleBuffer \in [Indices -> Bytes]
          /\ consoleBufferIdx \in Indices
          /\ outcome.kind \in {"nothing", "ran", "unclear", "no such command"}
          /\ tidy \in BOOLEAN

(* The array, its index and the scanning of its raw contents are an editor  *)
(* of lines whose commands get the words of the line that was typed: never  *)
(* a character of an earlier line, never a word of another command. Only    *)
(* where a line ends in a blank and address 0 holds one the words of the    *)
(* missing parameters are not the line's.                                   *)
EditsLines == Line!Spec

(* The number that digits write: each counts a power of the base.          *)
Number(digits, base) ==
  LET power[i \in 0..Len(digits)] == IF i = 0 THEN 1 ELSE base * power[i - 1]
      sum[i \in 0..Len(digits)] ==
        IF i = 0 THEN 0
        ELSE sum[i - 1] + hexchar2value(digits[Len(digits) + 1 - i]) * power[i - 1]
  IN sum[Len(digits)]

(* A number of any length is the number written, modulo the width of a      *)
(* value; "$" alone is 0, and any other word is no value.                   *)
ValuesExact ==
  \A n \in 1..Len(outcome.words) :
    LET word == outcome.words[n]
        hex  == word # <<>> /\ word[1] = 36
        text == IF hex THEN Tail(word) ELSE word
        base == IF hex THEN 16 ELSE 10
        number == \A i \in 1..Len(text) : IF hex THEN isHex(text[i]) ELSE isNumeric(text[i])
    IN valueFromStr(word) =
         IF word # <<>> /\ number THEN Number(text, base) % Modulus ELSE NoValue
=============================================================================
