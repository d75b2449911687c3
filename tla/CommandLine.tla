---------------------------- MODULE CommandLine ----------------------------
(***************************************************************************)
(* What a user of the console is promised: keys edit a line, and Enter     *)
(* hands a command its words. The line is a sequence of characters, a      *)
(* character is its code; there is no buffer, no index and no terminator.  *)
(***************************************************************************)
EXTENDS Integers, Sequences, FiniteSets

CONSTANTS
  Keys,      \* the keys, by m_unicodeChar
  MaxLine,   \* characters of the longest line, a positive number
  Names,     \* the names of the commands
  Params     \* Params[name]: how many parameters the command looks for

Enter     == 13
Backspace == 8
Blank     == 32

(* Keys that stand for a character of a line.                              *)
Printable == 32..255
Letters   == (65..90) \cup (97..122)

(* What a key did: it ran no command; it ran a command with these words; it *)
(* ran one with words that are not the line's; there was no such command.  *)
Nothing == [kind |-> "nothing", name |-> <<>>, words |-> <<>>]

Ran(name, words) == [kind |-> "ran", name |-> name, words |-> words]

Unclear(name) == [kind |-> "unclear", name |-> name, words |-> <<>>]

NoSuchCommand == [kind |-> "no such command", name |-> <<>>, words |-> <<>>]

(* The letters a line begins with, and what follows them.                  *)
CommandLength(line) ==
  CHOOSE n \in 0..Len(line) :
    /\ \A i \in 1..n : line[i] \in Letters
    /\ n < Len(line) => line[n + 1] \notin Letters

Command(line) == SubSeq(line, 1, CommandLength(line))

Rest(line) == SubSeq(line, CommandLength(line) + 1, Len(line))

(* Words are what stands between blanks.                                   *)
Begins(text) == {i \in 1..Len(text) :
                   /\ text[i] # Blank
                   /\ i > 1 => text[i - 1] = Blank}

WordFrom(text, i) ==
  SubSeq(text, i, CHOOSE j \in i..Len(text) :
                    /\ \A k \in i..j : text[k] # Blank
                    /\ j < Len(text) => text[j + 1] = Blank)

(* The n-th word, or no character at all.                                  *)
Word(text, n) ==
  IF n > Cardinality(Begins(text)) THEN <<>>
  ELSE WordFrom(text, CHOOSE i \in Begins(text) :
                        Cardinality({j \in Begins(text) : j <= i}) = n)

EndsInBlank(line) == line # <<>> /\ line[Len(line)] = Blank

Run(line) == Ran(Command(line),
                 [n \in 1..Params[Command(line)] |-> Word(Rest(line), n)])

VARIABLES
  key,       \* the last key
  line,      \* the line so far
  outcome,   \* what the last key ran
  tidy       \* missing words are seen as missing even after a last blank

lineVars == <<key, line, outcome, tidy>>

Init == /\ key = Enter
        /\ line = <<>>
        /\ outcome = Nothing
        /\ tidy \in BOOLEAN

Type == /\ key' \in Keys \cap Printable
        /\ line' = IF Len(line) < MaxLine THEN Append(line, key') ELSE line
        /\ outcome' = Nothing

(* A full line takes no backspace.                                         *)
Erase == /\ key' \in Keys \cap {Backspace}
         /\ line' = IF Len(line) \in 1..(MaxLine - 1)
                    THEN SubSeq(line, 1, Len(line) - 1) ELSE line
         /\ outcome' = Nothing

Other == /\ key' \in Keys \ (Printable \cup {Backspace, Enter})
         /\ outcome' = Nothing
         /\ UNCHANGED line

Execute == /\ key' \in Keys \cap {Enter}
           /\ line' = <<>>
           /\ \/ Command(line) \in Names /\ outcome' = Run(line)
              \/ /\ Command(line) \in Names
                 /\ ~tidy /\ EndsInBlank(line)
                 /\ outcome' = Unclear(Command(line))
              \/ Command(line) \notin Names /\ outcome' = NoSuchCommand

Next == (Type \/ Erase \/ Other \/ Execute) /\ UNCHANGED tidy

Spec == Init /\ [][Next]_lineVars
=============================================================================
