----------------------------- MODULE TextModes -----------------------------
(***************************************************************************)
(* The text modes of the firmware's console: setHighResolutionTextMode,    *)
(* which efi_init calls first, and the commands showtext and settextmode.  *)
(* The number of modes is not asked for: modes are queried from 0 on until *)
(* one cannot be, though firmware may leave a mode out and have more       *)
(* behind it. The status of the call that sets the best mode is not looked *)
(* at. One action is one call of the firmware.                             *)
(***************************************************************************)
EXTENDS Integers

CONSTANTS
  Tables,            \* tables of modes a firmware may have
  MaxTextCommands    \* bound on the commands given

NoSize == [cols |-> 0, rows |-> 0]     \* of a mode that cannot be queried

Size == [cols : Nat, rows : Nat \ {0}] \cup {NoSize}

ASSUME TablesAssumption ==
  \A t \in Tables : /\ 0 \in DOMAIN t /\ DOMAIN t \subseteq Nat
                     /\ t \in [DOMAIN t -> Size]

ASSUME TextCommandsAssumption == MaxTextCommands \in Nat

VARIABLES
  table,         \* the firmware: the size of each mode
  screen,        \* the firmware: the mode that is set
  textPc,        \* "choose", "set", "ready" or "list"
  mode,          \* the mode that is queried next
  best,          \* bestMode, bestCols and bestRows
  listed,        \* the modes the last showtext has printed
  refused,       \* history: the firmware did not set the best mode
  textCommands   \* commands given

textVars == <<table, screen, textPc, mode, best, listed, refused, textCommands>>

Exists(m) == m \in DOMAIN table /\ table[m] # NoSize

TextInit == /\ table \in Tables
            /\ screen \in {m \in DOMAIN table : m = 0 \/ Exists(m)}
            /\ textPc = "choose"
            /\ mode = 0
            /\ best = [mode |-> 0, cols |-> 0, rows |-> 0]
            /\ listed = {}
            /\ refused = FALSE
            /\ textCommands = 0
-----------------------------------------------------------------------------
(* setHighResolutionTextMode *)

(* Faulty: of modes with as many rows the last is taken.                   *)
IsBetterOrSame(size) == size.rows >= best.rows

IsBetter(size) == size.rows > best.rows

(* Faulty: the mode is not counted on.                                     *)
NextModeSame == mode

NextMode == mode + 1

ConsiderMode ==
  /\ textPc = "choose" /\ Exists(mode)
  /\ best' = IF IsBetter(table[mode])
             THEN [mode |-> mode, cols |-> table[mode].cols, rows |-> table[mode].rows]
             ELSE best
  /\ mode' = NextMode
  /\ UNCHANGED <<table, screen, textPc, listed, refused, textCommands>>

NoMoreModes ==
  /\ textPc = "choose" /\ ~Exists(mode)
  /\ textPc' = "set"
  /\ UNCHANGED <<table, screen, mode, best, listed, refused, textCommands>>

(* The firmware sets a mode it has, or has a device error; a mode that it  *)
(* does not have leaves the screen as it is.                               *)
SetsMode(m) == \/ Exists(m) /\ screen' = m
               \/ UNCHANGED screen

SetBestMode ==
  /\ textPc = "set"
  /\ SetsMode(best.mode)
  /\ refused' = (screen' # best.mode)
  /\ textPc' = "ready"
  /\ UNCHANGED <<table, mode, best, listed, textCommands>>

ChooseMode == ConsiderMode \/ NoMoreModes \/ SetBestMode
-----------------------------------------------------------------------------
(* showtext and settextmode *)

TextReady == /\ textPc = "ready" /\ textCommands < MaxTextCommands
             /\ textCommands' = textCommands + 1

cmdShowText ==
  /\ TextReady
  /\ textPc' = "list"
  /\ mode' = 0
  /\ listed' = {}
  /\ UNCHANGED <<table, screen, best, refused>>

ListMode ==
  /\ textPc = "list" /\ Exists(mode)
  /\ listed' = listed \cup {mode}
  /\ mode' = NextMode
  /\ UNCHANGED <<table, screen, textPc, best, refused, textCommands>>

ListEnds ==
  /\ textPc = "list" /\ ~Exists(mode)
  /\ textPc' = "ready"
  /\ UNCHANGED <<table, screen, mode, best, listed, refused, textCommands>>

cmdSetTextMode(m) ==
  /\ TextReady
  /\ SetsMode(m)
  /\ UNCHANGED <<table, textPc, mode, best, listed, refused>>

List == ListMode \/ ListEnds

TextCommand == cmdShowText \/ \E m \in DOMAIN table : cmdSetTextMode(m)
-----------------------------------------------------------------------------
(* The modes before the first that cannot be queried.                      *)
FirstModes == {m \in DOMAIN table : \A k \in 0..m : Exists(k)}

(* Until a user sets another, the screen has the mode with the most rows of *)
(* the modes before the first that cannot be queried, the first of them if  *)
(* there are several, and it has the size that was printed: unless there is *)
(* none, or the firmware refused it, which the program does not notice.     *)
(* Whatever the user sets, showtext lists the mode the program chose.       *)
BestChosen ==
  textPc \in {"ready", "list"} /\ ~refused /\ FirstModes # {} =>
    /\ best.mode \in FirstModes
    /\ \A m \in FirstModes : /\ table[m].rows <= table[best.mode].rows
                             /\ m < best.mode => table[m].rows < table[best.mode].rows
    /\ textCommands = 0 => /\ screen = best.mode
                           /\ [cols |-> best.cols, rows |-> best.rows] = table[screen]
    /\ textPc = "ready" /\ listed # {} => best.mode \in listed

(* Modes are looked through to an end, at the start and by showtext.        *)
LookingEnds == textPc \in {"choose", "list"} ~> textPc = "ready"
=============================================================================
