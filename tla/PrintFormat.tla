---------------------------- MODULE PrintFormat ----------------------------
(***************************************************************************)
(* print and the formatter under it: format walks over the format string   *)
(* and its arguments, numbers are turned into decimal digits by shifting   *)
(* their bits through a row of digits (toUDec), and PutLimitedString keeps *)
(* what fits. A format string is a sequence of items, a text a sequence of *)
(* characters; digits are their values, other characters are strings.      *)
(***************************************************************************)
EXTENDS Integers, Sequences, FiniteSetsExt

CONSTANTS
  Characters,  \* the characters of strings
  Formats,     \* the calls of print: sequences of items
  Width,       \* bits of a number, 32 in the code
  NumDigits,   \* digits of the row, 10 in the code
  Size         \* the size given to snprintf

(* A plain character, %c, %% or the '?' of an unknown conversion; a        *)
(* conversion of a number; a string.                                       *)
Char(c)    == [conversion |-> "none", number |-> 0, text |-> <<c>>]
Number(k, n) == [conversion |-> k, number |-> n, text |-> <<>>]
Text(t)    == [conversion |-> "s", number |-> 0, text |-> t]

(* b to the power n.                                                       *)
Power(b, n) == LET power[i \in 0..n] == IF i = 0 THEN 1 ELSE b * power[i - 1]
               IN power[n]

Numbers     == 0..(Power(2, Width) - 1)
LongNumbers == 0..(Power(2, 2 * Width) - 1)     \* uint64_t

Items == [conversion : {"none", "s", "u", "d", "x"}, number : Numbers, text : Seq(Characters)]
           \cup [conversion : {"X"}, number : LongNumbers, text : Seq(Characters)]

ASSUME WidthAssumption == Width \in Nat \ {0} /\ Width % 4 = 0   \* hexadecimal digits
ASSUME RowAssumption == NumDigits \in Nat /\ Power(2, Width) <= Power(10, NumDigits)
ASSUME SizeAssumption == Size \in Nat \ {0}
ASSUME FormatsAssumption == Formats \subseteq Seq(Items)

VARIABLES
  fmt,       \* the format string
  at,        \* the item of fmt that is next
  val,       \* toUDec's val; -1 outside toUDec
  digits,    \* its row of digits, the lowest first
  s,         \* its shifts
  buffer,    \* what PutLimitedString holds
  returned   \* what snprintf returned; -1 before

vars == <<fmt, at, val, digits, s, buffer, returned>>

Idle == val = -1

ZeroDigits == [d \in 0..(NumDigits - 1) |-> 0]

Init == /\ fmt \in Formats
        /\ at = 1
        /\ val = -1
        /\ digits = ZeroDigits
        /\ s = 0
        /\ buffer = <<>>
        /\ returned = -1
-----------------------------------------------------------------------------
(* Faulty: the last place is not kept for the terminating 0.               *)
FitsExactly(i) == i < Size

(* PutLimitedString::putc: index i is below m_maxIdx.                      *)
Fits(i) == i < Size - 1

(* A character that does not fit is dropped.                               *)
Put(text) ==
  LET put[i \in 0..Len(text)] ==
        IF i = 0 THEN buffer
        ELSE IF Fits(Len(put[i - 1])) THEN Append(put[i - 1], text[i])
        ELSE put[i - 1]
  IN buffer' = put[Len(text)]

(* toHex and toHex32: all the digits there can be, from the highest.       *)
toHex(n, size) == [i \in 1..size |-> (n \div Power(16, size - i)) % 16]

InItems == returned = -1 /\ at <= Len(fmt)
Item    == fmt[at]

PutItem ==
  /\ InItems /\ Idle
  /\ \/ Item.conversion \in {"none", "s"} /\ Put(Item.text)
     \/ Item.conversion = "x" /\ Put(toHex(Item.number, Width \div 4))
     \/ Item.conversion = "X" /\ Put(toHex(Item.number, Width \div 2))
  /\ at' = at + 1
  /\ UNCHANGED <<fmt, val, digits, s, returned>>

IsNegative(n) == n >= Power(2, Width - 1)

(* Faulty: 1 is not added.                                                 *)
Inverted(n) == Power(2, Width) - 1 - n

(* ~n + 1 in Width bits.                                                   *)
Negated(n) == (Power(2, Width) - n) % Power(2, Width)

StartNumber ==
  /\ InItems /\ Idle
  /\ \/ /\ Item.conversion = "u" \/ (Item.conversion = "d" /\ ~IsNegative(Item.number))
        /\ val' = Item.number
        /\ UNCHANGED buffer
     \/ /\ Item.conversion = "d" /\ IsNegative(Item.number)
        /\ val' = Negated(Item.number)
        /\ Put(<<"-">>)
  /\ digits' = ZeroDigits
  /\ s' = 0
  /\ UNCHANGED <<fmt, at, returned>>

Overflows(doubled) == doubled >= 10

(* One pass of the outer loop: the highest bit of val enters the row, every *)
(* digit is doubled and its overflow goes into the next.                   *)
Shift ==
  /\ ~Idle /\ s < Width
  /\ LET overflow[d \in 0..NumDigits] ==    \* into digit d
           IF d = 0 THEN val \div Power(2, Width - 1)
           ELSE IF Overflows(2 * digits[d - 1] + overflow[d - 1]) THEN 1 ELSE 0
     IN digits' = [d \in 0..(NumDigits - 1) |->
                     2 * digits[d] + overflow[d] - 10 * overflow[d + 1]]
  /\ val' = (2 * val) % Power(2, Width)
  /\ s' = s + 1
  /\ UNCHANGED <<fmt, at, buffer, returned>>

(* Faulty: a number that is 0 prints nothing.                              *)
StrippedOfAll ==
  LET from == Max({d + 1 : d \in {d \in 0..(NumDigits - 1) : digits[d] # 0}} \cup {0})
  IN [i \in 1..from |-> digits[from - i]]

(* The digits from the highest that is not 0, or a single 0.               *)
Stripped ==
  LET highest == Max({d \in 0..(NumDigits - 1) : digits[d] # 0} \cup {0})
  IN [i \in 1..(highest + 1) |-> digits[highest + 1 - i]]

PutNumber ==
  /\ ~Idle /\ s = Width
  /\ Put(Stripped)
  /\ val' = -1
  /\ at' = at + 1
  /\ UNCHANGED <<fmt, digits, s, returned>>

(* The 0 is written at the index, and print returns it.                    *)
Terminate ==
  /\ returned = -1 /\ at > Len(fmt)
  /\ returned' = Len(buffer)
  /\ UNCHANGED <<fmt, at, val, digits, s, buffer>>

Finished == returned # -1 /\ UNCHANGED vars

Step == PutItem \/ StartNumber \/ Shift \/ PutNumber \/ Terminate

Next == Step \/ Finished

Spec == Init /\ [][Next]_vars
-----------------------------------------------------------------------------
(* The terminating 0 always has a place of its own.                        *)
TypeOK == /\ at \in 1..(Len(fmt) + 1)
          /\ val \in Numbers \cup {-1}
          /\ s \in 0..Width
          /\ digits \in [0..(NumDigits - 1) -> 0..9]
          /\ Len(buffer) \in 0..(Size - 1)
          /\ returned \in {-1} \cup 0..(Size - 1)

Argument == IF Item.conversion = "d" /\ IsNegative(Item.number)
            THEN Power(2, Width) - Item.number ELSE Item.number

(* The number that the row holds in decimal.                               *)
RowValue ==
  LET sum[d \in 0..NumDigits] ==
        IF d = 0 THEN 0 ELSE sum[d - 1] + digits[d - 1] * Power(10, d - 1)
  IN sum[NumDigits]

(* After s shifts the row holds, in decimal, the number made of the s       *)
(* highest bits of the argument, and val the bits that are left.           *)
RowHoldsHighBits ==
  ~Idle => /\ RowValue = Argument \div Power(2, Width - s)
           /\ val = (Argument * Power(2, s)) % Power(2, Width)

(* The text of a number, from its value alone.                             *)
Decimal(n) ==
  LET length == CHOOSE l \in 1..NumDigits :
                  n < Power(10, l) /\ (l = 1 \/ n >= Power(10, l - 1))
  IN [i \in 1..length |-> (n \div Power(10, length - i)) % 10]

(* The number that a hexadecimal text stands for.                          *)
HexValue(text, size) ==
  LET value[i \in 0..size] == IF i = 0 THEN 0 ELSE 16 * value[i - 1] + text[i]
  IN value[size]

Hexadecimal(n, size) == CHOOSE text \in [1..size -> 0..15] : HexValue(text, size) = n

Rendered(item) ==
  CASE item.conversion \in {"none", "s"} -> item.text
    [] item.conversion = "x" -> Hexadecimal(item.number, Width \div 4)
    [] item.conversion = "X" -> Hexadecimal(item.number, Width \div 2)
    [] item.conversion = "u" -> Decimal(item.number)
    [] item.conversion = "d" /\ ~IsNegative(item.number) -> Decimal(item.number)
    [] item.conversion = "d" /\ IsNegative(item.number) ->
         <<"-">> \o Decimal(Power(2, Width) - item.number)

(* What the first items of the format say, for every number of them.       *)
Said ==
  LET said[i \in 0..Len(fmt)] == IF i = 0 THEN <<>> ELSE said[i - 1] \o Rendered(fmt[i])
  IN said

(* What is printed is what the format and its arguments say, cut off after  *)
(* Size - 1 characters, and the number returned is its length.             *)
PrintsExactly ==
  returned # -1 =>
    LET full == Said[Len(fmt)]
    IN /\ buffer = SubSeq(full, 1, Min({Len(full), Size - 1}))
       /\ returned = Len(buffer)
=============================================================================
