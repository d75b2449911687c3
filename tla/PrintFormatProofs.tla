------------------------- MODULE PrintFormatProofs -------------------------
(***************************************************************************)
(* Proofs about PrintFormat, for every width of numbers that is a multiple *)
(* of 4, every row of digits that is long enough for it, every size of the *)
(* buffer and every format. The powers, sums and texts of the module are   *)
(* recursive functions: each is shown to follow the step from an element   *)
(* to the next, and what they hold is shown by induction on the index.     *)
(***************************************************************************)
EXTENDS PrintFormat, SequenceTheorems, WellFoundedInduction, TLAPS

(* < on the natural numbers, as a set of pairs.                            *)
LEMMA LessThanRelation == OpToRel(<, Nat) = {ss \in Nat \X Nat : ss[1] < ss[2]}
  BY DEF OpToRel

(* A set of numbers that is not empty has a least one: < is well-founded   *)
(* on the natural numbers.                                                 *)
LEMMA LeastNumber ==
  ASSUME NEW T \in SUBSET Nat, T # {}
  PROVE  \E x \in T : \A y \in T : x <= y
<1> DEFINE R == {ss \in Nat \X Nat : ss[1] < ss[2]}
<1>1. IsWellFoundedOn(R, Nat)
  BY NatLessThanWellFounded, LessThanRelation
<1>2. \A x, y \in Nat : x < y => <<x, y>> \in R
  OBVIOUS
<1> HIDE DEF R
<1>3. PICK x \in T : \A y \in T : ~(<<y, x>> \in R)
  BY <1>1, WFMin
<1>4. ASSUME NEW y \in T PROVE x <= y
  <2>1. x \in Nat /\ y \in Nat /\ ~(<<y, x>> \in R)
    BY <1>3
  <2>2. ~(y < x)
    BY <1>2, <2>1
  <2> QED
    BY <2>1, <2>2
<1> QED
  BY <1>4

(* A set that has 0, and n + 1 with every n, has every number.             *)
LEMMA InductiveSet ==
  ASSUME NEW T, 0 \in T, \A n \in Nat : n \in T => n + 1 \in T
  PROVE  Nat \subseteq T
<1> SUFFICES ASSUME ~(Nat \subseteq T) PROVE FALSE
  OBVIOUS
<1>1. PICK x \in Nat \ T : \A y \in Nat \ T : x <= y
  BY LeastNumber, Zenon
<1> QED
  BY <1>1
-----------------------------------------------------------------------------
(* The recursive functions of the formatter go from an element to the next. *)

(* f is the function on 0..n that starts with a and goes on by the steps G. *)
Follows(f, n, a, G) == f[0] = a /\ \A i \in 1..n : f[i] = G[i][f[i - 1]]

(* There is such a function: by induction on n.                            *)
LEMMA Followed ==
  ASSUME NEW S, NEW a \in S, NEW n \in Nat, NEW G,
         \A i \in 1..n : \A x \in S : G[i][x] \in S
  PROVE  \E f \in [0..n -> S] : Follows(f, n, a, G)
<1> DEFINE T == {k \in Nat : k <= n => \E f \in [0..k -> S] : Follows(f, k, a, G)}
<1>1. 0 \in T
  <2> DEFINE f == [i \in 0..0 |-> a]
  <2>1. f \in [0..0 -> S] /\ Follows(f, 0, a, G)
    BY DEF Follows
  <2> QED
    BY <2>1
<1>2. ASSUME NEW k \in Nat, k \in T PROVE k + 1 \in T
  <2> SUFFICES ASSUME k + 1 <= n
               PROVE  \E g \in [0..(k + 1) -> S] : Follows(g, k + 1, a, G)
    OBVIOUS
  <2>1. PICK f \in [0..k -> S] : Follows(f, k, a, G)
    BY <1>2
  <2> DEFINE g == [i \in 0..(k + 1) |-> IF i <= k THEN f[i] ELSE G[k + 1][f[k]]]
  <2>2. f[k] \in S /\ k + 1 \in 1..n
    OBVIOUS
  <2>3. g \in [0..(k + 1) -> S]
    BY <2>2
  <2>4. g[0] = a
    BY <2>1 DEF Follows
  <2>5. ASSUME NEW i \in 1..(k + 1) PROVE g[i] = G[i][g[i - 1]]
    <3>1. CASE i <= k
      BY <2>1, <3>1 DEF Follows
    <3>2. CASE i = k + 1
      BY <3>2
    <3> QED
      BY <3>1, <3>2
  <2> HIDE DEF g
  <2> QED
    BY <2>3, <2>4, <2>5 DEF Follows
<1> HIDE DEF T
<1>3. Nat \subseteq T
  BY <1>1, <1>2, InductiveSet
<1>4. n \in T
  BY <1>3
<1> QED
  BY <1>4 DEF T

(* p starts in S and, while it is there, goes on by steps that stay there.  *)
FollowsIn(p, n, G, S) ==
  /\ p[0] \in S
  /\ \A i \in 1..n : p[i - 1] \in S => p[i] = G[i][p[i - 1]]
  /\ \A i \in 1..n : \A x \in S : G[i][x] \in S

LEMMA StaysIn ==
  ASSUME NEW S, NEW n \in Nat, NEW G, NEW p, FollowsIn(p, n, G, S)
  PROVE  \A i \in 0..n : p[i] \in S
<1> DEFINE T == {k \in Nat : k <= n => p[k] \in S}
<1>1. 0 \in T
  BY DEF FollowsIn
<1>2. ASSUME NEW k \in Nat, k \in T PROVE k + 1 \in T
  <2> SUFFICES ASSUME k + 1 <= n PROVE p[k + 1] \in S
    OBVIOUS
  <2>1. k + 1 \in 1..n /\ (k + 1) - 1 = k /\ p[k] \in S
    BY <1>2
  <2>2. p[k + 1] = G[k + 1][p[k]]
    BY <2>1 DEF FollowsIn
  <2> QED
    BY <2>1, <2>2 DEF FollowsIn
<1> HIDE DEF T
<1>3. Nat \subseteq T
  BY <1>1, <1>2, InductiveSet
<1> QED
  BY <1>3 DEF T

(* Two such functions agree, as far as both go.                            *)
LEMMA FollowAlike ==
  ASSUME NEW f, NEW g, NEW n \in Nat, NEW a, NEW G, Follows(f, n, a, G), Follows(g, n, a, G)
  PROVE  \A i \in 0..n : f[i] = g[i]
<1> DEFINE T == {k \in Nat : k <= n => f[k] = g[k]}
<1>1. 0 \in T
  BY DEF Follows
<1>2. ASSUME NEW k \in Nat, k \in T PROVE k + 1 \in T
  <2> SUFFICES ASSUME k + 1 <= n PROVE f[k + 1] = g[k + 1]
    OBVIOUS
  <2>1. f[k] = g[k] /\ k + 1 \in 1..n /\ (k + 1) - 1 = k
    BY <1>2
  <2> QED
    BY <2>1 DEF Follows
<1> HIDE DEF T
<1>3. Nat \subseteq T
  BY <1>1, <1>2, InductiveSet
<1> QED
  BY <1>3 DEF T
-----------------------------------------------------------------------------
(* Powers. *)

(* The function that Power takes its value from.                           *)
Powers(b, n) == CHOOSE power : power = [i \in 0..n |-> IF i = 0 THEN 1 ELSE b * power[i - 1]]

Times(b, n) == [i \in 1..n |-> [x \in Nat |-> b * x]]

LEMMA PowersFollow ==
  ASSUME NEW b \in Nat, NEW n \in Nat
  PROVE  /\ Power(b, n) = Powers(b, n)[n]
         /\ Powers(b, n) \in [0..n -> Nat]
         /\ Follows(Powers(b, n), n, 1, Times(b, n))
<1>1. PICK f \in [0..n -> Nat] : Follows(f, n, 1, Times(b, n))
  <2>1. \A i \in 1..n : \A x \in Nat : Times(b, n)[i][x] \in Nat
    BY DEF Times
  <2> QED
    BY <2>1, Followed
<1>2. f = [i \in 0..n |-> IF i = 0 THEN 1 ELSE b * f[i - 1]]
  <2>1. ASSUME NEW i \in 1..n PROVE f[i] = b * f[i - 1]
    <3>1. f[i - 1] \in Nat
      OBVIOUS
    <3>2. f[i] = Times(b, n)[i][f[i - 1]]
      BY <1>1 DEF Follows
    <3> QED
      BY <3>1, <3>2 DEF Times
  <2>2. f[0] = 1
    BY <1>1 DEF Follows
  <2> QED
    BY <2>1, <2>2
<1> DEFINE p == Powers(b, n)
<1>3. p = [i \in 0..n |-> IF i = 0 THEN 1 ELSE b * p[i - 1]]
  BY <1>2, Zenon DEF Powers
<1> HIDE DEF p
<1>4. p \in [0..n -> Nat]
  <2>1. \A i \in 1..n : \A x \in Nat : Times(b, n)[i][x] = b * x /\ Times(b, n)[i][x] \in Nat
    BY DEF Times
  <2>2. p[0] = 1 /\ \A i \in 1..n : p[i] = b * p[i - 1]
    BY <1>3
  <2>3. \A i \in 1..n : p[i - 1] \in Nat => p[i] = Times(b, n)[i][p[i - 1]]
    BY <2>1, <2>2
  <2>4. 1 \in Nat /\ \A i \in 1..n : \A x \in Nat : Times(b, n)[i][x] \in Nat
    BY <2>1
  <2>5. FollowsIn(p, n, Times(b, n), Nat)
    BY <2>2, <2>3, <2>4 DEF FollowsIn
  <2>6. \A i \in 0..n : p[i] \in Nat
    BY <2>5, StaysIn
  <2> QED
    BY <1>3, <2>6
<1>5. Follows(p, n, 1, Times(b, n))
  <2>1. p[0] = 1
    BY <1>3
  <2>2. ASSUME NEW i \in 1..n PROVE p[i] = Times(b, n)[i][p[i - 1]]
    <3>1. i \in 0..n /\ i # 0 /\ i - 1 \in 0..n
      OBVIOUS
    <3>2. p[i] = b * p[i - 1]
      BY <1>3, <3>1
    <3>3. p[i - 1] \in Nat
      BY <1>4, <3>1
    <3> QED
      BY <3>2, <3>3 DEF Times
  <2> QED
    BY <2>1, <2>2 DEF Follows
<1> QED
  BY <1>4, <1>5 DEF p, Power, Powers

(* A power is b times the one before.                                      *)
LEMMA PowerNext ==
  ASSUME NEW b \in Nat, NEW n \in Nat
  PROVE  /\ Power(b, 0) = 1
         /\ Power(b, n) \in Nat
         /\ Power(b, n + 1) = b * Power(b, n)
<1> DEFINE p == Powers(b, n)
           q == Powers(b, n + 1)
           o == Powers(b, 0)
<1>1. /\ p \in [0..n -> Nat] /\ Follows(p, n, 1, Times(b, n)) /\ Power(b, n) = p[n]
  BY PowersFollow, Zenon
<1>2. /\ q \in [0..(n + 1) -> Nat] /\ Follows(q, n + 1, 1, Times(b, n + 1))
      /\ Power(b, n + 1) = q[n + 1]
  <2>1. n + 1 \in Nat
    OBVIOUS
  <2> QED
    BY <2>1, PowersFollow, Zenon
<1>3. Follows(o, 0, 1, Times(b, 0)) /\ Power(b, 0) = o[0]
  <2>1. 0 \in Nat
    OBVIOUS
  <2> QED
    BY <2>1, PowersFollow, Zenon
<1> HIDE DEF p, q, o
<1>4. \A i \in 0..n : q[i] \in Nat
  BY <1>2
<1>5. Follows(q, n, 1, Times(b, n))
  <2>1. ASSUME NEW i \in 1..n PROVE q[i] = Times(b, n)[i][q[i - 1]]
    <3>1. i \in 1..(n + 1) /\ q[i - 1] \in Nat
      BY <1>4
    <3>2. q[i] = Times(b, n + 1)[i][q[i - 1]]
      BY <1>2, <3>1 DEF Follows
    <3>3. Times(b, n + 1)[i][q[i - 1]] = Times(b, n)[i][q[i - 1]]
      BY <3>1 DEF Times
    <3> QED
      BY <3>2, <3>3
  <2> QED
    BY <1>2, <2>1 DEF Follows
<1>6. p[n] = q[n]
  <2>1. \A i \in 0..n : p[i] = q[i]
    BY <1>1, <1>5, FollowAlike
  <2> QED
    BY <2>1
<1>7. q[n + 1] = b * q[n]
  <2>1. n + 1 \in 1..(n + 1) /\ (n + 1) - 1 = n /\ q[n] \in Nat
    BY <1>4
  <2>2. q[n + 1] = Times(b, n + 1)[n + 1][q[n]]
    BY <1>2, <2>1 DEF Follows
  <2> QED
    BY <2>1, <2>2 DEF Times
<1>8. p[n] \in Nat /\ o[0] = 1
  BY <1>1, <1>3 DEF Follows
<1> QED
  BY <1>1, <1>2, <1>3, <1>6, <1>7, <1>8

(* Quotient and remainder are the only numbers that make up the dividend.  *)
LEMMA QuotientAndRemainder ==
  ASSUME NEW a \in Nat, NEW b \in Nat, b > 0
  PROVE  /\ a \div b \in Nat /\ a % b \in Nat
         /\ a % b < b
         /\ a = b * (a \div b) + (a % b)
<1>1. a \div b \in Int /\ a % b \in 0..(b - 1)
  OBVIOUS
<1>2. a = b * (a \div b) + (a % b)
  OBVIOUS
<1>3. a \div b >= 0
  BY <1>1, <1>2
<1> QED
  BY <1>1, <1>2, <1>3

LEMMA DivisionUnique ==
  ASSUME NEW a \in Nat, NEW b \in Nat, NEW q \in Nat, NEW r \in Nat, r < b, a = b * q + r
  PROVE  a \div b = q /\ a % b = r
<1> DEFINE p == a \div b
           m == a % b
<1>1. p \in Nat /\ m \in Nat /\ m < b /\ a = b * p + m
  BY QuotientAndRemainder
<1> HIDE DEF p, m
<1>2. ~(p < q)
  <2> SUFFICES ASSUME p < q PROVE FALSE
    OBVIOUS
  <2>1. b * (q - p) >= b
    BY <1>1
  <2> QED
    BY <1>1, <2>1
<1>3. ~(q < p)
  <2> SUFFICES ASSUME q < p PROVE FALSE
    OBVIOUS
  <2>1. b * (p - q) >= b
    BY <1>1
  <2> QED
    BY <1>1, <2>1
<1>4. p = q
  BY <1>1, <1>2, <1>3
<1> QED
  BY <1>1, <1>4 DEF p, m

LEMMA PowerPositive ==
  ASSUME NEW b \in Nat, NEW n \in Nat, b > 0
  PROVE  Power(b, n) \in Nat /\ Power(b, n) > 0
<1> DEFINE T == {k \in Nat : Power(b, k) > 0}
<1>1. 0 \in T
  BY PowerNext
<1>2. ASSUME NEW k \in Nat, k \in T PROVE k + 1 \in T
  <2>1. Power(b, k + 1) = b * Power(b, k) /\ Power(b, k) \in Nat
    BY PowerNext
  <2>2. Power(b, k) > 0
    BY <1>2
  <2> QED
    BY <2>1, <2>2
<1> HIDE DEF T
<1>3. Nat \subseteq T
  BY <1>1, <1>2, InductiveSet
<1> QED
  BY <1>3, PowerNext DEF T

LEMMA PowerSum ==
  ASSUME NEW b \in Nat, NEW m \in Nat, NEW n \in Nat
  PROVE  Power(b, m + n) = Power(b, m) * Power(b, n)
<1> DEFINE T == {k \in Nat : Power(b, m + k) = Power(b, m) * Power(b, k)}
<1>1. 0 \in T
  <2>1. m + 0 = m /\ Power(b, 0) = 1 /\ Power(b, m) \in Nat
    BY PowerNext
  <2> QED
    BY <2>1
<1>2. ASSUME NEW k \in Nat, k \in T PROVE k + 1 \in T
  <2>1. /\ Power(b, k + 1) = b * Power(b, k) /\ Power(b, k) \in Nat
        /\ Power(b, m) \in Nat
    BY PowerNext
  <2>2. Power(b, (m + k) + 1) = b * Power(b, m + k)
    <3>1. m + k \in Nat
      OBVIOUS
    <3> QED
      BY <3>1, PowerNext
  <2>3. Power(b, m + k) = Power(b, m) * Power(b, k) /\ (m + k) + 1 = m + (k + 1)
    BY <1>2
  <2>4. b * (Power(b, m) * Power(b, k)) = Power(b, m) * (b * Power(b, k))
    BY <2>1
  <2> QED
    BY <2>1, <2>2, <2>3, <2>4
<1> HIDE DEF T
<1>3. Nat \subseteq T
  BY <1>1, <1>2, InductiveSet
<1> QED
  BY <1>3 DEF T
-----------------------------------------------------------------------------
(* One pass over the row. *)

Row == [0..(NumDigits - 1) -> 0..9]

(* The overflow into every digit when top comes into the lowest.           *)
Overflow(row, top) ==
  CHOOSE overflow : overflow =
    [d \in 0..NumDigits |->
       IF d = 0 THEN top
       ELSE IF Overflows(2 * row[d - 1] + overflow[d - 1]) THEN 1 ELSE 0]

LEMMA OverflowOfRow ==
  ASSUME NEW row \in Row, NEW top \in 0..1
  PROVE  /\ Overflow(row, top) \in [0..NumDigits -> 0..1]
         /\ Overflow(row, top)[0] = top
         /\ \A d \in 1..NumDigits :
              Overflow(row, top)[d] =
                IF 2 * row[d - 1] + Overflow(row, top)[d - 1] >= 10 THEN 1 ELSE 0
<1> DEFINE G == [d \in 1..NumDigits |->
                   [x \in 0..1 |-> IF 2 * row[d - 1] + x >= 10 THEN 1 ELSE 0]]
<1>0. NumDigits \in Nat
  BY RowAssumption
<1>1. \A d \in 1..NumDigits : \A x \in 0..1 :
         /\ G[d][x] = IF 2 * row[d - 1] + x >= 10 THEN 1 ELSE 0
         /\ G[d][x] \in 0..1
  OBVIOUS
<1> HIDE DEF G
<1>2. PICK f \in [0..NumDigits -> 0..1] : Follows(f, NumDigits, top, G)
  BY <1>0, <1>1, Followed
<1>3. f = [d \in 0..NumDigits |->
             IF d = 0 THEN top
             ELSE IF Overflows(2 * row[d - 1] + f[d - 1]) THEN 1 ELSE 0]
  <2>1. ASSUME NEW d \in 1..NumDigits
        PROVE  f[d] = IF 2 * row[d - 1] + f[d - 1] >= 10 THEN 1 ELSE 0
    <3>1. f[d - 1] \in 0..1
      BY <1>0
    <3>2. f[d] = G[d][f[d - 1]]
      BY <1>2 DEF Follows
    <3> QED
      BY <1>1, <3>1, <3>2
  <2>2. f[0] = top
    BY <1>2 DEF Follows
  <2>3. \A d \in 0..NumDigits : d # 0 => d \in 1..NumDigits
    BY <1>0
  <2> QED
    BY <2>1, <2>2, <2>3 DEF Overflows
<1> DEFINE o == Overflow(row, top)
<1>4. o = [d \in 0..NumDigits |->
             IF d = 0 THEN top
             ELSE IF Overflows(2 * row[d - 1] + o[d - 1]) THEN 1 ELSE 0]
  BY <1>3, Zenon DEF Overflow
<1> HIDE DEF o
<1>5. o \in [0..NumDigits -> 0..1]
  BY <1>0, <1>4
<1>6. o[0] = top
  BY <1>0, <1>4
<1>7. \A d \in 1..NumDigits : o[d] = IF 2 * row[d - 1] + o[d - 1] >= 10 THEN 1 ELSE 0
  BY <1>0, <1>4 DEF Overflows
<1> QED
  BY <1>5, <1>6, <1>7 DEF o

(* What the lowest digits of a row make up.                                *)
Sums(row) ==
  CHOOSE sum : sum = [d \in 0..NumDigits |->
                        IF d = 0 THEN 0 ELSE sum[d - 1] + row[d - 1] * Power(10, d - 1)]

LEMMA SumsOfRow ==
  ASSUME NEW row \in Row
  PROVE  /\ Sums(row) \in [0..NumDigits -> Nat]
         /\ Sums(row)[0] = 0
         /\ \A d \in 1..NumDigits :
              Sums(row)[d] = Sums(row)[d - 1] + row[d - 1] * Power(10, d - 1)
<1>0. /\ NumDigits \in Nat
      /\ \A d \in 1..NumDigits : row[d - 1] * Power(10, d - 1) \in Nat
  <2>1. NumDigits \in Nat
    BY RowAssumption
  <2>2. ASSUME NEW d \in 1..NumDigits PROVE row[d - 1] * Power(10, d - 1) \in Nat
    <3>1. row[d - 1] \in Nat /\ d - 1 \in Nat
      BY <2>1 DEF Row
    <3>2. Power(10, d - 1) \in Nat
      BY <3>1, PowerNext
    <3> QED
      BY <3>1, <3>2
  <2> QED
    BY <2>1, <2>2
<1> DEFINE Place(d) == row[d - 1] * Power(10, d - 1)
           G == [d \in 1..NumDigits |-> [x \in Nat |-> x + Place(d)]]
<1> HIDE DEF Place
<1>1. \A d \in 1..NumDigits : \A x \in Nat : G[d][x] = x + Place(d) /\ G[d][x] \in Nat
  BY <1>0 DEF Place
<1> HIDE DEF G
<1>2. PICK f \in [0..NumDigits -> Nat] : Follows(f, NumDigits, 0, G)
  BY <1>0, <1>1, Followed
<1>3. f = [d \in 0..NumDigits |-> IF d = 0 THEN 0 ELSE f[d - 1] + Place(d)]
  <2>1. ASSUME NEW d \in 1..NumDigits PROVE f[d] = f[d - 1] + Place(d)
    <3>1. f[d - 1] \in Nat
      BY <1>0
    <3>2. f[d] = G[d][f[d - 1]]
      BY <1>2 DEF Follows
    <3> QED
      BY <1>1, <3>1, <3>2
  <2>2. f[0] = 0
    BY <1>2 DEF Follows
  <2>3. \A d \in 0..NumDigits : d # 0 => d \in 1..NumDigits
    BY <1>0
  <2> QED
    BY <2>1, <2>2, <2>3
<1> DEFINE p == Sums(row)
<1>4. p = [d \in 0..NumDigits |-> IF d = 0 THEN 0 ELSE p[d - 1] + Place(d)]
  BY <1>3, Zenon DEF Sums, Place
<1> HIDE DEF p
<1>5. p[0] = 0 /\ \A d \in 1..NumDigits : p[d] = p[d - 1] + Place(d)
  BY <1>0, <1>4
<1>6. \A d \in 0..NumDigits : p[d] \in Nat
  <2>1. \A d \in 1..NumDigits : p[d - 1] \in Nat => p[d] = G[d][p[d - 1]]
    BY <1>1, <1>5
  <2>2. 0 \in Nat /\ \A d \in 1..NumDigits : \A x \in Nat : G[d][x] \in Nat
    BY <1>1
  <2>3. FollowsIn(p, NumDigits, G, Nat)
    BY <1>5, <2>1, <2>2 DEF FollowsIn
  <2> QED
    BY <1>0, <2>3, StaysIn
<1>7. p \in [0..NumDigits -> Nat]
  BY <1>4, <1>6
<1> QED
  BY <1>5, <1>7 DEF p, Place

LEMMA RowValueIsSum == digits \in Row => RowValue = Sums(digits)[NumDigits]
  BY DEF RowValue, Sums

(* The row after a pass.                                                   *)
Doubled(row, top) ==
  [d \in 0..(NumDigits - 1) |->
     2 * row[d] + Overflow(row, top)[d] - 10 * Overflow(row, top)[d + 1]]

LEMMA DoubledRow ==
  ASSUME NEW row \in Row, NEW top \in 0..1
  PROVE  Doubled(row, top) \in Row
<1> DEFINE o == Overflow(row, top)
<1>0. NumDigits \in Nat
  BY RowAssumption
<1>1. /\ o \in [0..NumDigits -> 0..1]
      /\ \A d \in 1..NumDigits : o[d] = IF 2 * row[d - 1] + o[d - 1] >= 10 THEN 1 ELSE 0
  BY OverflowOfRow
<1> HIDE DEF o
<1>2. ASSUME NEW d \in 0..(NumDigits - 1)
      PROVE  2 * row[d] + o[d] - 10 * o[d + 1] \in 0..9
  <2>1. row[d] \in 0..9 /\ o[d] \in 0..1 /\ d + 1 \in 1..NumDigits /\ (d + 1) - 1 = d
    BY <1>0, <1>1 DEF Row
  <2>2. o[d + 1] = IF 2 * row[d] + o[d] >= 10 THEN 1 ELSE 0
    BY <1>1, <2>1
  <2> QED
    BY <2>1, <2>2
<1> QED
  BY <1>2 DEF Doubled, Row, o

(* A pass doubles the number in the row and adds top, but for what goes out *)
(* of the highest digit.                                                   *)
LEMMA DoubledSum ==
  ASSUME NEW row \in Row, NEW top \in 0..1
  PROVE  \A d \in 0..NumDigits :
           Sums(Doubled(row, top))[d] + Overflow(row, top)[d] * Power(10, d)
             = 2 * Sums(row)[d] + top
<1> DEFINE o == Overflow(row, top)
           next == Doubled(row, top)
           T == {k \in Nat : k <= NumDigits =>
                   Sums(next)[k] + o[k] * Power(10, k) = 2 * Sums(row)[k] + top}
<1>0. NumDigits \in Nat /\ next \in Row
  BY RowAssumption, DoubledRow
<1>1. /\ o \in [0..NumDigits -> 0..1] /\ o[0] = top
  BY OverflowOfRow
<1>2. /\ Sums(row) \in [0..NumDigits -> Nat]
      /\ Sums(row)[0] = 0
      /\ \A d \in 1..NumDigits :
           Sums(row)[d] = Sums(row)[d - 1] + row[d - 1] * Power(10, d - 1)
  BY SumsOfRow, Zenon
<1> HIDE DEF next
<1>3. /\ Sums(next) \in [0..NumDigits -> Nat]
      /\ Sums(next)[0] = 0
      /\ \A d \in 1..NumDigits :
           Sums(next)[d] = Sums(next)[d - 1] + next[d - 1] * Power(10, d - 1)
  BY <1>0, SumsOfRow, Zenon
<1> HIDE DEF o
<1>4. 0 \in T
  <2>1. Power(10, 0) = 1
    BY PowerNext
  <2> QED
    BY <1>1, <1>2, <1>3, <2>1
<1>5. ASSUME NEW k \in Nat, k \in T PROVE k + 1 \in T
  <2> SUFFICES ASSUME k + 1 <= NumDigits
               PROVE  Sums(next)[k + 1] + o[k + 1] * Power(10, k + 1)
                        = 2 * Sums(row)[k + 1] + top
    OBVIOUS
  <2>1. k + 1 \in 1..NumDigits /\ (k + 1) - 1 = k /\ k \in 0..(NumDigits - 1)
    BY <1>0
  <2>2. /\ Sums(row)[k + 1] = Sums(row)[k] + row[k] * Power(10, k)
        /\ Sums(next)[k + 1] = Sums(next)[k] + next[k] * Power(10, k)
    BY <1>2, <1>3, <2>1
  <2>3. Power(10, k) \in Nat /\ Power(10, k + 1) = 10 * Power(10, k)
    BY PowerNext
  <2>4. next[k] = 2 * row[k] + o[k] - 10 * o[k + 1]
    BY <2>1 DEF next, Doubled, o
  <2>5. Sums(next)[k] + o[k] * Power(10, k) = 2 * Sums(row)[k] + top
    BY <1>0, <1>5, <2>1
  <2>6. /\ row[k] \in 0..9 /\ o[k] \in 0..1 /\ o[k + 1] \in 0..1
        /\ Sums(next)[k] \in Nat /\ Sums(row)[k] \in Nat
    BY <1>0, <1>1, <1>2, <1>3, <2>1 DEF Row
  <2>7. next[k] * Power(10, k) =
          2 * (row[k] * Power(10, k)) + o[k] * Power(10, k) - 10 * (o[k + 1] * Power(10, k))
    BY <2>3, <2>4, <2>6
  <2>8. o[k + 1] * Power(10, k + 1) = 10 * (o[k + 1] * Power(10, k))
    BY <2>3, <2>6
  <2>9. row[k] * Power(10, k) \in Int /\ o[k] * Power(10, k) \in Int /\ o[k + 1] * Power(10, k) \in Int
    BY <2>3, <2>6
  <2> QED
    BY <2>2, <2>5, <2>6, <2>7, <2>8, <2>9
<1> HIDE DEF T
<1>6. Nat \subseteq T
  BY <1>4, <1>5, InductiveSet
<1> QED
  BY <1>6, <1>0 DEF T, o, next

LEMMA PowersOfTwo == \A n \in Nat : Power(2, n) \in Nat /\ Power(2, n) > 0
  BY PowerPositive

(* A number of Width bits, of which those under a place n of the lowest are *)
(* shifted up to the top.                                                  *)
LEMMA LowBits ==
  ASSUME NEW A \in Numbers, NEW n \in 0..Width
  PROVE  /\ Width - n \in Nat
         /\ A \div Power(2, n) \in Nat
         /\ A % Power(2, n) \in Nat
         /\ A % Power(2, n) < Power(2, n)
         /\ A = Power(2, n) * (A \div Power(2, n)) + (A % Power(2, n))
         /\ (A * Power(2, Width - n)) % Power(2, Width)
              = Power(2, Width - n) * (A % Power(2, n))
<1> DEFINE B == Power(2, n)
           C == Power(2, Width - n)
           W == Power(2, Width)
           q == A \div B
           r == A % B
<1>1. Width \in Nat /\ n \in Nat /\ Width - n \in Nat /\ n + (Width - n) = Width
  BY WidthAssumption
<1>2. B \in Nat /\ B > 0 /\ C \in Nat /\ C > 0 /\ W \in Nat /\ W > 0
  BY <1>1, PowersOfTwo
<1>3. W = B * C
  BY <1>1, PowerSum
<1>4. A \in Nat
  BY <1>2 DEF Numbers
<1> HIDE DEF B, C, W
<1>5. q \in Nat /\ r \in Nat /\ r < B /\ A = B * q + r
  BY <1>2, <1>4, QuotientAndRemainder
<1> HIDE DEF q, r
<1>6. A * C = W * q + C * r
  <2>1. A * C = (B * q + r) * C
    BY <1>5
  <2> QED
    BY <2>1, <1>2, <1>3, <1>5
<1>7. C * r \in Nat /\ A * C \in Nat
  BY <1>2, <1>4, <1>5
<1>8. C * r < W
  <2>1. C * (B - r) > 0
    BY <1>2, <1>5
  <2> QED
    BY <2>1, <1>2, <1>3, <1>5
<1>9. (A * C) % W = C * r
  <2>1. W \in Nat /\ q \in Nat
    BY <1>2, <1>5
  <2> QED
    BY <2>1, <1>6, <1>7, <1>8, DivisionUnique, Zenon
<1> QED
  BY <1>1, <1>5, <1>9 DEF B, C, W, q, r

(* One more bit goes from the number into the row.                         *)
LEMMA NextBit ==
  ASSUME NEW A \in Numbers, NEW m \in 0..(Width - 1),
         NEW v, v = (A * Power(2, m)) % Power(2, Width),
         NEW top, top = v \div Power(2, Width - 1)
  PROVE  /\ v \in Numbers
         /\ top \in 0..1
         /\ (2 * v) % Power(2, Width) = (A * Power(2, m + 1)) % Power(2, Width)
         /\ (2 * v) % Power(2, Width) \in Numbers
         /\ A \div Power(2, Width - (m + 1)) = 2 * (A \div Power(2, Width - m)) + top
<1> DEFINE n  == Width - (m + 1)
           B  == Power(2, n)
           C  == Power(2, m)
           W  == Power(2, Width)
           H  == Power(2, Width - 1)
           q  == A \div Power(2, Width - m)
           r  == A % Power(2, Width - m)
           t  == r \div B
           r1 == r % B
<1>1. /\ Width \in Nat /\ m \in Nat /\ n \in Nat /\ Width - 1 \in Nat /\ Width - m \in Nat
      /\ n + m = Width - 1 /\ (Width - 1) + 1 = Width /\ n + 1 = Width - m
      /\ Width - (n + 1) = m /\ n + 1 \in 0..Width
  BY WidthAssumption
<1>2. /\ B \in Nat /\ B > 0 /\ C \in Nat /\ C > 0 /\ W \in Nat /\ W > 0 /\ H \in Nat /\ H > 0
  BY <1>1, PowersOfTwo
<1>3. H = B * C /\ W = 2 * H
  BY <1>1, PowerSum, PowerNext
<1>4. Power(2, Width - m) = 2 * B /\ Power(2, m + 1) = 2 * C
  BY <1>1, PowerNext
<1>5. A \in Nat
  BY <1>2 DEF Numbers
<1>6. q \in Nat /\ r \in Nat /\ r < 2 * B /\ A = (2 * B) * q + r /\ v = C * r
  BY <1>1, <1>4, LowBits
<1> HIDE DEF q, r, B, C, W, H
<1>7. t \in Nat /\ r1 \in Nat /\ r1 < B /\ r = B * t + r1
  BY <1>2, <1>6, QuotientAndRemainder
<1> HIDE DEF t, r1
<1>8. t \in 0..1
  <2>1. ~(t >= 2)
    <3> SUFFICES ASSUME t >= 2 PROVE FALSE
      OBVIOUS
    <3>1. B * (t - 2) >= 0
      BY <1>2, <1>7
    <3> QED
      BY <3>1, <1>2, <1>6, <1>7
  <2> QED
    BY <2>1, <1>7
<1>9. C * r1 \in Nat /\ C * r1 < H
  <2>1. C * (B - r1) > 0
    BY <1>2, <1>7
  <2> QED
    BY <2>1, <1>2, <1>3, <1>7
<1>10. v \in Nat /\ v = H * t + C * r1
  <2>1. v = C * (B * t + r1)
    BY <1>6, <1>7
  <2> QED
    BY <2>1, <1>2, <1>3, <1>7, <1>9
<1>11. top = t
  <2>1. v \div H = t
    BY <1>2, <1>7, <1>9, <1>10, DivisionUnique
  <2> QED
    BY <2>1 DEF H
<1>12. v \in Numbers
  <2>1. v < W
    BY <1>2, <1>3, <1>8, <1>9, <1>10
  <2> QED
    BY <2>1, <1>2, <1>10 DEF Numbers, W
<1>13. (2 * v) % W = 2 * (C * r1) /\ 2 * (C * r1) \in 0..(W - 1)
  <2>1. 2 * v = W * t + 2 * (C * r1)
    BY <1>2, <1>3, <1>8, <1>9, <1>10
  <2>2. 2 * v \in Nat /\ 2 * (C * r1) \in Nat /\ 2 * (C * r1) < W
    BY <1>3, <1>2, <1>9, <1>10
  <2>3. (2 * v) % W = 2 * (C * r1)
    <3>1. W \in Nat /\ t \in Nat
      BY <1>2, <1>7
    <3> QED
      BY <2>1, <2>2, <3>1, DivisionUnique, Zenon
  <2> QED
    BY <2>2, <2>3, <1>2
<1>14. A = B * (2 * q + t) + r1
  <2>1. (2 * B) * q = B * (2 * q)
    BY <1>2, <1>6
  <2>2. B * (2 * q + t) = B * (2 * q) + B * t
    BY <1>2, <1>6, <1>7
  <2> QED
    BY <2>1, <2>2, <1>2, <1>6, <1>7
<1>15. A \div B = 2 * q + t /\ A % B = r1
  <2>1. 2 * q + t \in Nat
    BY <1>6, <1>7
  <2> QED
    BY <2>1, <1>2, <1>5, <1>7, <1>14, DivisionUnique
<1>16. (A * Power(2, m + 1)) % W = 2 * (C * r1)
  <2>1. n \in 0..Width /\ Width - n = m + 1
    BY <1>1
  <2>2. (A * Power(2, m + 1)) % W = Power(2, m + 1) * (A % B)
    BY <2>1, LowBits DEF W, B
  <2> QED
    BY <2>2, <1>2, <1>4, <1>7, <1>15
<1> QED
  BY <1>8, <1>11, <1>12, <1>13, <1>15, <1>16 DEF W, B, q, Numbers

(* What is put: characters of strings, digits and signs.                   *)
Printed == Characters \cup 0..15 \cup {"-"}

(* How much of n characters fits, and what fits of a text.                 *)
Fitting(n) == IF n <= Size - 1 THEN n ELSE Size - 1

Cut(text) == SubSeq(text, 1, Fitting(Len(text)))

LEMMA CutText ==
  ASSUME NEW text \in Seq(Printed)
  PROVE  /\ Cut(text) \in Seq(Printed)
         /\ Len(Cut(text)) = Fitting(Len(text))
         /\ Len(Cut(text)) \in 0..(Size - 1)
         /\ Cut(text) = SubSeq(text, 1, Min({Len(text), Size - 1}))
<1>1. Len(text) \in Nat /\ Size - 1 \in Nat
  BY SizeAssumption, LenProperties
<1>2. Fitting(Len(text)) \in 0..Len(text) /\ Fitting(Len(text)) \in 0..(Size - 1)
  BY <1>1 DEF Fitting
<1>3. \A i \in 1..Fitting(Len(text)) : text[i] \in Printed
  <2>1. \A i \in 1..Len(text) : text[i] \in Printed
    BY ElementOfSeq
  <2> QED
    BY <2>1, <1>1, <1>2
<1>4. /\ Cut(text) \in Seq(Printed)
      /\ Len(Cut(text)) = Fitting(Len(text))
  BY <1>1, <1>2, <1>3, SubSeqProperties DEF Cut
<1>5. Min({Len(text), Size - 1}) = Fitting(Len(text))
  BY <1>1 DEF Min, Fitting
<1> QED
  BY <1>2, <1>4, <1>5 DEF Cut

LEMMA CutEmpty == Cut(<<>>) = <<>>
<1>1. Size - 1 \in Nat /\ Len(<<>>) = 0
  BY SizeAssumption
<1> QED
  BY <1>1, SubSeqEmpty DEF Cut, Fitting

(* The places of what fits of n characters of a text.                      *)
LEMMA NextPlace ==
  ASSUME NEW all \in Seq(Printed), NEW n \in Nat, n + 1 <= Len(all)
  PROVE  SubSeq(all, 1, Fitting(n + 1)) =
           IF Fits(Len(SubSeq(all, 1, Fitting(n))))
           THEN Append(SubSeq(all, 1, Fitting(n)), all[n + 1])
           ELSE SubSeq(all, 1, Fitting(n))
<1> DEFINE kept == SubSeq(all, 1, Fitting(n))
<1>1. Size - 1 \in Nat /\ Len(all) \in Nat
  BY SizeAssumption, LenProperties
<1>2. \A i \in 1..Len(all) : all[i] \in Printed
  BY ElementOfSeq
<1>3. Fitting(n) \in Nat /\ Fitting(n) <= n
  BY <1>1 DEF Fitting
<1>4. kept \in Seq(Printed) /\ Len(kept) = Fitting(n)
  <2>1. \A i \in 1..Fitting(n) : all[i] \in Printed
    BY <1>1, <1>2, <1>3
  <2> QED
    BY <2>1, <1>3, SubSeqProperties
<1>5. CASE n < Size - 1
  <2>1. Fitting(n) = n /\ Fitting(n + 1) = n + 1 /\ Fits(Len(kept))
    BY <1>1, <1>4, <1>5 DEF Fitting, Fits
  <2>2. SubSeq(all, 1, n + 1) = SubSeq(all, 1, n) \o <<all[n + 1]>>
    <3>1. 1 \in 1..Len(all) /\ n + 1 \in 1..Len(all) /\ (n + 1) - 1 = n
      BY <1>1
    <3> QED
      BY <3>1, SubSeqRecursiveSecond
  <2>3. Append(kept, all[n + 1]) = kept \o <<all[n + 1]>>
    <3>1. all[n + 1] \in Printed
      BY <1>1, <1>2
    <3> QED
      BY <3>1, <1>4, AppendIsConcat
  <2> HIDE DEF kept
  <2>4. kept = SubSeq(all, 1, n)
    BY <2>1 DEF kept
  <2> QED
    BY <2>1, <2>2, <2>3, <2>4 DEF kept
<1>6. CASE ~(n < Size - 1)
  <2>1. Fitting(n) = Size - 1 /\ Fitting(n + 1) = Size - 1
    BY <1>1, <1>6 DEF Fitting
  <2>2. ~Fits(Len(kept))
    BY <1>1, <1>4, <2>1 DEF Fits
  <2> QED
    BY <2>1, <2>2
<1> QED
  BY <1>5, <1>6

(* What Put puts into the buffer, character for character.                 *)
Putting(text) ==
  CHOOSE put : put =
    [i \in 0..Len(text) |->
       IF i = 0 THEN buffer
       ELSE IF Fits(Len(put[i - 1])) THEN Append(put[i - 1], text[i])
       ELSE put[i - 1]]

(* A buffer with what fits of some text gets what fits of the longer one.  *)
LEMMA PutCuts ==
  ASSUME NEW full \in Seq(Printed), NEW text \in Seq(Printed), buffer = Cut(full), Put(text)
  PROVE  full \o text \in Seq(Printed) /\ buffer' = Cut(full \o text)
<1> DEFINE all == full \o text
           l == Len(full)
           f == [i \in 0..Len(text) |-> SubSeq(all, 1, Fitting(l + i))]
<1>1. /\ all \in Seq(Printed) /\ Len(all) = l + Len(text)
      /\ l \in Nat /\ Len(text) \in Nat
      /\ \A i \in 1..Len(text) : all[l + i] = text[i]
  <2>1. l \in Nat /\ Len(text) \in Nat
    BY LenProperties
  <2>2. \A i \in 1..Len(text) : l + i \in 1..(l + Len(text)) /\ ~(l + i <= l) /\ (l + i) - l = i
    BY <2>1
  <2> QED
    BY <2>1, <2>2, ConcatProperties
<1>2. f[0] = buffer
  <2>1. Fitting(l + 0) = Fitting(l) /\ 0 \in 0..Len(text)
    BY <1>1
  <2>2. SubSeq(all, 1, Fitting(l)) = SubSeq(full, 1, Fitting(l))
    <3>1. Size - 1 \in Nat
      BY SizeAssumption
    <3>2. Fitting(l) \in 0..l
      BY <3>1, <1>1 DEF Fitting
    <3>3. CASE Fitting(l) = 0
      BY <3>3, SubSeqEmpty
    <3>4. CASE Fitting(l) # 0
      <4>1. 1 \in 1..l /\ Fitting(l) \in 1..l
        BY <3>2, <3>4, <1>1
      <4> QED
        BY <4>1, SubSeqOfConcat1
    <3> QED
      BY <3>3, <3>4
  <2> QED
    BY <2>1, <2>2 DEF Cut
<1> HIDE DEF all
<1>3. ASSUME NEW i \in 1..Len(text)
      PROVE  f[i] = IF Fits(Len(f[i - 1])) THEN Append(f[i - 1], text[i]) ELSE f[i - 1]
  <2>1. /\ l + (i - 1) \in Nat /\ (l + (i - 1)) + 1 = l + i /\ l + i <= Len(all)
        /\ i - 1 \in 0..Len(text) /\ i \in 0..Len(text)
    BY <1>1
  <2>2. f[i] = SubSeq(all, 1, Fitting(l + i)) /\ f[i - 1] = SubSeq(all, 1, Fitting(l + (i - 1)))
    BY <2>1
  <2>3. all[l + i] = text[i]
    BY <1>1
  <2> HIDE DEF f, l
  <2> QED
    BY <1>1, <2>1, <2>2, <2>3, NextPlace
<1>4. f = [i \in 0..Len(text) |->
             IF i = 0 THEN buffer
             ELSE IF Fits(Len(f[i - 1])) THEN Append(f[i - 1], text[i])
             ELSE f[i - 1]]
  <2>1. \A i \in 0..Len(text) : i # 0 => i \in 1..Len(text)
    BY <1>1
  <2>2. f = [i \in 0..Len(text) |-> f[i]]
    OBVIOUS
  <2> HIDE DEF f, l
  <2> QED
    BY <2>1, <2>2, <1>2, <1>3
<1> DEFINE p == Putting(text)
<1>5. p = [i \in 0..Len(text) |->
             IF i = 0 THEN buffer
             ELSE IF Fits(Len(p[i - 1])) THEN Append(p[i - 1], text[i])
             ELSE p[i - 1]]
  <2> HIDE DEF f
  <2> QED
    BY <1>4, Zenon DEF Putting
<1>6. buffer' = p[Len(text)]
  BY DEF Put, Putting
<1> HIDE DEF p, f
<1>7. p[Len(text)] = f[Len(text)]
  <2> DEFINE T == {k \in Nat : k <= Len(text) => p[k] = f[k]}
  <2>1. 0 \in T
    BY <1>1, <1>2, <1>5
  <2>2. ASSUME NEW k \in Nat, k \in T PROVE k + 1 \in T
    <3> SUFFICES ASSUME k + 1 <= Len(text) PROVE p[k + 1] = f[k + 1]
      OBVIOUS
    <3>1. k + 1 \in 0..Len(text) /\ k + 1 # 0 /\ (k + 1) - 1 = k /\ k + 1 \in 1..Len(text)
      BY <1>1
    <3>2. p[k] = f[k]
      BY <1>1, <2>2, <3>1
    <3>3. p[k + 1] = IF Fits(Len(p[k])) THEN Append(p[k], text[k + 1]) ELSE p[k]
      BY <1>5, <3>1
    <3>4. f[k + 1] = IF Fits(Len(f[k])) THEN Append(f[k], text[k + 1]) ELSE f[k]
      BY <1>3, <3>1
    <3> QED
      BY <3>2, <3>3, <3>4
  <2> HIDE DEF T
  <2>3. Nat \subseteq T
    BY <2>1, <2>2, InductiveSet
  <2> QED
    BY <2>3, <1>1 DEF T
<1>8. f[Len(text)] = Cut(all)
  <2>1. Len(text) \in 0..Len(text)
    BY <1>1
  <2> QED
    BY <2>1, <1>1 DEF f, Cut
<1> QED
  BY <1>1, <1>6, <1>7, <1>8 DEF all
-----------------------------------------------------------------------------
(* The decimal digits of a number. *)

LEMMA PowersOfTen == \A n \in Nat : Power(10, n) \in Nat /\ Power(10, n) > 0
  BY PowerPositive

(* Powers of 10 do not fall with the exponent.                             *)
LEMMA PowersGrow ==
  ASSUME NEW m \in Nat, NEW n \in Nat, m <= n
  PROVE  Power(10, m) <= Power(10, n)
<1>1. n - m \in Nat /\ m + (n - m) = n
  OBVIOUS
<1>2. Power(10, n) = Power(10, m) * Power(10, n - m)
  BY <1>1, PowerSum
<1>3. /\ Power(10, m) \in Nat /\ Power(10, n - m) \in Nat
      /\ Power(10, m) > 0 /\ Power(10, n - m) > 0
  BY <1>1, PowersOfTen
<1>4. Power(10, m) * (Power(10, n - m) - 1) >= 0
  BY <1>3
<1> QED
  BY <1>2, <1>3, <1>4

(* The lowest d digits are a number below the d-th power of 10.            *)
LEMMA SumsBelow ==
  ASSUME NEW row \in Row
  PROVE  \A d \in 0..NumDigits : Sums(row)[d] \in Nat /\ Sums(row)[d] < Power(10, d)
<1> DEFINE T == {k \in Nat : k <= NumDigits => Sums(row)[k] < Power(10, k)}
<1>1. NumDigits \in Nat
  BY RowAssumption
<1>2. /\ Sums(row) \in [0..NumDigits -> Nat]
      /\ Sums(row)[0] = 0
      /\ \A d \in 1..NumDigits :
           Sums(row)[d] = Sums(row)[d - 1] + row[d - 1] * Power(10, d - 1)
  BY SumsOfRow, Zenon
<1>3. 0 \in T
  BY <1>2, PowersOfTen
<1>4. ASSUME NEW k \in Nat, k \in T PROVE k + 1 \in T
  <2> SUFFICES ASSUME k + 1 <= NumDigits PROVE Sums(row)[k + 1] < Power(10, k + 1)
    OBVIOUS
  <2>1. k + 1 \in 1..NumDigits /\ (k + 1) - 1 = k /\ k \in 0..(NumDigits - 1) /\ k <= NumDigits
    BY <1>1
  <2>2. Sums(row)[k + 1] = Sums(row)[k] + row[k] * Power(10, k)
    BY <1>2, <2>1
  <2>3. Sums(row)[k] < Power(10, k) /\ Sums(row)[k] \in Nat /\ row[k] \in 0..9
    BY <1>1, <1>2, <1>4, <2>1 DEF Row
  <2>4. Power(10, k) \in Nat /\ Power(10, k + 1) = 10 * Power(10, k)
    BY PowerNext
  <2>5. row[k] * Power(10, k) <= 9 * Power(10, k) /\ row[k] * Power(10, k) \in Nat
    <3>1. (9 - row[k]) * Power(10, k) >= 0
      BY <2>3, <2>4
    <3> QED
      BY <3>1, <2>3, <2>4, SMTT(30)
  <2> QED
    BY <2>2, <2>3, <2>4, <2>5
<1> HIDE DEF T
<1>5. Nat \subseteq T
  BY <1>3, <1>4, InductiveSet
<1> QED
  BY <1>1, <1>2, <1>5 DEF T

(* The number is that of its lowest d digits and a multiple of the d-th     *)
(* power of 10.                                                            *)
LEMMA SumSplit ==
  ASSUME NEW row \in Row, NEW d \in 0..NumDigits
  PROVE  \E h \in Nat : Sums(row)[NumDigits] = Sums(row)[d] + Power(10, d) * h
<1> DEFINE T == {k \in Nat : d <= k /\ k <= NumDigits =>
                   \E h \in Nat : Sums(row)[k] = Sums(row)[d] + Power(10, d) * h}
<1>1. NumDigits \in Nat /\ d \in Nat
  BY RowAssumption
<1>2. /\ Sums(row) \in [0..NumDigits -> Nat]
      /\ \A e \in 1..NumDigits :
           Sums(row)[e] = Sums(row)[e - 1] + row[e - 1] * Power(10, e - 1)
  BY SumsOfRow, Zenon
<1>3. Power(10, d) \in Nat
  BY <1>1, PowersOfTen
<1>0. Sums(row)[d] = Sums(row)[d] + Power(10, d) * 0
  BY <1>1, <1>2, <1>3
<1>4. 0 \in T
  <2> SUFFICES ASSUME d = 0
               PROVE  \E h \in Nat : Sums(row)[0] = Sums(row)[d] + Power(10, d) * h
    BY <1>1
  <2> QED
    BY <1>0
<1>5. ASSUME NEW k \in Nat, k \in T PROVE k + 1 \in T
  <2> SUFFICES ASSUME d <= k + 1, k + 1 <= NumDigits
               PROVE  \E h \in Nat : Sums(row)[k + 1] = Sums(row)[d] + Power(10, d) * h
    OBVIOUS
  <2>1. CASE d = k + 1
    BY <1>0, <2>1
  <2>2. CASE d <= k
    <3>1. PICK h \in Nat : Sums(row)[k] = Sums(row)[d] + Power(10, d) * h
      BY <1>1, <1>5, <2>2
    <3>2. k + 1 \in 1..NumDigits /\ (k + 1) - 1 = k /\ k \in 0..(NumDigits - 1)
          /\ k - d \in Nat /\ d + (k - d) = k
      BY <1>1, <2>2
    <3>3. Sums(row)[k + 1] = Sums(row)[k] + row[k] * Power(10, k)
      BY <1>2, <3>2
    <3>4. Power(10, k) = Power(10, d) * Power(10, k - d) /\ Power(10, k - d) \in Nat
      BY <1>1, <3>2, PowerSum, PowersOfTen
    <3>5. row[k] \in Nat /\ Sums(row)[d] \in Nat
      <4>1. row[k] \in 0..9
        BY <3>2 DEF Row
      <4>2. Sums(row)[d] \in Nat
        BY <1>2
      <4> QED
        BY <4>1, <4>2
    <3>6. row[k] * Power(10, k) = Power(10, d) * (row[k] * Power(10, k - d))
      BY <1>3, <3>4, <3>5
    <3>7. row[k] * Power(10, k - d) \in Nat
      BY <3>4, <3>5
    <3>8. h + row[k] * Power(10, k - d) \in Nat
      BY <3>7
    <3>9. Power(10, d) * (h + row[k] * Power(10, k - d))
            = Power(10, d) * h + Power(10, d) * (row[k] * Power(10, k - d))
      BY <1>3, <3>7
    <3>10. Sums(row)[k + 1] = Sums(row)[d] + Power(10, d) * (h + row[k] * Power(10, k - d))
      <4>1. Power(10, d) * h \in Nat /\ Power(10, d) * (row[k] * Power(10, k - d)) \in Nat
        BY <1>3, <3>7
      <4> QED
        BY <3>1, <3>3, <3>5, <3>6, <3>9, <4>1
    <3> QED
      BY <3>8, <3>10
  <2> QED
    BY <1>1, <2>1, <2>2
<1> HIDE DEF T
<1>6. Nat \subseteq T
  BY <1>4, <1>5, InductiveSet
<1> QED
  BY <1>1, <1>6 DEF T

(* A row of digits holds the decimal digits of its number.                 *)
LEMMA DigitsOfSum ==
  ASSUME NEW row \in Row, NEW n, n = Sums(row)[NumDigits]
  PROVE  \A d \in 0..(NumDigits - 1) : row[d] = (n \div Power(10, d)) % 10
<1> SUFFICES ASSUME NEW d \in 0..(NumDigits - 1)
             PROVE  row[d] = (n \div Power(10, d)) % 10
  OBVIOUS
<1> DEFINE P == Power(10, d)
<1>1. NumDigits \in Nat /\ d \in Nat /\ d + 1 \in 1..NumDigits /\ (d + 1) - 1 = d
      /\ d \in 0..NumDigits /\ d + 1 \in 0..NumDigits
  BY RowAssumption
<1>2. PICK h \in Nat : n = Sums(row)[d + 1] + Power(10, d + 1) * h
  BY <1>1, SumSplit
<1>3. Sums(row)[d + 1] = Sums(row)[d] + row[d] * P
  BY <1>1, SumsOfRow
<1>4. P \in Nat /\ P > 0 /\ Power(10, d + 1) = 10 * P
  BY <1>1, PowersOfTen, PowerNext
<1>5. Sums(row)[d] \in Nat /\ Sums(row)[d] < P
  BY <1>1, SumsBelow
<1>6. row[d] \in 0..9
  BY DEF Row
<1> HIDE DEF P
<1>7. n = P * (10 * h + row[d]) + Sums(row)[d]
  <2>1. P * (10 * h + row[d]) = (10 * P) * h + row[d] * P
    BY <1>4, <1>6
  <2>2. (10 * P) * h \in Nat /\ row[d] * P \in Nat
    BY <1>4, <1>6
  <2> QED
    BY <2>1, <2>2, <1>2, <1>3, <1>4, <1>5
<1>8. 10 * h + row[d] \in Nat /\ n \in Nat
  <2>1. 10 * h + row[d] \in Nat
    BY <1>6
  <2>2. P * (10 * h + row[d]) \in Nat
    BY <2>1, <1>4
  <2> QED
    BY <2>1, <2>2, <1>5, <1>7
<1>9. n \div P = 10 * h + row[d]
  BY <1>4, <1>5, <1>7, <1>8, DivisionUnique, Zenon
<1>10. (10 * h + row[d]) % 10 = row[d]
  BY <1>6
<1> QED
  BY <1>9, <1>10 DEF P

(* The highest digit that is not 0, or the lowest.                         *)
Highest(row) == Max({d \in 0..(NumDigits - 1) : row[d] # 0} \cup {0})

LEMMA HighestDigit ==
  ASSUME NEW row \in Row
  PROVE  /\ NumDigits \in Nat \ {0}
         /\ Highest(row) \in 0..(NumDigits - 1)
         /\ \A d \in 0..(NumDigits - 1) : d > Highest(row) => row[d] = 0
         /\ Highest(row) # 0 => row[Highest(row)] # 0
<1> DEFINE D == {d \in 0..(NumDigits - 1) : row[d] # 0} \cup {0}
<1>1. NumDigits \in Nat \ {0}
  <2>1. NumDigits \in Nat /\ Width - 1 \in Nat /\ (Width - 1) + 1 = Width
        /\ Power(2, Width) <= Power(10, NumDigits)
    BY RowAssumption, WidthAssumption
  <2>2. Power(2, Width) = 2 * Power(2, Width - 1) /\ Power(2, Width - 1) \in Nat
        /\ Power(2, Width - 1) > 0 /\ Power(10, 0) = 1
    BY <2>1, PowerNext, PowersOfTwo
  <2>3. NumDigits # 0
    BY <2>1, <2>2
  <2> QED
    BY <2>1, <2>3
<1>2. D \subseteq Int /\ D # {}
  BY <1>1
<1>3. \E x \in D : \A y \in D : x >= y
  <2> DEFINE N == {NumDigits - x : x \in D}
  <2>1. N \in SUBSET Nat /\ N # {}
    BY <1>1
  <2>2. PICK m \in N : \A k \in N : m <= k
    BY <2>1, LeastNumber, Zenon
  <2>3. PICK x \in D : m = NumDigits - x
    OBVIOUS
  <2>4. ASSUME NEW y \in D PROVE x >= y
    <3>1. NumDigits - x <= NumDigits - y
      BY <2>2, <2>3
    <3> QED
      BY <1>1, <1>2, <3>1
  <2> QED
    BY <2>4
<1>4. Highest(row) \in D /\ \A y \in D : Highest(row) >= y
  BY <1>3, Zenon DEF Highest, Max
<1> QED
  BY <1>1, <1>4

(* The digits above the highest add nothing, and the highest bounds the    *)
(* number from below.                                                      *)
LEMMA LengthOfSum ==
  ASSUME NEW row \in Row, NEW n, n = Sums(row)[NumDigits]
  PROVE  /\ n \in Nat
         /\ n < Power(10, Highest(row) + 1)
         /\ Highest(row) # 0 => n >= Power(10, Highest(row))
<1> DEFINE H == Highest(row)
           T == {k \in Nat : H + 1 <= k /\ k <= NumDigits => Sums(row)[k] = Sums(row)[H + 1]}
<1>1. /\ NumDigits \in Nat \ {0} /\ H \in 0..(NumDigits - 1)
      /\ \A d \in 0..(NumDigits - 1) : d > H => row[d] = 0
      /\ H # 0 => row[H] # 0
  BY HighestDigit
<1> HIDE DEF H
<1>2. /\ Sums(row) \in [0..NumDigits -> Nat]
      /\ \A d \in 1..NumDigits :
           Sums(row)[d] = Sums(row)[d - 1] + row[d - 1] * Power(10, d - 1)
  BY SumsOfRow, Zenon
<1>3. 0 \in T
  BY <1>1
<1>4. ASSUME NEW k \in Nat, k \in T PROVE k + 1 \in T
  <2> SUFFICES ASSUME H + 1 <= k + 1, k + 1 <= NumDigits
               PROVE  Sums(row)[k + 1] = Sums(row)[H + 1]
    OBVIOUS
  <2>1. CASE k = H
    BY <2>1
  <2>2. CASE k # H
    <3>1. k + 1 \in 1..NumDigits /\ (k + 1) - 1 = k /\ k \in 0..(NumDigits - 1) /\ k > H
          /\ H + 1 <= k /\ k <= NumDigits /\ k \in 0..NumDigits
      BY <1>1, <2>2
    <3>2. Sums(row)[k + 1] = Sums(row)[k] + row[k] * Power(10, k)
      BY <1>2, <3>1
    <3>3. row[k] = 0
      BY <1>1, <3>1
    <3>4. Power(10, k) \in Nat
      BY PowersOfTen
    <3>5. 0 * Power(10, k) = 0
      BY <3>4
    <3>6. Sums(row)[k] \in Nat
      BY <1>2, <3>1
    <3>7. Sums(row)[k] = Sums(row)[H + 1]
      BY <1>4, <3>1
    <3> QED
      BY <3>2, <3>3, <3>5, <3>6, <3>7
  <2> QED
    BY <2>1, <2>2
<1> HIDE DEF T
<1>5. Nat \subseteq T
  BY <1>3, <1>4, InductiveSet
<1>6. n = Sums(row)[H + 1]
  BY <1>1, <1>5 DEF T
<1>7. n \in Nat /\ n < Power(10, H + 1)
  <2>1. H + 1 \in 0..NumDigits
    BY <1>1
  <2> QED
    BY <1>6, <2>1, SumsBelow
<1>8. ASSUME H # 0 PROVE n >= Power(10, H)
  <2>1. H + 1 \in 1..NumDigits /\ (H + 1) - 1 = H /\ H \in Nat /\ H \in 0..NumDigits
    BY <1>1
  <2>2. n = Sums(row)[H] + row[H] * Power(10, H)
    BY <1>2, <1>6, <2>1
  <2>3. row[H] \in 0..9 /\ row[H] # 0
    BY <1>1, <1>8 DEF Row
  <2>4. Power(10, H) \in Nat
    BY <2>1, PowersOfTen
  <2>5. Sums(row)[H] \in Nat
    BY <1>2, <2>1
  <2>6. (row[H] - 1) * Power(10, H) >= 0
    BY <2>3, <2>4
  <2> QED
    BY <2>2, <2>3, <2>4, <2>5, <2>6
<1> QED
  BY <1>7, <1>8 DEF H

(* What PutNumber prints of a row that holds n is n in decimal.            *)
LEMMA StrippedIsDecimal ==
  ASSUME digits \in Row, NEW n, n = Sums(digits)[NumDigits]
  PROVE  Stripped = Decimal(n) /\ Stripped \in Seq(Printed)
<1> DEFINE H == Highest(digits)
           IsLength(l) == n < Power(10, l) /\ (l = 1 \/ n >= Power(10, l - 1))
           L == CHOOSE l \in 1..NumDigits : IsLength(l)
<1>1. NumDigits \in Nat \ {0} /\ H \in 0..(NumDigits - 1)
  BY HighestDigit
<1>2. H + 1 \in 1..NumDigits /\ IsLength(H + 1)
  <2>1. /\ n < Power(10, H + 1)
        /\ H # 0 => n >= Power(10, H)
    BY LengthOfSum
  <2>2. H + 1 \in 1..NumDigits /\ (H + 1) - 1 = H
    BY <1>1
  <2> HIDE DEF H
  <2> QED
    BY <2>1, <2>2
<1>3. ASSUME NEW l \in 1..NumDigits, NEW m \in 1..NumDigits, IsLength(l), IsLength(m), l < m
      PROVE  FALSE
  <2>1. l \in Nat /\ m - 1 \in Nat /\ l <= m - 1 /\ m # 1
    BY <1>1, <1>3
  <2>2. Power(10, l) <= Power(10, m - 1) /\ Power(10, l) \in Nat /\ Power(10, m - 1) \in Nat
    BY <2>1, PowersGrow, PowersOfTen
  <2>3. n < Power(10, l) /\ n >= Power(10, m - 1) /\ n \in Nat
    BY <1>3, <2>1, LengthOfSum
  <2> QED
    BY <2>2, <2>3
<1> HIDE DEF IsLength, H
<1>4. L \in 1..NumDigits /\ IsLength(L)
  BY <1>2
<1> HIDE DEF L
<1>5. L = H + 1
  <2>1. ~(L < H + 1) /\ ~(H + 1 < L)
    BY <1>2, <1>3, <1>4
  <2> QED
    BY <1>2, <1>4, <2>1
<1> DEFINE Digits(l) == [i \in 1..l |-> (n \div Power(10, l - i)) % 10]
<1>6. Decimal(n) = Digits(L)
  BY DEF Decimal, L, IsLength
<1>7. Stripped = [i \in 1..(H + 1) |-> digits[H + 1 - i]]
  BY DEF Stripped, H, Highest
<1>8. ASSUME NEW i \in 1..(H + 1)
      PROVE  /\ digits[H + 1 - i] = (n \div Power(10, H + 1 - i)) % 10
             /\ digits[H + 1 - i] \in Printed
  <2>1. H + 1 - i \in 0..(NumDigits - 1)
    BY <1>1
  <2>2. digits[H + 1 - i] \in 0..9
    BY <2>1 DEF Row
  <2>3. digits[H + 1 - i] \in Printed
    BY <2>2 DEF Printed
  <2> QED
    BY <2>1, <2>3, DigitsOfSum
<1>9. Stripped = Decimal(n)
  <2>1. Decimal(n) = Digits(H + 1)
    <3> HIDE DEF Digits
    <3> QED
      BY <1>5, <1>6
  <2>2. \A i \in 1..(H + 1) : digits[H + 1 - i] = (n \div Power(10, H + 1 - i)) % 10
    BY <1>8
  <2>3. Stripped = [i \in 1..(H + 1) |-> digits[H + 1 - i]]
    BY <1>7
  <2>4. [i \in 1..(H + 1) |-> digits[H + 1 - i]] = Digits(H + 1)
    <3>1. \A i \in 1..(H + 1) : H + 1 - i = (H + 1) - i
      BY <1>1
    <3> QED
      BY <2>2, <3>1
  <2> QED
    BY <2>1, <2>3, <2>4, Zenon
<1>10. Stripped \in Seq(Printed)
  <2>1. H + 1 \in Nat
    BY <1>1
  <2>2. Stripped \in [1..(H + 1) -> Printed]
    BY <1>7, <1>8
  <2> QED
    BY <2>1, <2>2, SeqDef
<1> QED
  BY <1>9, <1>10
-----------------------------------------------------------------------------
(* The hexadecimal digits of a number. *)

LEMMA PowersOf16 == \A n \in Nat : Power(16, n) \in Nat /\ Power(16, n) > 0
  BY PowerPositive

(* A number divided by a power, once more.                                 *)
LEMMA NextQuotient ==
  ASSUME NEW n \in Nat, NEW k \in Nat
  PROVE  /\ n \div Power(16, k) \in Nat
         /\ n \div Power(16, k + 1) = (n \div Power(16, k)) \div 16
         /\ n \div Power(16, k) = 16 * (n \div Power(16, k + 1)) + ((n \div Power(16, k)) % 16)
         /\ (n \div Power(16, k)) % 16 \in 0..15
<1> DEFINE P == Power(16, k)
           q == n \div P
           r == n % P
           u == q \div 16
           v == q % 16
<1>1. P \in Nat /\ P > 0 /\ Power(16, k + 1) = 16 * P
  BY PowersOf16, PowerNext
<1> HIDE DEF P
<1>2. q \in Nat /\ r \in Nat /\ r < P /\ n = P * q + r
  BY <1>1, QuotientAndRemainder
<1> HIDE DEF q, r
<1>3. u \in Nat /\ v \in 0..15 /\ q = 16 * u + v
  BY <1>2
<1> HIDE DEF u, v
<1>4. n = (16 * P) * u + (P * v + r)
  <2>1. P * q = P * (16 * u + v)
    BY <1>3
  <2>2. P * (16 * u + v) = (16 * P) * u + P * v
    BY <1>1, <1>3
  <2>3. (16 * P) * u \in Nat /\ P * v \in Nat
    BY <1>1, <1>3
  <2> QED
    BY <2>1, <2>2, <2>3, <1>2
<1>5. P * v + r \in Nat /\ P * v + r < 16 * P
  <2>1. P * (15 - v) >= 0 /\ P * v \in Nat
    BY <1>1, <1>3
  <2>2. P * (15 - v) = 15 * P - P * v
    BY <1>1, <1>3
  <2> QED
    BY <2>1, <2>2, <1>1, <1>2
<1>6. n \div (16 * P) = u
  <2>1. 16 * P \in Nat
    BY <1>1
  <2> QED
    BY <2>1, <1>3, <1>4, <1>5, DivisionUnique, Zenon
<1> QED
  BY <1>1, <1>2, <1>3, <1>6 DEF P, q, u, v

(* What the first digits of a hexadecimal text stand for.                  *)
HexValues(text, size) ==
  CHOOSE value : value = [i \in 0..size |-> IF i = 0 THEN 0 ELSE 16 * value[i - 1] + text[i]]

(* toHex prints the digits that stand for the number, and no other digits  *)
(* do.                                                                     *)
LEMMA ToHexIsHexadecimal ==
  ASSUME NEW size \in Nat, NEW n \in Nat, n < Power(16, size)
  PROVE  toHex(n, size) = Hexadecimal(n, size) /\ toHex(n, size) \in Seq(Printed)
<1> DEFINE h == toHex(n, size)
           f == [i \in 0..size |-> n \div Power(16, size - i)]
<1>1. ASSUME NEW i \in 1..size
      PROVE  /\ f[i - 1] \in Nat /\ f[i] \in Nat
             /\ h[i] = f[i] % 16 /\ h[i] \in 0..15
             /\ f[i] = 16 * f[i - 1] + h[i]
  <2>1. size - i \in Nat /\ (size - i) + 1 = size - (i - 1) /\ i \in 0..size /\ i - 1 \in 0..size
    OBVIOUS
  <2>2. f[i] = n \div Power(16, size - i) /\ f[i - 1] = n \div Power(16, (size - i) + 1)
    BY <2>1
  <2>3. h[i] = (n \div Power(16, size - i)) % 16
    BY DEF toHex
  <2>4. (size - i) + 1 \in Nat
    BY <2>1
  <2> HIDE DEF f, h
  <2>5. n \div Power(16, (size - i) + 1) \in Nat
    BY <2>4, NextQuotient
  <2> QED
    BY <2>1, <2>2, <2>3, <2>5, NextQuotient
<1>2. f[0] = 0
  <2>1. n = Power(16, size) * 0 + n /\ Power(16, size) \in Nat
    BY PowersOf16
  <2>2. n \div Power(16, size) = 0
    BY <2>1, DivisionUnique
  <2> QED
    BY <2>2
<1>3. f[size] = n
  <2>1. Power(16, 0) = 1 /\ size - size = 0 /\ size \in 0..size
    BY PowerNext
  <2> QED
    BY <2>1
<1>4. h \in [1..size -> 0..15]
  BY <1>1 DEF toHex
<1>5. f = [i \in 0..size |-> f[i]]
  OBVIOUS
<1> HIDE DEF f, h
<1>6. ASSUME NEW text \in [1..size -> 0..15]
      PROVE  /\ HexValue(text, size) = HexValues(text, size)[size]
             /\ HexValues(text, size) \in [0..size -> Nat]
             /\ HexValues(text, size)[0] = 0
             /\ \A i \in 1..size :
                  HexValues(text, size)[i] = 16 * HexValues(text, size)[i - 1] + text[i]
  <2> DEFINE G == [i \in 1..size |-> [x \in Nat |-> 16 * x + text[i]]]
             p == HexValues(text, size)
  <2>1. \A i \in 1..size : \A x \in Nat : G[i][x] = 16 * x + text[i] /\ G[i][x] \in Nat
    <3> SUFFICES ASSUME NEW i \in 1..size, NEW x \in Nat
                 PROVE  G[i][x] = 16 * x + text[i] /\ G[i][x] \in Nat
      OBVIOUS
    <3>1. G[i][x] = 16 * x + text[i]
      OBVIOUS
    <3>2. text[i] \in 0..15
      OBVIOUS
    <3> HIDE DEF G
    <3> QED
      BY <3>1, <3>2, SMTT(30)
  <2> HIDE DEF G
  <2>2. PICK g \in [0..size -> Nat] : Follows(g, size, 0, G)
    BY <2>1, Followed
  <2>3. g = [i \in 0..size |-> IF i = 0 THEN 0 ELSE 16 * g[i - 1] + text[i]]
    <3>1. ASSUME NEW i \in 1..size PROVE g[i] = 16 * g[i - 1] + text[i]
      <4>1. g[i - 1] \in Nat
        OBVIOUS
      <4>2. g[i] = G[i][g[i - 1]]
        BY <2>2 DEF Follows
      <4> QED
        BY <2>1, <4>1, <4>2
    <3>2. g[0] = 0
      BY <2>2 DEF Follows
    <3>3. \A i \in 0..size : i # 0 => i \in 1..size
      OBVIOUS
    <3> QED
      BY <3>1, <3>2, <3>3
  <2>4. p = [i \in 0..size |-> IF i = 0 THEN 0 ELSE 16 * p[i - 1] + text[i]]
    BY <2>3, Zenon DEF HexValues
  <2> HIDE DEF p
  <2>5. p[0] = 0 /\ \A i \in 1..size : p[i] = 16 * p[i - 1] + text[i]
    BY <2>4
  <2>6. \A i \in 0..size : p[i] \in Nat
    <3>1. \A i \in 1..size : p[i - 1] \in Nat => p[i] = G[i][p[i - 1]]
      BY <2>1, <2>5
    <3>2. 0 \in Nat /\ \A i \in 1..size : \A x \in Nat : G[i][x] \in Nat
      BY <2>1
    <3>3. FollowsIn(p, size, G, Nat)
      BY <2>5, <3>1, <3>2 DEF FollowsIn
    <3> QED
      BY <3>3, StaysIn
  <2>7. p \in [0..size -> Nat]
    BY <2>4, <2>6
  <2> QED
    BY <2>5, <2>7 DEF p, HexValue, HexValues
<1>7. HexValue(h, size) = n
  <2> DEFINE p == HexValues(h, size)
             T == {k \in Nat : k <= size => p[k] = f[k]}
  <2>1. /\ HexValue(h, size) = p[size] /\ p[0] = 0
        /\ \A i \in 1..size : p[i] = 16 * p[i - 1] + h[i]
    BY <1>4, <1>6
  <2> HIDE DEF p
  <2>2. 0 \in T
    BY <1>2, <2>1
  <2>3. ASSUME NEW k \in Nat, k \in T PROVE k + 1 \in T
    <3> SUFFICES ASSUME k + 1 <= size PROVE p[k + 1] = f[k + 1]
      OBVIOUS
    <3>1. k + 1 \in 1..size /\ (k + 1) - 1 = k /\ p[k] = f[k]
      BY <2>3
    <3> QED
      BY <1>1, <2>1, <3>1
  <2> HIDE DEF T
  <2>4. Nat \subseteq T
    BY <2>2, <2>3, InductiveSet
  <2>5. p[size] = f[size]
    BY <2>4 DEF T
  <2> QED
    BY <1>3, <2>1, <2>5
<1>8. ASSUME NEW text \in [1..size -> 0..15], HexValue(text, size) = n
      PROVE  text = h
  <2> DEFINE p == HexValues(text, size)
             T == {k \in Nat : k <= size => p[size - k] = f[size - k]}
  <2>1. /\ p \in [0..size -> Nat] /\ p[size] = n
        /\ \A i \in 1..size : p[i] = 16 * p[i - 1] + text[i]
    BY <1>6, <1>8
  <2> HIDE DEF p
  <2>2. 0 \in T
    BY <1>3, <2>1
  <2>3. ASSUME NEW i \in 1..size, p[i] = f[i] PROVE p[i - 1] = f[i - 1] /\ text[i] = h[i]
    <3>1. /\ p[i - 1] \in Nat /\ text[i] \in 0..15 /\ p[i] = 16 * p[i - 1] + text[i]
      BY <2>1
    <3>2. f[i - 1] \in Nat /\ h[i] \in 0..15 /\ f[i] = 16 * f[i - 1] + h[i]
      BY <1>1
    <3>3. PICK x \in Nat, y \in 0..15 : x = p[i - 1] /\ y = text[i]
      BY <3>1
    <3>4. PICK u \in Nat, v \in 0..15 : u = f[i - 1] /\ v = h[i]
      BY <3>2
    <3>5. 16 * x + y = 16 * u + v
      BY <2>3, <3>1, <3>2, <3>3, <3>4, Zenon
    <3>6. x = u /\ y = v
      BY <3>5
    <3> QED
      BY <3>3, <3>4, <3>6
  <2>4. ASSUME NEW k \in Nat, k \in T PROVE k + 1 \in T
    <3> SUFFICES ASSUME k + 1 <= size PROVE p[size - (k + 1)] = f[size - (k + 1)]
      OBVIOUS
    <3>1. size - k \in 1..size /\ (size - k) - 1 = size - (k + 1) /\ p[size - k] = f[size - k]
      BY <2>4
    <3> QED
      BY <2>3, <3>1
  <2> HIDE DEF T
  <2>5. Nat \subseteq T
    BY <2>2, <2>4, InductiveSet
  <2>6. ASSUME NEW i \in 1..size PROVE text[i] = h[i]
    <3>1. size - i \in Nat /\ size - i <= size /\ size - (size - i) = i
      OBVIOUS
    <3>2. p[i] = f[i]
      BY <2>5, <3>1 DEF T
    <3> QED
      BY <2>3, <3>2
  <2> QED
    BY <2>6, <1>4
<1>9. Hexadecimal(n, size) = h
  BY <1>4, <1>7, <1>8 DEF Hexadecimal
<1>10. h \in Seq(Printed)
  <2>1. h \in [1..size -> Printed]
    BY <1>4 DEF Printed
  <2> QED
    BY <2>1, SeqDef
<1> QED
  BY <1>9, <1>10 DEF h

(* The hexadecimal digits of Width bits, and of twice as many.             *)
LEMMA HexWidths ==
  /\ Width \div 4 \in Nat /\ Power(16, Width \div 4) = Power(2, Width)
  /\ Width \div 2 \in Nat /\ Power(16, Width \div 2) = Power(2, 2 * Width)
<1> DEFINE T == {k \in Nat : Power(16, k) = Power(2, 4 * k)}
<1>1. 0 \in T
  BY PowerNext
<1>2. ASSUME NEW k \in Nat, k \in T PROVE k + 1 \in T
  <2>1. Power(16, k + 1) = 16 * Power(16, k) /\ Power(16, k) \in Nat
    BY PowerNext
  <2>2. Power(2, 4) = 16
    <3>1. Power(2, 0) = 1
      BY PowerNext
    <3>2. Power(2, 0 + 1) = 2 * Power(2, 0)
      BY PowerNext
    <3>3. Power(2, 1 + 1) = 2 * Power(2, 1)
      BY PowerNext
    <3>4. Power(2, 2 + 1) = 2 * Power(2, 2)
      BY PowerNext
    <3>5. Power(2, 3 + 1) = 2 * Power(2, 3)
      BY PowerNext
    <3> QED
      BY <3>1, <3>2, <3>3, <3>4, <3>5
  <2>3. 4 \in Nat /\ 4 * k \in Nat /\ 4 + 4 * k = 4 * (k + 1)
    OBVIOUS
  <2>4. Power(2, 4 + 4 * k) = Power(2, 4) * Power(2, 4 * k)
    BY <2>3, PowerSum
  <2> QED
    BY <1>2, <2>1, <2>2, <2>3, <2>4
<1> HIDE DEF T
<1>3. Nat \subseteq T
  BY <1>1, <1>2, InductiveSet
<1>4. /\ Width \div 4 \in Nat /\ 4 * (Width \div 4) = Width
      /\ Width \div 2 \in Nat /\ 4 * (Width \div 2) = 2 * Width
  BY WidthAssumption
<1> QED
  BY <1>3, <1>4 DEF T
-----------------------------------------------------------------------------
(* The items of a format and what they say. *)

LEMMA NumbersNat ==
  /\ Power(2, Width) \in Nat /\ Power(2, Width) > 0
  /\ Power(2, Width - 1) \in Nat /\ Power(2, Width - 1) > 0
  /\ Power(2, Width) = 2 * Power(2, Width - 1)
  /\ Numbers \subseteq Nat /\ LongNumbers \subseteq Nat
<1>1. Width \in Nat /\ Width - 1 \in Nat /\ (Width - 1) + 1 = Width /\ 2 * Width \in Nat
  BY WidthAssumption
<1>2. /\ Power(2, Width) \in Nat /\ Power(2, Width) > 0
      /\ Power(2, Width - 1) \in Nat /\ Power(2, Width - 1) > 0
      /\ Power(2, 2 * Width) \in Nat
  BY <1>1, PowersOfTwo
<1>3. Power(2, Width) = 2 * Power(2, Width - 1)
  BY <1>1, PowerNext
<1> QED
  BY <1>2, <1>3 DEF Numbers, LongNumbers

(* A number of Width bits has a length in decimal, and digits.              *)
LEMMA DecimalPrinted ==
  ASSUME NEW n \in Numbers
  PROVE  Decimal(n) \in Seq(Printed)
<1> DEFINE IsLength(l) == n < Power(10, l) /\ (l = 1 \/ n >= Power(10, l - 1))
           L == CHOOSE l \in 1..NumDigits : IsLength(l)
           T == {l \in Nat : l >= 1 /\ n < Power(10, l)}
<1>1. /\ n \in Nat /\ n < Power(2, Width) /\ Power(2, Width) \in Nat
      /\ NumDigits \in Nat /\ Power(2, Width) <= Power(10, NumDigits)
      /\ Power(10, NumDigits) \in Nat
  BY NumbersNat, RowAssumption, PowersOfTen DEF Numbers
<1>2. NumDigits >= 1
  <2>1. Power(2, Width) >= 2
    BY NumbersNat
  <2>2. Power(10, 0) = 1
    BY PowerNext
  <2> QED
    BY <1>1, <2>1, <2>2
<1>3. NumDigits \in T
  BY <1>1, <1>2
<1>4. PICK l \in T : \A m \in T : l <= m
  <2>1. T \in SUBSET Nat /\ T # {}
    BY <1>3
  <2> HIDE DEF T
  <2> QED
    BY <2>1, LeastNumber, Zenon
<1>5. l \in 1..NumDigits /\ IsLength(l)
  <2>1. l \in Nat /\ l >= 1 /\ l <= NumDigits /\ n < Power(10, l)
    BY <1>3, <1>4
  <2>2. ASSUME l # 1 PROVE n >= Power(10, l - 1)
    <3>1. l - 1 \in Nat /\ l - 1 >= 1 /\ ~(l <= l - 1) /\ Power(10, l - 1) \in Nat
      BY <2>1, <2>2, PowersOfTen
    <3>2. l - 1 \notin T
      BY <1>4, <3>1
    <3> QED
      BY <1>1, <3>1, <3>2
  <2> QED
    BY <1>1, <2>1, <2>2
<1> HIDE DEF IsLength, T
<1>6. L \in 1..NumDigits
  BY <1>5
<1>7. Decimal(n) = [i \in 1..L |-> (n \div Power(10, L - i)) % 10]
  BY DEF Decimal, L, IsLength
<1> HIDE DEF L
<1>8. ASSUME NEW i \in 1..L PROVE (n \div Power(10, L - i)) % 10 \in Printed
  <2>1. L - i \in Nat
    BY <1>6
  <2>2. Power(10, L - i) \in Nat /\ Power(10, L - i) > 0
    BY <2>1, PowersOfTen
  <2>3. n \div Power(10, L - i) \in Nat
    BY <1>1, <2>2, QuotientAndRemainder
  <2>4. (n \div Power(10, L - i)) % 10 \in 0..9
    BY <2>3
  <2> QED
    BY <2>4 DEF Printed
<1>9. Decimal(n) \in [1..L -> Printed] /\ L \in Nat
  BY <1>6, <1>7, <1>8
<1> QED
  BY <1>9, SeqDef

(* The number of an item that is printed in decimal.                       *)
Magnitude(item) == IF item.conversion = "d" /\ IsNegative(item.number)
                   THEN Power(2, Width) - item.number ELSE item.number

Sign(item) == IF item.conversion = "d" /\ IsNegative(item.number) THEN <<"-">> ELSE <<>>

LEMMA MagnitudeOfItem ==
  ASSUME NEW item \in Items, item.conversion \in {"u", "d"}
  PROVE  /\ item.number \in Numbers
         /\ Magnitude(item) \in Numbers
         /\ IsNegative(item.number) => Negated(item.number) = Power(2, Width) - item.number
         /\ Rendered(item) = Sign(item) \o Decimal(Magnitude(item))
         /\ Sign(item) \in Seq(Printed)
<1> DEFINE W == Power(2, Width)
           H == Power(2, Width - 1)
<1>1. W \in Nat /\ H \in Nat /\ H > 0 /\ W = 2 * H
  BY NumbersNat
<1>2. item.number \in Numbers
  BY DEF Items
<1>3. item.number \in 0..(W - 1)
  BY <1>2 DEF Numbers
<1>4. IsNegative(item.number) <=> item.number >= H
  BY DEF IsNegative
<1>5. Magnitude(item) = IF item.conversion = "d" /\ item.number >= H
                        THEN W - item.number ELSE item.number
  BY <1>4 DEF Magnitude
<1> HIDE DEF W, H
<1>6. Magnitude(item) \in 0..(W - 1)
  BY <1>1, <1>3, <1>5
<1>7. Magnitude(item) \in Numbers
  BY <1>6 DEF Numbers, W
<1>8. ASSUME IsNegative(item.number) PROVE Negated(item.number) = W - item.number
  <2>1. W - item.number \in Nat /\ W - item.number < W /\ W - item.number = W * 0 + (W - item.number)
    BY <1>1, <1>3, <1>4, <1>8
  <2>2. (W - item.number) % W = W - item.number
    BY <2>1, <1>1
  <2> QED
    BY <2>2 DEF Negated, W
<1>9. Sign(item) \in Seq(Printed)
  <2>1. "-" \in Printed
    BY DEF Printed
  <2>2. <<"-">> \in Seq(Printed) /\ <<>> \in Seq(Printed)
    BY <2>1
  <2> QED
    BY <2>2 DEF Sign
<1> QED
  <2>1. CASE item.conversion = "d" /\ IsNegative(item.number)
    <3>1. Rendered(item) = <<"-">> \o Decimal(W - item.number)
      BY <2>1 DEF Rendered, W
    <3> QED
      BY <3>1, <2>1, <1>2, <1>7, <1>8, <1>9 DEF Sign, Magnitude, W
  <2>2. CASE ~(item.conversion = "d" /\ IsNegative(item.number))
    <3>1. Rendered(item) = Decimal(item.number)
      BY <2>2 DEF Rendered
    <3>2. Sign(item) = <<>> /\ Magnitude(item) = item.number
      BY <2>2 DEF Sign, Magnitude
    <3>3. \A t \in Seq(Printed) : <<>> \o t = t
      BY ConcatEmptySeq
    <3> QED
      <4>1. <<>> \o Decimal(item.number) = Decimal(item.number)
        BY <1>2, <3>3, DecimalPrinted
      <4>2. Rendered(item) = Sign(item) \o Decimal(Magnitude(item))
        BY <3>1, <3>2, <4>1
      <4> QED
        BY <4>2, <1>2, <1>7, <1>8, <1>9 DEF W
  <2> QED
    BY <2>1, <2>2

(* What an item says is printed characters, and PutItem puts it.           *)
LEMMA RenderedItem ==
  ASSUME NEW item \in Items
  PROVE  /\ Rendered(item) \in Seq(Printed)
         /\ item.conversion \in {"none", "s"} => Rendered(item) = item.text
         /\ item.conversion = "x" => Rendered(item) = toHex(item.number, Width \div 4)
         /\ item.conversion = "X" => Rendered(item) = toHex(item.number, Width \div 2)
<1>1. CASE item.conversion \in {"none", "s"}
  <2>1. Rendered(item) = item.text
    BY <1>1 DEF Rendered
  <2>2. item.text \in Seq(Characters) /\ Characters \subseteq Printed
    BY DEF Items, Printed
  <2>3. item.text \in Seq(Printed)
    BY <2>2, SeqMonotonic
  <2> QED
    BY <1>1, <2>1, <2>3
<1>2. CASE item.conversion = "x"
  <2>1. Rendered(item) = Hexadecimal(item.number, Width \div 4)
    BY <1>2 DEF Rendered
  <2>2. item.number \in Numbers
    BY <1>2 DEF Items
  <2>3. item.number \in Nat /\ item.number < Power(16, Width \div 4)
    BY <2>2, NumbersNat, HexWidths DEF Numbers
  <2>4. /\ toHex(item.number, Width \div 4) = Hexadecimal(item.number, Width \div 4)
        /\ toHex(item.number, Width \div 4) \in Seq(Printed)
    BY <2>3, HexWidths, ToHexIsHexadecimal
  <2> QED
    BY <1>2, <2>1, <2>4
<1>3. CASE item.conversion = "X"
  <2>1. Rendered(item) = Hexadecimal(item.number, Width \div 2)
    BY <1>3 DEF Rendered
  <2>2. item.number \in LongNumbers
    BY <1>3 DEF Items
  <2>3. item.number \in Nat /\ item.number < Power(16, Width \div 2)
    <3>1. Power(2, 2 * Width) \in Nat
      BY WidthAssumption, PowersOfTwo
    <3> QED
      BY <2>2, <3>1, HexWidths DEF LongNumbers
  <2>4. /\ toHex(item.number, Width \div 2) = Hexadecimal(item.number, Width \div 2)
        /\ toHex(item.number, Width \div 2) \in Seq(Printed)
    BY <2>3, HexWidths, ToHexIsHexadecimal
  <2> QED
    BY <1>3, <2>1, <2>4
<1>4. CASE item.conversion \in {"u", "d"}
  <2>1. /\ Rendered(item) = Sign(item) \o Decimal(Magnitude(item))
        /\ Sign(item) \in Seq(Printed) /\ Decimal(Magnitude(item)) \in Seq(Printed)
    BY <1>4, MagnitudeOfItem, DecimalPrinted
  <2> QED
    BY <1>4, <2>1, ConcatProperties
<1>5. item.conversion \in {"none", "s", "u", "d", "x", "X"}
  BY DEF Items
<1> QED
  BY <1>1, <1>2, <1>3, <1>4, <1>5

(* What the first items say, one after the other.                          *)
LEMMA SaidInTurn ==
  ASSUME fmt \in Formats
  PROVE  /\ Len(fmt) \in Nat
         /\ \A i \in 1..Len(fmt) : fmt[i] \in Items
         /\ Said \in [0..Len(fmt) -> Seq(Printed)]
         /\ Said[0] = <<>>
         /\ \A i \in 1..Len(fmt) : Said[i] = Said[i - 1] \o Rendered(fmt[i])
<1> DEFINE N == Len(fmt)
           G == [i \in 1..N |-> [x \in Seq(Printed) |-> x \o Rendered(fmt[i])]]
<1>1. fmt \in Seq(Items)
  BY FormatsAssumption
<1>2. N \in Nat /\ \A i \in 1..N : fmt[i] \in Items
  BY <1>1, LenProperties, ElementOfSeq
<1> HIDE DEF N
<1>3. \A i \in 1..N : Rendered(fmt[i]) \in Seq(Printed)
  BY <1>2, RenderedItem
<1>4. \A i \in 1..N : \A x \in Seq(Printed) :
         G[i][x] = x \o Rendered(fmt[i]) /\ G[i][x] \in Seq(Printed)
  BY <1>3, ConcatProperties
<1> HIDE DEF G
<1>5. <<>> \in Seq(Printed)
  OBVIOUS
<1>6. PICK f \in [0..N -> Seq(Printed)] : Follows(f, N, <<>>, G)
  BY <1>2, <1>4, <1>5, Followed
<1>7. f = [i \in 0..N |-> IF i = 0 THEN <<>> ELSE f[i - 1] \o Rendered(fmt[i])]
  <2>1. ASSUME NEW i \in 1..N PROVE f[i] = f[i - 1] \o Rendered(fmt[i])
    <3>1. f[i - 1] \in Seq(Printed)
      BY <1>2
    <3>2. f[i] = G[i][f[i - 1]]
      BY <1>6 DEF Follows
    <3> QED
      BY <1>4, <3>1, <3>2
  <2>2. f[0] = <<>>
    BY <1>6 DEF Follows
  <2>3. \A i \in 0..N : i # 0 => i \in 1..N
    BY <1>2
  <2> QED
    BY <2>1, <2>2, <2>3
<1> DEFINE p == Said
<1>8. p = [i \in 0..N |-> IF i = 0 THEN <<>> ELSE p[i - 1] \o Rendered(fmt[i])]
  BY <1>7, Zenon DEF Said, N
<1> HIDE DEF p
<1>9. p[0] = <<>> /\ \A i \in 1..N : p[i] = p[i - 1] \o Rendered(fmt[i])
  <2>1. 0 \in 0..N /\ \A i \in 1..N : i \in 0..N /\ i # 0
    BY <1>2
  <2>2. \A i \in 0..N : p[i] = IF i = 0 THEN <<>> ELSE p[i - 1] \o Rendered(fmt[i])
    BY <1>8, Zenon
  <2> QED
    BY <2>1, <2>2, Zenon
<1>10. \A i \in 0..N : p[i] \in Seq(Printed)
  <2>1. \A i \in 1..N : p[i - 1] \in Seq(Printed) => p[i] = G[i][p[i - 1]]
    BY <1>4, <1>9
  <2>2. \A i \in 1..N : \A x \in Seq(Printed) : G[i][x] \in Seq(Printed)
    BY <1>4
  <2>3. FollowsIn(p, N, G, Seq(Printed))
    BY <1>5, <1>9, <2>1, <2>2 DEF FollowsIn
  <2> QED
    BY <1>2, <2>3, StaysIn
<1>11. p \in [0..N -> Seq(Printed)]
  BY <1>8, <1>10
<1> QED
  BY <1>2, <1>9, <1>11 DEF p, N
-----------------------------------------------------------------------------
(* The inductive invariant: what the formatter's variables hold between     *)
(* any two of its steps.                                                   *)

(* A number is being converted only for an item that has one.              *)
Converting ==
  ~Idle => at <= Len(fmt) /\ Item.conversion \in {"u", "d"} /\ returned = -1

(* The buffer holds what fits of the items done and, while a number is      *)
(* converted, of its sign.                                                 *)
SignPut == IF Idle THEN <<>> ELSE Sign(Item)

Buffered == buffer = Cut(Said[at - 1] \o SignPut)

Returned == returned # -1 => at = Len(fmt) + 1 /\ returned = Len(buffer)

PrintInv ==
  /\ fmt \in Formats
  /\ at \in 1..(Len(fmt) + 1)
  /\ val \in Numbers \cup {-1}
  /\ s \in 0..Width
  /\ digits \in Row
  /\ returned \in {-1} \cup 0..(Size - 1)
  /\ Converting
  /\ RowHoldsHighBits
  /\ Buffered
  /\ Returned

LEMMA ArgumentIsMagnitude == Argument = Magnitude(Item)
  BY DEF Argument, Magnitude

(* What the invariant says of the item that is next.                       *)
LEMMA NextItem ==
  ASSUME PrintInv, at <= Len(fmt)
  PROVE  /\ at \in 1..Len(fmt) /\ at - 1 \in 0..Len(fmt) /\ at + 1 \in 1..(Len(fmt) + 1)
         /\ (at + 1) - 1 = at
         /\ Item \in Items
         /\ Rendered(Item) \in Seq(Printed)
         /\ Said[at - 1] \in Seq(Printed)
         /\ Said[at] = Said[at - 1] \o Rendered(Item)
<1>1. fmt \in Formats /\ at \in 1..(Len(fmt) + 1)
  BY DEF PrintInv
<1>2. /\ Len(fmt) \in Nat
      /\ \A i \in 1..Len(fmt) : fmt[i] \in Items
      /\ Said \in [0..Len(fmt) -> Seq(Printed)]
      /\ \A i \in 1..Len(fmt) : Said[i] = Said[i - 1] \o Rendered(fmt[i])
  BY <1>1, SaidInTurn
<1>3. at \in 1..Len(fmt) /\ at - 1 \in 0..Len(fmt) /\ at + 1 \in 1..(Len(fmt) + 1)
      /\ (at + 1) - 1 = at
  BY <1>1, <1>2
<1>4. Item \in Items
  BY <1>2, <1>3 DEF Item
<1> QED
  BY <1>2, <1>3, <1>4, RenderedItem DEF Item

LEMMA BufferLength ==
  ASSUME PrintInv
  PROVE  Len(buffer) \in 0..(Size - 1)
<1>1. fmt \in Formats /\ at \in 1..(Len(fmt) + 1) /\ Converting
  BY DEF PrintInv
<1>2. Len(fmt) \in Nat /\ Said \in [0..Len(fmt) -> Seq(Printed)]
  BY <1>1, SaidInTurn
<1>3. Said[at - 1] \in Seq(Printed)
  BY <1>1, <1>2
<1>4. SignPut \in Seq(Printed)
  <2>1. CASE Idle
    BY <2>1 DEF SignPut
  <2>2. CASE ~Idle
    <3>1. at <= Len(fmt) /\ Item.conversion \in {"u", "d"}
      BY <1>1, <2>2 DEF Converting
    <3>2. Item \in Items
      BY <3>1, NextItem
    <3> QED
      BY <2>2, <3>1, <3>2, MagnitudeOfItem DEF SignPut
  <2> QED
    BY <2>1, <2>2
<1>5. Said[at - 1] \o SignPut \in Seq(Printed)
  BY <1>3, <1>4, ConcatProperties
<1> QED
  BY <1>5, CutText DEF PrintInv, Buffered

(* A row of zeros holds 0.                                                 *)
LEMMA ZeroRow == ZeroDigits \in Row /\ Sums(ZeroDigits)[NumDigits] = 0
<1> DEFINE T == {k \in Nat : k <= NumDigits => Sums(ZeroDigits)[k] = 0}
<1>1. NumDigits \in Nat /\ ZeroDigits \in Row
  BY RowAssumption DEF ZeroDigits, Row
<1>2. /\ Sums(ZeroDigits)[0] = 0
      /\ \A d \in 1..NumDigits :
           Sums(ZeroDigits)[d] = Sums(ZeroDigits)[d - 1] + ZeroDigits[d - 1] * Power(10, d - 1)
  BY <1>1, SumsOfRow, Zenon
<1>3. 0 \in T
  BY <1>2
<1>4. ASSUME NEW k \in Nat, k \in T PROVE k + 1 \in T
  <2> SUFFICES ASSUME k + 1 <= NumDigits PROVE Sums(ZeroDigits)[k + 1] = 0
    OBVIOUS
  <2>1. k + 1 \in 1..NumDigits /\ (k + 1) - 1 = k /\ k \in 0..(NumDigits - 1)
        /\ Sums(ZeroDigits)[k] = 0
    BY <1>1, <1>4
  <2>2. Sums(ZeroDigits)[k + 1] = Sums(ZeroDigits)[k] + ZeroDigits[k] * Power(10, k)
    BY <1>2, <2>1
  <2>3. ZeroDigits[k] = 0 /\ Power(10, k) \in Nat
    BY <2>1, PowersOfTen DEF ZeroDigits
  <2> QED
    BY <2>1, <2>2, <2>3
<1> HIDE DEF T
<1>5. Nat \subseteq T
  BY <1>3, <1>4, InductiveSet
<1> QED
  BY <1>1, <1>5 DEF T

LEMMA InitPrint == Init => PrintInv
<1> SUFFICES ASSUME Init PROVE PrintInv
  OBVIOUS
<1>1. fmt \in Formats /\ at = 1 /\ val = -1 /\ Idle /\ s = 0 /\ buffer = <<>> /\ returned = -1
      /\ digits = ZeroDigits
  BY DEF Init, Idle
<1>2. Len(fmt) \in Nat /\ Said[0] = <<>> /\ <<>> \in Seq(Printed)
  BY <1>1, SaidInTurn
<1>3. at \in 1..(Len(fmt) + 1) /\ s \in 0..Width
  BY <1>1, <1>2, WidthAssumption
<1>4. Buffered
  <2>1. Said[at - 1] \o SignPut = <<>>
    BY <1>1, <1>2 DEF SignPut
  <2> QED
    BY <1>1, <2>1, CutEmpty DEF Buffered
<1> QED
  BY <1>1, <1>3, <1>4, ZeroRow DEF PrintInv, Converting, RowHoldsHighBits, Returned

(* The item is put as a whole.                                             *)
LEMMA PutItemPrint ==
  ASSUME PrintInv, PutItem
  PROVE  PrintInv'
<1>1. /\ at <= Len(fmt) /\ returned = -1 /\ Idle /\ at' = at + 1
      /\ UNCHANGED <<fmt, val, digits, s, returned>>
  BY DEF PutItem, InItems
<1>2. /\ at \in 1..Len(fmt) /\ at - 1 \in 0..Len(fmt) /\ at + 1 \in 1..(Len(fmt) + 1)
      /\ (at + 1) - 1 = at
      /\ Item \in Items
      /\ Rendered(Item) \in Seq(Printed)
      /\ Said[at - 1] \in Seq(Printed)
      /\ Said[at] = Said[at - 1] \o Rendered(Item)
  BY <1>1, NextItem
<1>3. Put(Rendered(Item))
  <2>1. \/ Item.conversion \in {"none", "s"} /\ Put(Item.text)
        \/ Item.conversion = "x" /\ Put(toHex(Item.number, Width \div 4))
        \/ Item.conversion = "X" /\ Put(toHex(Item.number, Width \div 2))
    BY DEF PutItem
  <2> QED
    BY <2>1, <1>2, RenderedItem
<1>4. buffer = Cut(Said[at - 1])
  <2>1. Said[at - 1] \o <<>> = Said[at - 1]
    BY <1>2, ConcatEmptySeq
  <2> QED
    BY <1>1, <2>1 DEF PrintInv, Buffered, SignPut
<1>5. buffer' = Cut(Said[at]) /\ Said[at] \in Seq(Printed)
  BY <1>2, <1>3, <1>4, PutCuts
<1>6. Idle' /\ Said' = Said /\ SignPut' = <<>>
  BY <1>1 DEF Idle, Said, SignPut
<1>7. Buffered'
  <2>1. Said[at] \o <<>> = Said[at]
    BY <1>5, ConcatEmptySeq
  <2> QED
    BY <1>1, <1>2, <1>5, <1>6, <2>1 DEF Buffered
<1>8. Converting' /\ RowHoldsHighBits' /\ Returned'
  BY <1>1, <1>6 DEF Converting, RowHoldsHighBits, Returned
<1> QED
  BY <1>1, <1>2, <1>7, <1>8 DEF PrintInv

(* The conversion of a number starts, after its sign.                      *)
LEMMA StartNumberPrint ==
  ASSUME PrintInv, StartNumber
  PROVE  PrintInv'
<1>1. /\ at <= Len(fmt) /\ returned = -1 /\ Idle
      /\ digits' = ZeroDigits /\ s' = 0
      /\ UNCHANGED <<fmt, at, returned>>
  BY DEF StartNumber, InItems
<1>2. /\ at \in 1..Len(fmt)
      /\ Item \in Items
      /\ Said[at - 1] \in Seq(Printed)
  BY <1>1, NextItem
<1>3. Item.conversion \in {"u", "d"}
  BY DEF StartNumber
<1>4. /\ Magnitude(Item) \in Numbers
      /\ IsNegative(Item.number) => Negated(Item.number) = Power(2, Width) - Item.number
      /\ Sign(Item) \in Seq(Printed)
  BY <1>2, <1>3, MagnitudeOfItem
<1>5. val' = Magnitude(Item) /\ buffer' = Cut(Said[at - 1] \o Sign(Item))
  <2>1. buffer = Cut(Said[at - 1]) /\ Said[at - 1] \o <<>> = Said[at - 1]
    <3>1. Said[at - 1] \o <<>> = Said[at - 1]
      BY <1>2, ConcatEmptySeq
    <3> QED
      BY <1>1, <3>1 DEF PrintInv, Buffered, SignPut
  <2>2. CASE /\ Item.conversion = "u" \/ (Item.conversion = "d" /\ ~IsNegative(Item.number))
             /\ val' = Item.number
             /\ UNCHANGED buffer
    BY <2>1, <2>2 DEF Magnitude, Sign
  <2>3. CASE /\ Item.conversion = "d" /\ IsNegative(Item.number)
             /\ val' = Negated(Item.number)
             /\ Put(<<"-">>)
    <3>1. Sign(Item) = <<"-">> /\ Magnitude(Item) = Power(2, Width) - Item.number
      BY <2>3 DEF Sign, Magnitude
    <3>2. Put(Sign(Item))
      BY <2>3, <3>1
    <3>3. buffer' = Cut(Said[at - 1] \o Sign(Item))
      BY <1>2, <1>4, <2>1, <3>2, PutCuts
    <3> QED
      BY <2>3, <1>4, <3>1, <3>3
  <2> QED
    BY <2>2, <2>3 DEF StartNumber
<1>6. Magnitude(Item) \in Nat
  BY <1>4, NumbersNat
<1>7. ~Idle' /\ Said' = Said /\ Item' = Item
  BY <1>1, <1>5, <1>6 DEF Idle, Said, Item
<1>8. SignPut' = Sign(Item)
  BY <1>7 DEF SignPut, Sign
<1>9. Buffered'
  BY <1>1, <1>5, <1>7, <1>8 DEF Buffered
<1>10. RowHoldsHighBits'
  <2>1. RowValue' = 0
    <3>1. digits' \in Row => RowValue' = Sums(digits')[NumDigits]
      BY DEF RowValue, Sums
    <3> QED
      BY <3>1, <1>1, ZeroRow
  <2>2. Argument' = Magnitude(Item)
    BY <1>7 DEF Argument, Magnitude
  <2> DEFINE A == Magnitude(Item)
             W == Power(2, Width)
  <2>3. A \in Nat /\ A < W /\ W \in Nat /\ A = W * 0 + A
    BY <1>4, NumbersNat DEF Numbers
  <2> HIDE DEF A, W
  <2>4. A \div W = 0 /\ A % W = A
    BY <2>3, DivisionUnique
  <2>5. Power(2, 0) = 1 /\ A * 1 = A /\ Width - 0 = Width
    BY <2>3, PowerNext, WidthAssumption
  <2>6. RowValue' = A \div Power(2, Width - 0) /\ val' = (A * Power(2, 0)) % W
    BY <2>1, <2>4, <2>5, <1>5 DEF A, W
  <2> QED
    BY <2>2, <2>6, <1>1 DEF RowHoldsHighBits, A, W
<1>11. Converting' /\ Returned'
  BY <1>1, <1>3, <1>7 DEF Converting, Returned
<1> QED
  BY <1>1, <1>4, <1>5, <1>9, <1>10, <1>11, ZeroRow, WidthAssumption DEF PrintInv

(* A pass takes one more bit of the number into the row, and nothing is     *)
(* lost from the highest digit: the number fits the row.                   *)
LEMMA ShiftPrint ==
  ASSUME PrintInv, Shift
  PROVE  PrintInv'
<1> DEFINE A   == Argument
           W   == Power(2, Width)
           top == val \div Power(2, Width - 1)
           n   == A \div Power(2, Width - (s + 1))
<1>1. /\ ~Idle /\ s < Width /\ s' = s + 1 /\ val' = (2 * val) % W
      /\ UNCHANGED <<fmt, at, buffer, returned>>
  BY DEF Shift
<1>2. digits' = Doubled(digits, top)
  BY DEF Shift, Doubled, Overflow
<1>3. /\ at <= Len(fmt) /\ Item.conversion \in {"u", "d"} /\ returned = -1
      /\ digits \in Row /\ s \in 0..(Width - 1)
      /\ RowValue = A \div Power(2, Width - s)
      /\ val = (A * Power(2, s)) % W
  <2>1. s \in 0..Width /\ Width \in Nat
    BY WidthAssumption DEF PrintInv
  <2>2. s \in 0..(Width - 1)
    BY <1>1, <2>1
  <2> QED
    BY <1>1, <2>2 DEF PrintInv, Converting, RowHoldsHighBits
<1>4. A \in Numbers
  <2>1. Item \in Items
    BY <1>3, NextItem
  <2> QED
    BY <2>1, <1>3, MagnitudeOfItem, ArgumentIsMagnitude
<1> HIDE DEF A
<1>5. /\ top \in 0..1
      /\ val' = (A * Power(2, s + 1)) % W /\ val' \in Numbers
      /\ n = 2 * (A \div Power(2, Width - s)) + top
  BY <1>1, <1>3, <1>4, NextBit
<1>6. n \in Nat /\ n < Power(10, NumDigits)
  <2>1. s + 1 \in 0..Width /\ Width - (s + 1) \in Nat /\ Width \in Nat
    BY <1>3, WidthAssumption
  <2>2. /\ Power(2, Width - (s + 1)) \in Nat /\ Power(2, Width - (s + 1)) > 0
        /\ W \in Nat /\ Power(10, NumDigits) \in Nat /\ W <= Power(10, NumDigits)
    BY <2>1, PowersOfTwo, RowAssumption, PowersOfTen
  <2>3. A \in Nat /\ A < W
    BY <1>4, <2>2 DEF Numbers
  <2>4. /\ n \in Nat
        /\ A % Power(2, Width - (s + 1)) \in Nat
        /\ A = Power(2, Width - (s + 1)) * n + (A % Power(2, Width - (s + 1)))
    BY <2>2, <2>3, QuotientAndRemainder
  <2>5. Power(2, Width - (s + 1)) * n >= n
    <3> DEFINE B == Power(2, Width - (s + 1))
    <3>1. B \in Nat /\ B > 0
      BY <2>2
    <3> HIDE DEF B, n
    <3>2. (B - 1) * n >= 0
      BY <3>1, <2>4
    <3>3. B * n >= n
      BY <3>1, <3>2, <2>4
    <3> QED
      BY <3>3 DEF B, n
  <2> HIDE DEF n
  <2>6. n <= A
    <3> DEFINE P == Power(2, Width - (s + 1)) * n
               R == A % Power(2, Width - (s + 1))
    <3>1. P >= n /\ R \in Nat /\ A = P + R /\ P \in Nat
      BY <2>2, <2>4, <2>5
    <3> HIDE DEF P, R
    <3> QED
      BY <3>1, <2>4
  <2> QED
    BY <2>2, <2>3, <2>4, <2>6
<1>7. digits' \in Row
  BY <1>2, <1>3, <1>5, DoubledRow
<1>8. Sums(digits')[NumDigits] = n
  <2> DEFINE o == Overflow(digits, top)[NumDigits]
             x == Sums(digits')[NumDigits]
  <2>1. NumDigits \in Nat /\ NumDigits \in 0..NumDigits
    BY RowAssumption
  <2>2. x + o * Power(10, NumDigits) = 2 * Sums(digits)[NumDigits] + top
    BY <1>2, <1>3, <1>5, <2>1, DoubledSum
  <2>3. Sums(digits)[NumDigits] = A \div Power(2, Width - s)
    BY <1>3, RowValueIsSum
  <2>4. x + o * Power(10, NumDigits) = n
    BY <2>2, <2>3, <1>5
  <2>5. o \in 0..1
    <3>1. Overflow(digits, top) \in [0..NumDigits -> 0..1]
      BY <1>3, <1>5, OverflowOfRow
    <3> QED
      BY <2>1, <3>1
  <2>6. x \in Nat
    BY <2>1, <1>7, SumsBelow
  <2>7. Power(10, NumDigits) \in Nat
    BY <2>1, PowersOfTen
  <2> HIDE DEF o, x, n
  <2>8. CASE o = 0
    BY <2>4, <2>6, <2>7, <2>8 DEF x
  <2>9. CASE o = 1
    BY <2>4, <2>6, <2>7, <2>9, <1>6
  <2> QED
    BY <2>5, <2>8, <2>9
<1>9. /\ ~Idle' /\ Said' = Said /\ Item' = Item /\ SignPut' = SignPut
  <2>1. ~Idle' /\ Said' = Said /\ Item' = Item
    BY <1>1, <1>5, NumbersNat DEF Idle, Said, Item
  <2> QED
    BY <2>1, <1>1 DEF SignPut, Sign
<1>10. RowHoldsHighBits'
  <2>1. RowValue' = Sums(digits')[NumDigits]
    BY DEF RowValue, Sums
  <2>2. Argument' = A
    BY <1>9 DEF Argument, A
  <2>3. RowValue' = A \div Power(2, Width - (s + 1))
    BY <2>1, <1>8
  <2> QED
    BY <2>2, <2>3, <1>1, <1>5 DEF RowHoldsHighBits
<1>11. Buffered' /\ Converting' /\ Returned'
  BY <1>1, <1>3, <1>9 DEF PrintInv, Buffered, Converting, Returned
<1>12. s' \in 0..Width
  BY <1>1, <1>3, WidthAssumption
<1> QED
  BY <1>1, <1>5, <1>7, <1>10, <1>11, <1>12 DEF PrintInv

(* The row is printed when every bit is in it.                             *)
LEMMA PutNumberPrint ==
  ASSUME PrintInv, PutNumber
  PROVE  PrintInv'
<1>1. /\ ~Idle /\ s = Width /\ Put(Stripped) /\ val' = -1 /\ at' = at + 1
      /\ UNCHANGED <<fmt, digits, s, returned>>
  BY DEF PutNumber
<1>2. at <= Len(fmt) /\ Item.conversion \in {"u", "d"} /\ returned = -1 /\ digits \in Row
  BY <1>1 DEF PrintInv, Converting
<1>3. /\ at \in 1..Len(fmt) /\ at - 1 \in 0..Len(fmt) /\ at + 1 \in 1..(Len(fmt) + 1)
      /\ (at + 1) - 1 = at
      /\ Item \in Items
      /\ Said[at - 1] \in Seq(Printed)
      /\ Said[at] = Said[at - 1] \o Rendered(Item)
      /\ Rendered(Item) \in Seq(Printed)
  BY <1>2, NextItem
<1>4. /\ Magnitude(Item) \in Numbers
      /\ Rendered(Item) = Sign(Item) \o Decimal(Magnitude(Item))
      /\ Sign(Item) \in Seq(Printed)
  BY <1>2, <1>3, MagnitudeOfItem
<1>5. Sums(digits)[NumDigits] = Magnitude(Item)
  <2>1. Sums(digits)[NumDigits] = Argument \div Power(2, Width - Width)
    BY <1>1, <1>2, RowValueIsSum DEF PrintInv, RowHoldsHighBits
  <2>2. Width - Width = 0 /\ Power(2, 0) = 1
    BY WidthAssumption, PowerNext
  <2>3. Magnitude(Item) \in Nat
    BY <1>4, NumbersNat
  <2>4. Magnitude(Item) \div 1 = Magnitude(Item)
    BY <2>3
  <2> QED
    BY <2>1, <2>2, <2>4, ArgumentIsMagnitude
<1>6. Stripped = Decimal(Magnitude(Item)) /\ Stripped \in Seq(Printed)
  BY <1>2, <1>5, StrippedIsDecimal
<1>7. buffer = Cut(Said[at - 1] \o Sign(Item))
  BY <1>1 DEF PrintInv, Buffered, SignPut
<1>8. Said[at - 1] \o Sign(Item) \in Seq(Printed)
  BY <1>3, <1>4, ConcatProperties
<1>9. buffer' = Cut((Said[at - 1] \o Sign(Item)) \o Stripped)
  BY <1>1, <1>6, <1>7, <1>8, PutCuts
<1>10. (Said[at - 1] \o Sign(Item)) \o Stripped = Said[at]
  <2> DEFINE before == Said[at - 1]
             sign   == Sign(Item)
             number == Stripped
  <2>1. before \in Seq(Printed) /\ sign \in Seq(Printed) /\ number \in Seq(Printed)
    BY <1>3, <1>4, <1>6
  <2>2. Said[at] = before \o (sign \o number)
    BY <1>3, <1>4, <1>6
  <2> HIDE DEF before, sign, number
  <2>3. (before \o sign) \o number = before \o (sign \o number)
    BY <2>1, ConcatAssociative
  <2> QED
    BY <2>2, <2>3 DEF before, sign, number
<1>11. Said[at] \in Seq(Printed)
  BY <1>3, ConcatProperties
<1>12. Idle' /\ Said' = Said /\ SignPut' = <<>>
  BY <1>1 DEF Idle, Said, SignPut
<1>13. Buffered'
  <2>1. Said[at] \o <<>> = Said[at]
    BY <1>11, ConcatEmptySeq
  <2> QED
    BY <1>1, <1>3, <1>9, <1>10, <1>12, <2>1 DEF Buffered
<1>14. Converting' /\ RowHoldsHighBits' /\ Returned'
  BY <1>1, <1>2, <1>12 DEF Converting, RowHoldsHighBits, Returned
<1> QED
  BY <1>1, <1>3, <1>13, <1>14 DEF PrintInv

(* The end is marked, and the length returned.                             *)
LEMMA TerminatePrint ==
  ASSUME PrintInv, Terminate
  PROVE  PrintInv'
<1>1. /\ returned = -1 /\ at > Len(fmt) /\ returned' = Len(buffer)
      /\ UNCHANGED <<fmt, at, val, digits, s, buffer>>
  BY DEF Terminate
<1>2. fmt \in Formats /\ at \in 1..(Len(fmt) + 1) /\ Len(fmt) \in Nat
  BY SaidInTurn DEF PrintInv
<1>3. Idle /\ at = Len(fmt) + 1
  BY <1>1, <1>2 DEF PrintInv, Converting
<1>4. Len(buffer) \in 0..(Size - 1)
  BY BufferLength
<1>5. Idle' /\ Said' = Said /\ SignPut' = SignPut
  BY <1>1, <1>3 DEF Idle, Said, SignPut
<1>6. Buffered'
  BY <1>1, <1>5 DEF PrintInv, Buffered
<1>7. Converting' /\ RowHoldsHighBits' /\ Returned'
  BY <1>1, <1>3, <1>5 DEF Converting, RowHoldsHighBits, Returned
<1> QED
  BY <1>1, <1>4, <1>6, <1>7 DEF PrintInv

(* The invariant holds in every state of print.                            *)
THEOREM PrintInvariance == Spec => []PrintInv
<1>1. Init => PrintInv
  BY InitPrint
<1>2. PrintInv /\ [Next]_vars => PrintInv'
  <2> SUFFICES ASSUME PrintInv, [Next]_vars PROVE PrintInv'
    OBVIOUS
  <2>1. CASE PutItem
    BY <2>1, PutItemPrint
  <2>2. CASE StartNumber
    BY <2>2, StartNumberPrint
  <2>3. CASE Shift
    BY <2>3, ShiftPrint
  <2>4. CASE PutNumber
    BY <2>4, PutNumberPrint
  <2>5. CASE Terminate
    BY <2>5, TerminatePrint
  <2>6. CASE UNCHANGED vars
    <3>1. UNCHANGED <<fmt, at, val, digits, s, buffer, returned>>
      BY <2>6 DEF vars
    <3>2. Idle' = Idle /\ Said' = Said /\ Item' = Item /\ RowValue' = RowValue
      BY <3>1 DEF Idle, Said, Item, RowValue
    <3>3. SignPut' = SignPut /\ Argument' = Argument
      BY <3>2 DEF SignPut, Sign, Argument
    <3> QED
      BY <3>1, <3>2, <3>3 DEF PrintInv, Converting, Buffered, RowHoldsHighBits, Returned
  <2> QED
    BY <2>1, <2>2, <2>3, <2>4, <2>5, <2>6 DEF Next, Step, Finished
<1> QED
  BY <1>1, <1>2, PTL DEF Spec

(* Every variable stays in its range, the terminating 0 in the buffer.      *)
THEOREM TypeCorrect == Spec => []TypeOK
<1>1. PrintInv => TypeOK
  BY BufferLength DEF PrintInv, TypeOK, Row
<1> QED
  BY <1>1, PrintInvariance, PTL

(* The row holds the bits of the number that were shifted into it.          *)
THEOREM RowExact == Spec => []RowHoldsHighBits
<1>1. PrintInv => RowHoldsHighBits
  BY DEF PrintInv
<1> QED
  BY <1>1, PrintInvariance, PTL

(* What is printed is what the format says, cut off at the buffer's end.    *)
THEOREM PrintExact == Spec => []PrintsExactly
<1>1. PrintInv => PrintsExactly
  <2> SUFFICES ASSUME PrintInv, returned # -1
               PROVE  /\ buffer = SubSeq(Said[Len(fmt)], 1, Min({Len(Said[Len(fmt)]), Size - 1}))
                      /\ returned = Len(buffer)
    BY DEF PrintsExactly
  <2>1. at = Len(fmt) + 1 /\ returned = Len(buffer) /\ fmt \in Formats
    BY DEF PrintInv, Returned
  <2>2. Len(fmt) \in Nat /\ Said[Len(fmt)] \in Seq(Printed)
    BY <2>1, SaidInTurn
  <2>3. Idle /\ at - 1 = Len(fmt)
    BY <2>1, <2>2 DEF PrintInv, Converting
  <2>4. buffer = Cut(Said[Len(fmt)])
    <3>1. Said[Len(fmt)] \o <<>> = Said[Len(fmt)]
      BY <2>2, ConcatEmptySeq
    <3> QED
      BY <2>3, <3>1 DEF PrintInv, Buffered, SignPut
  <2> QED
    BY <2>1, <2>2, <2>4, CutText
<1> QED
  BY <1>1, PrintInvariance, PTL
=============================================================================
