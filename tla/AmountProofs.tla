---------------------------- MODULE AmountProofs ----------------------------
(***************************************************************************)
(* The conversions of amounts (module Amounts) lose nothing: for any text, *)
(* any number of decimals and any width of the integer, the 128 bits and   *)
(* 38 decimals of the code among them.  The recursive functions that read  *)
(* digits are followed digit by digit (module Recursion).                  *)
(***************************************************************************)
EXTENDS Session, Recursion

-----------------------------------------------------------------------------
(***************************************************************************)
(* Powers of ten.                                                          *)
(***************************************************************************)
Powers(k, f) == f = [i \in 0..k |-> IF i = 0 THEN 1 ELSE f[i - 1] * 10]
powers(k)    == CHOOSE f : Powers(k, f)

LEMMA PowersExist ==
  ASSUME NEW k \in Nat
  PROVE  Powers(k, powers(k)) /\ pow10(k) = powers(k)[k]
<1> DEFINE body == [i \in 1..k |-> [n \in Nat |-> n * 10]]
<1>1. body \in [1..k -> [Nat -> Nat]]  OBVIOUS
<1>2. PICK f \in [0..k -> Nat] : Rounds(k, 1, body, f)
  <2> HIDE DEF body
  <2>1. QED  BY <1>1, LoopExists
<1>3. \A i \in 1..k : f[i] = f[i - 1] * 10
  <2> TAKE i \in 1..k
  <2>1. body[i][f[i - 1]] = f[i - 1] * 10  OBVIOUS
  <2> HIDE DEF body
  <2>2. QED  BY <1>2, <2>1 DEF Rounds
<1>4. Powers(k, f)  BY <1>2, <1>3 DEF Powers, Rounds
<1>5. Powers(k, powers(k))  BY <1>4 DEF powers
<1>6. pow10(k) = powers(k)[k]  BY DEF pow10, powers, Powers
<1>7. QED  BY <1>5, <1>6

\* The powers are those of any other table of them.
LEMMA PowersAgree ==
  ASSUME NEW k \in Nat, NEW i \in 0..k
  PROVE  powers(k)[i] = pow10(i)
<1> DEFINE S == {j \in 0..i : powers(k)[j] = powers(i)[j]}
<1>1. Powers(k, powers(k)) /\ Powers(i, powers(i)) /\ pow10(i) = powers(i)[i]
  BY PowersExist
<1>2. powers(k)[0] = 1 /\ powers(i)[0] = 1  BY <1>1 DEF Powers
<1>3. \A j \in 1..i : powers(k)[j] = powers(k)[j - 1] * 10 /\ powers(i)[j] = powers(i)[j - 1] * 10
  BY <1>1 DEF Powers
<1>4. 0 \in S  BY <1>2
<1>5. ASSUME NEW j \in 0..(i - 1), j \in S  PROVE j + 1 \in S
  <2>1. j + 1 \in 1..i /\ (j + 1) - 1 = j /\ powers(k)[j] = powers(i)[j]  BY <1>5
  <2>2. QED  BY <1>3, <2>1
<1> HIDE DEF S
<1>6. \A j \in 0..(i - 1) : j \in S => j + 1 \in S  BY <1>5
<1>7. 0..i \subseteq S  BY <1>4, <1>6, UpTo
<1>8. QED  BY <1>1, <1>7 DEF S

LEMMA PowersOfTen ==
  /\ pow10(0) = 1
  /\ \A k \in Nat : pow10(k + 1) = pow10(k) * 10
<1>1. pow10(0) = 1  BY PowersExist DEF Powers
<1>2. ASSUME NEW k \in Nat  PROVE pow10(k + 1) = pow10(k) * 10
  <2>1. Powers(k + 1, powers(k + 1)) /\ pow10(k + 1) = powers(k + 1)[k + 1]  BY PowersExist
  <2>2. powers(k + 1)[k + 1] = powers(k + 1)[k] * 10  BY <2>1 DEF Powers
  <2>3. powers(k + 1)[k] = pow10(k)  BY PowersAgree
  <2>4. QED  BY <2>1, <2>2, <2>3
<1>3. QED  BY <1>1, <1>2

LEMMA PowersPositive == \A k \in Nat : pow10(k) \in Nat \ {0}
<1> TAKE k \in Nat
<1> DEFINE S == {j \in 0..k : pow10(j) \in Nat \ {0}}
<1>1. 0 \in S  BY PowersOfTen
<1>2. ASSUME NEW j \in 0..(k - 1), j \in S  PROVE j + 1 \in S
  <2>1. pow10(j + 1) = pow10(j) * 10 /\ pow10(j) \in Nat \ {0}  BY <1>2, PowersOfTen
  <2>2. QED  BY <2>1
<1> HIDE DEF S
<1>3. \A j \in 0..(k - 1) : j \in S => j + 1 \in S  BY <1>2
<1>4. 0..k \subseteq S  BY <1>1, <1>3, UpTo
<1>5. QED  BY <1>4 DEF S

LEMMA PowersMultiply ==
  ASSUME NEW a \in Nat, NEW b \in Nat
  PROVE  pow10(a + b) = pow10(a) * pow10(b)
<1> DEFINE S == {j \in 0..b : pow10(a + j) = pow10(a) * pow10(j)}
<1>1. 0 \in S  BY PowersOfTen, PowersPositive
<1>2. ASSUME NEW j \in 0..(b - 1), j \in S  PROVE j + 1 \in S
  <2>1. pow10(j + 1) = pow10(j) * 10 /\ pow10((a + j) + 1) = pow10(a + j) * 10
    BY PowersOfTen
  <2>2. pow10(a + j) = pow10(a) * pow10(j)  BY <1>2
  <2>3. pow10(a) \in Nat /\ pow10(j) \in Nat  BY PowersPositive
  <2>4. pow10(a) * (pow10(j) * 10) = (pow10(a) * pow10(j)) * 10  BY <2>3
  <2>5. a + (j + 1) = (a + j) + 1  OBVIOUS
  <2>6. QED  BY <2>1, <2>2, <2>4, <2>5
<1> HIDE DEF S
<1>3. \A j \in 0..(b - 1) : j \in S => j + 1 \in S  BY <1>2
<1>4. 0..b \subseteq S  BY <1>1, <1>3, UpTo
<1>5. QED  BY <1>4 DEF S

LEMMA PowersGrow ==
  ASSUME NEW a \in Nat, NEW b \in Nat, a <= b
  PROVE  pow10(a) <= pow10(b)
<1>1. pow10(b) = pow10(a) * pow10(b - a)
  <2>1. b - a \in Nat /\ a + (b - a) = b  OBVIOUS
  <2>2. QED  BY <2>1, PowersMultiply
<1>2. pow10(a) \in Nat \ {0} /\ pow10(b - a) \in Nat \ {0}  BY PowersPositive
<1>3. QED  BY <1>1, <1>2

-----------------------------------------------------------------------------
(***************************************************************************)
(* Numbers.                                                                *)
(***************************************************************************)
Digits == Seq(0..9)

\* f is the value of every beginning of s.
Reads(s, f) == /\ f \in [0..Len(s) -> Nat] /\ f[0] = 0
               /\ \A i \in 1..Len(s) : f[i] = f[i - 1] * 10 + s[i]

Values(s, f) == f = [i \in 0..Len(s) |-> IF i = 0 THEN 0 ELSE f[i - 1] * 10 + s[i]]
values(s)    == CHOOSE f : Values(s, f)

LEMMA ValuesExist ==
  ASSUME NEW s \in Digits
  PROVE  \E f : Reads(s, f)
<1> DEFINE n == Len(s)
           body == [i \in 1..n |-> [v \in Nat |-> v * 10 + s[i]]]
<1>1. n \in Nat /\ \A i \in 1..n : s[i] \in 0..9  BY DEF Digits
<1>2. 0 \in Nat /\ body \in [1..n -> [Nat -> Nat]]  BY <1>1
<1>3. PICK f \in [0..n -> Nat] : Rounds(n, 0, body, f)
  <2> HIDE DEF body, n
  <2>1. QED  BY <1>1, <1>2, LoopExists
<1>4. \A i \in 1..n : f[i] = f[i - 1] * 10 + s[i]
  <2> TAKE i \in 1..n
  <2>1. f[i - 1] \in Nat  BY <1>1
  <2>2. body[i][f[i - 1]] = f[i - 1] * 10 + s[i]  BY <2>1
  <2> HIDE DEF body
  <2>3. QED  BY <1>3, <2>2 DEF Rounds
<1>5. Reads(s, f)  BY <1>3, <1>4 DEF Reads, Rounds
<1>6. QED  BY <1>5

LEMMA ReadsIsTheValue ==
  ASSUME NEW s \in Digits, NEW f, Reads(s, f)
  PROVE  number(s) = f[Len(s)]
<1> DEFINE n == Len(s)
           g == values(s)
           S == {i \in 0..n : g[i] = f[i]}
<1>1. n \in Nat  BY DEF Digits
<1>2. Values(s, f)  BY DEF Reads, Values
<1>3. Values(s, values(s))  BY <1>2 DEF values
<1>4. number(s) = g[n]  BY DEF number, values, Values
<1>5. g[0] = 0 /\ \A i \in 1..n : g[i] = g[i - 1] * 10 + s[i]  BY <1>1, <1>3 DEF Values
<1> HIDE DEF g
<1>6. 0 \in S  BY <1>1, <1>5 DEF Reads
<1>7. ASSUME NEW i \in 0..(n - 1), i \in S  PROVE i + 1 \in S
  <2>1. i + 1 \in 1..n /\ (i + 1) - 1 = i /\ g[i] = f[i]  BY <1>1, <1>7
  <2>2. QED  BY <1>5, <2>1 DEF Reads
<1> HIDE DEF S, n
<1>8. \A i \in 0..(n - 1) : i \in S => i + 1 \in S  BY <1>7
<1>9. 0..n \subseteq S  BY <1>1, <1>6, <1>8, UpTo
<1>10. QED  BY <1>1, <1>4, <1>9 DEF S, n

LEMMA NumberTyped == \A s \in Digits : number(s) \in Nat
<1> TAKE s \in Digits
<1>1. PICK f : Reads(s, f)  BY ValuesExist
<1>2. Len(s) \in 0..Len(s)  BY DEF Digits
<1>3. QED  BY <1>1, <1>2, ReadsIsTheValue DEF Reads

\* Zeros at the end multiply.
LEMMA ZerosAppended ==
  ASSUME NEW s \in Digits, NEW k \in Nat
  PROVE  s \o zeros(k) \in Digits /\ number(s \o zeros(k)) = number(s) * pow10(k)
<1> DEFINE n == Len(s)
           t == s \o zeros(k)
<1>1. PICK f : Reads(s, f)  BY ValuesExist
<1>2. n \in Nat /\ number(s) = f[n]  BY <1>1, ReadsIsTheValue DEF Digits
<1>3. zeros(k) \in Digits /\ Len(zeros(k)) = k  BY DEF zeros, Digits
<1>4. t \in Digits /\ Len(t) = n + k  BY <1>3 DEF Digits
<1>5. /\ \A i \in 1..n : t[i] = s[i]
      /\ \A i \in (n + 1)..(n + k) : t[i] = 0
  BY <1>2, <1>3 DEF Digits, zeros
<1> HIDE DEF t, n
<1> DEFINE g == [i \in 0..(n + k) |-> IF i <= n THEN f[i] ELSE f[n] * pow10(i - n)]
<1>6. f \in [0..n -> Nat] /\ f[0] = 0 /\ \A i \in 1..n : f[i] = f[i - 1] * 10 + s[i]
  BY <1>1 DEF Reads, n
<1>7. g \in [0..Len(t) -> Nat]
  <2>1. ASSUME NEW i \in 0..(n + k)  PROVE g[i] \in Nat
    <3>1. CASE i <= n  BY <1>2, <1>6, <3>1
    <3>2. CASE i > n
      <4>1. i - n \in Nat  BY <1>2, <3>2
      <4>2. f[n] \in Nat /\ pow10(i - n) \in Nat  BY <1>2, <1>6, <4>1, PowersPositive
      <4>3. g[i] = f[n] * pow10(i - n)  BY <1>2, <3>2
      <4>4. QED  BY <4>2, <4>3
    <3>3. QED  BY <1>2, <3>1, <3>2
  <2>2. QED  BY <1>4, <2>1
<1>8. g[0] = 0  BY <1>2, <1>6
<1>9. ASSUME NEW i \in 1..(n + k)  PROVE g[i] = g[i - 1] * 10 + t[i]
  <2>1. CASE i <= n
    <3>1. g[i] = f[i] /\ g[i - 1] = f[i - 1]  BY <1>2, <2>1
    <3>2. QED  BY <1>2, <1>5, <1>6, <2>1, <3>1
  <2>2. CASE i > n
    <3>1. g[i - 1] = f[n] * pow10((i - 1) - n)
      <4>1. CASE i - 1 = n
        <5>1. g[i - 1] = f[n] /\ (i - 1) - n = 0  BY <1>2, <4>1
        <5>2. QED  BY <1>2, <1>6, <5>1, PowersOfTen
      <4>2. CASE i - 1 # n  BY <1>2, <2>2, <4>2
      <4>3. QED  BY <4>1, <4>2
    <3>2. (i - 1) - n \in Nat /\ ((i - 1) - n) + 1 = i - n  BY <1>2, <2>2
    <3>3. pow10(i - n) = pow10((i - 1) - n) * 10 /\ pow10((i - 1) - n) \in Nat
      BY <3>2, PowersOfTen, PowersPositive
    <3>4. g[i] = f[n] * pow10(i - n) /\ t[i] = 0 /\ f[n] \in Nat
      BY <1>2, <1>5, <1>6, <2>2
    <3> HIDE DEF g
    <3>5. f[n] * (pow10((i - 1) - n) * 10) = (f[n] * pow10((i - 1) - n)) * 10
      BY <3>3, <3>4
    <3>6. QED  BY <3>1, <3>3, <3>4, <3>5
  <2>3. QED  BY <1>2, <2>1, <2>2
<1>10. Reads(t, g)
  <2> HIDE DEF g
  <2>1. QED  BY <1>4, <1>7, <1>8, <1>9 DEF Reads
<1>11. number(t) = g[n + k]  BY <1>4, <1>10, ReadsIsTheValue
<1>12. g[n + k] = f[n] * pow10(k)
  <2>1. CASE k = 0  BY <1>2, <1>6, <2>1, PowersOfTen
  <2>2. CASE k # 0
    <3>1. (n + k) - n = k /\ n + k > n  BY <1>2, <2>2
    <3>2. QED  BY <1>2, <3>1
  <2>3. QED  BY <2>1, <2>2
<1>13. QED  BY <1>2, <1>4, <1>11, <1>12 DEF t

\* Zeros at the beginning do not count.
LEMMA ZerosSkipped ==
  ASSUME NEW s \in Digits, NEW z \in 0..Len(s), \A i \in 1..z : s[i] = 0
  PROVE  LET t == SubSeq(s, z + 1, Len(s))
         IN  t \in Digits /\ Len(t) = Len(s) - z /\ number(t) = number(s)
<1> DEFINE n == Len(s)
           t == SubSeq(s, z + 1, n)
<1>1. PICK f : Reads(s, f)  BY ValuesExist
<1>2. n \in Nat /\ number(s) = f[n]  BY <1>1, ReadsIsTheValue DEF Digits
<1>3. t \in Digits /\ Len(t) = n - z  BY <1>2 DEF Digits
<1>4. \A i \in 1..(n - z) : t[i] = s[i + z]
  BY <1>2 DEF Digits
<1> HIDE DEF t
<1>5. f \in [0..n -> Nat] /\ f[0] = 0 /\ \A i \in 1..n : f[i] = f[i - 1] * 10 + s[i]
  BY <1>1 DEF Reads
<1> HIDE DEF n
<1>6. f[z] = 0
  <2> DEFINE S == {i \in 0..z : f[i] = 0}
  <2>1. 0 \in S  BY <1>5
  <2>2. ASSUME NEW i \in 0..(z - 1), i \in S  PROVE i + 1 \in S
    <3>1. i + 1 \in 1..n /\ i + 1 \in 1..z /\ (i + 1) - 1 = i /\ f[i] = 0
      BY <1>2, <2>2 DEF n
    <3>2. QED  BY <1>5, <3>1
  <2> HIDE DEF S
  <2>3. \A i \in 0..(z - 1) : i \in S => i + 1 \in S  BY <2>2
  <2>4. z \in Nat  BY <1>2
  <2>5. 0..z \subseteq S  BY <2>1, <2>3, <2>4, UpTo
  <2>6. QED  BY <2>4, <2>5 DEF S
<1> DEFINE g == [i \in 0..(n - z) |-> f[i + z]]
<1>7. z \in 0..n  BY DEF n
<1>8. g \in [0..Len(t) -> Nat] /\ g[0] = 0  BY <1>2, <1>3, <1>5, <1>6, <1>7
<1>9. ASSUME NEW i \in 1..(n - z)  PROVE g[i] = g[i - 1] * 10 + t[i]
  <2>1. i + z \in 1..n /\ (i - 1) + z = (i + z) - 1  BY <1>2, <1>7
  <2>2. g[i] = f[i + z] /\ g[i - 1] = f[(i + z) - 1]  BY <1>2, <1>7, <2>1
  <2>3. QED  BY <1>4, <1>5, <2>1, <2>2
<1>10. Reads(t, g)
  <2> HIDE DEF g
  <2>1. QED  BY <1>3, <1>8, <1>9 DEF Reads
<1>11. number(t) = g[n - z]  BY <1>3, <1>10, ReadsIsTheValue
<1>12. g[n - z] = f[n]  BY <1>2, <1>7
<1>13. QED  BY <1>2, <1>3, <1>11, <1>12 DEF t, n

LEMMA AllZero ==
  ASSUME NEW s \in Digits, all_zero(s)
  PROVE  number(s) = 0
<1>1. PICK f : Reads(s, f)  BY ValuesExist
<1>2. Len(s) \in 0..Len(s) /\ \A i \in 1..Len(s) : s[i] = 0  BY DEF Digits, all_zero
<1> DEFINE t == SubSeq(s, Len(s) + 1, Len(s))
<1>3. number(t) = number(s) /\ t \in Digits /\ Len(t) = 0  BY <1>2, ZerosSkipped
<1> HIDE DEF t
<1>4. PICK g : Reads(t, g)  BY <1>3, ValuesExist
<1>5. number(t) = g[0]  BY <1>3, <1>4, ReadsIsTheValue
<1>6. QED  BY <1>3, <1>4, <1>5 DEF Reads

\* The digits of two texts, and of three, in a row.
LEMMA JoinedTwo ==
  ASSUME NEW a \in Digits, NEW b \in Digits
  PROVE  /\ a \o b \in Digits /\ Len(a) \in Nat /\ Len(b) \in Nat
         /\ Len(a \o b) = Len(a) + Len(b)
         /\ \A i \in 1..Len(a) : (a \o b)[i] = a[i]
         /\ \A i \in 1..Len(b) : (a \o b)[Len(a) + i] = b[i]
  BY DEF Digits

LEMMA Joined ==
  ASSUME NEW a \in Digits, NEW b \in Digits, NEW c \in Digits
  PROVE  /\ a \o b \o c \in Digits /\ Len(a \o b \o c) = Len(a) + Len(b) + Len(c)
         /\ \A i \in 1..Len(a) : (a \o b \o c)[i] = a[i]
         /\ \A i \in 1..Len(b) : (a \o b \o c)[Len(a) + i] = b[i]
         /\ \A i \in 1..Len(c) : (a \o b \o c)[Len(a) + Len(b) + i] = c[i]
<1> DEFINE ab == a \o b
<1>1. /\ ab \in Digits /\ Len(ab) = Len(a) + Len(b) /\ Len(a) \in Nat /\ Len(b) \in Nat
      /\ \A i \in 1..Len(a) : ab[i] = a[i]
      /\ \A i \in 1..Len(b) : ab[Len(a) + i] = b[i]
  BY JoinedTwo
<1> HIDE DEF ab
<1>2. /\ ab \o c \in Digits /\ Len(ab \o c) = Len(ab) + Len(c) /\ Len(c) \in Nat
      /\ \A i \in 1..Len(ab) : (ab \o c)[i] = ab[i]
      /\ \A i \in 1..Len(c) : (ab \o c)[Len(ab) + i] = c[i]
  BY <1>1, JoinedTwo
<1>3. \A i \in 1..Len(a) : i \in 1..Len(ab)  BY <1>1
<1>4. \A i \in 1..Len(b) : Len(a) + i \in 1..Len(ab)  BY <1>1
<1>5. QED  BY <1>1, <1>2, <1>3, <1>4 DEF ab

\* The least of a set of numbers is in it.
LEMMA LeastIsMember ==
  ASSUME NEW S \in SUBSET Nat, S # {}
  PROVE  Min(S) \in S /\ \A y \in S : Min(S) <= y
<1>1. PICK x \in S : \A y \in S : ~(<<y, x>> \in OpToRel(<, Nat))
  BY NatLessThanWellFounded, WFMin
<1>2. \A y \in S : y < x => <<y, x>> \in OpToRel(<, Nat)
  BY DEF OpToRel
<1>3. \A y \in S : ~(y < x)  BY <1>1, <1>2, Zenon
<1>4. \A y \in S : x <= y  BY <1>3
<1>5. QED  BY <1>4 DEF Min

\* What is left of a text of digits has its value, and is empty for a zero.
LEMMA TrimmedStart ==
  ASSUME NEW s \in Digits
  PROVE  /\ trim_start(s) \in Digits /\ number(trim_start(s)) = number(s)
         /\ trim_start(s) = <<>> <=> all_zero(s)
<1> DEFINE I == {i \in 1..Len(s) : NotZero(s[i])}
           least == Min(I)
<1>1. CASE all_zero(s)
  <2>1. trim_start(s) = <<>>  BY <1>1 DEF trim_start
  <2>2. <<>> \in Digits /\ all_zero(<<>>)  BY DEF Digits, all_zero
  <2>3. QED  BY <1>1, <2>1, <2>2, AllZero
<1>2. CASE ~all_zero(s)
  <2>1. I # {} /\ I \in SUBSET Nat  BY <1>2 DEF all_zero, NotZero, Digits
  <2>2. SelectInSeq(s, NotZero) = least  BY <2>1 DEF SelectInSeq
  <2>3. least \in I /\ \A i \in I : least <= i
    <3> HIDE DEF I
    <3>1. QED  BY <2>1, LeastIsMember
  <2> HIDE DEF least
  <2>4. least \in 1..Len(s) /\ Len(s) \in Nat  BY <2>3 DEF Digits
  <2>5. \A i \in 1..(least - 1) : s[i] = 0
    <3> TAKE i \in 1..(least - 1)
    <3>1. i \in 1..Len(s) /\ ~(least <= i)  BY <2>4
    <3>2. i \notin I  BY <2>3, <3>1
    <3>3. QED  BY <3>1, <3>2 DEF NotZero
  <2> DEFINE t == SubSeq(s, (least - 1) + 1, Len(s))
  <2>6. least - 1 \in 0..Len(s) /\ (least - 1) + 1 = least  BY <2>4
  <2>7. t \in Digits /\ Len(t) = Len(s) - (least - 1) /\ number(t) = number(s)
    BY <2>5, <2>6, ZerosSkipped
  <2>8. t = SubSeq(s, least, Len(s))  BY <2>6
  <2>9. trim_start(s) = t  BY <1>2, <2>2, <2>8 DEF trim_start
  <2> HIDE DEF t
  <2>10. Len(t) # 0  BY <2>4, <2>7
  <2>11. t # <<>>  BY <2>10
  <2>12. QED  BY <1>2, <2>7, <2>9, <2>11
<1>3. QED  BY <1>1, <1>2

-----------------------------------------------------------------------------
(***************************************************************************)
(* Parsing and formatting.                                                 *)
(***************************************************************************)
\* The digits a text is read as, and their value.
spread(t, d) == t.whole \o t.fraction \o zeros(d - Len(t.fraction))

LEMMA TextFields ==
  ASSUME NEW t \in AmountText
  PROVE  /\ t.whole \in Digits /\ t.fraction \in Digits
         /\ Len(t.fraction) \in Nat
         /\ t.whole \o t.fraction \in Digits
<1>1. t.whole \in Digits /\ t.fraction \in Digits  BY DEF AmountText, Digits
<1>2. QED  BY <1>1 DEF Digits

LEMMA SpreadValue ==
  ASSUME NEW t \in AmountText, NEW d \in Nat, Len(t.fraction) <= d
  PROVE  /\ spread(t, d) \in Digits
         /\ t.whole \o t.fraction \in Digits
         /\ number(spread(t, d)) = number(t.whole \o t.fraction) * pow10(d - Len(t.fraction))
<1> DEFINE w == t.whole \o t.fraction
<1>1. w \in Digits /\ Len(t.fraction) \in Nat  BY TextFields
<1>2. d - Len(t.fraction) \in Nat  BY <1>1
<1> HIDE DEF w
<1>3. QED  BY <1>1, <1>2, ZerosAppended DEF spread, w

\* A well-formed text is the number its digits spell, if that number fits.
LEMMA Parsed ==
  ASSUME NEW t \in AmountText, NEW d \in Nat, d <= MAX_DECIMALS, well_formed(t),
         Len(t.fraction) <= d
  PROVE  parse_amount(t, d) = IF number(spread(t, d)) <= U128Max
                                THEN Ok(number(spread(t, d))) ELSE bad_amount
<1> DEFINE s == spread(t, d)
           rest == trim_start(s)
           v == number(s)
<1>1. s \in Digits  BY SpreadValue
<1>2. rest \in Digits /\ number(rest) = v /\ (rest = <<>> <=> all_zero(s))
  BY <1>1, TrimmedStart
<1>3. Len(t.fraction) \in Nat /\ MAX_DECIMALS \in Nat /\ U128Max \in Nat
  BY TextFields, AmountAssumption
<1>4. parse_amount(t, d) = IF ~parse_u128(rest).ok /\ all_zero(s) THEN Ok(0)
                           ELSE parse_u128(rest)
  BY <1>3 DEF parse_amount, spread
<1> HIDE DEF s, rest
<1>5. CASE rest = <<>>
  <2>1. parse_u128(rest) = bad_amount /\ ~bad_amount.ok  BY <1>5 DEF parse_u128, bad_amount
  <2>2. v = 0  BY <1>1, <1>2, <1>5, AllZero
  <2>3. QED  BY <1>2, <1>3, <1>4, <1>5, <2>1, <2>2 DEF s
<1>6. CASE rest # <<>>
  <2>1. parse_u128(rest) = IF v <= U128Max THEN Ok(v) ELSE bad_amount
    BY <1>2, <1>6 DEF parse_u128
  <2>2. parse_amount(t, d) = parse_u128(rest)  BY <1>2, <1>4, <1>6
  <2>3. QED  BY <2>1, <2>2 DEF s
<1>7. QED  BY <1>5, <1>6

\* parse_amount: what is accepted is exactly what was written, and what is
\* refused is ill-formed, too precise or too large.
THEOREM ParsedAmountsAreExact ==
  ASSUME NEW t \in AmountText, NEW d \in Nat
  PROVE  LET parsed == parse_amount(t, d)
             written == number(t.whole \o t.fraction) * pow10(d)
             places  == pow10(Len(t.fraction))
         IN  /\ parsed.ok => /\ well_formed(t) /\ parsed.value \in 0..U128Max
                             /\ parsed.value * places = written
             /\ ~parsed.ok => \/ ~well_formed(t) \/ written > U128Max * places
                              \/ d > MAX_DECIMALS \/ Len(t.fraction) > d
<1> DEFINE n == number(t.whole \o t.fraction)
           v == number(spread(t, d))
           k == Len(t.fraction)
<1>1. k \in Nat /\ MAX_DECIMALS \in Nat /\ U128Max \in Nat
  BY TextFields, AmountAssumption
<1>2. ~bad_amount.ok /\ \A x : Ok(x).ok /\ Ok(x).value = x  BY DEF bad_amount, Ok
<1>3. CASE d > MAX_DECIMALS \/ ~well_formed(t) \/ k > d
  <2>1. parse_amount(t, d) = bad_amount  BY <1>3 DEF parse_amount
  <2>2. QED  BY <1>2, <1>3, <2>1
<1>4. CASE ~(d > MAX_DECIMALS \/ ~well_formed(t) \/ k > d)
  <2>1. d <= MAX_DECIMALS /\ well_formed(t) /\ k <= d  BY <1>1, <1>4
  <2>2. v = n * pow10(d - k) /\ n \in Nat /\ v \in Nat  BY <2>1, SpreadValue, NumberTyped
  <2>3. pow10(d) = pow10(d - k) * pow10(k)
    <3>1. d - k \in Nat /\ (d - k) + k = d  BY <1>1, <2>1
    <3> HIDE DEF k
    <3>2. QED  BY <1>1, <3>1, PowersMultiply
  <2>4. pow10(d - k) \in Nat /\ pow10(k) \in Nat \ {0}
    <3>1. d - k \in Nat  BY <1>1, <2>1
    <3> HIDE DEF k
    <3>2. QED  BY <1>1, <3>1, PowersPositive
  <2>5. v * pow10(k) = n * pow10(d)
    <3> HIDE DEF n, v, k
    <3>1. (n * pow10(d - k)) * pow10(k) = n * (pow10(d - k) * pow10(k))  BY <2>2, <2>4
    <3>2. QED  BY <2>2, <2>3, <3>1
  <2>6. parse_amount(t, d) = IF v <= U128Max THEN Ok(v) ELSE bad_amount
    BY <2>1, Parsed
  <2> HIDE DEF n, v, k
  <2>7. CASE v <= U128Max
    <3>1. parse_amount(t, d) = Ok(v) /\ v \in 0..U128Max  BY <1>1, <2>2, <2>6, <2>7
    <3>2. QED  BY <1>2, <2>1, <2>5, <3>1 DEF n, k
  <2>8. CASE v > U128Max
    <3>1. parse_amount(t, d) = bad_amount  BY <1>1, <2>2, <2>6, <2>8
    <3>2. v * pow10(k) > U128Max * pow10(k)
      <4> DEFINE p == pow10(k)
      <4>1. p \in Nat \ {0} /\ v \in Nat /\ U128Max \in Nat  BY <1>1, <2>2, <2>4
      <4> HIDE DEF p
      <4>2. v * p > U128Max * p  BY <2>8, <4>1
      <4>3. QED  BY <4>2 DEF p
    <3>3. QED  BY <1>2, <2>5, <3>1, <3>2 DEF n, k
  <2>9. QED  BY <1>1, <2>2, <2>7, <2>8
<1>5. QED  BY <1>3, <1>4

\* The decimal digits of a number, at least as many as asked for, spell it.
LEMMA PaddedSpells ==
  ASSUME NEW n \in 0..U128Max, NEW width \in Nat
  PROVE  /\ padded(n, width) \in Digits /\ Len(padded(n, width)) >= width
         /\ Len(padded(n, width)) >= 1
         /\ number(padded(n, width)) = n
<1> DEFINE Fits(k) == n < pow10(k) /\ (k = 1 \/ n >= pow10(k - 1))
           few == CHOOSE k \in 1..(MAX_DECIMALS + 1) : Fits(k)
           len == IF few < width THEN width ELSE few
           digits == [i \in 1..len |-> (n \div pow10(len - i)) % 10]
<1>1. U128Max \in Nat /\ MAX_DECIMALS \in Nat /\ U128Max < pow10(MAX_DECIMALS + 1) /\ n \in Nat
  BY AmountAssumption
<1>2. few \in 1..(MAX_DECIMALS + 1) /\ n < pow10(few)
  <2> DEFINE S == {k \in Nat \ {0} : n < pow10(k)}
             k == Min(S)
  <2>1. S \in SUBSET Nat  OBVIOUS
  <2>2. MAX_DECIMALS + 1 \in S
    <3>1. pow10(MAX_DECIMALS + 1) \in Nat  BY <1>1, PowersPositive
    <3>2. QED  BY <1>1, <3>1
  <2>3. k \in S /\ \A j \in S : k <= j
    <3> HIDE DEF S
    <3>1. QED  BY <2>1, <2>2, LeastIsMember
  <2> HIDE DEF k
  <2>4. k \in 1..(MAX_DECIMALS + 1)  BY <1>1, <2>2, <2>3
  <2>5. k = 1 \/ n >= pow10(k - 1)
    <3>1. SUFFICES ASSUME k # 1  PROVE n >= pow10(k - 1)
      OBVIOUS
    <3>2. k - 1 \in Nat \ {0} /\ ~(k <= k - 1)  BY <2>4, <3>1
    <3>3. k - 1 \notin S  BY <2>3, <3>2
    <3>4. pow10(k - 1) \in Nat  BY <3>2, PowersPositive
    <3>5. QED  BY <1>1, <3>2, <3>3, <3>4
  <2>6. \E j \in 1..(MAX_DECIMALS + 1) : Fits(j)  BY <2>3, <2>4, <2>5
  <2>7. QED  BY <2>6
<1>3. padded(n, width) = digits  BY DEF padded
<1> HIDE DEF few
<1>4. len \in Nat \ {0} /\ few <= len /\ len >= width  BY <1>1, <1>2
<1>5. n < pow10(len)
  <2>1. few \in Nat /\ len \in Nat  BY <1>1, <1>2, <1>4
  <2> HIDE DEF len
  <2>2. pow10(few) <= pow10(len)  BY <1>4, <2>1, PowersGrow
  <2>3. pow10(few) \in Nat /\ pow10(len) \in Nat  BY <2>1, PowersPositive
  <2>4. QED  BY <1>1, <1>2, <2>2, <2>3
<1> HIDE DEF len
<1>6. ASSUME NEW i \in 0..len  PROVE pow10(len - i) \in Nat \ {0} /\ n \div pow10(len - i) \in Nat
  <2>1. len - i \in Nat  BY <1>4
  <2>2. pow10(len - i) \in Nat \ {0}  BY <2>1, PowersPositive
  <2>3. QED  BY <1>1, <2>2
<1>7. \A i \in 1..len : digits[i] \in 0..9
  <2> TAKE i \in 1..len
  <2>1. i \in 0..len  BY <1>4
  <2>2. n \div pow10(len - i) \in Nat  BY <1>6, <2>1
  <2>3. QED  BY <2>2
<1>8. digits \in Digits /\ Len(digits) = len  BY <1>4, <1>7 DEF Digits
<1> DEFINE f == [i \in 0..len |-> n \div pow10(len - i)]
<1>9. f \in [0..len -> Nat]  BY <1>6
<1>10. f[0] = 0
  <2>1. f[0] = n \div pow10(len)  BY <1>4
  <2>2. pow10(len) \in Nat \ {0}  BY <1>4, PowersPositive
  <2>3. QED  BY <1>1, <1>5, <2>1, <2>2
<1>11. ASSUME NEW i \in 1..len  PROVE f[i] = f[i - 1] * 10 + digits[i]
  <2> DEFINE p == pow10(len - i)
             x == n \div p
  <2>1. p \in Nat \ {0} /\ x \in Nat
    <3>1. i \in 0..len  BY <1>4
    <3>2. QED  BY <1>6, <3>1
  <2>2. pow10(len - (i - 1)) = p * 10
    <3>1. len - i \in Nat /\ len - (i - 1) = (len - i) + 1  BY <1>4
    <3>2. QED  BY <3>1, PowersOfTen
  <2>3. f[i] = x /\ f[i - 1] = n \div pow10(len - (i - 1)) /\ digits[i] = x % 10
    BY <1>4
  <2> HIDE DEF p
  <2>4. n \div (p * 10) = (n \div p) \div 10  BY <1>1, <2>1
  <2> HIDE DEF x, f, digits
  <2>5. f[i - 1] = x \div 10  BY <2>2, <2>3, <2>4 DEF x
  <2>6. x = (x \div 10) * 10 + (x % 10)  BY <2>1
  <2>7. QED  BY <2>3, <2>5, <2>6
<1>12. f[len] = n
  <2>1. f[len] = n \div pow10(0)  BY <1>4
  <2> HIDE DEF f
  <2>2. n \div 1 = n  BY <1>1
  <2>3. QED  BY <2>1, <2>2, PowersOfTen
<1> HIDE DEF digits, f
<1>13. Reads(digits, f)  BY <1>8, <1>9, <1>10, <1>11 DEF Reads
<1>14. number(digits) = n  BY <1>8, <1>12, <1>13, ReadsIsTheValue
<1>15. QED  BY <1>3, <1>4, <1>8, <1>14

\* What is stripped from the end is zeros.
LEMMA TrimmedEnd ==
  ASSUME NEW s \in Digits
  PROVE  \E z \in 0..Len(s) : /\ trim_end(s) = SubSeq(s, 1, z)
                              /\ \A i \in (z + 1)..Len(s) : s[i] = 0
<1> DEFINE n == Len(s)
           I == {i \in 1..n : NotZero(s[i])}
<1>1. n \in Nat  BY DEF Digits
<1>2. CASE I = {}
  <2>1. SelectLastInSeq(s, NotZero) = 0  BY <1>2 DEF SelectLastInSeq
  <2>2. trim_end(s) = SubSeq(s, 1, 0)  BY <2>1 DEF trim_end
  <2>3. \A i \in (0 + 1)..n : s[i] = 0  BY <1>2 DEF NotZero
  <2>4. QED  BY <1>1, <2>2, <2>3
<1>3. CASE I # {}
  <2> DEFINE T == {n - i : i \in I}
             last == n - Min(T)
  <2>1. T \in SUBSET Nat /\ T # {}  BY <1>1, <1>3
  <2>2. Min(T) \in T /\ \A y \in T : Min(T) <= y
    <3> HIDE DEF T
    <3>1. QED  BY <2>1, LeastIsMember
  <2>3. last \in I /\ \A i \in I : last >= i
    <3> HIDE DEF I
    <3>1. I \subseteq 1..n  BY DEF I
    <3>2. PICK j \in I : Min(T) = n - j  BY <2>2
    <3>3. last = j  BY <1>1, <3>1, <3>2
    <3>4. \A i \in I : Min(T) <= n - i  BY <2>2
    <3>5. \A i \in I : j >= i  BY <1>1, <3>1, <3>2, <3>4
    <3> HIDE DEF last
    <3>6. QED  BY <3>3, <3>5
  <2> HIDE DEF last
  <2>4. Max(I) = last
    <3>1. \E x \in I : \A y \in I : x >= y  BY <2>3
    <3>2. Max(I) \in I /\ \A y \in I : Max(I) >= y  BY <3>1 DEF Max
    <3>3. QED  BY <1>1, <2>3, <3>2
  <2>5. SelectLastInSeq(s, NotZero) = last  BY <1>3, <2>4 DEF SelectLastInSeq
  <2>6. trim_end(s) = SubSeq(s, 1, last)  BY <2>5 DEF trim_end
  <2>7. \A i \in (last + 1)..n : s[i] = 0
    <3> TAKE i \in (last + 1)..n
    <3>1. i \in 1..n /\ ~(last >= i)  BY <1>1, <2>3
    <3>2. i \notin I  BY <2>3, <3>1
    <3>3. QED  BY <3>1, <3>2 DEF NotZero
  <2>8. last \in 0..n  BY <1>1, <2>3
  <2>9. QED  BY <2>6, <2>7, <2>8
<1>4. QED  BY <1>2, <1>3

\* What format_amount renders is well formed and spells the plancks.
LEMMA FormattedSpells ==
  ASSUME NEW n \in 0..U128Max, NEW d \in Nat
  PROVE  /\ format_amount(n, d) \in AmountText /\ well_formed(format_amount(n, d))
         /\ Len(format_amount(n, d).fraction) <= d
         /\ number(spread(format_amount(n, d), d)) = n
<1> DEFINE digits == padded(n, d + 1)
           L == Len(digits)
           cut == L - d
           last == SubSeq(digits, cut + 1, L)
           fraction == trim_end(last)
           whole == SubSeq(digits, 1, cut)
           t == format_amount(n, d)
<1>1. d \in Nat /\ d + 1 \in Nat
  OBVIOUS
<1>2. digits \in Digits /\ L >= d + 1 /\ number(digits) = n  BY <1>1, PaddedSpells
<1>3. t = Text("", whole, fraction # <<>>, fraction, FALSE)  BY DEF format_amount
<1> HIDE DEF digits
<1>4. L \in Nat /\ cut \in 1..L /\ cut + d = L  BY <1>1, <1>2 DEF Digits
<1>5. last \in Digits /\ Len(last) = d /\ \A i \in 1..d : last[i] = digits[cut + i]
  BY <1>1, <1>2, <1>4 DEF Digits
<1>6. whole \in Digits /\ Len(whole) = cut /\ \A i \in 1..cut : whole[i] = digits[i]
  BY <1>1, <1>2, <1>4 DEF Digits
<1> HIDE DEF last, whole
<1>7. PICK z \in 0..d : fraction = SubSeq(last, 1, z) /\ \A i \in (z + 1)..d : last[i] = 0
  BY <1>5, TrimmedEnd
<1>8. fraction \in Digits /\ Len(fraction) = z /\ \A i \in 1..z : fraction[i] = last[i]
  BY <1>1, <1>5, <1>7 DEF Digits
<1> HIDE DEF fraction, cut, L
<1>9. whole # <<>>
  <2>1. Len(whole) # 0  BY <1>4, <1>6
  <2>2. QED  BY <2>1
<1>10. t.whole = whole /\ t.fraction = fraction /\ t \in AmountText /\ well_formed(t)
  <2> DEFINE point == fraction # <<>>
  <2>1. point \in BOOLEAN  OBVIOUS
  <2>2. t = Text("", whole, point, fraction, FALSE)  BY <1>3
  <2> HIDE DEF point, t
  <2>3. t.sign = "" /\ t.whole = whole /\ t.fraction = fraction /\ ~t.junk
    BY <2>2 DEF Text
  <2>4. t.point <=> fraction # <<>>
    <3>1. t.point = point  BY <2>2, Zenon DEF Text
    <3>2. QED  BY <3>1, Zenon DEF point
  <2>5. t \in AmountText  BY <1>6, <1>8, <2>1, <2>2 DEF Text, AmountText, Digits
  <2>6. well_formed(t)  BY <1>9, <2>3, <2>4 DEF well_formed
  <2>7. QED  BY <2>3, <2>5, <2>6
<1> HIDE DEF t
<1>12. spread(t, d) = digits
  <2> DEFINE s == whole \o fraction \o zeros(d - z)
  <2>1. d - z \in Nat /\ Len(zeros(d - z)) = d - z /\ zeros(d - z) \in Digits
        /\ \A i \in 1..(d - z) : zeros(d - z)[i] = 0
    BY <1>1, <1>7 DEF zeros, Digits
  <2>2. /\ s \in Digits /\ Len(s) = cut + z + (d - z)
        /\ \A i \in 1..cut : s[i] = whole[i]
        /\ \A i \in 1..z : s[cut + i] = fraction[i]
        /\ \A i \in 1..(d - z) : s[cut + z + i] = 0
    <3> DEFINE tail == zeros(d - z)
    <3>1. tail \in Digits /\ Len(tail) = d - z /\ \A i \in 1..(d - z) : tail[i] = 0
      BY <2>1
    <3> HIDE DEF tail
    <3>2. /\ whole \o fraction \o tail \in Digits
          /\ Len(whole \o fraction \o tail) = cut + z + (d - z)
          /\ \A i \in 1..cut : (whole \o fraction \o tail)[i] = whole[i]
          /\ \A i \in 1..z : (whole \o fraction \o tail)[cut + i] = fraction[i]
          /\ \A i \in 1..(d - z) : (whole \o fraction \o tail)[cut + z + i] = tail[i]
      <4>1. Len(whole) = cut /\ Len(fraction) = z /\ Len(tail) = d - z  BY <1>6, <1>8, <3>1
      <4>2. /\ whole \o fraction \o tail \in Digits
            /\ Len(whole \o fraction \o tail) = Len(whole) + Len(fraction) + Len(tail)
            /\ \A i \in 1..Len(whole) : (whole \o fraction \o tail)[i] = whole[i]
            /\ \A i \in 1..Len(fraction) :
                 (whole \o fraction \o tail)[Len(whole) + i] = fraction[i]
            /\ \A i \in 1..Len(tail) :
                 (whole \o fraction \o tail)[Len(whole) + Len(fraction) + i] = tail[i]
        <5>1. whole \in Digits /\ fraction \in Digits /\ tail \in Digits  BY <1>6, <1>8, <3>1
        <5>2. QED  BY <5>1, Joined
      <4>3. QED  BY <4>1, <4>2
    <3>3. QED  BY <3>1, <3>2 DEF tail
  <2> HIDE DEF s
  <2>3. ASSUME NEW i \in 1..L  PROVE s[i] = digits[i]
    <3>1. CASE i <= cut  BY <1>4, <1>6, <2>2, <3>1
    <3>2. CASE i > cut /\ i <= cut + z
      <4>1. i - cut \in 1..z /\ i - cut \in 1..d /\ cut + (i - cut) = i
        BY <1>1, <1>4, <1>7, <3>2
      <4>2. s[i] = fraction[i - cut]  BY <2>2, <4>1
      <4>3. QED  BY <1>5, <1>8, <4>1, <4>2
    <3>3. CASE i > cut + z
      <4>1. i - cut \in (z + 1)..d /\ i - cut \in 1..d /\ cut + (i - cut) = i
        BY <1>1, <1>4, <1>7, <3>3
      <4>2. i - (cut + z) \in 1..(d - z) /\ cut + z + (i - (cut + z)) = i
        BY <1>1, <1>4, <1>7, <3>3
      <4>3. s[i] = 0  BY <2>2, <4>2
      <4>4. QED  BY <1>5, <1>7, <4>1, <4>3
    <3>4. QED  BY <1>4, <1>7, <3>1, <3>2, <3>3
  <2>4. s = digits
    <3>1. Len(digits) = L /\ digits \in Digits  BY <1>2 DEF L
    <3>2. Len(s) = L  BY <1>1, <1>4, <1>7, <2>2
    <3>3. QED  BY <2>2, <2>3, <3>1, <3>2 DEF Digits
  <2>5. QED  BY <1>8, <1>10, <2>4 DEF spread, s
<1>13. Len(t.fraction) <= d  BY <1>1, <1>7, <1>8, <1>10
<1>14. number(spread(t, d)) = n  BY <1>2, <1>12
<1>15. QED  BY <1>10, <1>13, <1>14 DEF t

\* format_amount loses nothing: whatever the decimals, what it renders is exactly
\* the plancks, the zero amount and a zero fraction too.  It parses back to them
\* up to the decimals a u128 holds, and is refused by parse_amount beyond.
THEOREM FormattedAmountsParseBack ==
  ASSUME NEW n \in 0..U128Max, NEW d \in Nat
  PROVE  LET t == format_amount(n, d)
         IN  /\ well_formed(t)
             /\ n * pow10(Len(t.fraction)) = number(t.whole \o t.fraction) * pow10(d)
             /\ parse_amount(t, d) = IF d <= MAX_DECIMALS THEN Ok(n) ELSE bad_amount
<1> DEFINE t == format_amount(n, d)
           k == Len(t.fraction)
           w == number(t.whole \o t.fraction)
<1>1. t \in AmountText /\ well_formed(t) /\ k <= d /\ number(spread(t, d)) = n
  BY FormattedSpells
<1>2. MAX_DECIMALS \in Nat /\ U128Max \in Nat /\ n \in Nat /\ n <= U128Max
  BY AmountAssumption
<1> HIDE DEF t
<1>3. k \in Nat /\ d - k \in Nat /\ (d - k) + k = d  BY <1>1, TextFields
<1>4. w \in Nat /\ n = w * pow10(d - k)  BY <1>1, SpreadValue, NumberTyped
<1> HIDE DEF k, w
<1>5. pow10(d) = pow10(d - k) * pow10(k)  BY <1>3, PowersMultiply
<1>6. pow10(d - k) \in Nat /\ pow10(k) \in Nat  BY <1>3, PowersPositive
<1>7. n * pow10(k) = w * pow10(d)
  <2> DEFINE a == pow10(d - k)
             b == pow10(k)
  <2>1. a \in Nat /\ b \in Nat /\ w \in Nat  BY <1>4, <1>6
  <2>2. n = w * a /\ pow10(d) = a * b  BY <1>4, <1>5
  <2> HIDE DEF a, b
  <2>3. (w * a) * b = w * (a * b)  BY <2>1
  <2>4. n * b = w * pow10(d)  BY <2>2, <2>3
  <2>5. QED  BY <2>4 DEF b
<1>8. CASE d <= MAX_DECIMALS
  <2>1. parse_amount(t, d) = Ok(n)  BY <1>1, <1>2, <1>8, Parsed DEF k
  <2>2. QED  BY <1>1, <1>7, <1>8, <2>1 DEF t, k, w
<1>9. CASE d > MAX_DECIMALS
  <2>1. parse_amount(t, d) = bad_amount  BY <1>9 DEF parse_amount
  <2>2. ~(d <= MAX_DECIMALS)  BY <1>2, <1>9
  <2>3. QED  BY <1>1, <1>7, <2>1, <2>2 DEF t, k, w
<1>10. QED  BY <1>2, <1>8, <1>9

\* One token is the amount "1", up to the decimals a u128 holds.
LEMMA OneTokenIsOne ==
  ASSUME NEW d \in Nat, d <= MAX_DECIMALS, NEW one \in one_token(d)
  PROVE  /\ parse_amount(Text("", <<1>>, FALSE, <<>>, FALSE), d).ok
         /\ one = parse_amount(Text("", <<1>>, FALSE, <<>>, FALSE), d)
<1> DEFINE t == Text("", <<1>>, FALSE, <<>>, FALSE)
<1>1. t.sign = "" /\ t.whole = <<1>> /\ ~t.point /\ t.fraction = <<>> /\ ~t.junk
  BY DEF Text
<1>2. t \in AmountText  BY DEF Text, AmountText
<1> HIDE DEF t
<1>3. well_formed(t) /\ Len(t.fraction) = 0
  <2>1. <<1>> # <<>> /\ Len(<<>>) = 0  OBVIOUS
  <2>2. t.whole # <<>> /\ Len(t.fraction) = 0  BY <1>1, <2>1, Zenon
  <2>3. QED  BY <1>1, <2>2 DEF well_formed
<1>4. MAX_DECIMALS \in Nat /\ U128Max \in Nat /\ pow10(MAX_DECIMALS) <= U128Max
  BY AmountAssumption
<1>6. QED
  <2> DEFINE w == t.whole \o t.fraction
  <2>1. w = <<1>> /\ w \in Digits
    <3>1. <<1>> \o <<>> = <<1>> /\ <<1>> \in Seq(0..9)  OBVIOUS
    <3>2. w = <<1>> \o <<>>  BY <1>1
    <3>3. QED  BY <3>1, <3>2 DEF Digits
  <2>2. number(w) = 1
    <3> DEFINE f == [i \in 0..1 |-> i]
    <3>1. Len(w) = 1 /\ w[1] = 1  BY <2>1
    <3> HIDE DEF w
    <3>2. Reads(w, f)  BY <3>1 DEF Reads
    <3>3. number(w) = f[1]  BY <2>1, <3>1, <3>2, ReadsIsTheValue
    <3>4. QED  BY <3>3
  <2>3. number(spread(t, d)) = 1 * pow10(d)
    <3>1. number(spread(t, d)) = number(w) * pow10(d - 0)  BY <1>2, <1>3, SpreadValue
    <3>2. QED  BY <2>2, <3>1
  <2>4. pow10(d) \in Nat /\ pow10(MAX_DECIMALS) \in Nat /\ pow10(d) <= pow10(MAX_DECIMALS)
    BY <1>4, PowersPositive, PowersGrow
  <2>5. number(spread(t, d)) = pow10(d) /\ pow10(d) <= U128Max  BY <1>4, <2>3, <2>4
  <2>6. parse_amount(t, d) = Ok(pow10(d))
    BY <1>2, <1>3, <2>5, Parsed
  <2>7. one_token(d) = {Ok(pow10(d))}  BY <2>5 DEF one_token
  <2>8. Ok(pow10(d)).ok  BY DEF Ok
  <2>9. QED  BY <2>6, <2>7, <2>8 DEF t

-----------------------------------------------------------------------------
LEMMA DecimalsTyped == Decimals \subseteq Nat
<1> SUFFICES ASSUME NEW ed \in Deposits, NEW declared \in Declared
             PROVE  decimals_effective(ed, declared) \in Nat
  BY DEF Decimals
<1>1. /\ declared = Undeclared \/ declared \in Nat
      /\ ED_DECIMAL_OFFSET \in Nat /\ MAX_DECIMALS \in Nat
  BY SessionAssumption, AmountAssumption
<1> DEFINE exponents == {e \in 0..MAX_DECIMALS : pow10(e) = ed}
           exponent  == CHOOSE e \in exponents : TRUE
<1>2. exponents # {} => exponent \in exponents  OBVIOUS
<1>3. exponents \subseteq Nat  BY <1>1
<1>4. decimals_effective(ed, declared) =
        IF exponents # {} THEN as_u8(exponent + ED_DECIMAL_OFFSET)
        ELSE IF declared = Undeclared THEN 0 ELSE as_u8(declared)
  BY DEF decimals_effective
<1> HIDE DEF exponents, exponent
<1>8. \A n \in Nat : as_u8(n) \in Nat  BY DEF as_u8
<1>5. CASE exponents = {}  BY <1>1, <1>4, <1>5, <1>8
<1>6. CASE exponents # {}
  <2>1. exponent \in Nat  BY <1>2, <1>3, <1>6
  <2>2. decimals_effective(ed, declared) = as_u8(exponent + ED_DECIMAL_OFFSET)  BY <1>4, <1>6
  <2>3. exponent + ED_DECIMAL_OFFSET \in Nat  BY <1>1, <2>1
  <2>4. QED  BY <1>8, <2>2, <2>3
<1>7. QED  BY <1>5, <1>6

LEMMA AmountStep ==
  ASSUME AmountsAreExact, [Next]_vars
  PROVE  AmountsAreExact'
<1>1. ASSUME NEW t \in AmountTexts, NEW d \in Decimals, ParsesAmount(t, d)
      PROVE  AmountsAreExact'
  <2>1. t \in AmountText /\ d \in Nat  BY SessionAssumption, DecimalsTyped
  <2>2. out' = [op |-> "amount", text |-> t, decimals |-> d, result |-> parse_amount(t, d)]
    BY <1>1 DEF ParsesAmount, Converts
  <2> DEFINE parsed  == parse_amount(t, d)
             n       == number(t.whole \o t.fraction)
             written == n * pow10(d)
             places  == pow10(Len(t.fraction))
  <2>3. /\ parsed.ok => /\ well_formed(t) /\ parsed.value \in 0..U128Max
                        /\ parsed.value * places = written
        /\ ~parsed.ok => \/ ~well_formed(t) \/ written > U128Max * places
                         \/ d > MAX_DECIMALS \/ Len(t.fraction) > d
    BY <2>1, ParsedAmountsAreExact
  <2>4. written \in Int /\ U128Max * places \in Int /\ U128Max \in Nat
    <3>1. n \in Nat  BY <2>1, TextFields, NumberTyped
    <3>2. Len(t.fraction) \in Nat  BY <2>1, TextFields
    <3>3. pow10(d) \in Nat /\ places \in Nat  BY <2>1, <3>2, PowersPositive
    <3>4. U128Max \in Nat  BY AmountAssumption
    <3> HIDE DEF n, places
    <3>5. QED  BY <3>1, <3>3, <3>4
  <2>5. out'.op = "amount" /\ out'.text = t /\ out'.decimals = d /\ out'.result = parsed
    BY <2>2
  <2> HIDE DEF parsed
  <2>6. written > U128Max * places => ~(written <= U128Max * places)
    <3> HIDE DEF written, places
    <3>1. QED  BY <2>4
  <2>7. parsed.ok => parsed.value <= U128Max  BY <2>3, <2>4
  <2>8. /\ parsed.ok => /\ well_formed(t) /\ parsed.value <= U128Max
                        /\ parsed.value * pow10(Len(t.fraction))
                             = number(t.whole \o t.fraction) * pow10(d)
        /\ ~parsed.ok =>
             \/ ~well_formed(t)
             \/ ~(number(t.whole \o t.fraction) * pow10(d) <= U128Max * pow10(Len(t.fraction)))
             \/ d > MAX_DECIMALS \/ Len(t.fraction) > d
    BY <2>3, <2>6, <2>7, Zenon
  <2>9. QED  BY <2>5, <2>8, Zenon DEF AmountsAreExact
<1>2. ASSUME NEW n \in 0..U128Max, NEW d \in Decimals, FormatsAmount(n, d)
      PROVE  AmountsAreExact'
  <2>1. out' = [op |-> "format", plancks |-> n, decimals |-> d, result |-> format_amount(n, d)]
    BY <1>2 DEF FormatsAmount, Converts
  <2>2. d \in Nat  BY DecimalsTyped
  <2> DEFINE t == format_amount(n, d)
  <2>3. /\ well_formed(t)
        /\ n * pow10(Len(t.fraction)) = number(t.whole \o t.fraction) * pow10(d)
        /\ parse_amount(t, d) = IF d <= MAX_DECIMALS THEN Ok(n) ELSE bad_amount
    BY <2>2, FormattedAmountsParseBack
  <2>4. out'.op = "format" /\ out'.plancks = n /\ out'.decimals = d /\ out'.result = t
    BY <2>1
  <2> HIDE DEF t
  <2>5. QED  BY <2>3, <2>4, Zenon DEF AmountsAreExact
<1>3. ASSUME NEW ed \in Deposits, NEW declared \in Declared, TakesOneToken(ed, declared)
      PROVE  AmountsAreExact'
  <2> DEFINE d == decimals_effective(ed, declared)
  <2>1. d \in Nat  BY DecimalsTyped DEF Decimals
  <2>2. PICK one \in one_token(d) : out' = [op |-> "one", decimals |-> d, result |-> one]
    BY <1>3 DEF TakesOneToken, Converts
  <2> HIDE DEF d
  <2> DEFINE parsed == parse_amount(Text("", <<1>>, FALSE, <<>>, FALSE), d)
  <2>3. d <= MAX_DECIMALS => parsed.ok /\ one = parsed  BY <2>1, OneTokenIsOne
  <2>4. out'.op = "one" /\ out'.decimals = d /\ out'.result = one  BY <2>2
  <2>5. QED  BY <2>3, <2>4, Zenon DEF AmountsAreExact
<1>4. ASSUME out'.op \notin {"amount", "format", "one"}  PROVE AmountsAreExact'
  BY <1>4 DEF AmountsAreExact
<1>5. ASSUME UNCHANGED out  PROVE AmountsAreExact'
  BY <1>5 DEF AmountsAreExact
<1>6. ASSUME Convert  PROVE AmountsAreExact'
  <2>1. ASSUME NEW text, ParsesKey(text) \/ ParsesScopes(text)
        PROVE  out'.op \notin {"amount", "format", "one"}
    BY <2>1 DEF ParsesKey, ParsesScopes, Converts
  <2>2. QED  BY <1>1, <1>2, <1>3, <1>4, <1>6, <2>1 DEF Convert
<1>7. ASSUME NEW c, Tx(c)  PROVE out'.op = "tx"
  BY <1>7 DEF Tx
<1>8. ASSUME NEW tag, StartsRecover(tag)  PROVE out'.op = "recover"
  BY <1>8 DEF StartsRecover
<1>9. ASSUME RecoverReadOnly  PROVE out'.op = "recover"
  BY <1>9 DEF RecoverReadOnly
<1>10. ASSUME UNCHANGED vars  PROVE UNCHANGED out
  BY <1>10 DEF vars
<1>11. QED
  BY <1>4, <1>5, <1>6, <1>7, <1>8, <1>9, <1>10, Zenon DEF Next

\* In every session, whatever decimals the chain came to: parse_amount yields what
\* is written or refuses it, format_amount writes exactly the plancks, the two are
\* inverse up to MAX_DECIMALS, and one_token is exact up to there.
THEOREM AmountsExact == Spec => []AmountsAreExact
<1>1. Init => AmountsAreExact  BY DEF Init, NoOut, AmountsAreExact
<1>2. QED  BY <1>1, AmountStep, PTL DEF Spec
=============================================================================
