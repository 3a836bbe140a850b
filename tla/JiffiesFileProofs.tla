-------------------------- MODULE JiffiesFileProofs --------------------------
(***************************************************************************)
(* Proofs about JiffiesFile, for every base, every size of a word and every *)
(* size of the reads.                                                      *)
(***************************************************************************)
EXTENDS JiffiesFile, DataInduction, SequenceTheorems, FiniteSetTheorems

-----------------------------------------------------------------------------
(* Arithmetic.                                                             *)

LEMMA Constants ==
  /\ Base \in Nat /\ Word \in Nat /\ DataSize \in Nat /\ MaxCount \in Nat
  /\ 1 < Base /\ 0 < Word /\ 3 <= DataSize /\ Word <= Power[DataSize - 2]
BY JiffiesFileAssumption

LEMMA TimesGrows ==
  ASSUME NEW a \in Nat, NEW b \in Nat, NEW c \in Nat, a <= b
  PROVE  a * c <= b * c
<1>1. PICK d \in Nat : b = a + d
  <2>1. b - a \in Nat /\ b = a + (b - a) OBVIOUS
  <2>2. QED BY <2>1
<1>2. b * c = a * c + d * c BY <1>1
<1>3. a * c \in Nat /\ d * c \in Nat OBVIOUS
<1>4. QED BY <1>2, <1>3

LEMMA Division ==
  ASSUME NEW n \in Nat, NEW m \in Nat, 0 < m
  PROVE  /\ n \div m \in Nat /\ n % m \in 0 .. m - 1
         /\ n = (n \div m) * m + (n % m)
OBVIOUS

LEMMA DivisionUnique ==
  ASSUME NEW n \in Nat, NEW m \in Nat, 0 < m, NEW q \in Nat, q * m <= n, n < (q + 1) * m
  PROVE  n \div m = q
<1> DEFINE p == n \div m
           r == n % m
<1>1. p \in Nat /\ r \in 0 .. m - 1 /\ n = p * m + r BY Division
<1> HIDE DEF p, r
<1>2. p * m \in Nat /\ (p + 1) * m = p * m + m /\ q * m \in Nat /\ (q + 1) * m = q * m + m
  BY <1>1
<1>3. ~(p < q)
  <2> SUFFICES ASSUME p + 1 <= q PROVE FALSE BY <1>1
  <2>1. (p + 1) * m <= q * m BY <1>1, TimesGrows
  <2>2. QED BY <1>1, <1>2, <2>1
<1>4. ~(q < p)
  <2> SUFFICES ASSUME q + 1 <= p PROVE FALSE BY <1>1
  <2>1. (q + 1) * m <= p * m BY <1>1, TimesGrows
  <2>2. QED BY <1>1, <1>2, <2>1
<1>5. p = q BY <1>1, <1>3, <1>4
<1>6. QED BY <1>5 DEF p

LEMMA DivisionGrows ==
  ASSUME NEW a \in Nat, NEW b \in Nat, NEW m \in Nat, 0 < m, a <= b
  PROVE  a \div m <= b \div m
<1> DEFINE p == a \div m
           q == b \div m
           r == b % m
<1>1. p \in Nat /\ q \in Nat /\ r \in 0 .. m - 1 /\ p * m <= a /\ b = q * m + r
  <2>1. p \in Nat /\ a % m \in 0 .. m - 1 /\ a = p * m + (a % m) BY Division
  <2>2. q \in Nat /\ r \in 0 .. m - 1 /\ b = q * m + r BY Division
  <2> HIDE DEF p, q, r
  <2>3. p * m \in Nat BY <2>1
  <2>4. QED BY <2>1, <2>2, <2>3
<1> HIDE DEF p, q, r
<1>2. SUFFICES ASSUME q + 1 <= p PROVE FALSE BY <1>1 DEF p, q
<1>3. (q + 1) * m <= p * m BY <1>1, <1>2, TimesGrows
<1>4. (q + 1) * m = q * m + m /\ q * m \in Nat /\ p * m \in Nat BY <1>1
<1>5. QED BY <1>1, <1>3, <1>4

LEMMA DivisionTwice ==
  ASSUME NEW n \in Nat, NEW a \in Nat, NEW b \in Nat, 0 < a, 0 < b
  PROVE  (n \div a) \div b = n \div (b * a)
<1> DEFINE p == n \div a
           q == p \div b
           s == n % a
           t == p % b
<1>1. p \in Nat /\ s \in 0 .. a - 1 /\ n = p * a + s BY Division
<1>2. q \in Nat /\ t \in 0 .. b - 1 /\ p = q * b + t BY <1>1, Division
<1> HIDE DEF p, q, s, t
<1>3. p * a \in Nat /\ (p + 1) * a = p * a + a BY <1>1
<1>4. q * b \in Nat /\ (q + 1) * b = q * b + b BY <1>2
<1>5. q * b <= p /\ p + 1 <= (q + 1) * b BY <1>1, <1>2, <1>4
<1>6. (q * b) * a <= p * a BY <1>1, <1>4, <1>5, TimesGrows
<1>7. (p + 1) * a <= ((q + 1) * b) * a BY <1>1, <1>2, <1>4, <1>5, TimesGrows
<1>8. (q * b) * a = q * (b * a) /\ ((q + 1) * b) * a = (q + 1) * (b * a) /\ b * a \in Nat
  BY <1>2
<1>9. q * (b * a) <= n /\ n < (q + 1) * (b * a)
  <2>1. (q * b) * a \in Nat /\ ((q + 1) * b) * a \in Nat BY <1>2
  <2>2. QED BY <1>1, <1>3, <1>6, <1>7, <1>8, <2>1
<1>10. 0 < b * a
  <2>1. 1 * a <= b * a BY TimesGrows
  <2>2. QED BY <1>8, <2>1
<1>11. n \div (b * a) = q BY <1>2, <1>8, <1>9, <1>10, DivisionUnique
<1>12. QED BY <1>11 DEF p, q

-----------------------------------------------------------------------------
(* Powers of the base.                                                     *)

\* Power is the recursion that its definition says.
LEMMA PowerDef ==
  /\ Power[0] = 1
  /\ \A k \in Nat : Power[k] \in Nat \ {0} /\ Power[k + 1] = Base * Power[k]
<1> DEFINE h == [x \in Nat \X Nat |-> Base * x[1]]
           V == Nat
           c == 1
           Rec(p) == p = [k \in Nat |-> IF k = 0 THEN 1 ELSE Base * p[k - 1]]
<1>1. c \in V /\ h \in [V \X Nat -> V] BY Constants
<1>2. \A m \in Nat : \A k \in Nat : h[<<m, k>>] = Base * m OBVIOUS
<1> HIDE DEF h, V, c
<1>3. PICK g \in [Nat -> V] : Recursion(g, c, h) BY <1>1, RecursionExists
<1>4. g \in [Nat -> Nat] /\ g[0] = 1 BY <1>3 DEF V, c, Recursion
<1>5. ASSUME NEW k \in Nat PROVE g[k + 1] = Base * g[k] BY <1>2, <1>3, <1>4 DEF Recursion
<1>6. g = [k \in Nat |-> IF k = 0 THEN 1 ELSE Base * g[k - 1]]
  <2>1. ASSUME NEW k \in Nat PROVE g[k] = IF k = 0 THEN 1 ELSE Base * g[k - 1]
    <3>1. CASE k = 0 BY <1>4, <3>1
    <3>2. CASE k # 0
      <4>1. k - 1 \in Nat /\ (k - 1) + 1 = k BY <3>2
      <4>2. g[(k - 1) + 1] = Base * g[k - 1] BY <1>5, <4>1
      <4>3. QED BY <3>2, <4>1, <4>2
    <3>3. QED BY <3>1, <3>2
  <2>2. QED BY <1>4, <2>1
<1>7. Rec(g) BY <1>6
<1>8. Power = CHOOSE p : Rec(p) BY DEF Power
<1> HIDE DEF Rec
<1>9. Rec(Power) BY <1>7, <1>8
<1> DEFINE p == Power
           S == {k \in Nat : p[k] \in Nat \ {0}}
<1> HIDE DEF p
<1>10. p = [k \in Nat |-> IF k = 0 THEN 1 ELSE Base * p[k - 1]] BY <1>9 DEF Rec, p
<1>11. p[0] = 1 BY <1>10
<1>12. ASSUME NEW k \in Nat PROVE p[k + 1] = Base * p[k]
  <2>1. k + 1 \in Nat /\ k + 1 # 0 /\ (k + 1) - 1 = k OBVIOUS
  <2>2. p[k + 1] = Base * p[(k + 1) - 1] BY <1>10, <2>1
  <2>3. QED BY <2>1, <2>2
<1>13. 0 \in S BY <1>11
<1>14. ASSUME NEW k \in Nat, k \in S PROVE k + 1 \in S
  <2>1. p[k] \in Nat /\ p[k] # 0 /\ p[k + 1] = Base * p[k] BY <1>12, <1>14
  <2>2. \A x \in Nat : x # 0 => Base * x \in Nat /\ Base * x # 0 BY Constants
  <2>3. p[k + 1] \in Nat \ {0} BY <2>1, <2>2
  <2>4. QED BY <2>3
<1> HIDE DEF S
<1>15. Nat \subseteq S BY <1>13, <1>14, SetInduction
<1>16. QED BY <1>11, <1>12, <1>15 DEF S, p

-----------------------------------------------------------------------------
(* The digits of a number.                                                 *)

\* Every word has as many digits as the definition says, and the array has room for them.
LEMMA DigitsDef ==
  ASSUME NEW n \in 0 .. Word - 1
  PROVE  /\ Digits(n) \in 1 .. DataSize - 2
         /\ n < Power[Digits(n)]
         /\ \A c \in 1 .. Digits(n) - 1 : Power[c] <= n
<1> DEFINE S == {d \in Nat \ {0} : n < Power[d]}
<1>0. n \in Nat /\ DataSize - 2 \in Nat \ {0} /\ n < Power[DataSize - 2]
  <2>1. DataSize - 2 \in Nat \ {0} BY Constants
  <2>2. Power[DataSize - 2] \in Nat BY <2>1, PowerDef
  <2>3. QED BY <2>1, <2>2, Constants
<1>1. DataSize - 2 \in S BY <1>0
<1>2. S \in SUBSET Nat /\ S # {} BY <1>1
<1>3. PICK m \in S : \A k \in S : m <= k
  <2> HIDE DEF S
  <2>1. QED BY <1>2, LeastMember
<1>4. m \in 1 .. DataSize - 2
  <2>1. m \in Nat /\ m # 0 /\ m <= DataSize - 2 BY <1>1, <1>3
  <2>2. QED BY <1>0, <2>1
<1>5. n < Power[m] BY <1>3
<1>6. ASSUME NEW c \in 1 .. m - 1 PROVE Power[c] <= n
  <2>1. c \in Nat \ {0} /\ ~(m <= c) BY <1>4
  <2>2. ~(n < Power[c]) BY <1>3, <2>1
  <2>3. Power[c] \in Nat BY <2>1, PowerDef
  <2>4. QED BY <1>0, <2>2, <2>3
<1> DEFINE P(d) == n < Power[d] /\ \A c \in 1 .. d - 1 : Power[c] <= n
<1> HIDE DEF S
<1>7. m \in 1 .. DataSize - 1 /\ P(m) BY <1>4, <1>5, <1>6, Constants
<1>8. Digits(n) = CHOOSE d \in 1 .. DataSize - 1 : P(d) BY DEF Digits
<1> HIDE DEF P
<1>9. Digits(n) \in 1 .. DataSize - 1 /\ P(Digits(n)) BY <1>7, <1>8
<1> DEFINE D == Digits(n)
<1> HIDE DEF D
<1>10. D \in 1 .. DataSize - 1 /\ n < Power[D] /\ \A c \in 1 .. D - 1 : Power[c] <= n
  BY <1>9 DEF P, D
<1>11. D <= DataSize - 2
  <2> SUFFICES ASSUME D = DataSize - 1 PROVE FALSE BY <1>0, <1>10, Constants
  <2>1. DataSize - 2 \in 1 .. D - 1 BY <1>0, Constants
  <2>2. Power[DataSize - 2] <= n BY <1>10, <2>1
  <2>3. Power[DataSize - 2] \in Nat BY <1>0, PowerDef
  <2>4. QED BY <1>0, <2>2, <2>3
<1>12. D \in 1 .. DataSize - 2 BY <1>0, <1>10, <1>11
<1>13. QED BY <1>10, <1>12 DEF D

\* A later clock has no fewer digits.
LEMMA DigitsGrow ==
  ASSUME NEW m \in 0 .. Word - 1, NEW n \in 0 .. Word - 1, m <= n
  PROVE  Digits(m) <= Digits(n)
<1> DEFINE c == Digits(m)
           d == Digits(n)
<1>1. c \in Nat /\ d \in Nat \ {0} /\ n < Power[d] /\ \A e \in 1 .. c - 1 : Power[e] <= m
  BY DigitsDef
<1>2. Power[d] \in Nat BY <1>1, PowerDef
<1>3. m \in Nat /\ n \in Nat BY Constants
<1> HIDE DEF c, d
<1>4. SUFFICES ASSUME d < c PROVE FALSE BY <1>1 DEF c, d
<1>5. d \in 1 .. c - 1 BY <1>1, <1>4
<1>6. Power[d] <= m BY <1>1, <1>5
<1>7. QED BY <1>1, <1>2, <1>3, <1>6

\* The number that leading digits form: none of them form 0, one more is the next in the
\* text, and later clocks of as many digits have no smaller ones.
LEMMA LeadingDef ==
  ASSUME NEW n \in 0 .. Word - 1
  PROVE  /\ \A k \in 0 .. Digits(n) : Leading(n, k) \in Nat
         /\ Leading(n, 0) = 0
         /\ \A k \in 1 .. Digits(n) :
              /\ Leading(n, k) % Base \in 0 .. Base - 1
              /\ Leading(n, k) = Leading(n, k - 1) * Base + (Leading(n, k) % Base)
<1> DEFINE d == Digits(n)
<1>1. n \in Nat /\ d \in Nat /\ n < Power[d] BY DigitsDef, Constants
<1>2. \A k \in 0 .. d : Leading(n, k) = n \div Power[d - k] BY DEF Leading
<1> HIDE DEF d
<1>3. \A k \in 0 .. d : d - k \in Nat /\ Power[d - k] \in Nat /\ 0 < Power[d - k]
  <2>1. ASSUME NEW k \in 0 .. d PROVE d - k \in Nat /\ Power[d - k] \in Nat /\ 0 < Power[d - k]
    <3>1. d - k \in Nat BY <1>1
    <3>2. Power[d - k] \in Nat \ {0} BY <3>1, PowerDef
    <3>3. QED BY <3>1, <3>2
  <2>2. QED BY <2>1
<1>4. ASSUME NEW k \in 0 .. d PROVE Leading(n, k) \in Nat
  <2>1. n \div Power[d - k] \in Nat BY <1>1, <1>3, Division
  <2>2. QED BY <1>2, <2>1
<1>5. Leading(n, 0) = 0
  <2>1. 0 \in 0 .. d /\ d - 0 = d BY <1>1
  <2>2. Leading(n, 0) = n \div Power[d] /\ Power[d] \in Nat /\ 0 < Power[d] BY <1>2, <1>3, <2>1
  <2>3. 0 * Power[d] <= n /\ n < (0 + 1) * Power[d] /\ 0 \in Nat BY <1>1, <2>2
  <2>4. n \div Power[d] = 0 BY <1>1, <2>2, <2>3, DivisionUnique
  <2>5. QED BY <2>2, <2>4
<1>6. ASSUME NEW k \in 1 .. d
      PROVE  /\ Leading(n, k) % Base \in 0 .. Base - 1
             /\ Leading(n, k) = Leading(n, k - 1) * Base + (Leading(n, k) % Base)
  <2>1. k \in 0 .. d /\ k - 1 \in 0 .. d /\ d - (k - 1) = (d - k) + 1 BY <1>1
  <2>2. Power[(d - k) + 1] = Base * Power[d - k] BY <1>3, <2>1, PowerDef
  <2>3. Leading(n, k) = n \div Power[d - k] /\ Leading(n, k - 1) = n \div (Base * Power[d - k])
    BY <1>2, <2>1, <2>2
  <2>4. (n \div Power[d - k]) \div Base = n \div (Base * Power[d - k])
    BY <1>1, <1>3, <2>1, Constants, DivisionTwice
  <2>5. Leading(n, k - 1) = Leading(n, k) \div Base BY <2>3, <2>4
  <2>6. Leading(n, k) \in Nat BY <1>4, <2>1
  <2>7. QED BY <2>5, <2>6, Constants, Division
<1>7. QED BY <1>4, <1>5, <1>6 DEF d

LEMMA LeadingGrows ==
  ASSUME NEW m \in 0 .. Word - 1, NEW n \in 0 .. Word - 1, m <= n, Digits(m) = Digits(n),
         NEW k \in 0 .. Digits(n)
  PROVE  Leading(m, k) <= Leading(n, k)
<1>1. m \in Nat /\ n \in Nat /\ Digits(n) - k \in Nat BY DigitsDef, Constants
<1>2. Power[Digits(n) - k] \in Nat \ {0} BY <1>1, PowerDef
<1>3. Power[Digits(n) - k] \in Nat /\ 0 < Power[Digits(n) - k] BY <1>2
<1>4. QED BY <1>1, <1>3, DivisionGrows DEF Leading

-----------------------------------------------------------------------------
(* The text and what is put together of it.                                *)

LEMMA TextDef ==
  ASSUME NEW n \in 0 .. Word - 1
  PROVE  /\ Text(n) \in Seq(0 .. Base) /\ Len(Text(n)) = Digits(n) + 1
         /\ \A k \in 1 .. Digits(n) : Text(n)[k] = Leading(n, k) % Base /\ Text(n)[k] # Newline
         /\ Text(n)[Digits(n) + 1] = Newline
<1> DEFINE d == Digits(n)
           digit(k) == Leading(n, k) % Base
           t == [k \in 1 .. d + 1 |-> IF k <= d THEN digit(k) ELSE Newline]
<1>1. d \in Nat /\ d + 1 \in Nat BY DigitsDef, Constants
<1>2. \A k \in 1 .. d : digit(k) \in 0 .. Base - 1 BY LeadingDef
<1>3. Text(n) = t BY DEF Text
<1> HIDE DEF d, digit
<1>4. \A k \in 1 .. d + 1 : (IF k <= d THEN digit(k) ELSE Newline) \in 0 .. Base
  BY <1>1, <1>2, Constants DEF Newline
<1>5. t \in Seq(0 .. Base) /\ Len(t) = d + 1 BY <1>1, <1>4
<1>6. \A k \in 1 .. d : t[k] = digit(k) /\ t[k] # Newline BY <1>1, <1>2, Constants DEF Newline
<1>7. t[d + 1] = Newline BY <1>1
<1>8. QED BY <1>3, <1>5, <1>6, <1>7 DEF d, digit

\* A read gives the next k bytes.
LEMMA Given ==
  ASSUME NEW o \in Seq(0 .. Base), NEW n \in 0 .. Word - 1, NEW k \in Nat,
         Len(o) + k <= Digits(n) + 1
  PROVE  LET t == Text(n)
             r == o \o SubSeq(t, Len(o) + 1, Len(o) + k)
         IN  /\ r \in Seq(0 .. Base) /\ Len(r) = Len(o) + k
             /\ \A j \in 1 .. Len(o) : r[j] = o[j]
             /\ \A j \in Len(o) + 1 .. Len(o) + k : r[j] = t[j]
<1> DEFINE t == Text(n)
           s == SubSeq(t, Len(o) + 1, Len(o) + k)
<1>1. t \in Seq(0 .. Base) /\ Len(t) = Digits(n) + 1 /\ Digits(n) \in Nat /\ Len(o) \in Nat
  BY TextDef, DigitsDef, Constants
<1> HIDE DEF t
<1>2. s \in Seq(0 .. Base) /\ Len(s) = k /\ \A i \in 1 .. k : s[i] = t[Len(o) + i]
  <2> DEFINE m == Len(o) + 1
             n1 == Len(o) + k
  <2>1. m \in Int /\ n1 \in Int /\ n1 - m + 1 = k /\ (IF m <= n1 THEN n1 - m + 1 ELSE 0) = k
    BY <1>1
  <2>2. ASSUME NEW i \in m .. n1 PROVE t[i] \in 0 .. Base
    <3>1. i \in 1 .. Len(t) BY <1>1
    <3>2. QED BY <1>1, <3>1, ElementOfSeq
  <2>3. \A i \in 1 .. k : m + i - 1 = Len(o) + i BY <1>1
  <2> HIDE DEF m, n1
  <2>4. /\ SubSeq(t, m, n1) \in Seq(0 .. Base) /\ Len(SubSeq(t, m, n1)) = k
        /\ \A i \in 1 .. k : SubSeq(t, m, n1)[i] = t[m + i - 1]
    BY <2>1, <2>2, SubSeqProperties
  <2>5. QED BY <2>3, <2>4 DEF s, m, n1
<1> HIDE DEF s
<1>3. /\ o \o s \in Seq(0 .. Base) /\ Len(o \o s) = Len(o) + Len(s)
      /\ \A j \in 1 .. Len(o) + Len(s) :
           (o \o s)[j] = IF j <= Len(o) THEN o[j] ELSE s[j - Len(o)]
  BY <1>2, ConcatProperties
<1>4. o \o s \in Seq(0 .. Base) /\ Len(o \o s) = Len(o) + k BY <1>2, <1>3
<1>5. \A j \in 1 .. Len(o) : (o \o s)[j] = o[j] BY <1>1, <1>2, <1>3
<1>6. ASSUME NEW j \in Len(o) + 1 .. Len(o) + k PROVE (o \o s)[j] = t[j]
  <2>1. /\ j - Len(o) \in 1 .. k /\ Len(o) + (j - Len(o)) = j
        /\ j \in 1 .. Len(o) + k /\ ~(j <= Len(o))
    BY <1>1
  <2>2. (o \o s)[j] = s[j - Len(o)] BY <1>2, <1>3, <2>1
  <2>3. QED BY <1>2, <2>1, <2>2
<1>7. QED BY <1>4, <1>5, <1>6 DEF s, t

\* Number is the recursion that its definition says.
LEMMA NumberDef ==
  ASSUME NEW o \in Seq(0 .. Base)
  PROVE  /\ Number(o)[0] = 0
         /\ \A k \in 0 .. Len(o) : Number(o)[k] \in Nat
         /\ \A k \in 0 .. Len(o) - 1 : Number(o)[k + 1] = Number(o)[k] * Base + o[k + 1]
<1> DEFINE h == [x \in Nat \X Nat |-> IF x[2] + 1 \in 1 .. Len(o) THEN x[1] * Base + o[x[2] + 1] ELSE 0]
           V == Nat
           c == 0
           N == Len(o)
           Rec(v) == v = [k \in 0 .. Len(o) |-> IF k = 0 THEN 0 ELSE v[k - 1] * Base + o[k]]
<1>0. N \in Nat /\ \A k \in 1 .. N : o[k] \in Nat BY Constants
<1>1. c \in V /\ h \in [V \X Nat -> V]
  <2>1. \A x \in Nat \X Nat : x[1] * Base \in Nat BY Constants
  <2>2. \A x \in Nat \X Nat : x[2] + 1 \in 1 .. N => x[1] * Base + o[x[2] + 1] \in Nat BY <1>0, <2>1
  <2>3. QED BY <2>2
<1>2. \A m \in Nat : \A k \in 0 .. N - 1 : k \in Nat /\ h[<<m, k>>] = m * Base + o[k + 1]
  BY <1>0
<1> HIDE DEF h, V, c
<1>3. PICK g \in [Nat -> V] : Recursion(g, c, h) BY <1>1, RecursionExists
<1>4. g \in [Nat -> Nat] /\ g[0] = 0 BY <1>3 DEF V, c, Recursion
<1>5. ASSUME NEW k \in 0 .. N - 1 PROVE g[k + 1] = g[k] * Base + o[k + 1]
  <2>1. k \in Nat /\ g[k] \in Nat BY <1>0, <1>4
  <2>2. QED BY <1>2, <1>3, <2>1 DEF Recursion
<1> DEFINE f == [k \in 0 .. N |-> g[k]]
<1> HIDE DEF N
<1>6. f = [k \in 0 .. N |-> IF k = 0 THEN 0 ELSE f[k - 1] * Base + o[k]]
  <2>1. ASSUME NEW k \in 0 .. N PROVE f[k] = IF k = 0 THEN 0 ELSE f[k - 1] * Base + o[k]
    <3>1. CASE k = 0 BY <1>0, <1>4, <3>1
    <3>2. CASE k # 0
      <4>1. k - 1 \in 0 .. N - 1 /\ k - 1 \in 0 .. N /\ (k - 1) + 1 = k BY <1>0, <3>2
      <4>2. g[(k - 1) + 1] = g[k - 1] * Base + o[(k - 1) + 1] BY <1>5, <4>1
      <4>3. QED BY <3>2, <4>1, <4>2
    <3>3. QED BY <3>1, <3>2
  <2>2. QED BY <2>1
<1>7. Rec(f) BY <1>6 DEF N
<1> HIDE DEF f
<1>8. Number(o) = CHOOSE v : Rec(v) BY DEF Number
<1> HIDE DEF Rec
<1>9. Rec(Number(o)) BY <1>7, <1>8
<1> DEFINE v == Number(o)
           S == {k \in 0 .. N : v[k] \in Nat}
<1> HIDE DEF v
<1>10. v = [k \in 0 .. N |-> IF k = 0 THEN 0 ELSE v[k - 1] * Base + o[k]] BY <1>9 DEF Rec, v, N
<1>11. v[0] = 0
  <2>1. 0 \in 0 .. N BY <1>0
  <2>2. QED BY <1>10, <2>1
<1>12. ASSUME NEW k \in 0 .. N - 1 PROVE v[k + 1] = v[k] * Base + o[k + 1]
  <2>1. k + 1 \in 0 .. N /\ k + 1 # 0 /\ (k + 1) - 1 = k BY <1>0
  <2>2. v[k + 1] = v[(k + 1) - 1] * Base + o[k + 1] BY <1>10, <2>1
  <2>3. QED BY <2>1, <2>2
<1>13. 0 \in S BY <1>0, <1>11
<1>14. ASSUME NEW k \in 0 .. N - 1, k \in S PROVE k + 1 \in S
  <2>1. k + 1 \in 0 .. N /\ v[k] \in Nat /\ o[k + 1] \in Nat BY <1>0, <1>14
  <2>2. v[k] * Base \in Nat BY <2>1, Constants
  <2>3. v[k] * Base + o[k + 1] \in Nat BY <2>1, <2>2
  <2>4. QED BY <1>12, <2>1, <2>3
<1> HIDE DEF S
<1>15. 0 .. N \subseteq S BY <1>0, <1>13, <1>14, RangeInduction
<1>16. QED BY <1>11, <1>12, <1>15 DEF S, v, N

\* It is made from the front of the sequence only.
LEMMA NumberOfFront ==
  ASSUME NEW o \in Seq(0 .. Base), NEW r \in Seq(0 .. Base), Len(o) <= Len(r),
         \A j \in 1 .. Len(o) : r[j] = o[j]
  PROVE  \A k \in 0 .. Len(o) : Number(r)[k] = Number(o)[k]
<1> DEFINE v == Number(o)
           w == Number(r)
           S == {k \in 0 .. Len(o) : w[k] = v[k]}
<1>1. v[0] = 0 /\ \A k \in 0 .. Len(o) - 1 : v[k + 1] = v[k] * Base + o[k + 1] BY NumberDef
<1>2. w[0] = 0 /\ \A k \in 0 .. Len(r) - 1 : w[k + 1] = w[k] * Base + r[k + 1] BY NumberDef
<1>3. Len(o) \in Nat /\ Len(r) \in Nat OBVIOUS
<1> HIDE DEF v, w
<1>4. 0 \in S BY <1>1, <1>2, <1>3
<1>5. ASSUME NEW k \in 0 .. Len(o) - 1, k \in S PROVE k + 1 \in S
  <2>1. k \in 0 .. Len(r) - 1 /\ k + 1 \in 1 .. Len(o) /\ k + 1 \in 0 .. Len(o) BY <1>3
  <2>2. w[k + 1] = w[k] * Base + r[k + 1] /\ v[k + 1] = v[k] * Base + o[k + 1] BY <1>1, <1>2, <2>1
  <2>3. r[k + 1] = o[k + 1] /\ w[k] = v[k] BY <1>5, <2>1
  <2>4. QED BY <2>1, <2>2, <2>3
<1> HIDE DEF S
<1>6. 0 .. Len(o) \subseteq S BY <1>3, <1>4, <1>5, RangeInduction
<1>7. QED BY <1>6 DEF S, v, w

-----------------------------------------------------------------------------
(* The inductive invariant.  While the clock does not wrap, the pieces are *)
(* of ever later clocks, so the text only grows; the position tells how    *)
(* much of it the process has.                                             *)

\* The position is how many bytes were given.
Bytes ==
  /\ pos = Len(out)
  /\ out = <<>> => grown = 0
  /\ state # "reading" => call = NoCall

\* The clocks that the pieces were printed from are in order.
Ordered ==
  ~wrapped =>
    /\ call # NoCall => call.shown <= jiffies
    /\ out # <<>> => /\ first <= last /\ last <= jiffies
                     /\ call # NoCall => last <= call.shown

\* The position lies in the text of the last piece, and behind its newline if the process
\* was given that; the newlines before it belong to shorter texts.
Lines ==
  ~wrapped =>
    /\ out # <<>> => /\ pos <= Digits(last) + 1
                     /\ pos = Digits(last) + 1 => out[pos] = Newline
                     /\ Cardinality(Newlines) <= IF pos = Digits(last) + 1 THEN grown + 1 ELSE grown
    /\ state = "ended" => out # <<>> /\ pos = Digits(last) + 1

\* The number put together is no later than the last piece, at each length of it.
Clock ==
  Steady => LET given == Least(Len(out), Digits(last))
            IN  /\ \A k \in 1 .. given : out[k] \in 0 .. Base - 1
                /\ Number(out)[given] <= Leading(last, given)

IInv == TypeOK /\ Bytes /\ Ordered /\ Lines /\ Clock

LEMMA InitInv == Init => IInv
<1> SUFFICES ASSUME Init PROVE IInv OBVIOUS
<1>1. TypeOK
  <2>1. 0 \in 0 .. Word - 1 /\ 0 \in 0 .. DataSize - 1 BY Constants
  <2>2. out \in Seq(0 .. Base) BY EmptySeq DEF Init
  <2>3. QED BY <2>1, <2>2 DEF Init, TypeOK
<1>2. Bytes BY DEF Init, Bytes
<1>3. Ordered BY DEF Init, Ordered
<1>4. Lines BY DEF Init, Lines
<1>5. Clock BY DEF Init, Clock, Steady
<1>6. QED BY <1>1, <1>2, <1>3, <1>4, <1>5 DEF IInv

LEMMA TickStep ==
  ASSUME IInv, Tick
  PROVE  IInv'
<1>1. jiffies \in 0 .. Word - 1 /\ Word \in Nat /\ wrapped \in BOOLEAN BY Constants DEF IInv, TypeOK
<1>2. (jiffies + 1) % Word \in 0 .. Word - 1 BY <1>1, Constants, Division
<1>3. TypeOK' BY <1>1, <1>2 DEF IInv, TypeOK, Tick, NoCall
<1>4. ASSUME ~wrapped' PROVE ~wrapped /\ jiffies' = jiffies + 1
  <2>1. ~wrapped /\ jiffies # Word - 1 BY <1>4 DEF Tick
  <2>2. (jiffies + 1) % Word = jiffies + 1 BY <1>1, <2>1
  <2>3. QED BY <2>1, <2>2 DEF Tick
<1>5. Bytes' BY DEF IInv, Bytes, Tick
<1>6. Ordered'
  <2> SUFFICES ASSUME ~wrapped' PROVE Ordered' BY DEF Ordered
  <2>1. ~wrapped /\ jiffies' = jiffies + 1 BY <1>4
  <2>2. last \in Nat /\ (call # NoCall => call.shown \in Nat)
    BY Constants DEF IInv, TypeOK
  <2>3. QED BY <1>1, <2>1, <2>2 DEF IInv, Ordered, Tick
<1>7. Lines' BY <1>4 DEF IInv, Lines, Tick, Newlines
<1>8. Clock' BY <1>4 DEF IInv, Clock, Steady, Tick
<1>9. QED BY <1>3, <1>5, <1>6, <1>7, <1>8 DEF IInv

LEMMA OpenStep ==
  ASSUME IInv, Open
  PROVE  IInv'
<1>1. call' = NoCall BY DEF IInv, Bytes, Open
<1>2. TypeOK'
  <2>1. 0 \in 0 .. Word - 1 /\ 0 \in 0 .. DataSize - 1 BY Constants
  <2>2. out' \in Seq(0 .. Base) BY EmptySeq DEF Open
  <2>3. QED BY <1>1, <2>1, <2>2 DEF IInv, TypeOK, Open
<1>3. Bytes' BY DEF Bytes, Open
<1>4. Ordered' BY <1>1 DEF Ordered, Open
<1>5. Lines' BY DEF Lines, Open
<1>6. Clock' BY DEF Clock, Steady, Open
<1>7. QED BY <1>2, <1>3, <1>4, <1>5, <1>6 DEF IInv

LEMMA EnterStep ==
  ASSUME IInv, NEW count \in 1 .. MaxCount, JiffiesReadEnter(count)
  PROVE  IInv'
<1>1. jiffies \in 0 .. Word - 1 BY DEF IInv, TypeOK
<1>2. TypeOK' BY <1>1 DEF IInv, TypeOK, JiffiesReadEnter
<1>3. Bytes' BY DEF IInv, Bytes, JiffiesReadEnter
<1>4. Ordered' BY <1>1, Constants DEF IInv, Ordered, JiffiesReadEnter
<1>5. Lines' BY DEF IInv, Lines, JiffiesReadEnter, Newlines
<1>6. Clock' BY DEF IInv, Clock, Steady, JiffiesReadEnter
<1>7. QED BY <1>2, <1>3, <1>4, <1>5, <1>6 DEF IInv

\* What a call that is about to return knows.
LEMMA Returning ==
  ASSUME IInv, call # NoCall
  PROVE  /\ call.shown \in 0 .. Word - 1 /\ call.count \in 1 .. MaxCount
         /\ Digits(call.shown) \in 1 .. DataSize - 2
         /\ out \in Seq(0 .. Base) /\ pos = Len(out) /\ pos \in 0 .. DataSize - 1
         /\ state = "reading"
         /\ \A k \in 0 .. Available : k > 0 => pos + k <= Digits(call.shown) + 1
         /\ Available = 0 => pos >= Digits(call.shown) + 1
         /\ out # <<>> /\ ~wrapped => /\ Digits(last) \in 1 .. DataSize - 2
                                      /\ Digits(last) <= Digits(call.shown)
<1>1. /\ call.shown \in 0 .. Word - 1 /\ call.count \in 1 .. MaxCount
      /\ out \in Seq(0 .. Base) /\ pos = Len(out) /\ pos \in 0 .. DataSize - 1
      /\ state = "reading" /\ last \in 0 .. Word - 1
  BY DEF IInv, TypeOK, Bytes
<1>2. Digits(call.shown) \in 1 .. DataSize - 2 BY <1>1, DigitsDef
<1>3. \A k \in 0 .. Available : k > 0 => pos + k <= Digits(call.shown) + 1
  BY <1>1, <1>2, Constants DEF Available, Least
<1>4. Available = 0 => pos >= Digits(call.shown) + 1
  BY <1>1, <1>2, Constants DEF Available, Least
<1>5. ASSUME out # <<>>, ~wrapped
      PROVE  Digits(last) \in 1 .. DataSize - 2 /\ Digits(last) <= Digits(call.shown)
  <2>1. last <= call.shown BY <1>5 DEF IInv, Ordered
  <2>2. QED BY <1>1, <2>1, DigitsDef, DigitsGrow
<1>6. QED BY <1>1, <1>2, <1>3, <1>4, <1>5

\* The call returns nothing: the end, or an error.
LEMMA ReturnNothingStep ==
  ASSUME IInv, JiffiesReadReturn(0)
  PROVE  IInv'
<1>0. call # NoCall BY DEF JiffiesReadReturn
<1>1. out' = out /\ pos' = pos
  <2>1. pos + 1 \in Int /\ pos + 0 \in Int /\ pos + 1 > pos + 0 BY <1>0, Returning, Constants
  <2>2. SubSeq(Text(call.shown), pos + 1, pos + 0) = <<>> BY <2>1, SubSeqEmpty
  <2>3. out \o <<>> = out BY <1>0, Returning
  <2>4. pos + 0 = pos BY <1>0, Returning, Constants
  <2>5. QED BY <2>2, <2>3, <2>4 DEF JiffiesReadReturn, NextPos
<1>2. call' = NoCall /\ state' = (IF Available = 0 THEN "ended" ELSE "failed")
      /\ UNCHANGED <<first, last, grown, jiffies, wrapped>>
  BY DEF JiffiesReadReturn
<1>3. TypeOK' BY <1>1, <1>2 DEF IInv, TypeOK
<1>4. Bytes' BY <1>1, <1>2 DEF IInv, Bytes
<1>5. Ordered' BY <1>1, <1>2 DEF IInv, Ordered
<1>6. Lines'
  <2> SUFFICES ASSUME ~wrapped PROVE Lines' BY <1>2 DEF Lines
  <2>1. ASSUME state' = "ended" PROVE out # <<>> /\ pos = Digits(last) + 1
    <3>1. pos >= Digits(call.shown) + 1 BY <1>0, <1>2, <2>1, Returning
    <3>2. out # <<>> BY <1>0, <3>1, Returning, Constants
    <3>3. pos <= Digits(last) + 1 BY <3>2 DEF IInv, Lines
    <3>4. QED BY <1>0, <3>1, <3>2, <3>3, Returning, Constants
  <2>2. QED BY <1>1, <1>2, <2>1 DEF IInv, Lines, Newlines
<1>7. Clock' BY <1>1, <1>2 DEF IInv, Clock, Steady
<1>8. QED BY <1>3, <1>4, <1>5, <1>6, <1>7 DEF IInv

\* The call returns k bytes: the facts about the step that the next lemmas use.
LEMMA ReturnSome ==
  ASSUME IInv, NEW k \in 0 .. Available, k > 0, JiffiesReadReturn(k)
  PROVE  LET n == call.shown
         IN  /\ k \in Nat /\ call # NoCall /\ pos + k <= Digits(n) + 1
             /\ call' = NoCall /\ state' = state /\ UNCHANGED <<jiffies, wrapped>>
             /\ pos' = pos + k /\ last' = n
             /\ first' = IF out = <<>> THEN n ELSE first
             /\ grown' = IF out # <<>> /\ Digits(last) < Digits(n) THEN grown + 1 ELSE grown
             /\ out' \in Seq(0 .. Base) /\ Len(out') = pos + k
             /\ \A j \in 1 .. pos : out'[j] = out[j]
             /\ \A j \in pos + 1 .. pos + k : out'[j] = Text(n)[j]
<1>1. call # NoCall BY DEF JiffiesReadReturn
<1>2. k \in Nat OBVIOUS
<1>3. pos + k <= Digits(call.shown) + 1 BY <1>1, Returning
<1>4. k # 0 BY <1>2
<1>5. /\ call' = NoCall /\ state' = state /\ UNCHANGED <<jiffies, wrapped>>
      /\ pos' = pos + k /\ last' = call.shown
      /\ first' = IF out = <<>> THEN call.shown ELSE first
      /\ grown' = IF out # <<>> /\ Digits(last) < Digits(call.shown) THEN grown + 1 ELSE grown
      /\ out' = out \o SubSeq(Text(call.shown), pos + 1, pos + k)
  BY <1>4 DEF JiffiesReadReturn, NextPos
<1>6. out \in Seq(0 .. Base) /\ pos = Len(out) /\ call.shown \in 0 .. Word - 1 BY <1>1, Returning
<1>7. /\ out' \in Seq(0 .. Base) /\ Len(out') = pos + k
      /\ \A j \in 1 .. pos : out'[j] = out[j]
      /\ \A j \in pos + 1 .. pos + k : out'[j] = Text(call.shown)[j]
  BY <1>2, <1>3, <1>5, <1>6, Given
<1>8. QED BY <1>1, <1>2, <1>3, <1>5, <1>7

\* The bytes given are digits of the last piece up to its newline, and the newline is
\* one more than there were before.
LEMMA LinesStep ==
  ASSUME IInv, NEW k \in 0 .. Available, k > 0, JiffiesReadReturn(k)
  PROVE  Lines'
<1> DEFINE n == call.shown
           d == Digits(n)
           before == IF out = <<>> THEN FALSE ELSE pos = Digits(last) + 1
<1> SUFFICES ASSUME ~wrapped' PROVE Lines' BY DEF Lines
<1>1. /\ k \in Nat /\ k > 0 /\ call # NoCall /\ pos + k <= d + 1
      /\ pos' = pos + k /\ last' = n /\ Len(out') = pos + k /\ out' \in Seq(0 .. Base)
      /\ grown' = IF out # <<>> /\ Digits(last) < d THEN grown + 1 ELSE grown
      /\ \A j \in 1 .. pos : out'[j] = out[j]
      /\ \A j \in pos + 1 .. pos + k : out'[j] = Text(n)[j]
      /\ ~wrapped /\ state' = state
  BY ReturnSome
<1>2. /\ n \in 0 .. Word - 1 /\ d \in Nat /\ d > 0
      /\ out \in Seq(0 .. Base) /\ pos = Len(out) /\ pos \in Nat /\ state = "reading"
      /\ out # <<>> => Digits(last) \in Nat /\ Digits(last) <= d
  BY <1>1, Returning, Constants
<1>3. \A j \in 1 .. d : Text(n)[j] # Newline BY <1>2, TextDef
<1>4. Text(n)[d + 1] = Newline BY <1>2, TextDef
<1> HIDE DEF n, d
<1>5. out' # <<>> BY <1>1, <1>2
<1>6. pos' <= d + 1 /\ pos' \in 1 .. Len(out') BY <1>1, <1>2
<1>7. pos' = d + 1 => out'[pos'] = Newline
  <2>1. pos' \in pos + 1 .. pos + k BY <1>1, <1>2
  <2>2. QED BY <1>1, <1>4, <2>1
<1>8. IsFiniteSet(Newlines) /\ Cardinality(Newlines) \in Nat
  <2>1. IsFiniteSet(1 .. Len(out)) BY <1>2, FS_Interval
  <2>2. IsFiniteSet(Newlines) BY <2>1, FS_Subset DEF Newlines
  <2>3. QED BY <2>2, FS_CardinalityType
<1>9. Newlines' \subseteq (IF pos' = d + 1 THEN Newlines \cup {d + 1} ELSE Newlines)
  <2> SUFFICES ASSUME NEW j \in 1 .. Len(out'), out'[j] = Newline
               PROVE  j \in Newlines \/ (pos' = d + 1 /\ j = d + 1)
    BY DEF Newlines
  <2>1. CASE j <= pos
    <3>1. j \in 1 .. pos BY <2>1, <1>1, <1>2
    <3>2. out[j] = Newline BY <1>1, <3>1
    <3>3. QED BY <1>2, <3>1, <3>2 DEF Newlines
  <2>2. CASE ~(j <= pos)
    <3>1. j \in pos + 1 .. pos + k BY <2>2, <1>1, <1>2
    <3>2. Text(n)[j] = Newline BY <1>1, <3>1
    <3>3. ~(j \in 1 .. d) BY <1>3, <3>2
    <3>4. QED BY <1>1, <1>2, <3>1, <3>3
  <2>3. QED BY <2>1, <2>2
<1>10. Cardinality(Newlines') <= (IF pos' = d + 1 THEN Cardinality(Newlines) + 1 ELSE Cardinality(Newlines))
  <2>1. CASE pos' = d + 1
    <3>1. IsFiniteSet(Newlines \cup {d + 1}) /\ Cardinality(Newlines \cup {d + 1}) <= Cardinality(Newlines) + 1
      BY <1>8, FS_AddElement
    <3>2. Cardinality(Newlines') <= Cardinality(Newlines \cup {d + 1}) /\ Cardinality(Newlines') \in Nat
      BY <1>9, <2>1, <3>1, FS_Subset, FS_CardinalityType
    <3>3. Cardinality(Newlines \cup {d + 1}) \in Nat BY <3>1, FS_CardinalityType
    <3>4. QED BY <1>8, <2>1, <3>1, <3>2, <3>3
  <2>2. CASE pos' # d + 1
    <3>1. Cardinality(Newlines') <= Cardinality(Newlines) BY <1>8, <1>9, <2>2, FS_Subset
    <3>2. QED BY <2>2, <3>1
  <2>3. QED BY <2>1, <2>2
<1>11. Cardinality(Newlines') \in Nat
  <2>1. IsFiniteSet(1 .. Len(out')) BY <1>1, <1>2, FS_Interval
  <2>2. IsFiniteSet(Newlines') BY <2>1, FS_Subset DEF Newlines
  <2>3. QED BY <2>2, FS_CardinalityType
<1>12. Cardinality(Newlines) <= grown' /\ grown' \in Nat
  <2>1. grown \in Nat BY DEF IInv, TypeOK
  <2>2. CASE out = <<>>
    <3>1. Newlines = {} BY <2>2 DEF Newlines
    <3>2. Cardinality(Newlines) = 0 BY <3>1, FS_EmptySet
    <3>3. QED BY <1>1, <2>1, <2>2, <3>2
  <2>3. CASE out # <<>> /\ pos = Digits(last) + 1
    <3>1. Digits(last) < d BY <1>1, <1>2, <2>3
    <3>2. Cardinality(Newlines) <= grown + 1 BY <1>1, <2>3 DEF IInv, Lines
    <3>3. grown' = grown + 1 BY <1>1, <2>3, <3>1
    <3>4. QED BY <2>1, <3>2, <3>3
  <2>4. CASE out # <<>> /\ pos # Digits(last) + 1
    <3>1. Cardinality(Newlines) <= grown BY <1>1, <2>4 DEF IInv, Lines
    <3>2. QED BY <1>1, <1>8, <2>1, <3>1
  <2>5. QED BY <2>2, <2>3, <2>4
<1>13. Cardinality(Newlines') <= IF pos' = d + 1 THEN grown' + 1 ELSE grown'
  BY <1>8, <1>10, <1>11, <1>12
<1>14. Digits(last') = d /\ state' # "ended" BY <1>1, <1>2 DEF d
<1>15. Cardinality(Newlines)' = Cardinality(Newlines') OBVIOUS
<1>16. QED BY <1>1, <1>5, <1>6, <1>7, <1>13, <1>14, <1>15 DEF Lines

\* The digits given make no number later than the last piece, whose front the process
\* has from earlier clocks.
LEMMA ClockStep ==
  ASSUME IInv, NEW k \in 0 .. Available, k > 0, JiffiesReadReturn(k)
  PROVE  Clock'
<1> DEFINE n == call.shown
           d == Digits(n)
<1> SUFFICES ASSUME ~wrapped', Digits(first') = Digits(last') PROVE Clock' BY DEF Clock, Steady
<1>1. /\ k \in Nat /\ k > 0 /\ call # NoCall /\ pos + k <= d + 1
      /\ pos' = pos + k /\ last' = n /\ Len(out') = pos + k /\ out' \in Seq(0 .. Base)
      /\ first' = IF out = <<>> THEN n ELSE first
      /\ \A j \in 1 .. pos : out'[j] = out[j]
      /\ \A j \in pos + 1 .. pos + k : out'[j] = Text(n)[j]
      /\ ~wrapped
  BY ReturnSome
<1>2. /\ n \in 0 .. Word - 1 /\ d \in Nat /\ d > 0
      /\ out \in Seq(0 .. Base) /\ pos = Len(out) /\ pos \in Nat
      /\ out # <<>> => Digits(last) \in Nat /\ Digits(last) <= d
  BY <1>1, Returning, Constants
<1>3. /\ \A j \in 0 .. d : Leading(n, j) \in Nat
      /\ Leading(n, 0) = 0
      /\ \A j \in 1 .. d : /\ Leading(n, j) % Base \in 0 .. Base - 1
                           /\ Leading(n, j) = Leading(n, j - 1) * Base + (Leading(n, j) % Base)
  BY <1>2, LeadingDef
<1>4. \A j \in 1 .. d : Text(n)[j] = Leading(n, j) % Base BY <1>2, TextDef
<1>5. pos <= d /\ (\A j \in 1 .. pos : out[j] \in 0 .. Base - 1) /\ Number(out)[pos] <= Leading(n, pos)
  <2>1. CASE out = <<>>
    <3>1. pos = 0 BY <1>2, <2>1
    <3>2. Number(out)[0] = 0 BY <1>2, NumberDef
    <3>3. QED BY <1>2, <1>3, <3>1, <3>2
  <2>2. CASE out # <<>>
    <3>1. first <= last /\ last <= n BY <1>1, <2>2 DEF IInv, Ordered
    <3>2. first \in 0 .. Word - 1 /\ last \in 0 .. Word - 1 BY DEF IInv, TypeOK
    <3>3. Digits(first) = d BY <1>1, <2>2
    <3>4. Digits(first) <= Digits(last) BY <3>1, <3>2, DigitsGrow
    <3>5. Digits(last) = d BY <1>2, <2>2, <3>3, <3>4
    <3>6. Steady BY <1>1, <2>2, <3>3, <3>5 DEF Steady
    <3>7. pos <= d BY <1>1, <1>2
    <3>8. Least(Len(out), Digits(last)) = pos BY <1>2, <3>5, <3>7 DEF Least
    <3>9. (\A j \in 1 .. pos : out[j] \in 0 .. Base - 1) /\ Number(out)[pos] <= Leading(last, pos)
      BY <3>6, <3>8 DEF IInv, Clock
    <3>10. pos \in 0 .. Digits(n) BY <1>2, <3>7
    <3>11. Leading(last, pos) <= Leading(n, pos) BY <1>2, <3>1, <3>2, <3>5, <3>10, LeadingGrows
    <3>12. Leading(last, pos) \in Nat BY <3>2, <3>5, <3>10, LeadingDef
    <3>13. Number(out)[pos] \in Nat /\ Leading(n, pos) \in Nat BY <1>2, <1>3, <3>10, NumberDef
    <3>14. QED BY <3>7, <3>9, <3>11, <3>12, <3>13
  <2>3. QED BY <2>1, <2>2
<1>6. /\ Number(out')[pos] <= Leading(n, pos)
      /\ \A j \in 0 .. pos + k : Number(out')[j] \in Nat
      /\ \A j \in 0 .. pos + k - 1 : Number(out')[j + 1] = Number(out')[j] * Base + out'[j + 1]
  <2>1. Number(out')[pos] = Number(out)[pos] BY <1>1, <1>2, NumberOfFront
  <2>2. /\ \A j \in 0 .. Len(out') : Number(out')[j] \in Nat
        /\ \A j \in 0 .. Len(out') - 1 : Number(out')[j + 1] = Number(out')[j] * Base + out'[j + 1]
    BY <1>1, NumberDef
  <2>3. Len(out') = pos + k BY <1>1
  <2>4. Number(out)[pos] <= Leading(n, pos) BY <1>5
  <2> HIDE DEF n, d
  <2>5. Number(out')[pos] <= Leading(n, pos) BY <2>1, <2>4
  <2>6. \A j \in 0 .. pos + k : Number(out')[j] \in Nat BY <2>2, <2>3
  <2>7. ASSUME NEW j \in 0 .. pos + k - 1
        PROVE  Number(out')[j + 1] = Number(out')[j] * Base + out'[j + 1]
    <3>1. j \in 0 .. Len(out') - 1 BY <1>1, <1>2, <2>3
    <3>2. QED BY <2>2, <3>1, Zenon
  <2>8. QED BY <2>5, <2>6, <2>7
<1> DEFINE given == Least(Len(out'), d)
           v == Number(out')
<1> HIDE DEF n, d, v
<1>7. given \in Nat /\ pos <= given /\ given <= pos + k /\ given <= d
  BY <1>1, <1>2, <1>5 DEF Least
<1> HIDE DEF given
<1>8. \A j \in 1 .. given : out'[j] \in 0 .. Base - 1
  <2> SUFFICES ASSUME NEW j \in 1 .. given PROVE out'[j] \in 0 .. Base - 1 OBVIOUS
  <2>1. CASE j <= pos
    <3>1. j \in 1 .. pos BY <2>1, <1>2, <1>7
    <3>2. QED BY <1>1, <1>5, <3>1
  <2>2. CASE ~(j <= pos)
    <3>1. j \in pos + 1 .. pos + k /\ j \in 1 .. d BY <2>2, <1>1, <1>2, <1>7
    <3>2. QED BY <1>1, <1>3, <1>4, <3>1
  <2>3. QED BY <2>1, <2>2
<1>9. v[given] <= Leading(n, given)
  <2> DEFINE S == {i \in Nat : pos + i <= given => v[pos + i] <= Leading(n, pos + i)}
  <2>1. 0 \in S BY <1>2, <1>6 DEF v
  <2>2. ASSUME NEW i \in Nat, i \in S PROVE i + 1 \in S
    <3> DEFINE j == pos + i
    <3> SUFFICES ASSUME j + 1 <= given PROVE v[j + 1] <= Leading(n, j + 1) BY <1>2
    <3>1. /\ j \in Nat /\ j \in 0 .. pos + k - 1 /\ j \in 0 .. pos + k /\ j \in 0 .. d
          /\ j + 1 \in pos + 1 .. pos + k /\ j + 1 \in 1 .. d /\ j <= given /\ (j + 1) - 1 = j
      BY <1>1, <1>2, <1>7
    <3>2. v[j] <= Leading(n, j) BY <2>2, <3>1
    <3> HIDE DEF j
    <3>3. v[j + 1] = v[j] * Base + out'[j + 1] /\ v[j] \in Nat BY <1>6, <3>1 DEF v
    <3>4. out'[j + 1] = Leading(n, j + 1) % Base BY <1>1, <1>4, <3>1
    <3>5. /\ Leading(n, j + 1) = Leading(n, j) * Base + (Leading(n, j + 1) % Base)
          /\ Leading(n, j + 1) % Base \in Nat /\ Leading(n, j) \in Nat
      BY <1>3, <3>1, Constants
    <3>6. v[j] * Base <= Leading(n, j) * Base BY <3>2, <3>3, <3>5, TimesGrows, Constants
    <3>7. v[j] * Base \in Nat /\ Leading(n, j) * Base \in Nat BY <3>3, <3>5, Constants
    <3>8. QED BY <3>3, <3>4, <3>5, <3>6, <3>7
  <2> HIDE DEF S
  <2>3. Nat \subseteq S BY <2>1, <2>2, SetInduction
  <2>4. given - pos \in S /\ pos + (given - pos) = given BY <1>2, <1>7, <2>3
  <2>5. QED BY <1>7, <2>4 DEF S
<1>10. Least(Len(out'), Digits(last')) = given BY <1>1 DEF given, d
<1>11. Number(out') = v /\ last' = n BY <1>1 DEF v
<1>12. QED BY <1>8, <1>9, <1>10, <1>11 DEF Clock

LEMMA ReturnStep ==
  ASSUME IInv, NEW k \in 0 .. Available, JiffiesReadReturn(k)
  PROVE  IInv'
<1>1. CASE k = 0 BY <1>1, ReturnNothingStep
<1>2. CASE k # 0
  <2>0. k > 0 BY <1>2
  <2>1. /\ k \in Nat /\ call # NoCall /\ pos + k <= Digits(call.shown) + 1
        /\ call' = NoCall /\ state' = state /\ UNCHANGED <<jiffies, wrapped>>
        /\ pos' = pos + k /\ last' = call.shown
        /\ first' = IF out = <<>> THEN call.shown ELSE first
        /\ grown' = IF out # <<>> /\ Digits(last) < Digits(call.shown) THEN grown + 1 ELSE grown
        /\ out' \in Seq(0 .. Base) /\ Len(out') = pos + k
    BY <2>0, ReturnSome
  <2>2. /\ call.shown \in 0 .. Word - 1 /\ Digits(call.shown) \in 1 .. DataSize - 2
        /\ pos \in 0 .. DataSize - 1 /\ state = "reading"
    BY <2>1, Returning
  <2>3. TypeOK'
    <3>1. pos' \in 0 .. DataSize - 1 BY <2>1, <2>2, Constants
    <3>2. first' \in 0 .. Word - 1 /\ last' \in 0 .. Word - 1 BY <2>1, <2>2 DEF IInv, TypeOK
    <3>3. grown' \in Nat BY <2>1 DEF IInv, TypeOK
    <3>4. QED BY <2>1, <3>1, <3>2, <3>3 DEF IInv, TypeOK
  <2>4. Bytes'
    <3>1. out' # <<>> BY <2>0, <2>1, <2>2, Constants
    <3>2. QED BY <2>1, <3>1 DEF Bytes
  <2>5. Ordered'
    <3> SUFFICES ASSUME ~wrapped PROVE Ordered' BY <2>1 DEF Ordered
    <3>1. call.shown <= jiffies BY <2>1 DEF IInv, Ordered
    <3>2. first' <= last'
      <4>1. CASE out = <<>> BY <2>1, <2>2, <4>1, Constants
      <4>2. CASE out # <<>>
        <5>1. first <= last /\ last <= call.shown BY <2>1, <4>2 DEF IInv, Ordered
        <5>2. first \in Nat /\ last \in Nat /\ call.shown \in Nat
          BY <2>2, Constants DEF IInv, TypeOK
        <5>3. QED BY <2>1, <4>2, <5>1, <5>2
      <4>3. QED BY <4>1, <4>2
    <3>3. QED BY <2>1, <3>1, <3>2 DEF Ordered
  <2>6. Lines' /\ Clock' BY <2>0, LinesStep, ClockStep
  <2>7. QED BY <2>3, <2>4, <2>5, <2>6 DEF IInv
<1>3. QED BY <1>1, <1>2

-----------------------------------------------------------------------------
(* The theorems.                                                           *)

LEMMA NextStep ==
  ASSUME IInv, [Next]_vars
  PROVE  IInv'
<1>1. CASE Tick BY <1>1, TickStep
<1>2. CASE Open BY <1>2, OpenStep
<1>3. CASE Read BY <1>3, EnterStep, ReturnStep DEF Read
<1>4. CASE UNCHANGED vars
  BY <1>4 DEF vars, IInv, TypeOK, Bytes, Ordered, Lines, Clock, Steady, Newlines
<1>5. QED BY <1>1, <1>2, <1>3, <1>4 DEF Next

LEMMA Invariant == Spec => []IInv
<1>1. Init => IInv BY InitInv
<1>2. IInv /\ [Next]_vars => IInv' BY NextStep
<1>3. QED BY <1>1, <1>2, PTL DEF Spec

\* jiffies_read prints no more than its array holds, and the position of the file stays
\* within the longest text.
THEOREM TypeCorrect == Spec => []TypeOK
<1>1. IInv => TypeOK BY DEF IInv
<1>2. QED BY <1>1, Invariant, PTL

\* A process that reads the clock in pieces never puts together a later time than
\* jiffies_read printed last.
THEOREM TimeHasCome == Spec => []NeverAhead
<1>1. IInv => NeverAhead
  <2> SUFFICES ASSUME IInv, Steady PROVE NeverAhead BY DEF NeverAhead
  <2>1. Len(out) <= Digits(last) + 1 BY DEF IInv, Bytes, Lines, Steady
  <2>2. \A b \in 0 .. Base - 1 : b # Newline BY Constants DEF Newline
  <2>3. QED BY <2>1, <2>2 DEF IInv, Clock, NeverAhead
<1>2. QED BY <1>1, Invariant, PTL

\* It is told the end of the file behind a newline, and has no more newlines than the
\* clock grew digits while it read, and one.
THEOREM EndsWithNewline == Spec => []NewlineAtEnd
<1>1. IInv => NewlineAtEnd
  <2> SUFFICES ASSUME IInv, ~wrapped
               PROVE  /\ Cardinality(Newlines) <= 1 + grown
                      /\ state = "ended" => out # <<>> /\ out[Len(out)] = Newline
    BY DEF NewlineAtEnd
  <2>1. grown \in Nat BY DEF IInv, TypeOK
  <2>2. Cardinality(Newlines) <= 1 + grown
    <3>1. CASE out = <<>>
      <4>1. Newlines = {} BY <3>1 DEF Newlines
      <4>2. QED BY <2>1, <4>1, FS_EmptySet
    <3>2. CASE out # <<>>
      <4>1. Cardinality(Newlines) <= IF pos = Digits(last) + 1 THEN grown + 1 ELSE grown
        BY <3>2 DEF IInv, Lines
      <4>2. Cardinality(Newlines) \in Nat
        <5>1. IsFiniteSet(1 .. Len(out)) BY FS_Interval DEF IInv, TypeOK
        <5>2. IsFiniteSet(Newlines) BY <5>1, FS_Subset DEF Newlines
        <5>3. QED BY <5>2, FS_CardinalityType
      <4>3. QED BY <2>1, <4>1, <4>2
    <3>3. QED BY <3>1, <3>2
  <2>3. QED BY <2>2 DEF IInv, Lines, Bytes
<1>2. QED BY <1>1, Invariant, PTL
=============================================================================
