---------------------------- MODULE DataInduction ----------------------------
(***************************************************************************)
(* Induction over the natural numbers, said of sets instead of predicates: *)
(* a set plays the part of the predicate {n \in Nat : P(n)}, and a         *)
(* function that of the step of a recursion.  The proofs of JiffiesFile    *)
(* and UsbTransfer take from here that their recursive functions are what  *)
(* their definitions say, and UsbTransfer's also the arithmetic of numbers *)
(* of two bytes.                                                           *)
(***************************************************************************)
EXTENDS Integers, WellFoundedInduction, TLAPS

LEMMA LeastMember ==
  ASSUME NEW S \in SUBSET Nat, S # {}
  PROVE  \E m \in S : \A k \in S : m <= k
<1> DEFINE R == OpToRel(<, Nat)
<1>1. IsWellFoundedOn(R, Nat) BY NatLessThanWellFounded
<1>2. \A x, y : <<x, y>> \in R <=> x \in Nat /\ y \in Nat /\ x < y BY DEF OpToRel
<1> HIDE DEF R
<1>3. PICK m \in S : \A k \in S : ~(<<k, m>> \in R) BY <1>1, WFMin
<1>4. m \in Nat /\ S \subseteq Nat OBVIOUS
<1>5. \A k \in S : ~(k < m) BY <1>2, <1>3, <1>4
<1>6. QED BY <1>4, <1>5

LEMMA SetInduction ==
  ASSUME NEW S, 0 \in S, \A n \in Nat : n \in S => n + 1 \in S
  PROVE  Nat \subseteq S
<1> SUFFICES ASSUME Nat \ S # {} PROVE FALSE OBVIOUS
<1>1. PICK m \in Nat \ S : \A k \in Nat \ S : m <= k BY LeastMember
<1>2. m - 1 \in Nat /\ ~(m <= m - 1) BY <1>1
<1>3. m - 1 \in S BY <1>1, <1>2
<1>4. QED BY <1>2, <1>3

LEMMA RangeInduction ==
  ASSUME NEW S, NEW n \in Nat, 0 \in S, \A k \in 0 .. n - 1 : k \in S => k + 1 \in S
  PROVE  0 .. n \subseteq S
<1> DEFINE T == {k \in Nat : k <= n => k \in S}
<1>1. 0 \in T OBVIOUS
<1>2. \A k \in Nat : k \in T => k + 1 \in T OBVIOUS
<1> HIDE DEF T
<1>3. Nat \subseteq T BY <1>1, <1>2, SetInduction
<1>4. QED BY <1>3 DEF T

-----------------------------------------------------------------------------
(* Numbers of two bytes.                                                   *)

LEMMA SmallRemainder ==
  ASSUME NEW x \in Nat, x < 65536
  PROVE  x % 65536 = x
BY SMTT(30)

LEMMA WordInRange ==
  ASSUME NEW x \in 0 .. 256 * 256 - 1
  PROVE  x \in Nat /\ x % (256 * 256) = x
<1>1. 256 * 256 = 65536 OBVIOUS
<1>2. x \in Nat /\ x < 65536 BY <1>1
<1>3. x % 65536 = x BY <1>2, SmallRemainder
<1>4. QED BY <1>1, <1>2, <1>3, SMTT(30)

LEMMA UpTo ==
  ASSUME NEW n \in Nat, NEW x \in Nat, x <= n
  PROVE  x \in 0 .. n
OBVIOUS

LEMMA WordOfBytes ==
  ASSUME NEW a \in 0 .. 255, NEW b \in 0 .. 255
  PROVE  a * 256 + b \in 0 .. 256 * 256 - 1
<1>1. a \in Nat /\ a <= 255 /\ b \in Nat /\ b <= 255 OBVIOUS
<1>2. a * 256 + b \in Nat BY <1>1
<1>3. a * 256 + b <= 256 * 256 - 1 BY <1>1
<1>4. 256 * 256 - 1 \in Nat OBVIOUS
<1> DEFINE x == a * 256 + b
           n == 256 * 256 - 1
<1>5. x \in Nat /\ x <= n /\ n \in Nat BY <1>2, <1>3, <1>4
<1> HIDE DEF x, n
<1>6. x \in 0 .. n BY <1>5, UpTo
<1>7. QED BY <1>6 DEF x, n

LEMMA WordAndEight ==
  ASSUME NEW x \in 0 .. 256 * 256 - 1, NEW m \in Nat, 8 + 256 * 256 - 1 <= m
  PROVE  8 + x \in 0 .. m
<1>1. 256 * 256 - 1 = 65535 OBVIOUS
<1>2. x \in Nat /\ x <= 65535 BY <1>1
<1>3. 8 + 65535 <= m BY <1>1
<1>4. 8 + x \in Nat /\ 8 + x <= m BY <1>2, <1>3
<1>5. QED BY <1>4, UpTo

-----------------------------------------------------------------------------
(* Recursion.                                                              *)

\* g is the recursion from c by the step h, up to n.
Follows(g, c, h, n) == g[0] = c /\ \A k \in 0 .. n - 1 : g[k + 1] = h[<<g[k], k>>]

LEMMA FollowsUnique ==
  ASSUME NEW f, NEW g, NEW c, NEW h, NEW m \in Nat, NEW n \in Nat,
         Follows(f, c, h, m), Follows(g, c, h, n), m <= n
  PROVE  \A k \in 0 .. m : f[k] = g[k]
<1> DEFINE S == {k \in 0 .. m : f[k] = g[k]}
<1>1. 0 \in S BY DEF Follows
<1>2. ASSUME NEW k \in 0 .. m - 1, k \in S PROVE k + 1 \in S
  <2>1. f[k + 1] = h[<<f[k], k>>] BY DEF Follows
  <2>2. k \in 0 .. n - 1 OBVIOUS
  <2>3. g[k + 1] = h[<<g[k], k>>] BY <2>2 DEF Follows
  <2>4. QED BY <1>2, <2>1, <2>3
<1> HIDE DEF S
<1>3. 0 .. m \subseteq S BY <1>1, <1>2, RangeInduction
<1>4. QED BY <1>3 DEF S

LEMMA FollowsExists ==
  ASSUME NEW V, NEW c \in V, NEW h \in [V \X Nat -> V], NEW n \in Nat
  PROVE  \E g \in [0 .. n -> V] : Follows(g, c, h, n)
<1> DEFINE S == {k \in Nat : \E g \in [0 .. k -> V] : Follows(g, c, h, k)}
<1>1. 0 \in S
  <2>1. Follows([k \in 0 .. 0 |-> c], c, h, 0) BY DEF Follows
  <2>2. QED BY <2>1
<1>2. ASSUME NEW k \in Nat, k \in S PROVE k + 1 \in S
  <2>1. PICK g \in [0 .. k -> V] : Follows(g, c, h, k) BY <1>2
  <2> DEFINE f == [j \in 0 .. k + 1 |-> IF j <= k THEN g[j] ELSE h[<<g[k], k>>]]
  <2>2. g[k] \in V /\ h[<<g[k], k>>] \in V OBVIOUS
  <2>3. f \in [0 .. k + 1 -> V] BY <2>2
  <2>4. f[0] = c BY <2>1 DEF Follows
  <2>5. ASSUME NEW j \in 0 .. (k + 1) - 1 PROVE f[j + 1] = h[<<f[j], j>>]
    <3>1. CASE j < k
      <4>1. j \in 0 .. k - 1 /\ j + 1 \in 0 .. k /\ j \in 0 .. k BY <3>1
      <4>2. f[j + 1] = g[j + 1] /\ f[j] = g[j] BY <4>1
      <4>3. QED BY <2>1, <4>1, <4>2 DEF Follows
    <3>2. CASE ~(j < k)
      <4>1. j = k BY <3>2
      <4>2. f[j + 1] = h[<<g[k], k>>] /\ f[j] = g[k] BY <4>1
      <4>3. QED BY <4>1, <4>2
    <3>3. QED BY <3>1, <3>2
  <2> HIDE DEF f
  <2>6. Follows(f, c, h, k + 1) BY <2>4, <2>5 DEF Follows
  <2>7. QED BY <2>3, <2>6
<1> HIDE DEF S
<1>3. Nat \subseteq S BY <1>1, <1>2, SetInduction
<1>4. n \in S BY <1>3
<1>5. QED BY <1>4 DEF S

\* g is that recursion without end.
Recursion(g, c, h) == g[0] = c /\ \A k \in Nat : g[k + 1] = h[<<g[k], k>>]

LEMMA RecursionExists ==
  ASSUME NEW V, NEW c \in V, NEW h \in [V \X Nat -> V]
  PROVE  \E g \in [Nat -> V] : Recursion(g, c, h)
<1> DEFINE upto(n) == CHOOSE f \in [0 .. n -> V] : Follows(f, c, h, n)
           g == [n \in Nat |-> upto(n)[n]]
<1>1. ASSUME NEW n \in Nat PROVE upto(n) \in [0 .. n -> V] /\ Follows(upto(n), c, h, n)
  BY FollowsExists
<1> HIDE DEF upto
<1>2. ASSUME NEW n \in Nat PROVE upto(n)[n] \in V BY <1>1
<1>3. g \in [Nat -> V] BY <1>2
<1>4. g[0] = c BY <1>1 DEF Follows
<1>5. ASSUME NEW k \in Nat PROVE g[k + 1] = h[<<g[k], k>>]
  <2>1. Follows(upto(k), c, h, k) /\ Follows(upto(k + 1), c, h, k + 1) BY <1>1
  <2>2. k \in 0 .. (k + 1) - 1 /\ k \in 0 .. k /\ k <= k + 1 /\ k + 1 \in Nat OBVIOUS
  <2>3. upto(k)[k] = upto(k + 1)[k] BY <2>1, <2>2, FollowsUnique
  <2>4. upto(k + 1)[k + 1] = h[<<upto(k + 1)[k], k>>] BY <2>1, <2>2 DEF Follows
  <2>5. QED BY <2>2, <2>3, <2>4
<1> HIDE DEF g
<1>6. Recursion(g, c, h) BY <1>4, <1>5 DEF Recursion
<1>7. QED BY <1>3, <1>6
=============================================================================
