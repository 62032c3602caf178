----------------------------- MODULE NatProofs -----------------------------
(***************************************************************************)
(* Facts about natural numbers that several proofs need: least elements,   *)
(* induction and recursion up to a bound (the library states these for     *)
(* operators, here they are about sets and functions), and quotients and   *)
(* remainders.                                                             *)
(***************************************************************************)
EXTENDS Integers, WellFoundedInduction, TLAPS

Below == {p \in Nat \X Nat : p[1] < p[2]}

(* A set of naturals that is not empty has a least element. *)
LEMMA LeastNat ==
    ASSUME NEW T, T \subseteq Nat, T # {}
    PROVE  \E m \in T : \A n \in T : m <= n
<1>1. IsWellFoundedOn(Below, Nat)
    BY NatLessThanWellFounded DEF OpToRel, Below
<1>2. PICK m \in T : \A n \in T : ~ (<<n, m>> \in Below)
    BY <1>1, WFMin, Zenon
<1>3. \A n \in T : ~ (n < m)
    BY <1>2 DEF Below
<1> QED
    BY <1>3

(* A set of naturals up to a bound that is not empty has a greatest element. *)
LEMMA GreatestNat ==
    ASSUME NEW T, NEW B \in Nat, T \subseteq 0 .. B, T # {}
    PROVE  \E m \in T : \A n \in T : n <= m
<1> DEFINE D == {B - n : n \in T}
<1>0. \A n \in T : n \in Nat /\ B - n \in Nat /\ B - n \in D
    OBVIOUS
<1>1. D \subseteq Nat /\ D # {}
    BY <1>0
<1>2. PICK d \in D : \A e \in D : d <= e
    BY <1>1, LeastNat, Zenon
<1>3. PICK m \in T : d = B - m
    BY <1>2
<1>4. \A n \in T : d <= B - n
    BY <1>0, <1>2
<1>5. \A n \in T : n <= m
    BY <1>0, <1>3, <1>4
<1> QED
    BY <1>5

(* What holds of 0 and passes from each number to the next up to N holds of
   all of them. *)
LEMMA InductUpTo ==
    ASSUME NEW N \in Nat, NEW T, 0 \in T, \A n \in 0 .. N - 1 : n \in T => n + 1 \in T
    PROVE  \A n \in 0 .. N : n \in T
<1> DEFINE Out == {n \in 0 .. N : n \notin T}
<1>1. Out \subseteq Nat
    OBVIOUS
<1>2. ASSUME Out # {} PROVE FALSE
  <2>1. PICK m \in Out : \A n \in Out : m <= n
    BY <1>1, <1>2, LeastNat, Zenon
  <2>2. m \in 1 .. N /\ m \notin T
    BY <2>1
  <2>3. m - 1 \in 0 .. N - 1 /\ m - 1 \notin Out
    BY <2>1, <2>2
  <2>4. m - 1 \in T /\ (m - 1) + 1 = m
    BY <2>2, <2>3
  <2> QED BY <2>2, <2>3, <2>4
<1> QED
    BY <1>2

Iterates(f, N, base, F) == f[0] = base /\ \A n \in 1 .. N : f[n] = F[<<n, f[n - 1]>>]

(* A function can be defined by recursion up to N: its value at n from n and
   its value at n - 1. *)
LEMMA Iterate ==
    ASSUME NEW N \in Nat, NEW S, NEW base \in S, NEW F \in [(1 .. N) \X S -> S]
    PROVE  \E f \in [0 .. N -> S] : Iterates(f, N, base, F)
<1> DEFINE T == {m \in 0 .. N : \E f \in [0 .. m -> S] : Iterates(f, m, base, F)}
<1>1. 0 \in T
  <2>1. Iterates([n \in 0 .. 0 |-> base], 0, base, F)
    BY DEF Iterates
  <2>2. [n \in 0 .. 0 |-> base] \in [0 .. 0 -> S]
    OBVIOUS
  <2>3. \E f \in [0 .. 0 -> S] : Iterates(f, 0, base, F)
    BY <2>1, <2>2
  <2> QED BY <2>3
<1>2. ASSUME NEW m \in 0 .. N - 1, m \in T PROVE m + 1 \in T
  <2>1. PICK f \in [0 .. m -> S] : Iterates(f, m, base, F)
    BY <1>2
  <2> DEFINE g == [n \in 0 .. m + 1 |-> IF n = m + 1 THEN F[<<n, f[m]>>] ELSE f[n]]
  <2>2. F[<<m + 1, f[m]>>] \in S
    BY <2>1
  <2>3. g \in [0 .. m + 1 -> S] /\ g[0] = base
    BY <2>1, <2>2 DEF Iterates
  <2>4. ASSUME NEW n \in 1 .. m + 1 PROVE g[n] = F[<<n, g[n - 1]>>]
    <3>1. CASE n = m + 1
      BY <3>1
    <3>2. CASE n # m + 1
      BY <2>1, <3>2 DEF Iterates
    <3> QED BY <3>1, <3>2
  <2>5. Iterates(g, m + 1, base, F)
    BY <2>3, <2>4 DEF Iterates
  <2> HIDE DEF g
  <2>6. \E h \in [0 .. m + 1 -> S] : Iterates(h, m + 1, base, F)
    BY <2>3, <2>5
  <2> QED BY <2>6
<1> HIDE DEF T
<1>3. \A m \in 0 .. N : m \in T
    BY <1>1, <1>2, InductUpTo, Zenon
<1> QED
    BY <1>3 DEF T

-----------------------------------------------------------------------------
(* Quotient and remainder by a positive number. *)

(* A number is the quotient times the divisor and the remainder. *)
LEMMA DivMod ==
    ASSUME NEW a \in Nat, NEW b \in Nat \ {0}
    PROVE  /\ a \div b \in Nat /\ a % b \in 0 .. b - 1
           /\ a = (a \div b) * b + (a % b) /\ (a \div b) * b \in Nat
<1>1. a \div b \in Nat /\ a % b \in 0 .. b - 1
    BY SMT
<1>2. a = b * (a \div b) + (a % b)
    BY SMT
<1>3. b * (a \div b) = (a \div b) * b /\ (a \div b) * b \in Nat
    BY <1>1, SMT
<1> QED
    BY <1>1, <1>2, <1>3

(* Products keep the order. *)
LEMMA TimesMonotone ==
    ASSUME NEW a \in Nat, NEW b \in Nat, NEW c \in Nat, a <= b
    PROVE  a * c <= b * c
BY SMT

(* There is only one such quotient and remainder. *)
LEMMA DivModIs ==
    ASSUME NEW a \in Nat, NEW b \in Nat \ {0}, NEW q \in Nat, NEW r \in 0 .. b - 1, a = q * b + r
    PROVE  a \div b = q /\ a % b = r
<1> DEFINE p == a \div b
           s == a % b
<1>1. p \in Nat /\ s \in 0 .. b - 1 /\ a = p * b + s
    BY DivMod, Zenon
<1> HIDE DEF p, s
<1>2. p * b \in Nat /\ q * b \in Nat
    BY <1>1
<1>3. ~(p + 1 <= q)
  <2>1. SUFFICES ASSUME p + 1 <= q PROVE FALSE
    OBVIOUS
  <2>2. (p + 1) * b <= q * b
    BY <1>1, <2>1, TimesMonotone
  <2>3. (p + 1) * b = p * b + b
    BY <1>1
  <2> QED BY <1>1, <1>2, <2>2, <2>3
<1>4. ~(q + 1 <= p)
  <2>1. SUFFICES ASSUME q + 1 <= p PROVE FALSE
    OBVIOUS
  <2>2. (q + 1) * b <= p * b
    BY <1>1, <2>1, TimesMonotone
  <2>3. (q + 1) * b = q * b + b
    BY <1>1
  <2> QED BY <1>1, <1>2, <2>2, <2>3
<1>5. p = q
    BY <1>1, <1>3, <1>4
<1> QED
    BY <1>1, <1>2, <1>5 DEF p, s

(* Counting on by one. *)
LEMMA DivStep ==
    ASSUME NEW a \in Nat, NEW b \in Nat \ {0}
    PROVE  /\ (a + 1) % b = 0 => a % b = b - 1 /\ (a + 1) \div b = (a \div b) + 1
           /\ (a + 1) % b # 0 => (a + 1) % b = (a % b) + 1 /\ (a + 1) \div b = (a \div b)
<1> DEFINE q == a \div b
           r == a % b
<1>1. q \in Nat /\ r \in 0 .. b - 1 /\ a = q * b + r /\ q * b \in Nat
    BY DivMod, Zenon
<1> HIDE DEF q, r
<1>2. CASE r = b - 1
  <2>1. a + 1 = (q + 1) * b + 0
    BY <1>1, <1>2
  <2>2. (a + 1) \div b = q + 1 /\ (a + 1) % b = 0
    BY <1>1, <2>1, DivModIs
  <2> QED BY <1>2, <2>2 DEF q, r
<1>3. CASE r # b - 1
  <2>1. a + 1 = q * b + (r + 1) /\ r + 1 \in 0 .. b - 1
    BY <1>1, <1>3
  <2>2. (a + 1) \div b = q /\ (a + 1) % b = r + 1
    BY <1>1, <2>1, DivModIs
  <2> QED BY <1>1, <2>2 DEF q, r
<1> QED
    BY <1>2, <1>3

(* Adding whole divisors. *)
LEMMA DivAddWhole ==
    ASSUME NEW a \in Nat, NEW b \in Nat \ {0}, NEW m \in Nat
    PROVE  (a + m * b) \div b = (a \div b) + m /\ (a + m * b) % b = a % b
<1> DEFINE q == a \div b
           r == a % b
<1>1. q \in Nat /\ r \in 0 .. b - 1 /\ a = q * b + r /\ q * b \in Nat
    BY DivMod, Zenon
<1> HIDE DEF q, r
<1>0. m * b \in Nat
    OBVIOUS
<1>2. (q + m) * b = q * b + m * b
    BY <1>1
<1>3. a + m * b \in Nat /\ q + m \in Nat /\ a + m * b = (q + m) * b + r
    BY <1>1, <1>2
<1>4. (a + m * b) \div b = q + m /\ (a + m * b) % b = r
    BY <1>1, <1>3, DivModIs
<1> QED
    BY <1>4 DEF q, r

(* The remainder of a sum needs only the remainder of a summand. *)
LEMMA ModOfSum ==
    ASSUME NEW a \in Nat, NEW b \in Nat \ {0}, NEW c \in Nat
    PROVE  ((a % b) + c) % b = (a + c) % b
<1> DEFINE q == a \div b
           r == a % b
<1>1. q \in Nat /\ r \in 0 .. b - 1 /\ a = q * b + r /\ q * b \in Nat
    BY DivMod, Zenon
<1> HIDE DEF q, r
<1>2. r + c \in Nat /\ a + c = (r + c) + q * b
    BY <1>1
<1>3. ((r + c) + q * b) % b = (r + c) % b
    BY <1>1, <1>2, DivAddWhole
<1> QED
    BY <1>2, <1>3 DEF r

(* Numbers less than a divisor apart have different remainders. *)
LEMMA ModApart ==
    ASSUME NEW a \in Nat, NEW c \in Nat, NEW b \in Nat \ {0}, a <= c, c - a < b, a % b = c % b
    PROVE  a = c
<1> DEFINE q == a \div b
           p == c \div b
           r == a % b
<1>1. q \in Nat /\ r \in 0 .. b - 1 /\ a = q * b + r /\ q * b \in Nat
    BY DivMod, Zenon
<1>2. p \in Nat /\ c = p * b + r /\ p * b \in Nat
    BY DivMod, Zenon
<1> HIDE DEF p, q, r
<1>3. q * b <= p * b /\ p * b - q * b < b
    BY <1>1, <1>2
<1>4. ~(q + 1 <= p)
  <2>1. SUFFICES ASSUME q + 1 <= p PROVE FALSE
    OBVIOUS
  <2>2. (q + 1) * b <= p * b
    BY <1>1, <1>2, <2>1, TimesMonotone
  <2>3. (q + 1) * b = q * b + b
    BY <1>1
  <2> QED BY <1>1, <1>2, <1>3, <2>2, <2>3
<1>5. ~(p + 1 <= q)
  <2>1. SUFFICES ASSUME p + 1 <= q PROVE FALSE
    OBVIOUS
  <2>2. (p + 1) * b <= q * b
    BY <1>1, <1>2, <2>1, TimesMonotone
  <2>3. (p + 1) * b = p * b + b
    BY <1>2
  <2> QED BY <1>1, <1>2, <1>3, <2>2, <2>3
<1> QED
    BY <1>1, <1>2, <1>4, <1>5

(* Division keeps the order. *)
LEMMA DivMonotone ==
    ASSUME NEW a \in Nat, NEW c \in Nat, NEW b \in Nat \ {0}, a <= c
    PROVE  a \div b <= c \div b
<1> DEFINE q == a \div b
           p == c \div b
           r == a % b
           s == c % b
<1>1. q \in Nat /\ r \in 0 .. b - 1 /\ a = q * b + r /\ q * b \in Nat
    BY DivMod, Zenon
<1>2. p \in Nat /\ s \in 0 .. b - 1 /\ c = p * b + s /\ p * b \in Nat
    BY DivMod, Zenon
<1> HIDE DEF p, q, r, s
<1>3. ~(p + 1 <= q)
  <2>1. SUFFICES ASSUME p + 1 <= q PROVE FALSE
    OBVIOUS
  <2>2. (p + 1) * b <= q * b
    BY <1>1, <1>2, <2>1, TimesMonotone
  <2>3. (p + 1) * b = p * b + b
    BY <1>2
  <2> QED BY <1>1, <1>2, <2>2, <2>3
<1> QED
    BY <1>1, <1>2, <1>3 DEF p, q
(* The last place of a piece that lies inside a sequence. *)
LEMMA EndsInside ==
  ASSUME NEW p \in Nat, NEW J \in Nat, NEW R \in Nat \ {0}, NEW N \in Nat, NEW L \in Nat,
         J + R <= N, p + N <= L
  PROVE  p + J + R - 1 \in 0 .. L - 1
OBVIOUS

=============================================================================
