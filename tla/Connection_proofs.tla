---------------------------- MODULE Connection_proofs ---------------------------
(***************************************************************************)
(* Theorems about what passes over a connection: about Framing and Wire,   *)
(* for every size of a frame, every width of a field, every way the bytes  *)
(* are cut and every set of messages; and about EnvelopeAuth, for every    *)
(* set of envelopes and of connection threads, every size of the cache and *)
(* every bound.                                                            *)
(***************************************************************************)
EXTENDS EnvelopeAuth, Wire, FiniteSetTheorems, SequenceTheorems, WellFoundedInduction, TLAPS

-------------------------------------------------------------------------------
\* Recursion over the numbers up to some n.

LEMMA Least ==
  ASSUME NEW T \in SUBSET Nat, T # {}
  PROVE  \E m \in T : \A k \in T : m <= k
<1> DEFINE R == OpToRel(<, Nat)
<1>1. IsWellFoundedOn(R, Nat)
  BY NatLessThanWellFounded
<1>2. \A x, y \in Nat : <<x, y>> \in R <=> x < y
  BY DEF OpToRel
<1> HIDE DEF R
<1>3. PICK m \in T : \A k \in T : ~(<<k, m>> \in R)
  BY <1>1, WFMin
<1>4. ASSUME NEW k \in T PROVE m <= k
  <2>1. k \in Nat /\ m \in Nat
    OBVIOUS
  <2>2. ~(<<k, m>> \in R)
    BY <1>3
  <2>3. ~(k < m)
    BY <1>2, <2>1, <2>2, Zenon
  <2> QED BY <2>1, <2>3
<1> QED BY <1>4

\* What holds of 0, and of every number up to n if of the one before it, holds
\* of all of them.
LEMMA Induction ==
  ASSUME NEW n \in Nat, NEW G \in SUBSET (0 .. n), 0 \in G,
         \A i \in 1 .. n : i - 1 \in G => i \in G
  PROVE  G = 0 .. n
<1> DEFINE T == (0 .. n) \ G
<1>1. SUFFICES ASSUME T # {} PROVE FALSE
  OBVIOUS
<1>2. PICK m \in T : \A k \in T : m <= k
  <2>1. T \in SUBSET Nat
    OBVIOUS
  <2> HIDE DEF T
  <2> QED BY <1>1, <2>1, Least
<1>3. m \in 1 .. n
  OBVIOUS
<1>4. m - 1 \in 0 .. n /\ m - 1 \notin T
  BY <1>2, <1>3
<1> QED BY <1>3, <1>4

StepsOn(n, S) == [(1 .. n) \X S -> S]

Iterates(f, base, n, G) == f[0] = base /\ \A i \in 1 .. n : f[i] = G[<<i, f[i - 1]>>]

\* A function defined by recursion exists, and only one.
LEMMA Iteration ==
  ASSUME NEW S, NEW base \in S, NEW n \in Nat, NEW G \in StepsOn(n, S)
  PROVE  \E f \in [0 .. n -> S] : Iterates(f, base, n, G)
<1> USE DEF StepsOn, Iterates
<1> DEFINE Upto(k, f) == f[0] = base /\ \A i \in 1 .. k : f[i] = G[<<i, f[i - 1]>>]
           D == {k \in 0 .. n : \E f \in [0 .. k -> S] : Upto(k, f)}
<1>1. 0 \in D
  <2>1. [i \in 0 .. 0 |-> base] \in [0 .. 0 -> S] /\ Upto(0, [i \in 0 .. 0 |-> base])
    OBVIOUS
  <2> HIDE DEF Upto
  <2> QED BY <2>1
<1>2. ASSUME NEW k \in 1 .. n, k - 1 \in D PROVE k \in D
  <2>1. PICK f \in [0 .. k - 1 -> S] : Upto(k - 1, f)
    BY <1>2
  <2> DEFINE g == [i \in 0 .. k |-> IF i = k THEN G[<<k, f[k - 1]>>] ELSE f[i]]
  <2>2. G[<<k, f[k - 1]>>] \in S
    <3>1. f[k - 1] \in S
      OBVIOUS
    <3>2. <<k, f[k - 1]>> \in (1 .. n) \X S
      BY <3>1
    <3> QED BY <3>2
  <2>3. g \in [0 .. k -> S]
    BY <2>2
  <2>4. g[0] = base
    BY <2>1
  <2>5. ASSUME NEW i \in 1 .. k PROVE g[i] = G[<<i, g[i - 1]>>]
    <3>1. CASE i = k
      <4>1. g[k - 1] = f[k - 1] /\ g[k] = G[<<k, f[k - 1]>>]
        OBVIOUS
      <4> HIDE DEF g
      <4> QED BY <3>1, <4>1
    <3>2. CASE i # k
      <4>1. i \in 1 .. k - 1 /\ i - 1 \in 0 .. k - 1 /\ g[i] = f[i] /\ g[i - 1] = f[i - 1]
        BY <3>2
      <4> QED BY <2>1, <4>1
    <3> QED BY <3>1, <3>2
  <2> HIDE DEF g
  <2> QED BY <2>3, <2>4, <2>5
<1>3. n \in D
  <2> HIDE DEF D
  <2>1. D \in SUBSET (0 .. n)
    BY DEF D
  <2> QED BY <1>1, <1>2, <2>1, Induction
<1> QED BY <1>3

Agree(f, g, n) == f[0] = g[0] /\ \A i \in 1 .. n : f[i - 1] = g[i - 1] => f[i] = g[i]

LEMMA IterationUnique ==
  ASSUME NEW n \in Nat, NEW f, NEW g, Agree(f, g, n)
  PROVE  f[n] = g[n]
<1> DEFINE D == {i \in 0 .. n : f[i] = g[i]}
<1>1. 0 \in D /\ \A i \in 1 .. n : i - 1 \in D => i \in D
  BY DEF Agree
<1>2. D \in SUBSET (0 .. n)
  OBVIOUS
<1> HIDE DEF D
<1>3. D = 0 .. n
  BY <1>1, <1>2, Induction
<1> QED BY <1>3 DEF D

-------------------------------------------------------------------------------
\* Numbers and their digits.

LEMMA PowerUpto ==
  ASSUME NEW w \in Nat
  PROVE  \E f \in [0 .. w -> Nat \ {0}] : /\ f[0] = 1 /\ \A i \in 1 .. w : f[i] = Base * f[i - 1]
                                          /\ f[w] = Power(w)
<1> DEFINE P == Nat \ {0}
           G == [x \in (1 .. w) \X P |-> Base * x[2]]
<1>1. G \in StepsOn(w, P) /\ 1 \in P
  BY CodecAssumption DEF StepsOn
<1>2. \A i \in 1 .. w, x \in P : G[<<i, x>>] = Base * x
  OBVIOUS
<1> HIDE DEF G
<1>3. PICK f \in [0 .. w -> P] : Iterates(f, 1, w, G)
  <2> HIDE DEF P
  <2> QED BY <1>1, Iteration
<1>4. f[0] = 1 /\ \A i \in 1 .. w : f[i] = Base * f[i - 1]
  <2>1. ASSUME NEW i \in 1 .. w PROVE f[i] = Base * f[i - 1]
    <3>1. i - 1 \in 0 .. w
      OBVIOUS
    <3> HIDE DEF P
    <3>2. f[i - 1] \in P
      BY <3>1
    <3>3. f[i] = G[<<i, f[i - 1]>>]
      BY <1>3 DEF Iterates
    <3> QED BY <1>2, <3>2, <3>3, Zenon
  <2> HIDE DEF P
  <2> QED BY <1>3, <2>1 DEF Iterates
<1> DEFINE Upto(g) == g = [i \in 0 .. w |-> IF i = 0 THEN 1 ELSE Base * g[i - 1]]
           h == CHOOSE g : Upto(g)
<1>5. Upto(f)
  BY <1>4
<1>6. Upto(h)
  <2> HIDE DEF Upto
  <2> QED BY <1>5, Zenon
<1>7. Power(w) = h[w]
  BY DEF Power
<1> HIDE DEF h
<1>8. h[0] = f[0]
  BY <1>4, <1>6
<1>9. \A i \in 1 .. w : h[i - 1] = f[i - 1] => h[i] = f[i]
  BY <1>4, <1>6
<1>10. h[w] = f[w]
  <2> HIDE DEF P
  <2>1. Agree(h, f, w)
    BY <1>8, <1>9, Zenon DEF Agree
  <2> QED BY <2>1, IterationUnique
<1> QED BY <1>4, <1>7, <1>10

LEMMA PowerSteps ==
  /\ Power(0) = 1
  /\ \A w \in Nat : Power(w) \in Nat \ {0} /\ Power(w + 1) = Base * Power(w)
<1>1. Power(0) = 1
  BY PowerUpto
<1>2. ASSUME NEW w \in Nat PROVE Power(w) \in Nat \ {0} /\ Power(w + 1) = Base * Power(w)
  <2> DEFINE P == Nat \ {0}
             v == w + 1
  <2>1. PICK f \in [0 .. w -> P] : /\ f[0] = 1 /\ \A i \in 1 .. w : f[i] = Base * f[i - 1]
                                   /\ f[w] = Power(w)
    BY PowerUpto
  <2>2. v \in Nat /\ v - 1 = w /\ w \in 0 .. w /\ v \in 1 .. v /\ 1 .. w \subseteq 1 .. v
    OBVIOUS
  <2> HIDE DEF v
  <2>3. PICK g \in [0 .. v -> P] : /\ g[0] = 1 /\ \A i \in 1 .. v : g[i] = Base * g[i - 1]
                                   /\ g[v] = Power(v)
    BY <2>2, PowerUpto
  <2>4. f[0] = g[0]
    BY <2>1, <2>3
  <2>4a. \A i \in 1 .. w : f[i - 1] = g[i - 1] => f[i] = g[i]
    <3> HIDE DEF P
    <3> QED BY <2>1, <2>2, <2>3, Zenon
  <2>5. f[w] = g[w]
    <3>1. Agree(f, g, w)
      BY <2>4, <2>4a, Zenon DEF Agree
    <3> HIDE DEF P
    <3> QED BY <3>1, IterationUnique
  <2>6. g[v] = Base * g[w]
    BY <2>2, <2>3, Zenon
  <2> HIDE DEF P
  <2>7. f[w] \in P
    BY <2>2
  <2>8. Power(w) \in P /\ Power(v) = Base * Power(w)
    BY <2>1, <2>3, <2>5, <2>6, <2>7, Zenon
  <2> QED BY <2>8 DEF P, v
<1> QED BY <1>1, <1>2

\* Numbers are divided by a product one factor after the other.
LEMMA DivDiv ==
  ASSUME NEW n \in Nat, NEW a \in Nat \ {0}, NEW b \in Nat \ {0}
  PROVE  n \div (a * b) = (n \div b) \div a
<1> DEFINE p == n \div b
           r == n % b
           q == p \div a
           s == p % a
<1>1. p \in Nat /\ r \in 0 .. b - 1 /\ n = b * p + r
  OBVIOUS
<1>2. q \in Nat /\ s \in 0 .. a - 1 /\ p = a * q + s
  BY <1>1
<1> HIDE DEF p, r, q, s
<1>3. n = (a * b) * q + (b * s + r)
  BY <1>1, <1>2
<1>4. b * s + r \in 0 .. (a * b) - 1
  <2>1. b * s <= b * (a - 1)
    BY <1>2
  <2>2. b * s \in Nat
    BY <1>2
  <2> QED BY <1>1, <2>1, <2>2
<1>5. a * b \in Nat \ {0}
  OBVIOUS
<1>6. n \div (a * b) = q
  <2> DEFINE c == a * b
             t == b * s + r
  <2>1. c \in Nat \ {0} /\ t \in 0 .. c - 1 /\ n = c * q + t
    BY <1>3, <1>4, <1>5
  <2> HIDE DEF c, t
  <2>2. n \div c = q
    BY <1>2, <2>1
  <2> QED BY <2>2 DEF c
<1> QED BY <1>6 DEF q, p

LEMMA NumberSteps ==
  ASSUME NEW b \in Seq(Nat)
  PROVE  \E f \in [0 .. Len(b) -> Nat] :
            /\ f[0] = 0 /\ \A i \in 1 .. Len(b) : f[i] = f[i - 1] * Base + b[i]
            /\ f[Len(b)] = Number(b)
<1> DEFINE w == Len(b)
           G == [x \in (1 .. w) \X Nat |-> x[2] * Base + b[x[1]]]
<1>0. w \in Nat /\ \A i \in 1 .. w : b[i] \in Nat
  OBVIOUS
<1>1. G \in StepsOn(w, Nat) /\ 0 \in Nat
  BY <1>0, CodecAssumption, SMTT(20) DEF StepsOn
<1>2. \A i \in 1 .. w, x \in Nat : G[<<i, x>>] = x * Base + b[i]
  OBVIOUS
<1> HIDE DEF G
<1>3. PICK f \in [0 .. w -> Nat] : Iterates(f, 0, w, G)
  <2> DEFINE P == Nat
  <2>1. \E f \in [0 .. w -> P] : Iterates(f, 0, w, G)
    <3> HIDE DEF P, w
    <3> QED BY <1>0, <1>1, Iteration DEF P
  <2> QED BY <2>1
<1> HIDE DEF w
<1>4. f[0] = 0 /\ \A i \in 1 .. w : f[i] = f[i - 1] * Base + b[i]
  <2>1. ASSUME NEW i \in 1 .. w PROVE f[i] = f[i - 1] * Base + b[i]
    <3>1. i - 1 \in 0 .. w
      BY <1>0
    <3>2. f[i - 1] \in Nat
      BY <3>1
    <3>3. f[i] = G[<<i, f[i - 1]>>]
      BY <1>3 DEF Iterates
    <3> QED BY <1>2, <3>2, <3>3, Zenon
  <2> QED BY <1>3, <2>1 DEF Iterates
<1> DEFINE Upto(g) == g = [i \in 0 .. Len(b) |-> IF i = 0 THEN 0 ELSE g[i - 1] * Base + b[i]]
           h == CHOOSE g : Upto(g)
<1>5. Upto(f)
  BY <1>0, <1>4 DEF w
<1>6. Upto(h)
  <2> HIDE DEF Upto
  <2> QED BY <1>5, Zenon
<1>7. Number(b) = h[w]
  BY DEF Number, w
<1> HIDE DEF h
<1>8. h[0] = f[0]
  BY <1>0, <1>4, <1>6 DEF w
<1>9. \A i \in 1 .. w : h[i - 1] = f[i - 1] => h[i] = f[i]
  BY <1>0, <1>4, <1>6, SMTT(20) DEF w
<1>10. h[w] = f[w]
  <2>1. Agree(h, f, w)
    BY <1>8, <1>9, Zenon DEF Agree
  <2> QED BY <1>0, <2>1, IterationUnique
<1> QED BY <1>4, <1>7, <1>10 DEF w

LEMMA NumberDigits ==
  ASSUME NEW w \in Nat \ {0}, NEW n \in 0 .. Power(w) - 1
  PROVE  Digits(n, w) \in [1 .. w -> Byte] /\ Number(Digits(n, w)) = n
<1> DEFINE b == Digits(n, w)
           U(i) == n \div Power(w - i)
<1>0. n \in Nat /\ w \in Nat
  BY PowerSteps
<1>1. \A i \in 0 .. w : U(i) \in Nat
  <2>1. ASSUME NEW i \in 0 .. w PROVE U(i) \in Nat
    <3>1. Power(w - i) \in Nat \ {0}
      BY PowerSteps
    <3> QED BY <1>0, <3>1
  <2> QED BY <2>1
<1>2. b \in [1 .. w -> Byte] /\ \A i \in 1 .. w : b[i] = U(i) % Base
  BY <1>1, CodecAssumption DEF Digits, Byte
<1>3. Len(b) = w /\ b \in Seq(Nat)
  BY <1>2, CodecAssumption DEF Byte
<1>4. PICK f \in [0 .. w -> Nat] : /\ f[0] = 0 /\ \A i \in 1 .. w : f[i] = f[i - 1] * Base + b[i]
                                   /\ f[w] = Number(b)
  BY <1>3, NumberSteps
<1> HIDE DEF b
<1>5. ASSUME NEW i \in 1 .. w PROVE U(i) = U(i - 1) * Base + b[i]
  <2> DEFINE p == Power(w - i)
  <2>0. w - (i - 1) = (w - i) + 1 /\ w - i \in Nat
    OBVIOUS
  <2>1. p \in Nat \ {0} /\ w - (i - 1) = (w - i) + 1 /\ w - i \in Nat
    BY <2>0, PowerSteps
  <2>2. Power(w - (i - 1)) = Base * p
    BY <2>1, PowerSteps
  <2>3. U(i - 1) = (n \div p) \div Base
    <3>1. \A a, k \in Nat \ {0} : n \div (a * k) = (n \div k) \div a
      BY <1>0, DivDiv
    <3>2. Base \in Nat \ {0}
      BY CodecAssumption
    <3> HIDE DEF p
    <3>3. n \div (Base * p) = (n \div p) \div Base
      BY <2>1, <3>1, <3>2, Zenon
    <3> QED BY <2>2, <3>3
  <2>4. b[i] = (n \div p) % Base
    BY <1>2
  <2>5. n \div p \in Nat
    BY <1>0, <2>1, SMTT(20)
  <2> HIDE DEF p
  <2>6. n \div p = ((n \div p) \div Base) * Base + ((n \div p) % Base)
    <3>1. \A x \in Nat, y \in Nat \ {0} : x = (x \div y) * y + (x % y)
      OBVIOUS
    <3> QED BY <2>5, <3>1, CodecAssumption
  <2> QED BY <2>3, <2>4, <2>6 DEF p
<1>6. U(0) = 0
  <2>1. Power(w) \in Nat \ {0} /\ w - 0 = w
    BY PowerSteps
  <2> QED BY <2>1
<1>7. U(w) = n
  <2>1. w - w = 0 /\ n \in Nat
    BY <1>0
  <2>2. n \div 1 = n
    BY <2>1
  <2> QED BY <2>1, <2>2, PowerSteps
<1> DEFINE g == [i \in 0 .. w |-> U(i)]
<1>8. g[0] = f[0]
  BY <1>4, <1>6
<1>8a. \A i \in 1 .. w : g[i - 1] = f[i - 1] => g[i] = f[i]
  <2>2. ASSUME NEW i \in 1 .. w, g[i - 1] = f[i - 1] PROVE g[i] = f[i]
    <3> HIDE DEF U
    <3>1. g[i] = U(i) /\ g[i - 1] = U(i - 1)
      <4>1. i - 1 \in 0 .. w /\ i \in 0 .. w
        OBVIOUS
      <4> QED BY <4>1, Zenon
    <3>2. f[i] = f[i - 1] * Base + b[i]
      BY <1>4
    <3> HIDE DEF g
    <3> QED BY <1>5, <2>2, <3>1, <3>2, Zenon
  <2> QED BY <2>2
<1> HIDE DEF U
<1>9. g[w] = U(w)
  OBVIOUS
<1> HIDE DEF g
<1>10. w \in Nat /\ w \in 0 .. w
  OBVIOUS
<1>11. g[w] = f[w]
  <2>1. Agree(g, f, w)
    BY <1>8, <1>8a, Zenon DEF Agree
  <2> QED BY <1>10, <2>1, IterationUnique
<1> QED BY <1>2, <1>4, <1>7, <1>9, <1>11 DEF b

-------------------------------------------------------------------------------
\* Byte strings: what is appended is taken off again.

LEMMA MinPair ==
  ASSUME NEW a \in Nat, NEW b \in Nat
  PROVE  Min({a, b}) = IF a <= b THEN a ELSE b
<1> DEFINE L(x) == x \in {a, b} /\ \A y \in {a, b} : x <= y
           m == IF a <= b THEN a ELSE b
<1>1. L(m)
  OBVIOUS
<1>2. \A x : L(x) => x = m
  OBVIOUS
<1>3. Min({a, b}) = CHOOSE x : L(x)
  BY DEF Min
<1> HIDE DEF L
<1> QED BY <1>1, <1>2, <1>3, Zenon

LEMMA SliceIs ==
  ASSUME NEW b \in Text, NEW i \in Nat, NEW j \in Nat, i <= j, i <= Len(b)
  PROVE  LET e == IF j <= Len(b) THEN j ELSE Len(b)
         IN  /\ Slice(b, i, j) \in Text /\ Len(Slice(b, i, j)) = e - i
             /\ \A k \in 1 .. e - i : Slice(b, i, j)[k] = b[i + k]
<1> DEFINE e == IF j <= Len(b) THEN j ELSE Len(b)
<1>1. Len(b) \in Nat /\ e \in Nat /\ i <= e /\ e <= Len(b)
  BY DEF Text
<1>2. Slice(b, i, j) = SubSeq(b, i + 1, e)
  BY <1>1, MinPair DEF Slice
<1>3. \A k \in i + 1 .. e : b[k] \in Byte
  BY <1>1 DEF Text
<1> HIDE DEF e
<1> DEFINE m == i + 1
           t == SubSeq(b, m, e)
<1>4. /\ t \in Seq(Byte)
      /\ Len(t) = IF m <= e THEN e - m + 1 ELSE 0
      /\ \A k \in 1 .. e - m + 1 : t[k] = b[m + k - 1]
  <2>1. m \in Int /\ e \in Int /\ \A k \in m .. e : b[k] \in Byte
    BY <1>1, <1>3
  <2> HIDE DEF m
  <2> QED BY <2>1, SubSeqProperties
<1>5. e - m + 1 = e - i /\ \A k \in Nat : m + k - 1 = i + k
  BY <1>1
<1> QED BY <1>1, <1>2, <1>4, <1>5 DEF Text, e

LEMMA TextEqual ==
  ASSUME NEW a \in Text, NEW b \in Text, Len(a) = Len(b), \A i \in 1 .. Len(a) : a[i] = b[i]
  PROVE  a = b
BY SeqEqual DEF Text

LEMMA Cat ==
  ASSUME NEW a \in Text, NEW b \in Text
  PROVE  /\ Len(a) \in Nat /\ a \o b \in Text /\ Len(a \o b) = Len(a) + Len(b)
         /\ \A i \in 1 .. Len(a) : (a \o b)[i] = a[i]
         /\ \A i \in 1 .. Len(b) : (a \o b)[Len(a) + i] = b[i]
         /\ a \o <<>> = a /\ <<>> \o a = a
BY DEF Text

LEMMA CatAssociative ==
  ASSUME NEW a \in Text, NEW b \in Text, NEW c \in Text
  PROVE  (a \o b) \o c = a \o (b \o c)
BY ConcatAssociative DEF Text

\* The same for steps in which the provers would regroup without end.
Regroups(a, b, c) == (a \o b) \o c = a \o (b \o c)

LEMMA CatRegroups ==
  ASSUME NEW a \in Text, NEW b \in Text, NEW c \in Text
  PROVE  Regroups(a, b, c)
BY CatAssociative DEF Regroups

LEMMA SliceFront ==
  ASSUME NEW a \in Text, NEW b \in Text
  PROVE  Slice(a \o b, 0, Len(a)) = a
<1> DEFINE c == a \o b
           n == Len(a)
<1>1. c \in Text /\ n \in Nat /\ n <= Len(c) /\ Len(c) \in Nat /\ \A i \in 1 .. n : c[i] = a[i]
  BY Cat
<1> HIDE DEF c
<1>2. Slice(c, 0, n) \in Text /\ Len(Slice(c, 0, n)) = n
  BY <1>1, SliceIs
<1>3. \A i \in 1 .. n : Slice(c, 0, n)[i] = c[0 + i]
  BY <1>1, SliceIs
<1>4. \A i \in 1 .. n : Slice(c, 0, n)[i] = a[i]
  BY <1>1, <1>3
<1>5. Slice(c, 0, n) = a
  BY <1>2, <1>4, TextEqual
<1> QED BY <1>5 DEF c

LEMMA SliceBack ==
  ASSUME NEW a \in Text, NEW b \in Text
  PROVE  Slice(a \o b, Len(a), Len(a \o b)) = b
<1> DEFINE c == a \o b
           n == Len(a)
           t == Slice(c, n, Len(c))
<1>1. /\ c \in Text /\ n \in Nat /\ Len(c) = n + Len(b) /\ Len(c) \in Nat /\ Len(b) \in Nat
      /\ \A i \in 1 .. Len(b) : c[n + i] = b[i]
  BY Cat
<1> HIDE DEF c, n
<1>2. t \in Text /\ Len(t) = Len(c) - n /\ \A i \in 1 .. Len(c) - n : t[i] = c[n + i]
  <2> DEFINE m == Len(c)
  <2>1. m \in Nat /\ n <= m /\ (IF m <= m THEN m ELSE m) = m
    BY <1>1
  <2>2. /\ Slice(c, n, m) \in Text /\ Len(Slice(c, n, m)) = m - n
        /\ \A i \in 1 .. m - n : Slice(c, n, m)[i] = c[n + i]
    BY <1>1, <2>1, SliceIs
  <2> QED BY <2>2
<1>3. Len(t) = Len(b) /\ \A i \in 1 .. Len(t) : t[i] = b[i]
  BY <1>1, <1>2
<1>4. t = b
  <2> HIDE DEF t
  <2> QED BY <1>2, <1>3, TextEqual
<1> QED BY <1>4 DEF c, n

-------------------------------------------------------------------------------
\* Fields: p is the encoding of a value v of some kind.

Encodes(kind, p, v) == /\ p \in Text /\ Value(kind, p) = v
                       /\ \A s \in Text : Size(kind, p \o s) = Len(p)

LEMMA DigitsText ==
  ASSUME NEW w \in Nat \ {0}, NEW n \in 0 .. Power(w) - 1
  PROVE  Digits(n, w) \in Text /\ Len(Digits(n, w)) = w /\ Number(Digits(n, w)) = n
BY NumberDigits DEF Text

LEMMA PowerOne == Power(1) = Base
<1>1. 0 \in Nat /\ 0 + 1 = 1
  OBVIOUS
<1>2. Power(1) = Base * 1
  BY <1>1, PowerSteps, Zenon
<1> QED BY <1>2, CodecAssumption

LEMMA EncodesU8 ==
  ASSUME NEW n \in Byte
  PROVE  Encodes("u8", U8(n), n) /\ Len(U8(n)) = 1 /\ U8(n) = <<n>>
<1>1. n \in 0 .. Power(1) - 1
  BY PowerOne DEF Byte
<1>2. Digits(n, 1) \in Text /\ Len(Digits(n, 1)) = 1 /\ Number(Digits(n, 1)) = n
  BY <1>1, DigitsText
<1>3. Digits(n, 1)[1] = n
  <2>1. Digits(n, 1)[1] = (n \div Power(0)) % Base
    BY DEF Digits
  <2>2. (n \div 1) % Base = n
    BY CodecAssumption DEF Byte
  <2> QED BY <2>1, <2>2, PowerSteps
<1>4. U8(n) = <<n>>
  BY <1>2, <1>3 DEF U8, Text
<1> QED BY <1>2, <1>4 DEF U8, Encodes, Size, Fixed, Value

LEMMA EncodesU32 ==
  ASSUME NEW n \in Uint32
  PROVE  Encodes("u32", U32(n), n) /\ Len(U32(n)) = IntWidth
<1>1. Digits(n, IntWidth) \in Text /\ Len(Digits(n, IntWidth)) = IntWidth
        /\ Number(Digits(n, IntWidth)) = n
  BY DigitsText, CodecAssumption DEF Uint32
<1> QED BY <1>1 DEF U32, Encodes, Size, Fixed, Value

LEMMA EncodesU64 ==
  ASSUME NEW n \in Uint64
  PROVE  Encodes("u64", U64(n), n)
<1>1. Digits(n, LongWidth) \in Text /\ Len(Digits(n, LongWidth)) = LongWidth
        /\ Number(Digits(n, LongWidth)) = n
  BY DigitsText, CodecAssumption DEF Uint64
<1> QED BY <1>1 DEF U64, Encodes, Size, Fixed, Value

LEMMA EncodesI64 ==
  ASSUME NEW n \in Int64
  PROVE  Encodes("i64", I64(n), n) /\ Len(I64(n)) = LongWidth
<1> DEFINE p == Power(LongWidth)
           r == n % p
           b == Digits(r, LongWidth)
<1>1. p \in Nat \ {0}
  BY PowerSteps, CodecAssumption
<1>2. n \in -(p \div 2) .. (p - 1) \div 2
  BY DEF Int64
<1> HIDE DEF p
<1>3. r \in 0 .. p - 1 /\ n = IF 2 * r < p THEN r ELSE r - p
  <2>1. p \div 2 \in Nat /\ 2 * (p \div 2) <= p /\ p < 2 * (p \div 2) + 2
    BY <1>1
  <2>2. (p - 1) \div 2 \in Nat /\ 2 * ((p - 1) \div 2) <= p - 1
    BY <1>1
  <2>3. CASE n >= 0
    <3>1. n \in 0 .. p - 1 /\ 2 * n < p
      BY <1>1, <1>2, <2>1, <2>2, <2>3
    <3>2. r = n
      BY <1>1, <3>1
    <3> QED BY <3>1, <3>2
  <2>4. CASE n < 0
    <3>1. n + p \in 0 .. p - 1 /\ 2 * (n + p) >= p
      BY <1>1, <1>2, <2>1, <2>2, <2>4
    <3>2. r = n + p
      BY <1>1, <1>2, <3>1
    <3> QED BY <1>1, <1>2, <3>1, <3>2
  <2> QED BY <1>1, <1>2, <2>3, <2>4
<1> HIDE DEF r
<1>4. b \in Text /\ Len(b) = LongWidth /\ Number(b) = r
  BY <1>3, DigitsText, CodecAssumption DEF p
<1>5. Signed(b) = n
  BY <1>3, <1>4 DEF Signed, p
<1>6. I64(n) = b
  BY DEF I64, r, p
<1> HIDE DEF b
<1> QED BY <1>4, <1>5, <1>6 DEF Encodes, Size, Fixed, Value

LEMMA EncodesId ==
  /\ \A u \in Id : Encodes("id", u, u) /\ Len(u) = UuidWidth
  /\ \A u \in Nonce : Encodes("nonce", u, u) /\ Len(u) = NonceWidth
BY CodecAssumption DEF Id, Nonce, Text, Encodes, Size, Fixed, Value

LEMMA NilId == NilUuid \in Id
BY CodecAssumption DEF NilUuid, Id, Byte

LEMMA EncodesUuid ==
  ASSUME NEW u \in Id \cup {NoUuid}
  PROVE  Encodes("uuid", Uuid(u), u)
<1> DEFINE flag == IF u = NoUuid THEN 0 ELSE 1
           body == IF u = NoUuid THEN NilUuid ELSE u
<1>1. body \in Id /\ flag \in Byte
  BY NilId, CodecAssumption DEF Byte
<1>2. Uuid(u) = U8(flag) \o body
  BY DEF Uuid
<1>3. body \in Text /\ Len(body) = UuidWidth /\ U8(flag) \in Text /\ Len(U8(flag)) = 1
        /\ U8(flag)[1] = flag
  BY <1>1, EncodesId, EncodesU8 DEF Encodes
<1> HIDE DEF flag, body
<1>4. /\ Uuid(u) \in Text /\ Len(Uuid(u)) = 1 + UuidWidth /\ Uuid(u)[1] = flag
      /\ Slice(Uuid(u), 1, Len(Uuid(u))) = body
  <2>1. Slice(U8(flag) \o body, Len(U8(flag)), Len(U8(flag) \o body)) = body
    BY <1>3, SliceBack
  <2> DEFINE q == U8(flag)
             c == q \o body
  <2> HIDE DEF q
  <2>2. q \in Text /\ Len(q) = 1 /\ q[1] = flag
    BY <1>3 DEF q
  <2>3. c \in Text /\ Len(c) = Len(q) + Len(body) /\ \A i \in 1 .. Len(q) : c[i] = q[i]
    BY <1>3, <2>2, Cat
  <2> HIDE DEF c
  <2>4. c \in Text /\ Len(c) = 1 + UuidWidth /\ c[1] = flag
    BY <1>3, <2>2, <2>3
  <2>5. Slice(c, 1, Len(c)) = body
    BY <1>3, <2>1 DEF q, c
  <2> QED BY <1>2, <2>4, <2>5 DEF c, q
<1>5. Value("uuid", Uuid(u)) = IF flag = 0 THEN NoUuid ELSE body
  BY <1>4 DEF Value
<1>6. Size("uuid", Uuid(u)) = 1 + UuidWidth /\ \A s : Size("uuid", s) = 1 + UuidWidth
  BY DEF Size, Fixed
<1>7. Value("uuid", Uuid(u)) = u
  BY <1>5 DEF flag, body
<1> QED BY <1>4, <1>6, <1>7 DEF Encodes

LEMMA EncodesBytes ==
  ASSUME NEW b \in Text, Len(b) \in Uint32
  PROVE  Encodes("bytes", Bytes(b), b) /\ Len(Bytes(b)) = IntWidth + Len(b)
<1> DEFINE p == U32(Len(b))
<1>1. p \in Text /\ Len(p) = IntWidth /\ Number(p) = Len(b)
  BY EncodesU32 DEF Encodes, Value
<1>2. Bytes(b) = p \o b
  BY DEF Bytes
<1> HIDE DEF p
<1>3. Bytes(b) \in Text /\ Len(Bytes(b)) = IntWidth + Len(b)
  BY <1>1, <1>2, Cat
<1>4. Value("bytes", Bytes(b)) = b
  <2>1. Slice(p \o b, Len(p), Len(p \o b)) = b
    BY <1>1, SliceBack
  <2> QED BY <1>1, <1>2, <2>1 DEF Value
<1>5. ASSUME NEW s \in Text PROVE Size("bytes", Bytes(b) \o s) = IntWidth + Len(b)
  <2>0. (p \o b) \o s = p \o (b \o s)
    BY <1>1, CatAssociative
  <2>1. Bytes(b) \o s = p \o (b \o s) /\ b \o s \in Text
    BY <1>2, <2>0, Cat
  <2>2. Slice(p \o (b \o s), 0, Len(p)) = p
    BY <1>1, <2>1, SliceFront
  <2> QED BY <1>1, <2>1, <2>2 DEF Size
<1> QED BY <1>3, <1>4, <1>5 DEF Encodes

\* A field that is not cut short is taken off the front.
LEMMA TakeField ==
  ASSUME NEW name, NEW kind, NEW p, NEW v, Encodes(kind, p, v), NEW s \in Text, NEW r
  PROVE  Take([ok |-> TRUE, rest |-> p \o s, value |-> r], <<name, kind>>)
           = [ok |-> TRUE, rest |-> s, value |-> With(r, name, v)]
<1> DEFINE data == p \o s
           n == Size(kind, data)
           d == [ok |-> TRUE, rest |-> data, value |-> r]
<1>1. p \in Text /\ Value(kind, p) = v /\ n = Len(p)
  BY DEF Encodes
<1>2. Slice(data, 0, Len(p)) = p /\ Slice(data, Len(p), Len(data)) = s
  BY <1>1, SliceFront, SliceBack
<1>3. Len(data) >= Len(p)
  BY <1>1, Cat
<1> HIDE DEF n, data
<1>4. Take(d, <<name, kind>>)
        = IF Enough(data, n)
          THEN [ok |-> TRUE, rest |-> Slice(data, n, Len(data)),
                value |-> With(r, name, Value(kind, Slice(data, 0, n)))]
          ELSE [d EXCEPT !.ok = FALSE]
  BY DEF Take, n
<1> QED BY <1>1, <1>2, <1>3, <1>4 DEF Enough, data

Decodes(f, fields, data, k) ==
  /\ f[0] = [ok |-> TRUE, rest |-> data, value |-> <<>>]
  /\ \A i \in 1 .. k : f[i] = Take(f[i - 1], fields[i])

LEMMA DecodeIs ==
  ASSUME NEW k \in Nat, NEW fields, k = Len(fields), NEW data, NEW f,
         Decodes(f, fields, data, k)
  PROVE  Decode(fields, data) = f[k]
<1> DEFINE init == [ok |-> TRUE, rest |-> data, value |-> <<>>]
           Upto(g) == g = [i \in 0 .. Len(fields) |-> IF i = 0 THEN init
                                                      ELSE Take(g[i - 1], fields[i])]
           h == CHOOSE g : Upto(g)
           e == [i \in 0 .. k |-> f[i]]
<1>1. Upto(e)
  <2>1. ASSUME NEW i \in 0 .. k
        PROVE  e[i] = IF i = 0 THEN init ELSE Take(e[i - 1], fields[i])
    <3>1. CASE i = 0
      BY <3>1 DEF Decodes
    <3>2. CASE i # 0
      <4>1. i \in 1 .. k /\ i - 1 \in 0 .. k
        BY <3>2
      <4>2. e[i] = f[i] /\ e[i - 1] = f[i - 1]
        BY <4>1
      <4> HIDE DEF e
      <4> QED BY <3>2, <4>1, <4>2 DEF Decodes
    <3> QED BY <3>1, <3>2
  <2> DEFINE g == [i \in 0 .. k |-> IF i = 0 THEN init ELSE Take(e[i - 1], fields[i])]
  <2>2. e = g
    <3> HIDE DEF init
    <3> QED BY <2>1
  <2> QED BY <2>2
<1>2. Upto(h)
  <2> HIDE DEF Upto
  <2> QED BY <1>1, Zenon
<1>3. Decode(fields, data) = h[k]
  BY DEF Decode
<1> HIDE DEF h
<1>4. h[0] = f[0]
  <2>1. 0 \in 0 .. k
    OBVIOUS
  <2>2. h[0] = init
    <3> HIDE DEF init
    <3> QED BY <1>2, <2>1
  <2> QED BY <2>2 DEF Decodes
<1>5. \A i \in 1 .. k : h[i - 1] = f[i - 1] => h[i] = f[i]
  <2>1. ASSUME NEW i \in 1 .. k, h[i - 1] = f[i - 1] PROVE h[i] = f[i]
    <3>1. i \in 0 .. k /\ i # 0
      OBVIOUS
    <3>2. h[i] = Take(h[i - 1], fields[i])
      <4> HIDE DEF init
      <4> QED BY <1>2, <3>1
    <3> QED BY <2>1, <3>2 DEF Decodes
  <2> QED BY <2>1
<1>6. Agree(h, f, k)
  BY <1>4, <1>5, Zenon DEF Agree
<1> QED BY <1>3, <1>6, IterationUnique

\* After the first i fields, of the names D, s is left of the data, and the values
\* are those of the record m.
Reached(fields, data, i, D, s, m) ==
  \E f : /\ Decodes(f, fields, data, i)
         /\ f[i] = [ok |-> TRUE, rest |-> s, value |-> [n \in D |-> m[n]]]

LEMMA ReachedStart ==
  ASSUME NEW fields, NEW data, NEW m
  PROVE  Reached(fields, data, 0, {}, data, m)
<1> DEFINE f == [i \in {0} |-> [ok |-> TRUE, rest |-> data, value |-> <<>>]]
<1>1. [n \in {} |-> m[n]] = <<>>
  OBVIOUS
<1>2. f[0] = [ok |-> TRUE, rest |-> data, value |-> <<>>]
  OBVIOUS
<1> HIDE DEF f
<1>3. Decodes(f, fields, data, 0)
  BY <1>2 DEF Decodes
<1>4. f[0] = [ok |-> TRUE, rest |-> data, value |-> [n \in {} |-> m[n]]]
  BY <1>1, <1>2
<1> QED BY <1>3, <1>4 DEF Reached

LEMMA ReachedNext ==
  ASSUME NEW fields, NEW data, NEW m, NEW i \in Nat, NEW D, NEW p, NEW s \in Text,
         Reached(fields, data, i, D, p \o s, m),
         NEW n, NEW kind, fields[i + 1] = <<n, kind>>, Encodes(kind, p, m[n])
  PROVE  Reached(fields, data, i + 1, D \cup {n}, s, m)
<1> DEFINE r == [x \in D |-> m[x]]
           d == [ok |-> TRUE, rest |-> p \o s, value |-> r]
           e == [ok |-> TRUE, rest |-> s, value |-> [x \in D \cup {n} |-> m[x]]]
<1>1. PICK f : Decodes(f, fields, data, i) /\ f[i] = d
  BY DEF Reached
<1>2. Take(d, <<n, kind>>) = [ok |-> TRUE, rest |-> s, value |-> With(r, n, m[n])]
  <2> DEFINE v == m[n]
  <2>1. Encodes(kind, p, v)
    OBVIOUS
  <2> HIDE DEF v, r
  <2>2. Take([ok |-> TRUE, rest |-> p \o s, value |-> r], <<n, kind>>)
          = [ok |-> TRUE, rest |-> s, value |-> With(r, n, v)]
    BY <2>1, TakeField
  <2> QED BY <2>2 DEF v
<1>3. With(r, n, m[n]) = [x \in D \cup {n} |-> m[x]]
  BY DEF With
<1>4. Take(d, <<n, kind>>) = e
  BY <1>2, <1>3
<1> HIDE DEF d, e
<1> DEFINE k == i + 1
           g == [j \in 0 .. k |-> IF j = k THEN e ELSE f[j]]
<1>5. k \in Nat /\ i = k - 1 /\ \A j \in 1 .. k : j = k \/ (j \in 1 .. i /\ j - 1 \in 0 .. i)
  OBVIOUS
<1>6. g[k] = e /\ \A j \in 0 .. i : g[j] = f[j]
  OBVIOUS
<1>7. g[0] = f[0] /\ g[i] = d
  BY <1>1, <1>6
<1> HIDE DEF g, k
<1>8. ASSUME NEW j \in 1 .. k PROVE g[j] = Take(g[j - 1], fields[j])
  <2>1. CASE j = k
    BY <1>4, <1>5, <1>6, <1>7, <2>1 DEF k
  <2>2. CASE j # k
    <3>1. j \in 1 .. i /\ j - 1 \in 0 .. i /\ j \in 0 .. i
      BY <1>5, <2>2
    <3>2. g[j] = f[j] /\ g[j - 1] = f[j - 1] /\ f[j] = Take(f[j - 1], fields[j])
      BY <1>1, <1>6, <3>1 DEF Decodes
    <3> QED BY <3>2
  <2> QED BY <2>1, <2>2
<1>9. Decodes(g, fields, data, k)
  BY <1>1, <1>7, <1>8 DEF Decodes
<1> QED BY <1>6, <1>9 DEF Reached, e, k

LEMMA ReachedEnd ==
  ASSUME NEW k \in Nat, NEW fields, k = Len(fields), NEW data, NEW D, NEW s, NEW m,
         Reached(fields, data, k, D, s, m)
  PROVE  Decode(fields, data) = [ok |-> TRUE, rest |-> s, value |-> [n \in D |-> m[n]]]
<1>1. PICK f : /\ Decodes(f, fields, data, k)
               /\ f[k] = [ok |-> TRUE, rest |-> s, value |-> [n \in D |-> m[n]]]
  BY DEF Reached
<1>2. Decode(fields, data) = f[k]
  BY <1>1, DecodeIs
<1> QED BY <1>1, <1>2

LEMMA CatSplit ==
  ASSUME NEW a \in Text, NEW b \in Text, NEW c \in Text, NEW d \in Text,
         Len(a) = Len(c), a \o b = c \o d
  PROVE  a = c /\ b = d
<1>1. /\ Len(a) \in Nat /\ Len(b) \in Nat /\ Len(d) \in Nat
      /\ Len(a \o b) = Len(a) + Len(b) /\ Len(c \o d) = Len(c) + Len(d)
      /\ \A i \in 1 .. Len(a) : (a \o b)[i] = a[i]
      /\ \A i \in 1 .. Len(c) : (c \o d)[i] = c[i]
      /\ \A i \in 1 .. Len(b) : (a \o b)[Len(a) + i] = b[i]
      /\ \A i \in 1 .. Len(d) : (c \o d)[Len(c) + i] = d[i]
  BY Cat
<1> DEFINE ab == a \o b
           cd == c \o d
<1>2. Len(b) = Len(d)
  BY <1>1
<1>3. ASSUME NEW i \in 1 .. Len(a) PROVE a[i] = c[i]
  <2>1. ab[i] = a[i] /\ cd[i] = c[i] /\ ab = cd
    BY <1>1
  <2> HIDE DEF ab, cd
  <2> QED BY <2>1
<1>4. ASSUME NEW i \in 1 .. Len(b) PROVE b[i] = d[i]
  <2>1. ab[Len(a) + i] = b[i] /\ cd[Len(a) + i] = d[i] /\ ab = cd
    BY <1>1, <1>2
  <2> HIDE DEF ab, cd
  <2> QED BY <2>1
<1> QED BY <1>2, <1>3, <1>4, TextEqual

LEMMA SliceSplit ==
  ASSUME NEW b \in Text, NEW n \in Nat, n <= Len(b)
  PROVE  LET p == Slice(b, 0, n)
             s == Slice(b, n, Len(b))
         IN  p \in Text /\ s \in Text /\ Len(p) = n /\ Len(s) = Len(b) - n /\ p \o s = b
<1> DEFINE p == Slice(b, 0, n)
           m == Len(b)
           s == Slice(b, n, m)
<1>0. m \in Nat /\ n <= m
  BY Cat
<1>1. p \in Text /\ Len(p) = n /\ \A i \in 1 .. n : p[i] = b[0 + i]
  <2>1. 0 \in Nat /\ 0 <= n /\ 0 <= Len(b) /\ n - 0 = n
    BY <1>0
  <2>2. /\ Slice(b, 0, n) \in Text /\ Len(Slice(b, 0, n)) = n - 0
        /\ \A i \in 1 .. n - 0 : Slice(b, 0, n)[i] = b[0 + i]
    BY <2>1, SliceIs
  <2> QED BY <2>1, <2>2
<1>2. s \in Text /\ Len(s) = m - n /\ \A i \in 1 .. m - n : s[i] = b[n + i]
  <2> HIDE DEF m
  <2>1. m <= Len(b) /\ Len(b) = m
    BY <1>0 DEF m
  <2> QED BY <1>0, <2>1, SliceIs
<1> HIDE DEF p, s
<1> DEFINE c == p \o s
<1>3. /\ c \in Text /\ Len(c) = m /\ \A i \in 1 .. n : c[i] = p[i]
      /\ \A i \in 1 .. m - n : c[n + i] = s[i]
  <2>1. Len(p) = n /\ Len(s) = m - n
    BY <1>1, <1>2
  <2>2. c \in Text /\ Len(c) = n + (m - n)
    BY <1>1, <1>2, Cat
  <2>3. \A i \in 1 .. Len(p) : c[i] = p[i]
    BY <1>1, <1>2, Cat
  <2>4. \A i \in 1 .. Len(s) : c[Len(p) + i] = s[i]
    BY <1>1, <1>2, Cat
  <2> HIDE DEF c
  <2> QED BY <1>0, <2>1, <2>2, <2>3, <2>4
<1> HIDE DEF c
<1>4. ASSUME NEW i \in 1 .. m PROVE c[i] = b[i]
  <2>1. CASE i <= n
    BY <1>1, <1>3, <2>1
  <2>2. CASE i > n
    <3>1. i - n \in 1 .. m - n /\ n + (i - n) = i
      BY <1>0, <2>2
    <3> QED BY <1>2, <1>3, <3>1
  <2> QED BY <1>0, <2>1, <2>2
<1>5. c = b
  BY <1>3, <1>4, TextEqual
<1> QED BY <1>1, <1>2, <1>5 DEF c, p, s

\* The same bytes, cut at two places.
Same(a, b, c, d) == Len(a) <= Len(c) /\ a \o b = c \o d

LEMMA CatPrefix ==
  ASSUME NEW a \in Text, NEW b \in Text, NEW c \in Text, NEW d \in Text, Same(a, b, c, d)
  PROVE  LET u == Slice(c, Len(a), Len(c))
         IN  u \in Text /\ c = a \o u /\ b = u \o d /\ Len(u) = Len(c) - Len(a)
<1> DEFINE p == Slice(c, 0, Len(a))
           u == Slice(c, Len(a), Len(c))
<1>1. p \in Text /\ u \in Text /\ Len(p) = Len(a) /\ Len(u) = Len(c) - Len(a) /\ p \o u = c
  <2> DEFINE n == Len(a)
  <2>1. n \in Nat /\ n <= Len(c)
    BY Cat DEF Same
  <2> HIDE DEF n
  <2>2. LET v == Slice(c, 0, n)
            w == Slice(c, n, Len(c))
        IN  v \in Text /\ w \in Text /\ Len(v) = n /\ Len(w) = Len(c) - n /\ v \o w = c
    BY <2>1, SliceSplit
  <2> QED BY <2>2 DEF n
<1> HIDE DEF p, u
<1>2. a \o b = p \o (u \o d) /\ u \o d \in Text
  <2>0. p \in Text /\ u \in Text
    BY <1>1
  <2>1. (p \o u) \o d = p \o (u \o d)
    <3>1. Regroups(p, u, d)
      BY <2>0, CatRegroups
    <3> QED BY <3>1 DEF Regroups
  <2>2. u \o d \in Text
    BY <1>1, Cat
  <2>3. a \o b = c \o d
    BY DEF Same
  <2>4. c \o d = (p \o u) \o d
    BY <1>1
  <2> QED BY <2>1, <2>2, <2>3, <2>4
<1>3. a = p /\ b = u \o d
  BY <1>1, <1>2, CatSplit
<1> QED BY <1>1, <1>3 DEF u

-------------------------------------------------------------------------------
\* Framing: types.

LEMMA NumberText ==
  ASSUME NEW b \in Text
  PROVE  Number(b) \in Nat /\ (Len(b) = 1 => Number(b) = b[1] /\ b[1] \in Byte)
<1>1. b \in Seq(Nat) /\ Len(b) \in Nat
  BY CodecAssumption DEF Text, Byte
<1>2. PICK f \in [0 .. Len(b) -> Nat] :
         /\ f[0] = 0 /\ \A i \in 1 .. Len(b) : f[i] = f[i - 1] * Base + b[i]
         /\ f[Len(b)] = Number(b)
  BY <1>1, NumberSteps
<1>3. Number(b) \in Nat
  BY <1>1, <1>2
<1>4. ASSUME Len(b) = 1 PROVE Number(b) = b[1] /\ b[1] \in Byte
  <2>0. 1 \in 1 .. Len(b) /\ 1 - 1 = 0
    BY <1>4
  <2>1. f[1] = f[1 - 1] * Base + b[1]
    BY <1>2, <2>0
  <2>2. b[1] \in Byte
    BY <2>0 DEF Text
  <2>3. Base \in Nat
    BY CodecAssumption
  <2>4. b[1] \in Nat
    BY <2>2, <2>3 DEF Byte
  <2> QED BY <1>2, <1>4, <2>0, <2>1, <2>2, <2>3, <2>4
<1> QED BY <1>3, <1>4

LEMMA HeaderIs ==
  ASSUME NEW p \in Text, NEW q \in Text, Len(p) = 1, Len(q) = IntWidth
  PROVE  LET h == Decode(FrameHeader, p \o q).value
         IN  h.channel = Number(p) /\ h.length = Number(q)
<1> DEFINE m == [channel |-> Number(p), length |-> Number(q)]
           a == "channel"
           b == "length"
           u == "u8"
           v == "u32"
           F == FrameHeader
           data == p \o q
<1>1. Encodes(u, p, m[a]) /\ Encodes(v, q, m[b]) /\ F[0 + 1] = <<a, u>> /\ F[1 + 1] = <<b, v>>
  BY DEF Encodes, Value, Size, Fixed, FrameHeader
<1>2. q \o <<>> = q /\ <<>> \in Text /\ data = p \o q
  BY Cat DEF Text
<1>3. 0 + 1 = 1 /\ 1 + 1 = 2 /\ 0 \in Nat /\ 1 \in Nat /\ 2 \in Nat /\ Len(F) = 2
  BY DEF FrameHeader
<1> HIDE DEF m, a, b, u, v, F, data
<1>4. Reached(F, data, 0, {}, p \o q, m)
  BY <1>2, ReachedStart
<1>5. Reached(F, data, 0 + 1, {} \cup {a}, q, m)
  BY <1>1, <1>3, <1>4, ReachedNext
<1>6. Reached(F, data, 1, {} \cup {a}, q \o <<>>, m)
  BY <1>2, <1>3, <1>5
<1>7. Reached(F, data, 1 + 1, ({} \cup {a}) \cup {b}, <<>>, m)
  BY <1>1, <1>2, <1>3, <1>6, ReachedNext
<1>8. Decode(F, data).value = [n \in ({} \cup {a}) \cup {b} |-> m[n]]
  <2> DEFINE D == ({} \cup {a}) \cup {b}
             s == <<>>
             k == 2
  <2>1. Reached(F, data, k, D, s, m) /\ k \in Nat /\ k = Len(F)
    BY <1>3, <1>7
  <2> HIDE DEF D, s, k
  <2>2. Decode(F, data) = [ok |-> TRUE, rest |-> s, value |-> [n \in D |-> m[n]]]
    BY <2>1, ReachedEnd
  <2> QED BY <2>2 DEF D
<1>9. Decode(F, data).value[a] = m[a] /\ Decode(F, data).value[b] = m[b]
  BY <1>8
<1> QED BY <1>9 DEF m, a, b, F, data

LEMMA HeaderTyped ==
  ASSUME NEW c \in Text, Len(c) = HeaderSize
  PROVE  LET h == Decode(FrameHeader, c).value IN h.channel \in Byte /\ h.length \in Nat
<1> DEFINE p == Slice(c, 0, 1)
           q == Slice(c, 1, Len(c))
<1>0. IntWidth \in Nat
  BY CodecAssumption
<1>1. p \in Text /\ q \in Text /\ Len(p) = 1 /\ Len(q) = IntWidth /\ p \o q = c
  <2>1. 1 \in Nat /\ 1 <= Len(c) /\ Len(c) - 1 = IntWidth
    BY <1>0 DEF HeaderSize
  <2> QED BY <2>1, SliceSplit
<1> HIDE DEF p, q
<1>2. /\ Decode(FrameHeader, p \o q).value.channel = Number(p)
      /\ Decode(FrameHeader, p \o q).value.length = Number(q)
  BY <1>1, HeaderIs
<1>3. Number(p) \in Byte /\ Number(q) \in Nat
  BY <1>1, NumberText
<1> QED BY <1>1, <1>2, <1>3

LEMMA EncodedFrame ==
  ASSUME NEW f \in Frame, Sendable(f)
  PROVE  /\ EncodeFrame(f) = U8(f.channel) \o (U32(Len(f.payload)) \o f.payload)
         /\ EncodeFrame(f) \in Text /\ Len(EncodeFrame(f)) = HeaderSize + Len(f.payload)
         /\ U8(f.channel) \in Text /\ Len(U8(f.channel)) = 1 /\ U8(f.channel) = <<f.channel>>
         /\ U32(Len(f.payload)) \in Text /\ Len(U32(Len(f.payload))) = IntWidth
         /\ Number(U32(Len(f.payload))) = Len(f.payload)
         /\ f.payload \in Text /\ Len(f.payload) \in 0 .. MaxFrameSize
<1> DEFINE b == f.payload
           u == U8(f.channel)
           v == U32(Len(b))
<1>1. b \in Text /\ Len(b) \in 0 .. MaxFrameSize /\ f.channel \in Byte
  BY FramingAssumption DEF Frame, Text, Sendable
<1>2. Power(IntWidth) \in Nat \ {0}
  BY PowerSteps, CodecAssumption
<1>3. Len(b) \in Uint32
  BY <1>1, <1>2, FramingAssumption DEF Uint32
<1>4. u \in Text /\ Len(u) = 1 /\ u = <<f.channel>>
  BY <1>1, EncodesU8 DEF Encodes
<1>5. v \in Text /\ Len(v) = IntWidth /\ Number(v) = Len(b)
  <2> HIDE DEF b
  <2> QED BY <1>3, EncodesU32 DEF Encodes, Value
<1>6. EncodeFrame(f) = (u \o v) \o b
  BY DEF EncodeFrame
<1> HIDE DEF u, v, b
<1>7. (u \o v) \o b = u \o (v \o b)
  BY <1>1, <1>4, <1>5, CatAssociative
<1>8. v \o b \in Text /\ Len(v \o b) = IntWidth + Len(b)
  BY <1>1, <1>5, Cat
<1> DEFINE w == v \o b
<1> HIDE DEF w
<1>9. u \o w \in Text /\ Len(u \o w) = 1 + Len(w)
  <2>1. w \in Text
    BY <1>8 DEF w
  <2> QED BY <1>4, <2>1, Cat
<1>10. Len(u \o w) = HeaderSize + Len(b)
  BY <1>1, <1>8, <1>9, CodecAssumption DEF HeaderSize, w
<1> QED BY <1>1, <1>4, <1>5, <1>6, <1>7, <1>9, <1>10 DEF u, v, b, w

\* The types, and the bytes a read asks for at each stage.
FrameInv == /\ FTypeOK
            /\ stage = "header" => need = HeaderSize
            /\ stage = "payload" => need <= MaxFrameSize

LEMMA Segmented ==
  ASSUME FrameInv, NEW piece \in Pieces, Segment(piece)
  PROVE  /\ stream' \in Text /\ chunks' \in Text
         /\ chunks' \o stream' = chunks \o stream
         /\ Len(chunks') <= need
<1> DEFINE n == Min({piece, Wanted})
           m == IF n <= Len(stream) THEN n ELSE Len(stream)
           p == Slice(stream, 0, n)
           s == Slice(stream, n, Len(stream))
<1>1. /\ stream \in Text /\ chunks \in Text /\ need \in Nat /\ Len(chunks) \in Nat
      /\ Len(chunks) < need /\ piece \in Nat
  BY FramingAssumption, CodecAssumption DEF FrameInv, FTypeOK, Text, HeaderSize, Segment, Waiting
<1>2. n \in Nat /\ n <= need - Len(chunks)
  BY <1>1, MinPair DEF Wanted
<1>3. chunks' = chunks \o p /\ stream' = s
  BY DEF Segment
<1>4. Len(stream) \in Nat
  BY <1>1, Cat
<1> HIDE DEF n
<1>5. p \in Text /\ s \in Text /\ p \o s = stream /\ Len(p) <= n
  <2>1. CASE n <= Len(stream)
    <3>1. p \in Text /\ s \in Text /\ Len(p) = n /\ p \o s = stream
      BY <1>1, <1>2, <2>1, SliceSplit
    <3> QED BY <1>2, <3>1
  <2>2. CASE n > Len(stream)
    <3>1. Len(stream) <= Len(stream) /\ Len(stream) - Len(stream) = 0
      BY <1>4
    <3>2. p = Slice(stream, 0, Len(stream)) /\ s = Slice(stream, Len(stream), Len(stream))
      <4>1. Min({n, Len(stream)}) = Len(stream) /\ Min({Len(stream), Len(stream)}) = Len(stream)
        BY <1>2, <1>4, <2>2, MinPair
      <4>2. SubSeq(stream, n + 1, Len(stream)) = <<>>
        BY <1>1, <1>2, <1>4, <2>2, SubSeqEmpty
      <4>3. SubSeq(stream, Len(stream) + 1, Len(stream)) = <<>>
        BY <1>1, <1>4, SubSeqEmpty
      <4> QED BY <4>1, <4>2, <4>3 DEF Slice
    <3>3. /\ Slice(stream, 0, Len(stream)) \in Text
          /\ Slice(stream, Len(stream), Len(stream)) \in Text
          /\ Len(Slice(stream, 0, Len(stream))) = Len(stream)
          /\ Slice(stream, 0, Len(stream)) \o Slice(stream, Len(stream), Len(stream)) = stream
      BY <1>1, <1>4, <3>1, SliceSplit
    <3> HIDE DEF p, s
    <3> QED BY <1>2, <1>4, <2>2, <3>2, <3>3
  <2> QED BY <1>2, <1>4, <2>1, <2>2
<1> HIDE DEF p, s
<1>6. (chunks \o p) \o s = chunks \o (p \o s)
  BY <1>1, <1>5, CatAssociative
<1>7. chunks \o p \in Text /\ Len(chunks \o p) = Len(chunks) + Len(p) /\ Len(p) \in Nat
  BY <1>1, <1>5, Cat
<1>8. Len(chunks) + Len(p) <= need
  BY <1>1, <1>2, <1>5, <1>7
<1> QED BY <1>3, <1>5, <1>6, <1>7, <1>8

LEMMA FrameInvInit == FInit => FrameInv
<1> SUFFICES ASSUME FInit PROVE FrameInv
  OBVIOUS
<1>1. 0 \in Byte
  BY CodecAssumption DEF Byte
<1>2. MaxFrameSize \in Nat /\ MaxFrames \in Nat /\ MaxFaults \in Nat
  BY FramingAssumption
<1>3. /\ stream \in Seq(Byte) /\ chunks \in Seq(Byte) /\ Len(chunks) = 0
      /\ sent \in Seq(Frame) /\ received \in Seq(Frame) /\ Len(sent) = 0
  BY DEF FInit
<1>4. /\ stage = "idle" /\ need = 0 /\ channel = 0 /\ broken = {} /\ faults = 0
      /\ closed = FALSE /\ tooLarge = FALSE /\ resumed = FALSE
  BY DEF FInit
<1>5. {closed, tooLarge, resumed} \subseteq BOOLEAN
  BY <1>4
<1>6. /\ need \in 0 .. MaxFrameSize \cup {HeaderSize} /\ Len(chunks) <= need
      /\ Len(sent) <= MaxFrames /\ faults \in 0 .. MaxFaults
  BY <1>2, <1>3, <1>4
<1>7. channel \in Byte /\ broken \subseteq {"sender", "reader"} /\ stage = "idle"
  BY <1>1, <1>4
<1>8. {sent, received} \subseteq Seq(Frame)
  BY <1>3
<1> QED BY <1>3, <1>5, <1>6, <1>7, <1>8 DEF FrameInv, FTypeOK

LEMMA FrameInvStep == FrameInv /\ [FNext]_fvars => FrameInv'
<1> SUFFICES ASSUME FrameInv, [FNext]_fvars PROVE FrameInv'
  OBVIOUS
<1> USE DEF FrameInv, FTypeOK
<1>0. /\ MaxFrameSize \in Nat /\ MaxFrames \in Nat /\ MaxFaults \in Nat /\ HeaderSize \in Nat
      /\ Frames \subseteq Frame
  BY FramingAssumption, CodecAssumption DEF HeaderSize
<1>1. ASSUME NEW f \in Frames, SendFrame(f) PROVE FrameInv'
  <2>1. f \in Frame /\ EncodeFrame(f) \in Text
    BY <1>0, <1>1, EncodedFrame DEF SendFrame
  <2>2. stream' \in Seq(Byte)
    BY <1>1, <2>1 DEF SendFrame, Text
  <2>3. sent' \in Seq(Frame) /\ Len(sent') <= MaxFrames
    BY <1>0, <1>1, <2>1 DEF SendFrame
  <2>4. resumed' \in BOOLEAN
    BY <1>1 DEF SendFrame, Uses
  <2> QED BY <1>1, <2>2, <2>3, <2>4 DEF SendFrame, readerVars
<1>2. ASSUME NEW f \in Frames, NEW k \in Pieces, SendCut(f, k) PROVE FrameInv'
  <2>1. f \in Frame /\ EncodeFrame(f) \in Text /\ k \in Nat
    BY <1>0, <1>2, EncodedFrame, FramingAssumption DEF SendCut
  <2>2. k <= Len(EncodeFrame(f))
    <3>1. Len(EncodeFrame(f)) = HeaderSize + Len(f.payload) /\ Len(f.payload) \in Nat
      <4> HIDE DEF FrameInv, FTypeOK
      <4>1. Sendable(f)
        BY <1>2 DEF SendCut
      <4>2. Len(EncodeFrame(f)) = HeaderSize + Len(f.payload) /\ Len(f.payload) \in 0 .. MaxFrameSize
        BY <2>1, <4>1, EncodedFrame
      <4> QED BY <1>0, <4>2
    <3>2. k < HeaderSize + Len(f.payload)
      BY <1>2 DEF SendCut
    <3> QED BY <1>0, <2>1, <3>1, <3>2
  <2>3. Slice(EncodeFrame(f), 0, k) \in Text
    BY <2>1, <2>2, SliceSplit
  <2>4. stream' \in Seq(Byte)
    BY <1>2, <2>3 DEF SendCut, Text
  <2>5. resumed' \in BOOLEAN
    BY <1>2 DEF SendCut, Uses
  <2>6. broken' \subseteq {"sender", "reader"} /\ faults' \in 0 .. MaxFaults
    BY <1>0, <1>2 DEF SendCut, Fails
  <2> QED BY <1>2, <2>4, <2>5, <2>6 DEF SendCut, readerVars
<1>3. ASSUME Close PROVE FrameInv'
  BY <1>3 DEF Close, readerVars
<1>4. ASSUME RecvFrame PROVE FrameInv'
  <2>1. resumed' \in BOOLEAN
    BY <1>4 DEF RecvFrame, Uses
  <2> QED BY <1>0, <1>4, <2>1 DEF RecvFrame, Reads
<1>5. ASSUME NEW n \in Pieces, Segment(n) PROVE FrameInv'
  <2>1. stream' \in Text /\ chunks' \in Text /\ Len(chunks') <= need
    BY <1>5, Segmented
  <2> QED BY <1>5, <2>1 DEF Segment, Text
<1>6. ASSUME HeaderRead PROVE FrameInv'
  <2> DEFINE h == Decode(FrameHeader, chunks).value
  <2>1. chunks \in Text /\ Len(chunks) \in Nat /\ Len(chunks) = HeaderSize
    BY <1>0, <1>6 DEF HeaderRead, Waiting, Text
  <2>2. h.channel \in Byte /\ h.length \in Nat
    BY <2>1, HeaderTyped
  <2> HIDE DEF h
  <2>3. /\ channel' = h.channel
        /\ IF TooLarge(h.length)
           THEN /\ Reads("idle", 0) /\ tooLarge' = TRUE /\ broken' = broken \cup {"reader"}
           ELSE /\ Reads("payload", h.length) /\ UNCHANGED <<tooLarge, broken>>
    BY <1>6 DEF HeaderRead, h
  <2>4. /\ stage' \in {"idle", "payload"} /\ need' \in 0 .. MaxFrameSize /\ chunks' = <<>>
        /\ need' <= MaxFrameSize
        /\ tooLarge' \in BOOLEAN /\ broken' \subseteq {"sender", "reader"}
    <3>1. CASE TooLarge(h.length)
      <4>1. /\ stage' = "idle" /\ need' = 0 /\ chunks' = <<>> /\ tooLarge' = TRUE
            /\ broken' = broken \cup {"reader"}
        BY <2>3, <3>1 DEF Reads
      <4>2. 0 \in 0 .. MaxFrameSize /\ broken \subseteq {"sender", "reader"}
        BY <1>0
      <4> HIDE DEF FrameInv, FTypeOK
      <4> QED BY <4>1, <4>2
    <3>2. CASE ~TooLarge(h.length)
      <4>1. h.length \in 0 .. MaxFrameSize
        BY <1>0, <2>2, <3>2 DEF TooLarge
      <4>2. stage' = "payload" /\ need' = h.length /\ chunks' = <<>> /\ UNCHANGED <<tooLarge, broken>>
        BY <2>3, <3>2 DEF Reads
      <4>3. need' <= MaxFrameSize
        BY <1>0, <4>1, <4>2
      <4>4. tooLarge \in BOOLEAN /\ broken \subseteq {"sender", "reader"}
        OBVIOUS
      <4> HIDE DEF FrameInv, FTypeOK
      <4> QED BY <4>1, <4>2, <4>3, <4>4
    <3> QED BY <3>1, <3>2
  <2> QED BY <1>6, <2>2, <2>3, <2>4 DEF HeaderRead
<1>7. ASSUME PayloadRead PROVE FrameInv'
  <2>1. received' \in Seq(Frame)
    BY <1>7 DEF PayloadRead, Frame
  <2> QED BY <1>0, <1>7, <2>1 DEF PayloadRead, Reads
<1>8. ASSUME TimeOut PROVE FrameInv'
  BY <1>0, <1>8 DEF TimeOut, Fails, Reads
<1>9. ASSUME EndOfStream PROVE FrameInv'
  BY <1>0, <1>9 DEF EndOfStream, Reads
<1>10. ASSUME UNCHANGED fvars PROVE FrameInv'
  BY <1>10 DEF fvars, readerVars
<1> QED BY <1>1, <1>2, <1>3, <1>4, <1>5, <1>6, <1>7, <1>8, <1>9, <1>10
        DEF FNext, SenderNext, ReaderNext

\* What a socket holds and what a read has taken of it are bytes, a read never
\* takes more of them than it needs for its header or for a payload within the
\* cap, and what it returns are frames (framing.py:38-60).
THEOREM FrameTypeCorrect == FSpec => []FTypeOK
<1>1. FrameInv => FTypeOK
  BY DEF FrameInv
<1> QED BY <1>1, FrameInvInit, FrameInvStep, PTL DEF FSpec

-------------------------------------------------------------------------------
\* Framing: order.

HeaderOf(c, n) == U8(c) \o U32(n)

LEMMA HeaderOfIs ==
  ASSUME NEW c \in Byte, NEW n \in Uint32
  PROVE  HeaderOf(c, n) \in Text /\ Len(HeaderOf(c, n)) = HeaderSize
<1> DEFINE p == U8(c)
           q == U32(n)
<1>1. p \in Text /\ q \in Text /\ Len(p) = 1 /\ Len(q) = IntWidth
  BY EncodesU8, EncodesU32 DEF Encodes
<1> HIDE DEF p, q
<1>2. p \o q \in Text /\ Len(p \o q) = Len(p) + Len(q)
  BY <1>1, Cat
<1> QED BY <1>1, <1>2 DEF HeaderOf, HeaderSize, p, q

LEMMA HeadersEqual ==
  ASSUME NEW c \in Byte, NEW n \in Uint32, NEW d \in Byte, NEW m \in Uint32,
         HeaderOf(c, n) = HeaderOf(d, m)
  PROVE  c = d /\ n = m
<1> DEFINE p == U8(c)
           q == U32(n)
           r == U8(d)
           s == U32(m)
<1>1. /\ p \in Text /\ Len(p) = 1 /\ p = <<c>> /\ r \in Text /\ Len(r) = 1 /\ r = <<d>>
      /\ q \in Text /\ s \in Text /\ Number(q) = n /\ Number(s) = m
  BY EncodesU8, EncodesU32 DEF Encodes, Value
<1>2. p \o q = r \o s
  BY DEF HeaderOf
<1> HIDE DEF p, q, r, s
<1>3. p = r /\ q = s
  BY <1>1, <1>2, CatSplit
<1>4. <<c>>[1] = c /\ <<d>>[1] = d
  OBVIOUS
<1> QED BY <1>1, <1>3, <1>4

LEMMA FrameIs ==
  ASSUME NEW f \in Frame, Sendable(f)
  PROVE  /\ f.channel \in Byte /\ f.payload \in Text /\ Len(f.payload) \in Uint32
         /\ Len(f.payload) \in 0 .. MaxFrameSize
         /\ EncodeFrame(f) = HeaderOf(f.channel, Len(f.payload)) \o f.payload
<1>1. f.channel \in Byte /\ f.payload \in Text /\ Len(f.payload) \in 0 .. MaxFrameSize
  BY EncodedFrame DEF Frame
<1>2. Power(IntWidth) \in Nat \ {0}
  BY PowerSteps, CodecAssumption
<1>3. Len(f.payload) \in Uint32
  BY <1>1, <1>2, FramingAssumption DEF Uint32
<1>4. EncodeFrame(f) = HeaderOf(f.channel, Len(f.payload)) \o f.payload
  BY DEF EncodeFrame, HeaderOf
<1> QED BY <1>1, <1>3, <1>4

\* What the reader has taken of the frame it is at.
Consumed == CASE stage = "idle"    -> <<>>
              [] stage = "header"  -> chunks
              [] stage = "payload" -> HeaderOf(channel, need) \o chunks

\* A frame of which the last part is missing, or nothing.
Cut(t) == t # <<>> => \E g \in Frame, u \in Text :
                         Sendable(g) /\ u # <<>> /\ t \o u = EncodeFrame(g)

\* rest[i] is what the sender has sent after its first i frames.
Rests(rest) == /\ \A i \in 0 .. Len(sent) : rest[i] \in Text
               /\ \A i \in 1 .. Len(sent) : rest[i - 1] = EncodeFrame(sent[i]) \o rest[i]
               /\ Cut(rest[Len(sent)])
               /\ "sender" \notin broken => rest[Len(sent)] = <<>>
               /\ Consumed \o stream = rest[Len(received)]

SentWell == \A i \in 1 .. Len(sent) : sent[i] \in Frames /\ Sendable(sent[i])

InOrder ==
  /\ SentWell
  /\ ~resumed => /\ ~tooLarge
                 /\ Len(received) <= Len(sent)
                 /\ \A i \in 1 .. Len(received) : received[i] = sent[i]
                 /\ "reader" \in broken => stage = "idle"
                 /\ "reader" \notin broken => \E rest : Rests(rest)

\* The frame the reader is at: u of it is missing, x follows it.
ReaderAt(f, u, x) == /\ f \in Frame /\ Sendable(f) /\ u \in Text /\ x \in Text
                     /\ Consumed \in Text
                     /\ (Consumed \o stream) \o u = EncodeFrame(f) \o x

LEMMA ConsumedText == FrameInv => Consumed \in Text /\ stream \in Text /\ chunks \in Text
<1> SUFFICES ASSUME FrameInv PROVE Consumed \in Text /\ stream \in Text /\ chunks \in Text
  OBVIOUS
<1>1. stream \in Text /\ chunks \in Text /\ stage \in {"idle", "header", "payload"}
  BY DEF FrameInv, FTypeOK, Text
<1>2. CASE stage = "payload"
  <2>1. channel \in Byte /\ need \in 0 .. MaxFrameSize
    BY <1>2, FramingAssumption, CodecAssumption DEF FrameInv, FTypeOK, HeaderSize
  <2>2. Power(IntWidth) \in Nat \ {0}
    BY PowerSteps, CodecAssumption
  <2>3. need \in Uint32
    BY <2>1, <2>2, FramingAssumption DEF Uint32
  <2>4. HeaderOf(channel, need) \in Text
    BY <2>1, <2>3, HeaderOfIs
  <2>5. HeaderOf(channel, need) \o chunks \in Text
    BY <1>1, <2>4, Cat
  <2> QED BY <1>1, <1>2, <2>5 DEF Consumed
<1>3. CASE stage # "payload"
  <2>1. <<>> \in Text
    BY DEF Text
  <2> QED BY <1>1, <1>3, <2>1 DEF Consumed
<1> QED BY <1>2, <1>3

LEMMA FrameAhead ==
  ASSUME FrameInv, SentWell, Len(received) <= Len(sent), NEW rest, Rests(rest),
         Consumed \o stream # <<>>
  PROVE  \/ /\ Len(received) < Len(sent)
            /\ ReaderAt(sent[Len(received) + 1], <<>>, rest[Len(received) + 1])
         \/ /\ Len(received) = Len(sent)
            /\ \E g, u : ReaderAt(g, u, <<>>) /\ u # <<>>
<1> DEFINE r == Len(received)
           n == Len(sent)
<1>1. r \in Nat /\ n \in Nat /\ r <= n
  BY DEF FrameInv, FTypeOK
<1>2. Consumed \in Text /\ stream \in Text /\ <<>> \in Text
  BY ConsumedText DEF Text
<1>3. Consumed \o stream \in Text /\ Consumed \o stream = rest[r]
  BY <1>2, Cat DEF Rests
<1> DEFINE c == Consumed \o stream
<1>4. c \o <<>> = c
  <2> HIDE DEF c
  <2> QED BY <1>3, Cat DEF c
<1> HIDE DEF c
<1>5. CASE r < n
  <2>1. r + 1 \in 1 .. n /\ (r + 1) - 1 = r /\ r + 1 \in 0 .. n
    BY <1>1, <1>5
  <2>2. sent[r + 1] \in Frame /\ Sendable(sent[r + 1])
    BY <2>1, FramingAssumption DEF SentWell
  <2>3. rest[r] = EncodeFrame(sent[r + 1]) \o rest[r + 1] /\ rest[r + 1] \in Text
    <3> DEFINE i == r + 1
    <3>1. i \in 1 .. n /\ i - 1 = r /\ i \in 0 .. n
      BY <2>1
    <3> HIDE DEF i
    <3>2. rest[i - 1] = EncodeFrame(sent[i]) \o rest[i] /\ rest[i] \in Text
      BY <3>1 DEF Rests
    <3> QED BY <3>1, <3>2 DEF i
  <2>4. ReaderAt(sent[r + 1], <<>>, rest[r + 1])
    BY <1>2, <1>3, <1>4, <2>2, <2>3 DEF ReaderAt, c
  <2> QED BY <1>5, <2>4
<1>6. CASE r = n
  <2>1. c # <<>> /\ Cut(c)
    BY <1>3, <1>6 DEF Rests, c
  <2>2. PICK g \in Frame, u \in Text : Sendable(g) /\ u # <<>> /\ c \o u = EncodeFrame(g)
    BY <2>1 DEF Cut
  <2>3. EncodeFrame(g) \in Text
    BY <2>2, EncodedFrame
  <2>4. EncodeFrame(g) \o <<>> = EncodeFrame(g)
    BY <2>3, Cat
  <2>5. ReaderAt(g, u, <<>>)
    BY <1>2, <2>2, <2>4 DEF ReaderAt, c
  <2> QED BY <1>6, <2>2, <2>5
<1> QED BY <1>1, <1>5, <1>6

\* A header that is complete is that of the frame.
LEMMA HeaderAhead ==
  ASSUME FrameInv, stage = "header", ~Waiting, NEW f, NEW u, NEW x, ReaderAt(f, u, x)
  PROVE  /\ chunks = HeaderOf(f.channel, Len(f.payload))
         /\ Decode(FrameHeader, chunks).value.channel = f.channel
         /\ Decode(FrameHeader, chunks).value.length = Len(f.payload)
<1> DEFINE b == f.payload
           h == HeaderOf(f.channel, Len(b))
<1>1. f \in Frame /\ Sendable(f) /\ u \in Text /\ x \in Text
  BY DEF ReaderAt
<1>2. /\ f.channel \in Byte /\ b \in Text /\ Len(b) \in Uint32
      /\ EncodeFrame(f) = h \o b /\ h \in Text /\ Len(h) = HeaderSize
  BY <1>1, FrameIs, HeaderOfIs
<1>3. /\ chunks \in Text /\ stream \in Text /\ Consumed = chunks
      /\ (chunks \o stream) \o u = EncodeFrame(f) \o x
  BY ConsumedText DEF Consumed, ReaderAt
<1>4. Len(chunks) = HeaderSize
  BY <1>3, CodecAssumption DEF FrameInv, FTypeOK, Waiting, HeaderSize, Text
<1> HIDE DEF b, h
<1>5. chunks \o (stream \o u) = h \o (b \o x) /\ stream \o u \in Text /\ b \o x \in Text
  <2>1. (chunks \o stream) \o u = chunks \o (stream \o u)
    BY <1>1, <1>3, CatAssociative
  <2>2. (h \o b) \o x = h \o (b \o x)
    BY <1>1, <1>2, CatAssociative
  <2>3. stream \o u \in Text /\ b \o x \in Text
    BY <1>1, <1>2, <1>3, Cat
  <2> QED BY <1>2, <1>3, <2>1, <2>2, <2>3
<1> DEFINE y == stream \o u
           z == b \o x
<1>6. chunks = h
  <2>1. y \in Text /\ z \in Text /\ chunks \o y = h \o z
    BY <1>5
  <2> HIDE DEF y, z
  <2> QED BY <1>2, <1>3, <1>4, <2>1, CatSplit
<1> DEFINE p == U8(f.channel)
           q == U32(Len(b))
<1>7. h = p \o q
  BY DEF h, HeaderOf
<1>8. /\ p \in Text /\ Len(p) = 1 /\ p = <<f.channel>> /\ q \in Text /\ Len(q) = IntWidth
      /\ Number(q) = Len(b)
  BY <1>2, EncodesU8, EncodesU32 DEF Encodes, Value
<1> HIDE DEF p, q
<1>9. /\ Decode(FrameHeader, p \o q).value.channel = Number(p)
      /\ Decode(FrameHeader, p \o q).value.length = Number(q)
  BY <1>8, HeaderIs
<1>10. Number(p) = f.channel
  <2>1. <<f.channel>>[1] = f.channel
    OBVIOUS
  <2> QED BY <1>8, <2>1, NumberText
<1> QED BY <1>6, <1>7, <1>8, <1>9, <1>10 DEF h, b

\* In a payload the reader has the channel and the length of the frame.
LEMMA PayloadAhead ==
  ASSUME FrameInv, stage = "payload", NEW f, NEW u, NEW x, ReaderAt(f, u, x)
  PROVE  /\ channel = f.channel /\ need = Len(f.payload) /\ f.payload \in Text
         /\ chunks \o (stream \o u) = f.payload \o x
<1> DEFINE b == f.payload
           h == HeaderOf(f.channel, Len(b))
           k == HeaderOf(channel, need)
           y == stream \o u
<1>1. f \in Frame /\ Sendable(f) /\ u \in Text /\ x \in Text
  BY DEF ReaderAt
<1>2. /\ f.channel \in Byte /\ b \in Text /\ Len(b) \in Uint32
      /\ EncodeFrame(f) = h \o b /\ h \in Text /\ Len(h) = HeaderSize
  BY <1>1, FrameIs, HeaderOfIs
<1>3. /\ chunks \in Text /\ stream \in Text /\ Consumed = k \o chunks
      /\ (Consumed \o stream) \o u = EncodeFrame(f) \o x
  BY ConsumedText DEF Consumed, ReaderAt
<1>4. channel \in Byte /\ need \in Uint32
  <2>1. channel \in Byte /\ need \in 0 .. MaxFrameSize
    BY FramingAssumption, CodecAssumption DEF FrameInv, FTypeOK, HeaderSize
  <2>2. Power(IntWidth) \in Nat \ {0}
    BY PowerSteps, CodecAssumption
  <2> QED BY <2>1, <2>2, FramingAssumption DEF Uint32
<1>5. k \in Text /\ Len(k) = HeaderSize
  BY <1>4, HeaderOfIs
<1>6. y \in Text
  BY <1>1, <1>3, Cat
<1> HIDE DEF b, h, k
<1>7. ((k \o chunks) \o stream) \o u = k \o (chunks \o y)
  <2>1. (k \o chunks) \o stream = k \o (chunks \o stream)
    BY <1>3, <1>5, CatAssociative
  <2>2. chunks \o stream \in Text
    BY <1>3, Cat
  <2> DEFINE z == chunks \o stream
  <2>3. (k \o z) \o u = k \o (z \o u)
    <3> HIDE DEF z
    <3> QED BY <1>1, <1>5, <2>2, CatAssociative DEF z
  <2>4. z \o u = chunks \o y
    BY <1>1, <1>3, CatAssociative
  <2> QED BY <2>1, <2>3, <2>4
<1>8. (h \o b) \o x = h \o (b \o x)
  BY <1>1, <1>2, CatAssociative
<1> HIDE DEF y
<1> DEFINE v == chunks \o y
           w == b \o x
<1>9. v \in Text /\ w \in Text /\ k \o v = h \o w
  BY <1>1, <1>2, <1>3, <1>6, <1>7, <1>8, Cat
<1> HIDE DEF v, w
<1>10. k = h /\ v = w
  BY <1>2, <1>5, <1>9, CatSplit
<1>11. channel = f.channel /\ need = Len(b)
  BY <1>2, <1>4, <1>10, HeadersEqual DEF k, h
<1> QED BY <1>2, <1>10, <1>11 DEF v, w, y, b

LEMMA InOrderInit == FInit => InOrder
<1> SUFFICES ASSUME FInit PROVE InOrder
  OBVIOUS
<1>1. /\ Len(sent) = 0 /\ Len(received) = 0 /\ Consumed = <<>> /\ stream = <<>> /\ broken = {}
      /\ tooLarge = FALSE /\ <<>> \in Text
  BY DEF FInit, Consumed, Text
<1> DEFINE rest == [i \in 0 .. 0 |-> <<>>]
<1>2. rest[0] = <<>>
  OBVIOUS
<1>3. Consumed \o stream = <<>>
  BY <1>1, Cat
<1> HIDE DEF rest
<1>4. Rests(rest)
  BY <1>1, <1>2, <1>3 DEF Rests, Cut
<1> QED BY <1>1, <1>4 DEF InOrder, SentWell

\* The sender appends bytes to what it has sent.
Extends(new, t) ==
  /\ \A i \in 0 .. Len(sent) : new[i] \in Text
  /\ \A i \in 1 .. Len(sent) : new[i - 1] = EncodeFrame(sent[i]) \o new[i]
  /\ Len(received) <= Len(sent) => Consumed \o (stream \o t) = new[Len(received)]
  /\ "sender" \notin broken => new[Len(sent)] = t

LEMMA Appended ==
  ASSUME FrameInv, SentWell, NEW rest, Rests(rest), NEW t \in Text
  PROVE  \E new : Extends(new, t)
<1> DEFINE n == Len(sent)
           new == [i \in 0 .. n |-> rest[i] \o t]
<1>0. n \in Nat /\ Len(received) \in Nat
  BY DEF FrameInv, FTypeOK
<1>1. \A i \in 0 .. n : rest[i] \in Text
  BY DEF Rests
<1>2. ASSUME NEW i \in 0 .. n PROVE new[i] \in Text
  BY <1>1, Cat
<1>3. ASSUME NEW i \in 1 .. n PROVE new[i - 1] = EncodeFrame(sent[i]) \o new[i]
  <2> DEFINE e == EncodeFrame(sent[i])
  <2>1. i \in 0 .. n /\ i - 1 \in 0 .. n
    BY <1>0
  <2>2. e \in Text
    BY FramingAssumption, EncodedFrame DEF SentWell
  <2>3. rest[i - 1] = e \o rest[i] /\ rest[i] \in Text
    BY <2>1 DEF Rests
  <2> HIDE DEF e
  <2>4. (e \o rest[i]) \o t = e \o (rest[i] \o t)
    BY <2>2, <2>3, CatAssociative
  <2>5. new[i - 1] = rest[i - 1] \o t /\ new[i] = rest[i] \o t
    BY <2>1
  <2> HIDE DEF new
  <2> QED BY <2>3, <2>4, <2>5 DEF e
<1>4. ASSUME Len(received) <= n PROVE Consumed \o (stream \o t) = new[Len(received)]
  <2>1. (Consumed \o stream) \o t = Consumed \o (stream \o t)
    BY ConsumedText, CatAssociative
  <2>2. Consumed \o stream = rest[Len(received)]
    BY DEF Rests
  <2>3. new[Len(received)] = rest[Len(received)] \o t
    BY <1>0, <1>4
  <2> HIDE DEF new
  <2> QED BY <2>1, <2>2, <2>3
<1>5. ASSUME "sender" \notin broken PROVE new[n] = t
  <2>1. rest[n] = <<>> /\ new[n] = rest[n] \o t
    BY <1>0, <1>5 DEF Rests
  <2> HIDE DEF new
  <2> QED BY <2>1, Cat
<1> HIDE DEF new
<1>6. Extends(new, t)
  BY <1>2, <1>3, <1>4, <1>5 DEF Extends
<1> QED BY <1>6

LEMMA InOrderSendFrame ==
  ASSUME FrameInv, InOrder, NEW f \in Frames, SendFrame(f)
  PROVE  InOrder'
<1> DEFINE n == Len(sent)
           e == EncodeFrame(f)
<1>1. n \in Nat /\ Len(received) \in Nat /\ Consumed' = Consumed
  BY DEF FrameInv, FTypeOK, SendFrame, readerVars, Consumed
<1>2. f \in Frame /\ Sendable(f) /\ e \in Text
  BY FramingAssumption, EncodedFrame DEF SendFrame
<1>3. Len(sent') = n + 1 /\ sent'[n + 1] = f /\ \A i \in 1 .. n : sent'[i] = sent[i]
  BY DEF SendFrame, FrameInv, FTypeOK
<1>4. \A i \in 1 .. n + 1 : i \in 1 .. n \/ i = n + 1
  BY <1>1
<1>5. SentWell'
  BY <1>1, <1>2, <1>3, <1>4 DEF InOrder, SentWell, Sendable
<1>6. ASSUME ~resumed'
      PROVE  /\ ~tooLarge' /\ Len(received') <= Len(sent')
             /\ \A i \in 1 .. Len(received') : received'[i] = sent'[i]
             /\ "reader" \in broken' => stage' = "idle"
             /\ "reader" \notin broken' => \E rest : Rests(rest)'
  <2>1. ~resumed /\ "sender" \notin broken
    BY <1>6 DEF SendFrame, Uses
  <2>2. UNCHANGED <<received, tooLarge, broken, stage>> /\ stream' = stream \o e
    BY DEF SendFrame, readerVars
  <2>3. /\ ~tooLarge /\ Len(received) <= n /\ \A i \in 1 .. Len(received) : received[i] = sent[i]
        /\ "reader" \in broken => stage = "idle"
        /\ "reader" \notin broken => \E rest : Rests(rest)
    BY <2>1 DEF InOrder
  <2>4. ASSUME NEW rest, Rests(rest) PROVE \E new : Rests(new)'
    <3>a. PICK old : Extends(old, e)
      BY <1>2, <2>4, Appended DEF InOrder
    <3>b. PICK new : new = [i \in 0 .. n + 1 |-> IF i = n + 1 THEN <<>> ELSE old[i]]
      OBVIOUS
    <3>1. /\ \A i \in 0 .. n : old[i] \in Text
          /\ \A i \in 1 .. n : old[i - 1] = EncodeFrame(sent[i]) \o old[i]
          /\ Consumed \o (stream \o e) = old[Len(received)]
          /\ old[n] = e
      BY <2>1, <2>3, <3>a DEF Extends
    <3>2. new[n + 1] = <<>> /\ <<>> \in Text /\ \A i \in 0 .. n : new[i] = old[i]
      BY <1>1, <3>b DEF Text
    <3>3. \A i \in 0 .. n + 1 : i \in 0 .. n \/ i = n + 1
      BY <1>1
    <3>4. \A i \in 0 .. n + 1 : new[i] \in Text
      BY <3>1, <3>2, <3>3
    <3>5. ASSUME NEW i \in 1 .. n + 1 PROVE new[i - 1] = EncodeFrame(sent'[i]) \o new[i]
      <4>1. CASE i \in 1 .. n
        <5>1. i \in 0 .. n /\ i - 1 \in 0 .. n
          BY <1>1, <4>1
        <5> QED BY <1>3, <3>1, <3>2, <4>1, <5>1
      <4>2. CASE i = n + 1
        <5>1. i - 1 = n /\ n \in 0 .. n
          BY <1>1, <4>2
        <5>2. e \o <<>> = e
          BY <1>2, Cat
        <5> QED BY <1>3, <3>1, <3>2, <4>2, <5>1, <5>2
      <4> QED BY <1>4, <4>1, <4>2
    <3>6. Consumed' \o stream' = new[Len(received)]
      <4>1. Len(received) \in 0 .. n
        BY <1>1, <2>3
      <4> QED BY <1>1, <2>2, <3>1, <3>2, <4>1
    <3>7. Rests(new)'
      BY <1>3, <2>2, <3>2, <3>4, <3>5, <3>6 DEF Rests, Cut, EncodeFrame
    <3> QED BY <3>7
  <2> QED BY <1>1, <1>3, <2>2, <2>3, <2>4
<1> QED BY <1>5, <1>6 DEF InOrder

LEMMA InOrderSendCut ==
  ASSUME FrameInv, InOrder, NEW f \in Frames, NEW k \in Pieces, SendCut(f, k)
  PROVE  InOrder'
<1> DEFINE n == Len(sent)
           e == EncodeFrame(f)
           t == Slice(e, 0, k)
           u == Slice(e, k, Len(e))
<1>1. n \in Nat /\ Len(received) \in Nat /\ Consumed' = Consumed
  BY DEF FrameInv, FTypeOK, SendCut, readerVars, Consumed
<1>2. f \in Frame /\ Sendable(f) /\ e \in Text /\ Len(e) = HeaderSize + Len(f.payload)
  BY FramingAssumption, EncodedFrame DEF SendCut
<1>3. k \in Nat /\ k < Len(e) /\ k <= Len(e) /\ Len(e) \in Nat
  BY <1>2, FramingAssumption, Cat DEF SendCut
<1> HIDE DEF e
<1>4. t \in Text /\ u \in Text /\ Len(u) = Len(e) - k /\ t \o u = e
  BY <1>2, <1>3, SliceSplit
<1>5. Cut(t)
  <2>1. u # <<>>
    <3> HIDE DEF u
    <3> QED BY <1>3, <1>4
  <2> HIDE DEF t, u
  <2> QED BY <1>2, <1>4, <2>1 DEF Cut, e
<1>6. /\ UNCHANGED <<sent, received, tooLarge, stage>> /\ stream' = stream \o t
      /\ broken' = broken \cup {"sender"} /\ resumed' = (resumed \/ "sender" \in broken)
  BY DEF SendCut, readerVars, e, Fails, Uses
<1> HIDE DEF t, u
<1>7. SentWell'
  BY <1>6 DEF InOrder, SentWell
<1>8. ASSUME ~resumed'
      PROVE  /\ ~tooLarge' /\ Len(received') <= Len(sent')
             /\ \A i \in 1 .. Len(received') : received'[i] = sent'[i]
             /\ "reader" \in broken' => stage' = "idle"
             /\ "reader" \notin broken' => \E rest : Rests(rest)'
  <2>1. ~resumed /\ "sender" \notin broken
    BY <1>6, <1>8
  <2>2. /\ ~tooLarge /\ Len(received) <= n /\ \A i \in 1 .. Len(received) : received[i] = sent[i]
        /\ "reader" \in broken => stage = "idle"
        /\ "reader" \notin broken => \E rest : Rests(rest)
    BY <2>1 DEF InOrder
  <2>3. ASSUME NEW rest, Rests(rest) PROVE \E new : Rests(new)'
    <3>a. PICK new : Extends(new, t)
      BY <1>4, <2>3, Appended DEF InOrder
    <3>1. /\ \A i \in 0 .. n : new[i] \in Text
          /\ \A i \in 1 .. n : new[i - 1] = EncodeFrame(sent[i]) \o new[i]
          /\ Consumed \o (stream \o t) = new[Len(received)]
          /\ new[n] = t
      BY <2>1, <2>2, <3>a DEF Extends
    <3>2. Rests(new)'
      BY <1>1, <1>5, <1>6, <3>1 DEF Rests, Cut
    <3> QED BY <3>2
  <2> QED BY <1>6, <2>2, <2>3
<1> QED BY <1>7, <1>8 DEF InOrder

LEMMA InOrderReader ==
  ASSUME FrameInv, InOrder, UNCHANGED <<sent, received>>, resumed' = resumed,
         resumed \/ /\ ~tooLarge' /\ "reader" \notin broken /\ broken' = broken
                    /\ Consumed' \o stream' = Consumed \o stream
  PROVE  InOrder'
<1>1. SentWell'
  BY DEF InOrder, SentWell
<1>2. ASSUME NEW rest, Rests(rest), ~resumed PROVE Rests(rest)'
  BY <1>2 DEF Rests, Cut
<1>3. ASSUME ~resumed PROVE \E rest : Rests(rest)'
  <2>1. PICK rest : Rests(rest)
    BY <1>3 DEF InOrder
  <2> QED BY <1>2, <1>3, <2>1
<1>4. ASSUME ~resumed'
      PROVE  /\ ~tooLarge' /\ Len(received') <= Len(sent')
             /\ \A i \in 1 .. Len(received') : received'[i] = sent'[i]
             /\ "reader" \notin broken'
  BY <1>4 DEF InOrder
<1> QED BY <1>1, <1>3, <1>4 DEF InOrder

LEMMA InOrderHeaderRead ==
  ASSUME FrameInv, InOrder, HeaderRead
  PROVE  InOrder'
<1> DEFINE h == Decode(FrameHeader, chunks).value
           r == Len(received)
<1>1. UNCHANGED <<sent, received, stream, resumed>> /\ stage = "header" /\ ~Waiting
  BY DEF HeaderRead
<1>2. CASE resumed
  BY <1>1, <1>2, InOrderReader
<1>3. CASE ~resumed
  <2>1. /\ SentWell /\ ~tooLarge /\ r <= Len(sent) /\ "reader" \notin broken
        /\ \E rest : Rests(rest)
    BY <1>1, <1>3 DEF InOrder
  <2>2. PICK rest : Rests(rest)
    BY <2>1
  <2>3. /\ chunks \in Text /\ stream \in Text /\ Len(chunks) = HeaderSize /\ HeaderSize > 0
        /\ Consumed = chunks
    BY <1>1, ConsumedText, CodecAssumption
       DEF Consumed, FrameInv, FTypeOK, Waiting, HeaderSize, Text
  <2>4. Consumed \o stream # <<>>
    <3>1. Len(chunks \o stream) >= HeaderSize
      BY <2>3, Cat
    <3>2. Len(<<>>) = 0
      OBVIOUS
    <3> QED BY <2>3, <3>1, <3>2
  <2>5. \E f, u, x : ReaderAt(f, u, x)
    BY <2>1, <2>2, <2>4, FrameAhead
  <2>6. PICK f, u, x : ReaderAt(f, u, x)
    BY <2>5
  <2>7. f \in Frame /\ Sendable(f)
    BY <2>6 DEF ReaderAt
  <2>8. /\ chunks = HeaderOf(f.channel, Len(f.payload))
        /\ h.channel = f.channel /\ h.length = Len(f.payload)
    BY <1>1, <2>6, HeaderAhead
  <2>9. Len(f.payload) \in 0 .. MaxFrameSize
    BY <2>7, FrameIs
  <2>10. ~TooLarge(h.length)
    BY <2>8, <2>9, FramingAssumption DEF TooLarge
  <2>11. /\ channel' = h.channel /\ stage' = "payload" /\ need' = h.length /\ chunks' = <<>>
         /\ UNCHANGED <<tooLarge, broken>>
    BY <2>10 DEF HeaderRead, Reads
  <2> HIDE DEF h
  <2>12. Consumed' = HeaderOf(channel', need') \o chunks'
    BY <2>11 DEF Consumed
  <2>13. HeaderOf(channel', need') = chunks
    BY <2>8, <2>11
  <2>14. chunks \o <<>> = chunks
    BY <2>3, Cat
  <2>15. Consumed' \o stream' = Consumed \o stream
    BY <1>1, <2>3, <2>11, <2>12, <2>13, <2>14
  <2> QED BY <1>1, <2>1, <2>11, <2>15, InOrderReader
<1> QED BY <1>2, <1>3

LEMMA InOrderPayloadRead ==
  ASSUME FrameInv, InOrder, PayloadRead
  PROVE  InOrder'
<1> DEFINE r == Len(received)
           n == Len(sent)
<1>1. /\ UNCHANGED <<sent, stream, resumed, tooLarge, broken>> /\ stage = "payload" /\ ~Waiting
      /\ stage' = "idle" /\ received' = Append(received, [channel |-> channel, payload |-> chunks])
  BY DEF PayloadRead, Reads
<1>2. SentWell'
  BY <1>1 DEF InOrder, SentWell
<1>3. CASE resumed
  BY <1>1, <1>2, <1>3 DEF InOrder
<1>4. CASE ~resumed
  <2>1. /\ SentWell /\ ~tooLarge /\ r <= n /\ "reader" \notin broken
        /\ \A i \in 1 .. r : received[i] = sent[i]
        /\ \E rest : Rests(rest)
    BY <1>1, <1>4 DEF InOrder
  <2>2. PICK rest : Rests(rest)
    BY <2>1
  <2>3. /\ chunks \in Text /\ stream \in Text /\ Consumed \in Text
        /\ Consumed = HeaderOf(channel, need) \o chunks
    BY <1>1, ConsumedText DEF Consumed
  <2>4. Len(chunks) = need /\ need \in Nat
    BY <1>1, <2>3, FramingAssumption, CodecAssumption
       DEF FrameInv, FTypeOK, Waiting, HeaderSize, Text
  <2>5. ASSUME NEW f, NEW u, NEW x, ReaderAt(f, u, x)
        PROVE  chunks = f.payload /\ stream \o u = x /\ channel = f.channel
    <3>1. /\ channel = f.channel /\ need = Len(f.payload) /\ f.payload \in Text
          /\ chunks \o (stream \o u) = f.payload \o x
      BY <1>1, <2>5, PayloadAhead
    <3>2. u \in Text /\ x \in Text
      BY <2>5 DEF ReaderAt
    <3>3. stream \o u \in Text
      BY <2>3, <3>2, Cat
    <3> DEFINE y == stream \o u
               b == f.payload
    <3>4. y \in Text /\ b \in Text /\ Len(chunks) = Len(b) /\ chunks \o y = b \o x
      BY <2>4, <3>1, <3>3
    <3> HIDE DEF y, b
    <3>5. chunks = b /\ y = x
      BY <2>3, <3>2, <3>4, CatSplit
    <3> QED BY <3>1, <3>5 DEF y, b
  <2>6. Consumed \o stream # <<>>
    <3>1. channel \in Byte /\ need \in Uint32
      <4>1. Power(IntWidth) \in Nat \ {0}
        BY PowerSteps, CodecAssumption
      <4>2. channel \in Byte /\ need <= MaxFrameSize
        BY <1>1 DEF FrameInv, FTypeOK
      <4> QED BY <2>4, <4>1, <4>2, FramingAssumption DEF Uint32
    <3> DEFINE k == HeaderOf(channel, need)
    <3>2. k \in Text /\ Len(k) = HeaderSize /\ HeaderSize > 0
      BY <3>1, HeaderOfIs, CodecAssumption DEF HeaderSize
    <3> HIDE DEF k
    <3>3. Len(Consumed) = Len(k) + Len(chunks) /\ Len(chunks) \in Nat
      BY <2>3, <3>2, Cat DEF k
    <3>4. Len(Consumed \o stream) = Len(Consumed) + Len(stream) /\ Len(stream) \in Nat
      BY <2>3, Cat
    <3>5. Len(<<>>) = 0 /\ HeaderSize \in Nat
      BY CodecAssumption DEF HeaderSize
    <3>6. Len(Consumed \o stream) > 0
      BY <3>2, <3>3, <3>4, <3>5
    <3> QED BY <3>5, <3>6
  <2>7. /\ r < n /\ ReaderAt(sent[r + 1], <<>>, rest[r + 1])
    <3>1. ASSUME NEW g, NEW u, ReaderAt(g, u, <<>>), u # <<>> PROVE FALSE
      <4>1. stream \o u = <<>> /\ u \in Text
        BY <2>5, <3>1 DEF ReaderAt
      <4>2. Len(stream \o u) = Len(stream) + Len(u) /\ Len(stream) \in Nat /\ Len(u) \in Nat
        BY <2>3, <4>1, Cat
      <4>3. Len(u) = 0
        BY <4>1, <4>2
      <4> QED BY <3>1, <4>1, <4>3 DEF Text
    <3> QED BY <2>1, <2>2, <2>6, <3>1, FrameAhead
  <2> DEFINE f == sent[r + 1]
  <2>8. chunks = f.payload /\ channel = f.channel /\ stream \o <<>> = rest[r + 1] /\ f \in Frame
    BY <2>5, <2>7 DEF ReaderAt
  <2>9. stream = rest[r + 1]
    BY <2>3, <2>8, Cat
  <2>10. [channel |-> channel, payload |-> chunks] = f
    <3> HIDE DEF f
    <3> QED BY <2>8 DEF Frame
  <2>11. /\ r \in Nat /\ n \in Nat /\ Len(received') = r + 1 /\ received'[r + 1] = f
         /\ \A i \in 1 .. r : received'[i] = received[i]
    BY <1>1, <2>10 DEF FrameInv, FTypeOK
  <2>12. Consumed' = <<>> /\ <<>> \o stream = stream
    BY <1>1, <2>3, Cat DEF Consumed
  <2>13. Rests(rest)'
    <3>1. Consumed' \o stream' = rest[Len(received')]
      BY <1>1, <2>9, <2>11, <2>12
    <3> QED BY <1>1, <2>2, <3>1 DEF Rests, Cut
  <2>14. Len(received') <= Len(sent') /\ \A i \in 1 .. Len(received') : received'[i] = sent'[i]
    <3>1. \A i \in 1 .. r + 1 : i \in 1 .. r \/ i = r + 1
      BY <2>11
    <3> QED BY <1>1, <2>1, <2>7, <2>11, <3>1
  <2> QED BY <1>1, <1>2, <2>1, <2>13, <2>14 DEF InOrder
<1> QED BY <1>3, <1>4

LEMMA InOrderStep == FrameInv /\ InOrder /\ [FNext]_fvars => InOrder'
<1> SUFFICES ASSUME FrameInv, InOrder, [FNext]_fvars PROVE InOrder'
  OBVIOUS
<1>1. ASSUME NEW f \in Frames, SendFrame(f) PROVE InOrder'
  BY <1>1, InOrderSendFrame
<1>2. ASSUME NEW f \in Frames, NEW k \in Pieces, SendCut(f, k) PROVE InOrder'
  BY <1>2, InOrderSendCut
<1>3. ASSUME Close PROVE InOrder'
  BY <1>3 DEF Close, readerVars, InOrder, SentWell, Rests, Cut, Consumed
<1>4. ASSUME RecvFrame PROVE InOrder'
  <2>1. /\ UNCHANGED <<stream, sent, received, tooLarge, broken>>
        /\ resumed' = (resumed \/ "reader" \in broken)
        /\ Consumed' = Consumed
    BY <1>4 DEF RecvFrame, Reads, Uses, Consumed
  <2>2. CASE resumed'
    BY <2>1, <2>2 DEF InOrder, SentWell
  <2>3. CASE ~resumed'
    <3>1. ~resumed /\ "reader" \notin broken /\ resumed' = resumed /\ ~tooLarge'
      BY <2>1, <2>3, FrameInvStep DEF FrameInv, FTypeOK, InOrder
    <3> QED BY <2>1, <3>1, InOrderReader
  <2> QED BY <2>2, <2>3
<1>5. ASSUME NEW n \in Pieces, Segment(n) PROVE InOrder'
  <2>1. /\ UNCHANGED <<sent, received, resumed, tooLarge, broken, stage, channel, need>>
        /\ stage # "idle"
    BY <1>5 DEF Segment, Waiting
  <2>2. /\ stream' \in Text /\ chunks' \in Text /\ stream \in Text /\ chunks \in Text
        /\ chunks' \o stream' = chunks \o stream
    BY <1>5, Segmented, ConsumedText
  <2>3. Consumed' \o stream' = Consumed \o stream
    <3>1. CASE stage = "header"
      BY <2>1, <2>2, <3>1 DEF Consumed
    <3>2. CASE stage = "payload"
      <4> DEFINE k == HeaderOf(channel, need)
      <4>1. Consumed = k \o chunks /\ Consumed' = k \o chunks'
        BY <2>1, <3>2 DEF Consumed
      <4>2. k \in Text
        <5>1. Power(IntWidth) \in Nat \ {0}
          BY PowerSteps, CodecAssumption
        <5>2. channel \in Byte /\ need <= MaxFrameSize /\ need \in Nat
          BY <3>2, FramingAssumption, CodecAssumption DEF FrameInv, FTypeOK, HeaderSize
        <5>3. need \in Uint32
          BY <5>1, <5>2, FramingAssumption DEF Uint32
        <5> QED BY <5>2, <5>3, HeaderOfIs
      <4> HIDE DEF k
      <4>3. (k \o chunks) \o stream = k \o (chunks \o stream)
        BY <2>2, <4>2, CatAssociative
      <4>4. (k \o chunks') \o stream' = k \o (chunks' \o stream')
        BY <2>2, <4>2, CatAssociative
      <4> QED BY <2>2, <4>1, <4>3, <4>4
    <3> QED BY <2>1, <3>1, <3>2 DEF FrameInv, FTypeOK
  <2>4. resumed \/ (~tooLarge' /\ "reader" \notin broken)
    BY <2>1 DEF InOrder
  <2> QED BY <2>1, <2>3, <2>4, InOrderReader
<1>6. ASSUME HeaderRead PROVE InOrder'
  BY <1>6, InOrderHeaderRead
<1>7. ASSUME PayloadRead PROVE InOrder'
  BY <1>7, InOrderPayloadRead
<1>8. ASSUME TimeOut PROVE InOrder'
  BY <1>8 DEF TimeOut, Fails, Reads, InOrder, SentWell
<1>9. ASSUME EndOfStream PROVE InOrder'
  BY <1>9 DEF EndOfStream, Reads, InOrder, SentWell
<1>10. ASSUME UNCHANGED fvars PROVE InOrder'
  BY <1>10 DEF fvars, readerVars, InOrder, SentWell, Rests, Cut, Consumed
<1> QED BY <1>1, <1>2, <1>3, <1>4, <1>5, <1>6, <1>7, <1>8, <1>9, <1>10
        DEF FNext, SenderNext, ReaderNext

\* The inductive invariant of the four theorems about the wire.
LEMMA FrameInvariant == FSpec => [](FrameInv /\ InOrder)
BY FrameInvInit, InOrderInit, FrameInvStep, InOrderStep, PTL DEF FSpec

\* What recv_frame returns is what send_frame was given, whole and in order, for
\* every size of the segments and of the frames, and wherever a call gives up or
\* the connection closes, until an end uses the socket after a call on it has
\* raised (framing.py:29-60).
THEOREM WholeAndInOrder == FSpec => []FramesInOrder
<1>1. FrameInv /\ InOrder => FramesInOrder
  <2> SUFFICES ASSUME FrameInv, InOrder, ~resumed PROVE IsPrefix(received, sent) /\ ~tooLarge
    BY DEF FramesInOrder
  <2>1. /\ Len(received) <= Len(sent) /\ \A i \in 1 .. Len(received) : received[i] = sent[i]
        /\ ~tooLarge /\ received \in Seq(Frame) /\ sent \in Seq(Frame)
    BY DEF InOrder, FrameInv, FTypeOK
  <2>2. SubSeq(received, 1, Len(received)) = SubSeq(sent, 1, Len(received))
    BY <2>1
  <2> QED BY <2>1, <2>2 DEF IsPrefix
<1> QED BY <1>1, FrameInvariant, PTL

-------------------------------------------------------------------------------
\* Messages: b is the encoding of the first i fields of m, of the names D.
\* The length of a byte string fits into its prefix when the whole is short.

Short == {b \in Text : Len(b) \in Uint32}

Carries(kind, p, v) == p \in Text /\ (p \in Short => Encodes(kind, p, v))

Leading(fields, i, D, b, m) ==
  b \in Text /\ (b \in Short => \A s \in Text : Reached(fields, b \o s, i, D, s, m))

LEMMA ShortParts ==
  ASSUME NEW a \in Text, NEW b \in Text, a \o b \in Short
  PROVE  a \in Short /\ b \in Short
<1>1. Len(a) \in Nat /\ Len(b) \in Nat /\ Len(a \o b) = Len(a) + Len(b)
  BY Cat
<1>2. Power(IntWidth) \in Nat \ {0}
  BY PowerSteps, CodecAssumption
<1> QED BY <1>1, <1>2 DEF Short, Uint32

LEMMA LeadingFirst ==
  ASSUME NEW fields, NEW m, NEW n, NEW kind, NEW p, fields[1] = <<n, kind>>,
         Carries(kind, p, m[n])
  PROVE  Leading(fields, 1, {n}, p, m)
<1>1. p \in Text
  BY DEF Carries
<1>2. ASSUME p \in Short, NEW s \in Text PROVE Reached(fields, p \o s, 1, {n}, s, m)
  <2> DEFINE data == p \o s
             zero == 0
  <2>1. Reached(fields, data, zero, {}, p \o s, m)
    BY ReachedStart
  <2>2. zero \in Nat /\ zero + 1 = 1 /\ {} \cup {n} = {n}
    OBVIOUS
  <2>3. Encodes(kind, p, m[n]) /\ fields[zero + 1] = <<n, kind>>
    BY <1>2, <2>2 DEF Carries
  <2> HIDE DEF data, zero
  <2>4. Reached(fields, data, zero + 1, {} \cup {n}, s, m)
    BY <2>1, <2>2, <2>3, ReachedNext
  <2> QED BY <2>2, <2>4 DEF data
<1> QED BY <1>1, <1>2 DEF Leading

LEMMA LeadingNext ==
  ASSUME NEW fields, NEW m, NEW i \in Nat, NEW D, NEW b, Leading(fields, i, D, b, m),
         NEW j, j = i + 1,
         NEW n, NEW kind, NEW p, fields[j] = <<n, kind>>, Carries(kind, p, m[n])
  PROVE  Leading(fields, j, D \cup {n}, b \o p, m)
<1>1. b \in Text /\ p \in Text
  BY DEF Leading, Carries
<1>2. b \o p \in Text
  BY <1>1, Cat
<1>3. ASSUME b \o p \in Short, NEW s \in Text
      PROVE  Reached(fields, (b \o p) \o s, i + 1, D \cup {n}, s, m)
  <2>1. b \in Short /\ p \in Short
    BY <1>1, <1>3, ShortParts
  <2>2. p \o s \in Text /\ (b \o p) \o s = b \o (p \o s)
    <3>1. p \o s \in Text
      BY <1>1, Cat
    <3> QED BY <1>1, <3>1, CatAssociative
  <2>3. Reached(fields, b \o (p \o s), i, D, p \o s, m)
    BY <2>1, <2>2 DEF Leading
  <2>4. Encodes(kind, p, m[n])
    BY <2>1 DEF Carries
  <2> DEFINE data == (b \o p) \o s
  <2>5. Reached(fields, data, i, D, p \o s, m)
    BY <2>2, <2>3
  <2> HIDE DEF data
  <2>6. Reached(fields, data, i + 1, D \cup {n}, s, m)
    BY <2>4, <2>5, ReachedNext
  <2> QED BY <2>6 DEF data
<1> QED BY <1>2, <1>3 DEF Leading

RecordOn(m, D) == m = [n \in D |-> m[n]]

LEMMA LeadingEnd ==
  ASSUME NEW k \in Nat, NEW fields, k = Len(fields), NEW D, NEW b, NEW m,
         Leading(fields, k, D, b, m), b \in Short, RecordOn(m, D)
  PROVE  /\ \A s \in Text : Decode(fields, b \o s) = [ok |-> TRUE, rest |-> s, value |-> m]
         /\ Decode(fields, b) = [ok |-> TRUE, rest |-> <<>>, value |-> m]
         /\ Parsed(fields, b) = Returned(m)
         /\ ParsedWhole(fields, b) = Returned(m)
<1>1. ASSUME NEW s \in Text
      PROVE  Decode(fields, b \o s) = [ok |-> TRUE, rest |-> s, value |-> m]
  <2> DEFINE data == b \o s
  <2>1. Reached(fields, data, k, D, s, m)
    BY DEF Leading
  <2> HIDE DEF data
  <2>2. Decode(fields, data) = [ok |-> TRUE, rest |-> s, value |-> [n \in D |-> m[n]]]
    BY <2>1, ReachedEnd
  <2> QED BY <2>2 DEF data, RecordOn
<1>2. b \o <<>> = b /\ <<>> \in Text
  BY Cat DEF Leading, Text
<1>3. Decode(fields, b) = [ok |-> TRUE, rest |-> <<>>, value |-> m]
  <2>1. Decode(fields, b \o <<>>) = [ok |-> TRUE, rest |-> <<>>, value |-> m]
    BY <1>1, <1>2
  <2> QED BY <1>2, <2>1
<1>4. Parsed(fields, b) = Returned(m) /\ ParsedWhole(fields, b) = Returned(m)
  BY <1>3 DEF Parsed, ParsedWhole
<1> QED BY <1>1, <1>3, <1>4

LEMMA DigitsAnyText ==
  ASSUME NEW w \in Nat, NEW n \in Nat
  PROVE  Digits(n, w) \in Text /\ Len(Digits(n, w)) = w
<1>1. ASSUME NEW i \in 1 .. w PROVE (n \div Power(w - i)) % Base \in Byte
  <2>1. w - i \in Nat
    OBVIOUS
  <2>2. Power(w - i) \in Nat \ {0}
    BY <2>1, PowerSteps
  <2>3. n \div Power(w - i) \in Nat
    BY <2>2
  <2> QED BY <2>3, CodecAssumption DEF Byte
<1> QED BY <1>1 DEF Digits, Text

LEMMA CarriesText ==
  ASSUME NEW b \in Text
  PROVE  Carries("bytes", Bytes(b), b) /\ (Bytes(b) \in Short => b \in Short)
<1> DEFINE p == U32(Len(b))
<1>1. Len(b) \in Nat
  BY Cat
<1>2. p \in Text
  BY <1>1, DigitsAnyText, CodecAssumption DEF U32
<1>3. Bytes(b) = p \o b
  BY DEF Bytes
<1> HIDE DEF p
<1>4. Bytes(b) \in Text
  BY <1>2, <1>3, Cat
<1>5. Bytes(b) \in Short => b \in Short
  BY <1>2, <1>3, ShortParts
<1>6. b \in Short => Encodes("bytes", Bytes(b), b)
  BY EncodesBytes DEF Short
<1> QED BY <1>4, <1>5, <1>6 DEF Carries

LEMMA CarriesNumbers ==
  /\ \A n \in Byte : Carries("u8", U8(n), n)
  /\ \A n \in Uint32 : Carries("u32", U32(n), n)
  /\ \A n \in Uint64 : Carries("u64", U64(n), n)
  /\ \A n \in Int64 : Carries("i64", I64(n), n)
  /\ \A u \in Id \cup {NoUuid} : Carries("uuid", Uuid(u), u)
BY EncodesU8, EncodesU32, EncodesU64, EncodesI64, EncodesUuid DEF Carries, Encodes

LEMMA CarriesId ==
  /\ \A u \in Id : Carries("id", u, u)
  /\ \A u \in Nonce : Carries("nonce", u, u)
BY EncodesId DEF Carries, Encodes

LEMMA RequestParsed ==
  ASSUME NEW m \in Content("request")
  PROVE  /\ EncodeRequest(m) \in Text
         /\ EncodeRequest(m) \in Short => Parsed(RequestFields, EncodeRequest(m)) = Returned(m)
<1> DEFINE F == RequestFields
           B1 == U8(m.op)
           B2 == B1 \o Uuid(m.object_uuid)
           B3 == B2 \o Bytes(m.file_type)
           B4 == B3 \o U64(m.file_size)
           B5 == B4 \o Bytes(m.metadata)
           D1 == {"op"}
           D2 == D1 \cup {"object_uuid"}
           D3 == D2 \cup {"file_type"}
           D4 == D3 \cup {"file_size"}
           D5 == D4 \cup {"metadata"}
<1>1. /\ Carries("u8", U8(m.op), m["op"])
      /\ Carries("uuid", Uuid(m.object_uuid), m["object_uuid"])
      /\ Carries("bytes", Bytes(m.file_type), m["file_type"])
      /\ Carries("u64", U64(m.file_size), m["file_size"])
      /\ Carries("bytes", Bytes(m.metadata), m["metadata"])
  BY CarriesNumbers, CarriesText DEF Content
<1>2. /\ F[1] = <<"op", "u8">>
      /\ F[2] = <<"object_uuid", "uuid">>
      /\ F[3] = <<"file_type", "bytes">>
      /\ F[4] = <<"file_size", "u64">>
      /\ F[5] = <<"metadata", "bytes">>
  BY DEF RequestFields
<1>3. RecordOn(m, D5) /\ EncodeRequest(m) = B5 /\ Len(F) = 5
  BY DEF RecordOn, EncodeRequest, RequestFields, Content
<1> HIDE DEF F, B1, B2, B3, B4, B5,
            D1, D2, D3, D4, D5
<1>4. Leading(F, 1, D1, B1, m)
  BY <1>1, <1>2, LeadingFirst DEF B1, D1
<1>5. Leading(F, 2, D2, B2, m)
  BY <1>1, <1>2, <1>4, LeadingNext DEF B2, D2
<1>6. Leading(F, 3, D3, B3, m)
  BY <1>1, <1>2, <1>5, LeadingNext DEF B3, D3
<1>7. Leading(F, 4, D4, B4, m)
  BY <1>1, <1>2, <1>6, LeadingNext DEF B4, D4
<1>8. Leading(F, 5, D5, B5, m)
  BY <1>1, <1>2, <1>7, LeadingNext DEF B5, D5
<1>9. B5 \in Text
  BY <1>8 DEF Leading
<1>10. B5 \in Short => Parsed(F, B5) = Returned(m)
  BY <1>3, <1>8, LeadingEnd
<1> QED BY <1>3, <1>9, <1>10 DEF F

\* What WrapEncrypted and WrapChunk are given.
Encrypted == [version : Uint32, ephemeral : Text, nonce : Text, ciphertext : Text]
WrappedChunk == [version : Uint32, object_uuid : Id, index : Uint64, ephemeral : Text,
                 ciphertext : Text]

LEMMA ResponseParsed ==
  ASSUME NEW m \in Content("response")
  PROVE  /\ EncodeResponse(m) \in Text
         /\ EncodeResponse(m) \in Short => Parsed(ResponseFields, EncodeResponse(m)) = Returned(m)
<1> DEFINE F == ResponseFields
           B1 == U8(m.status)
           B2 == B1 \o Bytes(m.message)
           B3 == B2 \o Uuid(m.object_uuid)
           B4 == B3 \o Bytes(m.file_type)
           B5 == B4 \o U64(m.file_size)
           B6 == B5 \o Bytes(m.content_integrity)
           B7 == B6 \o U32(m.server_key_version)
           B8 == B7 \o Bytes(m.server_ed25519_public)
           B9 == B8 \o Bytes(m.server_x25519_public)
           B10 == B9 \o Bytes(m.server_successor_signature)
           B11 == B10 \o U32(m.server_prev_version)
           D1 == {"status"}
           D2 == D1 \cup {"message"}
           D3 == D2 \cup {"object_uuid"}
           D4 == D3 \cup {"file_type"}
           D5 == D4 \cup {"file_size"}
           D6 == D5 \cup {"content_integrity"}
           D7 == D6 \cup {"server_key_version"}
           D8 == D7 \cup {"server_ed25519_public"}
           D9 == D8 \cup {"server_x25519_public"}
           D10 == D9 \cup {"server_successor_signature"}
           D11 == D10 \cup {"server_prev_version"}
<1>1. /\ Carries("u8", U8(m.status), m["status"])
      /\ Carries("bytes", Bytes(m.message), m["message"])
      /\ Carries("uuid", Uuid(m.object_uuid), m["object_uuid"])
      /\ Carries("bytes", Bytes(m.file_type), m["file_type"])
      /\ Carries("u64", U64(m.file_size), m["file_size"])
      /\ Carries("bytes", Bytes(m.content_integrity), m["content_integrity"])
      /\ Carries("u32", U32(m.server_key_version), m["server_key_version"])
      /\ Carries("bytes", Bytes(m.server_ed25519_public), m["server_ed25519_public"])
      /\ Carries("bytes", Bytes(m.server_x25519_public), m["server_x25519_public"])
      /\ Carries("bytes", Bytes(m.server_successor_signature), m["server_successor_signature"])
      /\ Carries("u32", U32(m.server_prev_version), m["server_prev_version"])
  BY CarriesNumbers, CarriesText DEF Content
<1>2. /\ F[1] = <<"status", "u8">>
      /\ F[2] = <<"message", "bytes">>
      /\ F[3] = <<"object_uuid", "uuid">>
      /\ F[4] = <<"file_type", "bytes">>
      /\ F[5] = <<"file_size", "u64">>
      /\ F[6] = <<"content_integrity", "bytes">>
      /\ F[7] = <<"server_key_version", "u32">>
      /\ F[8] = <<"server_ed25519_public", "bytes">>
      /\ F[9] = <<"server_x25519_public", "bytes">>
      /\ F[10] = <<"server_successor_signature", "bytes">>
      /\ F[11] = <<"server_prev_version", "u32">>
  BY DEF ResponseFields
<1>3. RecordOn(m, D11) /\ EncodeResponse(m) = B11 /\ Len(F) = 11
  BY DEF RecordOn, EncodeResponse, ResponseFields, Content
<1> HIDE DEF F, B1, B2, B3, B4, B5, B6, B7, B8, B9, B10, B11,
            D1, D2, D3, D4, D5, D6, D7, D8, D9, D10, D11
<1>4. Leading(F, 1, D1, B1, m)
  BY <1>1, <1>2, LeadingFirst DEF B1, D1
<1>5. Leading(F, 2, D2, B2, m)
  <2>1. Carries("bytes", Bytes(m.message), m["message"]) /\ F[2] = <<"message", "bytes">>
    BY <1>1, <1>2
  <2> QED BY <1>4, <2>1, LeadingNext DEF B2, D2
<1>6. Leading(F, 3, D3, B3, m)
  <2>1. Carries("uuid", Uuid(m.object_uuid), m["object_uuid"]) /\ F[3] = <<"object_uuid", "uuid">>
    BY <1>1, <1>2
  <2> QED BY <1>5, <2>1, LeadingNext DEF B3, D3
<1>7. Leading(F, 4, D4, B4, m)
  <2>1. Carries("bytes", Bytes(m.file_type), m["file_type"]) /\ F[4] = <<"file_type", "bytes">>
    BY <1>1, <1>2
  <2> QED BY <1>6, <2>1, LeadingNext DEF B4, D4
<1>8. Leading(F, 5, D5, B5, m)
  <2>1. Carries("u64", U64(m.file_size), m["file_size"]) /\ F[5] = <<"file_size", "u64">>
    BY <1>1, <1>2
  <2> QED BY <1>7, <2>1, LeadingNext DEF B5, D5
<1>9. Leading(F, 6, D6, B6, m)
  <2>1. /\ Carries("bytes", Bytes(m.content_integrity), m["content_integrity"])
        /\ F[6] = <<"content_integrity", "bytes">>
    BY <1>1, <1>2
  <2> QED BY <1>8, <2>1, LeadingNext DEF B6, D6
<1>10. Leading(F, 7, D7, B7, m)
  <2>1. /\ Carries("u32", U32(m.server_key_version), m["server_key_version"])
        /\ F[7] = <<"server_key_version", "u32">>
    BY <1>1, <1>2
  <2> QED BY <1>9, <2>1, LeadingNext DEF B7, D7
<1>11. Leading(F, 8, D8, B8, m)
  <2>1. /\ Carries("bytes", Bytes(m.server_ed25519_public), m["server_ed25519_public"])
        /\ F[8] = <<"server_ed25519_public", "bytes">>
    BY <1>1, <1>2
  <2> QED BY <1>10, <2>1, LeadingNext DEF B8, D8
<1>12. Leading(F, 9, D9, B9, m)
  <2>1. /\ Carries("bytes", Bytes(m.server_x25519_public), m["server_x25519_public"])
        /\ F[9] = <<"server_x25519_public", "bytes">>
    BY <1>1, <1>2
  <2> QED BY <1>11, <2>1, LeadingNext DEF B9, D9
<1>13. Leading(F, 10, D10, B10, m)
  <2>1. /\ Carries("bytes", Bytes(m.server_successor_signature), m["server_successor_signature"])
        /\ F[10] = <<"server_successor_signature", "bytes">>
    BY <1>1, <1>2
  <2> QED BY <1>12, <2>1, LeadingNext DEF B10, D10
<1>14. Leading(F, 11, D11, B11, m)
  <2>1. /\ Carries("u32", U32(m.server_prev_version), m["server_prev_version"])
        /\ F[11] = <<"server_prev_version", "u32">>
    BY <1>1, <1>2
  <2> QED BY <1>13, <2>1, LeadingNext DEF B11, D11
<1>15. B11 \in Text
  BY <1>14 DEF Leading
<1>16. B11 \in Short => Parsed(F, B11) = Returned(m)
  BY <1>3, <1>14, LeadingEnd
<1> QED BY <1>3, <1>15, <1>16 DEF F

LEMMA ControlParsed ==
  ASSUME NEW m \in [ctype : Byte, body : Text]
  PROVE  /\ EncodeControl(m) \in Text
         /\ EncodeControl(m) \in Short => Parsed(ControlFields, EncodeControl(m)) = Returned(m)
<1> DEFINE F == ControlFields
           B1 == U8(m.ctype)
           B2 == B1 \o Bytes(m.body)
           D1 == {"ctype"}
           D2 == D1 \cup {"body"}
<1>1. /\ Carries("u8", U8(m.ctype), m["ctype"])
      /\ Carries("bytes", Bytes(m.body), m["body"])
  BY CarriesNumbers, CarriesText
<1>2. /\ F[1] = <<"ctype", "u8">>
      /\ F[2] = <<"body", "bytes">>
  BY DEF ControlFields
<1>3. RecordOn(m, D2) /\ EncodeControl(m) = B2 /\ Len(F) = 2
  BY DEF RecordOn, EncodeControl, ControlFields
<1> HIDE DEF F, B1, B2,
            D1, D2
<1>4. Leading(F, 1, D1, B1, m)
  BY <1>1, <1>2, LeadingFirst DEF B1, D1
<1>5. Leading(F, 2, D2, B2, m)
  BY <1>1, <1>2, <1>4, LeadingNext DEF B2, D2
<1>6. B2 \in Text
  BY <1>5 DEF Leading
<1>7. B2 \in Short => Parsed(F, B2) = Returned(m)
  BY <1>3, <1>5, LeadingEnd
<1> QED BY <1>3, <1>6, <1>7 DEF F

LEMMA EnrollmentParsed ==
  ASSUME NEW m \in Content("enroll")
  PROVE  /\ EncodeEnrollment(m) \in Text
         /\ EncodeEnrollment(m) \in Short => Parsed(EnrollmentFields, EncodeEnrollment(m)) = Returned(m)
<1> DEFINE F == EnrollmentFields
           B1 == U8(m.kind)
           B2 == B1 \o Bytes(m.token)
           B3 == B2 \o U32(m.version)
           B4 == B3 \o Bytes(m.ed25519_public)
           B5 == B4 \o Bytes(m.x25519_public)
           D1 == {"kind"}
           D2 == D1 \cup {"token"}
           D3 == D2 \cup {"version"}
           D4 == D3 \cup {"ed25519_public"}
           D5 == D4 \cup {"x25519_public"}
<1>0. m.kind \in Byte
  BY WireAssumption, CodecAssumption DEF Content, Kinds, Byte
<1>1. /\ Carries("u8", U8(m.kind), m["kind"])
      /\ Carries("bytes", Bytes(m.token), m["token"])
      /\ Carries("u32", U32(m.version), m["version"])
      /\ Carries("bytes", Bytes(m.ed25519_public), m["ed25519_public"])
      /\ Carries("bytes", Bytes(m.x25519_public), m["x25519_public"])
  BY <1>0, CarriesNumbers, CarriesText DEF Content
<1>2. /\ F[1] = <<"kind", "u8">>
      /\ F[2] = <<"token", "bytes">>
      /\ F[3] = <<"version", "u32">>
      /\ F[4] = <<"ed25519_public", "bytes">>
      /\ F[5] = <<"x25519_public", "bytes">>
  BY DEF EnrollmentFields
<1>3. RecordOn(m, D5) /\ EncodeEnrollment(m) = B5 /\ Len(F) = 5
  BY DEF RecordOn, EncodeEnrollment, EnrollmentFields, Content
<1> HIDE DEF F, B1, B2, B3, B4, B5,
            D1, D2, D3, D4, D5
<1>4. Leading(F, 1, D1, B1, m)
  BY <1>1, <1>2, LeadingFirst DEF B1, D1
<1>5. Leading(F, 2, D2, B2, m)
  BY <1>1, <1>2, <1>4, LeadingNext DEF B2, D2
<1>6. Leading(F, 3, D3, B3, m)
  BY <1>1, <1>2, <1>5, LeadingNext DEF B3, D3
<1>7. Leading(F, 4, D4, B4, m)
  BY <1>1, <1>2, <1>6, LeadingNext DEF B4, D4
<1>8. Leading(F, 5, D5, B5, m)
  BY <1>1, <1>2, <1>7, LeadingNext DEF B5, D5
<1>9. B5 \in Text
  BY <1>8 DEF Leading
<1>10. B5 \in Short => Parsed(F, B5) = Returned(m)
  BY <1>3, <1>8, LeadingEnd
<1> QED BY <1>3, <1>9, <1>10 DEF F

LEMMA KeyInfoParsed ==
  ASSUME NEW m \in KeyInfo
  PROVE  /\ EncodeKeyInfo(m) \in Text
         /\ EncodeKeyInfo(m) \in Short => Parsed(KeyInfoFields, EncodeKeyInfo(m)) = Returned(m)
<1> DEFINE F == KeyInfoFields
           B1 == U32(m.version)
           B2 == B1 \o Bytes(m.ed25519_public)
           B3 == B2 \o Bytes(m.x25519_public)
           B4 == B3 \o U32(m.prev_version)
           B5 == B4 \o Bytes(m.successor_signature)
           D1 == {"version"}
           D2 == D1 \cup {"ed25519_public"}
           D3 == D2 \cup {"x25519_public"}
           D4 == D3 \cup {"prev_version"}
           D5 == D4 \cup {"successor_signature"}
<1>1. /\ Carries("u32", U32(m.version), m["version"])
      /\ Carries("bytes", Bytes(m.ed25519_public), m["ed25519_public"])
      /\ Carries("bytes", Bytes(m.x25519_public), m["x25519_public"])
      /\ Carries("u32", U32(m.prev_version), m["prev_version"])
      /\ Carries("bytes", Bytes(m.successor_signature), m["successor_signature"])
  BY CarriesNumbers, CarriesText DEF KeyInfo
<1>2. /\ F[1] = <<"version", "u32">>
      /\ F[2] = <<"ed25519_public", "bytes">>
      /\ F[3] = <<"x25519_public", "bytes">>
      /\ F[4] = <<"prev_version", "u32">>
      /\ F[5] = <<"successor_signature", "bytes">>
  BY DEF KeyInfoFields
<1>3. RecordOn(m, D5) /\ EncodeKeyInfo(m) = B5 /\ Len(F) = 5
  BY DEF RecordOn, EncodeKeyInfo, KeyInfoFields, KeyInfo
<1> HIDE DEF F, B1, B2, B3, B4, B5,
            D1, D2, D3, D4, D5
<1>4. Leading(F, 1, D1, B1, m)
  BY <1>1, <1>2, LeadingFirst DEF B1, D1
<1>5. Leading(F, 2, D2, B2, m)
  BY <1>1, <1>2, <1>4, LeadingNext DEF B2, D2
<1>6. Leading(F, 3, D3, B3, m)
  BY <1>1, <1>2, <1>5, LeadingNext DEF B3, D3
<1>7. Leading(F, 4, D4, B4, m)
  BY <1>1, <1>2, <1>6, LeadingNext DEF B4, D4
<1>8. Leading(F, 5, D5, B5, m)
  BY <1>1, <1>2, <1>7, LeadingNext DEF B5, D5
<1>9. B5 \in Text
  BY <1>8 DEF Leading
<1>10. B5 \in Short => Parsed(F, B5) = Returned(m)
  BY <1>3, <1>8, LeadingEnd
<1> QED BY <1>3, <1>9, <1>10 DEF F

LEMMA EntryParsed ==
  ASSUME NEW m \in RegistryEntry
  PROVE  /\ EncodeEntry(m) \in Text
         /\ EncodeEntry(m) \in Short => Parsed(EntryFields, EncodeEntry(m)) = Returned(m)
<1> DEFINE F == EntryFields
           B1 == Uuid(m.identity_uuid)
           B2 == B1 \o U32(m.version)
           B3 == B2 \o U8(m.status)
           B4 == B3 \o Bytes(m.ed25519_public)
           B5 == B4 \o Bytes(m.x25519_public)
           B6 == B5 \o I64(m.created_at)
           B7 == B6 \o I64(m.validation_deadline)
           B8 == B7 \o I64(m.activation_time)
           B9 == B8 \o I64(m.expiration_time)
           D1 == {"identity_uuid"}
           D2 == D1 \cup {"version"}
           D3 == D2 \cup {"status"}
           D4 == D3 \cup {"ed25519_public"}
           D5 == D4 \cup {"x25519_public"}
           D6 == D5 \cup {"created_at"}
           D7 == D6 \cup {"validation_deadline"}
           D8 == D7 \cup {"activation_time"}
           D9 == D8 \cup {"expiration_time"}
<1>1. /\ Carries("uuid", Uuid(m.identity_uuid), m["identity_uuid"])
      /\ Carries("u32", U32(m.version), m["version"])
      /\ Carries("u8", U8(m.status), m["status"])
      /\ Carries("bytes", Bytes(m.ed25519_public), m["ed25519_public"])
      /\ Carries("bytes", Bytes(m.x25519_public), m["x25519_public"])
      /\ Carries("i64", I64(m.created_at), m["created_at"])
      /\ Carries("i64", I64(m.validation_deadline), m["validation_deadline"])
      /\ Carries("i64", I64(m.activation_time), m["activation_time"])
      /\ Carries("i64", I64(m.expiration_time), m["expiration_time"])
  BY CarriesNumbers, CarriesText DEF RegistryEntry
<1>2. /\ F[1] = <<"identity_uuid", "uuid">>
      /\ F[2] = <<"version", "u32">>
      /\ F[3] = <<"status", "u8">>
      /\ F[4] = <<"ed25519_public", "bytes">>
      /\ F[5] = <<"x25519_public", "bytes">>
      /\ F[6] = <<"created_at", "i64">>
      /\ F[7] = <<"validation_deadline", "i64">>
      /\ F[8] = <<"activation_time", "i64">>
      /\ F[9] = <<"expiration_time", "i64">>
  BY DEF EntryFields
<1>3. RecordOn(m, D9) /\ EncodeEntry(m) = B9 /\ Len(F) = 9
  BY DEF RecordOn, EncodeEntry, EntryFields, RegistryEntry
<1> HIDE DEF F, B1, B2, B3, B4, B5, B6, B7, B8, B9,
            D1, D2, D3, D4, D5, D6, D7, D8, D9
<1>4. Leading(F, 1, D1, B1, m)
  BY <1>1, <1>2, LeadingFirst DEF B1, D1
<1>5. Leading(F, 2, D2, B2, m)
  <2>1. Carries("u32", U32(m.version), m["version"]) /\ F[2] = <<"version", "u32">>
    BY <1>1, <1>2
  <2> QED BY <1>4, <2>1, LeadingNext DEF B2, D2
<1>6. Leading(F, 3, D3, B3, m)
  <2>1. Carries("u8", U8(m.status), m["status"]) /\ F[3] = <<"status", "u8">>
    BY <1>1, <1>2
  <2> QED BY <1>5, <2>1, LeadingNext DEF B3, D3
<1>7. Leading(F, 4, D4, B4, m)
  <2>1. /\ Carries("bytes", Bytes(m.ed25519_public), m["ed25519_public"])
        /\ F[4] = <<"ed25519_public", "bytes">>
    BY <1>1, <1>2
  <2> QED BY <1>6, <2>1, LeadingNext DEF B4, D4
<1>8. Leading(F, 5, D5, B5, m)
  <2>1. /\ Carries("bytes", Bytes(m.x25519_public), m["x25519_public"])
        /\ F[5] = <<"x25519_public", "bytes">>
    BY <1>1, <1>2
  <2> QED BY <1>7, <2>1, LeadingNext DEF B5, D5
<1>9. Leading(F, 6, D6, B6, m)
  <2>1. Carries("i64", I64(m.created_at), m["created_at"]) /\ F[6] = <<"created_at", "i64">>
    BY <1>1, <1>2
  <2> QED BY <1>8, <2>1, LeadingNext DEF B6, D6
<1>10. Leading(F, 7, D7, B7, m)
  <2>1. /\ Carries("i64", I64(m.validation_deadline), m["validation_deadline"])
        /\ F[7] = <<"validation_deadline", "i64">>
    BY <1>1, <1>2
  <2> QED BY <1>9, <2>1, LeadingNext DEF B7, D7
<1>11. Leading(F, 8, D8, B8, m)
  <2>1. /\ Carries("i64", I64(m.activation_time), m["activation_time"])
        /\ F[8] = <<"activation_time", "i64">>
    BY <1>1, <1>2
  <2> QED BY <1>10, <2>1, LeadingNext DEF B8, D8
<1>12. Leading(F, 9, D9, B9, m)
  <2>1. /\ Carries("i64", I64(m.expiration_time), m["expiration_time"])
        /\ F[9] = <<"expiration_time", "i64">>
    BY <1>1, <1>2
  <2> QED BY <1>11, <2>1, LeadingNext DEF B9, D9
<1>13. B9 \in Text
  BY <1>12 DEF Leading
<1>14. B9 \in Short => Parsed(F, B9) = Returned(m)
  BY <1>3, <1>12, LeadingEnd
<1> QED BY <1>3, <1>13, <1>14 DEF F

LEMMA EncryptedParsed ==
  ASSUME NEW m \in Encrypted
  PROVE  /\ WrapEncrypted(m) \in Text
         /\ WrapEncrypted(m) \in Short => ParsedWhole(EncryptedFields, WrapEncrypted(m)) = Returned(m)
<1> DEFINE F == EncryptedFields
           B1 == U32(m.version)
           B2 == B1 \o Bytes(m.ephemeral)
           B3 == B2 \o Bytes(m.nonce)
           B4 == B3 \o Bytes(m.ciphertext)
           D1 == {"version"}
           D2 == D1 \cup {"ephemeral"}
           D3 == D2 \cup {"nonce"}
           D4 == D3 \cup {"ciphertext"}
<1>1. /\ Carries("u32", U32(m.version), m["version"])
      /\ Carries("bytes", Bytes(m.ephemeral), m["ephemeral"])
      /\ Carries("bytes", Bytes(m.nonce), m["nonce"])
      /\ Carries("bytes", Bytes(m.ciphertext), m["ciphertext"])
  BY CarriesNumbers, CarriesText DEF Encrypted
<1>2. /\ F[1] = <<"version", "u32">>
      /\ F[2] = <<"ephemeral", "bytes">>
      /\ F[3] = <<"nonce", "bytes">>
      /\ F[4] = <<"ciphertext", "bytes">>
  BY DEF EncryptedFields
<1>3. RecordOn(m, D4) /\ WrapEncrypted(m) = B4 /\ Len(F) = 4
  BY DEF RecordOn, WrapEncrypted, EncryptedFields, Encrypted
<1> HIDE DEF F, B1, B2, B3, B4,
            D1, D2, D3, D4
<1>4. Leading(F, 1, D1, B1, m)
  BY <1>1, <1>2, LeadingFirst DEF B1, D1
<1>5. Leading(F, 2, D2, B2, m)
  BY <1>1, <1>2, <1>4, LeadingNext DEF B2, D2
<1>6. Leading(F, 3, D3, B3, m)
  BY <1>1, <1>2, <1>5, LeadingNext DEF B3, D3
<1>7. Leading(F, 4, D4, B4, m)
  BY <1>1, <1>2, <1>6, LeadingNext DEF B4, D4
<1>8. B4 \in Text
  BY <1>7 DEF Leading
<1>9. B4 \in Short => ParsedWhole(F, B4) = Returned(m)
  BY <1>3, <1>7, LeadingEnd
<1> QED BY <1>3, <1>8, <1>9 DEF F

LEMMA ChunkParsed ==
  ASSUME NEW m \in WrappedChunk
  PROVE  /\ WrapChunk(m) \in Text
         /\ WrapChunk(m) \in Short => ParsedWhole(ChunkFields, WrapChunk(m)) = Returned(m)
<1> DEFINE F == ChunkFields
           B1 == U32(m.version)
           B2 == B1 \o Uuid(m.object_uuid)
           B3 == B2 \o U64(m.index)
           B4 == B3 \o Bytes(m.ephemeral)
           B5 == B4 \o Bytes(m.ciphertext)
           D1 == {"version"}
           D2 == D1 \cup {"object_uuid"}
           D3 == D2 \cup {"index"}
           D4 == D3 \cup {"ephemeral"}
           D5 == D4 \cup {"ciphertext"}
<1>1. /\ Carries("u32", U32(m.version), m["version"])
      /\ Carries("uuid", Uuid(m.object_uuid), m["object_uuid"])
      /\ Carries("u64", U64(m.index), m["index"])
      /\ Carries("bytes", Bytes(m.ephemeral), m["ephemeral"])
      /\ Carries("bytes", Bytes(m.ciphertext), m["ciphertext"])
  BY CarriesNumbers, CarriesText DEF WrappedChunk
<1>2. /\ F[1] = <<"version", "u32">>
      /\ F[2] = <<"object_uuid", "uuid">>
      /\ F[3] = <<"index", "u64">>
      /\ F[4] = <<"ephemeral", "bytes">>
      /\ F[5] = <<"ciphertext", "bytes">>
  BY DEF ChunkFields
<1>3. RecordOn(m, D5) /\ WrapChunk(m) = B5 /\ Len(F) = 5
  BY DEF RecordOn, WrapChunk, ChunkFields, WrappedChunk
<1> HIDE DEF F, B1, B2, B3, B4, B5,
            D1, D2, D3, D4, D5
<1>4. Leading(F, 1, D1, B1, m)
  BY <1>1, <1>2, LeadingFirst DEF B1, D1
<1>5. Leading(F, 2, D2, B2, m)
  BY <1>1, <1>2, <1>4, LeadingNext DEF B2, D2
<1>6. Leading(F, 3, D3, B3, m)
  BY <1>1, <1>2, <1>5, LeadingNext DEF B3, D3
<1>7. Leading(F, 4, D4, B4, m)
  BY <1>1, <1>2, <1>6, LeadingNext DEF B4, D4
<1>8. Leading(F, 5, D5, B5, m)
  BY <1>1, <1>2, <1>7, LeadingNext DEF B5, D5
<1>9. B5 \in Text
  BY <1>8 DEF Leading
<1>10. B5 \in Short => ParsedWhole(F, B5) = Returned(m)
  BY <1>3, <1>8, LeadingEnd
<1> QED BY <1>3, <1>9, <1>10 DEF F

-------------------------------------------------------------------------------
\* Ciphers.

LEMMA ChecksumText ==
  ASSUME NEW b \in Text
  PROVE  Checksum(b) \in Text /\ Len(Checksum(b)) = 1 /\ Checksum(b)[1] \in Byte
<1> DEFINE w == Len(b)
           G == [x \in (1 .. w) \X Nat |-> (3 * x[2] + b[x[1]] + 1) % Base]
<1>0. w \in Nat /\ Base \in Nat \ {0} /\ \A i \in 1 .. w : b[i] \in Nat
  BY CodecAssumption DEF Text, Byte
<1>1. G \in StepsOn(w, Nat) /\ 0 \in Nat
  BY <1>0 DEF StepsOn
<1>2. \A i \in 1 .. w, x \in Nat : G[<<i, x>>] = (3 * x + b[i] + 1) % Base
  OBVIOUS
<1> HIDE DEF G
<1>3. PICK f \in [0 .. w -> Nat] : Iterates(f, 0, w, G)
  <2> DEFINE P == Nat
  <2>1. \E f \in [0 .. w -> P] : Iterates(f, 0, w, G)
    <3> HIDE DEF P, w
    <3> QED BY <1>0, <1>1, Iteration DEF P
  <2> QED BY <2>1
<1> HIDE DEF w
<1>4. f[0] = 0 /\ \A i \in 1 .. w : f[i] = (3 * f[i - 1] + b[i] + 1) % Base
  <2>1. ASSUME NEW i \in 1 .. w PROVE f[i] = (3 * f[i - 1] + b[i] + 1) % Base
    <3>1. i - 1 \in 0 .. w
      BY <1>0
    <3>2. f[i - 1] \in Nat
      BY <3>1
    <3>3. f[i] = G[<<i, f[i - 1]>>]
      BY <1>3 DEF Iterates
    <3> QED BY <1>2, <3>2, <3>3, Zenon
  <2> QED BY <1>3, <2>1 DEF Iterates
<1> DEFINE Upto(g) == g = [i \in 0 .. Len(b) |-> IF i = 0 THEN 0
                                                 ELSE (3 * g[i - 1] + b[i] + 1) % Base]
           h == CHOOSE g : Upto(g)
<1>5. Upto(f)
  BY <1>0, <1>4 DEF w
<1>6. Upto(h)
  <2> HIDE DEF Upto
  <2> QED BY <1>5, Zenon
<1>7. Checksum(b) = U8(h[w])
  BY DEF Checksum, w
<1> HIDE DEF h
<1>8. h[w] \in Nat
  <2>1. h[0] = f[0]
    BY <1>0, <1>4, <1>6 DEF w
  <2>2. \A i \in 1 .. w : h[i - 1] = f[i - 1] => h[i] = f[i]
    BY <1>0, <1>4, <1>6 DEF w
  <2>3. Agree(h, f, w)
    BY <2>1, <2>2, Zenon DEF Agree
  <2>4. h[w] = f[w]
    BY <1>0, <2>3, IterationUnique
  <2> QED BY <1>0, <2>4
<1>9. Digits(h[w], 1) \in Text /\ Len(Digits(h[w], 1)) = 1
  BY <1>8, DigitsAnyText
<1>10. U8(h[w])[1] \in Byte
  BY <1>9 DEF U8, Text
<1> QED BY <1>7, <1>9, <1>10 DEF U8

Masked(key, text) == [i \in DOMAIN text |-> (text[i] + key) % Base]

LEMMA MaskedText ==
  ASSUME NEW key \in Byte, NEW text \in Text
  PROVE  /\ Masked(key, text) \in Text /\ Len(Masked(key, text)) = Len(text)
         /\ Len(text) \in Nat
         /\ \A i \in 1 .. Len(text) : Masked(key, text)[i] = (text[i] + key) % Base
<1>1. Len(text) \in Nat /\ DOMAIN text = 1 .. Len(text)
  BY DEF Text
<1>2. ASSUME NEW i \in 1 .. Len(text) PROVE (text[i] + key) % Base \in Byte
  <2>1. text[i] \in Byte
    BY DEF Text
  <2> QED BY <2>1, CodecAssumption DEF Byte
<1>3. Masked(key, text) = [i \in 1 .. Len(text) |-> (text[i] + key) % Base]
  BY <1>1 DEF Masked
<1> QED BY <1>1, <1>2, <1>3 DEF Text

LEMMA EncryptText ==
  ASSUME NEW key \in Byte, NEW nonce \in Text, NEW aad \in Text, NEW text \in Text
  PROVE  Encrypt(key, nonce, aad, text) \in Text
<1> DEFINE masked == Masked(key, text)
           known  == <<key>> \o nonce \o aad \o text
<1>1. masked \in Text
  BY MaskedText
<1>2. known \in Text
  BY DEF Text
<1>3. Encrypt(key, nonce, aad, text) = masked \o Checksum(known)
  BY DEF Encrypt, Masked
<1> HIDE DEF masked, known
<1>4. Checksum(known) \in Text
  BY <1>2, ChecksumText
<1> QED BY <1>1, <1>3, <1>4, Cat

\* Decrypt undoes Encrypt.
LEMMA Decrypted ==
  ASSUME NEW key \in Byte, NEW nonce \in Text, NEW aad \in Text, NEW text \in Text
  PROVE  Decrypt(key, nonce, aad, Encrypt(key, nonce, aad, text)) = Returned(text)
<1> DEFINE masked == Masked(key, text)
           tag    == Checksum(<<key>> \o nonce \o aad \o text)
           data   == Encrypt(key, nonce, aad, text)
           back   == [i \in 1 .. Len(data) - 1 |-> (data[i] - key) % Base]
<1>1. masked \in Text /\ Len(masked) = Len(text) /\ Len(text) \in Nat
  BY MaskedText
<1>2. \A i \in 1 .. Len(text) : masked[i] = (text[i] + key) % Base
  BY MaskedText
<1>3. tag \in Text /\ Len(tag) = 1
  <2> DEFINE known  == <<key>> \o nonce \o aad \o text
  <2>1. known \in Text
    BY DEF Text
  <2> HIDE DEF known
  <2>2. Checksum(known) \in Text /\ Len(Checksum(known)) = 1
    BY <2>1, ChecksumText
  <2> QED BY <2>2 DEF known
<1>4. data = masked \o tag
  BY DEF Encrypt, Masked
<1> HIDE DEF masked, tag, data
<1>5. /\ Len(data) = Len(text) + 1
      /\ \A i \in 1 .. Len(text) : data[i] = (text[i] + key) % Base
  <2>1. /\ Len(masked \o tag) = Len(masked) + Len(tag)
        /\ \A i \in 1 .. Len(masked) : (masked \o tag)[i] = masked[i]
    BY <1>1, <1>3, Cat
  <2> QED BY <1>1, <1>2, <1>3, <1>4, <2>1
<1>6. back = text
  <2>1. Len(data) - 1 = Len(text)
    BY <1>1, <1>5
  <2>2. ASSUME NEW i \in 1 .. Len(text) PROVE (data[i] - key) % Base = text[i]
    <3>1. text[i] \in Byte /\ data[i] = (text[i] + key) % Base
      BY <1>5 DEF Text
    <3> DEFINE t == text[i]
               x == data[i]
    <3> HIDE DEF t, x
    <3>2. t \in 0 .. Base - 1 /\ key \in 0 .. Base - 1 /\ Base \in Nat \ {0} /\ x = (t + key) % Base
      BY <3>1, CodecAssumption DEF Byte, t, x
    <3>3. CASE t + key < Base
      <4>1. x = t + key
        BY <3>2, <3>3
      <4>2. (x - key) % Base = t
        BY <3>2, <4>1
      <4> QED BY <4>2 DEF t, x
    <3>4. CASE t + key >= Base
      <4>1. x = t + key - Base
        BY <3>2, <3>4
      <4>2. (x - key) % Base = t
        BY <3>2, <3>4, <4>1
      <4> QED BY <4>2 DEF t, x
    <3> QED BY <3>2, <3>3, <3>4
  <2>3. back = [i \in 1 .. Len(text) |-> text[i]]
    BY <2>1, <2>2
  <2>4. back \in Text /\ Len(back) = Len(text) /\ \A i \in 1 .. Len(back) : back[i] = text[i]
    <3>1. \A i \in 1 .. Len(text) : text[i] \in Byte
      BY DEF Text
    <3> DEFINE copy == [i \in 1 .. Len(text) |-> text[i]]
    <3>2. copy \in Text /\ Len(copy) = Len(text) /\ \A i \in 1 .. Len(copy) : copy[i] = text[i]
      BY <1>1, <3>1 DEF Text
    <3> QED BY <2>3, <3>2
  <2> HIDE DEF back
  <2> QED BY <2>4, TextEqual
<1>7. Encrypt(key, nonce, aad, back) = data /\ data # <<>>
  BY <1>1, <1>5, <1>6 DEF data
<1>8. Decrypt(key, nonce, aad, data) = Returned(back)
  BY <1>7 DEF Decrypt
<1> QED BY <1>6, <1>8 DEF data

-------------------------------------------------------------------------------
\* Envelopes.

PackedHeader == [version : Byte, msg_type : Byte, sender_uuid : Id, recipient_uuid : Id,
                 request_id : Id, sender_credential_version : Uint32, timestamp : Int64,
                 nonce : Nonce, payload_len : Uint32]

HeaderBytes(h) == U8(h.version) \o U8(h.msg_type) \o h.sender_uuid \o h.recipient_uuid
                    \o h.request_id \o U32(h.sender_credential_version) \o I64(h.timestamp)
                    \o h.nonce \o U32(h.payload_len)

SignedEnvelope == [version : {EnvelopeVersion}, msg_type : Byte, sender_uuid : Id,
                   recipient_uuid : Id, request_id : Id, sender_credential_version : Uint32,
                   timestamp : Int64, nonce : Nonce, payload : Text,
                   signature : [1 .. SignatureSize -> Byte]]

HeaderIn(e) == [version |-> e.version, msg_type |-> e.msg_type, sender_uuid |-> e.sender_uuid,
                recipient_uuid |-> e.recipient_uuid, request_id |-> e.request_id,
                sender_credential_version |-> e.sender_credential_version,
                timestamp |-> e.timestamp, nonce |-> e.nonce, payload_len |-> Len(e.payload)]

LEMMA HeaderParsed ==
  ASSUME NEW m \in PackedHeader
  PROVE  /\ HeaderBytes(m) \in Text
         /\ HeaderBytes(m) \in Short => Decode(HeaderFields, HeaderBytes(m)) = [ok |-> TRUE, rest |-> <<>>, value |-> m]
<1> DEFINE F == HeaderFields
           B1 == U8(m.version)
           B2 == B1 \o U8(m.msg_type)
           B3 == B2 \o m.sender_uuid
           B4 == B3 \o m.recipient_uuid
           B5 == B4 \o m.request_id
           B6 == B5 \o U32(m.sender_credential_version)
           B7 == B6 \o I64(m.timestamp)
           B8 == B7 \o m.nonce
           B9 == B8 \o U32(m.payload_len)
           D1 == {"version"}
           D2 == D1 \cup {"msg_type"}
           D3 == D2 \cup {"sender_uuid"}
           D4 == D3 \cup {"recipient_uuid"}
           D5 == D4 \cup {"request_id"}
           D6 == D5 \cup {"sender_credential_version"}
           D7 == D6 \cup {"timestamp"}
           D8 == D7 \cup {"nonce"}
           D9 == D8 \cup {"payload_len"}
<1>1. /\ Carries("u8", U8(m.version), m["version"])
      /\ Carries("u8", U8(m.msg_type), m["msg_type"])
      /\ Carries("id", m.sender_uuid, m["sender_uuid"])
      /\ Carries("id", m.recipient_uuid, m["recipient_uuid"])
      /\ Carries("id", m.request_id, m["request_id"])
      /\ Carries("u32", U32(m.sender_credential_version), m["sender_credential_version"])
      /\ Carries("i64", I64(m.timestamp), m["timestamp"])
      /\ Carries("nonce", m.nonce, m["nonce"])
      /\ Carries("u32", U32(m.payload_len), m["payload_len"])
  BY CarriesNumbers, CarriesId DEF PackedHeader
<1>2. /\ F[1] = <<"version", "u8">>
      /\ F[2] = <<"msg_type", "u8">>
      /\ F[3] = <<"sender_uuid", "id">>
      /\ F[4] = <<"recipient_uuid", "id">>
      /\ F[5] = <<"request_id", "id">>
      /\ F[6] = <<"sender_credential_version", "u32">>
      /\ F[7] = <<"timestamp", "i64">>
      /\ F[8] = <<"nonce", "nonce">>
      /\ F[9] = <<"payload_len", "u32">>
  BY DEF HeaderFields
<1>3. RecordOn(m, D9) /\ HeaderBytes(m) = B9 /\ Len(F) = 9
  BY DEF RecordOn, HeaderBytes, HeaderFields, PackedHeader
<1> HIDE DEF F, B1, B2, B3, B4, B5, B6, B7, B8, B9,
            D1, D2, D3, D4, D5, D6, D7, D8, D9
<1>4. Leading(F, 1, D1, B1, m)
  BY <1>1, <1>2, LeadingFirst DEF B1, D1
<1>5. Leading(F, 2, D2, B2, m)
  <2>1. Carries("u8", U8(m.msg_type), m["msg_type"]) /\ F[2] = <<"msg_type", "u8">>
    BY <1>1, <1>2
  <2> QED BY <1>4, <2>1, LeadingNext DEF B2, D2
<1>6. Leading(F, 3, D3, B3, m)
  <2>1. Carries("id", m.sender_uuid, m["sender_uuid"]) /\ F[3] = <<"sender_uuid", "id">>
    BY <1>1, <1>2
  <2> QED BY <1>5, <2>1, LeadingNext DEF B3, D3
<1>7. Leading(F, 4, D4, B4, m)
  <2>1. Carries("id", m.recipient_uuid, m["recipient_uuid"]) /\ F[4] = <<"recipient_uuid", "id">>
    BY <1>1, <1>2
  <2> QED BY <1>6, <2>1, LeadingNext DEF B4, D4
<1>8. Leading(F, 5, D5, B5, m)
  <2>1. Carries("id", m.request_id, m["request_id"]) /\ F[5] = <<"request_id", "id">>
    BY <1>1, <1>2
  <2> QED BY <1>7, <2>1, LeadingNext DEF B5, D5
<1>9. Leading(F, 6, D6, B6, m)
  <2>1. /\ Carries("u32", U32(m.sender_credential_version), m["sender_credential_version"])
        /\ F[6] = <<"sender_credential_version", "u32">>
    BY <1>1, <1>2
  <2> QED BY <1>8, <2>1, LeadingNext DEF B6, D6
<1>10. Leading(F, 7, D7, B7, m)
  <2>1. Carries("i64", I64(m.timestamp), m["timestamp"]) /\ F[7] = <<"timestamp", "i64">>
    BY <1>1, <1>2
  <2> QED BY <1>9, <2>1, LeadingNext DEF B7, D7
<1>11. Leading(F, 8, D8, B8, m)
  <2>1. Carries("nonce", m.nonce, m["nonce"]) /\ F[8] = <<"nonce", "nonce">>
    BY <1>1, <1>2
  <2> QED BY <1>10, <2>1, LeadingNext DEF B8, D8
<1>12. Leading(F, 9, D9, B9, m)
  <2>1. Carries("u32", U32(m.payload_len), m["payload_len"]) /\ F[9] = <<"payload_len", "u32">>
    BY <1>1, <1>2
  <2> QED BY <1>11, <2>1, LeadingNext DEF B9, D9
<1>13. B9 \in Text
  BY <1>12 DEF Leading
<1>14. B9 \in Short => Decode(F, B9) = [ok |-> TRUE, rest |-> <<>>, value |-> m]
  <2> DEFINE n == 9
  <2>1. Leading(F, n, D9, B9, m) /\ n \in Nat /\ n = Len(F) /\ RecordOn(m, D9)
    BY <1>3, <1>12
  <2> HIDE DEF n
  <2> QED BY <2>1, LeadingEnd
<1> QED BY <1>3, <1>13, <1>14 DEF F

LEMMA FunctionText ==
  ASSUME NEW n \in Nat, NEW b \in [1 .. n -> Byte]
  PROVE  b \in Text /\ Len(b) = n
BY DEF Text

LEMMA CatLength ==
  ASSUME NEW a \in Text, NEW b \in Text
  PROVE  a \o b \in Text /\ Len(a \o b) = Len(a) + Len(b)
BY Cat

LEMMA HeaderText ==
  ASSUME NEW e \in SignedEnvelope
  PROVE  PackHeader(e) \in Text /\ Len(PackHeader(e)) = EnvelopeHeaderSize
<1> DEFINE F1 == U8(e.version)
           F2 == U8(e.msg_type)
           F6 == U32(e.sender_credential_version)
           F7 == I64(e.timestamp)
           F9 == U32(Len(e.payload))
           B2 == F1 \o F2
           B3 == B2 \o e.sender_uuid
           B4 == B3 \o e.recipient_uuid
           B5 == B4 \o e.request_id
           B6 == B5 \o F6
           B7 == B6 \o F7
           B8 == B7 \o e.nonce
           B9 == B8 \o F9
<1>1. F1 \in Text /\ Len(F1) = 1 /\ F2 \in Text /\ Len(F2) = 1
  <2>1. e.version \in Byte /\ e.msg_type \in Byte
    BY CodecAssumption DEF SignedEnvelope, EnvelopeVersion, Byte
  <2> QED BY <2>1, EncodesU8 DEF Encodes
<1>2. /\ e.sender_uuid \in Text /\ Len(e.sender_uuid) = UuidWidth
      /\ e.recipient_uuid \in Text /\ Len(e.recipient_uuid) = UuidWidth
      /\ e.request_id \in Text /\ Len(e.request_id) = UuidWidth
      /\ e.nonce \in Text /\ Len(e.nonce) = NonceWidth
  BY EncodesId DEF SignedEnvelope, Encodes
<1>3. F6 \in Text /\ Len(F6) = IntWidth
  BY EncodesU32 DEF SignedEnvelope, Encodes
<1>4. F7 \in Text /\ Len(F7) = LongWidth
  BY EncodesI64 DEF SignedEnvelope, Encodes
<1>5. F9 \in Text /\ Len(F9) = IntWidth
  <2>1. Len(e.payload) \in Nat
    BY DEF SignedEnvelope, Text
  <2> QED BY <2>1, DigitsAnyText, CodecAssumption DEF U32
<1>6. PackHeader(e) = B9
  BY DEF PackHeader
<1> HIDE DEF F1, F2, F6, F7, F9, B2, B3, B4, B5, B6, B7, B8, B9
<1>12. B2 \in Text /\ Len(B2) = Len(F1) + Len(F2)
  BY <1>1, CatLength DEF B2
<1>13. B3 \in Text /\ Len(B3) = Len(B2) + Len(e.sender_uuid)
  BY <1>2, <1>12, CatLength DEF B3
<1>14. B4 \in Text /\ Len(B4) = Len(B3) + Len(e.recipient_uuid)
  BY <1>2, <1>13, CatLength DEF B4
<1>15. B5 \in Text /\ Len(B5) = Len(B4) + Len(e.request_id)
  BY <1>2, <1>14, CatLength DEF B5
<1>16. B6 \in Text /\ Len(B6) = Len(B5) + Len(F6)
  BY <1>3, <1>15, CatLength DEF B6
<1>17. B7 \in Text /\ Len(B7) = Len(B6) + Len(F7)
  BY <1>4, <1>16, CatLength DEF B7
<1>18. B8 \in Text /\ Len(B8) = Len(B7) + Len(e.nonce)
  BY <1>2, <1>17, CatLength DEF B8
<1>19. B9 \in Text /\ Len(B9) = Len(B8) + Len(F9)
  BY <1>5, <1>18, CatLength DEF B9
<1>20. Len(B9) = EnvelopeHeaderSize
  <2>1. UuidWidth \in Nat /\ IntWidth \in Nat /\ LongWidth \in Nat /\ NonceWidth \in Nat
    BY CodecAssumption
  <2> DEFINE l == Len(B9)
  <2>2. l = 1 + 1 + UuidWidth + UuidWidth + UuidWidth + IntWidth + LongWidth + NonceWidth
              + IntWidth
    BY <1>1, <1>2, <1>3, <1>4, <1>5, <1>12, <1>13, <1>14, <1>15, <1>16, <1>17, <1>18, <1>19
  <2> HIDE DEF l
  <2>3. l = EnvelopeHeaderSize
    BY <2>1, <2>2 DEF EnvelopeHeaderSize
  <2> QED BY <2>3 DEF l
<1> QED BY <1>6, <1>19, <1>20

\* The parts of an envelope, and what its receiver decodes of the header.
LEMMA EnvelopeParts ==
  ASSUME NEW e \in SignedEnvelope
  PROVE  LET h == PackHeader(e)
             d == EncodeEnvelope(e)
         IN  /\ h \in Text /\ Len(h) = EnvelopeHeaderSize /\ EnvelopeHeaderSize \in Nat
             /\ e.payload \in Text /\ e.signature \in Text /\ Len(e.signature) = SignatureSize
             /\ SignatureSize = 1
             /\ d = (h \o e.payload) \o e.signature /\ d = h \o (e.payload \o e.signature)
             /\ e.payload \o e.signature \in Text /\ h \o e.payload \in Text /\ d \in Text
             /\ Len(h \o e.payload) = EnvelopeHeaderSize + Len(e.payload)
             /\ Len(d) = EnvelopeHeaderSize + Len(e.payload) + SignatureSize
             /\ d \in Short => /\ e.payload \in Short
                               /\ Decode(HeaderFields, h).value = HeaderIn(e)
<1> DEFINE h == PackHeader(e)
           p == e.payload
           s == e.signature
           d == EncodeEnvelope(e)
<1>1. h \in Text /\ Len(h) = EnvelopeHeaderSize
  BY HeaderText
<1>2. EnvelopeHeaderSize \in Nat /\ SignatureSize = 1
  BY CodecAssumption DEF EnvelopeHeaderSize, SignatureSize
<1>3. p \in Text
  BY DEF SignedEnvelope
<1>4. s \in Text /\ Len(s) = SignatureSize
  <2>1. s \in [1 .. SignatureSize -> Byte] /\ SignatureSize \in Nat
    BY <1>2 DEF SignedEnvelope
  <2> HIDE DEF s
  <2> QED BY <2>1, FunctionText
<1>5. d = (h \o p) \o s
  BY DEF EncodeEnvelope, SignedBytes
<1>6. HeaderIn(e) \in PackedHeader <=> Len(p) \in Uint32
  BY CodecAssumption DEF HeaderIn, PackedHeader, SignedEnvelope, EnvelopeVersion, Byte
<1>7. h = HeaderBytes(HeaderIn(e))
  BY DEF PackHeader, HeaderBytes, HeaderIn
<1> HIDE DEF h, p, s, d
<1>8. h \o p \in Text /\ Len(h \o p) = EnvelopeHeaderSize + Len(p)
  BY <1>1, <1>3, Cat
<1>9. p \o s \in Text
  BY <1>3, <1>4, Cat
<1>10. (h \o p) \o s = h \o (p \o s)
  BY <1>1, <1>3, <1>4, CatAssociative
<1>11. d \in Text /\ Len(d) = Len(h \o p) + Len(s)
  <2> DEFINE q == h \o p
  <2> HIDE DEF q
  <2>1. q \o s \in Text /\ Len(q \o s) = Len(q) + Len(s)
    BY <1>4, <1>8, Cat DEF q
  <2> QED BY <1>5, <2>1 DEF q
<1>12. ASSUME d \in Short PROVE p \in Short /\ Decode(HeaderFields, h).value = HeaderIn(e)
  <2> DEFINE q == h \o p
  <2>1. q \in Short
    <3>1. q \in Text /\ q \o s \in Short
      BY <1>5, <1>8, <1>12
    <3> HIDE DEF q
    <3> QED BY <1>4, <3>1, ShortParts
  <2>2. h \in Short /\ p \in Short
    BY <1>1, <1>3, <2>1, ShortParts
  <2>3. HeaderIn(e) \in PackedHeader
    BY <1>6, <2>2 DEF Short
  <2> DEFINE m == HeaderIn(e)
  <2> HIDE DEF m
  <2>4. Decode(HeaderFields, HeaderBytes(m)) = [ok |-> TRUE, rest |-> <<>>, value |-> m]
    BY <1>7, <2>2, <2>3, HeaderParsed DEF m
  <2> QED BY <1>7, <2>2, <2>4 DEF m
<1>13. /\ d = h \o (p \o s)
       /\ Len(d) = EnvelopeHeaderSize + Len(p) + SignatureSize
  BY <1>2, <1>4, <1>5, <1>8, <1>10, <1>11
<1> QED BY <1>1, <1>2, <1>3, <1>4, <1>5, <1>8, <1>9, <1>11, <1>12, <1>13 DEF h, p, s, d

LEMMA SliceMiddle ==
  ASSUME NEW a \in Text, NEW b \in Text, NEW c \in Text
  PROVE  Slice((a \o b) \o c, Len(a), Len(a) + Len(b)) = b
<1> DEFINE d == (a \o b) \o c
           i == Len(a)
           n == Len(b)
           j == i + n
<1>1. i \in Nat /\ n \in Nat /\ a \o b \in Text /\ Len(a \o b) = j
      /\ \A k \in 1 .. n : (a \o b)[i + k] = b[k]
  BY Cat
<1>2. /\ d \in Text /\ j <= Len(d) /\ i <= j /\ i <= Len(d) /\ j \in Nat /\ j - i = n
      /\ \A k \in 1 .. j : d[k] = (a \o b)[k]
  <2> DEFINE e == a \o b
  <2> HIDE DEF e
  <2>1. e \in Text /\ Len(e) = j
    BY <1>1 DEF e
  <2>2. /\ e \o c \in Text /\ Len(e \o c) = Len(e) + Len(c) /\ Len(c) \in Nat
        /\ \A k \in 1 .. Len(e) : (e \o c)[k] = e[k]
    BY <2>1, Cat
  <2> QED BY <1>1, <2>1, <2>2 DEF e
<1>3. \A k \in 1 .. n : d[i + k] = b[k]
  <2>1. \A k \in 1 .. n : i + k \in 1 .. j
    BY <1>1
  <2> HIDE DEF d, j
  <2> QED BY <1>1, <1>2, <2>1
<1> HIDE DEF d, i, n, j
<1>4. Slice(d, i, j) \in Text /\ Len(Slice(d, i, j)) = j - i
  BY <1>1, <1>2, SliceIs
<1>5. \A k \in 1 .. j - i : Slice(d, i, j)[k] = d[i + k]
  BY <1>1, <1>2, SliceIs
<1>6. Slice(d, i, j) = b
  BY <1>2, <1>3, <1>4, <1>5, TextEqual DEF n
<1> QED BY <1>6 DEF d, i, j, n

\* What is read of an envelope is what was packed into it.
LEMMA EnvelopeParsed ==
  ASSUME NEW e \in SignedEnvelope, EncodeEnvelope(e) \in Short
  PROVE  ParseEnvelope(EncodeEnvelope(e)) = Returned(e)
<1> DEFINE h == PackHeader(e)
           p == e.payload
           s == e.signature
           d == EncodeEnvelope(e)
           end == EnvelopeHeaderSize + Len(p)
<1>1. /\ h \in Text /\ Len(h) = EnvelopeHeaderSize /\ EnvelopeHeaderSize \in Nat
      /\ p \in Text /\ s \in Text /\ Len(s) = SignatureSize /\ SignatureSize = 1
      /\ d = (h \o p) \o s /\ d = h \o (p \o s) /\ p \o s \in Text /\ h \o p \in Text
      /\ Len(h \o p) = EnvelopeHeaderSize + Len(p)
      /\ Len(d) = EnvelopeHeaderSize + Len(p) + SignatureSize
      /\ Decode(HeaderFields, h).value = HeaderIn(e) /\ Len(p) \in Nat
  BY EnvelopeParts, Cat
<1> HIDE DEF h, p, s, d
<1>2. Slice(d, 0, EnvelopeHeaderSize) = h
  <2> DEFINE q == p \o s
  <2> HIDE DEF q
  <2>1. q \in Text /\ d = h \o q
    BY <1>1 DEF q
  <2>2. Slice(h \o q, 0, Len(h)) = h
    BY <1>1, <2>1, SliceFront
  <2> QED BY <1>1, <2>1, <2>2
<1>3. Slice(d, EnvelopeHeaderSize, end) = p
  <2>1. Slice((h \o p) \o s, Len(h), Len(h) + Len(p)) = p
    BY <1>1, SliceMiddle
  <2> QED BY <1>1, <2>1
<1>4. Slice(d, end, Len(d)) = s
  <2> DEFINE q == h \o p
  <2> HIDE DEF q
  <2>1. q \in Text /\ d = q \o s /\ Len(q) = end
    BY <1>1 DEF q
  <2>2. Slice(q \o s, Len(q), Len(q \o s)) = s
    BY <1>1, <2>1, SliceBack
  <2> QED BY <2>1, <2>2
<1>5. HeaderIn(e).payload_len = Len(p) /\ HeaderIn(e).version = EnvelopeVersion
  BY DEF HeaderIn, SignedEnvelope, p
<1>6. ParseEnvelope(d) =
        Returned([version |-> e.version, msg_type |-> e.msg_type,
                  sender_uuid |-> e.sender_uuid, recipient_uuid |-> e.recipient_uuid,
                  request_id |-> e.request_id,
                  sender_credential_version |-> e.sender_credential_version,
                  timestamp |-> e.timestamp, nonce |-> e.nonce,
                  payload |-> p, signature |-> s])
  <2> DEFINE m == HeaderIn(e)
             r == Returned([version |-> m.version, msg_type |-> m.msg_type,
                            sender_uuid |-> m.sender_uuid, recipient_uuid |-> m.recipient_uuid,
                            request_id |-> m.request_id,
                            sender_credential_version |-> m.sender_credential_version,
                            timestamp |-> m.timestamp, nonce |-> m.nonce,
                            payload |-> p, signature |-> s])
  <2>1. ~(Len(d) < EnvelopeHeaderSize + SignatureSize)
    BY <1>1
  <2>2. EnvelopeHeaderSize + m.payload_len = end
    BY <1>5
  <2>3. ParseEnvelope(d) = IF \/ m.version # EnvelopeVersion
                              \/ Len(p) # m.payload_len
                              \/ Len(s) # SignatureSize
                           THEN Raised ELSE r
    <3> HIDE DEF m, end
    <3>1. Decode(HeaderFields, Slice(d, 0, EnvelopeHeaderSize)).value = m
      BY <1>1, <1>2 DEF m
    <3> QED BY <1>3, <1>4, <2>1, <2>2, <3>1 DEF ParseEnvelope
  <2>4. ParseEnvelope(d) = r
    <3> HIDE DEF m, r
    <3> QED BY <1>1, <1>5, <2>3 DEF m
  <2> QED BY <2>4 DEF HeaderIn
<1>7. e = [version |-> e.version, msg_type |-> e.msg_type,
           sender_uuid |-> e.sender_uuid, recipient_uuid |-> e.recipient_uuid,
           request_id |-> e.request_id,
           sender_credential_version |-> e.sender_credential_version,
           timestamp |-> e.timestamp, nonce |-> e.nonce,
           payload |-> p, signature |-> s]
  BY DEF SignedEnvelope, p, s
<1> QED BY <1>6, <1>7 DEF d

\* Nothing is read of an envelope whose end is missing.
LEMMA EnvelopeCut ==
  ASSUME NEW e \in SignedEnvelope, EncodeEnvelope(e) \in Short,
         NEW c \in Text, NEW u \in Text, u # <<>>, c \o u = EncodeEnvelope(e)
  PROVE  ParseEnvelope(c) = Raised
<1> DEFINE h == PackHeader(e)
           p == e.payload
           s == e.signature
           d == EncodeEnvelope(e)
           b == p \o s
           H == EnvelopeHeaderSize
           n == Len(p)
           end == H + n
<1>1. /\ h \in Text /\ Len(h) = H /\ H \in Nat /\ n \in Nat
      /\ SignatureSize = 1 /\ d = h \o b /\ b \in Text
      /\ Decode(HeaderFields, h).value = HeaderIn(e) /\ Len(b) = n + 1
  <2>1. /\ h \in Text /\ Len(h) = H /\ H \in Nat /\ SignatureSize = 1 /\ d = h \o b /\ b \in Text
        /\ Decode(HeaderFields, h).value = HeaderIn(e)
        /\ p \in Text /\ s \in Text /\ Len(s) = SignatureSize
    BY EnvelopeParts
  <2> HIDE DEF p, s, h, d
  <2>2. Len(p \o s) = Len(p) + Len(s) /\ Len(p) \in Nat
    BY <2>1, Cat
  <2> QED BY <2>1, <2>2
<1>2. HeaderIn(e).payload_len = n
  BY DEF HeaderIn
<1>3. Len(u) \in Nat \ {0} /\ Len(c) \in Nat
  BY DEF Text
<1> HIDE DEF h, p, s, d, b, n
<1>4. CASE Len(c) < H + SignatureSize
  BY <1>4 DEF ParseEnvelope
<1>5. CASE Len(c) >= H + SignatureSize
  <2>1. PICK v \in Text : c = h \o v /\ b = v \o u /\ Len(v) = Len(c) - Len(h)
    <3>1. Same(h, b, c, u)
      BY <1>1, <1>3, <1>5 DEF d, Same
    <3> DEFINE v == Slice(c, Len(h), Len(c))
    <3>2. v \in Text /\ c = h \o v /\ b = v \o u /\ Len(v) = Len(c) - Len(h)
      BY <1>1, <3>1, CatPrefix
    <3> HIDE DEF v
    <3> QED BY <3>2
  <2>2. Len(v) \in Nat /\ Len(c) = H + Len(v) /\ Len(v) <= n
    <3>1. Len(v \o u) = Len(v) + Len(u) /\ Len(v) \in Nat
      BY Cat
    <3> QED BY <1>1, <1>3, <2>1, <3>1
  <2>3. Slice(c, 0, H) = h
    BY <1>1, <2>1, SliceFront
  <2>4. Len(Slice(c, H, end)) = Len(v)
    <3>1. H <= end /\ H <= Len(c) /\ end \in Nat /\ Len(c) <= end
      BY <1>1, <2>2
    <3>2. Len(Slice(c, H, end)) = (IF end <= Len(c) THEN end ELSE Len(c)) - H
      <4> HIDE DEF end, H
      <4> QED BY <1>1, <3>1, SliceIs
    <3> QED BY <1>1, <1>3, <2>2, <3>1, <3>2
  <2>5. ASSUME Len(v) = n PROVE Len(Slice(c, end, Len(c))) = 0
    <3>1. end \in Nat /\ end = Len(c)
      BY <1>1, <2>2, <2>5
    <3> DEFINE j == Len(c)
    <3>2. Len(Slice(c, end, j)) = (IF j <= Len(c) THEN j ELSE Len(c)) - end
      <4>1. end <= j /\ end <= Len(c) /\ j \in Nat
        BY <1>3, <3>1
      <4> HIDE DEF end, j
      <4> QED BY <3>1, <4>1, SliceIs
    <3> QED BY <1>3, <3>1, <3>2
  <2>6. ~(Len(c) < H + SignatureSize)
    BY <1>1, <1>3, <1>5
  <2> DEFINE m == HeaderIn(e)
  <2>7. EnvelopeHeaderSize + m.payload_len = end
    BY <1>2
  <2>8. Decode(HeaderFields, Slice(c, 0, EnvelopeHeaderSize)).value = m
    BY <1>1, <2>3
  <2>9. \/ Len(Slice(c, EnvelopeHeaderSize, end)) # m.payload_len
        \/ Len(Slice(c, end, Len(c))) # SignatureSize
    <3>1. m.payload_len = n /\ SignatureSize = 1
      BY <1>1, <1>2
    <3> HIDE DEF m, end, H
    <3>2. CASE Len(v) = n
      BY <2>5, <3>1, <3>2
    <3>3. CASE Len(v) # n
      BY <2>4, <3>1, <3>3 DEF H
    <3> QED BY <3>2, <3>3
  <2> HIDE DEF m, end
  <2> QED BY <2>6, <2>7, <2>8, <2>9 DEF ParseEnvelope
<1> QED BY <1>1, <1>3, <1>4, <1>5

-------------------------------------------------------------------------------
\* Control messages that are cut.

LEMMA BytesCut ==
  ASSUME NEW b \in Short, NEW q \in Text, NEW u \in Text, u # <<>>, q \o u = Bytes(b)
  PROVE  ~Enough(q, Size("bytes", q))
<1> DEFINE p == U32(Len(b))
           n == Number(Slice(q, 0, IntWidth))
<1>1. p \in Text /\ Len(p) = IntWidth /\ Number(p) = Len(b) /\ IntWidth \in Nat /\ b \in Text
  BY EncodesU32, CodecAssumption DEF Encodes, Value, Short
<1>2. Bytes(b) = p \o b
  BY DEF Bytes
<1> HIDE DEF p
<1>3. Len(u) \in Nat \ {0} /\ Len(q) \in Nat /\ Len(b) \in Nat
  BY <1>1 DEF Text
<1>4. Len(q) + Len(u) = IntWidth + Len(b)
  <2>1. Len(q \o u) = Len(q) + Len(u) /\ Len(p \o b) = Len(p) + Len(b)
    BY <1>1, Cat
  <2> QED BY <1>1, <1>2, <2>1
<1>5. n \in Nat /\ (Len(q) >= IntWidth => n = Len(b))
  <2>1. Slice(q, 0, IntWidth) \in Text
    <3>1. 0 <= IntWidth /\ 0 <= Len(q)
      BY <1>1, <1>3
    <3> QED BY <1>1, <3>1, SliceIs
  <2>2. ASSUME Len(q) >= IntWidth PROVE Slice(q, 0, IntWidth) = p
    <3> DEFINE v == Slice(q, Len(p), Len(q))
    <3>1. Same(p, b, q, u)
      BY <1>1, <1>2, <2>2, <1>3 DEF Same
    <3>2. v \in Text /\ q = p \o v
      BY <1>1, <3>1, CatPrefix
    <3> HIDE DEF v
    <3> QED BY <1>1, <3>2, SliceFront
  <2> QED BY <1>1, <2>1, <2>2, NumberText
<1>6. Size("bytes", q) = IntWidth + n
  BY DEF Size
<1> HIDE DEF n
<1> QED BY <1>1, <1>3, <1>4, <1>5, <1>6 DEF Enough

LEMMA TakeByte ==
  ASSUME NEW p \in Text, Len(p) = 1, NEW s \in Text
  PROVE  Take([ok |-> TRUE, rest |-> p \o s, value |-> <<>>], <<"ctype", "u8">>)
           = [ok |-> TRUE, rest |-> s, value |-> With(<<>>, "ctype", Number(p))]
<1>1. Encodes("u8", p, Number(p))
  BY DEF Encodes, Size, Fixed, Value
<1> DEFINE v == Number(p)
           r == <<>>
           name == "ctype"
           kind == "u8"
<1>2. Encodes(kind, p, v)
  BY <1>1
<1> HIDE DEF v, r, name, kind
<1>3. Take([ok |-> TRUE, rest |-> p \o s, value |-> r], <<name, kind>>)
        = [ok |-> TRUE, rest |-> s, value |-> With(r, name, v)]
  BY <1>2, TakeField
<1> QED BY <1>3 DEF v, r, name, kind

\* Nothing is parsed of a control message whose end is missing.
LEMMA ControlCut ==
  ASSUME NEW m \in [ctype : Byte, body : Text], EncodeControl(m) \in Short,
         NEW c \in Text, NEW u \in Text, u # <<>>, c \o u = EncodeControl(m)
  PROVE  Parsed(ControlFields, c) = Raised
<1> DEFINE init == [ok |-> TRUE, rest |-> c, value |-> <<>>]
           one == Take(init, <<"ctype", "u8">>)
           two == Take(one, <<"body", "bytes">>)
           f == [i \in 0 .. 2 |-> IF i = 0 THEN init ELSE IF i = 1 THEN one ELSE two]
           k == 2
<1>1. Decodes(f, ControlFields, c, k)
  <2>1. f[0] = init /\ f[1] = one /\ f[2] = two
    OBVIOUS
  <2>2. ControlFields[1] = <<"ctype", "u8">> /\ ControlFields[2] = <<"body", "bytes">>
    BY DEF ControlFields
  <2> HIDE DEF f, one, two, init
  <2>3. ASSUME NEW i \in 1 .. k PROVE f[i] = Take(f[i - 1], ControlFields[i])
    <3>1. CASE i = 1
      <4>1. i - 1 = 0
        BY <3>1
      <4> QED BY <2>1, <2>2, <3>1, <4>1 DEF one
    <3>2. CASE i = 2
      <4>1. i - 1 = 1
        BY <3>2
      <4> QED BY <2>1, <2>2, <3>2, <4>1 DEF two
    <3> QED BY <3>1, <3>2
  <2> QED BY <2>1, <2>3 DEF Decodes, init
<1>2. Decode(ControlFields, c) = two
  <2>1. f[k] = two /\ k \in Nat /\ k = Len(ControlFields)
    BY DEF ControlFields
  <2> HIDE DEF f, k, two
  <2> QED BY <1>1, <2>1, DecodeIs
<1>3. two.ok = FALSE
  <2> DEFINE p == U8(m.ctype)
             b == m.body
  <2>1. p \in Text /\ Len(p) = 1 /\ b \in Text /\ Bytes(b) \in Text /\ EncodeControl(m) = p \o Bytes(b)
    BY EncodesU8, CarriesText DEF Encodes, EncodeControl, Carries
  <2> HIDE DEF p, b
  <2>2. b \in Short
    <3> DEFINE d == Bytes(b)
    <3>1. d \in Text /\ p \o d \in Short
      BY <2>1
    <3> HIDE DEF d
    <3>2. d \in Short
      BY <2>1, <3>1, ShortParts
    <3> QED BY <2>1, <3>2, CarriesText DEF d
  <2>3. Len(c) \in Nat /\ Len(u) \in Nat \ {0}
    BY DEF Text
  <2>4. CASE Len(c) = 0
    <3>1. ~(Len(c) >= 1)
      BY <2>4
    <3>2. one = [init EXCEPT !.ok = FALSE]
      BY <3>1 DEF Take, Size, Fixed, Enough
    <3>3. one.ok = FALSE /\ DOMAIN one = {"ok", "rest", "value"}
      BY <3>2
    <3> HIDE DEF one
    <3>4. two = [one EXCEPT !.ok = FALSE]
      BY <3>3 DEF Take
    <3> QED BY <3>3, <3>4
  <2>5. CASE Len(c) # 0
    <3> DEFINE tail == Bytes(b)
               q == Slice(c, Len(p), Len(c))
    <3>0. tail \in Text /\ p \in Text /\ Same(p, tail, c, u)
      BY <2>1, <2>3, <2>5 DEF Same
    <3> HIDE DEF tail
    <3>1. q \in Text /\ c = p \o q /\ tail = q \o u
      BY <3>0, CatPrefix
    <3> HIDE DEF q
    <3>2. ~Enough(q, Size("bytes", q))
      BY <2>2, <3>1, BytesCut DEF tail
    <3>3. one.rest = q /\ DOMAIN one = {"ok", "rest", "value"}
      <4>1. Take([ok |-> TRUE, rest |-> p \o q, value |-> <<>>], <<"ctype", "u8">>)
              = [ok |-> TRUE, rest |-> q, value |-> With(<<>>, "ctype", Number(p))]
        BY <2>1, <3>1, TakeByte
      <4>2. one = [ok |-> TRUE, rest |-> q, value |-> With(<<>>, "ctype", Number(p))]
        BY <3>1, <4>1
      <4> QED BY <4>2
    <3> HIDE DEF one
    <3>4. two = [one EXCEPT !.ok = FALSE]
      BY <3>2, <3>3 DEF Take
    <3> QED BY <3>3, <3>4
  <2> QED BY <2>4, <2>5
<1> HIDE DEF two
<1> QED BY <1>2, <1>3 DEF Parsed

-------------------------------------------------------------------------------
\* Messages in parts.

EnrollOuter == [status : Byte, message : Text, key_info : Text]
EnrollBytes(m) == U8(m.status) \o Bytes(m.message) \o Bytes(m.key_info)

TaggedSuccessor == [tag : {SuccessorTag}, identity : Id, old_version : Uint32,
                    new_version : Uint32, ed25519_public : Text, x25519_public : Text,
                    metadata : Text]

LEMMA EnrollOuterParsed ==
  ASSUME NEW m \in EnrollOuter
  PROVE  /\ EnrollBytes(m) \in Text
         /\ EnrollBytes(m) \in Short => Parsed(EnrollResponseFields, EnrollBytes(m)) = Returned(m)
<1> DEFINE F == EnrollResponseFields
           B1 == U8(m.status)
           B2 == B1 \o Bytes(m.message)
           B3 == B2 \o Bytes(m.key_info)
           D1 == {"status"}
           D2 == D1 \cup {"message"}
           D3 == D2 \cup {"key_info"}
<1>1. /\ Carries("u8", U8(m.status), m["status"])
      /\ Carries("bytes", Bytes(m.message), m["message"])
      /\ Carries("bytes", Bytes(m.key_info), m["key_info"])
  BY CarriesNumbers, CarriesText DEF EnrollOuter
<1>2. /\ F[1] = <<"status", "u8">>
      /\ F[2] = <<"message", "bytes">>
      /\ F[3] = <<"key_info", "bytes">>
  BY DEF EnrollResponseFields
<1>3. RecordOn(m, D3) /\ EnrollBytes(m) = B3 /\ Len(F) = 3
  BY DEF RecordOn, EnrollBytes, EnrollResponseFields, EnrollOuter
<1> HIDE DEF F, B1, B2, B3,
            D1, D2, D3
<1>4. Leading(F, 1, D1, B1, m)
  BY <1>1, <1>2, LeadingFirst DEF B1, D1
<1>5. Leading(F, 2, D2, B2, m)
  BY <1>1, <1>2, <1>4, LeadingNext DEF B2, D2
<1>6. Leading(F, 3, D3, B3, m)
  BY <1>1, <1>2, <1>5, LeadingNext DEF B3, D3
<1>7. B3 \in Text
  BY <1>6 DEF Leading
<1>8. B3 \in Short => Parsed(F, B3) = Returned(m)
  BY <1>3, <1>6, LeadingEnd
<1> QED BY <1>3, <1>7, <1>8 DEF F

LEMMA SuccessorParsed ==
  ASSUME NEW m \in TaggedSuccessor
  PROVE  /\ EncodeSuccessor(m) \in Text
         /\ EncodeSuccessor(m) \in Short => Parsed(SuccessorFields, EncodeSuccessor(m)) = Returned(m)
<1> DEFINE F == SuccessorFields
           B1 == Bytes(SuccessorTag)
           B2 == B1 \o Uuid(m.identity)
           B3 == B2 \o U32(m.old_version)
           B4 == B3 \o U32(m.new_version)
           B5 == B4 \o Bytes(m.ed25519_public)
           B6 == B5 \o Bytes(m.x25519_public)
           B7 == B6 \o Bytes(m.metadata)
           D1 == {"tag"}
           D2 == D1 \cup {"identity"}
           D3 == D2 \cup {"old_version"}
           D4 == D3 \cup {"new_version"}
           D5 == D4 \cup {"ed25519_public"}
           D6 == D5 \cup {"x25519_public"}
           D7 == D6 \cup {"metadata"}
<1>0. SuccessorTag \in Text /\ m.tag = SuccessorTag
  BY CodecAssumption DEF SuccessorTag, TaggedSuccessor, Text, Byte
<1>1. /\ Carries("bytes", Bytes(SuccessorTag), m["tag"])
      /\ Carries("uuid", Uuid(m.identity), m["identity"])
      /\ Carries("u32", U32(m.old_version), m["old_version"])
      /\ Carries("u32", U32(m.new_version), m["new_version"])
      /\ Carries("bytes", Bytes(m.ed25519_public), m["ed25519_public"])
      /\ Carries("bytes", Bytes(m.x25519_public), m["x25519_public"])
      /\ Carries("bytes", Bytes(m.metadata), m["metadata"])
  BY <1>0, CarriesNumbers, CarriesText DEF TaggedSuccessor
<1>2. /\ F[1] = <<"tag", "bytes">>
      /\ F[2] = <<"identity", "uuid">>
      /\ F[3] = <<"old_version", "u32">>
      /\ F[4] = <<"new_version", "u32">>
      /\ F[5] = <<"ed25519_public", "bytes">>
      /\ F[6] = <<"x25519_public", "bytes">>
      /\ F[7] = <<"metadata", "bytes">>
  BY DEF SuccessorFields
<1>3. RecordOn(m, D7) /\ EncodeSuccessor(m) = B7 /\ Len(F) = 7
  BY DEF RecordOn, EncodeSuccessor, SuccessorFields, TaggedSuccessor
<1> HIDE DEF F, B1, B2, B3, B4, B5, B6, B7,
            D1, D2, D3, D4, D5, D6, D7
<1>4. Leading(F, 1, D1, B1, m)
  BY <1>1, <1>2, LeadingFirst DEF B1, D1
<1>5. Leading(F, 2, D2, B2, m)
  <2>1. Carries("uuid", Uuid(m.identity), m["identity"]) /\ F[2] = <<"identity", "uuid">>
    BY <1>1, <1>2
  <2> QED BY <1>4, <2>1, LeadingNext DEF B2, D2
<1>6. Leading(F, 3, D3, B3, m)
  <2>1. Carries("u32", U32(m.old_version), m["old_version"]) /\ F[3] = <<"old_version", "u32">>
    BY <1>1, <1>2
  <2> QED BY <1>5, <2>1, LeadingNext DEF B3, D3
<1>7. Leading(F, 4, D4, B4, m)
  <2>1. Carries("u32", U32(m.new_version), m["new_version"]) /\ F[4] = <<"new_version", "u32">>
    BY <1>1, <1>2
  <2> QED BY <1>6, <2>1, LeadingNext DEF B4, D4
<1>8. Leading(F, 5, D5, B5, m)
  <2>1. /\ Carries("bytes", Bytes(m.ed25519_public), m["ed25519_public"])
        /\ F[5] = <<"ed25519_public", "bytes">>
    BY <1>1, <1>2
  <2> QED BY <1>7, <2>1, LeadingNext DEF B5, D5
<1>9. Leading(F, 6, D6, B6, m)
  <2>1. /\ Carries("bytes", Bytes(m.x25519_public), m["x25519_public"])
        /\ F[6] = <<"x25519_public", "bytes">>
    BY <1>1, <1>2
  <2> QED BY <1>8, <2>1, LeadingNext DEF B6, D6
<1>10. Leading(F, 7, D7, B7, m)
  <2>1. Carries("bytes", Bytes(m.metadata), m["metadata"]) /\ F[7] = <<"metadata", "bytes">>
    BY <1>1, <1>2
  <2> QED BY <1>9, <2>1, LeadingNext DEF B7, D7
<1>11. B7 \in Text
  BY <1>10 DEF Leading
<1>12. B7 \in Short => Parsed(F, B7) = Returned(m)
  BY <1>3, <1>10, LeadingEnd
<1> QED BY <1>3, <1>11, <1>12 DEF F

LEMMA EnrolledParsed ==
  ASSUME NEW m \in Content("enrolled")
  PROVE  /\ EncodeEnrollResponse(m) \in Text
         /\ EncodeEnrollResponse(m) \in Short =>
              ParseEnrollResponse(EncodeEnrollResponse(m)) = Returned(m)
<1> DEFINE b == IF m.status = 0 THEN EncodeKeyInfo(m.key_info) ELSE <<>>
           o == [status |-> m.status, message |-> m.message, key_info |-> b]
           d == EncodeEnrollResponse(m)
           x == U8(m.status) \o Bytes(m.message)
<1>1. /\ m.status \in Byte /\ m.message \in Text
      /\ m = [status |-> m.status, message |-> m.message, key_info |-> m.key_info]
      /\ m.status = 0 => m.key_info \in KeyInfo
      /\ m.status # 0 => m.key_info = <<>>
  <2>1. 0 \in Byte
    BY CodecAssumption DEF Byte
  <2> QED BY <2>1 DEF Content
<1>2. b \in Text
  <2>1. <<>> \in Text
    BY DEF Text
  <2> QED BY <1>1, <2>1, KeyInfoParsed
<1>3. d = EnrollBytes(o) /\ d = x \o Bytes(b)
  BY DEF EncodeEnrollResponse, EnrollBytes
<1>4. o \in EnrollOuter
  <2> HIDE DEF b
  <2> QED BY <1>1, <1>2 DEF EnrollOuter
<1>5. x \in Text /\ Bytes(b) \in Text
  <2> HIDE DEF b
  <2>1. U8(m.status) \in Text /\ Bytes(m.message) \in Text /\ Bytes(b) \in Text
    BY <1>1, <1>2, CarriesText, EncodesU8 DEF Carries, Encodes
  <2> QED BY <2>1, Cat
<1>6. EnrollBytes(o) \in Text
           /\ (EnrollBytes(o) \in Short => Parsed(EnrollResponseFields, EnrollBytes(o)) = Returned(o))
  <2> HIDE DEF o
  <2> QED BY <1>4, EnrollOuterParsed
<1>7. ASSUME d \in Short PROVE b \in Short
  <2> DEFINE z == Bytes(b)
  <2> HIDE DEF z, x, b
  <2>1. z \in Short
    BY <1>3, <1>5, <1>7, ShortParts DEF z
  <2> QED BY <1>2, <2>1, CarriesText DEF z
<1>8. ASSUME d \in Short PROVE ParseEnrollResponse(d) = Returned(m)
  <2>1. Parsed(EnrollResponseFields, d) = {o}
    BY <1>3, <1>6, <1>8 DEF Returned
  <2> HIDE DEF d
  <2>2. CASE m.status # 0
    <3>1. o = m
      BY <1>1, <2>2
    <3>2. ParseEnrollResponse(d) = UNION {Returned(m)}
      BY <2>1, <2>2, <3>1 DEF ParseEnrollResponse, Then
    <3> QED BY <3>2
  <2>3. CASE m.status = 0
    <3>1. b = EncodeKeyInfo(m.key_info) /\ m.key_info \in KeyInfo
      BY <1>1, <2>3
    <3> HIDE DEF b
    <3>2. Parsed(KeyInfoFields, b) = {m.key_info}
      BY <1>7, <1>8, <3>1, KeyInfoParsed DEF Returned
    <3>3. o.status = 0 /\ o.key_info = b
      BY <2>3
    <3>4. [o EXCEPT !.key_info = m.key_info] = m
      BY <1>1
    <3> HIDE DEF o
    <3> DEFINE U(r) == IF r.status # 0 THEN Returned(r)
                       ELSE UNION {Returned([r EXCEPT !.key_info = k]) :
                                     k \in Parsed(KeyInfoFields, r.key_info)}
    <3>5. ParseEnrollResponse(d) = UNION {U(r) : r \in {o}}
      BY <2>1 DEF ParseEnrollResponse, Then
    <3>9. U(o) = UNION {Returned([o EXCEPT !.key_info = k]) : k \in Parsed(KeyInfoFields, b)}
      BY <3>3
    <3>6. ParseEnrollResponse(d) =
            UNION {Returned([o EXCEPT !.key_info = k]) : k \in Parsed(KeyInfoFields, b)}
      <4> HIDE DEF U
      <4>1. ParseEnrollResponse(d) = U(o)
        BY <3>5
      <4> QED BY <3>9, <4>1
    <3>7. {Returned([o EXCEPT !.key_info = k]) : k \in {m.key_info}} = {Returned(m)}
      BY <3>4
    <3>8. ParseEnrollResponse(d) = UNION {Returned(m)}
      BY <3>2, <3>6, <3>7
    <3> QED BY <3>8
  <2> QED BY <2>2, <2>3
<1> QED BY <1>3, <1>6, <1>8 DEF d

LEMMA SubmissionParsed ==
  ASSUME NEW m \in Content("submission")
  PROVE  /\ EncodeSubmission(m) \in Text
         /\ EncodeSubmission(m) \in Short => ParseSubmission(EncodeSubmission(m)) = Returned(m)
<1> DEFINE t == [tag |-> SuccessorTag, identity |-> m.identity, old_version |-> m.old_version,
                 new_version |-> m.new_version, ed25519_public |-> m.ed25519_public,
                 x25519_public |-> m.x25519_public, metadata |-> m.metadata]
           b == EncodeSuccessor(m)
           s == m.signature
           d == EncodeSubmission(m)
           size == Len(d) - SignatureSize
<1>1. t \in TaggedSuccessor /\ EncodeSuccessor(t) = b
  BY DEF Content, TaggedSuccessor, EncodeSuccessor
<1>2. b \in Text /\ (b \in Short => Parsed(SuccessorFields, b) = Returned(t))
  <2> HIDE DEF t
  <2>1. /\ EncodeSuccessor(t) \in Text
        /\ EncodeSuccessor(t) \in Short => Parsed(SuccessorFields, EncodeSuccessor(t)) = Returned(t)
    BY <1>1, SuccessorParsed
  <2> QED BY <1>1, <2>1
<1>3. s \in Text /\ Len(s) = SignatureSize
  <2>1. SignatureSize \in Nat /\ s \in [1 .. SignatureSize -> Byte]
    BY DEF SignatureSize, Content
  <2> HIDE DEF s
  <2> QED BY <2>1, FunctionText
<1>4. d = b \o s
  BY DEF EncodeSubmission
<1>5. OrNil(m.identity) = m.identity
  <2>1. m.identity \in Id
    BY DEF Content
  <2>2. Len(m.identity) = UuidWidth /\ UuidWidth # 0
    BY <2>1, EncodesId, CodecAssumption
  <2> QED BY <2>2 DEF OrNil, NoUuid
<1> HIDE DEF b, s, d
<1>6. d \in Text /\ size = Len(b)
  <2>1. b \o s \in Text /\ Len(b \o s) = Len(b) + Len(s) /\ Len(b) \in Nat
    BY <1>2, <1>3, Cat
  <2> QED BY <1>3, <1>4, <2>1 DEF SignatureSize
<1>7. Slice(d, 0, size) = b /\ Slice(d, size, Len(d)) = s
  <2>1. Slice(b \o s, 0, Len(b)) = b /\ Slice(b \o s, Len(b), Len(b \o s)) = s
    BY <1>2, <1>3, SliceFront, SliceBack
  <2> QED BY <1>4, <1>6, <2>1
<1>8. ASSUME d \in Short PROVE ParseSubmission(d) = Returned(m)
  <2>1. b \in Short
    BY <1>2, <1>3, <1>4, <1>8, ShortParts
  <2>2. Parsed(SuccessorFields, Slice(d, 0, Len(d) - SignatureSize)) = {t}
    BY <1>2, <1>7, <2>1 DEF Returned
  <2> DEFINE r == [identity |-> OrNil(t.identity), old_version |-> t.old_version,
                   new_version |-> t.new_version, ed25519_public |-> t.ed25519_public,
                   x25519_public |-> t.x25519_public, metadata |-> t.metadata,
                   signature |-> s]
  <2>3. t.tag = SuccessorTag
    OBVIOUS
  <2>4. r = m
    <3>1. m = [identity |-> m.identity, old_version |-> m.old_version,
               new_version |-> m.new_version, ed25519_public |-> m.ed25519_public,
               x25519_public |-> m.x25519_public, metadata |-> m.metadata,
               signature |-> m.signature]
      BY DEF Content
    <3> QED BY <1>5, <3>1 DEF s
  <2> HIDE DEF t
  <2>5. ParseSubmission(d) = UNION {Returned(r)}
    BY <1>7, <2>2, <2>3 DEF ParseSubmission, Then
  <2> QED BY <2>4, <2>5
<1> QED BY <1>6, <1>8 DEF d

LEMMA Flattened ==
  ASSUME NEW n \in Nat, NEW bs \in Seq(Text), Len(bs) = n
  PROVE  \E g \in [0 .. n -> Text] :
            /\ g[0] = <<>> /\ \A i \in 1 .. n : g[i] = g[i - 1] \o bs[i]
            /\ FlattenSeq(bs) = g[n]
<1> DEFINE G == [x \in (1 .. n) \X Text |-> x[2] \o bs[x[1]]]
           e == <<>>
<1>0. \A i \in 1 .. n : bs[i] \in Text
  OBVIOUS
<1>1. e \in Text
  BY DEF Text
<1>2. \A i \in 1 .. n, x \in Text : G[<<i, x>>] = x \o bs[i] /\ x \o bs[i] \in Text
  BY <1>0, Cat
<1>3. G \in StepsOn(n, Text)
  <2>1. ASSUME NEW x \in (1 .. n) \X Text PROVE x[2] \o bs[x[1]] \in Text
    <3>1. x[1] \in 1 .. n /\ x[2] \in Text
      OBVIOUS
    <3> QED BY <1>0, <3>1, Cat
  <2> QED BY <2>1 DEF StepsOn
<1> HIDE DEF G, e
<1>4. PICK g \in [0 .. n -> Text] : Iterates(g, e, n, G)
  BY <1>1, <1>3, Iteration
<1>5. g[0] = e /\ \A i \in 1 .. n : g[i] = g[i - 1] \o bs[i]
  <2>1. ASSUME NEW i \in 1 .. n PROVE g[i] = g[i - 1] \o bs[i]
    <3>1. g[i - 1] \in Text
      OBVIOUS
    <3>2. g[i] = G[<<i, g[i - 1]>>]
      BY <1>4 DEF Iterates
    <3> QED BY <1>2, <3>1, <3>2, Zenon
  <2> QED BY <1>4, <2>1 DEF Iterates
<1>6. CASE n = 0
  <2>1. FlattenSeq(bs) = bs /\ bs = <<>>
    BY <1>6 DEF FlattenSeq
  <2> QED BY <1>5, <1>6, <2>1 DEF e
<1>7. CASE n # 0
  <2> DEFINE Upto(f) == f = [i \in 1 .. n |-> IF i = 1 THEN bs[i] ELSE f[i - 1] \o bs[i]]
             h == CHOOSE f : Upto(f)
             f0 == [i \in 1 .. n |-> g[i]]
  <2>1. Upto(f0)
    <3>1. ASSUME NEW i \in 1 .. n PROVE g[i] = IF i = 1 THEN bs[i] ELSE f0[i - 1] \o bs[i]
      <4>1. CASE i = 1
        <5>0. g[i] = g[i - 1] \o bs[i] /\ bs[i] \in Text
          BY <1>0, <1>5
        <5>1. bs[i] \in Text /\ g[i] = g[0] \o bs[i]
          BY <4>1, <5>0
        <5>2. e \o bs[i] = bs[i]
          BY <5>1, Cat DEF e
        <5> QED BY <1>5, <4>1, <5>1, <5>2
      <4>2. CASE i # 1
        <5>1. i - 1 \in 1 .. n
          BY <4>2
        <5>2. f0[i - 1] = g[i - 1]
          BY <5>1
        <5> QED BY <1>5, <4>2, <5>2
      <4> QED BY <4>1, <4>2
    <3> QED BY <3>1
  <2>2. Upto(h)
    <3> HIDE DEF Upto
    <3> QED BY <2>1, Zenon
  <2>3. FlattenSeq(bs) = h[n]
    BY <1>7 DEF FlattenSeq
  <2> HIDE DEF h
  <2> DEFINE H == [i \in 0 .. n |-> IF i = 0 THEN e ELSE h[i]]
  <2>4. H[0] = g[0] /\ H[n] = h[n]
    BY <1>5, <1>7
  <2>5. ASSUME NEW i \in 1 .. n, H[i - 1] = g[i - 1] PROVE H[i] = g[i]
    <3>1. i \in 0 .. n /\ i # 0 /\ i - 1 \in 0 .. n
      OBVIOUS
    <3>2. H[i] = h[i]
      BY <3>1
    <3>3. CASE i = 1
      <4>1. h[i] = bs[i] /\ bs[i] \in Text
        BY <1>0, <2>2, <3>3
      <4>2. e \o bs[i] = bs[i]
        BY <4>1, Cat DEF e
      <4>0. g[i] = g[i - 1] \o bs[i]
        BY <1>5
      <4>3. g[i] = g[0] \o bs[i]
        BY <3>3, <4>0
      <4> QED BY <1>5, <3>2, <4>1, <4>2, <4>3
    <3>4. CASE i # 1
      <4>1. H[i - 1] = h[i - 1]
        BY <3>1, <3>4
      <4>2. h[i] = h[i - 1] \o bs[i]
        BY <2>2, <3>4
      <4> HIDE DEF H
      <4> QED BY <1>5, <2>5, <3>2, <4>1, <4>2
    <3> QED BY <3>3, <3>4
  <2> HIDE DEF H
  <2>6. Agree(H, g, n)
    BY <2>4, <2>5, Zenon DEF Agree
  <2>7. H[n] = g[n]
    BY <2>6, IterationUnique
  <2> QED BY <1>5, <2>3, <2>4, <2>7 DEF e
<1> QED BY <1>6, <1>7

\* What is parsed of one entry of a snapshot.
LEMMA EntryRead ==
  ASSUME NEW e \in RegistryEntry, EncodeEntry(e) \in Short
  PROVE  ParseEntry(EncodeEntry(e)) = {e}
<1>1. Parsed(EntryFields, EncodeEntry(e)) = {e}
  BY EntryParsed DEF Returned
<1>2. [e EXCEPT !.identity_uuid = OrNil(e.identity_uuid)] = e
  <2>1. e.identity_uuid \in Id
    BY DEF RegistryEntry
  <2>2. Len(e.identity_uuid) = UuidWidth /\ UuidWidth # 0
    BY <2>1, EncodesId, CodecAssumption
  <2>3. OrNil(e.identity_uuid) = e.identity_uuid
    BY <2>2 DEF OrNil, NoUuid
  <2> QED BY <2>3 DEF RegistryEntry
<1> DEFINE U(r) == Returned([r EXCEPT !.identity_uuid = OrNil(r.identity_uuid)])
<1>3. ParseEntry(EncodeEntry(e)) = UNION {U(r) : r \in {e}}
  BY <1>1 DEF ParseEntry, Then
<1>4. U(e) = {e}
  BY <1>2 DEF Returned
<1> HIDE DEF U
<1> QED BY <1>3, <1>4

LEMMA SnapshotParsed ==
  ASSUME NEW es \in Content("snapshot")
  PROVE  /\ EncodeSnapshot(es) \in Text
         /\ EncodeSnapshot(es) \in Short => ParseSnapshot(EncodeSnapshot(es)) = Returned(es)
<1> DEFINE n == Len(es)
           rs == [i \in 1 .. n |-> EncodeEntry(es[i])]
           bs == [i \in 1 .. n |-> Bytes(rs[i])]
           F == [i \in 1 .. n |-> <<i, "bytes">>]
           C == << <<"count", "u32">> >>
           p == U32(n)
           d == EncodeSnapshot(es)
<1>1. n \in Nat /\ n \in Uint32 /\ es \in Seq(RegistryEntry) /\ DOMAIN es = 1 .. n
  BY DEF Content
<1>2. \A i \in 1 .. n : es[i] \in RegistryEntry
  BY <1>1
<1>3. \A i \in 1 .. n : rs[i] = EncodeEntry(es[i]) /\ rs[i] \in Text
  BY <1>2, EntryParsed
<1>4. \A i \in 1 .. n : bs[i] = Bytes(rs[i]) /\ bs[i] \in Text
  <2> HIDE DEF rs
  <2> QED BY <1>3, CarriesText DEF Carries
<1>5. bs \in Seq(Text) /\ Len(bs) = n
  <2>1. bs \in [1 .. n -> Text]
    BY <1>4
  <2>2. bs = [i \in 1 .. n |-> bs[i]]
    OBVIOUS
  <2> HIDE DEF bs, n
  <2> QED BY <1>1, <2>1, <2>2
<1>6. d = p \o FlattenSeq(bs)
  BY <1>1 DEF EncodeSnapshot
<1>7. F \in Seq({<<i, "bytes">> : i \in 1 .. n}) /\ Len(F) = n /\ \A i \in 1 .. n : F[i] = <<i, "bytes">>
  <2> HIDE DEF n
  <2> QED BY <1>1
<1>8. RecordOn(rs, 1 .. n)
  BY DEF RecordOn
<1>9. p \in Text /\ Carries("u32", p, n)
  <2> HIDE DEF n
  <2> QED BY <1>1, CarriesNumbers DEF Carries
<1> HIDE DEF n, rs, bs, F, p, d
<1>10. PICK g \in [0 .. n -> Text] :
          /\ g[0] = <<>> /\ \A i \in 1 .. n : g[i] = g[i - 1] \o bs[i]
          /\ FlattenSeq(bs) = g[n]
  BY <1>1, <1>5, Flattened
<1>11. \A i \in 0 .. n : Leading(F, i, 1 .. i, g[i], rs)
  <2> DEFINE T == {i \in 0 .. n : Leading(F, i, 1 .. i, g[i], rs)}
  <2>1. 0 \in T
    <3>1. ASSUME NEW s \in Text PROVE Reached(F, <<>> \o s, 0, {}, s, rs)
      <4>1. <<>> \o s = s
        BY Cat
      <4> QED BY <4>1, ReachedStart
    <3>2. <<>> \in Text /\ 1 .. 0 = {}
      BY DEF Text
    <3>3. Leading(F, 0, 1 .. 0, g[0], rs)
      BY <1>10, <3>1, <3>2 DEF Leading
    <3> QED BY <1>1, <3>3
  <2>2. ASSUME NEW j \in 1 .. n, j - 1 \in T PROVE j \in T
    <3> DEFINE i == j - 1
               b == g[i]
               q == bs[j]
               k == "bytes"
               D == 1 .. i
    <3>1. i \in Nat /\ j = i + 1 /\ D \cup {j} = 1 .. j
      BY <1>1
    <3>2. Leading(F, i, D, b, rs)
      BY <2>2
    <3>3. F[j] = <<j, k>> /\ Carries(k, q, rs[j])
      <4>1. Carries("bytes", Bytes(rs[j]), rs[j])
        BY <1>3, CarriesText
      <4> QED BY <1>4, <1>7, <4>1
    <3>4. g[j] = b \o q
      BY <1>10
    <3> HIDE DEF i, b, q, k, D
    <3>5. Leading(F, j, D \cup {j}, b \o q, rs)
      BY <3>1, <3>2, <3>3, LeadingNext
    <3>6. Leading(F, j, 1 .. j, g[j], rs)
      BY <3>1, <3>4, <3>5
    <3> QED BY <3>6
  <2>3. T \in SUBSET (0 .. n) /\ \A j \in 1 .. n : j - 1 \in T => j \in T
    <3>1. T \in SUBSET (0 .. n)
      OBVIOUS
    <3> HIDE DEF T
    <3> QED BY <2>2, <3>1
  <2>4. T = 0 .. n
    <3> HIDE DEF T
    <3> QED BY <1>1, <2>1, <2>3, Induction
  <2> QED BY <2>4
<1>12. g[n] \in Text /\ (g[n] \in Short => \A j \in 1 .. n : rs[j] \in Short)
  <2> DEFINE T == {i \in 0 .. n : g[i] \in Short => \A j \in 1 .. i : bs[j] \in Short}
  <2>1. 0 \in T
    BY <1>1
  <2>2. ASSUME NEW i \in 1 .. n, i - 1 \in T PROVE i \in T
    <3> DEFINE b == g[i - 1]
               q == bs[i]
    <3>1. b \in Text /\ q \in Text /\ g[i] = b \o q
      <4>1. i - 1 \in 0 .. n
        BY <1>1
      <4> QED BY <1>4, <1>10, <4>1
    <3>2. b \in Short => \A j \in 1 .. i - 1 : bs[j] \in Short
      BY <2>2
    <3> HIDE DEF b
    <3>3. b \o q \in Short => b \in Short /\ q \in Short
      <4> HIDE DEF q
      <4> QED BY <3>1, ShortParts
    <3>4. g[i] \in Short => \A j \in 1 .. i : bs[j] \in Short
      BY <3>1, <3>2, <3>3
    <3> QED BY <3>4
  <2>3. T \in SUBSET (0 .. n) /\ \A j \in 1 .. n : j - 1 \in T => j \in T
    <3>1. T \in SUBSET (0 .. n)
      OBVIOUS
    <3> HIDE DEF T
    <3> QED BY <2>2, <3>1
  <2>4. T = 0 .. n
    <3> HIDE DEF T
    <3> QED BY <1>1, <2>1, <2>3, Induction
  <2>5. g[n] \in Text /\ (g[n] \in Short => \A j \in 1 .. n : bs[j] \in Short)
    BY <1>1, <2>4
  <2> HIDE DEF T
  <2> QED BY <1>3, <1>4, <2>5, CarriesText
<1>13. d \in Text
  BY <1>6, <1>9, <1>10, <1>12, Cat
<1>14. ASSUME d \in Short PROVE ParseSnapshot(d) = Returned(es)
  <2> DEFINE t == g[n]
  <2>1. p \in Short /\ t \in Short /\ d = p \o t /\ t \in Text
    <3>1. d = p \o t /\ t \in Text
      BY <1>6, <1>10, <1>12
    <3> HIDE DEF t
    <3> QED BY <1>9, <1>14, <3>1, ShortParts
  <2>2. Decode(C, d) = [ok |-> TRUE, rest |-> t, value |-> [count |-> n]]
    <3> DEFINE m == [count |-> n]
               k == "u32"
               c == "count"
               D == {c}
               one == 1
    <3>1. m[c] = n /\ RecordOn(m, D) /\ C[1] = <<c, k>> /\ one = Len(C) /\ one \in Nat /\ C[one] = <<c, k>>
      BY DEF RecordOn
    <3>2. Carries(k, p, m[c])
      BY <1>9, <3>1
    <3> HIDE DEF t, m, k, c, C
    <3>3. Leading(C, 1, {c}, p, m)
      BY <3>1, <3>2, LeadingFirst
    <3>4. Leading(C, one, D, p, m)
      BY <3>3
    <3> HIDE DEF one, D
    <3>5. \A s \in Text : Decode(C, p \o s) = [ok |-> TRUE, rest |-> s, value |-> m]
      BY <2>1, <3>1, <3>4, LeadingEnd
    <3> QED BY <2>1, <3>5 DEF m
  <2>3. ParsedWhole(F, t) = {rs}
    <3> DEFINE D == 1 .. n
    <3>1. Leading(F, n, D, t, rs) /\ RecordOn(rs, D) /\ n = Len(F)
      BY <1>1, <1>7, <1>8, <1>11
    <3> HIDE DEF D, t
    <3> QED BY <1>1, <2>1, <3>1, LeadingEnd DEF Returned
  <2>4. \A i \in 1 .. n : ParseEntry(rs[i]) = {es[i]}
    BY <1>2, <1>3, <1>12, <2>1, EntryRead
  <2> HIDE DEF t
  <2> DEFINE W(r, k) == IF \E i \in 1 .. k : ParseEntry(r[i]) = Raised THEN Raised
                        ELSE Returned([i \in 1 .. k |-> CHOOSE e \in ParseEntry(r[i]) : TRUE])
             U(r) == W(r, n)
             h == Decode(C, d)
             P(k, s) == ParsedWhole([i \in 1 .. k |-> <<i, "bytes">>], s)
  <2>5. ParseSnapshot(d) = UNION {U(r) : r \in {rs}}
    <3>1. ParseSnapshot(d) = IF ~h.ok THEN Raised
                             ELSE UNION {W(r, h.value.count) : r \in P(h.value.count, h.rest)}
      BY DEF ParseSnapshot, Then
    <3>2. h.ok /\ h.rest = t /\ h.value.count = n
      BY <2>2
    <3>3. P(n, t) = {rs}
      BY <2>3 DEF F
    <3> HIDE DEF h, P, W
    <3> QED BY <3>1, <3>2, <3>3
  <2>6. U(rs) = Returned(es)
    <3>1. ~ \E i \in 1 .. n : ParseEntry(rs[i]) = Raised
      BY <2>4 DEF Raised
    <3>2. \A i \in 1 .. n : (CHOOSE e \in ParseEntry(rs[i]) : TRUE) = es[i]
      BY <2>4
    <3>3. es = [i \in 1 .. n |-> es[i]]
      BY <1>1
    <3> DEFINE V(i) == CHOOSE e \in ParseEntry(rs[i]) : TRUE
    <3>4. U(rs) = Returned([i \in 1 .. n |-> V(i)])
      BY <3>1
    <3> HIDE DEF V
    <3>5. \A i \in 1 .. n : V(i) = es[i]
      BY <3>2 DEF V
    <3> QED BY <3>3, <3>4, <3>5
  <2> HIDE DEF U
  <2> QED BY <2>5, <2>6
<1> QED BY <1>13, <1>14 DEF d

LEMMA StatusParsed ==
  ASSUME NEW m \in Content("status")
  PROVE  /\ EncodeStatus(m) \in Text
         /\ EncodeStatus(m) \in Short => Parsed(StatusFields, EncodeStatus(m)) = Returned(m)
<1> DEFINE F == StatusFields
           B1 == U8(m.status)
           B2 == B1 \o Bytes(m.message)
           D1 == {"status"}
           D2 == D1 \cup {"message"}
<1>1. /\ Carries("u8", U8(m.status), m["status"])
      /\ Carries("bytes", Bytes(m.message), m["message"])
  BY CarriesNumbers, CarriesText DEF Content, EncodeControl
<1>2. /\ F[1] = <<"status", "u8">>
      /\ F[2] = <<"message", "bytes">>
  BY DEF StatusFields
<1>3. RecordOn(m, D2) /\ EncodeStatus(m) = B2 /\ Len(F) = 2
  BY DEF RecordOn, EncodeStatus, StatusFields, Content, EncodeControl
<1> HIDE DEF F, B1, B2,
            D1, D2
<1>4. Leading(F, 1, D1, B1, m)
  BY <1>1, <1>2, LeadingFirst DEF B1, D1
<1>5. Leading(F, 2, D2, B2, m)
  BY <1>1, <1>2, <1>4, LeadingNext DEF B2, D2
<1>6. B2 \in Text
  BY <1>5 DEF Leading
<1>7. B2 \in Short => Parsed(F, B2) = Returned(m)
  BY <1>3, <1>5, LeadingEnd
<1> QED BY <1>3, <1>6, <1>7 DEF F

InnerForms == {"kind", "submission", "nothing", "snapshot", "status", "request", "response"}

LEMMA InnerParsed ==
  ASSUME NEW m, WellFormed(m), m.form \in InnerForms
  PROVE  /\ Inner(m) \in Text
         /\ Inner(m) \in Short => ParseInner(m, Inner(m)) = Returned(m.value)
<1>0. m.value \in Content(m.form)
  BY DEF WellFormed
<1>1. CASE m.form = "kind"
  <2> DEFINE k == m.value
  <2>1. k \in Kinds /\ k \in Byte
    <3>1. k \in Kinds
      BY <1>0, <1>1 DEF Content
    <3> QED BY <3>1, WireAssumption, CodecAssumption DEF Kinds, Byte
  <2>2. Inner(m) = <<k>> /\ Inner(m) \in Text
    <3>1. Inner(m) = U8(k)
      BY <1>1 DEF Inner
    <3> HIDE DEF k
    <3> QED BY <2>1, <3>1, EncodesU8 DEF Encodes
  <2>3. <<k>> # <<>> /\ <<k>>[1] = k
    OBVIOUS
  <2> HIDE DEF k
  <2>4. ParseInner(m, <<k>>) = Returned(k)
    BY <1>1, <2>1, <2>3 DEF ParseInner
  <2> QED BY <2>2, <2>4 DEF k
<1>2. CASE m.form = "submission"
  <2>1. Inner(m) = EncodeSubmission(m.value)
    BY <1>2 DEF Inner
  <2>2. \A b : ParseInner(m, b) = ParseSubmission(b)
    BY <1>2 DEF ParseInner
  <2> QED BY <1>0, <1>2, <2>1, <2>2, SubmissionParsed
<1>3. CASE m.form = "nothing"
  <2>1. Inner(m) = <<>> /\ <<>> \in Text
    BY <1>3 DEF Inner, Text
  <2>2. \A b : ParseInner(m, b) = Returned(<<>>)
    BY <1>3 DEF ParseInner
  <2>3. m.value = <<>>
    BY <1>0, <1>3 DEF Content
  <2> QED BY <2>1, <2>2, <2>3
<1>4. CASE m.form = "snapshot"
  <2>1. Inner(m) = EncodeSnapshot(m.value)
    BY <1>4 DEF Inner
  <2>2. \A b : ParseInner(m, b) = ParseSnapshot(b)
    BY <1>4 DEF ParseInner
  <2> QED BY <1>0, <1>4, <2>1, <2>2, SnapshotParsed
<1>5. CASE m.form = "status"
  <2>1. Inner(m) = EncodeStatus(m.value)
    BY <1>5 DEF Inner
  <2>2. \A b : ParseInner(m, b) = Parsed(StatusFields, b)
    BY <1>5 DEF ParseInner
  <2> QED BY <1>0, <1>5, <2>1, <2>2, StatusParsed
<1>6. CASE m.form = "request"
  <2>1. Inner(m) = EncodeRequest(m.value)
    BY <1>6 DEF Inner
  <2>2. \A b : ParseInner(m, b) = Parsed(RequestFields, b)
    BY <1>6 DEF ParseInner
  <2> QED BY <1>0, <1>6, <2>1, <2>2, RequestParsed
<1>7. CASE m.form = "response"
  <2>1. Inner(m) = EncodeResponse(m.value)
    BY <1>7 DEF Inner
  <2>2. \A b : ParseInner(m, b) = Parsed(ResponseFields, b)
    BY <1>7 DEF ParseInner
  <2> QED BY <1>0, <1>7, <2>1, <2>2, ResponseParsed
<1> QED BY <1>1, <1>2, <1>3, <1>4, <1>5, <1>6, <1>7 DEF InnerForms

-------------------------------------------------------------------------------
\* Sealing and opening.

LEMMA Parties ==
  ASSUME NEW m
  PROVE  Sender(m) \in Party /\ Recipient(m) \in Party
BY WireAssumption DEF Sender, Recipient

LEMMA EncryptShort ==
  ASSUME NEW key \in Byte, NEW nonce \in Text, NEW aad \in Text, NEW text \in Text,
         Encrypt(key, nonce, aad, text) \in Short
  PROVE  text \in Short
<1> DEFINE masked == Masked(key, text)
           known  == <<key>> \o nonce \o aad \o text
           tag    == Checksum(known)
<1>1. masked \in Text /\ Len(masked) = Len(text)
  BY MaskedText
<1>2. known \in Text
  BY DEF Text
<1>3. Encrypt(key, nonce, aad, text) = masked \o tag
  BY DEF Encrypt, Masked
<1> HIDE DEF masked, known
<1>4. tag \in Text
  BY <1>2, ChecksumText
<1> HIDE DEF tag
<1>5. masked \in Short
  BY <1>1, <1>3, <1>4, ShortParts
<1> QED BY <1>1, <1>5 DEF Short

\* Both ends compute the same secret.
LEMMA Exchanged ==
  ASSUME NEW a \in Byte, NEW b \in Byte
  PROVE  Exchange(a, Public(b)) \in Byte /\ Exchange(b, Public(a)) = Exchange(a, Public(b))
<1>1. Public(a)[1] = a /\ Public(b)[1] = b
  BY DEF Public
<1>2. (a + b) % Base \in Byte /\ b + a = a + b
  BY CodecAssumption DEF Byte
<1> QED BY <1>1, <1>2 DEF Exchange

LEMMA ByteText ==
  ASSUME NEW a \in Byte
  PROVE  <<a>> \in Text /\ Len(<<a>>) = 1 /\ Public(a) \in Text
BY DEF Text, Public

\* The associated data depends on these fields only.
LEMMA AadText ==
  ASSUME NEW e, e.sender_uuid \in Id, e.recipient_uuid \in Id, e.request_id \in Id,
         e.sender_credential_version \in Uint32, e.timestamp \in Int64, e.nonce \in Nonce,
         NEW index \in Uint64
  PROVE  BuildAad(e, index) \in Text
<1> DEFINE F1 == Bytes(AadTag)
           F2 == Uuid(e.sender_uuid)
           F3 == Uuid(e.recipient_uuid)
           F4 == Uuid(e.request_id)
           F5 == U32(e.sender_credential_version)
           F6 == I64(e.timestamp)
           F7 == Bytes(e.nonce)
           F8 == U64(index)
           B2 == F1 \o F2
           B3 == B2 \o F3
           B4 == B3 \o F4
           B5 == B4 \o F5
           B6 == B5 \o F6
           B7 == B6 \o F7
           B8 == B7 \o F8
<1>1. AadTag \in Text /\ e.nonce \in Text
  <2>1. 2 \in Byte
    BY WireAssumption, CodecAssumption DEF Byte
  <2> QED BY <2>1, ByteText, EncodesId DEF AadTag, Encodes
<1>2. F1 \in Text /\ F7 \in Text
  BY <1>1, CarriesText DEF Carries
<1>3. F2 \in Text /\ F3 \in Text /\ F4 \in Text /\ F5 \in Text /\ F6 \in Text /\ F8 \in Text
  BY CarriesNumbers DEF Carries
<1>4. BuildAad(e, index) = B8
  BY DEF BuildAad
<1> HIDE DEF F1, F2, F3, F4, F5, F6, F7, F8, B2, B3, B4, B5, B6, B7, B8
<1>5. B2 \in Text
  BY <1>2, <1>3, CatLength DEF B2
<1>6. B3 \in Text
  BY <1>3, <1>5, CatLength DEF B3
<1>7. B4 \in Text
  BY <1>3, <1>6, CatLength DEF B4
<1>8. B5 \in Text
  BY <1>3, <1>7, CatLength DEF B5
<1>9. B6 \in Text
  BY <1>3, <1>8, CatLength DEF B6
<1>10. B7 \in Text
  BY <1>2, <1>9, CatLength DEF B7
<1>11. B8 \in Text
  BY <1>3, <1>10, CatLength DEF B8
<1> QED BY <1>4, <1>11

Aad(m, index) == BuildAad(Header(m), index)

LEMMA HeaderAad ==
  ASSUME NEW m, WellFormed(m), NEW index \in Uint64
  PROVE  Aad(m, index) \in Text
<1>1. Sender(m).uuid \in Id /\ Sender(m).version \in Uint32 /\ Recipient(m).uuid \in Id
  BY Parties DEF Party
<1> DEFINE e == Header(m)
<1>2. /\ e.sender_uuid \in Id /\ e.recipient_uuid \in Id /\ e.request_id \in Id
      /\ e.sender_credential_version \in Uint32 /\ e.timestamp \in Int64 /\ e.nonce \in Nonce
  BY <1>1 DEF Header, WellFormed
<1> HIDE DEF e
<1> QED BY <1>2, AadText DEF e, Aad

\* What one end seals, the other opens, given the same header.
LEMMA MessageOpened ==
  ASSUME NEW m, WellFormed(m), m.form \in InnerForms
  PROVE  /\ SealedMessage(m) \in Text
         /\ SealedMessage(m) \in Short =>
              \A e : e.payload = SealedMessage(m) /\ BuildAad(e, 0) = Aad(m, 0) =>
                Then(Opened(m, e), LAMBDA text : ParseInner(m, text)) = Returned(m.value)
<1> DEFINE x == Recipient(m).x25519
           key == Exchange(m.ephemeral, Public(x))
           aad == Aad(m, 0)
           text == Inner(m)
           c == Encrypt(key, m.nonce, aad, text)
           w == [version |-> Recipient(m).version, ephemeral |-> Public(m.ephemeral),
                 nonce |-> m.nonce, ciphertext |-> c]
           d == SealedMessage(m)
<1>1. /\ m.ephemeral \in Byte /\ m.nonce \in Text /\ x \in Byte
      /\ Recipient(m).version \in Uint32
  <2>1. m.ephemeral \in Byte /\ m.nonce \in Nonce
    BY DEF WellFormed
  <2>2. Recipient(m) \in Party
    BY Parties
  <2> QED BY <2>1, <2>2, EncodesId DEF Party, Encodes
<1>2. key \in Byte /\ Exchange(x, Public(m.ephemeral)) = key /\ Public(m.ephemeral) \in Text
  <2> HIDE DEF x
  <2> QED BY <1>1, Exchanged, ByteText
<1>3. aad \in Text
  <2>1. 0 \in Uint64
    <3>1. Power(LongWidth) \in Nat \ {0}
      BY PowerSteps, CodecAssumption
    <3> QED BY <3>1 DEF Uint64
  <2> QED BY <2>1, HeaderAad
<1>4. text \in Text /\ (text \in Short => ParseInner(m, text) = Returned(m.value))
  BY InnerParsed
<1>5. d = WrapEncrypted(w)
  BY DEF SealedMessage, SealMessage, Aad
<1> HIDE DEF key, aad, text, x
<1>6. c \in Text
  BY <1>1, <1>2, <1>3, <1>4, EncryptText
<1>7. Decrypt(key, m.nonce, aad, c) = Returned(text)
  BY <1>1, <1>2, <1>3, <1>4, Decrypted
<1>8. c \in Short => text \in Short
  BY <1>1, <1>2, <1>3, <1>4, EncryptShort
<1> HIDE DEF c
<1>9. w \in Encrypted
  BY <1>1, <1>2, <1>6 DEF Encrypted
<1> HIDE DEF d
<1>10. d \in Text /\ (d \in Short => ParsedWhole(EncryptedFields, d) = Returned(w))
  <2> HIDE DEF w
  <2> QED BY <1>5, <1>9, EncryptedParsed
<1>11. ASSUME d \in Short PROVE c \in Short
  <2> DEFINE z == Bytes(c)
             y == U32(w.version) \o Bytes(w.ephemeral) \o Bytes(w.nonce)
  <2>1. d = y \o z
    BY <1>5 DEF WrapEncrypted
  <2>2. y \in Text /\ z \in Text
    <3>1. w.version \in Uint32 /\ w.ephemeral \in Text /\ w.nonce \in Text
      BY <1>1, <1>2
    <3> HIDE DEF w
    <3>2. U32(w.version) \in Text /\ Bytes(w.ephemeral) \in Text /\ Bytes(w.nonce) \in Text
            /\ Bytes(c) \in Text
      BY <1>6, <3>1, CarriesNumbers, CarriesText DEF Carries
    <3>3. U32(w.version) \o Bytes(w.ephemeral) \in Text
      BY <3>2, Cat
    <3> QED BY <3>2, <3>3, Cat
  <2> HIDE DEF y, z
  <2>3. z \in Short
    BY <1>11, <2>1, <2>2, ShortParts
  <2> QED BY <1>6, <2>3, CarriesText DEF z
<1>12. ASSUME d \in Short, NEW e, e.payload = d, BuildAad(e, 0) = aad
       PROVE  Then(Opened(m, e), LAMBDA t : ParseInner(m, t)) = Returned(m.value)
  <2> DEFINE U(r) == OpenMessage(x, r.ephemeral, r.nonce, BuildAad(e, 0), r.ciphertext)
  <2>1. Opened(m, e) = UNION {U(r) : r \in {w}}
    BY <1>10, <1>12 DEF Opened, Then, Returned, x
  <2>2. U(w) = {text}
    BY <1>2, <1>7, <1>12 DEF OpenMessage, Returned
  <2> HIDE DEF U, w
  <2>3. Opened(m, e) = {text}
    BY <2>1, <2>2
  <2>4. ParseInner(m, text) = Returned(m.value)
    BY <1>4, <1>8, <1>11, <1>12
  <2> DEFINE V(t) == ParseInner(m, t)
  <2>5. Then(Opened(m, e), LAMBDA t : ParseInner(m, t)) = UNION {V(t) : t \in {text}}
    BY <2>3 DEF Then
  <2>6. V(text) = Returned(m.value)
    BY <2>4
  <2> HIDE DEF V
  <2>7. UNION {V(t) : t \in {text}} = Returned(m.value)
    BY <2>6
  <2> QED BY <2>5, <2>7
<1> QED BY <1>10, <1>12 DEF d, aad

LEMMA ChunkOpened ==
  ASSUME NEW m, WellFormed(m), IsChunk(m)
  PROVE  /\ SealedChunk(m) \in Text
         /\ SealedChunk(m) \in Short =>
              \A e : e.payload = SealedChunk(m)
                       /\ BuildAad(e, m.value.index) = Aad(m, m.value.index) =>
                OpenedChunk(m, e) = Returned(m.value)
<1> DEFINE x == Recipient(m).x25519
           o == m.value.object_uuid
           n == m.value.index
           secret == Exchange(m.ephemeral, Public(x))
           key == ObjectKey(secret, o)
           nonce == ChunkNonce(n)
           aad == Aad(m, n)
           text == m.value.data
           c == Encrypt(key, nonce, aad, text)
           w == [version |-> Recipient(m).version, object_uuid |-> o, index |-> n,
                 ephemeral |-> Public(m.ephemeral), ciphertext |-> c]
           d == SealedChunk(m)
<1>0. m.value \in Chunk
  BY DEF WellFormed, IsChunk, Content
<1>1. /\ m.ephemeral \in Byte /\ x \in Byte /\ Recipient(m).version \in Uint32
      /\ o \in Id /\ n \in Uint64 /\ text \in Text
      /\ m.value = [object_uuid |-> o, index |-> n, data |-> text]
  <2>1. m.ephemeral \in Byte
    BY DEF WellFormed
  <2>2. Recipient(m) \in Party
    BY Parties
  <2> QED BY <1>0, <2>1, <2>2 DEF Party, Chunk
<1>2. /\ secret \in Byte /\ Exchange(x, Public(m.ephemeral)) = secret
      /\ Public(m.ephemeral) \in Text
  <2> HIDE DEF x
  <2> QED BY <1>1, Exchanged, ByteText
<1>3. aad \in Text
  <2> HIDE DEF n
  <2> QED BY <1>1, HeaderAad
<1>4. nonce \in Text
  <2>1. n \in Nat
    <3>1. Power(LongWidth) \in Nat \ {0}
      BY PowerSteps, CodecAssumption
    <3> QED BY <1>1, <3>1 DEF Uint64
  <2> HIDE DEF n
  <2> QED BY <2>1, DigitsAnyText, CodecAssumption DEF ChunkNonce
<1>5. d = WrapChunk(w)
  BY DEF SealedChunk, SealChunk, Aad
<1> HIDE DEF secret, aad, nonce, text, x, o, n
<1>6. key \in Byte
  <2>1. o \in Text /\ <<secret>> \in Text
    BY <1>1, <1>2, EncodesId, ByteText DEF Encodes
  <2>2. <<secret>> \o o \in Text
    BY <2>1, Cat
  <2> QED BY <2>2, ChecksumText DEF ObjectKey
<1> HIDE DEF key
<1>7. c \in Text
  BY <1>1, <1>3, <1>4, <1>6, EncryptText
<1>8. Decrypt(key, nonce, aad, c) = Returned(text)
  BY <1>1, <1>3, <1>4, <1>6, Decrypted
<1> HIDE DEF c
<1>9. w \in WrappedChunk
  BY <1>1, <1>2, <1>7 DEF WrappedChunk
<1> HIDE DEF d
<1>10. d \in Text /\ (d \in Short => ParsedWhole(ChunkFields, d) = Returned(w))
  <2> HIDE DEF w
  <2> QED BY <1>5, <1>9, ChunkParsed
<1>11. OrNil(o) = o
  <2>1. Len(o) = UuidWidth /\ UuidWidth # 0
    BY <1>1, EncodesId, CodecAssumption
  <2> QED BY <2>1 DEF OrNil, NoUuid
<1>12. d \in Short => UnwrapChunk(d) = {w}
  <2> DEFINE U(r) == Returned([r EXCEPT !.object_uuid = OrNil(@)])
  <2>1. d \in Short => UnwrapChunk(d) = UNION {U(r) : r \in {w}}
    BY <1>10 DEF UnwrapChunk, Then, Returned
  <2>2. U(w) = {w}
    BY <1>11 DEF Returned
  <2> HIDE DEF U, w
  <2> QED BY <2>1, <2>2
<1>13. ASSUME d \in Short, NEW e, e.payload = d, BuildAad(e, n) = aad
       PROVE  OpenedChunk(m, e) = Returned(m.value)
  <2> DEFINE T(r) == OpenChunk(x, r.ephemeral, r.object_uuid, r.index, BuildAad(e, r.index),
                               r.ciphertext)
             V(r, t) == Returned([object_uuid |-> r.object_uuid, index |-> r.index, data |-> t])
             U(r) == UNION {V(r, t) : t \in T(r)}
  <2>1. OpenedChunk(m, e) = UNION {U(r) : r \in {w}}
    BY <1>12, <1>13 DEF OpenedChunk, Then, x
  <2>2. T(w) = {text}
    BY <1>2, <1>8, <1>13 DEF OpenChunk, Returned, key, nonce
  <2>3. V(w, text) = Returned(m.value)
    BY <1>1
  <2> HIDE DEF T, V, w
  <2>4. U(w) = Returned(m.value)
    BY <2>2, <2>3
  <2> HIDE DEF U
  <2> QED BY <2>1, <2>4
<1> QED BY <1>10, <1>13 DEF d, aad, n

-------------------------------------------------------------------------------
\* Whole messages.

Payload(m) == IF IsChunk(m) THEN SealedChunk(m) ELSE SealedMessage(m)

Enveloped(m) == m.form \in InnerForms \/ IsChunk(m)

LEMMA PayloadText ==
  ASSUME NEW m, WellFormed(m), Enveloped(m)
  PROVE  Payload(m) \in Text
<1>1. CASE IsChunk(m)
  BY <1>1, ChunkOpened DEF Payload
<1>2. CASE ~IsChunk(m)
  BY <1>2, MessageOpened DEF Payload, Enveloped
<1> QED BY <1>1, <1>2

\* The envelope with its fields spelt out.
LEMMA EnvelopeIs ==
  ASSUME NEW m, WellFormed(m), Enveloped(m)
  PROVE  LET h == Header(m)
             e == Envelope(m)
         IN  /\ e \in SignedEnvelope
             /\ e.payload = Payload(m) /\ e.msg_type = h.msg_type
             /\ e.sender_uuid = h.sender_uuid /\ e.recipient_uuid = h.recipient_uuid
             /\ e.request_id = h.request_id /\ e.timestamp = h.timestamp /\ e.nonce = h.nonce
             /\ e.sender_credential_version = h.sender_credential_version
             /\ e.signature = Sign(Sender(m).ed25519, SignedBytes(e))
<1> DEFINE h == Header(m)
           p == Payload(m)
           u == With(h, "payload", p)
           s == Sign(Sender(m).ed25519, SignedBytes(u))
           e == [version |-> h.version, msg_type |-> h.msg_type, sender_uuid |-> h.sender_uuid,
                 recipient_uuid |-> h.recipient_uuid, request_id |-> h.request_id,
                 sender_credential_version |-> h.sender_credential_version,
                 timestamp |-> h.timestamp, nonce |-> h.nonce, payload |-> p, signature |-> s]
           z == [version |-> h.version, msg_type |-> h.msg_type, sender_uuid |-> h.sender_uuid,
                 recipient_uuid |-> h.recipient_uuid, request_id |-> h.request_id,
                 sender_credential_version |-> h.sender_credential_version,
                 timestamp |-> h.timestamp, nonce |-> h.nonce, payload |-> p]
<1>1. Envelope(m) = With(u, "signature", s)
  BY DEF Envelope, Payload
<1>2. h = [version |-> h.version, msg_type |-> h.msg_type, sender_uuid |-> h.sender_uuid,
           recipient_uuid |-> h.recipient_uuid, request_id |-> h.request_id,
           sender_credential_version |-> h.sender_credential_version,
           timestamp |-> h.timestamp, nonce |-> h.nonce]
  BY DEF Header
<1>3. /\ h.version = EnvelopeVersion /\ h.msg_type \in Byte /\ h.sender_uuid \in Id
      /\ h.recipient_uuid \in Id /\ h.request_id \in Id
      /\ h.sender_credential_version \in Uint32 /\ h.timestamp \in Int64 /\ h.nonce \in Nonce
  <2>1. /\ Sender(m).uuid \in Id /\ Sender(m).version \in Uint32 /\ Recipient(m).uuid \in Id
    BY Parties DEF Party
  <2>2. MsgType(m) \in Byte
    BY WireAssumption, CodecAssumption DEF MsgType, OBJ_CHUNK, REQUEST, CONTROL, Byte
  <2> QED BY <2>1, <2>2 DEF Header, WellFormed
<1>4. p \in Text
  BY PayloadText
<1> HIDE DEF h, p, s
<1>5. u = z
  <2>1. DOMAIN u = {"version", "msg_type", "sender_uuid", "recipient_uuid", "request_id",
                    "sender_credential_version", "timestamp", "nonce", "payload"}
    BY <1>2 DEF With
  <2>2. /\ u["version"] = h.version /\ u["msg_type"] = h.msg_type
        /\ u["sender_uuid"] = h.sender_uuid /\ u["recipient_uuid"] = h.recipient_uuid
        /\ u["request_id"] = h.request_id
        /\ u["sender_credential_version"] = h.sender_credential_version
        /\ u["timestamp"] = h.timestamp /\ u["nonce"] = h.nonce /\ u["payload"] = p
    BY <1>2 DEF With
  <2>3. u = [x \in DOMAIN u |-> u[x]]
    BY DEF With
  <2> HIDE DEF u
  <2> QED BY <2>1, <2>2, <2>3
<1>6. With(z, "signature", s) = e
  <2> DEFINE y == With(z, "signature", s)
  <2>1. DOMAIN y = {"version", "msg_type", "sender_uuid", "recipient_uuid", "request_id",
                    "sender_credential_version", "timestamp", "nonce", "payload", "signature"}
    BY DEF With
  <2>2. /\ y["version"] = h.version /\ y["msg_type"] = h.msg_type
        /\ y["sender_uuid"] = h.sender_uuid /\ y["recipient_uuid"] = h.recipient_uuid
        /\ y["request_id"] = h.request_id
        /\ y["sender_credential_version"] = h.sender_credential_version
        /\ y["timestamp"] = h.timestamp /\ y["nonce"] = h.nonce /\ y["payload"] = p
        /\ y["signature"] = s
    BY DEF With
  <2>3. y = [x \in DOMAIN y |-> y[x]]
    BY DEF With
  <2> HIDE DEF y
  <2> QED BY <2>1, <2>2, <2>3 DEF y
<1>7. SignedBytes(u) = SignedBytes(e)
  <2>1. SignedBytes(z) = SignedBytes(e)
    BY DEF SignedBytes, PackHeader
  <2> HIDE DEF u, z
  <2> QED BY <1>5, <2>1
<1>8. SignedBytes(e) \in Text
  <2> DEFINE f == [e EXCEPT !.signature = [i \in 1 .. SignatureSize |-> 0]]
  <2>1. f \in SignedEnvelope
    <3>1. [i \in 1 .. SignatureSize |-> 0] \in [1 .. SignatureSize -> Byte]
      BY CodecAssumption DEF Byte
    <3> HIDE DEF u, z
    <3> QED BY <1>3, <1>4, <3>1 DEF SignedEnvelope
  <2>2. SignedBytes(f) = SignedBytes(e)
    <3> HIDE DEF u, z
    <3> QED BY DEF SignedBytes, PackHeader
  <2> HIDE DEF e, f
  <2>3. SignedBytes(f) \in Text
    BY <2>1, EnvelopeParts DEF SignedBytes
  <2> QED BY <2>2, <2>3
<1>9. s = Sign(Sender(m).ed25519, SignedBytes(e))
  <2> HIDE DEF e, u
  <2> QED BY <1>7 DEF s
<1>10. s \in [1 .. SignatureSize -> Byte]
  <2> DEFINE k == Sender(m).ed25519
             b == SignedBytes(e)
  <2>1. k \in Byte
    BY Parties DEF Party
  <2>2. b \in Text
    BY <1>8
  <2> HIDE DEF k, b, e
  <2>3. <<k>> \o b \in Text
    BY <2>1, <2>2, ByteText, Cat
  <2>4. s \in Text /\ Len(s) = 1
    BY <1>9, <2>3, ChecksumText DEF Sign, k, b
  <2> QED BY <2>4 DEF SignatureSize, Text
<1>11. Envelope(m) = e
  <2> HIDE DEF u, z, e
  <2> QED BY <1>1, <1>5, <1>6
<1>12. e \in SignedEnvelope
  <2> HIDE DEF u, z
  <2> QED BY <1>3, <1>4, <1>10 DEF SignedEnvelope
<1>13. /\ e.payload = p /\ e.msg_type = h.msg_type
       /\ e.sender_uuid = h.sender_uuid /\ e.recipient_uuid = h.recipient_uuid
       /\ e.request_id = h.request_id /\ e.timestamp = h.timestamp /\ e.nonce = h.nonce
       /\ e.sender_credential_version = h.sender_credential_version
       /\ e.signature = s
  OBVIOUS
<1> HIDE DEF e
<1> QED BY <1>9, <1>11, <1>12, <1>13 DEF h, p

\* What a receiver reads of an envelope is what its sender put into it.
LEMMA EnvelopeRead ==
  ASSUME NEW m, WellFormed(m), Enveloped(m), EncodeEnvelope(Envelope(m)) \in Short
  PROVE  ReadEnvelope(m, EncodeEnvelope(Envelope(m))) = Returned(m.value)
<1> DEFINE e == Envelope(m)
           h == Header(m)
           d == EncodeEnvelope(e)
<1>1. /\ e \in SignedEnvelope
      /\ e.payload = Payload(m) /\ e.msg_type = h.msg_type
      /\ e.sender_uuid = h.sender_uuid /\ e.recipient_uuid = h.recipient_uuid
      /\ e.request_id = h.request_id /\ e.timestamp = h.timestamp /\ e.nonce = h.nonce
      /\ e.sender_credential_version = h.sender_credential_version
      /\ e.signature = Sign(Sender(m).ed25519, SignedBytes(e))
  BY EnvelopeIs
<1> HIDE DEF e
<1>2. ParseEnvelope(d) = {e} /\ e.payload \in Short
  <2>1. ParseEnvelope(d) = Returned(e)
    BY <1>1, EnvelopeParsed DEF e
  <2>2. e.payload \in Short
    BY <1>1, EnvelopeParts DEF e
  <2> QED BY <2>1, <2>2 DEF Returned
<1>3. Authentic(m, e)
  BY <1>1 DEF Authentic, Header, Sender
<1>4. \A i : BuildAad(e, i) = Aad(m, i)
  <2> HIDE DEF h
  <2> QED BY <1>1 DEF BuildAad, Aad, h
<1>5. e.msg_type = MsgType(m)
  BY <1>1 DEF Header
<1> HIDE DEF d, h
<1> DEFINE V(r, t) == ParseInner(m, t)
           U(r) == IF ~Authentic(m, r) THEN Raised
                   ELSE IF m.form \in {"request", "chunk", "chunk_reply"}
                           /\ r.msg_type = OBJ_CHUNK
                   THEN OpenedChunk(m, r)
                   ELSE Then(Opened(m, r), LAMBDA text : ParseInner(m, text))
<1>6. ReadEnvelope(m, d) = UNION {U(r) : r \in {e}}
  BY <1>2 DEF ReadEnvelope, Then
<1>7. U(e) = Returned(m.value)
  <2>1. CASE IsChunk(m)
    <3>1. e.msg_type = OBJ_CHUNK /\ m.form \in {"request", "chunk", "chunk_reply"}
      BY <1>5, <2>1 DEF MsgType, IsChunk
    <3>2. e.payload = SealedChunk(m)
      BY <1>1, <2>1 DEF Payload
    <3>3. OpenedChunk(m, e) = Returned(m.value)
      BY <1>2, <1>4, <2>1, <3>2, ChunkOpened
    <3> QED BY <1>3, <3>1, <3>3
  <2>2. CASE ~IsChunk(m)
    <3>1. e.msg_type # OBJ_CHUNK
      BY <1>5, <2>2 DEF MsgType, OBJ_CHUNK, REQUEST, CONTROL
    <3>2. e.payload = SealedMessage(m) /\ m.form \in InnerForms
      BY <1>1, <2>2 DEF Payload, Enveloped
    <3>3. Then(Opened(m, e), LAMBDA text : ParseInner(m, text)) = Returned(m.value)
      BY <1>2, <1>4, <3>2, MessageOpened
    <3>4. U(e) = Then(Opened(m, e), LAMBDA text : ParseInner(m, text))
      BY <1>3, <3>1
    <3> HIDE DEF U
    <3> QED BY <3>3, <3>4
  <2> QED BY <2>1, <2>2
<1> HIDE DEF U
<1>8. ReadEnvelope(m, d) = Returned(m.value)
  BY <1>6, <1>7
<1> QED BY <1>8 DEF d, e

LEMMA Bodies ==
  ASSUME NEW m, WellFormed(m)
  PROVE  /\ Body(m) \in Text
         /\ Body(m) \in Short => ReadBody(m, Body(m)) = Returned(m.value)
         /\ \A c \in Text, u \in Text :
              Enveloped(m) /\ Body(m) \in Short /\ u # <<>> /\ c \o u = Body(m) =>
                ReadBody(m, c) = Raised
<1>0. m.value \in Content(m.form) /\ m.form \in Forms
  BY DEF WellFormed
<1>1. CASE m.form = "enroll"
  <2>1. Body(m) = EncodeEnrollment(m.value)
    BY <1>1 DEF Body
  <2> DEFINE v == m.value
             d == EncodeEnrollment(v)
             U(r) == IF r.kind \in Kinds THEN Returned(r) ELSE Raised
  <2>2. v \in Content("enroll")
    BY <1>0, <1>1
  <2>3. v.kind \in Kinds
    BY <2>2 DEF Content
  <2> HIDE DEF v
  <2>4. d \in Text /\ (d \in Short => Parsed(EnrollmentFields, d) = {v})
    BY <2>2, EnrollmentParsed DEF Returned
  <2> HIDE DEF d
  <2>5. ASSUME d \in Short PROVE ParseEnrollment(d) = Returned(v)
    <3>1. ParseEnrollment(d) = UNION {U(r) : r \in {v}}
      BY <2>4, <2>5 DEF ParseEnrollment, Then
    <3>2. U(v) = Returned(v)
      BY <2>3
    <3> HIDE DEF U
    <3> QED BY <3>1, <3>2
  <2>6. ReadBody(m, d) = ParseEnrollment(d)
    BY <1>1 DEF ReadBody
  <2>7. ~Enveloped(m)
    BY <1>1 DEF Enveloped, InnerForms, IsChunk
  <2> QED BY <2>1, <2>4, <2>5, <2>6, <2>7 DEF d, v
<1>2. CASE m.form = "enrolled"
  <2> DEFINE v == m.value
             d == EncodeEnrollResponse(v)
  <2>1. Body(m) = d
    BY <1>2 DEF Body
  <2>2. v \in Content("enrolled")
    BY <1>0, <1>2
  <2> HIDE DEF v
  <2>3. d \in Text /\ (d \in Short => ParseEnrollResponse(d) = Returned(v))
    BY <2>2, EnrolledParsed
  <2> HIDE DEF d
  <2>4. ReadBody(m, d) = ParseEnrollResponse(d)
    BY <1>2 DEF ReadBody
  <2>5. ~Enveloped(m)
    BY <1>2 DEF Enveloped, InnerForms, IsChunk
  <2> QED BY <2>1, <2>3, <2>4, <2>5 DEF v
<1>3. CASE m.form \notin {"enroll", "enrolled"}
  <2> DEFINE e == Envelope(m)
             d == EncodeEnvelope(e)
  <2>1. Enveloped(m)
    BY <1>0, <1>3 DEF Enveloped, InnerForms, IsChunk, Forms
  <2>2. Body(m) = d /\ \A b : ReadBody(m, b) = ReadEnvelope(m, b)
    BY <1>3 DEF Body, ReadBody
  <2>3. d \in Short => ReadEnvelope(m, d) = Returned(m.value)
    BY <2>1, EnvelopeRead
  <2>4. e \in SignedEnvelope
    BY <2>1, EnvelopeIs
  <2> HIDE DEF e
  <2>5. d \in Text
    BY <2>4, EnvelopeParts
  <2>6. ASSUME NEW c \in Text, NEW u \in Text, d \in Short, u # <<>>, c \o u = d
        PROVE  ReadEnvelope(m, c) = Raised
    <3>1. ParseEnvelope(c) = {}
      BY <2>4, <2>6, EnvelopeCut DEF Raised
    <3> QED BY <3>1 DEF ReadEnvelope, Then, Raised
  <2> HIDE DEF d
  <2> QED BY <2>2, <2>3, <2>5, <2>6
<1> QED BY <1>1, <1>2, <1>3

LEMMA CarriedShort ==
  ASSUME NEW f, Sendable(f), f.payload \in Text
  PROVE  f.payload \in Short
<1>1. Len(f.payload) \in Nat
  BY Cat
<1>2. Power(IntWidth) \in Nat \ {0}
  BY PowerSteps, CodecAssumption
<1> QED BY <1>1, <1>2, FramingAssumption DEF Sendable, Short, Uint32

\* A message is read as it was sent, and nothing is read of one whose end is
\* missing.
LEMMA MessageRead ==
  ASSUME NEW m \in Samples, Sendable(Carried(m))
  PROVE  /\ Understood(m, Carried(m)) = Returned(m.value)
         /\ \A c \in Text, u \in Text : u # <<>> /\ c \o u = Carried(m).payload =>
              Understood(m, [channel |-> Carried(m).channel, payload |-> c]) = Raised
<1> DEFINE f == Carried(m)
           b == Body(m)
<1>1. WellFormed(m)
  BY WireAssumption
<1>2. /\ b \in Text /\ (b \in Short => ReadBody(m, b) = Returned(m.value))
      /\ \A c \in Text, u \in Text :
           Enveloped(m) /\ b \in Short /\ u # <<>> /\ c \o u = b => ReadBody(m, c) = Raised
  BY <1>1, Bodies
<1>3. CASE IsRelayed(m)
  <2>1. f = [channel |-> CHANNEL_RELAY, payload |-> b]
    BY <1>3 DEF Carried
  <2> HIDE DEF b, f
  <2>2. b \in Short
    BY <1>2, <2>1, CarriedShort DEF f
  <2>3. Enveloped(m)
    BY <1>3 DEF IsRelayed, Enveloped, InnerForms
  <2>4. \A c : Understood(m, [channel |-> CHANNEL_RELAY, payload |-> c]) = ReadBody(m, c)
    BY <1>3 DEF Understood
  <2>5. f.channel = CHANNEL_RELAY /\ f.payload = b /\ Understood(m, f) = ReadBody(m, b)
    BY <2>1, <2>4
  <2>6. ReadBody(m, b) = Returned(m.value)
    BY <1>2, <2>2
  <2>7. ASSUME NEW c \in Text, NEW u \in Text, u # <<>>, c \o u = b
        PROVE  ReadBody(m, c) = Raised
    BY <1>2, <2>2, <2>3, <2>7
  <2>8. ASSUME NEW c \in Text, NEW u \in Text, u # <<>>, c \o u = f.payload
        PROVE  Understood(m, [channel |-> f.channel, payload |-> c]) = Raised
    BY <2>4, <2>5, <2>7, <2>8
  <2>9. Understood(m, f) = Returned(m.value)
    BY <2>5, <2>6
  <2> QED BY <2>8, <2>9 DEF f
<1>4. CASE ~IsRelayed(m)
  <2> DEFINE k == [ctype |-> m.ctype, body |-> b]
             d == EncodeControl(k)
             U(r) == IF r.ctype # m.ctype THEN Raised ELSE ReadBody(m, r.body)
  <2>1. f = [channel |-> CHANNEL_CONTROL, payload |-> d]
    BY <1>4 DEF Carried
  <2> HIDE DEF b, f
  <2>2. k \in [ctype : Byte, body : Text]
    BY <1>1, <1>2, <1>4 DEF WellFormed
  <2>3. \A c : Understood(m, [channel |-> CHANNEL_CONTROL, payload |-> c])
                 = UNION {U(r) : r \in Parsed(ControlFields, c)}
    BY <1>4 DEF Understood, Then
  <2>4. U(k) = ReadBody(m, b)
    OBVIOUS
  <2>5. d = U8(m.ctype) \o Bytes(b)
    BY DEF EncodeControl
  <2>6. U8(m.ctype) \in Text /\ Bytes(b) \in Text
    BY <1>1, <1>2, <1>4, CarriesNumbers, CarriesText DEF WellFormed, Carries
  <2> HIDE DEF U, k
  <2>7. d \in Text /\ (d \in Short => Parsed(ControlFields, d) = {k})
    BY <2>2, ControlParsed DEF Returned
  <2>8. \A c \in Text, u \in Text : d \in Short /\ u # <<>> /\ c \o u = d =>
          Parsed(ControlFields, c) = {}
    BY <2>2, ControlCut DEF Raised
  <2> HIDE DEF d
  <2>9. d \in Short
    BY <2>1, <2>7, CarriedShort DEF f
  <2>10. b \in Short
    <3> DEFINE z == Bytes(b)
               y == U8(m.ctype)
    <3>1. y \in Text /\ z \in Text /\ y \o z \in Short
      BY <2>5, <2>6, <2>9
    <3> HIDE DEF y, z
    <3>2. z \in Short
      BY <3>1, ShortParts
    <3> QED BY <1>2, <3>2, CarriesText DEF z
  <2>11. Understood(m, f) = Returned(m.value)
    <3>1. Understood(m, f) = UNION {U(r) : r \in {k}}
      BY <2>1, <2>3, <2>7, <2>9
    <3>2. U(k) = Returned(m.value)
      BY <1>2, <2>4, <2>10
    <3> QED BY <3>1, <3>2
  <2>12. ASSUME NEW c \in Text, NEW u \in Text, u # <<>>, c \o u = f.payload
         PROVE  Understood(m, [channel |-> f.channel, payload |-> c]) = Raised
    <3>1. Parsed(ControlFields, c) = {}
      BY <2>1, <2>8, <2>9, <2>12
    <3>2. Understood(m, [channel |-> f.channel, payload |-> c]) = UNION {U(r) : r \in {}}
      BY <2>1, <2>3, <3>1
    <3> QED BY <3>2 DEF Raised
  <2> QED BY <2>11, <2>12 DEF f
<1> QED BY <1>3, <1>4

LEMMA CarrierIs ==
  ASSUME NEW f \in Frames
  PROVE  CarriedBy(f) \in Samples /\ Carried(CarriedBy(f)) = f
<1> DEFINE P(m) == m \in Samples /\ Carriage[m] = f
<1>1. PICK m : P(m)
  <2>1. PICK m \in Samples : f = Carried(m)
    BY WireAssumption
  <2>2. Carriage[m] = Carried(m)
    BY DEF Carriage
  <2> QED BY <2>1, <2>2
<1>2. CarriedBy(f) = CHOOSE x : P(x)
  BY DEF CarriedBy
<1>3. P(CHOOSE x : P(x))
  <2> HIDE DEF P
  <2> QED BY <1>1, Zenon
<1>4. CarriedBy(f) \in Samples /\ Carriage[CarriedBy(f)] = f
  <2> DEFINE c == CHOOSE x : P(x)
  <2>1. P(c)
    BY <1>3
  <2> HIDE DEF c
  <2> QED BY <1>2, <2>1 DEF c
<1> QED BY <1>4 DEF Carriage

LEMMA ReadAsSent == FrameInv /\ InOrder => ParsedAsSent
<1> SUFFICES ASSUME FrameInv, InOrder, ~resumed, NEW i \in DOMAIN received
             PROVE  LET m == CarriedBy(sent[i])
                    IN  Understood(m, received[i]) = Returned(m.value)
  BY DEF ParsedAsSent
<1>1. received \in Seq(Frame) /\ DOMAIN received = 1 .. Len(received)
  BY DEF FrameInv, FTypeOK
<1>2. received[i] = sent[i] /\ i \in 1 .. Len(sent)
  <2>1. sent \in Seq(Frame) /\ Len(sent) \in Nat /\ Len(received) \in Nat
    BY <1>1 DEF FrameInv, FTypeOK
  <2>2. Len(received) <= Len(sent) /\ \A j \in 1 .. Len(received) : received[j] = sent[j]
    BY DEF InOrder
  <2> QED BY <1>1, <2>1, <2>2
<1> DEFINE f == sent[i]
           m == CarriedBy(f)
<1>3. f \in Frames /\ Sendable(f)
  BY <1>2 DEF InOrder, SentWell
<1> HIDE DEF f
<1>4. m \in Samples /\ Carried(m) = f
  BY <1>3, CarrierIs
<1> HIDE DEF m
<1>5. Understood(m, f) = Returned(m.value)
  BY <1>3, <1>4, MessageRead
<1> QED BY <1>2, <1>5 DEF f, m

LEMMA CutRaises == FrameInv /\ InOrder => CutDetected
<1> SUFFICES ASSUME FrameInv, InOrder, ~resumed, stage = "payload", Waiting,
                    Len(received) < Len(sent)
             PROVE  Understood(CarriedBy(sent[Len(received) + 1]),
                               [channel |-> channel, payload |-> chunks]) = Raised
  BY DEF CutDetected
<1> DEFINE n == Len(received)
           j == n + 1
           f == sent[j]
           m == CarriedBy(f)
<1>1. n \in Nat /\ Len(sent) \in Nat /\ j \in 1 .. Len(sent) /\ j \in 0 .. Len(sent) /\ j - 1 = n
  BY DEF FrameInv, FTypeOK
<1>2. PICK rest : Rests(rest)
  BY DEF InOrder
<1>3. f \in Frames /\ Sendable(f)
  <2> HIDE DEF j
  <2> QED BY <1>1 DEF InOrder, SentWell
<1>4. f \in Frame
  BY <1>3, FramingAssumption
<1>5. ReaderAt(f, <<>>, rest[j])
  <2>1. rest[j] \in Text
    <3> HIDE DEF j
    <3> QED BY <1>1, <1>2 DEF Rests
  <2>2. rest[j - 1] = EncodeFrame(f) \o rest[j]
    <3> HIDE DEF j
    <3> QED BY <1>1, <1>2 DEF Rests, f
  <2>3. Consumed \o stream = rest[n]
    BY <1>2 DEF Rests
  <2>4. Consumed \in Text /\ stream \in Text
    BY ConsumedText
  <2> DEFINE c == Consumed \o stream
  <2>5. c \in Text /\ c = EncodeFrame(f) \o rest[j]
    BY <1>1, <2>2, <2>3, <2>4, Cat
  <2> HIDE DEF f, j
  <2>6. c \o <<>> = c /\ <<>> \in Text
    <3> HIDE DEF c
    <3>1. <<>> \in Text
      BY DEF Text
    <3> QED BY <2>5, <3>1, Cat
  <2> HIDE DEF c
  <2>7. (Consumed \o stream) \o <<>> = EncodeFrame(f) \o rest[j]
    BY <2>5, <2>6 DEF c
  <2> QED BY <1>3, <1>4, <2>1, <2>4, <2>6, <2>7 DEF ReaderAt
<1> DEFINE x == rest[j]
           e == <<>>
           v == Slice(f.payload, Len(chunks), Len(f.payload))
<1> HIDE DEF f, j, n
<1>6. channel = f.channel /\ need = Len(f.payload) /\ f.payload \in Text
        /\ chunks \o (stream \o e) = f.payload \o x
  <2>1. ReaderAt(f, e, x)
    BY <1>5
  <2> HIDE DEF e, x
  <2> QED BY <2>1, PayloadAhead
<1>7. v \in Text /\ f.payload = chunks \o v /\ Len(v) = Len(f.payload) - Len(chunks)
  <2> DEFINE s == stream \o e
             p == f.payload
  <2>1. chunks \in Text /\ s \in Text /\ x \in Text
    <3>1. chunks \in Text /\ stream \in Text /\ e \in Text
      BY ConsumedText DEF Text
    <3> HIDE DEF e
    <3>2. x \in Text
      BY <1>5 DEF ReaderAt, x
    <3> QED BY <3>1, <3>2, Cat
  <2>2. Same(chunks, s, p, x)
    <3>1. Len(chunks) <= Len(p)
      <4>1. Len(chunks) \in Nat /\ need \in Int
        BY <1>6, <2>1, Cat
      <4> QED BY <1>6, <4>1 DEF Waiting
    <3> QED BY <1>6, <3>1 DEF Same
  <2>3. p \in Text
    BY <1>6
  <2> HIDE DEF s, p, x
  <2> QED BY <2>1, <2>2, <2>3, CatPrefix DEF p
<1>8. v # <<>>
  <2>1. Len(chunks) \in Nat /\ Len(f.payload) \in Nat
    BY <1>6, ConsumedText, Cat
  <2>2. Len(v) # 0
    <3> HIDE DEF v
    <3> QED BY <1>6, <1>7, <2>1 DEF Waiting
  <2> HIDE DEF v
  <2> QED BY <2>2
<1>9. m \in Samples /\ Carried(m) = f
  BY <1>3, CarrierIs
<1> HIDE DEF m, v
<1>10. chunks \in Text
  BY ConsumedText
<1>11. Understood(m, [channel |-> f.channel, payload |-> chunks]) = Raised
  <2>1. Sendable(Carried(m)) /\ chunks \o v = Carried(m).payload
    BY <1>3, <1>7, <1>9
  <2>2. \A c \in Text, u \in Text : u # <<>> /\ c \o u = Carried(m).payload =>
          Understood(m, [channel |-> Carried(m).channel, payload |-> c]) = Raised
    BY <1>9, <2>1, MessageRead
  <2>3. Understood(m, [channel |-> Carried(m).channel, payload |-> chunks]) = Raised
    BY <1>7, <1>8, <1>10, <2>1, <2>2
  <2> QED BY <1>9, <2>3
<1> QED BY <1>6, <1>11 DEF m, f, j, n

\* Every message is read as it was sent: frame, control message, envelope,
\* encryption and inner encoding are undone by the other end's parsers, for every
\* value of every field and every way its bytes arrive (protocol.py, session.py:419-495
\* against tunnel2.py:82-337, and the reverse).
THEOREM MessagesParsedAsSent == FSpec => []ParsedAsSent
BY FrameInvariant, ReadAsSent, PTL

\* Nothing is read of a message whose end is missing: wherever a payload is cut,
\* the parser of some layer raises (codec.py:76-81, protocol.py:190-223).
THEOREM CutMessagesDetected == FSpec => []CutDetected
BY FrameInvariant, CutRaises, PTL

-------------------------------------------------------------------------------
\* The authentication of envelopes.

Doing == {Idle} \cup [step : Steps, env : Envelopes]

-------------------------------------------------------------------------------
\* The keys of the cache after it gained one, lost its oldest, or one of them
\* moved to its end.

LEMMA AppendKey ==
  ASSUME NEW S, NEW q \in Seq(S), NEW e \in S
  PROVE  /\ Append(q, e) \in Seq(S) /\ Len(q) \in Nat /\ Len(Append(q, e)) = Len(q) + 1
         /\ Append(q, e)[Len(q) + 1] = e
         /\ \A i \in 1 .. Len(q) : Append(q, e)[i] = q[i]
         /\ \A k : Contains(Append(q, e), k) <=> Contains(q, k) \/ k = e
<1>1. /\ Append(q, e) \in Seq(S) /\ Len(q) \in Nat /\ Len(Append(q, e)) = Len(q) + 1
      /\ Append(q, e)[Len(q) + 1] = e
      /\ \A i \in 1 .. Len(q) : Append(q, e)[i] = q[i]
  BY AppendProperties, LenProperties
<1>2. ASSUME NEW k PROVE Contains(Append(q, e), k) <=> Contains(q, k) \/ k = e
  <2>1. \A i \in 1 .. Len(q) + 1 : i \in 1 .. Len(q) \/ i = Len(q) + 1
    BY <1>1
  <2>2. Contains(Append(q, e), k) => Contains(q, k) \/ k = e
    BY <1>1, <2>1 DEF Contains
  <2>3. \A i \in 1 .. Len(q) : i \in 1 .. Len(q) + 1
    BY <1>1
  <2>4. Contains(q, k) => Contains(Append(q, e), k)
    BY <1>1, <2>3 DEF Contains
  <2>5. Contains(Append(q, e), e)
    BY <1>1 DEF Contains
  <2> QED BY <2>2, <2>4, <2>5
<1> QED BY <1>1, <1>2

LEMMA TailKey ==
  ASSUME NEW S, NEW q \in Seq(S), q # <<>>
  PROVE  /\ Tail(q) \in Seq(S) /\ Len(q) \in Nat \ {0} /\ Len(Tail(q)) = Len(q) - 1
         /\ \A i \in 1 .. Len(q) - 1 : Tail(q)[i] = q[i + 1]
         /\ \A k : Contains(q, k) <=> Contains(Tail(q), k) \/ k = q[1]
<1>1. /\ Tail(q) \in Seq(S) /\ Len(q) \in Nat \ {0} /\ Len(Tail(q)) = Len(q) - 1
      /\ \A i \in 1 .. Len(q) - 1 : Tail(q)[i] = q[i + 1]
  BY EmptySeq, HeadTailProperties
<1>2. ASSUME NEW k PROVE Contains(q, k) <=> Contains(Tail(q), k) \/ k = q[1]
  <2>1. ASSUME NEW i \in 1 .. Len(q), q[i] = k PROVE Contains(Tail(q), k) \/ k = q[1]
    <3>1. CASE i = 1
      BY <2>1, <3>1
    <3>2. CASE i # 1
      <4>1. i - 1 \in 1 .. Len(q) - 1 /\ (i - 1) + 1 = i
        BY <1>1, <3>2
      <4>2. Tail(q)[i - 1] = k /\ i - 1 \in 1 .. Len(Tail(q))
        BY <1>1, <2>1, <4>1
      <4> QED BY <4>2 DEF Contains
    <3> QED BY <3>1, <3>2
  <2>2. ASSUME NEW i \in 1 .. Len(Tail(q)), Tail(q)[i] = k PROVE Contains(q, k)
    <3>1. i + 1 \in 1 .. Len(q) /\ q[i + 1] = k
      BY <1>1, <2>2
    <3> QED BY <3>1 DEF Contains
  <2>3. Contains(q, q[1])
    <3>1. 1 \in 1 .. Len(q)
      BY <1>1
    <3> QED BY <3>1 DEF Contains
  <2> QED BY <2>1, <2>2, <2>3 DEF Contains
<1> QED BY <1>1, <1>2

LEMMA RemoveAtKey ==
  ASSUME NEW S, NEW q \in Seq(S), NEW i \in 1 .. Len(q)
  PROVE  /\ RemoveAt(q, i) \in Seq(S) /\ Len(q) \in Nat \ {0}
         /\ Len(RemoveAt(q, i)) = Len(q) - 1
         /\ \A j \in 1 .. Len(q) - 1 : RemoveAt(q, i)[j] = IF j < i THEN q[j] ELSE q[j + 1]
<1>0. Len(q) \in Nat \ {0} /\ i \in Nat /\ 1 <= i /\ i <= Len(q)
  BY LenProperties
<1> DEFINE before == SubSeq(q, 1, i - 1)
           after  == SubSeq(q, i + 1, Len(q))
<1>1. /\ before \in Seq(S) /\ Len(before) = i - 1
      /\ \A j \in 1 .. i - 1 : before[j] = q[j]
  <2>1. \A j \in 1 .. i - 1 : q[j] \in S
    BY <1>0, ElementOfSeq
  <2> QED BY <1>0, <2>1, SubSeqProperties
<1>2. /\ after \in Seq(S) /\ Len(after) = Len(q) - i
      /\ \A j \in 1 .. Len(q) - i : after[j] = q[i + j]
  <2>1. \A j \in i + 1 .. Len(q) : q[j] \in S
    BY <1>0, ElementOfSeq
  <2>2. /\ after \in Seq(S)
        /\ Len(after) = IF i + 1 <= Len(q) THEN Len(q) - (i + 1) + 1 ELSE 0
        /\ \A j \in 1 .. Len(q) - (i + 1) + 1 : after[j] = q[(i + 1) + j - 1]
    BY <1>0, <2>1, SubSeqProperties
  <2> HIDE DEF after
  <2>3. \A j \in 1 .. Len(q) - i : j \in 1 .. Len(q) - (i + 1) + 1 /\ (i + 1) + j - 1 = i + j
    BY <1>0
  <2>4. Len(after) = Len(q) - i
    BY <1>0, <2>2
  <2>5. ASSUME NEW j \in 1 .. Len(q) - i PROVE after[j] = q[i + j]
    <3>1. after[j] = q[(i + 1) + j - 1]
      BY <2>2, <2>3
    <3>2. (i + 1) + j - 1 = i + j
      BY <2>3
    <3> QED BY <3>1, <3>2, Zenon
  <2> QED BY <2>2, <2>4, <2>5
<1> HIDE DEF before, after
<1>3. /\ before \o after \in Seq(S) /\ Len(before \o after) = Len(q) - 1
      /\ \A j \in 1 .. Len(q) - 1 :
           (before \o after)[j] = IF j <= i - 1 THEN before[j] ELSE after[j - (i - 1)]
  <2>1. /\ before \o after \in Seq(S) /\ Len(before \o after) = Len(before) + Len(after)
        /\ \A j \in 1 .. Len(before) + Len(after) :
             (before \o after)[j] =
               IF j <= Len(before) THEN before[j] ELSE after[j - Len(before)]
    BY <1>1, <1>2, ConcatProperties
  <2>2. Len(before) + Len(after) = Len(q) - 1
    BY <1>0, <1>1, <1>2
  <2> QED BY ONLY <1>1, <2>1, <2>2
<1>4. ASSUME NEW j \in 1 .. Len(q) - 1
      PROVE  (before \o after)[j] = IF j < i THEN q[j] ELSE q[j + 1]
  <2>1. CASE j < i
    BY <1>0, <1>1, <1>3, <2>1
  <2>2. CASE ~(j < i)
    <3>1. j - (i - 1) \in 1 .. Len(q) - i /\ i + (j - (i - 1)) = j + 1 /\ ~(j <= i - 1)
      BY <1>0, <2>2
    <3> QED BY <1>2, <1>3, <2>2, <3>1
  <2> QED BY <2>1, <2>2
<1>5. RemoveAt(q, i) = before \o after
  BY DEF RemoveAt, before, after
<1> QED BY <1>0, <1>3, <1>4, <1>5

MovedToEnd(q, i) == Append(RemoveAt(q, i), q[i])

LEMMA MoveToEndKey ==
  ASSUME NEW S, NEW q \in Seq(S), NEW i \in 1 .. Len(q)
  PROVE  /\ MovedToEnd(q, i) \in Seq(S) /\ Len(q) \in Nat \ {0} /\ Len(MovedToEnd(q, i)) = Len(q)
         /\ MovedToEnd(q, i)[Len(q)] = q[i]
         /\ \A j \in 1 .. Len(q) - 1 : MovedToEnd(q, i)[j] = IF j < i THEN q[j] ELSE q[j + 1]
         /\ \A k : Contains(MovedToEnd(q, i), k) <=> Contains(q, k)
<1>1. q[i] \in S
  BY ElementOfSeq
<1> DEFINE rest  == RemoveAt(q, i)
           moved == MovedToEnd(q, i)
<1>2. /\ rest \in Seq(S) /\ Len(q) \in Nat \ {0} /\ Len(rest) = Len(q) - 1
      /\ \A j \in 1 .. Len(q) - 1 : rest[j] = IF j < i THEN q[j] ELSE q[j + 1]
  BY RemoveAtKey
<1>3. moved = Append(rest, q[i])
  BY DEF MovedToEnd
<1> HIDE DEF rest, moved
<1>4. /\ moved \in Seq(S) /\ Len(moved) = Len(rest) + 1 /\ moved[Len(rest) + 1] = q[i]
      /\ \A j \in 1 .. Len(rest) : moved[j] = rest[j]
  BY <1>1, <1>2, <1>3, AppendKey
<1>5. /\ Len(moved) = Len(q) /\ moved[Len(q)] = q[i]
      /\ \A j \in 1 .. Len(q) - 1 : moved[j] = IF j < i THEN q[j] ELSE q[j + 1]
  <2>1. Len(rest) + 1 = Len(q)
    BY <1>2
  <2>2. Len(moved) = Len(q) /\ moved[Len(q)] = q[i]
    BY ONLY <1>4, <2>1
  <2>3. \A j \in 1 .. Len(q) - 1 : moved[j] = rest[j]
    BY ONLY <1>2, <1>4
  <2>4. \A j \in 1 .. Len(q) - 1 : moved[j] = IF j < i THEN q[j] ELSE q[j + 1]
    BY ONLY <1>2, <2>3
  <2> QED BY <2>2, <2>4
<1>6. ASSUME NEW k PROVE Contains(moved, k) <=> Contains(q, k)
  <2>1. ASSUME NEW j \in 1 .. Len(moved), moved[j] = k PROVE Contains(q, k)
    <3>1. \/ j = Len(q) /\ k = q[i]
          \/ j \in 1 .. Len(q) - 1 /\ j < i /\ k = q[j]
          \/ j \in 1 .. Len(q) - 1 /\ k = q[j + 1]
      BY <1>2, <1>5, <2>1
    <3>2. j \in 1 .. Len(q) /\ (j \in 1 .. Len(q) - 1 => j + 1 \in 1 .. Len(q))
      BY <1>2, <1>5
    <3> QED BY <3>1, <3>2 DEF Contains
  <2>2. ASSUME NEW j \in 1 .. Len(q), q[j] = k PROVE Contains(moved, k)
    <3>1. CASE j = i
      <4>1. Len(q) \in 1 .. Len(moved) /\ moved[Len(q)] = k
        BY <1>2, <1>5, <2>2, <3>1
      <4> QED BY <4>1 DEF Contains
    <3>2. CASE j < i
      <4>1. j \in 1 .. Len(q) - 1 /\ j \in 1 .. Len(moved)
        BY <1>2, <1>5, <3>2
      <4>2. moved[j] = k
        BY <1>5, <2>2, <3>2, <4>1
      <4> QED BY <4>1, <4>2 DEF Contains
    <3>3. CASE j > i
      <4>1. j - 1 \in 1 .. Len(q) - 1 /\ j - 1 \in 1 .. Len(moved) /\ ~(j - 1 < i) /\ (j - 1) + 1 = j
        BY <1>2, <1>5, <3>3
      <4>2. moved[j - 1] = k
        BY <1>5, <2>2, <4>1
      <4> QED BY <4>1, <4>2 DEF Contains
    <3> QED BY <3>1, <3>2, <3>3
  <2> QED BY <2>1, <2>2 DEF Contains
<1> QED BY <1>2, <1>4, <1>5, <1>6 DEF moved

-------------------------------------------------------------------------------
\* What the steps of a thread do.

\* Two sets of threads that differ in one thread at most.
LEMMA CountChange ==
  ASSUME NEW t \in Threads, NEW A \in SUBSET Threads, NEW B \in SUBSET Threads,
         \A u \in Threads \ {t} : u \in A <=> u \in B
  PROVE  /\ Cardinality(A) \in Nat /\ Cardinality(B) \in Nat
         /\ (t \in A <=> t \in B) => Cardinality(B) = Cardinality(A)
         /\ t \in A /\ t \notin B => Cardinality(B) = Cardinality(A) - 1
         /\ t \notin A /\ t \in B => Cardinality(B) = Cardinality(A) + 1
<1>1. IsFiniteSet(A) /\ IsFiniteSet(B)
  BY AuthAssumption, FS_Subset
<1>2. Cardinality(A) \in Nat /\ Cardinality(B) \in Nat
  BY <1>1, FS_CardinalityType
<1>3. ASSUME t \in A <=> t \in B PROVE Cardinality(B) = Cardinality(A)
  <2>1. A = B
    BY <1>3
  <2> QED BY <2>1
<1>4. ASSUME t \in A, t \notin B PROVE Cardinality(B) = Cardinality(A) - 1
  <2>1. B = A \ {t}
    BY <1>4
  <2> QED BY <1>1, <1>4, <2>1, FS_RemoveElement
<1>5. ASSUME t \notin A, t \in B PROVE Cardinality(B) = Cardinality(A) + 1
  <2>1. B = A \cup {t}
    BY <1>5
  <2> QED BY <1>1, <1>5, <2>1, FS_AddElement
<1> QED BY <1>2, <1>3, <1>4, <1>5

LEMMA Parts ==
  /\ Idle \in Doing /\ Idle.step = "idle"
  /\ \A s \in Steps, e \in Envelopes : /\ At(s, e) \in Doing
                                       /\ At(s, e).step = s /\ At(s, e).env = e
  /\ \A d \in Doing : d = Idle \/ (d.step \in Steps /\ d.env \in Envelopes)
  /\ "idle" \notin Steps
BY DEF Doing, Idle, At, Steps

\* The thread turns to something else.
LEMMA TurnsTo ==
  ASSUME thread \in [Threads -> Doing], NEW t \in Threads, NEW d \in Doing,
         thread' = [thread EXCEPT ![t] = d]
  PROVE  /\ thread' \in [Threads -> Doing] /\ thread'[t] = d
         /\ \A u \in Threads \ {t} : thread'[u] = thread[u]
OBVIOUS

Evicting   == {t \in Threads : thread[t].step \in {"evict", "pop"}}
Working(e) == {t \in Threads : thread[t].step # "idle" /\ thread[t].env = e}

\* The envelopes at work and those accepted have all arrived.
CountInv ==
  /\ thread \in [Threads -> Doing]
  /\ arrivals \in [Envelopes -> 0 .. MaxArrivals]
  /\ accepted \in [Envelopes -> Nat]
  /\ \A e \in Envelopes : accepted[e] + Cardinality(Working(e)) <= arrivals[e]

ThreadStep(t) == \/ Lookup(t) \/ Touch(t) \/ Record(t) \/ TestSize(t) \/ Evict(t)
                 \/ CheckCredential(t)

LEMMA ThreadEffect ==
  ASSUME thread \in [Threads -> Doing], NEW t \in Threads, ThreadStep(t)
  PROVE  /\ UNCHANGED <<stamp, arrivals, status, restarts, now>>
         /\ thread[t].step \in Steps /\ thread[t].env \in Envelopes
         /\ thread' \in [Threads -> Doing]
         /\ \A u \in Threads \ {t} : thread'[u] = thread[u]
         /\ Lookup(t) => /\ thread[t].step = "lookup" /\ thread'[t].env = thread[t].env
                         /\ thread'[t].step = IF Contains(cache, thread[t].env) THEN "touch"
                                                                              ELSE "record"
         /\ Touch(t) => thread[t].step = "touch" /\ thread'[t] = Idle /\ thread'[t].step = "idle"
         /\ Record(t) => /\ thread[t].step = "record" /\ thread'[t].env = thread[t].env
                         /\ thread'[t].step = "evict"
         /\ TestSize(t) => /\ thread[t].step = "evict" /\ thread'[t].env = thread[t].env
                           /\ thread'[t].step = IF Full THEN "pop" ELSE "credential"
         /\ Evict(t) => /\ thread[t].step = "pop"
                        /\ \/ thread'[t] = Idle /\ thread'[t].step = "idle"
                           \/ thread'[t].env = thread[t].env /\ thread'[t].step = "credential"
         /\ CheckCredential(t) => /\ thread[t].step = "credential"
                                  /\ thread'[t] = Idle /\ thread'[t].step = "idle"
<1>1. UNCHANGED <<stamp, arrivals, status, restarts, now>>
  BY DEF ThreadStep, Lookup, Touch, Record, TestSize, Evict, CheckCredential, Step
<1>2. thread[t].step \in {"lookup", "touch", "record", "evict", "pop", "credential"}
  BY DEF ThreadStep, Lookup, Touch, Record, TestSize, Evict, CheckCredential, Step
<1>3. thread[t].step \in Steps /\ thread[t].env \in Envelopes
  <2>1. thread[t] \in Doing /\ thread[t].step # "idle"
    BY <1>2
  <2> QED BY <2>1, Parts
<1>4. \A s \in Steps : /\ At(s, thread[t].env) \in Doing /\ At(s, thread[t].env).step = s
                       /\ At(s, thread[t].env).env = thread[t].env
  BY <1>3, Parts
<1>5. {"touch", "record", "evict", "pop", "credential"} \subseteq Steps
  BY DEF Steps
<1>6. CASE Lookup(t)
  <2>1. PICK s \in {"touch", "record"} :
          /\ thread' = [thread EXCEPT ![t] = At(s, thread[t].env)]
          /\ s = IF Contains(cache, thread[t].env) THEN "touch" ELSE "record"
    BY <1>6 DEF Lookup
  <2>2. s \in Steps
    BY <1>5
  <2>3. /\ thread' \in [Threads -> Doing] /\ thread'[t] = At(s, thread[t].env)
        /\ \A u \in Threads \ {t} : thread'[u] = thread[u]
    BY <1>4, <2>1, <2>2, TurnsTo
  <2>4. thread[t].step = "lookup"
    BY <1>6 DEF Lookup, Step
  <2> QED BY <1>1, <1>3, <1>4, <2>1, <2>2, <2>3, <2>4
            DEF Lookup, Touch, Record, TestSize, Evict, CheckCredential, Step
<1>7. CASE Touch(t)
  BY <1>1, <1>3, <1>7, Parts, TurnsTo DEF Lookup, Touch, Record, TestSize, Evict, CheckCredential, Step
<1>8. CASE Record(t)
  BY <1>1, <1>3, <1>4, <1>5, <1>8, TurnsTo DEF Lookup, Touch, Record, TestSize, Evict, CheckCredential, Step
<1>9. CASE Evict(t)
  <2>1. thread[t].step = "pop"
    BY <1>9 DEF Evict, Step
  <2>2. CASE thread' = [thread EXCEPT ![t] = Idle]
    BY <1>1, <1>3, <2>1, <2>2, Parts, TurnsTo
       DEF Lookup, Touch, Record, TestSize, Evict, CheckCredential, Step
  <2>3. CASE thread' = [thread EXCEPT ![t] = At("credential", thread[t].env)]
    BY <1>1, <1>3, <1>4, <1>5, <2>1, <2>3, TurnsTo
       DEF Lookup, Touch, Record, TestSize, Evict, CheckCredential, Step
  <2> QED BY <1>9, <2>2, <2>3 DEF Evict
<1>10. CASE CheckCredential(t)
  BY <1>1, <1>3, <1>10, Parts, TurnsTo DEF Lookup, Touch, Record, TestSize, Evict, CheckCredential, Step
<1>11. CASE TestSize(t)
  <2>1. PICK s \in {"pop", "credential"} :
          /\ thread' = [thread EXCEPT ![t] = At(s, thread[t].env)]
          /\ s = IF Full THEN "pop" ELSE "credential"
    BY <1>11 DEF TestSize
  <2>2. s \in Steps
    BY <1>5
  <2>3. /\ thread' \in [Threads -> Doing] /\ thread'[t] = At(s, thread[t].env)
        /\ \A u \in Threads \ {t} : thread'[u] = thread[u]
    BY <1>4, <2>1, <2>2, TurnsTo
  <2>4. thread[t].step = "evict"
    BY <1>11 DEF TestSize, Step
  <2> QED BY <1>1, <1>3, <1>4, <2>1, <2>2, <2>3, <2>4
            DEF Lookup, Touch, Record, TestSize, Evict, CheckCredential, Step
<1> QED BY <1>6, <1>7, <1>8, <1>9, <1>10, <1>11 DEF ThreadStep

-------------------------------------------------------------------------------
\* Every variable stays well formed, no envelope is accepted more often than it
\* arrived, and the cache is over its size by the evictions under way at most.

Clocks == /\ stamp \in [Envelopes -> 0 .. MaxTime + 1]
          /\ status \in Statuses /\ exposed \subseteq Envelopes
          /\ newer \in [Envelopes -> SUBSET Envelopes] /\ now \in 1 .. MaxTime
          /\ restarts \in 0 .. MaxRestarts /\ overlap \in 0 .. Cardinality(Threads)

CacheInv == cache \in Seq(Envelopes) /\ Len(cache) <= MaxEntries + Cardinality(Evicting)

TypeInv == CountInv /\ Clocks /\ CacheInv

LEMMA TypeInvSuffices == TypeInv => TypeOK
<1> SUFFICES ASSUME TypeInv PROVE TypeOK
  OBVIOUS
<1>1. ASSUME NEW e \in Envelopes PROVE accepted[e] \in 0 .. MaxArrivals
  <2>1. Working(e) \in SUBSET Threads
    BY DEF Working
  <2>2. Cardinality(Working(e)) \in Nat
    BY <2>1, AuthAssumption, FS_Subset, FS_CardinalityType
  <2>3. arrivals[e] \in 0 .. MaxArrivals /\ accepted[e] \in Nat
        /\ accepted[e] + Cardinality(Working(e)) <= arrivals[e]
    BY DEF TypeInv, CountInv
  <2> QED BY <2>2, <2>3, AuthAssumption
<1>2. accepted \in [Envelopes -> 0 .. MaxArrivals]
  BY <1>1 DEF TypeInv, CountInv
<1> QED BY <1>2 DEF TypeInv, CountInv, Clocks, CacheInv, Evicting, Doing, TypeOK

LEMMA ThreadCounts ==
  ASSUME CountInv, NEW t \in Threads, ThreadStep(t)
  PROVE  CountInv'
<1>0. thread \in [Threads -> Doing]
  BY DEF CountInv
<1>1. /\ arrivals' = arrivals /\ thread[t].step \in Steps /\ thread[t].step # "idle"
      /\ thread[t].env \in Envelopes /\ thread' \in [Threads -> Doing]
      /\ \A u \in Threads \ {t} : thread'[u] = thread[u]
  BY <1>0, ThreadEffect, Parts
<1> DEFINE e == thread[t].env
<1>2. ASSUME NEW f \in Envelopes
      PROVE  /\ Cardinality(Working(f)) \in Nat /\ Cardinality(Working(f)') \in Nat
             /\ Cardinality(Working(f)') <= Cardinality(Working(f))
             /\ f = e /\ thread'[t].step = "idle"
                  => Cardinality(Working(f)') = Cardinality(Working(f)) - 1
  <2>1. Working(f) \in SUBSET Threads /\ Working(f)' \in SUBSET Threads
    BY DEF Working
  <2>2. \A u \in Threads \ {t} : u \in Working(f) <=> u \in Working(f)'
    BY <1>1 DEF Working
  <2>3. t \in Working(f)' => t \in Working(f)
    BY <1>0, <1>1, ThreadEffect DEF Working, ThreadStep
  <2>4. f = e /\ thread'[t].step = "idle" => t \in Working(f) /\ t \notin Working(f)'
    BY <1>1 DEF Working
  <2>5. /\ Cardinality(Working(f)) \in Nat /\ Cardinality(Working(f)') \in Nat
        /\ (t \in Working(f) <=> t \in Working(f)')
              => Cardinality(Working(f)') = Cardinality(Working(f))
        /\ t \in Working(f) /\ t \notin Working(f)'
              => Cardinality(Working(f)') = Cardinality(Working(f)) - 1
    BY <2>1, <2>2, CountChange
  <2> QED BY <2>3, <2>4, <2>5
<1>3. ASSUME accepted' = accepted PROVE CountInv'
  BY <1>1, <1>2, <1>3 DEF CountInv
<1>4. ASSUME accepted' = [accepted EXCEPT ![e] = accepted[e] + 1], thread'[t].step = "idle"
      PROVE  CountInv'
  <2>1. accepted \in [Envelopes -> Nat] /\ accepted' \in [Envelopes -> Nat]
    BY <1>1, <1>4 DEF CountInv
  <2>2. ASSUME NEW f \in Envelopes PROVE accepted'[f] + Cardinality(Working(f)') <= arrivals'[f]
    <3>1. accepted[f] + Cardinality(Working(f)) <= arrivals[f] /\ arrivals[f] \in Nat
      BY AuthAssumption DEF CountInv
    <3>2. CASE f = e
      <4>1. accepted'[f] = accepted[f] + 1
        BY <1>4, <2>1, <3>2
      <4>2. Cardinality(Working(f)') = Cardinality(Working(f)) - 1
        BY <1>2, <1>4, <3>2
      <4> QED BY <1>1, <1>2, <2>1, <3>1, <4>1, <4>2
    <3>3. CASE f # e
      <4>1. accepted'[f] = accepted[f]
        BY <1>4, <2>1, <3>3
      <4> QED BY <1>1, <1>2, <2>1, <3>1, <4>1
    <3> QED BY <3>2, <3>3
  <2> QED BY <1>1, <2>1, <2>2 DEF CountInv
<1>5. accepted' = accepted
        \/ (accepted' = [accepted EXCEPT ![e] = accepted[e] + 1] /\ thread'[t].step = "idle")
  BY <1>0, ThreadEffect DEF ThreadStep, Lookup, Touch, Record, TestSize, Evict, CheckCredential
<1> QED BY <1>3, <1>4, <1>5

LEMMA ThreadCache ==
  ASSUME CountInv, CacheInv, NEW t \in Threads, ThreadStep(t)
  PROVE  CacheInv'
<1>0. thread \in [Threads -> Doing] /\ cache \in Seq(Envelopes) /\ Len(cache) \in Nat
  BY LenProperties DEF CountInv, CacheInv
<1>1. \A u \in Threads \ {t} : thread'[u] = thread[u]
  BY <1>0, ThreadEffect
<1>2. /\ Cardinality(Evicting) \in Nat /\ Cardinality(Evicting') \in Nat
      /\ (t \in Evicting <=> t \in Evicting') => Cardinality(Evicting') = Cardinality(Evicting)
      /\ t \in Evicting /\ t \notin Evicting' => Cardinality(Evicting') = Cardinality(Evicting) - 1
      /\ t \notin Evicting /\ t \in Evicting' => Cardinality(Evicting') = Cardinality(Evicting) + 1
  <2>1. Evicting \in SUBSET Threads /\ Evicting' \in SUBSET Threads
    BY DEF Evicting
  <2>2. \A u \in Threads \ {t} : u \in Evicting <=> u \in Evicting'
    BY <1>1 DEF Evicting
  <2> QED BY <2>1, <2>2, CountChange
<1>3. t \in Evicting <=> thread[t].step \in {"evict", "pop"}
  BY DEF Evicting
<1>4. t \in Evicting' <=> thread'[t].step \in {"evict", "pop"}
  BY DEF Evicting
<1>5. Len(cache) <= MaxEntries + Cardinality(Evicting) /\ MaxEntries \in Nat \ {0}
  BY AuthAssumption DEF CacheInv
<1>6. CASE Lookup(t) \/ CheckCredential(t)
  <2>1. cache' = cache
    BY <1>6 DEF Lookup, CheckCredential
  <2>2. thread[t].step \notin {"evict", "pop"} /\ thread'[t].step \notin {"evict", "pop"}
    BY <1>0, <1>6, ThreadEffect DEF ThreadStep
  <2>3. Cardinality(Evicting') = Cardinality(Evicting)
    BY <1>2, <1>3, <1>4, <2>2
  <2> QED BY <1>0, <1>5, <2>1, <2>3 DEF CacheInv
<1>7. CASE Touch(t)
  <2>1. thread[t].step \notin {"evict", "pop"} /\ thread'[t].step \notin {"evict", "pop"}
    BY <1>0, <1>7, ThreadEffect DEF ThreadStep
  <2>2. Cardinality(Evicting') = Cardinality(Evicting)
    BY <1>2, <1>3, <1>4, <2>1
  <2>3. cache' \in Seq(Envelopes) /\ Len(cache') = Len(cache)
    <3>1. \A i \in 1 .. Len(cache) : /\ MovedToEnd(cache, i) \in Seq(Envelopes)
                                     /\ Len(MovedToEnd(cache, i)) = Len(cache)
      BY <1>0, MoveToEndKey
    <3>2. (\E i \in 1 .. Len(cache) : cache' = MovedToEnd(cache, i)) \/ cache' = cache
      BY <1>7 DEF Touch, MovedToEnd
    <3> QED BY <1>0, <3>1, <3>2
  <2> QED BY <1>5, <2>2, <2>3 DEF CacheInv
<1>8. CASE Record(t)
  <2>1. /\ thread[t].step \notin {"evict", "pop"} /\ thread'[t].step = "evict"
        /\ thread[t].env \in Envelopes
    BY <1>0, <1>8, ThreadEffect DEF ThreadStep
  <2>2. Cardinality(Evicting') = Cardinality(Evicting) + 1
    BY <1>2, <1>3, <1>4, <2>1
  <2>3. cache' = cache \/ cache' = Append(cache, thread[t].env)
    BY <1>8 DEF Record
  <2>4. cache' \in Seq(Envelopes) /\ Len(cache') <= Len(cache) + 1 /\ Len(cache') \in Nat
    BY <1>0, <2>1, <2>3, AppendKey
  <2> QED BY <1>0, <1>2, <1>5, <2>2, <2>4 DEF CacheInv
<1>9. CASE TestSize(t)
  <2>1. thread[t].step = "evict" /\ thread'[t].step = (IF Full THEN "pop" ELSE "credential")
    BY <1>0, <1>9, ThreadEffect DEF ThreadStep
  <2>2. cache' = cache
    BY <1>9 DEF TestSize
  <2>3. CASE Full
    <3>1. Cardinality(Evicting') = Cardinality(Evicting)
      BY <1>2, <1>3, <1>4, <2>1, <2>3
    <3> QED BY <1>0, <1>5, <2>2, <3>1 DEF CacheInv
  <2>4. CASE ~Full
    BY <1>0, <1>2, <1>5, <2>2, <2>4 DEF CacheInv, Full
  <2> QED BY <2>3, <2>4
<1>10. CASE Evict(t)
  <2>1. thread[t].step = "pop" /\ thread'[t].step \notin {"evict", "pop"}
    BY <1>0, <1>10, ThreadEffect DEF ThreadStep
  <2>2. Cardinality(Evicting') = Cardinality(Evicting) - 1
    BY <1>2, <1>3, <1>4, <2>1
  <2>3. CASE cache # <<>> /\ cache' = Tail(cache)
    <3>1. cache' \in Seq(Envelopes) /\ Len(cache') = Len(cache) - 1
      BY <1>0, <2>3, TailKey
    <3> QED BY <1>0, <1>2, <1>5, <2>2, <3>1 DEF CacheInv
  <2>4. CASE cache = <<>> /\ cache' = cache
    <3>1. Len(cache') = 0
      BY <2>4, EmptySeq
    <3> QED BY <1>0, <1>2, <1>5, <2>2, <2>4, <3>1 DEF CacheInv
  <2> QED BY <1>10, <2>3, <2>4 DEF Evict, Evicted
<1> QED BY <1>6, <1>7, <1>8, <1>9, <1>10 DEF ThreadStep

LEMMA PoppingCount == Cardinality(Popping) \in 0 .. Cardinality(Threads)
<1>1. Popping \in SUBSET Threads
  BY DEF Popping
<1> QED BY <1>1, AuthAssumption, FS_Subset, FS_CardinalityType

LEMMA TypeStep == TypeInv /\ [Next]_vars => TypeInv'
<1> SUFFICES ASSUME TypeInv, [Next]_vars PROVE TypeInv'
  OBVIOUS
<1>0. CountInv /\ Clocks /\ CacheInv
  BY DEF TypeInv
<1>1. ASSUME NEW e \in Envelopes, SignEnvelope(e) PROVE TypeInv'
  <2>1. stamp' \in [Envelopes -> 0 .. MaxTime + 1]
    BY <1>0, <1>1, AuthAssumption DEF SignEnvelope, Clocks
  <2> QED BY <1>0, <1>1, <2>1 DEF SignEnvelope, TypeInv, CountInv, Clocks, CacheInv, Working, Evicting
<1>2. ASSUME NEW e \in Envelopes, NEW t \in Threads, Arrive(t, e) PROVE TypeInv'
  <2>1. /\ thread[t] = Idle /\ thread[t].step = "idle" /\ arrivals[e] < MaxArrivals
        /\ arrivals' = [arrivals EXCEPT ![e] = arrivals[e] + 1]
        /\ UNCHANGED <<stamp, cache, status, accepted, newer, exposed, overlap, restarts, now>>
    BY <1>2, Parts DEF Arrive
  <2>2. /\ thread' \in [Threads -> Doing] /\ \A u \in Threads \ {t} : thread'[u] = thread[u]
        /\ thread' = thread \/ (thread'[t].step = "lookup" /\ thread'[t].env = e)
    <3>1. CASE thread' = thread
      BY <1>0, <3>1 DEF CountInv
    <3>2. CASE thread' = [thread EXCEPT ![t] = At("lookup", e)]
      <4>1. "lookup" \in Steps
        BY DEF Steps
      <4>2. At("lookup", e) \in Doing /\ At("lookup", e).step = "lookup" /\ At("lookup", e).env = e
        BY <4>1, Parts
      <4> QED BY <1>0, <3>2, <4>2, TurnsTo DEF CountInv
    <3> QED BY <1>2, <3>1, <3>2 DEF Arrive
  <2>3. arrivals' \in [Envelopes -> 0 .. MaxArrivals]
    BY <1>0, <2>1, AuthAssumption DEF CountInv
  <2>4. ASSUME NEW f \in Envelopes PROVE accepted'[f] + Cardinality(Working(f)') <= arrivals'[f]
    <3>1. /\ accepted[f] + Cardinality(Working(f)) <= arrivals[f] /\ accepted[f] \in Nat
          /\ arrivals[f] \in Nat
      BY <1>0, AuthAssumption DEF CountInv
    <3>2. Working(f) \in SUBSET Threads /\ Working(f)' \in SUBSET Threads /\ t \notin Working(f)
      BY <2>1 DEF Working
    <3>3. \A u \in Threads \ {t} : u \in Working(f) <=> u \in Working(f)'
      BY <2>2 DEF Working
    <3>4. t \in Working(f)' => f = e
      BY <2>1, <2>2 DEF Working
    <3>5. /\ Cardinality(Working(f)) \in Nat /\ Cardinality(Working(f)') \in Nat
          /\ t \notin Working(f)' => Cardinality(Working(f)') = Cardinality(Working(f))
          /\ t \in Working(f)' => Cardinality(Working(f)') = Cardinality(Working(f)) + 1
      BY <3>2, <3>3, CountChange
    <3>6. arrivals'[f] = IF f = e THEN arrivals[f] + 1 ELSE arrivals[f]
      BY <1>0, <2>1 DEF CountInv
    <3> QED BY <2>1, <3>1, <3>4, <3>5, <3>6
  <2>5. Evicting' = Evicting
    BY <2>1, <2>2 DEF Evicting
  <2> QED BY <1>0, <2>1, <2>2, <2>3, <2>4, <2>5 DEF TypeInv, CountInv, Clocks, CacheInv
<1>3. ASSUME NEW t \in Threads, ThreadStep(t) PROVE TypeInv'
  <2>1. thread \in [Threads -> Doing]
    BY <1>0 DEF CountInv
  <2>2. UNCHANGED <<stamp, status, restarts, now>> /\ thread[t].env \in Envelopes
    BY <1>3, <2>1, ThreadEffect
  <2>3. newer' \in [Envelopes -> SUBSET Envelopes] /\ exposed' \subseteq Envelopes
    <3>1. newer' = newer \/ Met(thread[t].env)
      BY <1>3 DEF ThreadStep, Lookup, Touch, Record, TestSize, Evict, CheckCredential
    <3>2. newer' \in [Envelopes -> SUBSET Envelopes]
      BY <1>0, <2>2, <3>1 DEF Met, Clocks
    <3>3. exposed' \subseteq Envelopes
      BY <1>0, <1>3, <2>2
         DEF ThreadStep, Lookup, Touch, Record, TestSize, Evict, CheckCredential, Clocks
    <3> QED BY <3>2, <3>3
  <2>4. overlap' \in 0 .. Cardinality(Threads)
    <3>1. Cardinality(Popping) \in 0 .. Cardinality(Threads)
      BY PoppingCount
    <3>2. overlap' \in {overlap, Cardinality(Popping)}
      BY <1>3 DEF ThreadStep, Lookup, Touch, Record, TestSize, Evict, CheckCredential
    <3> QED BY <1>0, <3>1, <3>2 DEF Clocks
  <2> QED BY <1>0, <1>3, <2>2, <2>3, <2>4, ThreadCounts, ThreadCache DEF TypeInv, Clocks
<1>4. CASE Rotate
  <2>1. status' \in Statuses
    BY <1>4 DEF Rotate, Statuses
  <2> QED BY <1>0, <1>4, <2>1 DEF Rotate, TypeInv, CountInv, Clocks, CacheInv, Working, Evicting
<1>5. CASE Restart
  <2>1. \A t \in Threads : thread'[t].step = "idle" /\ thread'[t] = Idle
    BY <1>5, Parts DEF Restart
  <2>2. Evicting' = {} /\ \A e \in Envelopes : Working(e)' = {}
    BY <2>1 DEF Evicting, Working
  <2>3. CountInv'
    <3>1. ASSUME NEW e \in Envelopes PROVE accepted'[e] + Cardinality(Working(e)') <= arrivals'[e]
      <4>1. accepted[e] + Cardinality(Working(e)) <= arrivals[e] /\ accepted[e] \in Nat
            /\ arrivals[e] \in Nat
        BY <1>0, AuthAssumption DEF CountInv
      <4>2. Cardinality(Working(e)) \in Nat
        <5>1. Working(e) \in SUBSET Threads
          BY DEF Working
        <5> QED BY <5>1, AuthAssumption, FS_Subset, FS_CardinalityType
      <4>3. Cardinality(Working(e)') = 0
        BY <2>2, FS_EmptySet
      <4> QED BY <1>5, <4>1, <4>2, <4>3 DEF Restart
    <3> QED BY <1>0, <1>5, <3>1, Parts DEF Restart, CountInv
  <2>4. CacheInv'
    BY <1>5, <2>2, EmptySeq, FS_EmptySet, AuthAssumption DEF Restart, CacheInv
  <2>5. Clocks'
    BY <1>0, <1>5, AuthAssumption, FS_CardinalityType DEF Restart, Clocks
  <2> QED BY <2>3, <2>4, <2>5 DEF TypeInv
<1>6. CASE Tick
  <2>1. now' \in 1 .. MaxTime
    BY <1>0, <1>6, AuthAssumption DEF Tick, Clocks
  <2> QED BY <1>0, <1>6, <2>1 DEF Tick, TypeInv, CountInv, Clocks, CacheInv, Working, Evicting
<1>7. CASE UNCHANGED vars
  BY <1>0, <1>7 DEF vars, TypeInv, CountInv, Clocks, CacheInv, Working, Evicting
<1> QED BY <1>1, <1>2, <1>3, <1>4, <1>5, <1>6, <1>7 DEF Next, ThreadStep

LEMMA TypeInvCorrect == Spec => []TypeInv
<1>1. Init => TypeInv
  <2> SUFFICES ASSUME Init PROVE TypeInv
    OBVIOUS
  <2>1. \A t \in Threads : thread[t].step = "idle" /\ thread[t] = Idle
    BY Parts DEF Init
  <2>2. Evicting = {} /\ \A e \in Envelopes : Working(e) = {}
    BY <2>1 DEF Evicting, Working
  <2>3. Cardinality({}) = 0 /\ <<>> \in Seq(Envelopes) /\ Len(<<>>) = 0
    BY FS_EmptySet, EmptySeq
  <2>4. CountInv
    <3>1. thread \in [Threads -> Doing]
      BY Parts DEF Init
    <3>2. arrivals \in [Envelopes -> 0 .. MaxArrivals] /\ accepted \in [Envelopes -> Nat]
      BY AuthAssumption DEF Init
    <3>3. \A e \in Envelopes : accepted[e] = 0 /\ arrivals[e] = 0
      BY DEF Init
    <3>4. \A e \in Envelopes : Cardinality(Working(e)) = 0
      BY <2>2, <2>3
    <3> QED BY <3>1, <3>2, <3>3, <3>4 DEF CountInv
  <2>5. Clocks
    BY AuthAssumption, FS_CardinalityType DEF Init, Clocks, Statuses
  <2>6. CacheInv
    BY <2>2, <2>3, AuthAssumption DEF Init, CacheInv
  <2> QED BY <2>4, <2>5, <2>6 DEF TypeInv
<1> QED BY <1>1, TypeStep, PTL DEF Spec

\* Every variable stays well formed: no envelope is accepted more often than it
\* arrived, and the cache never holds more than max_entries and one key for each
\* thread that is yet to evict (replay.py:34-38).
THEOREM AuthTypeCorrect == Spec => []TypeOK
BY TypeInvCorrect, TypeInvSuffices, PTL

-------------------------------------------------------------------------------
\* An envelope that was looked up in vain is in the hands of one thread, or it was
\* accepted once and its key is in the cache, unless the cache may take it for new.

Past       == {"record", "evict", "pop", "credential"}
Holds(t, e) == thread[t].step \in Past /\ thread[t].env = e

OnceInv ==
  \A e \in Envelopes \ exposed :
    /\ accepted[e] <= 1
    /\ accepted[e] = 1 => Contains(cache, e) /\ \A t \in Threads : ~Holds(t, e)
    /\ \A t \in Threads : Holds(t, e) /\ thread[t].step # "record" => Contains(cache, e)
    /\ \A t, u \in Threads : Holds(t, e) /\ Holds(u, e) => t = u

\* A step that accepts nothing, looks nothing up and drops no key that it does not
\* count among the exposed ones.
LEMMA OnceKeeps ==
  ASSUME OnceInv,
         \A e \in Envelopes \ exposed' :
           /\ e \notin exposed
           /\ accepted'[e] = accepted[e]
           /\ Contains(cache, e) => Contains(cache', e)
           /\ \A t \in Threads : Holds(t, e)' =>
                /\ Holds(t, e)
                /\ thread'[t].step # "record" => thread[t].step # "record" \/ Contains(cache', e)
  PROVE  OnceInv'
<1> SUFFICES ASSUME NEW e \in Envelopes \ exposed'
             PROVE  /\ accepted'[e] <= 1
                    /\ accepted'[e] = 1 => Contains(cache', e) /\ \A t \in Threads : ~Holds(t, e)'
                    /\ \A t \in Threads : Holds(t, e)' /\ thread'[t].step # "record"
                                            => Contains(cache', e)
                    /\ \A t, u \in Threads : Holds(t, e)' /\ Holds(u, e)' => t = u
  BY DEF OnceInv
<1>1. /\ accepted[e] <= 1
      /\ accepted[e] = 1 => Contains(cache, e) /\ \A t \in Threads : ~Holds(t, e)
      /\ \A t \in Threads : Holds(t, e) /\ thread[t].step # "record" => Contains(cache, e)
      /\ \A t, u \in Threads : Holds(t, e) /\ Holds(u, e) => t = u
  BY DEF OnceInv
<1> QED BY <1>1

LEMMA ThreadOnce ==
  ASSUME TypeInv, OnceInv, NEW t \in Threads, ThreadStep(t)
  PROVE  OnceInv'
<1> DEFINE e == thread[t].env
<1>0. /\ thread \in [Threads -> Doing] /\ cache \in Seq(Envelopes) /\ exposed \subseteq Envelopes
      /\ accepted \in [Envelopes -> Nat]
  BY DEF TypeInv, CountInv, CacheInv, Clocks
<1>1. /\ e \in Envelopes /\ \A u \in Threads \ {t} : thread'[u] = thread[u]
      /\ Lookup(t) => /\ thread[t].step = "lookup" /\ thread'[t].env = e
                      /\ thread'[t].step = IF Contains(cache, e) THEN "touch" ELSE "record"
      /\ Touch(t) => thread[t].step = "touch" /\ thread'[t].step = "idle"
      /\ Record(t) => thread[t].step = "record" /\ thread'[t].env = e /\ thread'[t].step = "evict"
      /\ TestSize(t) => thread[t].step = "evict" /\ thread'[t].env = e
      /\ Evict(t) => /\ thread[t].step = "pop"
                     /\ \/ thread'[t].step = "idle"
                        \/ thread'[t].env = e /\ thread'[t].step = "credential"
      /\ CheckCredential(t) => thread[t].step = "credential" /\ thread'[t].step = "idle"
  BY <1>0, ThreadEffect
<1>2. \A u \in Threads \ {t}, f \in Envelopes : Holds(u, f)' <=> Holds(u, f)
  BY <1>1 DEF Holds, Past
<1>3. CASE Lookup(t)
  <2>1. /\ UNCHANGED <<cache, accepted>>
        /\ exposed' = IF Pending(t, e) THEN exposed \cup {e} ELSE exposed
    BY <1>3 DEF Lookup
  <2>2. CASE Contains(cache, e)
    <3>1. thread'[t].step = "touch"
      BY <1>1, <1>3, <2>2
    <3>2. \A u \in Threads, f \in Envelopes : Holds(u, f)' => Holds(u, f) /\ u # t
      BY <1>2, <3>1 DEF Holds, Past
    <3> QED BY <1>1, <2>1, <3>2, OnceKeeps
  <2>3. CASE ~Contains(cache, e)
    <3>1. thread'[t].step = "record" /\ thread'[t].env = e /\ thread[t].step = "lookup"
      BY <1>1, <1>3, <2>3
    <3>2. \A f \in Envelopes : ~Holds(t, f) /\ (Holds(t, f)' => f = e)
      BY <3>1 DEF Holds, Past
    <3>3. ASSUME NEW f \in Envelopes \ exposed'
          PROVE  /\ accepted'[f] <= 1
                 /\ accepted'[f] = 1 =>
                      Contains(cache', f) /\ \A u \in Threads : ~Holds(u, f)'
                 /\ \A u \in Threads : Holds(u, f)' /\ thread'[u].step # "record"
                                         => Contains(cache', f)
                 /\ \A u, w \in Threads : Holds(u, f)' /\ Holds(w, f)' => u = w
      <4>1. /\ f \notin exposed /\ accepted[f] <= 1
            /\ accepted[f] = 1 => Contains(cache, f) /\ \A u \in Threads : ~Holds(u, f)
            /\ \A u \in Threads : Holds(u, f) /\ thread[u].step # "record" => Contains(cache, f)
            /\ \A u, w \in Threads : Holds(u, f) /\ Holds(w, f) => u = w
        BY <2>1 DEF OnceInv
      <4>2. CASE f # e
        BY <1>1, <1>2, <2>1, <3>2, <4>1, <4>2
      <4>3. CASE f = e
        <5>1. ~Pending(t, e)
          BY <2>1, <4>3
        <5>2. ASSUME NEW u \in Threads \ {t} PROVE ~Holds(u, e)
          <6>1. CASE thread[u].step = "record"
            <7>1. thread[u] # At("record", e)
              BY <5>1 DEF Pending
            <7>2. thread[u].env = e => thread[u] = At("record", e)
              BY <1>0, <6>1 DEF Doing, At, Idle
            <7> QED BY <7>1, <7>2 DEF Holds
          <6>2. CASE thread[u].step # "record"
            BY <2>3, <4>1, <4>3, <6>2
          <6> QED BY <6>1, <6>2
        <5>3. accepted[f] # 1
          BY <2>3, <4>1, <4>3
        <5>4. \A u \in Threads : Holds(u, f)' => u = t
          BY <1>2, <4>3, <5>2
        <5> QED BY <2>1, <3>1, <4>1, <5>3, <5>4
      <4> QED BY <4>2, <4>3
    <3> QED BY <3>3 DEF OnceInv
  <2> QED BY <2>2, <2>3
<1>4. CASE Touch(t)
  <2>1. UNCHANGED <<accepted, exposed>>
    BY <1>4 DEF Touch
  <2>2. \A f : Contains(cache, f) => Contains(cache', f)
    <3>1. \A i \in 1 .. Len(cache) : \A f : Contains(MovedToEnd(cache, i), f) <=> Contains(cache, f)
      BY <1>0, MoveToEndKey
    <3>2. (\E i \in 1 .. Len(cache) : cache' = MovedToEnd(cache, i)) \/ cache' = cache
      BY <1>4 DEF Touch, MovedToEnd
    <3> QED BY <3>1, <3>2
  <2>3. \A u \in Threads, f \in Envelopes : Holds(u, f)' => Holds(u, f) /\ u # t
    BY <1>1, <1>2, <1>4 DEF Holds, Past
  <2> QED BY <1>1, <2>1, <2>2, <2>3, OnceKeeps
<1>5. CASE Record(t)
  <2>1. UNCHANGED <<accepted, exposed>>
    BY <1>5 DEF Record
  <2>2. Contains(cache', e) /\ \A f : Contains(cache, f) => Contains(cache', f)
    <3>1. CASE Contains(cache, e) /\ cache' = cache
      BY <3>1
    <3>2. CASE cache' = Append(cache, e)
      <4>1. \A f : Contains(Append(cache, e), f) <=> Contains(cache, f) \/ f = e
        BY <1>0, <1>1, AppendKey
      <4> QED BY <3>2, <4>1
    <3> QED BY <1>5, <3>1, <3>2 DEF Record
  <2>3. \A u \in Threads, f \in Envelopes :
          Holds(u, f)' => Holds(u, f) /\ (u = t => f = e)
    BY <1>1, <1>2, <1>5 DEF Holds, Past
  <2> QED BY <1>1, <2>1, <2>2, <2>3, OnceKeeps
<1>6. CASE Evict(t)
  <2>1. /\ accepted' = accepted
        /\ exposed' = exposed \cup {f \in Envelopes : Contains(cache, f) /\ ~Contains(cache', f)}
    BY <1>6 DEF Evict
  <2>2. \A u \in Threads, f \in Envelopes :
          Holds(u, f)' => Holds(u, f) /\ (u = t => thread[u].step # "record")
    BY <1>1, <1>2, <1>6 DEF Holds, Past
  <2> QED BY <1>1, <2>1, <2>2, OnceKeeps
<1>7. CASE CheckCredential(t)
  <2>1. UNCHANGED <<cache, exposed>>
    BY <1>7 DEF CheckCredential
  <2>2. \A u \in Threads, f \in Envelopes : Holds(u, f)' => Holds(u, f) /\ u # t
    BY <1>1, <1>2, <1>7 DEF Holds, Past
  <2>3. CASE accepted' = accepted
    BY <1>1, <2>1, <2>2, <2>3, OnceKeeps
  <2>4. CASE accepted' = [accepted EXCEPT ![e] = accepted[e] + 1]
    <3>1. Holds(t, e) /\ thread[t].step # "record"
      BY <1>1, <1>7 DEF Holds, Past
    <3>2. ASSUME NEW f \in Envelopes \ exposed'
          PROVE  /\ accepted'[f] <= 1
                 /\ accepted'[f] = 1 =>
                      Contains(cache', f) /\ \A u \in Threads : ~Holds(u, f)'
                 /\ \A u \in Threads : Holds(u, f)' /\ thread'[u].step # "record"
                                         => Contains(cache', f)
                 /\ \A u, w \in Threads : Holds(u, f)' /\ Holds(w, f)' => u = w
      <4>1. /\ f \notin exposed /\ accepted[f] <= 1 /\ accepted[f] \in Nat
            /\ accepted[f] = 1 => Contains(cache, f) /\ \A u \in Threads : ~Holds(u, f)
            /\ \A u \in Threads : Holds(u, f) /\ thread[u].step # "record" => Contains(cache, f)
            /\ \A u, w \in Threads : Holds(u, f) /\ Holds(w, f) => u = w
        BY <1>0, <2>1 DEF OnceInv
      <4>2. CASE f # e
        <5>1. accepted'[f] = accepted[f]
          BY <1>0, <2>4, <4>2
        <5> QED BY <1>1, <2>1, <2>2, <4>1, <5>1
      <4>3. CASE f = e
        <5>1. accepted[f] = 0 /\ Contains(cache, f)
          BY <3>1, <4>1, <4>3
        <5>2. accepted'[f] = 1
          BY <1>0, <1>1, <2>4, <4>3, <5>1
        <5>3. \A u \in Threads : ~Holds(u, f)'
          BY <2>2, <3>1, <4>1, <4>3
        <5> QED BY <2>1, <5>1, <5>2, <5>3
      <4> QED BY <4>2, <4>3
    <3> QED BY <3>2 DEF OnceInv
  <2> QED BY <1>7, <2>3, <2>4 DEF CheckCredential
<1>8. CASE TestSize(t)
  <2>1. UNCHANGED <<cache, accepted, exposed>>
    BY <1>8 DEF TestSize
  <2>2. \A u \in Threads, f \in Envelopes :
          Holds(u, f)' => Holds(u, f) /\ (u = t => thread[u].step # "record")
    BY <1>1, <1>2, <1>8 DEF Holds, Past
  <2> QED BY <1>1, <2>1, <2>2, OnceKeeps
<1> QED BY <1>3, <1>4, <1>5, <1>6, <1>7, <1>8 DEF ThreadStep

LEMMA OnceStep == TypeInv /\ OnceInv /\ [Next]_vars => OnceInv'
<1> SUFFICES ASSUME TypeInv, OnceInv, [Next]_vars PROVE OnceInv'
  OBVIOUS
<1>0. thread \in [Threads -> Doing]
  BY DEF TypeInv, CountInv
<1>1. ASSUME UNCHANGED <<accepted, cache, exposed, thread>> PROVE OnceInv'
  BY <1>1 DEF OnceInv, Holds, Past
<1>2. ASSUME NEW e \in Envelopes, NEW t \in Threads, Arrive(t, e) PROVE OnceInv'
  <2>1. UNCHANGED <<accepted, cache, exposed>>
    BY <1>2 DEF Arrive
  <2>2. CASE thread' = thread
    BY <1>1, <2>1, <2>2
  <2>3. CASE thread' = [thread EXCEPT ![t] = At("lookup", e)]
    <3>1. thread'[t].step = "lookup" /\ \A u \in Threads \ {t} : thread'[u] = thread[u]
      BY <1>0, <2>3 DEF At
    <3>2. \A u \in Threads, f \in Envelopes : Holds(u, f)' => Holds(u, f) /\ u # t
      BY <3>1 DEF Holds, Past
    <3> QED BY <2>1, <3>1, <3>2, OnceKeeps
  <2> QED BY <1>2, <2>2, <2>3 DEF Arrive
<1>3. ASSUME NEW t \in Threads, ThreadStep(t) PROVE OnceInv'
  BY <1>3, ThreadOnce
<1>4. CASE Restart
  <2>1. /\ accepted' = accepted
        /\ exposed' = exposed \cup {e \in Envelopes : Contains(cache, e)}
    BY <1>4 DEF Restart
  <2>2. \A t \in Threads : thread'[t].step = "idle"
    BY <1>4, Parts DEF Restart
  <2>3. \A t \in Threads, e \in Envelopes : ~Holds(t, e)'
    BY <2>2 DEF Holds, Past
  <2> QED BY <2>1, <2>3, OnceKeeps
<1>5. CASE (\E e \in Envelopes : SignEnvelope(e)) \/ Rotate \/ Tick \/ UNCHANGED vars
  BY <1>1, <1>5 DEF SignEnvelope, Rotate, Tick, vars
<1> QED BY <1>2, <1>3, <1>4, <1>5 DEF Next, ThreadStep

\* No envelope is accepted twice unless its key was evicted, dropped with the
\* process, or looked up while another thread was about to record it, however many
\* threads check envelopes at once (auth.py:52-66, replay.py:26-39).
THEOREM AcceptedAtMostOnce == Spec => []AcceptedOnce
<1>1. Init => OnceInv
  <2> SUFFICES ASSUME Init PROVE OnceInv
    OBVIOUS
  <2>1. \A t \in Threads : thread[t].step = "idle"
    BY Parts DEF Init
  <2> QED BY <2>1 DEF Init, OnceInv, Holds, Past
<1>2. OnceInv => AcceptedOnce
  BY DEF OnceInv, AcceptedOnce
<1> QED BY <1>1, <1>2, TypeInvCorrect, OnceStep, PTL DEF Spec

-------------------------------------------------------------------------------
\* The keys behind a key in the cache are those met since, and a key that is not
\* there any more has m of them.

Unique(q)     == \A i, j \in 1 .. Len(q) : q[i] = q[j] => i = j
Behind(q, i)  == {q[j] : j \in i + 1 .. Len(q)}
Kept(q, n, m) == \A e \in Envelopes :
                   (e \notin n[e] /\ Cardinality(n[e]) < m) => Contains(q, e)
History(q, n, m) == /\ Unique(q)
                    /\ \A i \in 1 .. Len(q) : n[q[i]] = Behind(q, i)
                    /\ Kept(q, n, m)

Histories   == [Envelopes -> SUBSET Envelopes]
NowMet(n, e) == [k \in Envelopes |-> IF k = e THEN {} ELSE n[k] \cup {e}]

KeptInv == History(cache, newer, MaxEntries - overlap)

\* The threads that are past the test still leave the cache with its limit, less
\* those that passed it together: none of them knows what the others will remove.
PopInv == Popping # {} => Len(cache) + overlap >= MaxEntries + Cardinality(Popping)

LEMMA NowMetKeeps ==
  ASSUME NEW q, NEW r, NEW n \in Histories, NEW e \in Envelopes, NEW m \in Int,
         Kept(q, n, m), Contains(r, e), \A k : Contains(q, k) => Contains(r, k)
  PROVE  Kept(r, NowMet(n, e), m)
<1> SUFFICES ASSUME NEW k \in Envelopes, k \notin NowMet(n, e)[k],
                    Cardinality(NowMet(n, e)[k]) < m, k # e
             PROVE  Contains(r, k)
  BY DEF Kept
<1>1. NowMet(n, e)[k] = n[k] \cup {e}
  BY DEF NowMet
<1>2. IsFiniteSet(n[k]) /\ Cardinality(n[k]) \in Nat /\ Cardinality(n[k] \cup {e}) \in Nat
      /\ Cardinality(n[k]) <= Cardinality(n[k] \cup {e})
  <2>1. n[k] \in SUBSET Envelopes /\ n[k] \cup {e} \in SUBSET Envelopes
    BY DEF Histories
  <2>2. IsFiniteSet(n[k]) /\ IsFiniteSet(n[k] \cup {e})
    BY <2>1, AuthAssumption, FS_Subset
  <2>3. n[k] \in SUBSET (n[k] \cup {e})
    OBVIOUS
  <2> QED BY <2>2, <2>3, FS_Subset, FS_CardinalityType
<1>3. k \notin n[k] /\ Cardinality(n[k]) < m
  BY <1>1, <1>2
<1> QED BY <1>3 DEF Kept

LEMMA HistoryAppend ==
  ASSUME NEW q \in Seq(Envelopes), NEW n \in Histories, NEW e \in Envelopes,
         NEW m \in Int, History(q, n, m), ~Contains(q, e)
  PROVE  History(Append(q, e), NowMet(n, e), m)
<1> DEFINE r == Append(q, e)
<1>1. /\ r \in Seq(Envelopes) /\ Len(q) \in Nat /\ Len(r) = Len(q) + 1 /\ r[Len(q) + 1] = e
      /\ \A i \in 1 .. Len(q) : r[i] = q[i]
      /\ \A k : Contains(r, k) <=> Contains(q, k) \/ k = e
  BY AppendKey
<1> HIDE DEF r
<1>2. \A i \in 1 .. Len(q) : q[i] # e /\ q[i] \in Envelopes
  BY ElementOfSeq DEF Contains
<1>3. \A i \in 1 .. Len(r) : i \in 1 .. Len(q) \/ i = Len(q) + 1
  BY <1>1
<1>4. Unique(r)
  BY <1>1, <1>2, <1>3 DEF Unique, History
<1>5. ASSUME NEW i \in 1 .. Len(r) PROVE NowMet(n, e)[r[i]] = Behind(r, i)
  <2>1. CASE i = Len(q) + 1
    <3>1. i + 1 .. Len(r) = {}
      BY <1>1, <2>1
    <3>2. Behind(r, i) = {}
      BY <3>1 DEF Behind
    <3> QED BY <1>1, <2>1, <3>2 DEF NowMet
  <2>2. CASE i \in 1 .. Len(q)
    <3>1. NowMet(n, e)[r[i]] = Behind(q, i) \cup {e}
      BY <1>1, <1>2, <2>2 DEF NowMet, History
    <3>2. \A j \in i + 1 .. Len(r) : (j \in i + 1 .. Len(q) /\ r[j] = q[j]) \/ r[j] = e
      BY <1>1, <2>2
    <3>3. \A j \in i + 1 .. Len(q) : j \in i + 1 .. Len(r) /\ r[j] = q[j]
      BY <1>1, <2>2
    <3>4. Len(q) + 1 \in i + 1 .. Len(r)
      BY <1>1, <2>2
    <3>5. Behind(r, i) = Behind(q, i) \cup {e}
      BY <1>1, <3>2, <3>3, <3>4 DEF Behind
    <3> QED BY <3>1, <3>5
  <2> QED BY <1>3, <2>1, <2>2
<1>6. Kept(r, NowMet(n, e), m)
  BY <1>1, NowMetKeeps DEF History
<1> QED BY <1>4, <1>5, <1>6 DEF History, r

LEMMA HistoryMove ==
  ASSUME NEW q \in Seq(Envelopes), NEW n \in Histories, NEW i \in 1 .. Len(q),
         NEW m \in Int, History(q, n, m)
  PROVE  History(MovedToEnd(q, i), NowMet(n, q[i]), m)
<1> DEFINE r == MovedToEnd(q, i)
<1>1. /\ r \in Seq(Envelopes) /\ Len(q) \in Nat \ {0} /\ Len(r) = Len(q) /\ r[Len(q)] = q[i]
      /\ \A j \in 1 .. Len(q) - 1 : r[j] = IF j < i THEN q[j] ELSE q[j + 1]
      /\ \A k : Contains(r, k) <=> Contains(q, k)
  BY MoveToEndKey
<1> HIDE DEF r
<1>2. \A j \in 1 .. Len(q) : q[j] \in Envelopes
  BY ElementOfSeq
<1>3. Unique(q) /\ \A j \in 1 .. Len(q) : n[q[j]] = Behind(q, j)
  BY DEF History
<1> DEFINE place[j \in 1 .. Len(q)] == IF j = Len(q) THEN i ELSE IF j < i THEN j ELSE j + 1
<1>4. \A j \in 1 .. Len(q) : /\ place[j] \in 1 .. Len(q) /\ r[j] = q[place[j]]
                             /\ j = Len(q) => place[j] = i
                             /\ j # Len(q) /\ j < i => place[j] = j
                             /\ j # Len(q) /\ ~(j < i) => place[j] = j + 1
  <2>1. ASSUME NEW j \in 1 .. Len(q)
        PROVE  /\ place[j] \in 1 .. Len(q) /\ r[j] = q[place[j]]
               /\ j = Len(q) => place[j] = i
               /\ j # Len(q) /\ j < i => place[j] = j
               /\ j # Len(q) /\ ~(j < i) => place[j] = j + 1
    <3>1. place[j] = IF j = Len(q) THEN i ELSE IF j < i THEN j ELSE j + 1
      OBVIOUS
    <3> HIDE DEF place
    <3>2. j # Len(q) => j \in 1 .. Len(q) - 1 /\ j + 1 \in 1 .. Len(q)
      BY <1>1
    <3> QED BY <1>1, <3>1, <3>2
  <2> QED BY <2>1
<1> HIDE DEF place
<1>5. \A j, k \in 1 .. Len(q) : place[j] = place[k] => j = k
  BY <1>1, <1>4
<1>6. Unique(r)
  BY <1>1, <1>3, <1>4, <1>5, SMTT(20) DEF Unique
<1>7. ASSUME NEW j \in 1 .. Len(r) PROVE NowMet(n, q[i])[r[j]] = Behind(r, j)
  <2>1. CASE j = Len(q)
    <3>1. j + 1 .. Len(r) = {}
      BY <1>1, <2>1
    <3>2. Behind(r, j) = {}
      BY <3>1 DEF Behind
    <3> QED BY <1>1, <1>2, <2>1, <3>2 DEF NowMet
  <2>2. CASE j # Len(q)
    <3>1. j \in 1 .. Len(q) /\ place[j] \in 1 .. Len(q) /\ place[j] # i /\ r[j] = q[place[j]]
          /\ place[Len(q)] = i /\ Len(q) \in 1 .. Len(q)
      BY <1>1, <1>4, <1>5, <2>2
    <3>2. NowMet(n, q[i])[r[j]] = Behind(q, place[j]) \cup {q[i]}
      <4>1. r[j] # q[i] /\ r[j] \in Envelopes
        BY <1>2, <1>3, <3>1 DEF Unique
      <4> QED BY <1>3, <3>1, <4>1 DEF NowMet
    <3>3. ASSUME NEW k \in j + 1 .. Len(r) PROVE r[k] \in Behind(q, place[j]) \cup {q[i]}
      <4>1. k \in 1 .. Len(q) /\ r[k] = q[place[k]]
        BY <1>1, <1>4, <3>1, <3>3
      <4>2. place[k] = i \/ place[k] \in place[j] + 1 .. Len(q)
        BY <1>1, <1>4, <2>2, <3>1, <3>3, <4>1
      <4> QED BY <4>1, <4>2 DEF Behind
    <3>4. ASSUME NEW k \in place[j] + 1 .. Len(q) PROVE q[k] \in Behind(r, j)
      <4>1. CASE k = i
        <5>1. Len(q) \in j + 1 .. Len(r) /\ r[Len(q)] = q[k]
          BY <1>1, <2>2, <3>1, <4>1
        <5> QED BY <5>1 DEF Behind
      <4>2. CASE k < i
        <5>1. k \in 1 .. Len(q) /\ k # Len(q) /\ k \in j + 1 .. Len(r)
          BY <1>1, <1>4, <2>2, <3>1, <3>4, <4>2
        <5>2. r[k] = q[k]
          BY <1>4, <4>2, <5>1
        <5> QED BY <5>1, <5>2 DEF Behind
      <4>3. CASE k > i
        <5>0. k \in Int /\ i \in Int /\ j \in Int /\ Len(q) \in Int /\ Len(r) = Len(q) /\ 1 <= j
              /\ place[j] + 1 <= k /\ k <= Len(q) /\ 1 <= i /\ (j < i => place[j] = j)
              /\ (~(j < i) => place[j] = j + 1)
          BY <1>1, <1>4, <2>2, <3>1, <3>4
        <5>1. k - 1 \in 1 .. Len(q) /\ k - 1 # Len(q) /\ k - 1 \in j + 1 .. Len(r)
              /\ ~(k - 1 < i) /\ (k - 1) + 1 = k
          BY <4>3, <5>0
        <5>2. r[k - 1] = q[k]
          BY <1>4, <5>1, SMTT(20)
        <5> QED BY <5>1, <5>2 DEF Behind
      <4> QED BY <4>1, <4>2, <4>3, <3>1
    <3>5. q[i] \in Behind(r, j)
      <4>1. Len(q) \in j + 1 .. Len(r) /\ r[Len(q)] = q[i]
        BY <1>1, <2>2, <3>1
      <4> QED BY <4>1 DEF Behind
    <3>6. Behind(r, j) = Behind(q, place[j]) \cup {q[i]}
      <4>1. Behind(r, j) \subseteq Behind(q, place[j]) \cup {q[i]}
        BY <3>3 DEF Behind
      <4>2. Behind(q, place[j]) \subseteq Behind(r, j)
        BY <3>4 DEF Behind
      <4> QED BY <3>5, <4>1, <4>2
    <3> QED BY <3>2, <3>6
  <2> QED BY <2>1, <2>2
<1>8. Kept(r, NowMet(n, q[i]), m)
  <2>1. Contains(r, q[i])
    BY <1>1 DEF Contains
  <2>2. q[i] \in Envelopes /\ Kept(q, n, m)
    BY <1>2 DEF History
  <2> QED BY <1>1, <2>1, <2>2, NowMetKeeps
<1> QED BY <1>6, <1>7, <1>8 DEF History, r

LEMMA HistoryTail ==
  ASSUME NEW q \in Seq(Envelopes), NEW n \in Histories, NEW m \in Int,
         History(q, n, m), q # <<>>, Len(q) > m
  PROVE  History(Tail(q), n, m)
<1> DEFINE r == Tail(q)
<1>0. Len(q) \in Nat /\ q # <<>>
  BY LenProperties
<1>1. /\ r \in Seq(Envelopes) /\ Len(q) \in Nat \ {0} /\ Len(r) = Len(q) - 1
      /\ \A i \in 1 .. Len(q) - 1 : r[i] = q[i + 1]
      /\ \A k : Contains(q, k) <=> Contains(r, k) \/ k = q[1]
  BY <1>0, TailKey
<1> HIDE DEF r
<1>2. Unique(q) /\ (\A i \in 1 .. Len(q) : n[q[i]] = Behind(q, i)) /\ Kept(q, n, m)
  BY DEF History
<1>3. Unique(r)
  <2> SUFFICES ASSUME NEW i \in 1 .. Len(r), NEW j \in 1 .. Len(r), r[i] = r[j] PROVE i = j
    BY DEF Unique
  <2>1. i + 1 \in 1 .. Len(q) /\ j + 1 \in 1 .. Len(q) /\ q[i + 1] = q[j + 1]
    BY <1>1
  <2>2. i + 1 = j + 1
    BY <1>2, <2>1 DEF Unique
  <2> QED BY <2>2
<1>4. ASSUME NEW i \in 1 .. Len(r) PROVE n[r[i]] = Behind(r, i)
  <2>1. i + 1 \in 1 .. Len(q) /\ r[i] = q[i + 1]
    BY <1>1
  <2>2. n[r[i]] = Behind(q, i + 1)
    BY <1>2, <2>1
  <2>3. ASSUME NEW j \in i + 1 .. Len(r) PROVE r[j] \in Behind(q, i + 1)
    <3>1. j + 1 \in (i + 1) + 1 .. Len(q) /\ r[j] = q[j + 1]
      BY <1>1
    <3> QED BY <3>1 DEF Behind
  <2>4. ASSUME NEW j \in (i + 1) + 1 .. Len(q) PROVE q[j] \in Behind(r, i)
    <3>1. j - 1 \in i + 1 .. Len(r) /\ j - 1 \in 1 .. Len(q) - 1 /\ (j - 1) + 1 = j
      BY <1>1
    <3>2. r[j - 1] = q[j]
      BY <1>1, <3>1
    <3> QED BY <3>1, <3>2 DEF Behind
  <2>5. Behind(r, i) = Behind(q, i + 1)
    <3>1. Behind(r, i) \subseteq Behind(q, i + 1)
      BY <2>3 DEF Behind
    <3>2. Behind(q, i + 1) \subseteq Behind(r, i)
      BY <2>4 DEF Behind
    <3> QED BY <3>1, <3>2
  <2> QED BY <2>2, <2>5
<1>5. ~(Cardinality(n[q[1]]) < m)
  <2>1. 1 \in 1 .. Len(q) /\ n[q[1]] = Behind(q, 1)
    BY <1>1, <1>2
  <2> DEFINE f == [j \in 2 .. Len(q) |-> q[j]]
  <2>2. f \in Surjection(2 .. Len(q), Behind(q, 1)) /\ f \in Injection(2 .. Len(q), Behind(q, 1))
    <3>1. 1 + 1 = 2
      OBVIOUS
    <3>2. f \in [2 .. Len(q) -> Behind(q, 1)]
      BY <3>1 DEF Behind
    <3>3. \A t \in Behind(q, 1) : \E j \in 2 .. Len(q) : f[j] = t
      BY <3>1 DEF Behind
    <3>4. \A j \in 2 .. Len(q) : j \in 1 .. Len(q) /\ f[j] = q[j]
      BY <1>1
    <3>5. \A j, k \in 2 .. Len(q) : f[j] = f[k] => j = k
      BY <1>2, <3>4 DEF Unique
    <3> HIDE DEF f
    <3>6. DOMAIN f = 2 .. Len(q)
      BY <3>2
    <3> QED BY <3>2, <3>3, <3>5, <3>6 DEF Surjection, Injection, IsInjective
  <2>3. IsFiniteSet(2 .. Len(q)) /\ Cardinality(2 .. Len(q)) = Len(q) - 1
    BY <1>1, FS_Interval, SMTT(20)
  <2>4. Cardinality(Behind(q, 1)) = Len(q) - 1
    BY <2>2, <2>3, FS_Surjection
  <2> QED BY <1>1, <2>1, <2>4
<1>6. Kept(r, n, m)
  BY <1>1, <1>2, <1>5 DEF Kept
<1> QED BY <1>3, <1>4, <1>6 DEF History, r

\* More overlap promises less.
LEMMA KeptLess ==
  ASSUME NEW q, NEW n \in Histories, NEW m \in Int, NEW k \in Int, k <= m, History(q, n, m)
  PROVE  History(q, n, k)
<1>1. \A e \in Envelopes : Cardinality(n[e]) \in Nat
  BY AuthAssumption, FS_Subset, FS_CardinalityType DEF Histories
<1>2. Kept(q, n, k)
  BY <1>1 DEF History, Kept
<1> QED BY <1>2 DEF History

\* A thread passes the test, or removes a key, alone.
LEMMA ThreadPops ==
  ASSUME TypeInv, PopInv, NEW t \in Threads, ThreadStep(t)
  PROVE  PopInv' /\ overlap' >= overlap
<1>0. /\ thread \in [Threads -> Doing] /\ cache \in Seq(Envelopes) /\ Len(cache) \in Nat
      /\ overlap \in Nat /\ MaxEntries \in Nat
  BY LenProperties, AuthAssumption, FS_CardinalityType DEF TypeInv, CountInv, CacheInv, Clocks
<1>1. \A u \in Threads \ {t} : thread'[u] = thread[u]
  BY <1>0, ThreadEffect
<1>2. /\ Cardinality(Popping) \in Nat /\ Cardinality(Popping') \in Nat
      /\ (t \in Popping <=> t \in Popping') => Cardinality(Popping') = Cardinality(Popping)
      /\ t \in Popping /\ t \notin Popping' => Cardinality(Popping') = Cardinality(Popping) - 1
      /\ t \notin Popping /\ t \in Popping' => Cardinality(Popping') = Cardinality(Popping) + 1
  <2>1. Popping \in SUBSET Threads /\ Popping' \in SUBSET Threads
    BY DEF Popping
  <2>2. \A u \in Threads \ {t} : u \in Popping <=> u \in Popping'
    BY <1>1 DEF Popping
  <2> QED BY <2>1, <2>2, CountChange
<1>3. (t \in Popping <=> thread[t].step = "pop") /\ (t \in Popping' <=> thread'[t].step = "pop")
  BY DEF Popping
<1>4. ASSUME thread[t].step # "pop", thread'[t].step # "pop", overlap' = overlap,
             Len(cache') \in Nat, Len(cache') >= Len(cache)
      PROVE  PopInv' /\ overlap' >= overlap
  <2>1. Popping' = Popping
    BY <1>1, <1>4 DEF Popping
  <2> QED BY <1>0, <1>2, <1>4, <2>1 DEF PopInv
<1>5. CASE Lookup(t) \/ CheckCredential(t)
  BY <1>0, <1>4, <1>5, ThreadEffect DEF ThreadStep, Lookup, CheckCredential
<1>6. CASE Touch(t)
  <2>1. \A i \in 1 .. Len(cache) : Len(MovedToEnd(cache, i)) = Len(cache)
    BY <1>0, MoveToEndKey
  <2>2. (\E i \in 1 .. Len(cache) : cache' = MovedToEnd(cache, i)) \/ cache' = cache
    BY <1>6 DEF Touch, MovedToEnd
  <2>3. Len(cache') = Len(cache) /\ overlap' = overlap
    BY <1>6, <2>1, <2>2 DEF Touch
  <2>4. thread[t].step # "pop" /\ thread'[t].step # "pop"
    BY <1>0, <1>6, ThreadEffect DEF ThreadStep
  <2> QED BY <1>0, <1>4, <2>3, <2>4
<1>7. CASE Record(t)
  <2>1. thread[t].step # "pop" /\ thread'[t].step # "pop" /\ thread[t].env \in Envelopes
    BY <1>0, <1>7, ThreadEffect DEF ThreadStep
  <2>2. cache' = cache \/ cache' = Append(cache, thread[t].env)
    BY <1>7 DEF Record
  <2>3. Len(cache') \in Nat /\ Len(cache') >= Len(cache)
    BY <1>0, <2>1, <2>2, AppendKey
  <2>4. overlap' = overlap
    BY <1>7 DEF Record
  <2> QED BY <1>4, <2>1, <2>3, <2>4
<1>8. CASE TestSize(t)
  <2>1. thread[t].step = "evict" /\ thread'[t].step = (IF Full THEN "pop" ELSE "credential")
    BY <1>0, <1>8, ThreadEffect DEF ThreadStep
  <2>2. cache' = cache
        /\ overlap' = IF Full /\ Cardinality(Popping) > overlap THEN Cardinality(Popping)
                                                                ELSE overlap
    BY <1>8 DEF TestSize
  <2>3. CASE Full
    <3>1. Cardinality(Popping') = Cardinality(Popping) + 1
      BY <1>2, <1>3, <2>1, <2>3
    <3>2. overlap' >= Cardinality(Popping) /\ overlap' >= overlap /\ overlap' \in Nat
      BY <1>0, <1>2, <2>2, <2>3
    <3>3. Len(cache') >= MaxEntries + 1
      BY <1>0, <2>2, <2>3 DEF Full
    <3> QED BY <1>0, <1>2, <2>2, <3>1, <3>2, <3>3 DEF PopInv
  <2>4. CASE ~Full
    BY <1>0, <1>4, <2>1, <2>2, <2>4
  <2> QED BY <2>3, <2>4
<1>9. CASE Evict(t)
  <2>1. thread[t].step = "pop" /\ thread'[t].step # "pop"
    BY <1>0, <1>9, ThreadEffect DEF ThreadStep
  <2>2. Cardinality(Popping') = Cardinality(Popping) - 1 /\ Popping # {}
    BY <1>2, <1>3, <2>1
  <2>3. Len(cache') \in Nat /\ Len(cache') >= Len(cache) - 1
    <3>1. CASE cache # <<>> /\ cache' = Tail(cache)
      BY <1>0, <3>1, TailKey
    <3>2. CASE cache = <<>> /\ cache' = cache
      BY <1>0, <3>2
    <3> QED BY <1>9, <3>1, <3>2 DEF Evict, Evicted
  <2>4. overlap' = overlap
    BY <1>9 DEF Evict
  <2>5. Len(cache) + overlap >= MaxEntries + Cardinality(Popping)
    BY <2>2 DEF PopInv
  <2>6. Len(cache') + overlap' >= MaxEntries + Cardinality(Popping')
    BY <1>0, <1>2, <2>2, <2>3, <2>4, <2>5
  <2> QED BY <1>0, <2>4, <2>6 DEF PopInv
<1> QED BY <1>5, <1>6, <1>7, <1>8, <1>9 DEF ThreadStep

LEMMA PopStep == TypeInv /\ PopInv /\ [Next]_vars => PopInv'
<1> SUFFICES ASSUME TypeInv, PopInv, [Next]_vars PROVE PopInv'
  OBVIOUS
<1>0. thread \in [Threads -> Doing]
  BY DEF TypeInv, CountInv
<1>1. ASSUME NEW e \in Envelopes, NEW t \in Threads, Arrive(t, e) PROVE PopInv'
  <2>1. \A u \in Threads : thread'[u].step = "pop" <=> thread[u].step = "pop"
    BY <1>0, <1>1, Parts DEF Arrive, At
  <2>2. Popping' = Popping
    BY <2>1 DEF Popping
  <2> QED BY <1>1, <2>2 DEF Arrive, PopInv
<1>2. CASE Restart
  <2>1. \A t \in Threads : thread'[t].step = "idle"
    BY <1>2, Parts DEF Restart
  <2>2. Popping' = {}
    BY <2>1 DEF Popping
  <2> QED BY <2>2 DEF PopInv
<1>3. CASE UNCHANGED <<thread, cache, overlap>>
  BY <1>3 DEF PopInv, Popping
<1> QED BY <1>1, <1>2, <1>3, ThreadPops DEF Next, ThreadStep, SignEnvelope, Rotate, Tick, vars

LEMMA KeptStep == TypeInv /\ PopInv /\ KeptInv /\ [Next]_vars => KeptInv'
<1> SUFFICES ASSUME TypeInv, PopInv, KeptInv, [Next]_vars PROVE KeptInv'
  OBVIOUS
<1> DEFINE m == MaxEntries - overlap
<1>0. /\ thread \in [Threads -> Doing] /\ cache \in Seq(Envelopes) /\ newer \in Histories
      /\ overlap \in Nat /\ MaxEntries \in Nat /\ m \in Int
      /\ History(cache, newer, m)
  BY AuthAssumption, FS_CardinalityType
     DEF TypeInv, CountInv, CacheInv, Clocks, Histories, KeptInv
<1>1. ASSUME History(cache', newer', m), overlap' = overlap PROVE KeptInv'
  BY <1>1 DEF KeptInv, History, Unique, Behind, Kept
<1>2. ASSUME UNCHANGED <<cache, newer, overlap>> PROVE KeptInv'
  <2>1. History(cache', newer', m)
    BY <1>0, <1>2
  <2> QED BY <1>1, <1>2, <2>1
<1> HIDE DEF m
<1>3. ASSUME NEW t \in Threads, Touch(t) PROVE KeptInv'
  <2>1. CASE \E i \in 1 .. Len(cache) : /\ cache' = MovedToEnd(cache, i)
                                        /\ newer' = NowMet(newer, cache[i])
    <3>1. History(cache', newer', m)
      BY <1>0, <2>1, HistoryMove
    <3> QED BY <1>1, <1>3, <3>1 DEF Touch
  <2> QED BY <1>2, <1>3, <2>1 DEF Touch, MovedToEnd, Met, NowMet
<1>4. ASSUME NEW t \in Threads, Record(t) PROVE KeptInv'
  <2>1. thread[t].env \in Envelopes
    BY <1>0, <1>4, ThreadEffect DEF ThreadStep
  <2>2. CASE /\ ~Contains(cache, thread[t].env) /\ cache' = Append(cache, thread[t].env)
             /\ newer' = NowMet(newer, thread[t].env)
    <3>1. History(cache', newer', m)
      BY <1>0, <2>1, <2>2, HistoryAppend
    <3> QED BY <1>1, <1>4, <3>1 DEF Record
  <2> QED BY <1>2, <1>4, <2>2 DEF Record, Met, NowMet
<1>5. ASSUME NEW t \in Threads, TestSize(t) PROVE KeptInv'
  <2>1. UNCHANGED <<cache, newer>>
    BY <1>5 DEF TestSize
  <2>2. overlap' >= overlap /\ overlap' \in Nat
    <3>1. Cardinality(Threads) \in Nat /\ Cardinality(Popping) \in Nat
      BY PoppingCount, AuthAssumption, FS_CardinalityType
    <3>2. overlap' = IF Full /\ Cardinality(Popping) > overlap THEN Cardinality(Popping)
                                                              ELSE overlap
      BY <1>5 DEF TestSize
    <3> QED BY <1>0, <3>1, <3>2
  <2> DEFINE k == MaxEntries - overlap'
  <2>3. k \in Int /\ k <= m
    <3>1. \A n, x, y \in Nat : y >= x => n - y \in Int /\ n - y <= n - x
      OBVIOUS
    <3>2. overlap \in Nat /\ overlap' \in Nat /\ MaxEntries \in Nat /\ overlap' >= overlap
      BY <1>0, <2>2
    <3> QED BY <3>1, <3>2, Zenon DEF m
  <2> HIDE DEF k
  <2>4. History(cache, newer, k)
    BY <1>0, <2>3, KeptLess
  <2>5. History(cache', newer', k)
    BY <2>1, <2>4
  <2> QED BY <2>5 DEF KeptInv, History, Unique, Behind, Kept, k
<1>6. ASSUME NEW t \in Threads, Evict(t) PROVE KeptInv'
  <2>1. newer' = newer /\ overlap' = overlap
    BY <1>6 DEF Evict
  <2>2. CASE cache # <<>> /\ cache' = Tail(cache)
    <3>1. t \in Popping /\ Popping \in SUBSET Threads
      BY <1>6 DEF Evict, Step, Popping
    <3>2. Cardinality(Popping) \in Nat \ {0}
      BY <3>1, AuthAssumption, FS_Subset, FS_CardinalityType, FS_EmptySet
    <3>3. Len(cache) + overlap >= MaxEntries + Cardinality(Popping) /\ Len(cache) \in Nat
      BY <1>0, <3>1, LenProperties DEF PopInv
    <3>4. Len(cache) > m
      BY <1>0, <3>2, <3>3 DEF m
    <3>5. History(cache', newer', m)
      BY <1>0, <2>1, <2>2, <3>4, HistoryTail
    <3> QED BY <1>1, <2>1, <3>5
  <2> QED BY <1>2, <1>6, <2>1, <2>2 DEF Evict, Evicted
<1>7. CASE Restart
  <2>1. cache' = <<>> /\ Len(cache') = 0 /\ \A e \in Envelopes : newer'[e] = Envelopes
    BY <1>7, EmptySeq DEF Restart
  <2> QED BY <2>1 DEF KeptInv, History, Unique, Kept
<1>8. CASE ~Restart /\ ~\E t \in Threads : Touch(t) \/ Record(t) \/ TestSize(t) \/ Evict(t)
  BY <1>2, <1>8 DEF Next, SignEnvelope, Arrive, Lookup, CheckCredential, Rotate, Tick, vars
<1> QED BY <1>3, <1>4, <1>5, <1>6, <1>7, <1>8

\* The cache forgets a key only after max_entries others were met since it was last
\* put at the end, less one for each thread that was about to remove a key when
\* another found the cache full, whatever the threads interleave (replay.py:26-31).
THEOREM RecentKeysKept == Spec => []LastSeenKept
<1>1. Init => KeptInv /\ PopInv
  <2> SUFFICES ASSUME Init PROVE KeptInv /\ PopInv
    OBVIOUS
  <2>1. cache = <<>> /\ Len(cache) = 0 /\ \A e \in Envelopes : newer[e] = Envelopes
    BY EmptySeq DEF Init
  <2>2. \A t \in Threads : thread[t].step = "idle"
    BY Parts DEF Init
  <2>3. Popping = {}
    BY <2>2 DEF Popping
  <2> QED BY <2>1, <2>3 DEF KeptInv, History, Unique, Kept, PopInv
<1>2. TypeInv /\ KeptInv => LastSeenKept
  <2> SUFFICES ASSUME TypeInv, KeptInv, NEW e \in Envelopes, e \notin newer[e],
                      Cardinality(newer[e]) + overlap < MaxEntries
               PROVE  Contains(cache, e)
    BY DEF LastSeenKept
  <2>1. overlap \in Nat /\ MaxEntries \in Nat /\ newer[e] \in SUBSET Envelopes
    BY AuthAssumption, FS_CardinalityType DEF TypeInv, Clocks
  <2>2. Cardinality(newer[e]) \in Nat
    BY <2>1, AuthAssumption, FS_Subset, FS_CardinalityType
  <2>3. Cardinality(newer[e]) < MaxEntries - overlap
    BY <2>1, <2>2
  <2> QED BY <2>3 DEF KeptInv, History, Kept
<1> QED BY <1>1, <1>2, TypeInvCorrect, PopStep, KeptStep, PTL DEF Spec
==============================================================================
