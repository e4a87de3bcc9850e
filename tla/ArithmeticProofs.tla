-------------------------- MODULE ArithmeticProofs --------------------------
(***************************************************************************)
(* What the proofs about the proving side need of numbers: induction,      *)
(* pow2 and division.  Recursive functions are treated by induction on     *)
(* sets of numbers (Induct, StrongInduct): a solution is shown to exist,   *)
(* then described value by value.                                          *)
(***************************************************************************)
EXTENDS ProofUnit, NaturalsInduction, WellFoundedInduction, TLAPS

\* A nonempty set of numbers has a least one.
LEMMA LeastNat ==
    ASSUME NEW T, T \subseteq Nat, T # {}
    PROVE  \E x \in T : \A y \in T : x <= y
<1>1. PICK x \in T : \A y \in T : ~ (<<y, x>> \in OpToRel(<, Nat))
  BY NatLessThanWellFounded, WFMin, Zenon
<1>2. \A y \in T : ~ (y < x)
  BY <1>1 DEF OpToRel
<1>. QED
  BY <1>2

\* Induction, for a set: a property is the set of the numbers that have it.
LEMMA Induct ==
    ASSUME NEW S, 0 \in S, \A n \in Nat : n \in S => n + 1 \in S
    PROVE  Nat \subseteq S
<1>. SUFFICES ASSUME Nat \ S # {} PROVE FALSE
  OBVIOUS
<1>1. PICK x \in Nat \ S : \A y \in Nat \ S : x <= y
  BY LeastNat
<1>2. x # 0 /\ x - 1 \in Nat
  BY <1>1
<1>3. x - 1 \in S
  BY <1>1, <1>2
<1>4. (x - 1) + 1 \in S
  BY <1>2, <1>3
<1>. QED
  BY <1>1, <1>4

\* The same with everything below as hypothesis.
LEMMA StrongInduct ==
    ASSUME NEW S, \A n \in Nat : (\A m \in 0 .. n - 1 : m \in S) => n \in S
    PROVE  Nat \subseteq S
<1>. SUFFICES ASSUME Nat \ S # {} PROVE FALSE
  OBVIOUS
<1>1. PICK x \in Nat \ S : \A y \in Nat \ S : x <= y
  BY LeastNat
<1>2. \A m \in 0 .. x - 1 : m \in S
  BY <1>1
<1>. QED
  BY <1>1, <1>2

----------------------------------------------------------------------------
(* Powers of two and division by them. *)

IsPow(f, k) == f = [i \in 0..k |-> IF i = 0 THEN 1 ELSE 2 * f[i - 1]]

\* The recursion of pow2 has a solution.
LEMMA PowExists ==
    ASSUME NEW k \in Nat
    PROVE  \E f : IsPow(f, k)
<1>. DEFINE S == {n \in Nat : \E g : IsPow(g, n)}
<1>1. 0 \in S
  <2>. DEFINE g == [i \in 0..0 |-> 1]
  <2>1. IsPow(g, 0)
    BY DEF IsPow
  <2>. QED BY <2>1
<1>2. ASSUME NEW n \in Nat, n \in S PROVE n + 1 \in S
  <2>1. PICK g : IsPow(g, n)
    BY <1>2
  <2>. DEFINE h == [i \in 0 .. n + 1 |-> IF i = n + 1 THEN 2 * g[n] ELSE g[i]]
  <2>2. h[0] = 1
    BY <2>1 DEF IsPow
  <2>3. ASSUME NEW i \in 1 .. n + 1 PROVE h[i] = 2 * h[i - 1]
    <3>1. h[i - 1] = g[i - 1]
      OBVIOUS
    <3>2. CASE i = n + 1
      BY <3>1, <3>2
    <3>3. CASE i # n + 1
      <4>1. h[i] = g[i] /\ i \in 0..n /\ i # 0
        BY <3>3
      <4>. QED BY <4>1, <2>1, <3>1 DEF IsPow
    <3>. QED BY <3>2, <3>3
  <2>4. DOMAIN h = 0 .. n + 1 /\ h = [i \in DOMAIN h |-> h[i]]
    OBVIOUS
  <2>5. \E f : IsPow(f, n + 1)
    <3>. HIDE DEF h
    <3>1. \A i \in 0 .. n + 1 : h[i] = IF i = 0 THEN 1 ELSE 2 * h[i - 1]
      BY <2>2, <2>3
    <3>. QED BY <3>1, <2>4 DEF IsPow
  <2>. QED BY <2>5
<1>3. Nat \subseteq S
  <2>. HIDE DEF S
  <2>. QED BY <1>1, <1>2, Induct
<1>. QED
  BY <1>3

\* That solution doubles from 1.
LEMMA PowValues ==
    ASSUME NEW k \in Nat, NEW f, IsPow(f, k)
    PROVE  f[0] = 1 /\ \A i \in 1..k : f[i] = 2 * f[i - 1]
<1>. DEFINE body(i) == IF i = 0 THEN 1 ELSE 2 * f[i - 1]
<1>1. f = [i \in 0..k |-> body(i)]
  BY DEF IsPow
<1>2. \A i \in 0..k : f[i] = body(i)
  <2>. HIDE DEF body
  <2>. QED BY <1>1
<1>. QED
  BY <1>2

\* Two such solutions agree where both are defined.
LEMMA PowAgree ==
    ASSUME NEW k \in Nat, NEW f, IsPow(f, k), NEW m \in Nat, NEW g, IsPow(g, m)
    PROVE  \A i \in Nat : i <= k /\ i <= m => f[i] = g[i]
<1>. DEFINE S == {i \in Nat : i <= k /\ i <= m => f[i] = g[i]}
<1>1. f[0] = 1 /\ \A i \in 1..k : f[i] = 2 * f[i - 1]
  BY PowValues
<1>2. g[0] = 1 /\ \A i \in 1..m : g[i] = 2 * g[i - 1]
  BY PowValues
<1>3. 0 \in S
  BY <1>1, <1>2
<1>4. ASSUME NEW i \in Nat, i \in S PROVE i + 1 \in S
  <2>. SUFFICES ASSUME i + 1 <= k, i + 1 <= m PROVE f[i + 1] = g[i + 1]
    OBVIOUS
  <2>1. i + 1 \in 1..k /\ i + 1 \in 1..m /\ (i + 1) - 1 = i /\ f[i] = g[i]
    BY <1>4
  <2>. QED BY <1>1, <1>2, <2>1
<1>5. Nat \subseteq S
  <2>. HIDE DEF S
  <2>. QED BY <1>3, <1>4, Induct
<1>. QED
  BY <1>5

\* pow2 doubles from 1.
LEMMA PowStep ==
    ASSUME NEW k \in Nat
    PROVE  pow2(0) = 1 /\ pow2(k + 1) = 2 * pow2(k)
<1>1. \A n \in Nat : \E f : IsPow(f, n) /\ pow2(n) = f[n]
  <2>. SUFFICES ASSUME NEW n \in Nat PROVE \E f : IsPow(f, n) /\ pow2(n) = f[n]
    OBVIOUS
  <2>. DEFINE f == CHOOSE f : IsPow(f, n)
  <2>1. IsPow(f, n)
    BY PowExists, Zenon
  <2>2. pow2(n) = f[n]
    BY DEF pow2, IsPow
  <2>. QED BY <2>1, <2>2, Zenon
<1>2. PICK f : IsPow(f, 0) /\ pow2(0) = f[0]
  BY <1>1
<1>3. PICK g : IsPow(g, k) /\ pow2(k) = g[k]
  BY <1>1
<1>4. PICK h : IsPow(h, k + 1) /\ pow2(k + 1) = h[k + 1]
  BY <1>1
<1>5. pow2(0) = 1
  BY <1>2, PowValues
<1>6. h[k + 1] = 2 * h[k]
  <2>1. k + 1 \in Nat /\ k + 1 \in 1 .. k + 1 /\ (k + 1) - 1 = k
    OBVIOUS
  <2>2. \A i \in 1 .. k + 1 : h[i] = 2 * h[i - 1]
    BY <1>4, <2>1, PowValues
  <2>. QED BY <2>1, <2>2
<1>7. h[k] = g[k]
  <2>1. k + 1 \in Nat /\ k <= k + 1 /\ k <= k
    OBVIOUS
  <2>. QED BY <1>3, <1>4, <2>1, PowAgree
<1>. QED
  BY <1>3, <1>4, <1>5, <1>6, <1>7

\* pow2(k) is positive and exceeds k.
LEMMA PowPositive == \A k \in Nat : pow2(k) \in Nat \ {0} /\ k < pow2(k)
<1>. DEFINE S == {k \in Nat : pow2(k) \in Nat \ {0} /\ k < pow2(k)}
<1>1. 0 \in S
  BY PowStep
<1>2. ASSUME NEW k \in Nat, k \in S PROVE k + 1 \in S
  BY <1>2, PowStep
<1>3. Nat \subseteq S
  <2>. HIDE DEF S
  <2>. QED BY <1>1, <1>2, Induct
<1>. QED
  BY <1>3

\* pow2 turns sums into products.
LEMMA PowSplit ==
    ASSUME NEW a \in Nat
    PROVE  \A b \in Nat : pow2(a + b) = pow2(a) * pow2(b)
<1>. DEFINE S == {b \in Nat : pow2(a + b) = pow2(a) * pow2(b)}
<1>1. 0 \in S
  <2>1. a + 0 = a /\ pow2(a) \in Nat /\ pow2(0) = 1
    BY PowStep, PowPositive
  <2>. QED BY <2>1
<1>2. ASSUME NEW b \in Nat, b \in S PROVE b + 1 \in S
  <2>1. pow2(a + (b + 1)) = 2 * pow2(a + b)
    <3>1. a + (b + 1) = (a + b) + 1 /\ a + b \in Nat
      OBVIOUS
    <3>. QED BY <3>1, PowStep
  <2>2. pow2(b + 1) = 2 * pow2(b)
    BY PowStep
  <2>3. pow2(a) \in Nat /\ pow2(b) \in Nat
    BY PowPositive
  <2>4. 2 * (pow2(a) * pow2(b)) = pow2(a) * (2 * pow2(b))
    BY <2>3
  <2>. QED BY <1>2, <2>1, <2>2, <2>4
<1>3. Nat \subseteq S
  <2>. HIDE DEF S
  <2>. QED BY <1>1, <1>2, Induct
<1>. QED
  BY <1>3

\* Division, from quotient and remainder.
LEMMA Quotient ==
    ASSUME NEW x \in Int, NEW p \in Nat \ {0}, NEW q \in Int, NEW r \in 0 .. p - 1, x = p * q + r
    PROVE  x \div p = q /\ x % p = r
<1>. DEFINE u == x \div p
            v == x % p
<1>1. u \in Int /\ v \in 0 .. p - 1 /\ x = p * u + v
  OBVIOUS
<1>. HIDE DEF u, v
<1>2. ~ (u >= q + 1)
  <2>. SUFFICES ASSUME u >= q + 1 PROVE FALSE
    OBVIOUS
  <2>1. p * (u - q - 1) >= 0 /\ p * (u - q - 1) = p * u - p * q - p
    BY <1>1
  <2>. QED BY <1>1, <2>1
<1>3. ~ (u <= q - 1)
  <2>. SUFFICES ASSUME u <= q - 1 PROVE FALSE
    OBVIOUS
  <2>1. p * (q - 1 - u) >= 0 /\ p * (q - 1 - u) = p * q - p - p * u
    BY <1>1
  <2>. QED BY <1>1, <2>1
<1>4. u = q
  BY <1>1, <1>2, <1>3
<1>5. v = r
  BY <1>1, <1>4
<1>. QED
  BY <1>4, <1>5 DEF u, v

\* A multiple divides exactly.
LEMMA DivExact ==
    ASSUME NEW y \in Int, NEW p \in Nat \ {0}
    PROVE  (y * p) \div p = y
<1>1. y * p = p * y + 0 /\ y * p \in Int /\ 0 \in 0 .. p - 1
  OBVIOUS
<1>. DEFINE x == y * p
<1>. HIDE DEF x
<1>2. x \div p = y
  BY <1>1, Quotient DEF x
<1>. QED
  BY <1>2 DEF x

\* Dividing by p and by 2 is dividing by 2 * p.
LEMMA DivTwice ==
    ASSUME NEW i \in Nat, NEW p \in Nat \ {0}
    PROVE  (i \div p) \div 2 = i \div (2 * p) /\ i \div p \in Nat
<1>. DEFINE q == i \div p
            r == i % p
            h == q \div 2
            b == q % 2
<1>1. q \in Int /\ r \in 0 .. p - 1 /\ i = p * q + r
  OBVIOUS
<1>2. h \in Int /\ b \in 0..1 /\ q = 2 * h + b
  BY <1>1
<1>. HIDE DEF q, r, h, b
<1>3. q >= 0
  <2>. SUFFICES ASSUME q <= -1 PROVE FALSE
    BY <1>1
  <2>1. p * (-1 - q) >= 0 /\ p * (-1 - q) = -p - p * q
    BY <1>1
  <2>. QED BY <1>1, <2>1
<1>4. i = (2 * p) * h + (p * b + r) /\ p * b + r \in 0 .. 2 * p - 1
  <2>1. p * q = (2 * p) * h + p * b
    BY <1>2
  <2>2. b = 0 \/ b = 1
    BY <1>2
  <2>3. p * b \in Nat /\ p * b <= p
    BY <2>2
  <2>. QED BY <1>1, <1>2, <2>1, <2>3
<1>5. i \div (2 * p) = h
  <2>. DEFINE pp == 2 * p
              rr == p * b + r
  <2>1. pp \in Nat \ {0} /\ rr \in 0 .. pp - 1 /\ i = pp * h + rr /\ i \in Int
    BY <1>4
  <2>. HIDE DEF pp, rr
  <2>2. i \div pp = h
    BY <1>2, <2>1, Quotient
  <2>. QED BY <2>2 DEF pp
<1>. QED
  BY <1>1, <1>3, <1>5 DEF h, q

----------------------------------------------------------------------------
(* Sums. *)

IsSum(s, f, n) == s = [i \in 0..n |-> IF i = 0 THEN 0 ELSE s[i - 1] + f[i]]

\* The recursion of SumTo has a solution.
LEMMA SumExists ==
    ASSUME NEW f, NEW n \in Nat
    PROVE  \E s : IsSum(s, f, n)
<1>. DEFINE S == {m \in Nat : \E s : IsSum(s, f, m)}
<1>1. 0 \in S
  <2>. DEFINE s == [i \in 0..0 |-> 0]
  <2>1. IsSum(s, f, 0)
    BY DEF IsSum
  <2>. QED BY <2>1
<1>2. ASSUME NEW m \in Nat, m \in S PROVE m + 1 \in S
  <2>1. PICK s : IsSum(s, f, m)
    BY <1>2
  <2>. DEFINE h == [i \in 0 .. m + 1 |-> IF i = m + 1 THEN s[m] + f[m + 1] ELSE s[i]]
  <2>2. h[0] = 0
    BY <2>1 DEF IsSum
  <2>3. ASSUME NEW i \in 1 .. m + 1 PROVE h[i] = h[i - 1] + f[i]
    <3>1. h[i - 1] = s[i - 1]
      OBVIOUS
    <3>2. CASE i = m + 1
      BY <3>1, <3>2
    <3>3. CASE i # m + 1
      <4>1. h[i] = s[i] /\ i \in 0..m /\ i # 0
        BY <3>3
      <4>. QED BY <4>1, <2>1, <3>1 DEF IsSum
    <3>. QED BY <3>2, <3>3
  <2>4. DOMAIN h = 0 .. m + 1 /\ h = [i \in DOMAIN h |-> h[i]]
    OBVIOUS
  <2>5. \E g : IsSum(g, f, m + 1)
    <3>. HIDE DEF h
    <3>1. \A i \in 0 .. m + 1 : h[i] = IF i = 0 THEN 0 ELSE h[i - 1] + f[i]
      BY <2>2, <2>3
    <3>. QED BY <3>1, <2>4 DEF IsSum
  <2>. QED BY <2>5
<1>3. Nat \subseteq S
  <2>. HIDE DEF S
  <2>. QED BY <1>1, <1>2, Induct
<1>. QED
  BY <1>3

\* That solution adds one term after the other.
LEMMA SumValues ==
    ASSUME NEW n \in Nat, NEW f, NEW s, IsSum(s, f, n)
    PROVE  s[0] = 0 /\ \A i \in 1..n : s[i] = s[i - 1] + f[i]
<1>. DEFINE body(i) == IF i = 0 THEN 0 ELSE s[i - 1] + f[i]
<1>1. s = [i \in 0..n |-> body(i)]
  BY DEF IsSum
<1>2. \A i \in 0..n : s[i] = body(i)
  <2>. HIDE DEF body
  <2>. QED BY <1>1
<1>. QED
  BY <1>2

\* Sums of equal terms are equal.
LEMMA SumsAgree ==
    ASSUME NEW n \in Nat, NEW f, NEW s, IsSum(s, f, n),
           NEW m \in Nat, NEW g, NEW t, IsSum(t, g, m),
           NEW l \in Nat, l <= n, l <= m, \A i \in 1..l : f[i] = g[i]
    PROVE  s[l] = t[l]
<1>. DEFINE S == {i \in Nat : i <= l => s[i] = t[i]}
<1>1. s[0] = 0 /\ \A i \in 1..n : s[i] = s[i - 1] + f[i]
  BY SumValues
<1>2. t[0] = 0 /\ \A i \in 1..m : t[i] = t[i - 1] + g[i]
  BY SumValues
<1>3. 0 \in S
  BY <1>1, <1>2
<1>4. ASSUME NEW i \in Nat, i \in S PROVE i + 1 \in S
  <2>. SUFFICES ASSUME i + 1 <= l PROVE s[i + 1] = t[i + 1]
    OBVIOUS
  <2>1. i + 1 \in 1..n /\ i + 1 \in 1..m /\ i + 1 \in 1..l /\ (i + 1) - 1 = i /\ s[i] = t[i]
    BY <1>4
  <2>. QED BY <1>1, <1>2, <2>1
<1>5. Nat \subseteq S
  <2>. HIDE DEF S
  <2>. QED BY <1>3, <1>4, Induct
<1>. QED
  BY <1>5

\* The sum up to n is the last of a run of partial sums.
LEMMA SumIs ==
    ASSUME NEW f, NEW n \in Nat
    PROVE  \E s : IsSum(s, f, n) /\ SumTo(f, n) = s[n]
<1>. DEFINE s == CHOOSE s : IsSum(s, f, n)
<1>1. IsSum(s, f, n)
  BY SumExists, Zenon
<1>2. SumTo(f, n) = s[n]
  BY DEF SumTo, IsSum
<1>. QED BY <1>1, <1>2, Zenon

\* SumTo adds one term after the other.
LEMMA SumStep ==
    ASSUME NEW f, NEW n \in Nat
    PROVE  SumTo(f, 0) = 0 /\ SumTo(f, n + 1) = SumTo(f, n) + f[n + 1]
<1>1. PICK r : IsSum(r, f, 0) /\ SumTo(f, 0) = r[0]
  BY SumIs
<1>2. PICK s : IsSum(s, f, n) /\ SumTo(f, n) = s[n]
  BY SumIs
<1>3. PICK t : IsSum(t, f, n + 1) /\ SumTo(f, n + 1) = t[n + 1]
  <2>1. n + 1 \in Nat
    OBVIOUS
  <2>. QED BY <2>1, SumIs
<1>4. SumTo(f, 0) = 0
  BY <1>1, SumValues
<1>5. n + 1 \in Nat /\ n + 1 \in 1 .. n + 1 /\ (n + 1) - 1 = n /\ n <= n + 1 /\ n <= n
  OBVIOUS
<1>6. t[n + 1] = t[n] + f[n + 1]
  <2>1. \A i \in 1 .. n + 1 : t[i] = t[i - 1] + f[i]
    BY <1>3, <1>5, SumValues
  <2>. QED BY <1>5, <2>1
<1>7. t[n] = s[n]
  BY <1>2, <1>3, <1>5, SumsAgree
<1>. QED
  BY <1>2, <1>3, <1>4, <1>6, <1>7

\* A sum depends on its terms alone.
LEMMA SumAgree ==
    ASSUME NEW n \in Nat, NEW f, NEW g, \A k \in 1..n : f[k] = g[k]
    PROVE  SumTo(f, n) = SumTo(g, n)
<1>1. PICK s : IsSum(s, f, n) /\ SumTo(f, n) = s[n]
  BY SumIs
<1>2. PICK t : IsSum(t, g, n) /\ SumTo(g, n) = t[n]
  BY SumIs
<1>3. n <= n
  OBVIOUS
<1>. QED
  BY <1>1, <1>2, <1>3, SumsAgree

\* Every part of a sum of integers is an integer.
LEMMA SumInt ==
    ASSUME NEW n \in Nat, NEW f, \A k \in 1..n : f[k] \in Int
    PROVE  \A m \in 0..n : SumTo(f, m) \in Int
<1>. DEFINE S == {m \in Nat : m <= n => SumTo(f, m) \in Int}
<1>1. 0 \in S
  BY SumStep
<1>2. ASSUME NEW m \in Nat, m \in S PROVE m + 1 \in S
  <2>1. SumTo(f, m + 1) = SumTo(f, m) + f[m + 1]
    BY SumStep
  <2>. QED BY <1>2, <2>1
<1>3. Nat \subseteq S
  <2>. HIDE DEF S
  <2>. QED BY <1>1, <1>2, Induct
<1>. QED
  BY <1>3

\* Sums are linear.
LEMMA SumLinear ==
    ASSUME NEW n \in Nat, NEW f, NEW g, NEW h, NEW c \in Int,
           \A k \in 1..n : f[k] \in Int /\ g[k] \in Int /\ h[k] = f[k] + c * g[k]
    PROVE  SumTo(h, n) = SumTo(f, n) + c * SumTo(g, n)
<1>. DEFINE S == {m \in Nat : m <= n => SumTo(h, m) = SumTo(f, m) + c * SumTo(g, m)}
<1>0. \A m \in 0..n : SumTo(f, m) \in Int /\ SumTo(g, m) \in Int
  BY SumInt
<1>1. 0 \in S
  <2>1. SumTo(f, 0) = 0 /\ SumTo(g, 0) = 0 /\ SumTo(h, 0) = 0
    BY SumStep
  <2>2. 0 = 0 + c * 0
    OBVIOUS
  <2>. QED BY <2>1, <2>2
<1>2. ASSUME NEW m \in Nat, m \in S PROVE m + 1 \in S
  <2>. SUFFICES ASSUME m + 1 <= n PROVE SumTo(h, m + 1) = SumTo(f, m + 1) + c * SumTo(g, m + 1)
    OBVIOUS
  <2>1. /\ SumTo(f, m + 1) = SumTo(f, m) + f[m + 1]
        /\ SumTo(g, m + 1) = SumTo(g, m) + g[m + 1]
        /\ SumTo(h, m + 1) = SumTo(h, m) + h[m + 1]
    BY SumStep
  <2>. DEFINE sf == SumTo(f, m)  sg == SumTo(g, m)  sh == SumTo(h, m)
              x == f[m + 1]  y == g[m + 1]
  <2>2. /\ sf \in Int /\ sg \in Int /\ x \in Int /\ y \in Int
        /\ sh = sf + c * sg /\ h[m + 1] = x + c * y
    BY <1>0, <1>2
  <2>. HIDE DEF sf, sg, sh, x, y
  <2>3. sh + (x + c * y) = (sf + x) + c * (sg + y)
    BY <2>2
  <2>. QED BY <2>1, <2>2, <2>3 DEF sf, sg, sh, x, y
<1>3. Nat \subseteq S
  <2>. HIDE DEF S
  <2>. QED BY <1>1, <1>2, Induct
<1>. QED
  BY <1>3

\* Larger terms have a larger sum.
LEMMA SumMonotone ==
    ASSUME NEW n \in Nat, NEW f, NEW g,
           \A k \in 1..n : f[k] \in Int /\ g[k] \in Int /\ f[k] <= g[k]
    PROVE  SumTo(f, n) <= SumTo(g, n)
<1>. DEFINE S == {m \in Nat : m <= n => SumTo(f, m) <= SumTo(g, m)}
<1>0. \A m \in 0..n : SumTo(f, m) \in Int /\ SumTo(g, m) \in Int
  BY SumInt
<1>1. 0 \in S
  BY SumStep
<1>2. ASSUME NEW m \in Nat, m \in S PROVE m + 1 \in S
  <2>1. SumTo(f, m + 1) = SumTo(f, m) + f[m + 1] /\ SumTo(g, m + 1) = SumTo(g, m) + g[m + 1]
    BY SumStep
  <2>. QED BY <1>0, <1>2, <2>1
<1>3. Nat \subseteq S
  <2>. HIDE DEF S
  <2>. QED BY <1>1, <1>2, Induct
<1>. QED
  BY <1>3

\* n times c.
LEMMA SumConstant ==
    ASSUME NEW n \in Nat, NEW c \in Int, NEW f, \A k \in 1..n : f[k] = c
    PROVE  SumTo(f, n) = n * c
<1>. DEFINE S == {m \in Nat : m <= n => SumTo(f, m) = m * c}
<1>1. 0 \in S
  <2>1. 0 = 0 * c
    OBVIOUS
  <2>. QED BY <2>1, SumStep
<1>2. ASSUME NEW m \in Nat, m \in S PROVE m + 1 \in S
  <2>1. SumTo(f, m + 1) = SumTo(f, m) + f[m + 1]
    BY SumStep
  <2>2. m * c + c = (m + 1) * c
    OBVIOUS
  <2>. QED BY <1>2, <2>1, <2>2
<1>3. Nat \subseteq S
  <2>. HIDE DEF S
  <2>. QED BY <1>1, <1>2, Induct
<1>. QED
  BY <1>3

\* A sum splits where one likes.
LEMMA SumSplits ==
    ASSUME NEW m \in Nat, NEW n \in Nat, NEW f, NEW g,
           \A k \in 1 .. m + n : f[k] \in Int, \A k \in 1..n : g[k] = f[m + k]
    PROVE  SumTo(f, m + n) = SumTo(f, m) + SumTo(g, n)
<1>. DEFINE S == {i \in Nat : i <= n => SumTo(f, m + i) = SumTo(f, m) + SumTo(g, i)}
<1>0. /\ \A i \in 0 .. m + n : SumTo(f, i) \in Int
      /\ \A i \in 0..n : SumTo(g, i) \in Int
  <2>1. \A k \in 1..n : g[k] \in Int
    OBVIOUS
  <2>2. m + n \in Nat
    OBVIOUS
  <2>. QED BY <2>1, <2>2, SumInt
<1>1. 0 \in S
  <2>1. m + 0 = m /\ SumTo(g, 0) = 0 /\ SumTo(f, m) \in Int
    BY <1>0, SumStep
  <2>. QED BY <2>1
<1>2. ASSUME NEW i \in Nat, i \in S PROVE i + 1 \in S
  <2>. SUFFICES ASSUME i + 1 <= n PROVE SumTo(f, m + (i + 1)) = SumTo(f, m) + SumTo(g, i + 1)
    OBVIOUS
  <2>1. m + (i + 1) = (m + i) + 1 /\ m + i \in Nat
    OBVIOUS
  <2>2. SumTo(f, (m + i) + 1) = SumTo(f, m + i) + f[(m + i) + 1] /\ SumTo(g, i + 1) = SumTo(g, i) + g[i + 1]
    BY <2>1, SumStep
  <2>3. g[i + 1] = f[(m + i) + 1] /\ f[(m + i) + 1] \in Int
    <3>1. i + 1 \in 1..n /\ (m + i) + 1 \in 1 .. m + n
      OBVIOUS
    <3>. QED BY <3>1, <2>1
  <2>4. SumTo(f, m) \in Int /\ SumTo(g, i) \in Int
    BY <1>0
  <2>. QED BY <1>2, <2>1, <2>2, <2>3, <2>4
<1>3. Nat \subseteq S
  <2>. HIDE DEF S
  <2>. QED BY <1>1, <1>2, Induct
<1>. QED
  BY <1>3

Transposed(f, g, n, m) == \A k \in 1..n, i \in 1..m : f[k][i] \in Int /\ g[i][k] = f[k][i]
SumsOf(sums, f, n, m) == \A k \in 1..n : sums[k] = SumTo(f[k], m)

\* Adding up a table row by row or column by column comes to the same.
LEMMA SumSwaps ==
    ASSUME NEW m \in Nat, NEW n \in Nat, NEW f, NEW g, Transposed(f, g, n, m),
           NEW rows, SumsOf(rows, f, n, m), NEW columns, SumsOf(columns, g, m, n)
    PROVE  SumTo(rows, n) = SumTo(columns, m)
<1>. USE DEF Transposed, SumsOf
<1>. DEFINE upto(j) == [i \in 1..m |-> SumTo(g[i], j)]
            S == {j \in Nat : j <= n => SumTo(rows, j) = SumTo(upto(j), m)}
<1>0. \A i \in 1..m : \A j \in 0..n : SumTo(g[i], j) \in Int
  BY SumInt
<1>1. 0 \in S
  <2>1. \A i \in 1..m : upto(0)[i] = 0
    BY SumStep
  <2>. HIDE DEF upto
  <2>2. SumTo(upto(0), m) = m * 0
    BY <2>1, SumConstant
  <2>3. m * 0 = 0 /\ SumTo(rows, 0) = 0
    BY SumStep
  <2>. QED BY <2>2, <2>3
<1>2. ASSUME NEW j \in Nat, j \in S PROVE j + 1 \in S
  <2>. SUFFICES ASSUME j + 1 <= n PROVE SumTo(rows, j + 1) = SumTo(upto(j + 1), m)
    OBVIOUS
  <2>0. j + 1 \in 1..n /\ j \in 0..n
    OBVIOUS
  <2>1. \A i \in 1..m : /\ upto(j)[i] \in Int /\ f[j + 1][i] \in Int
                        /\ upto(j + 1)[i] = upto(j)[i] + 1 * f[j + 1][i]
    <3>. SUFFICES ASSUME NEW i \in 1..m
                  PROVE  /\ SumTo(g[i], j) \in Int /\ f[j + 1][i] \in Int
                         /\ SumTo(g[i], j + 1) = SumTo(g[i], j) + 1 * f[j + 1][i]
      OBVIOUS
    <3>1. SumTo(g[i], j + 1) = SumTo(g[i], j) + g[i][j + 1]
      BY SumStep
    <3>2. g[i][j + 1] = f[j + 1][i] /\ f[j + 1][i] \in Int
      BY <2>0
    <3>3. SumTo(g[i], j) \in Int
      BY <1>0, <2>0
    <3>. QED BY <3>1, <3>2, <3>3
  <2>2. rows[j + 1] = SumTo(f[j + 1], m)
    BY <2>0
  <2>3. SumTo(rows, j) = SumTo(upto(j), m)
    BY <1>2
  <2>. HIDE DEF upto
  <2>4. SumTo(upto(j + 1), m) = SumTo(upto(j), m) + 1 * SumTo(f[j + 1], m)
    BY <2>1, SumLinear
  <2>5. SumTo(f[j + 1], m) \in Int
    <3>1. \A i \in 1..m : f[j + 1][i] \in Int
      BY <2>1
    <3>2. m \in 0..m
      OBVIOUS
    <3>. QED BY <3>1, <3>2, SumInt
  <2>6. SumTo(rows, j + 1) = SumTo(rows, j) + rows[j + 1]
    BY SumStep
  <2>. QED BY <2>2, <2>3, <2>4, <2>5, <2>6
<1>3. Nat \subseteq S
  <2>. HIDE DEF S
  <2>. QED BY <1>1, <1>2, Induct
<1>4. SumTo(rows, n) = SumTo(upto(n), m)
  BY <1>3
<1>5. SumTo(upto(n), m) = SumTo(columns, m)
  <2>1. \A i \in 1..m : upto(n)[i] = columns[i]
    OBVIOUS
  <2>. HIDE DEF upto
  <2>. QED BY <2>1, SumAgree
<1>. QED
  BY <1>4, <1>5

\* Division leaves the same remainder after any multiple of the divisor.
LEMMA SameRemainder ==
    ASSUME NEW y \in Int, NEW q \in Int, NEW p \in Nat \ {0}
    PROVE  (y + p * q) % p = y % p
<1>. DEFINE x == y + p * q
            u == y \div p
            r == y % p
<1>1. u \in Int /\ r \in 0 .. p - 1 /\ y = p * u + r
  OBVIOUS
<1>. HIDE DEF u, r
<1>2. x = p * (u + q) + r /\ u + q \in Int
  <2>1. p * (u + q) = p * u + p * q
    BY <1>1
  <2>. QED BY <1>1, <2>1
<1>3. x % p = r
  BY <1>1, <1>2, Quotient
<1>. QED
  BY <1>3, Zenon DEF r, x

\* A number smaller than p that p divides is 0.
LEMMA SmallMultiple ==
    ASSUME NEW x \in Int, NEW p \in Nat \ {0}, x % p = 0, - p < x, x < p
    PROVE  x = 0
<1>. DEFINE q == x \div p
<1>1. q \in Int /\ x = p * q
  <2>1. x = p * (x \div p) + (x % p) /\ x \div p \in Int
    OBVIOUS
  <2>. QED BY <2>1
<1>. HIDE DEF q
<1>2. ~ (q >= 1)
  <2>. SUFFICES ASSUME q >= 1 PROVE FALSE
    OBVIOUS
  <2>1. p * (q - 1) >= 0 /\ p * (q - 1) = p * q - p
    BY <1>1
  <2>. QED BY <1>1, <2>1
<1>3. ~ (q <= -1)
  <2>. SUFFICES ASSUME q <= -1 PROVE FALSE
    OBVIOUS
  <2>1. p * (-1 - q) >= 0 /\ p * (-1 - q) = - p - p * q
    BY <1>1
  <2>. QED BY <1>1, <2>1
<1>4. q = 0
  BY <1>1, <1>2, <1>3
<1>. QED
  BY <1>1, <1>4

\* Quotient and remainder.
LEMMA DivRule ==
    ASSUME NEW x \in Int, NEW p \in Nat \ {0}
    PROVE  x \div p \in Int /\ x % p \in 0 .. p - 1 /\ x = p * (x \div p) + (x % p)
<1>. DEFINE u == x \div p
            v == x % p
<1>1. u \in Int /\ v \in 0 .. p - 1 /\ x = p * u + v
  OBVIOUS
<1>. QED
  BY <1>1, Zenon

\* A number that differs from its remainder by less than p is the remainder.
LEMMA NoMultiple ==
    ASSUME NEW x \in Int, NEW p \in Nat \ {0}, - p < x - (x % p), x - (x % p) < p
    PROVE  x % p = x
<1>. DEFINE q == x \div p
            r == x % p
            pq == p * q
<1>1. q \in Int /\ r \in 0 .. p - 1 /\ x = p * q + r
  BY DivRule
<1>2. - p < x - r /\ x - r < p
  BY Zenon
<1>3. pq \in Int /\ x = pq + r
  BY <1>1
<1>. HIDE DEF q, r, pq
<1>4. - p < pq /\ pq < p
  BY <1>1, <1>2, <1>3
<1>5. q = 0
  <2>1. ~ (q >= 1)
    <3>. SUFFICES ASSUME q >= 1 PROVE FALSE
      OBVIOUS
    <3>1. p * (q - 1) >= 0 /\ p * (q - 1) = pq - p
      BY <1>1 DEF pq
    <3>. QED BY <1>3, <1>4, <3>1
  <2>2. ~ (q <= -1)
    <3>. SUFFICES ASSUME q <= -1 PROVE FALSE
      OBVIOUS
    <3>1. p * (-1 - q) >= 0 /\ p * (-1 - q) = - p - pq
      BY <1>1 DEF pq
    <3>. QED BY <1>3, <1>4, <3>1
  <2>. QED BY <1>1, <2>1, <2>2
<1>6. x = r
  BY <1>1, <1>5
<1>. QED
  BY <1>6 DEF r

\* A constant factor comes out of a sum.
LEMMA SumScales ==
    ASSUME NEW n \in Nat, NEW g, NEW h, NEW c \in Int,
           \A k \in 1..n : g[k] \in Int /\ h[k] = c * g[k]
    PROVE  SumTo(h, n) = c * SumTo(g, n) /\ SumTo(g, n) \in Int
<1>. DEFINE z == [k \in 1..n |-> 0]
<1>1. \A k \in 1..n : z[k] = 0 /\ z[k] \in Int /\ g[k] \in Int /\ h[k] = z[k] + c * g[k]
  <2>. SUFFICES ASSUME NEW k \in 1..n PROVE g[k] \in Int /\ h[k] = 0 + c * g[k]
    OBVIOUS
  <2>1. g[k] \in Int /\ h[k] = c * g[k] /\ c * g[k] \in Int
    OBVIOUS
  <2>. QED BY <2>1
<1>. HIDE DEF z
<1>2. SumTo(h, n) = SumTo(z, n) + c * SumTo(g, n)
  BY <1>1, SumLinear
<1>3. SumTo(z, n) = n * 0
  BY <1>1, SumConstant
<1>4. SumTo(g, n) \in Int
  <2>1. n \in 0..n
    OBVIOUS
  <2>. QED BY <1>1, <2>1, SumInt
<1>5. c * SumTo(g, n) \in Int /\ n * 0 = 0
  BY <1>4
<1>. QED
  BY <1>2, <1>3, <1>4, <1>5

\* A sum does not depend on where it starts when it goes round.
LEMMA SumRotates ==
    ASSUME NEW n \in Nat, NEW i \in 1..n, NEW f, NEW g,
           \A k \in 1..n : f[k] \in Int /\ g[k] = f[k + 1 - i + (IF i > k THEN n ELSE 0)]
    PROVE  SumTo(g, n) = SumTo(f, n)
<1>. DEFINE m == i - 1
            l == n - m
            upper == [k \in 1..l |-> g[m + k]]
            lower == [k \in 1..m |-> f[l + k]]
<1>1. m \in Nat /\ l \in Nat /\ m + l = n /\ l + m = n /\ m <= n /\ l <= n
  OBVIOUS
<1>2. \A k \in 1..l : upper[k] = g[m + k] /\ upper[k] = f[k]
  <2>. SUFFICES ASSUME NEW k \in 1..l PROVE g[m + k] = f[k]
    OBVIOUS
  <2>1. m + k \in 1..n /\ ~ (i > m + k) /\ (m + k) + 1 - i + 0 = k
    OBVIOUS
  <2>2. g[m + k] = f[(m + k) + 1 - i + (IF i > m + k THEN n ELSE 0)]
    BY <2>1
  <2>. QED BY <2>1, <2>2
<1>3. \A k \in 1..m : lower[k] = f[l + k] /\ g[k] = lower[k]
  <2>. SUFFICES ASSUME NEW k \in 1..m PROVE g[k] = f[l + k]
    OBVIOUS
  <2>1. k \in 1..n /\ i > k /\ k + 1 - i + n = l + k
    OBVIOUS
  <2>2. g[k] = f[k + 1 - i + (IF i > k THEN n ELSE 0)]
    BY <2>1
  <2>. QED BY <2>1, <2>2
<1>4. \A k \in 1..n : f[k] \in Int /\ g[k] \in Int
  <2>. SUFFICES ASSUME NEW k \in 1..n PROVE g[k] \in Int
    OBVIOUS
  <2>1. k + 1 - i + (IF i > k THEN n ELSE 0) \in 1..n
    OBVIOUS
  <2>. QED BY <2>1
<1>. HIDE DEF m, l, upper, lower
<1>5. SumTo(g, m + l) = SumTo(g, m) + SumTo(upper, l)
  <2>1. \A k \in 1 .. m + l : g[k] \in Int
    BY <1>1, <1>4
  <2>. QED BY <1>1, <1>2, <2>1, SumSplits
<1>6. SumTo(f, l + m) = SumTo(f, l) + SumTo(lower, m)
  <2>1. \A k \in 1 .. l + m : f[k] \in Int
    BY <1>1, <1>4
  <2>. QED BY <1>1, <1>3, <2>1, SumSplits
<1>7. SumTo(upper, l) = SumTo(f, l)
  BY <1>1, <1>2, SumAgree
<1>8. SumTo(g, m) = SumTo(lower, m)
  BY <1>1, <1>3, SumAgree
<1>9. SumTo(f, l) \in Int /\ SumTo(g, m) \in Int
  <2>1. l \in 0..n /\ m \in 0..n
    BY <1>1
  <2>. QED BY <1>4, <2>1, SumInt
<1>10. SumTo(g, n) = SumTo(g, m) + SumTo(f, l) /\ SumTo(f, n) = SumTo(f, l) + SumTo(g, m)
  BY <1>1, <1>5, <1>6, <1>7, <1>8
<1>. QED
  BY <1>9, <1>10

ShiftedBy(s, g, n, f, m) == \A k \in 1..n : g[k] = IF k - s \in 1..m THEN f[k - s] ELSE 0

\* A sum does not change when its terms are shifted and zeros put around them.
LEMMA SumShifts ==
    ASSUME NEW m \in Nat, NEW s \in Nat, NEW n \in Nat, m + s <= n, NEW f, NEW g,
           \A i \in 1..m : f[i] \in Int, ShiftedBy(s, g, n, f, m)
    PROVE  SumTo(g, n) = SumTo(f, m)
<1>. USE DEF ShiftedBy
<1>. DEFINE l == n - s
            tail == n - s - m
            upper == [k \in 1..l |-> g[s + k]]
            rest == [k \in 1..tail |-> upper[m + k]]
<1>0. \A k \in 1..n : g[k] \in Int
  OBVIOUS
<1>1. l \in Nat /\ tail \in Nat /\ s + l = n /\ m + tail = l /\ s \in 0..n
  OBVIOUS
<1>2. \A k \in 1..s : g[k] = 0
  OBVIOUS
<1>3. \A k \in 1..l : upper[k] = g[s + k] /\ upper[k] \in Int
  <2>1. \A k \in 1..l : s + k \in 1..n
    OBVIOUS
  <2>. QED BY <1>0, <2>1
<1>4. \A k \in 1..m : upper[k] = f[k]
  <2>. SUFFICES ASSUME NEW k \in 1..m PROVE g[s + k] = f[k]
    OBVIOUS
  <2>1. s + k \in 1..n /\ (s + k) - s = k
    OBVIOUS
  <2>. QED BY <2>1
<1>5. \A k \in 1..tail : rest[k] = upper[m + k] /\ rest[k] = 0
  <2>. SUFFICES ASSUME NEW k \in 1..tail PROVE upper[m + k] = 0
    OBVIOUS
  <2>1. m + k \in 1..l /\ s + (m + k) \in 1..n /\ ~ ((s + (m + k)) - s \in 1..m)
    OBVIOUS
  <2>. QED BY <2>1
<1>. HIDE DEF l, tail, upper, rest
<1>6. SumTo(g, s + l) = SumTo(g, s) + SumTo(upper, l)
  <2>1. \A k \in 1 .. s + l : g[k] \in Int
    BY <1>0, <1>1
  <2>. QED BY <1>1, <1>3, <2>1, SumSplits
<1>7. SumTo(upper, m + tail) = SumTo(upper, m) + SumTo(rest, tail)
  <2>1. \A k \in 1 .. m + tail : upper[k] \in Int
    BY <1>1, <1>3
  <2>. QED BY <1>1, <1>5, <2>1, SumSplits
<1>8. SumTo(g, s) = s * 0 /\ SumTo(rest, tail) = tail * 0
  BY <1>1, <1>2, <1>5, SumConstant
<1>9. SumTo(upper, m) = SumTo(f, m)
  BY <1>4, SumAgree
<1>10. SumTo(f, m) \in Int
  <2>1. m \in 0..m
    OBVIOUS
  <2>. QED BY <2>1, SumInt
<1>11. s * 0 = 0 /\ tail * 0 = 0
  BY <1>1
<1>12. SumTo(upper, l) = SumTo(f, m)
  BY <1>1, <1>7, <1>8, <1>9, <1>10, <1>11
<1>. QED
  BY <1>1, <1>6, <1>8, <1>10, <1>11, <1>12

\* A product with a positive factor is zero only if the other factor is.
LEMMA FactorZero == ASSUME NEW w \in Nat \ {0}, NEW z \in Int, w * z = 0 PROVE z = 0
<1>1. ~ (z >= 1)
  <2>. SUFFICES ASSUME z >= 1 PROVE FALSE
    OBVIOUS
  <2>1. w * (z - 1) >= 0 /\ w * (z - 1) = w * z - w
    OBVIOUS
  <2>. QED BY <2>1
<1>2. ~ (z <= -1)
  <2>. SUFFICES ASSUME z <= -1 PROVE FALSE
    OBVIOUS
  <2>1. w * (-1 - z) >= 0 /\ w * (-1 - z) = 0 - w - w * z
    OBVIOUS
  <2>. QED BY <2>1
<1>. QED
  BY <1>1, <1>2

----------------------------------------------------------------------------
(* Recursions step by step. *)

Steps(n, V) == [(1..n) \X V -> V]
IsRun(s, n, V, x, F) == s \in [0..n -> V] /\ s[0] = x /\ \A k \in 1..n : s[k] = F[<<k, s[k - 1]>>]

\* A recursion that goes from one value in V to the next has a solution.
LEMMA RunExists ==
    ASSUME NEW n \in Nat, NEW V, NEW x \in V, NEW F \in Steps(n, V)
    PROVE  \E s : IsRun(s, n, V, x, F)
<1>. USE DEF Steps, IsRun
<1>. DEFINE Run(s, m) == s \in [0..m -> V] /\ s[0] = x /\ \A k \in 1..m : s[k] = F[<<k, s[k - 1]>>]
            S == {m \in Nat : m <= n => \E s : Run(s, m)}
<1>1. 0 \in S
  <2>1. Run([i \in 0..0 |-> x], 0)
    OBVIOUS
  <2>. QED BY <2>1
<1>2. ASSUME NEW m \in Nat, m \in S PROVE m + 1 \in S
  <2>. SUFFICES ASSUME m + 1 <= n PROVE \E s : Run(s, m + 1)
    OBVIOUS
  <2>1. PICK s : Run(s, m)
    BY <1>2
  <2>. DEFINE new == F[<<m + 1, s[m]>>]
              t == [i \in 0 .. m + 1 |-> IF i = m + 1 THEN new ELSE s[i]]
  <2>2. new \in V
    <3>1. <<m + 1, s[m]>> \in (1..n) \X V
      BY <2>1
    <3>. QED BY <3>1
  <2>3. t \in [0 .. m + 1 -> V] /\ t[0] = x
    BY <2>1, <2>2
  <2>4. ASSUME NEW k \in 1 .. m + 1 PROVE t[k] = F[<<k, t[k - 1]>>]
    <3>1. t[k - 1] = s[k - 1]
      OBVIOUS
    <3>2. CASE k = m + 1
      <4>1. t[k] = new /\ k - 1 = m
        BY <3>2
      <4>. HIDE DEF t
      <4>. QED BY <3>1, <3>2, <4>1
    <3>3. CASE k # m + 1
      <4>1. k \in 1..m /\ t[k] = s[k]
        BY <3>3
      <4>. QED BY <2>1, <3>1, <4>1
    <3>. QED BY <3>2, <3>3
  <2>. HIDE DEF t
  <2>. QED BY <2>3, <2>4
<1>3. Nat \subseteq S
  <2>. HIDE DEF S
  <2>. QED BY <1>1, <1>2, Induct
<1>4. n \in S
  BY <1>3
<1>. QED
  BY <1>4
=============================================================================
