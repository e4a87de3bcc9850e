------------------------- MODULE RecordChainProofs -------------------------
(***************************************************************************)
(* Proofs about RecordChain, for zones of every length, every trace height *)
(* and shards of every size: what verifies against the set of an epoch is  *)
(* a chain proved for that epoch, at the position asked for, and the       *)
(* verifier of a delegation agrees with its prover.                        *)
(*                                                                         *)
(* DnsSpec has the behaviours of the DNS provers alone: the units of       *)
(* Circuits share no state.                                                *)
(***************************************************************************)
EXTENDS RecordChain, MerkleProofs

----------------------------------------------------------------------------
(* Powers of two. *)

\* Different exponents give different powers.
LEMMA PowInjective ==
    ASSUME NEW a \in Nat, NEW b \in Nat, pow2(a) = pow2(b)
    PROVE  a = b
<1>1. ASSUME NEW x \in Nat, NEW y \in Nat, x < y PROVE pow2(x) # pow2(y)
  <2>. DEFINE d == y - x
  <2>1. d \in Nat \ {0} /\ y = x + d
    BY <1>1
  <2>. HIDE DEF d
  <2>2. pow2(y) = pow2(x) * pow2(d)
    BY <2>1, PowSplit
  <2>3. pow2(x) \in Nat \ {0} /\ pow2(d) \in Nat /\ pow2(d) > 1
    BY <2>1, PowPositive
  <2>. DEFINE p == pow2(x)
              q == pow2(d)
  <2>. HIDE DEF p, q
  <2>4. p * (q - 1) > 0 /\ p * (q - 1) = p * q - p
    BY <2>3 DEF p, q
  <2>5. p * q # p
    BY <2>3, <2>4 DEF p, q
  <2>. QED BY <2>2, <2>5 DEF p, q
<1>. QED
  BY <1>1

\* log2 undoes pow2.
LEMMA Log2Of ==
    ASSUME NEW k \in Nat
    PROVE  log2(pow2(k)) = k
<1>1. k \in 0 .. pow2(k)
  BY PowPositive
<1>2. log2(pow2(k)) \in 0 .. pow2(k) /\ pow2(log2(pow2(k))) = pow2(k)
  <2>. DEFINE n == pow2(k)
  <2>. HIDE DEF n
  <2>1. \E j \in 0..n : pow2(j) = n
    BY <1>1 DEF n
  <2>2. log2(n) \in 0..n /\ pow2(log2(n)) = n
    BY <2>1 DEF log2
  <2>. QED BY <2>2 DEF n
<1>. QED
  BY <1>2, PowInjective, PowPositive

\* A power of two has its exponent, and conversely.
LEMMA Pow2Exponent ==
    /\ \A n : IsPow2(n) => \E k \in Nat : n = pow2(k)
    /\ \A k \in Nat : IsPow2(pow2(k))
<1>1. ASSUME NEW n, IsPow2(n) PROVE \E k \in Nat : n = pow2(k)
  BY <1>1 DEF IsPow2
<1>2. ASSUME NEW k \in Nat PROVE IsPow2(pow2(k))
  BY PowPositive DEF IsPow2
<1>. QED
  BY <1>1, <1>2

\* Products of powers of two are powers of two.
LEMMA Pow2Product ==
    ASSUME NEW m, NEW n, IsPow2(m), IsPow2(n)
    PROVE  IsPow2(m * n) /\ m \in Nat \ {0} /\ n \in Nat \ {0}
<1>1. PICK j \in Nat : m = pow2(j)
  BY Pow2Exponent
<1>2. PICK k \in Nat : n = pow2(k)
  BY Pow2Exponent
<1>3. m * n = pow2(j + k) /\ j + k \in Nat
  BY <1>1, <1>2, PowSplit
<1>. QED
  BY <1>1, <1>2, <1>3, Pow2Exponent, PowPositive

\* next_power_of_two gives a power of two that is not less.
LEMMA NextPowerIs ==
    ASSUME NEW n \in Nat
    PROVE  IsPow2(next_power_of_two(n)) /\ next_power_of_two(n) >= n
<1>. DEFINE S == {k \in 0..n : pow2(k) >= n}
            P(k) == pow2(k) >= n /\ \A j \in 0 .. k - 1 : pow2(j) < n
            c == CHOOSE k \in 0..n : P(k)
            p == next_power_of_two(n)
<1>1. n \in S
  BY PowPositive
<1>2. PICK k \in S : \A j \in S : k <= j
  <2>1. S \subseteq Nat /\ S # {}
    BY <1>1
  <2>. HIDE DEF S
  <2>. QED BY <2>1, LeastNat
<1>3. \A j \in 0 .. k - 1 : pow2(j) < n
  <2>. SUFFICES ASSUME NEW j \in 0 .. k - 1 PROVE pow2(j) < n
    OBVIOUS
  <2>1. j \in Nat /\ j \notin S /\ j \in 0..n /\ pow2(j) \in Nat
    BY <1>2, PowPositive
  <2>. QED BY <2>1
<1>4. c \in 0..n /\ P(c)
  BY <1>2, <1>3
<1>5. p = pow2(c)
  BY DEF next_power_of_two
<1>. QED
  BY <1>4, <1>5, Pow2Exponent, PowPositive

\* next_pow2 gives a power of two that is not less.
LEMMA NextPow2Is ==
    ASSUME NEW n \in Nat
    PROVE  IsPow2(next_pow2(n)) /\ next_pow2(n) >= n
<1>. DEFINE p == next_power_of_two(n)
<1>6. p \in Nat /\ p >= n /\ IsPow2(p)
  BY NextPowerIs DEF IsPow2
<1>. HIDE DEF p
<1>7. IsPow2(8)
  <2>1. pow2(0) = 1 /\ pow2(0 + 1) = 2 * pow2(0) /\ pow2(1 + 1) = 2 * pow2(1) /\ pow2(2 + 1) = 2 * pow2(2)
    BY PowStep
  <2>2. pow2(3) = 8
    BY <2>1
  <2>. QED BY <2>2, Pow2Exponent
<1>8. next_pow2(n) \in {p, 8} /\ next_pow2(n) >= p
  <2>1. \E x \in {p, 8} : \A y \in {p, 8} : x >= y
    BY <1>6
  <2>2. Max({p, 8}) \in {p, 8} /\ \A y \in {p, 8} : Max({p, 8}) >= y
    BY <2>1 DEF Max
  <2>3. next_pow2(n) = Max({p, 8})
    BY DEF next_pow2, p
  <2>. QED BY <2>2, <2>3
<1>. QED
  BY <1>6, <1>7, <1>8

----------------------------------------------------------------------------
(* Schedules. *)

\* s is a schedule of `len` folds, by `top` and at last by `end`.
Folds(s, len, top, end) ==
    /\ s \in Seq(Nat) /\ Len(s) = len
    /\ \A i \in 1 .. len - 1 : s[i] = top
    /\ len > 0 => s[len] = end

\* The small powers.
LEMMA SmallPowers == pow2(0) = 1 /\ pow2(1) = 2 /\ pow2(2) = 4 /\ pow2(3) = 8
<1>1. pow2(0) = 1 /\ pow2(0 + 1) = 2 * pow2(0) /\ pow2(1 + 1) = 2 * pow2(1) /\ pow2(2 + 1) = 2 * pow2(2)
  BY PowStep
<1>. QED
  BY <1>1

\* Binary folds, or folds by 8 and one by the remainder.
LEMMA ScheduleIs ==
    ASSUME NEW k \in Nat
    PROVE  /\ Folds(make_schedule(pow2(k), "FRI"), k, 2, 2)
           /\ k % 3 = 0 => Folds(make_schedule(pow2(k), "STIR"), k \div 3, 8, 8)
           /\ k % 3 # 0 => Folds(make_schedule(pow2(k), "STIR"), (k \div 3) + 1, 8, pow2(k % 3))
<1>1. log2(pow2(k)) = k
  BY Log2Of
<1>2. ASSUME NEW x \in Nat, NEW m \in Nat
      PROVE  /\ Repeat(x, m) \in Seq(Nat) /\ Len(Repeat(x, m)) = m
             /\ \A i \in 1..m : Repeat(x, m)[i] = x
  BY DEF Repeat
<1>3. make_schedule(pow2(k), "FRI") = Repeat(2, k) \o << >>
  BY <1>1 DEF make_schedule
<1>4. make_schedule(pow2(k), "STIR") = Repeat(8, k \div 3) \o (IF k % 3 > 0 THEN <<pow2(k % 3)>> ELSE << >>)
  BY <1>1 DEF make_schedule
<1>5. k \div 3 \in Nat /\ k % 3 \in 0..2
  OBVIOUS
<1>6. Folds(make_schedule(pow2(k), "FRI"), k, 2, 2)
  <2>. DEFINE R == Repeat(2, k)
  <2>1. R \in Seq(Nat) /\ Len(R) = k /\ \A i \in 1..k : R[i] = 2
    BY <1>2
  <2>. HIDE DEF R
  <2>2. R \o << >> = R
    BY <2>1
  <2>. QED BY <1>3, <2>1, <2>2 DEF Folds, R
<1>. DEFINE q == k \div 3
            r == k % 3
            E == Repeat(8, q)
<1>7. E \in Seq(Nat) /\ Len(E) = q /\ \A i \in 1..q : E[i] = 8
  BY <1>2, <1>5
<1>8. CASE r = 0
  <2>0. ~ (k % 3 > 0)
    BY <1>8
  <2>1. make_schedule(pow2(k), "STIR") = E \o << >>
    BY <1>4, <2>0, Zenon
  <2>. HIDE DEF E
  <2>2. E \o << >> = E
    BY <1>7
  <2>. HIDE DEF q
  <2>3. Folds(E, q, 8, 8)
    BY <1>7, <1>5 DEF Folds, q
  <2>. QED BY <2>1, <2>2, <2>3, <1>6, <1>8 DEF q
<1>9. CASE r # 0
  <2>. DEFINE t == pow2(r)
  <2>1. make_schedule(pow2(k), "STIR") = E \o <<t>>
    BY <1>4, <1>5, <1>9
  <2>2. t \in Nat /\ q \in Nat
    BY <1>5, PowPositive
  <2>. HIDE DEF E, t, q, r
  <2>. DEFINE s == E \o <<t>>
  <2>3. s \in Seq(Nat) /\ Len(s) = q + 1 /\ s[q + 1] = t /\ \A i \in 1..q : s[i] = E[i]
    BY <1>7, <2>2
  <2>. HIDE DEF s
  <2>4. Folds(s, q + 1, 8, t)
    BY <2>2, <2>3, <1>7 DEF Folds
  <2>. QED BY <2>1, <2>4, <1>6, <1>9 DEF q, r, t, s
<1>. QED
  BY <1>8, <1>9

\* Schedules of different domains differ, in both modes.
LEMMA SchedulesDiffer ==
    ASSUME NEW m, NEW n, IsPow2(m), IsPow2(n), NEW ldt \in Modes,
           make_schedule(m, ldt) = make_schedule(n, ldt)
    PROVE  m = n
<1>1. PICK j \in Nat : m = pow2(j)
  BY Pow2Exponent
<1>2. PICK k \in Nat : n = pow2(k)
  BY Pow2Exponent
<1>3. CASE ldt = "FRI"
  BY <1>1, <1>2, <1>3, ScheduleIs DEF Folds
<1>4. CASE ldt = "STIR"
  <2>. DEFINE s == make_schedule(pow2(j), "STIR")
  <2>1. /\ j % 3 = 0 => Folds(s, j \div 3, 8, 8)
        /\ j % 3 # 0 => Folds(s, (j \div 3) + 1, 8, pow2(j % 3))
    BY ScheduleIs
  <2>2. /\ k % 3 = 0 => Folds(s, k \div 3, 8, 8)
        /\ k % 3 # 0 => Folds(s, (k \div 3) + 1, 8, pow2(k % 3))
    <3>1. s = make_schedule(pow2(k), "STIR")
      BY <1>1, <1>2, <1>4
    <3>. HIDE DEF s
    <3>. QED BY <3>1, ScheduleIs
  <2>. HIDE DEF s
  <2>. DEFINE jq == j \div 3
              jr == j % 3
              kq == k \div 3
              kr == k % 3
  <2>3. jq \in Nat /\ kq \in Nat /\ jr \in {0, 1, 2} /\ kr \in {0, 1, 2} /\ j = 3 * jq + jr /\ k = 3 * kq + kr
    OBVIOUS
  <2>4. ASSUME NEW x \in {0, 1, 2}
        PROVE  x # 0 => pow2(x) = 2 * x
    BY SmallPowers
  <2>5. /\ jr = 0 => Folds(s, jq, 8, 8)
        /\ jr # 0 => Folds(s, jq + 1, 8, 2 * jr)
    BY <2>1, <2>3, <2>4
  <2>6. /\ kr = 0 => Folds(s, kq, 8, 8)
        /\ kr # 0 => Folds(s, kq + 1, 8, 2 * kr)
    BY <2>2, <2>3, <2>4
  <2>. HIDE DEF jq, jr, kq, kr
  <2>7. jr = kr /\ jq = kq
    <3>1. CASE jr = 0 /\ kr = 0
      BY <3>1, <2>5, <2>6 DEF Folds
    <3>2. CASE jr # 0 /\ kr # 0
      <4>1. Len(s) = jq + 1 /\ Len(s) = kq + 1 /\ s[jq + 1] = 2 * jr /\ s[kq + 1] = 2 * kr
        BY <3>2, <2>3, <2>5, <2>6 DEF Folds
      <4>2. jq = kq
        BY <4>1, <2>3
      <4>3. 2 * jr = 2 * kr
        BY <4>1, <4>2
      <4>. QED BY <4>2, <4>3, <2>3
    <3>3. CASE jr = 0 /\ kr # 0
      <4>1. Len(s) = jq /\ Len(s) = kq + 1 /\ s[kq + 1] = 2 * kr /\ s[jq] = 8
        BY <3>3, <2>3, <2>5, <2>6 DEF Folds
      <4>2. 2 * kr = 8
        BY <4>1
      <4>. QED BY <4>2, <2>3
    <3>4. CASE jr # 0 /\ kr = 0
      <4>1. Len(s) = kq /\ Len(s) = jq + 1 /\ s[jq + 1] = 2 * jr /\ s[kq] = 8
        BY <3>4, <2>3, <2>5, <2>6 DEF Folds
      <4>2. 2 * jr = 8
        BY <4>1
      <4>. QED BY <4>2, <2>3
    <3>. QED BY <3>1, <3>2, <3>3, <3>4
  <2>. QED BY <2>3, <2>7, <1>1, <1>2
<1>. QED
  BY <1>3, <1>4 DEF Modes

\* Parameters are those of one domain, one binding and one mode.
LEMMA ParamsBind ==
    ASSUME NEW m, NEW n, IsPow2(m), IsPow2(n), NEW fs, NEW gs, NEW ldt \in Modes, NEW mode \in Modes,
           build_params(m, fs, ldt) = build_params(n, gs, mode)
    PROVE  m = n /\ fs = gs /\ ldt = mode
<1>. DEFINE p == build_params(m, fs, ldt)
            q == build_params(n, gs, mode)
<1>1. p.schedule = make_schedule(m, ldt) /\ p.stir = (ldt = "STIR") /\ p.fs = fs
  BY DEF build_params
<1>2. q.schedule = make_schedule(n, mode) /\ q.stir = (mode = "STIR") /\ q.fs = gs
  BY DEF build_params
<1>. HIDE DEF p, q
<1>3. p = q
  BY DEF p, q
<1>4. fs = gs /\ (ldt = "STIR") = (mode = "STIR") /\ make_schedule(m, ldt) = make_schedule(n, mode)
  BY <1>1, <1>2, <1>3
<1>5. ldt = mode
  BY <1>4 DEF Modes
<1>. QED
  BY <1>4, <1>5, SchedulesDiffer

----------------------------------------------------------------------------
IsProduct(f, s) == f = [i \in 0 .. Len(s) |-> IF i = 0 THEN 1 ELSE s[i] * f[i - 1]]

\* The recursion of Product has a solution.
LEMMA ProductExists ==
    ASSUME NEW s \in Seq(Nat)
    PROVE  \E f : IsProduct(f, s)
<1>. DEFINE Upto(f, n) == f = [i \in 0..n |-> IF i = 0 THEN 1 ELSE s[i] * f[i - 1]]
            S == {n \in Nat : \E f : Upto(f, n)}
<1>1. 0 \in S
  <2>. DEFINE g == [i \in 0..0 |-> 1]
  <2>1. Upto(g, 0)
    OBVIOUS
  <2>. QED BY <2>1
<1>2. ASSUME NEW n \in Nat, n \in S PROVE n + 1 \in S
  <2>1. PICK g : Upto(g, n)
    BY <1>2
  <2>. DEFINE h == [i \in 0 .. n + 1 |-> IF i = n + 1 THEN s[n + 1] * g[n] ELSE g[i]]
  <2>2. h[0] = 1
    BY <2>1
  <2>3. ASSUME NEW i \in 1 .. n + 1 PROVE h[i] = s[i] * h[i - 1]
    <3>1. h[i - 1] = g[i - 1]
      OBVIOUS
    <3>2. CASE i = n + 1
      BY <3>1, <3>2
    <3>3. CASE i # n + 1
      <4>1. h[i] = g[i] /\ i \in 0..n /\ i # 0
        BY <3>3
      <4>. QED BY <4>1, <2>1, <3>1
    <3>. QED BY <3>2, <3>3
  <2>4. DOMAIN h = 0 .. n + 1 /\ h = [i \in DOMAIN h |-> h[i]]
    OBVIOUS
  <2>. HIDE DEF h
  <2>5. \A i \in 0 .. n + 1 : h[i] = IF i = 0 THEN 1 ELSE s[i] * h[i - 1]
    BY <2>2, <2>3
  <2>6. Upto(h, n + 1)
    BY <2>4, <2>5
  <2>. QED BY <2>6
<1>3. Len(s) \in S
  <2>1. Nat \subseteq S
    <3>. HIDE DEF S
    <3>. QED BY <1>1, <1>2, Induct
  <2>. QED BY <2>1
<1>. QED
  BY <1>3 DEF IsProduct

\* The product grows with the sequence: f gives it for every prefix.
LEMMA ProductIs ==
    ASSUME NEW s \in Seq(Nat)
    PROVE  \E f : /\ f[0] = 1 /\ \A i \in 1 .. Len(s) : f[i] = s[i] * f[i - 1]
                  /\ Product(s) = f[Len(s)]
<1>. DEFINE f == CHOOSE f : IsProduct(f, s)
<1>1. IsProduct(f, s)
  <2>1. \E g : IsProduct(g, s)
    BY ProductExists
  <2>. QED BY <2>1
<1>2. Product(s) = f[Len(s)]
  BY DEF Product, IsProduct
<1>. HIDE DEF f
<1>. DEFINE body(i) == IF i = 0 THEN 1 ELSE s[i] * f[i - 1]
<1>3. f = [i \in 0 .. Len(s) |-> body(i)]
  BY <1>1 DEF IsProduct
<1>4. \A i \in 0 .. Len(s) : f[i] = body(i)
  <2>. HIDE DEF body
  <2>. QED BY <1>3
<1>. QED
  BY <1>2, <1>4

\* A schedule of powers of two folds as many bits as its exponents add up to.
LEMMA FoldsProduct ==
    ASSUME NEW s, NEW len \in Nat, NEW a \in Nat, NEW b \in Nat, Folds(s, len, pow2(a), pow2(b)), len > 0
    PROVE  Product(s) = pow2(a * (len - 1) + b)
<1>1. s \in Seq(Nat) /\ Len(s) = len
  BY DEF Folds
<1>2. PICK f : f[0] = 1 /\ (\A i \in 1..len : f[i] = s[i] * f[i - 1]) /\ Product(s) = f[len]
  BY <1>1, ProductIs
<1>. DEFINE S == {i \in Nat : i < len => f[i] = pow2(a * i)}
<1>3. 0 \in S
  <2>1. a * 0 = 0
    OBVIOUS
  <2>. QED BY <1>2, <2>1, SmallPowers
<1>4. ASSUME NEW i \in Nat, i \in S PROVE i + 1 \in S
  <2>. SUFFICES ASSUME i + 1 < len PROVE f[i + 1] = pow2(a * (i + 1))
    OBVIOUS
  <2>1. i + 1 \in 1..len /\ (i + 1) - 1 = i /\ i + 1 \in 1 .. len - 1 /\ f[i] = pow2(a * i)
    BY <1>4
  <2>2. f[i + 1] = pow2(a) * pow2(a * i)
    <3>1. s[i + 1] = pow2(a)
      BY <2>1 DEF Folds
    <3>. QED BY <1>2, <2>1, <3>1
  <2>. DEFINE x == a * i
  <2>3. x \in Nat /\ a * (i + 1) = a + x
    OBVIOUS
  <2>. HIDE DEF x
  <2>4. pow2(a + x) = pow2(a) * pow2(x)
    BY <2>3, PowSplit
  <2>. QED BY <2>2, <2>3, <2>4 DEF x
<1>5. len - 1 \in S
  <2>1. Nat \subseteq S
    <3>. HIDE DEF S
    <3>. QED BY <1>3, <1>4, Induct
  <2>. QED BY <2>1
<1>. DEFINE y == a * (len - 1)
<1>6. f[len - 1] = pow2(y) /\ y \in Nat
  BY <1>5
<1>7. f[len] = pow2(b) * pow2(y)
  <2>1. s[len] = pow2(b) /\ len \in 1..len
    BY DEF Folds
  <2>. HIDE DEF y
  <2>. QED BY <1>2, <1>6, <2>1
<1>. HIDE DEF y
<1>8. pow2(b + y) = pow2(b) * pow2(y) /\ b + y = y + b
  BY <1>6, PowSplit
<1>. QED
  BY <1>2, <1>7, <1>8 DEF y

\* A schedule folds the whole domain to one point.
LEMMA ScheduleFolds ==
    ASSUME NEW n, IsPow2(n), NEW ldt \in Modes
    PROVE  Product(make_schedule(n, ldt)) = n
<1>1. PICK k \in Nat : n = pow2(k)
  BY Pow2Exponent
<1>2. ASSUME NEW s, NEW t, NEW u, Folds(s, 0, t, u) PROVE Product(s) = 1
  <2>1. s \in Seq(Nat) /\ Len(s) = 0
    BY <1>2 DEF Folds
  <2>. QED BY <2>1, ProductIs
<1>3. CASE ldt = "FRI"
  <2>1. Folds(make_schedule(pow2(k), "FRI"), k, pow2(1), pow2(1))
    BY ScheduleIs, SmallPowers
  <2>2. CASE k = 0
    BY <1>1, <1>2, <1>3, <2>1, <2>2, SmallPowers
  <2>3. CASE k > 0
    <3>1. Product(make_schedule(pow2(k), "FRI")) = pow2(1 * (k - 1) + 1)
      BY <2>1, <2>3, FoldsProduct
    <3>2. 1 * (k - 1) + 1 = k
      OBVIOUS
    <3>. QED BY <1>1, <1>3, <3>1, <3>2
  <2>. QED BY <2>2, <2>3
<1>4. CASE ldt = "STIR"
  <2>. DEFINE q == k \div 3
              r == k % 3
              s == make_schedule(pow2(k), "STIR")
  <2>1. q \in Nat /\ r \in 0..2 /\ k = 3 * q + r
    OBVIOUS
  <2>2. /\ r = 0 => Folds(s, q, pow2(3), pow2(3))
        /\ r # 0 => Folds(s, q + 1, pow2(3), pow2(r))
    BY ScheduleIs, SmallPowers
  <2>. HIDE DEF q, r, s
  <2>3. CASE r = 0 /\ q = 0
    BY <1>1, <1>2, <1>4, <2>1, <2>2, <2>3, SmallPowers DEF s
  <2>4. CASE r = 0 /\ q > 0
    <3>1. Product(s) = pow2(3 * (q - 1) + 3)
      BY <2>1, <2>2, <2>4, FoldsProduct
    <3>2. 3 * (q - 1) + 3 = k
      BY <2>1, <2>4
    <3>. QED BY <1>1, <1>4, <3>1, <3>2 DEF s
  <2>5. CASE r # 0
    <3>1. Product(s) = pow2(3 * ((q + 1) - 1) + r)
      <4>1. q + 1 \in Nat /\ q + 1 > 0 /\ Folds(s, q + 1, pow2(3), pow2(r))
        BY <2>1, <2>2, <2>5
      <4>. QED BY <2>1, <4>1, FoldsProduct
    <3>2. 3 * ((q + 1) - 1) + r = k
      BY <2>1
    <3>. QED BY <1>1, <1>4, <3>1, <3>2 DEF s
  <2>. QED BY <2>1, <2>3, <2>4, <2>5
<1>. QED
  BY <1>3, <1>4 DEF Modes

----------------------------------------------------------------------------
(* The tree of dns.rs. *)

\* The node that pairs the i-th two of `level`, its last with itself.
PairOfLevel(level, i) == Node(level[2 * i - 1], level[IF 2 * i <= Len(level) THEN 2 * i ELSE 2 * i - 1])

\* A level above has half as many nodes, rounded up.
LEMMA HalfSize ==
    ASSUME NEW n \in Nat, n > 1
    PROVE  (n + 1) \div 2 \in Nat \ {0} /\ (n + 1) \div 2 < n
<1>. DEFINE h == (n + 1) \div 2
<1>1. h \in Int /\ (n + 1 = 2 * h \/ n + 1 = 2 * h + 1)
  OBVIOUS
<1>. HIDE DEF h
<1>2. h \in Nat \ {0} /\ h < n
  BY <1>1
<1>. QED
  BY <1>2 DEF h

\* Paired makes one node for each pair.
LEMMA PairedIs ==
    ASSUME NEW T, NEW level \in Seq(T)
    PROVE  /\ \E U : Paired(level) \in Seq(U)
           /\ Len(Paired(level)) = (Len(level) + 1) \div 2
           /\ \A i \in 1 .. (Len(level) + 1) \div 2 : Paired(level)[i] = PairOfLevel(level, i)
<1>. DEFINE n == (Len(level) + 1) \div 2
            f == [i \in 1..n |-> PairOfLevel(level, i)]
<1>1. n \in Nat
  OBVIOUS
<1>2. Paired(level) = f \o << >>
  BY Zenon DEF Paired, PairOfLevel
<1>. HIDE DEF n
<1>3. f = [i \in 1..n |-> f[i]] /\ \A i \in 1..n : f[i] = PairOfLevel(level, i)
  OBVIOUS
<1>. HIDE DEF f
<1>4. f \in Seq({f[i] : i \in 1..n}) /\ Len(f) = n /\ f \o << >> = f
  BY <1>1, <1>3, FunctionIsSeq
<1>5. \E U : f \in Seq(U)
  BY <1>4
<1>. QED
  BY <1>2, <1>3, <1>4, <1>5 DEF n

\* ls are levels of a tree over `leaves`, each the pairs of the one below.
Stacked(ls, leaves, T) ==
    /\ ls \in Seq(Seq(T)) /\ Len(ls) >= 1 /\ ls[1] = leaves
    /\ \A k \in 1 .. Len(ls) : ls[k] # << >>
    /\ \A k \in 1 .. Len(ls) - 1 : Len(ls[k]) > 1 /\ ls[k + 1] = Paired(ls[k])

\* A turn of the loop adds a smaller level or leaves a finished tree alone.
LEMMA PairTopKeeps ==
    ASSUME NEW ls, NEW leaves, NEW T, Stacked(ls, leaves, T)
    PROVE  /\ \E U : Stacked(PairTop(ls), leaves, U)
           /\ Len(Last(ls)) \in Nat \ {0}
           /\ Len(Last(ls)) = 1 => PairTop(ls) = ls
           /\ Len(Last(ls)) > 1 => Len(Last(PairTop(ls))) < Len(Last(ls))
<1>. DEFINE L == Len(ls)
            top == Last(ls)
            up == Paired(top)
<1>1. L \in Nat \ {0} /\ ls \in Seq(Seq(T)) /\ top \in Seq(T) /\ top # << >> /\ top = ls[L]
  BY DEF Stacked, Last
<1>2. Len(top) \in Nat \ {0}
  BY <1>1
<1>3. CASE Len(top) = 1
  <2>1. PairTop(ls) = ls
    BY <1>1, <1>3 DEF PairTop
  <2>. QED BY <1>1, <1>2, <1>3, <2>1
<1>4. CASE Len(top) > 1
  <2>1. PairTop(ls) = Append(ls, up)
    BY <1>1, <1>4 DEF PairTop
  <2>2. PICK V : up \in Seq(V)
    BY <1>1, PairedIs
  <2>3. Len(up) \in Nat \ {0} /\ Len(up) < Len(top)
    BY <1>1, <1>2, <1>4, PairedIs, HalfSize
  <2>. DEFINE new == Append(ls, up)
              U == T \cup V
  <2>. HIDE DEF top, up, L
  <2>4. up \in Seq(U) /\ ls \in Seq(Seq(U))
    BY <1>1, <2>2
  <2>. HIDE DEF U
  <2>5. new \in Seq(Seq(U)) /\ Len(new) = L + 1 /\ new[L + 1] = up /\ \A k \in 1..L : new[k] = ls[k]
    BY <2>4, <1>1 DEF L
  <2>. HIDE DEF new
  <2>6. \A k \in 1 .. L + 1 : new[k] # << >>
    <3>1. up # << >>
      BY <2>3
    <3>2. \A k \in 1..L : ls[k] # << >>
      BY DEF Stacked, L
    <3>3. \A k \in 1 .. L + 1 : k \in 1..L \/ k = L + 1
      BY <1>1
    <3>. QED BY <2>5, <3>1, <3>2, <3>3
  <2>7. ASSUME NEW k \in 1..L PROVE Len(new[k]) > 1 /\ new[k + 1] = Paired(new[k])
    <3>1. CASE k = L
      BY <3>1, <1>1, <1>4, <2>5 DEF up
    <3>2. CASE k # L
      <4>1. k \in 1 .. L - 1 /\ k + 1 \in 1..L
        BY <3>2, <1>1
      <4>2. Len(ls[k]) > 1 /\ ls[k + 1] = Paired(ls[k])
        BY <4>1 DEF Stacked, L
      <4>. QED BY <4>1, <4>2, <2>5
    <3>. QED BY <3>1, <3>2
  <2>8. new[1] = leaves
    <3>1. ls[1] = leaves /\ 1 \in 1..L
      BY <1>1 DEF Stacked
    <3>. QED BY <3>1, <2>5
  <2>9. Stacked(new, leaves, U)
    <3>1. Len(new) >= 1 /\ Len(new) - 1 = L
      BY <2>5, <1>1
    <3>2. \A k \in 1 .. Len(new) : new[k] # << >>
      BY <2>5, <2>6
    <3>3. \A k \in 1 .. Len(new) - 1 : Len(new[k]) > 1 /\ new[k + 1] = Paired(new[k])
      BY <2>7, <3>1
    <3>. QED BY <2>5, <2>8, <3>1, <3>2, <3>3, Zenon DEF Stacked
  <2>10. Last(new) = up
    BY <2>5, Zenon DEF Last
  <2>11. \E W : Stacked(PairTop(ls), leaves, W)
    BY <2>1, <2>9, Zenon DEF new
  <2>12. Len(Last(PairTop(ls))) < Len(Last(ls))
    <3>1. Last(PairTop(ls)) = up
      BY <2>1, <2>10, Zenon DEF new
    <3>. QED BY <2>3, <3>1, Zenon DEF top
  <2>13. Len(Last(ls)) \in Nat \ {0} /\ Len(Last(ls)) # 1
    <3>. DEFINE t == Len(top)
    <3>1. t \in Nat \ {0} /\ t > 1
      BY <1>2, <1>4
    <3>. HIDE DEF t
    <3>2. t \in Nat \ {0} /\ t # 1
      BY <3>1
    <3>. QED BY <3>2 DEF t, top
  <2>. QED BY <2>11, <2>12, <2>13, Zenon
<1>5. Len(top) = 1 \/ Len(top) > 1
  <2>. DEFINE t == Len(top)
  <2>1. t \in Nat \ {0}
    BY <1>2
  <2>. HIDE DEF t
  <2>2. t = 1 \/ t > 1
    BY <2>1
  <2>. QED BY <2>2 DEF t
<1>. QED
  BY <1>3, <1>4, <1>5, Zenon

IsBuild(f, leaves) == f = [k \in 0 .. Len(leaves) |-> IF k = 0 THEN <<leaves>> ELSE PairTop(f[k - 1])]

\* The loop of merkle_build has a result.
LEMMA BuildExists ==
    ASSUME NEW leaves, Len(leaves) \in Nat
    PROVE  \E f : IsBuild(f, leaves)
<1>. DEFINE Upto(f, n) == f = [k \in 0..n |-> IF k = 0 THEN <<leaves>> ELSE PairTop(f[k - 1])]
            S == {n \in Nat : \E f : Upto(f, n)}
<1>1. 0 \in S
  <2>. DEFINE g == [k \in 0..0 |-> <<leaves>>]
  <2>1. Upto(g, 0)
    OBVIOUS
  <2>. QED BY <2>1
<1>2. ASSUME NEW n \in Nat, n \in S PROVE n + 1 \in S
  <2>1. PICK g : Upto(g, n)
    BY <1>2
  <2>. DEFINE h == [k \in 0 .. n + 1 |-> IF k = n + 1 THEN PairTop(g[n]) ELSE g[k]]
  <2>2. h[0] = <<leaves>>
    BY <2>1
  <2>3. ASSUME NEW k \in 1 .. n + 1 PROVE h[k] = PairTop(h[k - 1])
    <3>1. h[k - 1] = g[k - 1]
      OBVIOUS
    <3>2. CASE k = n + 1
      BY <3>1, <3>2
    <3>3. CASE k # n + 1
      <4>1. h[k] = g[k] /\ k \in 0..n /\ k # 0
        BY <3>3
      <4>. QED BY <4>1, <2>1, <3>1
    <3>. QED BY <3>2, <3>3
  <2>4. DOMAIN h = 0 .. n + 1 /\ h = [k \in DOMAIN h |-> h[k]]
    OBVIOUS
  <2>. HIDE DEF h
  <2>5. \A k \in 0 .. n + 1 : h[k] = IF k = 0 THEN <<leaves>> ELSE PairTop(h[k - 1])
    BY <2>2, <2>3
  <2>6. Upto(h, n + 1)
    BY <2>4, <2>5
  <2>. QED BY <2>6
<1>3. Len(leaves) \in S
  <2>1. Nat \subseteq S
    <3>. HIDE DEF S
    <3>. QED BY <1>1, <1>2, Induct
  <2>. QED BY <2>1
<1>. QED
  BY <1>3 DEF IsBuild

\* ls is a finished tree over `leaves`.
TreeOver(ls, leaves, T) == Stacked(ls, leaves, T) /\ Len(ls[Len(ls)]) = 1

\* merkle_build gets to a level of one node, whatever the number of leaves.
LEMMA BuildIs ==
    ASSUME NEW B, NEW leaves \in Seq(B), leaves # << >>
    PROVE  \E T : TreeOver(merkle_build(leaves), leaves, T)
<1>. DEFINE n == Len(leaves)
            f == CHOOSE g : IsBuild(g, leaves)
<1>1. IsBuild(f, leaves)
  <2>1. \E g : IsBuild(g, leaves)
    BY BuildExists
  <2>. QED BY <2>1
<1>2. merkle_build(leaves) = f[n]
  BY DEF merkle_build, IsBuild
<1>. HIDE DEF f
<1>. DEFINE body(k) == IF k = 0 THEN <<leaves>> ELSE PairTop(f[k - 1])
<1>3. f = [k \in 0..n |-> body(k)]
  BY <1>1 DEF IsBuild
<1>4. \A k \in 0..n : f[k] = body(k)
  <2>. HIDE DEF body
  <2>. QED BY <1>3
<1>5. n \in Nat \ {0}
  OBVIOUS
<1>. DEFINE Good(ls, k) == /\ \E T : Stacked(ls, leaves, T)
                           /\ Len(Last(ls)) = 1 \/ Len(Last(ls)) <= n - k
            S == {k \in Nat : k <= n => Good(f[k], k)}
<1>6. 0 \in S
  <2>1. <<leaves>> \in Seq(Seq(B)) /\ Len(<<leaves>>) = 1 /\ <<leaves>>[1] = leaves
    OBVIOUS
  <2>2. Stacked(<<leaves>>, leaves, B)
    BY <2>1 DEF Stacked
  <2>3. f[0] = <<leaves>> /\ Last(<<leaves>>) = leaves
    BY <1>4, <1>5, <2>1 DEF Last
  <2>4. Len(leaves) <= n - 0
    BY <1>5
  <2>. HIDE DEF n
  <2>. QED BY <2>2, <2>3, <2>4
<1>. HIDE DEF n
<1>7. ASSUME NEW k \in Nat, k \in S PROVE k + 1 \in S
  <2>. SUFFICES ASSUME k + 1 <= n PROVE Good(f[k + 1], k + 1)
    OBVIOUS
  <2>1. Good(f[k], k)
    BY <1>5, <1>7
  <2>2. f[k + 1] = PairTop(f[k])
    <3>1. k + 1 \in 0..n /\ k + 1 # 0 /\ (k + 1) - 1 = k
      BY <1>5
    <3>. QED BY <3>1, <1>4
  <2>3. PICK T : Stacked(f[k], leaves, T)
    BY <2>1
  <2>. DEFINE t == Len(Last(f[k]))
              u == Len(Last(PairTop(f[k])))
  <2>4. /\ \E U : Stacked(PairTop(f[k]), leaves, U)
        /\ t \in Nat \ {0} /\ (t = 1 => PairTop(f[k]) = f[k]) /\ (t > 1 => u < t)
    BY <2>3, PairTopKeeps
  <2>5. t = 1 \/ t <= n - k
    BY <2>1
  <2>6. t = 1 => u = 1
    BY <2>4
  <2>7. u \in Nat
    <3>1. PICK U : Stacked(PairTop(f[k]), leaves, U)
      BY <2>4
    <3>. QED BY <3>1, PairTopKeeps
  <2>. HIDE DEF t, u
  <2>8. u = 1 \/ u <= n - (k + 1)
    BY <2>4, <2>5, <2>6, <2>7, <1>5
  <2>. QED BY <2>2, <2>4, <2>8 DEF u
<1>8. n \in S
  <2>1. Nat \subseteq S
    <3>. HIDE DEF S
    <3>. QED BY <1>6, <1>7, Induct
  <2>. QED BY <2>1, <1>5
<1>9. PICK T : Stacked(f[n], leaves, T)
  BY <1>8, <1>5
<1>10. Len(Last(f[n])) = 1
  <2>1. Len(Last(f[n])) \in Nat \ {0}
    BY <1>9, PairTopKeeps
  <2>2. Len(Last(f[n])) = 1 \/ Len(Last(f[n])) <= n - n
    BY <1>8, <1>5
  <2>. QED BY <2>1, <2>2, <1>5
<1>11. TreeOver(f[n], leaves, T)
  BY <1>9, <1>10 DEF TreeOver, Last
<1>. QED
  BY <1>2, <1>11

----------------------------------------------------------------------------
(* Two finished trees over lists of the same length are equally high. *)

\* Levels of the same number have the same size.
LEMMA SizesAgree ==
    ASSUME NEW ls, NEW leaves, NEW T, Stacked(ls, leaves, T),
           NEW ms, NEW others, NEW U, Stacked(ms, others, U), Len(leaves) = Len(others)
    PROVE  \A k \in Nat : k < Len(ls) /\ k < Len(ms) => Len(ls[k + 1]) = Len(ms[k + 1])
<1>. DEFINE S == {k \in Nat : k < Len(ls) /\ k < Len(ms) => Len(ls[k + 1]) = Len(ms[k + 1])}
<1>1. 0 \in S
  BY DEF Stacked
<1>2. ASSUME NEW k \in Nat, k \in S PROVE k + 1 \in S
  <2>. SUFFICES ASSUME k + 1 < Len(ls), k + 1 < Len(ms) PROVE Len(ls[(k + 1) + 1]) = Len(ms[(k + 1) + 1])
    OBVIOUS
  <2>. DEFINE a == Len(ls)
              b == Len(ms)
  <2>0. a \in Nat /\ b \in Nat
    BY DEF Stacked
  <2>1. k + 1 \in 1 .. a - 1 /\ k + 1 \in 1 .. b - 1 /\ k + 1 \in 1..a /\ k + 1 \in 1..b /\ k < a /\ k < b
    <3>1. k + 1 < a /\ k + 1 < b
      OBVIOUS
    <3>. HIDE DEF a, b
    <3>. QED BY <2>0, <3>1
  <2>2. Len(ls[k + 1]) = Len(ms[k + 1])
    BY <1>2, <2>1
  <2>3. /\ ls[k + 1] \in Seq(T) /\ ls[(k + 1) + 1] = Paired(ls[k + 1])
        /\ ms[k + 1] \in Seq(U) /\ ms[(k + 1) + 1] = Paired(ms[k + 1])
    BY <2>1 DEF Stacked
  <2>4. Len(Paired(ls[k + 1])) = (Len(ls[k + 1]) + 1) \div 2
    BY <2>3, PairedIs
  <2>5. Len(Paired(ms[k + 1])) = (Len(ms[k + 1]) + 1) \div 2
    BY <2>3, PairedIs
  <2>. QED BY <2>2, <2>3, <2>4, <2>5
<1>3. Nat \subseteq S
  <2>. HIDE DEF S
  <2>. QED BY <1>1, <1>2, Induct
<1>. QED
  BY <1>3

\* A finished tree is not higher than another over as many leaves: its root
\* level has one node, where an unfinished one has more.
LEMMA NotHigher ==
    ASSUME NEW ls, NEW leaves, NEW T, TreeOver(ls, leaves, T),
           NEW ms, NEW others, NEW U, TreeOver(ms, others, U), Len(leaves) = Len(others)
    PROVE  Len(ls) <= Len(ms)
<1>. DEFINE a == Len(ls)
            b == Len(ms)
<1>1. a \in Nat \ {0} /\ b \in Nat \ {0}
  BY DEF TreeOver, Stacked
<1>2. \A k \in Nat : k < a /\ k < b => Len(ls[k + 1]) = Len(ms[k + 1])
  BY SizesAgree DEF TreeOver
<1>3. Len(ms[b]) = 1 /\ \A k \in 1 .. a - 1 : Len(ls[k]) > 1
  BY DEF TreeOver, Stacked
<1>. HIDE DEF a, b
<1>4. SUFFICES ASSUME a > b PROVE FALSE
  BY <1>1 DEF a, b
<1>5. b - 1 \in Nat /\ b - 1 < a /\ b - 1 < b /\ (b - 1) + 1 = b /\ b \in 1 .. a - 1
  BY <1>1, <1>4
<1>6. Len(ls[b]) = Len(ms[b])
  BY <1>2, <1>5
<1>7. Len(ls[b]) = 1 /\ Len(ls[b]) > 1
  BY <1>3, <1>5, <1>6
<1>. DEFINE x == Len(ls[b])
<1>8. x = 1 /\ x > 1
  BY <1>7
<1>. HIDE DEF x
<1>. QED
  BY <1>8

\* They are equally high.
LEMMA SameHeight ==
    ASSUME NEW ls, NEW leaves, NEW T, TreeOver(ls, leaves, T),
           NEW ms, NEW others, NEW U, TreeOver(ms, others, U), Len(leaves) = Len(others)
    PROVE  Len(ls) = Len(ms)
<1>. DEFINE a == Len(ls)
            b == Len(ms)
<1>1. a \in Nat \ {0} /\ b \in Nat \ {0}
  BY DEF TreeOver, Stacked
<1>2. a <= b
  BY NotHigher
<1>3. b <= a
  BY NotHigher
<1>. HIDE DEF a, b
<1>4. a = b
  BY <1>1, <1>2, <1>3
<1>. QED
  BY <1>4 DEF a, b

----------------------------------------------------------------------------
(* Climbing a path. *)

\* The position above `index` after k levels.
PosAt(index, k) == index \div pow2(k)

\* It halves from level to level.
LEMMA PosHalves ==
    ASSUME NEW index \in Nat
    PROVE  PosAt(index, 0) = index /\ \A k \in Nat : PosAt(index, k) \in Nat /\ PosAt(index, k + 1) = PosAt(index, k) \div 2
<1>1. PosAt(index, 0) = index
  <2>1. index \div 1 = index
    OBVIOUS
  <2>. QED BY <2>1, SmallPowers DEF PosAt
<1>2. ASSUME NEW k \in Nat PROVE PosAt(index, k) \in Nat /\ PosAt(index, k + 1) = PosAt(index, k) \div 2
  <2>. DEFINE p == pow2(k)
  <2>1. p \in Nat \ {0}
    BY PowPositive
  <2>2. pow2(k + 1) = 2 * p
    BY PowStep
  <2>. HIDE DEF p
  <2>3. (index \div p) \div 2 = index \div (2 * p) /\ index \div p \in Nat
    BY <2>1, DivTwice
  <2>. QED BY <2>2, <2>3 DEF PosAt, p
<1>. QED
  BY <1>1, <1>2

ClimbFrom(cur, pos, sib) == IF pos % 2 = 0 THEN Node(cur, sib) ELSE Node(sib, cur)
IsClimb(f, leaf, index, path) ==
    f = [k \in 0 .. Len(path) |->
           IF k = 0 THEN leaf
           ELSE IF (index \div pow2(k - 1)) % 2 = 0 THEN Node(f[k - 1], path[k]) ELSE Node(path[k], f[k - 1])]

\* The recursion of merkle_verify has a solution.
LEMMA ClimbExists ==
    ASSUME NEW leaf, NEW index, NEW path, Len(path) \in Nat
    PROVE  \E f : IsClimb(f, leaf, index, path)
<1>. DEFINE step(k, cur) == IF (index \div pow2(k - 1)) % 2 = 0 THEN Node(cur, path[k]) ELSE Node(path[k], cur)
            Upto(f, n) == f = [k \in 0..n |-> IF k = 0 THEN leaf ELSE step(k, f[k - 1])]
            S == {n \in Nat : \E f : Upto(f, n)}
<1>4. \A f, n : Upto(f, n) <=> f = [k \in 0..n |->
           IF k = 0 THEN leaf
           ELSE IF (index \div pow2(k - 1)) % 2 = 0 THEN Node(f[k - 1], path[k]) ELSE Node(path[k], f[k - 1])]
  BY Zenon
<1>. HIDE DEF step
<1>1. 0 \in S
  <2>. DEFINE g == [k \in 0..0 |-> leaf]
  <2>1. Upto(g, 0)
    OBVIOUS
  <2>. QED BY <2>1
<1>2. ASSUME NEW n \in Nat, n \in S PROVE n + 1 \in S
  <2>1. PICK g : Upto(g, n)
    BY <1>2
  <2>. DEFINE h == [k \in 0 .. n + 1 |-> IF k = n + 1 THEN step(n + 1, g[n]) ELSE g[k]]
  <2>2. h[0] = leaf
    BY <2>1
  <2>3. ASSUME NEW k \in 1 .. n + 1 PROVE h[k] = step(k, h[k - 1])
    <3>1. h[k - 1] = g[k - 1]
      OBVIOUS
    <3>2. CASE k = n + 1
      BY <3>1, <3>2
    <3>3. CASE k # n + 1
      <4>1. h[k] = g[k] /\ k \in 0..n /\ k # 0
        BY <3>3
      <4>. QED BY <4>1, <2>1, <3>1
    <3>. QED BY <3>2, <3>3
  <2>4. DOMAIN h = 0 .. n + 1 /\ h = [k \in DOMAIN h |-> h[k]]
    OBVIOUS
  <2>. HIDE DEF h
  <2>5. \A k \in 0 .. n + 1 : h[k] = IF k = 0 THEN leaf ELSE step(k, h[k - 1])
    BY <2>2, <2>3
  <2>6. Upto(h, n + 1)
    BY <2>4, <2>5
  <2>. QED BY <2>6
<1>3. Len(path) \in S
  <2>1. Nat \subseteq S
    <3>. HIDE DEF S
    <3>. QED BY <1>1, <1>2, Induct
  <2>. QED BY <2>1
<1>5. PICK f : Upto(f, Len(path))
  BY <1>3
<1>. QED
  BY <1>4, <1>5 DEF IsClimb

Climbs(f, leaf, index, path, rt) ==
    /\ f[0] = leaf
    /\ \A k \in 1 .. Len(path) : f[k] = ClimbFrom(f[k - 1], PosAt(index, k - 1), path[k])
    /\ merkle_verify(leaf, index, path, rt) <=> f[Len(path)] = rt

\* merkle_verify climbs from the leaf, level by level, and compares the end with the root.
LEMMA VerifyClimbs ==
    ASSUME NEW leaf, NEW index, NEW path, Len(path) \in Nat, NEW rt
    PROVE  \E f : Climbs(f, leaf, index, path, rt)
<1>. DEFINE f == CHOOSE g : IsClimb(g, leaf, index, path)
            n == Len(path)
<1>1. IsClimb(f, leaf, index, path)
  <2>1. \E g : IsClimb(g, leaf, index, path)
    BY ClimbExists
  <2>. QED BY <2>1
<1>2. merkle_verify(leaf, index, path, rt) <=> f[n] = rt
  BY Zenon DEF merkle_verify, IsClimb
<1>. HIDE DEF f
<1>. DEFINE body(k) == IF k = 0 THEN leaf
                       ELSE IF (index \div pow2(k - 1)) % 2 = 0 THEN Node(f[k - 1], path[k]) ELSE Node(path[k], f[k - 1])
<1>3. f = [k \in 0..n |-> body(k)]
  BY <1>1, Zenon DEF IsClimb
<1>4. \A k \in 0..n : f[k] = body(k)
  <2>. HIDE DEF body
  <2>. QED BY <1>3
<1>5. f[0] = leaf
  BY <1>4
<1>6. ASSUME NEW k \in 1..n PROVE f[k] = ClimbFrom(f[k - 1], PosAt(index, k - 1), path[k])
  <2>1. k \in 0..n /\ k # 0
    OBVIOUS
  <2>2. f[k] = body(k)
    BY <1>4, <2>1
  <2>. QED BY <2>1, <2>2, Zenon DEF ClimbFrom, PosAt
<1>. QED
  BY <1>2, <1>5, <1>6 DEF Climbs

----------------------------------------------------------------------------
(* What verifies is in the tree. *)

\* cur is node q of `level`, the one at `pos` if there is such a position.
Lands(level, pos, cur, q) == cur = level[q] /\ (pos < Len(level) => q = pos + 1)

\* A node that a climb reaches in a level has the climb's previous value below
\* it, at the position asked for if the level has that position.
LEMMA StepDown ==
    ASSUME NEW T, NEW level \in Seq(T), NEW pos \in Nat, NEW cur, NEW sib, NEW p \in 1 .. Len(Paired(level)),
           Lands(Paired(level), pos \div 2, ClimbFrom(cur, pos, sib), p)
    PROVE  \E q \in 1 .. Len(level) : Lands(level, pos, cur, q)
<1>. DEFINE n == Len(level)
            h == (n + 1) \div 2
            g == pos \div 2
            odd == pos % 2
            left == 2 * p - 1
            right == IF 2 * p <= n THEN 2 * p ELSE 2 * p - 1
<1>1. n \in Nat /\ h \in Nat /\ (n + 1 = 2 * h \/ n = 2 * h)
  <2>1. n \in Nat
    OBVIOUS
  <2>. HIDE DEF n
  <2>. QED BY <2>1
<1>2. g \in Nat /\ odd \in {0, 1} /\ pos = 2 * g + odd
  OBVIOUS
<1>3. Len(Paired(level)) = h /\ \A i \in 1..h : Paired(level)[i] = PairOfLevel(level, i)
  BY PairedIs
<1>4. p \in 1..h /\ (g < h => p = g + 1) /\ ClimbFrom(cur, pos, sib) = Paired(level)[p]
  BY <1>3 DEF Lands
<1>5. ClimbFrom(cur, pos, sib) = Node(level[left], level[right])
  <2>1. PairOfLevel(level, p) = Node(level[left], level[right])
    BY Zenon DEF PairOfLevel
  <2>. HIDE DEF h, right
  <2>. QED BY <1>3, <1>4, <2>1
<1>6. ClimbFrom(cur, pos, sib) = IF odd = 0 THEN Node(cur, sib) ELSE Node(sib, cur)
  BY Zenon DEF ClimbFrom
<1>7. \A a, b, c, d : Node(a, b) = Node(c, d) => a = c /\ b = d
  BY DEF Node
<1>. HIDE DEF odd, left, right
<1>8. ASSUME odd = 0 PROVE cur = level[left]
  <2>1. Node(cur, sib) = Node(level[left], level[right])
    BY <1>5, <1>6, <1>8, Zenon
  <2>. QED BY <1>7, <2>1, Zenon
<1>9. ASSUME odd # 0 PROVE cur = level[right]
  <2>1. Node(sib, cur) = Node(level[left], level[right])
    BY <1>5, <1>6, <1>9, Zenon
  <2>. QED BY <1>7, <2>1, Zenon
<1>. HIDE DEF n, h, g, odd
<1>10. left \in 1..n /\ right \in 1..n
  BY <1>1, <1>4 DEF left, right
<1>11. pos < n => p = g + 1
  BY <1>1, <1>2, <1>4
<1>12. CASE odd = 0
  <2>1. pos < n => left = pos + 1
    BY <1>2, <1>11, <1>12 DEF left
  <2>2. cur = level[left]
    BY <1>8, <1>12
  <2>. QED BY <1>10, <2>1, <2>2, Zenon DEF n, Lands
<1>13. CASE odd # 0
  <2>1. 2 * p = pos + 1 \/ n <= pos
    BY <1>1, <1>2, <1>11, <1>13
  <2>2. pos < n => right = pos + 1
    BY <1>1, <2>1 DEF right
  <2>3. cur = level[right]
    BY <1>9, <1>13
  <2>. QED BY <1>10, <2>2, <2>3, Zenon DEF n, Lands
<1>. QED
  BY <1>12, <1>13

\* A path of the tree's height leads to its root from the leaf at the position
\* asked for only, or from some leaf if there is no such position.
LEMMA VerifiedIsInside ==
    ASSUME NEW ls, NEW leaves, NEW T, TreeOver(ls, leaves, T),
           NEW leaf, NEW index \in Nat, NEW path, Len(path) = Len(ls) - 1,
           merkle_verify(leaf, index, path, merkle_root(ls))
    PROVE  \E p \in 1 .. Len(leaves) : Lands(leaves, index, leaf, p)
<1>. DEFINE d == Len(ls)
            top == d - 1
<1>1. d \in Nat \ {0} /\ top \in Nat /\ d = top + 1
  BY DEF TreeOver, Stacked
<1>2. PICK f : /\ f[0] = leaf
               /\ \A k \in 1..top : f[k] = ClimbFrom(f[k - 1], PosAt(index, k - 1), path[k])
               /\ f[top] = merkle_root(ls)
  <2>. DEFINE n == Len(path)
              rt == merkle_root(ls)
  <2>1. n \in Nat /\ n = top /\ merkle_verify(leaf, index, path, rt)
    BY <1>1
  <2>. HIDE DEF top, rt
  <2>2. Len(path) \in Nat
    BY <2>1
  <2>3. PICK f : Climbs(f, leaf, index, path, rt)
    BY <2>2, VerifyClimbs
  <2>4. Len(path) = top /\ f[top] = rt
    BY <2>1, <2>3 DEF Climbs
  <2>. QED BY <2>3, <2>4, Zenon DEF rt, Climbs
<1>3. ls[1] = leaves /\ Len(ls[top + 1]) = 1 /\ merkle_root(ls) = ls[top + 1][1]
  BY <1>1 DEF TreeOver, Stacked, merkle_root, Last
<1>4. \A k \in 1..top : ls[k] \in Seq(T) /\ ls[k + 1] = Paired(ls[k])
  <2>. SUFFICES ASSUME NEW k \in 1..top PROVE ls[k] \in Seq(T) /\ ls[k + 1] = Paired(ls[k])
    OBVIOUS
  <2>1. k \in 1 .. Len(ls) /\ k \in 1 .. Len(ls) - 1
    BY <1>1
  <2>. QED BY <2>1 DEF TreeOver, Stacked
<1>. HIDE DEF d, top
<1>. DEFINE At(k) == \E p \in 1 .. Len(ls[k + 1]) : Lands(ls[k + 1], PosAt(index, k), f[k], p)
            S == {m \in Nat : m <= top => At(top - m)}
<1>5. At(top)
  <2>1. 1 \in 1 .. Len(ls[top + 1]) /\ f[top] = ls[top + 1][1]
    BY <1>2, <1>3
  <2>2. PosAt(index, top) \in Nat
    BY <1>1, PosHalves
  <2>3. PosAt(index, top) < Len(ls[top + 1]) => 1 = PosAt(index, top) + 1
    BY <1>3, <2>2
  <2>. QED BY <2>1, <2>3 DEF Lands
<1>6. ASSUME NEW k \in 1..top, At(k) PROVE At(k - 1)
  <2>. DEFINE level == ls[k]
              pos == PosAt(index, k - 1)
  <2>1. level \in Seq(T) /\ ls[k + 1] = Paired(level) /\ k - 1 \in Nat /\ (k - 1) + 1 = k
    BY <1>1, <1>4
  <2>2. pos \in Nat /\ PosAt(index, k) = pos \div 2
    BY <2>1, PosHalves
  <2>3. PICK p \in 1 .. Len(Paired(level)) : Lands(Paired(level), pos \div 2, f[k], p)
    BY <1>6, <2>1, <2>2
  <2>4. f[k] = ClimbFrom(f[k - 1], pos, path[k])
    BY <1>2
  <2>. HIDE DEF level, pos
  <2>5. \E q \in 1 .. Len(level) : Lands(level, pos, f[k - 1], q)
    BY <2>1, <2>2, <2>3, <2>4, StepDown
  <2>. QED BY <2>1, <2>5 DEF level, pos
<1>7. 0 \in S
  <2>1. top - 0 = top
    BY <1>1
  <2>. HIDE DEF At
  <2>. QED BY <1>5, <2>1
<1>8. ASSUME NEW m \in Nat, m \in S PROVE m + 1 \in S
  <2>. HIDE DEF At
  <2>. SUFFICES ASSUME m + 1 <= top PROVE At(top - (m + 1))
    OBVIOUS
  <2>1. At(top - m)
    BY <1>1, <1>8
  <2>2. top - m \in 1..top /\ (top - m) - 1 = top - (m + 1)
    BY <1>1
  <2>. QED BY <1>6, <2>1, <2>2
<1>9. At(0)
  <2>1. Nat \subseteq S
    <3>. HIDE DEF S
    <3>. QED BY <1>7, <1>8, Induct
  <2>2. top \in S
    BY <1>1, <2>1
  <2>3. top - top = 0
    BY <1>1
  <2>. HIDE DEF At
  <2>. QED BY <1>1, <2>2, <2>3
<1>10. PosAt(index, 0) = index
  BY PosHalves
<1>. QED
  BY <1>2, <1>3, <1>9, <1>10

----------------------------------------------------------------------------
(* What is in the tree verifies. *)

SiblingIn(level, idx) == level[1 + IF Sibling(idx) < Len(level) THEN Sibling(idx) ELSE idx]

\* A node and the sibling its path shows hash to the node above.
LEMMA StepUp ==
    ASSUME NEW T, NEW level \in Seq(T), NEW pos \in Nat, pos < Len(level)
    PROVE  /\ pos \div 2 < Len(Paired(level))
           /\ ClimbFrom(level[pos + 1], pos, SiblingIn(level, pos)) = Paired(level)[(pos \div 2) + 1]
<1>. DEFINE n == Len(level)
            h == (n + 1) \div 2
            g == pos \div 2
            odd == pos % 2
            p == g + 1
            left == 2 * p - 1
            right == IF 2 * p <= n THEN 2 * p ELSE 2 * p - 1
            sib == 1 + IF Sibling(pos) < n THEN Sibling(pos) ELSE pos
            self == pos + 1
<1>1. n \in Nat /\ h \in Nat /\ (n + 1 = 2 * h \/ n = 2 * h)
  <2>1. n \in Nat
    OBVIOUS
  <2>. HIDE DEF n
  <2>. QED BY <2>1
<1>2. g \in Nat /\ odd \in {0, 1} /\ pos = 2 * g + odd
  OBVIOUS
<1>3. Len(Paired(level)) = h /\ \A i \in 1..h : Paired(level)[i] = PairOfLevel(level, i)
  BY PairedIs
<1>4. Sibling(pos) = IF odd = 0 THEN pos + 1 ELSE pos - 1
  BY Zenon DEF Sibling
<1>5. PairOfLevel(level, p) = Node(level[left], level[right])
  BY Zenon DEF PairOfLevel
<1>6. ClimbFrom(level[self], pos, SiblingIn(level, pos)) =
        IF odd = 0 THEN Node(level[self], level[sib]) ELSE Node(level[sib], level[self])
  BY Zenon DEF ClimbFrom, SiblingIn
<1>7. pos < n
  OBVIOUS
<1>. HIDE DEF n, h, g, odd
<1>8. p \in 1..h /\ g < h
  BY <1>1, <1>2, <1>7
<1>9. CASE odd = 0
  <2>1. self = left /\ sib = right
    BY <1>1, <1>2, <1>4, <1>7, <1>9
  <2>. HIDE DEF self, left, sib, right, p
  <2>2. ClimbFrom(level[self], pos, SiblingIn(level, pos)) = PairOfLevel(level, p)
    BY <1>5, <1>6, <1>9, <2>1
  <2>. QED BY <1>3, <1>8, <2>2 DEF self, p, g
<1>10. CASE odd = 1
  <2>1. self = right /\ sib = left
    BY <1>1, <1>2, <1>4, <1>7, <1>10
  <2>2. odd # 0
    BY <1>10
  <2>. HIDE DEF self, left, sib, right, p
  <2>3. ClimbFrom(level[self], pos, SiblingIn(level, pos)) = PairOfLevel(level, p)
    BY <1>5, <1>6, <2>1, <2>2
  <2>. QED BY <1>3, <1>8, <2>3 DEF self, p, g
<1>. QED
  BY <1>2, <1>9, <1>10

\* merkle_path shows the siblings, level by level below the root.
LEMMA PathShows ==
    ASSUME NEW ls, Len(ls) \in Nat \ {0}, NEW index
    PROVE  /\ Len(merkle_path(ls, index)) = Len(ls) - 1
           /\ \A k \in 1 .. Len(ls) - 1 : merkle_path(ls, index)[k] = SiblingIn(ls[k], PosAt(index, k - 1))
<1>. DEFINE n == Len(ls) - 1
            f == [k \in 1..n |-> SiblingIn(ls[k], PosAt(index, k - 1))]
<1>1. n \in Nat
  OBVIOUS
<1>2. merkle_path(ls, index) = f \o << >>
  BY Zenon DEF merkle_path, SiblingIn, PosAt
<1>. HIDE DEF n
<1>3. f = [k \in 1..n |-> f[k]] /\ \A k \in 1..n : f[k] = SiblingIn(ls[k], PosAt(index, k - 1))
  OBVIOUS
<1>. HIDE DEF f
<1>4. Len(f) = n /\ f \o << >> = f
  BY <1>1, <1>3, FunctionIsSeq
<1>. QED
  BY <1>2, <1>3, <1>4 DEF n

\* The path of a leaf leads to the root.
LEMMA InsideVerifies ==
    ASSUME NEW ls, NEW leaves, NEW T, TreeOver(ls, leaves, T), NEW index \in Nat, index < Len(leaves)
    PROVE  merkle_verify(leaves[index + 1], index, merkle_path(ls, index), merkle_root(ls))
<1>. DEFINE d == Len(ls)
            top == d - 1
            path == merkle_path(ls, index)
            rt == merkle_root(ls)
            leaf == leaves[index + 1]
<1>1. d \in Nat \ {0} /\ top \in Nat /\ d = top + 1
  BY DEF TreeOver, Stacked
<1>2. Len(path) = top /\ \A k \in 1..top : path[k] = SiblingIn(ls[k], PosAt(index, k - 1))
  BY <1>1, PathShows
<1>3. ls[1] = leaves /\ Len(ls[top + 1]) = 1 /\ rt = ls[top + 1][1]
  BY <1>1 DEF TreeOver, Stacked, merkle_root, Last
<1>4. \A k \in 1..top : ls[k] \in Seq(T) /\ ls[k + 1] = Paired(ls[k])
  <2>. SUFFICES ASSUME NEW k \in 1..top PROVE ls[k] \in Seq(T) /\ ls[k + 1] = Paired(ls[k])
    OBVIOUS
  <2>1. k \in 1 .. Len(ls) /\ k \in 1 .. Len(ls) - 1
    BY <1>1
  <2>. QED BY <2>1 DEF TreeOver, Stacked
<1>. HIDE DEF d, top, path, rt
<1>5. PICK f : Climbs(f, leaf, index, path, rt)
  <2>1. Len(path) \in Nat
    BY <1>1, <1>2
  <2>. HIDE DEF leaf
  <2>. QED BY <2>1, VerifyClimbs
<1>6. f[0] = leaf /\ \A k \in 1..top : f[k] = ClimbFrom(f[k - 1], PosAt(index, k - 1), path[k])
  BY <1>2, <1>5 DEF Climbs
<1>. DEFINE On(k) == PosAt(index, k) < Len(ls[k + 1]) /\ f[k] = ls[k + 1][PosAt(index, k) + 1]
            S == {k \in Nat : k <= top => On(k)}
<1>7. 0 \in S
  <2>1. PosAt(index, 0) = index
    BY PosHalves
  <2>2. ls[0 + 1] = leaves /\ f[0] = leaves[index + 1]
    BY <1>3, <1>6
  <2>3. On(0)
    BY <2>1, <2>2
  <2>. HIDE DEF On
  <2>. QED BY <2>3
<1>8. ASSUME NEW k \in Nat, k \in S PROVE k + 1 \in S
  <2>. SUFFICES ASSUME k + 1 <= top PROVE On(k + 1)
    OBVIOUS
  <2>. DEFINE level == ls[k + 1]
              pos == PosAt(index, k)
  <2>1. On(k) /\ k + 1 \in 1..top /\ (k + 1) - 1 = k
    BY <1>1, <1>8
  <2>2. level \in Seq(T) /\ ls[(k + 1) + 1] = Paired(level)
    BY <1>4, <2>1
  <2>3. pos \in Nat /\ PosAt(index, k + 1) = pos \div 2
    BY PosHalves
  <2>4. pos < Len(level) /\ f[k + 1] = ClimbFrom(level[pos + 1], pos, SiblingIn(level, pos))
    BY <1>2, <1>6, <2>1
  <2>. HIDE DEF level, pos
  <2>5. /\ pos \div 2 < Len(Paired(level))
        /\ ClimbFrom(level[pos + 1], pos, SiblingIn(level, pos)) = Paired(level)[(pos \div 2) + 1]
    BY <2>2, <2>3, <2>4, StepUp
  <2>. QED BY <2>2, <2>3, <2>4, <2>5
<1>9. On(top)
  <2>1. Nat \subseteq S
    <3>. HIDE DEF S
    <3>. QED BY <1>7, <1>8, Induct
  <2>2. top \in S
    BY <1>1, <2>1
  <2>. HIDE DEF On
  <2>. QED BY <1>1, <2>2
<1>10. f[top] = rt
  <2>1. PosAt(index, top) \in Nat
    BY <1>1, PosHalves
  <2>2. PosAt(index, top) = 0
    BY <1>3, <1>9, <2>1
  <2>. QED BY <1>3, <1>9, <2>2
<1>11. merkle_verify(leaf, index, path, rt)
  <2>. HIDE DEF leaf
  <2>. QED BY <1>2, <1>5, <1>10 DEF Climbs
<1>. QED
  BY <1>11 DEF leaf, path, rt

----------------------------------------------------------------------------
(* The same of merkle_build. *)

\* The path of a leaf verifies in the tree built over the list it is in.
LEMMA OwnPathVerifies ==
    ASSUME NEW B, NEW leaves \in Seq(B), NEW index \in Nat, index < Len(leaves)
    PROVE  merkle_verify(leaves[index + 1], index, merkle_path(merkle_build(leaves), index),
                         merkle_root(merkle_build(leaves)))
<1>1. leaves # << >>
  OBVIOUS
<1>2. PICK T : TreeOver(merkle_build(leaves), leaves, T)
  BY <1>1, BuildIs
<1>. QED
  BY <1>2, InsideVerifies

\* What verifies with a path of a tree of the same size is in the list.
LEMMA TreeBinds ==
    ASSUME NEW B, NEW leaves \in Seq(B), leaves # << >>, NEW C, NEW others \in Seq(C), Len(others) = Len(leaves),
           NEW leaf, NEW index \in Nat, NEW j,
           merkle_verify(leaf, index, merkle_path(merkle_build(others), j), merkle_root(merkle_build(leaves)))
    PROVE  \E p \in 1 .. Len(leaves) : Lands(leaves, index, leaf, p)
<1>0. others # << >>
  OBVIOUS
<1>1. PICK T : TreeOver(merkle_build(leaves), leaves, T)
  BY BuildIs
<1>2. PICK U : TreeOver(merkle_build(others), others, U)
  BY <1>0, BuildIs
<1>. DEFINE ls == merkle_build(leaves)
            ms == merkle_build(others)
            path == merkle_path(ms, j)
<1>3. Len(ms) = Len(ls) /\ Len(ms) \in Nat \ {0}
  <2>1. Len(ls) = Len(ms)
    BY <1>1, <1>2, SameHeight
  <2>2. Len(ms) \in Nat \ {0}
    <3>. HIDE DEF ms
    <3>. QED BY <1>2 DEF TreeOver, Stacked, ms
  <2>. QED BY <2>1, <2>2
<1>4. Len(path) = Len(ls) - 1
  BY <1>3, PathShows
<1>. HIDE DEF path, ls, ms
<1>5. merkle_verify(leaf, index, path, merkle_root(ls)) /\ TreeOver(ls, leaves, T)
  BY <1>1 DEF path, ls, ms
<1>. QED
  BY <1>4, <1>5, VerifiedIsInside

----------------------------------------------------------------------------
(* Bundles. *)

BundleFields == {"ksk", "zsk", "ksk_sig", "dnskey_rrset", "zsk_sig", "rec_rrset", "inclusion", "root", "fs",
                 "pi_hash", "stark_present", "ksk_proof", "zsk_proof", "ksk_f0", "zsk_f0"}
IsInclusion(x) == x = [domain |-> x.domain, ip |-> x.ip, leaf_index |-> x.leaf_index, path |-> x.path]
BundleShape(b) == DOMAIN b = BundleFields /\ b = [f \in BundleFields |-> b[f]] /\ IsInclusion(b.inclusion)

\* A bundle the prover has sealed: a chain that holds, its pi_hash over it, and
\* proofs, if there are any, on traces of the heights of the data signed.
IsSealed(b, ldt) ==
    /\ BundleShape(b) /\ LayersHold(b) /\ b.fs = ZoneFs /\ IsPow2(b.rec_rrset.rows)
    /\ b.stark_present \in BOOLEAN
    /\ b.pi_hash = dns_record_chain_pi_hash(b, b.ksk_f0, b.zsk_f0)
    /\ ~ b.stark_present => b.ksk_f0 = Zero /\ b.zsk_f0 = Zero
    /\ b.stark_present =>
         /\ b.ksk_proof.params = build_params(DnskeyRows * BLOWUP, ZoneFs, ldt)
         /\ b.zsk_proof.params = build_params(b.rec_rrset.rows * BLOWUP, ZoneFs, ldt)

\* A pi_hash over equal terms is over equal fields.
LEMMA HashBinds ==
    ASSUME NEW b, BundleShape(b), NEW c, NEW ldt, IsSealed(c, ldt),
           verify_dns_record_chain_runtime(b), b.pi_hash = c.pi_hash
    PROVE  SameChain(b, c)
<1>. DEFINE kf == IF b.stark_present THEN b.ksk_f0 ELSE Zero
            zf == IF b.stark_present THEN b.zsk_f0 ELSE Zero
<1>1. dns_record_chain_pi_hash(b, kf, zf) = dns_record_chain_pi_hash(c, c.ksk_f0, c.zsk_f0)
  BY Zenon DEF verify_dns_record_chain_runtime, IsSealed
<1>. HIDE DEF kf, zf
<1>2. /\ b.ksk = c.ksk /\ b.zsk = c.zsk /\ b.ksk_sig = c.ksk_sig /\ b.dnskey_rrset = c.dnskey_rrset
      /\ b.zsk_sig = c.zsk_sig /\ b.rec_rrset = c.rec_rrset
      /\ b.inclusion.domain = c.inclusion.domain /\ b.inclusion.ip = c.inclusion.ip
      /\ b.inclusion.leaf_index = c.inclusion.leaf_index /\ b.inclusion.path = c.inclusion.path
      /\ b.root = c.root /\ b.fs = c.fs /\ kf = c.ksk_f0 /\ zf = c.zsk_f0
  BY <1>1 DEF dns_record_chain_pi_hash
<1>3. b.inclusion = c.inclusion
  BY <1>2, Zenon DEF BundleShape, IsSealed, IsInclusion
<1>4. ASSUME NEW f \in BundleFields \ {"stark_present", "ksk_proof", "zsk_proof", "ksk_f0", "zsk_f0"}
      PROVE  b[f] = c[f]
  BY <1>2, <1>3 DEF BundleFields
<1>5. b.stark_present => b.ksk_f0 = c.ksk_f0 /\ b.zsk_f0 = c.zsk_f0
  BY <1>2 DEF kf, zf
<1>. QED
  BY <1>4, <1>5 DEF SameChain, BundleShape

\* A sealed bundle passes the runtime checks.
LEMMA SealedVerifies ==
    ASSUME NEW b, NEW ldt, IsSealed(b, ldt)
    PROVE  verify_dns_record_chain_runtime(b)
  BY Zenon DEF IsSealed, verify_dns_record_chain_runtime

\* With its proofs it passes under the one height they were made for.
LEMMA SealedProofsVerify ==
    ASSUME NEW b, NEW ldt \in Modes, IsSealed(b, ldt), NEW n, IsPow2(n)
    PROVE  verify_dns_record_chain_stark(b, n, ldt) <=>
             (b.stark_present => {DnskeyRows, b.rec_rrset.rows} = {n})
<1>1. ASSUME NEW rows, IsPow2(rows)
      PROVE  build_params(n * BLOWUP, ZoneFs, ldt) = build_params(rows * BLOWUP, ZoneFs, ldt) <=> rows = n
  <2>1. IsPow2(n * BLOWUP) /\ IsPow2(rows * BLOWUP) /\ n \in Nat /\ rows \in Nat /\ BLOWUP \in Nat \ {0}
    BY <1>1, Pow2Product, RecordAssumption
  <2>2. ASSUME build_params(n * BLOWUP, ZoneFs, ldt) = build_params(rows * BLOWUP, ZoneFs, ldt) PROVE rows = n
    <3>1. n * BLOWUP = rows * BLOWUP
      BY <2>1, <2>2, ParamsBind
    <3>2. (n * BLOWUP) \div BLOWUP = n /\ (rows * BLOWUP) \div BLOWUP = rows
      BY <2>1, DivExact
    <3>. QED BY <3>1, <3>2
  <2>. QED BY <2>2
<1>2. IsPow2(DnskeyRows) /\ IsPow2(b.rec_rrset.rows) /\ b.fs = ZoneFs
  BY RecordAssumption DEF IsSealed
<1>3. verify_dns_record_chain_stark(b, n, ldt) <=>
        (b.stark_present => \A proof \in {b.ksk_proof, b.zsk_proof} :
                              proof.params = build_params(n * BLOWUP, ZoneFs, ldt))
  BY <1>2, SealedVerifies, Zenon DEF verify_dns_record_chain_stark, stark_verify
<1>4. CASE b.stark_present
  <2>1. /\ b.ksk_proof.params = build_params(DnskeyRows * BLOWUP, ZoneFs, ldt)
        /\ b.zsk_proof.params = build_params(b.rec_rrset.rows * BLOWUP, ZoneFs, ldt)
    BY <1>4 DEF IsSealed
  <2>2. verify_dns_record_chain_stark(b, n, ldt) <=>
          /\ build_params(n * BLOWUP, ZoneFs, ldt) = build_params(DnskeyRows * BLOWUP, ZoneFs, ldt)
          /\ build_params(n * BLOWUP, ZoneFs, ldt) = build_params(b.rec_rrset.rows * BLOWUP, ZoneFs, ldt)
    BY <1>3, <1>4, <2>1
  <2>3. verify_dns_record_chain_stark(b, n, ldt) <=> DnskeyRows = n /\ b.rec_rrset.rows = n
    BY <1>1, <1>2, <2>2, Zenon
  <2>. QED BY <1>4, <2>3
<1>5. CASE ~ b.stark_present
  BY <1>3, <1>5
<1>. QED
  BY <1>4, <1>5

\* One field of another bundle, or a changed flag or binding, leaves the shape alone.
LEMMA AlteredShape ==
    ASSUME NEW b, BundleShape(b), NEW made, \A c \in made : BundleShape(c), NEW a \in Altered(b, made)
    PROVE  BundleShape(a)
<1>1. ASSUME NEW f \in BundleFields, NEW v, f = "inclusion" => IsInclusion(v)
      PROVE  BundleShape([b EXCEPT ![f] = v])
  <2>. DEFINE x == [b EXCEPT ![f] = v]
  <2>1. DOMAIN b = BundleFields
    BY DEF BundleShape
  <2>2. DOMAIN x = BundleFields /\ x = [g \in BundleFields |-> x[g]]
    BY <2>1
  <2>3. IsInclusion(x.inclusion)
    <3>1. x["inclusion"] = IF f = "inclusion" THEN v ELSE b["inclusion"]
      BY <2>1 DEF BundleFields
    <3>. HIDE DEF x
    <3>. QED BY <1>1, <3>1 DEF BundleShape
  <2>. QED BY <2>2, <2>3 DEF BundleShape
<1>2. CASE \E c \in made : \E f \in DOMAIN b : a = [b EXCEPT ![f] = c[f]]
  <2>1. PICK c \in made, f \in BundleFields : a = [b EXCEPT ![f] = c[f]]
    BY <1>2 DEF BundleShape
  <2>2. f = "inclusion" => IsInclusion(c[f])
    BY DEF BundleShape
  <2>. QED BY <1>1, <2>1, <2>2
<1>3. CASE a = [b EXCEPT !.stark_present = ~ b.stark_present]
  BY <1>1, <1>3 DEF BundleFields
<1>4. CASE a = [b EXCEPT !.fs = OtherFs]
  BY <1>1, <1>4 DEF BundleFields
<1>5. \/ \E c \in made : \E f \in DOMAIN b : a = [b EXCEPT ![f] = c[f]]
      \/ a = [b EXCEPT !.stark_present = ~ b.stark_present]
      \/ a = [b EXCEPT !.fs = OtherFs]
  <2>1. CASE a \in UNION {{[b EXCEPT ![f] = c[f]] : f \in DOMAIN b} : c \in made}
    BY <2>1
  <2>2. CASE a \in {[b EXCEPT !.stark_present = ~ b.stark_present], [b EXCEPT !.fs = OtherFs]}
    BY <2>2
  <2>. QED BY <2>1, <2>2, Zenon DEF Altered
<1>. QED
  BY <1>2, <1>3, <1>4, <1>5

----------------------------------------------------------------------------
(* The provers. *)

\* A bundle has two proofs over its signatures, or none.
HasProofs(flag, kp, zp, rows, ldt) ==
    /\ ~ flag => kp.root_f0 = Zero /\ zp.root_f0 = Zero
    /\ flag => /\ kp.params = build_params(DnskeyRows * BLOWUP, ZoneFs, ldt)
               /\ zp.params = build_params(rows * BLOWUP, ZoneFs, ldt)

\* The layers of a chain are those of its sealed bundle, which is sealed.
LEMMA ChainSealed ==
    ASSUME NEW records \in Seq(DOMAIN RecordRows), NEW i \in 1 .. Len(records), NEW signer, NEW at,
           NEW stark \in BOOLEAN, NEW ldt, LayersHold(ChainInput(records, i, signer, at))
    PROVE  IsSealed(ChainBundle(ChainInput(records, i, signer, at), stark, ldt), ldt)
<1>. DEFINE b == ChainInput(records, i, signer, at)
            d == ChainBundle(b, stark, ldt)
            levels == dns_lookup_build_tree(records)
            path == merkle_path(levels, at)
            rt == merkle_root(levels)
            ip == records[i]
<1>1. ip \in DOMAIN RecordRows
  OBVIOUS
<1>2. b = [ksk |-> "ksk", zsk |-> "zsk", ksk_sig |-> <<"ksk", DnskeyRrset>>, dnskey_rrset |-> DnskeyRrset,
           zsk_sig |-> <<signer, RecRrset(ip)>>, rec_rrset |-> RecRrset(ip),
           inclusion |-> [domain |-> i, ip |-> ip, leaf_index |-> at, path |-> path],
           root |-> rt, fs |-> ZoneFs, pi_hash |-> Zero, stark_present |-> FALSE,
           ksk_proof |-> NoBlob, zsk_proof |-> NoBlob, ksk_f0 |-> Zero, zsk_f0 |-> Zero]
  BY Zenon DEF ChainInput
<1>. HIDE DEF levels, path, rt, ip
<1>3. ASSUME NEW flag \in BOOLEAN, NEW kp, NEW zp,
             d = Sealed(b, flag, kp, zp), HasProofs(flag, kp, zp, RecordRows[ip], ldt)
      PROVE  IsSealed(d, ldt)
  <2>. DEFINE hash1 == dns_record_chain_pi_hash(b, kp.root_f0, zp.root_f0)
              inc == [domain |-> i, ip |-> ip, leaf_index |-> at, path |-> path]
  <2>1. d = [ksk |-> "ksk", zsk |-> "zsk", ksk_sig |-> <<"ksk", DnskeyRrset>>, dnskey_rrset |-> DnskeyRrset,
             zsk_sig |-> <<signer, RecRrset(ip)>>, rec_rrset |-> RecRrset(ip),
             inclusion |-> inc,
             root |-> rt, fs |-> ZoneFs, pi_hash |-> hash1, stark_present |-> flag,
             ksk_proof |-> kp, zsk_proof |-> zp, ksk_f0 |-> kp.root_f0, zsk_f0 |-> zp.root_f0]
    <3>. DEFINE kf == kp.root_f0
                zf == zp.root_f0
    <3>1. d = [b EXCEPT !.pi_hash = hash1, !.stark_present = flag, !.ksk_proof = kp, !.zsk_proof = zp,
                        !.ksk_f0 = kf, !.zsk_f0 = zf]
      BY <1>3, Zenon DEF Sealed
    <3>. HIDE DEF hash1, kf, zf, d, b
    <3>2. d = [ksk |-> "ksk", zsk |-> "zsk", ksk_sig |-> <<"ksk", DnskeyRrset>>, dnskey_rrset |-> DnskeyRrset,
               zsk_sig |-> <<signer, RecRrset(ip)>>, rec_rrset |-> RecRrset(ip), inclusion |-> inc,
               root |-> rt, fs |-> ZoneFs, pi_hash |-> hash1, stark_present |-> flag,
               ksk_proof |-> kp, zsk_proof |-> zp, ksk_f0 |-> kf, zsk_f0 |-> zf]
      BY <3>1, <1>2
    <3>. QED BY <3>2 DEF kf, zf
  <2>. HIDE DEF d, b, hash1
  <2>2. BundleShape(d)
    <3>1. IsInclusion(inc)
      BY DEF IsInclusion
    <3>. HIDE DEF inc
    <3>. QED BY <2>1, <3>1 DEF BundleShape, BundleFields
  <2>3. LayersHold(d)
    <3>1. /\ d.ksk = b.ksk /\ d.ksk_sig = b.ksk_sig /\ d.dnskey_rrset = b.dnskey_rrset
          /\ d.zsk = b.zsk /\ d.zsk_sig = b.zsk_sig /\ d.rec_rrset = b.rec_rrset
          /\ d.inclusion = b.inclusion /\ d.root = b.root
      BY <1>2, <2>1
    <3>2. LayersHold(b)
      BY DEF b
    <3>. QED BY <3>1, <3>2, Zenon DEF LayersHold
  <2>4. IsPow2(d.rec_rrset.rows) /\ d.rec_rrset.rows = RecordRows[ip]
    BY <1>1, <2>1, RecordAssumption DEF RecRrset
  <2>5. d.pi_hash = dns_record_chain_pi_hash(d, d.ksk_f0, d.zsk_f0)
    <3>1. /\ d.ksk = b.ksk /\ d.ksk_sig = b.ksk_sig /\ d.dnskey_rrset = b.dnskey_rrset
          /\ d.zsk = b.zsk /\ d.zsk_sig = b.zsk_sig /\ d.rec_rrset = b.rec_rrset
          /\ d.inclusion = b.inclusion /\ d.root = b.root /\ d.fs = b.fs
          /\ d.ksk_f0 = kp.root_f0 /\ d.zsk_f0 = zp.root_f0 /\ d.pi_hash = hash1
      BY <1>2, <2>1
    <3>. QED BY <3>1, Zenon DEF hash1, dns_record_chain_pi_hash
  <2>6. d.fs = ZoneFs /\ d.stark_present = flag /\ d.ksk_proof = kp /\ d.zsk_proof = zp
        /\ d.ksk_f0 = kp.root_f0 /\ d.zsk_f0 = zp.root_f0
    BY <2>1
  <2>. QED BY <1>3, <2>2, <2>3, <2>4, <2>5, <2>6 DEF IsSealed, HasProofs
<1>4. CASE ~ stark
  <2>1. d = Sealed(b, FALSE, NoBlob, NoBlob)
    BY <1>4, Zenon DEF ChainBundle, prove_dns_record_chain_native
  <2>2. HasProofs(FALSE, NoBlob, NoBlob, RecordRows[ip], ldt)
    BY DEF NoBlob, HasProofs
  <2>. HIDE DEF d, b
  <2>3. IsSealed(d, ldt)
    BY <1>3, <2>1, <2>2
  <2>. QED BY <2>3 DEF d, b
<1>5. CASE stark
  <2>. DEFINE kp == prove_zsk_ksk_binding_v2(b.ksk, b.ksk_sig, b.dnskey_rrset, b.fs, b.root, ldt).proof
              zp == prove_zsk_ksk_binding_v2(b.zsk, b.zsk_sig, b.rec_rrset, b.fs, b.root, ldt).proof
  <2>1. d = Sealed(b, TRUE, kp, zp)
    BY <1>5, Zenon DEF ChainBundle, prove_dns_record_chain_stark
  <2>3. /\ kp.params = build_params(b.dnskey_rrset.rows * BLOWUP, b.fs, ldt)
        /\ zp.params = build_params(b.rec_rrset.rows * BLOWUP, b.fs, ldt)
    <3>. HIDE DEF b
    <3>. QED BY DEF prove_zsk_ksk_binding_v2, stark_prove
  <2>. HIDE DEF d, b
  <2>4. b.dnskey_rrset.rows = DnskeyRows /\ b.rec_rrset.rows = RecordRows[ip] /\ b.fs = ZoneFs
    BY <1>2 DEF DnskeyRrset, RecRrset
  <2>. HIDE DEF kp, zp
  <2>5. HasProofs(TRUE, kp, zp, RecordRows[ip], ldt)
    BY <2>3, <2>4 DEF HasProofs
  <2>6. IsSealed(d, ldt)
    BY <1>3, <2>1, <2>5
  <2>. QED BY <2>6 DEF d, b
<1>. QED
  BY <1>4, <1>5

\* The chain of a record holds if the zone key signed it and the path is its own.
LEMMA OwnChainHolds ==
    ASSUME NEW records \in Seq(DOMAIN RecordRows), NEW i \in 1 .. Len(records)
    PROVE  LayersHold(ChainInput(records, i, "zsk", i - 1))
<1>. DEFINE b == ChainInput(records, i, "zsk", i - 1)
            n == Len(records)
            leaves == [k \in 1..n |-> dns_lookup_leaf_hash(k, records[k])]
            levels == merkle_build(leaves)
            V == {dns_lookup_leaf_hash(k, records[k]) : k \in 1..n}
<1>1. n \in Nat /\ DOMAIN records = 1..n
  OBVIOUS
<1>2. leaves \in Seq(V) /\ Len(leaves) = n
  <2>. HIDE DEF n
  <2>. QED BY <1>1
<1>3. leaves[i] = dns_lookup_leaf_hash(i, records[i])
  OBVIOUS
<1>4. dns_lookup_build_tree(records) = levels
  <2>1. dns_lookup_build_tree(records) = merkle_build(leaves \o << >>)
    BY <1>1, Zenon DEF dns_lookup_build_tree
  <2>. HIDE DEF leaves, V
  <2>2. leaves \o << >> = leaves
    BY <1>2
  <2>. QED BY <2>1, <2>2
<1>5. merkle_verify(leaves[i], i - 1, merkle_path(levels, i - 1), merkle_root(levels))
  <2>1. i - 1 \in Nat /\ i - 1 < n /\ (i - 1) + 1 = i
    BY <1>1
  <2>. HIDE DEF leaves, V
  <2>. DEFINE j == i - 1
  <2>. HIDE DEF j
  <2>2. j \in Nat /\ j < Len(leaves) /\ j + 1 = i
    BY <1>2, <2>1 DEF j
  <2>3. merkle_verify(leaves[j + 1], j, merkle_path(merkle_build(leaves), j), merkle_root(merkle_build(leaves)))
    BY <1>2, <2>2, OwnPathVerifies
  <2>. QED BY <2>2, <2>3 DEF j
<1>. HIDE DEF leaves, levels, V, n
<1>6. /\ b.ksk = "ksk" /\ b.ksk_sig = <<"ksk", b.dnskey_rrset>>
      /\ b.zsk = "zsk" /\ b.zsk_sig = <<"zsk", b.rec_rrset>>
      /\ b.inclusion.domain = i /\ b.inclusion.ip = records[i] /\ b.inclusion.leaf_index = i - 1
      /\ b.inclusion.path = merkle_path(levels, i - 1) /\ b.root = merkle_root(levels)
  BY <1>4 DEF ChainInput
<1>. HIDE DEF b
<1>7. ed25519_verify(b.ksk, b.ksk_sig, b.dnskey_rrset) /\ ed25519_verify(b.zsk, b.zsk_sig, b.rec_rrset)
  BY <1>6 DEF ed25519_verify
<1>8. merkle_verify(dns_lookup_leaf_hash(b.inclusion.domain, b.inclusion.ip),
                    b.inclusion.leaf_index, b.inclusion.path, b.root)
  BY <1>3, <1>5, <1>6
<1>. QED
  BY <1>7, <1>8 DEF LayersHold, b

----------------------------------------------------------------------------
(* Sets of chains. *)

\* The rollup of an epoch, in both versions.
Rollup(bundles, e, ldt) ==
    [bundles |-> bundles, v4 |-> prove_dns_record_chain_set(bundles, ZoneFs, ldt),
     v5 |-> prove_dns_record_chain_set_v5(bundles, epoch_fs_binding(ZoneFs, e, 1), ldt)]
Rollups(made, n, ldt) == {Rollup(bundles, e, ldt) : bundles \in [1..n -> made], e \in Nat}

\* The list of the pi_hashes, and the tree over them.
LEMMA HashesAre ==
    ASSUME NEW n \in Nat, NEW made, NEW bundles \in [1..n -> made]
    PROVE  /\ PiHashes(bundles) = [i \in 1..n |-> bundles[i].pi_hash] /\ Len(PiHashes(bundles)) = n
           /\ SetTree(bundles) = merkle_build([i \in 1..n |-> dns_chain_set_v5_leaf(bundles[i].pi_hash)])
<1>1. ASSUME NEW T, NEW s \in [1..n -> T] PROVE s \o << >> = s /\ Len(s) = n
  <2>1. s \in Seq(T) /\ Len(s) = n
    BY <1>1
  <2>. QED BY <2>1
<1>. DEFINE hs == [i \in 1..n |-> bundles[i].pi_hash]
            ts == [i \in 1..n |-> dns_chain_set_v5_leaf(bundles[i].pi_hash)]
<1>2. hs \in [1..n -> {bundles[i].pi_hash : i \in 1..n}]
  OBVIOUS
<1>3. ts \in [1..n -> {dns_chain_set_v5_leaf(bundles[i].pi_hash) : i \in 1..n}]
  OBVIOUS
<1>4. PiHashes(bundles) = hs \o << >>
  BY Zenon DEF PiHashes
<1>5. SetTree(bundles) = merkle_build(ts \o << >>)
  BY Zenon DEF SetTree
<1>. HIDE DEF hs, ts
<1>6. hs \o << >> = hs /\ Len(hs) = n /\ ts \o << >> = ts
  BY <1>1, <1>2, <1>3
<1>. QED
  BY <1>4, <1>5, <1>6 DEF hs, ts

\* The proof of the rollup passes under the parameters its verifier derives.
LEMMA OuterHolds ==
    ASSUME NEW bundles, NEW e, NEW ldt
    PROVE  LET r == Rollup(bundles, e, ldt) IN OuterVerifies(r.v4, ldt) /\ OuterVerifies(r.v5, ldt)
<1>. DEFINE r == Rollup(bundles, e, ldt)
<1>1. ASSUME NEW fs, NEW set, set.outer = prove_outer_rollup(PiHashes(bundles), fs, ldt), set.fs = fs
      PROVE  OuterVerifies(set, ldt)
  <2>. DEFINE trace == RollupTrace(PiHashes(bundles))
  <2>1. /\ set.outer.proof = stark_prove(trace, Len(trace), fs, ldt) /\ set.outer.n0 = Len(trace) * BLOWUP
        /\ set.outer.root_f0 = <<"f0", trace>>
    BY <1>1 DEF prove_outer_rollup
  <2>. HIDE DEF trace
  <2>2. /\ set.outer.proof.params = build_params(set.outer.n0, set.fs, ldt)
        /\ set.outer.proof.root_f0 = set.outer.root_f0
    BY <1>1, <2>1 DEF stark_prove
  <2>. QED BY <2>2, Zenon DEF OuterVerifies, stark_verify
<1>2. /\ r.v4.outer = prove_outer_rollup(PiHashes(bundles), ZoneFs, ldt) /\ r.v4.fs = ZoneFs
      /\ r.v5.outer = prove_outer_rollup(PiHashes(bundles), epoch_fs_binding(ZoneFs, e, 1), ldt)
      /\ r.v5.fs = epoch_fs_binding(ZoneFs, e, 1)
  BY DEF Rollup, prove_dns_record_chain_set, prove_dns_record_chain_set_v5
<1>. HIDE DEF r
<1>3. OuterVerifies(r.v4, ldt) /\ OuterVerifies(r.v5, ldt)
  BY <1>1, <1>2
<1>. QED
  BY <1>3 DEF r

\* Membership is what the runtime checks of the bundle and the walk of the path say.
LEMMA MembershipIs ==
    ASSUME NEW bundles, NEW e, NEW ldt, NEW b, NEW index, NEW path
    PROVE  verify_dns_record_chain_set_membership(Rollup(bundles, e, ldt).v5, b, index, path, ldt) <=>
             /\ verify_dns_record_chain_runtime(b)
             /\ merkle_verify(dns_chain_set_v5_leaf(b.pi_hash), index, path, merkle_root(SetTree(bundles)))
<1>. DEFINE r == Rollup(bundles, e, ldt)
<1>1. OuterVerifies(r.v5, ldt)
  BY OuterHolds
<1>2. /\ r.v5.root = merkle_root(SetTree(bundles))
      /\ r.v5.set_pi_hash = dns_record_chain_set_pi_hash_v5(r.v5.root, r.v5.count, r.v5.outer.root_f0, r.v5.fs)
  BY DEF Rollup, prove_dns_record_chain_set_v5
<1>. HIDE DEF r
<1>3. verify_dns_record_chain_set_membership(r.v5, b, index, path, ldt) <=>
        /\ verify_dns_record_chain_runtime(b)
        /\ merkle_verify(dns_chain_set_v5_leaf(b.pi_hash), index, path, r.v5.root)
  BY <1>1, <1>2, Zenon DEF verify_dns_record_chain_set_membership
<1>. QED
  BY <1>2, <1>3 DEF r

\* Every bundle has the pi_hash of the one listed and passes its own checks.
AllPass(n, cs, bs, ldt, stark, n_trace) ==
    \A i \in 1..n :
      /\ cs[i].pi_hash = bs[i].pi_hash
      /\ IF stark THEN verify_dns_record_chain_stark(cs[i], n_trace, ldt)
                  ELSE verify_dns_record_chain_runtime(cs[i])

\* A set is accepted when every bundle has the pi_hash listed for it and passes
\* its own checks.
LEMMA SetIs ==
    ASSUME NEW n \in Nat, NEW made, NEW bundles \in [1..n -> made], NEW e, NEW ldt,
           NEW others, NEW bs \in [1..n -> others], NEW stark, NEW n_trace
    PROVE  verify_dns_record_chain_set(Rollup(bundles, e, ldt).v4, bs, ldt, stark, n_trace) <=>
             AllPass(n, bs, bundles, ldt, stark, n_trace)
<1>. DEFINE r == Rollup(bundles, e, ldt)
            h == PiHashes(bundles)
<1>1. OuterVerifies(r.v4, ldt)
  BY OuterHolds
<1>2. /\ r.v4.pi_hashes = h
      /\ r.v4.set_pi_hash = dns_record_chain_set_pi_hash(r.v4.pi_hashes, r.v4.outer.root_f0, r.v4.fs)
  BY DEF Rollup, prove_dns_record_chain_set
<1>3. h = [i \in 1..n |-> bundles[i].pi_hash] /\ Len(h) = n
  BY HashesAre
<1>. HIDE DEF r, h
<1>4. \A i \in 1..n : h[i] = bundles[i].pi_hash
  BY <1>3
<1>5. Len(bs) = n /\ DOMAIN bs = 1..n
  OBVIOUS
<1>6. Len(bs) = Len(h)
  BY <1>3, <1>5
<1>7. verify_dns_record_chain_set(r.v4, bs, ldt, stark, n_trace) <=>
        \A i \in 1..n :
          /\ bs[i].pi_hash = h[i]
          /\ IF stark THEN verify_dns_record_chain_stark(bs[i], n_trace, ldt)
                      ELSE verify_dns_record_chain_runtime(bs[i])
  BY <1>1, <1>2, <1>5, <1>6, Zenon DEF verify_dns_record_chain_set
<1>. QED
  BY <1>4, <1>7, Zenon DEF r, AllPass

----------------------------------------------------------------------------
(* The invariant: a zone on its way through its epochs has sealed bundles  *)
(* and rollups of them only; the verdicts are those of the properties.     *)

\* A zone between two steps, with sealed bundles and rollups of lists of them.
ZoneOf(ldt, stark, records, bundles, made, rolled) ==
    [phase |-> "chain", ldt |-> ldt, stark |-> stark, records |-> records, bundles |-> bundles,
     made |-> made, rolled |-> rolled]
GoodZone(ldt, stark, records, bundles, made, rolled) ==
    /\ ldt \in Modes /\ stark \in BOOLEAN
    /\ records \in Seq(DOMAIN RecordRows) /\ records # << >>
    /\ bundles \in Seq(made) /\ Len(bundles) <= Len(records)
    /\ \A b \in made : IsSealed(b, ldt)
    /\ rolled \in Seq(Rollups(made, Len(records), ldt))
ChainState(s) ==
    \E ldt, stark, records, bundles, made, rolled :
      s = ZoneOf(ldt, stark, records, bundles, made, rolled) /\ GoodZone(ldt, stark, records, bundles, made, rolled)

DnsInv == unit = "dns" /\ ChainBinding /\ ParametersAgree /\ (st.phase = "chain" => ChainState(st))

\* A state that is no verdict has nothing else to keep.
LEMMA NoVerdict ==
    ASSUME NEW s, Move("dns", s), s.phase \notin {"answered", "checked", "shard checked", "ds checked", "zsk checked"},
           s.phase = "chain" => ChainState(s)
    PROVE  DnsInv'
<1>1. unit' = "dns" /\ st' = s
  BY DEF Move
<1>2. ChainBinding' /\ ParametersAgree'
  <2>1. /\ st'.phase # "answered" /\ st'.phase # "checked" /\ st'.phase # "shard checked"
        /\ st'.phase # "ds checked" /\ st'.phase # "zsk checked"
    BY <1>1
  <2>. QED BY <2>1, Zenon DEF ChainBinding, ParametersAgree
<1>. QED
  BY <1>1, <1>2 DEF DnsInv

\* Every unit starts without a verdict, and a zone without bundles.
LEMMA DnsInitGood == DnsInit => DnsInv
<1>. SUFFICES ASSUME DnsInit PROVE DnsInv
  OBVIOUS
<1>1. ASSUME st.phase \notin {"answered", "checked", "shard checked", "ds checked", "zsk checked"}
      PROVE  ChainBinding /\ ParametersAgree
  <2>1. /\ st.phase # "answered" /\ st.phase # "checked" /\ st.phase # "shard checked"
        /\ st.phase # "ds checked" /\ st.phase # "zsk checked"
    BY <1>1
  <2>. QED BY <2>1, Zenon DEF ChainBinding, ParametersAgree
<1>2. CASE \E zone \in Zones, stark \in BOOLEAN, ldt \in Modes :
             st = [phase |-> "chain", ldt |-> ldt, stark |-> stark, records |-> zone, bundles |-> << >>,
                   made |-> {}, rolled |-> << >>]
  <2>1. PICK zone \in Zones, stark \in BOOLEAN, ldt \in Modes : st = ZoneOf(ldt, stark, zone, << >>, {}, << >>)
    BY <1>2, Zenon DEF ZoneOf
  <2>2. zone \in Seq(DOMAIN RecordRows) /\ zone # << >>
    BY RecordAssumption
  <2>3. << >> \in Seq({}) /\ Len(<< >>) <= Len(zone) /\ << >> \in Seq(Rollups({}, Len(zone), ldt))
    BY <2>2
  <2>4. GoodZone(ldt, stark, zone, << >>, {}, << >>)
    BY <2>2, <2>3 DEF GoodZone
  <2>5. st.phase = "chain"
    BY <2>1 DEF ZoneOf
  <2>6. ChainState(st) /\ unit = "dns"
    BY <2>1, <2>4, Zenon DEF DnsInit, ChainState
  <2>7. ChainBinding /\ ParametersAgree
    BY <1>1, <2>5
  <2>. QED BY <2>6, <2>7 DEF DnsInv
<1>3. CASE st = [phase |-> "shard"] \/ st = [phase |-> "ds"] \/ st = [phase |-> "zsk"]
  <2>1. st.phase = "shard" \/ st.phase = "ds" \/ st.phase = "zsk"
    BY <1>3
  <2>2. ChainBinding /\ ParametersAgree /\ st.phase # "chain"
    BY <1>1, <2>1
  <2>3. unit = "dns"
    BY DEF DnsInit
  <2>. QED BY <2>2, <2>3, Zenon DEF DnsInv
<1>. QED
  BY <1>2, <1>3 DEF DnsInit

\* What a step that finds a zone may use.
LEMMA ZoneFacts ==
    ASSUME DnsInv, st.phase = "chain"
    PROVE  /\ st = ZoneOf(st.ldt, st.stark, st.records, st.bundles, st.made, st.rolled)
           /\ GoodZone(st.ldt, st.stark, st.records, st.bundles, st.made, st.rolled)
<1>1. PICK ldt, stark, records, bundles, made, rolled :
             /\ st = ZoneOf(ldt, stark, records, bundles, made, rolled)
             /\ GoodZone(ldt, stark, records, bundles, made, rolled)
  BY DEF DnsInv, ChainState
<1>2. /\ st.ldt = ldt /\ st.stark = stark /\ st.records = records /\ st.bundles = bundles
      /\ st.made = made /\ st.rolled = rolled
  BY <1>1 DEF ZoneOf
<1>. QED
  BY <1>1, <1>2

\* Rollups of bundles made so far stay rollups when more are made.
LEMMA RollupsGrow ==
    ASSUME NEW made, NEW more, made \subseteq more, NEW n, NEW m, m = n, NEW ldt, NEW rolled \in Seq(Rollups(made, n, ldt))
    PROVE  rolled \in Seq(Rollups(more, m, ldt))
<1>1. Rollups(made, n, ldt) \subseteq Rollups(more, n, ldt)
  BY DEF Rollups
<1>. HIDE DEF Rollups
<1>. QED
  BY <1>1

\* The next bundle of a zone is sealed, or the prover panics.
LEMMA ChainKeeps ==
    ASSUME DnsInv, DnsChain
    PROVE  DnsInv'
<1>. DEFINE ldt == st.ldt
            stark == st.stark
            records == st.records
            bundles == st.bundles
            made == st.made
            rolled == st.rolled
<1>1. st = ZoneOf(ldt, stark, records, bundles, made, rolled) /\ GoodZone(ldt, stark, records, bundles, made, rolled)
  BY ZoneFacts DEF DnsChain
<1>2. PICK signer \in {"zsk", "ksk"}, at \in 0 .. Len(records) - 1 :
        LET b == ChainInput(records, Len(bundles) + 1, signer, at)
            sealed == ChainBundle(b, stark, ldt)
        IN  IF LayersHold(b)
              THEN Move("dns", [st EXCEPT !.bundles = Append(bundles, sealed), !.made = made \cup {sealed}])
              ELSE Move("dns", [phase |-> "panicked", input |-> b])
  BY Zenon DEF DnsChain
<1>3. Len(bundles) < Len(records)
  BY DEF DnsChain
<1>. DEFINE i == Len(bundles) + 1
            b == ChainInput(records, i, signer, at)
            sealed == ChainBundle(b, stark, ldt)
<1>. HIDE DEF ldt, stark, records, bundles, made, rolled
<1>4. CASE LayersHold(b)
  <2>1. i \in 1 .. Len(records) /\ ldt \in Modes /\ stark \in BOOLEAN /\ records \in Seq(DOMAIN RecordRows)
    BY <1>1, <1>3 DEF GoodZone
  <2>2. IsSealed(sealed, ldt)
    <3>. HIDE DEF i
    <3>. QED BY <1>4, <2>1, ChainSealed
  <2>3. Move("dns", [st EXCEPT !.bundles = Append(bundles, sealed), !.made = made \cup {sealed}])
    BY <1>2, <1>4, Zenon
  <2>. HIDE DEF sealed
  <2>. DEFINE s == ZoneOf(ldt, stark, records, Append(bundles, sealed), made \cup {sealed}, rolled)
  <2>4. [st EXCEPT !.bundles = Append(bundles, sealed), !.made = made \cup {sealed}] = s
    <3>. DEFINE bs == Append(bundles, sealed)
                ms == made \cup {sealed}
                x == [st EXCEPT !.bundles = bs, !.made = ms]
    <3>1. x = [st EXCEPT !.bundles = bs, !.made = ms]
      OBVIOUS
    <3>. HIDE DEF x, bs, ms
    <3>2. x = ZoneOf(ldt, stark, records, bs, ms, rolled)
      BY <1>1, <3>1 DEF ZoneOf
    <3>. QED BY <3>2 DEF x, bs, ms
  <2>5. GoodZone(ldt, stark, records, Append(bundles, sealed), made \cup {sealed}, rolled)
    <3>1. bundles \in Seq(made) /\ rolled \in Seq(Rollups(made, Len(records), ldt)) /\ made \subseteq made \cup {sealed}
      BY <1>1 DEF GoodZone
    <3>2. rolled \in Seq(Rollups(made \cup {sealed}, Len(records), ldt))
      BY <3>1, RollupsGrow
    <3>3. Append(bundles, sealed) \in Seq(made \cup {sealed}) /\ Len(Append(bundles, sealed)) <= Len(records)
      BY <2>1, <3>1
    <3>. QED BY <1>1, <2>2, <3>2, <3>3 DEF GoodZone
  <2>6. s.phase = "chain" /\ ChainState(s)
    BY <2>5 DEF ChainState, ZoneOf
  <2>. HIDE DEF s
  <2>. QED BY <2>3, <2>4, <2>6, NoVerdict
<1>5. CASE ~ LayersHold(b)
  <2>1. Move("dns", [phase |-> "panicked", input |-> b])
    BY <1>2, <1>5, Zenon
  <2>. QED BY <2>1, NoVerdict
<1>. QED
  BY <1>4, <1>5

\* A rollup is of bundles made.
LEMMA RollKeeps ==
    ASSUME DnsInv, DnsRoll
    PROVE  DnsInv'
<1>. DEFINE ldt == st.ldt
            stark == st.stark
            records == st.records
            bundles == st.bundles
            made == st.made
            rolled == st.rolled
            r == Rollup(bundles, Len(rolled), ldt)
<1>1. st = ZoneOf(ldt, stark, records, bundles, made, rolled) /\ GoodZone(ldt, stark, records, bundles, made, rolled)
  BY ZoneFacts DEF DnsRoll
<1>2. Move("dns", [st EXCEPT !.rolled = Append(rolled, r)])
  BY Zenon DEF DnsRoll, Rollup
<1>0. Len(bundles) = Len(records)
  BY DEF DnsRoll
<1>. HIDE DEF ldt, stark, records, bundles, made, rolled
<1>3. bundles \in [1 .. Len(records) -> made] /\ Len(rolled) \in Nat
  <2>1. bundles \in Seq(made) /\ rolled \in Seq(Rollups(made, Len(records), ldt))
    BY <1>1 DEF GoodZone
  <2>2. bundles \in [1 .. Len(bundles) -> made] /\ Len(rolled) \in Nat
    BY <2>1
  <2>. QED BY <1>0, <2>2, Zenon
<1>4. r \in Rollups(made, Len(records), ldt)
  BY <1>3 DEF Rollups
<1>. HIDE DEF r
<1>. DEFINE s == ZoneOf(ldt, stark, records, bundles, made, Append(rolled, r))
<1>5. [st EXCEPT !.rolled = Append(rolled, r)] = s
  <2>. DEFINE us == Append(rolled, r)
              x == [st EXCEPT !.rolled = us]
  <2>1. x = [st EXCEPT !.rolled = us]
    OBVIOUS
  <2>. HIDE DEF x, us
  <2>2. x = ZoneOf(ldt, stark, records, bundles, made, us)
    BY <1>1, <2>1 DEF ZoneOf
  <2>. QED BY <2>2 DEF x, us
<1>6. GoodZone(ldt, stark, records, bundles, made, Append(rolled, r))
  BY <1>1, <1>4 DEF GoodZone
<1>7. s.phase = "chain" /\ ChainState(s)
  BY <1>6 DEF ChainState, ZoneOf
<1>. HIDE DEF s
<1>. QED
  BY <1>2, <1>5, <1>7, NoVerdict

\* The bundle of a record that changed is sealed again.
LEMMA ChangeKeeps ==
    ASSUME DnsInv, DnsChange
    PROVE  DnsInv'
<1>. DEFINE ldt == st.ldt
            stark == st.stark
            records == st.records
            bundles == st.bundles
            made == st.made
            rolled == st.rolled
<1>1. st = ZoneOf(ldt, stark, records, bundles, made, rolled) /\ GoodZone(ldt, stark, records, bundles, made, rolled)
  BY ZoneFacts DEF DnsChange
<1>2. PICK i \in {1, Len(records)}, ip \in DOMAIN RecordRows \ Range(records) :
        LET changed == [records EXCEPT ![i] = ip]
            sealed == ChainBundle(ChainInput(changed, i, "zsk", i - 1), stark, ldt)
        IN  Move("dns", [st EXCEPT !.records = changed, !.bundles = [bundles EXCEPT ![i] = sealed],
                                   !.made = made \cup {sealed}])
  BY Zenon DEF DnsChange
<1>. DEFINE changed == [records EXCEPT ![i] = ip]
            sealed == ChainBundle(ChainInput(changed, i, "zsk", i - 1), stark, ldt)
            renewed == [bundles EXCEPT ![i] = sealed]
<1>3. Move("dns", [st EXCEPT !.records = changed, !.bundles = renewed, !.made = made \cup {sealed}])
  BY <1>2, Zenon
<1>. HIDE DEF ldt, stark, records, bundles, made, rolled
<1>4. /\ changed \in Seq(DOMAIN RecordRows) /\ Len(changed) = Len(records) /\ changed # << >>
      /\ i \in 1 .. Len(changed) /\ ldt \in Modes /\ stark \in BOOLEAN
  <2>1. records \in Seq(DOMAIN RecordRows) /\ records # << >> /\ ldt \in Modes /\ stark \in BOOLEAN
    BY <1>1 DEF GoodZone
  <2>2. Len(records) \in Nat \ {0} /\ i \in 1 .. Len(records)
    BY <2>1
  <2>. QED BY <2>1, <2>2
<1>. HIDE DEF changed
<1>5. IsSealed(sealed, ldt)
  BY <1>4, OwnChainHolds, ChainSealed
<1>. HIDE DEF sealed
<1>6. renewed \in Seq(made \cup {sealed}) /\ Len(renewed) <= Len(changed)
  <2>1. bundles \in Seq(made) /\ Len(bundles) <= Len(records)
    BY <1>1 DEF GoodZone
  <2>. DEFINE k == Len(bundles)
              more == made \cup {sealed}
  <2>2. bundles \in [1..k -> more] /\ sealed \in more /\ k \in Nat
    BY <2>1
  <2>. HIDE DEF k, more
  <2>3. renewed \in [1..k -> more]
    BY <2>2
  <2>. HIDE DEF renewed
  <2>4. renewed \in Seq(more) /\ Len(renewed) = k
    BY <2>2, <2>3
  <2>. QED BY <1>4, <2>1, <2>4 DEF k, more
<1>7. rolled \in Seq(Rollups(made \cup {sealed}, Len(changed), ldt))
  <2>1. rolled \in Seq(Rollups(made, Len(records), ldt)) /\ made \subseteq made \cup {sealed}
    BY <1>1 DEF GoodZone
  <2>. QED BY <1>4, <2>1, RollupsGrow
<1>. DEFINE s == ZoneOf(ldt, stark, changed, renewed, made \cup {sealed}, rolled)
<1>8. [st EXCEPT !.records = changed, !.bundles = renewed, !.made = made \cup {sealed}] = s
  <2>. DEFINE ms == made \cup {sealed}
              x == [st EXCEPT !.records = changed, !.bundles = renewed, !.made = ms]
  <2>1. x = [st EXCEPT !.records = changed, !.bundles = renewed, !.made = ms]
    OBVIOUS
  <2>. HIDE DEF x, ms, renewed
  <2>2. x = ZoneOf(ldt, stark, changed, renewed, ms, rolled)
    BY <1>1, <2>1 DEF ZoneOf
  <2>. QED BY <2>2 DEF x, ms
<1>. HIDE DEF renewed
<1>9. GoodZone(ldt, stark, changed, renewed, made \cup {sealed}, rolled)
  BY <1>1, <1>4, <1>5, <1>6, <1>7 DEF GoodZone
<1>10. s.phase = "chain" /\ ChainState(s)
  BY <1>9 DEF ChainState, ZoneOf
<1>. HIDE DEF s
<1>. QED
  BY <1>3, <1>8, <1>10, NoVerdict

----------------------------------------------------------------------------
(* Answers. *)

\* The leaves of a set's tree.
LeavesOf(bundles, n) == [i \in 1..n |-> dns_chain_set_v5_leaf(bundles[i].pi_hash)]

\* They are a list of n.
LEMMA LeavesAre ==
    ASSUME NEW n \in Nat \ {0}, NEW made, NEW bs \in [1..n -> made]
    PROVE  /\ LeavesOf(bs, n) \in Seq({dns_chain_set_v5_leaf(bs[q].pi_hash) : q \in 1..n})
           /\ Len(LeavesOf(bs, n)) = n /\ LeavesOf(bs, n) # << >> /\ SetTree(bs) = merkle_build(LeavesOf(bs, n))
           /\ \A q \in 1..n : LeavesOf(bs, n)[q] = dns_chain_set_v5_leaf(bs[q].pi_hash)
<1>. DEFINE V == {dns_chain_set_v5_leaf(bs[q].pi_hash) : q \in 1..n}
            leaves == LeavesOf(bs, n)
<1>1. SetTree(bs) = merkle_build(leaves)
  BY HashesAre, Zenon DEF LeavesOf
<1>2. leaves \in [1..n -> V] /\ \A q \in 1..n : leaves[q] = dns_chain_set_v5_leaf(bs[q].pi_hash)
  BY DEF LeavesOf
<1>. HIDE DEF leaves, V
<1>3. leaves \in Seq(V) /\ Len(leaves) = n
  BY <1>2
<1>4. leaves # << >>
  BY <1>3
<1>. QED
  BY <1>1, <1>2, <1>3, <1>4 DEF leaves, V

\* A chain of the list, the one asked for if the list has that position.
Answers(b, bs, i, n) == \E q \in 1..n : SameChain(b, bs[q]) /\ (i < n => q = i + 1)

\* What verifies against the tree of an epoch was proved for that epoch.
LEMMA AnswerBinds ==
    ASSUME NEW n \in Nat \ {0}, NEW made, NEW ldt, \A c \in made : IsSealed(c, ldt),
           NEW bs \in [1..n -> made], NEW others \in [1..n -> made], NEW b, BundleShape(b), NEW i \in Nat, NEW j,
           verify_dns_record_chain_runtime(b),
           merkle_verify(dns_chain_set_v5_leaf(b.pi_hash), i, merkle_path(SetTree(others), j), merkle_root(SetTree(bs)))
    PROVE  Answers(b, bs, i, n)
<1>. DEFINE leaves == LeavesOf(bs, n)
            shown == LeavesOf(others, n)
            leaf == dns_chain_set_v5_leaf(b.pi_hash)
            V == {dns_chain_set_v5_leaf(bs[q].pi_hash) : q \in 1..n}
            W == {dns_chain_set_v5_leaf(others[q].pi_hash) : q \in 1..n}
<1>1. /\ leaves \in Seq(V) /\ Len(leaves) = n /\ leaves # << >> /\ SetTree(bs) = merkle_build(leaves)
      /\ \A q \in 1..n : leaves[q] = dns_chain_set_v5_leaf(bs[q].pi_hash)
  BY LeavesAre
<1>2. /\ shown \in Seq(W) /\ Len(shown) = n /\ shown # << >> /\ SetTree(others) = merkle_build(shown)
      /\ \A q \in 1..n : shown[q] = dns_chain_set_v5_leaf(others[q].pi_hash)
  BY LeavesAre
<1>. HIDE DEF leaves, shown, leaf, V, W
<1>3. merkle_verify(leaf, i, merkle_path(merkle_build(shown), j), merkle_root(merkle_build(leaves)))
  BY <1>1, <1>2 DEF leaf
<1>4. Len(shown) = Len(leaves)
  BY <1>1, <1>2
<1>5. \E q \in 1 .. Len(leaves) : Lands(leaves, i, leaf, q)
  BY <1>1, <1>2, <1>3, <1>4, TreeBinds
<1>6. PICK q \in 1..n : leaf = leaves[q] /\ (i < n => q = i + 1)
  BY <1>1, <1>5 DEF Lands
<1>7. b.pi_hash = bs[q].pi_hash
  BY <1>1, <1>6 DEF leaf, dns_chain_set_v5_leaf
<1>8. IsSealed(bs[q], ldt)
  OBVIOUS
<1>9. SameChain(b, bs[q])
  BY <1>7, <1>8, HashBinds
<1>. QED
  BY <1>6, <1>9, Zenon DEF Answers

\* The bundle at a position verifies there with its own path.
LEMMA OwnAnswerVerifies ==
    ASSUME NEW n \in Nat \ {0}, NEW made, NEW ldt, \A c \in made : IsSealed(c, ldt),
           NEW bs \in [1..n -> made], NEW i \in Nat, i < n
    PROVE  /\ verify_dns_record_chain_runtime(bs[i + 1])
           /\ merkle_verify(dns_chain_set_v5_leaf(bs[i + 1].pi_hash), i, merkle_path(SetTree(bs), i),
                            merkle_root(SetTree(bs)))
<1>. DEFINE leaves == LeavesOf(bs, n)
            V == {dns_chain_set_v5_leaf(bs[q].pi_hash) : q \in 1..n}
<1>1. /\ leaves \in Seq(V) /\ Len(leaves) = n /\ SetTree(bs) = merkle_build(leaves)
      /\ \A q \in 1..n : leaves[q] = dns_chain_set_v5_leaf(bs[q].pi_hash)
  BY LeavesAre
<1>. HIDE DEF leaves, V
<1>2. i + 1 \in 1..n
  OBVIOUS
<1>3. IsSealed(bs[i + 1], ldt)
  BY <1>2
<1>4. i < Len(leaves)
  BY <1>1
<1>5. merkle_verify(leaves[i + 1], i, merkle_path(merkle_build(leaves), i), merkle_root(merkle_build(leaves)))
  BY <1>1, <1>4, OwnPathVerifies
<1>6. leaves[i + 1] = dns_chain_set_v5_leaf(bs[i + 1].pi_hash)
  BY <1>1, <1>2
<1>. QED
  BY <1>1, <1>3, <1>5, <1>6, SealedVerifies

\* A list that the set accepts is the one rolled up, chain by chain.
LEMMA ListBinds ==
    ASSUME NEW n \in Nat, NEW made, NEW ldt, \A c \in made : IsSealed(c, ldt), NEW bs \in [1..n -> made], NEW e,
           NEW others, \A c \in others : BundleShape(c), NEW cs \in [1..n -> others], NEW stark, NEW n_trace,
           verify_dns_record_chain_set(Rollup(bs, e, ldt).v4, cs, ldt, stark, n_trace)
    PROVE  \A i \in 1..n : SameChain(cs[i], bs[i])
<1>. SUFFICES ASSUME NEW i \in 1..n PROVE SameChain(cs[i], bs[i])
  OBVIOUS
<1>1. /\ cs[i].pi_hash = bs[i].pi_hash
      /\ IF stark THEN verify_dns_record_chain_stark(cs[i], n_trace, ldt)
                  ELSE verify_dns_record_chain_runtime(cs[i])
  <2>1. AllPass(n, cs, bs, ldt, stark, n_trace)
    BY SetIs
  <2>. QED BY <2>1, Zenon DEF AllPass
<1>2. verify_dns_record_chain_runtime(cs[i])
  BY <1>1, Zenon DEF verify_dns_record_chain_stark
<1>3. IsSealed(bs[i], ldt) /\ BundleShape(cs[i])
  OBVIOUS
<1>. QED
  BY <1>1, <1>2, <1>3, HashBinds

\* Every proof of the list is on a trace of the one height.
HeightsAgree(bs, n, stark, n_trace) ==
    stark => \A i \in 1..n : bs[i].stark_present => {DnskeyRows, bs[i].rec_rrset.rows} = {n_trace}

ListPasses(bs, n, e, ldt, stark, n_trace) ==
    verify_dns_record_chain_set(Rollup(bs, e, ldt).v4, bs, ldt, stark, n_trace) <=> HeightsAgree(bs, n, stark, n_trace)

\* The list rolled up passes; with its proofs under the one height of all their traces.
LEMMA OwnListVerifies ==
    ASSUME NEW n \in Nat, NEW made, NEW ldt \in Modes, \A c \in made : IsSealed(c, ldt), NEW bs \in [1..n -> made],
           NEW e, NEW stark \in BOOLEAN, NEW n_trace, IsPow2(n_trace)
    PROVE  ListPasses(bs, n, e, ldt, stark, n_trace)
<1>1. verify_dns_record_chain_set(Rollup(bs, e, ldt).v4, bs, ldt, stark, n_trace) <=>
        \A i \in 1..n : IF stark THEN verify_dns_record_chain_stark(bs[i], n_trace, ldt)
                                 ELSE verify_dns_record_chain_runtime(bs[i])
  <2>1. verify_dns_record_chain_set(Rollup(bs, e, ldt).v4, bs, ldt, stark, n_trace) <=>
          AllPass(n, bs, bs, ldt, stark, n_trace)
    BY SetIs
  <2>. QED BY <2>1, Zenon DEF AllPass
<1>2. ASSUME NEW i \in 1..n
      PROVE  /\ verify_dns_record_chain_runtime(bs[i])
             /\ verify_dns_record_chain_stark(bs[i], n_trace, ldt) <=>
                  (bs[i].stark_present => {DnskeyRows, bs[i].rec_rrset.rows} = {n_trace})
  <2>1. IsSealed(bs[i], ldt)
    OBVIOUS
  <2>. QED BY <2>1, SealedVerifies, SealedProofsVerify
<1>3. CASE stark
  BY <1>1, <1>2, <1>3, Zenon DEF HeightsAgree, ListPasses
<1>4. CASE ~ stark
  BY <1>1, <1>2, <1>4, Zenon DEF HeightsAgree, ListPasses
<1>. QED
  BY <1>3, <1>4

IsRolled(r, made, n, ldt) == \E bs \in [1..n -> made], k \in Nat : r = Rollup(bs, k, ldt) /\ r.bundles = bs
\* A rollup of a zone is of bundles the zone has made.
LEMMA RolledIs ==
    ASSUME NEW made, NEW n, NEW ldt, NEW rolled \in Seq(Rollups(made, n, ldt)), NEW e \in DOMAIN rolled
    PROVE  IsRolled(rolled[e], made, n, ldt)
<1>1. rolled[e] \in Rollups(made, n, ldt)
  OBVIOUS
<1>2. PICK bs \in [1..n -> made], k \in Nat : rolled[e] = Rollup(bs, k, ldt)
  BY <1>1 DEF Rollups
<1>3. Rollup(bs, k, ldt).bundles = bs
  BY DEF Rollup
<1>. QED
  BY <1>2, <1>3 DEF IsRolled

\* A consumer's query is answered as ChainBinding says.
LEMMA QueryKeeps ==
    ASSUME DnsInv, DnsQuery
    PROVE  DnsInv'
<1>. DEFINE ldt == st.ldt
            records == st.records
            made == st.made
            rolled == st.rolled
            n == Len(records)
<1>1. GoodZone(ldt, st.stark, records, st.bundles, made, rolled)
  BY ZoneFacts DEF DnsQuery
<1>2. PICK e \in DOMAIN rolled, p \in DOMAIN rolled, j \in 0..n, i \in 0..n :
        \E b \in UNION {IF e = p /\ i = j THEN Altered(c, made) ELSE {c} : c \in made} :
         /\ j < n
         /\ Move("dns",
              [phase |-> "answered", records |-> rolled[e].bundles, b |-> b, index |-> i,
               own |-> e = p /\ i = j /\ b = rolled[e].bundles[j + 1],
               ok |-> verify_dns_record_chain_set_membership(
                        rolled[e].v5, b, i, merkle_path(SetTree(rolled[p].bundles), j), ldt)])
  BY Zenon DEF DnsQuery
<1>3. PICK b \in UNION {IF e = p /\ i = j THEN Altered(c, made) ELSE {c} : c \in made} :
         /\ j < n
         /\ Move("dns",
              [phase |-> "answered", records |-> rolled[e].bundles, b |-> b, index |-> i,
               own |-> e = p /\ i = j /\ b = rolled[e].bundles[j + 1],
               ok |-> verify_dns_record_chain_set_membership(
                        rolled[e].v5, b, i, merkle_path(SetTree(rolled[p].bundles), j), ldt)])
  BY <1>2, Zenon
<1>. DEFINE ok == verify_dns_record_chain_set_membership(
                        rolled[e].v5, b, i, merkle_path(SetTree(rolled[p].bundles), j), ldt)
            own == e = p /\ i = j /\ b = rolled[e].bundles[j + 1]
            s == [phase |-> "answered", records |-> rolled[e].bundles, b |-> b, index |-> i, own |-> own, ok |-> ok]
<1>4. Move("dns", s) /\ j < n
  BY <1>3, Zenon
<1>. HIDE DEF ldt, records, made, rolled
<1>5. n \in Nat \ {0} /\ rolled \in Seq(Rollups(made, n, ldt)) /\ \A c \in made : IsSealed(c, ldt)
  BY <1>1 DEF GoodZone
<1>. HIDE DEF n
<1>6. PICK bs \in [1..n -> made], k \in Nat : rolled[e] = Rollup(bs, k, ldt) /\ rolled[e].bundles = bs
  <2>1. IsRolled(rolled[e], made, n, ldt)
    BY <1>5, RolledIs
  <2>. QED BY <2>1, Zenon DEF IsRolled
<1>7. PICK others \in [1..n -> made], m \in Nat : rolled[p] = Rollup(others, m, ldt) /\ rolled[p].bundles = others
  <2>1. IsRolled(rolled[p], made, n, ldt)
    BY <1>5, RolledIs
  <2>. QED BY <2>1, Zenon DEF IsRolled
<1>8. i \in Nat /\ j \in Nat
  BY <1>5
<1>9. BundleShape(b)
  <2>1. PICK c \in made : b \in Altered(c, made) \/ b = c
    BY <1>3
  <2>2. \A d \in made : BundleShape(d)
    BY <1>5 DEF IsSealed
  <2>. QED BY <2>1, <2>2, AlteredShape
<1>10. ok <=> /\ verify_dns_record_chain_runtime(b)
              /\ merkle_verify(dns_chain_set_v5_leaf(b.pi_hash), i, merkle_path(SetTree(others), j), merkle_root(SetTree(bs)))
  BY <1>6, <1>7, MembershipIs
<1>11. ASSUME own PROVE ok
  <2>1. bs = others /\ i = j /\ b = bs[i + 1]
    BY <1>6, <1>7, <1>11
  <2>2. /\ verify_dns_record_chain_runtime(bs[i + 1])
        /\ merkle_verify(dns_chain_set_v5_leaf(bs[i + 1].pi_hash), i, merkle_path(SetTree(bs), i),
                         merkle_root(SetTree(bs)))
    BY <1>4, <1>5, <1>8, <2>1, OwnAnswerVerifies
  <2>. HIDE DEF ok
  <2>. QED BY <1>10, <2>1, <2>2
<1>12. ASSUME ok PROVE Answers(b, bs, i, n)
  <2>1. /\ verify_dns_record_chain_runtime(b)
        /\ merkle_verify(dns_chain_set_v5_leaf(b.pi_hash), i, merkle_path(SetTree(others), j), merkle_root(SetTree(bs)))
    BY <1>10, <1>12
  <2>. QED BY <1>5, <1>8, <1>9, <2>1, AnswerBinds
<1>. HIDE DEF ok, own
<1>13. /\ s.phase = "answered" /\ s.records = bs /\ s.b = b /\ s.index = i /\ s.own = own /\ s.ok = ok
  BY <1>6
<1>. HIDE DEF s
<1>14. unit' = "dns" /\ st' = s
  BY <1>4 DEF Move
<1>15. DOMAIN bs = 1..n /\ Len(bs) = n
  BY <1>5
<1>16. ChainBinding'
  <2>1. s.own => s.ok
    BY <1>11, <1>13
  <2>2. s.ok => \E q \in DOMAIN s.records : SameChain(s.b, s.records[q]) /\ (s.index < Len(s.records) => q = s.index + 1)
    BY <1>12, <1>13, <1>15, Zenon DEF Answers
  <2>3. s.phase # "checked"
    BY <1>13
  <2>. QED BY <1>14, <2>1, <2>2, <2>3, Zenon DEF ChainBinding
<1>17. ParametersAgree' /\ st'.phase # "chain"
  BY <1>13, <1>14 DEF ParametersAgree
<1>. QED
  BY <1>14, <1>16, <1>17 DEF DnsInv

\* A set is checked as ChainBinding says.
LEMMA CheckKeeps ==
    ASSUME DnsInv, DnsCheckSet
    PROVE  DnsInv'
<1>. DEFINE ldt == st.ldt
            records == st.records
            made == st.made
            rolled == st.rolled
            n == Len(records)
<1>1. GoodZone(ldt, st.stark, records, st.bundles, made, rolled)
  BY ZoneFacts DEF DnsCheckSet
<1>2. PICK e \in DOMAIN rolled, i \in DOMAIN records, stark \in BOOLEAN, n_trace \in {8, 16} :
       \E b \in Altered(rolled[e].bundles[i], made) :
         LET bs == [rolled[e].bundles EXCEPT ![i] = b]
         IN  Move("dns",
              [phase |-> "checked", records |-> rolled[e].bundles, bs |-> bs, stark |-> stark, n_trace |-> n_trace,
               ok |-> verify_dns_record_chain_set(rolled[e].v4, bs, ldt, stark, n_trace)])
  BY Zenon DEF DnsCheckSet
<1>3. PICK b \in Altered(rolled[e].bundles[i], made) :
         LET bs == [rolled[e].bundles EXCEPT ![i] = b]
         IN  Move("dns",
              [phase |-> "checked", records |-> rolled[e].bundles, bs |-> bs, stark |-> stark, n_trace |-> n_trace,
               ok |-> verify_dns_record_chain_set(rolled[e].v4, bs, ldt, stark, n_trace)])
  BY <1>2, Zenon
<1>. DEFINE cs == [rolled[e].bundles EXCEPT ![i] = b]
            ok == verify_dns_record_chain_set(rolled[e].v4, cs, ldt, stark, n_trace)
            s == [phase |-> "checked", records |-> rolled[e].bundles, bs |-> cs, stark |-> stark,
                  n_trace |-> n_trace, ok |-> ok]
<1>4. Move("dns", s)
  BY <1>3, Zenon
<1>. HIDE DEF ldt, records, made, rolled
<1>5. /\ n \in Nat /\ rolled \in Seq(Rollups(made, n, ldt)) /\ \A c \in made : IsSealed(c, ldt)
      /\ ldt \in Modes /\ i \in 1..n
  BY <1>1 DEF GoodZone
<1>. HIDE DEF n
<1>6. PICK bs \in [1..n -> made], k \in Nat : rolled[e] = Rollup(bs, k, ldt) /\ rolled[e].bundles = bs
  <2>1. IsRolled(rolled[e], made, n, ldt)
    BY <1>5, RolledIs
  <2>. QED BY <2>1, Zenon DEF IsRolled
<1>7. \A d \in made : BundleShape(d)
  BY <1>5 DEF IsSealed
<1>8. BundleShape(b)
  <2>1. bs[i] \in made /\ b \in Altered(bs[i], made)
    BY <1>5, <1>6
  <2>. QED BY <1>7, <2>1, AlteredShape
<1>. DEFINE shown == made \cup {b}
<1>9. cs \in [1..n -> shown] /\ \A c \in shown : BundleShape(c)
  BY <1>5, <1>6, <1>7, <1>8
<1>. HIDE DEF cs, shown
<1>10. ok <=> verify_dns_record_chain_set(Rollup(bs, k, ldt).v4, cs, ldt, stark, n_trace)
  BY <1>6, Zenon
<1>. HIDE DEF ok
<1>11. ok => \A q \in 1..n : SameChain(cs[q], bs[q])
  <2>. SUFFICES ASSUME verify_dns_record_chain_set(Rollup(bs, k, ldt).v4, cs, ldt, stark, n_trace)
                PROVE  \A q \in 1..n : SameChain(cs[q], bs[q])
    BY <1>10
  <2>. QED BY <1>5, <1>9, ListBinds
<1>12. IsPow2(n_trace)
  <2>1. pow2(3) = 8 /\ pow2(4) = 16
    BY SmallPowers, PowStep
  <2>. QED BY <2>1 DEF IsPow2
<1>13. cs = bs => (ok <=> HeightsAgree(bs, n, stark, n_trace))
  <2>1. ListPasses(bs, n, k, ldt, stark, n_trace)
    BY <1>5, <1>12, OwnListVerifies
  <2>. QED BY <1>10, <2>1, Zenon DEF ListPasses
<1>14. /\ s.phase = "checked" /\ s.records = bs /\ s.bs = cs /\ s.stark = stark /\ s.n_trace = n_trace /\ s.ok = ok
  BY <1>6
<1>. HIDE DEF s
<1>15. unit' = "dns" /\ st' = s
  BY <1>4 DEF Move
<1>16. DOMAIN bs = 1..n /\ DOMAIN cs = 1..n
  BY <1>9
<1>17. ChainBinding'
  <2>1. s.ok => \A q \in DOMAIN s.bs : SameChain(s.bs[q], s.records[q])
    BY <1>11, <1>14, <1>16, Zenon
  <2>2. s.bs = s.records =>
          (s.ok <=> (s.stark => \A q \in DOMAIN s.bs : s.bs[q].stark_present =>
                                  {DnskeyRows, s.bs[q].rec_rrset.rows} = {s.n_trace}))
    BY <1>13, <1>14, <1>16, Zenon DEF HeightsAgree
  <2>3. s.phase # "answered"
    BY <1>14
  <2>. QED BY <1>15, <2>1, <2>2, <2>3, Zenon DEF ChainBinding
<1>18. ParametersAgree' /\ st'.phase # "chain"
  BY <1>14, <1>15 DEF ParametersAgree
<1>. QED
  BY <1>15, <1>17, <1>18 DEF DnsInv

----------------------------------------------------------------------------
(* Shards and the delegation. *)

\* The trace of a rollup has a row for each of its leaves, and is padded to a power of two.
LEMMA TraceHeight ==
    ASSUME NEW hashes, Len(hashes) \in Nat
    PROVE  Len(RollupTrace(hashes)) = next_pow2(4 * Len(hashes)) /\ IsPow2(next_pow2(4 * Len(hashes)))
<1>. DEFINE active == 4 * Len(hashes)
            row(i) == IF i <= active THEN pack_hash_to_leaves(hashes[(i + 3) \div 4])[1 + ((i - 1) % 4)] ELSE <<Zero, 0>>
            n == next_pow2(active)
            rows == [i \in 1..n |-> row(i)]
            V == {row(i) : i \in 1..n}
<1>1. active \in Nat
  OBVIOUS
<1>2. IsPow2(n) /\ n \in Nat
  <2>. HIDE DEF active
  <2>1. IsPow2(n)
    BY <1>1, NextPow2Is
  <2>. HIDE DEF n
  <2>. QED BY <2>1 DEF IsPow2
<1>3. RollupTrace(hashes) = rows \o << >>
  BY Zenon DEF RollupTrace
<1>4. rows \in [1..n -> V]
  <2>. HIDE DEF row, n
  <2>. QED OBVIOUS
<1>. HIDE DEF rows, V, row
<1>5. Len(rows \o << >>) = n
  <2>. HIDE DEF n
  <2>1. rows \in Seq(V) /\ Len(rows) = n
    BY <1>2, <1>4
  <2>. QED BY <2>1
<1>. QED
  BY <1>2, <1>3, <1>5 DEF n, active

\* A shard passes under the count, salt, binding and mode it was proved with, and
\* its schedule folds its domain to one point.
LEMMA ShardKeeps ==
    ASSUME DnsInv, DnsShard
    PROVE  DnsInv'
<1>1. PICK k \in ShardSizes, count \in ShardSizes, ldt \in Modes, mode \in Modes, fs \in Bindings, salt \in {1, 2} :
         LET w == [prove_inner_shard(1, Records(k), ZoneFs, ldt) EXCEPT !.record_count = count]
         IN  Move("dns", [phase |-> "shard checked", same |-> k = count /\ ldt = mode /\ fs = ZoneFs /\ salt = 1,
                          schedule |-> w.proof.params.schedule, n_trace |-> w.n_trace,
                          ok |-> verify_inner(w, salt, fs, mode)])
  BY Zenon DEF DnsShard
<1>. DEFINE w0 == prove_inner_shard(1, Records(k), ZoneFs, ldt)
            w == [w0 EXCEPT !.record_count = count]
            same == k = count /\ ldt = mode /\ fs = ZoneFs /\ salt = 1
            ok == verify_inner(w, salt, fs, mode)
            leaves == [i \in DOMAIN Records(k) |-> leaf_hash(Records(k)[i], 1)] \o << >>
            trace == RollupTrace(leaves)
            rt == merkle_root(merkle_build(leaves))
            n == Len(trace)
            proof == stark_prove(trace, n, ZoneFs, ldt)
<1>2. k \in Nat \ {0} /\ count \in Nat \ {0}
  BY RecordAssumption
<1>3. Len(Records(k)) = k /\ Len(leaves) = k
  <2>. DEFINE ids == [i \in 1..k |-> i]
              hashes == [i \in 1..k |-> leaf_hash(ids[i], 1)]
              V == {leaf_hash(ids[i], 1) : i \in 1..k}
  <2>1. ids \in Seq(Nat) /\ Len(ids) = k /\ DOMAIN ids = 1..k
    BY <1>2
  <2>2. Records(k) = ids
    <3>1. Records(k) = ids \o << >>
      BY Zenon DEF Records
    <3>. HIDE DEF ids
    <3>. QED BY <2>1, <3>1
  <2>3. hashes \in [1..k -> V]
    OBVIOUS
  <2>4. leaves = hashes \o << >>
    <3>. HIDE DEF ids
    <3>. QED BY <2>1, <2>2, Zenon
  <2>. HIDE DEF ids, hashes, V, leaves
  <2>5. hashes \in Seq(V) /\ Len(hashes) = k
    BY <1>2, <2>3
  <2>. QED BY <2>1, <2>2, <2>4, <2>5
<1>. HIDE DEF leaves
<1>4. n = next_pow2(4 * k) /\ IsPow2(n)
  BY <1>2, <1>3, TraceHeight
<1>5. w0 = [pi_hash |-> inner_pi_hash_recipe(1, k, rt, proof.root_f0, ZoneFs), merkle_root |-> rt,
            record_count |-> k, n_trace |-> n, proof |-> proof]
  BY <1>3, Zenon DEF prove_inner_shard, leaves
<1>. DEFINE f0 == proof.root_f0
            rows == build_params(n * BLOWUP, ZoneFs, ldt)
<1>6. proof.root_f0 = f0 /\ proof.params = rows
  BY DEF stark_prove
<1>. HIDE DEF w0, rt, n, trace, proof, f0, rows
<1>7. /\ w.pi_hash = inner_pi_hash_recipe(1, k, rt, f0, ZoneFs) /\ w.merkle_root = rt /\ w.record_count = count
      /\ w.n_trace = n /\ w.proof = proof
  BY <1>5, <1>6
<1>. HIDE DEF w
<1>8. ok <=> /\ inner_pi_hash_recipe(1, k, rt, f0, ZoneFs) = inner_pi_hash_recipe(salt, count, rt, f0, fs)
             /\ inner_n0_from_record_count(count) = n * BLOWUP
             /\ rows = build_params(inner_n0_from_record_count(count), fs, mode)
  BY <1>6, <1>7, Zenon DEF verify_inner, stark_verify
<1>9. inner_n0_from_record_count(k) = n * BLOWUP
  BY <1>4 DEF inner_n0_from_record_count
<1>10. IsPow2(n * BLOWUP)
  BY <1>4, Pow2Product, RecordAssumption
<1>11. ok <=> same
  <2>. HIDE DEF ok
  <2>1. ASSUME ok PROVE same
    <3>1. salt = 1 /\ k = count /\ fs = ZoneFs
      BY <1>8, <2>1 DEF inner_pi_hash_recipe
    <3>2. rows = build_params(n * BLOWUP, fs, mode)
      BY <1>8, <2>1
    <3>3. ldt = mode
      BY <1>10, <3>2, ParamsBind DEF rows
    <3>. QED BY <3>1, <3>3
  <2>2. ASSUME same PROVE ok
    <3>1. rows = build_params(inner_n0_from_record_count(count), fs, mode)
      BY <1>9, <2>2 DEF rows
    <3>. QED BY <1>8, <1>9, <2>2, <3>1
  <2>. QED BY <2>1, <2>2
<1>. DEFINE s == [phase |-> "shard checked", same |-> same, schedule |-> w.proof.params.schedule, n_trace |-> w.n_trace,
                  ok |-> ok]
<1>12. Move("dns", s)
  BY <1>1, Zenon DEF w, w0
<1>13. w.proof.params.schedule = make_schedule(n * BLOWUP, ldt)
  BY <1>6, <1>7 DEF rows, build_params
<1>14. Product(make_schedule(n * BLOWUP, ldt)) = n * BLOWUP
  BY <1>10, ScheduleFolds
<1>. HIDE DEF ok, same
<1>15. /\ s.phase = "shard checked" /\ s.same = same /\ s.ok = ok /\ s.n_trace = n
       /\ s.schedule = make_schedule(n * BLOWUP, ldt)
  BY <1>7, <1>13
<1>. HIDE DEF s
<1>16. unit' = "dns" /\ st' = s
  BY <1>12 DEF Move
<1>17. ParametersAgree'
  <2>1. (s.ok <=> s.same) /\ Product(s.schedule) = s.n_trace * BLOWUP
    BY <1>11, <1>14, <1>15
  <2>2. s.phase # "ds checked" /\ s.phase # "zsk checked"
    BY <1>15
  <2>. QED BY <1>16, <2>1, <2>2, Zenon DEF ParametersAgree
<1>18. ChainBinding' /\ st'.phase # "chain"
  BY <1>15, <1>16 DEF ChainBinding
<1>. QED
  BY <1>16, <1>17, <1>18 DEF DnsInv

\* Padding gives the number of blocks that the verifier counts.
LEMMA BlocksAgree ==
    ASSUME NEW bytes \in Nat
    PROVE  PaddedBlocks(bytes) = ExpectedBlocks(bytes)
<1>. DEFINE m == bytes + 9
            q == (m + 63) \div 64
            r == (-m) % 64
<1>1. m \in Nat /\ r \in 0..63
  OBVIOUS
<1>2. -m = 64 * ((-m) \div 64) + r /\ (-m) \div 64 \in Int
  OBVIOUS
<1>. DEFINE t == -((-m) \div 64)
<1>3. m + r = 64 * t /\ t \in Int
  BY <1>1, <1>2
<1>. HIDE DEF r, t
<1>4. (m + r) \div 64 = t
  <2>. HIDE DEF m
  <2>. QED BY <1>3
<1>5. q = t
  <2>. HIDE DEF m
  <2>. QED BY <1>1, <1>3
<1>6. PaddedBlocks(bytes) = (m + r) \div 64
  BY DEF PaddedBlocks, r
<1>7. ExpectedBlocks(bytes) = q
  BY DEF ExpectedBlocks
<1>. QED
  BY <1>4, <1>5, <1>6, <1>7

DsRows(key) == next_power_of_two(128 * PaddedBlocks(key.bytes))
DsRoot(key) == <<"f0", <<"sha256", key>>>>
DsProof(key, fs) == [root_f0 |-> DsRoot(key), params |-> build_params(DsRows(key) * BLOWUP, fs, "STIR")]

\* What a run of the prover leaves.
LEMMA DsProofIs ==
    ASSUME NEW d, NEW parent, NEW fs
    PROVE  prove_ds_ksk_binding(d, parent, fs, "STIR") =
             [pi_hash |-> ds_ksk_pi_hash(d, parent, Sha256(d), DsRoot(d), fs), asserted |-> Sha256(d),
              n_blocks |-> PaddedBlocks(d.bytes), n_trace |-> DsRows(d), root_f0 |-> DsRoot(d), proof |-> DsProof(d, fs)]
<1>. DEFINE rows == DsRows(d)
            proof == stark_prove(<<"sha256", d>>, rows, fs, "STIR")
            f0 == proof.root_f0
            blocks == PaddedBlocks(d.bytes)
            digest == Sha256(d)
            claimed == ds_ksk_pi_hash(d, parent, digest, f0, fs)
<1>1. prove_ds_ksk_binding(d, parent, fs, "STIR") =
        [pi_hash |-> claimed, asserted |-> digest, n_blocks |-> blocks, n_trace |-> rows, root_f0 |-> f0, proof |-> proof]
  BY Zenon DEF prove_ds_ksk_binding, DsRows
<1>2. proof = DsProof(d, fs)
  BY Zenon DEF stark_prove, DsProof, DsRoot
<1>3. f0 = DsRoot(d)
  BY <1>2 DEF DsProof
<1>. HIDE DEF proof, f0
<1>. QED
  BY <1>1, <1>2, <1>3, Zenon

\* The trace of a key has as many rows as a power of two says.
LEMMA DsRowsArePower ==
    ASSUME NEW key \in Dnskeys
    PROVE  IsPow2(DsRows(key)) /\ IsPow2(DsRows(key) * BLOWUP) /\ DsRows(key) \in Nat \ {0}
<1>. DEFINE m == key.bytes + 9
            blocks == (m + ((-m) % 64)) \div 64
<1>1. m \in Nat
  BY RecordAssumption
<1>2. PaddedBlocks(key.bytes) = blocks
  BY DEF PaddedBlocks
<1>. HIDE DEF m
<1>3. 128 * blocks \in Nat
  BY <1>1
<1>. HIDE DEF blocks
<1>4. IsPow2(DsRows(key))
  BY <1>2, <1>3, NextPowerIs DEF DsRows
<1>. QED
  BY <1>4, Pow2Product, RecordAssumption

\* Parameters of a key's trace are those of no other height.
LEMMA DsHeightBinds ==
    ASSUME NEW key \in Dnskeys, NEW other \in Dnskeys, NEW fs, NEW gs,
           build_params(DsRows(key) * BLOWUP, fs, "STIR") = build_params(DsRows(other) * BLOWUP, gs, "STIR")
    PROVE  DsRows(key) = DsRows(other) /\ fs = gs
<1>. DEFINE m == DsRows(key)
            n == DsRows(other)
<1>1. IsPow2(m * BLOWUP) /\ IsPow2(n * BLOWUP) /\ m \in Nat \ {0} /\ n \in Nat \ {0}
  BY DsRowsArePower
<1>2. BLOWUP \in Nat \ {0}
  BY Pow2Product, RecordAssumption
<1>. HIDE DEF m, n
<1>3. m * BLOWUP = n * BLOWUP /\ fs = gs
  <2>1. build_params(m * BLOWUP, fs, "STIR") = build_params(n * BLOWUP, gs, "STIR")
    BY DEF m, n
  <2>2. "STIR" \in Modes
    BY DEF Modes
  <2>. QED BY <1>1, <2>1, <2>2, ParamsBind
<1>4. m = n
  <2>1. (m * BLOWUP) \div BLOWUP = m /\ (n * BLOWUP) \div BLOWUP = n
    BY <1>1, <1>2, DivExact
  <2>. QED BY <1>3, <2>1
<1>. QED
  BY <1>3, <1>4 DEF m, n

\* Each value of an assembled bundle is one that a run on a key left.
IsAssembled(g) ==
    /\ g = [f \in DsFields |-> g[f]]
    /\ \E key \in Dnskeys, hashed \in Dnskeys, fs \in Bindings :
         g.pi_hash = ds_ksk_pi_hash(key, Sha256(hashed), Sha256(key), DsRoot(key), fs)
    /\ \E key \in Dnskeys : g.n_trace = DsRows(key)
    /\ \E key \in Dnskeys, fs \in Bindings : g.proof = DsProof(key, fs)

LEMMA AssembledIs ==
    ASSUME NEW d \in Dnskeys, NEW d2 \in Dnskeys, NEW hashed \in Dnskeys, NEW hashed2 \in Dnskeys,
           NEW bound \in Bindings, NEW late \in SUBSET DsFields
    PROVE  IsAssembled(Assembled(prove_ds_ksk_binding(d, Sha256(hashed), ZoneFs, "STIR"),
                                 prove_ds_ksk_binding(d2, Sha256(hashed2), bound, "STIR"), late))
<1>. DEFINE out == prove_ds_ksk_binding(d, Sha256(hashed), ZoneFs, "STIR")
            other == prove_ds_ksk_binding(d2, Sha256(hashed2), bound, "STIR")
            g == Assembled(out, other, late)
<1>1. /\ out.pi_hash = ds_ksk_pi_hash(d, Sha256(hashed), Sha256(d), DsRoot(d), ZoneFs)
      /\ out.n_trace = DsRows(d) /\ out.proof = DsProof(d, ZoneFs)
  BY DsProofIs
<1>2. /\ other.pi_hash = ds_ksk_pi_hash(d2, Sha256(hashed2), Sha256(d2), DsRoot(d2), bound)
      /\ other.n_trace = DsRows(d2) /\ other.proof = DsProof(d2, bound)
  BY DsProofIs
<1>. HIDE DEF out, other
<1>3. /\ g = [f \in DsFields |-> g[f]]
      /\ g.pi_hash \in {out.pi_hash, other.pi_hash} /\ g.n_trace \in {out.n_trace, other.n_trace}
      /\ g.proof \in {out.proof, other.proof}
  BY DEF Assembled, DsFields
<1>4. ZoneFs \in Bindings
  BY DEF Bindings
<1>. HIDE DEF g
<1>5. \E key \in Dnskeys, h \in Dnskeys, fs \in Bindings :
        g.pi_hash = ds_ksk_pi_hash(key, Sha256(h), Sha256(key), DsRoot(key), fs)
  <2>1. CASE g.pi_hash = out.pi_hash
    BY <1>1, <1>4, <2>1, Zenon
  <2>2. CASE g.pi_hash = other.pi_hash
    BY <1>2, <2>2, Zenon
  <2>. QED BY <1>3, <2>1, <2>2
<1>6. \E key \in Dnskeys : g.n_trace = DsRows(key)
  BY <1>1, <1>2, <1>3
<1>7. \E key \in Dnskeys, fs \in Bindings : g.proof = DsProof(key, fs)
  BY <1>1, <1>2, <1>3, <1>4
<1>8. IsAssembled(g)
  BY <1>3, <1>5, <1>6, <1>7, Zenon DEF IsAssembled
<1>. QED
  BY <1>8 DEF g, out, other

\* Of assembled values the verifier takes those of one run only, made for the key,
\* the digest and the binding it has.
LEMMA AssembledBinds ==
    ASSUME NEW g, IsAssembled(g), NEW shown \in Dnskeys, NEW parent, NEW fs \in Bindings,
           g.n_blocks = ExpectedBlocks(shown.bytes), g.root_f0 = g.proof.root_f0, g.asserted = parent,
           g.proof.params = build_params(g.n_trace * BLOWUP, fs, "STIR"),
           g.pi_hash = ds_ksk_pi_hash(shown, parent, g.asserted, g.proof.root_f0, fs)
    PROVE  Sha256(shown) = parent /\ g = prove_ds_ksk_binding(shown, parent, fs, "STIR")
<1>1. PICK key \in Dnskeys, hashed \in Dnskeys, gs \in Bindings :
        g.pi_hash = ds_ksk_pi_hash(key, Sha256(hashed), Sha256(key), DsRoot(key), gs)
  BY Zenon DEF IsAssembled
<1>2. PICK tall \in Dnskeys : g.n_trace = DsRows(tall)
  BY Zenon DEF IsAssembled
<1>3. PICK proved \in Dnskeys, hs \in Bindings : g.proof = DsProof(proved, hs)
  BY Zenon DEF IsAssembled
<1>4. g.proof.root_f0 = DsRoot(proved) /\ g.proof.params = build_params(DsRows(proved) * BLOWUP, hs, "STIR")
  BY <1>3 DEF DsProof
<1>5. shown = key /\ g.asserted = Sha256(key) /\ DsRoot(proved) = DsRoot(key)
  <2>1. ds_ksk_pi_hash(shown, parent, g.asserted, DsRoot(proved), fs) =
        ds_ksk_pi_hash(key, Sha256(hashed), Sha256(key), DsRoot(key), gs)
    BY <1>1, <1>4
  <2>. QED BY <2>1 DEF ds_ksk_pi_hash
<1>6. proved = shown
  BY <1>5 DEF DsRoot
<1>7. DsRows(proved) = DsRows(tall) /\ hs = fs
  BY <1>2, <1>4, DsHeightBinds
<1>8. g.n_blocks = PaddedBlocks(shown.bytes)
  BY BlocksAgree, RecordAssumption
<1>. DEFINE run == prove_ds_ksk_binding(shown, parent, fs, "STIR")
<1>9. /\ run = [pi_hash |-> ds_ksk_pi_hash(shown, parent, Sha256(shown), DsRoot(shown), fs), asserted |-> Sha256(shown),
                n_blocks |-> PaddedBlocks(shown.bytes), n_trace |-> DsRows(shown), root_f0 |-> DsRoot(shown),
                proof |-> DsProof(shown, fs)]
  BY DsProofIs
<1>. HIDE DEF run
<1>10. /\ g.pi_hash = ds_ksk_pi_hash(shown, parent, Sha256(shown), DsRoot(shown), fs) /\ g.asserted = Sha256(shown)
       /\ g.n_trace = DsRows(shown) /\ g.root_f0 = DsRoot(shown) /\ g.proof = DsProof(shown, fs)
  BY <1>2, <1>3, <1>4, <1>5, <1>6, <1>7
<1>11. g = [f \in DsFields |-> g[f]]
  BY DEF IsAssembled
<1>12. \A f \in DsFields : g[f] = run[f]
  BY <1>8, <1>9, <1>10 DEF DsFields
<1>13. run = [f \in DsFields |-> run[f]]
  BY <1>9 DEF DsFields
<1>14. g = run
  BY <1>11, <1>12, <1>13
<1>. QED
  BY <1>5, <1>14 DEF run

\* The values of a run for a key and its own digest pass.
LEMMA OwnDsVerifies ==
    ASSUME NEW b, b.dnskey \in Dnskeys, NEW fs, Sha256(b.dnskey) = b.parent,
           b.out = prove_ds_ksk_binding(b.dnskey, b.parent, fs, "STIR")
    PROVE  /\ b.out.n_blocks = ExpectedBlocks(b.dnskey.bytes)
           /\ stark_verify(build_params(b.out.n_trace * BLOWUP, fs, "STIR"), b.out.proof)
           /\ b.out.asserted = b.parent
           /\ b.out.pi_hash = ds_ksk_pi_hash(b.dnskey, b.parent, b.out.asserted, b.out.proof.root_f0, fs)
           /\ b.out.root_f0 = b.out.proof.root_f0
<1>. DEFINE d == b.dnskey
            parent == b.parent
            out == b.out
<1>1. /\ out.pi_hash = ds_ksk_pi_hash(d, parent, Sha256(d), DsRoot(d), fs) /\ out.asserted = Sha256(d)
      /\ out.n_blocks = PaddedBlocks(d.bytes) /\ out.n_trace = DsRows(d) /\ out.root_f0 = DsRoot(d)
      /\ out.proof = DsProof(d, fs)
  BY DsProofIs
<1>2. out.proof.root_f0 = DsRoot(d) /\ out.proof.params = build_params(DsRows(d) * BLOWUP, fs, "STIR")
  BY <1>1 DEF DsProof
<1>3. PaddedBlocks(d.bytes) = ExpectedBlocks(d.bytes)
  BY BlocksAgree, RecordAssumption
<1>. HIDE DEF d, parent, out
<1>4. Sha256(d) = parent
  BY DEF d, parent
<1>5. /\ out.n_blocks = ExpectedBlocks(d.bytes) /\ out.asserted = parent /\ out.root_f0 = out.proof.root_f0
      /\ out.pi_hash = ds_ksk_pi_hash(d, parent, out.asserted, out.proof.root_f0, fs)
      /\ stark_verify(build_params(out.n_trace * BLOWUP, fs, "STIR"), out.proof)
  BY <1>1, <1>2, <1>3, <1>4, Zenon DEF stark_verify
<1>. QED
  BY <1>5 DEF d, parent, out

\* A DS bundle is checked as ParametersAgree says.
LEMMA DsKeeps ==
    ASSUME DnsInv, DnsDs
    PROVE  DnsInv'
<1>1. PICK d \in Dnskeys, d2 \in Dnskeys, hashed \in Dnskeys, hashed2 \in Dnskeys, bound \in Bindings, fs \in Bindings,
            stark \in BOOLEAN, late \in SUBSET DsFields :
       \E shown \in {d, d2}, parent \in {Sha256(hashed), Sha256(hashed2)} :
         LET out == prove_ds_ksk_binding(d, Sha256(hashed), ZoneFs, "STIR")
             other == prove_ds_ksk_binding(d2, Sha256(hashed2), bound, "STIR")
             b == [dnskey |-> shown, parent |-> parent, stark |-> stark, out |-> Assembled(out, other, late)]
         IN  Move("dns", [phase |-> "ds checked", b |-> b, fs |-> fs, ok |-> verify_ds_ksk(b, fs, "STIR")])
  BY Zenon DEF DnsDs
<1>2. PICK shown \in {d, d2}, parent \in {Sha256(hashed), Sha256(hashed2)} :
         LET out == prove_ds_ksk_binding(d, Sha256(hashed), ZoneFs, "STIR")
             other == prove_ds_ksk_binding(d2, Sha256(hashed2), bound, "STIR")
             b == [dnskey |-> shown, parent |-> parent, stark |-> stark, out |-> Assembled(out, other, late)]
         IN  Move("dns", [phase |-> "ds checked", b |-> b, fs |-> fs, ok |-> verify_ds_ksk(b, fs, "STIR")])
  BY <1>1, Zenon
<1>. DEFINE g == Assembled(prove_ds_ksk_binding(d, Sha256(hashed), ZoneFs, "STIR"),
                           prove_ds_ksk_binding(d2, Sha256(hashed2), bound, "STIR"), late)
            b == [dnskey |-> shown, parent |-> parent, stark |-> stark, out |-> g]
            ok == verify_ds_ksk(b, fs, "STIR")
            s == [phase |-> "ds checked", b |-> b, fs |-> fs, ok |-> ok]
<1>3. Move("dns", s)
  BY <1>2, Zenon
<1>4. IsAssembled(g) /\ shown \in Dnskeys
  BY AssembledIs
<1>. HIDE DEF g
<1>5. b.dnskey = shown /\ b.parent = parent /\ b.stark = stark /\ b.out = g
  OBVIOUS
<1>. HIDE DEF b
<1>6. ASSUME ok PROVE Sha256(shown) = parent /\ (stark => g = prove_ds_ksk_binding(shown, parent, fs, "STIR"))
  <2>1. CASE ~ stark
    BY <1>5, <1>6, <2>1, Zenon DEF verify_ds_ksk
  <2>2. CASE stark
    <3>1. /\ g.n_blocks = ExpectedBlocks(shown.bytes) /\ g.root_f0 = g.proof.root_f0 /\ g.asserted = parent
          /\ g.proof.params = build_params(g.n_trace * BLOWUP, fs, "STIR")
          /\ g.pi_hash = ds_ksk_pi_hash(shown, parent, g.asserted, g.proof.root_f0, fs)
      BY <1>5, <1>6, <2>2, Zenon DEF verify_ds_ksk, stark_verify
    <3>. QED BY <1>4, <3>1, AssembledBinds
  <2>. QED BY <2>1, <2>2
<1>7. ASSUME Sha256(shown) = parent, stark => g = prove_ds_ksk_binding(shown, parent, fs, "STIR") PROVE ok
  <2>1. CASE ~ stark
    BY <1>5, <1>7, <2>1, Zenon DEF verify_ds_ksk
  <2>2. CASE stark
    <3>1. b.dnskey \in Dnskeys /\ Sha256(b.dnskey) = b.parent
          /\ b.out = prove_ds_ksk_binding(b.dnskey, b.parent, fs, "STIR")
      BY <1>4, <1>5, <1>7, <2>2, Zenon
    <3>. QED BY <1>5, <2>2, <3>1, OwnDsVerifies, Zenon DEF verify_ds_ksk
  <2>. QED BY <2>1, <2>2
<1>. HIDE DEF ok
<1>8. ok <=> Sha256(shown) = parent /\ (stark => g = prove_ds_ksk_binding(shown, parent, fs, "STIR"))
  BY <1>6, <1>7, Zenon
<1>9. s.phase = "ds checked" /\ s.b = b /\ s.fs = fs /\ s.ok = ok
  OBVIOUS
<1>. HIDE DEF s
<1>10. unit' = "dns" /\ st' = s
  BY <1>3 DEF Move
<1>11. ParametersAgree'
  <2>1. s.ok <=> /\ Sha256(s.b.dnskey) = s.b.parent
                 /\ s.b.stark => s.b.out = prove_ds_ksk_binding(s.b.dnskey, s.b.parent, s.fs, "STIR")
    BY <1>5, <1>8, <1>9, Zenon
  <2>2. s.phase # "shard checked" /\ s.phase # "zsk checked"
    BY <1>9
  <2>. QED BY <1>10, <2>1, <2>2, Zenon DEF ParametersAgree
<1>12. ChainBinding' /\ st'.phase # "chain"
  BY <1>9, <1>10 DEF ChainBinding
<1>. QED
  BY <1>10, <1>11, <1>12 DEF DnsInv

\* At run time a ZSK signature passes only for the key that made it, under its own
\* binding; the stub's STARK under its own binding, whatever the signature.
LEMMA ZskKeeps ==
    ASSUME DnsInv, DnsZsk
    PROVE  DnsInv'
<1>1. PICK signer \in {"ksk", "zsk"}, pk \in {"ksk", "zsk"}, shown \in Bindings, fs \in Bindings, stark \in BOOLEAN :
         LET sig == <<signer, DnskeyRrset>>
             out == prove_zsk_ksk_binding_stub_k8(ZoneFs, "STIR")
             b == [pk |-> pk, sig |-> sig, data |-> DnskeyRrset, fs |-> shown, stark |-> stark, out |-> out,
                   pi_hash |-> verify_zsk_ksk_native("ksk", sig, DnskeyRrset, fs).pi_hash]
             v2 == verify_zsk_ksk_native_v2("ksk", sig, DnskeyRrset, fs, Zero)
         IN  Move("dns", [phase |-> "zsk checked", b |-> b, fs |-> fs, signer |-> signer, ok |-> verify_zsk_ksk(b, "STIR"),
                          v2 |-> verify_zsk_ksk_runtime_fallback_v2(pk, sig, DnskeyRrset, shown, Zero, v2.pi_hash)])
  BY Zenon DEF DnsZsk
<1>. DEFINE data == DnskeyRrset
            sig == <<signer, data>>
            out == prove_zsk_ksk_binding_stub_k8(ZoneFs, "STIR")
            claimed == verify_zsk_ksk_native("ksk", sig, data, fs).pi_hash
            claimed2 == verify_zsk_ksk_native_v2("ksk", sig, data, fs, Zero).pi_hash
            b == [pk |-> pk, sig |-> sig, data |-> data, fs |-> shown, stark |-> stark, out |-> out, pi_hash |-> claimed]
            ok == verify_zsk_ksk(b, "STIR")
            v2 == verify_zsk_ksk_runtime_fallback_v2(pk, sig, data, shown, Zero, claimed2)
            s == [phase |-> "zsk checked", b |-> b, fs |-> fs, signer |-> signer, ok |-> ok, v2 |-> v2]
<1>2. Move("dns", s)
  BY <1>1, Zenon
<1>3. /\ claimed = zsk_ksk_pi_hash("ksk", sig, data, fs)
      /\ claimed2 = zsk_ksk_pi_hash_v2_runtime("ksk", sig, data, fs, Zero)
  BY DEF verify_zsk_ksk_native, verify_zsk_ksk_native_v2
<1>. DEFINE f0 == out.proof.root_f0
<1>4. /\ out.n_trace = StubRows /\ out.root_f0 = f0 /\ out.pi_hash = StubPiHash(f0, ZoneFs)
      /\ out.proof.params = build_params(StubRows * BLOWUP, ZoneFs, "STIR")
  BY DEF prove_zsk_ksk_binding_stub_k8, stark_prove
<1>5. out.proof.root_f0 = f0
  OBVIOUS
<1>. HIDE DEF out, claimed, claimed2, f0, data
<1>6. /\ b.pk = pk /\ b.sig = sig /\ b.data = data /\ b.fs = shown /\ b.stark = stark /\ b.out = out
      /\ b.pi_hash = claimed
  OBVIOUS
<1>7. ed25519_verify(pk, sig, data) <=> signer = pk
  BY DEF ed25519_verify
<1>8. /\ zsk_ksk_pi_hash(pk, sig, data, shown) = claimed <=> pk = "ksk" /\ shown = fs
      /\ zsk_ksk_pi_hash_v2_runtime(pk, sig, data, shown, Zero) = claimed2 <=> pk = "ksk" /\ shown = fs
  <2>. HIDE DEF sig
  <2>1. zsk_ksk_pi_hash(pk, sig, data, shown) = zsk_ksk_pi_hash("ksk", sig, data, fs) <=> pk = "ksk" /\ shown = fs
    BY DEF zsk_ksk_pi_hash
  <2>2. zsk_ksk_pi_hash_v2_runtime(pk, sig, data, shown, Zero) = zsk_ksk_pi_hash_v2_runtime("ksk", sig, data, fs, Zero)
          <=> pk = "ksk" /\ shown = fs
    BY DEF zsk_ksk_pi_hash_v2_runtime
  <2>. QED BY <1>3, <2>1, <2>2
<1>. HIDE DEF b, sig
<1>9. ASSUME stark PROVE ok <=> shown = ZoneFs
  <2>1. ok <=> /\ build_params(StubRows * BLOWUP, shown, "STIR") = build_params(StubRows * BLOWUP, ZoneFs, "STIR")
               /\ StubPiHash(f0, ZoneFs) = StubPiHash(f0, shown)
    <3>1. ok <=> /\ stark_verify(build_params(b.out.n_trace * BLOWUP, b.fs, "STIR"), b.out.proof)
                 /\ b.out.proof.root_f0 = b.out.root_f0
                 /\ b.out.pi_hash = StubPiHash(b.out.proof.root_f0, b.fs)
      BY <1>6, <1>9, Zenon DEF verify_zsk_ksk
    <3>. HIDE DEF ok
    <3>2. ok <=> /\ out.proof.params = build_params(out.n_trace * BLOWUP, shown, "STIR")
                 /\ out.pi_hash = StubPiHash(f0, shown)
      BY <1>4, <1>5, <1>6, <3>1, Zenon DEF stark_verify
    <3>. QED BY <1>4, <3>2
  <2>. HIDE DEF ok
  <2>2. StubPiHash(f0, ZoneFs) = StubPiHash(f0, shown) <=> shown = ZoneFs
    BY DEF StubPiHash
  <2>. QED BY <2>1, <2>2
<1>10. ASSUME ~ stark PROVE ok <=> signer = "ksk" /\ pk = "ksk" /\ shown = fs
  <2>1. ok <=> zsk_ksk_pi_hash(pk, sig, data, shown) = claimed /\ ed25519_verify(pk, sig, data)
    BY <1>6, <1>10, Zenon DEF verify_zsk_ksk, verify_zsk_ksk_runtime_fallback
  <2>. HIDE DEF ok
  <2>. QED BY <1>7, <1>8, <2>1
<1>11. v2 <=> signer = "ksk" /\ pk = "ksk" /\ shown = fs
  <2>1. v2 <=> zsk_ksk_pi_hash_v2_runtime(pk, sig, data, shown, Zero) = claimed2 /\ ed25519_verify(pk, sig, data)
    BY Zenon DEF verify_zsk_ksk_runtime_fallback_v2
  <2>. HIDE DEF v2
  <2>. QED BY <1>7, <1>8, <2>1
<1>12. ok <=> IF stark THEN shown = ZoneFs ELSE signer = "ksk" /\ pk = "ksk" /\ shown = fs
  <2>. HIDE DEF ok
  <2>. QED BY <1>9, <1>10
<1>. HIDE DEF ok, v2
<1>13. s.phase = "zsk checked" /\ s.b = b /\ s.ok = ok /\ s.v2 = v2 /\ s.fs = fs /\ s.signer = signer
  OBVIOUS
<1>. HIDE DEF s
<1>14. unit' = "dns" /\ st' = s
  BY <1>2 DEF Move
<1>15. ParametersAgree'
  <2>1. /\ s.ok <=> IF s.b.stark THEN s.b.fs = ZoneFs ELSE s.signer = "ksk" /\ s.b.pk = "ksk" /\ s.b.fs = s.fs
        /\ s.v2 <=> s.signer = "ksk" /\ s.b.pk = "ksk" /\ s.b.fs = s.fs
    BY <1>6, <1>11, <1>12, <1>13, Zenon
  <2>2. s.phase # "shard checked" /\ s.phase # "ds checked"
    BY <1>13
  <2>. QED BY <1>14, <2>1, <2>2, Zenon DEF ParametersAgree
<1>16. ChainBinding' /\ st'.phase # "chain"
  BY <1>13, <1>14 DEF ChainBinding
<1>. QED
  BY <1>14, <1>15, <1>16 DEF DnsInv

----------------------------------------------------------------------------
(* The specification. *)

\* Every step of the DNS provers keeps the invariant.
LEMMA DnsStepKeeps == DnsInv /\ [DnsNext]_unitVars => DnsInv'
<1>1. ASSUME DnsInv, UNCHANGED unitVars PROVE DnsInv'
  <2>1. unit' = unit /\ st' = st
    BY <1>1 DEF unitVars
  <2>2. ChainBinding' /\ ParametersAgree'
    BY <1>1, <2>1 DEF DnsInv, ChainBinding, ParametersAgree
  <2>. QED BY <1>1, <2>1, <2>2 DEF DnsInv
<1>. QED
  BY <1>1, ChainKeeps, RollKeeps, ChangeKeeps, QueryKeeps, CheckKeeps, ShardKeeps, DsKeeps, ZskKeeps DEF DnsNext

\* A zone in any behaviour of the provers has sealed bundles only, and rollups of them.
THEOREM ZonesSealed == DnsSpec => []DnsInv
<1>. QED
  BY DnsInitGood, DnsStepKeeps, PTL DEF DnsSpec

\* For zones of any length and any number of epochs: an answer that verifies
\* against the set of an epoch is a chain proved for that epoch, at the position
\* asked for; an honest answer verifies; a list is accepted as it was rolled up,
\* with its STARKs only under the one height they were all proved on.
THEOREM ChainsBound == DnsSpec => []ChainBinding
<1>1. DnsInv => ChainBinding
  BY DEF DnsInv
<1>. QED
  BY <1>1, ZonesSealed, PTL

\* For shards of every size, keys of every length and any blowup, prover and
\* verifier agree on the parameters of what the prover makes: a shard passes exactly
\* under its own count, salt, binding and mode, its schedule folds the whole domain
\* to one point, and of the values that runs of the DS prover leave exactly all those
\* of one run pass, made for the key, digest and binding at hand.  It is not about
\* values that no run made.
THEOREM ParametersRebuilt == DnsSpec => []ParametersAgree
<1>1. DnsInv => ParametersAgree
  BY DEF DnsInv
<1>. QED
  BY <1>1, ZonesSealed, PTL
=============================================================================
