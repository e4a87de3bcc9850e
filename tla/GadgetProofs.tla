---------------------------- MODULE GadgetProofs ----------------------------
(***************************************************************************)
(* Proofs about the gadgets of FieldAir, ScalarAir and MlDsaRows: cells    *)
(* that the constraints of a gadget accept hold the right result, and the  *)
(* cells that the circuit writes are accepted.                             *)
(*                                                                         *)
(* FieldAir: every modulus 2^T - FOLD, every alternation of limb widths    *)
(* and every native field large enough for the products.  ScalarAir: every *)
(* modulus L, limb width and carry width its assumption admits.            *)
(* MlDsaRows: every modulus q, every gamma_2 with 2 gamma_2 | q - 1, every *)
(* bit width that holds its range and every length of the equation.        *)
(*                                                                         *)
(* FieldSpec, ScalarSpec and MlRowsSpec have the behaviours of these       *)
(* gadgets alone: the units of Circuits share no state.                    *)
(***************************************************************************)
EXTENDS FieldAir, ScalarAir, MlDsaRows, ArithmeticProofs

----------------------------------------------------------------------------
(* Widths and weights. *)

\* The weight of limb k; the one above the last limb is 2^T.
Weight(k) == pow2(SumTo(LIMB_WIDTHS, k - 1))

\* Limb k has the width of the first limb, or a bit less.
LEMMA Widths ==
    /\ NUM_LIMBS \in Nat /\ NUM_LIMBS >= 2
    /\ LIMB_WIDTHS[1] \in Nat /\ LIMB_WIDTHS[1] >= 2
    /\ \A k \in Limb : LIMB_WIDTHS[k] \in Nat \ {0}
<1>1. NUM_LIMBS \in Nat /\ \A k \in Limb : LIMB_WIDTHS[k] \in Nat \ {0}
  BY FieldAssumption DEF NUM_LIMBS, Limb
<1>2. NUM_LIMBS >= 2
  BY <1>1, FieldAssumption
<1>3. LIMB_WIDTHS[1] \in Nat /\ LIMB_WIDTHS[2] \in Nat \ {0} /\ LIMB_WIDTHS[2] = LIMB_WIDTHS[1] - 1
  <2>1. 1 \in Limb /\ 2 \in Limb /\ 2 % 2 = 0
    BY <1>1, <1>2 DEF Limb
  <2>2. LIMB_WIDTHS[2] = LIMB_WIDTHS[1] - (IF 2 % 2 = 0 THEN 1 ELSE 0)
    BY <2>1, FieldAssumption
  <2>. QED BY <1>1, <2>1, <2>2
<1>. QED
  BY <1>1, <1>2, <1>3

\* Every second limb below limb k saves a bit.
LEMMA OffsetIs ==
    \A k \in 0..NUM_LIMBS : /\ SumTo(LIMB_WIDTHS, k) = k * LIMB_WIDTHS[1] - k \div 2
                            /\ SumTo(LIMB_WIDTHS, k) \in Nat
<1>. DEFINE w == LIMB_WIDTHS[1]
            S == {k \in Nat : k <= NUM_LIMBS => SumTo(LIMB_WIDTHS, k) = k * w - k \div 2}
<1>0. w \in Nat /\ w >= 2 /\ NUM_LIMBS \in Nat
  BY Widths
<1>1. 0 \in S
  <2>1. 0 = 0 * w - 0 \div 2
    BY <1>0
  <2>. QED BY <2>1, SumStep
<1>2. ASSUME NEW k \in Nat, k \in S PROVE k + 1 \in S
  <2>. SUFFICES ASSUME k + 1 <= NUM_LIMBS PROVE SumTo(LIMB_WIDTHS, k + 1) = (k + 1) * w - (k + 1) \div 2
    OBVIOUS
  <2>1. SumTo(LIMB_WIDTHS, k + 1) = SumTo(LIMB_WIDTHS, k) + LIMB_WIDTHS[k + 1]
    BY SumStep
  <2>2. LIMB_WIDTHS[k + 1] = w - (IF (k + 1) % 2 = 0 THEN 1 ELSE 0)
    <3>1. k + 1 \in Limb
      BY <1>0 DEF Limb
    <3>. QED BY <3>1, FieldAssumption
  <2>3. (k + 1) \div 2 = k \div 2 + (IF (k + 1) % 2 = 0 THEN 1 ELSE 0) /\ k \div 2 \in Int
    OBVIOUS
  <2>. DEFINE h == k \div 2  g == (k + 1) \div 2  e == IF (k + 1) % 2 = 0 THEN 1 ELSE 0  kw == k * w
  <2>4. SumTo(LIMB_WIDTHS, k) = kw - h /\ g = h + e /\ h \in Int /\ e \in Int /\ kw \in Int
    BY <1>0, <1>2, <2>3
  <2>5. (k + 1) * w = kw + w
    BY <1>0
  <2>6. LIMB_WIDTHS[k + 1] = w - e
    BY <2>2
  <2>. HIDE DEF h, g, e, kw, w
  <2>7. SumTo(LIMB_WIDTHS, k + 1) = (kw + w) - g
    BY <1>0, <2>1, <2>4, <2>6
  <2>. QED BY <2>5, <2>7 DEF g
<1>3. Nat \subseteq S
  <2>. HIDE DEF S
  <2>. QED BY <1>1, <1>2, Induct
<1>4. ASSUME NEW k \in Nat PROVE k * w - k \div 2 \in Nat
  <2>1. k * w >= k * 2 /\ k * w \in Nat
    BY <1>0
  <2>. DEFINE kw == k * w
  <2>. HIDE DEF kw
  <2>2. kw >= k * 2 /\ kw \in Nat
    BY <2>1 DEF kw
  <2>3. kw - k \div 2 \in Nat
    BY <2>2
  <2>. QED BY <2>3, Zenon DEF kw
<1>. SUFFICES ASSUME NEW k \in 0..NUM_LIMBS
              PROVE  SumTo(LIMB_WIDTHS, k) = k * w - k \div 2 /\ SumTo(LIMB_WIDTHS, k) \in Nat
  OBVIOUS
<1>5. k \in Nat /\ k <= NUM_LIMBS
  BY <1>0
<1>6. SumTo(LIMB_WIDTHS, k) = k * w - k \div 2
  BY <1>3, <1>5, Zenon
<1>. QED
  BY <1>4, <1>5, <1>6, Zenon

\* Each limb starts where the one below ends; radices do not exceed the first.
LEMMA WeightStep ==
    /\ Weight(1) = 1 /\ Weight(NUM_LIMBS + 1) = P + FOLD
    /\ \A k \in Limb : /\ LIMB_WEIGHTS[k] = Weight(k) /\ LIMB_RADIX[k] \in Nat \ {0}
                       /\ Weight(k) \in Nat \ {0} /\ Weight(k + 1) = Weight(k) * LIMB_RADIX[k]
                       /\ LIMB_RADIX[k] <= LIMB_RADIX[1]
    /\ LIMB_RADIX[1] \in Nat \ {0} /\ FOLD \in Nat \ {0} /\ FOLD < LIMB_RADIX[1]
    /\ Weight(NUM_LIMBS + 1) \in Nat \ {0} /\ P \in Nat \ {0}
<1>0. NUM_LIMBS \in Nat /\ NUM_LIMBS >= 2 /\ 1 \in Limb
  BY Widths DEF Limb
<1>1. Weight(1) = 1
  <2>1. SumTo(LIMB_WIDTHS, 0) = 0 /\ 1 - 1 = 0
    BY SumStep
  <2>. QED BY <2>1, PowStep DEF Weight
<1>2. ASSUME NEW k \in Limb
      PROVE  /\ LIMB_WEIGHTS[k] = Weight(k) /\ LIMB_RADIX[k] \in Nat \ {0}
             /\ Weight(k) \in Nat \ {0} /\ Weight(k + 1) = Weight(k) * LIMB_RADIX[k]
             /\ LIMB_RADIX[k] <= LIMB_RADIX[1]
  <2>1. k \in Nat /\ k - 1 \in Nat /\ k - 1 \in 0..NUM_LIMBS /\ k \in 0..NUM_LIMBS /\ (k - 1) + 1 = k /\ (k + 1) - 1 = k
    BY <1>0 DEF Limb
  <2>2. LIMB_WIDTHS[k] \in Nat /\ LIMB_RADIX[k] = pow2(LIMB_WIDTHS[k]) /\ LIMB_RADIX[1] = pow2(LIMB_WIDTHS[1])
    BY <1>0, Widths DEF LIMB_RADIX
  <2>3. SumTo(LIMB_WIDTHS, k - 1) \in Nat /\ SumTo(LIMB_WIDTHS, k) = SumTo(LIMB_WIDTHS, k - 1) + LIMB_WIDTHS[k]
    <3>1. SumTo(LIMB_WIDTHS, (k - 1) + 1) = SumTo(LIMB_WIDTHS, k - 1) + LIMB_WIDTHS[(k - 1) + 1]
      BY <2>1, SumStep
    <3>. QED BY <2>1, <3>1, OffsetIs
  <2>4. LIMB_WEIGHTS[k] = Weight(k)
    BY DEF LIMB_WEIGHTS, LIMB_OFFSETS, Weight
  <2>5. Weight(k + 1) = Weight(k) * LIMB_RADIX[k]
    <3>1. Weight(k + 1) = pow2(SumTo(LIMB_WIDTHS, k)) /\ Weight(k) = pow2(SumTo(LIMB_WIDTHS, k - 1))
      BY <2>1 DEF Weight
    <3>. DEFINE a == SumTo(LIMB_WIDTHS, k - 1)  b == LIMB_WIDTHS[k]
    <3>2. a \in Nat /\ b \in Nat /\ SumTo(LIMB_WIDTHS, k) = a + b
      BY <2>2, <2>3
    <3>. HIDE DEF a, b
    <3>3. pow2(a + b) = pow2(a) * pow2(b)
      BY <3>2, PowSplit
    <3>. QED BY <2>2, <3>1, <3>2, <3>3 DEF a, b
  <2>6. LIMB_RADIX[k] <= LIMB_RADIX[1]
    <3>1. LIMB_WIDTHS[k] = LIMB_WIDTHS[1] \/ LIMB_WIDTHS[k] = LIMB_WIDTHS[1] - 1
      <4>1. LIMB_WIDTHS[k] = LIMB_WIDTHS[1] - (IF k % 2 = 0 THEN 1 ELSE 0)
        BY FieldAssumption
      <4>. QED BY <4>1, Widths
    <3>2. CASE LIMB_WIDTHS[k] = LIMB_WIDTHS[1]
      BY <2>2, <3>2, PowPositive
    <3>3. CASE LIMB_WIDTHS[k] = LIMB_WIDTHS[1] - 1
      <4>1. LIMB_WIDTHS[1] = LIMB_WIDTHS[k] + 1
        BY <2>2, <3>3, Widths
      <4>2. LIMB_RADIX[1] = 2 * LIMB_RADIX[k] /\ LIMB_RADIX[k] \in Nat
        BY <2>2, <4>1, PowStep, PowPositive
      <4>. QED BY <4>2
    <3>. QED BY <3>1, <3>2, <3>3
  <2>. QED BY <2>2, <2>3, <2>4, <2>5, <2>6, PowPositive DEF Weight
<1>3. LIMB_RADIX[1] \in Nat \ {0} /\ FOLD \in Nat \ {0} /\ FOLD < LIMB_RADIX[1]
  BY <1>0, <1>2, FieldAssumption
<1>4. Weight(NUM_LIMBS + 1) = P + FOLD /\ Weight(NUM_LIMBS + 1) \in Nat \ {0}
  <2>1. (NUM_LIMBS + 1) - 1 = NUM_LIMBS /\ NUM_LIMBS \in 0..NUM_LIMBS
    BY <1>0
  <2>2. Weight(NUM_LIMBS + 1) = pow2(ELEMENT_BITS) /\ ELEMENT_BITS \in Nat
    BY <2>1, OffsetIs, FieldAssumption DEF Weight
  <2>3. P = pow2(ELEMENT_BITS) - FOLD
    BY FieldAssumption
  <2>. QED BY <1>3, <2>2, <2>3, PowPositive
<1>5. P \in Nat \ {0}
  <2>1. Weight(NUM_LIMBS + 1) = pow2(ELEMENT_BITS) /\ pow2(ELEMENT_BITS) \in Nat /\ ELEMENT_BITS \in Nat
    <3>1. (NUM_LIMBS + 1) - 1 = NUM_LIMBS /\ NUM_LIMBS \in 0..NUM_LIMBS
      BY <1>0
    <3>. QED BY <3>1, OffsetIs, FieldAssumption, PowPositive DEF Weight
  <2>2. pow2(ELEMENT_BITS) >= LIMB_RADIX[1]
    <3>1. ELEMENT_BITS = NUM_LIMBS * LIMB_WIDTHS[1] - NUM_LIMBS \div 2
      <4>1. NUM_LIMBS \in 0..NUM_LIMBS
        BY <1>0
      <4>. QED BY <4>1, OffsetIs, FieldAssumption
    <3>2. ELEMENT_BITS - LIMB_WIDTHS[1] \in Nat
      <4>. DEFINE n == NUM_LIMBS - 1  w == LIMB_WIDTHS[1]
      <4>1. NUM_LIMBS * w = n * w + w /\ n * w >= n * 2 /\ n * w \in Nat /\ n \in Nat /\ n >= 1 /\ NUM_LIMBS = n + 1 /\ w \in Nat
        BY Widths
      <4>. DEFINE nw == n * w
      <4>2. nw \in Nat /\ nw >= n * 2 /\ ELEMENT_BITS = (nw + w) - (n + 1) \div 2
        BY <3>1, <4>1
      <4>. HIDE DEF n, w, nw
      <4>. QED BY <4>1, <4>2 DEF w
    <3>. DEFINE rest == ELEMENT_BITS - LIMB_WIDTHS[1]
    <3>3. rest \in Nat /\ ELEMENT_BITS = LIMB_WIDTHS[1] + rest /\ LIMB_WIDTHS[1] \in Nat
      BY <2>1, <3>2, Widths
    <3>. HIDE DEF rest
    <3>4. pow2(ELEMENT_BITS) = pow2(LIMB_WIDTHS[1]) * pow2(rest) /\ pow2(rest) \in Nat \ {0}
      BY <3>3, PowSplit, PowPositive
    <3>5. LIMB_RADIX[1] = pow2(LIMB_WIDTHS[1])
      BY <1>0 DEF LIMB_RADIX
    <3>. DEFINE r == LIMB_RADIX[1]  q == pow2(rest)
    <3>6. r \in Nat \ {0} /\ q \in Nat \ {0}
      BY <1>3, <3>4
    <3>. HIDE DEF r, q
    <3>7. r * q >= r
      BY <3>6
    <3>. QED BY <3>4, <3>5, <3>7 DEF r, q
  <2>3. P = pow2(ELEMENT_BITS) - FOLD
    BY FieldAssumption
  <2>. QED BY <1>3, <2>1, <2>2, <2>3
<1>. QED
  BY <1>1, <1>2, <1>3, <1>4, <1>5

----------------------------------------------------------------------------
(* The value of limbs. *)

\* Val adds up the weighted limbs.
LEMMA ValIs ==
    ASSUME NEW l, NEW e, \A k \in Limb : e[k] = l[k] * Weight(k)
    PROVE  Val(l) = SumTo(e, NUM_LIMBS)
<1>. DEFINE f == [k \in Limb |-> l[k] * LIMB_WEIGHTS[k]]
<1>1. \A k \in 1..NUM_LIMBS : f[k] = e[k]
  BY WeightStep DEF Limb
<1>2. Val(l) = SumTo(f, NUM_LIMBS)
  BY DEF Val
<1>. HIDE DEF f
<1>. QED
  BY <1>1, <1>2, Widths, SumAgree

\* Integer limbs stand for an integer.
LEMMA ValInt ==
    ASSUME NEW l, \A k \in Limb : l[k] \in Int
    PROVE  Val(l) \in Int
<1>. DEFINE e == [k \in Limb |-> l[k] * Weight(k)]
<1>1. \A k \in 1..NUM_LIMBS : e[k] \in Int
  <2>. SUFFICES ASSUME NEW k \in Limb PROVE l[k] * Weight(k) \in Int
    BY DEF Limb
  <2>1. l[k] \in Int /\ Weight(k) \in Int
    BY WeightStep
  <2>. QED BY <2>1
<1>2. Val(l) = SumTo(e, NUM_LIMBS)
  <2>1. \A k \in Limb : e[k] = l[k] * Weight(k)
    OBVIOUS
  <2>. HIDE DEF e
  <2>. QED BY <2>1, ValIs
<1>3. NUM_LIMBS \in Nat /\ NUM_LIMBS \in 0..NUM_LIMBS
  BY Widths
<1>. HIDE DEF e
<1>. QED
  BY <1>1, <1>2, <1>3, SumInt

\* What limbs stand for is linear in them.
LEMMA ValLinear ==
    ASSUME NEW f, NEW g, NEW h, NEW c \in Int,
           \A k \in Limb : f[k] \in Int /\ g[k] \in Int /\ h[k] = f[k] + c * g[k]
    PROVE  Val(h) = Val(f) + c * Val(g)
<1>. DEFINE ef == [k \in Limb |-> f[k] * Weight(k)]
            eg == [k \in Limb |-> g[k] * Weight(k)]
            eh == [k \in Limb |-> h[k] * Weight(k)]
<1>1. \A k \in 1..NUM_LIMBS : ef[k] \in Int /\ eg[k] \in Int /\ eh[k] = ef[k] + c * eg[k]
  <2>. SUFFICES ASSUME NEW k \in Limb
                PROVE  /\ f[k] * Weight(k) \in Int /\ g[k] * Weight(k) \in Int
                       /\ h[k] * Weight(k) = f[k] * Weight(k) + c * (g[k] * Weight(k))
    BY DEF Limb
  <2>. DEFINE x == f[k]  y == g[k]  v == Weight(k)
  <2>1. x \in Int /\ y \in Int /\ v \in Int /\ h[k] = x + c * y
    BY WeightStep
  <2>. HIDE DEF x, y, v
  <2>2. x * v \in Int /\ y * v \in Int /\ (x + c * y) * v = x * v + c * (y * v)
    BY <2>1
  <2>. QED BY <2>1, <2>2 DEF x, y, v
<1>2. Val(f) = SumTo(ef, NUM_LIMBS) /\ Val(g) = SumTo(eg, NUM_LIMBS) /\ Val(h) = SumTo(eh, NUM_LIMBS)
  <2>1. \A k \in Limb : ef[k] = f[k] * Weight(k) /\ eg[k] = g[k] * Weight(k) /\ eh[k] = h[k] * Weight(k)
    OBVIOUS
  <2>. HIDE DEF ef, eg, eh
  <2>. QED BY <2>1, ValIs
<1>. HIDE DEF ef, eg, eh
<1>. QED
  BY <1>1, <1>2, Widths, SumLinear

\* Limbs that are carries passed on have the value of the first carry, less
\* the last one out of the top.
LEMMA ValTelescopes ==
    ASSUME NEW d, NEW x, \A k \in 0..NUM_LIMBS : x[k] \in Int,
           \A k \in Limb : d[k] = x[k - 1] - LIMB_RADIX[k] * x[k]
    PROVE  Val(d) = x[0] - x[NUM_LIMBS] * (P + FOLD)
<1>. DEFINE e == [k \in Limb |-> d[k] * Weight(k)]
            S == {k \in Nat : k <= NUM_LIMBS => SumTo(e, k) = x[0] - x[k] * Weight(k + 1)}
<1>0. NUM_LIMBS \in Nat
  BY Widths
<1>1. 0 \in S
  <2>1. x[0] \in Int /\ Weight(1) = 1 /\ 0 + 1 = 1
    BY <1>0, WeightStep
  <2>2. x[0] - x[0] * Weight(0 + 1) = 0
    BY <2>1
  <2>. QED BY <2>2, SumStep
<1>2. ASSUME NEW k \in Nat, k \in S PROVE k + 1 \in S
  <2>. SUFFICES ASSUME k + 1 <= NUM_LIMBS PROVE SumTo(e, k + 1) = x[0] - x[k + 1] * Weight((k + 1) + 1)
    OBVIOUS
  <2>0. k + 1 \in Limb /\ (k + 1) - 1 = k /\ k \in 0..NUM_LIMBS /\ k + 1 \in 0..NUM_LIMBS
    BY <1>0 DEF Limb
  <2>1. SumTo(e, k + 1) = SumTo(e, k) + d[k + 1] * Weight(k + 1)
    <3>1. e[k + 1] = d[k + 1] * Weight(k + 1)
      BY <2>0
    <3>. HIDE DEF e
    <3>. QED BY <3>1, SumStep
  <2>2. SumTo(e, k) = x[0] - x[k] * Weight(k + 1)
    <3>1. k <= NUM_LIMBS
      BY <1>0
    <3>. HIDE DEF e
    <3>. QED BY <1>2, <3>1, Zenon
  <2>3. d[k + 1] = x[k] - LIMB_RADIX[k + 1] * x[k + 1]
    BY <2>0
  <2>4. Weight((k + 1) + 1) = Weight(k + 1) * LIMB_RADIX[k + 1] /\ Weight(k + 1) \in Int /\ LIMB_RADIX[k + 1] \in Int
    BY <2>0, WeightStep
  <2>. DEFINE o == x[0]  u == x[k]  v == x[k + 1]  w == Weight(k + 1)  r == LIMB_RADIX[k + 1]
  <2>5. o \in Int /\ u \in Int /\ v \in Int /\ w \in Int /\ r \in Int
    BY <1>0, <2>0, <2>4
  <2>6. /\ SumTo(e, k + 1) = SumTo(e, k) + d[k + 1] * w /\ SumTo(e, k) = o - u * w
        /\ d[k + 1] = u - r * v /\ Weight((k + 1) + 1) = w * r
    BY <2>1, <2>2, <2>3, <2>4
  <2>. HIDE DEF o, u, v, w, r, e
  <2>7. (o - u * w) + (u - r * v) * w = o - v * (w * r)
    BY <2>5
  <2>. QED BY <2>6, <2>7 DEF o, v
<1>3. Nat \subseteq S
  <2>. HIDE DEF S
  <2>. QED BY <1>1, <1>2, Induct
<1>4. Val(d) = SumTo(e, NUM_LIMBS)
  <2>1. \A k \in Limb : e[k] = d[k] * Weight(k)
    OBVIOUS
  <2>. HIDE DEF e
  <2>. QED BY <2>1, ValIs
<1>5. SumTo(e, NUM_LIMBS) = x[0] - x[NUM_LIMBS] * Weight(NUM_LIMBS + 1)
  BY <1>0, <1>3
<1>. QED
  BY <1>4, <1>5, WeightStep

\* A number that is range checked is below 2^T.
LEMMA ValBounds ==
    ASSUME NEW c, RangeChecked(c)
    PROVE  Val(c) \in 0 .. P + FOLD - 1
<1>. DEFINE f == [k \in Limb |-> c[k] * Weight(k)]
            z == [k \in Limb |-> 0]
            top == [k \in Limb |-> LIMB_RADIX[k] - 1]
            g == [k \in Limb |-> top[k] * Weight(k)]
            x == [k \in 0..NUM_LIMBS |-> -1]
<1>0. NUM_LIMBS \in Nat
  BY Widths
<1>1. \A k \in 1..NUM_LIMBS : /\ f[k] \in Int /\ z[k] \in Int /\ g[k] \in Int
                              /\ z[k] <= f[k] /\ f[k] <= g[k] /\ z[k] = 0
  <2>. SUFFICES ASSUME NEW k \in Limb
                PROVE  /\ c[k] * Weight(k) \in Int /\ (LIMB_RADIX[k] - 1) * Weight(k) \in Int
                       /\ 0 <= c[k] * Weight(k) /\ c[k] * Weight(k) <= (LIMB_RADIX[k] - 1) * Weight(k)
    BY DEF Limb
  <2>. DEFINE y == c[k]  r == LIMB_RADIX[k]  w == Weight(k)
  <2>1. y \in 0 .. r - 1 /\ r \in Nat \ {0} /\ w \in Nat \ {0}
    BY WeightStep DEF RangeChecked
  <2>. HIDE DEF y, r, w
  <2>2. y * w \in Int /\ (r - 1) * w \in Int /\ 0 <= y * w /\ (r - 1 - y) * w >= 0
    BY <2>1
  <2>3. (r - 1 - y) * w = (r - 1) * w - y * w
    BY <2>1
  <2>4. y * w <= (r - 1) * w
    BY <2>2, <2>3
  <2>. QED BY <2>2, <2>4 DEF y, r, w
<1>2. Val(c) = SumTo(f, NUM_LIMBS)
  <2>1. \A k \in Limb : f[k] = c[k] * Weight(k)
    OBVIOUS
  <2>. HIDE DEF f
  <2>. QED BY <2>1, ValIs
<1>3. Val(top) = SumTo(g, NUM_LIMBS)
  <2>1. \A k \in Limb : g[k] = top[k] * Weight(k)
    OBVIOUS
  <2>. HIDE DEF g, top
  <2>. QED BY <2>1, ValIs
<1>4. Val(top) = -1 - (-1) * (P + FOLD)
  <2>1. \A k \in 0..NUM_LIMBS : x[k] = -1
    OBVIOUS
  <2>2. \A k \in Limb : top[k] = x[k - 1] - LIMB_RADIX[k] * x[k]
    <3>. SUFFICES ASSUME NEW k \in Limb PROVE LIMB_RADIX[k] - 1 = -1 - LIMB_RADIX[k] * (-1)
      BY <1>0 DEF Limb
    <3>1. LIMB_RADIX[k] \in Int
      BY WeightStep
    <3>. QED BY <3>1
  <2>3. 0 \in 0..NUM_LIMBS /\ NUM_LIMBS \in 0..NUM_LIMBS
    BY <1>0
  <2>. HIDE DEF x, top
  <2>4. Val(top) = x[0] - x[NUM_LIMBS] * (P + FOLD)
    BY <2>1, <2>2, ValTelescopes
  <2>. QED BY <2>1, <2>3, <2>4
<1>. HIDE DEF f, z, g, x, top
<1>5. SumTo(z, NUM_LIMBS) = NUM_LIMBS * 0
  BY <1>0, <1>1, SumConstant
<1>6. SumTo(z, NUM_LIMBS) <= SumTo(f, NUM_LIMBS)
  BY <1>0, <1>1, SumMonotone
<1>7. SumTo(f, NUM_LIMBS) <= SumTo(g, NUM_LIMBS)
  BY <1>0, <1>1, SumMonotone
<1>8. Val(c) \in Int /\ P \in Int /\ FOLD \in Int
  <2>1. \A k \in Limb : c[k] \in Int
    BY WeightStep DEF RangeChecked
  <2>. QED BY <2>1, ValInt, WeightStep
<1>. QED
  BY <1>0, <1>2, <1>3, <1>4, <1>5, <1>6, <1>7, <1>8

----------------------------------------------------------------------------
(* No constraint wraps around the native field. *)

Largest == 2 * FOLD * LIMB_RADIX[1] * LIMB_RADIX[1]
Extreme == pow2(MUL_CARRY_BITS - 1)

\* A native column holds every sum of a chain without wrapping.
LEMMA LargestIs ==
    /\ Largest \in Nat /\ NUM_LIMBS * Largest \in Nat /\ NUM_LIMBS * Largest >= 2 * LIMB_RADIX[1]
    /\ Extreme \in Nat \ {0} /\ NATIVE \in Nat \ {0}
    /\ NATIVE > NUM_LIMBS * Largest + (FOLD + LIMB_RADIX[1]) * Extreme + LIMB_RADIX[1]
<1>. DEFINE r == LIMB_RADIX[1]
<1>1. r \in Nat \ {0} /\ FOLD \in Nat \ {0} /\ NUM_LIMBS \in Nat \ {0}
  BY Widths, WeightStep
<1>2. Largest = 2 * FOLD * r * r
  BY DEF Largest
<1>3. Extreme \in Nat \ {0}
  BY NativeAssumption, PowPositive DEF Extreme
<1>4. NATIVE \in Nat /\ NATIVE > NUM_LIMBS * Largest + (FOLD + r) * Extreme + r
  BY NativeAssumption DEF Largest, Extreme
<1>. HIDE DEF r
<1>5. Largest \in Nat /\ Largest >= 2 * r
  <2>. DEFINE s == FOLD * r
  <2>1. s \in Nat \ {0}
    BY <1>1
  <2>2. Largest = 2 * (s * r)
    BY <1>1, <1>2
  <2>. HIDE DEF s
  <2>3. s * r \in Nat /\ s * r >= r
    BY <1>1, <2>1
  <2>. DEFINE sr == s * r
  <2>4. sr \in Nat /\ sr >= r /\ Largest = 2 * sr
    BY <2>2, <2>3
  <2>. HIDE DEF sr
  <2>. QED BY <1>1, <2>4
<1>6. NUM_LIMBS * Largest \in Nat /\ NUM_LIMBS * Largest >= Largest
  BY <1>1, <1>5
<1>7. (FOLD + r) * Extreme \in Nat
  BY <1>1, <1>3
<1>. QED
  BY <1>1, <1>3, <1>4, <1>5, <1>6, <1>7 DEF r

\* The limb of b that limb i of a meets in the sum for limb k, and the factor.
Partner(i, k) == k + 1 - i + (IF i > k THEN NUM_LIMBS ELSE 0)
Factor(i, k) == (IF i % 2 = 0 /\ Partner(i, k) % 2 = 0 THEN 2 ELSE 1) * (IF i > k THEN FOLD ELSE 1)
Products(a, b, k) == [i \in Limb |-> Factor(i, k) * a[i] * b[Partner(i, k)]]

\* The term of limb k is the sum of the products that reach it.
LEMMA MulTermIs ==
    ASSUME NEW a, NEW b, NEW k \in Limb
    PROVE  MulTerm(a, b, k) = SumTo(Products(a, b, k), NUM_LIMBS)
<1>1. \A i \in Limb : /\ mul_partial_products_for_limb(k)[i].j = Partner(i, k)
                      /\ mul_partial_products_for_limb(k)[i].factor = Factor(i, k)
  BY DEF mul_partial_products_for_limb, Partner, Factor
<1>. DEFINE products == mul_partial_products_for_limb(k)
            f == [i \in Limb |-> products[i].factor * a[i] * b[products[i].j]]
<1>2. MulTerm(a, b, k) = SumTo(f, NUM_LIMBS)
  BY DEF MulTerm
<1>3. \A i \in 1..NUM_LIMBS : f[i] = Products(a, b, k)[i]
  BY <1>1 DEF Products, Limb
<1>. HIDE DEF f
<1>. QED
  BY <1>2, <1>3, Widths, SumAgree

\* The limb that a limb is multiplied by, and the factor of the product.
LEMMA PartnerIn ==
    ASSUME NEW i \in Limb, NEW k \in Limb
    PROVE  Partner(i, k) \in Limb /\ Factor(i, k) \in 1 .. 2 * FOLD
<1>1. i \in 1..NUM_LIMBS /\ k \in 1..NUM_LIMBS /\ NUM_LIMBS \in Nat /\ FOLD \in Nat \ {0}
  BY Widths, WeightStep DEF Limb
<1>2. Partner(i, k) \in Limb
  BY <1>1 DEF Partner, Limb
<1>3. \A x, y \in {1, 2, FOLD} : x \in {1, 2} /\ y \in {1, FOLD} => x * y \in 1 .. 2 * FOLD
  BY <1>1
<1>4. Factor(i, k) \in 1 .. 2 * FOLD
  BY <1>3 DEF Factor
<1>. QED
  BY <1>2, <1>4

\* No product of checked limbs passes the largest one.
LEMMA ProductBounds ==
    ASSUME NEW a, NEW b, RangeChecked(a), RangeChecked(b), NEW k \in Limb, NEW i \in Limb
    PROVE  Products(a, b, k)[i] \in 0..Largest
<1>. DEFINE r == LIMB_RADIX[1]  j == Partner(i, k)  e == Factor(i, k)  x == a[i]  y == b[j]
<1>1. j \in Limb /\ e \in 1 .. 2 * FOLD
  BY PartnerIn
<1>2. x \in 0..r /\ y \in 0..r
  <2>1. \A h \in Limb : a[h] \in 0 .. LIMB_RADIX[h] - 1 /\ b[h] \in 0 .. LIMB_RADIX[h] - 1
    BY DEF RangeChecked
  <2>2. \A h \in Limb : LIMB_RADIX[h] \in Nat \ {0} /\ LIMB_RADIX[h] <= r /\ r \in Nat
    BY WeightStep
  <2>. QED BY <1>1, <2>1, <2>2
<1>3. Products(a, b, k)[i] = e * x * y /\ r \in Nat /\ FOLD \in Nat /\ Largest = 2 * FOLD * r * r
  BY WeightStep DEF Products, Largest
<1>. HIDE DEF r, j, e, x, y
<1>4. x * y \in Nat /\ x * y <= r * r
  <2>1. x * y <= x * r /\ x * y \in Nat
    <3>1. x * (r - y) >= 0 /\ x * (r - y) = x * r - x * y
      BY <1>2, <1>3
    <3>. QED BY <1>2, <1>3, <3>1
  <2>2. x * r <= r * r
    <3>1. (r - x) * r >= 0 /\ (r - x) * r = r * r - x * r
      BY <1>2, <1>3
    <3>. QED BY <1>2, <1>3, <3>1
  <2>. QED BY <1>2, <1>3, <2>1, <2>2
<1>. DEFINE p == x * y  q == r * r  f == 2 * FOLD
<1>5. e * x * y = e * p /\ Largest = f * q
  BY <1>1, <1>2, <1>3
<1>6. p \in Nat /\ q \in Nat /\ p <= q /\ f \in Nat /\ e \in Nat /\ e <= f
  BY <1>1, <1>3, <1>4
<1>. HIDE DEF p, q, f
<1>7. e * p \in Nat /\ e * p <= f * q
  <2>1. (f - e) * q >= 0 /\ (f - e) * q = f * q - e * q
    BY <1>6
  <2>2. e * (q - p) >= 0 /\ e * (q - p) = e * q - e * p
    BY <1>6
  <2>. QED BY <1>6, <2>1, <2>2
<1>. QED
  BY <1>3, <1>5, <1>7, LargestIs

\* What a gadget adds up for one limb, before carries.
LEMMA TermBounds ==
    ASSUME NEW a, NEW b, RangeChecked(a), RangeChecked(b), NEW k \in Limb, NEW op \in Chained
    PROVE  /\ Term(op, a, b, k) \in Int
           /\ - LIMB_RADIX[1] < Term(op, a, b, k) /\ Term(op, a, b, k) <= NUM_LIMBS * Largest
<1>. DEFINE r == LIMB_RADIX[1]  top == NUM_LIMBS * Largest
<1>1. r \in Nat \ {0} /\ top \in Nat /\ top >= 2 * r
  BY WeightStep, LargestIs
<1>2. a[k] \in 0 .. r - 1 /\ b[k] \in 0 .. r - 1
  <2>1. a[k] \in 0 .. LIMB_RADIX[k] - 1 /\ b[k] \in 0 .. LIMB_RADIX[k] - 1
    BY DEF RangeChecked
  <2>2. LIMB_RADIX[k] \in Nat \ {0} /\ LIMB_RADIX[k] <= r
    BY WeightStep
  <2>. QED BY <1>1, <2>1, <2>2
<1>3. MulTerm(a, b, k) \in 0..top
  <2>. DEFINE f == Products(a, b, k)
              z == [i \in Limb |-> 0]
              g == [i \in Limb |-> Largest]
  <2>1. \A i \in 1..NUM_LIMBS : /\ f[i] \in Int /\ z[i] \in Int /\ g[i] \in Int
                                /\ z[i] <= f[i] /\ f[i] <= g[i] /\ z[i] = 0 /\ g[i] = Largest
    BY ProductBounds, LargestIs DEF Limb
  <2>2. MulTerm(a, b, k) = SumTo(f, NUM_LIMBS)
    BY MulTermIs
  <2>3. NUM_LIMBS \in Nat /\ Largest \in Int
    BY Widths, LargestIs
  <2>. HIDE DEF f, z, g
  <2>4. SumTo(z, NUM_LIMBS) = NUM_LIMBS * 0 /\ SumTo(g, NUM_LIMBS) = top
    BY <2>1, <2>3, SumConstant
  <2>5. SumTo(z, NUM_LIMBS) <= SumTo(f, NUM_LIMBS)
    BY <2>1, <2>3, SumMonotone
  <2>6. SumTo(f, NUM_LIMBS) <= SumTo(g, NUM_LIMBS)
    BY <2>1, <2>3, SumMonotone
  <2>7. SumTo(f, NUM_LIMBS) \in Int
    BY <2>1, <2>3, SumInt
  <2>8. NUM_LIMBS * 0 = 0
    BY <2>3
  <2>. QED BY <1>1, <2>2, <2>4, <2>5, <2>6, <2>7, <2>8
<1>4. op = "add" \/ op = "sub" \/ op = "mul"
  BY DEF Chained
<1>5. Term("add", a, b, k) = a[k] + b[k] /\ Term("sub", a, b, k) = a[k] - b[k] /\ Term("mul", a, b, k) = MulTerm(a, b, k)
  BY DEF Term, AddTerm, SubTerm
<1>. HIDE DEF r, top
<1>. QED
  BY <1>1, <1>2, <1>3, <1>4, <1>5 DEF r, top

\* Carries are small.
LEMMA CarryBounds ==
    ASSUME NEW op \in Chained, NEW x \in Carries(op)
    PROVE  x \in Int /\ - Extreme <= x /\ x <= Extreme
<1>1. Extreme \in Nat \ {0}
  BY LargestIs
<1>2. CASE op = "add"
  BY <1>1, <1>2 DEF Carries, AddCarries
<1>3. CASE op = "sub"
  BY <1>1, <1>3 DEF Carries, SubCarries
<1>4. CASE op = "mul"
  <2>1. PICK y \in 0 .. pow2(MUL_CARRY_BITS) - 1 : x = y - Extreme
    BY <1>4 DEF Carries, MulCarries, Extreme
  <2>2. pow2(MUL_CARRY_BITS) = 2 * Extreme
    <3>1. MUL_CARRY_BITS - 1 \in Nat /\ (MUL_CARRY_BITS - 1) + 1 = MUL_CARRY_BITS
      BY NativeAssumption
    <3>2. pow2((MUL_CARRY_BITS - 1) + 1) = 2 * pow2(MUL_CARRY_BITS - 1)
      BY <3>1, PowStep
    <3>. QED BY <3>1, <3>2 DEF Extreme
  <2>. QED BY <1>1, <2>1, <2>2
<1>. QED
  BY <1>2, <1>3, <1>4 DEF Chained

\* The constraint of a limb holds in the integers when it holds modulo NATIVE.
LEMMA LimbExact ==
    ASSUME NEW a, NEW b, RangeChecked(a), RangeChecked(b), NEW k \in Limb, NEW op \in Chained,
           NEW last \in Carries(op), NEW before \in Carries(op) \cup {0}, NEW out \in Carries(op),
           NEW c \in 0 .. LIMB_RADIX[k] - 1,
           c = LimbOut(Term(op, a, b, k), CarryIn(k, before, last), out, k)
    PROVE  Term(op, a, b, k) + CarryIn(k, before, last) = c + LIMB_RADIX[k] * out
<1>. DEFINE t == Term(op, a, b, k)  in == CarryIn(k, before, last)  r == LIMB_RADIX[k]
            R == LIMB_RADIX[1]  B == NUM_LIMBS * Largest  E == Extreme
            u == t + in - r * out
<1>1. /\ R \in Nat \ {0} /\ r \in Nat \ {0} /\ r <= R /\ FOLD \in Nat \ {0}
      /\ B \in Nat /\ B >= 2 * R /\ E \in Nat \ {0} /\ NATIVE \in Nat \ {0}
      /\ NATIVE > B + (FOLD + R) * E + R
  BY WeightStep, LargestIs
<1>2. t \in Int /\ - R < t /\ t <= B
  BY TermBounds
<1>3. out \in Int /\ - E <= out /\ out <= E
  BY CarryBounds
<1>4. in \in Int /\ - (FOLD * E) <= in /\ in <= FOLD * E
  <2>1. last \in Int /\ - E <= last /\ last <= E
    BY CarryBounds
  <2>2. before \in Int /\ - E <= before /\ before <= E
    BY <1>1, CarryBounds
  <2>3. in = FOLD * last \/ in = before
    BY DEF CarryIn
  <2>. HIDE DEF in, E
  <2>4. FOLD * E \in Nat /\ FOLD * E >= E
    BY <1>1
  <2>5. CASE in = before
    BY <2>2, <2>4, <2>5, <1>1
  <2>6. CASE in = FOLD * last
    <3>1. FOLD * (E - last) >= 0 /\ FOLD * (E - last) = FOLD * E - FOLD * last
      BY <1>1, <2>1
    <3>2. FOLD * (E + last) >= 0 /\ FOLD * (E + last) = FOLD * E + FOLD * last
      BY <1>1, <2>1
    <3>3. FOLD * last \in Int
      BY <1>1, <2>1
    <3>. QED BY <2>4, <2>6, <3>1, <3>2, <3>3
  <2>. QED BY <2>3, <2>5, <2>6
<1>5. c = u % NATIVE /\ c \in 0 .. r - 1
  BY DEF LimbOut
<1>. HIDE DEF t, in, r, R, B, E
<1>6. r * out \in Int /\ - (R * E) <= r * out /\ r * out <= R * E
  <2>1. r * E <= R * E /\ r * E \in Nat /\ R * E \in Nat
    <3>1. (R - r) * E >= 0 /\ (R - r) * E = R * E - r * E
      BY <1>1
    <3>2. r * E \in Nat /\ R * E \in Nat
      BY <1>1
    <3>. QED BY <3>1, <3>2
  <2>2. r * (E - out) >= 0 /\ r * (E - out) = r * E - r * out
    BY <1>1, <1>3
  <2>3. r * (E + out) >= 0 /\ r * (E + out) = r * E + r * out
    BY <1>1, <1>3
  <2>4. r * out \in Int
    BY <1>1, <1>3
  <2>. QED BY <2>1, <2>2, <2>3, <2>4
<1>. DEFINE ro == r * out  fe == FOLD * E  re == R * E
<1>7. /\ ro \in Int /\ - re <= ro /\ ro <= re /\ fe \in Nat /\ re \in Nat
      /\ u = t + in - ro /\ - fe <= in /\ in <= fe /\ NATIVE > B + fe + re + R
  <2>1. (FOLD + R) * E = fe + re /\ fe \in Nat /\ re \in Nat
    BY <1>1
  <2>. QED BY <1>1, <1>4, <1>6, <2>1
<1>. HIDE DEF ro, fe, re, u
<1>8. u \in Int /\ - NATIVE < u - c /\ u - c < NATIVE /\ u - c \in Int
  BY <1>1, <1>2, <1>4, <1>5, <1>7
<1>9. - NATIVE < u - (u % NATIVE) /\ u - (u % NATIVE) < NATIVE /\ u \in Int /\ NATIVE \in Nat \ {0}
  <2>. DEFINE m == u % NATIVE
  <2>1. c = m
    BY <1>5
  <2>. HIDE DEF m
  <2>2. - NATIVE < u - m /\ u - m < NATIVE
    BY <1>8, <2>1
  <2>. QED BY <1>1, <1>8, <2>2 DEF m
<1>10. c = u
  <2>1. u % NATIVE = u
    BY <1>9, NoMultiple, Zenon
  <2>. QED BY <1>5, <2>1
<1>11. t + in = c + ro
  BY <1>2, <1>4, <1>5, <1>7, <1>8, <1>10
<1>. QED
  BY <1>11 DEF t, in, r, ro

----------------------------------------------------------------------------
(* The chains of add, sub and mul. *)

\* The first n limbs satisfy their constraints, with `top` the last carry.
LimbsHold(op, a, b, c, cy, top, n) ==
    \A k \in 1..n : /\ c[k] \in 0 .. LIMB_RADIX[k] - 1 /\ cy[k] \in Carries(op)
                    /\ c[k] = LimbOut(Term(op, a, b, k),
                                      CarryIn(k, IF k = 1 THEN 0 ELSE cy[k - 1], top), cy[k], k)

Terms(op, a, b) == [k \in Limb |-> Term(op, a, b, k)]

\* The carries telescope: the output is the sum of the terms, less P for every
\* unit carried out of the top.
LEMMA ChainValue ==
    ASSUME NEW a, NEW b, RangeChecked(a), RangeChecked(b), NEW op \in Chained,
           NEW c, NEW cy, LimbsHold(op, a, b, c, cy, cy[NUM_LIMBS], NUM_LIMBS)
    PROVE  /\ Val(c) = Val(Terms(op, a, b)) - P * cy[NUM_LIMBS]
           /\ cy[NUM_LIMBS] \in Int /\ Val(Terms(op, a, b)) \in Int
<1>. DEFINE top == cy[NUM_LIMBS]
            x == [k \in 0..NUM_LIMBS |-> IF k = 0 THEN FOLD * top ELSE cy[k]]
            t == Terms(op, a, b)
            d == [k \in Limb |-> c[k] - t[k]]
<1>0. NUM_LIMBS \in Nat /\ NUM_LIMBS >= 2 /\ FOLD \in Int /\ P \in Int
  BY Widths, WeightStep
<1>1. \A k \in Limb : cy[k] \in Carries(op) /\ cy[k] \in Int /\ c[k] \in 0 .. LIMB_RADIX[k] - 1
  BY CarryBounds DEF LimbsHold, Limb
<1>2. top \in Int /\ top \in Carries(op)
  BY <1>0, <1>1 DEF Limb
<1>3. \A k \in Limb : t[k] \in Int /\ c[k] \in Int /\ LIMB_RADIX[k] \in Int /\ t[k] = Term(op, a, b, k)
  BY <1>1, TermBounds, WeightStep DEF Terms
<1>4. \A k \in 0..NUM_LIMBS : x[k] \in Int
  <2>1. FOLD * top \in Int
    BY <1>0, <1>2
  <2>2. \A k \in 1..NUM_LIMBS : cy[k] \in Int
    BY <1>1 DEF Limb
  <2>. HIDE DEF top
  <2>. QED BY <1>0, <2>1, <2>2
<1>5. ASSUME NEW k \in Limb PROVE d[k] = x[k - 1] - LIMB_RADIX[k] * x[k]
  <2>. DEFINE before == IF k = 1 THEN 0 ELSE cy[k - 1]
              in == CarryIn(k, before, top)
  <2>0. k \in 1..NUM_LIMBS /\ (k # 1 => k - 1 \in Limb)
    BY <1>0 DEF Limb
  <2>1. before \in Carries(op) \cup {0}
    BY <1>1, <2>0
  <2>2. c[k] = LimbOut(Term(op, a, b, k), in, cy[k], k)
    BY <2>0 DEF LimbsHold
  <2>3. t[k] + in = c[k] + LIMB_RADIX[k] * cy[k]
    <3>. HIDE DEF before, top
    <3>1. Term(op, a, b, k) + in = c[k] + LIMB_RADIX[k] * cy[k]
      BY <1>1, <1>2, <2>1, <2>2, LimbExact
    <3>. QED BY <1>3, <3>1
  <2>4. in = x[k - 1]
    <3>1. CASE k = 1
      BY <1>0, <3>1 DEF CarryIn
    <3>2. CASE k # 1
      BY <1>0, <2>0, <3>2 DEF CarryIn, Limb
    <3>. QED BY <3>1, <3>2
  <2>5. x[k] = cy[k] /\ d[k] = c[k] - t[k] /\ x[k - 1] \in Int
    BY <1>0, <1>4, <2>0
  <2>6. LIMB_RADIX[k] * cy[k] \in Int
    BY <1>1, <1>3
  <2>. HIDE DEF x, d, t, in
  <2>. QED BY <1>3, <2>3, <2>4, <2>5, <2>6
<1>6. Val(d) = x[0] - x[NUM_LIMBS] * (P + FOLD)
  <2>. HIDE DEF x, d
  <2>. QED BY <1>4, <1>5, ValTelescopes
<1>7. x[0] = FOLD * top /\ x[NUM_LIMBS] = top
  BY <1>0
<1>8. Val(d) = Val(c) + (-1) * Val(t)
  <2>1. \A k \in Limb : c[k] \in Int /\ t[k] \in Int /\ d[k] = c[k] + (-1) * t[k]
    <3>1. \A k \in Limb : d[k] = c[k] - t[k]
      OBVIOUS
    <3>. HIDE DEF d, t
    <3>. QED BY <1>3, <3>1
  <2>. HIDE DEF d, t
  <2>. QED BY <2>1, ValLinear
<1>9. Val(c) \in Int /\ Val(t) \in Int
  <2>. HIDE DEF t
  <2>. QED BY <1>3, ValInt
<1>. HIDE DEF top, x, t, d
<1>10. Val(c) = Val(t) + FOLD * top - top * (P + FOLD)
  <2>1. FOLD * top \in Int /\ top * (P + FOLD) \in Int
    BY <1>0, <1>2
  <2>. QED BY <1>6, <1>7, <1>8, <1>9, <2>1
<1>11. FOLD * top - top * (P + FOLD) = - (P * top) /\ P * top \in Int /\ FOLD * top \in Int /\ top * (P + FOLD) \in Int
  BY <1>0, <1>2
<1>12. Val(c) = Val(t) - P * top
  BY <1>9, <1>10, <1>11
<1>. QED
  BY <1>2, <1>9, <1>12 DEF top, t

----------------------------------------------------------------------------
(* Products. *)

Doubled(i, j) == IF i % 2 = 0 /\ j % 2 = 0 THEN 2 ELSE 1

\* Limbs of weights 2^x and 2^y multiply to a multiple of the limb they belong
\* to, once round the top if they reach beyond it.
LEMMA WeightProduct ==
    ASSUME NEW i \in Limb, NEW k \in Limb
    PROVE  /\ Weight(i) * Weight(Partner(i, k))
                = Doubled(i, Partner(i, k)) * Weight(k) * (IF i > k THEN P + FOLD ELSE 1)
           /\ Doubled(i, Partner(i, k)) \in {1, 2}
<1>. DEFINE j == Partner(i, k)
            e == IF Doubled(i, j) = 2 THEN 1 ELSE 0
            w == LIMB_WIDTHS[1]
            off(x) == SumTo(LIMB_WIDTHS, x - 1)
            wrap == IF i > k THEN NUM_LIMBS ELSE 0
<1>0. /\ i \in 1..NUM_LIMBS /\ k \in 1..NUM_LIMBS /\ j \in 1..NUM_LIMBS /\ NUM_LIMBS \in Nat /\ w \in Nat
      /\ i + j = k + 1 + wrap /\ NUM_LIMBS % 2 = 0 /\ wrap \in {0, NUM_LIMBS} /\ wrap \in Nat
  <2>1. i \in 1..NUM_LIMBS /\ k \in 1..NUM_LIMBS /\ NUM_LIMBS \in Nat /\ w \in Nat
    BY Widths DEF Limb
  <2>2. j \in 1..NUM_LIMBS
    BY PartnerIn DEF Limb
  <2>3. i + j = k + 1 + wrap
    BY <2>1 DEF Partner
  <2>. QED BY <2>1, <2>2, <2>3, FieldAssumption
<1>1. \A x \in 1 .. NUM_LIMBS + 1 : off(x) = (x - 1) * w - (x - 1) \div 2 /\ off(x) \in Nat
  <2>. SUFFICES ASSUME NEW x \in 1 .. NUM_LIMBS + 1
                PROVE  off(x) = (x - 1) * w - (x - 1) \div 2 /\ off(x) \in Nat
    BY Zenon
  <2>. DEFINE y == x - 1
  <2>1. y \in 0..NUM_LIMBS
    BY <1>0
  <2>. HIDE DEF y
  <2>2. SumTo(LIMB_WIDTHS, y) = y * w - y \div 2 /\ SumTo(LIMB_WIDTHS, y) \in Nat
    BY <2>1, OffsetIs
  <2>. QED BY <2>2, Zenon DEF y
<1>2. wrap % 2 = 0
  BY <1>0
<1>3. (i - 1) \div 2 + (j - 1) \div 2 + e = (k - 1) \div 2 + wrap \div 2
  BY <1>0, <1>2 DEF Doubled
<1>. DEFINE top == wrap * w - wrap \div 2
<1>4. off(i) + off(j) = e + off(k) + top
  <2>1. /\ off(i) = (i - 1) * w - (i - 1) \div 2 /\ off(j) = (j - 1) * w - (j - 1) \div 2
        /\ off(k) = (k - 1) * w - (k - 1) \div 2
    <3>1. i \in 1 .. NUM_LIMBS + 1 /\ j \in 1 .. NUM_LIMBS + 1 /\ k \in 1 .. NUM_LIMBS + 1
      BY <1>0
    <3>. HIDE DEF off, j
    <3>. QED BY <1>1, <3>1
  <2>. DEFINE ai == (i - 1) * w  aj == (j - 1) * w  ak == (k - 1) * w  at == wrap * w
              hi == (i - 1) \div 2  hj == (j - 1) \div 2  hk == (k - 1) \div 2  ht == wrap \div 2
  <2>2. ai + aj = ak + at /\ ai \in Int /\ aj \in Int /\ ak \in Int /\ at \in Int
    <3>1. (i - 1) + (j - 1) = (k - 1) + wrap
      BY <1>0
    <3>2. ((i - 1) + (j - 1)) * w = ai + aj /\ ((k - 1) + wrap) * w = ak + at
      BY <1>0
    <3>3. ai \in Int /\ aj \in Int /\ ak \in Int /\ at \in Int
      BY <1>0
    <3>. QED BY <3>1, <3>2, <3>3
  <2>3. hi \in Int /\ hj \in Int /\ hk \in Int /\ ht \in Int /\ hi + hj + e = hk + ht /\ e \in Int
    BY <1>0, <1>3
  <2>4. off(i) = ai - hi /\ off(j) = aj - hj /\ off(k) = ak - hk /\ top = at - ht
    BY <2>1
  <2>. HIDE DEF ai, aj, ak, at, hi, hj, hk, ht, off, top, e, j
  <2>. QED BY <2>2, <2>3, <2>4
<1>5. top \in Nat /\ pow2(top) = IF i > k THEN P + FOLD ELSE 1
  <2>1. CASE i > k
    <3>1. wrap = NUM_LIMBS
      BY <2>1
    <3>2. NUM_LIMBS \in 0..NUM_LIMBS /\ (NUM_LIMBS + 1) - 1 = NUM_LIMBS
      BY <1>0
    <3>3. top = SumTo(LIMB_WIDTHS, NUM_LIMBS) /\ top \in Nat
      BY <3>1, <3>2, OffsetIs
    <3>4. pow2(top) = Weight(NUM_LIMBS + 1)
      BY <3>2, <3>3 DEF Weight
    <3>. QED BY <2>1, <3>3, <3>4, WeightStep
  <2>2. CASE ~ (i > k)
    <3>1. wrap = 0 /\ 0 * w - 0 \div 2 = 0
      BY <1>0, <2>2
    <3>2. top = 0
      BY <3>1
    <3>. HIDE DEF top
    <3>. QED BY <2>2, <3>2, PowStep
  <2>. QED BY <2>1, <2>2
<1>6. Doubled(i, j) \in {1, 2} /\ e \in Nat /\ pow2(e) = Doubled(i, j)
  <2>1. pow2(0) = 1 /\ pow2(0 + 1) = 2 * pow2(0) /\ 0 + 1 = 1
    BY PowStep
  <2>2. pow2(1) = 2
    BY <2>1
  <2>. QED BY <2>1, <2>2 DEF Doubled
<1>7. off(i) \in Nat /\ off(j) \in Nat /\ off(k) \in Nat
  <2>1. i \in 1 .. NUM_LIMBS + 1 /\ j \in 1 .. NUM_LIMBS + 1 /\ k \in 1 .. NUM_LIMBS + 1
    BY <1>0
  <2>. HIDE DEF off, j
  <2>. QED BY <1>1, <2>1
<1>8. Weight(i) = pow2(off(i)) /\ Weight(j) = pow2(off(j)) /\ Weight(k) = pow2(off(k))
  BY DEF Weight
<1>. DEFINE oi == off(i)  oj == off(j)  ok == off(k)  d == Doubled(i, j)  t == pow2(top)
<1>9. oi \in Nat /\ oj \in Nat /\ ok \in Nat /\ oi + oj = e + ok + top
  BY <1>4, <1>7
<1>10. Weight(i) = pow2(oi) /\ Weight(j) = pow2(oj) /\ Weight(k) = pow2(ok) /\ pow2(e) = d
  BY <1>6, <1>8
<1>11. t = IF i > k THEN P + FOLD ELSE 1
  BY <1>5
<1>. HIDE DEF oi, oj, ok, e, top, d, t, j
<1>12. pow2(oi) * pow2(oj) = pow2(e) * pow2(ok) * pow2(top)
  <2>1. pow2(oi + oj) = pow2(oi) * pow2(oj)
    BY <1>9, PowSplit
  <2>2. e + ok \in Nat /\ pow2(e + ok) = pow2(e) * pow2(ok)
    BY <1>6, <1>9, PowSplit
  <2>3. pow2((e + ok) + top) = pow2(e + ok) * pow2(top)
    BY <1>5, <2>2, PowSplit
  <2>. QED BY <1>9, <2>1, <2>2, <2>3
<1>13. Weight(i) * Weight(j) = d * Weight(k) * t
  BY <1>10, <1>12 DEF t
<1>. QED
  BY <1>6, <1>11, <1>13, Zenon DEF d, j

\* What the wrap to the first limb leaves out, in units of P.
Excess(a, b, i, k) ==
    IF i > k THEN Doubled(i, Partner(i, k)) * a[i] * b[Partner(i, k)] * Weight(k) ELSE 0

\* A product weighs what its limbs weigh, less a multiple of the modulus.
LEMMA ProductTerm ==
    ASSUME NEW a, NEW b, NEW i \in Limb, NEW k \in Limb,
           a[i] \in Int, b[Partner(i, k)] \in Int
    PROVE  /\ Products(a, b, k)[i] * Weight(k)
                = (a[i] * Weight(i)) * (b[Partner(i, k)] * Weight(Partner(i, k))) - P * Excess(a, b, i, k)
           /\ Excess(a, b, i, k) \in Int
<1>. DEFINE j == Partner(i, k)  x == a[i]  y == b[j]  d == Doubled(i, j)
            wi == Weight(i)  wj == Weight(j)  wk == Weight(k)  t == IF i > k THEN FOLD ELSE 1
            full == IF i > k THEN P + FOLD ELSE 1
            z == Excess(a, b, i, k)
<1>1. x \in Int /\ y \in Int /\ d \in Int /\ wi \in Int /\ wj \in Int /\ wk \in Int /\ P \in Int /\ FOLD \in Int
  <2>1. j \in Limb /\ d \in {1, 2}
    BY PartnerIn, WeightProduct
  <2>. HIDE DEF j, d
  <2>. QED BY <2>1, WeightStep DEF j
<1>2. Products(a, b, k)[i] = d * t * x * y
  BY DEF Products, Factor, Doubled
<1>3. wi * wj = d * wk * full
  BY WeightProduct
<1>4. z = IF i > k THEN d * x * y * wk ELSE 0
  BY DEF Excess
<1>5. (i > k /\ t = FOLD /\ full = P + FOLD) \/ (~ (i > k) /\ t = 1 /\ full = 1)
  OBVIOUS
<1>. HIDE DEF j, x, y, d, wi, wj, wk, t, full, z
<1>6. (x * wi) * (y * wj) = (x * y) * (d * wk * full)
  <2>1. (x * wi) * (y * wj) = (x * y) * (wi * wj)
    BY <1>1
  <2>. QED BY <1>3, <2>1
<1>7. CASE i > k
  <2>1. z = d * x * y * wk /\ t = FOLD /\ full = P + FOLD
    BY <1>4, <1>5, <1>7
  <2>2. (d * FOLD * x * y) * wk = (x * y) * (d * wk * (P + FOLD)) - P * (d * x * y * wk) /\ d * x * y * wk \in Int
    BY <1>1
  <2>. QED BY <1>2, <1>6, <2>1, <2>2 DEF x, y, j, wi, wj, wk, z
<1>8. CASE ~ (i > k)
  <2>1. z = 0 /\ t = 1 /\ full = 1
    BY <1>4, <1>5, <1>8
  <2>2. (d * 1 * x * y) * wk = (x * y) * (d * wk * 1) - P * 0
    BY <1>1
  <2>. QED BY <1>2, <1>6, <2>1, <2>2 DEF x, y, j, wi, wj, wk, z
<1>. QED
  BY <1>7, <1>8

\* The sums of products have the value of the product, up to a multiple of P.
LEMMA MulValue ==
    ASSUME NEW a, NEW b, RangeChecked(a), RangeChecked(b)
    PROVE  \E q \in Int : Val(Terms("mul", a, b)) = Val(a) * Val(b) - P * q
<1>. DEFINE u == [i \in Limb |-> a[i] * Weight(i)]
            v == [j \in Limb |-> b[j] * Weight(j)]
            F == [k \in Limb |-> [i \in Limb |-> Products(a, b, k)[i] * Weight(k)]]
            G == [i \in Limb |-> [k \in Limb |-> Products(a, b, k)[i] * Weight(k)]]
            V == [i \in Limb |-> [k \in Limb |-> v[Partner(i, k)]]]
            W == [i \in Limb |-> [k \in Limb |-> u[i] * v[Partner(i, k)]]]
            Q == [i \in Limb |-> [k \in Limb |-> Excess(a, b, i, k)]]
            rows == [k \in Limb |-> SumTo(F[k], NUM_LIMBS)]
            columns == [i \in Limb |-> SumTo(G[i], NUM_LIMBS)]
            uv == [i \in Limb |-> Val(b) * u[i]]
            qs == [i \in Limb |-> SumTo(Q[i], NUM_LIMBS)]
            n == NUM_LIMBS
<1>0. n \in Nat /\ Limb = 1..n /\ P \in Int
  BY Widths, WeightStep DEF Limb
<1>1. \A i \in Limb : a[i] \in Int /\ b[i] \in Int /\ Weight(i) \in Int
  BY WeightStep DEF RangeChecked
<1>2. \A i \in 1..n : u[i] \in Int /\ v[i] \in Int
  <2>. SUFFICES ASSUME NEW i \in Limb PROVE a[i] * Weight(i) \in Int /\ b[i] * Weight(i) \in Int
    BY <1>0
  <2>1. a[i] \in Int /\ b[i] \in Int /\ Weight(i) \in Int
    BY <1>1
  <2>. QED BY <2>1
<1>3. Val(a) = SumTo(u, n) /\ Val(b) = SumTo(v, n) /\ Val(a) \in Int /\ Val(b) \in Int
  <2>1. \A i \in Limb : u[i] = a[i] * Weight(i) /\ v[i] = b[i] * Weight(i)
    OBVIOUS
  <2>. HIDE DEF u, v
  <2>. QED BY <1>1, <2>1, ValIs, ValInt
<1>4. \A i \in 1..n, k \in 1..n :
         /\ G[i][k] = W[i][k] + (- P) * Q[i][k] /\ W[i][k] = u[i] * V[i][k]
         /\ Q[i][k] \in Int /\ V[i][k] \in Int /\ V[i][k] = v[Partner(i, k)]
  <2>. SUFFICES ASSUME NEW i \in Limb, NEW k \in Limb
                PROVE  /\ G[i][k] = W[i][k] + (- P) * Q[i][k] /\ W[i][k] = u[i] * V[i][k]
                       /\ Q[i][k] \in Int /\ V[i][k] \in Int /\ V[i][k] = v[Partner(i, k)]
    BY <1>0, Zenon
  <2>1. Partner(i, k) \in Limb
    BY PartnerIn
  <2>2. Products(a, b, k)[i] * Weight(k) = u[i] * v[Partner(i, k)] - P * Excess(a, b, i, k) /\ Excess(a, b, i, k) \in Int
    <3>1. a[i] \in Int /\ b[Partner(i, k)] \in Int
      BY <1>1, <2>1
    <3>2. u[i] = a[i] * Weight(i) /\ v[Partner(i, k)] = b[Partner(i, k)] * Weight(Partner(i, k))
      BY <2>1
    <3>. HIDE DEF u, v
    <3>. QED BY <3>1, <3>2, ProductTerm
  <2>3. u[i] \in Int /\ v[Partner(i, k)] \in Int
    BY <1>0, <1>2, <2>1
  <2>4. /\ G[i][k] = Products(a, b, k)[i] * Weight(k) /\ W[i][k] = u[i] * v[Partner(i, k)]
        /\ V[i][k] = v[Partner(i, k)] /\ Q[i][k] = Excess(a, b, i, k)
    OBVIOUS
  <2>. HIDE DEF u, v, G, W, V, Q
  <2>. DEFINE x == u[i]  y == v[Partner(i, k)]  e == Excess(a, b, i, k)
  <2>5. x \in Int /\ y \in Int /\ e \in Int /\ G[i][k] = x * y - P * e
    BY <2>2, <2>3, <2>4
  <2>. HIDE DEF x, y, e
  <2>6. x * y - P * e = x * y + (- P) * e
    BY <1>0, <2>5
  <2>. QED BY <2>2, <2>3, <2>4, <2>5, <2>6 DEF x, y, e
<1>5. \A i \in 1..n : columns[i] = uv[i] + (- P) * qs[i] /\ uv[i] = Val(b) * u[i] /\ uv[i] \in Int /\ qs[i] \in Int
  <2>. SUFFICES ASSUME NEW i \in 1..n
                PROVE  /\ columns[i] = uv[i] + (- P) * qs[i] /\ uv[i] = Val(b) * u[i]
                       /\ uv[i] \in Int /\ qs[i] \in Int
    OBVIOUS
  <2>0. columns[i] = SumTo(G[i], n) /\ uv[i] = Val(b) * u[i] /\ qs[i] = SumTo(Q[i], n)
    BY <1>0
  <2>1. u[i] \in Int /\ - P \in Int /\ i \in Limb
    BY <1>0, <1>2
  <2>2. SumTo(V[i], n) = SumTo(v, n)
    <3>1. \A k \in 1..n : v[k] \in Int /\ V[i][k] = v[k + 1 - i + (IF i > k THEN n ELSE 0)]
      <4>1. \A k \in 1..n : Partner(i, k) = k + 1 - i + (IF i > k THEN n ELSE 0)
        BY DEF Partner
      <4>2. \A k \in 1..n : v[k] \in Int /\ V[i][k] = v[Partner(i, k)]
        BY <1>2, <1>4
      <4>. HIDE DEF v, V, n
      <4>. QED BY <4>1, <4>2, Zenon
    <3>. HIDE DEF v, V, n
    <3>. QED BY <1>0, <3>1, SumRotates
  <2>3. SumTo(W[i], n) = u[i] * SumTo(V[i], n) /\ SumTo(V[i], n) \in Int
    <3>1. \A k \in 1..n : V[i][k] \in Int /\ W[i][k] = u[i] * V[i][k]
      BY <1>4
    <3>. DEFINE g == V[i]  h == W[i]  c == u[i]
    <3>2. n \in Nat /\ c \in Int /\ \A k \in 1..n : g[k] \in Int /\ h[k] = c * g[k]
      BY <1>0, <2>1, <3>1
    <3>. HIDE DEF V, W, u, n, g, h, c
    <3>3. SumTo(h, n) = c * SumTo(g, n) /\ SumTo(g, n) \in Int
      BY <3>2, SumScales
    <3>. QED BY <3>3 DEF g, h, c
  <2>4. \A k \in 1..n : W[i][k] \in Int /\ Q[i][k] \in Int /\ G[i][k] = W[i][k] + (- P) * Q[i][k]
    <3>. SUFFICES ASSUME NEW k \in 1..n PROVE W[i][k] \in Int /\ Q[i][k] \in Int /\ G[i][k] = W[i][k] + (- P) * Q[i][k]
      OBVIOUS
    <3>1. W[i][k] = u[i] * V[i][k] /\ V[i][k] \in Int /\ Q[i][k] \in Int /\ G[i][k] = W[i][k] + (- P) * Q[i][k]
      BY <1>4
    <3>. HIDE DEF G, W, Q, V, u
    <3>. QED BY <2>1, <3>1
  <2>5. SumTo(G[i], n) = SumTo(W[i], n) + (- P) * SumTo(Q[i], n)
    <3>. DEFINE f == W[i]  g == Q[i]  h == G[i]  c == - P
    <3>1. n \in Nat /\ c \in Int /\ \A k \in 1..n : f[k] \in Int /\ g[k] \in Int /\ h[k] = f[k] + c * g[k]
      BY <1>0, <2>1, <2>4
    <3>. HIDE DEF G, W, Q, n, f, g, h, c
    <3>2. SumTo(h, n) = SumTo(f, n) + c * SumTo(g, n)
      BY <3>1, SumLinear
    <3>. QED BY <3>2 DEF f, g, h, c
  <2>6. SumTo(Q[i], n) \in Int
    <3>1. n \in 0..n
      BY <1>0
    <3>. HIDE DEF Q, n
    <3>. QED BY <1>0, <2>4, <3>1, SumInt
  <2>7. u[i] * Val(b) = Val(b) * u[i] /\ Val(b) * u[i] \in Int
    BY <1>3, <2>1
  <2>. HIDE DEF columns, uv, qs, u, v, V, W, Q, G, n
  <2>. QED BY <1>3, <2>0, <2>2, <2>3, <2>5, <2>6, <2>7
<1>6. SumTo(columns, n) = SumTo(uv, n) + (- P) * SumTo(qs, n) /\ SumTo(qs, n) \in Int
  <2>1. n \in 0..n /\ - P \in Int
    BY <1>0
  <2>. HIDE DEF columns, uv, qs, n, u
  <2>2. SumTo(columns, n) = SumTo(uv, n) + (- P) * SumTo(qs, n)
    BY <1>0, <1>5, <2>1, SumLinear
  <2>. QED BY <1>0, <1>5, <2>1, <2>2, SumInt
<1>7. SumTo(uv, n) = Val(b) * SumTo(u, n)
  <2>. HIDE DEF columns, uv, qs, n, u
  <2>. QED BY <1>0, <1>2, <1>3, <1>5, SumScales
<1>8. SumTo(rows, n) = SumTo(columns, n)
  <2>1. \A k \in 1..n, i \in 1..n : F[k][i] \in Int /\ G[i][k] = F[k][i]
    <3>. SUFFICES ASSUME NEW k \in Limb, NEW i \in Limb
                  PROVE  Products(a, b, k)[i] * Weight(k) \in Int
      BY <1>0
    <3>1. Products(a, b, k)[i] \in Int
      BY ProductBounds, LargestIs
    <3>. QED BY <1>1, <3>1
  <2>2. /\ \A k \in 1..n : rows[k] = SumTo(F[k], n)
        /\ \A i \in 1..n : columns[i] = SumTo(G[i], n)
    BY <1>0
  <2>. HIDE DEF rows, columns, F, G, n
  <2>3. n \in Nat
    BY <1>0
  <2>4. Transposed(F, G, n, n) /\ SumsOf(rows, F, n, n) /\ SumsOf(columns, G, n, n)
    BY <2>1, <2>2, Zenon DEF Transposed, SumsOf
  <2>. QED BY <2>3, <2>4, SumSwaps
<1>9. Val(Terms("mul", a, b)) = SumTo(rows, n)
  <2>1. \A k \in Limb : rows[k] = Terms("mul", a, b)[k] * Weight(k)
    <3>. SUFFICES ASSUME NEW k \in Limb PROVE SumTo(F[k], n) = MulTerm(a, b, k) * Weight(k)
      BY DEF Terms, Term
    <3>1. \A i \in 1..n : Products(a, b, k)[i] \in Int /\ F[k][i] = Weight(k) * Products(a, b, k)[i]
      <4>. SUFFICES ASSUME NEW i \in Limb
                    PROVE  /\ Products(a, b, k)[i] \in Int
                           /\ Products(a, b, k)[i] * Weight(k) = Weight(k) * Products(a, b, k)[i]
        BY <1>0
      <4>1. Products(a, b, k)[i] \in Int
        BY ProductBounds, LargestIs
      <4>. QED BY <1>1, <4>1
    <3>2. Weight(k) \in Int
      BY <1>1
    <3>. HIDE DEF F, n
    <3>3. SumTo(F[k], n) = Weight(k) * SumTo(Products(a, b, k), n) /\ SumTo(Products(a, b, k), n) \in Int
      BY <1>0, <3>1, <3>2, SumScales
    <3>4. MulTerm(a, b, k) = SumTo(Products(a, b, k), n)
      BY MulTermIs DEF n
    <3>. QED BY <3>2, <3>3, <3>4
  <2>. HIDE DEF rows
  <2>. QED BY <2>1, ValIs
<1>. HIDE DEF u, v, F, G, V, W, Q, rows, columns, uv, qs
<1>10. Val(Terms("mul", a, b)) = Val(b) * Val(a) + (- P) * SumTo(qs, n)
  BY <1>3, <1>6, <1>7, <1>8, <1>9
<1>. DEFINE q == SumTo(qs, n)
<1>11. q \in Int /\ Val(b) * Val(a) + (- P) * q = Val(a) * Val(b) - P * q
  <2>1. q \in Int
    BY <1>6
  <2>. HIDE DEF q
  <2>. QED BY <1>0, <1>3, <2>1
<1>. QED
  BY <1>10, <1>11

----------------------------------------------------------------------------
(* The gadgets are sound. *)

\* Accepted limbs and carries of add, sub and mul stand for the result.
LEMMA ChainSound ==
    ASSUME NEW a, NEW b, RangeChecked(a), RangeChecked(b), NEW op \in Chained,
           NEW c, NEW cy, LimbsHold(op, a, b, c, cy, cy[NUM_LIMBS], NUM_LIMBS)
    PROVE  Val(c) % P = Reference(op, Val(a), Val(b))
<1>. DEFINE top == cy[NUM_LIMBS]
            t == Val(Terms(op, a, b))
            x == Val(a)
            y == Val(b)
            v == Val(c)
<1>0. P \in Nat \ {0}
  BY WeightStep
<1>1. v = t - P * top /\ top \in Int /\ t \in Int
  BY ChainValue
<1>2. \A k \in Limb : a[k] \in Int /\ b[k] \in Int
  BY WeightStep DEF RangeChecked
<1>3. x \in Int /\ y \in Int
  BY <1>2, ValInt
<1>4. ASSUME NEW z \in Int, NEW q \in Int, t = z - P * q
      PROVE  v % P = z % P
  <2>. HIDE DEF t, v, top
  <2>1. v = z + P * (- q - top) /\ - q - top \in Int /\ v \in Int
    <3>1. P * (- q - top) = - (P * q) - P * top /\ P * q \in Int /\ P * top \in Int
      BY <1>0, <1>1
    <3>. QED BY <1>1, <1>4, <3>1
  <2>. DEFINE g == - q - top
  <2>. HIDE DEF g
  <2>. DEFINE n == P
  <2>2. n \in Nat \ {0} /\ v \in Int /\ z \in Int /\ g \in Int /\ v = z + n * g
    BY <1>0, <2>1 DEF g
  <2>. HIDE DEF n
  <2>3. v % n = z % n
    <3>1. (z + n * g) % n = z % n
      BY <2>2, SameRemainder, Zenon
    <3>. QED BY <2>2, <3>1, Zenon
  <2>. QED BY <2>3, Zenon DEF n
<1>5. CASE op = "add"
  <2>1. \A k \in Limb : a[k] \in Int /\ b[k] \in Int /\ Terms(op, a, b)[k] = a[k] + 1 * b[k]
    <3>1. \A k \in Limb : Terms(op, a, b)[k] = a[k] + b[k]
      BY <1>5 DEF Terms, Term, AddTerm
    <3>. QED BY <1>2, <3>1
  <2>2. t = x + 1 * y
    BY <2>1, ValLinear
  <2>. HIDE DEF t, x, y, v
  <2>3. x + y \in Int /\ t = (x + y) - P * 0
    BY <1>0, <1>3, <2>2
  <2>. DEFINE z == x + y
  <2>. HIDE DEF z
  <2>4. v % P = z % P
    BY <1>4, <2>3 DEF z
  <2>. QED BY <1>5, <2>4 DEF Reference, z, x, y, v
<1>6. CASE op = "sub"
  <2>1. \A k \in Limb : a[k] \in Int /\ b[k] \in Int /\ Terms(op, a, b)[k] = a[k] + (-1) * b[k]
    <3>1. \A k \in Limb : Terms(op, a, b)[k] = a[k] - b[k]
      BY <1>6 DEF Terms, Term, SubTerm
    <3>. QED BY <1>2, <3>1
  <2>2. t = x + (-1) * y
    BY <2>1, ValLinear
  <2>. HIDE DEF t, x, y, v
  <2>3. x - y \in Int /\ t = (x - y) - P * 0
    BY <1>0, <1>3, <2>2
  <2>. DEFINE z == x - y
  <2>. HIDE DEF z
  <2>4. v % P = z % P
    BY <1>4, <2>3 DEF z
  <2>. QED BY <1>6, <2>4 DEF Reference, z, x, y, v
<1>7. CASE op = "mul"
  <2>1. PICK q \in Int : t = x * y - P * q
    BY <1>7, MulValue
  <2>2. x * y \in Int
    BY <1>3
  <2>. HIDE DEF t, x, y, v
  <2>. DEFINE z == x * y
  <2>3. z \in Int /\ t = z - P * q
    BY <2>1, <2>2
  <2>. HIDE DEF z
  <2>4. v % P = z % P
    BY <1>4, <2>3
  <2>. QED BY <1>7, <2>4 DEF Reference, z, x, y, v
<1>. QED
  BY <1>5, <1>6, <1>7 DEF Chained

\* Accepted cells of freeze hold the representative below P.
LEMMA FreezeSound ==
    ASSUME NEW w, eval_freeze_gadget(w), RangeChecked(w.a)
    PROVE  Val(w.c) = Val(w.a) % P
<1>. DEFINE a == w.a  c == w.c  g == w.g  s == w.s
            borrow(k) == IF k \in {0, NUM_LIMBS} THEN 0 ELSE w.borrow[k]
            carry(k) == IF k \in {0, NUM_LIMBS} THEN 0 ELSE w.carry[k]
            first(k) == IF k = 1 THEN FOLD ELSE 0
            R == LIMB_RADIX[1]
<1>0. /\ NUM_LIMBS \in Nat /\ NUM_LIMBS >= 2 /\ FOLD \in Nat \ {0} /\ P \in Nat \ {0}
      /\ R \in Nat \ {0} /\ FOLD < R /\ NATIVE \in Nat \ {0} /\ NATIVE > 4 * R
  <2>1. NATIVE \in Nat \ {0} /\ NATIVE > NUM_LIMBS * Largest + (FOLD + R) * Extreme + R
    BY LargestIs
  <2>2. /\ R \in Nat \ {0} /\ FOLD \in Nat \ {0} /\ P \in Nat \ {0} /\ FOLD < R
        /\ NUM_LIMBS * Largest \in Nat /\ NUM_LIMBS * Largest >= 2 * R /\ Extreme \in Nat \ {0}
    BY WeightStep, LargestIs
  <2>. DEFINE B == NUM_LIMBS * Largest  C == (FOLD + R) * Extreme
  <2>3. C \in Nat /\ C >= FOLD + R
    BY <2>2
  <2>4. B \in Nat /\ B >= 2 * R /\ NATIVE > B + C + R
    BY <2>1, <2>2
  <2>. HIDE DEF B, C, R
  <2>5. NATIVE > 4 * R
    BY <2>1, <2>2, <2>3, <2>4
  <2>. QED BY <2>1, <2>2, <2>5, Widths
<1>1. RangeChecked(c) /\ RangeChecked(g) /\ RangeChecked(a) /\ s \in {0, 1}
  BY DEF eval_freeze_gadget
<1>2. \A k \in 0..NUM_LIMBS : borrow(k) \in {0, 1} /\ carry(k) \in {0, 1}
  <2>1. \A k \in 1 .. NUM_LIMBS - 1 : borrow(k) \in {0, 1} /\ carry(k) \in {0, 1}
    BY DEF eval_freeze_gadget
  <2>2. borrow(0) = 0 /\ carry(0) = 0 /\ borrow(NUM_LIMBS) = 0 /\ carry(NUM_LIMBS) = 0
    OBVIOUS
  <2>3. \A k \in 0..NUM_LIMBS : k = 0 \/ k = NUM_LIMBS \/ k \in 1 .. NUM_LIMBS - 1
    BY <1>0
  <2>. HIDE DEF borrow, carry
  <2>. QED BY <2>1, <2>2, <2>3
<1>3. \A k \in Limb :
        /\ (a[k] - s * p_limbs[k] - borrow(k - 1) - c[k] + LIMB_RADIX[k] * borrow(k)) % NATIVE = 0
        /\ (c[k] + first(k) + carry(k - 1) - g[k] - LIMB_RADIX[k] * carry(k)) % NATIVE = 0
  BY Zenon DEF eval_freeze_gadget
<1>4. \A k \in Limb :
        /\ k \in 0..NUM_LIMBS /\ k - 1 \in 0..NUM_LIMBS
        /\ LIMB_RADIX[k] \in Nat \ {0} /\ LIMB_RADIX[k] <= R
        /\ a[k] \in 0 .. LIMB_RADIX[k] - 1 /\ c[k] \in 0 .. LIMB_RADIX[k] - 1
        /\ g[k] \in 0 .. LIMB_RADIX[k] - 1 /\ p_limbs[k] \in 0 .. LIMB_RADIX[k] - 1
  <2>. SUFFICES ASSUME NEW k \in Limb
                PROVE  /\ k \in 0..NUM_LIMBS /\ k - 1 \in 0..NUM_LIMBS
                       /\ LIMB_RADIX[k] \in Nat \ {0} /\ LIMB_RADIX[k] <= R
                       /\ a[k] \in 0 .. LIMB_RADIX[k] - 1 /\ c[k] \in 0 .. LIMB_RADIX[k] - 1
                       /\ g[k] \in 0 .. LIMB_RADIX[k] - 1 /\ p_limbs[k] \in 0 .. LIMB_RADIX[k] - 1
    BY Zenon
  <2>1. k \in 0..NUM_LIMBS /\ k - 1 \in 0..NUM_LIMBS
    BY <1>0 DEF Limb
  <2>2. a[k] \in 0 .. LIMB_RADIX[k] - 1 /\ c[k] \in 0 .. LIMB_RADIX[k] - 1 /\ g[k] \in 0 .. LIMB_RADIX[k] - 1
    BY <1>1 DEF RangeChecked
  <2>3. LIMB_RADIX[k] \in Nat \ {0} /\ LIMB_RADIX[k] <= R
    BY WeightStep
  <2>4. p_limbs[k] = IF k = 1 THEN LIMB_RADIX[k] - FOLD ELSE LIMB_RADIX[k] - 1
    BY DEF p_limbs
  <2>5. p_limbs[k] \in 0 .. LIMB_RADIX[k] - 1
    BY <1>0, <2>3, <2>4
  <2>. QED BY <2>1, <2>2, <2>3, <2>5
<1>. HIDE DEF borrow, carry, first, R, a, c, g, s
\* The constraints, in the integers.
<1>5. ASSUME NEW k \in Limb
      PROVE  /\ a[k] - s * p_limbs[k] - borrow(k - 1) - c[k] + LIMB_RADIX[k] * borrow(k) = 0
             /\ c[k] + first(k) + carry(k - 1) - g[k] - LIMB_RADIX[k] * carry(k) = 0
  <2>. DEFINE r == LIMB_RADIX[k]  sp == s * p_limbs[k]  rb == r * borrow(k)  rc == r * carry(k)
              e1 == a[k] - sp - borrow(k - 1) - c[k] + rb
              e2 == c[k] + first(k) + carry(k - 1) - g[k] - rc
  <2>1. r \in Nat \ {0} /\ r <= R /\ borrow(k - 1) \in {0, 1} /\ carry(k - 1) \in {0, 1}
        /\ borrow(k) \in {0, 1} /\ carry(k) \in {0, 1}
        /\ a[k] \in 0 .. r - 1 /\ c[k] \in 0 .. r - 1 /\ g[k] \in 0 .. r - 1 /\ p_limbs[k] \in 0 .. r - 1
    BY <1>2, <1>4
  <2>2. sp \in 0 .. r - 1
    <3>1. s = 0 \/ s = 1
      BY <1>1 DEF s
    <3>2. p_limbs[k] \in 0 .. r - 1 /\ r \in Nat
      BY <2>1
    <3>. QED BY <3>1, <3>2
  <2>3. rb \in {0, r} /\ rc \in {0, r}
    BY <2>1
  <2>4. first(k) \in 0 .. R - 1
    BY <1>0 DEF first
  <2>5. e1 % NATIVE = 0 /\ e2 % NATIVE = 0
    BY <1>3
  <2>6. R \in Nat \ {0} /\ NATIVE \in Nat \ {0} /\ NATIVE > 4 * R
    BY <1>0
  <2>. HIDE DEF r, sp, rb, rc
  <2>7. e1 \in Int /\ - NATIVE < e1 /\ e1 < NATIVE
    BY <2>1, <2>2, <2>3, <2>6
  <2>8. e2 \in Int /\ - NATIVE < e2 /\ e2 < NATIVE
    BY <2>1, <2>3, <2>4, <2>6
  <2>. HIDE DEF e1, e2
  <2>9. e1 = 0 /\ e2 = 0
    BY <2>5, <2>6, <2>7, <2>8, SmallMultiple
  <2>. QED BY <2>9, Zenon DEF e1, e2, sp, rb, rc, r
\* c is a less s times p.
<1>6. Val(c) = Val(a) - s * P
  <2>. DEFINE d == [k \in Limb |-> c[k] + s * p_limbs[k]]
              dd == [k \in Limb |-> d[k] + (-1) * a[k]]
              x == [k \in 0..NUM_LIMBS |-> 0 - borrow(k)]
              px == [k \in 0..NUM_LIMBS |-> IF k = 0 THEN - FOLD ELSE -1]
  <2>0. s \in Int /\ P \in Int /\ FOLD \in Int /\ 0 \in 0..NUM_LIMBS /\ NUM_LIMBS \in 0..NUM_LIMBS /\ NUM_LIMBS # 0
    BY <1>0, <1>1 DEF s
  <2>1. \A k \in Limb : a[k] \in Int /\ c[k] \in Int /\ p_limbs[k] \in Int /\ s * p_limbs[k] \in Int /\ d[k] \in Int
    BY <1>4, <2>0
  <2>2. \A k \in 0..NUM_LIMBS : x[k] = 0 - borrow(k) /\ x[k] \in Int
    BY <1>2
  <2>3. \A k \in Limb : dd[k] = x[k - 1] - LIMB_RADIX[k] * x[k]
    <3>. SUFFICES ASSUME NEW k \in Limb
                  PROVE  c[k] + s * p_limbs[k] + (-1) * a[k] = (0 - borrow(k - 1)) - LIMB_RADIX[k] * (0 - borrow(k))
      BY <1>4
    <3>. DEFINE sp == s * p_limbs[k]  r == LIMB_RADIX[k]  b == borrow(k)
    <3>1. /\ a[k] - sp - borrow(k - 1) - c[k] + r * b = 0 /\ a[k] \in Int /\ c[k] \in Int /\ sp \in Int
          /\ r \in Int /\ b \in Int /\ borrow(k - 1) \in Int
      BY <1>2, <1>4, <1>5, <2>1
    <3>. HIDE DEF sp, r, b
    <3>2. r * (0 - b) = - (r * b) /\ r * b \in Int
      BY <3>1
    <3>3. c[k] + sp + (-1) * a[k] = (0 - borrow(k - 1)) - r * (0 - b)
      BY <3>1, <3>2
    <3>. QED BY <3>3 DEF sp, r, b
  <2>4. Val(dd) = x[0] - x[NUM_LIMBS] * (P + FOLD) /\ x[0] = 0 /\ x[NUM_LIMBS] = 0
    <3>1. borrow(0) = 0 /\ borrow(NUM_LIMBS) = 0
      BY DEF borrow
    <3>. HIDE DEF x, dd
    <3>2. x[0] = 0 /\ x[NUM_LIMBS] = 0
      <4>1. x[0] = 0 - borrow(0) /\ x[NUM_LIMBS] = 0 - borrow(NUM_LIMBS)
        BY <2>0, <2>2, Zenon
      <4>2. 0 - 0 = 0
        OBVIOUS
      <4>. QED BY <3>1, <4>1, <4>2, Zenon
    <3>. QED BY <2>2, <2>3, <3>2, ValTelescopes
  <2>5. Val(dd) = Val(d) + (-1) * Val(a)
    <3>1. \A k \in Limb : d[k] \in Int /\ a[k] \in Int /\ dd[k] = d[k] + (-1) * a[k]
      BY <2>1
    <3>. HIDE DEF d, dd
    <3>. QED BY <3>1, ValLinear
  <2>6. Val(d) = Val(c) + s * Val(p_limbs)
    <3>1. \A k \in Limb : c[k] \in Int /\ p_limbs[k] \in Int /\ d[k] = c[k] + s * p_limbs[k]
      BY <2>1
    <3>. HIDE DEF d
    <3>. QED BY <2>0, <3>1, ValLinear
  <2>7. Val(p_limbs) = P
    <3>1. \A k \in 0..NUM_LIMBS : px[k] \in Int
      BY <2>0
    <3>2. \A k \in Limb : p_limbs[k] = px[k - 1] - LIMB_RADIX[k] * px[k]
      <4>. SUFFICES ASSUME NEW k \in Limb PROVE p_limbs[k] = px[k - 1] - LIMB_RADIX[k] * px[k]
        BY Zenon
      <4>1. p_limbs[k] = IF k = 1 THEN LIMB_RADIX[k] - FOLD ELSE LIMB_RADIX[k] - 1
        BY DEF p_limbs
      <4>2. px[k] = -1 /\ px[k - 1] = IF k = 1 THEN - FOLD ELSE -1
        BY <1>0, <1>4 DEF Limb
      <4>3. LIMB_RADIX[k] \in Int
        BY <1>4
      <4>. HIDE DEF px
      <4>. QED BY <2>0, <4>1, <4>2, <4>3
    <3>3. px[0] = - FOLD /\ px[NUM_LIMBS] = -1
      BY <2>0
    <3>. HIDE DEF px
    <3>4. Val(p_limbs) = px[0] - px[NUM_LIMBS] * (P + FOLD)
      BY <3>1, <3>2, ValTelescopes
    <3>. QED BY <2>0, <3>3, <3>4
  <2>8. Val(a) \in Int /\ Val(c) \in Int /\ Val(d) \in Int
    <3>. HIDE DEF d
    <3>. QED BY <2>1, ValInt
  <2>9. s * P \in Int
    BY <2>0
  <2>. HIDE DEF d, dd, x
  <2>10. Val(d) = Val(a)
    <3>1. Val(dd) = 0
      <4>1. Val(dd) = 0 - 0 * (P + FOLD)
        BY <2>4, Zenon
      <4>. QED BY <2>0, <4>1
    <3>. DEFINE vd == Val(d)  va == Val(a)
    <3>2. vd \in Int /\ va \in Int /\ 0 = vd + (-1) * va
      BY <2>5, <2>8, <3>1
    <3>. HIDE DEF vd, va
    <3>3. vd = va
      BY <3>2
    <3>. QED BY <3>3 DEF vd, va
  <2>11. Val(d) = Val(c) + s * P
    BY <2>6, <2>7, Zenon
  <2>. DEFINE va == Val(a)  vc == Val(c)  sp == s * P
  <2>12. va \in Int /\ vc \in Int /\ sp \in Int /\ va = vc + sp
    BY <2>8, <2>9, <2>10, <2>11
  <2>. HIDE DEF va, vc, sp
  <2>13. vc = va - sp
    BY <2>12
  <2>. QED BY <2>13, Zenon DEF va, vc, sp
\* g is c + FOLD, and has no room above 2^T.
<1>7. Val(g) = Val(c) + FOLD
  <2>. DEFINE d == [k \in Limb |-> g[k] + (-1) * c[k]]
              x == [k \in 0..NUM_LIMBS |-> IF k = 0 THEN FOLD ELSE carry(k)]
  <2>0. P \in Int /\ FOLD \in Int /\ 0 \in 0..NUM_LIMBS /\ NUM_LIMBS \in 0..NUM_LIMBS /\ NUM_LIMBS # 0
    BY <1>0
  <2>1. \A k \in Limb : g[k] \in Int /\ c[k] \in Int
    BY <1>4
  <2>2. \A k \in 0..NUM_LIMBS : x[k] \in Int
    BY <1>2, <2>0
  <2>3. \A k \in Limb : d[k] = x[k - 1] - LIMB_RADIX[k] * x[k]
    <3>. SUFFICES ASSUME NEW k \in Limb PROVE g[k] + (-1) * c[k] = x[k - 1] - LIMB_RADIX[k] * x[k]
      OBVIOUS
    <3>1. x[k] = carry(k) /\ x[k - 1] = first(k) + carry(k - 1)
      <4>1. carry(0) = 0 /\ k \in 1..NUM_LIMBS /\ carry(k - 1) \in Int
        BY <1>2, <1>4 DEF carry, Limb
      <4>. QED BY <1>0, <4>1 DEF first
    <3>. DEFINE rc == LIMB_RADIX[k] * carry(k)
    <3>2. rc \in Int /\ first(k) \in Int /\ carry(k - 1) \in Int
      <4>1. LIMB_RADIX[k] \in Int /\ carry(k) \in Int /\ carry(k - 1) \in Int
        BY <1>2, <1>4
      <4>. QED BY <2>0, <4>1 DEF first
    <3>3. c[k] + first(k) + carry(k - 1) - g[k] - rc = 0
      BY <1>5
    <3>4. x[k - 1] - LIMB_RADIX[k] * x[k] = (first(k) + carry(k - 1)) - rc
      BY <3>1
    <3>. DEFINE f == first(k)  b == carry(k - 1)  gk == g[k]  ck == c[k]
    <3>5. /\ f \in Int /\ b \in Int /\ gk \in Int /\ ck \in Int /\ rc \in Int
          /\ ck + f + b - gk - rc = 0 
      BY <2>1, <3>2, <3>3
    <3>. HIDE DEF x, rc, f, b, gk, ck
    <3>6. gk + (-1) * ck = (f + b) - rc
      BY <3>5
    <3>. QED BY <3>4, <3>6, Zenon DEF f, b, gk, ck
  <2>4. Val(d) = x[0] - x[NUM_LIMBS] * (P + FOLD) /\ x[0] = FOLD /\ x[NUM_LIMBS] = 0
    <3>1. carry(NUM_LIMBS) = 0
      BY DEF carry
    <3>2. x[0] = FOLD /\ x[NUM_LIMBS] = 0
      BY <2>0, <3>1
    <3>. HIDE DEF x, d
    <3>. QED BY <2>2, <2>3, <3>2, ValTelescopes
  <2>5. Val(d) = Val(g) + (-1) * Val(c)
    <3>1. \A k \in Limb : g[k] \in Int /\ c[k] \in Int /\ d[k] = g[k] + (-1) * c[k]
      BY <2>1
    <3>. HIDE DEF d
    <3>. QED BY <3>1, ValLinear
  <2>6. Val(g) \in Int /\ Val(c) \in Int
    BY <2>1, ValInt
  <2>. HIDE DEF d, x
  <2>. QED BY <2>0, <2>4, <2>5, <2>6
<1>8. Val(g) \in 0 .. P + FOLD - 1 /\ Val(c) \in 0 .. P + FOLD - 1
  BY <1>1, ValBounds DEF g, c
<1>9. Val(c) \in 0 .. P - 1
  BY <1>0, <1>7, <1>8
<1>10. Val(a) = P * s + Val(c) /\ s \in Int /\ Val(a) \in Int
  <2>1. \A k \in Limb : a[k] \in Int
    BY <1>4
  <2>2. Val(a) \in Int /\ s \in Int
    BY <1>1, <2>1, ValInt DEF s
  <2>3. s * P = P * s /\ P * s \in Int
    BY <1>0, <2>2
  <2>. QED BY <1>6, <1>9, <2>2, <2>3
<1>. QED
  BY <1>0, <1>9, <1>10, Quotient DEF a, c

\* A selected output is one of the two inputs, limb by limb.
LEMMA SelectSound ==
    ASSUME NEW a, NEW b, RangeChecked(a), RangeChecked(b), NEW bit \in {0, 1}
    PROVE  \A k \in Limb : (a[k] + bit * (b[k] - a[k])) % NATIVE = IF bit = 1 THEN b[k] ELSE a[k]
<1>. SUFFICES ASSUME NEW k \in Limb
              PROVE  (a[k] + bit * (b[k] - a[k])) % NATIVE = IF bit = 1 THEN b[k] ELSE a[k]
  OBVIOUS
<1>. DEFINE r == LIMB_RADIX[1]  x == a[k]  y == b[k]
            B == NUM_LIMBS * Largest  C == (FOLD + r) * Extreme
<1>1. r \in Nat /\ B \in Nat /\ C \in Nat /\ NATIVE \in Nat \ {0} /\ NATIVE > B + C + r
  BY LargestIs, WeightStep
<1>2. x \in 0 .. r - 1 /\ y \in 0 .. r - 1
  BY WeightStep DEF RangeChecked
<1>. HIDE DEF r, x, y, B, C
<1>3. x \in 0 .. NATIVE - 1 /\ y \in 0 .. NATIVE - 1
  BY <1>1, <1>2
<1>4. x + bit * (y - x) = IF bit = 1 THEN y ELSE x
  <2>1. CASE bit = 0
    <3>1. x + 0 * (y - x) = x
      BY <1>3
    <3>. QED BY <2>1, <3>1
  <2>2. CASE bit = 1
    <3>1. x + 1 * (y - x) = y
      BY <1>3
    <3>. QED BY <2>2, <3>1
  <2>. QED BY <2>1, <2>2
<1>5. x % NATIVE = x /\ y % NATIVE = y
  <2>1. x = NATIVE * 0 + x /\ y = NATIVE * 0 + y /\ x \in Int /\ y \in Int
    BY <1>1, <1>3
  <2>. QED BY <1>1, <1>3, <2>1, Quotient
<1>6. (x + bit * (y - x)) % NATIVE = IF bit = 1 THEN y ELSE x
  BY <1>4, <1>5
<1>. QED
  BY <1>6 DEF x, y

----------------------------------------------------------------------------
(* The component. *)

\* An element whose limbs fit their widths, as from_bytes makes it.
Tight(l) == l = [k \in Limb |-> l[k]] /\ RangeChecked(l)

\* The limbs of an encoding are in range.
LEMMA FromBytesTight ==
    ASSUME NEW v \in Nat
    PROVE  Tight(from_bytes(v))
<1>. DEFINE l == from_bytes(v)  T == pow2(ELEMENT_BITS)
<1>0. T \in Nat \ {0}
  <2>1. T = P + FOLD /\ P \in Nat \ {0} /\ FOLD \in Nat \ {0}
    BY FieldAssumption, WeightStep, OffsetIs, Widths DEF Weight
  <2>. QED BY <2>1
<1>1. ASSUME NEW k \in Limb PROVE l[k] \in 0 .. LIMB_RADIX[k] - 1
  <2>. DEFINE h == v % T  q == h \div LIMB_WEIGHTS[k]
  <2>1. l[k] = q % LIMB_RADIX[k]
    BY DEF from_bytes
  <2>2. LIMB_WEIGHTS[k] \in Nat \ {0} /\ LIMB_RADIX[k] \in Nat \ {0}
    BY WeightStep
  <2>. HIDE DEF T
  <2>3. h \in Int
    BY <1>0, DivRule
  <2>. HIDE DEF h
  <2>4. q \in Int
    BY <2>2, <2>3, DivRule
  <2>. HIDE DEF q
  <2>5. q % LIMB_RADIX[k] \in 0 .. LIMB_RADIX[k] - 1
    BY <2>2, <2>4, DivRule
  <2>. QED BY <2>1, <2>5, Zenon
<1>2. l = [k \in Limb |-> l[k]]
  BY DEF from_bytes
<1>. QED
  BY <1>1, <1>2 DEF Tight, RangeChecked

\* What accepted cells hold.
Accepted(s) == CASE s.op = "freeze" -> Val(s.c) = Reference("freeze", Val(s.a), 0)
                 [] s.op = "select" -> s.c = (IF s.bit = 1 THEN s.b ELSE s.a)
                 [] OTHER -> Val(s.c) % P = Reference(s.op, Val(s.a), Val(s.b))

\* A chain under way: the limbs written so far satisfy their constraints with
\* the carry that was settled for the last limb.
Chain(s) ==
    /\ {"phase", "op", "a", "b", "top", "c", "cy"} \subseteq DOMAIN s
    /\ s.op \in Chained /\ s.top \in Carries(s.op) /\ s.c \in Seq(Int) /\ s.cy \in Seq(Int)
    /\ Len(s.c) < NUM_LIMBS /\ Len(s.cy) = Len(s.c)
    /\ LimbsHold(s.op, s.a, s.b, s.c, s.cy, s.top, Len(s.c))

FieldInd ==
    /\ unit = "field" /\ Tight(st.a) /\ Tight(st.b)
    /\ st.phase \in {"input", "filled", "limbs", "accepted"}
    /\ st.phase = "limbs" => Chain(st)
    /\ st.phase = "accepted" => Accepted(st)

\* The invariant holds of the inputs.
LEMMA FieldInitInd == FieldInit => FieldInd
<1>. SUFFICES ASSUME FieldInit PROVE FieldInd
  OBVIOUS
<1>0. unit = "field"
  BY DEF FieldInit
<1>1. ASSUME NEW op, NEW x \in Nat, NEW y \in Nat, st = FieldInput(op, x, y)
      PROVE  FieldInd
  <2>1. st.phase = "input" /\ st.a = from_bytes(x) /\ st.b = from_bytes(y)
    BY <1>1 DEF FieldInput
  <2>. QED BY <1>0, <2>1, FromBytesTight DEF FieldInd
<1>2. FieldOperands \subseteq Nat /\ MulOperands \subseteq Nat /\ 0 .. pow2(ELEMENT_BITS) - 1 \subseteq Nat /\ 0 \in Nat
  BY FieldAssumption
<1>3. \E op, x, y : x \in Nat /\ y \in Nat /\ st = FieldInput(op, x, y)
  BY <1>2, Zenon DEF FieldInit
<1>. QED
  BY <1>1, <1>3, Zenon

\* The limb that ChainLimb appends satisfies its constraint, and those before
\* it still do.
LEMMA ChainLimbHolds ==
    ASSUME NEW op \in Chained, NEW a, NEW b, NEW c \in Seq(Int), NEW cy \in Seq(Int), Len(cy) = Len(c),
           NEW top, LimbsHold(op, a, b, c, cy, top, Len(c)),
           NEW x \in 0 .. LIMB_RADIX[Len(c) + 1] - 1, NEW out \in Carries(op), out \in Int,
           x = LimbOut(Term(op, a, b, Len(c) + 1),
                       CarryIn(Len(c) + 1, IF Len(c) + 1 = 1 THEN 0 ELSE cy[Len(c)], top), out, Len(c) + 1)
    PROVE  LimbsHold(op, a, b, Append(c, x), Append(cy, out), top, Len(c) + 1)
<1>. DEFINE n == Len(c)  cc == Append(c, x)  yy == Append(cy, out)
<1>1. n \in Nat /\ n + 1 - 1 = n
  OBVIOUS
<1>2. \A k \in 1..n : cc[k] = c[k] /\ yy[k] = cy[k]
  OBVIOUS
<1>3. cc[n + 1] = x /\ yy[n + 1] = out
  OBVIOUS
<1>4. ASSUME NEW k \in 1 .. n + 1
      PROVE  /\ cc[k] \in 0 .. LIMB_RADIX[k] - 1 /\ yy[k] \in Carries(op)
             /\ cc[k] = LimbOut(Term(op, a, b, k), CarryIn(k, IF k = 1 THEN 0 ELSE yy[k - 1], top), yy[k], k)
  <2>1. CASE k \in 1..n
    <3>1. k = 1 \/ k - 1 \in 1..n
      BY <1>1, <2>1
    <3>2. (IF k = 1 THEN 0 ELSE yy[k - 1]) = (IF k = 1 THEN 0 ELSE cy[k - 1])
      BY <1>2, <3>1
    <3>3. /\ c[k] \in 0 .. LIMB_RADIX[k] - 1 /\ cy[k] \in Carries(op)
          /\ c[k] = LimbOut(Term(op, a, b, k), CarryIn(k, IF k = 1 THEN 0 ELSE cy[k - 1], top), cy[k], k)
      BY <2>1, Zenon DEF LimbsHold, n
    <3>4. cc[k] = c[k] /\ yy[k] = cy[k]
      BY <1>2, <2>1
    <3>. HIDE DEF cc, yy, n
    <3>. QED BY <3>2, <3>3, <3>4, Zenon
  <2>2. CASE k = n + 1
    <3>1. n + 1 = 1 \/ n \in 1..n
      BY <1>1
    <3>2. (IF k = 1 THEN 0 ELSE yy[k - 1]) = (IF n + 1 = 1 THEN 0 ELSE cy[n])
      BY <1>1, <1>2, <2>2, <3>1
    <3>3. cc[k] = x /\ yy[k] = out
      BY <1>3, <2>2
    <3>4. x = LimbOut(Term(op, a, b, k), CarryIn(k, IF k = 1 THEN 0 ELSE yy[k - 1], top), out, k)
      <4>. HIDE DEF cc, yy
      <4>. QED BY <2>2, <3>2, Zenon
    <3>5. x \in 0 .. LIMB_RADIX[k] - 1
      BY <2>2, Zenon
    <3>. HIDE DEF cc, yy, n
    <3>. QED BY <3>3, <3>4, <3>5, Zenon
  <2>. QED BY <1>1, <2>1, <2>2
<1>. QED
  <2>. HIDE DEF cc, yy
  <2>1. LimbsHold(op, a, b, cc, yy, top, n + 1)
    BY <1>4, Zenon DEF LimbsHold
  <2>. QED BY <2>1, Zenon DEF cc, yy, n

\* Every step of the gadgets keeps the invariant.
LEMMA FieldStepInd == FieldInd /\ [FieldNext]_unitVars => FieldInd'
<1>. SUFFICES ASSUME FieldInd, [FieldNext]_unitVars PROVE FieldInd'
  OBVIOUS
<1>. USE DEF Move
<1>0. unit = "field" /\ Tight(st.a) /\ Tight(st.b) /\ RangeChecked(st.a) /\ RangeChecked(st.b)
  BY DEF FieldInd, Tight
<1>1. CASE FieldFill
  <2>1. /\ unit' = "field" /\ st'.a = st.a /\ st'.b = st.b /\ st'.phase = "filled"
    BY <1>1 DEF FieldFill
  <2>. QED BY <1>0, <2>1 DEF FieldInd
<1>2. CASE StartWitness
  <2>1. PICK top \in Carries(st.op) :
          st' = [phase |-> "limbs", op |-> st.op, a |-> st.a, b |-> st.b, top |-> top, c |-> << >>, cy |-> << >>]
    BY <1>2 DEF StartWitness
  <2>2. unit' = "field" /\ st.op \in Chained
    BY <1>2 DEF StartWitness
  <2>3. /\ st'.phase = "limbs" /\ st'.op = st.op /\ st'.a = st.a /\ st'.b = st.b
        /\ st'.top = top /\ st'.c = << >> /\ st'.cy = << >>
    BY <2>1
  <2>4. LimbsHold(st.op, st.a, st.b, << >>, << >>, top, Len(<< >>))
    BY DEF LimbsHold
  <2>5. Chain(st')
    BY <2>1, <2>2, <2>3, <2>4, Widths DEF Chain
  <2>. QED BY <1>0, <2>2, <2>3, <2>5 DEF FieldInd
<1>3. CASE ChainLimb
  <2>. DEFINE k == Len(st.c) + 1  t == Term(st.op, st.a, st.b, k)
              cin == CarryIn(k, IF k = 1 THEN 0 ELSE st.cy[k - 1], st.top)
  <2>1. PICK out \in IF k = NUM_LIMBS THEN {st.top} ELSE Carries(st.op) :
          /\ LimbOut(t, cin, out, k) < LIMB_RADIX[k]
          /\ st' = [st EXCEPT !.c = Append(@, LimbOut(t, cin, out, k)), !.cy = Append(@, out),
                              !.phase = IF k = NUM_LIMBS THEN "accepted" ELSE @]
          /\ unit' = "field"
    BY <1>3 DEF ChainLimb
  <2>2. st.phase = "limbs" /\ Chain(st)
    BY <1>3 DEF ChainLimb, FieldInd
  <2>. DEFINE x == LimbOut(t, cin, out, k)
  <2>3. /\ st.op \in Chained /\ st.top \in Carries(st.op) /\ st.c \in Seq(Int) /\ st.cy \in Seq(Int)
        /\ Len(st.c) < NUM_LIMBS /\ Len(st.cy) = Len(st.c)
        /\ LimbsHold(st.op, st.a, st.b, st.c, st.cy, st.top, Len(st.c))
    BY <2>2 DEF Chain
  <2>4. k \in Limb /\ k \in Nat /\ k - 1 = Len(st.c) /\ Len(st.c) \in Nat
    BY <2>3, Widths DEF Limb
  <2>5. out \in Carries(st.op) /\ out \in Int /\ (k = NUM_LIMBS => out = st.top)
    <3>1. out \in Carries(st.op) /\ (k = NUM_LIMBS => out = st.top)
      BY <2>1, <2>3
    <3>. QED BY <2>3, <3>1, CarryBounds
  <2>6. x \in 0 .. LIMB_RADIX[k] - 1
    <3>1. NATIVE \in Nat \ {0} /\ t \in Int /\ LIMB_RADIX[k] \in Nat \ {0}
      BY <1>0, <2>3, <2>4, TermBounds, WeightStep, LargestIs
    <3>2. cin \in Int
      <4>1. st.top \in Int /\ FOLD \in Nat
        BY <2>3, CarryBounds, WeightStep
      <4>2. k # 1 => st.cy[k - 1] \in Int
        BY <2>3, <2>4
      <4>3. FOLD * st.top \in Int
        BY <4>1
      <4>. QED BY <4>2, <4>3 DEF CarryIn
    <3>. DEFINE r == LIMB_RADIX[k] * out  y == t + cin - r
    <3>3. x = y % NATIVE
      BY DEF LimbOut
    <3>4. r \in Int
      BY <2>5, <3>1
    <3>. HIDE DEF r, t, cin
    <3>5. y \in Int
      BY <3>1, <3>2, <3>4
    <3>. HIDE DEF y
    <3>6. y % NATIVE \in 0 .. NATIVE - 1
      BY <3>1, <3>5, DivRule
    <3>. DEFINE z == y % NATIVE
    <3>7. z \in 0 .. NATIVE - 1 /\ z < LIMB_RADIX[k]
      BY <2>1, <3>3, <3>6
    <3>. HIDE DEF z
    <3>8. z \in 0 .. LIMB_RADIX[k] - 1
      BY <3>1, <3>7
    <3>. QED BY <3>3, <3>8, Zenon DEF z
  <2>7. LimbsHold(st.op, st.a, st.b, Append(st.c, x), Append(st.cy, out), st.top, k)
    <3>1. x = LimbOut(Term(st.op, st.a, st.b, Len(st.c) + 1),
                      CarryIn(Len(st.c) + 1, IF Len(st.c) + 1 = 1 THEN 0 ELSE st.cy[Len(st.c)], st.top),
                      out, Len(st.c) + 1)
      BY <2>4
    <3>2. x \in 0 .. LIMB_RADIX[Len(st.c) + 1] - 1
      BY <2>6
    <3>. HIDE DEF x
    <3>3. LimbsHold(st.op, st.a, st.b, Append(st.c, x), Append(st.cy, out), st.top, Len(st.c) + 1)
      BY <2>3, <2>5, <3>1, <3>2, ChainLimbHolds, Zenon
    <3>. QED BY <3>3
  <2>8. st' = [st EXCEPT !.c = Append(@, x), !.cy = Append(@, out),
                         !.phase = IF k = NUM_LIMBS THEN "accepted" ELSE @]
    BY <2>1
  <2>9. /\ st'.phase = (IF k = NUM_LIMBS THEN "accepted" ELSE "limbs") /\ st'.op = st.op /\ st'.a = st.a
        /\ st'.b = st.b /\ st'.top = st.top /\ st'.c = Append(st.c, x) /\ st'.cy = Append(st.cy, out)
        /\ DOMAIN st' = DOMAIN st
    <3>1. {"phase", "op", "a", "b", "top", "c", "cy"} \subseteq DOMAIN st
      BY <2>2 DEF Chain
    <3>. HIDE DEF x, k
    <3>. QED BY <2>2, <2>8, <3>1
  <2>10. CASE k = NUM_LIMBS
    <3>. DEFINE c == Append(st.c, x)  cy == Append(st.cy, out)
    <3>1. cy[NUM_LIMBS] = st.top
      BY <2>3, <2>4, <2>5, <2>10
    <3>2. LimbsHold(st.op, st.a, st.b, c, cy, cy[NUM_LIMBS], NUM_LIMBS)
      BY <2>7, <2>10, <3>1, Zenon
    <3>3. st'.c = c
      BY <2>9
    <3>. HIDE DEF c, cy
    <3>4. Val(c) % P = Reference(st.op, Val(st.a), Val(st.b))
      BY <1>0, <2>3, <3>2, ChainSound
    <3>5. st.op # "freeze" /\ st.op # "select"
      BY <2>3 DEF Chained
    <3>6. Accepted(st')
      BY <2>9, <3>3, <3>4, <3>5 DEF Accepted
    <3>. HIDE DEF k, x
    <3>7. st'.phase = "accepted" /\ unit' = "field" /\ Tight(st'.a) /\ Tight(st'.b)
      BY <1>0, <2>1, <2>9, <2>10
    <3>. QED BY <3>6, <3>7 DEF FieldInd
  <2>11. CASE k # NUM_LIMBS
    <3>1. k < NUM_LIMBS
      BY <2>4, <2>11, Widths DEF Limb
    <3>. DEFINE c == Append(st.c, x)  cy == Append(st.cy, out)
    <3>2. c \in Seq(Int) /\ cy \in Seq(Int) /\ Len(c) = k /\ Len(cy) = k
      <4>1. x \in Int
        BY <2>4, <2>6, WeightStep
      <4>. HIDE DEF x
      <4>. QED BY <2>3, <2>5, <4>1
    <3>3. LimbsHold(st.op, st.a, st.b, c, cy, st.top, Len(c))
      BY <2>7, <3>2, Zenon
    <3>4. st'.c = c /\ st'.cy = cy
      BY <2>9
    <3>. HIDE DEF c, cy, k, x
    <3>5. Chain(st')
      BY <2>2, <2>3, <2>9, <3>1, <3>2, <3>3, <3>4 DEF Chain
    <3>6. st'.phase = "limbs"
      BY <2>9, <2>11
    <3>. QED BY <1>0, <2>1, <2>9, <3>5, <3>6 DEF FieldInd
  <2>. QED BY <2>10, <2>11
<1>4. CASE FreezeWitness
  <2>1. PICK s \in {0, 1}, borrow \in [1 .. NUM_LIMBS - 1 -> {0, 1}], carry \in [1 .. NUM_LIMBS - 1 -> {0, 1}] :
          \E c, g : /\ eval_freeze_gadget([a |-> st.a, c |-> c, s |-> s, borrow |-> borrow,
                                           carry |-> carry, g |-> g])
                    /\ unit' = "field"
                    /\ st' = [phase |-> "accepted", op |-> "freeze", a |-> st.a, b |-> st.b, c |-> c]
    BY <1>4 DEF FreezeWitness
  <2>2. PICK c, g : /\ eval_freeze_gadget([a |-> st.a, c |-> c, s |-> s, borrow |-> borrow,
                                           carry |-> carry, g |-> g])
                    /\ unit' = "field"
                    /\ st' = [phase |-> "accepted", op |-> "freeze", a |-> st.a, b |-> st.b, c |-> c]
    BY <2>1
  <2>. DEFINE w == [a |-> st.a, c |-> c, s |-> s, borrow |-> borrow, carry |-> carry, g |-> g]
  <2>3. w.a = st.a /\ w.c = c /\ eval_freeze_gadget(w)
    BY <2>2
  <2>. HIDE DEF w
  <2>4. Val(c) = Val(st.a) % P
    BY <1>0, <2>3, FreezeSound
  <2>5. st'.phase = "accepted" /\ st'.op = "freeze" /\ st'.a = st.a /\ st'.b = st.b /\ st'.c = c
    BY <2>2
  <2>6. Accepted(st')
    BY <2>4, <2>5 DEF Accepted, Reference
  <2>. QED BY <1>0, <2>2, <2>5, <2>6 DEF FieldInd
<1>5. CASE SelectWitness
  <2>. DEFINE C(bit) == [k \in Limb |-> (st.a[k] + bit * (st.b[k] - st.a[k])) % NATIVE]
  <2>1. PICK bit \in {0, 1} :
          st' = [phase |-> "accepted", op |-> "select", a |-> st.a, b |-> st.b, bit |-> bit, c |-> C(bit)]
    BY <1>5 DEF SelectWitness
  <2>2. unit' = "field"
    BY <1>5 DEF SelectWitness
  <2>3. st.a = [k \in Limb |-> st.a[k]] /\ st.b = [k \in Limb |-> st.b[k]]
    BY DEF FieldInd, Tight
  <2>4. C(bit) = IF bit = 1 THEN st.b ELSE st.a
    <3>1. \A k \in Limb : (st.a[k] + bit * (st.b[k] - st.a[k])) % NATIVE = IF bit = 1 THEN st.b[k] ELSE st.a[k]
      BY <1>0, SelectSound
    <3>2. C(bit) = [k \in Limb |-> IF bit = 1 THEN st.b[k] ELSE st.a[k]]
      BY <3>1
    <3>. HIDE DEF C
    <3>3. CASE bit = 1
      <4>1. C(bit) = [k \in Limb |-> st.b[k]]
        BY <3>2, <3>3
      <4>. QED BY <2>3, <3>3, <4>1
    <3>4. CASE bit # 1
      <4>1. C(bit) = [k \in Limb |-> st.a[k]]
        BY <3>2, <3>4
      <4>. QED BY <2>3, <3>4, <4>1
    <3>. QED BY <3>3, <3>4
  <2>. HIDE DEF C
  <2>5. /\ st'.phase = "accepted" /\ st'.op = "select" /\ st'.a = st.a /\ st'.b = st.b /\ st'.bit = bit
        /\ st'.c = C(bit)
    BY <2>1
  <2>6. Accepted(st')
    BY <2>4, <2>5 DEF Accepted
  <2>. QED BY <1>0, <2>2, <2>5, <2>6 DEF FieldInd
<1>6. CASE UNCHANGED unitVars
  BY <1>6 DEF FieldInd, unitVars
<1>. QED
  BY <1>1, <1>2, <1>3, <1>4, <1>5, <1>6 DEF FieldNext

\* No prover passes the gadgets of ed25519_field_air.rs with a wrong result:
\* whatever cells the constraints of eval_add_gadget, eval_sub_gadget,
\* eval_mul_gadget, eval_freeze_gadget and eval_select_gadget accept, the
\* output limbs stand for the sum, the difference, the product, the canonical
\* representative or the selected input modulo p, for every p = 2^T - FOLD,
\* every alternation of limb widths and every native field large enough.
THEOREM Sound == FieldSpec => []FieldSound
<1>1. FieldInd => FieldSound
  BY DEF FieldInd, Accepted, FieldSound
<1>. QED
  BY <1>1, FieldInitInd, FieldStepInd, PTL DEF FieldSpec

----------------------------------------------------------------------------
(* Numbers as limbs. *)

\* Each limb weighs BASE times the one below it.
LEMMA Bases ==
    /\ BASE \in Nat /\ BASE >= 2
    /\ BaseTo(0) = 1
    /\ \A i \in Nat : BaseTo(i) \in Nat \ {0} /\ BaseTo(i + 1) = BASE * BaseTo(i)
    /\ \A i, j \in Nat : BaseTo(i + j) = BaseTo(i) * BaseTo(j)
<1>. DEFINE b == LIMB_BITS
<1>1. b \in Nat \ {0}
  BY ScalarAssumption
<1>. HIDE DEF b
<1>2. BASE \in Nat /\ BASE >= 2
  <2>1. pow2(b) \in Nat /\ b < pow2(b)
    BY <1>1, PowPositive
  <2>. QED BY <1>1, <2>1 DEF BASE, b
<1>3. BaseTo(0) = 1
  <2>1. b * 0 = 0
    BY <1>1
  <2>2. pow2(0) = 1
    BY PowStep
  <2>. QED BY <2>1, <2>2 DEF BaseTo, b
<1>4. \A i, j \in Nat : BaseTo(i + j) = BaseTo(i) * BaseTo(j)
  <2>. SUFFICES ASSUME NEW i \in Nat, NEW j \in Nat PROVE BaseTo(i + j) = BaseTo(i) * BaseTo(j)
    OBVIOUS
  <2>1. b * (i + j) = b * i + b * j /\ b * i \in Nat /\ b * j \in Nat
    BY <1>1
  <2>2. pow2(b * i + b * j) = pow2(b * i) * pow2(b * j)
    BY <2>1, PowSplit
  <2>. QED BY <2>1, <2>2 DEF BaseTo, b
<1>5. ASSUME NEW i \in Nat PROVE BaseTo(i) \in Nat \ {0} /\ BaseTo(i + 1) = BASE * BaseTo(i)
  <2>1. b * i \in Nat
    BY <1>1
  <2>2. BaseTo(i) \in Nat \ {0}
    BY <2>1, PowPositive DEF BaseTo, b
  <2>3. BaseTo(i + 1) = BaseTo(i) * BaseTo(1)
    BY <1>4
  <2>4. BaseTo(1) = BASE
    <3>1. b * 1 = b
      BY <1>1
    <3>. QED BY <3>1 DEF BaseTo, BASE, b
  <2>5. BaseTo(i) * BASE = BASE * BaseTo(i)
    BY <1>2, <2>2
  <2>. QED BY <2>2, <2>3, <2>4, <2>5
<1>. QED
  BY <1>2, <1>3, <1>4, <1>5

\* A limb holds at least a bit.
LEMMA BaseIs == BASE \in Nat \ {0} /\ BASE >= 2 /\ BaseTo(0) = 1
  BY Bases

\* Weights are positive.
LEMMA BasePositive == ASSUME NEW i \in Nat PROVE BaseTo(i) \in Nat \ {0}
  BY Bases

\* The weight of the next limb.
LEMMA BaseStep == ASSUME NEW i \in Nat PROVE BaseTo(i + 1) = BASE * BaseTo(i)
  BY Bases, Zenon

\* More limbs reach further.
LEMMA BasesRise ==
    ASSUME NEW i \in Nat, NEW j \in Nat, i <= j
    PROVE  BaseTo(i) <= BaseTo(j)
<1>1. j - i \in Nat /\ i + (j - i) = j
  OBVIOUS
<1>2. BaseTo(j) = BaseTo(i) * BaseTo(j - i) /\ BaseTo(i) \in Nat \ {0} /\ BaseTo(j - i) \in Nat \ {0}
  BY <1>1, Bases
<1>. DEFINE a == BaseTo(i)  d == BaseTo(j - i)
<1>. HIDE DEF a, d
<1>3. a \in Nat \ {0} /\ d \in Nat \ {0} /\ BaseTo(j) = a * d
  BY <1>2 DEF a, d
<1>4. a * (d - 1) >= 0 /\ a * (d - 1) = a * d - a
  BY <1>3
<1>. QED
  BY <1>3, <1>4 DEF a

\* The value of the first n limbs.
Weighted(l, n) == [i \in 1..n |-> l[i] * BaseTo(i - 1)]
Value(l, n) == SumTo(Weighted(l, n), n)

IntLimbs(l, n) == \A i \in 1..n : l[i] \in Int

\* The terms of the value of integer limbs.
LEMMA WeightedInt ==
    ASSUME NEW n \in Nat, NEW l, IntLimbs(l, n)
    PROVE  \A i \in 1..n : /\ Weighted(l, n)[i] = l[i] * BaseTo(i - 1)
                           /\ Weighted(l, n)[i] \in Int /\ BaseTo(i - 1) \in Nat \ {0} /\ l[i] \in Int
<1>. SUFFICES ASSUME NEW i \in 1..n
              PROVE  l[i] * BaseTo(i - 1) \in Int /\ BaseTo(i - 1) \in Nat \ {0} /\ l[i] \in Int
  BY DEF Weighted
<1>1. i - 1 \in Nat
  OBVIOUS
<1>2. BaseTo(i - 1) \in Nat \ {0}
  BY <1>1, Bases
<1>3. l[i] \in Int
  BY DEF IntLimbs
<1>. QED
  BY <1>2, <1>3

\* The value of one limb more.
LEMMA ValueStep ==
    ASSUME NEW n \in Nat, NEW l, IntLimbs(l, n)
    PROVE  /\ Value(l, 0) = 0
           /\ \A m \in 0..n : Value(l, m) \in Int
           /\ \A m \in 0 .. n - 1 : Value(l, m + 1) = Value(l, m) + l[m + 1] * BaseTo(m)
<1>. DEFINE f == Weighted(l, n)
<1>1. \A m \in 0..n : Value(l, m) = SumTo(f, m)
  <2>. SUFFICES ASSUME NEW m \in 0..n PROVE SumTo(Weighted(l, m), m) = SumTo(f, m)
    BY DEF Value
  <2>. DEFINE h == Weighted(l, m)
  <2>1. \A k \in 1..m : h[k] = f[k]
    BY DEF Weighted
  <2>. HIDE DEF f, h
  <2>2. SumTo(h, m) = SumTo(f, m)
    BY <2>1, SumAgree
  <2>. QED BY <2>2 DEF h
<1>2. \A k \in 1..n : f[k] = l[k] * BaseTo(k - 1) /\ f[k] \in Int
  BY WeightedInt
<1>. HIDE DEF f
<1>3. \A m \in 0..n : SumTo(f, m) \in Int
  BY <1>2, SumInt
<1>4. Value(l, 0) = 0
  BY <1>1, SumStep
<1>5. ASSUME NEW m \in 0 .. n - 1 PROVE Value(l, m + 1) = Value(l, m) + l[m + 1] * BaseTo(m)
  <2>1. SumTo(f, m + 1) = SumTo(f, m) + f[m + 1]
    BY SumStep
  <2>2. m + 1 \in 1..n /\ (m + 1) - 1 = m /\ m \in 0..n /\ m + 1 \in 0..n
    OBVIOUS
  <2>. QED BY <1>1, <1>2, <2>1, <2>2
<1>. QED
  BY <1>1, <1>3, <1>4, <1>5

\* The value depends on the limbs alone.
LEMMA ValueAgree ==
    ASSUME NEW n \in Nat, NEW l, NEW m, \A i \in 1..n : l[i] = m[i]
    PROVE  Value(l, n) = Value(m, n)
<1>1. \A i \in 1..n : Weighted(l, n)[i] = Weighted(m, n)[i]
  BY DEF Weighted
<1>. QED
  BY <1>1, SumAgree DEF Value

Combined(d, l, c, m, n) == \A i \in 1..n : d[i] = l[i] + c * m[i]

\* The value is linear in the limbs.
LEMMA ValueLinear ==
    ASSUME NEW n \in Nat, NEW c \in Int, NEW l, NEW m, NEW d, IntLimbs(l, n), IntLimbs(m, n),
           Combined(d, l, c, m, n)
    PROVE  Value(d, n) = Value(l, n) + c * Value(m, n) /\ Value(l, n) \in Int /\ Value(m, n) \in Int
<1>. DEFINE f == Weighted(l, n)
            g == Weighted(m, n)
            h == Weighted(d, n)
<1>. USE DEF Combined
<1>1. \A i \in 1..n : f[i] \in Int /\ g[i] \in Int /\ h[i] = f[i] + c * g[i]
  <2>. SUFFICES ASSUME NEW i \in 1..n PROVE f[i] \in Int /\ g[i] \in Int /\ h[i] = f[i] + c * g[i]
    OBVIOUS
  <2>. DEFINE w == BaseTo(i - 1)  x == l[i]  y == m[i]
  <2>1. f[i] = x * w /\ g[i] = y * w /\ x \in Int /\ y \in Int /\ w \in Int
    BY WeightedInt
  <2>2. h[i] = (x + c * y) * w
    BY DEF Weighted
  <2>. HIDE DEF f, g, h, w, x, y
  <2>3. (x + c * y) * w = x * w + c * (y * w)
    BY <2>1
  <2>. QED BY <2>1, <2>2, <2>3
<1>2. n \in 0..n
  OBVIOUS
<1>3. SumTo(f, n) \in Int /\ SumTo(g, n) \in Int
  <2>. HIDE DEF f, g, h
  <2>. QED BY <1>1, <1>2, SumInt
<1>4. SumTo(h, n) = SumTo(f, n) + c * SumTo(g, n)
  <2>. HIDE DEF f, g, h
  <2>. QED BY <1>1, SumLinear
<1>. QED
  BY <1>3, <1>4 DEF Value

\* Limbs in range stand for less than the weight above them.
LEMMA ValueBounds ==
    ASSUME NEW n \in Nat, NEW l, \A i \in 1..n : l[i] \in 0 .. BASE - 1
    PROVE  Value(l, n) \in 0 .. BaseTo(n) - 1
<1>. DEFINE S == {m \in Nat : m <= n => Value(l, m) \in 0 .. BaseTo(m) - 1}
<1>0. /\ Value(l, 0) = 0 /\ BaseTo(0) = 1
      /\ \A m \in 0 .. n - 1 : Value(l, m + 1) = Value(l, m) + l[m + 1] * BaseTo(m)
  <2>1. IntLimbs(l, n)
    BY BaseIs DEF IntLimbs
  <2>. QED BY <2>1, ValueStep, Bases
<1>1. 0 \in S
  BY <1>0
<1>2. ASSUME NEW m \in Nat, m \in S PROVE m + 1 \in S
  <2>. SUFFICES ASSUME m + 1 <= n PROVE Value(l, m + 1) \in 0 .. BaseTo(m + 1) - 1
    OBVIOUS
  <2>. DEFINE v == Value(l, m)  x == l[m + 1]  w == BaseTo(m)  b == BASE
  <2>1. v \in 0 .. w - 1 /\ x \in 0 .. b - 1 /\ w \in Nat \ {0} /\ b \in Nat /\ BaseTo(m + 1) = b * w
    BY <1>2, Bases
  <2>2. Value(l, m + 1) = v + x * w
    BY <1>0
  <2>. HIDE DEF v, x, w, b
  <2>3. x * w \in Nat /\ (b - 1 - x) * w \in Nat /\ (b - 1 - x) * w = b * w - w - x * w /\ b * w \in Nat
    BY <2>1
  <2>. QED BY <2>1, <2>2, <2>3
<1>3. Nat \subseteq S
  <2>. HIDE DEF S
  <2>. QED BY <1>1, <1>2, Induct
<1>. QED
  BY <1>3

\* The limbs of v stand for v, as far as they reach.
LEMMA LimbsValue ==
    ASSUME NEW v \in Nat, NEW n \in Nat
    PROVE  /\ LimbChecked(LimbsOf(v, n), n)
           /\ Value(LimbsOf(v, n), n) = v % BaseTo(n)
<1>. DEFINE l == LimbsOf(v, n)
            S == {m \in Nat : m <= n => Value(l, m) = v % BaseTo(m)}
<1>1. \A i \in 1..n : l[i] = (v \div BaseTo(i - 1)) % BASE /\ l[i] \in 0 .. BASE - 1
  <2>. SUFFICES ASSUME NEW i \in 1..n PROVE (v \div BaseTo(i - 1)) % BASE \in 0 .. BASE - 1
    BY DEF LimbsOf
  <2>1. i - 1 \in Nat
    OBVIOUS
  <2>2. BaseTo(i - 1) \in Nat \ {0} /\ BASE \in Nat \ {0}
    BY <2>1, BasePositive, BaseIs
  <2>3. v \div BaseTo(i - 1) \in Int
    BY <2>2, DivRule
  <2>. QED BY <2>2, <2>3, DivRule
<1>2. LimbChecked(l, n)
  BY <1>1 DEF LimbChecked, LimbsOf
<1>3. /\ Value(l, 0) = 0
      /\ \A m \in 0 .. n - 1 : Value(l, m + 1) = Value(l, m) + l[m + 1] * BaseTo(m)
  <2>1. IntLimbs(l, n)
    BY <1>1, BaseIs DEF IntLimbs
  <2>. QED BY <2>1, ValueStep
<1>. HIDE DEF l
<1>4. 0 \in S
  <2>1. BaseTo(0) = 1 /\ v % 1 = 0
    BY Bases
  <2>. QED BY <1>3, <2>1
<1>5. ASSUME NEW m \in Nat, m \in S PROVE m + 1 \in S
  <2>. SUFFICES ASSUME m + 1 <= n PROVE Value(l, m + 1) = v % BaseTo(m + 1)
    OBVIOUS
  <2>. DEFINE w == BaseTo(m)
              b == BASE
              q == v \div w
              r == v % w
              h == q \div b
              d == q % b
  <2>1. w \in Nat \ {0} /\ b \in Nat \ {0} /\ BaseTo(m + 1) = b * w
    BY BaseIs, BasePositive, BaseStep, Zenon
  <2>2. q \in Int /\ r \in 0 .. w - 1 /\ v = w * q + r
    <3>1. v \in Int
      OBVIOUS
    <3>. HIDE DEF w, b
    <3>. QED BY <2>1, <3>1, DivRule, Zenon
  <2>3. h \in Int /\ d \in 0 .. b - 1 /\ q = b * h + d
    <3>. HIDE DEF q, b
    <3>. QED BY <2>1, <2>2, DivRule, Zenon
  <2>4. Value(l, m + 1) = r + d * w
    <3>1. m + 1 \in 1..n /\ (m + 1) - 1 = m /\ m \in 0 .. n - 1
      OBVIOUS
    <3>2. l[m + 1] = d
      BY <1>1, <3>1
    <3>3. Value(l, m) = r
      BY <1>5
    <3>. QED BY <1>3, <3>1, <3>2, <3>3
  <2>. HIDE DEF w, b, q, r, h, d
  <2>. DEFINE p == b * w
              s == r + d * w
  <2>5. p \in Nat \ {0} /\ s \in 0 .. p - 1 /\ v = p * h + s
    <3>1. d * w \in Nat /\ (b - 1 - d) * w \in Nat /\ (b - 1 - d) * w = b * w - w - d * w /\ b * w \in Nat
      BY <2>1, <2>3
    <3>2. w * (b * h + d) = (b * w) * h + d * w
      BY <2>1, <2>3
    <3>3. b * w # 0
      BY <2>1
    <3>. QED BY <2>1, <2>2, <2>3, <3>1, <3>2, <3>3
  <2>6. v % p = s
    <3>. HIDE DEF p, s
    <3>1. v \in Int
      OBVIOUS
    <3>. QED BY <2>3, <2>5, <3>1, Quotient
  <2>. QED BY <2>1, <2>4, <2>6
<1>6. Nat \subseteq S
  <2>. HIDE DEF S
  <2>. QED BY <1>4, <1>5, Induct
<1>. QED
  BY <1>2, <1>6 DEF l

\* What is above the first m limbs is a multiple of the weight of the next one.
LEMMA ValueTail ==
    ASSUME NEW n \in Nat, NEW l, IntLimbs(l, n), NEW m \in 0..n
    PROVE  \E t \in Int : Value(l, n) = Value(l, m) + BaseTo(m) * t
<1>. DEFINE w == BaseTo(m)
            S == {j \in Nat : m + j <= n => \E t \in Int : Value(l, m + j) = Value(l, m) + w * t}
<1>0. /\ \A i \in 0..n : Value(l, i) \in Int
      /\ \A i \in 0 .. n - 1 : Value(l, i + 1) = Value(l, i) + l[i + 1] * BaseTo(i)
  BY ValueStep
<1>w. w \in Nat \ {0}
  <2>1. m \in Nat
    OBVIOUS
  <2>. QED BY <2>1, BasePositive, Zenon
<1>1. 0 \in S
  <2>1. m + 0 = m /\ Value(l, m) \in Int /\ w * 0 = 0
    BY <1>0, <1>w
  <2>2. Value(l, m + 0) = Value(l, m) + w * 0
    BY <2>1
  <2>. QED BY <2>2
<1>2. ASSUME NEW j \in Nat, j \in S PROVE j + 1 \in S
  <2>. SUFFICES ASSUME m + (j + 1) <= n
                PROVE  \E t \in Int : Value(l, m + (j + 1)) = Value(l, m) + w * t
    OBVIOUS
  <2>0. m + (j + 1) = (m + j) + 1 /\ m + j \in 0 .. n - 1 /\ m + j \in Nat /\ (m + j) + 1 \in 1..n
    OBVIOUS
  <2>1. PICK t \in Int : Value(l, m + j) = Value(l, m) + w * t
    BY <1>2
  <2>. DEFINE x == l[(m + j) + 1]
              u == BaseTo(j)
              v == Value(l, m)
  <2>2. x \in Int /\ u \in Nat /\ BaseTo(m + j) = w * u /\ v \in Int
    <3>1. u \in Nat
      BY BasePositive
    <3>2. BaseTo(m + j) = w * u
      <4>1. m \in Nat
        OBVIOUS
      <4>. QED BY <4>1, Bases, Zenon
    <3>3. v \in Int
      BY <1>0
    <3>4. x \in Int
      BY <2>0 DEF IntLimbs
    <3>. QED BY <3>1, <3>2, <3>3, <3>4
  <2>3. Value(l, m + (j + 1)) = (v + w * t) + x * (w * u)
    BY <1>0, <2>0, <2>1, <2>2
  <2>. HIDE DEF x, u, w, v
  <2>4. (v + w * t) + x * (w * u) = v + w * (t + x * u) /\ t + x * u \in Int
    BY <1>w, <2>2
  <2>. QED BY <2>3, <2>4 DEF v
<1>3. Nat \subseteq S
  <2>. HIDE DEF S
  <2>. QED BY <1>1, <1>2, Induct
<1>4. n - m \in S /\ m + (n - m) = n
  BY <1>3
<1>. QED
  BY <1>4

\* Zeros above the limbs change nothing.
LEMMA ValuePadded ==
    ASSUME NEW n \in Nat, NEW m \in 0..n, NEW l, DOMAIN l = 1..m, IntLimbs(l, m),
           NEW d, \A k \in 1..n : d[k] = At(l, k)
    PROVE  Value(d, n) = Value(l, m) /\ IntLimbs(d, n)
<1>. DEFINE f == Weighted(l, m)
            g == Weighted(d, n)
<1>1. ASSUME NEW k \in 1..n
      PROVE  d[k] \in Int /\ g[k] = IF k - 0 \in 1..m THEN f[k - 0] ELSE 0
  <2>0. k - 0 = k /\ g[k] = d[k] * BaseTo(k - 1) /\ k - 1 \in Nat
    BY DEF Weighted
  <2>1. CASE k \in 1..m
    <3>1. d[k] = l[k] /\ l[k] \in Int
      BY <2>1 DEF At, IntLimbs
    <3>2. f[k] = l[k] * BaseTo(k - 1)
      BY <2>1 DEF Weighted
    <3>. QED BY <2>0, <2>1, <3>1, <3>2
  <2>2. CASE k \notin 1..m
    <3>1. d[k] = 0
      BY <2>2 DEF At
    <3>2. BaseTo(k - 1) \in Nat
      BY <2>0, Bases
    <3>. QED BY <2>0, <2>2, <3>1, <3>2
  <2>. QED BY <2>1, <2>2
<1>2. \A i \in 1..m : f[i] \in Int
  BY WeightedInt
<1>. HIDE DEF f, g
<1>3. SumTo(g, n) = SumTo(f, m)
  <2>1. m + 0 <= n /\ 0 \in Nat /\ m \in Nat
    OBVIOUS
  <2>2. ShiftedBy(0, g, n, f, m)
    BY <1>1, Zenon DEF ShiftedBy
  <2>. QED BY <1>2, <2>1, <2>2, SumShifts
<1>. QED
  BY <1>1, <1>3 DEF Value, IntLimbs, f, g

----------------------------------------------------------------------------
(* Chains of carries. *)

\* c[k] is what the first k limbs of d carry into the next one.
CarriedBy(d, c, n) ==
    /\ c[0] = 0 /\ \A k \in 0..n : c[k] \in Int
    /\ \A k \in 1..n : d[k] + c[k - 1] = BASE * c[k]

\* What the limbs stand for is what is carried out of them.
LEMMA ChainSums ==
    ASSUME NEW n \in Nat, NEW d, IntLimbs(d, n), NEW c, CarriedBy(d, c, n)
    PROVE  \A m \in 0..n : Value(d, m) = BaseTo(m) * c[m]
<1>. DEFINE S == {m \in Nat : m <= n => Value(d, m) = BaseTo(m) * c[m]}
<1>0. /\ Value(d, 0) = 0
      /\ \A m \in 0 .. n - 1 : Value(d, m + 1) = Value(d, m) + d[m + 1] * BaseTo(m)
  BY ValueStep
<1>1. 0 \in S
  <2>1. BaseTo(0) = 1 /\ c[0] = 0
    BY BaseIs DEF CarriedBy
  <2>. QED BY <1>0, <2>1
<1>2. ASSUME NEW m \in Nat, m \in S PROVE m + 1 \in S
  <2>. SUFFICES ASSUME m + 1 <= n PROVE Value(d, m + 1) = BaseTo(m + 1) * c[m + 1]
    OBVIOUS
  <2>. DEFINE w == BaseTo(m)  b == BASE  x == d[m + 1]  y == c[m]  z == c[m + 1]
  <2>0. m \in 0..n /\ m + 1 \in 0..n /\ m + 1 \in 1..n /\ (m + 1) - 1 = m /\ m \in 0 .. n - 1
    OBVIOUS
  <2>1. w \in Nat /\ b \in Nat /\ BaseTo(m + 1) = b * w
    BY BasePositive, BaseIs, BaseStep
  <2>2. x \in Int /\ y \in Int /\ z \in Int /\ x + y = b * z
    BY <2>0 DEF IntLimbs, CarriedBy
  <2>3. Value(d, m + 1) = w * y + x * w
    BY <1>0, <1>2, <2>0
  <2>. HIDE DEF w, b, x, y, z
  <2>4. w * y + x * w = w * (x + y) /\ w * (b * z) = (b * w) * z
    BY <2>1, <2>2
  <2>5. Value(d, m + 1) = (b * w) * z
    BY <2>2, <2>3, <2>4
  <2>. QED BY <2>1, <2>5 DEF z
<1>3. Nat \subseteq S
  <2>. HIDE DEF S
  <2>. QED BY <1>1, <1>2, Induct
<1>. QED
  BY <1>3

\* Carries by division are exact when the limbs stand for zero.
LEMMA CarriesExact ==
    ASSUME NEW n \in Nat, NEW d, IntLimbs(d, n), Value(d, n) = 0, NEW c, c[0] = 0,
           \A k \in 1..n : c[k] = (d[k] + c[k - 1]) \div BASE
    PROVE  CarriedBy(d, c, n)
<1>. DEFINE Exact(m) == c[m] \in Int /\ (m > 0 => d[m] + c[m - 1] = BASE * c[m])
            S == {m \in Nat : m <= n => Value(d, m) = BaseTo(m) * c[m] /\ Exact(m)}
<1>0. /\ Value(d, 0) = 0 /\ \A m \in 0..n : Value(d, m) \in Int
      /\ \A m \in 0 .. n - 1 : Value(d, m + 1) = Value(d, m) + d[m + 1] * BaseTo(m)
  BY ValueStep
<1>1. 0 \in S
  <2>1. BaseTo(0) = 1 /\ 1 * 0 = 0
    BY BaseIs
  <2>. QED BY <1>0, <2>1
<1>2. ASSUME NEW m \in Nat, m \in S PROVE m + 1 \in S
  <2>. SUFFICES ASSUME m + 1 <= n
                PROVE  /\ Value(d, m + 1) = BaseTo(m + 1) * c[m + 1]
                       /\ c[m + 1] \in Int /\ d[m + 1] + c[m] = BASE * c[m + 1]
    <3>1. (m + 1) - 1 = m
      OBVIOUS
    <3>. QED BY <3>1
  <2>. DEFINE w == BaseTo(m)  b == BASE  x == d[m + 1]  y == c[m]  z == c[m + 1]
              v == Value(d, m + 1)
  <2>0. m \in 0..n /\ m + 1 \in 0..n /\ m + 1 \in 1..n /\ (m + 1) - 1 = m /\ m \in 0 .. n - 1
    OBVIOUS
  <2>1. w \in Nat \ {0} /\ b \in Nat \ {0} /\ BaseTo(m + 1) = b * w
    BY BasePositive, BaseIs, BaseStep, Zenon
  <2>2. x \in Int /\ y \in Int /\ z = (x + y) \div b
    <3>1. x \in Int
      BY <2>0 DEF IntLimbs
    <3>2. y \in Int
      BY <1>2
    <3>3. z = (x + y) \div b
      BY <2>0
    <3>. QED BY <3>1, <3>2, <3>3
  <2>3. v = w * y + x * w
    BY <1>0, <1>2, <2>0
  <2>4. PICK t \in Int : Value(d, n) = v + BaseTo(m + 1) * t
    BY <2>0, ValueTail
  <2>5. v \in Int /\ v + (b * w) * t = 0
    <3>1. v \in Int
      BY <1>0, <2>0
    <3>. HIDE DEF w, b, v
    <3>. QED BY <2>1, <2>4, <3>1
  <2>. HIDE DEF w, b, x, y, z, v
  <2>6. w * ((x + y) + b * t) = 0 /\ (x + y) + b * t \in Int
    <3>1. w * ((x + y) + b * t) = (w * y + x * w) + (b * w) * t
      BY <2>1, <2>2
    <3>. QED BY <2>1, <2>2, <2>3, <2>5, <3>1
  <2>7. (x + y) + b * t = 0
    BY <2>1, <2>6, FactorZero
  <2>. DEFINE e == x + y
              u == 0 - t
  <2>8. e = b * u + 0 /\ e \in Int /\ u \in Int /\ 0 \in 0 .. b - 1
    <3>1. b * (0 - t) = 0 - b * t
      BY <2>1
    <3>2. b * t \in Int
      BY <2>1
    <3>. QED BY <2>1, <2>2, <2>7, <3>1, <3>2
  <2>9. z = u
    <3>. HIDE DEF e, u
    <3>1. e \div b = u
      BY <2>1, <2>8, Quotient
    <3>2. z = e \div b
      BY <2>2 DEF e
    <3>. QED BY <3>1, <3>2
  <2>10. x + y = b * z /\ z \in Int
    <3>. HIDE DEF u
    <3>1. b * u \in Int
      BY <2>1, <2>8
    <3>. QED BY <2>8, <2>9, <3>1
  <2>11. v = (b * w) * z
    <3>1. w * y + x * w = w * (x + y) /\ w * (b * z) = (b * w) * z
      BY <2>1, <2>2, <2>10
    <3>. QED BY <2>3, <2>10, <3>1
  <2>. QED BY <2>1, <2>10, <2>11 DEF v, z, x, y, b
<1>3. Nat \subseteq S
  <2>. HIDE DEF S
  <2>. QED BY <1>1, <1>2, Induct
<1>4. \A m \in 0..n : Exact(m)
  BY <1>3
<1>5. \A k \in 1..n : k \in 0..n /\ k > 0
  OBVIOUS
<1>. QED
  BY <1>4, <1>5 DEF CarriedBy

MostCarried == R_LIMBS * (BASE - 1) + 1

\* The carries of a product stay small.
LEMMA CarryRange ==
    ASSUME NEW n \in Nat, NEW d, NEW c, CarriedBy(d, c, n),
           \A k \in 1..n : /\ d[k] \in Int /\ d[k] <= BASE - 1
                           /\ 0 - (R_LIMBS * ((BASE - 1) * (BASE - 1)) + (BASE - 1)) <= d[k]
    PROVE  \A k \in 0..n : 0 - MostCarried <= c[k] /\ c[k] <= MostCarried
<1>. DEFINE a == BASE - 1
            b == BASE
            r == R_LIMBS
            m == r * a + 1
            S == {k \in Nat : k <= n => 0 - m <= c[k] /\ c[k] <= m}
<1>0. a \in Nat \ {0} /\ b = a + 1 /\ r \in Nat \ {0}
  BY BaseIs, ScalarAssumption
<1>m. m \in Nat \ {0} /\ (a + 1) * m = r * (a * a) + a + m
  <2>. HIDE DEF a, b, r
  <2>1. r * a \in Nat /\ (a + 1) * (r * a + 1) = r * (a * a) + a + (r * a + 1)
    BY <1>0
  <2>. QED BY <2>1
<1>1. 0 \in S
  <2>1. c[0] = 0
    BY DEF CarriedBy
  <2>. HIDE DEF m
  <2>. QED BY <1>m, <2>1
<1>2. ASSUME NEW k \in Nat, k \in S PROVE k + 1 \in S
  <2>. SUFFICES ASSUME k + 1 <= n PROVE 0 - m <= c[k + 1] /\ c[k + 1] <= m
    OBVIOUS
  <2>. DEFINE x == d[k + 1]  y == c[k]  z == c[k + 1]
  <2>0. k \in 0..n /\ k + 1 \in 0..n /\ k + 1 \in 1..n /\ (k + 1) - 1 = k
    OBVIOUS
  <2>1. x \in Int /\ x <= a /\ 0 - (r * (a * a) + a) <= x
    BY <2>0
  <2>2. y \in Int /\ z \in Int /\ x + y = b * z
    BY <2>0 DEF CarriedBy
  <2>3. 0 - m <= y /\ y <= m
    BY <1>2
  <2>. HIDE DEF a, b, r, m, x, y, z
  <2>4. r * (a * a) \in Nat /\ a * m \in Nat /\ a * (m - 1) >= 0 /\ a * (m - 1) = a * m - a /\ (a + 1) * m = a * m + m
    BY <1>0, <1>m
  <2>5. (a + 1) * (z + m) >= 0
    <3>1. (a + 1) * (z + m) = (a + 1) * z + (a + 1) * m
      BY <1>0, <1>m, <2>2
    <3>2. (a + 1) * z \in Int
      BY <1>0, <2>2
    <3>. QED BY <1>0, <1>m, <2>1, <2>2, <2>3, <2>4, <3>1, <3>2
  <2>6. (a + 1) * (m - z) >= 0
    <3>1. (a + 1) * (m - z) = (a + 1) * m - (a + 1) * z
      BY <1>0, <1>m, <2>2
    <3>2. (a + 1) * z \in Int
      BY <1>0, <2>2
    <3>. QED BY <1>0, <1>m, <2>1, <2>2, <2>3, <2>4, <3>1, <3>2
  <2>7. \A e \in Int : (a + 1) * e >= 0 => e >= 0
    <3>. SUFFICES ASSUME NEW e \in Int, (a + 1) * e >= 0, e <= -1 PROVE FALSE
      OBVIOUS
    <3>1. (a + 1) * (-1 - e) >= 0 /\ (a + 1) * (-1 - e) = 0 - (a + 1) - (a + 1) * e /\ (a + 1) * e \in Int
      BY <1>0
    <3>. QED BY <1>0, <3>1
  <2>8. z + m >= 0 /\ m - z >= 0
    <3>1. z + m \in Int /\ m - z \in Int
      BY <1>m, <2>2
    <3>. QED BY <2>5, <2>6, <2>7, <3>1
  <2>. QED BY <1>m, <2>2, <2>8 DEF z
<1>3. Nat \subseteq S
  <2>. HIDE DEF S
  <2>. QED BY <1>1, <1>2, Induct
<1>. QED
  BY <1>3 DEF MostCarried

----------------------------------------------------------------------------
(* The limbs of q * L. *)

\* How many limbs the numbers have.
LEMMA LimbCounts ==
    /\ R_LIMBS \in Nat \ {0} /\ Q_LIMBS = R_LIMBS + 1 /\ INPUT_LIMBS = R_LIMBS + R_LIMBS
    /\ PRODUCT_LIMBS = Q_LIMBS + R_LIMBS
    /\ Q_LIMBS \in Nat /\ INPUT_LIMBS \in Nat /\ PRODUCT_LIMBS \in Nat \ {0}
  BY ScalarAssumption DEF Q_LIMBS, INPUT_LIMBS, PRODUCT_LIMBS

\* The limbs of L stand for L.
LEMMA LimbsOfL ==
    /\ LimbChecked(L_LIMBS_16, R_LIMBS) /\ Value(L_LIMBS_16, R_LIMBS) = L
    /\ L \in Nat \ {0} /\ L < BaseTo(R_LIMBS) /\ BaseTo(R_LIMBS - 1) <= L
<1>1. R_LIMBS - 1 \in Nat /\ R_LIMBS \in Nat
  BY LimbCounts
<1>2. BaseTo(R_LIMBS - 1) \in Nat \ {0} /\ BaseTo(R_LIMBS) \in Nat \ {0}
  BY <1>1, BasePositive
<1>3. L \in BaseTo(R_LIMBS - 1) .. BaseTo(R_LIMBS) - 1
  BY ScalarAssumption
<1>4. L \in Nat \ {0} /\ L < BaseTo(R_LIMBS) /\ BaseTo(R_LIMBS - 1) <= L
  BY <1>2, <1>3
<1>5. L % BaseTo(R_LIMBS) = L
  <2>. DEFINE w == BaseTo(R_LIMBS)
  <2>1. w \in Nat \ {0} /\ L \in 0 .. w - 1 /\ L = w * 0 + L /\ L \in Int /\ 0 \in Int
    BY <1>2, <1>4
  <2>. HIDE DEF w
  <2>2. L % w = L
    BY <2>1, Quotient
  <2>. QED BY <2>2 DEF w
<1>. QED
  BY <1>1, <1>4, <1>5, LimbsValue DEF L_LIMBS_16

\* One limb of L times all of q.
LEMMA ColumnValue ==
    ASSUME NEW q, DOMAIN q = 1..Q_LIMBS, IntLimbs(q, Q_LIMBS), NEW j \in 1..R_LIMBS, NEW x \in Int,
           NEW g, \A k \in 1..PRODUCT_LIMBS : g[k] = (x * At(q, k - j + 1)) * BaseTo(k - 1)
    PROVE  SumTo(g, PRODUCT_LIMBS) = (x * BaseTo(j - 1)) * Value(q, Q_LIMBS)
<1>. DEFINE s == j - 1
            m == Q_LIMBS
            n == PRODUCT_LIMBS
            c == x * BaseTo(s)
            h == Weighted(q, m)
            f == [i \in 1..m |-> c * h[i]]
<1>0. s \in Nat /\ m \in Nat /\ n \in Nat /\ m + s <= n
  BY LimbCounts
<1>1. c \in Int
  <2>1. BaseTo(s) \in Nat
    BY <1>0, BasePositive
  <2>. QED BY <2>1
<1>2. \A i \in 1..m : h[i] \in Int /\ h[i] = q[i] * BaseTo(i - 1) /\ q[i] \in Int /\ BaseTo(i - 1) \in Nat
  BY <1>0, WeightedInt
<1>3. ASSUME NEW k \in 1..n PROVE g[k] = IF k - s \in 1..m THEN f[k - s] ELSE 0
  <2>1. k - j + 1 = k - s /\ k - 1 \in Nat
    OBVIOUS
  <2>2. g[k] = (x * At(q, k - s)) * BaseTo(k - 1)
    BY <2>1
  <2>3. CASE k - s \in 1..m
    <3>1. At(q, k - s) = q[k - s]
      BY <2>3 DEF At
    <3>2. (k - s) - 1 \in Nat /\ s + ((k - s) - 1) = k - 1
      BY <2>3
    <3>3. BaseTo(k - 1) = BaseTo(s) * BaseTo((k - s) - 1)
      <4>. DEFINE e == (k - s) - 1
      <4>1. e \in Nat /\ s + e = k - 1
        BY <3>2
      <4>. HIDE DEF e, s
      <4>2. BaseTo(s + e) = BaseTo(s) * BaseTo(e)
        BY <1>0, <4>1, Bases, Zenon
      <4>. QED BY <4>1, <4>2 DEF e
    <3>. DEFINE y == q[k - s]  u == BaseTo(s)  v == BaseTo((k - s) - 1)
    <3>4. y \in Int /\ u \in Nat /\ v \in Nat
      BY <1>0, <1>2, <2>3, BasePositive
    <3>5. f[k - s] = (x * u) * (y * v)
      BY <1>2, <2>3
    <3>6. g[k] = (x * y) * (u * v)
      BY <2>2, <3>1, <3>3
    <3>. HIDE DEF y, u, v, f
    <3>7. (x * y) * (u * v) = (x * u) * (y * v)
      BY <3>4
    <3>. QED BY <2>3, <3>5, <3>6, <3>7
  <2>4. CASE k - s \notin 1..m
    <3>1. At(q, k - s) = 0
      BY <2>4 DEF At
    <3>2. BaseTo(k - 1) \in Nat
      BY <2>1, BasePositive
    <3>3. g[k] = (x * 0) * BaseTo(k - 1)
      BY <2>2, <3>1
    <3>4. g[k] = 0
      BY <3>2, <3>3
    <3>. QED BY <2>4, <3>4
  <2>. QED BY <2>3, <2>4
<1>4. \A i \in 1..m : f[i] = c * h[i] /\ f[i] \in Int
  <2>. HIDE DEF c, h
  <2>. QED BY <1>1, <1>2
<1>. HIDE DEF c, h, f, s, m, n
<1>5. SumTo(g, n) = SumTo(f, m)
  <2>1. ShiftedBy(s, g, n, f, m)
    BY <1>3, Zenon DEF ShiftedBy
  <2>. QED BY <1>0, <1>4, <2>1, SumShifts
<1>6. SumTo(f, m) = c * SumTo(h, m)
  BY <1>0, <1>1, <1>2, <1>4, SumScales
<1>. QED
  BY <1>5, <1>6 DEF Value, c, h, s, m, n

\* The limbs of q * L stand for the product.
LEMMA ProductValue ==
    ASSUME NEW q, DOMAIN q = 1..Q_LIMBS, IntLimbs(q, Q_LIMBS),
           NEW t, \A k \in 1..PRODUCT_LIMBS : t[k] = QTimesL(q, k)
    PROVE  IntLimbs(t, PRODUCT_LIMBS) /\ Value(t, PRODUCT_LIMBS) = L * Value(q, Q_LIMBS)
<1>. DEFINE n == PRODUCT_LIMBS
            m == R_LIMBS
            l == L_LIMBS_16
            row(k) == [j \in 1..m |-> l[j] * At(q, k - j + 1)]
            f == [k \in 1..n |-> [j \in 1..m |-> (l[j] * At(q, k - j + 1)) * BaseTo(k - 1)]]
            g == [j \in 1..m |-> [k \in 1..n |-> (l[j] * At(q, k - j + 1)) * BaseTo(k - 1)]]
            rows == Weighted(t, n)
            v == Value(q, Q_LIMBS)
            w == Weighted(l, m)
            columns == [j \in 1..m |-> v * w[j]]
<1>0. m \in Nat /\ n \in Nat
  BY LimbCounts
<1>1. \A j \in 1..m : l[j] \in Int
  BY LimbsOfL, BaseIs DEF LimbChecked
<1>2. \A i \in Int : At(q, i) \in Int
  BY DEF At, IntLimbs
<1>3. \A k \in 1..n : BaseTo(k - 1) \in Nat
  <2>. SUFFICES ASSUME NEW k \in 1..n PROVE BaseTo(k - 1) \in Nat
    OBVIOUS
  <2>1. k - 1 \in Nat
    OBVIOUS
  <2>. QED BY <2>1, BasePositive
<1>4. ASSUME NEW k \in 1..n
      PROVE  t[k] = SumTo(row(k), m) /\ t[k] \in Int /\ rows[k] = SumTo(f[k], m)
  <2>1. \A j \in 1..m : row(k)[j] \in Int /\ f[k][j] = BaseTo(k - 1) * row(k)[j]
    <3>. SUFFICES ASSUME NEW j \in 1..m
                  PROVE  /\ l[j] * At(q, k - j + 1) \in Int
                         /\ (l[j] * At(q, k - j + 1)) * BaseTo(k - 1) = BaseTo(k - 1) * (l[j] * At(q, k - j + 1))
      OBVIOUS
    <3>. DEFINE x == l[j]  y == At(q, k - j + 1)  z == BaseTo(k - 1)
    <3>1. x \in Int /\ y \in Int /\ z \in Int
      <4>1. k - j + 1 \in Int
        OBVIOUS
      <4>. QED BY <1>1, <1>2, <1>3, <4>1
    <3>. HIDE DEF x, y, z
    <3>2. x * y \in Int /\ (x * y) * z = z * (x * y)
      BY <3>1
    <3>. QED BY <3>2 DEF x, y, z
  <2>2. t[k] = SumTo(row(k), m)
    BY DEF QTimesL
  <2>3. rows[k] = t[k] * BaseTo(k - 1)
    BY DEF Weighted
  <2>. DEFINE a == row(k)  b == f[k]  c == BaseTo(k - 1)
  <2>4. c \in Int /\ \A j \in 1..m : a[j] \in Int /\ b[j] = c * a[j]
    BY <1>3, <2>1
  <2>. HIDE DEF a, b, c, m, rows
  <2>5. SumTo(b, m) = c * SumTo(a, m) /\ SumTo(a, m) \in Int
    BY <1>0, <2>4, SumScales
  <2>6. t[k] = SumTo(a, m) /\ rows[k] = t[k] * c
    BY <2>2, <2>3 DEF a, c
  <2>7. rows[k] = SumTo(b, m)
    BY <2>4, <2>5, <2>6
  <2>. QED BY <2>2, <2>5, <2>6, <2>7 DEF a, b
<1>5. IntLimbs(t, n)
  BY <1>4 DEF IntLimbs
<1>6. v \in Int /\ \A j \in 1..m : w[j] \in Int /\ w[j] = l[j] * BaseTo(j - 1)
  <2>1. v \in Int
    <3>1. Q_LIMBS \in Nat /\ Q_LIMBS \in 0..Q_LIMBS
      BY LimbCounts
    <3>. QED BY <3>1, ValueStep
  <2>2. IntLimbs(l, m)
    BY <1>1 DEF IntLimbs
  <2>. HIDE DEF v, l, m, w
  <2>. QED BY <1>0, <2>1, <2>2, WeightedInt DEF w
<1>7. ASSUME NEW j \in 1..m PROVE columns[j] = SumTo(g[j], n)
  <2>. DEFINE x == l[j]
              c == g[j]
  <2>1. \A k \in 1..PRODUCT_LIMBS : c[k] = (x * At(q, k - j + 1)) * BaseTo(k - 1)
    OBVIOUS
  <2>2. x \in Int
    BY <1>1
  <2>. HIDE DEF x, c
  <2>3. SumTo(c, PRODUCT_LIMBS) = (x * BaseTo(j - 1)) * Value(q, Q_LIMBS)
    BY <2>1, <2>2, ColumnValue
  <2>4. columns[j] = v * w[j] /\ w[j] = x * BaseTo(j - 1) /\ w[j] \in Int
    BY <1>6 DEF x
  <2>. HIDE DEF columns, w
  <2>5. v * w[j] = w[j] * v
    BY <1>6, <2>4
  <2>. QED BY <2>3, <2>4, <2>5 DEF c
<1>8. Transposed(f, g, n, m)
  <2>. SUFFICES ASSUME NEW k \in 1..n, NEW j \in 1..m
                PROVE  (l[j] * At(q, k - j + 1)) * BaseTo(k - 1) \in Int
    BY DEF Transposed
  <2>1. k - j + 1 \in Int
    OBVIOUS
  <2>2. l[j] \in Int /\ At(q, k - j + 1) \in Int /\ BaseTo(k - 1) \in Int
    BY <1>1, <1>2, <1>3, <2>1
  <2>. QED BY <2>2
<1>9. SumsOf(rows, f, n, m) /\ SumsOf(columns, g, m, n)
  BY <1>4, <1>7, Zenon DEF SumsOf
<1>. HIDE DEF f, g, rows, columns, v, w, l, n, m
<1>10. SumTo(rows, n) = SumTo(columns, m)
  BY <1>0, <1>8, <1>9, SumSwaps
<1>11. SumTo(columns, m) = v * SumTo(w, m)
  <2>1. \A j \in 1..m : w[j] \in Int /\ columns[j] = v * w[j]
    BY <1>6 DEF columns
  <2>. QED BY <1>0, <1>6, <2>1, SumScales
<1>12. SumTo(w, m) = L /\ L \in Int
  BY LimbsOfL DEF Value, w, l, m
<1>13. v * L = L * v
  BY <1>6, <1>12
<1>14. SumTo(rows, n) = L * v
  BY <1>10, <1>11, <1>12, <1>13
<1>. QED
  BY <1>5, <1>14 DEF Value, rows, v, n

\* No limb of the product exceeds R_LIMBS products of limbs.
LEMMA ProductRange ==
    ASSUME NEW q, \A i \in DOMAIN q : q[i] \in 0 .. BASE - 1, NEW k \in Int
    PROVE  QTimesL(q, k) \in 0 .. R_LIMBS * ((BASE - 1) * (BASE - 1))
<1>. DEFINE m == R_LIMBS
            l == L_LIMBS_16
            a == BASE - 1
            f == [j \in 1..m |-> l[j] * At(q, k - j + 1)]
            none == [j \in 1..m |-> 0]
            all == [j \in 1..m |-> a * a]
<1>0. m \in Nat /\ a \in Nat
  BY LimbCounts, BaseIs
<1>1. \A j \in 1..m : f[j] \in Int /\ 0 <= f[j] /\ f[j] <= a * a
  <2>. SUFFICES ASSUME NEW j \in 1..m
                PROVE  l[j] * At(q, k - j + 1) \in Int /\ 0 <= l[j] * At(q, k - j + 1)
                       /\ l[j] * At(q, k - j + 1) <= a * a
    OBVIOUS
  <2>. DEFINE x == l[j]  y == At(q, k - j + 1)
  <2>1. x \in 0..a
    BY LimbsOfL DEF LimbChecked
  <2>2. y \in 0..a
    BY <1>0 DEF At
  <2>. HIDE DEF x, y, a
  <2>3. x * y \in Nat /\ (a - x) * y >= 0 /\ (a - x) * y = a * y - x * y /\ a * (a - y) >= 0
        /\ a * (a - y) = a * a - a * y /\ a * y \in Nat /\ a * a \in Nat
    BY <1>0, <2>1, <2>2
  <2>4. x * y \in Int /\ 0 <= x * y /\ x * y <= a * a
    BY <2>3
  <2>. QED BY <2>4 DEF x, y
<1>2. \A j \in 1..m : none[j] = 0 /\ all[j] = a * a
  OBVIOUS
<1>3. a * a \in Int
  BY <1>0
<1>. HIDE DEF m, l, a, none, all
<1>4. SumTo(none, m) = m * 0 /\ SumTo(all, m) = m * (a * a)
  BY <1>0, <1>2, <1>3, SumConstant
<1>. HIDE DEF f
<1>5. SumTo(none, m) <= SumTo(f, m)
  BY <1>0, <1>1, <1>2, SumMonotone
<1>6. SumTo(f, m) <= SumTo(all, m)
  BY <1>0, <1>1, <1>2, <1>3, SumMonotone
<1>7. SumTo(f, m) \in Int
  <2>1. m \in 0..m
    BY <1>0
  <2>. QED BY <1>0, <1>1, <2>1, SumInt
<1>8. m * 0 = 0 /\ m * (a * a) \in Int
  BY <1>0, <1>3
<1>9. SumTo(f, m) \in 0 .. m * (a * a)
  BY <1>4, <1>5, <1>6, <1>7, <1>8
<1>. QED
  BY <1>9 DEF QTimesL, f, m, l, a

----------------------------------------------------------------------------
(* The constraint of a limb. *)

\* What the carries have to make up for in limb k.
Residue(x, q, r, k) == At(LimbsOf(x, INPUT_LIMBS), k) - QTimesL(q, k) - At(r, k)

Ranged(l) == \A i \in DOMAIN l : l[i] \in 0 .. BASE - 1

\* What a limb leaves without the carry into it is bounded on both sides.
LEMMA ResidueRange ==
    ASSUME NEW x \in Nat, NEW q, Ranged(q), NEW r, Ranged(r), NEW k \in Int
    PROVE  /\ Residue(x, q, r, k) \in Int /\ Residue(x, q, r, k) <= BASE - 1
           /\ 0 - (R_LIMBS * ((BASE - 1) * (BASE - 1)) + (BASE - 1)) <= Residue(x, q, r, k)
<1>. DEFINE l == LimbsOf(x, INPUT_LIMBS)
            a == At(l, k)
            b == QTimesL(q, k)
            c == At(r, k)
            m == BASE - 1
            p == R_LIMBS * (m * m)
<1>0. m \in Nat
  BY BaseIs
<1>1. a \in 0..m
  <2>1. LimbChecked(l, INPUT_LIMBS)
    BY LimbCounts, LimbsValue
  <2>. QED BY <1>0, <2>1 DEF LimbChecked, At
<1>2. b \in 0..p
  BY ProductRange DEF Ranged
<1>3. c \in 0..m
  BY <1>0 DEF At, Ranged
<1>4. p \in Int
  <2>1. R_LIMBS \in Nat
    BY LimbCounts
  <2>. HIDE DEF m
  <2>. QED BY <1>0, <2>1
<1>5. Residue(x, q, r, k) = a - b - c
  BY DEF Residue
<1>. HIDE DEF a, b, c, m, p
<1>6. a - b - c \in Int /\ a - b - c <= m /\ 0 - (p + m) <= a - b - c
  BY <1>0, <1>1, <1>2, <1>3, <1>4
<1>. QED
  BY <1>5, <1>6 DEF m, p

\* The bound of the carries lies inside their range.
LEMMA CarryRoom ==
    /\ CARRY_OFFSET \in Nat \ {0} /\ pow2(CARRY_BITS) = 2 * CARRY_OFFSET
    /\ MostCarried \in Nat /\ MostCarried < CARRY_OFFSET
<1>1. CARRY_BITS - 1 \in Nat /\ (CARRY_BITS - 1) + 1 = CARRY_BITS
  BY ScalarAssumption
<1>2. CARRY_OFFSET \in Nat \ {0} /\ pow2((CARRY_BITS - 1) + 1) = 2 * CARRY_OFFSET
  BY <1>1, PowPositive, PowStep DEF CARRY_OFFSET
<1>3. MostCarried \in Nat
  <2>. DEFINE a == BASE - 1  r == R_LIMBS
  <2>1. a \in Nat /\ r \in Nat
    BY BaseIs, LimbCounts
  <2>. HIDE DEF a, r
  <2>2. r * a + 1 \in Nat
    BY <2>1
  <2>. QED BY <2>2 DEF a, r, MostCarried
<1>4. MostCarried < CARRY_OFFSET
  BY ScalarAssumption DEF MostCarried
<1>. QED
  BY <1>1, <1>2, <1>3, <1>4

\* The range check of a biased carry.
LEMMA CarryCheckedIs ==
    ASSUME NEW c \in Int
    PROVE  CarryChecked(c) <=> (0 - CARRY_OFFSET <= c /\ c <= CARRY_OFFSET - 1)
<1>. DEFINE o == CARRY_OFFSET
            t == pow2(CARRY_BITS)
<1>1. o \in Nat /\ t = 2 * o
  BY CarryRoom
<1>2. CarryChecked(c) <=> c + o \in 0 .. t - 1
  BY DEF CarryChecked
<1>. HIDE DEF o, t
<1>. QED
  BY <1>1, <1>2 DEF o

\* Below the native characteristic the constraint is an equation of integers.
LEMMA LimbEquation ==
    ASSUME NEW x \in Nat, NEW q, Ranged(q), NEW r, Ranged(r), NEW k \in Int,
           NEW cin \in Int, CarryChecked(cin), NEW cout \in Int, CarryChecked(cout)
    PROVE  ReduceLimbHolds(LimbsOf(x, INPUT_LIMBS), q, r, cin, cout, k)
             <=> Residue(x, q, r, k) + cin = BASE * cout
<1>. DEFINE d == Residue(x, q, r, k)
            a == BASE - 1
            b == BASE
            o == CARRY_OFFSET
            m == R_LIMBS
            z == d + cin - b * cout
<1>0. a \in Nat /\ b = a + 1 /\ o \in Nat \ {0} /\ m \in Nat
  BY BaseIs, CarryRoom, LimbCounts
<1>1. d \in Int /\ d <= a /\ 0 - (m * (a * a) + a) <= d
  BY ResidueRange
<1>2. 0 - o <= cin /\ cin <= o - 1 /\ 0 - o <= cout /\ cout <= o - 1
  BY CarryCheckedIs
<1>3. NATIVE \in Nat /\ NATIVE > m * b * b + b + (b + 1) * o
  BY ScalarAssumption
<1>4. ReduceLimbHolds(LimbsOf(x, INPUT_LIMBS), q, r, cin, cout, k) <=> z % NATIVE = 0
  BY DEF ReduceLimbHolds, Residue
<1>. HIDE DEF d, a, b, o, m
<1>5. z \in Int /\ 0 - NATIVE < z /\ z < NATIVE
  <2>1. b * cout \in Int /\ b * (o - 1 - cout) >= 0 /\ b * (o - 1 - cout) = b * o - b - b * cout
        /\ b * (cout + o) >= 0 /\ b * (cout + o) = b * cout + b * o /\ b * o \in Nat
    BY <1>0, <1>2
  <2>2. (b + 1) * o = b * o + o
    BY <1>0
  <2>3. m * b * b = m * (a * a) + m * (2 * a + 1) /\ m * (a * a) \in Nat /\ m * (2 * a + 1) \in Nat
    <3>1. a * a \in Nat /\ b * b = a * a + (2 * a + 1)
      BY <1>0
    <3>2. m * b * b = m * (b * b)
      BY <1>0
    <3>. DEFINE e == a * a  f == 2 * a + 1
    <3>3. e \in Nat /\ f \in Nat /\ b * b = e + f
      BY <1>0, <3>1
    <3>. HIDE DEF e, f
    <3>4. m * (e + f) = m * e + m * f /\ m * e \in Nat /\ m * f \in Nat
      BY <1>0, <3>3
    <3>. QED BY <3>2, <3>3, <3>4 DEF e, f
  <2>. QED BY <1>0, <1>1, <1>2, <1>3, <2>1, <2>2, <2>3
<1>6. NATIVE \in Nat \ {0}
  BY <1>5, <1>3
<1>7. z = 0 => z % NATIVE = 0
  BY <1>6
<1>8. z % NATIVE = 0 => z = 0
  <2>. HIDE DEF z
  <2>1. (0 - NATIVE < z) => (- NATIVE < z)
    BY <1>5, <1>6
  <2>. QED BY <1>5, <1>6, <2>1, SmallMultiple
<1>9. z = 0 <=> d + cin = b * cout
  <2>. DEFINE e == b * cout
  <2>1. e \in Int
    BY <1>0
  <2>2. z = d + cin - e
    OBVIOUS
  <2>. HIDE DEF e, z
  <2>3. z = 0 <=> d + cin = e
    BY <1>1, <2>1, <2>2
  <2>. QED BY <2>3 DEF e
<1>. QED
  BY <1>4, <1>7, <1>8, <1>9 DEF d, b

\* All limbs together: input less q * L less r.
LEMMA ResidueValue ==
    ASSUME NEW x \in 0 .. BaseTo(INPUT_LIMBS) - 1,
           NEW q, LimbChecked(q, Q_LIMBS), NEW r, LimbChecked(r, R_LIMBS),
           NEW d, \A k \in 1..PRODUCT_LIMBS : d[k] = Residue(x, q, r, k)
    PROVE  /\ IntLimbs(d, PRODUCT_LIMBS)
           /\ Value(d, PRODUCT_LIMBS) = x - L * Value(q, Q_LIMBS) - Value(r, R_LIMBS)
           /\ Value(q, Q_LIMBS) \in 0 .. BaseTo(Q_LIMBS) - 1
           /\ Value(r, R_LIMBS) \in 0 .. BaseTo(R_LIMBS) - 1
<1>. DEFINE n == PRODUCT_LIMBS
            l == LimbsOf(x, INPUT_LIMBS)
            xs == [k \in 1..n |-> At(l, k)]
            ts == [k \in 1..n |-> QTimesL(q, k)]
            rs == [k \in 1..n |-> At(r, k)]
            c == 0 - 1
            xt == [k \in 1..n |-> xs[k] + c * ts[k]]
<1>0. n \in Nat /\ INPUT_LIMBS \in 0..n /\ R_LIMBS \in 0..n /\ R_LIMBS \in Nat /\ Q_LIMBS \in Nat /\ INPUT_LIMBS \in Nat
  BY LimbCounts
<1>x. x \in Nat /\ x < BaseTo(INPUT_LIMBS) /\ BaseTo(INPUT_LIMBS) \in Nat \ {0}
  <2>1. BaseTo(INPUT_LIMBS) \in Nat \ {0}
    BY <1>0, BasePositive
  <2>. QED BY <2>1
<1>1. Value(xs, n) = x /\ IntLimbs(xs, n)
  <2>1. LimbChecked(l, INPUT_LIMBS) /\ Value(l, INPUT_LIMBS) = x % BaseTo(INPUT_LIMBS)
    BY <1>0, <1>x, LimbsValue
  <2>2. x % BaseTo(INPUT_LIMBS) = x
    BY <1>x
  <2>3. DOMAIN l = 1..INPUT_LIMBS /\ IntLimbs(l, INPUT_LIMBS)
    BY <2>1, BaseIs DEF LimbChecked, IntLimbs
  <2>. HIDE DEF l, n
  <2>4. \A k \in 1..n : xs[k] = At(l, k)
    OBVIOUS
  <2>. HIDE DEF xs
  <2>5. Value(xs, n) = Value(l, INPUT_LIMBS) /\ IntLimbs(xs, n)
    BY <1>0, <2>3, <2>4, ValuePadded
  <2>. QED BY <2>1, <2>2, <2>5
<1>2. DOMAIN q = 1..Q_LIMBS /\ IntLimbs(q, Q_LIMBS) /\ DOMAIN r = 1..R_LIMBS /\ IntLimbs(r, R_LIMBS)
  BY BaseIs DEF LimbChecked, IntLimbs
<1>3. Value(ts, n) = L * Value(q, Q_LIMBS) /\ IntLimbs(ts, n)
  <2>1. \A k \in 1..n : ts[k] = QTimesL(q, k)
    OBVIOUS
  <2>. HIDE DEF ts
  <2>. QED BY <1>2, <2>1, ProductValue
<1>4. Value(rs, n) = Value(r, R_LIMBS) /\ IntLimbs(rs, n)
  <2>1. \A k \in 1..n : rs[k] = At(r, k)
    OBVIOUS
  <2>. HIDE DEF rs, n
  <2>. QED BY <1>0, <1>2, <2>1, ValuePadded
<1>5. \A k \in 1..n : xs[k] \in Int /\ ts[k] \in Int /\ rs[k] \in Int /\ d[k] = xs[k] - ts[k] - rs[k]
  <2>1. \A k \in 1..n : d[k] = xs[k] - ts[k] - rs[k]
    BY DEF Residue
  <2>. HIDE DEF xs, ts, rs
  <2>. QED BY <1>1, <1>3, <1>4, <2>1 DEF IntLimbs
<1>6. \A k \in 1..n : xt[k] = xs[k] + c * ts[k]
  OBVIOUS
<1>c. Combined(xt, xs, c, ts, n)
  BY <1>6, Zenon DEF Combined
<1>7. c \in Int /\ c = 0 - 1
  OBVIOUS
<1>. HIDE DEF n, l, xs, ts, rs, xt, c
<1>8. /\ Value(xt, n) = Value(xs, n) + c * Value(ts, n)
      /\ Value(xs, n) \in Int /\ Value(ts, n) \in Int
  BY <1>0, <1>1, <1>3, <1>7, <1>c, ValueLinear
<1>9. IntLimbs(xt, n) /\ Combined(d, xt, c, rs, n)
  BY <1>5, <1>6, <1>7 DEF IntLimbs, Combined
<1>10. Value(d, n) = Value(xt, n) + c * Value(rs, n) /\ Value(rs, n) \in Int
  <2>1. IntLimbs(rs, n) /\ n \in Nat /\ c \in Int
    BY <1>0, <1>4, <1>7
  <2>. QED BY <1>9, <2>1, ValueLinear, Zenon
<1>11. Value(d, n) = x - L * Value(q, Q_LIMBS) - Value(r, R_LIMBS)
  <2>. DEFINE e == L * Value(q, Q_LIMBS)  f == Value(r, R_LIMBS)
  <2>1. Value(d, n) = (x + (0 - 1) * e) + (0 - 1) * f /\ e \in Int /\ f \in Int
    BY <1>1, <1>3, <1>4, <1>7, <1>8, <1>10
  <2>. HIDE DEF e, f
  <2>2. (x + (0 - 1) * e) + (0 - 1) * f = x - e - f
    BY <1>x, <2>1
  <2>. QED BY <2>1, <2>2 DEF e, f
<1>12. IntLimbs(d, n)
  BY <1>5 DEF IntLimbs
<1>13. /\ Value(q, Q_LIMBS) \in 0 .. BaseTo(Q_LIMBS) - 1
       /\ Value(r, R_LIMBS) \in 0 .. BaseTo(R_LIMBS) - 1
  BY <1>0, ValueBounds DEF LimbChecked
<1>. QED
  BY <1>11, <1>12, <1>13 DEF n

\* What accepted cells say of the chain.
AcceptedCells(x, q, r, cy) ==
    /\ LimbChecked(q, Q_LIMBS) /\ LimbChecked(r, R_LIMBS)
    /\ \A k \in 1..PRODUCT_LIMBS :
         /\ cy[k] \in Int /\ CarryChecked(cy[k])
         /\ ReduceLimbHolds(LimbsOf(x, INPUT_LIMBS), q, r, IF k = 1 THEN 0 ELSE cy[k - 1], cy[k], k)

\* Accepted cells: the remainder is the input modulo L.
LEMMA GadgetSound ==
    ASSUME NEW x \in 0 .. BaseTo(INPUT_LIMBS) - 1, NEW q, NEW r, NEW cy, AcceptedCells(x, q, r, cy)
    PROVE  Value(r, R_LIMBS) % L = x % L
<1>. DEFINE n == PRODUCT_LIMBS
            d == [k \in 1..n |-> Residue(x, q, r, k)]
            c == [k \in 0..n |-> IF k = 0 THEN 0 ELSE cy[k]]
            w == BaseTo(n)
            u == BaseTo(Q_LIMBS)
            v == BaseTo(R_LIMBS)
            vq == Value(q, Q_LIMBS)
            vr == Value(r, R_LIMBS)
<1>0. n \in Nat \ {0} /\ Q_LIMBS \in Nat /\ R_LIMBS \in Nat /\ INPUT_LIMBS \in Nat /\ INPUT_LIMBS <= n
  BY LimbCounts
<1>1. x \in Nat /\ Ranged(q) /\ Ranged(r) /\ LimbChecked(q, Q_LIMBS) /\ LimbChecked(r, R_LIMBS)
  <2>1. BaseTo(INPUT_LIMBS) \in Nat
    BY <1>0, BasePositive
  <2>. QED BY <2>1 DEF AcceptedCells, LimbChecked, Ranged
<1>2. \A k \in 1..n : d[k] = Residue(x, q, r, k)
  OBVIOUS
<1>3. \A k \in 0..n : c[k] \in Int /\ CarryChecked(c[k])
  <2>. SUFFICES ASSUME NEW k \in 0..n PROVE c[k] \in Int /\ CarryChecked(c[k])
    OBVIOUS
  <2>1. CASE k = 0
    <3>1. CarryChecked(0)
      <4>1. 0 \in Int /\ CARRY_OFFSET \in Nat \ {0}
        BY CarryRoom
      <4>. QED BY <4>1, CarryCheckedIs
    <3>. QED BY <2>1, <3>1
  <2>2. CASE k # 0
    <3>1. k \in 1..n /\ c[k] = cy[k]
      BY <2>2
    <3>. QED BY <3>1 DEF AcceptedCells
  <2>. QED BY <2>1, <2>2
<1>4. ASSUME NEW k \in 1..n PROVE d[k] + c[k - 1] = BASE * c[k]
  <2>. DEFINE cin == c[k - 1]  cout == c[k]
  <2>0. k - 1 \in 0..n /\ k \in 0..n /\ k \in Int /\ (k - 1 = 0 <=> k = 1) /\ k # 0
    <3>. HIDE DEF n
    <3>. QED BY <1>0
  <2>1. cin \in Int /\ CarryChecked(cin) /\ cout \in Int /\ CarryChecked(cout)
    BY <1>3, <2>0
  <2>2. cin = (IF k = 1 THEN 0 ELSE cy[k - 1]) /\ cout = cy[k]
    <3>. HIDE DEF n
    <3>. QED BY <2>0
  <2>3. ReduceLimbHolds(LimbsOf(x, INPUT_LIMBS), q, r, cin, cout, k)
    <3>1. ReduceLimbHolds(LimbsOf(x, INPUT_LIMBS), q, r, IF k = 1 THEN 0 ELSE cy[k - 1], cy[k], k)
      BY DEF AcceptedCells
    <3>. HIDE DEF c, cin, cout
    <3>. QED BY <2>2, <3>1
  <2>. HIDE DEF c, d, cin, cout
  <2>4. Residue(x, q, r, k) + cin = BASE * cout
    BY <1>1, <2>0, <2>1, <2>3, LimbEquation
  <2>. QED BY <1>2, <2>4 DEF cin, cout
<1>5. c[0] = 0
  BY <1>0
<1>. HIDE DEF c, d
<1>6. CarriedBy(d, c, n)
  BY <1>3, <1>4, <1>5 DEF CarriedBy
<1>7. /\ IntLimbs(d, n) /\ Value(d, n) = x - L * vq - vr
      /\ vq \in 0 .. u - 1 /\ vr \in 0 .. v - 1
  BY <1>1, <1>2, ResidueValue
<1>8. Value(d, n) = w * c[n] /\ c[n] \in Int
  <2>1. n \in 0..n /\ n \in Nat
    BY <1>0
  <2>2. \A m \in 0..n : Value(d, m) = BaseTo(m) * c[m]
    <3>. HIDE DEF n
    <3>. QED BY <1>6, <1>7, <2>1, ChainSums
  <2>. QED BY <1>3, <2>1, <2>2
<1>9. /\ L \in Nat \ {0} /\ L < v /\ u \in Nat \ {0} /\ v \in Nat \ {0} /\ w \in Nat \ {0}
      /\ w = u * v /\ x < w
  <2>1. L \in Nat \ {0} /\ L < v
    BY LimbsOfL
  <2>2. u \in Nat \ {0} /\ v \in Nat \ {0} /\ w \in Nat \ {0}
    BY <1>0, BasePositive
  <2>3. w = u * v
    <3>1. n = Q_LIMBS + R_LIMBS
      BY LimbCounts
    <3>. QED BY <1>0, <3>1, Bases, Zenon
  <2>4. x < BaseTo(INPUT_LIMBS) /\ BaseTo(INPUT_LIMBS) <= w /\ BaseTo(INPUT_LIMBS) \in Nat
    <3>1. n \in Nat
      BY <1>0
    <3>2. BaseTo(INPUT_LIMBS) \in Nat
      BY <1>0, BasePositive
    <3>3. BaseTo(INPUT_LIMBS) <= w
      BY <1>0, <3>1, BasesRise
    <3>. QED BY <3>2, <3>3
  <2>. QED BY <1>1, <2>1, <2>2, <2>3, <2>4
<1>. DEFINE last == c[n]
<1>. HIDE DEF n, w, u, v, vq, vr, last
<1>10. L * vq + vr \in Nat /\ L * vq + vr < w
  <2>0. vq \in Nat /\ vq <= u - 1 /\ vr \in Nat /\ vr <= v - 1
    BY <1>7, <1>9
  <2>1. L * vq \in Nat /\ (v - 1 - L) * vq >= 0 /\ (v - 1 - L) * vq = (v - 1) * vq - L * vq
    BY <1>9, <2>0
  <2>2. (v - 1) * (u - 1 - vq) >= 0 /\ (v - 1) * (u - 1 - vq) = (v - 1) * (u - 1) - (v - 1) * vq
    BY <1>9, <2>0
  <2>3. (v - 1) * (u - 1) = u * v - u - v + 1 /\ (v - 1) * vq \in Nat /\ u * v \in Nat
    BY <1>9, <2>0
  <2>. QED BY <1>9, <2>0, <2>1, <2>2, <2>3
<1>11. last = 0
  <2>1. w * last = x - (L * vq + vr) /\ last \in Int
    <3>1. L * vq \in Int /\ vr \in Int
      BY <1>7, <1>9
    <3>. QED BY <1>1, <1>7, <1>8, <3>1 DEF last
  <2>2. w * last \in Int /\ 0 - w < w * last /\ w * last < w
    <3>. DEFINE e == L * vq + vr
    <3>. HIDE DEF e
    <3>1. e \in Nat /\ e < w /\ w * last = x - e
      BY <1>10, <2>1 DEF e
    <3>. QED BY <1>1, <1>9, <2>1, <3>1
  <2>3. ~ (last >= 1)
    <3>. SUFFICES ASSUME last >= 1 PROVE FALSE
      OBVIOUS
    <3>1. w * (last - 1) >= 0 /\ w * (last - 1) = w * last - w
      BY <1>9, <2>1
    <3>. QED BY <1>9, <2>2, <3>1
  <2>4. ~ (last <= -1)
    <3>. SUFFICES ASSUME last <= -1 PROVE FALSE
      OBVIOUS
    <3>1. w * (-1 - last) >= 0 /\ w * (-1 - last) = 0 - w - w * last
      BY <1>9, <2>1
    <3>. QED BY <1>9, <2>2, <3>1
  <2>. QED BY <2>1, <2>3, <2>4
<1>12. x = vr + L * vq /\ vr \in Int /\ vq \in Int
  <2>1. L * vq \in Int /\ vr \in Int /\ vq \in Int /\ w * 0 = 0
    BY <1>7, <1>9
  <2>2. x - L * vq - vr = w * last
    BY <1>7, <1>8 DEF last
  <2>. QED BY <1>1, <1>11, <2>1, <2>2
<1>13. (vr + L * vq) % L = vr % L
  BY <1>9, <1>12, SameRemainder
<1>. QED
  BY <1>12, <1>13 DEF vr

----------------------------------------------------------------------------
(* Division by shifted copies of L. *)

STEPS == SHIFTS + 1
Subtracted(y, k) == IF y >= ShiftedL(k) THEN y - ShiftedL(k) ELSE y
IsDivision(y, x) ==
    y = [k \in 0 .. SHIFTS + 1 |-> IF k = 0 THEN x
                                   ELSE IF y[k - 1] >= ShiftedL(k) THEN y[k - 1] - ShiftedL(k) ELSE y[k - 1]]

\* The shifted copies of L halve down to L, from one above every input.
LEMMA ShiftedLIs ==
    /\ STEPS \in Nat \ {0} /\ STEPS = SHIFTS + 1
    /\ ShiftedL(STEPS) = L /\ ShiftedL(0) >= BaseTo(INPUT_LIMBS)
    /\ \A k \in 0..STEPS : ShiftedL(k) \in Nat \ {0} /\ ShiftedL(k) = L * pow2(STEPS - k) /\ pow2(STEPS - k) \in Nat
    /\ \A k \in 0 .. STEPS - 1 : ShiftedL(k) = 2 * ShiftedL(k + 1)
<1>1. SHIFTS \in Nat /\ STEPS = SHIFTS + 1 /\ L \in Nat \ {0} /\ L * pow2(SHIFTS + 1) >= BaseTo(INPUT_LIMBS)
  BY ScalarAssumption, LimbsOfL DEF STEPS
<1>2. ASSUME NEW k \in 0..STEPS
      PROVE  ShiftedL(k) \in Nat \ {0} /\ ShiftedL(k) = L * pow2(STEPS - k) /\ pow2(STEPS - k) \in Nat
  <2>1. STEPS - k \in Nat /\ (SHIFTS + 1) - k = STEPS - k
    BY <1>1
  <2>2. pow2(STEPS - k) \in Nat \ {0}
    BY <2>1, PowPositive
  <2>. DEFINE p == pow2(STEPS - k)
  <2>3. ShiftedL(k) = L * p
    BY <2>1 DEF ShiftedL
  <2>4. p \in Nat \ {0}
    BY <2>2
  <2>. HIDE DEF p
  <2>5. L * p \in Nat /\ L * p # 0
    BY <1>1, <2>4
  <2>. QED BY <2>3, <2>4, <2>5 DEF p
<1>3. ASSUME NEW k \in 0 .. STEPS - 1 PROVE ShiftedL(k) = 2 * ShiftedL(k + 1)
  <2>1. STEPS - (k + 1) \in Nat /\ (STEPS - (k + 1)) + 1 = STEPS - k /\ k \in 0..STEPS /\ k + 1 \in 0..STEPS
    BY <1>1
  <2>. DEFINE p == pow2(STEPS - (k + 1))
  <2>2. pow2((STEPS - (k + 1)) + 1) = 2 * p
    BY <2>1, PowStep
  <2>3. ShiftedL(k) = L * (2 * p) /\ ShiftedL(k + 1) = L * p /\ p \in Nat
    BY <1>2, <2>1, <2>2
  <2>. HIDE DEF p
  <2>4. L * (2 * p) = 2 * (L * p)
    BY <1>1, <2>3
  <2>. QED BY <2>3, <2>4
<1>4. ShiftedL(STEPS) = L
  <2>1. STEPS \in 0..STEPS /\ STEPS - STEPS = 0
    BY <1>1
  <2>2. ShiftedL(STEPS) = L * pow2(0) /\ pow2(0) = 1
    BY <1>2, <2>1, PowStep
  <2>. QED BY <1>1, <2>2
<1>5. ShiftedL(0) >= BaseTo(INPUT_LIMBS)
  <2>1. (SHIFTS + 1) - 0 = SHIFTS + 1
    BY <1>1
  <2>. QED BY <1>1, <2>1 DEF ShiftedL
<1>. QED
  BY <1>1, <1>2, <1>3, <1>4, <1>5

\* The recursion of Remainders has a solution.
LEMMA DivisionExists ==
    ASSUME NEW x \in Int
    PROVE  \E y : IsDivision(y, x)
<1>. DEFINE F == [p \in (1..STEPS) \X Int |-> Subtracted(p[2], p[1])]
<1>1. F \in [(1..STEPS) \X Int -> Int]
  <2>. SUFFICES ASSUME NEW k \in 1..STEPS, NEW y \in Int PROVE Subtracted(y, k) \in Int
    OBVIOUS
  <2>1. ShiftedL(k) \in Nat
    BY ShiftedLIs
  <2>. QED BY <2>1 DEF Subtracted
<1>2. \A k \in 1..STEPS, y \in Int : F[<<k, y>>] = Subtracted(y, k)
  OBVIOUS
<1>. HIDE DEF F
<1>3. PICK y \in [0..STEPS -> Int] : y[0] = x /\ \A k \in 1..STEPS : y[k] = F[<<k, y[k - 1]>>]
  <2>1. STEPS \in Nat /\ F \in Steps(STEPS, Int)
    BY <1>1, ShiftedLIs DEF Steps
  <2>2. \E y : IsRun(y, STEPS, Int, x, F)
    BY <2>1, RunExists, Zenon
  <2>. QED BY <2>2, Zenon DEF IsRun
<1>4. \A k \in 1..STEPS : y[k] = Subtracted(y[k - 1], k)
  <2>. SUFFICES ASSUME NEW k \in 1..STEPS PROVE y[k] = Subtracted(y[k - 1], k)
    OBVIOUS
  <2>1. k - 1 \in 0..STEPS
    BY ShiftedLIs
  <2>2. y[k - 1] \in Int
    BY <2>1
  <2>. QED BY <1>2, <1>3, <2>2
<1>5. \A k \in 0..STEPS : y[k] = IF k = 0 THEN x ELSE Subtracted(y[k - 1], k)
  BY <1>3, <1>4
<1>6. IsDivision(y, x)
  BY <1>5 DEF IsDivision, Subtracted, STEPS
<1>. QED
  BY <1>6

\* The recursion of the long division, step by step.
LEMMA DivisionValues ==
    ASSUME NEW x, NEW y, IsDivision(y, x)
    PROVE  y[0] = x /\ \A k \in 1..STEPS : y[k] = Subtracted(y[k - 1], k)
<1>. DEFINE body(k) == IF k = 0 THEN x ELSE Subtracted(y[k - 1], k)
<1>1. y = [k \in 0..STEPS |-> body(k)]
  BY DEF IsDivision, STEPS, Subtracted
<1>2. \A k \in 0..STEPS : y[k] = body(k)
  <2>. HIDE DEF body
  <2>. QED BY <1>1
<1>. QED
  BY <1>2, ShiftedLIs

\* The remainders are the ones of that recursion.
LEMMA RemaindersAre ==
    ASSUME NEW x \in Int
    PROVE  /\ Remainders(x)[0] = x
           /\ \A k \in 1..STEPS : Remainders(x)[k] = Subtracted(Remainders(x)[k - 1], k)
<1>1. IsDivision(CHOOSE y : IsDivision(y, x), x)
  BY DivisionExists, Zenon
<1>2. Remainders(x) = CHOOSE y : IsDivision(y, x)
  BY Zenon DEF Remainders, IsDivision
<1>3. IsDivision(Remainders(x), x)
  BY <1>1, <1>2, Zenon
<1>. QED
  BY <1>3, DivisionValues

QuotientBits(x) ==
    [k \in 1..STEPS |-> IF Remainders(x)[k - 1] >= ShiftedL(k) THEN pow2(STEPS - k) ELSE 0]

\* The steps leave the remainder, those that subtract are the quotient's bits.
LEMMA LongDivision ==
    ASSUME NEW x \in 0 .. BaseTo(INPUT_LIMBS) - 1
    PROVE  reduce_mod_l_wide(x) = x % L /\ SumTo(QuotientBits(x), STEPS) = x \div L
<1>. DEFINE y == Remainders(x)
            bits == QuotientBits(x)
            S == {k \in Nat : k <= STEPS => /\ y[k] \in Nat /\ y[k] < ShiftedL(k)
                                            /\ SumTo(bits, k) \in Nat /\ x = y[k] + L * SumTo(bits, k)}
<1>0. STEPS \in Nat \ {0} /\ STEPS = SHIFTS + 1 /\ L \in Nat \ {0}
  BY ShiftedLIs, LimbsOfL
<1>x. x \in Nat /\ x < BaseTo(INPUT_LIMBS) /\ BaseTo(INPUT_LIMBS) \in Nat
  <2>1. BaseTo(INPUT_LIMBS) \in Nat
    BY LimbCounts, BasePositive
  <2>. QED BY <2>1
<1>1. y[0] = x /\ \A k \in 1..STEPS : y[k] = Subtracted(y[k - 1], k)
  <2>1. x \in Int
    BY <1>x
  <2>. QED BY <2>1, RemaindersAre, Zenon
<1>2. \A k \in 1..STEPS : bits[k] = IF y[k - 1] >= ShiftedL(k) THEN pow2(STEPS - k) ELSE 0
  BY Zenon DEF QuotientBits
<1>. HIDE DEF y, bits
<1>3. 0 \in S
  <2>1. SumTo(bits, 0) = 0 /\ L * 0 = 0
    BY <1>0, SumStep
  <2>2. 0 \in 0..STEPS
    BY <1>0
  <2>3. ShiftedL(0) \in Nat /\ ShiftedL(0) >= BaseTo(INPUT_LIMBS)
    BY <2>2, ShiftedLIs
  <2>. QED BY <1>x, <1>1, <2>1, <2>3
<1>4. ASSUME NEW k \in Nat, k \in S PROVE k + 1 \in S
  <2>. SUFFICES ASSUME k + 1 <= STEPS
                PROVE  /\ y[k + 1] \in Nat /\ y[k + 1] < ShiftedL(k + 1)
                       /\ SumTo(bits, k + 1) \in Nat /\ x = y[k + 1] + L * SumTo(bits, k + 1)
    OBVIOUS
  <2>. DEFINE a == y[k]  s == SumTo(bits, k)  t == ShiftedL(k + 1)  p == pow2(STEPS - (k + 1))
              b == bits[k + 1]
  <2>0. k + 1 \in 1..STEPS /\ k + 1 \in 0..STEPS /\ (k + 1) - 1 = k /\ k \in 0 .. STEPS - 1 /\ k <= STEPS
    BY <1>0
  <2>1. a \in Nat /\ a < ShiftedL(k) /\ s \in Nat /\ x = a + L * s
    BY <1>4, <2>0
  <2>2. t \in Nat /\ t = L * p /\ p \in Nat /\ ShiftedL(k) = 2 * t
    BY <2>0, ShiftedLIs
  <2>3. y[k + 1] = (IF a >= t THEN a - t ELSE a) /\ b = IF a >= t THEN p ELSE 0
    BY <1>1, <1>2, <2>0 DEF Subtracted
  <2>4. SumTo(bits, k + 1) = s + b
    BY SumStep
  <2>. HIDE DEF a, s, t, p, b
  <2>5. L * s \in Nat /\ L * (s + b) = L * s + L * b /\ L * 0 = 0
    BY <1>0, <2>1, <2>2, <2>3
  <2>6. CASE a >= t
    <3>1. y[k + 1] = a - t /\ b = p
      BY <2>3, <2>6
    <3>2. x = (a - t) + (L * s + L * p)
      BY <2>1, <2>2, <2>5
    <3>3. x = (a - t) + L * (s + p)
      BY <2>5, <3>1, <3>2
    <3>. QED BY <2>1, <2>2, <2>4, <2>6, <3>1, <3>3 DEF t
  <2>7. CASE ~ (a >= t)
    <3>1. y[k + 1] = a /\ b = 0 /\ s + 0 = s
      BY <2>1, <2>3, <2>7
    <3>. QED BY <2>1, <2>2, <2>4, <2>7, <3>1 DEF t
  <2>. QED BY <2>6, <2>7
<1>5. Nat \subseteq S
  <2>. HIDE DEF S
  <2>. QED BY <1>3, <1>4, Induct
<1>6. /\ y[STEPS] \in Nat /\ y[STEPS] < ShiftedL(STEPS)
      /\ SumTo(bits, STEPS) \in Nat /\ x = y[STEPS] + L * SumTo(bits, STEPS)
  BY <1>0, <1>5
<1>. DEFINE r == y[STEPS]
            q == SumTo(bits, STEPS)
<1>7. r \in 0 .. L - 1 /\ q \in Int /\ x = L * q + r /\ x \in Int
  <2>1. ShiftedL(STEPS) = L
    BY ShiftedLIs
  <2>2. L * q \in Int
    BY <1>0, <1>6
  <2>. QED BY <1>0, <1>6, <1>x, <2>1, <2>2
<1>. HIDE DEF r, q
<1>8. x \div L = q /\ x % L = r
  BY <1>0, <1>7, Quotient
<1>. QED
  BY <1>0, <1>8 DEF reduce_mod_l_wide, r, q, y, bits

----------------------------------------------------------------------------
(* The code's fill. *)

\* Quotient and remainder of an input by L.
LEMMA InputIs ==
    ASSUME NEW x \in 0 .. BaseTo(INPUT_LIMBS) - 1
    PROVE  /\ x \in Nat /\ x < BaseTo(INPUT_LIMBS) /\ BaseTo(INPUT_LIMBS) \in Nat \ {0}
           /\ x \div L \in Nat /\ x % L \in 0 .. L - 1 /\ x = L * (x \div L) + (x % L)
<1>1. BaseTo(INPUT_LIMBS) \in Nat \ {0}
  BY LimbCounts, BasePositive
<1>2. x \in Nat /\ x < BaseTo(INPUT_LIMBS) /\ L \in Nat \ {0}
  BY <1>1, LimbsOfL
<1>. DEFINE q == x \div L
            r == x % L
<1>3. q \in Int /\ r \in 0 .. L - 1 /\ x = L * q + r
  <2>1. x \in Int
    BY <1>2
  <2>. QED BY <1>2, <2>1, DivRule, Zenon
<1>. HIDE DEF q, r
<1>4. ~ (q <= -1)
  <2>. SUFFICES ASSUME q <= -1 PROVE FALSE
    OBVIOUS
  <2>1. L * (-1 - q) >= 0 /\ L * (-1 - q) = 0 - L - L * q /\ L * q \in Int
    BY <1>2, <1>3
  <2>. QED BY <1>2, <1>3, <2>1
<1>5. q \in Nat
  BY <1>3, <1>4
<1>. QED
  BY <1>1, <1>2, <1>3, <1>5 DEF q, r

\* The remainder fits its limbs.
LEMMA RemainderLimbs ==
    ASSUME NEW x \in 0 .. BaseTo(INPUT_LIMBS) - 1
    PROVE  LimbChecked(LimbsOf(x % L, R_LIMBS), R_LIMBS) /\ Value(LimbsOf(x % L, R_LIMBS), R_LIMBS) = x % L
<1>. DEFINE v == x % L
            w == BaseTo(R_LIMBS)
<1>1. R_LIMBS \in Nat /\ w \in Nat \ {0} /\ L \in Nat /\ L < w /\ v \in 0 .. L - 1
  BY LimbCounts, BasePositive, LimbsOfL, InputIs
<1>. HIDE DEF v, w
<1>2. v \in Nat /\ v % w = v
  BY <1>1
<1>3. LimbChecked(LimbsOf(v, R_LIMBS), R_LIMBS) /\ Value(LimbsOf(v, R_LIMBS), R_LIMBS) = v % w
  BY <1>1, <1>2, LimbsValue DEF w
<1>. QED
  BY <1>2, <1>3 DEF v

\* The quotient fits its limbs: L fills all of its own.
LEMMA QuotientLimbs ==
    ASSUME NEW x \in 0 .. BaseTo(INPUT_LIMBS) - 1
    PROVE  /\ LimbChecked(LimbsOf(x \div L, Q_LIMBS), Q_LIMBS)
           /\ Value(LimbsOf(x \div L, Q_LIMBS), Q_LIMBS) = x \div L
<1>. DEFINE v == x \div L
            w == BaseTo(Q_LIMBS)
            u == BaseTo(R_LIMBS - 1)
            r == x % L
<1>1. Q_LIMBS \in Nat /\ w \in Nat \ {0} /\ u \in Nat \ {0} /\ L \in Nat /\ u <= L
  <2>1. R_LIMBS - 1 \in Nat
    BY LimbCounts
  <2>. QED BY <2>1, LimbCounts, BasePositive, LimbsOfL
<1>2. v \in Nat /\ r \in 0 .. L - 1 /\ x = L * v + r /\ x \in Nat /\ x < BaseTo(INPUT_LIMBS)
  BY InputIs
<1>3. BaseTo(INPUT_LIMBS) = u * w
  <2>1. R_LIMBS - 1 \in Nat /\ Q_LIMBS \in Nat /\ (R_LIMBS - 1) + Q_LIMBS = INPUT_LIMBS
    BY LimbCounts
  <2>2. BaseTo((R_LIMBS - 1) + Q_LIMBS) = u * w
    BY <2>1, Bases, Zenon
  <2>. QED BY <2>1, <2>2
<1>. HIDE DEF v, w, u, r
<1>4. v < w
  <2>. SUFFICES ASSUME v >= w PROVE FALSE
    BY <1>1, <1>2
  <2>1. L * (v - w) >= 0 /\ L * (v - w) = L * v - L * w /\ (L - u) * w >= 0 /\ (L - u) * w = L * w - u * w
        /\ L * v \in Nat /\ L * w \in Nat /\ u * w \in Nat
    BY <1>1, <1>2
  <2>. QED BY <1>1, <1>2, <1>3, <2>1
<1>5. v % w = v
  BY <1>1, <1>2, <1>4
<1>6. LimbChecked(LimbsOf(v, Q_LIMBS), Q_LIMBS) /\ Value(LimbsOf(v, Q_LIMBS), Q_LIMBS) = v % w
  BY <1>1, <1>2, LimbsValue DEF w
<1>. QED
  BY <1>5, <1>6 DEF v

\* The quotient the code writes is that of input by L.
LEMMA QuotientWritten ==
    ASSUME NEW x \in 0 .. BaseTo(INPUT_LIMBS) - 1
    PROVE  compute_q_limbs(x, x % L) = LimbsOf(x \div L, Q_LIMBS)
<1>. DEFINE q == x \div L
            r == x % L
            w == BaseTo(INPUT_LIMBS)
            z == x - r
<1>1. /\ x \in Nat /\ x < w /\ w \in Nat \ {0} /\ q \in Nat /\ r \in 0 .. L - 1 /\ x = L * q + r
      /\ L \in Nat \ {0}
  BY InputIs, LimbsOfL
<1>2. z = q * L /\ z \in 0 .. w - 1
  <2>. HIDE DEF q, r, w
  <2>1. L * q \in Nat /\ L * q = q * L
    BY <1>1
  <2>. QED BY <1>1, <2>1
<1>3. z % w = z
  <2>. HIDE DEF z, w
  <2>. QED BY <1>1, <1>2
<1>4. z \div L = q
  <2>1. q \in Int
    BY <1>1
  <2>2. (q * L) \div L = q
    <3>. HIDE DEF q
    <3>. QED BY <1>1, <2>1, DivExact
  <2>. HIDE DEF q, z
  <2>. QED BY <1>2, <2>2
<1>5. SumTo(QuotientBits(z), STEPS) = q
  <2>. HIDE DEF z, q
  <2>1. SumTo(QuotientBits(z), STEPS) = z \div L
    BY <1>2, LongDivision DEF w
  <2>. QED BY <1>4, <2>1
<1>6. compute_q_limbs(x, r) = LimbsOf(SumTo(QuotientBits(z % w), STEPS), Q_LIMBS)
  BY Zenon DEF compute_q_limbs, QuotientBits, STEPS
<1>. QED
  BY <1>3, <1>5, <1>6, Zenon

IsCarries(f, x, q, r) ==
    f = [k \in 0..PRODUCT_LIMBS |->
           IF k = 0 THEN 0 ELSE (At(LimbsOf(x, INPUT_LIMBS), k) - QTimesL(q, k) - At(r, k) + f[k - 1]) \div BASE]

\* The recursion of compute_chain_carries has a solution.
LEMMA CarriesExist ==
    ASSUME NEW x \in Nat, NEW q, Ranged(q), NEW r, Ranged(r)
    PROVE  \E f : IsCarries(f, x, q, r)
<1>. DEFINE n == PRODUCT_LIMBS
            F == [p \in (1..n) \X Int |-> (Residue(x, q, r, p[1]) + p[2]) \div BASE]
<1>1. \A k \in 1..n, c \in Int : F[<<k, c>>] = (Residue(x, q, r, k) + c) \div BASE
  OBVIOUS
<1>2. F \in Steps(n, Int)
  <2>. SUFFICES ASSUME NEW k \in 1..n, NEW c \in Int PROVE (Residue(x, q, r, k) + c) \div BASE \in Int
    BY DEF Steps
  <2>1. k \in Int
    OBVIOUS
  <2>2. Residue(x, q, r, k) \in Int /\ BASE \in Nat \ {0}
    BY <2>1, ResidueRange, BaseIs
  <2>3. Residue(x, q, r, k) + c \in Int
    BY <2>2
  <2>. QED BY <2>2, <2>3, DivRule
<1>3. n \in Nat
  BY LimbCounts
<1>. HIDE DEF n, F
<1>4. PICK f : IsRun(f, n, Int, 0, F)
  <2>1. 0 \in Int
    OBVIOUS
  <2>. QED BY <1>2, <1>3, <2>1, RunExists, Zenon
<1>5. ASSUME NEW k \in 0..n
      PROVE  f[k] = IF k = 0 THEN 0 ELSE (Residue(x, q, r, k) + f[k - 1]) \div BASE
  <2>1. CASE k = 0
    BY <1>4, <2>1 DEF IsRun
  <2>2. CASE k # 0
    <3>1. k \in 1..n /\ k - 1 \in 0..n
      BY <1>3, <2>2
    <3>2. f[k - 1] \in Int /\ f[k] = F[<<k, f[k - 1]>>]
      BY <1>4, <3>1 DEF IsRun
    <3>. QED BY <1>1, <2>2, <3>1, <3>2
  <2>. QED BY <2>1, <2>2
<1>6. f = [k \in 0..n |-> IF k = 0 THEN 0 ELSE (Residue(x, q, r, k) + f[k - 1]) \div BASE]
  <2>1. f = [k \in 0..n |-> f[k]]
    BY <1>4 DEF IsRun
  <2>. DEFINE e(k) == IF k = 0 THEN 0 ELSE (Residue(x, q, r, k) + f[k - 1]) \div BASE
  <2>2. \A k \in 0..n : f[k] = e(k)
    BY <1>5
  <2>. HIDE DEF e
  <2>3. f = [k \in 0..n |-> e(k)]
    BY <2>1, <2>2
  <2>. QED BY <2>3 DEF e
<1>7. IsCarries(f, x, q, r)
  BY <1>6, Zenon DEF IsCarries, Residue, n
<1>. QED
  BY <1>7

\* The carries written are exact quotients by the base.
LEMMA CarriesWritten ==
    ASSUME NEW x \in Nat, NEW q, Ranged(q), NEW r, Ranged(r)
    PROVE  \E c : /\ c[0] = 0
                  /\ \A k \in 1..PRODUCT_LIMBS :
                       /\ c[k] = (Residue(x, q, r, k) + c[k - 1]) \div BASE
                       /\ compute_chain_carries(LimbsOf(x, INPUT_LIMBS), q, r)[k] = c[k]
<1>. DEFINE c == CHOOSE f : IsCarries(f, x, q, r)
            n == PRODUCT_LIMBS
            e(k) == IF k = 0 THEN 0 ELSE (Residue(x, q, r, k) + c[k - 1]) \div BASE
<1>1. IsCarries(c, x, q, r)
  BY CarriesExist, Zenon
<1>2. compute_chain_carries(LimbsOf(x, INPUT_LIMBS), q, r) = [k \in 1..n |-> c[k]]
  BY Zenon DEF compute_chain_carries, IsCarries
<1>. HIDE DEF c
<1>3. c = [k \in 0..n |-> e(k)]
  BY <1>1, Zenon DEF IsCarries, Residue
<1>4. \A k \in 0..n : c[k] = e(k)
  <2>. HIDE DEF e
  <2>. QED BY <1>3
<1>5. c[0] = 0 /\ \A k \in 1..n : c[k] = (Residue(x, q, r, k) + c[k - 1]) \div BASE
  BY <1>4, LimbCounts
<1>. QED
  BY <1>2, <1>5

\* One limb of L - 1 - r before the borrow out of it.
SlackTerm(r, k, borrow) == L_LIMBS_16[k] - (IF k = 1 THEN 1 ELSE 0) - r[k] - borrow
IsBorrow(f, r) ==
    f = [k \in 0..R_LIMBS |-> IF k = 0 THEN 0 ELSE IF SlackTerm(r, k, f[k - 1]) < 0 THEN 1 ELSE 0]

\* A step of the subtraction with borrow stays between two bases.
LEMMA SlackTermRange ==
    ASSUME NEW r, LimbChecked(r, R_LIMBS), NEW k \in 1..R_LIMBS, NEW b \in {0, 1}, k = 1 => b = 0
    PROVE  SlackTerm(r, k, b) \in Int /\ 0 - BASE <= SlackTerm(r, k, b) /\ SlackTerm(r, k, b) <= BASE - 1
<1>. DEFINE x == L_LIMBS_16[k]
            y == r[k]
            m == BASE - 1
<1>1. x \in 0..m /\ y \in 0..m /\ m \in Nat
  BY LimbsOfL, BaseIs DEF LimbChecked
<1>2. SlackTerm(r, k, b) = x - (IF k = 1 THEN 1 ELSE 0) - y - b /\ BASE = m + 1
  BY BaseIs DEF SlackTerm
<1>. HIDE DEF x, y, m
<1>. QED
  BY <1>1, <1>2

\* The recursion of the borrows has a solution.
LEMMA BorrowExists ==
    ASSUME NEW r
    PROVE  \E f : IsBorrow(f, r)
<1>. DEFINE n == R_LIMBS
            V == {0, 1}
            F == [p \in (1..n) \X V |-> IF SlackTerm(r, p[1], p[2]) < 0 THEN 1 ELSE 0]
<1>1. \A k \in 1..n, b \in V : F[<<k, b>>] = IF SlackTerm(r, k, b) < 0 THEN 1 ELSE 0
  OBVIOUS
<1>2. F \in Steps(n, V)
  BY DEF Steps
<1>3. n \in Nat /\ 0 \in V
  BY LimbCounts
<1>. HIDE DEF n, V, F
<1>4. PICK f : IsRun(f, n, V, 0, F)
  BY <1>2, <1>3, RunExists, Zenon
<1>. DEFINE e(k) == IF k = 0 THEN 0 ELSE IF SlackTerm(r, k, f[k - 1]) < 0 THEN 1 ELSE 0
<1>5. ASSUME NEW k \in 0..n PROVE f[k] = e(k)
  <2>1. CASE k = 0
    BY <1>4, <2>1 DEF IsRun
  <2>2. CASE k # 0
    <3>1. k \in 1..n /\ k - 1 \in 0..n
      BY <1>3, <2>2
    <3>2. f[k - 1] \in V /\ f[k] = F[<<k, f[k - 1]>>]
      BY <1>4, <3>1 DEF IsRun
    <3>. QED BY <1>1, <2>2, <3>1, <3>2, Zenon
  <2>. QED BY <2>1, <2>2
<1>6. f = [k \in 0..n |-> f[k]]
  BY <1>4 DEF IsRun
<1>7. f = [k \in 0..n |-> e(k)]
  <2>. HIDE DEF e
  <2>. QED BY <1>5, <1>6
<1>8. IsBorrow(f, r)
  BY <1>7, Zenon DEF IsBorrow, n
<1>. QED
  BY <1>8

\* The borrows of the slack are bits, and its limbs what the borrows leave.
LEMMA BorrowsAre ==
    ASSUME NEW r, LimbChecked(r, R_LIMBS)
    PROVE  \E b : /\ b[0] = 0 /\ \A k \in 0..R_LIMBS : b[k] \in {0, 1}
                  /\ \A k \in 1..R_LIMBS :
                       /\ b[k] = (IF SlackTerm(r, k, b[k - 1]) < 0 THEN 1 ELSE 0)
                       /\ compute_slack_limbs(r)[k] = SlackTerm(r, k, b[k - 1]) % BASE
                  /\ DOMAIN compute_slack_limbs(r) = 1..R_LIMBS
<1>. DEFINE b == CHOOSE f : IsBorrow(f, r)
            n == R_LIMBS
            e(k) == IF k = 0 THEN 0 ELSE IF SlackTerm(r, k, b[k - 1]) < 0 THEN 1 ELSE 0
<1>1. IsBorrow(b, r)
  BY BorrowExists, Zenon
<1>2. compute_slack_limbs(r) = [k \in 1..n |-> SlackTerm(r, k, b[k - 1]) % BASE]
  BY Zenon DEF compute_slack_limbs, IsBorrow, SlackTerm
<1>. HIDE DEF b
<1>3. b = [k \in 0..n |-> e(k)]
  BY <1>1, Zenon DEF IsBorrow
<1>4. \A k \in 0..n : b[k] = e(k)
  <2>. HIDE DEF e
  <2>. QED BY <1>3
<1>5. n \in Nat
  BY LimbCounts
<1>6. b[0] = 0 /\ \A k \in 1..n : b[k] = IF SlackTerm(r, k, b[k - 1]) < 0 THEN 1 ELSE 0
  <2>1. 0 \in 0..n /\ \A k \in 1..n : k \in 0..n /\ k # 0
    BY <1>5
  <2>. QED BY <1>4, <2>1, Zenon
<1>7. \A k \in 0..n : b[k] \in {0, 1}
  BY <1>4
<1>8. \A k \in 1..n : compute_slack_limbs(r)[k] = SlackTerm(r, k, b[k - 1]) % BASE
  BY <1>2
<1>9. DOMAIN compute_slack_limbs(r) = 1..n
  BY <1>2
<1>. QED
  BY <1>6, <1>7, <1>8, <1>9, Zenon

\* The slack makes r up to L - 1.
LEMMA SlackWritten ==
    ASSUME NEW r, LimbChecked(r, R_LIMBS), Value(r, R_LIMBS) < L
    PROVE  /\ LimbChecked(compute_slack_limbs(r), R_LIMBS)
           /\ Value(r, R_LIMBS) + Value(compute_slack_limbs(r), R_LIMBS) = L - 1
<1>. DEFINE n == R_LIMBS
            l == L_LIMBS_16
            s == compute_slack_limbs(r)
            one == [k \in 1..n |-> IF k = 1 THEN 1 ELSE 0]
            rs == [k \in 1..n |-> r[k] + 1 * s[k]]
            rest == [k \in 1..n |-> rs[k] + 1 * one[k]]
            m == 0 - 1
            d == [k \in 1..n |-> l[k] + m * rest[k]]
<1>0. n \in Nat \ {0} /\ BASE \in Nat \ {0}
  BY LimbCounts, BaseIs
<1>1. PICK b : /\ b[0] = 0 /\ \A k \in 0..n : b[k] \in {0, 1}
               /\ \A k \in 1..n : /\ b[k] = (IF SlackTerm(r, k, b[k - 1]) < 0 THEN 1 ELSE 0)
                                  /\ s[k] = SlackTerm(r, k, b[k - 1]) % BASE
               /\ DOMAIN s = 1..n
  BY BorrowsAre, Zenon
<1>2. ASSUME NEW k \in 1..n
      PROVE  /\ s[k] \in 0 .. BASE - 1 /\ l[k] \in Int /\ r[k] \in Int
             /\ l[k] - (IF k = 1 THEN 1 ELSE 0) - r[k] - b[k - 1] = s[k] - BASE * b[k]
  <2>. DEFINE t == SlackTerm(r, k, b[k - 1])
              a == BASE
  <2>1. k - 1 \in 0..n /\ (k = 1 => k - 1 = 0)
    <3>. HIDE DEF n
    <3>. QED BY <1>0
  <2>2. b[k - 1] \in {0, 1} /\ (k = 1 => b[k - 1] = 0)
    BY <1>1, <2>1
  <2>3. t \in Int /\ 0 - a <= t /\ t <= a - 1
    <3>. DEFINE c == b[k - 1]
    <3>1. c \in {0, 1} /\ (k = 1 => c = 0)
      BY <2>2
    <3>. HIDE DEF c
    <3>2. SlackTerm(r, k, c) \in Int /\ 0 - BASE <= SlackTerm(r, k, c) /\ SlackTerm(r, k, c) <= BASE - 1
      BY <3>1, SlackTermRange
    <3>. QED BY <3>2 DEF c
  <2>4. b[k] = (IF t < 0 THEN 1 ELSE 0) /\ s[k] = t % a
    BY <1>1, Zenon
  <2>5. a \in Nat \ {0}
    BY <1>0
  <2>6. t = s[k] - a * b[k] /\ s[k] \in 0 .. a - 1
    <3>. HIDE DEF t, a, s
    <3>1. CASE t < 0
      <4>1. t = a * (0 - 1) + (t + a) /\ t + a \in 0 .. a - 1 /\ 0 - 1 \in Int
        BY <2>3, <2>5, <3>1
      <4>. DEFINE e == 0 - 1  f == t + a
      <4>2. t = a * e + f /\ f \in 0 .. a - 1 /\ e \in Int
        BY <4>1
      <4>. HIDE DEF e, f
      <4>3. t % a = f
        BY <2>3, <2>5, <4>2, Quotient
      <4>4. s[k] = t + a /\ b[k] = 1
        BY <2>4, <3>1, <4>3 DEF f
      <4>. QED BY <2>3, <2>5, <4>1, <4>4
    <3>2. CASE ~ (t < 0)
      <4>1. t % a = t
        BY <2>3, <2>5, <3>2
      <4>2. s[k] = t /\ b[k] = 0 /\ a * 0 = 0
        BY <2>4, <2>5, <3>2, <4>1
      <4>. QED BY <2>3, <3>2, <4>2
    <3>. QED BY <3>1, <3>2
  <2>7. t = l[k] - (IF k = 1 THEN 1 ELSE 0) - r[k] - b[k - 1]
    BY DEF SlackTerm
  <2>8. l[k] \in Int /\ r[k] \in Int
    BY LimbsOfL, <1>0 DEF LimbChecked
  <2>. HIDE DEF t, l, s, a
  <2>. QED BY <2>6, <2>7, <2>8 DEF a
<1>3. LimbChecked(s, n)
  BY <1>1, <1>2 DEF LimbChecked
<1>4. \A k \in 1..n : /\ one[k] \in Int /\ rs[k] = r[k] + 1 * s[k] /\ rest[k] = rs[k] + 1 * one[k]
                      /\ d[k] = l[k] + m * rest[k] /\ one[k] = IF k = 1 THEN 1 ELSE 0
  OBVIOUS
<1>5. IntLimbs(r, n) /\ IntLimbs(s, n) /\ IntLimbs(l, n) /\ IntLimbs(one, n)
  <2>. HIDE DEF n, l, s, one
  <2>. QED BY <1>0, <1>2, <1>4 DEF IntLimbs
<1>m. m \in Int /\ m = 0 - 1
  OBVIOUS
<1>6. \A k \in 1..n : rs[k] \in Int /\ rest[k] \in Int /\ d[k] \in Int
  <2>. HIDE DEF n, l, s, one, rs, rest, d, m
  <2>. QED BY <1>4, <1>5, <1>m DEF IntLimbs
<1>7. IntLimbs(rs, n) /\ IntLimbs(rest, n) /\ IntLimbs(d, n)
  <2>. HIDE DEF n, rs, rest, d
  <2>. QED BY <1>6 DEF IntLimbs
<1>8. Value(one, n) = 1
  <2>1. Value(one, 0) = 0 /\ Value(one, 0 + 1) = Value(one, 0) + one[0 + 1] * BaseTo(0)
    <3>1. 0 \in 0 .. n - 1 /\ n \in Nat
      BY <1>0
    <3>. HIDE DEF one, n
    <3>. QED BY <1>5, <3>1, ValueStep
  <2>2. 0 + 1 = 1 /\ one[1] = 1 /\ BaseTo(0) = 1 /\ 1 * 1 = 1
    BY <1>0, BaseIs
  <2>3. Value(one, 1) = 1
    <3>. HIDE DEF one
    <3>. QED BY <2>1, <2>2
  <2>. DEFINE g == Weighted(one, n)
              f == Weighted(one, 1)
  <2>4. \A k \in 1..n : g[k] = IF k - 0 \in 1..1 THEN f[k - 0] ELSE 0
    <3>. SUFFICES ASSUME NEW k \in 1..n PROVE g[k] = IF k - 0 \in 1..1 THEN f[k - 0] ELSE 0
      OBVIOUS
    <3>1. k \in Int /\ k >= 1 /\ k - 1 \in Nat
      OBVIOUS
    <3>2. BaseTo(k - 1) \in Nat
      BY <3>1, BasePositive
    <3>3. g[k] = one[k] * BaseTo(k - 1) /\ (k = 1 => f[k] = one[k] * BaseTo(k - 1))
      BY DEF Weighted
    <3>4. k # 1 => one[k] = 0
      OBVIOUS
    <3>. HIDE DEF f, g, one
    <3>. QED BY <3>1, <3>2, <3>3, <3>4
  <2>5. \A k \in 1..1 : f[k] \in Int
    <3>. SUFFICES f[1] \in Int
      OBVIOUS
    <3>. QED BY <2>2 DEF Weighted
  <2>6. ShiftedBy(0, g, n, f, 1)
    BY <2>4, Zenon DEF ShiftedBy
  <2>7. 1 \in Nat /\ 0 \in Nat /\ n \in Nat /\ 1 + 0 <= n
    BY <1>0
  <2>. HIDE DEF f, g, n
  <2>8. SumTo(g, n) = SumTo(f, 1)
    BY <2>5, <2>6, <2>7, SumShifts
  <2>. QED BY <2>3, <2>8 DEF Value, f, g
<1>9. Value(d, n) = Value(l, n) + m * (Value(r, n) + Value(s, n) + 1)
      /\ Value(l, n) \in Int /\ Value(r, n) \in Int /\ Value(s, n) \in Int
  <2>. HIDE DEF n, l, s, one, rs, rest, d, m
  <2>0. n \in Nat /\ 1 \in Int
    BY <1>0
  <2>1. Value(rs, n) = Value(r, n) + 1 * Value(s, n) /\ Value(r, n) \in Int /\ Value(s, n) \in Int
    <3>1. Combined(rs, r, 1, s, n)
      BY <1>4, Zenon DEF Combined
    <3>. QED BY <1>5, <2>0, <3>1, ValueLinear
  <2>2. Value(rest, n) = Value(rs, n) + 1 * Value(one, n)
    <3>1. Combined(rest, rs, 1, one, n)
      BY <1>4, Zenon DEF Combined
    <3>. QED BY <1>5, <1>7, <2>0, <3>1, ValueLinear
  <2>3. Value(d, n) = Value(l, n) + m * Value(rest, n) /\ Value(l, n) \in Int
    <3>1. Combined(d, l, m, rest, n)
      BY <1>4, Zenon DEF Combined
    <3>. QED BY <1>5, <1>7, <1>m, <2>0, <3>1, ValueLinear
  <2>4. Value(rest, n) = Value(r, n) + Value(s, n) + 1
    BY <1>8, <2>1, <2>2
  <2>. QED BY <2>1, <2>3, <2>4
<1>. DEFINE c == [k \in 0..n |-> 0 - b[k]]
<1>10. CarriedBy(d, c, n)
  <2>1. c[0] = 0 /\ \A k \in 0..n : c[k] \in Int
    BY <1>0, <1>1
  <2>2. ASSUME NEW k \in 1..n PROVE d[k] + c[k - 1] = BASE * c[k]
    <3>1. k - 1 \in 0..n /\ k \in 0..n
      <4>. HIDE DEF n
      <4>. QED BY <1>0
    <3>. DEFINE x == l[k]  y == r[k]  z == s[k]  o == one[k]  e == b[k - 1]  f == b[k]  a == BASE
    <3>2. d[k] = x + m * ((y + 1 * z) + 1 * o) /\ o = IF k = 1 THEN 1 ELSE 0
      BY <1>4, Zenon
    <3>3. x - o - y - e = z - a * f /\ z \in 0 .. a - 1 /\ x \in Int /\ y \in Int
      BY <1>2, <3>2
    <3>4. c[k - 1] = 0 - e /\ c[k] = 0 - f /\ e \in {0, 1} /\ f \in {0, 1}
      BY <1>1, <3>1
    <3>5. a \in Nat \ {0} /\ o \in {0, 1}
      BY <1>0, <3>2
    <3>. HIDE DEF x, y, z, o, e, f, a, c, d, m
    <3>6. d[k] = x - y - z - o
      BY <1>m, <3>2, <3>3, <3>5
    <3>7. a * (0 - f) = 0 - a * f /\ a * f \in Int
      BY <3>4, <3>5
    <3>8. d[k] + c[k - 1] = a * (0 - f)
      BY <3>3, <3>4, <3>5, <3>6, <3>7
    <3>. QED BY <3>4, <3>8 DEF a
  <2>. HIDE DEF c, d
  <2>. QED BY <2>1, <2>2 DEF CarriedBy
<1>11. Value(d, n) = BaseTo(n) * c[n] /\ c[n] = 0 - b[n] /\ b[n] \in {0, 1}
  <2>1. n \in Nat /\ n \in 0..n
    BY <1>0
  <2>2. c[n] = 0 - b[n] /\ b[n] \in {0, 1}
    BY <1>1, <2>1
  <2>. HIDE DEF n, d, c
  <2>. QED BY <1>7, <1>10, <2>1, <2>2, ChainSums
<1>12. Value(s, n) \in 0 .. BaseTo(n) - 1 /\ Value(r, n) \in 0 .. BaseTo(n) - 1
       /\ BaseTo(n) \in Nat \ {0} /\ Value(l, n) = L /\ L \in Nat
  <2>1. n \in Nat
    BY <1>0
  <2>2. /\ \A i \in 1..n : s[i] \in 0 .. BASE - 1
        /\ \A i \in 1..n : r[i] \in 0 .. BASE - 1
    BY <1>3 DEF LimbChecked
  <2>3. Value(s, n) \in 0 .. BaseTo(n) - 1
    BY <2>1, <2>2, ValueBounds
  <2>4. Value(r, n) \in 0 .. BaseTo(n) - 1
    BY <2>1, <2>2, ValueBounds
  <2>. QED BY <2>1, <2>3, <2>4, BasePositive, LimbsOfL
<1>. DEFINE w == BaseTo(n)  vl == Value(l, n)  vr == Value(r, n)  vs == Value(s, n)
<1>13. Value(r, n) < L
  OBVIOUS
<1>14. L - (vr + vs + 1) = w * (0 - b[n]) /\ vr \in Int /\ vs \in Int /\ vr < L /\ vs < w /\ vs >= 0 /\ vr >= 0
       /\ w \in Nat \ {0} /\ L \in Nat
  <2>1. vr \in Int /\ vs \in Int /\ vr < L /\ vs < w /\ vs >= 0 /\ vr >= 0 /\ w \in Nat \ {0} /\ L \in Nat /\ vl = L
    <3>. HIDE DEF n, l, s
    <3>. QED BY <1>12, <1>13
  <2>2. Value(d, n) = vl + m * (vr + vs + 1) /\ Value(d, n) = w * (0 - b[n])
    BY <1>9, <1>11, Zenon
  <2>. HIDE DEF w, vl, vr, vs, d, m, n
  <2>3. vl + m * (vr + vs + 1) = L - (vr + vs + 1)
    BY <1>m, <2>1
  <2>. QED BY <2>1, <2>2, <2>3
<1>. HIDE DEF w, vr, vs
<1>15. b[n] = 0
  <2>. SUFFICES ASSUME b[n] = 1 PROVE FALSE
    BY <1>11
  <2>1. w * (0 - 1) = 0 - w
    BY <1>14
  <2>. QED BY <1>14, <2>1
<1>16. vr + vs = L - 1
  <2>1. w * (0 - 0) = 0
    BY <1>14
  <2>. QED BY <1>14, <1>15, <2>1
<1>. QED
  BY <1>3, <1>16 DEF vr, vs

\* The constraints accept what the code writes.
LEMMA FillComplete ==
    ASSUME NEW x \in 0 .. BaseTo(INPUT_LIMBS) - 1
    PROVE  LET w == fill_scalar_reduce_gadget(x)
           IN  /\ eval_scalar_reduce_gadget(LimbsOf(x, INPUT_LIMBS), w)
               /\ ValueOf(w.r) = x % L /\ ValueOf(w.r) + ValueOf(w.slack) = L - 1
<1>. DEFINE n == PRODUCT_LIMBS
            input == LimbsOf(x, INPUT_LIMBS)
            r == LimbsOf(x % L, R_LIMBS)
            q == LimbsOf(x \div L, Q_LIMBS)
            slack == compute_slack_limbs(r)
            cy == compute_chain_carries(input, q, r)
            w == fill_scalar_reduce_gadget(x)
            d == [k \in 1..n |-> Residue(x, q, r, k)]
<1>0. n \in Nat \ {0} /\ x \in Nat
  BY LimbCounts, InputIs
<1>1. LimbChecked(r, R_LIMBS) /\ Value(r, R_LIMBS) = x % L
  BY RemainderLimbs
<1>2. LimbChecked(q, Q_LIMBS) /\ Value(q, Q_LIMBS) = x \div L
  BY QuotientLimbs
<1>3. w = [q |-> q, r |-> r, slack |-> slack, cy |-> cy]
  <2>1. reduce_mod_l_wide(x) = x % L
    BY LongDivision
  <2>2. ValueOf(r) = x % L
    <3>1. ValueOf(r) = Value(r, R_LIMBS)
      BY Zenon DEF ValueOf, Value, Weighted
    <3>. QED BY <1>1, <3>1
  <2>3. compute_q_limbs(x, x % L) = q
    BY QuotientWritten
  <2>. QED BY <2>1, <2>2, <2>3, Zenon DEF fill_scalar_reduce_gadget
<1>4. Ranged(q) /\ Ranged(r)
  BY <1>1, <1>2 DEF LimbChecked, Ranged
<1>5. \A k \in 1..n : d[k] = Residue(x, q, r, k)
  OBVIOUS
<1>. HIDE DEF d, q, r, cy, slack, w
<1>6. PICK c : c[0] = 0 /\ \A k \in 1..n : c[k] = (Residue(x, q, r, k) + c[k - 1]) \div BASE /\ cy[k] = c[k]
  BY <1>0, <1>4, CarriesWritten DEF cy
<1>7. IntLimbs(d, n) /\ Value(d, n) = 0
  <2>1. IntLimbs(d, n) /\ Value(d, n) = x - L * Value(q, Q_LIMBS) - Value(r, R_LIMBS)
    BY <1>1, <1>2, <1>5, ResidueValue
  <2>. DEFINE e == L * (x \div L)  f == x % L
  <2>2. Value(d, n) = x - e - f
    BY <1>1, <1>2, <2>1
  <2>3. x = e + f /\ e \in Int /\ f \in Int
    <3>1. x \div L \in Nat /\ x % L \in 0 .. L - 1 /\ x = L * (x \div L) + (x % L)
      BY InputIs
    <3>2. L \in Nat
      BY LimbsOfL
    <3>. QED BY <3>1, <3>2
  <2>. HIDE DEF e, f
  <2>4. x - e - f = 0
    BY <2>3
  <2>. QED BY <2>1, <2>2, <2>4
<1>8. CarriedBy(d, c, n)
  <2>1. \A k \in 1..n : c[k] = (d[k] + c[k - 1]) \div BASE
    BY <1>5, <1>6
  <2>2. c[0] = 0 /\ n \in Nat
    BY <1>0, <1>6
  <2>. HIDE DEF n
  <2>. QED BY <1>7, <2>1, <2>2, CarriesExact
<1>9. \A k \in 0..n : c[k] \in Int /\ CarryChecked(c[k])
  <2>1. \A k \in 0..n : 0 - MostCarried <= c[k] /\ c[k] <= MostCarried
    <3>1. \A k \in 1..n : /\ d[k] \in Int /\ d[k] <= BASE - 1
                          /\ 0 - (R_LIMBS * ((BASE - 1) * (BASE - 1)) + (BASE - 1)) <= d[k]
      <4>. SUFFICES ASSUME NEW k \in 1..n
                    PROVE  /\ d[k] \in Int /\ d[k] <= BASE - 1
                           /\ 0 - (R_LIMBS * ((BASE - 1) * (BASE - 1)) + (BASE - 1)) <= d[k]
        OBVIOUS
      <4>1. k \in Int /\ d[k] = Residue(x, q, r, k)
        BY <1>5
      <4>. QED BY <1>0, <1>4, <4>1, ResidueRange
    <3>2. n \in Nat
      BY <1>0
    <3>. HIDE DEF n
    <3>. QED BY <1>8, <3>1, <3>2, CarryRange
  <2>. SUFFICES ASSUME NEW k \in 0..n PROVE c[k] \in Int /\ CarryChecked(c[k])
    OBVIOUS
  <2>2. c[k] \in Int
    BY <1>8 DEF CarriedBy
  <2>3. 0 - CARRY_OFFSET <= c[k] /\ c[k] <= CARRY_OFFSET - 1
    BY <2>1, <2>2, CarryRoom
  <2>4. CarryChecked(c[k])
    <3>. DEFINE e == c[k]
    <3>1. e \in Int /\ 0 - CARRY_OFFSET <= e /\ e <= CARRY_OFFSET - 1
      BY <2>2, <2>3
    <3>. HIDE DEF e
    <3>2. CarryChecked(e)
      BY <3>1, CarryCheckedIs
    <3>. QED BY <3>2 DEF e
  <2>. QED BY <2>2, <2>4
<1>10. ASSUME NEW k \in 1..n
       PROVE  /\ CarryChecked(cy[k])
              /\ ReduceLimbHolds(input, q, r, IF k = 1 THEN 0 ELSE cy[k - 1], cy[k], k)
  <2>1. k - 1 \in 0..n /\ k \in 0..n /\ k \in Int /\ (k = 1 => k - 1 = 0) /\ (k # 1 => k - 1 \in 1..n)
    <3>. HIDE DEF n
    <3>. QED BY <1>0
  <2>. DEFINE cin == c[k - 1]  cout == c[k]
  <2>2. cin \in Int /\ CarryChecked(cin) /\ cout \in Int /\ CarryChecked(cout)
    BY <1>9, <2>1
  <2>3. Residue(x, q, r, k) + cin = BASE * cout
    BY <1>5, <1>8 DEF CarriedBy
  <2>4. (IF k = 1 THEN 0 ELSE cy[k - 1]) = cin /\ cy[k] = cout
    BY <1>6, <2>1
  <2>. HIDE DEF cin, cout
  <2>5. ReduceLimbHolds(LimbsOf(x, INPUT_LIMBS), q, r, cin, cout, k)
    BY <1>0, <1>4, <2>1, <2>2, <2>3, LimbEquation
  <2>. QED BY <2>2, <2>4, <2>5, Zenon
<1>11. LimbChecked(slack, R_LIMBS) /\ Value(r, R_LIMBS) + Value(slack, R_LIMBS) = L - 1
  <2>1. Value(r, R_LIMBS) < L
    <3>1. x % L \in 0 .. L - 1 /\ L \in Nat
      BY InputIs, LimbsOfL
    <3>. QED BY <1>1, <3>1
  <2>. QED BY <1>1, <2>1, SlackWritten DEF slack
<1>12. eval_scalar_reduce_gadget(input, w)
  <2>1. w.q = q /\ w.r = r /\ w.slack = slack /\ w.cy = cy
    BY <1>3
  <2>. QED BY <1>1, <1>2, <1>10, <1>11, <2>1, Zenon DEF eval_scalar_reduce_gadget
<1>13. ValueOf(w.r) = Value(r, R_LIMBS) /\ ValueOf(w.slack) = Value(slack, R_LIMBS)
  <2>1. w.r = r /\ w.slack = slack
    BY <1>3
  <2>. QED BY <2>1, Zenon DEF ValueOf, Value, Weighted
<1>14. ValueOf(w.r) = x % L /\ ValueOf(w.r) + ValueOf(w.slack) = L - 1
  BY <1>1, <1>11, <1>13, Zenon
<1>. QED
  BY <1>12, <1>14, Zenon DEF w

----------------------------------------------------------------------------
(* The inductive invariant. *)

AtMost(i, j) == IF i <= j THEN i ELSE j

\* The cells a prover has written up to limb k keep the constraints so far.
WitnessSoFar(s) ==
    LET k == Len(s.cy)
    IN  /\ s.cy \in Seq(Int) /\ s.q \in Seq(0 .. BASE - 1) /\ s.r \in Seq(0 .. BASE - 1)
        /\ k <= PRODUCT_LIMBS /\ Len(s.q) = AtMost(k, Q_LIMBS) /\ Len(s.r) = AtMost(k, R_LIMBS)
        /\ \A i \in 1..k :
             /\ CarryChecked(s.cy[i])
             /\ ReduceLimbHolds(LimbsOf(s.x, INPUT_LIMBS), s.q, s.r,
                                IF i = 1 THEN 0 ELSE s.cy[i - 1], s.cy[i], i)

ScalarInd ==
    unit = "scalar" =>
      /\ st.x \in Digests /\ st.phase \in {"input", "limbs", "accepted", "filled"}
      /\ st.phase = "limbs" => WitnessSoFar(st) /\ Len(st.cy) < PRODUCT_LIMBS
      /\ st.phase = "accepted" => WitnessSoFar(st) /\ Len(st.cy) = PRODUCT_LIMBS
      /\ st.phase = "filled" => st.w = fill_scalar_reduce_gadget(st.x)

\* A digest fills the input limbs at most.
LEMMA DigestIn == ASSUME NEW x \in Digests PROVE x \in 0 .. BaseTo(INPUT_LIMBS) - 1
  BY ScalarAssumption

\* The invariant gives the property.
LEMMA IndIsExact == ScalarInd => ReduceExact
<1>. SUFFICES ASSUME ScalarInd, unit = "scalar"
              PROVE  /\ st.phase = "accepted" => ValueOf(st.r) % L = st.x % L
                     /\ st.phase = "filled" => /\ eval_scalar_reduce_gadget(LimbsOf(st.x, INPUT_LIMBS), st.w)
                                               /\ ValueOf(st.w.r) = st.x % L
                                               /\ ValueOf(st.w.r) + ValueOf(st.w.slack) = L - 1
  BY DEF ReduceExact
<1>1. st.x \in 0 .. BaseTo(INPUT_LIMBS) - 1
  BY DigestIn DEF ScalarInd
<1>2. ASSUME st.phase = "accepted" PROVE ValueOf(st.r) % L = st.x % L
  <2>1. WitnessSoFar(st) /\ Len(st.cy) = PRODUCT_LIMBS
    BY <1>2 DEF ScalarInd
  <2>2. R_LIMBS <= PRODUCT_LIMBS /\ Q_LIMBS <= PRODUCT_LIMBS
    BY LimbCounts
  <2>3. Len(st.q) = Q_LIMBS /\ Len(st.r) = R_LIMBS
    BY <2>1, <2>2, LimbCounts DEF WitnessSoFar, AtMost
  <2>4. LimbChecked(st.q, Q_LIMBS) /\ LimbChecked(st.r, R_LIMBS)
    <3>. DEFINE V == 0 .. BASE - 1
    <3>1. ASSUME NEW l \in Seq(V) PROVE DOMAIN l = 1..Len(l) /\ \A i \in 1..Len(l) : l[i] \in V
      <4>. HIDE DEF V
      <4>1. l \in [1..Len(l) -> V]
        OBVIOUS
      <4>. QED BY <4>1
    <3>2. st.q \in Seq(V) /\ st.r \in Seq(V)
      BY <2>1 DEF WitnessSoFar
    <3>. HIDE DEF V
    <3>3. \A l \in Seq(V) : LimbChecked(l, Len(l))
      BY <3>1, Zenon DEF LimbChecked, V
    <3>. QED BY <2>3, <3>2, <3>3
  <2>5. AcceptedCells(st.x, st.q, st.r, st.cy)
    BY <2>1, <2>4 DEF WitnessSoFar, AcceptedCells
  <2>6. Value(st.r, R_LIMBS) % L = st.x % L
    BY <1>1, <2>5, GadgetSound
  <2>7. ValueOf(st.r) = Value(st.r, R_LIMBS)
    BY Zenon DEF ValueOf, Value, Weighted
  <2>. QED BY <2>6, <2>7
<1>3. ASSUME st.phase = "filled"
      PROVE  /\ eval_scalar_reduce_gadget(LimbsOf(st.x, INPUT_LIMBS), st.w)
             /\ ValueOf(st.w.r) = st.x % L
             /\ ValueOf(st.w.r) + ValueOf(st.w.slack) = L - 1
  <2>1. st.w = fill_scalar_reduce_gadget(st.x)
    BY <1>3 DEF ScalarInd
  <2>. DEFINE w == fill_scalar_reduce_gadget(st.x)
  <2>2. /\ eval_scalar_reduce_gadget(LimbsOf(st.x, INPUT_LIMBS), w)
        /\ ValueOf(w.r) = st.x % L /\ ValueOf(w.r) + ValueOf(w.slack) = L - 1
    BY <1>1, FillComplete
  <2>. HIDE DEF w
  <2>3. st.w = w
    BY <2>1 DEF w
  <2>. QED BY <2>2, <2>3
<1>. QED
  BY <1>2, <1>3

\* A limb written behind the others leaves them where they are.
LEMMA AtAppended ==
    ASSUME NEW V, NEW l \in Seq(V), NEW v \in V, NEW k \in Int, k <= Len(l)
    PROVE  At(Append(l, v), k) = At(l, k)
<1>1. DOMAIN l = 1..Len(l) /\ DOMAIN Append(l, v) = 1 .. Len(l) + 1 /\ Len(l) \in Nat
  OBVIOUS
<1>2. k \in 1..Len(l) => Append(l, v)[k] = l[k]
  OBVIOUS
<1>3. k \in 1 .. Len(l) + 1 <=> k \in 1..Len(l)
  BY <1>1
<1>. QED
  BY <1>1, <1>2, <1>3 DEF At

\* Limb k of q * L needs only the limbs of q up to k.
LEMMA ProductAgrees ==
    ASSUME NEW q, NEW p, NEW k \in Int, \A i \in Int : i <= k => At(p, i) = At(q, i)
    PROVE  QTimesL(p, k) = QTimesL(q, k)
<1>. DEFINE f == [j \in 1..R_LIMBS |-> L_LIMBS_16[j] * At(p, k - j + 1)]
            g == [j \in 1..R_LIMBS |-> L_LIMBS_16[j] * At(q, k - j + 1)]
<1>1. \A j \in 1..R_LIMBS : f[j] = g[j]
  <2>. SUFFICES ASSUME NEW j \in 1..R_LIMBS PROVE At(p, k - j + 1) = At(q, k - j + 1)
    OBVIOUS
  <2>1. k - j + 1 \in Int /\ k - j + 1 <= k
    OBVIOUS
  <2>. QED BY <2>1
<1>2. R_LIMBS \in Nat
  BY LimbCounts
<1>. HIDE DEF f, g
<1>3. SumTo(f, R_LIMBS) = SumTo(g, R_LIMBS)
  BY <1>1, <1>2, SumAgree
<1>. QED
  BY <1>3 DEF QTimesL, f, g

\* The next limb keeps what the constraints said of the ones below.
LimbWritten(s, t, k, qk, rk, cout, q, r) ==
    /\ WitnessSoFar(s) /\ Len(s.cy) < PRODUCT_LIMBS /\ k = Len(s.cy) + 1
    /\ cout \in Int /\ CarryChecked(cout)
    /\ qk \in IF k <= Q_LIMBS THEN 0..(BASE - 1) ELSE {0}
    /\ rk \in IF k <= R_LIMBS THEN 0..(BASE - 1) ELSE {0}
    /\ q = IF k <= Q_LIMBS THEN Append(s.q, qk) ELSE s.q
    /\ r = IF k <= R_LIMBS THEN Append(s.r, rk) ELSE s.r
    /\ ReduceLimbHolds(LimbsOf(s.x, INPUT_LIMBS), q, r, IF k = 1 THEN 0 ELSE s.cy[k - 1], cout, k)
    /\ t.x = s.x /\ t.q = q /\ t.r = r /\ t.cy = Append(s.cy, cout)

\* A limb more keeps the constraints of the limbs written so far.
LEMMA LimbKeeps ==
    ASSUME NEW s, NEW t, NEW k, NEW qk, NEW rk, NEW cout, NEW q, NEW r,
           LimbWritten(s, t, k, qk, rk, cout, q, r)
    PROVE  WitnessSoFar(t) /\ Len(t.cy) = k /\ k <= PRODUCT_LIMBS
<1>. DEFINE V == 0 .. BASE - 1
            n == Len(s.cy)
            cy == s.cy
            new == Append(s.cy, cout)
<1>0. /\ cy \in Seq(Int) /\ s.q \in Seq(V) /\ s.r \in Seq(V) /\ n \in Nat /\ n < PRODUCT_LIMBS
      /\ Len(s.q) = AtMost(n, Q_LIMBS) /\ Len(s.r) = AtMost(n, R_LIMBS)
      /\ \A i \in 1..n :
           /\ CarryChecked(cy[i])
           /\ ReduceLimbHolds(LimbsOf(s.x, INPUT_LIMBS), s.q, s.r, IF i = 1 THEN 0 ELSE cy[i - 1], cy[i], i)
  BY DEF WitnessSoFar, LimbWritten
<1>1. Q_LIMBS \in Nat /\ R_LIMBS \in Nat /\ PRODUCT_LIMBS \in Nat /\ k \in Nat /\ k = n + 1 /\ k <= PRODUCT_LIMBS
  BY <1>0, LimbCounts DEF LimbWritten
<1>2. /\ k <= Q_LIMBS => qk \in V
      /\ k <= R_LIMBS => rk \in V
  BY DEF LimbWritten
<1>. HIDE DEF V, n, cy, new
<1>n. n \in Nat /\ k \in Nat /\ k = n + 1
  BY <1>0, <1>1
<1>w. /\ q = IF k <= Q_LIMBS THEN Append(s.q, qk) ELSE s.q
      /\ r = IF k <= R_LIMBS THEN Append(s.r, rk) ELSE s.r
  BY Zenon DEF LimbWritten
<1>c. /\ cout \in Int /\ CarryChecked(cout)
      /\ ReduceLimbHolds(LimbsOf(s.x, INPUT_LIMBS), q, r, IF k = 1 THEN 0 ELSE cy[k - 1], cout, k)
  BY Zenon DEF LimbWritten, cy
<1>3. q \in Seq(V) /\ Len(q) = AtMost(k, Q_LIMBS) /\ \A i \in Int : i <= n => At(q, i) = At(s.q, i)
  <2>1. CASE k <= Q_LIMBS
    <3>1. q = Append(s.q, qk) /\ qk \in V /\ Len(s.q) = n
      BY <1>0, <1>1, <1>2, <1>w, <2>1 DEF AtMost
    <3>2. q \in Seq(V) /\ Len(q) = n + 1
      BY <1>0, <3>1
    <3>3. \A i \in Int : i <= n => At(q, i) = At(s.q, i)
      BY <1>0, <3>1, AtAppended
    <3>. QED BY <1>1, <2>1, <3>2, <3>3 DEF AtMost
  <2>2. CASE ~ (k <= Q_LIMBS)
    <3>1. q = s.q /\ Len(s.q) = Q_LIMBS
      BY <1>0, <1>1, <1>w, <2>2 DEF AtMost
    <3>. QED BY <1>0, <1>1, <2>2, <3>1 DEF AtMost
  <2>. QED BY <2>1, <2>2
<1>4. r \in Seq(V) /\ Len(r) = AtMost(k, R_LIMBS) /\ \A i \in Int : i <= n => At(r, i) = At(s.r, i)
  <2>1. CASE k <= R_LIMBS
    <3>1. r = Append(s.r, rk) /\ rk \in V /\ Len(s.r) = n
      BY <1>0, <1>1, <1>2, <1>w, <2>1 DEF AtMost
    <3>2. r \in Seq(V) /\ Len(r) = n + 1
      BY <1>0, <3>1
    <3>3. \A i \in Int : i <= n => At(r, i) = At(s.r, i)
      BY <1>0, <3>1, AtAppended
    <3>. QED BY <1>1, <2>1, <3>2, <3>3 DEF AtMost
  <2>2. CASE ~ (k <= R_LIMBS)
    <3>1. r = s.r /\ Len(s.r) = R_LIMBS
      BY <1>0, <1>1, <1>w, <2>2 DEF AtMost
    <3>. QED BY <1>0, <1>1, <2>2, <3>1 DEF AtMost
  <2>. QED BY <2>1, <2>2
<1>5. new \in Seq(Int) /\ Len(new) = k /\ new[k] = cout /\ \A i \in 1..n : new[i] = cy[i]
  <2>1. new = Append(cy, cout) /\ n = Len(cy)
    BY DEF new, cy, n
  <2>. QED BY <1>0, <1>1, <1>c, <2>1
<1>6. ASSUME NEW i \in 1..k
      PROVE  /\ CarryChecked(new[i])
             /\ ReduceLimbHolds(LimbsOf(s.x, INPUT_LIMBS), q, r, IF i = 1 THEN 0 ELSE new[i - 1], new[i], i)
  <2>1. CASE i = k
    <3>1. k # 1 => new[k - 1] = cy[k - 1]
      <4>1. k # 1 => k - 1 \in 1..n
        BY <1>n
      <4>. QED BY <1>5, <4>1
    <3>2. CarryChecked(new[k])
      BY <1>5, <1>c
    <3>3. ReduceLimbHolds(LimbsOf(s.x, INPUT_LIMBS), q, r, IF k = 1 THEN 0 ELSE cy[k - 1], cout, k)
      BY <1>c
    <3>4. (IF k = 1 THEN 0 ELSE new[k - 1]) = (IF k = 1 THEN 0 ELSE cy[k - 1])
      BY <3>1
    <3>5. ReduceLimbHolds(LimbsOf(s.x, INPUT_LIMBS), q, r, IF k = 1 THEN 0 ELSE new[k - 1], new[k], k)
      BY <1>5, <3>3, <3>4, Zenon
    <3>. QED BY <2>1, <3>2, <3>5
  <2>2. CASE i # k
    <3>1. i \in 1..n /\ (i # 1 => i - 1 \in 1..n) /\ i \in Int /\ i <= n
      BY <1>n, <2>2
    <3>2. new[i] = cy[i] /\ (i # 1 => new[i - 1] = cy[i - 1])
      BY <1>5, <3>1
    <3>3. At(q, i) = At(s.q, i) /\ At(r, i) = At(s.r, i)
      BY <1>3, <1>4, <3>1
    <3>4. QTimesL(q, i) = QTimesL(s.q, i)
      <4>1. \A j \in Int : j <= i => At(q, j) = At(s.q, j)
        BY <1>0, <1>1, <1>3, <3>1
      <4>. QED BY <3>1, <4>1, ProductAgrees
    <3>. DEFINE cin == IF i = 1 THEN 0 ELSE cy[i - 1]
    <3>5. CarryChecked(cy[i]) /\ ReduceLimbHolds(LimbsOf(s.x, INPUT_LIMBS), s.q, s.r, cin, cy[i], i)
      BY <1>0, <3>1
    <3>6. (IF i = 1 THEN 0 ELSE new[i - 1]) = cin
      BY <3>2
    <3>. HIDE DEF cin
    <3>7. ReduceLimbHolds(LimbsOf(s.x, INPUT_LIMBS), q, r, cin, cy[i], i)
      BY <3>3, <3>4, <3>5, Zenon DEF ReduceLimbHolds
    <3>. QED BY <3>2, <3>5, <3>6, <3>7, Zenon
  <2>. QED BY <2>1, <2>2
<1>7. t.cy = new /\ t.q = q /\ t.r = r /\ t.x = s.x
  BY DEF LimbWritten, new
<1>8. /\ \A i \in 1..Len(t.cy) :
           /\ CarryChecked(t.cy[i])
           /\ ReduceLimbHolds(LimbsOf(t.x, INPUT_LIMBS), t.q, t.r, IF i = 1 THEN 0 ELSE t.cy[i - 1], t.cy[i], i)
      /\ Len(t.cy) = k
  BY <1>5, <1>6, <1>7, Zenon
<1>. QED
  BY <1>1, <1>3, <1>4, <1>5, <1>7, <1>8 DEF WitnessSoFar, V

\* The invariant holds of the digests.
LEMMA ScalarInitInd == ScalarInit => ScalarInd
  BY DEF ScalarInit, ScalarInd

\* Every step of the gadget keeps the invariant.
LEMMA ScalarStepInd == ScalarInd /\ [ScalarNext]_unitVars => ScalarInd'
<1>. SUFFICES ASSUME ScalarInd, [ScalarNext]_unitVars PROVE ScalarInd'
  OBVIOUS
<1>1. CASE ScalarFill
  BY <1>1 DEF ScalarFill, Move, ScalarInd
<1>2. CASE ScalarWitness
  <2>1. /\ unit = "scalar" /\ unit' = "scalar"
        /\ st' = [phase |-> "limbs", x |-> st.x, q |-> << >>, r |-> << >>, cy |-> << >>]
    BY <1>2 DEF ScalarWitness, Move
  <2>2. st.x \in Digests
    BY <2>1 DEF ScalarInd
  <2>3. st'.phase = "limbs" /\ st'.x = st.x /\ st'.q = << >> /\ st'.r = << >> /\ st'.cy = << >>
    BY <2>1
  <2>4. WitnessSoFar(st') /\ Len(st'.cy) < PRODUCT_LIMBS
    <3>1. Len(<< >>) = 0 /\ << >> \in Seq(Int) /\ << >> \in Seq(0 .. BASE - 1) /\ \A i \in 1..0 : FALSE
      OBVIOUS
    <3>2. AtMost(0, Q_LIMBS) = 0 /\ AtMost(0, R_LIMBS) = 0 /\ 0 < PRODUCT_LIMBS /\ 0 <= PRODUCT_LIMBS
      BY LimbCounts DEF AtMost
    <3>. QED BY <2>3, <3>1, <3>2 DEF WitnessSoFar
  <2>. QED BY <2>1, <2>2, <2>3, <2>4 DEF ScalarInd
<1>3. CASE ScalarLimb
  <2>. DEFINE k == Len(st.cy) + 1
              cin == IF k = 1 THEN 0 ELSE st.cy[k - 1]
              Q(qk) == IF k <= Q_LIMBS THEN Append(st.q, qk) ELSE st.q
              R(rk) == IF k <= R_LIMBS THEN Append(st.r, rk) ELSE st.r
  <2>1. PICK qk \in IF k <= Q_LIMBS THEN 0..(BASE - 1) ELSE {0},
             rk \in IF k <= R_LIMBS THEN 0..(BASE - 1) ELSE {0},
             cout \in {c - CARRY_OFFSET : c \in 0..(pow2(CARRY_BITS) - 1)} :
          /\ ReduceLimbHolds(LimbsOf(st.x, INPUT_LIMBS), Q(qk), R(rk), cin, cout, k)
          /\ Move("scalar", [phase |-> IF k = PRODUCT_LIMBS THEN "accepted" ELSE "limbs",
                             x |-> st.x, q |-> Q(qk), r |-> R(rk), cy |-> Append(st.cy, cout)])
    BY <1>3, Zenon DEF ScalarLimb
  <2>2. unit = "scalar" /\ st.phase = "limbs"
    BY <1>3 DEF ScalarLimb
  <2>. DEFINE q == Q(qk)
              r == R(rk)
  <2>3. cout \in Int /\ CarryChecked(cout)
    <3>1. CARRY_OFFSET \in Nat /\ pow2(CARRY_BITS) \in Nat
      BY CarryRoom
    <3>2. PICK c \in 0..(pow2(CARRY_BITS) - 1) : cout = c - CARRY_OFFSET
      OBVIOUS
    <3>3. cout \in Int /\ cout + CARRY_OFFSET = c
      BY <3>1, <3>2
    <3>. QED BY <3>3 DEF CarryChecked
  <2>4. WitnessSoFar(st) /\ Len(st.cy) < PRODUCT_LIMBS /\ st.x \in Digests
    BY <2>2 DEF ScalarInd
  <2>5. /\ unit' = "scalar" /\ st'.phase = (IF k = PRODUCT_LIMBS THEN "accepted" ELSE "limbs")
        /\ st'.x = st.x /\ st'.q = q /\ st'.r = r /\ st'.cy = Append(st.cy, cout)
    <3>. HIDE DEF k, q, r
    <3>. QED BY <2>1 DEF Move, q, r
  <2>6. WitnessSoFar(st') /\ Len(st'.cy) = k /\ k <= PRODUCT_LIMBS
    <3>. DEFINE s == st
                t == st'
    <3>1. q = (IF k <= Q_LIMBS THEN Append(s.q, qk) ELSE s.q) /\ r = (IF k <= R_LIMBS THEN Append(s.r, rk) ELSE s.r)
      OBVIOUS
    <3>2. ReduceLimbHolds(LimbsOf(s.x, INPUT_LIMBS), q, r, IF k = 1 THEN 0 ELSE s.cy[k - 1], cout, k)
      BY <2>1
    <3>3. k = Len(s.cy) + 1
      OBVIOUS
    <3>4. /\ qk \in IF k <= Q_LIMBS THEN 0..(BASE - 1) ELSE {0}
          /\ rk \in IF k <= R_LIMBS THEN 0..(BASE - 1) ELSE {0}
      OBVIOUS
    <3>5. t.x = s.x /\ t.q = q /\ t.r = r /\ t.cy = Append(s.cy, cout)
      BY <2>5
    <3>6. WitnessSoFar(s) /\ Len(s.cy) < PRODUCT_LIMBS
      BY <2>4
    <3>. HIDE DEF s, t, q, r, k
    <3>7. WitnessSoFar(t) /\ Len(t.cy) = k /\ k <= PRODUCT_LIMBS
      <4>1. LimbWritten(s, t, k, qk, rk, cout, q, r)
        BY <2>3, <3>1, <3>2, <3>3, <3>4, <3>5, <3>6, Zenon DEF LimbWritten
      <4>. QED BY <4>1, LimbKeeps, Zenon
    <3>. QED BY <3>7 DEF t
  <2>7. k # PRODUCT_LIMBS => k < PRODUCT_LIMBS
    <3>1. k \in Int /\ PRODUCT_LIMBS \in Int
      BY <2>4, LimbCounts DEF WitnessSoFar
    <3>. HIDE DEF k
    <3>. QED BY <2>6, <3>1
  <2>. HIDE DEF k, q, r
  <2>. QED BY <2>4, <2>5, <2>6, <2>7 DEF ScalarInd
<1>4. CASE UNCHANGED unitVars
  BY <1>4 DEF unitVars, ScalarInd, WitnessSoFar
<1>. QED
  BY <1>1, <1>2, <1>3, <1>4 DEF ScalarNext

\* The reduction modulo L is exact for every group order, limb size and
\* number of limbs: accepted cells hold the digest modulo L, and what the
\* fill function writes is accepted.
THEOREM Reduced == ScalarSpec => []ReduceExact
<1>1. ScalarInit => ScalarInd
  BY ScalarInitInd
<1>2. ScalarInd /\ [ScalarNext]_unitVars => ScalarInd'
  BY ScalarStepInd
<1>3. ScalarInd => ReduceExact
  BY IndIsExact
<1>. QED
  BY <1>1, <1>2, <1>3, PTL DEF ScalarSpec

----------------------------------------------------------------------------
(* Rows of the ML-DSA circuit: the modulus, bits and constraints. *)

\* Half of q: the largest residue that stands for itself.
HALF_Q == NUM_R1_VALUES * GAMMA2

\* The parameters as integers.
LEMMA RowParameters ==
    /\ GAMMA2 \in Nat \ {0} /\ TWO_G2 = 2 * GAMMA2 /\ TWO_G2 \in Nat \ {0}
    /\ NUM_R1_VALUES \in Nat /\ NUM_R1_VALUES >= 2
    /\ ML_Q = NUM_R1_VALUES * TWO_G2 + 1 /\ NUM_R1_VALUES * TWO_G2 = 2 * HALF_Q
    /\ HALF_Q \in Nat /\ HALF_Q >= 2 * GAMMA2 /\ HALF_Q >= NUM_R1_VALUES
    /\ ML_Q = 2 * HALF_Q + 1 /\ ML_Q \in Nat \ {0} /\ ML_Q \div 2 = HALF_Q
    /\ Residues = 0 .. ML_Q - 1
<1>. DEFINE g == GAMMA2  n == NUM_R1_VALUES
<1>1. g \in Nat \ {0} /\ TWO_G2 = 2 * g /\ n \in Nat /\ n >= 2 /\ ML_Q = n * TWO_G2 + 1 /\ HALF_Q = n * g
  BY RowsAssumption DEF TWO_G2, HALF_Q
<1>. HIDE DEF g, n
<1>2. n * TWO_G2 = 2 * (n * g) /\ n * g \in Nat
  <2>1. n * (2 * g) = 2 * (n * g)
    BY <1>1
  <2>. QED BY <1>1, <2>1
<1>3. n * g >= 2 * g /\ n * g >= n
  <2>1. (n - 2) * g >= 0 /\ (n - 2) * g = n * g - 2 * g
    BY <1>1
  <2>2. n * (g - 1) >= 0 /\ n * (g - 1) = n * g - n
    BY <1>1
  <2>3. n * g \in Nat
    BY <1>2
  <2>. DEFINE y == n * g
  <2>. HIDE DEF y
  <2>4. y \in Nat /\ y - 2 * g >= 0 /\ y - n >= 0
    BY <2>1, <2>2, <2>3 DEF y
  <2>. QED BY <1>1, <2>4 DEF y
<1>4. ML_Q = 2 * HALF_Q + 1 /\ HALF_Q \in Nat
  BY <1>1, <1>2
<1>. QED
  BY <1>1, <1>2, <1>3, <1>4 DEF Residues, g, n

\* The ranges, and the room below the native characteristic.
LEMMA RowRoom ==
    /\ R1_RANGE_BITS \in Nat /\ R0_ABS_RANGE_BITS \in Nat /\ W1_BITS \in Nat /\ NORM_RANGE_BITS \in Nat
    /\ pow2(R1_RANGE_BITS) \in Nat /\ pow2(R0_ABS_RANGE_BITS) \in Nat
    /\ pow2(W1_BITS) \in Nat /\ pow2(NORM_RANGE_BITS) \in Nat
    /\ NUM_R1_VALUES <= pow2(R1_RANGE_BITS) /\ NUM_R1_VALUES <= pow2(W1_BITS) /\ GAMMA2 < pow2(R0_ABS_RANGE_BITS)
    /\ Z_BOUND \in Nat /\ 1 <= Z_BOUND /\ Z_BOUND <= pow2(NORM_RANGE_BITS) /\ 2 * Z_BOUND <= ML_Q
    /\ pow2(R1_RANGE_BITS) * TWO_G2 \in Nat /\ pow2(R1_RANGE_BITS) <= pow2(R1_RANGE_BITS) * TWO_G2
    /\ NATIVE \in Nat \ {0}
    /\ NATIVE > 2 * (pow2(R1_RANGE_BITS) * TWO_G2 + ML_Q)
                  + 2 * (pow2(R0_ABS_RANGE_BITS) + pow2(W1_BITS) + pow2(NORM_RANGE_BITS))
<1>. DEFINE a == pow2(R1_RANGE_BITS)  b == pow2(R0_ABS_RANGE_BITS)  c == pow2(W1_BITS)  d == pow2(NORM_RANGE_BITS)
<1>1. R1_RANGE_BITS \in Nat /\ R0_ABS_RANGE_BITS \in Nat /\ W1_BITS \in Nat /\ NORM_RANGE_BITS \in Nat
  BY RowsAssumption
<1>2. a \in Nat \ {0} /\ b \in Nat \ {0} /\ c \in Nat \ {0} /\ d \in Nat \ {0}
  BY <1>1, PowPositive
<1>3. /\ NUM_R1_VALUES <= a /\ NUM_R1_VALUES <= c /\ GAMMA2 < b /\ Z_BOUND \in 1..d /\ 2 * Z_BOUND <= ML_Q
      /\ NATIVE \in Nat /\ NATIVE > 2 * (a * TWO_G2 + ML_Q) + 2 * (b + c + d)
  BY RowsAssumption
<1>. HIDE DEF a, b, c, d
<1>4. a * TWO_G2 \in Nat /\ a <= a * TWO_G2
  <2>1. a * (TWO_G2 - 1) >= 0 /\ a * (TWO_G2 - 1) = a * TWO_G2 - a /\ a * TWO_G2 \in Nat
    BY <1>2, RowParameters
  <2>. QED BY <1>2, <2>1
<1>5. Z_BOUND \in Nat /\ 1 <= Z_BOUND /\ Z_BOUND <= d /\ NATIVE # 0
  BY <1>2, <1>3, <1>4, RowParameters
<1>. QED
  BY <1>1, <1>2, <1>3, <1>4, <1>5 DEF a, b, c, d

\* The bit widths have room below the native characteristic.
LEMMA RangeRoom ==
    /\ R1_RANGE_BITS \in Nat /\ R0_ABS_RANGE_BITS \in Nat /\ W1_BITS \in Nat /\ NORM_RANGE_BITS \in Nat
    /\ pow2(R1_RANGE_BITS) \in Nat /\ pow2(R0_ABS_RANGE_BITS) \in Nat
    /\ pow2(W1_BITS) \in Nat /\ pow2(NORM_RANGE_BITS) \in Nat
    /\ NUM_R1_VALUES <= pow2(R1_RANGE_BITS) /\ NUM_R1_VALUES <= pow2(W1_BITS) /\ GAMMA2 < pow2(R0_ABS_RANGE_BITS)
    /\ Z_BOUND \in Nat /\ 1 <= Z_BOUND /\ Z_BOUND <= pow2(NORM_RANGE_BITS) /\ 2 * Z_BOUND <= ML_Q
    /\ 2 * pow2(R1_RANGE_BITS) + 2 * ML_Q < NATIVE /\ 2 * pow2(R0_ABS_RANGE_BITS) + 2 * ML_Q < NATIVE
    /\ 2 * pow2(W1_BITS) + 2 * ML_Q < NATIVE /\ 2 * pow2(NORM_RANGE_BITS) + 2 * ML_Q < NATIVE
    /\ NATIVE \in Nat \ {0}
<1>. DEFINE a == pow2(R1_RANGE_BITS)  b == pow2(R0_ABS_RANGE_BITS)  c == pow2(W1_BITS)  d == pow2(NORM_RANGE_BITS)
            x == a * TWO_G2
<1>1. /\ a \in Nat /\ b \in Nat /\ c \in Nat /\ d \in Nat /\ x \in Nat /\ a <= x
      /\ NUM_R1_VALUES <= a /\ NUM_R1_VALUES <= c /\ GAMMA2 < b /\ Z_BOUND <= d
      /\ NATIVE > 2 * (x + ML_Q) + 2 * (b + c + d)
  BY RowRoom
<1>2. ML_Q \in Nat /\ NATIVE \in Nat \ {0}
  BY RowRoom, RowParameters
<1>. HIDE DEF a, b, c, d, x
<1>3. 2 * a + 2 * ML_Q < NATIVE /\ 2 * b + 2 * ML_Q < NATIVE /\ 2 * c + 2 * ML_Q < NATIVE /\ 2 * d + 2 * ML_Q < NATIVE
  BY <1>1, <1>2
<1>. QED
  BY <1>1, <1>2, <1>3, RowRoom DEF a, b, c, d

\* A small expression vanishes only if it is zero.
LEMMA VanishesIs ==
    ASSUME NEW e \in Int, 0 - NATIVE < e, e < NATIVE
    PROVE  Vanishes(e) <=> e = 0
<1>1. NATIVE \in Nat \ {0}
  BY RowRoom
<1>2. ASSUME e % NATIVE = 0 PROVE e = 0
  BY <1>1, <1>2, SmallMultiple
<1>3. 0 % NATIVE = 0
  BY <1>1
<1>. QED
  BY <1>2, <1>3 DEF Vanishes

\* Zero and one are Boolean.
LEMMA BooleanBits == \A b \in {0, 1} : Boolean(b)
<1>1. 0 * (0 - 1) = 0 /\ 1 * (1 - 1) = 0
  OBVIOUS
<1>2. Vanishes(0)
  BY RowRoom, VanishesIs
<1>. QED
  BY <1>1, <1>2 DEF Boolean

\* The bits of a number add up to its remainder.
LEMMA BitsValue ==
    ASSUME NEW v \in Int, NEW n \in Nat
    PROVE  /\ BitSum(BitColumns(v, n), n) = v % pow2(n)
           /\ \A i \in 0 .. n - 1 : BitColumns(v, n)[i] \in {0, 1}
<1>. DEFINE f == [i \in 1..n |-> BitColumns(v, n)[i - 1] * pow2(i - 1)]
            Good(m) == SumTo(f, m) \in 0 .. pow2(m) - 1 /\ v = pow2(m) * (v \div pow2(m)) + SumTo(f, m)
            S == {m \in Nat : m <= n => Good(m)}
<1>1. 0 \in S
  <2>1. pow2(0) = 1 /\ SumTo(f, 0) = 0 /\ v \div 1 = v
    BY PowStep, SumStep
  <2>. QED BY <2>1
<1>2. ASSUME NEW m \in Nat, m \in S PROVE m + 1 \in S
  <2>. SUFFICES ASSUME m + 1 <= n PROVE Good(m + 1)
    OBVIOUS
  <2>. DEFINE p == pow2(m)  y == v \div p  b == y % 2  h == y \div 2  s == SumTo(f, m)
  <2>1. p \in Nat \ {0} /\ pow2(m + 1) = 2 * p
    BY PowPositive, PowStep
  <2>2. f[m + 1] = b * p
    <3>1. m + 1 \in 1..n /\ (m + 1) - 1 = m /\ m \in 0 .. n - 1
      OBVIOUS
    <3>2. BitColumns(v, n)[m] = b
      BY <3>1 DEF BitColumns
    <3>3. f[m + 1] = BitColumns(v, n)[(m + 1) - 1] * pow2((m + 1) - 1)
      BY <3>1
    <3>. QED BY <3>1, <3>2, <3>3
  <2>3. SumTo(f, m + 1) = s + b * p
    BY <2>2, SumStep
  <2>4. s \in 0 .. p - 1 /\ v = p * y + s
    <3>1. Good(m)
      BY <1>2
    <3>. QED BY <3>1
  <2>5. y \in Int /\ b \in {0, 1} /\ h \in Int /\ y = 2 * h + b
    <3>1. y \in Int
      BY <2>1, DivRule
    <3>. HIDE DEF y
    <3>. QED BY <3>1
  <2>. HIDE DEF f, p, y, b, h, s
  <2>6. s + b * p \in 0 .. 2 * p - 1 /\ v = (2 * p) * h + (s + b * p)
    <3>1. p * y = (2 * p) * h + b * p
      <4>1. p * (2 * h + b) = (2 * p) * h + b * p
        BY <2>1, <2>5
      <4>. QED BY <2>5, <4>1
    <3>2. b * p \in {0, p}
      BY <2>1, <2>5
    <3>3. s + b * p \in 0 .. 2 * p - 1
      BY <2>1, <2>4, <3>2
    <3>4. (2 * p) * h \in Int /\ b * p \in Int /\ s \in Int
      BY <2>1, <2>4, <2>5, <3>2
    <3>. QED BY <2>4, <3>1, <3>3, <3>4
  <2>7. v \div (2 * p) = h
    <3>1. 2 * p \in Nat \ {0}
      BY <2>1
    <3>. QED BY <2>5, <2>6, <3>1, Quotient
  <2>. QED BY <2>1, <2>3, <2>6, <2>7
<1>3. n \in S
  <2>1. Nat \subseteq S
    <3>. HIDE DEF S
    <3>. QED BY <1>1, <1>2, Induct
  <2>. QED BY <2>1
<1>4. BitSum(BitColumns(v, n), n) = v % pow2(n)
  <2>. DEFINE p == pow2(n)  s == SumTo(f, n)  y == v \div p
  <2>1. s \in 0 .. p - 1 /\ v = p * y + s
    BY <1>3
  <2>2. p \in Nat \ {0}
    BY PowPositive
  <2>3. y \in Int
    BY <2>2, DivRule
  <2>4. BitSum(BitColumns(v, n), n) = s
    BY DEF BitSum
  <2>. HIDE DEF f, p, s, y
  <2>5. v % p = s
    BY <2>1, <2>2, <2>3, Quotient
  <2>. QED BY <2>4, <2>5 DEF p
<1>5. ASSUME NEW i \in 0 .. n - 1 PROVE BitColumns(v, n)[i] \in {0, 1}
  <2>1. pow2(i) \in Nat \ {0}
    BY PowPositive
  <2>2. v \div pow2(i) \in Int
    BY <2>1, DivRule
  <2>. DEFINE y == v \div pow2(i)
  <2>3. BitColumns(v, n)[i] = y % 2
    BY DEF BitColumns
  <2>4. y \in Int
    BY <2>2
  <2>. HIDE DEF y
  <2>. QED BY <2>3, <2>4
<1>. QED
  BY <1>4, <1>5

\* Bits stand for a small value c only if it is the remainder they add up to.
LEMMA BitsOfOther ==
    ASSUME NEW v \in Int, NEW n \in Nat, NEW c \in Int, pow2(n) - NATIVE <= c, c < NATIVE
    PROVE  BitDecomposed(c, BitColumns(v, n), n) <=> c = v % pow2(n)
<1>. DEFINE p == pow2(n)  s == v % p
<1>1. p \in Nat \ {0}
  BY PowPositive
<1>2. s \in 0 .. p - 1
  BY <1>1, DivRule
<1>3. BitSum(BitColumns(v, n), n) = s /\ \A i \in 0..(n - 1) : Boolean(BitColumns(v, n)[i])
  BY BitsValue, BooleanBits
<1>4. BitDecomposed(c, BitColumns(v, n), n) <=> Vanishes(s - c)
  BY <1>3 DEF BitDecomposed
<1>. HIDE DEF s, p
<1>5. s - c \in Int /\ 0 - NATIVE < s - c /\ s - c < NATIVE
  BY <1>1, <1>2, RowRoom DEF p
<1>6. Vanishes(s - c) <=> s - c = 0
  BY <1>5, VanishesIs
<1>. QED
  BY <1>2, <1>4, <1>6 DEF s, p

\* The bits written for a value are accepted exactly if it is in range.
LEMMA BitsInRange ==
    ASSUME NEW v \in Int, NEW n \in Nat, pow2(n) - NATIVE <= v, v < NATIVE
    PROVE  BitDecomposed(v, BitColumns(v, n), n) <=> v \in RangeOf(n)
<1>1. pow2(n) \in Nat \ {0}
  BY PowPositive
<1>2. BitDecomposed(v, BitColumns(v, n), n) <=> v = v % pow2(n)
  BY BitsOfOther
<1>3. v % pow2(n) \in 0 .. pow2(n) - 1
  BY <1>1, DivRule
<1>4. ASSUME v \in 0 .. pow2(n) - 1 PROVE v % pow2(n) = v
  <2>1. v = pow2(n) * 0 + v
    BY <1>1
  <2>. QED BY <1>1, <1>4, <2>1, Quotient
<1>. QED
  BY <1>2, <1>3, <1>4 DEF RangeOf

----------------------------------------------------------------------------
(* Decompose: every residue splits into a high and a low part. *)

\* r is k * 2 gamma_2 + c modulo q, the top interval folded into k = 0.
IsSplit(r, k, c) ==
    /\ k \in 0 .. NUM_R1_VALUES - 1
    /\ \/ c \in 1 - GAMMA2 .. GAMMA2 /\ r = k * TWO_G2 + c
       \/ k = 0 /\ c \in 0 - GAMMA2 .. 0 - 1 /\ r = ML_Q + c

\* Multiples of 2 gamma_2 below q.
LEMMA HighRoom ==
    ASSUME NEW k \in 0 .. NUM_R1_VALUES
    PROVE  /\ k * TWO_G2 \in Nat /\ k * TWO_G2 <= 2 * HALF_Q
           /\ (k + 1) * TWO_G2 = k * TWO_G2 + TWO_G2 /\ (k - 1) * TWO_G2 = k * TWO_G2 - TWO_G2
           /\ k < NUM_R1_VALUES => k * TWO_G2 + TWO_G2 <= 2 * HALF_Q
<1>. DEFINE n == NUM_R1_VALUES  t == TWO_G2
<1>1. n \in Nat /\ t \in Nat \ {0} /\ n * t = 2 * HALF_Q /\ k \in Nat /\ k <= n
  BY RowParameters
<1>. HIDE DEF n, t
<1>2. k * t \in Nat /\ (k + 1) * t = k * t + t /\ (k - 1) * t = k * t - t
  BY <1>1
<1>3. (n - k) * t = n * t - k * t /\ (n - k) * t >= 0 /\ n * t \in Nat
  BY <1>1
<1>4. ASSUME k < n PROVE k * t + t <= n * t
  <2>1. (n - (k + 1)) * t >= 0 /\ (n - (k + 1)) * t = n * t - (k + 1) * t
    BY <1>1, <1>4
  <2>. DEFINE x == k * t  y == n * t  z == (k + 1) * t
  <2>2. x \in Nat /\ y \in Nat /\ z = x + t /\ y - z >= 0
    BY <1>2, <1>3, <2>1
  <2>. HIDE DEF x, y, z
  <2>3. x + t <= y
    BY <1>1, <2>2
  <2>. QED BY <2>3 DEF x, y
<1>. DEFINE x == k * t  y == n * t
<1>5. x \in Nat /\ y \in Nat /\ y - x >= 0
  BY <1>2, <1>3
<1>. HIDE DEF x, y
<1>6. x <= y
  BY <1>5
<1>. QED
  BY <1>1, <1>2, <1>4, <1>6 DEF x, y, n, t

\* The rounded quotient and the centred remainder.
LEMMA HighIs ==
    ASSUME NEW k \in Int, NEW c \in 1 - GAMMA2 .. GAMMA2
    PROVE  Centred(k * TWO_G2 + c) = c /\ HighPart(k * TWO_G2 + c) = k
<1>. DEFINE g == GAMMA2  t == TWO_G2  r == k * t + c
<1>1. g \in Nat \ {0} /\ t = 2 * g /\ t \in Nat \ {0} /\ c \in 1 - g .. g
  BY RowParameters
<1>2. Centred(r) = (IF r % t > g THEN (r % t) - t ELSE r % t) /\ HighPart(r) = (r - Centred(r)) \div t
  BY DEF Centred, HighPart
<1>. HIDE DEF g, t
<1>3. k * t \in Int /\ k * t = t * k /\ (k - 1) * t = k * t - t /\ (k - 1) * t = t * (k - 1)
  BY <1>1
<1>4. Centred(r) = c
  <2>1. CASE c >= 0
    <3>1. r \in Int /\ r = t * k + c /\ c \in 0 .. t - 1
      BY <1>1, <1>3, <2>1
    <3>. HIDE DEF r
    <3>2. r % t = c
      BY <1>1, <3>1, Quotient
    <3>. QED BY <1>1, <1>2, <3>2
  <2>2. CASE c < 0
    <3>1. r \in Int /\ r = t * (k - 1) + (c + t) /\ c + t \in 0 .. t - 1 /\ k - 1 \in Int
      <4>. DEFINE x == k * t  y == t * (k - 1)
      <4>1. x \in Int /\ y = x - t /\ r = x + c
        BY <1>3
      <4>. HIDE DEF x, y
      <4>2. r \in Int /\ r = y + (c + t)
        BY <1>1, <4>1
      <4>. QED BY <1>1, <2>2, <4>2 DEF y
    <3>. HIDE DEF r
    <3>2. r % t = c + t
      BY <1>1, <3>1, Quotient
    <3>3. c + t > g
      BY <1>1
    <3>. QED BY <1>1, <1>2, <3>2, <3>3
  <2>. QED BY <1>1, <2>1, <2>2
<1>5. r - c = k * t
  BY <1>1, <1>3
<1>6. (k * t) \div t = k
  BY <1>1, DivExact
<1>. QED
  BY <1>2, <1>4, <1>5, <1>6 DEF t

\* Every residue splits.
LEMMA SplitExists ==
    ASSUME NEW r \in Residues
    PROVE  \E k, c \in Int : IsSplit(r, k, c)
<1>. DEFINE g == GAMMA2  n == NUM_R1_VALUES  t == TWO_G2  m == r % t  q == r \div t
<1>1. /\ g \in Nat \ {0} /\ t = 2 * g /\ t \in Nat \ {0} /\ n \in Nat /\ n >= 2
      /\ n * t \in Nat /\ ML_Q = n * t + 1 /\ r \in Nat /\ r <= n * t
  <2>1. n * t = 2 * HALF_Q /\ HALF_Q \in Nat
    BY RowParameters
  <2>. QED BY <2>1, RowParameters
<1>2. q \in Int /\ m \in 0 .. t - 1 /\ r = q * t + m
  <2>1. q \in Int /\ m \in 0 .. t - 1 /\ r = t * q + m
    <3>1. r \in Int /\ t \in Nat \ {0}
      BY <1>1
    <3>. HIDE DEF t
    <3>. QED BY <3>1, DivRule
  <2>. HIDE DEF q, m, t
  <2>. QED BY <1>1, <2>1
<1>. HIDE DEF g, n, t, m, q
<1>3. q >= 0
  <2>. SUFFICES ASSUME q < 0 PROVE FALSE
    BY <1>2
  <2>1. (0 - (q + 1)) * t >= 0 /\ (0 - (q + 1)) * t = 0 - (q * t + t) /\ q * t \in Int
    BY <1>1, <1>2
  <2>. HIDE DEF n
  <2>2. q * t + t <= 0
    BY <1>1, <2>1
  <2>. QED BY <1>1, <1>2, <2>1, <2>2
<1>4. q <= n /\ (q = n => m = 0)
  <2>1. q <= n
    <3>. SUFFICES ASSUME q > n PROVE FALSE
      BY <1>1, <1>2
    <3>1. (q - (n + 1)) * t >= 0 /\ (q - (n + 1)) * t = q * t - (n * t + t) /\ q * t \in Int
      BY <1>1, <1>2
    <3>. DEFINE x == q * t  y == n * t
    <3>2. x \in Int /\ y \in Nat /\ x - (y + t) >= 0 /\ r = x + m /\ r <= y
      BY <1>1, <1>2, <3>1
    <3>. HIDE DEF x, y
    <3>. QED BY <1>1, <1>2, <3>2
  <2>2. q = n => m = 0
    BY <1>1, <1>2
  <2>. QED BY <2>1, <2>2
<1>5. q * t \in Int /\ (q + 1) * t = q * t + t
  BY <1>1, <1>2
<1>6. CASE m <= g /\ q < n
  <2>1. q \in 0 .. n - 1 /\ m \in 1 - g .. g /\ q \in Int /\ m \in Int
    BY <1>1, <1>2, <1>3, <1>6
  <2>2. IsSplit(r, q, m)
    BY <1>2, <2>1 DEF IsSplit, g, n, t
  <2>. QED BY <2>1, <2>2
<1>7. CASE m <= g /\ ~ (q < n)
  <2>1. q = n /\ m = 0 /\ r = n * t
    BY <1>1, <1>2, <1>4, <1>7
  <2>2. r = ML_Q + (0 - 1) /\ 0 - 1 \in 0 - g .. 0 - 1 /\ 0 \in 0 .. n - 1
    <3>. DEFINE y == n * t
    <3>. HIDE DEF y
    <3>1. y \in Nat /\ ML_Q = y + 1 /\ r = y
      BY <1>1, <2>1 DEF y
    <3>. QED BY <1>1, <3>1
  <2>3. IsSplit(r, 0, 0 - 1)
    BY <2>2 DEF IsSplit, g, n
  <2>. QED BY <2>3
<1>8. CASE m > g /\ q + 1 < n
  <2>1. q + 1 \in 0 .. n - 1 /\ m - t \in 1 - g .. g /\ r = (q + 1) * t + (m - t) /\ q + 1 \in Int /\ m - t \in Int
    <3>. DEFINE x == q * t  y == (q + 1) * t
    <3>1. x \in Int /\ y = x + t /\ r = x + m
      BY <1>2, <1>5
    <3>. HIDE DEF x, y
    <3>2. r = y + (m - t)
      BY <1>1, <1>2, <3>1
    <3>. QED BY <1>1, <1>2, <1>3, <1>8, <3>2 DEF y
  <2>2. IsSplit(r, q + 1, m - t)
    BY <2>1 DEF IsSplit, g, n, t
  <2>. QED BY <2>1, <2>2
<1>9. CASE m > g /\ ~ (q + 1 < n)
  <2>1. q + 1 = n
    BY <1>1, <1>2, <1>4, <1>9
  <2>2. r = ML_Q + ((m - t) - 1) /\ (m - t) - 1 \in 0 - g .. 0 - 1 /\ 0 \in 0 .. n - 1 /\ (m - t) - 1 \in Int
    <3>. DEFINE x == q * t  y == n * t
    <3>1. x \in Int /\ y \in Nat /\ y = x + t /\ r = x + m /\ ML_Q = y + 1
      BY <1>1, <1>2, <1>5, <2>1
    <3>. HIDE DEF x, y
    <3>. QED BY <1>1, <1>2, <1>9, <3>1
  <2>3. IsSplit(r, 0, (m - t) - 1)
    BY <2>2 DEF IsSplit, g, n
  <2>. QED BY <2>2, <2>3
<1>. QED
  BY <1>1, <1>2, <1>6, <1>7, <1>8, <1>9

\* Representatives of small numbers.
LEMMA LiftSigned ==
    ASSUME NEW c \in 0 - HALF_Q .. HALF_Q
    PROVE  /\ lift_signed(c) \in Residues /\ to_signed(lift_signed(c)) = c
           /\ lift_signed(c) > ML_Q \div 2 <=> c < 0
           /\ lift_signed(c) \in 1..(ML_Q \div 2) <=> c > 0
<1>1. ML_Q = 2 * HALF_Q + 1 /\ HALF_Q \in Nat /\ ML_Q \div 2 = HALF_Q /\ Residues = 0 .. ML_Q - 1
  BY RowParameters
<1>2. lift_signed(c) = IF c >= 0 THEN c ELSE c + ML_Q
  BY DEF lift_signed
<1>3. to_signed(lift_signed(c)) = IF lift_signed(c) > HALF_Q THEN lift_signed(c) - ML_Q ELSE lift_signed(c)
  BY <1>1 DEF to_signed
<1>. QED
  BY <1>1, <1>2, <1>3

\* decompose finds the split.
LEMMA SplitDecompose ==
    ASSUME NEW r \in Residues, NEW k \in Int, NEW c \in Int, IsSplit(r, k, c)
    PROVE  /\ decompose(r) = [r1 |-> k, r0 |-> lift_signed(c)]
           /\ HighPart(r) = NUM_R1_VALUES <=> r # k * TWO_G2 + c
           /\ k \in 0 .. NUM_R1_VALUES - 1 /\ c \in 0 - GAMMA2 .. GAMMA2 /\ c \in 0 - HALF_Q .. HALF_Q
           /\ r = k * TWO_G2 + c \/ (k = 0 /\ c < 0 /\ r = ML_Q + c)
           /\ k = 0 /\ r = k * TWO_G2 + c => c >= 0
<1>. DEFINE g == GAMMA2  n == NUM_R1_VALUES  t == TWO_G2
<1>1. /\ g \in Nat \ {0} /\ n \in Nat /\ n >= 2 /\ t \in Nat \ {0} /\ n * t \in Nat /\ ML_Q = n * t + 1
      /\ HALF_Q \in Nat /\ HALF_Q >= 2 * g /\ r \in Nat
  <2>1. n * t = 2 * HALF_Q /\ HALF_Q \in Nat
    BY RowParameters
  <2>. QED BY <2>1, RowParameters
<1>2. k \in 0 .. n - 1
  BY DEF IsSplit
<1>3. CASE c \in 1 - g .. g /\ r = k * t + c
  <2>1. HighPart(r) = k /\ Centred(r) = c
    BY <1>3, HighIs
  <2>. HIDE DEF g, n, t
  <2>2. k # n
    BY <1>1, <1>2
  <2>3. decompose(r) = [r1 |-> k, r0 |-> lift_signed(c)]
    BY <2>1, <2>2 DEF decompose, n
  <2>4. k = 0 => k * t = 0
    BY <1>1
  <2>5. c \in 0 - g .. g /\ c \in 0 - HALF_Q .. HALF_Q /\ (k = 0 => c >= 0)
    BY <1>1, <1>3, <2>4
  <2>. QED BY <1>2, <1>3, <2>1, <2>2, <2>3, <2>5 DEF g, n, t
<1>4. CASE k = 0 /\ c \in 0 - g .. 0 - 1 /\ r = ML_Q + c
  <2>. HIDE DEF g, n, t
  <2>1. r = n * t + (c + 1) /\ c + 1 \in 1 - g .. g /\ n \in Int
    BY <1>1, <1>4
  <2>2. HighPart(r) = n /\ Centred(r) = c + 1
    BY <2>1, HighIs DEF g, n, t
  <2>3. (c + 1) - 1 = c /\ c \in 0 - g .. g /\ c \in 0 - HALF_Q .. HALF_Q /\ c < 0
    BY <1>1, <1>4
  <2>4. decompose(r) = [r1 |-> 0, r0 |-> lift_signed(c)]
    BY <2>2, <2>3 DEF decompose, n
  <2>5. r # k * t + c
    <3>1. k * t = 0
      BY <1>1, <1>4
    <3>2. r # 0 + c
      BY <1>1, <2>3
    <3>. QED BY <3>1, <3>2
  <2>. QED BY <1>2, <1>4, <2>2, <2>3, <2>4, <2>5 DEF g, n, t
<1>. QED
  BY <1>3, <1>4 DEF IsSplit

\* The bits of a number in range are accepted.
LEMMA BitsHeld ==
    ASSUME NEW n \in Nat, NEW v \in 0 .. pow2(n) - 1, pow2(n) < NATIVE
    PROVE  BitDecomposed(v, BitColumns(v, n), n)
<1>1. pow2(n) \in Nat \ {0} /\ NATIVE \in Nat
  BY PowPositive, RowRoom
<1>. DEFINE p == pow2(n)
<1>. HIDE DEF p
<1>2. v \in Int /\ p - NATIVE <= v /\ v < NATIVE /\ v \in 0 .. p - 1
  BY <1>1 DEF p
<1>. QED
  BY <1>2, BitsInRange DEF p, RangeOf

\* The row that is filled for a split residue.
LEMMA FilledDecomposition ==
    ASSUME NEW r \in Residues, NEW k \in Int, NEW c \in Int, IsSplit(r, k, c)
    PROVE  fill_decompose(r) = DecomposeRow(r, k, lift_signed(c), IF c < 0 THEN 1 ELSE 0,
                                            IF c < 0 THEN 0 - c ELSE c, IF r = k * TWO_G2 + c THEN 0 ELSE 1)
<1>1. /\ decompose(r) = [r1 |-> k, r0 |-> lift_signed(c)]
      /\ HighPart(r) = NUM_R1_VALUES <=> r # k * TWO_G2 + c
      /\ c \in 0 - HALF_Q .. HALF_Q
  BY SplitDecompose
<1>2. decompose(r).r1 = k /\ decompose(r).r0 = lift_signed(c)
  BY <1>1
<1>3. lift_signed(c) > ML_Q \div 2 <=> c < 0
  BY <1>1, LiftSigned
<1>4. (IF c < 0 THEN ML_Q - lift_signed(c) ELSE lift_signed(c)) = IF c < 0 THEN 0 - c ELSE c
  BY RowParameters DEF lift_signed
<1>. DEFINE d == decompose(r)
            sign == IF d.r0 > ML_Q \div 2 THEN 1 ELSE 0
            abs == IF sign = 1 THEN ML_Q - d.r0 ELSE d.r0
            snap == IF HighPart(r) = NUM_R1_VALUES THEN 1 ELSE 0
<1>5. fill_decompose(r) = DecomposeRow(r, d.r1, d.r0, sign, abs, snap)
  BY DEF fill_decompose
<1>6. d.r1 = k /\ d.r0 = lift_signed(c) /\ sign = IF c < 0 THEN 1 ELSE 0
  BY <1>2, <1>3
<1>7. snap = IF r = k * TWO_G2 + c THEN 0 ELSE 1
  BY <1>1
<1>. HIDE DEF d, snap
<1>8. abs = IF c < 0 THEN 0 - c ELSE c
  BY <1>4, <1>6
<1>. HIDE DEF sign, abs
<1>. QED
  BY <1>5, <1>6, <1>7, <1>8

\* That row is accepted.
LEMMA DecompositionAccepted ==
    ASSUME NEW r \in Residues, NEW k \in Int, NEW c \in Int, IsSplit(r, k, c)
    PROVE  eval_decompose(fill_decompose(r))
<1>. DEFINE sign == IF c < 0 THEN 1 ELSE 0
            abs == IF c < 0 THEN 0 - c ELSE c
            snap == IF r = k * TWO_G2 + c THEN 0 ELSE 1
            w == DecomposeRow(r, k, lift_signed(c), sign, abs, snap)
<1>1. fill_decompose(r) = w
  BY FilledDecomposition
<1>2. /\ w.r = r /\ w.r1 = k /\ w.r0 = lift_signed(c) /\ w.r0_sign = sign /\ w.r0_abs = abs /\ w.snap = snap
      /\ w.r1_bits = BitColumns(k, R1_RANGE_BITS) /\ w.r0_abs_bits = BitColumns(abs, R0_ABS_RANGE_BITS)
  BY DEF DecomposeRow
<1>3. /\ k \in 0 .. NUM_R1_VALUES - 1 /\ c \in 0 - GAMMA2 .. GAMMA2
      /\ r = k * TWO_G2 + c \/ (k = 0 /\ c < 0 /\ r = ML_Q + c)
  BY SplitDecompose
<1>. HIDE DEF w
<1>4. k \in 0 .. pow2(R1_RANGE_BITS) - 1 /\ abs \in 0 .. pow2(R0_ABS_RANGE_BITS) - 1
  <2>1. /\ GAMMA2 \in Nat /\ NUM_R1_VALUES \in Nat /\ NUM_R1_VALUES <= pow2(R1_RANGE_BITS)
        /\ GAMMA2 < pow2(R0_ABS_RANGE_BITS) /\ pow2(R1_RANGE_BITS) \in Nat /\ pow2(R0_ABS_RANGE_BITS) \in Nat
    BY RangeRoom, RowParameters
  <2>. QED BY <1>3, <2>1
<1>5. pow2(R1_RANGE_BITS) < NATIVE /\ pow2(R0_ABS_RANGE_BITS) < NATIVE
  <2>1. ML_Q \in Nat
    BY RowParameters
  <2>. QED BY <2>1, RangeRoom
<1>6. BitDecomposed(k, BitColumns(k, R1_RANGE_BITS), R1_RANGE_BITS)
  BY <1>4, <1>5, BitsHeld, RowRoom
<1>7. BitDecomposed(abs, BitColumns(abs, R0_ABS_RANGE_BITS), R0_ABS_RANGE_BITS)
  <2>. HIDE DEF abs
  <2>. QED BY <1>4, <1>5, BitsHeld, RowRoom
<1>8. Boolean(sign) /\ Boolean(snap)
  BY BooleanBits
<1>9. (1 - sign) * abs + sign * (ML_Q - abs) - lift_signed(c) = 0
  <2>1. ML_Q \in Int
    BY RowParameters
  <2>2. CASE c < 0
    <3>1. sign = 1 /\ abs = 0 - c /\ lift_signed(c) = c + ML_Q
      BY <2>2 DEF lift_signed
    <3>. QED BY <2>1, <3>1
  <2>3. CASE ~ (c < 0)
    <3>1. sign = 0 /\ abs = c /\ lift_signed(c) = c
      BY <2>3 DEF lift_signed
    <3>. QED BY <2>1, <3>1
  <2>. QED BY <2>2, <2>3
<1>10. k * TWO_G2 + lift_signed(c) + (snap - sign) * ML_Q - r = 0
  <2>1. ML_Q \in Int /\ k * TWO_G2 \in Int /\ 0 * TWO_G2 = 0
    BY RowParameters
  <2>. DEFINE x == k * TWO_G2
  <2>2. CASE r = x + c
    <3>1. snap = 0 /\ lift_signed(c) = IF c < 0 THEN c + ML_Q ELSE c
      BY <2>2 DEF lift_signed
    <3>2. (0 - sign) * ML_Q = IF c < 0 THEN 0 - ML_Q ELSE 0
      BY <2>1
    <3>. HIDE DEF x, sign
    <3>. QED BY <2>1, <2>2, <3>1, <3>2 DEF x
  <2>3. CASE ~ (r = x + c)
    <3>1. x = 0 /\ c < 0 /\ r = ML_Q + c
      BY <1>3, <2>1, <2>3
    <3>2. snap = 1 /\ sign = 1 /\ lift_signed(c) = c + ML_Q
      BY <2>3, <3>1 DEF lift_signed
    <3>3. (snap - sign) * ML_Q = 0
      BY <2>1, <3>2
    <3>. HIDE DEF x, sign, snap
    <3>. QED BY <2>1, <3>1, <3>2, <3>3 DEF x
  <2>. QED BY <2>2, <2>3
<1>11. Vanishes(0)
  BY VanishesIs, RowRoom
<1>. HIDE DEF sign, abs, snap
<1>12. eval_decompose(w)
  BY <1>2, <1>6, <1>7, <1>8, <1>9, <1>10, <1>11 DEF eval_decompose
<1>. QED
  BY <1>1, <1>12

\* Every row that is accepted recomposes to r.
LEMMA DecompositionSound ==
    ASSUME NEW r \in Residues, NEW w \in AnyDecomposition(r)
    PROVE  (w.r1 * TWO_G2 + to_signed(w.r0) - r) % ML_Q = 0
<1>1. PICK r1 \in RangeOf(R1_RANGE_BITS), r0 \in Residues, abs \in RangeOf(R0_ABS_RANGE_BITS), sign \in {0, 1}, snap \in {0, 1} :
        w = DecomposeRow(r, r1, r0, sign, abs, snap) /\ eval_decompose(w)
  BY DEF AnyDecomposition
<1>2. w.r = r /\ w.r1 = r1 /\ w.r0 = r0 /\ w.r0_sign = sign /\ w.snap = snap
  BY <1>1 DEF DecomposeRow
<1>. DEFINE x == r1 * TWO_G2  e == x + r0 + (snap - sign) * ML_Q - r
<1>3. Vanishes(e)
  BY <1>1, <1>2 DEF eval_decompose
<1>4. ML_Q \in Nat \ {0} /\ r \in 0 .. ML_Q - 1 /\ r0 \in 0 .. ML_Q - 1
  BY RowParameters
<1>5. x \in Nat /\ x <= pow2(R1_RANGE_BITS) * TWO_G2
  <2>. DEFINE p == pow2(R1_RANGE_BITS)  t == TWO_G2
  <2>1. p \in Nat /\ t \in Nat /\ r1 \in 0 .. p - 1
    BY RowRoom, RowParameters DEF RangeOf
  <2>. HIDE DEF p, t
  <2>2. (p - r1) * t >= 0 /\ (p - r1) * t = p * t - r1 * t /\ r1 * t \in Nat /\ p * t \in Nat
    BY <2>1
  <2>3. r1 * t <= p * t
    BY <2>2
  <2>. QED BY <2>2, <2>3 DEF p, t
<1>6. (snap - sign) * ML_Q \in {0 - ML_Q, 0, ML_Q}
  BY <1>4
<1>. HIDE DEF x
<1>7. e \in Int /\ 0 - NATIVE < e /\ e < NATIVE
  BY <1>4, <1>5, <1>6, RowRoom
<1>8. e = 0
  <2>. HIDE DEF e
  <2>. QED BY <1>3, <1>7, VanishesIs
<1>9. PICK m \in Int : to_signed(r0) = r0 + m * ML_Q
  <2>1. r0 = r0 + 0 * ML_Q /\ r0 - ML_Q = r0 + (0 - 1) * ML_Q
    BY <1>4
  <2>. QED BY <2>1 DEF to_signed
<1>. DEFINE j == m - (snap - sign)
<1>10. x + to_signed(r0) - r = ML_Q * j + 0 /\ j \in Int
  <2>1. ML_Q * (m - (snap - sign)) = m * ML_Q - (snap - sign) * ML_Q
    BY <1>4
  <2>2. m * ML_Q \in Int /\ (snap - sign) * ML_Q \in Int
    BY <1>4
  <2>. QED BY <1>4, <1>5, <1>8, <1>9, <2>1, <2>2
<1>11. (ML_Q * j + 0) % ML_Q = 0
  <2>. DEFINE y == ML_Q * j + 0
  <2>1. y \in Int /\ 0 \in 0 .. ML_Q - 1 /\ y = ML_Q * j + 0 /\ j \in Int
    BY <1>4
  <2>. HIDE DEF y, j
  <2>2. y % ML_Q = 0
    BY <1>4, <2>1, Quotient
  <2>. QED BY <2>2 DEF y
<1>. HIDE DEF j
<1>. QED
  BY <1>2, <1>10, <1>11 DEF x

----------------------------------------------------------------------------
(* UseHint: the accepted high part, and what a hint undoes. *)

\* The step a hint makes, as a number.
HintStep(r0_sign, h) == IF h = 0 THEN 0 ELSE IF r0_sign = 1 THEN 1 ELSE 0 - 1

\* The high part a step leads to: past the last comes the first.
LEMMA HintSteps ==
    ASSUME NEW k \in 0 .. NUM_R1_VALUES - 1, NEW s \in {0, 1}, NEW h \in {0, 1}
    PROVE  LET u == use_hint(k, s, h)
           IN  /\ u.adj \in 0 .. NUM_R1_VALUES - 1 /\ u.pos \in {0, 1} /\ u.neg \in {0, 1} /\ u.pos * u.neg = 0
               /\ u.adj = k + HintStep(s, h) + NUM_R1_VALUES * (u.pos - u.neg)
<1>. DEFINE n == NUM_R1_VALUES  e == HintStep(s, h)  u == use_hint(k, s, h)
<1>1. n \in Nat /\ n >= 2 /\ e \in {0, 1, 0 - 1} /\ k \in 0 .. n - 1
  BY RowParameters DEF HintStep
<1>2. u = CASE k + e < 0 -> [adj |-> n - 1, pos |-> 1, neg |-> 0]
            [] k + e >= n -> [adj |-> 0, pos |-> 0, neg |-> 1]
            [] OTHER -> [adj |-> k + e, pos |-> 0, neg |-> 0]
  BY DEF use_hint, HintStep
<1>. HIDE DEF n, e, u
<1>3. n * (1 - 0) = n /\ n * (0 - 1) = 0 - n /\ n * (0 - 0) = 0
  BY <1>1
<1>4. CASE k + e < 0
  <2>1. u = [adj |-> n - 1, pos |-> 1, neg |-> 0]
    BY <1>1, <1>2, <1>4
  <2>2. u.adj = n - 1 /\ u.pos = 1 /\ u.neg = 0 /\ k + e = 0 - 1
    BY <1>1, <1>4, <2>1
  <2>3. n * (u.pos - u.neg) = n
    BY <1>3, <2>2
  <2>4. u.adj = k + e + n * (u.pos - u.neg) /\ u.adj \in 0 .. n - 1
    BY <1>1, <2>2, <2>3
  <2>. QED BY <2>2, <2>4 DEF n, e, u
<1>5. CASE k + e >= n
  <2>1. u = [adj |-> 0, pos |-> 0, neg |-> 1]
    BY <1>1, <1>2, <1>5
  <2>2. u.adj = 0 /\ u.pos = 0 /\ u.neg = 1 /\ k + e = n
    BY <1>1, <1>5, <2>1
  <2>3. n * (u.pos - u.neg) = 0 - n
    BY <1>3, <2>2
  <2>4. u.adj = k + e + n * (u.pos - u.neg) /\ u.adj \in 0 .. n - 1
    BY <1>1, <2>2, <2>3
  <2>. QED BY <2>2, <2>4 DEF n, e, u
<1>6. CASE ~ (k + e < 0) /\ ~ (k + e >= n)
  <2>1. u = [adj |-> k + e, pos |-> 0, neg |-> 0]
    BY <1>2, <1>6
  <2>2. u.adj = k + e /\ u.pos = 0 /\ u.neg = 0
    BY <2>1
  <2>3. n * (u.pos - u.neg) = 0
    BY <1>3, <2>2
  <2>4. u.adj = k + e + n * (u.pos - u.neg) /\ u.adj \in 0 .. n - 1
    BY <1>1, <1>6, <2>2, <2>3
  <2>. QED BY <2>2, <2>4 DEF n, e, u
<1>. QED
  BY <1>4, <1>5, <1>6

\* The native function takes that step.
LEMMA NativeHint ==
    ASSUME NEW r \in Residues, NEW k \in Int, NEW c \in Int, IsSplit(r, k, c), NEW h \in {0, 1}
    PROVE  native_use_hint(h, r) = use_hint(k, IF c > 0 THEN 1 ELSE 0, h).adj
<1>. DEFINE n == NUM_R1_VALUES  s == IF c > 0 THEN 1 ELSE 0
<1>1. decompose(r) = [r1 |-> k, r0 |-> lift_signed(c)] /\ k \in 0 .. n - 1 /\ c \in 0 - HALF_Q .. HALF_Q
  BY SplitDecompose
<1>2. decompose(r).r1 = k /\ to_signed(decompose(r).r0) = c /\ n \in Nat /\ n >= 2
  BY <1>1, LiftSigned, RowParameters
<1>3. native_use_hint(h, r) = CASE h = 0             -> k
                                [] h = 1 /\ c > 0    -> (k + 1) % n
                                [] h = 1 /\ c <= 0   -> IF k = 0 THEN n - 1 ELSE k - 1
  BY <1>2 DEF native_use_hint
<1>. DEFINE e == HintStep(s, h)
<1>4. use_hint(k, s, h).adj = (CASE k + e < 0 -> [adj |-> n - 1, pos |-> 1, neg |-> 0]
            [] k + e >= n -> [adj |-> 0, pos |-> 0, neg |-> 1]
            [] OTHER -> [adj |-> k + e, pos |-> 0, neg |-> 0]).adj
  BY DEF use_hint, HintStep
<1>5. (k + 1) % n = IF k + 1 >= n THEN 0 ELSE k + 1
  <2>. HIDE DEF n
  <2>1. k + 1 = n => k + 1 = n * 1 + 0
    BY <1>1, <1>2
  <2>2. k + 1 = n * 0 + (k + 1)
    BY <1>1, <1>2
  <2>3. k + 1 # n => k + 1 \in 0 .. n - 1
    BY <1>1, <1>2
  <2>4. n \in Nat \ {0} /\ k + 1 \in Int /\ 0 \in 0 .. n - 1
    BY <1>1, <1>2
  <2>5. CASE k + 1 = n
    <3>1. (k + 1) % n = 0
      BY <2>1, <2>4, <2>5, Quotient
    <3>. QED BY <1>2, <2>5, <3>1
  <2>6. CASE k + 1 # n
    <3>1. (k + 1) % n = k + 1
      BY <2>2, <2>3, <2>4, <2>6, Quotient
    <3>. QED BY <1>1, <1>2, <2>6, <3>1
  <2>. QED BY <2>5, <2>6
<1>6. CASE h = 0
  <2>1. e = 0
    BY <1>6 DEF HintStep
  <2>. HIDE DEF e, n
  <2>2. use_hint(k, s, h).adj = k
    BY <1>1, <1>2, <1>4, <2>1
  <2>. QED BY <1>3, <1>6, <2>2 DEF s
<1>7. CASE h = 1 /\ c > 0
  <2>1. e = 1
    BY <1>7 DEF HintStep
  <2>. HIDE DEF e, n
  <2>2. use_hint(k, s, h).adj = IF k + 1 >= n THEN 0 ELSE k + 1
    BY <1>1, <1>2, <1>4, <2>1
  <2>3. native_use_hint(h, r) = (k + 1) % n
    BY <1>3, <1>7
  <2>. QED BY <1>5, <2>2, <2>3 DEF s
<1>8. CASE h = 1 /\ c <= 0
  <2>1. e = 0 - 1
    BY <1>8 DEF HintStep
  <2>. HIDE DEF e, n
  <2>2. use_hint(k, s, h).adj = IF k = 0 THEN n - 1 ELSE k - 1
    BY <1>1, <1>2, <1>4, <2>1
  <2>3. native_use_hint(h, r) = IF k = 0 THEN n - 1 ELSE k - 1
    BY <1>3, <1>8
  <2>. QED BY <2>2, <2>3 DEF s
<1>. QED
  BY <1>6, <1>7, <1>8

\* Multiples of the native characteristic vanish.
LEMMA NativeVanishes == Vanishes(0) /\ Vanishes(NATIVE) /\ Vanishes(0 - NATIVE)
<1>. DEFINE n == NATIVE
<1>1. n \in Nat \ {0} /\ n \in Int /\ 0 - n \in Int /\ 0 \in 0 .. n - 1
  BY RowRoom
<1>. HIDE DEF n
<1>2. 0 = n * 0 + 0 /\ n = n * 1 + 0 /\ 0 - n = n * (0 - 1) + 0
  BY <1>1
<1>3. 0 % n = 0 /\ n % n = 0 /\ (0 - n) % n = 0
  BY <1>1, <1>2, Quotient
<1>. QED
  BY <1>3 DEF Vanishes, n

\* The column of the step: minus one is the last element of the native field.
HintColumn(r0_sign, h) == IF h = 0 THEN 0 ELSE IF r0_sign = 1 THEN 1 ELSE NATIVE - 1

\* The row that is filled is accepted.
LEMMA HintAccepted ==
    ASSUME NEW k \in 0 .. NUM_R1_VALUES - 1, NEW s \in {0, 1}, NEW h \in {0, 1}
    PROVE  eval_use_hint(fill_use_hint(k, s, h))
<1>. DEFINE n == NUM_R1_VALUES  e == HintStep(s, h)  d == HintColumn(s, h)
            u == use_hint(k, s, h)  a == u.adj  l == n - 1 - a
            w == fill_use_hint(k, s, h)
<1>1. n \in Nat /\ n >= 2 /\ k \in 0 .. n - 1 /\ NATIVE \in Nat /\ n <= pow2(R1_RANGE_BITS)
      /\ pow2(R1_RANGE_BITS) \in Nat
  BY RowParameters, RangeRoom
<1>2. a \in 0 .. n - 1 /\ u.pos \in {0, 1} /\ u.neg \in {0, 1} /\ u.pos * u.neg = 0 /\ a = k + e + n * (u.pos - u.neg)
  BY HintSteps
<1>3. /\ w.h = h /\ w.r0_sign = s /\ w.r1 = k /\ w.delta = d /\ w.wrap_pos = u.pos /\ w.wrap_neg = u.neg
      /\ w.adjusted_r1 = a /\ w.slack = l
      /\ w.adj_bits = BitColumns(a, R1_RANGE_BITS) /\ w.slack_bits = BitColumns(l, R1_RANGE_BITS)
  BY DEF fill_use_hint, HintRow, HintColumn
<1>4. e \in {0, 1, 0 - 1} /\ d - e \in {0, NATIVE} /\ d \in Int /\ e = h * (2 * s - 1)
  <2>1. h * (2 * s - 1) = IF h = 0 THEN 0 ELSE 2 * s - 1
    OBVIOUS
  <2>. QED BY <1>1, <2>1 DEF HintStep, HintColumn
<1>. HIDE DEF w, u, e, d, n
<1>5. Vanishes(d - h * (2 * s - 1))
  BY <1>4, NativeVanishes
<1>6. Boolean(h) /\ Boolean(s) /\ Boolean(u.pos) /\ Boolean(u.neg) /\ Vanishes(u.pos * u.neg)
  BY <1>2, BooleanBits, NativeVanishes
<1>7. Vanishes(a - k - d - n * (u.pos - u.neg))
  <2>. DEFINE y == n * (u.pos - u.neg)
  <2>1. y \in Int
    BY <1>1, <1>2
  <2>2. a = k + e + y
    BY <1>2
  <2>. HIDE DEF y, a
  <2>3. a - k - d - y \in {0, 0 - NATIVE}
    BY <1>1, <1>4, <2>1, <2>2
  <2>. QED BY <2>3, NativeVanishes DEF y
<1>8. a \in 0 .. pow2(R1_RANGE_BITS) - 1 /\ l \in 0 .. pow2(R1_RANGE_BITS) - 1 /\ a + l + 1 - n = 0
  <2>1. a \in 0 .. n - 1
    BY <1>2
  <2>. HIDE DEF a
  <2>. QED BY <1>1, <2>1
<1>9. pow2(R1_RANGE_BITS) < NATIVE /\ R1_RANGE_BITS \in Nat
  <2>1. ML_Q \in Nat
    BY RowParameters
  <2>. QED BY <2>1, RangeRoom
<1>. HIDE DEF a, l
<1>10. BitDecomposed(a, BitColumns(a, R1_RANGE_BITS), R1_RANGE_BITS) /\ BitDecomposed(l, BitColumns(l, R1_RANGE_BITS), R1_RANGE_BITS)
  BY <1>8, <1>9, BitsHeld
<1>11. Vanishes(a + l + 1 - n)
  BY <1>8, NativeVanishes
<1>. QED
  BY <1>3, <1>5, <1>6, <1>7, <1>10, <1>11 DEF eval_use_hint, w, n

\* A padding row is a filled row with no hint.
LEMMA HintPadding == use_hint_padding = fill_use_hint(0, 0, 0)
<1>1. use_hint(0, 0, 0) = [adj |-> 0, pos |-> 0, neg |-> 0]
  BY RowParameters DEF use_hint
<1>. QED
  BY <1>1 DEF use_hint_padding, fill_use_hint

\* No other adjusted high part is accepted.
LEMMA HintSound ==
    ASSUME NEW k \in 0 .. NUM_R1_VALUES - 1, NEW s \in {0, 1}, NEW h \in {0, 1}, NEW w \in AnyHintRow(k, s, h)
    PROVE  w.adjusted_r1 = use_hint(k, s, h).adj
<1>. DEFINE n == NUM_R1_VALUES  e == HintStep(s, h)  b == R1_RANGE_BITS
<1>1. PICK d \in {0, 1, NATIVE - 1}, a \in RangeOf(b), p \in {0, 1}, m \in {0, 1} :
        w = HintRow(k, s, h, d, a, p, m) /\ eval_use_hint(w)
  <2>1. w \in {HintRow(k, s, h, d, a, p, m) :
                d \in {0, 1, NATIVE - 1}, a \in RangeOf(b), p \in {0, 1}, m \in {0, 1}}
        /\ eval_use_hint(w)
    BY DEF AnyHintRow
  <2>. QED BY <2>1
<1>. DEFINE l == n - 1 - a
<1>2. /\ w.h = h /\ w.r0_sign = s /\ w.r1 = k /\ w.delta = d /\ w.wrap_pos = p /\ w.wrap_neg = m
      /\ w.adjusted_r1 = a /\ w.slack = l
      /\ w.adj_bits = BitColumns(a, b) /\ w.slack_bits = BitColumns(l, b)
  BY <1>1 DEF HintRow
<1>3. /\ n \in Nat /\ n >= 2 /\ k \in 0 .. n - 1 /\ NATIVE \in Nat /\ n <= pow2(b) /\ b \in Nat
      /\ pow2(b) \in Nat /\ 2 * pow2(b) < NATIVE /\ a \in 0 .. pow2(b) - 1 /\ e \in {0, 1, 0 - 1}
  <2>1. ML_Q \in Nat /\ n \in Nat /\ n >= 2
    BY RowParameters
  <2>2. /\ NATIVE \in Nat /\ n <= pow2(b) /\ b \in Nat /\ pow2(b) \in Nat /\ 2 * pow2(b) + 2 * ML_Q < NATIVE
    BY RangeRoom
  <2>. QED BY <2>1, <2>2 DEF RangeOf, HintStep
<1>4. /\ Vanishes(d - h * (2 * s - 1)) /\ Vanishes(p * m) /\ Vanishes(a - k - d - n * (p - m))
      /\ BitDecomposed(l, BitColumns(l, b), b)
  BY <1>1, <1>2 DEF eval_use_hint
<1>. HIDE DEF n, e, b
<1>5. a \in 0 .. n - 1
  <2>1. l \in Int /\ pow2(b) - NATIVE <= l /\ l < NATIVE
    BY <1>3
  <2>. DEFINE ll == l
  <2>2. ll \in RangeOf(b)
    <3>1. ll \in Int /\ pow2(b) - NATIVE <= ll /\ ll < NATIVE /\ BitDecomposed(ll, BitColumns(ll, b), b)
      BY <1>4, <2>1
    <3>. HIDE DEF ll
    <3>. QED BY <1>3, <3>1, BitsInRange
  <2>3. l \in 0 .. pow2(b) - 1
    BY <2>2 DEF RangeOf
  <2>. QED BY <1>3, <2>3
<1>6. d = e \/ (e = 0 - 1 /\ d = NATIVE - 1)
  <2>1. e = h * (2 * s - 1) /\ h * (2 * s - 1) \in {0, 1, 0 - 1}
    <3>1. h * (2 * s - 1) = IF h = 0 THEN 0 ELSE 2 * s - 1
      OBVIOUS
    <3>. QED BY <3>1 DEF HintStep, e
  <2>2. d \in {0, 1} => d - e \in Int /\ 0 - NATIVE < d - e /\ d - e < NATIVE
    BY <1>3
  <2>3. CASE d \in {0, 1}
    <3>. DEFINE x == d - e
    <3>1. Vanishes(x) /\ x \in Int /\ 0 - NATIVE < x /\ x < NATIVE
      BY <1>4, <2>1, <2>2, <2>3
    <3>. HIDE DEF x
    <3>2. x = 0
      BY <3>1, VanishesIs
    <3>. QED BY <1>3, <2>3, <3>2 DEF x
  <2>4. CASE d = NATIVE - 1
    <3>. DEFINE x == (d - e) - NATIVE
    <3>1. d - e = x + NATIVE * 1 /\ x \in Int /\ 0 - NATIVE < x /\ x < NATIVE /\ NATIVE \in Nat \ {0}
      BY <1>3, <2>4
    <3>2. (d - e) % NATIVE = 0
      BY <1>4, <2>1 DEF Vanishes
    <3>. HIDE DEF x
    <3>3. x % NATIVE = 0
      BY <3>1, <3>2, SameRemainder
    <3>4. x = 0
      BY <3>1, <3>3, VanishesIs DEF Vanishes
    <3>. QED BY <1>3, <2>4, <3>4 DEF x
  <2>. QED BY <2>3, <2>4
<1>7. p - m \in {0, 1, 0 - 1} /\ n * (p - m) \in {0, n, 0 - n}
  <2>1. n * 0 = 0 /\ n * 1 = n /\ n * (0 - 1) = 0 - n
    BY <1>3
  <2>2. p - m \in {0, 1, 0 - 1}
    OBVIOUS
  <2>. DEFINE x == p - m
  <2>. HIDE DEF x
  <2>3. x \in {0, 1, 0 - 1} => n * x \in {0, n, 0 - n}
    BY <2>1
  <2>. QED BY <2>2, <2>3 DEF x
<1>8. a = k + e + n * (p - m)
  <2>. DEFINE y == n * (p - m)  x == a - k - e - y  x2 == a - k - d - y
  <2>1. y \in {0, n, 0 - n} /\ Vanishes(x2)
    BY <1>4, <1>7
  <2>. HIDE DEF y
  <2>2. x \in Int /\ 0 - NATIVE < x /\ x < NATIVE
    BY <1>3, <1>5, <2>1
  <2>3. x2 = x \/ x2 = x + NATIVE * (0 - 1)
    BY <1>3, <1>6, <2>1
  <2>4. Vanishes(x)
    <3>1. NATIVE \in Nat \ {0} /\ 0 - 1 \in Int
      BY <1>3
    <3>. HIDE DEF x, x2
    <3>2. (x + NATIVE * (0 - 1)) % NATIVE = x % NATIVE
      BY <2>2, <3>1, SameRemainder
    <3>. QED BY <2>1, <2>3, <3>2 DEF Vanishes
  <2>5. x = 0
    <3>. HIDE DEF x
    <3>. QED BY <2>2, <2>4, VanishesIs
  <2>. QED BY <1>3, <2>1, <2>5 DEF y
<1>. DEFINE u == use_hint(k, s, h)
<1>9. u.adj \in 0 .. n - 1 /\ u.adj = k + e + n * (u.pos - u.neg) /\ n * (u.pos - u.neg) \in {0, n, 0 - n}
  <2>1. /\ u.adj \in 0 .. n - 1 /\ u.adj = k + e + n * (u.pos - u.neg) /\ u.pos \in {0, 1} /\ u.neg \in {0, 1}
    BY HintSteps DEF n, e
  <2>2. n * 0 = 0 /\ n * 1 = n /\ n * (0 - 1) = 0 - n
    BY <1>3
  <2>. DEFINE x == u.pos - u.neg
  <2>3. x \in {0, 1, 0 - 1}
    BY <2>1
  <2>. HIDE DEF x
  <2>4. n * x \in {0, n, 0 - n}
    BY <2>2, <2>3
  <2>. QED BY <2>1, <2>4 DEF x
<1>10. a = u.adj
  <2>. DEFINE y == n * (p - m)  z == n * (u.pos - u.neg)  v == u.adj
  <2>1. a = k + e + y /\ v = k + e + z /\ y \in {0, n, 0 - n} /\ z \in {0, n, 0 - n} /\ v \in 0 .. n - 1
    BY <1>7, <1>8, <1>9
  <2>. HIDE DEF y, z, v
  <2>2. a = v
    BY <1>3, <1>5, <2>1
  <2>. QED BY <2>2 DEF v
<1>. QED
  BY <1>2, <1>10

\* Remainders of numbers next to the residues.
LEMMA NearResidue ==
    ASSUME NEW x \in Int
    PROVE  /\ 0 <= x /\ x < ML_Q => x % ML_Q = x
           /\ 0 - ML_Q <= x /\ x < 0 => x % ML_Q = x + ML_Q
           /\ ML_Q <= x /\ x < 2 * ML_Q => x % ML_Q = x - ML_Q
<1>. DEFINE q == ML_Q
<1>1. q \in Nat \ {0}
  BY RowParameters
<1>. HIDE DEF q
<1>2. x = q * 0 + x /\ x = q * (0 - 1) + (x + q) /\ x = q * 1 + (x - q)
  BY <1>1
<1>3. ASSUME 0 <= x, x < q PROVE x % q = x
  <2>1. x \in 0 .. q - 1
    BY <1>1, <1>3
  <2>. QED BY <1>1, <1>2, <2>1, Quotient
<1>4. ASSUME 0 - q <= x, x < 0 PROVE x % q = x + q
  <2>1. x + q \in 0 .. q - 1 /\ 0 - 1 \in Int
    BY <1>1, <1>4
  <2>. QED BY <1>1, <1>2, <2>1, Quotient
<1>5. ASSUME q <= x, x < 2 * q PROVE x % q = x - q
  <2>1. x - q \in 0 .. q - 1
    BY <1>1, <1>5
  <2>. QED BY <1>1, <1>2, <2>1, Quotient
<1>. QED
  BY <1>3, <1>4, <1>5 DEF q

\* The high part after a step of the low part's sign.
StepsTo(k, c, j) ==
    \/ j = k
    \/ c > 0 /\ j = IF k + 1 = NUM_R1_VALUES THEN 0 ELSE k + 1
    \/ c <= 0 /\ j = IF k = 0 THEN NUM_R1_VALUES - 1 ELSE k - 1

\* A small change moves the high part by at most one, to the side of the low part.
LEMMA SmallChange ==
    ASSUME NEW r \in Residues, NEW k \in Int, NEW c \in Int, IsSplit(r, k, c), NEW z \in 0 - GAMMA2 .. GAMMA2
    PROVE  \E j, d \in Int : IsSplit((r + z) % ML_Q, j, d) /\ StepsTo(k, c, j)
<1>. DEFINE g == GAMMA2  n == NUM_R1_VALUES  t == TWO_G2  q == ML_Q  top == n * t  x == k * t  y == (r + z) % q
<1>1. /\ g \in Nat \ {0} /\ t = 2 * g /\ n \in Nat /\ n >= 2 /\ top \in Nat /\ q = top + 1 /\ top >= 4 * g
      /\ r \in 0 .. q - 1 /\ z \in 0 - g .. g
  <2>1. top = 2 * HALF_Q /\ HALF_Q \in Nat /\ HALF_Q >= 2 * g
    BY RowParameters
  <2>. QED BY <2>1, RowParameters
<1>2. k \in 0 .. n - 1 /\ c \in 0 - g .. g
  BY SplitDecompose
<1>3. /\ x \in Nat /\ (k + 1) * t = x + t /\ (k - 1) * t = x - t /\ x + t <= top
      /\ (k = 0 => x = 0) /\ (k >= 1 => x >= t) /\ (k + 1 = n => x + t = top) /\ (n - 1) * t = top - t
  <2>1. x \in Nat /\ (k + 1) * t = x + t /\ (k - 1) * t = x - t /\ x + t <= top
    <3>1. top = 2 * HALF_Q /\ k \in 0 .. n /\ k < n
      BY <1>1, <1>2, RowParameters
    <3>. QED BY <3>1, HighRoom
  <2>2. (n - 1) * t = top - t
    <3>1. n \in 0 .. n
      BY <1>1
    <3>. QED BY <3>1, HighRoom
  <2>3. k = 0 => x = 0
    BY <1>1
  <2>4. k >= 1 => x >= t
    <3>. SUFFICES ASSUME k >= 1 PROVE x >= t
      OBVIOUS
    <3>1. k - 1 \in 0 .. n /\ 0 <= (k - 1) * t
      <4>1. k - 1 \in 0 .. n
        BY <1>1, <1>2
      <4>. QED BY <4>1, HighRoom
    <3>. HIDE DEF x, t
    <3>. QED BY <1>1, <2>1, <3>1
  <2>5. k + 1 = n => x + t = top
    <3>. SUFFICES ASSUME k + 1 = n PROVE x + t = top
      OBVIOUS
    <3>1. (k + 1) * t = n * t
      OBVIOUS
    <3>. QED BY <2>1, <3>1
  <2>. QED BY <2>1, <2>2, <2>3, <2>4, <2>5
<1>4. \A j, d : /\ j \in 0 .. n - 1
                /\ \/ d \in 1 - g .. g /\ y = j * t + d
                   \/ j = 0 /\ d \in 0 - g .. 0 - 1 /\ y = q + d
                => IsSplit(y, j, d)
  BY DEF IsSplit
<1>5. /\ 0 <= r + z /\ r + z < q => y = r + z
      /\ 0 - q <= r + z /\ r + z < 0 => y = r + z + q
      /\ q <= r + z /\ r + z < 2 * q => y = r + z - q
  <2>. DEFINE v == r + z
  <2>1. v \in Int
    BY <1>1
  <2>. HIDE DEF v
  <2>2. /\ 0 <= v /\ v < q => v % q = v
        /\ 0 - q <= v /\ v < 0 => v % q = v + q
        /\ q <= v /\ v < 2 * q => v % q = v - q
    BY <2>1, NearResidue
  <2>3. y = v % q /\ v = r + z /\ r \in Int /\ z \in Int /\ q \in Int
    BY <1>1 DEF v
  <2>. HIDE DEF y, q
  <2>. QED BY <2>2, <2>3
<1>6. (c \in 1 - g .. g /\ r = x + c) \/ (k = 0 /\ x = 0 /\ c < 0 /\ r = q + c)
  BY <1>3 DEF IsSplit
<1>7. 0 * t = 0
  BY <1>1
<1>. DEFINE Goal(j, d) == j \in Int /\ d \in Int /\ IsSplit(y, j, d) /\ StepsTo(k, c, j)
<1>. SUFFICES \E j, d : Goal(j, d)
  OBVIOUS
<1>8. ASSUME NEW j, NEW d, j \in 0 .. n - 1, StepsTo(k, c, j),
             \/ d \in 1 - g .. g /\ y = j * t + d
             \/ j = 0 /\ d \in 0 - g .. 0 - 1 /\ y = q + d
      PROVE  Goal(j, d)
  <2>1. IsSplit(y, j, d)
    BY <1>4, <1>8
  <2>2. j \in Int /\ d \in Int
    BY <1>1, <1>8
  <2>. QED BY <1>8, <2>1, <2>2
<1>. DEFINE e == c + z
<1>. HIDE DEF Goal
<1>9. StepsTo(k, c, k) /\ (c <= 0 /\ k >= 1 => StepsTo(k, c, k - 1)) /\ (c <= 0 /\ k = 0 => StepsTo(k, c, n - 1))
      /\ (c > 0 /\ k + 1 = n => StepsTo(k, c, 0)) /\ (c > 0 /\ k + 1 # n => StepsTo(k, c, k + 1))
  BY <1>1, <1>2 DEF StepsTo
<1>. HIDE DEF g, n, t, q, top, x, y
<1>10. CASE r = x + c /\ c \in 1 - g .. g /\ e \in 1 - g .. g /\ (k >= 1 \/ e >= 0)
  <2>1. y = x + e
    BY <1>1, <1>2, <1>3, <1>5, <1>10
  <2>2. Goal(k, e)
    BY <1>2, <1>8, <1>9, <1>10, <2>1 DEF x
  <2>. QED BY <2>2
<1>11. CASE r = x + c /\ c \in 1 - g .. g /\ e \in 1 - g .. g /\ ~ (k >= 1 \/ e >= 0)
  <2>1. k = 0 /\ y = q + e /\ e \in 0 - g .. 0 - 1
    BY <1>1, <1>2, <1>3, <1>5, <1>11
  <2>2. Goal(k, e)
    BY <1>2, <1>8, <1>9, <2>1
  <2>. QED BY <2>2
<1>12. CASE r = x + c /\ c \in 1 - g .. g /\ e > g /\ k + 1 # n
  <2>1. y = (x + t) + (e - t) /\ e - t \in 1 - g .. g /\ c > 0 /\ k + 1 \in 0 .. n - 1
    BY <1>1, <1>2, <1>3, <1>5, <1>12
  <2>2. y = (k + 1) * t + (e - t)
    BY <1>3, <2>1
  <2>3. Goal(k + 1, e - t)
    BY <1>8, <1>9, <1>12, <2>1, <2>2
  <2>. QED BY <2>3
<1>13. CASE r = x + c /\ c \in 1 - g .. g /\ e > g /\ k + 1 = n
  <2>1. y = q + ((e - t) - 1) /\ (e - t) - 1 \in 0 - g .. 0 - 1 /\ c > 0 /\ 0 \in 0 .. n - 1
    BY <1>1, <1>2, <1>3, <1>5, <1>13
  <2>2. Goal(0, (e - t) - 1)
    BY <1>8, <1>9, <1>13, <2>1
  <2>. QED BY <2>2
<1>14. CASE r = x + c /\ c \in 1 - g .. g /\ e < 1 - g /\ k >= 1
  <2>1. y = (x - t) + (e + t) /\ e + t \in 1 - g .. g /\ c <= 0 /\ k - 1 \in 0 .. n - 1
    BY <1>1, <1>2, <1>3, <1>5, <1>14
  <2>2. y = (k - 1) * t + (e + t)
    BY <1>3, <2>1
  <2>3. Goal(k - 1, e + t)
    BY <1>8, <1>9, <1>14, <2>1, <2>2
  <2>. QED BY <2>3
<1>15. CASE r = x + c /\ c \in 1 - g .. g /\ e < 1 - g /\ k = 0
  <2>1. y = q + e /\ e \in 0 - g .. 0 - 1 /\ 0 \in 0 .. n - 1
    BY <1>1, <1>2, <1>3, <1>5, <1>15
  <2>2. Goal(k, e)
    BY <1>8, <1>9, <1>15, <2>1
  <2>. QED BY <2>2
<1>16. CASE k = 0 /\ x = 0 /\ c < 0 /\ r = q + c /\ e >= 0
  <2>1. y = 0 + e /\ e \in 1 - g .. g /\ 0 \in 0 .. n - 1
    BY <1>1, <1>2, <1>3, <1>5, <1>16
  <2>2. Goal(k, e)
    BY <1>7, <1>8, <1>9, <1>16, <2>1
  <2>. QED BY <2>2
<1>17. CASE k = 0 /\ x = 0 /\ c < 0 /\ r = q + c /\ e < 0 /\ e >= 0 - g
  <2>1. y = q + e /\ e \in 0 - g .. 0 - 1 /\ 0 \in 0 .. n - 1
    BY <1>1, <1>2, <1>3, <1>5, <1>17
  <2>2. Goal(k, e)
    BY <1>8, <1>9, <1>17, <2>1
  <2>. QED BY <2>2
<1>18. CASE k = 0 /\ x = 0 /\ c < 0 /\ r = q + c /\ e < 0 - g
  <2>1. y = (top - t) + (e + t + 1) /\ e + t + 1 \in 1 - g .. g /\ n - 1 \in 0 .. n - 1
    BY <1>1, <1>2, <1>3, <1>5, <1>18
  <2>2. y = (n - 1) * t + (e + t + 1) /\ c <= 0
    BY <1>2, <1>3, <1>18, <2>1
  <2>3. Goal(n - 1, e + t + 1)
    BY <1>8, <1>9, <1>18, <2>1, <2>2
  <2>. QED BY <2>3
<1>. QED
  BY <1>1, <1>2, <1>6, <1>10, <1>11, <1>12, <1>13, <1>14, <1>15, <1>16, <1>17, <1>18

\* A hint made for a small change undoes it.
LEMMA HintUndoes ==
    ASSUME NEW r \in Residues, NEW k \in Int, NEW c \in Int, IsSplit(r, k, c),
           NEW z \in 0 - GAMMA2 .. GAMMA2, NEW h \in {0, 1}, make_hint(lift_signed(z), r) = h
    PROVE  high_bits((r + z) % ML_Q) = native_use_hint(h, r)
<1>. DEFINE n == NUM_R1_VALUES  y == (r + z) % ML_Q
<1>1. ML_Q \in Nat \ {0} /\ r \in Int /\ z \in Int /\ z \in 0 - HALF_Q .. HALF_Q /\ n \in Nat /\ n >= 2
      /\ Residues = 0 .. ML_Q - 1
  BY RowParameters
<1>2. y \in Residues
  <2>. DEFINE v == r + z
  <2>1. v \in Int
    BY <1>1
  <2>. HIDE DEF v
  <2>2. v % ML_Q \in 0 .. ML_Q - 1
    BY <1>1, <2>1, DivRule
  <2>. QED BY <1>1, <2>2 DEF v
<1>3. (r + lift_signed(z)) % ML_Q = y
  <2>1. lift_signed(z) = z \/ lift_signed(z) = z + ML_Q
    BY DEF lift_signed
  <2>. DEFINE v == r + z  one == 1
  <2>2. v \in Int /\ one \in Int /\ r + (z + ML_Q) = v + ML_Q * one
    BY <1>1
  <2>. HIDE DEF v, one
  <2>3. (v + ML_Q * one) % ML_Q = v % ML_Q
    BY <1>1, <2>2, SameRemainder
  <2>. QED BY <2>1, <2>2, <2>3 DEF v
<1>4. PICK j \in Int, d \in Int : IsSplit(y, j, d) /\ StepsTo(k, c, j)
  BY SmallChange
<1>5. high_bits(y) = j /\ high_bits(r) = k /\ k \in 0 .. n - 1
  <2>. HIDE DEF y
  <2>1. decompose(y) = [r1 |-> j, r0 |-> lift_signed(d)]
    BY <1>2, <1>4, SplitDecompose
  <2>2. decompose(r) = [r1 |-> k, r0 |-> lift_signed(c)] /\ k \in 0 .. n - 1
    BY SplitDecompose
  <2>. QED BY <2>1, <2>2 DEF high_bits
<1>6. h = IF k # j THEN 1 ELSE 0
  BY <1>3, <1>5 DEF make_hint
<1>. DEFINE s == IF c > 0 THEN 1 ELSE 0  e == HintStep(s, h)
<1>7. native_use_hint(h, r) = use_hint(k, s, h).adj
  BY NativeHint
<1>8. use_hint(k, s, h).adj = (CASE k + e < 0 -> [adj |-> n - 1, pos |-> 1, neg |-> 0]
            [] k + e >= n -> [adj |-> 0, pos |-> 0, neg |-> 1]
            [] OTHER -> [adj |-> k + e, pos |-> 0, neg |-> 0]).adj
  BY DEF use_hint, HintStep
<1>9. e = IF k = j THEN 0 ELSE IF c > 0 THEN 1 ELSE 0 - 1
  BY <1>6 DEF HintStep
<1>10. StepsTo(k, c, j)
  BY <1>4
<1>. HIDE DEF e, s, n, y
<1>11. use_hint(k, s, h).adj = IF k + e < 0 THEN n - 1 ELSE IF k + e >= n THEN 0 ELSE k + e
  BY <1>1, <1>5, <1>8, <1>9
<1>12. j = IF k + e < 0 THEN n - 1 ELSE IF k + e >= n THEN 0 ELSE k + e
  BY <1>1, <1>5, <1>9, <1>10 DEF StepsTo, n
<1>. QED
  BY <1>5, <1>7, <1>11, <1>12 DEF y

----------------------------------------------------------------------------
(* The encoder and the norm check. *)

\* The encoder accepts the number its bits were written for, and no other.
LEMMA EncodeExact ==
    ASSUME NEW a \in 0 .. NUM_R1_VALUES - 1
    PROVE  /\ eval_w1_encode(fill_w1_encode(a))
           /\ \A c \in RangeOf(W1_BITS) : eval_w1_encode([fill_w1_encode(a) EXCEPT !.r1 = c]) => c = a
<1>. DEFINE n == W1_BITS  p == pow2(n)
<1>1. n \in Nat /\ p \in Nat /\ 2 * p < NATIVE /\ NATIVE \in Nat /\ a \in 0 .. p - 1
  <2>1. ML_Q \in Nat /\ NUM_R1_VALUES \in Nat
    BY RowParameters
  <2>2. n \in Nat /\ p \in Nat /\ 2 * p + 2 * ML_Q < NATIVE /\ NATIVE \in Nat /\ NUM_R1_VALUES <= p
    BY RangeRoom
  <2>. HIDE DEF n, p
  <2>. QED BY <2>1, <2>2
<1>2. BitDecomposed(a, BitColumns(a, n), n)
  <2>1. a \in 0 .. pow2(n) - 1 /\ pow2(n) < NATIVE
    BY <1>1
  <2>. HIDE DEF n
  <2>. QED BY <1>1, <2>1, BitsHeld
<1>3. ASSUME NEW c \in RangeOf(n), BitDecomposed(c, BitColumns(a, n), n) PROVE c = a
  <2>1. c \in 0 .. p - 1
    BY DEF RangeOf
  <2>2. c \in Int /\ p - NATIVE <= c /\ c < NATIVE /\ a \in Int
    BY <1>1, <2>1
  <2>. HIDE DEF n
  <2>3. c = a % p
    BY <1>1, <1>3, <2>2, BitsOfOther
  <2>4. a % p = a
    <3>. HIDE DEF p
    <3>. QED BY <1>1
  <2>. QED BY <2>3, <2>4
<1>4. fill_w1_encode(a) = [r1 |-> a, bits |-> BitColumns(a, n)]
  BY DEF fill_w1_encode
<1>5. \A c : [fill_w1_encode(a) EXCEPT !.r1 = c] = [r1 |-> c, bits |-> BitColumns(a, n)]
  BY <1>4
<1>6. \A c : eval_w1_encode([r1 |-> c, bits |-> BitColumns(a, n)]) <=> BitDecomposed(c, BitColumns(a, n), n)
  BY DEF eval_w1_encode
<1>. HIDE DEF n, p
<1>7. eval_w1_encode(fill_w1_encode(a))
  BY <1>2, <1>4, <1>6
<1>8. \A c \in RangeOf(n) : eval_w1_encode([fill_w1_encode(a) EXCEPT !.r1 = c]) => c = a
  BY <1>3, <1>5, <1>6
<1>. QED
  BY <1>7, <1>8 DEF n

\* What an accepted norm row says of its cells.
NormHolds(c, sign, abs, slack) ==
    /\ abs \in RangeOf(NORM_RANGE_BITS) /\ slack \in RangeOf(NORM_RANGE_BITS)
    /\ c = IF sign = 1 THEN ML_Q - abs ELSE abs
    /\ slack + abs + 1 = Z_BOUND

\* The norm row as equations between its cells.
LEMMA NormRow ==
    ASSUME NEW c \in Residues, NEW sign \in {0, 1}, NEW abs \in Nat, NEW slack \in RangeOf(NORM_RANGE_BITS),
           abs < ML_Q \/ abs < pow2(NORM_RANGE_BITS)
    PROVE  eval_norm_check(NormCells(c, sign, abs, slack), Z_BOUND) <=> NormHolds(c, sign, abs, slack)
<1>. DEFINE n == NORM_RANGE_BITS  p == pow2(n)  b == Z_BOUND  q == ML_Q  w == NormCells(c, sign, abs, slack)
            x == (1 - sign) * abs + sign * (q - abs) - c  y == slack + abs + 1 - b
<1>1. /\ n \in Nat /\ p \in Nat /\ b \in Nat /\ 1 <= b /\ b <= p /\ q \in Nat \ {0} /\ 2 * p + 2 * q < NATIVE
      /\ NATIVE \in Nat /\ c \in 0 .. q - 1 /\ slack \in 0 .. p - 1 /\ abs < p + q
  <2>1. /\ n \in Nat /\ p \in Nat /\ b \in Nat /\ 1 <= b /\ b <= p /\ 2 * p + 2 * q < NATIVE /\ NATIVE \in Nat
    BY RangeRoom
  <2>2. q \in Nat \ {0} /\ c \in 0 .. q - 1
    BY RowParameters
  <2>3. slack \in 0 .. p - 1
    BY DEF RangeOf
  <2>. HIDE DEF n, p, b, q
  <2>4. abs < p + q
    BY <2>1, <2>2 DEF p, n, q
  <2>. QED BY <2>1, <2>2, <2>3, <2>4
<1>2. eval_norm_check(w, b) <=>
        /\ Boolean(sign) /\ BitDecomposed(abs, BitColumns(abs, n), n) /\ BitDecomposed(slack, BitColumns(slack, n), n)
        /\ Vanishes(x) /\ Vanishes(y)
  BY DEF eval_norm_check, NormCells
<1>3. Boolean(sign)
  BY BooleanBits
<1>4. BitDecomposed(slack, BitColumns(slack, n), n)
  <2>1. slack \in 0 .. pow2(n) - 1 /\ pow2(n) < NATIVE
    <3>. HIDE DEF n
    <3>1. slack \in 0 .. p - 1 /\ p < NATIVE
      <4>. HIDE DEF p
      <4>. QED BY <1>1
    <3>. QED BY <3>1
  <2>. HIDE DEF n
  <2>. QED BY <1>1, <2>1, BitsHeld
<1>5. BitDecomposed(abs, BitColumns(abs, n), n) <=> abs \in RangeOf(n)
  <2>1. abs \in Int /\ p - NATIVE <= abs /\ abs < NATIVE
    <3>. HIDE DEF p, n, q
    <3>. QED BY <1>1
  <2>. HIDE DEF n
  <2>. QED BY <1>1, <2>1, BitsInRange
<1>. HIDE DEF n, p, b, q
<1>6. x = (IF sign = 1 THEN q - abs ELSE abs) - c
  <2>1. CASE sign = 0
    <3>1. (1 - 0) * abs = abs /\ 0 * (q - abs) = 0
      BY <1>1
    <3>. QED BY <1>1, <2>1, <3>1
  <2>2. CASE sign = 1
    <3>1. (1 - 1) * abs = 0 /\ 1 * (q - abs) = q - abs
      BY <1>1
    <3>. QED BY <1>1, <2>2, <3>1
  <2>. QED BY <2>1, <2>2
<1>. HIDE DEF x
<1>7. Vanishes(x) <=> c = IF sign = 1 THEN q - abs ELSE abs
  <2>1. x \in Int /\ 0 - NATIVE < x /\ x < NATIVE
    BY <1>1, <1>6
  <2>2. Vanishes(x) <=> x = 0
    BY <2>1, VanishesIs
  <2>. QED BY <1>1, <1>6, <2>2
<1>8. ASSUME abs \in RangeOf(n) PROVE Vanishes(y) <=> slack + abs + 1 = b
  <2>1. abs \in 0 .. p - 1
    BY <1>8 DEF RangeOf, p
  <2>2. y \in Int /\ 0 - NATIVE < y /\ y < NATIVE
    BY <1>1, <2>1
  <2>. DEFINE yy == y
  <2>3. Vanishes(yy) <=> yy = 0
    <3>1. yy \in Int /\ 0 - NATIVE < yy /\ yy < NATIVE
      BY <2>2
    <3>. HIDE DEF yy
    <3>. QED BY <3>1, VanishesIs
  <2>4. y = 0 <=> slack + abs + 1 = b
    BY <1>1, <2>1
  <2>. QED BY <2>3, <2>4
<1>9. NormHolds(c, sign, abs, slack) <=>
        /\ abs \in RangeOf(n) /\ c = (IF sign = 1 THEN q - abs ELSE abs) /\ slack + abs + 1 = b
  BY DEF NormHolds, n, q, b
<1>. HIDE DEF y, w
<1>10. eval_norm_check(w, b) <=> NormHolds(c, sign, abs, slack)
  BY <1>2, <1>3, <1>4, <1>5, <1>7, <1>8, <1>9
<1>. QED
  BY <1>10 DEF w, b

\* The filled row is accepted for a small coefficient, and only a small one has an accepted row.
LEMMA NormExact ==
    ASSUME NEW c \in Residues
    PROVE  /\ eval_norm_check(fill_norm_check(c, Z_BOUND), Z_BOUND) <=> coeff_in_norm(c, Z_BOUND)
           /\ AnyNormRow(c) # {} <=> coeff_in_norm(c, Z_BOUND)
<1>. DEFINE q == ML_Q  b == Z_BOUND  h == HALF_Q  n == NORM_RANGE_BITS  p == pow2(n)
            sign == IF c > q \div 2 THEN 1 ELSE 0
            abs == IF sign = 1 THEN q - c ELSE c
            slack == IF b - 1 - abs > 0 THEN b - 1 - abs ELSE 0
<1>1. /\ p \in Nat /\ b \in Nat /\ 1 <= b /\ b <= p /\ q \in Nat /\ h \in Nat /\ q = 2 * h + 1 /\ q \div 2 = h
      /\ 2 * b <= q /\ c \in 0 .. q - 1
  <2>1. /\ p \in Nat /\ b \in Nat /\ 1 <= b /\ b <= p /\ 2 * b <= q
    BY RangeRoom
  <2>. QED BY <2>1, RowParameters
<1>2. \A v : v \in RangeOf(n) <=> v \in 0 .. p - 1
  BY DEF RangeOf
<1>3. fill_norm_check(c, b) = NormCells(c, sign, abs, slack)
  BY DEF fill_norm_check
<1>4. coeff_in_norm(c, b) <=> to_signed(c) \in (1 - b)..(b - 1)
  BY DEF coeff_in_norm
<1>5. to_signed(c) = IF c > h THEN c - q ELSE c
  BY <1>1 DEF to_signed
<1>6. \A x \in {0, 1}, y \in Nat, z \in Int :
        NormHolds(c, x, y, z) <=> /\ y \in 0 .. p - 1 /\ z \in 0 .. p - 1 /\ z + y + 1 = b
                                  /\ c = IF x = 1 THEN q - y ELSE y
  BY <1>2 DEF NormHolds
<1>. HIDE DEF q, b, h, n, p
<1>7. sign \in {0, 1} /\ abs \in Nat /\ abs < q /\ slack \in 0 .. p - 1 /\ c = IF sign = 1 THEN q - abs ELSE abs
  BY <1>1
<1>8. NormHolds(c, sign, abs, slack) <=> coeff_in_norm(c, b)
  <2>1. NormHolds(c, sign, abs, slack) <=> abs \in 0 .. p - 1 /\ slack + abs + 1 = b
    <3>. HIDE DEF sign, abs, slack
    <3>. QED BY <1>1, <1>6, <1>7
  <2>. QED BY <1>1, <1>4, <1>5, <2>1
<1>9. eval_norm_check(NormCells(c, sign, abs, slack), b) <=> NormHolds(c, sign, abs, slack)
  <2>1. slack \in RangeOf(n)
    BY <1>2, <1>7
  <2>. HIDE DEF sign, abs, slack
  <2>. QED BY <1>7, <2>1, NormRow DEF q, b, n
<1>10. ASSUME coeff_in_norm(c, b) PROVE AnyNormRow(c) # {}
  <2>1. NormHolds(c, sign, abs, slack)
    BY <1>8, <1>10
  <2>. HIDE DEF sign, abs, slack
  <2>2. abs \in RangeOf(n) /\ slack \in RangeOf(n)
    BY <2>1 DEF NormHolds, n
  <2>. DEFINE w == NormCells(c, sign, abs, slack)
  <2>3. eval_norm_check(w, b)
    BY <1>9, <2>1
  <2>. HIDE DEF w
  <2>4. w \in AnyNormRow(c)
    BY <1>7, <2>2, <2>3 DEF AnyNormRow, w, n, b
  <2>. QED BY <2>4
<1>11. ASSUME AnyNormRow(c) # {} PROVE coeff_in_norm(c, b)
  <2>1. PICK w : w \in AnyNormRow(c)
    BY <1>11
  <2>2. PICK x \in {0, 1}, y \in RangeOf(n), z \in RangeOf(n) : w = NormCells(c, x, y, z) /\ eval_norm_check(w, b)
    BY <2>1 DEF AnyNormRow, n, b
  <2>3. y \in 0 .. p - 1 /\ z \in 0 .. p - 1
    BY <1>2
  <2>4. y \in Nat /\ y < p /\ z \in Int
    BY <1>1, <2>3
  <2>5. NormHolds(c, x, y, z)
    <3>1. eval_norm_check(NormCells(c, x, y, z), b)
      BY <2>2
    <3>. QED BY <2>4, <3>1, NormRow DEF n, p, b
  <2>6. z + y + 1 = b /\ c = IF x = 1 THEN q - y ELSE y
    BY <1>6, <2>4, <2>5
  <2>. QED BY <1>1, <1>4, <1>5, <2>3, <2>6
<1>. QED
  BY <1>3, <1>8, <1>9, <1>10, <1>11 DEF b

----------------------------------------------------------------------------
(* The matrix equation. *)

\* The accumulators of an equation row.
IsAccs(f, a, z) == f = [l \in 0..ML_L |-> IF l = 0 THEN 0 ELSE (f[l - 1] + a[l] * z[l]) % ML_Q]
Accs(a, z) == CHOOSE f : IsAccs(f, a, z)
RowProducts(a, z) == [l \in 1..ML_L |-> a[l] * z[l]]

\* The products of residues are numbers.
LEMMA RowProductsAre ==
    ASSUME NEW a \in [1..ML_L -> Residues], NEW z \in [1..ML_L -> Residues]
    PROVE  \A l \in 1..ML_L : a[l] \in Nat /\ z[l] \in Nat /\ a[l] * z[l] \in Nat /\ RowProducts(a, z)[l] = a[l] * z[l]
<1>. SUFFICES ASSUME NEW l \in 1..ML_L
              PROVE  a[l] \in Nat /\ z[l] \in Nat /\ a[l] * z[l] \in Nat /\ RowProducts(a, z)[l] = a[l] * z[l]
  OBVIOUS
<1>1. a[l] \in Nat /\ z[l] \in Nat
  <2>1. a[l] \in 0 .. ML_Q - 1 /\ z[l] \in 0 .. ML_Q - 1
    BY RowParameters
  <2>. QED BY <2>1, RowParameters
<1>2. a[l] * z[l] \in Nat
  BY <1>1
<1>. QED
  BY <1>1, <1>2 DEF RowProducts

\* The recursion of the accumulators has a solution.
LEMMA AccsExist ==
    ASSUME NEW a \in [1..ML_L -> Residues], NEW z \in [1..ML_L -> Residues]
    PROVE  \E f : IsAccs(f, a, z)
<1>. DEFINE n == ML_L  F == [p \in (1..n) \X Int |-> (p[2] + a[p[1]] * z[p[1]]) % ML_Q]
<1>1. \A k \in 1..n, x \in Int : F[<<k, x>>] = (x + a[k] * z[k]) % ML_Q
  OBVIOUS
<1>2. F \in Steps(n, Int)
  <2>1. ASSUME NEW p \in (1..n) \X Int PROVE (p[2] + a[p[1]] * z[p[1]]) % ML_Q \in Int
    <3>. DEFINE l == p[1]  v == p[2] + a[l] * z[l]
    <3>1. l \in 1..n /\ p[2] \in Int
      BY <2>1
    <3>2. v \in Int
      <4>1. a[l] * z[l] \in Nat
        <5>. HIDE DEF l
        <5>. QED BY <3>1, RowProductsAre
      <4>. QED BY <3>1, <4>1
    <3>. HIDE DEF v
    <3>3. v % ML_Q \in 0 .. ML_Q - 1
      BY <3>2, DivRule, RowParameters
    <3>4. v % ML_Q \in Int
      BY <3>3, RowParameters
    <3>. QED BY <3>4 DEF v
  <2>. QED BY <2>1 DEF Steps
<1>3. n \in Nat
  BY RowsAssumption
<1>. HIDE DEF n, F
<1>4. PICK f : IsRun(f, n, Int, 0, F)
  <2>1. 0 \in Int
    OBVIOUS
  <2>. QED BY <1>2, <1>3, <2>1, RunExists, Zenon
<1>. DEFINE e(k) == IF k = 0 THEN 0 ELSE (f[k - 1] + a[k] * z[k]) % ML_Q
<1>5. ASSUME NEW k \in 0..n PROVE f[k] = e(k)
  <2>1. CASE k = 0
    BY <1>4, <2>1 DEF IsRun
  <2>2. CASE k # 0
    <3>1. k \in 1..n /\ k - 1 \in 0..n
      BY <1>3, <2>2
    <3>2. f[k - 1] \in Int /\ f[k] = F[<<k, f[k - 1]>>]
      BY <1>4, <3>1 DEF IsRun
    <3>. QED BY <1>1, <2>2, <3>1, <3>2, Zenon
  <2>. QED BY <2>1, <2>2
<1>6. f = [k \in 0..n |-> f[k]]
  BY <1>4 DEF IsRun
<1>7. f = [k \in 0..n |-> e(k)]
  <2>. HIDE DEF e
  <2>. QED BY <1>5, <1>6
<1>. QED
  BY <1>7 DEF IsAccs, n

\* The accumulators step by step: the sum so far, modulo q.
LEMMA AccsAre ==
    ASSUME NEW a \in [1..ML_L -> Residues], NEW z \in [1..ML_L -> Residues]
    PROVE  LET f == Accs(a, z)
           IN  /\ f[0] = 0 /\ \A l \in 1..ML_L : f[l] = (f[l - 1] + a[l] * z[l]) % ML_Q
               /\ \A l \in 0..ML_L : /\ f[l] \in 0 .. ML_Q - 1 /\ SumTo(RowProducts(a, z), l) \in Int
                                     /\ SumTo(RowProducts(a, z), l) % ML_Q = f[l]
<1>. DEFINE f == Accs(a, z)  q == ML_Q  n == ML_L  sum(l) == SumTo(RowProducts(a, z), l)
            body(l) == IF l = 0 THEN 0 ELSE (f[l - 1] + a[l] * z[l]) % ML_Q
            S == {l \in Nat : l <= n => f[l] \in 0 .. q - 1 /\ sum(l) \in Int /\ sum(l) % q = f[l]}
<1>1. q \in Nat \ {0} /\ n \in Nat
  BY RowParameters, RowsAssumption
<1>2. IsAccs(f, a, z)
  BY AccsExist, Zenon DEF Accs
<1>3. f = [l \in 0..n |-> body(l)]
  BY <1>2 DEF IsAccs
<1>4. \A l \in 0..n : f[l] = body(l)
  <2>. HIDE DEF body, f
  <2>. QED BY <1>3
<1>5. f[0] = 0 /\ \A l \in 1..n : f[l] = (f[l - 1] + a[l] * z[l]) % q
  <2>1. 0 \in 0..n /\ \A l \in 1..n : l \in 0..n /\ l # 0
    BY <1>1
  <2>. QED BY <1>4, <2>1
<1>. HIDE DEF f, q, n, body
<1>6. 0 \in S
  <2>1. SumTo(RowProducts(a, z), 0) = 0
    BY SumStep
  <2>. HIDE DEF sum
  <2>2. sum(0) = 0
    BY <2>1 DEF sum
  <2>3. 0 % q = 0 /\ 0 \in 0 .. q - 1
    BY <1>1
  <2>. QED BY <1>5, <2>2, <2>3
<1>7. ASSUME NEW l \in Nat, l \in S PROVE l + 1 \in S
  <2>. SUFFICES ASSUME l + 1 <= n
                PROVE  f[l + 1] \in 0 .. q - 1 /\ sum(l + 1) \in Int /\ sum(l + 1) % q = f[l + 1]
    OBVIOUS
  <2>. DEFINE p == a[l + 1] * z[l + 1]  s == sum(l)  m == s \div q  v == f[l] + p
  <2>1. f[l] \in 0 .. q - 1 /\ s \in Int /\ s % q = f[l]
    BY <1>1, <1>7
  <2>2. l + 1 \in 1..n /\ (l + 1) - 1 = l
    BY <1>1
  <2>3. p \in Nat /\ RowProducts(a, z)[l + 1] = p
    BY <2>2, RowProductsAre DEF n
  <2>4. sum(l + 1) = s + p
    BY <2>3, SumStep
  <2>5. f[l + 1] = v % q
    BY <1>5, <2>2
  <2>. HIDE DEF p, sum, s
  <2>6. m \in Int /\ s = q * m + f[l]
    <3>1. m \in Int /\ s = q * m + (s % q)
      BY <1>1, <2>1, DivRule
    <3>. HIDE DEF m
    <3>. QED BY <2>1, <3>1
  <2>. HIDE DEF m
  <2>7. v \in Int /\ s + p = v + q * m
    <3>. DEFINE x == q * m  y == f[l]
    <3>1. x \in Int /\ s = x + y /\ y \in Int
      BY <1>1, <2>1, <2>6
    <3>. HIDE DEF x, y
    <3>2. y + p \in Int /\ s + p = (y + p) + x
      BY <2>3, <3>1
    <3>. QED BY <3>2 DEF x, y
  <2>. HIDE DEF v
  <2>8. (v + q * m) % q = v % q /\ v % q \in 0 .. q - 1
    BY <1>1, <2>6, <2>7, SameRemainder, DivRule
  <2>. QED BY <2>1, <2>3, <2>4, <2>5, <2>7, <2>8
<1>8. Nat \subseteq S
  <2>. HIDE DEF S
  <2>. QED BY <1>6, <1>7, Induct
<1>9. \A l \in 0..n : f[l] \in 0 .. q - 1 /\ sum(l) \in Int /\ sum(l) % q = f[l]
  BY <1>1, <1>8
<1>. QED
  BY <1>5, <1>9 DEF f, q, n

\* The row of the equation, its accumulators named.
EquationRow(a, z, c, t1d, w, f) ==
    [a |-> a, z |-> z, c |-> c, t1d |-> t1d, w |-> w,
     acc |-> [l \in 1..ML_L |-> f[l]],
     acc_red |-> [l \in 1..ML_L |-> (f[l - 1] + a[l] * z[l]) \div ML_Q],
     ct1d |-> (c * t1d) % ML_Q, ct1d_red |-> (c * t1d) \div ML_Q,
     final_red |-> IF f[ML_L] >= (c * t1d) % ML_Q THEN 0 ELSE 1]

\* The row that is filled.
LEMMA EquationFilled ==
    ASSUME NEW a, NEW z, NEW c, NEW t1d, NEW w
    PROVE  fill_equation(a, z, c, t1d, w) = EquationRow(a, z, c, t1d, w, Accs(a, z))
  BY Zenon DEF fill_equation, EquationRow, Accs, IsAccs

\* A difference of residues, brought up to a residue by at most one modulus.
LEMMA ResidueDifference ==
    ASSUME NEW x \in Residues, NEW y \in Residues, NEW w \in Residues
    PROVE  LET red == IF x >= y THEN 0 ELSE 1
           IN  Vanishes(x - y + red * ML_Q - w) <=> (x - y - w) % ML_Q = 0
<1>. DEFINE q == ML_Q  red == IF x >= y THEN 0 ELSE 1  v == x - y + red * q  e == v - w
<1>1. q \in Nat \ {0} /\ x \in 0 .. q - 1 /\ y \in 0 .. q - 1 /\ w \in 0 .. q - 1
  BY RowParameters
<1>2. red \in {0, 1} /\ red * q = IF x >= y THEN 0 ELSE q
  BY <1>1
<1>3. 2 * q < NATIVE /\ NATIVE \in Nat
  <2>1. pow2(W1_BITS) \in Nat /\ 2 * pow2(W1_BITS) + 2 * q < NATIVE /\ NATIVE \in Nat
    BY RangeRoom
  <2>. QED BY <1>1, <2>1
<1>. HIDE DEF q
<1>4. v \in 0 .. q - 1 /\ v = IF x >= y THEN x - y ELSE x - y + q
  <2>. DEFINE m == red * q
  <2>1. m = IF x >= y THEN 0 ELSE q
    BY <1>2
  <2>. HIDE DEF m, red
  <2>2. v = x - y + m
    BY DEF m
  <2>. HIDE DEF v
  <2>. QED BY <1>1, <2>1, <2>2
<1>. HIDE DEF v
<1>5. e \in Int /\ 0 - NATIVE < e /\ e < NATIVE /\ 0 - q < e /\ e < q
  BY <1>1, <1>3, <1>4
<1>6. (x - y - w) % q = e % q
  <2>. DEFINE u == x - y - w
  <2>1. u \in Int /\ (e = u + q * 0 \/ e = u + q * 1)
    BY <1>1, <1>4
  <2>2. (u + q * 0) % q = u % q /\ (u + q * 1) % q = u % q
    <3>1. u \in Int
      BY <2>1
    <3>. DEFINE one == 1  zero == 0
    <3>2. one \in Int /\ zero \in Int
      OBVIOUS
    <3>. HIDE DEF u, one, zero
    <3>3. (u + q * zero) % q = u % q /\ (u + q * one) % q = u % q
      BY <1>1, <3>1, <3>2, SameRemainder
    <3>. QED BY <3>3 DEF one, zero
  <2>. HIDE DEF u, e
  <2>3. e % q = u % q
    BY <2>1, <2>2
  <2>. QED BY <2>3 DEF u
<1>7. Vanishes(e) <=> e = 0
  <2>. HIDE DEF e
  <2>. QED BY <1>5, VanishesIs
<1>8. e % q = 0 <=> e = 0
  <2>. HIDE DEF e
  <2>1. 0 % q = 0
    BY <1>1
  <2>2. e % q = 0 => e = 0
    BY <1>1, <1>5, SmallMultiple
  <2>. QED BY <2>1, <2>2
<1>9. x - y + red * q - w = e
  <2>. DEFINE m == red * q
  <2>1. m \in Int
    BY <1>1, <1>2
  <2>. HIDE DEF m
  <2>2. x - y + m - w = (x - y + m) - w
    BY <1>1, <2>1
  <2>. QED BY <2>2 DEF v, m
<1>. HIDE DEF e, red
<1>10. Vanishes(x - y + red * q - w) <=> (x - y - w) % q = 0
  BY <1>6, <1>7, <1>8, <1>9
<1>. QED
  BY <1>10 DEF q, red

\* The filled row is accepted exactly for the right result.
LEMMA EquationExact ==
    ASSUME NEW a \in [1..ML_L -> Residues], NEW z \in [1..ML_L -> Residues],
           NEW c \in Residues, NEW t1d \in Residues, NEW w \in Residues
    PROVE  eval_equation(fill_equation(a, z, c, t1d, w))
             <=> (SumTo([l \in 1..ML_L |-> a[l] * z[l]], ML_L) - c * t1d - w) % ML_Q = 0
<1>. DEFINE q == ML_Q  n == ML_L  f == Accs(a, z)  ct == c * t1d  ct1d == ct % q
            red == IF f[n] >= ct1d THEN 0 ELSE 1
            row == EquationRow(a, z, c, t1d, w, f)  s == SumTo(RowProducts(a, z), n)
<1>1. q \in Nat \ {0} /\ Residues = 0 .. q - 1 /\ n \in Nat \ {0}
  BY RowParameters, RowsAssumption
<1>2. /\ f[0] = 0 /\ \A l \in 1..n : f[l] = (f[l - 1] + a[l] * z[l]) % q
      /\ \A l \in 0..n : f[l] \in 0 .. q - 1
      /\ s \in Int /\ s % q = f[n]
  <2>1. n \in 0..n
    BY <1>1
  <2>. HIDE DEF q
  <2>2. /\ f[0] = 0 /\ \A l \in 1..n : f[l] = (f[l - 1] + a[l] * z[l]) % q
        /\ \A l \in 0..n : f[l] \in 0 .. q - 1 /\ SumTo(RowProducts(a, z), l) \in Int
                           /\ SumTo(RowProducts(a, z), l) % q = f[l]
    BY AccsAre DEF q
  <2>. HIDE DEF f, n
  <2>. QED BY <2>1, <2>2
<1>3. fill_equation(a, z, c, t1d, w) = row
  BY EquationFilled
<1>4. /\ row.a = a /\ row.z = z /\ row.c = c /\ row.t1d = t1d /\ row.w = w
      /\ \A l \in 1..n : row.acc[l] = f[l] /\ row.acc_red[l] = (f[l - 1] + a[l] * z[l]) \div q
      /\ row.ct1d = ct1d /\ row.ct1d_red = ct \div q /\ row.final_red = red
  BY DEF EquationRow
<1>5. ct \in Nat
  <2>1. c \in Nat /\ t1d \in Nat
    BY <1>1
  <2>. QED BY <2>1
<1>. HIDE DEF row, f, q, n, s, ct
<1>6. ASSUME NEW l \in 1..n
      PROVE  (IF l = 1 THEN 0 ELSE row.acc[l - 1]) + row.a[l] * row.z[l] - row.acc_red[l] * q - row.acc[l] = 0
  <2>. DEFINE p == a[l] * z[l]  x == f[l - 1]  y == x + p
  <2>1. p \in Nat
    BY RowProductsAre DEF n
  <2>2. l - 1 \in 0..n /\ x \in Int
    BY <1>1, <1>2
  <2>3. (IF l = 1 THEN 0 ELSE row.acc[l - 1]) = x
    <3>1. l = 1 => l - 1 = 0
      OBVIOUS
    <3>2. l # 1 => l - 1 \in 1..n
      BY <1>1
    <3>. QED BY <1>2, <1>4, <3>1, <3>2
  <2>4. row.a[l] * row.z[l] = p /\ row.acc_red[l] = y \div q /\ row.acc[l] = y % q
    BY <1>2, <1>4
  <2>5. y \in Int
    BY <2>1, <2>2
  <2>. HIDE DEF y
  <2>6. y = q * (y \div q) + (y % q) /\ y \div q \in Int /\ y % q \in 0 .. q - 1
    BY <1>1, <2>5, DivRule
  <2>. DEFINE d == y \div q  m == y % q  qd == d * q
  <2>7. qd \in Int /\ y = qd + m /\ m \in Int
    <3>1. d \in Int /\ m \in Int /\ y = q * d + m
      BY <1>1, <2>6
    <3>. HIDE DEF d, m
    <3>. QED BY <1>1, <3>1
  <2>8. x + p - qd - m = 0
    <3>1. y = x + p
      BY DEF y
    <3>. HIDE DEF x, p, qd, m
    <3>. QED BY <2>1, <2>2, <2>7, <3>1
  <2>. QED BY <2>3, <2>4, <2>8
<1>7. row.c * row.t1d - row.ct1d_red * q - row.ct1d = 0
  <2>. DEFINE d == ct \div q  m == ct % q
  <2>1. ct = q * d + m /\ d \in Int /\ m \in Int
    <3>1. ct \in Int
      BY <1>5
    <3>. QED BY <1>1, <3>1, DivRule
  <2>. HIDE DEF d, m
  <2>2. ct - d * q - m = 0
    BY <1>1, <2>1
  <2>3. row.c * row.t1d = ct
    BY <1>4 DEF ct
  <2>. QED BY <1>4, <2>2, <2>3 DEF d, m
<1>8. eval_equation(row) <=> Vanishes(f[n] - ct1d + red * q - w)
  <2>1. \A l \in 1..n : Vanishes((IF l = 1 THEN 0 ELSE row.acc[l - 1]) + row.a[l] * row.z[l] - row.acc_red[l] * q - row.acc[l])
    BY <1>6, NativeVanishes
  <2>2. Vanishes(row.c * row.t1d - row.ct1d_red * q - row.ct1d)
    BY <1>7, NativeVanishes
  <2>3. n \in 1..n
    BY <1>1
  <2>4. row.acc[n] = f[n] /\ row.ct1d = ct1d /\ row.final_red = red /\ row.w = w
    BY <1>4, <2>3
  <2>5. eval_equation(row) <=> Vanishes(row.acc[n] - row.ct1d + row.final_red * q - row.w)
    BY <2>1, <2>2, Zenon DEF eval_equation, q, n
  <2>. QED BY <2>4, <2>5
<1>9. f[n] \in Residues /\ ct1d \in Residues
  <2>1. n \in 0..n /\ ct \in Int
    BY <1>1, <1>5
  <2>2. ct1d \in 0 .. q - 1
    BY <1>1, <2>1, DivRule
  <2>. QED BY <1>1, <1>2, <2>1, <2>2
<1>10. Vanishes(f[n] - ct1d + red * q - w) <=> (f[n] - ct1d - w) % q = 0
  <2>. DEFINE x == f[n]  y == ct1d
  <2>1. x \in Residues /\ y \in Residues
    BY <1>9
  <2>. HIDE DEF x, y
  <2>2. Vanishes(x - y + (IF x >= y THEN 0 ELSE 1) * q - w) <=> (x - y - w) % q = 0
    BY <2>1, ResidueDifference DEF q
  <2>. QED BY <2>2 DEF x, y
<1>11. (s - ct - w) % q = (f[n] - ct1d - w) % q
  <2>. DEFINE d == s \div q  m == ct \div q  x == f[n]  y == ct1d  v == x - y - w  j == d - m
  <2>1. d \in Int /\ s = q * d + (s % q) /\ m \in Int /\ ct = q * m + y
    <3>1. ct \in Int /\ s \in Int
      BY <1>2, <1>5
    <3>. QED BY <1>1, <3>1, DivRule
  <2>2. x \in Int /\ y \in Int /\ w \in Int /\ s = q * d + x
    <3>1. x \in Int /\ y \in Int /\ w \in Int
      BY <1>1, <1>9
    <3>. HIDE DEF d
    <3>. QED BY <1>2, <2>1, <3>1
  <2>. HIDE DEF d, m, x, y
  <2>3. s - ct - w = v + q * j /\ v \in Int /\ j \in Int
    <3>. DEFINE qd == q * d  qm == q * m
    <3>1. q * j = qd - qm /\ qd \in Int /\ qm \in Int /\ j \in Int
      BY <1>1, <2>1
    <3>2. s = qd + x /\ ct = qm + y
      BY <2>1, <2>2
    <3>. HIDE DEF qd, qm, j
    <3>. QED BY <2>2, <3>1, <3>2
  <2>. HIDE DEF v, j
  <2>4. (v + q * j) % q = v % q
    BY <1>1, <2>3, SameRemainder
  <2>. QED BY <2>3, <2>4 DEF v, x, y
<1>12. RowProducts(a, z) = [l \in 1..ML_L |-> a[l] * z[l]]
  BY DEF RowProducts
<1>. QED
  BY <1>3, <1>8, <1>10, <1>11, <1>12 DEF s, ct, q, n

----------------------------------------------------------------------------
(* A coefficient through the rows: the invariant and the theorem. *)

\* The UseHint row of a coefficient.
HintOf(r, h) ==
    LET d == fill_decompose(r)
    IN  fill_use_hint(d.r1, IF d.r0 \in 1..(ML_Q \div 2) THEN 1 ELSE 0, h)

\* Every phase holds the rows of its coefficient, or the row of its equation.
RowsInd ==
    /\ unit = "mldsa_rows"
    /\ \/ \E r \in Residues : st = [phase |-> "coefficient", r |-> r]
       \/ \E r \in Residues : st = [phase |-> "decomposed", r |-> r, d |-> fill_decompose(r)]
       \/ \E r \in Residues, h \in {0, 1} :
            st = [phase |-> "hinted", r |-> r, d |-> fill_decompose(r), u |-> HintOf(r, h)]
       \/ \E r \in Residues, h \in {0, 1} :
            st = [phase |-> "encoded", r |-> r, u |-> HintOf(r, h), e |-> fill_w1_encode(HintOf(r, h).adjusted_r1)]
       \/ \E r \in Residues : st = [phase |-> "normed", r |-> r, n |-> fill_norm_check(r, Z_BOUND)]
       \/ \E e \in EquationCases, w \in Residues : st = [phase |-> "claimed", e |-> e, w |-> w]
       \/ \E e \in EquationCases, w \in Residues :
            st = [phase |-> "equated", e |-> e, w |-> w, row |-> fill_equation(e[1], e[2], e[3], e[4], w)]

\* The initial coefficients and claims.
LEMMA RowsStart == MlRowsInit => RowsInd
  BY DEF MlRowsInit, RowsInd

\* Every step writes the next row of the same coefficient.
LEMMA RowsStep == RowsInd /\ [MlRowsNext]_unitVars => RowsInd'
<1>. SUFFICES ASSUME RowsInd, [MlRowsNext]_unitVars PROVE RowsInd'
  OBVIOUS
<1>1. CASE UNCHANGED unitVars
  BY <1>1 DEF RowsInd, unitVars
<1>2. CASE MlDecompose
  <2>1. PICK r \in Residues : st = [phase |-> "coefficient", r |-> r]
    BY <1>2 DEF RowsInd, MlDecompose
  <2>2. st' = [phase |-> "decomposed", r |-> r, d |-> fill_decompose(r)] /\ unit' = "mldsa_rows"
    BY <1>2, <2>1 DEF MlDecompose, Move
  <2>. QED BY <2>2 DEF RowsInd
<1>3. CASE MlUseHint
  <2>1. PICK r \in Residues : st = [phase |-> "decomposed", r |-> r, d |-> fill_decompose(r)]
    BY <1>3 DEF RowsInd, MlUseHint
  <2>2. st.r = r /\ st.d = fill_decompose(r)
    BY <2>1
  <2>3. PICK h \in {0, 1} :
          Move("mldsa_rows", [phase |-> "hinted", r |-> st.r, d |-> st.d,
               u |-> fill_use_hint(st.d.r1, IF st.d.r0 \in 1..(ML_Q \div 2) THEN 1 ELSE 0, h)])
    BY <1>3 DEF MlUseHint
  <2>4. st' = [phase |-> "hinted", r |-> r, d |-> fill_decompose(r), u |-> HintOf(r, h)] /\ unit' = "mldsa_rows"
    BY <2>2, <2>3 DEF Move, HintOf
  <2>. QED BY <2>4 DEF RowsInd
<1>4. CASE MlEncode
  <2>1. PICK r \in Residues, h \in {0, 1} :
          st = [phase |-> "hinted", r |-> r, d |-> fill_decompose(r), u |-> HintOf(r, h)]
    BY <1>4 DEF RowsInd, MlEncode
  <2>2. /\ st' = [phase |-> "encoded", r |-> r, u |-> HintOf(r, h), e |-> fill_w1_encode(HintOf(r, h).adjusted_r1)]
        /\ unit' = "mldsa_rows"
    BY <1>4, <2>1 DEF MlEncode, Move
  <2>. QED BY <2>2 DEF RowsInd
<1>5. CASE MlNorm
  <2>1. PICK r \in Residues : st = [phase |-> "coefficient", r |-> r]
    BY <1>5 DEF RowsInd, MlNorm
  <2>2. st' = [phase |-> "normed", r |-> r, n |-> fill_norm_check(r, Z_BOUND)] /\ unit' = "mldsa_rows"
    BY <1>5, <2>1 DEF MlNorm, Move
  <2>. QED BY <2>2 DEF RowsInd
<1>6. CASE MlEquation
  <2>1. PICK e \in EquationCases, w \in Residues : st = [phase |-> "claimed", e |-> e, w |-> w]
    BY <1>6 DEF RowsInd, MlEquation
  <2>2. /\ st' = [phase |-> "equated", e |-> e, w |-> w, row |-> fill_equation(e[1], e[2], e[3], e[4], w)]
        /\ unit' = "mldsa_rows"
    BY <1>6, <2>1 DEF MlEquation, Move
  <2>. QED BY <2>2 DEF RowsInd
<1>. QED
  BY <1>1, <1>2, <1>3, <1>4, <1>5, <1>6 DEF MlRowsNext

\* What the rows of one coefficient say.
LEMMA RowsOfCoefficient ==
    ASSUME NEW r \in Residues, NEW h \in {0, 1}
    PROVE  LET d == fill_decompose(r)
               u == HintOf(r, h)
           IN  /\ eval_decompose(d) /\ d.r1 \in 0..(NUM_R1_VALUES - 1)
               /\ to_signed(d.r0) \in (0 - GAMMA2)..GAMMA2
               /\ eval_use_hint(u) /\ u.h = h
               /\ u.adjusted_r1 \in 0 .. NUM_R1_VALUES - 1 /\ u.adjusted_r1 = native_use_hint(h, r)
               /\ \A w \in AnyHintRow(u.r1, u.r0_sign, u.h) : w.adjusted_r1 = native_use_hint(h, r)
               /\ \A z \in (0 - GAMMA2)..GAMMA2 :
                    make_hint(lift_signed(z), r) = h => high_bits((r + z) % ML_Q) = native_use_hint(h, r)
<1>1. PICK k \in Int, c \in Int : IsSplit(r, k, c)
  BY SplitExists
<1>. DEFINE d == fill_decompose(r)  s == IF c > 0 THEN 1 ELSE 0  u == HintOf(r, h)
<1>2. k \in 0 .. NUM_R1_VALUES - 1 /\ c \in 0 - GAMMA2 .. GAMMA2 /\ c \in 0 - HALF_Q .. HALF_Q
  BY <1>1, SplitDecompose
<1>3. d.r1 = k /\ d.r0 = lift_signed(c)
  BY <1>1, FilledDecomposition DEF DecomposeRow
<1>4. to_signed(lift_signed(c)) = c /\ (lift_signed(c) \in 1..(ML_Q \div 2) <=> c > 0)
  BY <1>2, LiftSigned
<1>5. eval_decompose(d)
  BY <1>1, DecompositionAccepted
<1>6. u = fill_use_hint(k, s, h)
  BY <1>3, <1>4 DEF HintOf
<1>. HIDE DEF d, u
<1>7. s \in {0, 1} /\ native_use_hint(h, r) = use_hint(k, s, h).adj
  BY <1>1, NativeHint
<1>. HIDE DEF s
<1>8. u.r1 = k /\ u.r0_sign = s /\ u.h = h /\ u.adjusted_r1 = use_hint(k, s, h).adj
  BY <1>6 DEF fill_use_hint, HintRow
<1>9. eval_use_hint(u) /\ use_hint(k, s, h).adj \in 0 .. NUM_R1_VALUES - 1
  BY <1>2, <1>6, <1>7, HintAccepted, HintSteps
<1>10. \A w \in AnyHintRow(k, s, h) : w.adjusted_r1 = use_hint(k, s, h).adj
  BY <1>2, <1>7, HintSound
<1>11. \A z \in (0 - GAMMA2)..GAMMA2 :
         make_hint(lift_signed(z), r) = h => high_bits((r + z) % ML_Q) = native_use_hint(h, r)
  BY <1>1, HintUndoes
<1>. QED
  BY <1>2, <1>3, <1>4, <1>5, <1>7, <1>8, <1>9, <1>10, <1>11 DEF d, u

\* In every phase the rows are exact.
LEMMA RowsHold == RowsInd => RowsExact
<1>. SUFFICES ASSUME RowsInd PROVE RowsExact
  OBVIOUS
<1>1. CASE \E r \in Residues : st = [phase |-> "coefficient", r |-> r]
  BY <1>1 DEF RowsExact
<1>2. CASE \E r \in Residues : st = [phase |-> "decomposed", r |-> r, d |-> fill_decompose(r)]
  <2>1. PICK r \in Residues : st = [phase |-> "decomposed", r |-> r, d |-> fill_decompose(r)]
    BY <1>2
  <2>2. st.phase = "decomposed" /\ st.r = r /\ st.d = fill_decompose(r)
    BY <2>1
  <2>3. eval_decompose(st.d) /\ st.d.r1 \in 0..(NUM_R1_VALUES - 1) /\ to_signed(st.d.r0) \in (0 - GAMMA2)..GAMMA2
    <3>1. 0 \in {0, 1}
      OBVIOUS
    <3>. QED BY <2>2, <3>1, RowsOfCoefficient
  <2>4. \A w \in AnyDecomposition(st.r) : (w.r1 * TWO_G2 + to_signed(w.r0) - st.r) % ML_Q = 0
    BY <2>2, DecompositionSound
  <2>. QED BY <2>2, <2>3, <2>4 DEF RowsExact
<1>3. CASE \E r \in Residues, h \in {0, 1} :
             st = [phase |-> "hinted", r |-> r, d |-> fill_decompose(r), u |-> HintOf(r, h)]
  <2>1. PICK r \in Residues, h \in {0, 1} :
          st = [phase |-> "hinted", r |-> r, d |-> fill_decompose(r), u |-> HintOf(r, h)]
    BY <1>3
  <2>2. st.phase = "hinted" /\ st.r = r /\ st.u = HintOf(r, h)
    BY <2>1
  <2>3. eval_use_hint(use_hint_padding)
    <3>1. 0 \in 0 .. NUM_R1_VALUES - 1 /\ 0 \in {0, 1}
      BY RowParameters
    <3>. QED BY <3>1, HintPadding, HintAccepted
  <2>4. /\ eval_use_hint(st.u) /\ st.u.h = h /\ st.u.adjusted_r1 = native_use_hint(h, r)
        /\ \A w \in AnyHintRow(st.u.r1, st.u.r0_sign, st.u.h) : w.adjusted_r1 = native_use_hint(h, r)
        /\ \A z \in (0 - GAMMA2)..GAMMA2 :
             make_hint(lift_signed(z), r) = h => high_bits((r + z) % ML_Q) = native_use_hint(h, r)
    BY <2>2, RowsOfCoefficient
  <2>. QED BY <2>2, <2>3, <2>4 DEF RowsExact
<1>4. CASE \E r \in Residues, h \in {0, 1} :
             st = [phase |-> "encoded", r |-> r, u |-> HintOf(r, h), e |-> fill_w1_encode(HintOf(r, h).adjusted_r1)]
  <2>1. PICK r \in Residues, h \in {0, 1} :
          st = [phase |-> "encoded", r |-> r, u |-> HintOf(r, h), e |-> fill_w1_encode(HintOf(r, h).adjusted_r1)]
    BY <1>4
  <2>. DEFINE a == HintOf(r, h).adjusted_r1
  <2>2. st.phase = "encoded" /\ st.r = r /\ st.u = HintOf(r, h) /\ st.e = fill_w1_encode(a)
    BY <2>1
  <2>3. st.u.h = h /\ a \in 0 .. NUM_R1_VALUES - 1 /\ a = native_use_hint(h, r)
    BY <2>2, RowsOfCoefficient
  <2>. HIDE DEF a
  <2>4. eval_w1_encode(st.e) /\ \A c \in RangeOf(W1_BITS) : eval_w1_encode([st.e EXCEPT !.r1 = c]) => c = a
    BY <2>2, <2>3, EncodeExact, Zenon
  <2>. QED BY <2>2, <2>3, <2>4 DEF RowsExact
<1>5. CASE \E r \in Residues : st = [phase |-> "normed", r |-> r, n |-> fill_norm_check(r, Z_BOUND)]
  <2>1. PICK r \in Residues : st = [phase |-> "normed", r |-> r, n |-> fill_norm_check(r, Z_BOUND)]
    BY <1>5
  <2>2. st.phase = "normed" /\ st.r = r /\ st.n = fill_norm_check(r, Z_BOUND)
    BY <2>1
  <2>3. /\ eval_norm_check(st.n, Z_BOUND) <=> coeff_in_norm(st.r, Z_BOUND)
        /\ AnyNormRow(st.r) # {} <=> coeff_in_norm(st.r, Z_BOUND)
    BY <2>2, NormExact
  <2>. QED BY <2>2, <2>3 DEF RowsExact
<1>6. CASE \E e \in EquationCases, w \in Residues : st = [phase |-> "claimed", e |-> e, w |-> w]
  BY <1>6 DEF RowsExact
<1>7. CASE \E e \in EquationCases, w \in Residues :
             st = [phase |-> "equated", e |-> e, w |-> w, row |-> fill_equation(e[1], e[2], e[3], e[4], w)]
  <2>1. PICK e \in EquationCases, w \in Residues :
          st = [phase |-> "equated", e |-> e, w |-> w, row |-> fill_equation(e[1], e[2], e[3], e[4], w)]
    BY <1>7
  <2>2. st.phase = "equated" /\ st.e = e /\ st.w = w /\ st.row = fill_equation(e[1], e[2], e[3], e[4], w)
    BY <2>1
  <2>3. e[1] \in [1..ML_L -> Residues] /\ e[2] \in [1..ML_L -> Residues] /\ e[3] \in Residues /\ e[4] \in Residues
    BY RowsAssumption
  <2>4. eval_equation(fill_equation(e[1], e[2], e[3], e[4], w))
          <=> (SumTo([l \in 1..ML_L |-> e[1][l] * e[2][l]], ML_L) - e[3] * e[4] - w) % ML_Q = 0
    BY <2>3, EquationExact
  <2>. QED BY <2>2, <2>4 DEF RowsExact
<1>. QED
  BY <1>1, <1>2, <1>3, <1>4, <1>5, <1>6, <1>7 DEF RowsInd

\* Every row of the ML-DSA circuit says what the native function computes, for
\* every modulus, every gamma_2 and every bit width that holds its range: a
\* coefficient splits at the right place, a hint undoes a small change, the
\* norm check accepts exactly the small ones, the equation the right result.
THEOREM RowsRight == MlRowsSpec => []RowsExact
<1>1. MlRowsInit => RowsInd
  BY RowsStart
<1>2. RowsInd /\ [MlRowsNext]_unitVars => RowsInd'
  BY RowsStep
<1>3. RowsInd => RowsExact
  BY RowsHold
<1>. QED
  BY <1>1, <1>2, <1>3, PTL DEF MlRowsSpec
=============================================================================
