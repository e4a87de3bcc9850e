----------------------------- MODULE FieldAir ------------------------------
(***************************************************************************)
(* Arithmetic modulo the curve prime p = 2^255 - 19 and the constraint     *)
(* gadgets that show it (ed25519_field.rs, ed25519_field_air.rs), scaled   *)
(* down: p = 2^T - FOLD with T the sum of LIMB_WIDTHS.  An element is the  *)
(* sequence of its limbs.  A trace cell holds a value modulo NATIVE (the   *)
(* Goldilocks prime of the code), so a constraint is an equation modulo    *)
(* NATIVE; a limb whose bit decomposition is constrained (bits Boolean,    *)
(* limb = sum of bits) is a limb that is RangeChecked.                     *)
(*                                                                         *)
(* The component takes one operation with its operands and either runs the *)
(* code's own fill function (FieldFill) or lets an arbitrary prover write  *)
(* the owned cells limb by limb, any values the constraints accept         *)
(* (StartWitness and ChainLimb, FreezeWitness, SelectWitness).             *)
(***************************************************************************)
EXTENDS ProofUnit, Integers, SequencesExt

CONSTANTS LIMB_WIDTHS,     \* limb widths in bits: 26, 25, 26, ... in the code
          ELEMENT_BITS,    \* T, their sum: 255 in the code
          FOLD,            \* 2^T = FOLD (mod P): 19 in the code
          P,               \* the curve prime
          MUL_CARRY_BITS,  \* width of a biased carry of the mul gadget
          MUL_OFFSETS,     \* search range of the top carry in fill_mul_gadget
          FieldOperands,   \* operands tried for add, sub, freeze and select
          MulOperands      \* operands tried for mul and square

NUM_LIMBS == Len(LIMB_WIDTHS)
Limb == 1..NUM_LIMBS
LIMB_RADIX == [k \in Limb |-> pow2(LIMB_WIDTHS[k])]
LIMB_OFFSETS == [k \in Limb |-> SumTo(LIMB_WIDTHS, k - 1)]
LIMB_WEIGHTS == [k \in Limb |-> pow2(LIMB_OFFSETS[k])]

\* Wide and narrow limbs take turns, so that an odd and an odd limb (counted
\* from zero) multiply to twice the weight of the limb they belong to.
ASSUME FieldAssumption ==
    /\ LIMB_WIDTHS \in Seq(Nat \ {0}) /\ NUM_LIMBS > 0 /\ NUM_LIMBS % 2 = 0
    /\ \A k \in Limb : LIMB_WIDTHS[k] = LIMB_WIDTHS[1] - (IF k % 2 = 0 THEN 1 ELSE 0)
    /\ ELEMENT_BITS = SumTo(LIMB_WIDTHS, NUM_LIMBS)
    /\ FOLD \in 1 .. LIMB_RADIX[1] - 1 /\ P = pow2(ELEMENT_BITS) - FOLD
    /\ FieldOperands \subseteq Nat /\ MulOperands \subseteq Nat

\* The largest sum of products, with its carries, stays below the native
\* characteristic (eval_mul_gadget: about 2^62 of 2^64).
ASSUME NativeAssumption ==
    /\ NATIVE \in Nat /\ MUL_CARRY_BITS \in Nat \ {0}
    /\ NATIVE > NUM_LIMBS * (2 * FOLD * LIMB_RADIX[1] * LIMB_RADIX[1])
                + (FOLD + LIMB_RADIX[1]) * pow2(MUL_CARRY_BITS - 1) + LIMB_RADIX[1]

----------------------------------------------------------------------------
(* Elements: FieldElement of ed25519_field.rs. *)

\* The value modulo which an element stands; limbs may be negative or large.
Val(l) == SumTo([k \in Limb |-> l[k] * LIMB_WEIGHTS[k]], NUM_LIMBS)

from_bytes(v) ==
    [k \in Limb |-> ((v % pow2(ELEMENT_BITS)) \div LIMB_WEIGHTS[k]) % LIMB_RADIX[k]]

fe_add(a, b) == [k \in Limb |-> a[k] + b[k]]
fe_sub(a, b) == [k \in Limb |-> a[k] - b[k]]

\* Take n units of limb k's radix out of limb k and give them to the next
\* limb, or folded to the first one.
CarryOut(l, k, n) ==
    IF k < NUM_LIMBS
    THEN [l EXCEPT ![k] = @ - n * LIMB_RADIX[k], ![k + 1] = @ + n]
    ELSE LET m == [l EXCEPT ![k] = @ - n * LIMB_RADIX[k]]
         IN  [m EXCEPT ![1] = @ + FOLD * n]

\* One sweep of carries over the limbs, in order (an arithmetic shift floors).
CarrySweep(l) ==
    FoldLeftDomain(LAMBDA m, k : CarryOut(m, k, m[k] \div LIMB_RADIX[k]), l, l)

\* One sweep that lifts every limb found negative.
BorrowSweep(l) ==
    FoldLeftDomain(LAMBDA m, k : IF m[k] < 0
                                 THEN CarryOut(m, k, m[k] \div LIMB_RADIX[k])
                                 ELSE m, l, l)

reduce(l) == BorrowSweep(CarrySweep(BorrowSweep(CarrySweep(l))))

p_limbs == [k \in Limb |-> IF k = 1 THEN LIMB_RADIX[k] - FOLD ELSE LIMB_RADIX[k] - 1]

\* l - p limb by limb with borrows, and the borrow out of the last limb.
MinusP(l) ==
    LET borrow[k \in 0..NUM_LIMBS] ==
          IF k = 0 THEN 0 ELSE IF l[k] - p_limbs[k] - borrow[k - 1] < 0 THEN 1 ELSE 0
    IN  [diff   |-> [k \in Limb |-> l[k] - p_limbs[k] - borrow[k - 1]
                                    + borrow[k] * LIMB_RADIX[k]],
         borrow |-> borrow[NUM_LIMBS]]

\* Variant: what reduce leaves is taken as canonical.
KeepReduced(m) == m

SubtractOnce(m) == IF MinusP(m).borrow = 0 THEN MinusP(m).diff ELSE m
freeze(l) == SubtractOnce(reduce(BorrowSweep(reduce(l))))

\* mul works on words: 2^(T+1) holds one bit more than an element, folds the
\* high half with 2 * FOLD at most three times and drops what is left of it.
WORDS == pow2(ELEMENT_BITS + 1)
SplitHigh(x) == [lo |-> x % WORDS, hi |-> x \div WORDS]
FoldHigh(x) == SplitHigh(x.lo + 2 * FOLD * x.hi)
FoldAgain(x) == IF x.hi = 0 THEN x ELSE FoldHigh(x)

from_u256(u) ==
    IF u >= pow2(ELEMENT_BITS)
    THEN reduce([from_bytes(u) EXCEPT ![1] = @ + FOLD])
    ELSE from_bytes(u)

fe_mul(a, b) ==
    from_u256(FoldAgain(FoldAgain(FoldHigh(SplitHigh(Val(freeze(a)) * Val(freeze(b)))))).lo)

----------------------------------------------------------------------------
(* The gadgets' constraints. *)

RangeChecked(c) == \A k \in Limb : c[k] \in 0..(LIMB_RADIX[k] - 1)

\* add, sub and mul share one shape: t_k + carry_in = c_k + radix_k * carry_k,
\* the carry into the first limb being FOLD times the carry out of the last.
AddTerm(a, b, k) == a[k] + b[k]
SubTerm(a, b, k) == a[k] - b[k]

\* Limb i of a meets one limb of b in the sum for limb k: the one that reaches
\* k, or k and the whole width, which comes back scaled by FOLD.
mul_partial_products_for_limb(k) ==
    [i \in Limb |->
       LET wraps == i > k
           j == k + 1 - i + (IF wraps THEN NUM_LIMBS ELSE 0)
       IN  [j |-> j, factor |-> (IF i % 2 = 0 /\ j % 2 = 0 THEN 2 ELSE 1) * (IF wraps THEN FOLD ELSE 1)]]

MulTerm(a, b, k) ==
    LET products == mul_partial_products_for_limb(k)
    IN  SumTo([i \in Limb |-> products[i].factor * a[i] * b[products[i].j]], NUM_LIMBS)

Term(op, a, b, k) == CASE op = "add" -> AddTerm(a, b, k)
                       [] op = "sub" -> SubTerm(a, b, k)
                       [] OTHER      -> MulTerm(a, b, k)

\* What a carry may be: one Boolean cell; the difference of two Boolean cells
\* with product zero (sub counts borrows, hence the sign); biased bits.
AddCarries == {0, 1}
SubCarries == {x[2] - x[1] : x \in {y \in {0, 1} \X {0, 1} : y[1] * y[2] = 0}}
MulCarries == {x - pow2(MUL_CARRY_BITS - 1) : x \in 0..(pow2(MUL_CARRY_BITS) - 1)}

Carries(op) == CASE op = "add" -> AddCarries
                 [] op = "sub" -> SubCarries
                 [] OTHER      -> MulCarries

\* Variant: the wrap comes back unscaled.
CarryInUnscaled(k, before, last) == IF k = 1 THEN last ELSE before

CarryIn(k, before, last) == IF k = 1 THEN FOLD * last ELSE before

\* The cell value that the constraint of limb k leaves for c_k.
LimbOut(t, cin, cout, k) == (t + cin - LIMB_RADIX[k] * cout) % NATIVE

ChainHolds(op, a, b, c, cy) ==
    /\ RangeChecked(c)
    /\ \A k \in Limb :
         /\ cy[k] \in Carries(op)
         /\ c[k] = LimbOut(Term(op, a, b, k),
                           CarryIn(k, IF k = 1 THEN 0 ELSE cy[k - 1], cy[NUM_LIMBS]), cy[k], k)

eval_add_gadget(w) == ChainHolds("add", w.a, w.b, w.c, w.cy)
eval_sub_gadget(w) == ChainHolds("sub", w.a, w.b, w.c, w.cy)
eval_mul_gadget(w) == ChainHolds("mul", w.a, w.b, w.c, w.cy)
eval_square_gadget(w) == eval_mul_gadget(w)

\* inp = s * p + c with borrows, and c + FOLD fits the element, so that c < p.
eval_freeze_gadget(w) ==
    LET borrow(k) == IF k \in {0, NUM_LIMBS} THEN 0 ELSE w.borrow[k]
        carry(k)  == IF k \in {0, NUM_LIMBS} THEN 0 ELSE w.carry[k]
    IN  /\ RangeChecked(w.c) /\ RangeChecked(w.g) /\ w.s \in {0, 1}
        /\ \A k \in 1..(NUM_LIMBS - 1) : borrow(k) \in {0, 1} /\ carry(k) \in {0, 1}
        /\ \A k \in Limb :
             /\ (w.a[k] - w.s * p_limbs[k] - borrow(k - 1) - w.c[k]
                 + LIMB_RADIX[k] * borrow(k)) % NATIVE = 0
             /\ (w.c[k] + (IF k = 1 THEN FOLD ELSE 0) + carry(k - 1) - w.g[k]
                 - LIMB_RADIX[k] * carry(k)) % NATIVE = 0

\* The output cells of select carry no range check of their own.
eval_select_gadget(w) ==
    /\ w.bit \in {0, 1}
    /\ \A k \in Limb : (w.c[k] - w.a[k] - w.bit * (w.b[k] - w.a[k])) % NATIVE = 0

----------------------------------------------------------------------------
(* The code's own fill functions. *)

\* The carries that follow from the limbs of c and a guess of the last carry.
CarriesFrom(op, a, b, c, top) ==
    LET cy[k \in 0..NUM_LIMBS] ==
          IF k = 0 THEN FOLD * top
          ELSE (Term(op, a, b, k) + cy[k - 1] - c[k]) \div LIMB_RADIX[k]
    IN  [k \in Limb |-> cy[k]]

\* A guess closes when every limb divides, each carry is one the fill function
\* accepts and the chain returns the guess.
Closes(op, a, b, c, top, cy) ==
    /\ \A k \in Limb :
         Term(op, a, b, k) + (IF k = 1 THEN FOLD * top ELSE cy[k - 1]) - c[k]
           = LIMB_RADIX[k] * cy[k]
    /\ op \in {"add", "sub"} => \A k \in Limb : cy[k] \in Carries(op)
    /\ cy[NUM_LIMBS] = top

\* The carries of the first guess that closes; zeros when none does.
SearchCarries(op, a, b, c, guesses) ==
    LET good == SelectSeq([i \in DOMAIN guesses |-> <<guesses[i], CarriesFrom(op, a, b, c, guesses[i])>>],
                          LAMBDA g : Closes(op, a, b, c, g[1], g[2]))
    IN  IF good = << >> THEN [k \in Limb |-> 0] ELSE Head(good)[2]

Filled(op, a, b, c, guesses) ==
    [a |-> a, b |-> b, c |-> c, cy |-> SearchCarries(op, a, b, c, guesses)]

fill_add_gadget(a, b) == Filled("add", a, b, freeze(fe_add(a, b)), <<0, 1>>)

\* Guesses of the net borrow 0, 1, -1, as carries.
fill_sub_gadget(a, b) == Filled("sub", a, b, freeze(fe_sub(a, b)), <<0, -1, 1>>)

\* The last carry is determined modulo the first radix by the first limb; the
\* search runs over its lifts.
LowCarry(a, b, c) ==
    LET r   == LIMB_RADIX[1]
        inv == CHOOSE x \in 0..(r - 1) : (x * FOLD) % r = 1
    IN  (((c[1] - MulTerm(a, b, 1)) % r) * inv) % r
Lifts(m) ==
    [i \in 1..(2 * MUL_OFFSETS) |->
       (IF m >= LIMB_RADIX[1] \div 2 THEN m - LIMB_RADIX[1] ELSE m)
         + (i - 1 - MUL_OFFSETS) * LIMB_RADIX[1]]
FilledMul(a, b, c) == Filled("mul", a, b, c, Lifts(LowCarry(a, b, c)))
fill_mul_gadget(a, b) == FilledMul(a, b, freeze(fe_mul(a, b)))

fill_square_gadget(a) == fill_mul_gadget(a, a)

FilledFreeze(a, c) ==
    LET \* the borrow out of limb k when a - s * p is to give c
        Borrow(s) ==
          LET bo[k \in 0..NUM_LIMBS] ==
                IF k = 0 THEN 0
                ELSE (c[k] + s * p_limbs[k] + bo[k - 1] - a[k]) \div LIMB_RADIX[k]
          IN  bo
        Fits(s) == /\ \A k \in Limb : /\ Borrow(s)[k] \in {0, 1}
                                      /\ a[k] - s * p_limbs[k] - Borrow(s)[k - 1] - c[k]
                                           = - LIMB_RADIX[k] * Borrow(s)[k]
                   /\ Borrow(s)[NUM_LIMBS] = 0
        good == {s \in {0, 1} : Fits(s)}
        s0   == IF good = {} THEN 0 ELSE Min(good)
        v[k \in 0..NUM_LIMBS] ==     \* limb k of c + FOLD with its carry in
          IF k = 0 THEN 0
          ELSE c[k] + (IF k = 1 THEN FOLD ELSE v[k - 1] \div LIMB_RADIX[k - 1])
    IN  [a |-> a, c |-> c, s |-> s0,
         borrow |-> [k \in 1..(NUM_LIMBS - 1) |-> IF good = {} THEN 0 ELSE Borrow(s0)[k]],
         g |-> [k \in Limb |-> v[k] % LIMB_RADIX[k]],
         carry |-> [k \in 1..(NUM_LIMBS - 1) |-> v[k] \div LIMB_RADIX[k]]]

fill_freeze_gadget(a) == FilledFreeze(a, freeze(a))

fill_select_gadget(a, b, bit) ==
    [a |-> a, b |-> b, bit |-> bit, c |-> IF bit = 1 THEN b ELSE a]

----------------------------------------------------------------------------
(* The component. *)

Chained == {"add", "sub", "mul"}

Eval(op, w) == CASE op = "add"    -> eval_add_gadget(w)
                 [] op = "sub"    -> eval_sub_gadget(w)
                 [] op = "mul"    -> eval_mul_gadget(w)
                 [] op = "square" -> eval_square_gadget(w)
                 [] op = "freeze" -> eval_freeze_gadget(w)
                 [] op = "select" -> eval_select_gadget(w)

Fill(op, a, b) == CASE op = "add"    -> fill_add_gadget(a, b)
                    [] op = "sub"    -> fill_sub_gadget(a, b)
                    [] op = "mul"    -> fill_mul_gadget(a, b)
                    [] op = "square" -> fill_square_gadget(a)
                    [] op = "freeze" -> fill_freeze_gadget(a)
                    [] op = "select" -> fill_select_gadget(a, b, Val(b) % 2)

FieldInput(op, x, y) == [phase |-> "input", op |-> op, a |-> from_bytes(x), b |-> from_bytes(y)]

FieldInit ==
    /\ unit = "field"
    /\ \/ \E x, y \in FieldOperands, op \in {"add", "sub", "select"} :
            st = FieldInput(op, x, y)
       \/ \E x \in 0..(pow2(ELEMENT_BITS) - 1) : st = FieldInput("freeze", x, 0)
       \/ \E x, y \in MulOperands : st = FieldInput("mul", x, y)
       \/ \E x \in MulOperands : st = FieldInput("square", x, x)

\* The prover of this repository fills the gadget.
FieldFill ==
    /\ unit = "field" /\ st.phase = "input"
    /\ Move("field", [phase |-> "filled", op |-> st.op, a |-> st.a, b |-> st.b,
                      w |-> Fill(st.op, st.a, st.b)])

\* Any other prover: it settles the carry out of the last limb first ...
StartWitness ==
    /\ unit = "field" /\ st.phase = "input" /\ st.op \in Chained
    /\ \E top \in Carries(st.op) :
         Move("field", [phase |-> "limbs", op |-> st.op, a |-> st.a, b |-> st.b,
                        top |-> top, c |-> << >>, cy |-> << >>])

\* ... then one limb after the other: a carry, and the output limb that the
\* constraint, linear in it, leaves.
ChainLimb ==
    /\ unit = "field" /\ st.phase = "limbs"
    /\ LET k   == Len(st.c) + 1
           t   == Term(st.op, st.a, st.b, k)
           cin == CarryIn(k, IF k = 1 THEN 0 ELSE st.cy[k - 1], st.top)
       IN \E cout \in IF k = NUM_LIMBS THEN {st.top} ELSE Carries(st.op) :
            LET ck == LimbOut(t, cin, cout, k)
            IN  /\ ck < LIMB_RADIX[k]
                /\ Move("field", [st EXCEPT !.c = Append(@, ck), !.cy = Append(@, cout),
                                            !.phase = IF k = NUM_LIMBS THEN "accepted" ELSE @])

\* freeze and select, likewise: the other cells settle the output cells.
FreezeWitness ==
    /\ unit = "field" /\ st.phase = "input" /\ st.op = "freeze"
    /\ \E s \in {0, 1}, borrow, carry \in [1..(NUM_LIMBS - 1) -> {0, 1}] :
         LET At(f, k) == IF k \in {0, NUM_LIMBS} THEN 0 ELSE f[k]
             c == [k \in Limb |-> (st.a[k] - s * p_limbs[k] - At(borrow, k - 1)
                                   + LIMB_RADIX[k] * At(borrow, k)) % NATIVE]
             g == [k \in Limb |-> (c[k] + (IF k = 1 THEN FOLD ELSE 0) + At(carry, k - 1)
                                   - LIMB_RADIX[k] * At(carry, k)) % NATIVE]
         IN  /\ eval_freeze_gadget([a |-> st.a, c |-> c, s |-> s, borrow |-> borrow,
                                    carry |-> carry, g |-> g])
             /\ Move("field", [phase |-> "accepted", op |-> "freeze", a |-> st.a, b |-> st.b, c |-> c])

SelectWitness ==
    /\ unit = "field" /\ st.phase = "input" /\ st.op = "select"
    /\ \E bit \in {0, 1} :
         LET c == [k \in Limb |-> (st.a[k] + bit * (st.b[k] - st.a[k])) % NATIVE]
         IN  /\ eval_select_gadget([a |-> st.a, b |-> st.b, bit |-> bit, c |-> c])
             /\ Move("field", [phase |-> "accepted", op |-> "select", a |-> st.a, b |-> st.b,
                               bit |-> bit, c |-> c])

FieldNext == FieldFill \/ StartWitness \/ ChainLimb \/ FreezeWitness \/ SelectWitness

FieldSpec == FieldInit /\ [][FieldNext]_unitVars

----------------------------------------------------------------------------
Reference(op, x, y) == CASE op = "add" -> (x + y) % P
                         [] op = "sub" -> (x - y) % P
                         [] op = "freeze" -> x % P
                         [] OTHER -> (x * y) % P

\* Whatever cells a prover writes, when the constraints of a gadget accept
\* them the output stands for the result modulo p: no choice of carries and no
\* wrap-around of a trace cell gives another value.  The output of freeze is
\* the canonical representative, that of select one of its two inputs.
FieldSound ==
    unit = "field" /\ st.phase = "accepted" =>
      CASE st.op = "freeze" -> Val(st.c) = Reference("freeze", Val(st.a), 0)
        [] st.op = "select" -> st.c = (IF st.bit = 1 THEN st.b ELSE st.a)
        [] OTHER -> Val(st.c) % P = Reference(st.op, Val(st.a), Val(st.b))

\* The corner that Boolean carries do not cover: the wrap adds FOLD to a first
\* limb that is already (nearly) full, and the carry out of it would be 2.
DoubleCarry(op, a, b) ==
    \/ op = "add" /\ Val(a) + Val(b) >= P /\ a[1] + b[1] + FOLD >= 2 * LIMB_RADIX[1]
    \/ op = "sub" /\ Val(a) < Val(b) /\ a[1] - b[1] - FOLD < - LIMB_RADIX[1]

\* The fill function writes the reduced result of the native operation and
\* satisfies the gadget's constraints: for all tight operands of mul, square,
\* freeze and select, and for reduced operands of add and sub (what every
\* caller passes) except exactly those with a double carry, where the row it
\* writes is rejected although the operands are legal.
FieldComplete ==
    unit = "field" /\ st.phase = "filled" =>
      \/ st.op \in {"add", "sub"} /\ ~(Val(st.a) < P /\ Val(st.b) < P)
      \/ /\ Eval(st.op, st.w) <=> ~DoubleCarry(st.op, st.a, st.b)
         /\ st.op # "select" => Val(st.w.c) = Reference(st.op, Val(st.a), Val(st.b))
============================================================================
