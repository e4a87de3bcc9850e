----------------------------- MODULE MlDsaRows -----------------------------
(***************************************************************************)
(* The gadgets of the ML-DSA verification circuit that fit one row:        *)
(* Decompose, UseHint, w1Encode, the norm check and the matrix equation    *)
(* (ml_dsa_*.rs of deep_ali), each with its native function, the row its   *)
(* fill function writes and the constraints on a row.  A row is a record   *)
(* of its columns.  The modulus and the bit widths are scaled down         *)
(* together.                                                               *)
(***************************************************************************)
EXTENDS ProofUnit, Integers

CONSTANTS ML_Q, ML_L,                \* q and L of the parameter set
          GAMMA2, Z_BOUND,           \* gamma_2 and gamma_1 - beta
          R1_RANGE_BITS,             \* bits of a high part (also RANGE_BITS of UseHint)
          R0_ABS_RANGE_BITS,         \* bits of the absolute value of a low part
          W1_BITS,                   \* bits the encoder gives a high part
          NORM_RANGE_BITS,           \* bits of an absolute value and of its slack
          EquationCases              \* <<a, z, c, t1d>> at one coefficient

TWO_G2 == 2 * GAMMA2
NUM_R1_VALUES == (ML_Q - 1) \div TWO_G2
Residues == 0..(ML_Q - 1)

\* Two gamma_2 divide q - 1, every range has its bits, and no constraint of a
\* row comes near the native characteristic.
ASSUME RowsAssumption ==
    /\ GAMMA2 \in Nat \ {0} /\ ML_L \in Nat \ {0} /\ NUM_R1_VALUES \in Nat /\ NUM_R1_VALUES >= 2
    /\ ML_Q = NUM_R1_VALUES * TWO_G2 + 1
    /\ {R1_RANGE_BITS, R0_ABS_RANGE_BITS, W1_BITS, NORM_RANGE_BITS} \subseteq Nat
    /\ NUM_R1_VALUES <= pow2(R1_RANGE_BITS) /\ NUM_R1_VALUES <= pow2(W1_BITS)
    /\ GAMMA2 < pow2(R0_ABS_RANGE_BITS)
    /\ Z_BOUND \in 1..pow2(NORM_RANGE_BITS) /\ 2 * Z_BOUND <= ML_Q
    /\ EquationCases \subseteq [1..ML_L -> Residues] \X [1..ML_L -> Residues] \X Residues \X Residues
    /\ NATIVE \in Nat
    /\ NATIVE > 2 * (pow2(R1_RANGE_BITS) * TWO_G2 + ML_Q)
                + 2 * (pow2(R0_ABS_RANGE_BITS) + pow2(W1_BITS) + pow2(NORM_RANGE_BITS))

Vanishes(e) == e % NATIVE = 0
Boolean(e) == Vanishes(e * (e - 1))

\* The lowest n bits of v, and the value of n bits.
BitColumns(v, n) == [i \in 0..(n - 1) |-> (v \div pow2(i)) % 2]
BitSum(b, n) == SumTo([i \in 1..n |-> b[i - 1] * pow2(i - 1)], n)
BitDecomposed(v, b, n) == (\A i \in 0..(n - 1) : Boolean(b[i])) /\ Vanishes(BitSum(b, n) - v)

mul_q(a, b) == (a * b) % ML_Q
add_q(a, b) == IF a + b >= ML_Q THEN a + b - ML_Q ELSE a + b
sub_q(a, b) == IF a >= b THEN a - b ELSE a + ML_Q - b
to_signed(x) == IF x > ML_Q \div 2 THEN x - ML_Q ELSE x
lift_signed(x) == IF x >= 0 THEN x ELSE x + ML_Q

----------------------------------------------------------------------------
(* Decompose, UseHint, w1Encode and the norm check: one coefficient a row. *)

Centred(r) == LET m == r % TWO_G2 IN IF m > GAMMA2 THEN m - TWO_G2 ELSE m
HighPart(r) == (r - Centred(r)) \div TWO_G2

\* Variant: the top interval is not folded into r1 = 0.
decompose_unsnapped(r) == [r1 |-> HighPart(r), r0 |-> lift_signed(Centred(r))]

decompose(r) ==
    IF HighPart(r) = NUM_R1_VALUES
    THEN [r1 |-> 0, r0 |-> lift_signed(Centred(r) - 1)]
    ELSE [r1 |-> HighPart(r), r0 |-> lift_signed(Centred(r))]

high_bits(r) == decompose(r).r1
make_hint(z, r) == IF high_bits(r) # high_bits((r + z) % ML_Q) THEN 1 ELSE 0

\* ml_dsa_decompose::use_hint, on the coefficient.
native_use_hint(h, r) ==
    LET d == decompose(r)
    IN  CASE h = 0                               -> d.r1
          [] h = 1 /\ to_signed(d.r0) > 0        -> (d.r1 + 1) % NUM_R1_VALUES
          [] h = 1 /\ to_signed(d.r0) <= 0       -> IF d.r1 = 0 THEN NUM_R1_VALUES - 1 ELSE d.r1 - 1

DecomposeRow(r, r1, r0, sign, abs, snap) ==
    [r |-> r, r1 |-> r1, r0 |-> r0, r0_sign |-> sign, r0_abs |-> abs, snap |-> snap,
     r1_bits |-> BitColumns(r1, R1_RANGE_BITS), r0_abs_bits |-> BitColumns(abs, R0_ABS_RANGE_BITS)]

fill_decompose(r) ==
    LET d == decompose(r)
        sign == IF d.r0 > ML_Q \div 2 THEN 1 ELSE 0
        abs == IF sign = 1 THEN ML_Q - d.r0 ELSE d.r0
    IN  DecomposeRow(r, d.r1, d.r0, sign, abs, IF HighPart(r) = NUM_R1_VALUES THEN 1 ELSE 0)

\* The bound r1 < NUM_R1_VALUES has a constraint slot that is always zero.
eval_decompose(w) ==
    /\ BitDecomposed(w.r1, w.r1_bits, R1_RANGE_BITS)
    /\ BitDecomposed(w.r0_abs, w.r0_abs_bits, R0_ABS_RANGE_BITS)
    /\ Boolean(w.r0_sign) /\ Boolean(w.snap)
    /\ Vanishes((1 - w.r0_sign) * w.r0_abs + w.r0_sign * (ML_Q - w.r0_abs) - w.r0)
    /\ Vanishes(w.r1 * TWO_G2 + w.r0 + (w.snap - w.r0_sign) * ML_Q - w.r)

\* ml_dsa_use_hint_air::use_hint, on the high part and the sign (1 iff r0 > 0).
use_hint(r1, r0_sign, h) ==
    LET delta == IF h = 0 THEN 0 ELSE IF r0_sign = 1 THEN 1 ELSE 0 - 1
    IN  CASE r1 + delta < 0              -> [adj |-> NUM_R1_VALUES - 1, pos |-> 1, neg |-> 0]
          [] r1 + delta >= NUM_R1_VALUES -> [adj |-> 0, pos |-> 0, neg |-> 1]
          [] OTHER                       -> [adj |-> r1 + delta, pos |-> 0, neg |-> 0]

HintRow(r1, r0_sign, h, delta, adj, pos, neg) ==
    LET slack == NUM_R1_VALUES - 1 - adj
    IN  [r1 |-> r1, r0_sign |-> r0_sign, h |-> h, delta |-> delta,
         wrap_pos |-> pos, wrap_neg |-> neg, adjusted_r1 |-> adj, adj_bits |-> BitColumns(adj, R1_RANGE_BITS),
         slack |-> slack, slack_bits |-> BitColumns(slack, R1_RANGE_BITS)]

fill_use_hint(r1, r0_sign, h) ==
    LET u == use_hint(r1, r0_sign, h)
    IN  HintRow(r1, r0_sign, h, IF h = 0 THEN 0 ELSE IF r0_sign = 1 THEN 1 ELSE NATIVE - 1, u.adj, u.pos, u.neg)

\* A row after the inputs: all zero but the slack.
use_hint_padding == HintRow(0, 0, 0, 0, 0, 0, 0)

eval_use_hint(w) ==
    /\ Boolean(w.h) /\ Boolean(w.r0_sign) /\ Vanishes(w.delta - w.h * (2 * w.r0_sign - 1))
    /\ Boolean(w.wrap_pos) /\ Boolean(w.wrap_neg) /\ Vanishes(w.wrap_pos * w.wrap_neg)
    /\ Vanishes(w.adjusted_r1 - w.r1 - w.delta - NUM_R1_VALUES * (w.wrap_pos - w.wrap_neg))
    /\ BitDecomposed(w.adjusted_r1, w.adj_bits, R1_RANGE_BITS)
    /\ BitDecomposed(w.slack, w.slack_bits, R1_RANGE_BITS)
    /\ Vanishes(w.adjusted_r1 + w.slack + 1 - NUM_R1_VALUES)

fill_w1_encode(c) == [r1 |-> c, bits |-> BitColumns(c, W1_BITS)]
eval_w1_encode(w) == BitDecomposed(w.r1, w.bits, W1_BITS)

coeff_in_norm(c, bound) == to_signed(c) \in (1 - bound)..(bound - 1)

NormCells(c, sign, abs, slack) ==
    [c |-> c, sign |-> sign, abs |-> abs, slack |-> slack,
     abs_bits |-> BitColumns(abs, NORM_RANGE_BITS), slack_bits |-> BitColumns(slack, NORM_RANGE_BITS)]

fill_norm_check(c, bound) ==
    LET sign == IF c > ML_Q \div 2 THEN 1 ELSE 0
        abs == IF sign = 1 THEN ML_Q - c ELSE c
    IN  NormCells(c, sign, abs, IF bound - 1 - abs > 0 THEN bound - 1 - abs ELSE 0)

eval_norm_check(w, bound) ==
    /\ Boolean(w.sign)
    /\ BitDecomposed(w.abs, w.abs_bits, NORM_RANGE_BITS)
    /\ BitDecomposed(w.slack, w.slack_bits, NORM_RANGE_BITS)
    /\ Vanishes((1 - w.sign) * w.abs + w.sign * (ML_Q - w.abs) - w.c)
    /\ Vanishes(w.slack + w.abs + 1 - bound)

----------------------------------------------------------------------------
(* The matrix equation at one coefficient: w = sum a[l] z[l] - c t1d. *)

fill_equation(a, z, c, t1d, w) ==
    LET acc[l \in 0..ML_L] == IF l = 0 THEN 0 ELSE (acc[l - 1] + a[l] * z[l]) % ML_Q
        ct1d == (c * t1d) % ML_Q
    IN  [a |-> a, z |-> z, c |-> c, t1d |-> t1d, w |-> w,
         acc |-> [l \in 1..ML_L |-> acc[l]],
         acc_red |-> [l \in 1..ML_L |-> (acc[l - 1] + a[l] * z[l]) \div ML_Q],
         ct1d |-> ct1d, ct1d_red |-> (c * t1d) \div ML_Q,
         final_red |-> IF acc[ML_L] >= ct1d THEN 0 ELSE 1]

eval_equation(w) ==
    /\ \A l \in 1..ML_L :
         Vanishes((IF l = 1 THEN 0 ELSE w.acc[l - 1]) + w.a[l] * w.z[l] - w.acc_red[l] * ML_Q - w.acc[l])
    /\ Vanishes(w.c * w.t1d - w.ct1d_red * ML_Q - w.ct1d)
    /\ Vanishes(w.acc[ML_L] - w.ct1d + w.final_red * ML_Q - w.w)

----------------------------------------------------------------------------
(* The component: a coefficient on its way through the row gadgets, or a   *)
(* claimed result of the matrix equation.                                  *)

MlRowsInit ==
    /\ unit = "mldsa_rows"
    /\ \/ \E r \in Residues : st = [phase |-> "coefficient", r |-> r]
       \/ \E e \in EquationCases, w \in Residues : st = [phase |-> "claimed", e |-> e, w |-> w]

MlDecompose ==
    /\ unit = "mldsa_rows" /\ st.phase = "coefficient"
    /\ Move("mldsa_rows", [phase |-> "decomposed", r |-> st.r, d |-> fill_decompose(st.r)])

\* The sign that UseHint is given is 1 for a positive low part; that of
\* Decompose is 1 for a negative one (fill_v2_traces).
MlUseHint ==
    /\ unit = "mldsa_rows" /\ st.phase = "decomposed"
    /\ \E h \in {0, 1} :
         Move("mldsa_rows", [phase |-> "hinted", r |-> st.r, d |-> st.d,
              u |-> fill_use_hint(st.d.r1, IF st.d.r0 \in 1..(ML_Q \div 2) THEN 1 ELSE 0, h)])

MlEncode ==
    /\ unit = "mldsa_rows" /\ st.phase = "hinted"
    /\ Move("mldsa_rows", [phase |-> "encoded", r |-> st.r, u |-> st.u, e |-> fill_w1_encode(st.u.adjusted_r1)])

MlNorm ==
    /\ unit = "mldsa_rows" /\ st.phase = "coefficient"
    /\ Move("mldsa_rows", [phase |-> "normed", r |-> st.r, n |-> fill_norm_check(st.r, Z_BOUND)])

MlEquation ==
    /\ unit = "mldsa_rows" /\ st.phase = "claimed"
    /\ Move("mldsa_rows", [phase |-> "equated", e |-> st.e, w |-> st.w,
                          row |-> fill_equation(st.e[1], st.e[2], st.e[3], st.e[4], st.w)])

MlRowsNext == MlDecompose \/ MlUseHint \/ MlEncode \/ MlNorm \/ MlEquation

MlRowsSpec == MlRowsInit /\ [][MlRowsNext]_unitVars

----------------------------------------------------------------------------
(* Correctness. *)

\* The accepted rows of a coefficient, whatever a prover writes in the other
\* cells; a cell with bits is in their range, a Boolean one is Boolean.
RangeOf(bits) == 0..(pow2(bits) - 1)
AnyDecomposition(r) ==
    {w \in {DecomposeRow(r, r1, r0, sign, abs, snap) :
              r1 \in RangeOf(R1_RANGE_BITS), r0 \in Residues, abs \in RangeOf(R0_ABS_RANGE_BITS),
              sign \in {0, 1}, snap \in {0, 1}} : eval_decompose(w)}
AnyHintRow(r1, r0_sign, h) ==
    {w \in {HintRow(r1, r0_sign, h, d, a, p, n) :
              d \in {0, 1, NATIVE - 1}, a \in RangeOf(R1_RANGE_BITS), p \in {0, 1}, n \in {0, 1}} : eval_use_hint(w)}
AnyNormRow(c) ==
    {w \in {NormCells(c, sign, abs, slack) :
              sign \in {0, 1}, abs \in RangeOf(NORM_RANGE_BITS), slack \in RangeOf(NORM_RANGE_BITS)} :
       eval_norm_check(w, Z_BOUND)}

\* Each row of the ML-DSA circuit says what the native function computes.
\* Decompose splits r correctly at the boundary of the top interval, its row
\* is accepted, and every row that is accepted recomposes to r modulo q;
\* UseHint accepts the adjusted high part of the native function and no
\* other, undoing make_hint; the norm check has an accepting row exactly for
\* small coefficients; the equation row is accepted exactly for the right
\* result.
RowsExact ==
    unit = "mldsa_rows" =>
      /\ st.phase = "decomposed" =>
           /\ eval_decompose(st.d) /\ st.d.r1 \in 0..(NUM_R1_VALUES - 1)
           /\ to_signed(st.d.r0) \in (0 - GAMMA2)..GAMMA2
           /\ \A w \in AnyDecomposition(st.r) : (w.r1 * TWO_G2 + to_signed(w.r0) - st.r) % ML_Q = 0
      /\ st.phase = "hinted" =>
           /\ eval_use_hint(st.u) /\ eval_use_hint(use_hint_padding)
           /\ \A w \in AnyHintRow(st.u.r1, st.u.r0_sign, st.u.h) : w.adjusted_r1 = native_use_hint(st.u.h, st.r)
           /\ \A z \in (0 - GAMMA2)..GAMMA2 :
                make_hint(lift_signed(z), st.r) = st.u.h => st.u.adjusted_r1 = high_bits((st.r + z) % ML_Q)
      /\ st.phase = "encoded" =>
           /\ eval_w1_encode(st.e)
           /\ \A c \in RangeOf(W1_BITS) : eval_w1_encode([st.e EXCEPT !.r1 = c]) => c = native_use_hint(st.u.h, st.r)
      /\ st.phase = "normed" =>
           /\ eval_norm_check(st.n, Z_BOUND) <=> coeff_in_norm(st.r, Z_BOUND)
           /\ AnyNormRow(st.r) # {} <=> coeff_in_norm(st.r, Z_BOUND)
      /\ st.phase = "equated" =>
           (eval_equation(st.row) <=>
              (SumTo([l \in 1..ML_L |-> st.e[1][l] * st.e[2][l]], ML_L) - st.e[3] * st.e[4] - st.w) % ML_Q = 0)
=============================================================================
