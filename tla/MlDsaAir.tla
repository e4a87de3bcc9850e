------------------------------ MODULE MlDsaAir ------------------------------
(***************************************************************************)
(* The traces of the ML-DSA verification circuit: the operations modulo q, *)
(* the number-theoretic transform as a trace of butterflies, and version   *)
(* 1.7 of the circuit, which puts the equation, the norm check and the     *)
(* transforms of z in regions of one trace.  A polynomial is a function    *)
(* on 0..ML_N-1; the degree is scaled down with the modulus.               *)
(***************************************************************************)
EXTENDS MlDsaRows, SequencesExt

CONSTANTS ML_N, ML_K,                \* N and K of the parameter set
          NUM_RANGE_BITS,            \* bits of q
          ZETA, N_INV,               \* a primitive 2N-th root of one, 1/N
          NttInputs                  \* the polynomials that are transformed

Coefficients == 0..(ML_N - 1)

----------------------------------------------------------------------------
(* Operations modulo q, one a row, behind one-hot selectors. *)

Selectors == {"NOP", "ADD", "SUB", "MUL"}
FieldOp(op, a, b) == [op |-> op, a |-> a, b |-> b]

\* The result and the multiple of q that was taken off or added.
evaluate(o) ==
    CASE o.op = "NOP" -> [c |-> 0, k |-> 0]
      [] o.op = "ADD" -> LET k == IF o.a + o.b >= ML_Q THEN 1 ELSE 0
                         IN  [c |-> o.a + o.b - k * ML_Q, k |-> k]
      [] o.op = "SUB" -> IF o.a >= o.b THEN [c |-> o.a - o.b, k |-> 0]
                         ELSE [c |-> o.a + ML_Q - o.b, k |-> 1]
      [] o.op = "MUL" -> [c |-> (o.a * o.b) % ML_Q, k |-> (o.a * o.b) \div ML_Q]

fill_field_op(o) ==
    [sel |-> [s \in Selectors |-> IF s = o.op THEN 1 ELSE 0],
     a |-> o.a, b |-> o.b, c |-> evaluate(o).c, k |-> evaluate(o).k,
     bits |-> BitColumns(evaluate(o).c, NUM_RANGE_BITS)]

eval_field_op(w) ==
    /\ \A s \in Selectors : Boolean(w.sel[s])
    /\ Vanishes(w.sel["NOP"] + w.sel["ADD"] + w.sel["SUB"] + w.sel["MUL"] - 1)
    /\ Vanishes(  w.sel["ADD"] * (w.a + w.b - w.c - w.k * ML_Q)
                + w.sel["SUB"] * (w.a - w.b - w.c + w.k * ML_Q)
                + w.sel["MUL"] * (w.a * w.b - w.c - w.k * ML_Q)
                + w.sel["NOP"] * (w.a + w.b + w.c))
    /\ BitDecomposed(w.c, w.bits, NUM_RANGE_BITS)

----------------------------------------------------------------------------
(* The number-theoretic transform. *)

LogN == CHOOSE s \in 0..ML_N : 2^s = ML_N
ReversedBits(i) == BitSum([b \in 0..(LogN - 1) |-> (i \div 2^(LogN - 1 - b)) % 2], LogN)
PowQ(e) == LET p[n \in Nat] == IF n = 0 THEN 1 ELSE mul_q(ZETA, p[n - 1]) IN p[e]
compute_zetas == [k \in Coefficients |-> PowQ(ReversedBits(k))]

\* Group k of the loops of ntt: its stage has 2^s groups of `len` butterflies.
Stage(k) == CHOOSE s \in 0..LogN : 2^s <= k /\ k < 2^(s + 1)
GroupLen(k) == ML_N \div 2^(Stage(k) + 1)
GroupStart(k) == (k - 2^Stage(k)) * 2 * GroupLen(k)
Lows(k) == GroupStart(k)..(GroupStart(k) + GroupLen(k) - 1)
Highs(k) == {j + GroupLen(k) : j \in Lows(k)}

\* The value at i after group k, given what the low and the high cell become.
Grouped(a, k, Low(_, _), High(_, _)) ==
    [i \in Coefficients |->
        IF i \in Lows(k) THEN Low(a[i], a[i + GroupLen(k)])
        ELSE IF i \in Highs(k) THEN High(a[i - GroupLen(k)], a[i]) ELSE a[i]]

Forward == [k \in 1..(ML_N - 1) |-> k]

ntt(a) ==
    LET group(x, k) == Grouped(x, k, LAMBDA lo, hi : add_q(lo, mul_q(compute_zetas[k], hi)),
                                     LAMBDA lo, hi : sub_q(lo, mul_q(compute_zetas[k], hi)))
    IN  FoldLeft(group, a, Forward)

\* Groups from last to first: within a stage the index k falls while `start`
\* rises, so the group at position p of its stage takes zetas[k] of the mirrored one.
Mirrored(k) == 3 * 2^Stage(k) - 1 - k
InverseZeta(k) == ML_Q - compute_zetas[k]

ntt_inv(a) ==
    LET group(x, k) == Grouped(x, Mirrored(k), add_q, LAMBDA lo, hi : mul_q(InverseZeta(k), sub_q(lo, hi)))
        done == FoldLeft(group, a, Reverse(Forward))
    IN  [i \in Coefficients |-> mul_q(done[i], N_INV)]

\* The operation sequences of the two transforms, with the polynomial so far.
ButterflyOps(lo, hi, zeta) ==
    LET t == mul_q(zeta, hi)
    IN  <<FieldOp("MUL", zeta, hi), FieldOp("SUB", lo, t), FieldOp("ADD", lo, t)>>
InverseOps(lo, hi, zeta) ==
    <<FieldOp("ADD", lo, hi), FieldOp("SUB", lo, hi), FieldOp("MUL", zeta, sub_q(lo, hi))>>
InGroup(acc, k, Ops(_, _)) ==
    FoldLeft(LAMBDA ops, j : ops \o Ops(acc.a[GroupStart(k) + j], acc.a[GroupStart(k) + j + GroupLen(k)]),
             acc.ops, [j \in 1..GroupLen(k) |-> j - 1])

ntt_field_ops(a) ==
    LET group(acc, k) ==
          [ops |-> InGroup(acc, k, LAMBDA lo, hi : ButterflyOps(lo, hi, compute_zetas[k])),
           a |-> Grouped(acc.a, k, LAMBDA lo, hi : add_q(lo, mul_q(compute_zetas[k], hi)),
                                   LAMBDA lo, hi : sub_q(lo, mul_q(compute_zetas[k], hi)))]
    IN  FoldLeft(group, [ops |-> << >>, a |-> a], Forward)

ntt_inv_field_ops(a) ==
    LET group(acc, k) ==
          [ops |-> InGroup(acc, Mirrored(k), LAMBDA lo, hi : InverseOps(lo, hi, InverseZeta(k))),
           a |-> Grouped(acc.a, Mirrored(k), add_q, LAMBDA lo, hi : mul_q(InverseZeta(k), sub_q(lo, hi)))]
        done == FoldLeft(group, [ops |-> << >>, a |-> a], Reverse(Forward))
    IN  [ops |-> done.ops \o [i \in 1..ML_N |-> FieldOp("MUL", N_INV, done.a[i - 1])],
         a |-> [i \in Coefficients |-> mul_q(N_INV, done.a[i])]]

----------------------------------------------------------------------------
(* The transform as a trace: butterfly r leads from row r to row r + 1. *)

BUTTERFLIES_PER_NTT == LogN * (ML_N \div 2)

butterfly_schedule(r) ==
    LET s == r \div (ML_N \div 2)
        len == (ML_N \div 2) \div 2^s
        in_stage == r % (ML_N \div 2)
    IN  [j |-> (in_stage \div len) * 2 * len + (in_stage % len), len |-> len,
         k_zeta |-> 2^s + (in_stage \div len)]

Idle(state) == [state |-> state, t |-> 0, k_mul |-> 0, k_add |-> 0, k_sub |-> 0]

\* Row r with the workspace of its butterfly, and the state of the next row.
Butterfly(state, r) ==
    LET b == butterfly_schedule(r)
        lo == state[b.j]
        prod == compute_zetas[b.k_zeta] * state[b.j + b.len]
        t == prod % ML_Q
    IN  [row |-> [state |-> state, t |-> t, k_mul |-> prod \div ML_Q,
                  k_add |-> IF lo + t >= ML_Q THEN 1 ELSE 0, k_sub |-> IF lo >= t THEN 0 ELSE 1],
         next |-> [state EXCEPT ![b.j] = add_q(lo, t), ![b.j + b.len] = sub_q(lo, t)]]

\* All rows, padded with the final state.
fill_ntt_chained(input, n_trace) ==
    LET states == FoldLeft(LAMBDA ss, r : Append(ss, Butterfly(Last(ss), r).next), <<input>>,
                           [r \in 1..BUTTERFLIES_PER_NTT |-> r - 1])
    IN  [r \in 1..n_trace |-> IF r <= BUTTERFLIES_PER_NTT THEN Butterfly(states[r], r - 1).row
                              ELSE Idle(Last(states))]

Passes(cur, nxt, cells) == \A i \in cells : Vanishes(nxt.state[i] - cur.state[i])

\* Variant: the cells that a butterfly does not touch are left unconstrained.
eval_ntt_unpassed(cur, nxt, row) ==
    row < BUTTERFLIES_PER_NTT =>
      LET b == butterfly_schedule(row)
      IN  /\ Vanishes(compute_zetas[b.k_zeta] * cur.state[b.j + b.len] - cur.t - cur.k_mul * ML_Q)
          /\ Vanishes(cur.state[b.j] + cur.t - nxt.state[b.j] - cur.k_add * ML_Q)
          /\ Vanishes(cur.state[b.j] - cur.t - nxt.state[b.j + b.len] + cur.k_sub * ML_Q)
          /\ Boolean(cur.k_add) /\ Boolean(cur.k_sub)

eval_ntt_chained(cur, nxt, row) ==
    IF row >= BUTTERFLIES_PER_NTT THEN Passes(cur, nxt, Coefficients)
    ELSE LET b == butterfly_schedule(row)
             hi == b.j + b.len
         IN  /\ Vanishes(compute_zetas[b.k_zeta] * cur.state[hi] - cur.t - cur.k_mul * ML_Q)
             /\ Vanishes(cur.state[b.j] + cur.t - nxt.state[b.j] - cur.k_add * ML_Q)
             /\ Vanishes(cur.state[b.j] - cur.t - nxt.state[hi] + cur.k_sub * ML_Q)
             /\ Boolean(cur.k_add) /\ Boolean(cur.k_sub)
             /\ Passes(cur, nxt, Coefficients \ {b.j, hi})

----------------------------------------------------------------------------
(* Version 1.7 of the verification circuit: the equation, the norm check   *)
(* and the transforms of z in three regions of one trace, each behind a    *)
(* selector column.  A row has the columns of all three gadgets.           *)

N_EQ_ROWS == ML_K * ML_N
N_NORM_ROWS == ML_L * ML_N
NTT_INSTANCE_ROWS == BUTTERFLIES_PER_NTT + 1
NTT_REGION_BASE == N_EQ_ROWS + N_NORM_ROWS
VERIFY_AIR_V17_ACTIVE_ROWS == NTT_REGION_BASE + ML_L * NTT_INSTANCE_ROWS

classify(row) ==
    CASE row < N_EQ_ROWS                   -> <<"Eq", 0>>
      [] row \in N_EQ_ROWS..(NTT_REGION_BASE - 1) -> <<"Norm", 0>>
      [] row \in NTT_REGION_BASE..(VERIFY_AIR_V17_ACTIVE_ROWS - 1) ->
           LET r == (row - NTT_REGION_BASE) % NTT_INSTANCE_ROWS
           IN  IF r < BUTTERFLIES_PER_NTT THEN <<"NttButterfly", r>> ELSE <<"NttInstanceOutput", r>>
      [] OTHER                             -> <<"Padding", 0>>

ZeroPoly == [i \in Coefficients |-> 0]
ZeroVector == [l \in 1..ML_L |-> 0]
ZeroEquation == [a |-> ZeroVector, z |-> ZeroVector, c |-> 0, t1d |-> 0, w |-> 0, acc |-> ZeroVector,
                 acc_red |-> ZeroVector, ct1d |-> 0, ct1d_red |-> 0, final_red |-> 0]
ZeroNorm == NormCells(0, 0, 0, 0)
ZeroRow == [sel_eq |-> 0, sel_norm |-> 0, sel_ntt |-> 0,
            eq |-> ZeroEquation, norm |-> ZeroNorm, ntt |-> Idle(ZeroPoly)]

\* x has the matrix a, the challenge c, t1d, the claimed w (all in the
\* transformed domain), z and its transform z_ntt; vectors start at 1.
EqRow(x, row) ==
    LET k == row \div ML_N + 1
        i == row % ML_N
    IN  [ZeroRow EXCEPT !.sel_eq = 1,
         !.eq = fill_equation([l \in 1..ML_L |-> x.a[k][l][i]], [l \in 1..ML_L |-> x.z_ntt[l][i]],
                              x.c[i], x.t1d[k][i], x.w[k][i])]

NormRow(x, r) ==
    [ZeroRow EXCEPT !.sel_norm = 1, !.norm = fill_norm_check(x.z[r \div ML_N + 1][r % ML_N], Z_BOUND)]

NttRows(z) ==
    LET sub == fill_ntt_chained(z, next_power_of_two(NTT_INSTANCE_ROWS))
    IN  [r \in 1..NTT_INSTANCE_ROWS |->
           [ZeroRow EXCEPT !.sel_ntt = IF r <= BUTTERFLIES_PER_NTT THEN 1 ELSE 0, !.ntt = sub[r]]]

fill_v17(x, n_trace) ==
    [r \in 1..N_EQ_ROWS |-> EqRow(x, r - 1)] \o [r \in 1..N_NORM_ROWS |-> NormRow(x, r - 1)]
    \o FlattenSeq([l \in 1..ML_L |-> NttRows(x.z[l])])
    \o [r \in 1..(n_trace - VERIFY_AIR_V17_ACTIVE_ROWS) |-> ZeroRow]

RowInInstance(row) == IF classify(row)[1] = "NttButterfly" THEN classify(row)[2] ELSE BUTTERFLIES_PER_NTT

eval_v17(cur, nxt, row) ==
    /\ Boolean(cur.sel_eq) /\ Boolean(cur.sel_norm) /\ Boolean(cur.sel_ntt)
    /\ Vanishes(cur.sel_eq) \/ eval_equation(cur.eq)
    /\ Vanishes(cur.sel_norm) \/ eval_norm_check(cur.norm, Z_BOUND)
    /\ Vanishes(cur.sel_ntt) \/ eval_ntt_chained(cur.ntt, nxt.ntt, RowInInstance(row))

----------------------------------------------------------------------------
(* The component: a polynomial on its way through the transform.           *)

MlAirInit ==
    /\ unit = "mldsa_air"
    /\ \E p \in NttInputs : st = [phase |-> "butterflies", input |-> p, state |-> p, rows |-> << >>]

MlButterfly ==
    /\ unit = "mldsa_air" /\ st.phase = "butterflies" /\ Len(st.rows) < BUTTERFLIES_PER_NTT
    /\ LET b == Butterfly(st.state, Len(st.rows))
       IN  Move("mldsa_air", [st EXCEPT !.rows = Append(@, b.row), !.state = b.next])

MlPad ==
    /\ unit = "mldsa_air" /\ st.phase = "butterflies" /\ Len(st.rows) = BUTTERFLIES_PER_NTT
    /\ Move("mldsa_air", [st EXCEPT !.phase = "padded", !.rows = @ \o
              [r \in 1..(next_power_of_two(NTT_INSTANCE_ROWS) - BUTTERFLIES_PER_NTT) |-> Idle(st.state)]])

MlOperations ==
    /\ unit = "mldsa_air" /\ st.phase = "padded"
    /\ LET f == ntt_field_ops(st.input)
           b == ntt_inv_field_ops(st.state)
       IN  Move("mldsa_air", [phase |-> "operations", input |-> st.input, state |-> st.state,
                forward |-> f.a, back |-> b.a, ops |-> f.ops \o b.ops,
                rows |-> [i \in DOMAIN (f.ops \o b.ops) |-> fill_field_op((f.ops \o b.ops)[i])]])

MlAirNext == MlButterfly \/ MlPad \/ MlOperations

----------------------------------------------------------------------------
(* Correctness. *)

RowsHold(rows) == \A r \in 1..(Len(rows) - 1) : eval_ntt_chained(rows[r], rows[r + 1], r - 1)

\* The polynomial at the odd power 2 br(i) + 1 of zeta.
Evaluation(p, i) ==
    FoldFunction(add_q, 0, [j \in Coefficients |-> mul_q(p[j], PowQ(((2 * ReversedBits(i) + 1) * j) % (2 * ML_N)))])

\* The butterflies compute the evaluations at the odd powers of the root, no
\* state cell can be changed alone, and the two operation sequences (ntt,
\* ntt_inv of ml_dsa_ntt_air.rs) are accepted and inverse to each other.
TransformExact ==
    unit = "mldsa_air" =>
      /\ st.phase = "padded" =>
           /\ RowsHold(st.rows)
           /\ st.state = ntt(st.input) /\ \A i \in Coefficients : st.state[i] = Evaluation(st.input, i)
           /\ ntt_inv(st.state) = st.input
           /\ fill_ntt_chained(st.input, Len(st.rows)) = st.rows
           /\ \A r \in DOMAIN st.rows, i \in Coefficients, v \in 0..(ML_Q - 1) :
                v # st.rows[r].state[i] => ~RowsHold([st.rows EXCEPT ![r].state[i] = v])
      /\ st.phase = "operations" =>
           /\ st.forward = st.state /\ st.back = st.input
           /\ \A r \in DOMAIN st.rows : eval_field_op(st.rows[r])
=============================================================================
