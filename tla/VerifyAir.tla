----------------------------- MODULE VerifyAir -----------------------------
(***************************************************************************)
(* The Ed25519 verification circuit (ed25519_verify_air.rs, with the       *)
(* ladder of ed25519_scalar_mult_air.rs): seventeen versions v0 to v16,    *)
(* each the one before with more rows, columns and constraints.  A layout  *)
(* places blocks of columns on groups of rows; a fill writes the trace of  *)
(* a signature; an eval is the conjunction of the constraints over all     *)
(* rows.  An element is its residue and a point its extended coordinates,  *)
(* by PointSound; the hash rows are taken to end in the digest they stand  *)
(* for.                                                                    *)
(*                                                                         *)
(* A fill takes the public inputs and a function of claims: a value named  *)
(* there is written instead of the one the code computes, and everything   *)
(* further down the circuit follows from it.  The code's prover makes no   *)
(* claims; an arbitrary prover breaks up to Tampers links of the circuit.  *)
(***************************************************************************)
EXTENDS PointAir

CONSTANTS SHA512_WIDTH, SHA512_ROWS_PER_BLOCK,
          MessageLengths, LadderLengths,    \* layouts tried
          Signatures,                       \* <<A, R, s, digest>> tried
          Tampers                           \* links an arbitrary prover breaks

DIGEST_BITS == INPUT_LIMBS * LIMB_BITS
R_BITS == R_LIMBS * LIMB_BITS

----------------------------------------------------------------------------
(* Layouts.  `rows` names the row groups, a block is <<group, base, size>>. *)


\* Blocks of the given sizes for group g, one after the other from column base.
Blocks(g, base, sizes) ==
    [i \in 1..Len(sizes) |-> <<g, base + FoldLeft(+, 0, SubSeq(sizes, 1, i - 1)), sizes[i]>>]

\* Columns of their own to the right of all others.
Append_(lay, g, sizes) ==
    [lay EXCEPT !.blocks = @ \o Blocks(g, lay.width, sizes),
                !.width = @ + FoldLeft(+, 0, sizes)]

\* Columns shared with the other phases, from column 0.
Overlay(lay, g, sizes) ==
    [lay EXCEPT !.blocks = @ \o Blocks(g, 0, sizes),
                !.width = Max({@, FoldLeft(+, 0, sizes)})]

WithRows(lay, groups) == [lay EXCEPT !.rows = groups @@ @]

Element4 == <<NUM_LIMBS, NUM_LIMBS, NUM_LIMBS, NUM_LIMBS>>

verify_air_layout_v0(len) ==
    LET n_blocks == (len + 1 + 16 + 127) \div 128
        k_hash   == Max({next_power_of_two(n_blocks * SHA512_ROWS_PER_BLOCK), SHA512_ROWS_PER_BLOCK})
        base     == [rows |-> [hash |-> <<0, k_hash - 1>>, reduce |-> <<k_hash, k_hash>>],
                     blocks |-> << >>, width |-> 0, height |-> next_power_of_two(k_hash + 1),
                     k_hash |-> k_hash]
    IN  Overlay(Overlay(base, "hash", <<SHA512_WIDTH>>), "reduce",
                <<INPUT_LIMBS, Q_LIMBS, Q_LIMBS * LIMB_BITS, R_LIMBS, R_LIMBS * LIMB_BITS,
                  R_LIMBS, R_LIMBS * LIMB_BITS, PRODUCT_LIMBS * CARRY_BITS>>)

\* The digest's bits beside the hash columns of the last hash row.
verify_air_layout_v1(v0) ==
    [WithRows(v0, [digest |-> <<v0.k_hash - 1, v0.k_hash - 1>>])
       EXCEPT !.blocks = Append(@, <<"digest", SHA512_WIDTH, DIGEST_BITS>>),
              !.width = Max({@, SHA512_WIDTH + DIGEST_BITS})]

DecompressCells == <<NUM_LIMBS, 1, POINT_DECOMP_CELLS>>

verify_air_layout_v2(v1) ==
    LET k == v1.k_hash
    IN  [Overlay(Overlay(WithRows(v1, [decR |-> <<k + 1, k + 1>>, decA |-> <<k + 2, k + 2>>]),
                         "decR", DecompressCells), "decA", DecompressCells)
           EXCEPT !.height = next_power_of_two(k + 3)]

SCALAR_MULT_ROW_WIDTH == 8 * NUM_LIMBS + POINT_DBL_OWNED_CELLS + COND_ADD_OWNED_CELLS

\* Base, accumulator, the doubling and the conditional addition.
scalar_mult_row_layout == Element4 \o Element4 \o <<POINT_DBL_OWNED_CELLS, COND_ADD_OWNED_CELLS>>

verify_air_layout_v3(v2, k) ==
    LET sB == v2.k_hash + 3
        kA == sB + k
    IN  [Overlay(Overlay(WithRows(v2, [sB |-> <<sB, kA - 1>>, kA |-> <<kA, kA + k - 1>>]),
                         "sB", scalar_mult_row_layout), "kA", scalar_mult_row_layout)
           EXCEPT !.height = next_power_of_two(v2.k_hash + 3 + 2 * k)]

\* v4 and v5 add only public values; v6 a shift register per ladder; v7 the
\* bits of r on every row.
verify_air_layout_v4(v3) == v3
verify_air_layout_v5(v4) == v4
verify_air_layout_v6(v5, k) == Append_(Append_(v5, "sB", <<k>>), "kA", <<k>>)
verify_air_layout_v7(v6, k) == Append_(WithRows(v6, [all |-> <<0, v6.height - 1>>]), "all", <<k>>)

ResultCells == Element4 \o <<NUM_LIMBS, SUB_GADGET_OWNED_CELLS, SUB_GADGET_OWNED_CELLS,
                             SUB_GADGET_OWNED_CELLS>>
DoubleCells == <<NUM_LIMBS, NUM_LIMBS, NUM_LIMBS, POINT_DBL_OWNED_CELLS>>

\* The trace grows when the rows needed, and `spare` more, do not fit.
Grow(lay, needed, spare) ==
    LET h == IF lay.height >= needed + spare THEN lay.height ELSE next_power_of_two(needed)
    IN  [WithRows(lay, [all |-> <<0, h - 1>>]) EXCEPT !.height = h]

\* The first row below the ladders.
Below(lay) == lay.rows.kA[2] + 1

verify_air_layout_v8(v7) ==
    Grow(Append_(WithRows(v7, [result |-> <<Below(v7), Below(v7)>>]), "result", ResultCells),
         Below(v7) + 1, 0)

\* The doublings below the result ...
verify_air_layout_v9(v8) ==
    Grow(Append_(WithRows(v8, [dbl |-> <<Below(v8) + 1, Below(v8) + 3>>]), "dbl", DoubleCells),
         Below(v8) + 4, 1)

\* ... and, rebuilt on v7, above it.
verify_air_layout_v10(v7) ==
    LET row == Below(v7)
        rows == [dbl |-> <<row, row + 2>>, result |-> <<row + 3, row + 3>>]
    IN  Grow(Append_(Append_(WithRows(v7, rows), "result", ResultCells), "dbl", DoubleCells), row + 4, 1)

verify_air_layout_v11(v10) == Append_(v10, "all", Element4)
verify_air_layout_v12(v11) == Append_(v11, "all", Element4)
verify_air_layout_v13(v12) ==
    Append_(Append_(v12, "all", Element4), "decR", <<NUM_LIMBS, MUL_GADGET_OWNED_CELLS>>)

\* The residual row pushes the doublings and the result one row down.
verify_air_layout_v14(v13) ==
    LET row == Below(v13)
        rows == [residual |-> <<row, row>>, dbl |-> <<row + 1, row + 3>>, result |-> <<row + 4, row + 4>>]
    IN  Grow(Append_(WithRows(v13, rows), "residual",
                     <<NUM_LIMBS, SUB_GADGET_OWNED_CELLS, SUB_GADGET_OWNED_CELLS, POINT_ADD_OWNED_CELLS>>),
             row + 5, 1)

verify_air_layout_v15(v14) ==
    Append_(v14, "residual", <<SUB_GADGET_OWNED_CELLS, SUB_GADGET_OWNED_CELLS, POINT_ADD_OWNED_CELLS>>)

verify_air_layout_v16(v15) == v15

\* The version that version v is built on.
Basis(v) == IF v = 10 THEN 7 ELSE v - 1

RECURSIVE Layout(_, _, _)
Layout(v, len, k) ==
    IF v = 0 THEN verify_air_layout_v0(len)
    ELSE LET Extended(lay) ==
               CASE v = 1 -> verify_air_layout_v1(lay) [] v = 2 -> verify_air_layout_v2(lay)
                 [] v = 3 -> verify_air_layout_v3(lay, k) [] v = 4 -> verify_air_layout_v4(lay)
                 [] v = 5 -> verify_air_layout_v5(lay) [] v = 6 -> verify_air_layout_v6(lay, k)
                 [] v = 7 -> verify_air_layout_v7(lay, k) [] v = 8 -> verify_air_layout_v8(lay)
                 [] v = 9 -> verify_air_layout_v9(lay) [] v = 10 -> verify_air_layout_v10(lay)
                 [] v = 11 -> verify_air_layout_v11(lay) [] v = 12 -> verify_air_layout_v12(lay)
                 [] v = 13 -> verify_air_layout_v13(lay) [] v = 14 -> verify_air_layout_v14(lay)
                 [] v = 15 -> verify_air_layout_v15(lay) [] v = 16 -> verify_air_layout_v16(lay)
         IN  Extended(Layout(Basis(v), len, k))

----------------------------------------------------------------------------
(* Bits. *)

\* A byte is half a limb; the digest's bytes are the big-endian words of the
\* hash state one after the other.
BYTE == LIMB_BITS \div 2
DigestByte(x, b) == (x \div 2^(BYTE * b)) % 2^BYTE
WordBits(x) ==
    [w \in 0..(INPUT_LIMBS \div 4 - 1) |->
       [i \in 0..(8 * BYTE - 1) |-> (DigestByte(x, 8 * w + 7 - i \div BYTE) \div 2^(i % BYTE)) % 2]]

\* The two halves of the hash-state words: the cells the hash rows end with.
Halves(x) ==
    [w \in 0..(INPUT_LIMBS \div 4 - 1) |->
       [h \in 0..1 |-> SumFunction([b \in 0..3 |-> DigestByte(x, 8 * w + 7 - 4 * h - b) * 2^(BYTE * b)])]]

\* What the packing constraints make of digest bits: the state halves, and the
\* limbs of the reduction's input, low byte first.
PackedHalf(bits, w, h) == SumFunction([i \in 0..(4 * BYTE - 1) |-> 2^i * bits[w][4 * BYTE * h + i]])
PackedLimb(bits, w, m) ==
    SumFunction([j \in 0..(BYTE - 1) |->
        2^j * bits[w][BYTE * (7 - 2 * m) + j] + 2^(BYTE + j) * bits[w][BYTE * (6 - 2 * m) + j]])

\* Scalars as the ladders read them: most significant of the low k bits first.
MsbFirst(n, k) == [i \in 1..k |-> (n \div 2^(k - i)) % 2]
r_thread_bits_for_kA(k_canonical, k) == MsbFirst(k_canonical, k)
s_bits_for_ladder(s, k) == MsbFirst(s, k)

split_compressed(bytes) ==
    [y |-> bytes % 2^ELEMENT_BITS, sign |-> bytes \div 2^ELEMENT_BITS]

----------------------------------------------------------------------------
(* The ladder. *)

CondAdd(acc, base, bit) == IF bit = 1 THEN pt_add(acc, base) ELSE acc

\* From accumulator acc; the base may be another one from the second row on.
fill_scalar_mult_trace(base, later, bits, start) ==
    LET row(acc, b, bit) == [base |-> b, acc |-> acc, bit |-> bit, dbl |-> double(acc),
                             out |-> CondAdd(double(acc), b, bit)]
    IN  FoldLeftDomain(LAMBDA rows, j :
            Append(rows, row(IF j = 1 THEN start ELSE rows[j - 1].out,
                             IF j = 1 THEN base ELSE later, bits[j])), << >>, bits)

eval_scalar_mult_per_row(row) ==
    row.dbl = double(row.acc) /\ row.bit \in {0, 1} /\ row.out = CondAdd(row.dbl, row.base, row.bit)

eval_scalar_mult_transition(cur, nxt) == nxt.base = cur.base /\ nxt.acc = cur.out

eval_scalar_mult_initial_acc(row) == row.acc = identity

LadderHolds(rows) ==
    /\ \A j \in DOMAIN rows : eval_scalar_mult_per_row(rows[j])
    /\ \A j \in 1..(Len(rows) - 1) : eval_scalar_mult_transition(rows[j], rows[j + 1])
    /\ eval_scalar_mult_initial_acc(rows[1])

\* The register of a ladder row: the bits still to come, then zeros.
Register(bits) == [j \in DOMAIN bits |->
                     [i \in DOMAIN bits |-> IF j + i - 1 <= Len(bits) THEN bits[j + i - 1] ELSE 0]]

RegisterHolds(regs, rows, public) ==
    /\ regs[1] = public
    /\ \A j \in DOMAIN rows : rows[j].bit = regs[j][1]
    /\ \A j \in 1..(Len(rows) - 1), i \in 1..(Len(rows) - 1) : regs[j + 1][i] = regs[j][i + 1]

----------------------------------------------------------------------------
(* Fills.  pub: encodings A and R, scalar s, the digest x of R || A || M and *)
(* the ladder length k; c: the claims.                                       *)

Claim(c, name, honest) == IF name \in DOMAIN c THEN c[name] ELSE honest

public_k(pub) == reduce_mod_l_wide(pub.x)
k_bits(pub) == r_thread_bits_for_kA(public_k(pub), pub.k)
s_bits(pub) == s_bits_for_ladder(pub.s, pub.k)

\* A value kept on every row: where it is tied to the circuit, and where it is
\* read.
Thread(c, name, honest) ==
    LET at == Claim(c, name, honest) IN [at |-> at, used |-> Claim(c, name \o "_used", at)]

fill_verify_air_v0(pub, c) ==
    LET x     == Claim(c, "x", pub.x)
        input == Claim(c, "input", x)
    IN  [x |-> x, input |-> input, r |-> Claim(c, "r", reduce_mod_l_wide(input))]

\* Each later version adds to the trace t of the one it is built on.
fill_verify_air_v1(t, c) == t @@ [bits |-> WordBits(Claim(c, "bits", t.x))]

DecompressRow(bytes) ==
    LET Row(e) == fill_point_decompress_gadget(e.y, e.sign) IN Row(split_compressed(bytes))

\* No trace when an encoding is no point.
Undecodable(pub) == decompress(pub.R) = None \/ decompress(pub.A) = None
fill_verify_air_v2(t, pub, c) ==
    t @@ [R |-> DecompressRow(Claim(c, "R", pub.R)), A |-> DecompressRow(Claim(c, "A", pub.A))]

Ladder(c, base, bits) ==
    fill_scalar_mult_trace(base, Claim(c, "later", base), bits, Claim(c, "start", identity))
fill_verify_air_v3(t, pub, c) ==
    t @@ [sB |-> Ladder(c, Claim(c, "sBase", ED25519_BASEPOINT),
                        Claim(c, "sBits", Claim(c, "sReg", s_bits(pub)))),
          kA |-> Ladder(c, Claim(c, "kBase", decompress(pub.A)),
                        Claim(c, "kBits", Claim(c, "kReg", k_bits(pub))))]

fill_verify_air_v4(t) == t
fill_verify_air_v5(t) == t

fill_verify_air_v6(t, pub, c) ==
    t @@ [sReg |-> Register(Claim(c, "sReg", s_bits(pub))),
          kReg |-> Register(Claim(c, "kReg", k_bits(pub)))]

fill_verify_air_v7(t, pub, c) ==
    t @@ [thread |-> Thread(c, "thread", r_thread_bits_for_kA(t.r, pub.k))]

\* The residual sB - R - kA of the public inputs: what v8 to v15 are given as
\* cofactor_input (or eight times it as result_point), and v16 computes.
residual_2(pub) ==
    pt_sub(pt_sub(scalar_mul(ED25519_BASEPOINT, Reverse(s_bits(pub))), decompress(pub.R)),
           scalar_mul(decompress(pub.A), Reverse(k_bits(pub))))

fill_verify_air_v8(t, pub, c) ==
    t @@ [result |-> Claim(c, "result", mul_by_cofactor(residual_2(pub)))]

\* Three doubling rows.
DoublingRow(p) == [in |-> p, out |-> double(p)]
DoublingRows(p) == <<DoublingRow(p), DoublingRow(double(p)), DoublingRow(double(double(p)))>>

fill_verify_air_v9(t, pub, c) ==
    t @@ [dbl |-> DoublingRows(Claim(c, "cofactor_input", residual_2(pub)))]

\* The doublings of p and what they end in: before the result row from v10 on.
Cofactor(c, p) == [dbl |-> DoublingRows(p), result |-> Claim(c, "result", mul_by_cofactor(p))]
fill_verify_air_v10(t, pub, c) == t @@ Cofactor(c, Claim(c, "cofactor_input", residual_2(pub)))

fill_verify_air_v11(t, c) == t @@ [tsB |-> Thread(c, "tsB", Last(t.sB).out)]
fill_verify_air_v12(t, c) == t @@ [tkA |-> Thread(c, "tkA", Last(t.kA).out)]
fill_verify_air_v13(t, c) == t @@ [tR |-> Thread(c, "tR", Pt(t.R.x, t.R.y, 1, t.R.x * t.R.y))]
fill_verify_air_v14(t, c) == t @@ [R1 |-> Claim(c, "R1", pt_add(t.tsB.used, pt_neg(t.tR.used)))]
fill_verify_air_v15(t, c) == t @@ [R2 |-> Claim(c, "R2", pt_add(t.R1, pt_neg(t.tkA.used)))]

\* The doublings start from the residual of the trace, not from an argument.
fill_verify_air_v16(t, c) == Cofactor(c, Claim(c, "cofactor_input", t.R2)) @@ t

RECURSIVE FillVersion(_, _, _)
FillVersion(v, pub, c) ==
    IF v = 0 THEN fill_verify_air_v0(pub, c)
    ELSE LET Extended(t) ==
               CASE v = 1 -> fill_verify_air_v1(t, c) [] v = 2 -> fill_verify_air_v2(t, pub, c)
                 [] v = 3 -> fill_verify_air_v3(t, pub, c) [] v = 4 -> fill_verify_air_v4(t)
                 [] v = 5 -> fill_verify_air_v5(t) [] v = 6 -> fill_verify_air_v6(t, pub, c)
                 [] v = 7 -> fill_verify_air_v7(t, pub, c) [] v = 8 -> fill_verify_air_v8(t, pub, c)
                 [] v = 9 -> fill_verify_air_v9(t, pub, c) [] v = 10 -> fill_verify_air_v10(t, pub, c)
                 [] v = 11 -> fill_verify_air_v11(t, c) [] v = 12 -> fill_verify_air_v12(t, c)
                 [] v = 13 -> fill_verify_air_v13(t, c) [] v = 14 -> fill_verify_air_v14(t, c)
                 [] v = 15 -> fill_verify_air_v15(t, c) [] v = 16 -> fill_verify_air_v16(t, c)
         IN  Extended(FillVersion(Basis(v), pub, c))

----------------------------------------------------------------------------
(* Constraints: what each version adds to those of the one it is built on. *)

\* By ReduceExact, what the reduction gadget accepts.
eval_verify_air_v0(t) == t.r % L = t.input % L

eval_verify_air_v1(t) ==
    \A w \in DOMAIN t.bits :
      /\ \A i \in DOMAIN t.bits[w] : t.bits[w][i] \in {0, 1}
      /\ \A h \in 0..1 : Halves(t.x)[w][h] = PackedHalf(t.bits, w, h)
      /\ \A m \in 0..3 : LimbsOf(t.input, INPUT_LIMBS)[4 * w + m + 1] = PackedLimb(t.bits, w, m)

eval_verify_air_v2(t) == eval_point_decompress_gadget(t.R) /\ eval_point_decompress_gadget(t.A)
eval_verify_air_v3(t) == LadderHolds(t.sB) /\ LadderHolds(t.kA)

eval_verify_air_v4(pub, t) ==
    t.sB[1].base = ED25519_BASEPOINT /\ t.kA[1].base = decompress(pub.A)

eval_verify_air_v5(pub, t) ==
    LET pins(row, e) == row.y = e.y % P /\ row.sign = e.sign
    IN  pins(t.R, split_compressed(pub.R)) /\ pins(t.A, split_compressed(pub.A))

eval_verify_air_v6(pub, t) ==
    RegisterHolds(t.sReg, t.sB, s_bits(pub)) /\ RegisterHolds(t.kReg, t.kA, k_bits(pub))

Constant(th) == th.at = th.used

eval_verify_air_v7(pub, t) ==
    t.thread.at = MsbFirst(t.r, pub.k) /\ Constant(t.thread) /\ t.kReg[1] = t.thread.used

\* X - 0, T - 0 and Y - Z vanish.
ResultIsIdentity(p) == p.X = 0 /\ p.T = 0 /\ p.Y = p.Z

eval_verify_air_v8(t) == ResultIsIdentity(t.result)

SameXYZ(p, q) == p.X = q.X /\ p.Y = q.Y /\ p.Z = q.Z

DoublingHolds(rows) ==
    /\ \A j \in 1..3 : rows[j].out = double(rows[j].in)
    /\ \A j \in 1..2 : SameXYZ(rows[j + 1].in, rows[j].out)

eval_verify_air_v9(t) == DoublingHolds(t.dbl)

eval_verify_air_v10(t) ==
    ResultIsIdentity(t.result) /\ DoublingHolds(t.dbl) /\ t.result = t.dbl[3].out

eval_verify_air_v11(t) == t.tsB.at = Last(t.sB).out /\ Constant(t.tsB)
\* Variant: nothing carries [k]A from its ladder to the residual row.
eval_verify_air_loose(t) == t.tkA.at = Last(t.kA).out

eval_verify_air_v12(t) == t.tkA.at = Last(t.kA).out /\ Constant(t.tkA)
eval_verify_air_v13(t) == t.tR.at = Pt(t.R.x, t.R.y, 1, t.R.x * t.R.y) /\ Constant(t.tR)
eval_verify_air_v14(t) == t.R1 = pt_add(t.tsB.used, pt_neg(t.tR.used))
eval_verify_air_v15(t) == t.R2 = pt_add(t.R1, pt_neg(t.tkA.used))
eval_verify_air_v16(t) == SameXYZ(t.dbl[1].in, t.R2)

RECURSIVE EvalVersion(_, _, _)
EvalVersion(v, pub, t) ==
    /\ v > 0 => EvalVersion(Basis(v), pub, t)
    /\ CASE v = 0 -> eval_verify_air_v0(t) [] v = 1 -> eval_verify_air_v1(t)
         [] v = 2 -> eval_verify_air_v2(t) [] v = 3 -> eval_verify_air_v3(t)
         [] v = 4 -> eval_verify_air_v4(pub, t) [] v = 5 -> eval_verify_air_v5(pub, t)
         [] v = 6 -> eval_verify_air_v6(pub, t) [] v = 7 -> eval_verify_air_v7(pub, t)
         [] v = 8 -> eval_verify_air_v8(t) [] v = 9 -> eval_verify_air_v9(t)
         [] v = 10 -> eval_verify_air_v10(t) [] v = 11 -> eval_verify_air_v11(t)
         [] v = 12 -> eval_verify_air_v12(t) [] v = 13 -> eval_verify_air_v13(t)
         [] v = 14 -> eval_verify_air_v14(t) [] v = 15 -> eval_verify_air_v15(t)
         [] v = 16 -> eval_verify_air_v16(t)

----------------------------------------------------------------------------
(* The component: a layout is computed, or a prover fills a trace, after   *)
(* breaking some links, and the constraints are evaluated on every row.    *)

\* What a broken link may be set to.
Breaks(pub) ==
    LET points == {identity, ED25519_BASEPOINT, pt_neg(ED25519_BASEPOINT)}
        other  == [i \in 1..pub.k |-> IF i = 1 THEN 0 ELSE 1]
    IN  {<<n, 6>> : n \in {"x", "input", "bits"}} \cup {<<"r", public_k(pub) + L>>}
        \cup {<<n, BasepointBytes>> : n \in {"R", "A"}}
        \cup {<<n, other>> : n \in {"sReg", "kReg", "sBits", "kBits", "thread", "thread_used"}}
        \cup {<<n, p>> : n \in {"sBase", "kBase", "later", "start", "result", "cofactor_input",
                                "tsB", "tkA", "tR", "tsB_used", "tkA_used", "tR_used", "R1", "R2"},
                        p \in points}

VerifyInit ==
    /\ unit = "verify"
    /\ \/ \E v \in 0..16, len \in MessageLengths, k \in LadderLengths :
            st = [phase |-> "layout", v |-> v, len |-> len, k |-> k]
       \/ \E v \in 0..16, sig \in Signatures :
            st = [phase |-> "claims", v |-> v, c |-> << >>,
                  pub |-> [A |-> sig[1], R |-> sig[2], s |-> sig[3], x |-> sig[4], k |-> R_BITS]]

VerifyLayout ==
    /\ unit = "verify" /\ st.phase = "layout"
    /\ Move("verify", [phase |-> "laid", v |-> st.v, len |-> st.len, k |-> st.k,
                       lay |-> Layout(st.v, st.len, st.k)])

VerifyBreak ==
    /\ unit = "verify" /\ st.phase = "claims"
    /\ Cardinality(DOMAIN st.c) < IF st.v = 16 THEN Tampers ELSE 1
    /\ \E b \in Breaks(st.pub) :
         /\ b[1] \notin DOMAIN st.c
         /\ Move("verify", [st EXCEPT !.c = @ @@ (b[1] :> b[2])])

\* From v2 on a fill without decodable public points returns no trace.
VerifyEval ==
    /\ unit = "verify" /\ st.phase = "claims"
    /\ LET filled == st.v < 2 \/ ~Undecodable(st.pub)
       IN  Move("verify", [phase |-> "verdict", v |-> st.v, pub |-> st.pub, c |-> st.c, filled |-> filled,
                           ok |-> filled /\ EvalVersion(st.v, st.pub, FillVersion(st.v, st.pub, st.c))])

VerifyNext == VerifyLayout \/ VerifyBreak \/ VerifyEval

----------------------------------------------------------------------------
\* No two blocks of columns that are alive on a common row overlap, in any
\* version, for any message and ladder length: the phases that share columns
\* from 0 have rows of their own, also after v14 has moved the doublings, and
\* every block and row is inside the trace.  For the production ladder length
\* the trace never grows after v7, so the bits of r that v7 writes stand on
\* every row.
LayoutSound ==
    unit = "verify" /\ st.phase = "laid" =>
      LET lay == st.lay
          meet(a, aw, b, bw) == a < b + bw /\ b < a + aw
          rowsOf(bl) == lay.rows[bl[1]]
      IN  /\ \A i, j \in DOMAIN lay.blocks :
               i < j /\ rowsOf(lay.blocks[i])[1] <= rowsOf(lay.blocks[j])[2]
                     /\ rowsOf(lay.blocks[j])[1] <= rowsOf(lay.blocks[i])[2]
               => ~meet(lay.blocks[i][2], lay.blocks[i][3], lay.blocks[j][2], lay.blocks[j][3])
          /\ \A i \in DOMAIN lay.blocks : lay.blocks[i][2] + lay.blocks[i][3] <= lay.width
          /\ \A g \in DOMAIN lay.rows : lay.rows[g][1] <= lay.rows[g][2] /\ lay.rows[g][2] < lay.height
          /\ st.k = 256 /\ st.v >= 7 => lay.height = Layout(7, st.len, st.k).height

\* Whatever links a prover breaks: from v7 on an accepted trace multiplies by a
\* k that is the digest of its hash rows modulo L and equals the public one,
\* and an accepted v16 trace means that the native verifier's equation
\* [8]([s]B - R - [k]A) = 0 holds for the public R, A and s (the decompression
\* rows' blocks `one` at 1, as PointSound requires).
VerifySound ==
    unit = "verify" /\ st.phase = "verdict" /\ st.ok =>
      LET x == Claim(st.c, "x", st.pub.x)
      IN  /\ st.v >= 7 => x % L = public_k(st.pub)
          /\ st.v = 16 => is_identity(mul_by_cofactor(residual_2(st.pub)))

\* The trace the code fills is accepted, in every version, when the native
\* verifier would accept (from v8 on; before, always), except for encodings
\* whose y is not reduced or that put a sign on x = 0.
VerifyComplete ==
    unit = "verify" /\ st.phase = "verdict" /\ DOMAIN st.c = {} =>
      LET plain(bytes) == LET Plain(e) == e.y < P /\ ~(e.x = 0 /\ e.sign = 1)
                          IN  Plain(DecompressRow(bytes))
          equation == is_identity(mul_by_cofactor(residual_2(st.pub)))
      IN  /\ ~st.filled => ~verify(st.pub.A, st.pub.R, st.pub.s, st.pub.x)
          /\ st.filled => (st.ok <=> /\ st.v >= 2 => plain(st.pub.R) /\ plain(st.pub.A)
                                     /\ st.v >= 8 => equation)
          /\ st.filled /\ st.v = 16 /\ st.ok /\ st.pub.s < L =>
               verify(st.pub.A, st.pub.R, st.pub.s, st.pub.x)

\* The circuit of ed25519_verify_air.rs accepts what ed25519_verify.rs accepts:
\* no broken link passes, no good signature is turned away, and no version's
\* columns overwrite another's.
VerifyExact == LayoutSound /\ VerifySound /\ VerifyComplete
============================================================================
