----------------------------- MODULE PointAir ------------------------------
(***************************************************************************)
(* The curve gadgets (ed25519_group_air.rs): straight-line programs of     *)
(* field gadgets over the cells of one row.  A layout is the wiring of a   *)
(* gadget: for every field gadget its name, its operation and the blocks   *)
(* of cells it reads.  A cell block holds an element in tight form (any    *)
(* number of ELEMENT_BITS bits); by FieldSound a field gadget accepts an   *)
(* output block exactly when it stands for the result modulo P, so a block *)
(* may hold either representative of a small residue.  The fill functions  *)
(* compute the values on their own and are checked against the wiring.     *)
(***************************************************************************)
EXTENDS EdNative

CONSTANTS PointCases    \* pairs of encodings tried as operands

Tight == 0..(2^ELEMENT_BITS - 1)

\* Cells a field gadget owns.
ELEMENT_CELLS == NUM_LIMBS + ELEMENT_BITS
ADD_GADGET_OWNED_CELLS == ELEMENT_CELLS + NUM_LIMBS
SUB_GADGET_OWNED_CELLS == ELEMENT_CELLS + 2 * NUM_LIMBS
MUL_GADGET_OWNED_CELLS == ELEMENT_CELLS + MUL_CARRY_BITS * NUM_LIMBS
SELECT_OUT_CELLS == NUM_LIMBS

Owned(op) == CASE op = "add" -> ADD_GADGET_OWNED_CELLS [] op = "sub" -> SUB_GADGET_OWNED_CELLS
               [] op = "mul" -> MUL_GADGET_OWNED_CELLS [] op = "sel" -> SELECT_OUT_CELLS

\* Where the cell allocator stands after the gadgets of a wiring.
End(base, wiring) == base + SumFunction([i \in DOMAIN wiring |-> Owned(wiring[i][2])])

----------------------------------------------------------------------------
(* Layouts. *)

point_add_layout_at ==
    << <<"ym1", "sub", "Y1", "X1">>, <<"ym2", "sub", "Y2", "X2">>,
       <<"yp1", "add", "Y1", "X1">>, <<"yp2", "add", "Y2", "X2">>,
       <<"A", "mul", "ym1", "ym2">>, <<"B", "mul", "yp1", "yp2">>,
       <<"tt", "mul", "T1", "T2">>,  <<"C", "mul", "tt", "d2">>,
       <<"zz", "mul", "Z1", "Z2">>,  <<"D", "add", "zz", "zz">>,
       <<"E", "sub", "B", "A">>,     <<"F", "sub", "D", "C">>,
       <<"G", "add", "D", "C">>,     <<"H", "add", "B", "A">>,
       <<"X3", "mul", "E", "F">>,    <<"Y3", "mul", "G", "H">>,
       <<"T3", "mul", "E", "H">>,    <<"Z3", "mul", "F", "G">> >>

point_double_layout_at ==
    << <<"A", "mul", "X1", "X1">>,   <<"B", "mul", "Y1", "Y1">>,
       <<"zz", "mul", "Z1", "Z1">>,  <<"C", "add", "zz", "zz">>,
       <<"H", "add", "A", "B">>,     <<"xy", "add", "X1", "Y1">>,
       <<"xy2", "mul", "xy", "xy">>, <<"E", "sub", "H", "xy2">>,
       <<"G", "sub", "A", "B">>,     <<"F", "add", "C", "G">>,
       <<"X3", "mul", "E", "F">>,    <<"Y3", "mul", "G", "H">>,
       <<"T3", "mul", "E", "H">>,    <<"Z3", "mul", "F", "G">> >>

\* Variant: T comes from the sum whatever the bit.
cond_add_layout_unselected ==
    point_add_layout_at
    \o << <<"outX", "sel", "X1", "X3">>, <<"outY", "sel", "Y1", "Y3">>,
          <<"outZ", "sel", "Z1", "Z3">>, <<"outT", "sel", "T3", "T3">> >>

\* The accumulator is operand 1 of the addition and input 0 of the selects.
cond_add_layout_at ==
    point_add_layout_at
    \o << <<"outX", "sel", "X1", "X3">>, <<"outY", "sel", "Y1", "Y3">>,
          <<"outZ", "sel", "Z1", "Z3">>, <<"outT", "sel", "T1", "T3">> >>

point_decompress_layout_at ==
    << <<"x2", "mul", "x", "x">>,     <<"y2", "mul", "y", "y">>,
       <<"dx2", "mul", "d", "x2">>,   <<"dxy", "mul", "dx2", "y2">>,
       <<"y2m1", "sub", "y2", "one">>, <<"lhs", "sub", "y2m1", "x2">>,
       <<"eq", "sub", "lhs", "dxy">> >>

\* Constant, witness and flag cells come on top: d2; the bit; d, x with its
\* bits, one and an unused sign cell.
POINT_ADD_OWNED_CELLS == End(NUM_LIMBS, point_add_layout_at)
POINT_DBL_OWNED_CELLS == End(0, point_double_layout_at)
COND_ADD_OWNED_CELLS == 1 + End(NUM_LIMBS, cond_add_layout_at)
POINT_DECOMP_CELLS == End(NUM_LIMBS + ELEMENT_CELLS + NUM_LIMBS + 1, point_decompress_layout_at)

----------------------------------------------------------------------------
(* Constraints. *)

OpResult(op, x, y) == CASE op = "add" -> (x + y) % P
                        [] op = "sub" -> (x - y) % P
                        [] op = "mul" -> (x * y) % P

\* The blocks a field gadget may leave as its output; select copies cells.
Accepts(wire, cells) ==
    IF wire[2] = "sel" THEN {IF cells.bit = 1 THEN cells[wire[4]] ELSE cells[wire[3]]}
    ELSE {v \in Tight : v % P = OpResult(wire[2], cells[wire[3]], cells[wire[4]])}

WiringHolds(wiring, cells) ==
    \A i \in DOMAIN wiring : cells[wiring[i][1]] \in Accepts(wiring[i], cells)

eval_point_add_gadget(cells) == cells.d2 = D2 /\ WiringHolds(point_add_layout_at, cells)

eval_point_double_gadget(cells) == WiringHolds(point_double_layout_at, cells)

eval_cond_add_gadget(cells) ==
    cells.d2 = D2 /\ cells.bit \in {0, 1} /\ WiringHolds(cond_add_layout_at, cells)

\* The block `one` is an input of the first subtraction and not constrained.
\* The carry cells of y * y fit only the limbs they were computed from (sqY).
eval_point_decompress_gadget(cells) ==
    /\ cells.d = D /\ cells.x \in Tight
    /\ cells.sqY = cells.y
    /\ WiringHolds(point_decompress_layout_at, cells)
    /\ cells.eq = 0
    /\ cells.sign \in {0, 1} /\ cells.x % 2 = cells.sign

read_point_output(cells) == [X |-> cells.X3, Y |-> cells.Y3, Z |-> cells.Z3, T |-> cells.T3]
read_cond_add_output(cells) ==
    [X |-> cells.outX, Y |-> cells.outY, Z |-> cells.outZ, T |-> cells.outT]

----------------------------------------------------------------------------
(* Fill functions: canonical values, computed beside the wiring. *)

canonicalised(p) == [X |-> p.X % P, Y |-> p.Y % P, Z |-> p.Z % P, T |-> p.T % P]

Operands(p, q) == [X1 |-> p.X, Y1 |-> p.Y, Z1 |-> p.Z, T1 |-> p.T,
                   X2 |-> q.X, Y2 |-> q.Y, Z2 |-> q.Z, T2 |-> q.T]

\* The last four products of either formula.
Outputs(c) == c @@ [X3 |-> (c.E * c.F) % P, Y3 |-> (c.G * c.H) % P,
                    T3 |-> (c.E * c.H) % P, Z3 |-> (c.F * c.G) % P]

fill_point_add_gadget(p, q) ==
    LET Shifted(c) == c @@ [d2 |-> D2, ym1 |-> (c.Y1 - c.X1) % P, ym2 |-> (c.Y2 - c.X2) % P,
                            yp1 |-> (c.Y1 + c.X1) % P, yp2 |-> (c.Y2 + c.X2) % P,
                            tt |-> (c.T1 * c.T2) % P, zz |-> (c.Z1 * c.Z2) % P]
        Products(c) == c @@ [A |-> (c.ym1 * c.ym2) % P, B |-> (c.yp1 * c.yp2) % P,
                             C |-> (c.tt * c.d2) % P, D |-> (c.zz + c.zz) % P]
        Sums(c) == c @@ [E |-> (c.B - c.A) % P, F |-> (c.D - c.C) % P,
                         G |-> (c.D + c.C) % P, H |-> (c.B + c.A) % P]
    IN  Outputs(Sums(Products(Shifted(Operands(canonicalised(p), canonicalised(q))))))

fill_point_double_gadget(p) ==
    LET Squares(c) == [X1 |-> c.X, Y1 |-> c.Y, Z1 |-> c.Z, A |-> (c.X * c.X) % P, B |-> (c.Y * c.Y) % P,
                       zz |-> (c.Z * c.Z) % P, xy |-> (c.X + c.Y) % P]
        Products(c) == c @@ [C |-> (c.zz + c.zz) % P, H |-> (c.A + c.B) % P,
                             xy2 |-> (c.xy * c.xy) % P, G |-> (c.A - c.B) % P]
        Sums(c) == c @@ [E |-> (c.H - c.xy2) % P, F |-> (c.C + c.G) % P]
    IN  Outputs(Sums(Products(Squares(canonicalised(p)))))

fill_cond_add_gadget(acc, base, bit) ==
    LET Selected(out) == [bit |-> bit, outX |-> out.X, outY |-> out.Y, outZ |-> out.Z, outT |-> out.T]
    IN  fill_point_add_gadget(acc, base)
          @@ Selected(canonicalised(IF bit = 1 THEN pt_add(acc, base) ELSE acc))

\* None when y is no coordinate of a curve point: the prover refuses.  The
\* caller has placed the limbs of y as they came, the squaring is filled for
\* the reduced y.
fill_point_decompress_gadget(y, sign) ==
    LET yc == y % P
        Squares(x) == [y |-> y, sqY |-> yc, sign |-> sign, d |-> D, one |-> 1, x |-> x,
                       x2 |-> (x * x) % P, y2 |-> (yc * yc) % P]
        Products(c) == c @@ [dx2 |-> (D * c.x2) % P, y2m1 |-> (c.y2 - 1) % P]
        Sides(c) == c @@ [dxy |-> (c.dx2 * c.y2) % P, lhs |-> (c.y2m1 - c.x2) % P]
        Difference(c) == c @@ [eq |-> (c.lhs - c.dxy) % P]
        Row(p) == IF p = None THEN None ELSE Difference(Sides(Products(Squares(p.X))))
    IN  Row(decompress(yc + sign * 2^ELEMENT_BITS))

----------------------------------------------------------------------------
(* The component: one gadget on one row, filled by the code or written one *)
(* output block after the other by an arbitrary prover.                    *)

Wiring(g) == CASE g = "add" -> point_add_layout_at [] g = "double" -> point_double_layout_at
               [] g = "cond" -> cond_add_layout_at [] g = "decompress" -> point_decompress_layout_at

EvalPoint(g, cells) ==
    CASE g = "add" -> eval_point_add_gadget(cells) [] g = "double" -> eval_point_double_gadget(cells)
      [] g = "cond" -> eval_cond_add_gadget(cells)
      [] g = "decompress" -> eval_point_decompress_gadget(cells)

PointInit ==
    /\ unit = "point"
    /\ \/ \E c \in PointCases, g \in {"add", "double", "cond"}, z \in {1, 2} :
            st = [phase |-> "input", g |-> g, p |-> Scale(decompress(c[1]), z), q |-> decompress(c[2])]
       \/ \E y \in Tight, sign \in {0, 1} :
            st = [phase |-> "input", g |-> "decompress", y |-> y, sign |-> sign]

Fills == CASE st.g = "add" -> {fill_point_add_gadget(st.p, st.q)}
           [] st.g = "double" -> {fill_point_double_gadget(st.p)}
           [] st.g = "cond" -> {fill_cond_add_gadget(st.p, st.q, bit) : bit \in {0, 1}}
           [] st.g = "decompress" -> {fill_point_decompress_gadget(st.y, st.sign)} \ {None}

PointFill ==
    /\ unit = "point" /\ st.phase = "input"
    /\ \E cells \in Fills : Move("point", [phase |-> "filled", g |-> st.g, cells |-> cells])

\* Another prover: the cells that no field gadget owns first.
PointWitness ==
    /\ unit = "point" /\ st.phase = "input"
    /\ \/ /\ st.g # "decompress"
          /\ \E bit \in {0, 1} :
               Move("point", [phase |-> "wires", g |-> st.g, i |-> 1,
                              cells |-> Operands(st.p, st.q) @@ [d2 |-> D2, bit |-> bit]])
       \/ /\ st.g = "decompress"
          /\ \E x \in {v \in Tight : v % 2 = st.sign}, one \in {0, 1} :
               Move("point", [phase |-> "wires", g |-> st.g, i |-> 1,
                              cells |-> [y |-> st.y, sqY |-> st.y, sign |-> st.sign, d |-> D,
                                         x |-> x, one |-> one]])

PointWire ==
    /\ unit = "point" /\ st.phase = "wires"
    /\ LET w == Wiring(st.g)[st.i]
       IN \E v \in Accepts(w, st.cells) :
            LET cells == st.cells @@ [n \in {w[1]} |-> v]
            IN  IF st.i < Len(Wiring(st.g))
                THEN Move("point", [st EXCEPT !.i = @ + 1, !.cells = cells])
                ELSE /\ EvalPoint(st.g, cells)
                     /\ Move("point", [phase |-> "accepted", g |-> st.g, cells |-> cells])

PointNext == PointFill \/ PointWitness \/ PointWire

----------------------------------------------------------------------------
LogP(p) == Log[to_affine(canonicalised(p))]
In1(c) == [X |-> c.X1, Y |-> c.Y1, Z |-> c.Z1, T |-> c.T1]
In2(c) == [X |-> c.X2, Y |-> c.Y2, Z |-> c.Z2, T |-> c.T2]

\* A row that a curve gadget accepts holds the group's result, whatever
\* representatives the prover chose for the intermediate elements: the sum, the
\* double, the sum or the accumulator as the bit says, with a consistent T.  A
\* decompression row holds an x with the demanded low bit that solves the curve
\* equation with the block `one` in place of 1; it is the x of the encoding when
\* that block holds 1, as the fill writes it, and x is reduced.
PointSound ==
    unit = "point" /\ st.phase = "accepted" =>
      LET c == st.cells
          m(n) == Multiples[n % GroupOrder]
          out == canonicalised(IF st.g = "cond" THEN read_cond_add_output(c) ELSE read_point_output(c))
      IN CASE st.g = "add"    -> Stands(out, m(LogP(In1(c)) + LogP(In2(c))))
           [] st.g = "double" -> Stands(out, m(2 * LogP(In1(c))))
           [] st.g = "cond"   -> Stands(out, m(LogP(In1(c)) + c.bit * LogP(In2(c))))
           [] st.g = "decompress" ->
                /\ (c.y * c.y - c.x * c.x - c.one - D * (((c.x * c.x) % P) * ((c.y * c.y) % P))) % P = 0
                /\ c.x % 2 = c.sign
                /\ c.one = 1 /\ c.x < P =>
                     decompress(c.y + c.sign * 2^ELEMENT_BITS) = Pt(c.x, c.y, 1, c.x * c.y)

\* The row a fill function writes is accepted: what it computes beside the
\* wiring agrees with it, for operands in any projective scaling (up to the
\* carries of FieldComplete).  A decompression row is accepted for exactly the
\* encodings with a reduced y and without a sign on x = 0: the native verifier
\* takes a few more.
PointComplete ==
    unit = "point" /\ st.phase = "filled" =>
      (EvalPoint(st.g, st.cells) <=>
         (st.g = "decompress" => st.cells.y < P /\ ~(st.cells.x = 0 /\ st.cells.sign = 1)))

\* The gadgets of ed25519_group_air.rs show exactly the group operations.
PointExact == PointSound /\ PointComplete
============================================================================
