----------------------------- MODULE TowerExt -----------------------------
(***************************************************************************)
(* The extension fields that challenges are drawn from (TowerField and its *)
(* implementations): the cubic extension of the native field, the sextic   *)
(* one over it, and the chain of quadratic ones up to degree eight.  An    *)
(* element of "fp" is a number below NATIVE, any other element is the      *)
(* tuple of its coefficients over the field it extends.                    *)
(***************************************************************************)
EXTENDS ProofUnit, SequencesExt

CONSTANTS NONRESIDUE,   \* 7 in the code: no square and no cube in the native field
          ExtElements   \* components that sample elements are made of: tuples of 8

Towers == {"cube", "sextic", "fp2", "fp4", "octic"}
Base == [cube |-> "fp", sextic |-> "cube", fp2 |-> "fp", fp4 |-> "fp2", octic |-> "fp4"]
Width == [cube |-> 3, sextic |-> 2, fp2 |-> 2, fp4 |-> 2, octic |-> 2]
DEGREE == [fp |-> 1, cube |-> 3, sextic |-> 6, fp2 |-> 2, fp4 |-> 4, octic |-> 8]

\* Powers and inverses in the native field are the library's.
RECURSIVE FpPow(_, _)
FpPow(x, e) ==
    IF e = 0 THEN 1
    ELSE IF e % 2 = 1 THEN (x * FpPow(x, e - 1)) % NATIVE
    ELSE FpPow((x * x) % NATIVE, e \div 2)
None_ == << >>  \* no inverse
FpInverse(x) == IF x = 0 THEN None_ ELSE FpPow(x, NATIVE - 2)

RECURSIVE from_fp(_, _), add(_, _, _), sub(_, _, _), mul(_, _, _), sq(_, _), ext_invert(_, _)
RECURSIVE mul_by_nonresidue(_, _), frobenius(_, _), to_fp_components(_, _), from_fp_components(_, _)

from_fp(k, x) ==
    IF k = "fp" THEN x ELSE [i \in 1..Width[k] |-> from_fp(Base[k], IF i = 1 THEN x ELSE 0)] \o << >>
zero(k) == from_fp(k, 0)
one(k) == from_fp(k, 1)

add(k, a, b) == IF k = "fp" THEN (a + b) % NATIVE ELSE [i \in 1..Width[k] |-> add(Base[k], a[i], b[i])] \o << >>
sub(k, a, b) == IF k = "fp" THEN (a - b) % NATIVE ELSE [i \in 1..Width[k] |-> sub(Base[k], a[i], b[i])] \o << >>

\* The nonresidue is 7 over the native field and the generator of the field
\* below otherwise, whose product is a rotation of the coefficients.
mul_by_nonresidue(k, x) ==
    CASE Base[k] = "fp" -> (NONRESIDUE * x) % NATIVE
      [] k = "sextic"   -> <<mul_by_nonresidue("cube", x[3]), x[1], x[2]>>
      [] OTHER          -> <<mul_by_nonresidue(Base[k], x[2]), x[1]>>
gen(k) == [i \in 1..Width[k] |-> IF i = 2 THEN one(Base[k]) ELSE zero(Base[k])] \o << >>
nonresidue(k) == IF Base[k] = "fp" THEN NONRESIDUE ELSE gen(Base[k])

mul_impl_cube(a, b) ==
    <<(a[1] * b[1] + NONRESIDUE * (a[2] * b[3] + a[3] * b[2])) % NATIVE,
      (a[1] * b[2] + a[2] * b[1] + NONRESIDUE * a[3] * b[3]) % NATIVE,
      (a[1] * b[3] + a[2] * b[2] + a[3] * b[1]) % NATIVE>>

mul_impl_quad(k, a, b) ==
    LET From(f, v0, v1, sums) == <<add(f, v0, mul_by_nonresidue(k, v1)), sub(f, sub(f, sums, v0), v1)>>
        Of(f) == From(f, mul(f, a[1], b[1]), mul(f, a[2], b[2]), mul(f, add(f, a[1], a[2]), add(f, b[1], b[2])))
    IN  Of(Base[k])

mul(k, a, b) ==
    CASE k = "fp"   -> (a * b) % NATIVE
      [] k = "cube" -> mul_impl_cube(a, b)
      [] OTHER      -> mul_impl_quad(k, a, b)

\* Variant: the middle term is not doubled.
sq_cube_undoubled(a) ==
    <<(a[1] * a[1] + NONRESIDUE * a[2] * a[3]) % NATIVE,
      ((a[1] + a[1]) * a[2] + NONRESIDUE * a[3] * a[3]) % NATIVE,
      ((a[1] + a[1]) * a[3] + a[2] * a[2]) % NATIVE>>

sq_cube(a) ==
    <<(a[1] * a[1] + NONRESIDUE * (a[2] * a[3] + a[2] * a[3])) % NATIVE,
      ((a[1] + a[1]) * a[2] + NONRESIDUE * a[3] * a[3]) % NATIVE,
      ((a[1] + a[1]) * a[3] + a[2] * a[2]) % NATIVE>>

sq_quad(k, a) ==
    LET From(f, ab) == <<add(f, sq(f, a[1]), mul_by_nonresidue(k, sq(f, a[2]))), add(f, ab, ab)>>
    IN  From(Base[k], mul(Base[k], a[1], a[2]))

sq(k, a) == CASE k = "fp" -> (a * a) % NATIVE [] k = "cube" -> sq_cube(a) [] OTHER -> sq_quad(k, a)

\* Square and multiply from the low bit.
RECURSIVE PowLoop(_, _, _, _)
PowLoop(k, result, base, exp) ==
    IF exp = 0 THEN result
    ELSE PowLoop(k, IF exp % 2 = 1 THEN mul(k, result, base) ELSE result, sq(k, base), exp \div 2)
pow_u64(k, x, exp) == PowLoop(k, one(k), x, exp)

norm_cube(a) ==
    (a[1] * a[1] * a[1] + NONRESIDUE * ((a[2] * a[2] * a[2]) % NATIVE)
       + ((NONRESIDUE * NONRESIDUE) % NATIVE) * ((a[3] * a[3] * a[3]) % NATIVE)
       - 3 * NONRESIDUE * ((a[1] * a[2] * a[3]) % NATIVE)) % NATIVE
norm_quad(k, a) == sub(Base[k], sq(Base[k], a[1]), mul_by_nonresidue(k, sq(Base[k], a[2])))

invert_cube(a) ==
    LET By(n_inv) ==
          <<(((a[1] * a[1] - NONRESIDUE * a[2] * a[3]) % NATIVE) * n_inv) % NATIVE,
            (((NONRESIDUE * a[3] * a[3] - a[1] * a[2]) % NATIVE) * n_inv) % NATIVE,
            (((a[2] * a[2] - a[1] * a[3]) % NATIVE) * n_inv) % NATIVE>>
        Of(n) == IF n = 0 THEN None_ ELSE By(FpInverse(n))
    IN  Of(norm_cube(a))

invert_quad(k, a) ==
    LET By(f, n_inv) == <<mul(f, a[1], n_inv), sub(f, zero(f), mul(f, a[2], n_inv))>>
        Of(f, n) == IF n = zero(f) THEN None_ ELSE By(f, ext_invert(f, n))
    IN  Of(Base[k], norm_quad(k, a))

ext_invert(k, a) ==
    CASE k = "fp"   -> FpInverse(a)
      [] k = "cube" -> invert_cube(a)
      [] OTHER      -> invert_quad(k, a)

\* x -> x^NATIVE, from the image of the generator.
frobenius_cube(a) ==
    LET By(omega) == <<a[1], (a[2] * omega) % NATIVE, (a[3] * ((omega * omega) % NATIVE)) % NATIVE>>
    IN  By(FpPow(NONRESIDUE, (NATIVE - 1) \div 3))
frobenius_quad(k, a) ==
    LET f == Base[k]
    IN  <<frobenius(f, a[1]), mul(f, frobenius(f, a[2]), pow_u64(f, nonresidue(k), (NATIVE - 1) \div 2))>>
frobenius(k, a) ==
    CASE k = "fp" -> a [] k = "cube" -> frobenius_cube(a) [] OTHER -> frobenius_quad(k, a)

to_fp_components(k, a) ==
    IF k = "fp" THEN <<a>> ELSE FlattenSeq([i \in 1..Width[k] |-> to_fp_components(Base[k], a[i])])
from_fp_components(k, c) ==
    IF k = "fp" THEN c[1]
    ELSE LET d == DEGREE[Base[k]]
         IN  [i \in 1..Width[k] |-> from_fp_components(Base[k], SubSeq(c, d * (i - 1) + 1, d * i))] \o << >>

\* All inverses for the price of one; a zero among the values panics.
batch_inverse(k, vals) ==
    LET n == Len(vals)
        prefix[i \in 1..n] == IF i = 1 THEN vals[1] ELSE mul(k, prefix[i - 1], vals[i])
        inv[i \in 1..n] == IF i = n THEN ext_invert(k, prefix[n]) ELSE mul(k, inv[i + 1], vals[i + 1])
    IN  IF ext_invert(k, prefix[n]) = None_ THEN None_
        ELSE [i \in 1..n |-> IF i = 1 THEN inv[1] ELSE mul(k, prefix[i - 1], inv[i])] \o << >>

----------------------------------------------------------------------------
(* The component: a field operation on sample elements. *)

ExtInput == [phase : {"input"}, k : Towers, c : ExtElements, e : ExtElements]
ExtInit == unit = "ext" /\ st \in ExtInput

ExtCall ==
    /\ st.phase = "input"
    /\ LET k == st.k
           a == from_fp_components(k, SubSeq(st.c, 1, DEGREE[k]))
           b == from_fp_components(k, SubSeq(st.e, 1, DEGREE[k]))
       IN  Move("ext", [phase |-> "done", k |-> k, a |-> a, b |-> b,
                        product |-> mul(k, a, b), square |-> sq(k, a), inverse |-> ext_invert(k, a),
                        frobenius |-> frobenius(k, a), power |-> pow_u64(k, a, NATIVE),
                        inverses |-> batch_inverse(k, <<a, b, mul(k, a, b)>>)])

ExtNext == unit = "ext" /\ ExtCall

----------------------------------------------------------------------------
(* Every field of the tower is the native field with a root of             *)
(* X^d = NONRESIDUE added; component number i stands for a power of it.    *)

Exponent(k, i) ==
    CASE k = "cube"   -> i
      [] k = "sextic" -> 2 * (i % 3) + (i \div 3)
      [] OTHER        -> LET d == DEGREE[k]
                         IN  CASE d = 2 -> i
                               [] d = 4 -> 2 * (i % 2) + (i \div 2)
                               [] d = 8 -> 4 * (i % 2) + 2 * ((i \div 2) % 2) + (i \div 4)

PolyOf(k, a) ==
    LET c == to_fp_components(k, a)
    IN  [e \in 0 .. DEGREE[k] - 1 |-> c[1 + (CHOOSE i \in 0 .. DEGREE[k] - 1 : Exponent(k, i) = e)]]
PolyProduct(k, a, b) ==
    LET d == DEGREE[k]
        f == PolyOf(k, a)
        g == PolyOf(k, b)
        term(e, i) == f[i] * g[(e - i) % d] * (IF i > e THEN NONRESIDUE ELSE 1)
    IN  [e \in 0 .. d - 1 |-> (MapThenSumSet(LAMBDA i : term(e, i), 0 .. d - 1)) % NATIVE]

\* Products, squares, inverses (none of zero), batched inverses and the
\* Frobenius map of every extension field agree with polynomial arithmetic
\* modulo X^d - NONRESIDUE (cubic_ext.rs, sextic_ext.rs, octic_ext.rs).
ExtExact ==
    (unit = "ext" /\ st.phase = "done") =>
       /\ PolyOf(st.k, st.product) = PolyProduct(st.k, st.a, st.b)
       /\ PolyOf(st.k, st.square) = PolyProduct(st.k, st.a, st.a)
       /\ IF st.a = zero(st.k) THEN st.inverse = None_
          ELSE PolyProduct(st.k, st.a, st.inverse) = PolyOf(st.k, one(st.k))
       /\ IF zero(st.k) \in {st.a, st.b} THEN st.inverses = None_
          ELSE st.inverses = <<ext_invert(st.k, st.a), ext_invert(st.k, st.b), ext_invert(st.k, st.product)>>
       /\ st.frobenius = st.power
===========================================================================
