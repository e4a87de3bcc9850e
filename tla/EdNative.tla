----------------------------- MODULE EdNative ------------------------------
(***************************************************************************)
(* Native Ed25519: the exponent chains of ed25519_field.rs, the scalars of *)
(* ed25519_scalar.rs, the curve group of ed25519_group.rs and the          *)
(* verification of ed25519_verify.rs, on a curve of the same shape over    *)
(* the small prime of FieldAir (-x^2 + y^2 = 1 + D x^2 y^2, cofactor 8).   *)
(* An element is its residue modulo P: FieldAir shows that the limb        *)
(* operations compute residues.  The 32 bytes of a point are a number of   *)
(* ELEMENT_BITS bits for y and the sign of x above them.                   *)
(***************************************************************************)
EXTENDS FieldAir, ScalarAir

CONSTANTS D,                \* curve parameter
          BasepointBytes,   \* ED25519_BASEPOINT_COMPRESSED
          SCALAR_BITS,      \* bits of a scalar: 256 in the code
          PointBytes,       \* encodings tried as points
          Scalars           \* scalars tried

----------------------------------------------------------------------------
(* Exponents of the fixed chains, each the set of its one bits. *)

ExpOne == {0}
ExpSquare(e, n) == {b + n : b \in e}

\* Powers multiply by adding exponents: add without carry, then the carries.
RECURSIVE ExpTimes(_, _)
ExpTimes(e, f) == IF f = {} THEN e
                  ELSE ExpTimes((e \ f) \cup (f \ e), ExpSquare(e \cap f, 1))

\* The part invert and pow_p_minus_5_div_8 share, up to 2^250 - 1.
Chain ==
    LET z2   == ExpSquare(ExpOne, 1)
        z9   == ExpTimes(ExpSquare(ExpSquare(z2, 1), 1), ExpOne)
        z11  == ExpTimes(z9, z2)
        n5   == ExpTimes(ExpSquare(z11, 1), z9)
        n10  == ExpTimes(ExpSquare(n5, 5), n5)
        n20  == ExpTimes(ExpSquare(n10, 10), n10)
        n40  == ExpTimes(ExpSquare(n20, 20), n20)
        n50  == ExpTimes(ExpSquare(n40, 10), n10)
        n100 == ExpTimes(ExpSquare(n50, 50), n50)
        n200 == ExpTimes(ExpSquare(n100, 100), n100)
    IN  [z11 |-> z11, n250 |-> ExpTimes(ExpSquare(n200, 50), n50)]

invert_exponent == ExpTimes(ExpSquare(Chain.n250, 5), Chain.z11)
pow_p_minus_5_div_8_exponent == ExpTimes(ExpSquare(ExpSquare(Chain.n250, 1), 1), ExpOne)
sqrt_m1_exponent == {i \in 0..252 : i >= 3 \/ i \in {0, 1}}

----------------------------------------------------------------------------
(* Residues. *)

RECURSIVE Power(_, _)
Power(x, n) == IF n = 0 THEN 1
               ELSE LET h == Power(x, n \div 2)
                    IN  (h * h * (IF n % 2 = 1 THEN x ELSE 1)) % P

invert(x) == Power(x, P - 2)
SQRT_M1 == Power(2, (P - 1) \div 4)
D2 == (D + D) % P
is_negative(x) == x % 2 = 1
neg(x) == (- x) % P

\* sqrt(u / v), the root with even residue; none when u / v is no square.
sqrt_ratio_i(u, v) ==
    LET v3 == (v * v * v) % P
        Candidate(v7) == (((u * v3) % P) * Power((u * v7) % P, (P - 5) \div 8)) % P
        NonNegative(r) == IF is_negative(r) THEN neg(r) ELSE r
        Checked(r, check) ==
          IF check \notin {u, neg(u)} THEN [ok |-> FALSE, x |-> 0]
          ELSE [ok |-> TRUE,
                x  |-> NonNegative(IF check = neg(u) THEN (r * SQRT_M1) % P ELSE r)]
        Check(r) == Checked(r, (v * r * r) % P)
    IN  Check(Candidate((v3 * v3 * v) % P))

----------------------------------------------------------------------------
(* The group: EdwardsPoint. *)

Pt(x, y, z, t) == [X |-> x % P, Y |-> y % P, Z |-> z % P, T |-> t % P]
identity == Pt(0, 1, 1, 0)

FromEFGH(e, f, g, h) == Pt(e * f, g * h, f * g, e * h)
FromABCD(a, b, c, d) == FromEFGH(b - a, d - c, d + c, b + a)

pt_add(p, q) ==
    FromABCD(((p.Y - p.X) * (q.Y - q.X)) % P, ((p.Y + p.X) * (q.Y + q.X)) % P,
             (((p.T * q.T) % P) * D2) % P, (2 * p.Z * q.Z) % P)

\* q.Z = 1: one multiplication less.
add_affine_other(p, q) ==
    FromABCD(((p.Y - p.X) * (q.Y - q.X)) % P, ((p.Y + p.X) * (q.Y + q.X)) % P,
             (((p.T * q.T) % P) * D2) % P, (p.Z + p.Z) % P)

double(p) ==
    LET From(a, b, c) == FromEFGH((a + b - (p.X + p.Y) * (p.X + p.Y)) % P, c + a - b, a - b, a + b)
    IN  From((p.X * p.X) % P, (p.Y * p.Y) % P, (2 * p.Z * p.Z) % P)

pt_neg(p) == Pt(- p.X, p.Y, p.Z, - p.T)
pt_sub(p, q) == pt_add(p, pt_neg(q))

to_affine(p) == <<(p.X * invert(p.Z)) % P, (p.Y * invert(p.Z)) % P>>

compress(p) ==
    LET Encode(a) == a[2] + (IF is_negative(a[1]) THEN 2^ELEMENT_BITS ELSE 0)
    IN  Encode(to_affine(p))

None == [none |-> TRUE]

decompress(bytes) ==
    LET sign == bytes \div 2^ELEMENT_BITS
        y    == bytes % 2^ELEMENT_BITS
        Root(y2)     == sqrt_ratio_i((y2 - 1) % P, (D * y2 + 1) % P)
        Signed_(x)   == IF is_negative(x) # (sign = 1) THEN neg(x) ELSE x
        Affine(x)    == Pt(x, y, 1, x * y)
        Finish(root) == IF root.ok THEN Affine(Signed_(root.x)) ELSE None
    IN  Finish(Root((y * y) % P))

ct_eq(p, q) == /\ (p.X * q.Z) % P = (q.X * p.Z) % P
               /\ (p.Y * q.Z) % P = (q.Y * p.Z) % P
is_identity(p) == ct_eq(p, identity)
mul_by_cofactor(p) == double(double(double(p)))

ED25519_BASEPOINT == decompress(BasepointBytes)

\* Scalars are bit sequences from the least significant.
scalar_bytes_to_bits_le(s) == [i \in 1..SCALAR_BITS |-> (s \div 2^(i - 1)) % 2]

scalar_mul(p, bits) ==
    FoldRight(LAMBDA bit, acc : IF bit = 1 THEN pt_add(double(acc), p) ELSE double(acc),
              bits, identity)

RECURSIVE Doublings(_, _)
Doublings(p, n) == IF n = 0 THEN p ELSE double(Doublings(p, n - 1))

\* All inverses from one inversion of the product: running products upwards,
\* then down again.
batch_invert(xs) ==
    LET n == Len(xs)
        running[i \in 1..n] == IF i = 1 THEN xs[1] ELSE (running[i - 1] * xs[i]) % P
        inv[i \in 1..n] == IF i = n THEN invert(running[n]) ELSE (inv[i + 1] * xs[i + 1]) % P
    IN  [i \in 1..n |-> IF i = 1 THEN inv[1] ELSE (inv[i] * running[i - 1]) % P]

BASEPOINT_POW2_TABLE ==
    LET tmp  == [i \in 1..SCALAR_BITS |-> Doublings(ED25519_BASEPOINT, i - 1)]
        zinv == batch_invert([i \in 1..SCALAR_BITS |-> tmp[i].Z])
    IN  [i \in 1..SCALAR_BITS |->
           LET x == (tmp[i].X * zinv[i]) % P
               y == (tmp[i].Y * zinv[i]) % P
           IN  Pt(x, y, 1, x * y)]

scalar_mul_basepoint(bits) ==
    FoldLeftDomain(LAMBDA acc, i : IF bits[i] = 1
                                   THEN add_affine_other(acc, BASEPOINT_POW2_TABLE[i])
                                   ELSE acc, identity, bits)

\* Four doublings per nibble, then the entry of the table of multiples.
scalar_mul_windowed(p, bits) ==
    LET table[i \in 0..15] == IF i = 0 THEN identity ELSE IF i = 1 THEN p
                              ELSE pt_add(table[i - 1], p)
        nibbles == [n \in 1..(Len(bits) \div 4) |->
                      SumFunction([b \in 1..4 |-> bits[4 * (n - 1) + b] * 2^(b - 1)])]
    IN  FoldRight(LAMBDA nib, acc : IF nib # 0 THEN pt_add(Doublings(acc, 4), table[nib])
                                    ELSE Doublings(acc, 4), nibbles, identity)

----------------------------------------------------------------------------
(* Scalars and verification. *)

\* Variant: L itself is taken for reduced.
is_at_most_l(s) == s <= L

is_canonical(s) == s < L

verify(pubkey, rBytes, s, digest) ==
    LET R  == decompress(rBytes)
        A  == decompress(pubkey)
        k  == reduce_mod_l_wide(digest)
        sB == scalar_mul_basepoint(scalar_bytes_to_bits_le(s))
        kA == scalar_mul_windowed(A, scalar_bytes_to_bits_le(k))
    IN  /\ R # None
        /\ A # None
        /\ is_canonical(s)
        /\ is_identity(mul_by_cofactor(pt_sub(pt_sub(sB, R), kA)))

----------------------------------------------------------------------------
(* The component: one call of a native function. *)

NativeInit ==
    /\ unit = "native"
    /\ \/ st = [phase |-> "call", fn |-> "chain"]
       \/ \E b \in 0..(2 * 2^ELEMENT_BITS - 1) : st = [phase |-> "call", fn |-> "decompress", p |-> b]
       \/ \E a, b \in PointBytes, z \in {1, 2} :
            st = [phase |-> "call", fn |-> "add", p |-> a, q |-> b, z |-> z]
       \/ \E b \in PointBytes, s \in Scalars : st = [phase |-> "call", fn |-> "mul", p |-> b, s |-> s]
       \/ \E x \in Digests : st = [phase |-> "call", fn |-> "reduce", x |-> x]
       \/ \E a, b \in PointBytes, s \in Scalars, x \in Digests :
            st = [phase |-> "call", fn |-> "verify", p |-> a, q |-> b, s |-> s, x |-> x]

Calls(f) == unit = "native" /\ st.phase = "call" /\ st.fn = f

\* The same point with another Z.
Scale(p, z) == Pt(p.X * z, p.Y * z, p.Z * z, p.T * z)

Answer(v) == Move("native", [call |-> st, phase |-> "answer", val |-> v])

CallChain == Calls("chain") /\ Answer(<<invert_exponent, pow_p_minus_5_div_8_exponent, sqrt_m1_exponent>>)

CallDecompress == Calls("decompress") /\ Answer(decompress(st.p))

CallAdd ==
    /\ Calls("add") /\ decompress(st.p) # None /\ decompress(st.q) # None
    /\ LET p == Scale(decompress(st.p), st.z)
           q == decompress(st.q)
       IN  Answer(<<pt_add(p, q), add_affine_other(p, q), double(p), pt_sub(p, q)>>)

CallMul ==
    /\ Calls("mul") /\ decompress(st.p) # None
    /\ LET p == decompress(st.p)
           bits == scalar_bytes_to_bits_le(st.s)
       IN  Answer(<<scalar_mul(p, bits), scalar_mul_windowed(p, bits), scalar_mul_basepoint(bits)>>)

CallReduce == Calls("reduce") /\ Answer(reduce_mod_l_wide(st.x))
CallVerify == Calls("verify") /\ Answer(verify(st.p, st.q, st.s, st.x))

NativeNext == CallChain \/ CallDecompress \/ CallAdd \/ CallMul \/ CallReduce \/ CallVerify

----------------------------------------------------------------------------
(* Reference: the affine group law, and multiples of a generator. *)

OnCurve(x, y) == (y * y - x * x - 1 - D * ((x * x * y * y) % P)) % P = 0
Curve == {p \in (0..(P - 1)) \X (0..(P - 1)) : OnCurve(p[1], p[2])}

RefAdd(p, q) ==
    LET k == (D * ((p[1] * q[1]) % P) * ((p[2] * q[2]) % P)) % P
    IN  <<((p[1] * q[2] + p[2] * q[1]) * invert((1 + k) % P)) % P,
          ((p[2] * q[2] + p[1] * q[1]) * invert((1 - k) % P)) % P>>

RECURSIVE RefMul(_, _)
RefMul(n, p) == IF n = 0 THEN <<0, 1>> ELSE RefAdd(RefMul(n - 1, p), p)

\* Every point of the curve is a multiple of Generator.
GroupOrder == 8 * L
Generator == CHOOSE p \in Curve : \A n \in 1..(GroupOrder - 1) : RefMul(n, p) # <<0, 1>>
Multiples == [n \in 0..(GroupOrder - 1) |-> RefMul(n, Generator)]
Log == [p \in Curve |-> CHOOSE n \in 0..(GroupOrder - 1) : Multiples[n] = p]

\* p represents the affine point a, with a consistent extended coordinate.
Stands(p, a) == p.Z # 0 /\ to_affine(p) = a /\ (p.X * p.Y) % P = (p.Z * p.T) % P

Decoded(b) == {a \in Curve : /\ a[2] = (b % 2^ELEMENT_BITS) % P
                             /\ a[1] # 0 => is_negative(a[1]) = (b >= 2^ELEMENT_BITS)}

LogOf(b) == Log[to_affine(decompress(b))]

\* The native functions compute what they stand for: the fixed chains raise to
\* p - 2 = 2^255 - 21, (p - 5) / 8 = 2^252 - 3 and (p - 1) / 4 = 2^253 - 5; decompress finds the point of an encoding
\* exactly when there is one, for unreduced y too; every form of addition and
\* of scalar multiplication gives the group's result and a consistent T; and
\* verify accepts exactly when the encodings are points, s is reduced and the
\* cofactored equation [8](sB - R - kA) = 0 holds in the group.
NativeExact ==
    unit = "native" /\ st.phase = "answer" =>
      LET c == st.call
          v == st.val
      IN CASE c.fn = "chain" -> v = <<(0..254) \ {2, 4}, (0..251) \ {1}, (0..252) \ {2}>>
           [] c.fn = "decompress" ->
                IF v = None THEN Decoded(c.p) = {}
                ELSE /\ \E a \in Decoded(c.p) : Stands(v, a)
                     /\ compress(v) % 2^ELEMENT_BITS < P /\ ct_eq(decompress(compress(v)), v)
           [] c.fn = "add" ->
                LET m(n) == Multiples[n % GroupOrder]
                    p == LogOf(c.p)
                    q == LogOf(c.q)
                IN  /\ Stands(v[1], m(p + q)) /\ Stands(v[2], m(p + q))
                    /\ Stands(v[3], m(2 * p)) /\ Stands(v[4], m(p - q))
           [] c.fn = "mul" ->
                LET m(n) == Multiples[n % GroupOrder]
                IN  /\ Stands(v[1], m(c.s * LogOf(c.p))) /\ Stands(v[2], m(c.s * LogOf(c.p)))
                    /\ Stands(v[3], m(c.s * LogOf(BasepointBytes)))
           [] c.fn = "reduce" -> v = c.x % L
           [] c.fn = "verify" ->
                v <=> /\ Decoded(c.q) # {} /\ Decoded(c.p) # {} /\ c.s < L
                      /\ (8 * (c.s * LogOf(BasepointBytes) - LogOf(c.q) - (c.x % L) * LogOf(c.p)))
                           % GroupOrder = 0
============================================================================
