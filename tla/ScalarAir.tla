----------------------------- MODULE ScalarAir -----------------------------
(***************************************************************************)
(* The gadget that reduces a SHA-512 digest modulo the group order L       *)
(* (ed25519_scalar_air.rs): input = q * L + r over limbs of LIMB_BITS      *)
(* bits, checked by a chain of biased carries.  An arbitrary prover writes *)
(* q, r and the carries limb by limb; the code's prover writes all of them *)
(* in fill_scalar_reduce_gadget.                                           *)
(***************************************************************************)
EXTENDS ProofUnit, Integers, Sequences

CONSTANTS L,            \* order of the base point
          SHIFTS,       \* L * 2^SHIFTS is the top multiple of the division
          LIMB_BITS,    \* 16 in the code
          R_LIMBS,      \* limbs of L and of r: 16 in the code
          CARRY_BITS,   \* width of a biased carry: 24 in the code
          Digests       \* SHA-512 outputs tried

INPUT_LIMBS == 2 * R_LIMBS
Q_LIMBS == R_LIMBS + 1
PRODUCT_LIMBS == Q_LIMBS + R_LIMBS
BASE == pow2(LIMB_BITS)
BaseTo(i) == pow2(LIMB_BITS * i)
CARRY_OFFSET == pow2(CARRY_BITS - 1)

\* L fills its limbs and its copies reach over the input; carries have room,
\* and no constraint of a limb comes near the native characteristic.
ASSUME ScalarAssumption ==
    /\ LIMB_BITS \in Nat \ {0} /\ R_LIMBS \in Nat \ {0} /\ CARRY_BITS \in Nat \ {0} /\ SHIFTS \in Nat
    /\ L \in BaseTo(R_LIMBS - 1) .. BaseTo(R_LIMBS) - 1
    /\ L * pow2(SHIFTS + 1) >= BaseTo(INPUT_LIMBS) /\ Digests \subseteq 0 .. BaseTo(INPUT_LIMBS) - 1
    /\ R_LIMBS * (BASE - 1) + 1 < CARRY_OFFSET
    /\ NATIVE \in Nat /\ NATIVE > R_LIMBS * BASE * BASE + BASE + (BASE + 1) * CARRY_OFFSET

----------------------------------------------------------------------------
(* The native reduction of ed25519_scalar.rs. *)

\* What is left of x after k steps of long division by shifted copies of L,
\* the top one first.
ShiftedL(k) == L * pow2((SHIFTS + 1) - k)
Remainders(x) ==
    LET y[k \in 0 .. SHIFTS + 1] ==
          IF k = 0 THEN x ELSE IF y[k - 1] >= ShiftedL(k) THEN y[k - 1] - ShiftedL(k) ELSE y[k - 1]
    IN  y

reduce_mod_l_wide(x) == Remainders(x)[SHIFTS + 1]

----------------------------------------------------------------------------
(* Numbers as limbs. *)

\* n limbs of v, least significant first; what does not fit is dropped.
LimbsOf(v, n) == [i \in 1..n |-> (v \div BaseTo(i - 1)) % BASE]
ValueOf(l) == SumTo([i \in 1..R_LIMBS |-> l[i] * BaseTo(i - 1)], R_LIMBS)

L_LIMBS_16 == LimbsOf(L, R_LIMBS)
At(l, k) == IF k \in DOMAIN l THEN l[k] ELSE 0

\* Limb k of q * L, from the limbs of q written so far.
QTimesL(q, k) == SumTo([j \in 1..R_LIMBS |-> L_LIMBS_16[j] * At(q, k - j + 1)], R_LIMBS)

----------------------------------------------------------------------------
(* The constraints. *)

LimbChecked(l, n) == DOMAIN l = 1..n /\ \A i \in 1..n : l[i] \in 0..(BASE - 1)
CarryChecked(c) == c + CARRY_OFFSET \in 0..(pow2(CARRY_BITS) - 1)

\* Variant: the carry of the limb below is forgotten.
ReduceLimbAlone(input, q, r, cin, cout, k) ==
    (At(input, k) - QTimesL(q, k) - At(r, k) - BASE * cout) % NATIVE = 0

ReduceLimbHolds(input, q, r, cin, cout, k) ==
    (At(input, k) - QTimesL(q, k) - At(r, k) + cin - BASE * cout) % NATIVE = 0

\* The carry out of the last limb is not pinned, and the constraints that
\* would tie r + slack to L - 1 are placeholders that are always zero.
eval_scalar_reduce_gadget(input, w) ==
    /\ LimbChecked(w.q, Q_LIMBS) /\ LimbChecked(w.r, R_LIMBS) /\ LimbChecked(w.slack, R_LIMBS)
    /\ \A k \in 1..PRODUCT_LIMBS :
         /\ CarryChecked(w.cy[k])
         /\ ReduceLimbHolds(input, w.q, w.r, IF k = 1 THEN 0 ELSE w.cy[k - 1], w.cy[k], k)

----------------------------------------------------------------------------
(* The code's fill. *)

\* The bits of the quotient of input - r by L: the steps that subtract.
compute_q_limbs(x, r) ==
    LET y == Remainders((x - r) % BaseTo(INPUT_LIMBS))
        bits == [k \in 1 .. SHIFTS + 1 |-> IF y[k - 1] >= ShiftedL(k) THEN pow2((SHIFTS + 1) - k) ELSE 0]
    IN  LimbsOf(SumTo(bits, SHIFTS + 1), Q_LIMBS)

\* L - 1 - r with borrows, the last borrow dropped.
compute_slack_limbs(r) ==
    LET v(k, borrow) == L_LIMBS_16[k] - (IF k = 1 THEN 1 ELSE 0) - r[k] - borrow
        borrow[k \in 0..R_LIMBS] ==
          IF k = 0 THEN 0 ELSE IF v(k, borrow[k - 1]) < 0 THEN 1 ELSE 0
    IN  [k \in 1..R_LIMBS |-> v(k, borrow[k - 1]) % BASE]

compute_chain_carries(input, q, r) ==
    LET cy[k \in 0..PRODUCT_LIMBS] ==
          IF k = 0 THEN 0 ELSE (At(input, k) - QTimesL(q, k) - At(r, k) + cy[k - 1]) \div BASE
    IN  [k \in 1..PRODUCT_LIMBS |-> cy[k]]

fill_scalar_reduce_gadget(x) ==
    LET r == LimbsOf(reduce_mod_l_wide(x), R_LIMBS)
        q == compute_q_limbs(x, ValueOf(r))
    IN  [q |-> q, r |-> r, slack |-> compute_slack_limbs(r),
         cy |-> compute_chain_carries(LimbsOf(x, INPUT_LIMBS), q, r)]

----------------------------------------------------------------------------
(* The component. *)

ScalarInit == unit = "scalar" /\ \E x \in Digests : st = [phase |-> "input", x |-> x]

ScalarFill ==
    /\ unit = "scalar" /\ st.phase = "input"
    /\ Move("scalar", [phase |-> "filled", x |-> st.x, w |-> fill_scalar_reduce_gadget(st.x)])

ScalarWitness ==
    /\ unit = "scalar" /\ st.phase = "input"
    /\ Move("scalar", [phase |-> "limbs", x |-> st.x, q |-> << >>, r |-> << >>, cy |-> << >>])

\* One more limb of q and of r where they have one, and the carry the
\* constraint leaves; any slack in range will do.
ScalarLimb ==
    /\ unit = "scalar" /\ st.phase = "limbs"
    /\ LET k == Len(st.cy) + 1
           cin == IF k = 1 THEN 0 ELSE st.cy[k - 1]
       IN \E qk \in IF k <= Q_LIMBS THEN 0..(BASE - 1) ELSE {0},
             rk \in IF k <= R_LIMBS THEN 0..(BASE - 1) ELSE {0},
             cout \in {c - CARRY_OFFSET : c \in 0..(pow2(CARRY_BITS) - 1)} :
            LET q == IF k <= Q_LIMBS THEN Append(st.q, qk) ELSE st.q
                r == IF k <= R_LIMBS THEN Append(st.r, rk) ELSE st.r
            IN  /\ ReduceLimbHolds(LimbsOf(st.x, INPUT_LIMBS), q, r, cin, cout, k)
                /\ Move("scalar", [phase |-> IF k = PRODUCT_LIMBS THEN "accepted" ELSE "limbs",
                                   x |-> st.x, q |-> q, r |-> r, cy |-> Append(st.cy, cout)])

ScalarNext == ScalarFill \/ ScalarWitness \/ ScalarLimb

ScalarSpec == ScalarInit /\ [][ScalarNext]_unitVars

----------------------------------------------------------------------------
\* The reduction that the gadget accepts is the digest modulo L for every
\* choice of quotient, remainder and carries (although the last carry is free
\* and r may be any representative that fits its limbs), and the row the fill
\* function writes, with the reduced remainder, is accepted.
ReduceExact ==
    unit = "scalar" =>
      /\ st.phase = "accepted" => ValueOf(st.r) % L = st.x % L
      /\ st.phase = "filled" => /\ eval_scalar_reduce_gadget(LimbsOf(st.x, INPUT_LIMBS), st.w)
                                /\ ValueOf(st.w.r) = st.x % L
                                /\ ValueOf(st.w.r) + ValueOf(st.w.slack) = L - 1
============================================================================
