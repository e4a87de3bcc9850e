----------------------------- MODULE ProofUnit -----------------------------
(***************************************************************************)
(* The proving side of the repository is a set of pure algorithms: field   *)
(* and curve arithmetic, the constraint systems laid over them, hashing,   *)
(* Merkle commitments, the FRI protocol and the DNS provers.  Each is      *)
(* modelled as a component that works on one case at a time: `unit` says   *)
(* which component the behaviour exercises and `st` is the state of that   *)
(* component (its input, what has been written so far, its verdict).  The  *)
(* components share no state, so a behaviour stays in the unit it starts.  *)
(***************************************************************************)

EXTENDS Integers

CONSTANT NATIVE  \* characteristic of the field the trace cells live in (Goldilocks)

VARIABLES unit, st

unitVars == <<unit, st>>

\* A step of component u that replaces its state by s.
Move(u, s) == unit = u /\ unit' = u /\ st' = s

\* 1 << k
pow2(k) == LET shifted[i \in 0..k] == IF i = 0 THEN 1 ELSE 2 * shifted[i - 1] IN shifted[k]

\* f[1] + ... + f[n]
SumTo(f, n) == LET sum[k \in 0..n] == IF k = 0 THEN 0 ELSE sum[k - 1] + f[k] IN sum[n]

\* usize::next_power_of_two of the Rust library.
next_power_of_two(n) == pow2(CHOOSE k \in 0..n : pow2(k) >= n /\ \A j \in 0 .. k - 1 : pow2(j) < n)
============================================================================
