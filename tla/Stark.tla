------------------------------- MODULE Stark -------------------------------
(***************************************************************************)
(* From an execution trace to the polynomial that the low-degree test      *)
(* gets: the workloads of deep_ali/src/air_workloads.rs (their traces and  *)
(* constraints), the low-degree extension of the trace columns, and the    *)
(* merges of deep_ali/src/lib.rs, which combine all constraints into one   *)
(* polynomial Phi on the extended domain and divide it by the vanishing    *)
(* polynomial of the trace domain.                                         *)
(*                                                                         *)
(* A trace is the sequence of its rows, a row the sequence of its cells.   *)
(***************************************************************************)
EXTENDS Fri

CONSTANTS TraceShapes,     \* pairs <<rows, blowup>>
          Workloads,       \* the names of the workloads to build
          RollupLeaves,    \* leaf sequences of the hash rollup
          NsecChains,      \* chains of <<owner, next>> pairs
          RoundConstants,  \* function <<row, column>> -> constant of the hash chain
          FirstCells       \* cells that a bad prover may change: pairs <<row, column>>

M(x) == x % NATIVE
Inv(x) == FpInverse(M(x))

----------------------------------------------------------------------------
(* Workloads. *)

\* Rows that follow from the one before.
Rows(first, n, Step(_, _)) ==
    LET row[i \in 0 .. n - 1] == IF i = 0 THEN first ELSE Step(row[i - 1], i - 1)
    IN  [i \in 1..n |-> row[i - 1]] \o << >>

build_fibonacci_trace(n) == Rows(<<1, 1>>, n, LAMBDA r, i : <<r[2], M(r[1] + r[2])>>)
eval_fibonacci_constraints(cur, nxt) == <<M(nxt[2] - cur[1] - cur[2])>>

build_age_range_trace(n) == [i \in 1..n |-> <<(i - 1) % 2, ((i - 1) \div 2) % 2>>] \o << >>
eval_age_range_constraints(cur) == [c \in 1..2 |-> M(cur[c] * (1 - cur[c]))] \o << >>

\* The hash chain keeps the state and the powers 2, 3, 4 of state + constant.
build_mds_4x4 == [i \in 1..4 |-> [j \in 1..4 |-> Inv(i + 4 + j)] \o << >>] \o << >>
MixRow(sbox, j) == M(MapThenSumSet(LAMBDA k : M(build_mds_4x4[j][k] * sbox[k]), 1..4))
SboxRow(state, row) ==
    LET s == [j \in 1..4 |-> M(state[j] + RoundConstants[<<row, j>>])]
        square == [j \in 1..4 |-> M(s[j] * s[j])]
    IN  state \o square \o [j \in 1..4 |-> M(square[j] * s[j])] \o [j \in 1..4 |-> M(square[j] * square[j])]
SboxOut(r) == [k \in 1..4 |-> M(r[12 + k] * r[8 + k])]
build_poseidon_chain_trace(n) ==
    Rows(SboxRow(<<1, 2, 3, 4>>, 0), n, LAMBDA r, i :
         SboxRow([j \in 1..4 |-> MixRow(SboxOut(r), j)] \o << >>, i + 1))
eval_poseidon_constraints(cur, nxt, row) ==
    LET s(j) == cur[j] + RoundConstants[<<row, j>>]
    IN  ([j \in 1..4 |-> M(nxt[j] - MixRow(SboxOut(cur), j))]
          \o [j \in 1..4 |-> M(cur[4 + j] - s(j) * s(j))]
          \o [j \in 1..4 |-> M(cur[8 + j] - cur[4 + j] * s(j))]
          \o [j \in 1..4 |-> M(cur[12 + j] - cur[4 + j] * cur[4 + j])])

\* Registers 1..7 get the product of the two at and after them plus the
\* third, cyclically; the last one a sum of products.
NextRegisters(p) ==
    [j \in 1..8 |-> IF j = 8 THEN M(p[1] * p[5] + p[2] * p[6] + p[3] * p[7] + p[4] * p[8])
                    ELSE M(p[j] * p[j + 1] + p[((j + 1) % 8) + 1])] \o << >>
build_register_machine_trace(n) == Rows(<<1, 2, 3, 4, 5, 6, 7, 8>>, n, LAMBDA r, i : NextRegisters(r))
eval_register_constraints(cur, nxt) == [j \in 1..8 |-> M(nxt[j] - NextRegisters(cur)[j])] \o << >>

\* Columns pc, ap, fp, op0, op1, res, dst, flags.
CAIRO_SIMPLE_INITIAL_PC == 0
CAIRO_SIMPLE_INITIAL_AP == 100
build_cairo_simple_trace(n) ==
    [i \in 1..n |-> <<CAIRO_SIMPLE_INITIAL_PC + i - 1, CAIRO_SIMPLE_INITIAL_AP + i - 1, CAIRO_SIMPLE_INITIAL_AP,
                      i, i + 1, M(i * (i + 1)), M(i * (i + 1)), 0>>] \o << >>
eval_cairo_simple_constraints(cur, nxt) ==
    <<M(nxt[1] - cur[1] - 1), M(nxt[2] - cur[2] - 1), M(nxt[3] - cur[3]), M(cur[7] - cur[4] * cur[5])>>

\* Columns index, leaf, state, state squared; missing leaves are zero.
LeafAt(leaves, i) == IF i < Len(leaves) THEN M(leaves[i + 1]) ELSE 0
build_hash_rollup_trace(n, leaves) ==
    Rows(<<0, LeafAt(leaves, 0), 0, 0>>, n, LAMBDA r, i :
         LET s == M(r[4] + r[2]) IN <<i + 1, LeafAt(leaves, i + 1), s, M(s * s)>>)
eval_hash_rollup_constraints(cur, nxt) ==
    <<M(nxt[1] - cur[1] - 1), M(cur[4] - cur[3] * cur[3]), M(nxt[3] - cur[4] - cur[2])>>
compute_hash_rollup_final_state(n, leaves) ==
    FoldLeft(LAMBDA s, i : M(s * s + LeafAt(leaves, i - 1)), 0, [i \in 1..n |-> i])

\* Owner and next hash of each link (a word of each is kept); the rows after
\* the chain repeat its last next hash and the very last one leads back.
build_nsec3_chain_trace(n, chain) ==
    LET len == Len(chain)
        last == IF len = 0 THEN 0 ELSE chain[len][2]
        row(i) == CASE i <= len            -> chain[i]
                    [] i > len /\ i < n    -> <<last, last>>
                    [] OTHER               -> <<last, IF len = 0 THEN last ELSE chain[1][1]>>
    IN  [i \in 1..n |-> row(i)] \o << >>
eval_nsec3_chain_constraints(cur, nxt) == <<M(nxt[1] - cur[2])>>

build_execution_trace(air, n, leaves, chain) ==
    CASE air = "fibonacci" -> build_fibonacci_trace(n)
      [] air = "poseidon"  -> build_poseidon_chain_trace(n)
      [] air = "register"  -> build_register_machine_trace(n)
      [] air = "cairo"     -> build_cairo_simple_trace(n)
      [] air = "age"       -> build_age_range_trace(n)
      [] air = "rollup"    -> build_hash_rollup_trace(n, leaves)
      [] air = "nsec3"     -> build_nsec3_chain_trace(n, chain)
evaluate_constraints(air, cur, nxt, row) ==
    CASE air = "fibonacci" -> eval_fibonacci_constraints(cur, nxt)
      [] air = "poseidon"  -> eval_poseidon_constraints(cur, nxt, row)
      [] air = "register"  -> eval_register_constraints(cur, nxt)
      [] air = "cairo"     -> eval_cairo_simple_constraints(cur, nxt)
      [] air = "age"       -> eval_age_range_constraints(cur)
      [] air = "rollup"    -> eval_hash_rollup_constraints(cur, nxt)
      [] air = "nsec3"     -> eval_nsec3_chain_constraints(cur, nxt)

----------------------------------------------------------------------------
(* Extension and merge. *)

\* fft and ifft of the polynomial library.
Fft(c, n) ==
    LET g == omega(n)
    IN  [i \in 1..n |-> FoldRight(LAMBDA x, acc : M(acc * FpPow(g, i - 1) + x), c, 0)] \o << >>
Ifft(v) ==
    LET n == Len(v)
        back == Inv(omega(n))
        scale == Inv(n)
    IN  [k \in 1..n |-> M(scale * M(MapThenSumSet(LAMBDA i : M(v[i] * FpPow(back, (k - 1) * (i - 1))), 1..n)))] \o << >>

Columns(rows) == [c \in 1..Len(rows[1]) |-> [i \in 1..Len(rows) |-> rows[i][c]] \o << >>] \o << >>
lde(rows, n) ==
    LET cols == Columns(rows)
        wide == [c \in 1..Len(cols) |-> Fft(Ifft(cols[c]), n)] \o << >>
    IN  [i \in 1..n |-> [c \in 1..Len(cols) |-> wide[c][i]] \o << >>] \o << >>

Combine(coeffs, values) == M(MapThenSumSet(LAMBDA j : M(coeffs[j] * values[j]), 1..Len(values)))
At_(rows, i) == rows[(i % Len(rows)) + 1]

\* Phi at point i of the extended domain (i from 0).
evaluate_all_constraints_on_lde(air, rows, coeffs, blowup, i) ==
    Combine(coeffs, evaluate_constraints(air, At_(rows, i), At_(rows, i + blowup), i \div blowup))

PhiGeneral(air, rows, coeffs, n_trace, blowup) ==
    Seq0(n_trace * blowup, LAMBDA i : evaluate_all_constraints_on_lde(air, rows, coeffs, blowup, i))

\* The merges for chained traces drop the points of the last trace row.
PhiGated(air, rows, coeffs, n_trace, blowup) ==
    Seq0(n_trace * blowup, LAMBDA i :
         IF i \div blowup >= n_trace - 1 THEN 0
         ELSE evaluate_all_constraints_on_lde(air, rows, coeffs, blowup, i))

\* Variant: the last chunk is its own successor.
PhiStreamingUnwrapped(air, rows, coeffs, n_trace, blowup) ==
    LET chunk(r) == SubSeq(rows, r * blowup + 1, (r + 1) * blowup)
        out(r) == LET cur == chunk(r)
                      nxt == IF r + 1 < n_trace THEN chunk(r + 1) ELSE chunk(r)
                  IN  [k \in 1..blowup |-> Combine(coeffs, evaluate_constraints(air, cur[k], nxt[k], r))] \o << >>
    IN  FlattenSeq([r \in 1..n_trace |-> out(r - 1)])

\* The streaming merge keeps one chunk of `blowup` rows, the next one and,
\* for the wrap-around, the first.
PhiStreaming(air, rows, coeffs, n_trace, blowup) ==
    LET chunk(r) == SubSeq(rows, r * blowup + 1, (r + 1) * blowup)
        out(r) == LET cur == chunk(r)
                      nxt == IF r + 1 < n_trace THEN chunk(r + 1) ELSE chunk(0)
                  IN  [k \in 1..blowup |-> Combine(coeffs, evaluate_constraints(air, cur[k], nxt[k], r))] \o << >>
    IN  FlattenSeq([r \in 1..n_trace |-> out(r - 1)])

\* The fixed relation a * s + e - t on the first four columns (cyclically),
\* with a multiple of a blinding column added if there is one.
PhiEvals(rows, beta, blind) ==
    LET col(k, r) == r[(k % Len(r)) + 1]
    IN  [i \in 1..Len(rows) |-> M(col(0, rows[i]) * col(1, rows[i]) + col(2, rows[i]) - col(3, rows[i]) + beta * blind[i])] \o << >>

\* Quotient by X^m - 1, highest coefficient first; what is left over is
\* asserted to be zero in debug builds and dropped.
poly_div_zh(dividend, m) ==
    LET n == Len(dividend)
        q_len == n - m
        q[j \in 0 .. q_len - 1] == M(dividend[j + m + 1] + (IF j + m < q_len THEN q[j + m] ELSE 0))
    IN  IF n <= m THEN [quotient |-> <<0>>, remainder |-> dividend]
        ELSE [quotient |-> [k \in 1..q_len |-> q[k - 1]] \o << >>,
              remainder |-> Seq0(m, LAMBDA k : M(dividend[k + 1] + (IF k < q_len THEN q[k] ELSE 0)))]

Merge(phi, n_trace) ==
    LET d == poly_div_zh(Ifft(phi), n_trace)
    IN  [phi |-> phi, remainder |-> d.remainder, c_eval |-> Fft(d.quotient, Len(phi))]

----------------------------------------------------------------------------
(* The component: build a trace, perhaps change a cell, extend, merge. *)

StarkInit ==
    /\ unit = "stark"
    /\ st \in [phase : {"input"}, air : Workloads, shape : TraceShapes, leaves : RollupLeaves, chain : NsecChains]
    /\ st.air # "rollup" => st.leaves = CHOOSE l \in RollupLeaves : TRUE
    /\ st.air # "nsec3" => st.chain = CHOOSE c \in NsecChains : TRUE

StarkTrace ==
    /\ unit = "stark" /\ st.phase = "input"
    /\ Move("stark", [phase |-> "trace", air |-> st.air, n |-> st.shape[1], blowup |-> st.shape[2],
                      leaves |-> st.leaves, chain |-> st.chain, honest |-> TRUE,
                      trace |-> build_execution_trace(st.air, st.shape[1], st.leaves, st.chain)])

StarkChange ==
    /\ unit = "stark" /\ st.phase = "trace" /\ st.honest
    /\ \E cell \in FirstCells :
         /\ cell[1] <= st.n /\ cell[2] <= Len(st.trace[1])
         /\ Move("stark", [st EXCEPT !.honest = FALSE, !.trace[cell[1]][cell[2]] = M(@ + 1)])

StarkExtend ==
    /\ unit = "stark" /\ st.phase = "trace"
    /\ Move("stark", [phase |-> "extended", air |-> st.air, n |-> st.n, blowup |-> st.blowup,
                      leaves |-> st.leaves, chain |-> st.chain, honest |-> st.honest, trace |-> st.trace,
                      rows |-> lde(st.trace, st.n * st.blowup)])

Coeffs(k) == [j \in 1..k |-> FpPow(5, j)]
Phi(kind) ==
    LET k == Len(evaluate_constraints(st.air, st.rows[1], st.rows[1], 0))
    IN  CASE kind = "general"   -> PhiGeneral(st.air, st.rows, Coeffs(k), st.n, st.blowup)
          [] kind = "gated"     -> PhiGated(st.air, st.rows, Coeffs(k), st.n, st.blowup)
          [] kind = "streaming" -> PhiStreaming(st.air, st.rows, Coeffs(k), st.n, st.blowup)
          [] kind = "evals"     -> PhiEvals(st.rows, 0, [i \in 1..Len(st.rows) |-> 0])
          [] kind = "blinded"   -> PhiEvals(st.rows, 3, [i \in 1..Len(st.rows) |-> M(i * i)])

StarkMerge ==
    /\ unit = "stark" /\ st.phase = "extended"
    /\ \E kind \in {"general", "gated", "streaming", "evals", "blinded"} :
         Move("stark", [phase |-> "merged", kind |-> kind, merged |-> Merge(Phi(kind), st.n)]
                       @@ [x \in DOMAIN st \ {"phase"} |-> st[x]])

StarkNext == StarkTrace \/ StarkChange \/ StarkExtend \/ StarkMerge

----------------------------------------------------------------------------
(* Reference. *)

\* Do all constraints hold between trace row r and the next one (cyclically)?
RowHolds(r) ==
    \A v \in Range(evaluate_constraints(st.air, st.trace[r], At_(st.trace, r), r - 1)) : v = 0

\* The combination at trace row r, from the trace itself.
OnTrace(kind, r) ==
    LET next == At_(st.trace, r)
        k == Len(evaluate_constraints(st.air, st.trace[r], next, r - 1))
        t(c) == st.trace[r][(c % Len(st.trace[r])) + 1]
    IN  CASE kind \in {"general", "streaming"} -> Combine(Coeffs(k), evaluate_constraints(st.air, st.trace[r], next, r - 1))
          [] kind = "gated" -> IF r = st.n THEN 0 ELSE Combine(Coeffs(k), evaluate_constraints(st.air, st.trace[r], next, r - 1))
          [] OTHER -> M(t(0) * t(1) + t(2) - t(3)
                          + (IF kind = "blinded" THEN 3 * M(((r - 1) * st.blowup + 1) * ((r - 1) * st.blowup + 1)) ELSE 0))

WrapsAround == st.air = "age" \/ (st.air = "nsec3" /\ Len(st.chain) < st.n)

\* A built trace satisfies its constraints on all rows but the last, whose
\* successor is the first; the merged polynomial is the exact quotient of
\* Phi by X^n - 1, with nothing left over exactly if the combination
\* vanishes on every trace row (lib.rs, air_workloads.rs); and streaming
\* changes nothing.
MergeExact ==
    unit = "stark" =>
      /\ (st.phase = "trace" /\ st.honest) =>
           /\ \A r \in 1 .. st.n - 1 : RowHolds(r)
           /\ WrapsAround => RowHolds(st.n)
           /\ st.air = "rollup" =>
                M(st.trace[st.n][4] + st.trace[st.n][2]) = compute_hash_rollup_final_state(st.n, st.leaves)
      /\ st.phase = "merged" =>
           LET m == st.merged
               x(i) == FpPow(omega(Len(m.phi)), i - 1)
               left(i) == FoldRight(LAMBDA c, acc : M(acc * x(i) + c), m.remainder, 0)
           IN  /\ \A i \in 1..Len(m.phi) :
                    m.phi[i] = M(m.c_eval[i] * M(FpPow(x(i), st.n) - 1) + left(i))
               /\ \A r \in 1..st.n : m.phi[(r - 1) * st.blowup + 1] = OnTrace(st.kind, r)
               /\ (\A k \in 1..Len(m.remainder) : m.remainder[k] = 0)
                    <=> (\A r \in 1..st.n : OnTrace(st.kind, r) = 0)
               /\ st.kind = "streaming" => m.phi = Phi("general")
============================================================================
