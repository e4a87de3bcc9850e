------------------------------ MODULE MlDsaV2 ------------------------------
(***************************************************************************)
(* Version 2 of the ML-DSA verification proof                              *)
(* (ml_dsa_verify_air_v2_orchestration.rs, sub_air_with_trace.rs,          *)
(* binding_cells_commit.rs): the traces of seven gadgets, each with a      *)
(* proof of its own, and the checks that tie their cells to each other and *)
(* to the public inputs.                                                   *)
(*                                                                         *)
(* A hash, a Merkle root and a polynomial commitment are the term they     *)
(* commit to: a sub-proof is the trace under its root and the parameters   *)
(* it was made with, and a query becomes a look at every row (Fri and      *)
(* MerkleTree have what is inside).  Vectors start at 1.                   *)
(***************************************************************************)
EXTENDS MlDsaAir

CONSTANTS W1_BITS_PER_COEF,   \* bits of a high part in w1bytes
          SHAKE_RATE,         \* bytes of a sponge block
          ROUNDS,             \* rounds of the permutation
          V2_BLOWUP,
          V2Inputs,           \* <<a, c, t1d, mu>>: matrix, challenge, key and message digest
          V2Signatures,       \* <<z, h>>: the honest ones
          V2Deviations, V2Changes  \* what may differ from an honest claim or proof

KN == ML_K * ML_N
CoeffRows == next_power_of_two(KN)
\* A K-vector of polynomials as one trace column.
Flat(v) == [r \in 1..CoeffRows |-> IF r <= KN THEN v[((r - 1) \div ML_N) + 1][(r - 1) % ML_N] ELSE 0] \o << >>
PadRows(rows, n, pad) == rows \o [i \in 1..(n - Len(rows)) |-> pad]

----------------------------------------------------------------------------
(* The transcript: SHAKE over mu and w1bytes, a permutation per block.     *)

build_layout(mu, w1bytes) ==
    LET m == mu \o w1bytes
        total == ((Len(m) + 1 + SHAKE_RATE - 1) \div SHAKE_RATE) * SHAKE_RATE
        suffix(i) == (IF i = Len(m) + 1 THEN 31 ELSE 0) + (IF i = total THEN 128 ELSE 0)
    IN  [n_blocks |-> total \div SHAKE_RATE,
         padded |-> [i \in 1..total |-> IF i <= Len(m) THEN m[i] ELSE suffix(i)] \o << >>]
block_bytes(layout, b) == SubSeq(layout.padded, b * SHAKE_RATE + 1, (b + 1) * SHAKE_RATE)
active_rows(layout) == layout.n_blocks * ROUNDS

EmptySponge == <<"zero">>
Absorbed(state, block) == <<"xor", state, block>>
KeccakRound(r, state) == <<"round", r, state>>

absorb_native(layout) ==
    LET permute(s) == FoldLeft(LAMBDA x, r : KeccakRound(r - 1, x), s, [r \in 1..ROUNDS |-> r])
    IN  FoldLeft(LAMBDA s, b : permute(Absorbed(s, block_bytes(layout, b - 1))), EmptySponge,
                 [b \in 1..layout.n_blocks |-> b])
compute_c_tilde_prime_native(mu, w1bytes) == absorb_native(build_layout(mu, w1bytes))

TranscriptRow(layout, rows, t) ==
    LET prev == IF rows = << >> THEN EmptySponge ELSE Last(rows).post_iota
        in == IF t % ROUNDS = 0 THEN Absorbed(prev, block_bytes(layout, t \div ROUNDS)) ELSE prev
    IN  [state_in |-> in, post_iota |-> KeccakRound(t % ROUNDS, in)]
fill_transcript(layout) ==
    PadRows(FoldLeft(LAMBDA rows, t : Append(rows, TranscriptRow(layout, rows, t - 1)), << >>,
                     [t \in 1..active_rows(layout) |-> t]),
            next_power_of_two(active_rows(layout)), [state_in |-> EmptySponge, post_iota |-> EmptySponge])

eval_transcript(cur, nxt, row, layout) ==
    row < active_rows(layout) =>
      /\ cur.post_iota = KeccakRound(row % ROUNDS, cur.state_in)
      /\ (row + 1) % ROUNDS # 0 => nxt.state_in = cur.post_iota
      /\ (row + 1) % ROUNDS = 0 /\ row + 1 < active_rows(layout) =>
           nxt.state_in = Absorbed(cur.post_iota, block_bytes(layout, (row + 1) \div ROUNDS))

extract_c_tilde_prime_from_trace(trace, layout) == trace[active_rows(layout)].post_iota

----------------------------------------------------------------------------
(* A sub-proof, row openings under its root, and committed columns. *)

commit_trace_lde(trace, tag) == [tag |-> tag, rows |-> trace]
augment_pi_hash(pi_hash, trace_root, tag) == <<"AUG", pi_hash, trace_root, tag>>

\* The low-degree test is taken from the environment of the process.
make_v2_schedule(n0) == [i \in 1..(CHOOSE k \in 0..n0 : 2^k = n0) |-> 2] \o << >>
v2_fri_params(n0, pi_hash, stir) ==
    [schedule |-> make_v2_schedule(n0), stir |-> stir, public_inputs_hash |-> pi_hash]

prove_one_sub_air_with_trace(trace, pi_hash, tag, stir) ==
    LET trace_root == commit_trace_lde(trace, tag)
    IN  [trace_root |-> trace_root,
         fri |-> v2_fri_params(Len(trace) * V2_BLOWUP, augment_pi_hash(pi_hash, trace_root, tag), stir)]

\* The parameters are rebuilt, the root enters them, and it has all rows.
SubProofOpens(p, n_trace, pi_hash, tag, stir) ==
    /\ p.fri = v2_fri_params(n_trace * V2_BLOWUP, augment_pi_hash(pi_hash, p.trace_root, tag), stir)
    /\ p.trace_root.tag = tag /\ Len(p.trace_root.rows) = n_trace
\* What the queries open: a row, its successor and its number.  The last row
\* wraps around and is not checked.
QueriedRows(p) ==
    LET rows == p.trace_root.rows
    IN  [r \in 1..(Len(rows) - 1) |-> <<rows[r], rows[r + 1], r - 1>>]
verify_one_sub_air_with_trace(p, n_trace, pi_hash, tag, stir, Constraint(_, _, _)) ==
    /\ SubProofOpens(p, n_trace, pi_hash, tag, stir)
    /\ \A r \in DOMAIN QueriedRows(p) :
         LET q == QueriedRows(p)[r] IN Constraint(q[1], q[2], q[3])

open_trace_row_at_raw_position(trace, raw_row) ==
    [index |-> raw_row * V2_BLOWUP, cells |-> trace[raw_row + 1]]
verify_trace_row_at_raw_position(o, trace_root, raw_row, tag) ==
    /\ o.index = raw_row * V2_BLOWUP
    /\ trace_root.tag = tag /\ o.cells = trace_root.rows[raw_row + 1]

commit_binding_cells(col, pi_hash, stir) ==
    [col |-> col, n_trace |-> Len(col), num_cols |-> 1,
     fri |-> v2_fri_params(Len(col) * V2_BLOWUP, pi_hash, stir)]
PackedSize(bcc) == bcc.n_trace * V2_BLOWUP * bcc.num_cols
verify_binding_cells_commit(bcc, pi_hash, stir) == bcc.fri = v2_fri_params(PackedSize(bcc), pi_hash, stir)

\* A column at the point that the transcript of commitment bcc leads to.
ValueAt(col, bcc) == <<col, <<"z", bcc.fri, bcc.col>>>>
extract_ood_value(bcc) == ValueAt(bcc.col, bcc)

verify_ood_consistency(a, b, pi_hash, stir) ==
    /\ PackedSize(a) = PackedSize(b)
    /\ verify_binding_cells_commit(a, pi_hash, stir) /\ verify_binding_cells_commit(b, pi_hash, stir)
    /\ extract_ood_value(a) = extract_ood_value(b)
verify_ood_against_public_trace_col(bcc, col, pi_hash, stir) ==
    /\ bcc.num_cols = 1 /\ Len(col) = bcc.n_trace
    /\ verify_binding_cells_commit(bcc, pi_hash, stir)
    /\ extract_ood_value(bcc) = ValueAt(col, bcc)

----------------------------------------------------------------------------
(* The witness, its traces and the proof. *)

\* Bit b of coefficient r is bit r * W1_BITS_PER_COEF + b of the byte string.
pack_w1(adjusted) ==
    LET bitAt(o) == (Flat(adjusted)[(o \div W1_BITS_PER_COEF) + 1] \div 2^(o % W1_BITS_PER_COEF)) % 2
    IN  [j \in 1..((KN * W1_BITS_PER_COEF) \div 8) |-> BitSum([i \in 0..7 |-> bitAt(8 * (j - 1) + i)], 8)] \o << >>

OnVector(Op(_, _)) == [k \in 1..ML_K |-> [i \in Coefficients |-> Op(k, i)]]
derive_w_approx_witness(w) == [k \in 1..ML_K |-> ntt_inv(w[k])]
\* 1 iff the low part is positive: what UseHint calls the sign.
HintSign(r) == IF decompose(r).r0 \in 1..(ML_Q \div 2) THEN 1 ELSE 0
AdjustedBy(w_approx, h) ==
    OnVector(LAMBDA k, i : use_hint(decompose(w_approx[k][i]).r1, HintSign(w_approx[k][i]), h[k][i]).adj)
EquationResult(in, z_ntt) ==
    OnVector(LAMBDA k, i :
      sub_q(FoldFunction(add_q, 0, [l \in 1..ML_L |-> mul_q(in[1][k][l][i], z_ntt[l][i])]),
            mul_q(in[2][i], in[3][k][i])))

\* The witness that inputs and a signature determine; each later part may
\* be given instead, and what follows it is derived from that.
EncodedWitness(in, sig, w, w_approx, adjusted, w1bytes) ==
    [a |-> in[1], c |-> in[2], t1d |-> in[3], mu |-> in[4], z |-> sig[1], h |-> sig[2],
     z_ntt |-> [l \in 1..ML_L |-> ntt(sig[1][l])], w |-> w, w_approx |-> w_approx,
     adjusted |-> adjusted, w1bytes |-> w1bytes]
AdjustedWitness(in, sig, w, w_approx, adjusted) ==
    EncodedWitness(in, sig, w, w_approx, adjusted, pack_w1(adjusted))
ApproxWitness(in, sig, w, w_approx) == AdjustedWitness(in, sig, w, w_approx, AdjustedBy(w_approx, sig[2]))
ResultWitness(in, sig, w) == ApproxWitness(in, sig, w, derive_w_approx_witness(w))
V2Witness(in, sig) == ResultWitness(in, sig, EquationResult(in, [l \in 1..ML_L |-> ntt(sig[1][l])]))

V17Rows == next_power_of_two(VERIFY_AIR_V17_ACTIVE_ROWS)
InttRows == next_power_of_two(BUTTERFLIES_PER_NTT + 16)

fill_v2_traces(x) ==
    [v17 |-> fill_v17(x, V17Rows),
     intt |-> [k \in 1..ML_K |-> fill_ntt_chained(x.w_approx[k], InttRows)] \o << >>,
     transcript |-> fill_transcript(build_layout(x.mu, x.w1bytes)),
     decompose |-> [r \in 1..CoeffRows |-> fill_decompose(Flat(x.w_approx)[r])] \o << >>,
     use_hint |-> PadRows([r \in 1..KN |-> LET d == Flat(x.w_approx)[r]
                                            IN  fill_use_hint(decompose(d).r1, HintSign(d), Flat(x.h)[r])] \o << >>,
                          CoeffRows, use_hint_padding),
     w1_encode |-> [r \in 1..CoeffRows |-> fill_w1_encode(Flat(x.adjusted)[r])] \o << >>]

compute_pi_hash_v2(x, c_tilde) == <<"PI-V2", x.a, x.c, x.t1d, x.w, x.mu, x.h, x.w1bytes, c_tilde>>

Col(rows, Cell(_)) == [r \in DOMAIN rows |-> Cell(rows[r])] \o << >>
EqColumns(rows) ==
    [l \in 1..ML_L |-> Col(rows, LAMBDA w : w.eq.a[l])]
    \o <<Col(rows, LAMBDA w : w.eq.c), Col(rows, LAMBDA w : w.eq.t1d), Col(rows, LAMBDA w : w.eq.w)>>
CommitAll(cols, pi_hash, stir) == [i \in DOMAIN cols |-> commit_binding_cells(cols[i], pi_hash, stir)] \o << >>

\* The columns that tie the traces to each other and to public values.
BindingCommits(t, pi_hash, stir) ==
    LET bcc(rows, Cell(_)) == commit_binding_cells(Col(rows, Cell), pi_hash, stir)
    IN  [l2a_decompose |-> bcc(t.decompose, LAMBDA w : w.r1), l2a_use_hint |-> bcc(t.use_hint, LAMBDA w : w.r1),
         l3_use_hint |-> bcc(t.use_hint, LAMBDA w : w.adjusted_r1), l3_w1_encode |-> bcc(t.w1_encode, LAMBDA w : w.r1),
         l2c_use_hint |-> bcc(t.use_hint, LAMBDA w : w.h), l2b_use_hint |-> bcc(t.use_hint, LAMBDA w : w.r0_sign),
         l1_decompose |-> bcc(t.decompose, LAMBDA w : w.r),
         l5_v17_eq |-> CommitAll(EqColumns(t.v17), pi_hash, stir),
         l4_w1_encode |-> CommitAll([b \in 1..W1_BITS_PER_COEF |-> Col(t.w1_encode, LAMBDA w : w.bits[b - 1])],
                                    pi_hash, stir)]

prove_v2_real_from_traces(t, mu, w1bytes, pi_hash, stir) ==
    LET sub(trace, tag) == prove_one_sub_air_with_trace(trace, pi_hash, tag, stir)
        opened(row) == [k \in 1..ML_K |-> open_trace_row_at_raw_position(t.intt[k], row)] \o << >>
    IN  [pi_hash |-> pi_hash,
         c_tilde_prime |-> extract_c_tilde_prime_from_trace(t.transcript, build_layout(mu, w1bytes)),
         v17 |-> sub(t.v17, <<"v17">>),
         intt |-> [k \in 1..ML_K |-> sub(t.intt[k], <<"intt:", k>>)] \o << >>,
         intt_l0 |-> opened(BUTTERFLIES_PER_NTT), intt_l1 |-> opened(0),
         decompose |-> sub(t.decompose, <<"decompose">>), use_hint |-> sub(t.use_hint, <<"use_hint">>),
         w1_encode |-> sub(t.w1_encode, <<"w1_encode">>), transcript |-> sub(t.transcript, <<"transcript">>)]
        @@ BindingCommits(t, pi_hash, stir)

----------------------------------------------------------------------------
(* Wire format: one tag byte and the compressed fields, or, as before tags *)
(* existed, the bare fields, which begin with the pi_hash.                 *)

V2_PROOF_FORMAT_TAG_ZSTD == 2
to_bytes(proof) == [first |-> V2_PROOF_FORMAT_TAG_ZSTD, rest |-> <<"zstd", proof>>]
\* lead is the first byte of the hash.
to_bytes_uncompressed(proof, lead) == [first |-> lead, rest |-> <<"raw", proof>>]
Decodable(b) == IF b.first = V2_PROOF_FORMAT_TAG_ZSTD THEN b.rest[1] = "zstd" ELSE b.rest[1] = "raw"

----------------------------------------------------------------------------
(* The verifier. *)

EqTraceColumn(Value(_, _)) ==
    [r \in 1..V17Rows |-> IF r <= N_EQ_ROWS THEN Value(((r - 1) \div ML_N) + 1, (r - 1) % ML_N) ELSE 0] \o << >>
PublicEqColumns(x) ==
    [l \in 1..ML_L |-> EqTraceColumn(LAMBDA k, i : x.a[k][l][i])]
    \o <<EqTraceColumn(LAMBDA k, i : x.c[i]), EqTraceColumn(LAMBDA k, i : x.t1d[k][i]),
         EqTraceColumn(LAMBDA k, i : x.w[k][i])>>
PublicBitColumn(w1bytes, b) ==
    LET bitAt(o) == (w1bytes[(o \div 8) + 1] \div 2^(o % 8)) % 2
    IN  [r \in 1..CoeffRows |-> IF r <= KN THEN bitAt((r - 1) * W1_BITS_PER_COEF + b) ELSE 0] \o << >>

InttBound(x, p, k, stir) ==
    /\ verify_one_sub_air_with_trace(p.intt[k], InttRows, p.pi_hash, <<"intt:", k>>, stir, eval_ntt_chained)
    /\ verify_trace_row_at_raw_position(p.intt_l0[k], p.intt[k].trace_root, BUTTERFLIES_PER_NTT, <<"intt:", k>>)
    /\ \A i \in Coefficients : p.intt_l0[k].cells.state[i] = x.w[k][i]
    /\ verify_trace_row_at_raw_position(p.intt_l1[k], p.intt[k].trace_root, 0, <<"intt:", k>>)

CoefficientsHold(p, stir) ==
    /\ verify_one_sub_air_with_trace(p.decompose, CoeffRows, p.pi_hash, <<"decompose">>, stir,
                                     LAMBDA cur, nxt, row : eval_decompose(cur))
    /\ verify_one_sub_air_with_trace(p.use_hint, CoeffRows, p.pi_hash, <<"use_hint">>, stir,
                                     LAMBDA cur, nxt, row : eval_use_hint(cur))
    /\ verify_one_sub_air_with_trace(p.w1_encode, CoeffRows, p.pi_hash, <<"w1_encode">>, stir,
                                     LAMBDA cur, nxt, row : eval_w1_encode(cur))

TranscriptHolds(p, layout, stir) ==
    verify_one_sub_air_with_trace(p.transcript, next_power_of_two(active_rows(layout)), p.pi_hash, <<"transcript">>,
                                  stir, LAMBDA cur, nxt, row : eval_transcript(cur, nxt, row, layout))

\* Columns of two traces.
TracesAgree(p, stir) ==
    /\ verify_ood_consistency(p.l2a_decompose, p.l2a_use_hint, p.pi_hash, stir)
    /\ verify_ood_consistency(p.l3_use_hint, p.l3_w1_encode, p.pi_hash, stir)

\* Variant: the bits of w1_encode are counted, not compared with w1bytes.
BitsAgree_counted(x, p, stir) == Len(p.l4_w1_encode) = W1_BITS_PER_COEF

BitsAgree(x, p, stir) ==
    /\ Len(p.l4_w1_encode) = W1_BITS_PER_COEF
    /\ \A b \in 1..W1_BITS_PER_COEF :
         verify_ood_against_public_trace_col(p.l4_w1_encode[b], PublicBitColumn(x.w1bytes, b - 1), p.pi_hash, stir)

\* Columns of a trace and what the verifier derives from the public inputs;
\* w_approx is the inverse transform of the public w.
PublicColumnsAgree(x, p, w_approx, stir) ==
    /\ verify_ood_against_public_trace_col(p.l2c_use_hint, Flat(x.h), p.pi_hash, stir)
    /\ Len(p.l5_v17_eq) = ML_L + 3
    /\ \A i \in 1..(ML_L + 3) :
         verify_ood_against_public_trace_col(p.l5_v17_eq[i], PublicEqColumns(x)[i], p.pi_hash, stir)
    /\ verify_ood_against_public_trace_col(p.l1_decompose, Flat(w_approx), p.pi_hash, stir)
    /\ verify_ood_against_public_trace_col(
         p.l2b_use_hint, Flat(OnVector(LAMBDA k, i : HintSign(w_approx[k][i]))), p.pi_hash, stir)
    /\ BitsAgree(x, p, stir)

verify_v2_real(x, c_tilde, p, stir) ==
    /\ p.pi_hash = compute_pi_hash_v2(x, c_tilde)
    /\ p.c_tilde_prime = c_tilde
    /\ verify_one_sub_air_with_trace(p.v17, V17Rows, p.pi_hash, <<"v17">>, stir, eval_v17)
    /\ Len(p.intt) = ML_K /\ Len(p.intt_l0) = ML_K /\ Len(p.intt_l1) = ML_K
    /\ \A k \in 1..ML_K : InttBound(x, p, k, stir)
    /\ CoefficientsHold(p, stir)
    /\ Len(x.w1bytes) = (KN * W1_BITS_PER_COEF) \div 8
    /\ TranscriptHolds(p, build_layout(x.mu, x.w1bytes), stir)
    /\ TracesAgree(p, stir)
    /\ PublicColumnsAgree(x, p, derive_w_approx_witness(x.w), stir)

----------------------------------------------------------------------------
(* The component: a claim, whose witness may deviate at one point and is   *)
(* consistent from there on; a proof, some of whose traces may come from   *)
(* another witness; the bytes that are sent; and the verdict.              *)

Spoilt(p) == [p EXCEPT ![1] = [@ EXCEPT ![0] = (@ + 1) % ML_Q]]
TooLarge(z) == [z EXCEPT ![1] = [@ EXCEPT ![0] = Z_BOUND]]
OtherHigh(adj) == [adj EXCEPT ![1] = [@ EXCEPT ![0] = (@ + 1) % NUM_R1_VALUES]]

DeviatingWitness(in, sig, x, dev) ==
    CASE dev = "z" -> V2Witness(in, <<TooLarge(sig[1]), sig[2]>>)
      [] dev = "w" -> ResultWitness(in, sig, Spoilt(x.w))
      [] dev = "w_approx" -> ApproxWitness(in, sig, x.w, Spoilt(x.w_approx))
      [] dev = "adjusted" -> AdjustedWitness(in, sig, x.w, x.w_approx, OtherHigh(x.adjusted))
      [] dev = "w1bytes" -> [x EXCEPT !.w1bytes = [@ EXCEPT ![1] = (@ - (@ % 2)) + ((@ + 1) % 2)]]
      [] OTHER -> x
ClaimedDigest(x, dev) ==
    IF dev = "c_tilde" THEN <<"other">> ELSE compute_c_tilde_prime_native(x.mu, x.w1bytes)

\* A deviating claim is proved with traces of the honest witness, an honest
\* one with traces of another signature.
V2Claimed(in, dev, x, other) ==
    [phase |-> "claimed", dev |-> dev, x |-> IF dev = "none" THEN x ELSE DeviatingWitness(in, <<x.z, x.h>>, x, dev),
     other |-> IF dev = "none" THEN other ELSE x]

MlV2Init ==
    /\ unit = "mldsa"
    /\ \E in \in V2Inputs, s \in V2Signatures, o \in V2Signatures, dev \in V2Deviations :
         s # o /\ st = V2Claimed(in, dev, V2Witness(in, s), V2Witness(in, o))

Spliceable == {"v17", "intt", "decompose", "use_hint", "w1_encode"}
Spliced(t, other, parts) == [f \in DOMAIN t |-> IF f \in parts THEN other[f] ELSE t[f]]
V2ProofOf(x, t, pi_hash) == prove_v2_real_from_traces(t, x.mu, x.w1bytes, pi_hash, TRUE)

V2ProveWith(x, other, parts, dev, c_tilde) ==
    Move("mldsa", [phase |-> "proved", x |-> x, c_tilde |-> c_tilde, honest |-> dev = "none" /\ parts = {},
                   z |-> IF "v17" \in parts THEN other.z ELSE x.z, other |-> other,
                   proof |-> V2ProofOf(x, Spliced(fill_v2_traces(x), fill_v2_traces(other), parts),
                                     compute_pi_hash_v2(x, c_tilde))])
prove_v2_real ==
    /\ unit = "mldsa" /\ st.phase = "claimed"
    /\ \E parts \in SUBSET Spliceable :
         V2ProveWith(st.x, st.other, parts, st.dev, ClaimedDigest(st.x, st.dev))

Swapped(s) == [s EXCEPT ![1] = s[2], ![2] = s[1]]
AtRow(opening, row) == [opening EXCEPT !.index = row * V2_BLOWUP]

\* A field of the proof with what belongs elsewhere.
Changed(p, change) ==
    CASE change = "pi_hash" -> [p EXCEPT !.pi_hash = Append(@, 0)]
      [] change = "intt" -> [p EXCEPT !.intt = Swapped(@), !.intt_l0 = Swapped(@), !.intt_l1 = Swapped(@)]
      [] change = "intt count" -> [p EXCEPT !.intt = Append(@, @[1])]
      [] change = "l0 count" -> [p EXCEPT !.intt_l0 = Front(@)]
      [] change = "l0 row" -> [p EXCEPT !.intt_l0 = p.intt_l1]
      [] change = "l1 index" -> [p EXCEPT !.intt_l1[1] = AtRow(@, 1)]
      [] change = "l1 of another" -> [p EXCEPT !.intt_l1 = Swapped(@)]
      [] change = "l5 count" -> [p EXCEPT !.l5_v17_eq = Front(@)]
      [] change = "l5 order" -> [p EXCEPT !.l5_v17_eq = Swapped(@)]
      [] change = "l4 count" -> [p EXCEPT !.l4_w1_encode = Front(@)]
      [] change = "l4 order" -> [p EXCEPT !.l4_w1_encode = Swapped(@)]
      [] change = "signs" -> [p EXCEPT !.l2b_use_hint = p.l2c_use_hint, !.l2c_use_hint = p.l2b_use_hint]
      [] change = "high parts" -> [p EXCEPT !.l2a_use_hint = p.l1_decompose]
      [] change = "gadget" -> [p EXCEPT !.decompose = p.w1_encode]
      [] change = "coefficients" -> [p EXCEPT !.l1_decompose = p.l5_v17_eq[1]]
      [] OTHER -> p

V2Sent(change, bytes) ==
    Move("mldsa", [phase |-> "sent", x |-> st.x, z |-> st.z, c_tilde |-> st.c_tilde, honest |-> st.honest,
                   change |-> change, bytes |-> bytes])
\* Compressed, after a change to a proof that is otherwise honest.
V2Send ==
    /\ unit = "mldsa" /\ st.phase = "proved"
    /\ \E change \in V2Changes \cup {"none"} :
         /\ change = "none" \/ st.honest
         /\ V2Sent(change, to_bytes(Changed(st.proof, change)))
\* Stored before tags existed, or cut short.
V2Stored ==
    /\ unit = "mldsa" /\ st.phase = "proved" /\ st.honest
    /\ \/ \E lead \in {0, V2_PROOF_FORMAT_TAG_ZSTD} : V2Sent("none", to_bytes_uncompressed(st.proof, lead))
       \/ V2Sent("cut", [first |-> V2_PROOF_FORMAT_TAG_ZSTD, rest |-> <<"cut">>])

V2Verify ==
    /\ unit = "mldsa" /\ st.phase = "sent"
    /\ \E stir \in (IF st.honest THEN BOOLEAN ELSE {TRUE}) :
         Move("mldsa", [phase |-> "verdict", x |-> st.x, z |-> st.z, c_tilde |-> st.c_tilde, bytes |-> st.bytes,
                        change |-> st.change, honest |-> st.honest, stir |-> stir,
                        accepted |-> /\ Decodable(st.bytes)
                                     /\ verify_v2_real(st.x, st.c_tilde, st.bytes.rest[2], stir)])

MlV2Next == prove_v2_real \/ V2Send \/ V2Stored \/ V2Verify

----------------------------------------------------------------------------
(* Correctness. *)

\* A proof that verify_v2_real accepts shows the whole ML-DSA check: the z
\* in its equation trace is small, the public w is A z - c t1, w1bytes
\* encodes the high parts of its inverse transform corrected by the public
\* hints, and the challenge digest is the hash of mu and w1bytes.  That is
\* so whichever traces of two witnesses were put together, as every binding
\* between traces is checked.  An honest proof is accepted when it comes
\* compressed, with every part in its place and both sides on the same
\* low-degree test, and not when a part is missing, out of place or belongs
\* to another gadget.
SignatureBinding ==
    unit = "mldsa" /\ st.phase = "verdict" =>
      /\ st.accepted =>
           /\ \A l \in 1..ML_L, i \in Coefficients : coeff_in_norm(st.z[l][i], Z_BOUND)
           /\ \A k \in 1..ML_K, i \in Coefficients :
                (FoldFunction(+, 0, [l \in 1..ML_L |-> st.x.a[k][l][i] * ntt(st.z[l])[i]])
                   - st.x.c[i] * st.x.t1d[k][i] - st.x.w[k][i]) % ML_Q = 0
           /\ st.x.w1bytes = pack_w1(OnVector(LAMBDA k, i : native_use_hint(st.x.h[k][i], ntt_inv(st.x.w[k])[i])))
           /\ st.c_tilde = compute_c_tilde_prime_native(st.x.mu, st.x.w1bytes)
      /\ st.honest => (st.accepted <=> st.change = "none" /\ st.stir /\ Decodable(st.bytes))
=============================================================================
