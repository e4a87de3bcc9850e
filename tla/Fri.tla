-------------------------------- MODULE Fri --------------------------------
(***************************************************************************)
(* The low-degree test of deep_ali/src/fri.rs: DEEP-FRI and its STIR       *)
(* variant, with or without the final coefficient commitment.  Challenges  *)
(* live in the cubic extension.                                            *)
(*                                                                         *)
(* A Merkle root is the term <<tree label, leaves>> (what an opening then  *)
(* proves is the subject of MerkleTree).  A transcript is the sequence of  *)
(* items absorbed; a challenge depends on that sequence and on its label   *)
(* only, squeezing it changes nothing, so the hash is the function         *)
(* `oracle` from <<items, label>> to values, drawn when the prover first   *)
(* asks.  The verifier, and the prover when it derives the query seed,     *)
(* rebuild the transcript from the proof and must arrive at the same keys. *)
(***************************************************************************)
EXTENDS TowerExt

CONSTANTS ROOT_OF_UNITY,    \* generator of the largest radix-2 domain ...
          ROOT_ORDER,       \* ... and its order
          FriCases,         \* parameters tried: records n0, schedule, stir, coeff, d_final, r, pi
          FriPolys,         \* coefficients of the polynomials tested
          OodPoints,        \* values of the out-of-domain challenge
          FoldChallenges,   \* values of the folding challenges
          QueryIndices      \* positions that queries may hit

Ext(x) == <<x, 0, 0>>
Plus(a, b) == <<(a[1] + b[1]) % NATIVE, (a[2] + b[2]) % NATIVE, (a[3] + b[3]) % NATIVE>>
Minus(a, b) == <<(a[1] - b[1]) % NATIVE, (a[2] - b[2]) % NATIVE, (a[3] - b[3]) % NATIVE>>
Times(a, b) == mul_impl_cube(a, b)
ext_div(a, b) == Times(a, invert_cube(b))
ZeroE == Ext(0)
OneE == Ext(1)

\* Square and multiply from the low bit.
RECURSIVE ExtPowLoop(_, _, _)
ExtPowLoop(acc, base, e) ==
    IF e = 0 THEN acc
    ELSE ExtPowLoop(IF e % 2 = 1 THEN Times(acc, base) ELSE acc, sq_cube(base), e \div 2)
ext_pow(a, e) == ExtPowLoop(OneE, a, e)

Sum(s) == FoldLeft(Plus, ZeroE, s)
Seq0(n, Op(_)) == [i \in 1..n |-> Op(i - 1)] \o << >>

build_ext_pows(alpha, m) == Seq0(m, LAMBDA j : ext_pow(alpha, j))
Dot(a, b) == Sum([i \in 1..Len(a) |-> Times(a[i], b[i])])
eval_final_poly_ext(coeffs, x) == FoldRight(LAMBDA c, acc : Plus(Times(acc, x), c), coeffs, ZeroE)

\* Domain::new(n).group_gen of the polynomial library.
omega(n) == FpPow(ROOT_OF_UNITY, ROOT_ORDER \div n)
RootPow(g, e) == Ext(FpPow(g, e))

\* ifft of the library, on each component of the values.
ext_evals_to_coeffs(evals) ==
    LET Coeffs(n, back, scale) ==
          Seq0(n, LAMBDA k : Times(scale, Sum([i \in 1..n |-> Times(evals[i], RootPow(back, k * (i - 1)))])))
    IN  Coeffs(Len(evals), FpInverse(omega(Len(evals))), Ext(FpInverse(Len(evals) % NATIVE)))

----------------------------------------------------------------------------
(* Interpolation on a coset. *)

bit_reverse(x, bits) ==
    LET rev[b \in 0..bits] == IF b = 0 THEN 0 ELSE 2 * rev[b - 1] + ((x \div 2^(b - 1)) % 2)
    IN  rev[bits]
Log2(n) == CHOOSE b \in 0..10 : 2^b = n

\* Radix-2 transform in place: bit reversal, then butterflies on blocks of
\* 2, 4, ... n values.
fft_in_place_ext(vals, root) ==
    LET n == Len(vals)
        reversed == Seq0(n, LAMBDA i : vals[1 + bit_reverse(i, Log2(n))])
        Stage(v, block) ==
          LET half == block \div 2
              w(j) == RootPow(root, (n \div block) * j)
          IN  Seq0(n, LAMBDA i :
                LET j == i % half
                    lo == block * (i \div block) + j
                    t == Times(v[1 + lo + half], w(j))
                IN  IF i = lo THEN Plus(v[1 + lo], t) ELSE Minus(v[1 + lo], t))
    IN  FoldLeft(LAMBDA v, b : Stage(v, 2^b), reversed, [b \in 1..Log2(n) |-> b])

\* Coefficients of the polynomial of degree below m through the points
\* shift * zeta^j, from the transform and the powers of the inverted shift.
InterpolateCoset(vals, shiftInverse, zeta) ==
    LET Scaled(d, scale) == Seq0(Len(d), LAMBDA k : Times(Times(d[k + 1], scale), ext_pow(shiftInverse, k)))
    IN  Scaled(fft_in_place_ext(vals, FpInverse(zeta)), Ext(FpInverse(Len(vals))))
interpolate_stir_coset(evals, z, zeta) == InterpolateCoset(evals, invert_cube(z), zeta)
interpolate_coset_ext(fibre, omega_b, zeta) == InterpolateCoset(fibre, Ext(FpInverse(omega_b)), zeta)

\* The fibre over position b of the next layer.
Fibre(f, b, m) == Seq0(m, LAMBDA j : f[1 + b + j * (Len(f) \div m)])
ZetaOf(n, m) == FpPow(omega(n), n \div m)

extract_all_coset_coefficients(f, m) ==
    LET n == Len(f)
    IN  Seq0(n \div m, LAMBDA b :
          interpolate_coset_ext(Fibre(f, b, m), FpPow(omega(n), b), ZetaOf(n, m)))
interpolation_fold_ext(tuples, alpha) ==
    LET Folded(pows) == [b \in 1..Len(tuples) |-> Dot(tuples[b], pows)] \o << >>
    IN  Folded(build_ext_pows(alpha, Len(tuples[1])))
compute_s_layer_from_coeffs(folded, n) == Seq0(n, LAMBDA i : folded[1 + (i % Len(folded))])

----------------------------------------------------------------------------
(* Out-of-domain evaluation. *)

evaluate_ood_coset(f, z, m) ==
    LET At(coeffs) == Seq0(m, LAMBDA j : eval_final_poly_ext(coeffs, Times(RootPow(ZetaOf(Len(f), m), j), z)))
    IN  At(ext_evals_to_coeffs(f))

\* The DEEP quotient (f(x) - f(z)) / (x - z) on the domain.
compute_q_layer_ext_on_ext(f, z) ==
    LET Quotient(fz) ==
          [fz |-> fz,
           q  |-> Seq0(Len(f), LAMBDA i : ext_div(Minus(f[i + 1], fz), Minus(RootPow(omega(Len(f)), i), z)))]
    IN  Quotient(eval_final_poly_ext(ext_evals_to_coeffs(f), z))

batched_degree_check_ext(tuples, beta, d_final) ==
    LET Vanish(coeffs) == \A k \in (d_final + 1) .. Len(coeffs) : coeffs[k] = ZeroE
    IN  Vanish(ext_evals_to_coeffs(interpolation_fold_ext(tuples, beta)))

----------------------------------------------------------------------------
(* The transcript, from the parameters and what the proof carries. *)

bind_statement_to_transcript(par) ==
    (IF par.pi = << >> THEN << >> ELSE <<"CAIRO-PUBLIC-INPUTS-V1", par.pi>>)
      \o <<"DEEP-FRI-STATEMENT-V2", par.n0, Len(par.schedule)>> \o par.schedule
      \o <<"seed_z", DEGREE["cube"], par.coeff, par.stir>>

NormalLayers(par) == IF par.coeff THEN Len(par.schedule) - 1 ELSE Len(par.schedule)
\* Variant: the out-of-domain values are left out of the replay.
LayerItemsRootOnly(par, p, ell) == <<p.roots[ell]>>

LayerItems(par, p, ell) == (IF par.stir THEN p.cosets[ell] ELSE <<p.fz[ell]>>) \o <<p.roots[ell]>>

\* The items absorbed before the folding challenge of layer ell + 1.
ItemsBefore(par, p, ell) ==
    bind_statement_to_transcript(par) \o <<p.root_f0>>
      \o FlattenSeq([i \in 1..ell |-> LayerItems(par, p, i)])
ItemsBeforeFinal(par, p) ==
    ItemsBefore(par, p, Len(par.schedule)) \o (IF par.coeff THEN <<p.coeff_root>> ELSE << >>)

OodKey(par, p) == <<ItemsBefore(par, p, 0), "z_fp3">>
SeedKey(par, p) == <<ItemsBefore(par, p, 0), "FRI/seed">>
AlphaKey(par, p, ell) ==
    IF ell <= NormalLayers(par) THEN <<ItemsBefore(par, p, ell - 1), "alpha">>
    ELSE <<ItemsBeforeFinal(par, p), "alpha">>
BetaKey(par, p) == <<ItemsBeforeFinal(par, p), "beta_deg">>
QueryKey(par, p) == <<ItemsBeforeFinal(par, p) \o p.final_poly_coeffs, "query_seed">>

----------------------------------------------------------------------------
(* The prover: fri_build_transcript, one step per challenge. *)

Tree(label, leaves) == <<label, leaves>>
Leaves3(f, s, q) == [i \in 1..Len(f) |-> <<f[i], s[i], q[i]>>] \o << >>
LastLayer == st.f[Len(st.f)]
LayerNo == Len(st.f)          \* number of the layer that is folded next
Factor == st.par.schedule[LayerNo]

\* Absorb, then draw the value of the challenge if it is new.
Absorb(items) == st.tr \o items
Draws(tr, label, v) == <<tr, label>> \in DOMAIN st.oracle => st.oracle[<<tr, label>>] = v
Drawn(tr, label, v) == (<<tr, label>> :> v) @@ st.oracle

FriInit ==
    /\ unit = "fri"
    /\ \E par \in FriCases, c \in FriPolys :
         /\ Len(c) <= par.n0
         /\ st = [phase |-> "start", par |-> par, poly |-> c]

\* Commit to f0 - its fibres under the STIR variant - and draw the
\* out-of-domain point and the seed of the layer trees.
EvalsOn(c, n) == Seq0(n, LAMBDA i : eval_final_poly_ext(c, RootPow(omega(n), i)))
Lifted(c) == [k \in 1..Len(c) |-> Ext(c[k])] \o << >>
F0Tree(par, f0) ==
    Tree("f0", IF par.stir THEN Seq0(par.n0 \div par.schedule[1], LAMBDA b : Fibre(f0, b, par.schedule[1]))
               ELSE [i \in 1..par.n0 |-> <<f0[i]>>] \o << >>)
Committed(par, f0, root, tr, z) ==
    [phase |-> "layers", par |-> par, poly |-> st.poly, tr |-> tr,
     oracle |-> (<<tr, "z_fp3">> :> z) @@ (<<tr, "FRI/seed">> :> "trace"),
     root_f0 |-> root, z |-> z, z_current |-> z, f |-> <<f0>>,
     alpha |-> << >>, fz |-> << >>, cosets |-> << >>, leaves |-> << >>,
     roots |-> << >>, coeff_root |-> << >>, tuples |-> << >>, beta |-> ZeroE]
CommitTo(f0, root) ==
    \E z \in OodPoints :
      Move("fri", Committed(st.par, f0, root, bind_statement_to_transcript(st.par) \o <<root>>, z))

FriCommit ==
    /\ unit = "fri" /\ st.phase = "start"
    /\ LET With(f0) == CommitTo(f0, F0Tree(st.par, f0))
       IN  With(EvalsOn(Lifted(st.poly), st.par.n0))

\* The classic variant divides by x - z on the whole domain and the STIR one
\* by z: a point that makes this zero panics.
OodFails ==
    IF st.par.stir THEN st.z_current = ZeroE
    ELSE \E i \in 0 .. Len(LastLayer) - 1 : RootPow(omega(Len(LastLayer)), i) = st.z

FriPanic ==
    /\ unit = "fri" /\ st.phase = "layers" /\ LayerNo <= Len(st.par.schedule) /\ OodFails
    /\ Move("fri", [phase |-> "panicked", par |-> st.par, z |-> st.z])

\* The out-of-domain values and the leaves that layer contributes, given its
\* consistency column s.
OodOfLayer ==
    LET Coset(ev) == [evals |-> ev, fz |-> ev[1], q |-> << >>]
    IN  IF st.par.stir THEN Coset(evaluate_ood_coset(LastLayer, st.z_current, Factor))
        ELSE [evals |-> << >>] @@ compute_q_layer_ext_on_ext(LastLayer, st.z)
LayerLeaves(ood, s) ==
    IF st.par.stir THEN [i \in 1..Len(LastLayer) |-> <<LastLayer[i]>>] \o << >>
    ELSE Leaves3(LastLayer, s, ood.q)
Layer(ood, leaves) ==
    [st EXCEPT !.fz = Append(@, ood.fz), !.cosets = Append(@, ood.evals), !.leaves = Append(@, leaves),
               !.roots = Append(@, Tree(LayerNo - 1, leaves)),
               !.z_current = IF st.par.stir THEN ext_pow(@, Factor) ELSE @,
               !.tr = Absorb((IF st.par.stir THEN ood.evals ELSE <<ood.fz>>) \o <<Tree(LayerNo - 1, leaves)>>)]

\* A normal layer: the folding challenge is drawn before the layer is committed.
FoldLayer(ood, alpha, folded) ==
    Move("fri", [Layer(ood, LayerLeaves(ood, compute_s_layer_from_coeffs(folded, Len(LastLayer)))) EXCEPT
                   !.oracle = Drawn(st.tr, "alpha", alpha),
                   !.alpha = Append(@, alpha),
                   !.f = Append(@, folded)])
DrawAndFold(ood, tuples) ==
    \E alpha \in FoldChallenges :
      /\ Draws(st.tr, "alpha", alpha)
      /\ FoldLayer(ood, alpha, interpolation_fold_ext(tuples, alpha))
FriLayer ==
    /\ unit = "fri" /\ st.phase = "layers" /\ LayerNo <= NormalLayers(st.par) /\ ~OodFails
    /\ DrawAndFold(OodOfLayer, extract_all_coset_coefficients(LastLayer, Factor))

\* The last layer when its coefficients are committed: the folding challenge
\* comes after the commitment, and with it the degree challenge.
CommitCoeffs(s1, tuples, tr) ==
    \E alpha, beta \in FoldChallenges :
      /\ Draws(tr, "alpha", alpha)
      /\ Draws(tr, "beta_deg", beta)
      /\ Move("fri", [s1 EXCEPT
            !.tr = tr, !.oracle = (<<tr, "beta_deg">> :> beta) @@ Drawn(tr, "alpha", alpha),
            !.alpha = Append(@, alpha), !.beta = beta,
            !.tuples = tuples, !.coeff_root = Tree("coeff", tuples),
            !.f = Append(@, interpolation_fold_ext(tuples, alpha))])
FriCoeffLayer ==
    /\ unit = "fri" /\ st.phase = "layers" /\ st.par.coeff /\ LayerNo = Len(st.par.schedule) /\ ~OodFails
    /\ LET Zeros == [i \in 1..Len(LastLayer) |-> ZeroE]
           Last_(ood) == Layer(ood, LayerLeaves(ood, Zeros))
           With(s1, tuples) == CommitCoeffs(s1, tuples, s1.tr \o <<Tree("coeff", tuples)>>)
       IN  With(Last_(OodOfLayer), extract_all_coset_coefficients(LastLayer, Factor))

----------------------------------------------------------------------------
(* deep_fri_prove: final polynomial, query seed from a rebuilt transcript, *)
(* openings.                                                               *)

\* Values and openings of one classic query: position i of layer 1 leads to
\* i modulo the size of each following layer.
Position(raw, ell) == raw % Len(st.f[ell])
Opening(leaves, i) == [index |-> i, leaf |-> leaves[i + 1]]
fri_prove_queries(raw) ==
    LET layers == Len(st.par.schedule)
    IN  [refs |-> [ell \in 1..layers |-> Position(raw, ell)] \o << >>,
         pays |-> [ell \in 1..layers |-> st.leaves[ell][1 + Position(raw, ell)]] \o << >>,
         opens |-> [ell \in 1..layers |-> Opening(st.leaves[ell], Position(raw, ell))] \o << >>,
         f0 |-> Opening(st.root_f0[2], raw),
         final_index |-> Position(raw, layers + 1)]

\* One STIR proximity query: a fibre of f0 and the value it folds to.
stir_prove_proximity_queries(raw) ==
    LET m0 == st.par.schedule[1]
        n_next == st.par.n0 \div m0
        base == raw % n_next
        more == Len(st.par.schedule) >= 2
    IN  [raw |-> raw, base |-> base,
         indices |-> Seq0(m0, LAMBDA j : base + j * n_next),
         fibre |-> Fibre(st.f[1], base, m0),
         f0 |-> Opening(st.root_f0[2], base),
         next |-> IF more THEN st.f[2][base + 1] ELSE ZeroE,
         layer1 |-> IF more THEN Opening(st.leaves[2], base) ELSE << >>]

ProofOf(all) ==
    [root_f0 |-> st.root_f0, roots |-> st.roots, fz |-> st.fz, cosets |-> st.cosets,
     coeff_root |-> st.coeff_root, tuples |-> st.tuples, n0 |-> st.par.n0,
     final_poly_coeffs |-> SubSeq(all, 1, Min({st.par.d_final, Len(all)}))]
AnswerQueries(p0, key) ==
    \E seed \in [1..st.par.r -> QueryIndices] :
      /\ key \in DOMAIN st.oracle => st.oracle[key] = seed
      /\ \A q \in 1..st.par.r : seed[q] < st.par.n0
      /\ Move("fri", [phase |-> "proved", par |-> st.par, poly |-> st.poly, z |-> st.z,
              alpha |-> st.alpha, beta |-> st.beta, last |-> LastLayer, tampered |-> FALSE,
              oracle |-> (key :> seed) @@ st.oracle, built |-> st.tr,
              proof |-> p0 @@ [queries |-> [q \in 1..st.par.r |->
                   IF st.par.stir THEN stir_prove_proximity_queries(seed[q])
                   ELSE fri_prove_queries(seed[q])] \o << >>]])
FriProve ==
    /\ unit = "fri" /\ st.phase = "layers" /\ LayerNo = Len(st.par.schedule) + 1
    /\ LET With(p0) == AnswerQueries(p0, QueryKey(st.par, p0))
       IN  With(ProofOf(ext_evals_to_coeffs(LastLayer)))

\* A change of one opened value on the way to the verifier.
Bump(x) == Plus(x, OneE)
FriTamper ==
    /\ unit = "fri" /\ st.phase = "proved" /\ ~st.tampered
    /\ \/ /\ ~st.par.stir
          /\ \E ell \in 1..Len(st.par.schedule), c \in 1..3 :
               Move("fri", [st EXCEPT !.tampered = TRUE, !.proof.queries[1].pays[ell][c] = Bump(@)])
       \/ /\ st.par.stir
          /\ \/ \E j \in 1..st.par.schedule[1] :
                  Move("fri", [st EXCEPT !.tampered = TRUE, !.proof.queries[1].fibre[j] = Bump(@)])
             \/ /\ Len(st.par.schedule) >= 2
                /\ Move("fri", [st EXCEPT !.tampered = TRUE, !.proof.queries[1].next = Bump(@)])

----------------------------------------------------------------------------
(* deep_fri_verify. *)

layer_sizes_from_schedule(n0, schedule) ==
    [i \in 1 .. Len(schedule) + 1 |-> FoldLeft(LAMBDA n, m : n \div m, n0, SubSeq(schedule, 1, i - 1))] \o << >>

opening_holds(root, label, o) ==
    root[1] = label /\ o.index < Len(root[2]) /\ root[2][o.index + 1] = o.leaf

\* What the verifier recomputes before it checks anything.
ZPowers(z, schedule) ==
    LET at[ell \in 1 .. Len(schedule) + 1] ==
          IF ell = 1 THEN z ELSE ext_pow(at[ell - 1], schedule[ell - 1])
    IN  [ell \in 1 .. Len(schedule) + 1 |-> at[ell]] \o << >>
ViewAt(par, p, oracle, layers, zs, sizes) ==
    [layers |-> layers, z |-> zs[1], sizes |-> sizes,
     alpha |-> [ell \in 1..layers |-> oracle[AlphaKey(par, p, ell)]] \o << >>,
     beta |-> IF par.coeff THEN oracle[BetaKey(par, p)] ELSE ZeroE,
     seed |-> oracle[QueryKey(par, p)],
     z_final |-> zs[layers + 1],
     interp |-> [ell \in 1..layers |->
        IF par.stir THEN interpolate_stir_coset(p.cosets[ell], zs[ell], ZetaOf(sizes[ell], par.schedule[ell]))
        ELSE << >>] \o << >>]
View(par, p, oracle) ==
    ViewAt(par, p, oracle, Len(par.schedule), ZPowers(oracle[OodKey(par, p)], par.schedule),
           layer_sizes_from_schedule(p.n0, par.schedule))

\* Under STIR the values on each out-of-domain coset fold to the first value
\* of the next one, and the last to the final polynomial.
OodFoldHolds(par, p, v) ==
    \A ell \in 1..v.layers :
      Dot(v.interp[ell], build_ext_pows(v.alpha[ell], par.schedule[ell]))
        = IF ell < v.layers THEN p.cosets[ell + 1][1] ELSE eval_final_poly_ext(p.final_poly_coeffs, v.z_final)

CoeffsHold(par, p, v) ==
    /\ Len(p.tuples) = v.sizes[v.layers + 1]
    /\ \A b \in 1..Len(p.tuples) : Len(p.tuples[b]) = par.schedule[v.layers]
    /\ Tree("coeff", p.tuples) = p.coeff_root
    /\ batched_degree_check_ext(p.tuples, v.beta, par.d_final)

FinalAt(p, v, i) ==
    eval_final_poly_ext(p.final_poly_coeffs, IF v.sizes[v.layers + 1] >= 2 THEN RootPow(omega(v.sizes[v.layers + 1]), i) ELSE OneE)

ProximityAt(par, p, v, pq, raw, base, fold_val) ==
    /\ pq.raw = raw /\ pq.base = base
    /\ Len(pq.indices) = par.schedule[1] /\ Len(pq.fibre) = par.schedule[1]
    /\ \A j \in 1..par.schedule[1] : pq.indices[j] = base + (j - 1) * v.sizes[2]
    /\ opening_holds(p.root_f0, "f0", pq.f0) /\ pq.f0.index = base /\ pq.f0.leaf = pq.fibre
    /\ IF v.layers >= 2
       THEN /\ opening_holds(p.roots[2], 1, pq.layer1) /\ pq.layer1.index = base
            /\ pq.layer1.leaf = <<pq.next>>
            /\ fold_val = pq.next
       ELSE fold_val = FinalAt(p, v, base)
ProximityHolds(par, p, v, q) ==
    LET FoldVal(base, m0) ==
          Dot(interpolate_coset_ext(p.queries[q].fibre, FpPow(omega(v.sizes[1]), base), ZetaOf(v.sizes[1], m0)),
              build_ext_pows(v.alpha[1], m0))
        At(base) == ProximityAt(par, p, v, p.queries[q], v.seed[q], base, FoldVal(base, par.schedule[1]))
    IN  At(v.seed[q] % v.sizes[2])

IsBase(x) == x[2] = 0 /\ x[3] = 0

QueryHolds(par, p, v, q) ==
    LET qp == p.queries[q]
        PositionAt(ell) == v.seed[q] % v.sizes[ell]
        last == v.layers
    IN  /\ \A ell \in 1..v.layers : qp.refs[ell] = PositionAt(ell)
        /\ qp.final_index = PositionAt(v.layers + 1)
        /\ opening_holds(p.root_f0, "f0", qp.f0)
        /\ IsBase(qp.pays[1][1]) /\ qp.f0.leaf = <<qp.pays[1][1]>> /\ qp.f0.index = v.seed[q]
        /\ \A ell \in 1..v.layers :
             LET pay == qp.pays[ell]
                 x == RootPow(omega(v.sizes[ell]), qp.refs[ell])
             IN  /\ opening_holds(p.roots[ell], ell - 1, qp.opens[ell])
                 /\ qp.opens[ell].index = qp.refs[ell] /\ qp.opens[ell].leaf = pay
                 /\ Times(pay[3], Minus(x, v.z)) = Minus(pay[1], p.fz[ell])
                 /\ IF ell = last /\ par.coeff
                    THEN LET tuple == p.tuples[qp.final_index + 1]
                         IN  /\ pay[1] = Dot(tuple, build_ext_pows(x, par.schedule[ell]))
                             /\ Dot(tuple, build_ext_pows(v.alpha[ell], par.schedule[ell])) = FinalAt(p, v, qp.final_index)
                    ELSE pay[2] = IF ell < last THEN qp.pays[ell + 1][1] ELSE FinalAt(p, v, qp.final_index)

deep_fri_verify(par, p, oracle) ==
    LET Holds(v) ==
          /\ Len(p.final_poly_coeffs) = par.d_final
          /\ par.stir => OodFoldHolds(par, p, v)
          /\ par.coeff => CoeffsHold(par, p, v)
          /\ \A q \in 1..par.r : IF par.stir THEN ProximityHolds(par, p, v, q) ELSE QueryHolds(par, p, v, q)
    IN  Holds(View(par, p, oracle))

\* The keys of every challenge the verifier draws.
VerifierKeys(par, p) ==
    {OodKey(par, p), SeedKey(par, p), QueryKey(par, p)}
      \cup {AlphaKey(par, p, ell) : ell \in 1..Len(par.schedule)}
      \cup (IF par.coeff THEN {BetaKey(par, p)} ELSE {})

FriVerify ==
    /\ unit = "fri" /\ st.phase = "proved"
    /\ LET Verdict(known) ==
             Move("fri", [phase |-> "verified", par |-> st.par, poly |-> st.poly, z |-> st.z,
                          alpha |-> st.alpha, beta |-> st.beta, last |-> st.last, tampered |-> st.tampered,
                          seed |-> st.oracle[QueryKey(st.par, st.proof)],
                          known |-> known,
                          verdict |-> known /\ deep_fri_verify(st.par, st.proof, st.oracle)])
       IN  Verdict(VerifierKeys(st.par, st.proof) \subseteq DOMAIN st.oracle)

FriNext == FriCommit \/ FriPanic \/ FriLayer \/ FriCoeffLayer \/ FriProve \/ FriTamper \/ FriVerify

----------------------------------------------------------------------------
(* Reference: folding acts on the coefficients of the polynomial. *)

FoldCoeffs(c, alpha, m) ==
    [k \in 1 .. (Len(c) + m - 1) \div m |->
       Sum([i \in 1..m |-> IF m * (k - 1) + i <= Len(c) THEN Times(ext_pow(alpha, i - 1), c[m * (k - 1) + i]) ELSE ZeroE])] \o << >>
FoldedBy(alphas) ==
    LET after[ell \in 0..Len(alphas)] ==
          IF ell = 0 THEN Lifted(st.poly)
          ELSE FoldCoeffs(after[ell - 1], alphas[ell], st.par.schedule[ell])
    IN  after[Len(alphas)]

\* What the final polynomial leaves out, at x.
LeftOut(c, x) == eval_final_poly_ext([k \in 1..Len(c) |-> IF k <= st.par.d_final THEN ZeroE ELSE c[k]], x)
FinalSize == Len(st.last)
ZFinal == FoldLeft(LAMBDA z, m : ext_pow(z, m), st.z, st.par.schedule)

\* An honest run is accepted exactly if the final layer can hold d_final
\* coefficients and what lies above them vanishes where the verifier looks.
Acceptable ==
    LET layers == Len(st.par.schedule)
        At(q) == RootPow(omega(FinalSize), st.seed[q] % FinalSize)
        Fits(beta) == \A k \in (st.par.d_final + 1) .. Len(beta) : beta[k] = ZeroE
        Seen(c) ==
          /\ IF st.par.stir THEN LeftOut(c, ZFinal) = ZeroE ELSE TRUE
          /\ (~st.par.stir \/ layers = 1) => \A q \in 1..st.par.r : LeftOut(c, At(q)) = ZeroE
    IN  /\ st.par.d_final <= FinalSize
        /\ st.par.coeff => Fits(FoldedBy([st.alpha EXCEPT ![layers] = st.beta]))
        /\ Seen(FoldedBy(st.alpha))

\* Folding, transcript and checks of fri.rs fit together: the last layer is
\* the folded polynomial on the last domain, the verifier draws every
\* challenge from the transcript the prover built, an honest proof is
\* accepted exactly when its degree fits (so always below the bound), a
\* changed opening never, and only a degenerate out-of-domain point panics.
FriExact ==
    unit = "fri" =>
      /\ st.phase = "proved" =>
           /\ st.last = EvalsOn(FoldedBy(st.alpha), FinalSize)
           /\ QueryKey(st.par, st.proof)[1] = st.built \o st.proof.final_poly_coeffs
      /\ st.phase = "verified" =>
           st.known /\ (st.verdict <=> (~st.tampered /\ Acceptable))
      /\ st.phase = "panicked" =>
           IF st.par.stir THEN st.z = ZeroE ELSE ext_pow(st.z, st.par.n0) = OneE
============================================================================
