---------------------------- MODULE MerkleTree ----------------------------
(***************************************************************************)
(* The Merkle commitment library merkle/src/lib.rs and the tree shapes the *)
(* FRI code of deep_ali/src/fri.rs asks of it.  A hash is the term it      *)
(* hashes (the hash function is taken to be free of collisions), so a tree *)
(* node is <<arity, level, position, tree label, children>> and a leaf     *)
(* carries the level LEAF_LEVEL_DS and its values.                         *)
(*                                                                         *)
(* The tree is built in memory (push_leaf, finalize), or with the bottom   *)
(* levels left out and recomputed at every opening (commit_compact,        *)
(* open_compact).  A prover may then present any opening to the verifier.  *)
(***************************************************************************)
EXTENDS ProofUnit, Integers, SequencesExt

CONSTANTS LEAF_LEVEL_DS,     \* level that marks a leaf (u32::MAX)
          COMPACT_SKIP,      \* most bottom levels left out of a compact tree
          TreeSizes,         \* numbers of leaves
          RequestedArities,  \* folding factors the FRI layers ask for
          MixedArities,      \* further configurations: arities per level
          LeafValues         \* values a leaf may commit to

hash(arity, level, position, label, children) == <<arity, level, position, label, children>>
\* Variant: leaves are hashed alike at every position.
compress_leaf_anywhere(cfg, position, v) == hash(cfg.arities[1], LEAF_LEVEL_DS, 0, cfg.label, <<v>>)

compress_leaf(cfg, position, v) == hash(cfg.arities[1], LEAF_LEVEL_DS, position, cfg.label, <<v>>)
compress_node(cfg, arity, level, position, children) == hash(arity, level, position, cfg.label, children)

pick_arity_for_layer(n, m) ==
    LET fits == {a \in {128, 64, 32, 16, 8, 4} : m >= a /\ n % a = 0}
    IN  IF fits # {} THEN Max(fits) ELSE IF n % 2 = 0 THEN 2 ELSE 1

\* Levels until at most `arity` nodes are left.
merkle_depth(leaves, arity) ==
    LET depth[cur \in 0..leaves] == IF cur > arity THEN 1 + depth[(cur + arity - 1) \div arity] ELSE 1
    IN  depth[leaves]

tree_config(n, m, label) ==
    LET arity == Max({pick_arity_for_layer(n, m), 2})
    IN  [arities |-> [i \in 1 .. merkle_depth(n, arity) |-> arity] \o << >>, label |-> label]

\* Arities are at least 2 and no tree is so high that a level has the number
\* that marks a leaf (the code counts levels in 32 bits and leaves in 64).
ASSUME MerkleAssumption ==
    /\ LEAF_LEVEL_DS \in Nat /\ COMPACT_SKIP \in Nat /\ TreeSizes \subseteq Nat \ {0} /\ RequestedArities \subseteq Nat
    /\ \A n \in TreeSizes, m \in RequestedArities : Len(tree_config(n, m, 1).arities) < LEAF_LEVEL_DS
    /\ \A a \in MixedArities : a \in Seq(Nat \ {0, 1}) /\ Len(a) < LEAF_LEVEL_DS

Repeat(x, k) == [i \in 1..k |-> x]

----------------------------------------------------------------------------
(* The tree in memory. *)

PadTo(nodes, arity) == nodes \o Repeat(nodes[Len(nodes)], (-Len(nodes)) % arity)
Parents(cfg, nodes, arity, level) ==
    [i \in 1 .. Len(nodes) \div arity |->
       compress_node(cfg, arity, level, i - 1, SubSeq(nodes, arity * (i - 1) + 1, arity * i))] \o << >>

\* The levels after the pass over tree level `level` - 1: no more once it has one node.
GrowLevel(cfg, levels, level) ==
    LET top == levels[Len(levels)]
        arity == cfg.arities[level]
        padded == PadTo(top, arity)
    IN  IF Len(top) = 1 THEN levels
        ELSE Append([levels EXCEPT ![Len(levels)] = padded], Parents(cfg, padded, arity, level))

\* The levels above `levels`, whose last is tree level `level`; none if the
\* configuration has no arity for a level that is needed.
Panic == << >>
finalize(cfg, levels, level) ==
    LET up[k \in 0 .. Len(cfg.arities) - level] ==
          IF k = 0 THEN levels ELSE GrowLevel(cfg, up[k - 1], level + k)
        done == up[Len(cfg.arities) - level]
    IN  IF Len(done[Len(done)]) = 1 THEN done ELSE Panic

push_leaves(cfg, values) == [i \in DOMAIN values |-> compress_leaf(cfg, i - 1, values[i])] \o << >>
root(levels) == levels[Len(levels)][1]

NodeOrLast(nodes, pos) == nodes[IF pos < Len(nodes) THEN pos + 1 ELSE Len(nodes)]
Siblings(nodes, idx, arity) ==
    LET start == (idx \div arity) * arity
    IN  [i \in 1 .. arity - 1 |->
           NodeOrLast(nodes, start + (IF i - 1 < idx % arity THEN i - 1 ELSE i))] \o << >>
\* The siblings on the path of `index`, from tree level `skip` up.
PathAbove(cfg, levels, skip, index) ==
    LET at[k \in 0 .. Len(levels) - 1] == IF k = 0 THEN index ELSE at[k - 1] \div cfg.arities[skip + k]
    IN  [k \in 1 .. Len(levels) - 1 |-> Siblings(levels[k], at[k - 1], cfg.arities[skip + k])] \o << >>
open(cfg, levels, index) ==
    [leaf |-> levels[1][index + 1], path |-> PathAbove(cfg, levels, 0, index), index |-> index]

----------------------------------------------------------------------------
(* The compact tree. *)

log2(n) == CHOOSE k \in 0..n : pow2(k) = n
skip_of(cfg, n) ==
    LET binary == Cardinality({i \in DOMAIN cfg.arities : \A j \in 1..i : cfg.arities[j] = 2})
    IN  Min({binary, COMPACT_SKIP, log2(n)})

\* The binary levels over the chunk of leaves that starts at `base`.
rebuild_chunk_levels(cfg, values, base, skip) ==
    LET leaves == [i \in 1 .. pow2(skip) |-> compress_leaf(cfg, base + i - 1, values[base + i])]
        up[d \in 0..skip] ==
          IF d = 0 THEN leaves \o << >>
          ELSE [j \in 1 .. pow2(skip - d) |->
                  compress_node(cfg, 2, d, (base \div pow2(d)) + j - 1, <<up[d - 1][2 * j - 1], up[d - 1][2 * j]>>)]
               \o << >>
    IN  [d \in 1 .. skip + 1 |-> up[d - 1]] \o << >>
fold_chunk(cfg, values, base, skip) == rebuild_chunk_levels(cfg, values, base, skip)[skip + 1][1]

commit_compact(cfg, values) ==
    LET skip == skip_of(cfg, Len(values))
        chunks == [c \in 1 .. Len(values) \div pow2(skip) |-> fold_chunk(cfg, values, (c - 1) * pow2(skip), skip)]
    IN  finalize(cfg, <<chunks \o << >>>>, skip)

open_compact(cfg, stored, values, index) ==
    LET skip == skip_of(cfg, Len(values))
        base == (index \div pow2(skip)) * pow2(skip)
        low == rebuild_chunk_levels(cfg, values, base, skip)
        local(d) == (index \div pow2(d)) - (base \div pow2(d))
        bottom == [d \in 1..skip |-> Siblings(low[d], local(d - 1), 2)]
    IN  [leaf |-> low[1][index - base + 1], index |-> index,
         path |-> bottom \o PathAbove(cfg, stored, skip, index \div pow2(skip))]

----------------------------------------------------------------------------
(* The verifier, one level at a time. *)

\* The parent of cur at `level` under these siblings; none if there are too few.
VerifyStep(cfg, level, idx, cur, siblings) ==
    LET arity == cfg.arities[level]
        pos == idx % arity
        children == [i \in 1..arity |-> IF i - 1 = pos THEN cur ELSE siblings[IF i - 1 < pos THEN i ELSE i - 1]]
    IN  IF Len(siblings) < arity - 1 THEN Panic
        ELSE compress_node(cfg, arity, level, idx \div arity, children \o << >>)

verify_opening(cfg, rt, o) ==
    LET at[k \in 0 .. Len(o.path)] ==
          IF k = 0 THEN [cur |-> o.leaf, idx |-> o.index]
          ELSE [cur |-> VerifyStep(cfg, k, at[k - 1].idx, at[k - 1].cur, o.path[k]),
                idx |-> at[k - 1].idx \div cfg.arities[k]]
    IN  at[Len(o.path)].cur = rt

compute_leaf_hash(cfg, index, v) == compress_leaf(cfg, index, v)

----------------------------------------------------------------------------
(* The runs. *)

Capacity(cfg) ==
    LET cap[k \in 0 .. Len(cfg.arities)] == IF k = 0 THEN 1 ELSE cap[k - 1] * cfg.arities[k]
    IN  cap[Len(cfg.arities)]

MerkleInit ==
    /\ unit = "merkle"
    /\ \E n \in TreeSizes :
       \E cfg \in {tree_config(n, m, 1) : m \in RequestedArities}
                   \cup {c \in {[arities |-> a, label |-> 1] : a \in MixedArities} : n <= Capacity(c)} :
         st = [phase |-> "values", n |-> n, cfg |-> cfg, values |-> [i \in 1..n |-> i % 3] \o << >>]

MerkleCommit ==
    /\ unit = "merkle" /\ st.phase = "values"
    /\ Move("merkle", [phase |-> "tree", n |-> st.n, cfg |-> st.cfg, values |-> st.values,
                       levels |-> finalize(st.cfg, <<push_leaves(st.cfg, st.values)>>, 0),
                       compact |-> IF \E k \in 0..st.n : pow2(k) = st.n
                                     THEN commit_compact(st.cfg, st.values) ELSE Panic])

MerkleOpen ==
    /\ unit = "merkle" /\ st.phase = "tree" /\ st.levels # Panic
    /\ \E i \in 0 .. st.n - 1 :
         Move("merkle", [phase |-> "opened", n |-> st.n, cfg |-> st.cfg, values |-> st.values, index |-> i,
                         root |-> root(st.levels), o |-> open(st.cfg, st.levels, i),
                         c |-> IF st.compact = Panic THEN open(st.cfg, st.levels, i)
                               ELSE open_compact(st.cfg, st.compact, st.values, i)])

\* A prover presents a leaf hash for any index: a node of the tree or the hash
\* of any value.  Only siblings that some node of the tree has can lead to the
\* root, so it tries those at every level.
Nodes(levels) == UNION {Range(levels[k]) : k \in DOMAIN levels}
MerkleForge ==
    /\ unit = "merkle" /\ st.phase = "tree" /\ st.levels # Panic
    /\ \E i \in 0 .. Capacity(st.cfg) :
       \E leaf \in Nodes(st.levels) \cup {compute_leaf_hash(st.cfg, i, v) : v \in LeafValues} :
         Move("merkle", [phase |-> "climb", n |-> st.n, cfg |-> st.cfg, values |-> st.values, index |-> i,
                         levels |-> st.levels, leaf |-> leaf, cur |-> leaf, idx |-> i, level |-> 0])

MerkleClimb ==
    /\ unit = "merkle" /\ st.phase = "climb" /\ st.level < Len(st.cfg.arities)
    /\ \E node \in {x \in Nodes(st.levels) : x[2] # LEAF_LEVEL_DS} :
       \E gap \in 1 .. Len(node[5]) :
         LET arity == st.cfg.arities[st.level + 1]
             up == VerifyStep(st.cfg, st.level + 1, st.idx, st.cur, RemoveAt(node[5], gap))
         IN  /\ up \in Nodes(st.levels)
             /\ Move("merkle", [st EXCEPT !.cur = up, !.idx = @ \div arity, !.level = @ + 1])

MerkleNext == MerkleCommit \/ MerkleOpen \/ MerkleForge \/ MerkleClimb

MerkleSpec == MerkleInit /\ [][MerkleNext]_unitVars

----------------------------------------------------------------------------
\* The configurations the FRI code computes always have an arity for every
\* level, and the compact tree has the root of the tree in memory.
TreesAgree ==
    st.phase = "tree" => /\ st.levels # Panic
                         /\ st.compact # Panic => root(st.compact) = root(st.levels)

\* The compact tree and the tree in memory give the same opening.
OpeningsAgree == st.phase = "opened" => st.c = st.o

\* What `open` returns verifies and carries the committed leaf.
OpeningVerifies ==
    st.phase = "opened" =>
      /\ verify_opening(st.cfg, st.root, st.o)
      /\ st.o.leaf = compute_leaf_hash(st.cfg, st.index, st.values[st.index + 1])

\* An opening that reaches the root and whose leaf the caller recomputes from a
\* value opens the committed value at a committed index, whatever node was
\* presented as a leaf and however short the path is.
ForgeryRefused ==
    st.phase = "climb" /\ st.cur = root(st.levels) =>
      \A v \in LeafValues : st.leaf = compute_leaf_hash(st.cfg, st.index, v) =>
        st.index < st.n /\ v = st.values[st.index + 1]

\* A root binds the committed values: trees are built alike in both ways, what
\* they open verifies, and nothing else does.
MerkleBinding == unit = "merkle" => TreesAgree /\ OpeningsAgree /\ OpeningVerifies /\ ForgeryRefused
============================================================================
