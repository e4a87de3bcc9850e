--------------------------- MODULE MerkleProofs ---------------------------
(***************************************************************************)
(* Proofs about MerkleTree, for every number of leaves, every sequence of  *)
(* arities and every committed value.                                      *)
(*                                                                         *)
(* MerkleSpec has the behaviours of the commitment library alone: the      *)
(* units of Circuits share no state.                                       *)
(***************************************************************************)
EXTENDS MerkleTree, ArithmeticProofs, FiniteSetTheorems

----------------------------------------------------------------------------
IsUp(f, cfg, levels, level) ==
    f = [k \in 0 .. Len(cfg.arities) - level |->
           IF k = 0 THEN levels ELSE GrowLevel(cfg, f[k - 1], level + k)]

\* The recursion of finalize has a solution.
LEMMA UpExists ==
    ASSUME NEW cfg, NEW levels, NEW level \in Int, Len(cfg.arities) - level \in Nat
    PROVE  \E f : IsUp(f, cfg, levels, level)
<1>. DEFINE Partial(g, n) == g = [k \in 0..n |-> IF k = 0 THEN levels ELSE GrowLevel(cfg, g[k - 1], level + k)]
            S == {n \in Nat : \E g : Partial(g, n)}
<1>1. 0 \in S
  <2>. DEFINE g == [k \in 0..0 |-> levels]
  <2>1. Partial(g, 0)
    OBVIOUS
  <2>. QED BY <2>1
<1>2. ASSUME NEW n \in Nat, n \in S PROVE n + 1 \in S
  <2>1. PICK g : Partial(g, n)
    BY <1>2
  <2>. DEFINE h == [k \in 0 .. n + 1 |-> IF k = n + 1 THEN GrowLevel(cfg, g[n], level + (n + 1)) ELSE g[k]]
  <2>2. h[0] = levels
    BY <2>1
  <2>3. ASSUME NEW k \in 1 .. n + 1 PROVE h[k] = GrowLevel(cfg, h[k - 1], level + k)
    <3>1. h[k - 1] = g[k - 1]
      BY <2>3
    <3>2. CASE k = n + 1
      BY <3>1, <3>2
    <3>3. CASE k # n + 1
      <4>1. h[k] = g[k] /\ k \in 0..n /\ k # 0
        BY <3>3
      <4>. QED BY <4>1, <2>1, <3>1
    <3>. QED BY <3>2, <3>3
  <2>4. DOMAIN h = 0 .. n + 1 /\ h = [k \in DOMAIN h |-> h[k]]
    OBVIOUS
  <2>5. \E f : Partial(f, n + 1)
    <3>. HIDE DEF h
    <3>1. \A k \in 0 .. n + 1 : h[k] = IF k = 0 THEN levels ELSE GrowLevel(cfg, h[k - 1], level + k)
      BY <2>2, <2>3
    <3>. QED BY <3>1, <2>4
  <2>. QED BY <2>5
<1>3. Nat \subseteq S
  <2>. HIDE DEF S
  <2>. QED BY <1>1, <1>2, Induct
<1>. QED
  BY <1>3 DEF IsUp

----------------------------------------------------------------------------
\* Padding n by (-n) % a gives whole families of a.
LEMMA PadRoundsUp ==
    ASSUME NEW n \in Nat, NEW a \in Nat \ {0}
    PROVE  /\ (-n) % a \in 0 .. a - 1
           /\ n + ((-n) % a) = a * ((n + ((-n) % a)) \div a)
           /\ n > 0 => (n + ((-n) % a)) \div a \in Nat \ {0}
<1>1. (-n) % a \in 0 .. a - 1
  OBVIOUS
<1>2. -n = a * ((-n) \div a) + ((-n) % a) /\ (-n) \div a \in Int
  OBVIOUS
<1>. DEFINE q == (-n) \div a
            r == (-n) % a
<1>3. n + r = a * (-q)
  BY <1>2
<1>4. (n + r) \div a = -q
  <2>. HIDE DEF q, r
  <2>. QED BY <1>2, <1>3 DEF q, r
<1>5. n > 0 => -q > 0
  <2>. SUFFICES ASSUME n > 0, q >= 0 PROVE FALSE
    BY <1>2
  <2>1. a * q >= 0
    BY <1>2
  <2>. QED BY <1>1, <1>2, <2>1
<1>. QED
  BY <1>1, <1>2, <1>3, <1>4, <1>5

\* A function on 1..n is a sequence of length n.
LEMMA FunctionIsSeq ==
    ASSUME NEW n \in Nat, NEW f, f = [i \in 1..n |-> f[i]]
    PROVE  f \in Seq({f[i] : i \in 1..n}) /\ Len(f) = n /\ f \o << >> = f
<1>1. f \in Seq({f[i] : i \in 1..n}) /\ Len(f) = n
  OBVIOUS
<1>. QED
  BY <1>1

\* Concatenation adds lengths.
LEMMA Joined ==
    ASSUME NEW T, NEW s \in Seq(T), NEW t \in Seq(T)
    PROVE  s \o t \in Seq(T) /\ Len(s \o t) = Len(s) + Len(t)
  OBVIOUS

\* The nodes are a positive number of families of a.
Whole(nodes, a) == Len(nodes) \div a \in Nat \ {0} /\ Len(nodes) = a * (Len(nodes) \div a)

\* PadTo repeats the last node up to whole families.
LEMMA PadToIs ==
    ASSUME NEW T, NEW nodes \in Seq(T), nodes # << >>, NEW a \in Nat \ {0}
    PROVE  /\ PadTo(nodes, a) \in Seq(T) /\ Len(PadTo(nodes, a)) >= Len(nodes)
           /\ Whole(PadTo(nodes, a), a)
           /\ \A i \in 1 .. Len(PadTo(nodes, a)) :
                PadTo(nodes, a)[i] = nodes[IF i <= Len(nodes) THEN i ELSE Len(nodes)]
<1>. DEFINE pad == (-Len(nodes)) % a
            last == nodes[Len(nodes)]
<1>1. Len(nodes) \in Nat \ {0} /\ last \in T
  OBVIOUS
<1>2. pad \in 0 .. a - 1 /\ Len(nodes) + pad = a * ((Len(nodes) + pad) \div a)
      /\ (Len(nodes) + pad) \div a \in Nat \ {0}
  <2>. DEFINE n == Len(nodes)
  <2>1. n \in Nat /\ n > 0
    BY <1>1
  <2>. HIDE DEF n
  <2>2. (-n) % a \in 0 .. a - 1 /\ n + ((-n) % a) = a * ((n + ((-n) % a)) \div a)
        /\ (n + ((-n) % a)) \div a \in Nat \ {0}
    BY <2>1, PadRoundsUp, Zenon
  <2>. QED BY <2>2 DEF n
<1>. HIDE DEF pad
<1>3. Repeat(last, pad) \in Seq(T) /\ Len(Repeat(last, pad)) = pad
      /\ \A i \in 1..pad : Repeat(last, pad)[i] = last
  BY <1>1, <1>2 DEF Repeat
<1>4. PadTo(nodes, a) = nodes \o Repeat(last, pad)
  BY DEF PadTo, pad
<1>. HIDE DEF last
<1>5. PadTo(nodes, a) \in Seq(T) /\ Len(PadTo(nodes, a)) = Len(nodes) + pad
  BY <1>3, <1>4, Joined
<1>6. ASSUME NEW i \in 1 .. Len(nodes) + pad
      PROVE  PadTo(nodes, a)[i] = nodes[IF i <= Len(nodes) THEN i ELSE Len(nodes)]
  BY <1>1, <1>2, <1>3, <1>4 DEF last
<1>. QED
  BY <1>1, <1>2, <1>5, <1>6 DEF Whole

\* The parent of the i-th family of `nodes`.
ParentOf(cfg, nodes, a, level, i) ==
    compress_node(cfg, a, level, i - 1, SubSeq(nodes, a * (i - 1) + 1, a * i))

ParentSet(cfg, nodes, a, level) == {ParentOf(cfg, nodes, a, level, i) : i \in 1 .. Len(nodes) \div a}

\* Parents makes one node for each family.
LEMMA ParentsAre ==
    ASSUME NEW cfg, NEW nodes, NEW a, NEW level, Len(nodes) \div a \in Nat
    PROVE  /\ Parents(cfg, nodes, a, level) \in Seq(ParentSet(cfg, nodes, a, level))
           /\ Len(Parents(cfg, nodes, a, level)) = Len(nodes) \div a
           /\ \A i \in 1 .. Len(nodes) \div a :
                Parents(cfg, nodes, a, level)[i] = ParentOf(cfg, nodes, a, level, i)
<1>. DEFINE n == Len(nodes) \div a
            f == [i \in 1..n |-> ParentOf(cfg, nodes, a, level, i)]
<1>1. Parents(cfg, nodes, a, level) = f \o << >>
  BY DEF Parents, ParentOf
<1>2. f \in Seq({ParentOf(cfg, nodes, a, level, i) : i \in 1..n}) /\ Len(f) = n
  OBVIOUS
<1>3. f \o << >> = f
  BY <1>2
<1>. QED
  BY <1>1, <1>2, <1>3 DEF ParentSet

----------------------------------------------------------------------------
\* t is s with its last element repeated.
Extends(s, t) ==
    Len(s) <= Len(t) /\ \A i \in 1 .. Len(t) : t[i] = s[IF i <= Len(s) THEN i ELSE Len(s)]

\* Padding an extension of s gives an extension of s.
LEMMA ExtendsPadded ==
    ASSUME NEW T, NEW U, NEW s \in Seq(T), s # << >>, NEW t \in Seq(U), Extends(s, t), NEW a \in Nat \ {0}
    PROVE  Extends(s, PadTo(t, a))
<1>1. t # << >> /\ Len(s) \in Nat \ {0} /\ Len(t) \in Nat \ {0}
  BY DEF Extends
<1>. DEFINE p == PadTo(t, a)
<1>2. Len(p) \in Nat /\ Len(p) >= Len(t) /\ \A i \in 1 .. Len(p) : p[i] = t[IF i <= Len(t) THEN i ELSE Len(t)]
  BY <1>1, PadToIs
<1>. HIDE DEF p
<1>3. ASSUME NEW i \in 1 .. Len(p) PROVE p[i] = s[IF i <= Len(s) THEN i ELSE Len(s)]
  <2>1. CASE i <= Len(t)
    BY <1>1, <1>2, <2>1 DEF Extends
  <2>2. CASE ~ (i <= Len(t))
    <3>1. p[i] = t[Len(t)] /\ Len(t) \in 1 .. Len(t)
      BY <1>1, <1>2, <2>2
    <3>2. t[Len(t)] = s[Len(s)]
      BY <1>1, <3>1 DEF Extends
    <3>. QED BY <1>1, <3>1, <3>2, <2>2 DEF Extends
  <2>. QED BY <2>1, <2>2
<1>. QED
  BY <1>1, <1>2, <1>3 DEF Extends, p

ArityAt(cfg, skip, j) == cfg.arities[skip + j]
WellFormed(cfg) == cfg.arities \in Seq(Nat \ {0, 1})

\* `ls` are levels of a tree over `base`, which is tree level `skip`: every
\* level but the last is whole families, and the level above has their parents.
Shape(cfg, skip, base, ls, T) ==
    /\ ls \in Seq(Seq(T)) /\ Len(ls) >= 1 /\ skip + Len(ls) <= Len(cfg.arities) + 1
    /\ \A j \in 1 .. Len(ls) : ls[j] # << >>
    /\ Extends(base, ls[1])
    /\ \A j \in 1 .. Len(ls) - 1 :
         /\ Whole(ls[j], ArityAt(cfg, skip, j))
         /\ Extends(Parents(cfg, ls[j], ArityAt(cfg, skip, j), skip + j), ls[j + 1])

\* A pass adds one level and keeps the shape of the tree.
LEMMA GrowKeepsShape ==
    ASSUME NEW cfg, WellFormed(cfg), NEW skip \in Nat, NEW B, NEW base \in Seq(B), base # << >>,
           NEW ls, NEW T, Shape(cfg, skip, base, ls, T),
           skip + Len(ls) <= Len(cfg.arities), Len(ls[Len(ls)]) # 1
    PROVE  \E U : /\ Shape(cfg, skip, base, GrowLevel(cfg, ls, skip + Len(ls)), U)
                  /\ Len(GrowLevel(cfg, ls, skip + Len(ls))) = Len(ls) + 1
<1>. DEFINE L == Len(ls)
            top == ls[L]
            a == cfg.arities[skip + L]
            padded == PadTo(top, a)
            parents == Parents(cfg, padded, a, skip + L)
            low == [ls EXCEPT ![L] = padded]
            new == Append(low, parents)
            U == T \cup ParentSet(cfg, padded, a, skip + L)
<1>1. GrowLevel(cfg, ls, skip + L) = new
  BY DEF GrowLevel
<1>2. L \in Nat \ {0} /\ ls \in Seq(Seq(T)) /\ top \in Seq(T) /\ top # << >>
  BY DEF Shape
<1>3. a \in Nat \ {0}
  BY <1>2 DEF WellFormed
<1>. HIDE DEF top, a, L
<1>4. padded \in Seq(T) /\ Len(padded) >= Len(top) /\ Whole(padded, a)
  BY <1>2, <1>3, PadToIs
<1>5. /\ parents \in Seq(ParentSet(cfg, padded, a, skip + L))
      /\ Len(parents) = Len(padded) \div a
  <2>. HIDE DEF padded
  <2>1. Len(padded) \div a \in Nat
    BY <1>4 DEF Whole
  <2>. QED BY <2>1, ParentsAre
<1>. HIDE DEF padded, parents
<1>6. padded \in Seq(U) /\ parents \in Seq(U) /\ T \subseteq U
  BY <1>4, <1>5
<1>. HIDE DEF U
<1>7. /\ low \in Seq(Seq(U)) /\ Len(low) = L /\ low[L] = padded
      /\ \A j \in 1 .. L - 1 : low[j] = ls[j]
  BY <1>2, <1>6 DEF L
<1>. HIDE DEF low
<1>8. /\ new \in Seq(Seq(U)) /\ Len(new) = L + 1 /\ new[L + 1] = parents /\ new[L] = padded
      /\ \A j \in 1 .. L - 1 : new[j] = ls[j]
  BY <1>2, <1>6, <1>7
<1>. HIDE DEF new
<1>14. /\ L \in Nat \ {0} /\ Len(new) = L + 1 /\ new[L] = padded
       /\ \A j \in 1 .. L - 1 : new[j] = ls[j]
  BY <1>2, <1>8
<1>9. skip + Len(new) <= Len(cfg.arities) + 1
  BY <1>8, <1>2 DEF L, WellFormed
<1>10. \A j \in 1 .. Len(new) : new[j] # << >>
  <2>1. padded # << >> /\ parents # << >>
    BY <1>2, <1>4, <1>5 DEF Whole
  <2>2. \A j \in 1 .. L : ls[j] # << >>
    BY DEF Shape, L
  <2>3. ASSUME NEW j \in 1 .. L + 1 PROVE new[j] # << >>
    <3>1. CASE j \in 1 .. L - 1
      <4>1. new[j] = ls[j] /\ j \in 1 .. L
        BY <3>1, <1>14
      <4>. QED BY <4>1, <2>2
    <3>2. CASE j = L \/ j = L + 1
      BY <3>2, <1>8, <2>1
    <3>. QED BY <3>1, <3>2, <1>2
  <2>. QED BY <1>8, <2>3
<1>11. Extends(base, new[1])
  <2>1. CASE L = 1
    <3>1. Extends(base, top)
      BY <2>1 DEF Shape, top
    <3>2. Extends(base, padded)
      BY <3>1, <1>2, <1>3, ExtendsPadded DEF padded
    <3>. QED BY <1>8, <2>1, <3>2
  <2>2. CASE L # 1
    BY <1>2, <1>8, <2>2 DEF Shape
  <2>. QED BY <2>1, <2>2
<1>12. ASSUME NEW j \in 1 .. Len(new) - 1
       PROVE  /\ Whole(new[j], ArityAt(cfg, skip, j))
              /\ Extends(Parents(cfg, new[j], ArityAt(cfg, skip, j), skip + j), new[j + 1])
  <2>1. CASE j = L
    <3>1. ArityAt(cfg, skip, j) = a
      BY <2>1 DEF ArityAt, a
    <3>2. Extends(parents, parents)
      BY <1>6 DEF Extends
    <3>3. new[j] = padded /\ new[j + 1] = parents
      BY <1>8, <2>1
    <3>4. Parents(cfg, new[j], ArityAt(cfg, skip, j), skip + j) = parents
      BY <2>1, <3>1, <3>3 DEF parents
    <3>5. Extends(Parents(cfg, new[j], ArityAt(cfg, skip, j), skip + j), new[j + 1])
      BY <3>2, <3>3, <3>4
    <3>. QED BY <1>4, <3>1, <3>3, <3>5
  <2>2. CASE j = L - 1
    <3>1. j \in 1 .. L - 1 /\ j + 1 = L /\ new[j] = ls[j] /\ new[j + 1] = padded
      BY <1>14, <2>2
    <3>. DEFINE P == Parents(cfg, ls[j], ArityAt(cfg, skip, j), skip + j)
                V == ParentSet(cfg, ls[j], ArityAt(cfg, skip, j), skip + j)
    <3>2. /\ Whole(ls[j], ArityAt(cfg, skip, j))
          /\ Extends(P, top)
      BY <3>1 DEF Shape, top, L
    <3>3. P \in Seq(V) /\ Len(P) = Len(ls[j]) \div ArityAt(cfg, skip, j)
      <4>1. Len(ls[j]) \div ArityAt(cfg, skip, j) \in Nat
        BY <3>2 DEF Whole
      <4>. QED BY <4>1, ParentsAre
    <3>. HIDE DEF P, V
    <3>4. P # << >>
      BY <3>2, <3>3 DEF Whole
    <3>5. Extends(P, padded)
      BY <3>2, <3>3, <3>4, <1>2, <1>3, ExtendsPadded DEF padded
    <3>. QED BY <3>1, <3>2, <3>5 DEF P
  <2>3. CASE j < L - 1
    <3>1. j \in 1 .. L - 1 /\ j + 1 \in 1 .. L - 1 /\ new[j] = ls[j] /\ new[j + 1] = ls[j + 1]
      BY <1>14, <2>3
    <3>. QED BY <3>1 DEF Shape, L
  <2>. QED BY <1>2, <1>8, <2>1, <2>2, <2>3
<1>13. Shape(cfg, skip, base, new, U)
  BY <1>2, <1>8, <1>9, <1>10, <1>11, <1>12 DEF Shape
<1>. QED
  BY <1>1, <1>8, <1>13 DEF L

\* After k passes the tree is finished or has k levels above its base.
LEMMA UpHasShape ==
    ASSUME NEW cfg, WellFormed(cfg), NEW skip \in Nat, NEW B, NEW base \in Seq(B), base # << >>,
           skip <= Len(cfg.arities), NEW f, IsUp(f, cfg, <<base>>, skip),
           NEW k \in 0 .. Len(cfg.arities) - skip
    PROVE  /\ \E T : Shape(cfg, skip, base, f[k], T)
           /\ Len(f[k][Len(f[k])]) = 1 \/ Len(f[k]) = k + 1
<1>. DEFINE N == Len(cfg.arities) - skip
            Good(ls, m) == /\ \E T : Shape(cfg, skip, base, ls, T)
                           /\ Len(ls[Len(ls)]) = 1 \/ Len(ls) = m + 1
            S == {m \in Nat : m <= N => Good(f[m], m)}
<1>1. N \in Nat /\ Len(cfg.arities) \in Nat
  BY DEF WellFormed
<1>2. f[0] = <<base>> /\ \A m \in 1..N : f[m] = GrowLevel(cfg, f[m - 1], skip + m)
  <2>. DEFINE body(m) == IF m = 0 THEN <<base>> ELSE GrowLevel(cfg, f[m - 1], skip + m)
  <2>1. f = [m \in 0..N |-> body(m)]
    BY DEF IsUp
  <2>. HIDE DEF N
  <2>2. \A m \in 0..N : f[m] = body(m)
    <3>. HIDE DEF body
    <3>. QED BY <2>1
  <2>. QED BY <2>2, <1>1
<1>3. 0 \in S
  <2>1. Extends(base, base)
    BY DEF Extends
  <2>2. <<base>> \in Seq(Seq(B)) /\ Len(<<base>>) = 1 /\ <<base>>[1] = base
    OBVIOUS
  <2>3. Shape(cfg, skip, base, <<base>>, B)
    BY <2>1, <2>2, <1>1 DEF Shape
  <2>. QED BY <2>2, <2>3, <1>2
<1>4. ASSUME NEW m \in Nat, m \in S PROVE m + 1 \in S
  <2>. SUFFICES ASSUME m + 1 <= N PROVE Good(f[m + 1], m + 1)
    BY <1>4
  <2>1. Good(f[m], m)
    BY <1>4, <1>1
  <2>2. f[m + 1] = GrowLevel(cfg, f[m], skip + (m + 1))
    <3>1. m + 1 \in 1..N /\ (m + 1) - 1 = m
      BY <1>1
    <3>. QED BY <3>1, <1>2
  <2>. DEFINE ls == f[m]
  <2>3. CASE Len(ls[Len(ls)]) = 1
    <3>1. GrowLevel(cfg, ls, skip + (m + 1)) = ls
      BY <2>3 DEF GrowLevel
    <3>. QED BY <2>1, <2>2, <2>3, <3>1
  <2>4. CASE Len(ls[Len(ls)]) # 1
    <3>1. Len(ls) = m + 1
      BY <2>1, <2>4
    <3>2. PICK T : Shape(cfg, skip, base, ls, T)
      BY <2>1
    <3>3. skip + Len(ls) <= Len(cfg.arities)
      BY <3>1, <1>1
    <3>. HIDE DEF ls
    <3>4. \E U : /\ Shape(cfg, skip, base, GrowLevel(cfg, ls, skip + Len(ls)), U)
                 /\ Len(GrowLevel(cfg, ls, skip + Len(ls))) = Len(ls) + 1
      BY <3>2, <3>3, <2>4, GrowKeepsShape
    <3>5. f[m + 1] = GrowLevel(cfg, ls, skip + Len(ls)) /\ Len(f[m + 1]) = m + 2
      BY <2>2, <3>1, <3>4 DEF ls
    <3>. QED BY <3>4, <3>5
  <2>. QED BY <2>3, <2>4
<1>5. Nat \subseteq S
  <2>. HIDE DEF S
  <2>. QED BY <1>3, <1>4, Induct
<1>6. k \in S /\ k <= N
  BY <1>5, <1>1
<1>. QED
  BY <1>6

\* A tree that finalize returns has that shape and one root.
LEMMA FinalizeHasShape ==
    ASSUME NEW cfg, WellFormed(cfg), NEW skip \in Nat, NEW B, NEW base \in Seq(B), base # << >>,
           skip <= Len(cfg.arities)
    PROVE  finalize(cfg, <<base>>, skip) # Panic =>
             /\ \E T : Shape(cfg, skip, base, finalize(cfg, <<base>>, skip), T)
             /\ Len(finalize(cfg, <<base>>, skip)[Len(finalize(cfg, <<base>>, skip))]) = 1
<1>. DEFINE N == Len(cfg.arities) - skip
            up == CHOOSE f : IsUp(f, cfg, <<base>>, skip)
            done == up[N]
<1>1. N \in Nat /\ N \in 0..N
  BY DEF WellFormed
<1>2. IsUp(up, cfg, <<base>>, skip)
  <2>1. skip \in Int
    OBVIOUS
  <2>2. \E f : IsUp(f, cfg, <<base>>, skip)
    BY <1>1, <2>1, UpExists, Zenon
  <2>. QED BY <2>2, Zenon
<1>3. finalize(cfg, <<base>>, skip) = IF Len(done[Len(done)]) = 1 THEN done ELSE Panic
  BY DEF finalize, IsUp
<1>. HIDE DEF up
<1>4. \E T : Shape(cfg, skip, base, done, T)
  BY <1>1, <1>2, UpHasShape
<1>. HIDE DEF done
<1>. QED
  BY <1>3, <1>4

----------------------------------------------------------------------------
(* The configurations. *)

IsDepth(f, leaves, arity) ==
    f = [cur \in 0..leaves |-> IF cur > arity THEN 1 + f[(cur + arity - 1) \div arity] ELSE 1]

\* The number of nodes falls from a level to the next.
LEMMA Shrinks ==
    ASSUME NEW n \in Nat, NEW a \in Nat \ {0, 1}, n > a
    PROVE  (n + a - 1) \div a \in 1 .. n - 1
<1>. DEFINE q == (n + a - 1) \div a
            r == (n + a - 1) % a
<1>1. q \in Int /\ r \in 0 .. a - 1 /\ n + a - 1 = a * q + r
  OBVIOUS
<1>. HIDE DEF q, r
<1>2. q >= 1
  <2>. SUFFICES ASSUME q <= 0 PROVE FALSE
    BY <1>1
  <2>1. a * q <= 0
    BY <1>1
  <2>. QED BY <1>1, <2>1
<1>3. q < n
  <2>. SUFFICES ASSUME q >= n PROVE FALSE
    BY <1>1
  <2>1. a * q >= a * n
    BY <1>1
  <2>2. a * n = n + (a - 1) * n
    OBVIOUS
  <2>3. (a - 1) * n >= a - 1 /\ (a - 1) * n \in Int
    <3>. DEFINE b == a - 1
                m == n - 1
    <3>1. b \in Nat /\ m \in Nat /\ b * n = b + b * m /\ b * m >= 0
      OBVIOUS
    <3>. QED BY <3>1
  <2>4. (a - 1) * n > a - 1
    <3>. DEFINE b == a - 1
                m == n - 2
    <3>1. b \in Nat \ {0} /\ m \in Nat /\ b * n = b + b + b * m /\ b * m >= 0
      OBVIOUS
    <3>. QED BY <3>1
  <2>. QED BY <1>1, <2>1, <2>2, <2>4
<1>. QED
  BY <1>1, <1>2, <1>3 DEF q

\* The recursion of merkle_depth has a solution.
LEMMA DepthExists ==
    ASSUME NEW leaves \in Nat, NEW a \in Nat \ {0, 1}
    PROVE  \E f : IsDepth(f, leaves, a) /\ \A c \in 0..leaves : f[c] \in Nat \ {0}
<1>. DEFINE Partial(g, n) == IsDepth(g, n, a) /\ \A c \in 0..n : g[c] \in Nat \ {0}
            S == {n \in Nat : \E g : Partial(g, n)}
<1>1. 0 \in S
  <2>. DEFINE g == [c \in 0..0 |-> 1]
  <2>1. Partial(g, 0)
    BY DEF IsDepth
  <2>. QED BY <2>1
<1>2. ASSUME NEW n \in Nat, n \in S PROVE n + 1 \in S
  <2>1. PICK g : Partial(g, n)
    BY <1>2
  <2>. DEFINE v == IF n + 1 > a THEN 1 + g[((n + 1) + a - 1) \div a] ELSE 1
              h == [c \in 0 .. n + 1 |-> IF c = n + 1 THEN v ELSE g[c]]
              rec(c) == (c + a - 1) \div a
  <2>2. v \in Nat \ {0}
    <3>1. CASE n + 1 > a
      <4>1. ((n + 1) + a - 1) \div a \in 1 .. n
        <5>1. n + 1 \in Nat
          OBVIOUS
        <5>. QED BY <5>1, <3>1, Shrinks
      <4>. QED BY <4>1, <3>1, <2>1
    <3>2. CASE ~ (n + 1 > a)
      BY <3>2
    <3>. QED BY <3>1, <3>2
  <2>3. \A c \in 0 .. n + 1 : h[c] \in Nat \ {0}
    BY <2>1, <2>2
  <2>4. ASSUME NEW c \in 0 .. n + 1 PROVE h[c] = IF c > a THEN 1 + h[rec(c)] ELSE 1
    <3>1. c > a => rec(c) \in 1 .. c - 1
      BY Shrinks
    <3>. HIDE DEF rec
    <3>2. c > a => h[rec(c)] = g[rec(c)]
      BY <3>1
    <3>3. CASE c = n + 1
      BY <3>2, <3>3 DEF rec
    <3>4. CASE c # n + 1
      <4>1. h[c] = g[c] /\ c \in 0..n
        BY <3>4
      <4>2. g[c] = IF c > a THEN 1 + g[rec(c)] ELSE 1
        BY <4>1, <2>1 DEF IsDepth, rec
      <4>. QED BY <4>1, <4>2, <3>2
    <3>. QED BY <3>3, <3>4
  <2>5. DOMAIN h = 0 .. n + 1 /\ h = [c \in DOMAIN h |-> h[c]]
    OBVIOUS
  <2>6. \E f : Partial(f, n + 1)
    <3>. HIDE DEF h
    <3>1. IsDepth(h, n + 1, a)
      BY <2>4, <2>5 DEF IsDepth
    <3>. QED BY <3>1, <2>3
  <2>. QED BY <2>6
<1>3. Nat \subseteq S
  <2>. HIDE DEF S
  <2>. QED BY <1>1, <1>2, Induct
<1>. QED
  BY <1>3

\* merkle_depth is the value of that solution.
LEMMA DepthRecursion ==
    ASSUME NEW leaves \in Nat, NEW a \in Nat \ {0, 1}
    PROVE  \E f : /\ IsDepth(f, leaves, a) /\ merkle_depth(leaves, a) = f[leaves]
                  /\ \A c \in 0..leaves : f[c] \in Nat \ {0}
<1>. DEFINE f == CHOOSE f : IsDepth(f, leaves, a)
            S == {c \in Nat : c <= leaves => f[c] \in Nat \ {0}}
<1>1. IsDepth(f, leaves, a)
  <2>1. \E g : IsDepth(g, leaves, a)
    BY DepthExists
  <2>. QED BY <2>1, Zenon
<1>2. merkle_depth(leaves, a) = f[leaves]
  BY DEF merkle_depth, IsDepth
<1>. HIDE DEF f
<1>3. ASSUME NEW n \in Nat, \A m \in 0 .. n - 1 : m \in S PROVE n \in S
  <2>. SUFFICES ASSUME n <= leaves PROVE f[n] \in Nat \ {0}
    OBVIOUS
  <2>0. n \in 0..leaves
    OBVIOUS
  <2>1. f[n] = IF n > a THEN 1 + f[(n + a - 1) \div a] ELSE 1
    <3>. DEFINE body(c) == IF c > a THEN 1 + f[(c + a - 1) \div a] ELSE 1
    <3>1. f = [c \in 0..leaves |-> body(c)]
      BY <1>1 DEF IsDepth
    <3>2. f[n] = body(n)
      <4>. HIDE DEF body
      <4>. QED BY <2>0, <3>1
    <3>. QED BY <3>2
  <2>2. CASE n > a
    <3>1. (n + a - 1) \div a \in 1 .. n - 1
      BY <2>2, Shrinks
    <3>2. f[(n + a - 1) \div a] \in Nat \ {0}
      BY <3>1, <1>3
    <3>. QED BY <2>1, <2>2, <3>2
  <2>. QED BY <2>1, <2>2
<1>4. Nat \subseteq S
  <2>. HIDE DEF S
  <2>. QED BY <1>3, StrongInduct
<1>5. \A c \in 0..leaves : f[c] \in Nat \ {0}
  BY <1>4
<1>. QED
  BY <1>1, <1>2, <1>5

\* The arity a configuration uses is at least 2.
LEMMA ArityPicked ==
    ASSUME NEW n \in Nat, NEW m \in Nat
    PROVE  Max({pick_arity_for_layer(n, m), 2}) \in Nat \ {0, 1}
<1>. DEFINE fits == {a \in {128, 64, 32, 16, 8, 4} : m >= a /\ n % a = 0}
<1>1. fits # {} => Max(fits) \in Nat
  <2>. SUFFICES ASSUME fits # {} PROVE Max(fits) \in Nat
    OBVIOUS
  <2>1. \E x \in fits : \A y \in fits : x >= y
    OBVIOUS
  <2>. HIDE DEF fits
  <2>2. Max(fits) \in fits
    BY <2>1 DEF Max
  <2>. QED BY <2>2 DEF fits
<1>2. pick_arity_for_layer(n, m) \in Nat
  BY <1>1 DEF pick_arity_for_layer
<1>. DEFINE p == pick_arity_for_layer(n, m)
<1>. HIDE DEF p
<1>3. \E x \in {p, 2} : \A y \in {p, 2} : x >= y
  BY <1>2 DEF p
<1>4. Max({p, 2}) \in {p, 2} /\ \A y \in {p, 2} : Max({p, 2}) >= y
  BY <1>3 DEF Max
<1>5. Max({p, 2}) \in Nat \ {0, 1}
  BY <1>2, <1>4 DEF p
<1>. QED
  BY <1>5 DEF p

\* The configurations of the FRI code have arities of at least 2.
LEMMA TreeConfigWellFormed ==
    ASSUME NEW n \in Nat, NEW m \in Nat, NEW label
    PROVE  WellFormed(tree_config(n, m, label))
<1>. DEFINE a == Max({pick_arity_for_layer(n, m), 2})
            d == merkle_depth(n, a)
<1>1. a \in Nat \ {0, 1}
  BY ArityPicked
<1>2. tree_config(n, m, label).arities = [i \in 1..d |-> a] \o << >>
  BY DEF tree_config
<1>. HIDE DEF a
<1>3. d \in Nat
  BY <1>1, DepthRecursion
<1>. HIDE DEF d
<1>4. [i \in 1..d |-> a] \in Seq(Nat \ {0, 1})
  BY <1>1, <1>3
<1>. QED
  BY <1>2, <1>4 DEF WellFormed

----------------------------------------------------------------------------
(* The levels that are needed. *)

\* Padding and dividing is dividing and rounding up, as merkle_depth counts.
LEMMA RoundedUp ==
    ASSUME NEW n \in Nat \ {0}, NEW a \in Nat \ {0}
    PROVE  /\ (n + ((-n) % a)) \div a = (n + a - 1) \div a
           /\ (n + a - 1) \div a \in Nat \ {0}
           /\ a * (((n + a - 1) \div a) - 1) < n
           /\ n <= a => (n + a - 1) \div a = 1
<1>. DEFINE r == (-n) % a
            q == (n + r) \div a
            s == (n + a - 1) % a
            p == (n + a - 1) \div a
<1>1. r \in 0 .. a - 1 /\ n + r = a * q /\ q \in Nat \ {0}
  <2>1. n \in Nat /\ n > 0
    OBVIOUS
  <2>. QED BY <2>1, PadRoundsUp, Zenon
<1>2. p \in Int /\ s \in 0 .. a - 1 /\ n + a - 1 = a * p + s
  OBVIOUS
<1>. HIDE DEF r, q, s, p
<1>3. p = q
  <2>1. ~ (p >= q + 1)
    <3>. SUFFICES ASSUME p >= q + 1 PROVE FALSE
      OBVIOUS
    <3>1. a * (p - q - 1) >= 0 /\ a * (p - q - 1) = a * p - a * q - a
      BY <1>1, <1>2
    <3>. QED BY <1>1, <1>2, <3>1
  <2>2. ~ (p <= q - 1)
    <3>. SUFFICES ASSUME p <= q - 1 PROVE FALSE
      OBVIOUS
    <3>1. a * (q - 1 - p) >= 0 /\ a * (q - 1 - p) = a * q - a - a * p
      BY <1>1, <1>2
    <3>. QED BY <1>1, <1>2, <3>1
  <2>. QED BY <1>1, <1>2, <2>1, <2>2
<1>4. a * (p - 1) < n
  <2>1. a * (p - 1) = a * p - a
    BY <1>2
  <2>. QED BY <1>2, <2>1
<1>5. n <= a => p = 1
  <2>. SUFFICES ASSUME n <= a, p >= 2 PROVE FALSE
    BY <1>1, <1>2, <1>3
  <2>1. a * (p - 2) >= 0 /\ a * (p - 2) = a * p - a - a
    BY <1>2
  <2>. QED BY <1>2, <2>1
<1>. QED
  BY <1>1, <1>3, <1>4, <1>5 DEF p, q, r

Top(ls) == ls[Len(ls)]
NextCount(c, a) == IF c = 1 THEN 1 ELSE (c + a - 1) \div a

\* How many nodes a pass leaves at the top.
LEMMA GrowCount ==
    ASSUME NEW cfg, WellFormed(cfg), NEW skip \in Nat, NEW base, NEW ls, NEW T, Shape(cfg, skip, base, ls, T),
           NEW level \in 1 .. Len(cfg.arities)
    PROVE  /\ Len(Top(ls)) \in Nat \ {0}
           /\ Len(Top(GrowLevel(cfg, ls, level))) = NextCount(Len(Top(ls)), cfg.arities[level])
<1>. DEFINE L == Len(ls)
            top == ls[L]
            a == cfg.arities[level]
            padded == PadTo(top, a)
            parents == Parents(cfg, padded, a, level)
            low == [ls EXCEPT ![L] = padded]
<1>1. L \in Nat \ {0} /\ ls \in Seq(Seq(T)) /\ top \in Seq(T) /\ top # << >> /\ a \in Nat \ {0}
  BY DEF Shape, WellFormed
<1>2. Len(top) \in Nat \ {0}
  BY <1>1
<1>3. CASE Len(top) = 1
  BY <1>2, <1>3 DEF GrowLevel, NextCount, Top
<1>4. CASE Len(top) # 1
  <2>1. GrowLevel(cfg, ls, level) = Append(low, parents)
    BY <1>4 DEF GrowLevel
  <2>2. padded \in Seq(T) /\ Len(padded) = Len(top) + ((-Len(top)) % a)
    <3>. DEFINE last == top[Len(top)]
                pad == (-Len(top)) % a
    <3>. HIDE DEF top, a
    <3>1. pad \in Nat /\ last \in T
      BY <1>1, <1>2
    <3>2. padded = top \o Repeat(last, pad)
      BY DEF PadTo
    <3>. HIDE DEF pad, last
    <3>3. Repeat(last, pad) \in Seq(T) /\ Len(Repeat(last, pad)) = pad
      BY <3>1 DEF Repeat
    <3>. HIDE DEF padded
    <3>4. padded \in Seq(T) /\ Len(padded) = Len(top) + pad
      BY <1>1, <3>2, <3>3, Joined
    <3>. QED BY <3>4 DEF pad
  <2>. HIDE DEF top, a, padded
  <2>3. (Len(top) + ((-Len(top)) % a)) \div a = (Len(top) + a - 1) \div a /\ (Len(top) + a - 1) \div a \in Nat
    <3>. DEFINE n == Len(top)
    <3>1. n \in Nat \ {0} /\ a \in Nat \ {0}
      BY <1>1, <1>2
    <3>. HIDE DEF n
    <3>2. (n + ((-n) % a)) \div a = (n + a - 1) \div a /\ (n + a - 1) \div a \in Nat
      BY <3>1, RoundedUp
    <3>. QED BY <3>2 DEF n
  <2>4. Len(padded) \div a \in Nat
    BY <2>2, <2>3
  <2>5. parents \in Seq(ParentSet(cfg, padded, a, level)) /\ Len(parents) = (Len(top) + a - 1) \div a
    <3>1. Len(parents) = Len(padded) \div a /\ parents \in Seq(ParentSet(cfg, padded, a, level))
      BY <2>4, ParentsAre
    <3>. QED BY <3>1, <2>2, <2>3
  <2>. HIDE DEF parents
  <2>6. low \in Seq(Seq(T)) /\ Len(low) = L
    BY <1>1, <2>2
  <2>. DEFINE U == T \cup ParentSet(cfg, padded, a, level)
  <2>7. low \in Seq(Seq(U)) /\ parents \in Seq(U)
    BY <2>5, <2>6
  <2>. HIDE DEF low, U, L
  <2>8. Len(Append(low, parents)) = L + 1 /\ Append(low, parents)[L + 1] = parents
    BY <2>6, <2>7
  <2>. QED BY <1>2, <1>4, <2>1, <2>5, <2>8 DEF Top, NextCount, top, a, L
<1>. QED
  BY <1>3, <1>4

\* The number of nodes of the top level after each pass.
Counted(f, cfg, base, skip) ==
    /\ Len(Top(f[0])) = Len(base)
    /\ \A k \in 0 .. Len(cfg.arities) - skip : Len(Top(f[k])) \in Nat \ {0}
    /\ \A k \in 1 .. Len(cfg.arities) - skip :
         Len(Top(f[k])) = NextCount(Len(Top(f[k - 1])), cfg.arities[skip + k])

\* That count follows NextCount.
LEMMA UpCounts ==
    ASSUME NEW cfg, WellFormed(cfg), NEW skip \in Nat, NEW B, NEW base \in Seq(B), base # << >>,
           skip <= Len(cfg.arities), NEW f, IsUp(f, cfg, <<base>>, skip)
    PROVE  Counted(f, cfg, base, skip)
<1>. DEFINE N == Len(cfg.arities) - skip
<1>1. N \in Nat /\ Len(cfg.arities) \in Nat
  BY DEF WellFormed
<1>2. f[0] = <<base>> /\ \A m \in 1..N : f[m] = GrowLevel(cfg, f[m - 1], skip + m)
  <2>. DEFINE body(m) == IF m = 0 THEN <<base>> ELSE GrowLevel(cfg, f[m - 1], skip + m)
  <2>1. f = [m \in 0..N |-> body(m)]
    BY DEF IsUp
  <2>. HIDE DEF N
  <2>2. \A m \in 0..N : f[m] = body(m)
    <3>. HIDE DEF body
    <3>. QED BY <2>1
  <2>. QED BY <2>2, <1>1
<1>3. Len(Top(f[0])) = Len(base)
  BY <1>2 DEF Top
<1>4. ASSUME NEW k \in 1..N
      PROVE  Len(Top(f[k])) = NextCount(Len(Top(f[k - 1])), cfg.arities[skip + k])
  <2>1. skip + k \in 1 .. Len(cfg.arities) /\ k - 1 \in 0..N
    BY <1>1
  <2>2. PICK T : Shape(cfg, skip, base, f[k - 1], T)
    BY <2>1, UpHasShape
  <2>3. Len(Top(GrowLevel(cfg, f[k - 1], skip + k))) = NextCount(Len(Top(f[k - 1])), cfg.arities[skip + k])
    BY <2>1, <2>2, GrowCount
  <2>. QED BY <1>2, <2>3
<1>5. ASSUME NEW k \in 0..N PROVE Len(Top(f[k])) \in Nat \ {0}
  <2>1. PICK T : Shape(cfg, skip, base, f[k], T)
    BY UpHasShape
  <2>. DEFINE ls == f[k]
  <2>. HIDE DEF ls
  <2>2. ls \in Seq(Seq(T)) /\ Len(ls) >= 1 /\ ls[Len(ls)] # << >>
    BY <2>1 DEF Shape, ls
  <2>3. ls[Len(ls)] \in Seq(T) /\ ls[Len(ls)] # << >>
    BY <2>2
  <2>. QED BY <2>3 DEF Top, ls
<1>. QED
  BY <1>3, <1>4, <1>5 DEF Counted

\* A configuration the FRI code computes has an arity for every level.
LEMMA DepthSuffices ==
    ASSUME NEW n \in Nat \ {0}, NEW m \in Nat, NEW label, NEW B, NEW base \in Seq(B), Len(base) = n
    PROVE  finalize(tree_config(n, m, label), <<base>>, 0) # Panic
<1>. DEFINE cfg == tree_config(n, m, label)
            a == Max({pick_arity_for_layer(n, m), 2})
            d == merkle_depth(n, a)
            N == Len(cfg.arities) - 0
            up == CHOOSE f : IsUp(f, cfg, <<base>>, 0)
            c(k) == Len(Top(up[k]))
<1>1. a \in Nat \ {0, 1}
  BY ArityPicked
<1>2. WellFormed(cfg)
  BY TreeConfigWellFormed
<1>3. cfg.arities = [i \in 1..d |-> a] \o << >>
  BY DEF tree_config
<1>. HIDE DEF a, cfg
<1>4. PICK D : IsDepth(D, n, a) /\ d = D[n] /\ \A i \in 0..n : D[i] \in Nat \ {0}
  BY <1>1, DepthRecursion
<1>5. d \in Nat \ {0}
  BY <1>4
<1>. HIDE DEF d
<1>6. N = d /\ \A i \in 1..d : cfg.arities[i] = a
  <2>. DEFINE g == [i \in 1..d |-> a]
  <2>1. g = [i \in 1..d |-> g[i]] /\ \A i \in 1..d : g[i] = a
    OBVIOUS
  <2>. HIDE DEF g
  <2>2. Len(g) = d /\ g \o << >> = g
    BY <2>1, <1>5, FunctionIsSeq
  <2>. QED BY <1>3, <1>5, <2>1, <2>2 DEF g
<1>7. base # << >> /\ 0 \in Nat /\ 0 \in Int /\ 0 <= Len(cfg.arities) /\ N \in Nat
  BY <1>5, <1>6 DEF WellFormed
<1>8. IsUp(up, cfg, <<base>>, 0)
  <2>1. \E f : IsUp(f, cfg, <<base>>, 0)
    BY <1>7, UpExists, Zenon
  <2>. QED BY <2>1, Zenon
<1>9. finalize(cfg, <<base>>, 0) = IF c(N) = 1 THEN up[N] ELSE Panic
  BY DEF finalize, IsUp, Top
<1>10. up[N] # << >>
  <2>1. N \in 0..N
    BY <1>7
  <2>2. PICK T : Shape(cfg, 0, base, up[N], T)
    BY <1>2, <1>7, <1>8, <2>1, UpHasShape
  <2>. HIDE DEF up
  <2>. QED BY <2>2 DEF Shape
<1>11. /\ c(0) = n /\ \A k \in 0..N : c(k) \in Nat \ {0}
       /\ \A k \in 1..N : c(k) = NextCount(c(k - 1), cfg.arities[0 + k])
  <2>1. Counted(up, cfg, base, 0)
    <3>. HIDE DEF up
    <3>. QED BY <1>2, <1>7, <1>8, UpCounts
  <2>. QED BY <2>1, Zenon DEF Counted
<1>. HIDE DEF up, c, N
<1>12. \A i \in 0..n : D[i] = IF i > a THEN 1 + D[(i + a - 1) \div a] ELSE 1
  <2>. DEFINE body(i) == IF i > a THEN 1 + D[(i + a - 1) \div a] ELSE 1
  <2>1. D = [i \in 0..n |-> body(i)]
    BY <1>4 DEF IsDepth
  <2>2. \A i \in 0..n : D[i] = body(i)
    <3>. HIDE DEF body
    <3>. QED BY <2>1
  <2>. QED BY <2>2
<1>13. c(N) = 1
  <2>. DEFINE S == {k \in Nat : k <= N => c(k) \in 1..n /\ (c(k) = 1 \/ D[c(k)] = d - k)}
  <2>1. 0 \in S
    BY <1>4, <1>5, <1>11
  <2>2. ASSUME NEW k \in Nat, k \in S PROVE k + 1 \in S
    <3>. SUFFICES ASSUME k + 1 <= N
                  PROVE  c(k + 1) \in 1..n /\ (c(k + 1) = 1 \/ D[c(k + 1)] = d - (k + 1))
      OBVIOUS
    <3>1. k + 1 \in 1..N /\ (k + 1) - 1 = k /\ k <= N /\ 0 + (k + 1) = k + 1 /\ k + 1 \in 1..d
      BY <1>6, <1>7
    <3>2. c(k + 1) = NextCount(c(k), a)
      BY <1>6, <1>11, <3>1
    <3>3. c(k) \in 1..n /\ (c(k) = 1 \/ D[c(k)] = d - k)
      BY <2>2, <3>1
    <3>4. CASE c(k) = 1
      BY <3>2, <3>4 DEF NextCount
    <3>5. CASE c(k) # 1 /\ c(k) <= a
      <4>1. (c(k) + a - 1) \div a = 1
        <5>. DEFINE x == c(k)
        <5>1. x \in Nat \ {0} /\ a \in Nat \ {0} /\ x <= a
          BY <1>1, <3>3, <3>5
        <5>. HIDE DEF x
        <5>2. (x + a - 1) \div a = 1
          BY <5>1, RoundedUp, Zenon
        <5>. QED BY <5>2 DEF x
      <4>. QED BY <3>2, <3>5, <4>1 DEF NextCount
    <3>6. CASE c(k) # 1 /\ c(k) > a
      <4>1. (c(k) + a - 1) \div a \in 1 .. c(k) - 1
        BY <1>1, <3>3, <3>6, Shrinks
      <4>2. c(k + 1) = (c(k) + a - 1) \div a
        BY <3>2, <3>6 DEF NextCount
      <4>3. D[c(k)] = 1 + D[c(k + 1)] /\ c(k + 1) \in 0..n /\ c(k + 1) \in 1..n
        BY <1>12, <3>3, <3>6, <4>1, <4>2
      <4>4. D[c(k + 1)] \in Nat
        BY <1>4, <4>3
      <4>. QED BY <1>5, <3>3, <3>6, <4>3, <4>4
    <3>. QED BY <3>3, <3>4, <3>5, <3>6, <1>1
  <2>3. Nat \subseteq S
    <3>. HIDE DEF S
    <3>. QED BY <2>1, <2>2, Induct
  <2>4. c(N) \in 1..n /\ (c(N) = 1 \/ D[c(N)] = d - N)
    BY <2>3, <1>7
  <2>. QED BY <2>4, <1>4, <1>5, <1>6
<1>. QED
  BY <1>9, <1>10, <1>13 DEF Panic, cfg

IsCapacity(f, cfg) ==
    f = [k \in 0 .. Len(cfg.arities) |-> IF k = 0 THEN 1 ELSE f[k - 1] * cfg.arities[k]]

\* The recursion of Capacity has a solution.
LEMMA CapacityExists ==
    ASSUME NEW cfg, WellFormed(cfg)
    PROVE  \E f : IsCapacity(f, cfg)
<1>. DEFINE step(x, k) == x * cfg.arities[k]
            Partial(g, n) == g = [k \in 0..n |-> IF k = 0 THEN 1 ELSE step(g[k - 1], k)]
            S == {n \in Nat : \E g : Partial(g, n)}
<1>0. Len(cfg.arities) \in Nat
  BY DEF WellFormed
<1>1. 0 \in S
  <2>. DEFINE g == [k \in 0..0 |-> 1]
  <2>1. Partial(g, 0)
    OBVIOUS
  <2>. QED BY <2>1
<1>2. ASSUME NEW n \in Nat, n \in S PROVE n + 1 \in S
  <2>1. PICK g : Partial(g, n)
    BY <1>2
  <2>. HIDE DEF step
  <2>. DEFINE h == [k \in 0 .. n + 1 |-> IF k = n + 1 THEN step(g[n], n + 1) ELSE g[k]]
  <2>2. h[0] = 1
    BY <2>1
  <2>3. ASSUME NEW k \in 1 .. n + 1 PROVE h[k] = step(h[k - 1], k)
    <3>1. h[k - 1] = g[k - 1]
      OBVIOUS
    <3>2. CASE k = n + 1
      BY <3>1, <3>2
    <3>3. CASE k # n + 1
      <4>1. h[k] = g[k] /\ k \in 0..n /\ k # 0
        BY <3>3
      <4>. QED BY <4>1, <2>1, <3>1
    <3>. QED BY <3>2, <3>3
  <2>4. DOMAIN h = 0 .. n + 1 /\ h = [k \in DOMAIN h |-> h[k]]
    OBVIOUS
  <2>5. \E f : Partial(f, n + 1)
    <3>. HIDE DEF h
    <3>1. \A k \in 0 .. n + 1 : h[k] = IF k = 0 THEN 1 ELSE step(h[k - 1], k)
      BY <2>2, <2>3
    <3>. QED BY <3>1, <2>4
  <2>. QED BY <2>5
<1>3. Nat \subseteq S
  <2>. HIDE DEF S
  <2>. QED BY <1>1, <1>2, Induct
<1>. QED
  BY <1>0, <1>3 DEF IsCapacity

\* A configuration with room for n leaves has an arity for every level.
LEMMA CapacitySuffices ==
    ASSUME NEW cfg, WellFormed(cfg), NEW n \in Nat \ {0}, n <= Capacity(cfg),
           NEW B, NEW base \in Seq(B), Len(base) = n
    PROVE  finalize(cfg, <<base>>, 0) # Panic
<1>. DEFINE N == Len(cfg.arities) - 0
            up == CHOOSE f : IsUp(f, cfg, <<base>>, 0)
            cap == CHOOSE f : IsCapacity(f, cfg)
            c(k) == Len(Top(up[k]))
<1>1. N \in Nat /\ N = Len(cfg.arities) /\ base # << >> /\ 0 \in Nat /\ 0 \in Int /\ 0 <= Len(cfg.arities)
  BY DEF WellFormed
<1>2. IsUp(up, cfg, <<base>>, 0)
  <2>1. \E f : IsUp(f, cfg, <<base>>, 0)
    BY <1>1, UpExists, Zenon
  <2>. QED BY <2>1, Zenon
<1>3. IsCapacity(cap, cfg)
  BY CapacityExists, Zenon
<1>4. Capacity(cfg) = cap[N]
  BY <1>1 DEF Capacity, IsCapacity
<1>5. finalize(cfg, <<base>>, 0) = IF c(N) = 1 THEN up[N] ELSE Panic
  BY DEF finalize, IsUp, Top
<1>6. up[N] # << >>
  <2>1. N \in 0..N
    BY <1>1
  <2>2. PICK T : Shape(cfg, 0, base, up[N], T)
    BY <1>1, <1>2, <2>1, UpHasShape
  <2>. HIDE DEF up
  <2>. QED BY <2>2 DEF Shape
<1>7. /\ c(0) = n /\ \A k \in 0..N : c(k) \in Nat \ {0}
      /\ \A k \in 1..N : c(k) = NextCount(c(k - 1), cfg.arities[0 + k])
  <2>1. Counted(up, cfg, base, 0)
    <3>. HIDE DEF up
    <3>. QED BY <1>1, <1>2, UpCounts
  <2>. QED BY <2>1, Zenon DEF Counted
<1>. HIDE DEF up, c, cap
<1>8. cap[0] = 1 /\ \A k \in 1..N : cap[k] = cap[k - 1] * cfg.arities[k]
  <2>. DEFINE body(k) == IF k = 0 THEN 1 ELSE cap[k - 1] * cfg.arities[k]
  <2>1. cap = [k \in 0..N |-> body(k)]
    BY <1>1, <1>3 DEF IsCapacity
  <2>. HIDE DEF N
  <2>2. \A k \in 0..N : cap[k] = body(k)
    <3>. HIDE DEF body
    <3>. QED BY <2>1
  <2>. QED BY <2>2, <1>1
<1>9. \A k \in 1..N : cfg.arities[k] \in Nat \ {0}
  BY <1>1 DEF WellFormed
<1>. HIDE DEF N
<1>10. cap[N] \in Nat /\ (c(N) - 1) * cap[N] < n
  <2>. DEFINE S == {k \in Nat : k <= N => cap[k] \in Nat /\ (c(k) - 1) * cap[k] < n}
  <2>1. 0 \in S
    BY <1>7, <1>8
  <2>2. ASSUME NEW k \in Nat, k \in S PROVE k + 1 \in S
    <3>. SUFFICES ASSUME k + 1 <= N PROVE cap[k + 1] \in Nat /\ (c(k + 1) - 1) * cap[k + 1] < n
      OBVIOUS
    <3>. DEFINE a == cfg.arities[k + 1]
                x == c(k)
                y == c(k + 1)
                C == cap[k]
    <3>1. k + 1 \in 1..N /\ (k + 1) - 1 = k /\ k <= N /\ k \in 0..N /\ 0 + (k + 1) = k + 1 /\ k + 1 \in 0..N
      BY <1>1
    <3>2. C \in Nat /\ (x - 1) * C < n
      BY <2>2, <3>1
    <3>3. y = NextCount(x, a) /\ x \in Nat \ {0} /\ y \in Nat \ {0} /\ a \in Nat \ {0}
      BY <3>1, <1>7, <1>9
    <3>4. cap[k + 1] = C * a
      BY <3>1, <1>8
    <3>. HIDE DEF a, x, y, C
    <3>5. a * (y - 1) <= x - 1
      <4>1. CASE x = 1
        BY <3>3, <4>1 DEF NextCount
      <4>2. CASE x # 1
        <5>1. y = (x + a - 1) \div a
          BY <3>3, <4>2 DEF NextCount
        <5>2. a * (((x + a - 1) \div a) - 1) < x
          BY <3>3, RoundedUp, Zenon
        <5>3. a * (y - 1) < x /\ a * (y - 1) \in Int
          BY <5>1, <5>2, <3>3
        <5>. QED BY <5>3, <3>3
      <4>. QED BY <4>1, <4>2
    <3>6. (y - 1) * (C * a) <= (x - 1) * C
      <4>. DEFINE u == a * (y - 1)
      <4>1. u \in Int /\ (y - 1) * (C * a) = u * C
        BY <3>2, <3>3
      <4>2. u <= x - 1
        BY <3>5
      <4>. HIDE DEF u
      <4>3. ((x - 1) - u) * C >= 0 /\ ((x - 1) - u) * C = (x - 1) * C - u * C
        BY <3>2, <3>3, <4>1, <4>2
      <4>4. (x - 1) * C \in Int /\ u * C \in Int
        BY <3>2, <3>3, <4>1
      <4>. QED BY <4>1, <4>3, <4>4
    <3>7. C * a \in Nat /\ (y - 1) * (C * a) \in Int /\ (x - 1) * C \in Int
      BY <3>2, <3>3
    <3>8. C * a \in Nat /\ (y - 1) * (C * a) < n
      BY <3>2, <3>6, <3>7
    <3>. QED BY <3>4, <3>8 DEF y
  <2>3. Nat \subseteq S
    <3>. HIDE DEF S
    <3>. QED BY <2>1, <2>2, Induct
  <2>. QED BY <2>3, <1>1
<1>11. c(N) = 1
  <2>. DEFINE y == c(N)
              C == cap[N]
  <2>1. y \in Nat \ {0} /\ C \in Nat /\ (y - 1) * C < n /\ n <= C
    BY <1>1, <1>4, <1>7, <1>10
  <2>. HIDE DEF y, C
  <2>2. y = 1
    <3>. SUFFICES ASSUME y >= 2 PROVE FALSE
      BY <2>1
    <3>1. (y - 2) * C >= 0 /\ (y - 2) * C = (y - 1) * C - C /\ (y - 1) * C \in Int
      BY <2>1
    <3>. QED BY <2>1, <3>1
  <2>. QED BY <2>2 DEF y
<1>. QED
  BY <1>5, <1>6, <1>11 DEF Panic

----------------------------------------------------------------------------
(* Every node of a tree is a committed leaf or has its children in the tree. *)

Family(nodes, a, i) == SubSeq(nodes, a * (i - 1) + 1, a * i)
IsFamily(F, nodes, a, low) == F \in Seq(Range(nodes)) /\ Len(F) = a /\ \A k \in 1..a : F[k] = nodes[low + k]

\* A family is the a nodes after place a * (i - 1).
LEMMA FamilyIn ==
    ASSUME NEW T, NEW nodes \in Seq(T), NEW a \in Nat \ {0}, Whole(nodes, a),
           NEW i \in 1 .. Len(nodes) \div a
    PROVE  IsFamily(Family(nodes, a, i), nodes, a, a * (i - 1))
<1>. DEFINE q == Len(nodes) \div a
            low == a * (i - 1)
            high == a * i
<1>1. q \in Nat \ {0} /\ Len(nodes) = a * q /\ i \in 1..q /\ Len(nodes) \in Nat
  BY DEF Whole
<1>. HIDE DEF q
<1>2. low \in Nat /\ high = low + a
  BY <1>1
<1>3. high <= Len(nodes)
  <2>1. a * (q - i) \in Nat /\ a * q = a * i + a * (q - i)
    BY <1>1
  <2>. QED BY <1>1, <2>1
<1>. HIDE DEF low, high
<1>4. nodes \in Seq(Range(nodes))
  BY DEF Range
<1>. DEFINE F == SubSeq(nodes, low + 1, high)
<1>5. Len(F) = a /\ \A k \in 1..a : F[k] = nodes[low + k]
  BY <1>1, <1>2, <1>3
<1>6. F \in Seq(Range(nodes))
  BY <1>1, <1>2, <1>3, <1>4
<1>7. Family(nodes, a, i) = F
  BY Zenon DEF Family, low, high
<1>. HIDE DEF F
<1>8. IsFamily(F, nodes, a, low)
  BY <1>5, <1>6, Zenon DEF IsFamily
<1>. QED
  BY <1>7, <1>8, Zenon DEF low

\* What push_leaves returns, leaf by leaf.
LEMMA LeavesPushed ==
    ASSUME NEW cfg, NEW V, NEW values \in Seq(V)
    PROVE  /\ \E B : push_leaves(cfg, values) \in Seq(B)
           /\ Len(push_leaves(cfg, values)) = Len(values)
           /\ \A i \in 1 .. Len(values) : push_leaves(cfg, values)[i] = compress_leaf(cfg, i - 1, values[i])
<1>. DEFINE f == [i \in 1 .. Len(values) |-> compress_leaf(cfg, i - 1, values[i])]
            B == {compress_leaf(cfg, i - 1, values[i]) : i \in 1 .. Len(values)}
<1>1. f \in Seq(B) /\ Len(f) = Len(values)
  OBVIOUS
<1>2. push_leaves(cfg, values) = f \o << >>
  BY DEF push_leaves
<1>3. f \o << >> = f
  BY <1>1
<1>. QED
  BY <1>1, <1>2, <1>3

IsTree(cfg, values, ls) ==
    /\ \E T : Shape(cfg, 0, push_leaves(cfg, values), ls, T)
    /\ Len(ls[Len(ls)]) = 1

IsLeaf(cfg, values, x) == \E i \in 1 .. Len(values) : x = compress_leaf(cfg, i - 1, values[i])
IsInner(cfg, ls, x) ==
    \E a, l, p, ch : l \in 1 .. Len(cfg.arities) /\ ch \in Seq(Nodes(ls)) /\ x = hash(a, l, p, cfg.label, ch)

\* A node of a tree is a committed leaf or has its children in the tree.
LEMMA NodesClosed ==
    ASSUME NEW cfg, WellFormed(cfg), NEW V, NEW values \in Seq(V), values # << >>,
           NEW ls, IsTree(cfg, values, ls), NEW x \in Nodes(ls)
    PROVE  IsLeaf(cfg, values, x) \/ IsInner(cfg, ls, x)
<1>. DEFINE base == push_leaves(cfg, values)
<1>1. PICK T : Shape(cfg, 0, base, ls, T)
  BY DEF IsTree
<1>2. ls \in Seq(Seq(T)) /\ Len(ls) \in Nat \ {0} /\ Len(ls) <= Len(cfg.arities) + 1
  BY <1>1 DEF Shape
<1>3. PICK j \in 1 .. Len(ls) : x \in Range(ls[j])
  BY <1>2 DEF Nodes
<1>4. ls[j] \in Seq(T)
  BY <1>2, <1>3
<1>5. PICK i \in 1 .. Len(ls[j]) : x = ls[j][i]
  BY <1>3, <1>4 DEF Range
<1>6. CASE j = 1
  <2>1. Len(base) = Len(values) /\ \A k \in 1 .. Len(values) : base[k] = compress_leaf(cfg, k - 1, values[k])
    BY LeavesPushed
  <2>. HIDE DEF base
  <2>2. x = base[IF i <= Len(base) THEN i ELSE Len(base)]
    BY <1>1, <1>5, <1>6 DEF Shape, Extends
  <2>3. Len(values) \in Nat \ {0}
    OBVIOUS
  <2>4. \E k \in 1 .. Len(values) : x = base[k]
    <3>1. (IF i <= Len(base) THEN i ELSE Len(base)) \in 1 .. Len(values)
      BY <2>1, <2>3, <1>5, <1>4
    <3>. QED BY <2>2, <3>1
  <2>. QED BY <2>1, <2>4 DEF IsLeaf
<1>7. CASE j # 1
  <2>. DEFINE k == j - 1
              a == ArityAt(cfg, 0, k)
              P == Parents(cfg, ls[k], a, 0 + k)
  <2>1. k \in 1 .. Len(ls) - 1 /\ k \in 1 .. Len(ls) /\ k + 1 = j /\ k \in 1 .. Len(cfg.arities) /\ 0 + k = k
    BY <1>2, <1>3, <1>7 DEF WellFormed
  <2>2. Whole(ls[k], a) /\ Extends(P, ls[j])
    BY <1>1, <2>1 DEF Shape
  <2>3. a \in Nat \ {0} /\ ls[k] \in Seq(T)
    BY <1>2, <2>1 DEF WellFormed, ArityAt
  <2>. HIDE DEF a, k
  <2>4. Len(ls[k]) \div a \in Nat \ {0}
    BY <2>2 DEF Whole
  <2>5. Len(P) = Len(ls[k]) \div a /\ \A m \in 1 .. Len(ls[k]) \div a : P[m] = ParentOf(cfg, ls[k], a, 0 + k, m)
    BY <2>4, ParentsAre
  <2>. HIDE DEF P
  <2>6. PICK m \in 1 .. Len(ls[k]) \div a : x = P[m]
    <3>1. x = P[IF i <= Len(P) THEN i ELSE Len(P)]
      BY <2>2, <1>5 DEF Extends
    <3>2. (IF i <= Len(P) THEN i ELSE Len(P)) \in 1 .. Len(ls[k]) \div a
      BY <2>4, <2>5, <1>5, <1>4
    <3>. QED BY <3>1, <3>2
  <2>. DEFINE ch == SubSeq(ls[k], a * (m - 1) + 1, a * m)
  <2>7. ch \in Seq(Range(ls[k]))
    <3>1. IsFamily(Family(ls[k], a, m), ls[k], a, a * (m - 1))
      BY <2>2, <2>3, FamilyIn
    <3>. QED BY <3>1, Zenon DEF IsFamily, Family
  <2>8. x = hash(a, k, m - 1, cfg.label, ch)
    BY <2>1, <2>5, <2>6 DEF ParentOf, compress_node
  <2>. HIDE DEF ch
  <2>9. Range(ls[k]) \subseteq Nodes(ls)
    BY <2>1, <1>2 DEF Nodes
  <2>10. ch \in Seq(Nodes(ls))
    BY <2>7, <2>9
  <2>. QED BY <2>1, <2>8, <2>10 DEF IsInner
<1>. QED
  BY <1>6, <1>7

\* No hash is the value that stands for a panic.
LEMMA HashNotEmpty ==
    ASSUME NEW a, NEW l, NEW p, NEW t, NEW ch
    PROVE  hash(a, l, p, t, ch) # << >>
<1>1. Len(<<a, l, p, t, ch>>) = 5 /\ Len(<< >>) = 0
  OBVIOUS
<1>. QED
  BY <1>1 DEF hash

\* A step of the verifier that ends in the tree began in it.
LEMMA ClimbStaysInside ==
    ASSUME NEW cfg, WellFormed(cfg), Len(cfg.arities) < LEAF_LEVEL_DS, LEAF_LEVEL_DS \in Nat,
           NEW V, NEW values \in Seq(V), values # << >>, NEW ls, IsTree(cfg, values, ls),
           NEW level \in 1 .. Len(cfg.arities), NEW idx \in Nat, NEW cur, NEW siblings,
           VerifyStep(cfg, level, idx, cur, siblings) \in Nodes(ls)
    PROVE  cur \in Nodes(ls)
<1>. DEFINE a == cfg.arities[level]
            pos == idx % a
            f == [i \in 1..a |-> IF i - 1 = pos THEN cur ELSE siblings[IF i - 1 < pos THEN i ELSE i - 1]]
            x == VerifyStep(cfg, level, idx, cur, siblings)
<1>1. a \in Nat \ {0} /\ pos \in 0 .. a - 1 /\ Len(cfg.arities) \in Nat
  BY DEF WellFormed
<1>2. x = Panic \/ x = hash(a, level, idx \div a, cfg.label, f \o << >>)
  BY DEF VerifyStep, compress_node
<1>3. IsLeaf(cfg, values, x) \/ IsInner(cfg, ls, x)
  BY NodesClosed
<1>. HIDE DEF a, pos, x
<1>4. f \o << >> = f
  <2>1. f = [i \in 1..a |-> f[i]] /\ a \in Nat
    BY <1>1
  <2>. HIDE DEF f
  <2>. QED BY <2>1, FunctionIsSeq
<1>5. f[pos + 1] = cur /\ pos + 1 \in 1..a /\ Len(f) = a
  BY <1>1
<1>. HIDE DEF f
<1>6. x = hash(a, level, idx \div a, cfg.label, f)
  <2>1. x # << >>
    BY <1>3, HashNotEmpty, Zenon DEF IsLeaf, IsInner, compress_leaf
  <2>. QED BY <1>2, <1>4, <2>1 DEF Panic
<1>7. ~ IsLeaf(cfg, values, x)
  BY <1>1, <1>6 DEF IsLeaf, compress_leaf, hash
<1>8. PICK b, l, p, ch : ch \in Seq(Nodes(ls)) /\ x = hash(b, l, p, cfg.label, ch)
  BY <1>3, <1>7 DEF IsInner
<1>9. f = ch
  BY <1>6, <1>8 DEF hash
<1>. QED
  BY <1>5, <1>8, <1>9

\* A leaf hash in the tree is the hash of the value committed at its position.
LEMMA LeafInside ==
    ASSUME NEW cfg, WellFormed(cfg), Len(cfg.arities) < LEAF_LEVEL_DS, LEAF_LEVEL_DS \in Nat,
           NEW V, NEW values \in Seq(V), values # << >>, NEW ls, IsTree(cfg, values, ls),
           NEW index \in Nat, NEW v, compute_leaf_hash(cfg, index, v) \in Nodes(ls)
    PROVE  index < Len(values) /\ v = values[index + 1]
<1>. DEFINE x == compute_leaf_hash(cfg, index, v)
<1>1. x = hash(cfg.arities[1], LEAF_LEVEL_DS, index, cfg.label, <<v>>)
  BY DEF compute_leaf_hash, compress_leaf
<1>2. IsLeaf(cfg, values, x) \/ IsInner(cfg, ls, x)
  BY NodesClosed
<1>. HIDE DEF x
<1>3. ~ IsInner(cfg, ls, x)
  <2>1. Len(cfg.arities) \in Nat
    BY DEF WellFormed
  <2>. QED BY <1>1, <2>1 DEF IsInner, hash
<1>4. PICK i \in 1 .. Len(values) : x = hash(cfg.arities[1], LEAF_LEVEL_DS, i - 1, cfg.label, <<values[i]>>)
  BY <1>2, <1>3 DEF IsLeaf, compress_leaf
<1>5. index = i - 1 /\ v = values[i]
  BY <1>1, <1>4 DEF hash
<1>. QED
  BY <1>5

\* The root is a node of the tree.
LEMMA RootInside ==
    ASSUME NEW cfg, NEW values, NEW ls, IsTree(cfg, values, ls)
    PROVE  root(ls) \in Nodes(ls)
<1>1. PICK T : ls \in Seq(Seq(T)) /\ Len(ls) >= 1
  BY DEF IsTree, Shape
<1>2. Len(ls) \in 1 .. Len(ls) /\ ls[Len(ls)] \in Seq(T) /\ Len(ls[Len(ls)]) = 1
  BY <1>1 DEF IsTree
<1>3. ls[Len(ls)][1] \in Range(ls[Len(ls)])
  BY <1>2 DEF Range
<1>. QED
  BY <1>1, <1>2, <1>3 DEF root, Nodes

----------------------------------------------------------------------------
(* What `open` returns verifies. *)

\* What Siblings returns where the level is whole families.
LEMMA SiblingsAre ==
    ASSUME NEW T, NEW nodes \in Seq(T), NEW a \in Nat \ {0}, Whole(nodes, a), NEW idx \in 0 .. Len(nodes) - 1
    PROVE  /\ idx \div a \in 0 .. (Len(nodes) \div a) - 1
           /\ Len(Siblings(nodes, idx, a)) = a - 1
           /\ \A i \in 1 .. a - 1 : Siblings(nodes, idx, a)[i] =
                nodes[a * (idx \div a) + (IF i - 1 < idx % a THEN i ELSE i + 1)]
<1>. DEFINE p == idx \div a
            r == idx % a
            q == Len(nodes) \div a
            low == a * p
            f == [i \in 1 .. a - 1 |-> NodeOrLast(nodes, low + (IF i - 1 < r THEN i - 1 ELSE i))]
<1>1. p \in Int /\ r \in 0 .. a - 1 /\ idx = a * p + r
  OBVIOUS
<1>2. q \in Nat \ {0} /\ Len(nodes) = a * q
  BY DEF Whole
<1>3. Siblings(nodes, idx, a) = f \o << >>
  BY <1>1 DEF Siblings
<1>. HIDE DEF p, r, q
<1>4. p >= 0
  <2>. SUFFICES ASSUME p <= -1 PROVE FALSE
    BY <1>1
  <2>1. a * (-1 - p) >= 0 /\ a * (-1 - p) = -a - a * p
    BY <1>1
  <2>. QED BY <1>1, <2>1
<1>5. p <= q - 1
  <2>. SUFFICES ASSUME p >= q PROVE FALSE
    BY <1>1, <1>2
  <2>1. a * (p - q) >= 0 /\ a * (p - q) = a * p - a * q
    BY <1>1, <1>2
  <2>. QED BY <1>1, <1>2, <2>1
<1>6. low \in Nat /\ low + a <= Len(nodes)
  <2>1. a * p >= 0 /\ a * p \in Int
    BY <1>1, <1>4
  <2>2. a * (q - 1 - p) >= 0 /\ a * (q - 1 - p) = a * q - a - a * p
    BY <1>1, <1>2, <1>5
  <2>. QED BY <1>2, <2>1, <2>2
<1>. HIDE DEF low
<1>7. ASSUME NEW i \in 1 .. a - 1 PROVE f[i] = nodes[low + (IF i - 1 < r THEN i ELSE i + 1)]
  <2>. DEFINE j == low + (IF i - 1 < r THEN i - 1 ELSE i)
  <2>1. j \in Nat /\ j < Len(nodes) /\ j + 1 = low + (IF i - 1 < r THEN i ELSE i + 1)
    BY <1>1, <1>6
  <2>2. f[i] = NodeOrLast(nodes, j)
    OBVIOUS
  <2>. HIDE DEF j, f
  <2>. QED BY <2>1, <2>2 DEF NodeOrLast
<1>8. f = [i \in 1 .. a - 1 |-> f[i]] /\ a - 1 \in Nat
  OBVIOUS
<1>. HIDE DEF f
<1>9. f \o << >> = f /\ Len(f) = a - 1
  BY <1>8, FunctionIsSeq
<1>. QED
  BY <1>1, <1>3, <1>4, <1>5, <1>7, <1>9, <1>2 DEF p, r, q, low

\* The verifier's step from a node with the siblings opened for it.
FindsParent(cfg, level, a, nodes, idx) ==
    cfg.arities[level] = a => VerifyStep(cfg, level, idx, nodes[idx + 1], Siblings(nodes, idx, a))
                                = ParentOf(cfg, nodes, a, level, (idx \div a) + 1)

\* One step of the verifier with those siblings gives the parent in the tree.
LEMMA StepFindsParent ==
    ASSUME NEW cfg, NEW level, NEW a \in Nat \ {0},
           NEW T, NEW nodes \in Seq(T), Whole(nodes, a), NEW idx \in 0 .. Len(nodes) - 1
    PROVE  FindsParent(cfg, level, a, nodes, idx)
<1>. DEFINE p == idx \div a
            r == idx % a
            sib == Siblings(nodes, idx, a)
            f == [i \in 1..a |-> IF i - 1 = r THEN nodes[idx + 1] ELSE sib[IF i - 1 < r THEN i ELSE i - 1]]
            F == Family(nodes, a, p + 1)
<1>1. p \in Int /\ r \in 0 .. a - 1 /\ idx = a * p + r /\ a * p \in Int
  OBVIOUS
<1>2. /\ p \in 0 .. (Len(nodes) \div a) - 1 /\ Len(sib) = a - 1
      /\ \A i \in 1 .. a - 1 : sib[i] = nodes[a * p + (IF i - 1 < r THEN i ELSE i + 1)]
  BY SiblingsAre
<1>. HIDE DEF sib
<1>3. cfg.arities[level] = a =>
        VerifyStep(cfg, level, idx, nodes[idx + 1], sib) = compress_node(cfg, a, level, p, f \o << >>)
  <2>1. ~ (Len(sib) < a - 1)
    BY <1>2
  <2>. QED BY <2>1, Zenon DEF VerifyStep
<1>. HIDE DEF p, r
<1>4. p + 1 \in 1 .. Len(nodes) \div a /\ (p + 1) - 1 = p
  BY <1>1, <1>2
<1>5. F \in Seq(Range(nodes)) /\ Len(F) = a /\ \A i \in 1..a : F[i] = nodes[a * p + i]
  <2>1. IsFamily(Family(nodes, a, p + 1), nodes, a, a * ((p + 1) - 1))
    <3>. DEFINE m == p + 1
    <3>1. m \in 1 .. Len(nodes) \div a
      BY <1>4
    <3>. HIDE DEF m
    <3>2. IsFamily(Family(nodes, a, m), nodes, a, a * (m - 1))
      BY <3>1, FamilyIn
    <3>. QED BY <3>2, Zenon DEF m
  <2>2. IsFamily(F, nodes, a, a * p)
    BY <1>4, <2>1, Zenon
  <2>. HIDE DEF F
  <2>. QED BY <2>2, Zenon DEF IsFamily
<1>. HIDE DEF F
<1>6. ASSUME NEW i \in 1..a PROVE f[i] = F[i]
  <2>1. CASE i - 1 = r
    <3>1. f[i] = nodes[idx + 1] /\ idx + 1 = a * p + i
      <4>1. idx + 1 = a * p + i
        <5>. DEFINE z == a * p
        <5>1. z \in Int /\ idx = z + r /\ i = r + 1 /\ r \in Int
          BY <1>1, <2>1
        <5>. HIDE DEF z
        <5>2. idx + 1 = z + i
          BY <5>1
        <5>. QED BY <5>2 DEF z
      <4>2. f[i] = nodes[idx + 1]
        BY <2>1
      <4>. QED BY <4>1, <4>2
    <3>. QED BY <3>1, <1>5
  <2>2. CASE i - 1 < r
    <3>1. i \in 1 .. a - 1 /\ f[i] = sib[i]
      BY <1>1, <2>2
    <3>. QED BY <3>1, <1>2, <1>5, <2>2
  <2>3. CASE i - 1 > r
    <3>1. i - 1 \in 1 .. a - 1 /\ f[i] = sib[i - 1] /\ ~ ((i - 1) - 1 < r) /\ (i - 1) + 1 = i
      BY <1>1, <2>3
    <3>2. f[i] = nodes[a * p + i]
      BY <3>1, <1>2
    <3>. QED BY <3>2, <1>5
  <2>. QED BY <1>1, <2>1, <2>2, <2>3
<1>7. f = [i \in 1..a |-> f[i]]
  OBVIOUS
<1>. HIDE DEF f
<1>8. f \o << >> = f /\ f \in Seq({f[i] : i \in 1..a}) /\ Len(f) = a
  BY <1>7, FunctionIsSeq
<1>9. f = F
  BY <1>5, <1>6, <1>8
<1>10. cfg.arities[level] = a => VerifyStep(cfg, level, idx, nodes[idx + 1], Siblings(nodes, idx, a))
                                   = ParentOf(cfg, nodes, a, level, (idx \div a) + 1)
  BY <1>3, <1>4, <1>8, <1>9 DEF ParentOf, Family, sib, p, F
<1>. QED
  BY <1>10, Zenon DEF FindsParent

IsIndex(f, cfg, skip, N, index) ==
    f = [k \in 0..N |-> IF k = 0 THEN index ELSE f[k - 1] \div cfg.arities[skip + k]]

\* The recursion for the position on each level has a solution.
LEMMA IndexExists ==
    ASSUME NEW cfg, NEW skip, NEW N \in Nat, NEW index
    PROVE  \E f : IsIndex(f, cfg, skip, N, index)
<1>. DEFINE S == {n \in Nat : \E g : IsIndex(g, cfg, skip, n, index)}
<1>1. 0 \in S
  <2>. DEFINE g == [k \in 0..0 |-> index]
  <2>1. IsIndex(g, cfg, skip, 0, index)
    BY DEF IsIndex
  <2>. QED BY <2>1
<1>2. ASSUME NEW n \in Nat, n \in S PROVE n + 1 \in S
  <2>1. PICK g : IsIndex(g, cfg, skip, n, index)
    BY <1>2
  <2>. DEFINE step(x, k) == x \div cfg.arities[skip + k]
              h == [k \in 0 .. n + 1 |-> IF k = n + 1 THEN step(g[n], n + 1) ELSE g[k]]
  <2>2. g = [k \in 0..n |-> IF k = 0 THEN index ELSE step(g[k - 1], k)]
    BY <2>1 DEF IsIndex
  <2>. HIDE DEF step
  <2>3. h[0] = index
    BY <2>2
  <2>4. ASSUME NEW k \in 1 .. n + 1 PROVE h[k] = step(h[k - 1], k)
    <3>1. h[k - 1] = g[k - 1]
      OBVIOUS
    <3>2. CASE k = n + 1
      BY <3>1, <3>2
    <3>3. CASE k # n + 1
      <4>1. h[k] = g[k] /\ k \in 0..n /\ k # 0
        BY <3>3
      <4>. QED BY <4>1, <2>2, <3>1
    <3>. QED BY <3>2, <3>3
  <2>5. DOMAIN h = 0 .. n + 1 /\ h = [k \in DOMAIN h |-> h[k]]
    OBVIOUS
  <2>6. \E f : IsIndex(f, cfg, skip, n + 1, index)
    <3>. HIDE DEF h
    <3>1. \A k \in 0 .. n + 1 : h[k] = IF k = 0 THEN index ELSE step(h[k - 1], k)
      BY <2>3, <2>4
    <3>2. h = [k \in 0 .. n + 1 |-> IF k = 0 THEN index ELSE step(h[k - 1], k)]
      BY <3>1, <2>5
    <3>. QED BY <3>2, Zenon DEF IsIndex, step
  <2>. QED BY <2>6
<1>3. Nat \subseteq S
  <2>. HIDE DEF S
  <2>. QED BY <1>1, <1>2, Induct
<1>. QED
  BY <1>3

\* The position of an ancestor is a position of its level, and not of its padding.
LEMMA IndexInside ==
    ASSUME NEW cfg, WellFormed(cfg), NEW skip \in Nat, NEW B, NEW base \in Seq(B), NEW ls, NEW T,
           Shape(cfg, skip, base, ls, T), NEW index \in 0 .. Len(base) - 1,
           NEW f, IsIndex(f, cfg, skip, Len(ls) - 1, index), NEW k \in 0 .. Len(ls) - 1
    PROVE  /\ f[k] \in 0 .. Len(ls[k + 1]) - 1
           /\ k > 0 => /\ f[k] = f[k - 1] \div ArityAt(cfg, skip, k)
                       /\ f[k] \in 0 .. (Len(ls[k]) \div ArityAt(cfg, skip, k)) - 1
<1>. DEFINE L == Len(ls)
            A(m) == ArityAt(cfg, skip, m)
            Good(m) == /\ f[m] \in 0 .. Len(ls[m + 1]) - 1
                       /\ m > 0 => f[m] = f[m - 1] \div A(m) /\ f[m] \in 0 .. (Len(ls[m]) \div A(m)) - 1
            S == {m \in Nat : m <= L - 1 => Good(m)}
<1>1. L \in Nat \ {0} /\ ls \in Seq(Seq(T)) /\ Len(cfg.arities) \in Nat /\ skip + L <= Len(cfg.arities) + 1
  BY DEF Shape, WellFormed
<1>2. f[0] = index /\ \A m \in 1 .. L - 1 : f[m] = f[m - 1] \div A(m)
  <2>. DEFINE body(m) == IF m = 0 THEN index ELSE f[m - 1] \div A(m)
  <2>1. f = [m \in 0 .. L - 1 |-> body(m)]
    BY DEF IsIndex, ArityAt
  <2>2. \A m \in 0 .. L - 1 : f[m] = body(m)
    <3>. HIDE DEF body, L
    <3>. QED BY <2>1
  <2>3. body(0) = index /\ \A m \in 1 .. L - 1 : body(m) = f[m - 1] \div A(m)
    BY <1>1
  <2>. HIDE DEF body, L, A
  <2>. QED BY <2>2, <2>3, <1>1
<1>3. 0 \in S
  <2>1. Len(base) <= Len(ls[1]) /\ ls[1] \in Seq(T)
    BY <1>1 DEF Shape, Extends
  <2>2. Good(0)
    <3>. HIDE DEF A
    <3>. QED BY <1>2, <2>1
  <2>. QED BY <2>2
<1>4. ASSUME NEW m \in Nat, m \in S PROVE m + 1 \in S
  <2>. SUFFICES ASSUME m + 1 <= L - 1 PROVE Good(m + 1)
    OBVIOUS
  <2>. DEFINE j == m + 1
              a == A(j)
              nodes == ls[j]
              P == Parents(cfg, nodes, a, skip + j)
  <2>1. j \in 1 .. L - 1 /\ j - 1 = m /\ j \in 1..L /\ j + 1 \in 1..L
    BY <1>1
  <2>2. a \in Nat \ {0} /\ nodes \in Seq(T) /\ ls[j + 1] \in Seq(T)
    <3>1. skip + j \in 1 .. Len(cfg.arities)
      <4>. DEFINE M == Len(cfg.arities)
      <4>1. L \in Nat \ {0} /\ M \in Nat /\ skip + L <= M + 1
        BY <1>1
      <4>. HIDE DEF M, L, j
      <4>2. skip + j \in 1..M
        BY <4>1, <2>1
      <4>. QED BY <4>2 DEF M
    <3>2. a \in Nat \ {0}
      <4>. HIDE DEF j
      <4>. QED BY <3>1 DEF ArityAt, WellFormed
    <3>3. \A i \in 1..L : ls[i] \in Seq(T)
      BY <1>1
    <3>. HIDE DEF j, L, a
    <3>. QED BY <3>3, <2>1, <3>2
  <2>3. Whole(nodes, a) /\ Extends(P, ls[j + 1])
    BY <2>1 DEF Shape
  <2>4. f[m] \in 0 .. Len(nodes) - 1
    <3>1. Good(m)
      BY <1>4, <1>1
    <3>. QED BY <3>1
  <2>5. f[j] = f[m] \div a
    BY <1>2, <2>1
  <2>. HIDE DEF j, a, nodes
  <2>6. f[m] \div a \in 0 .. (Len(nodes) \div a) - 1
    BY <2>2, <2>3, <2>4, SiblingsAre
  <2>7. Len(nodes) \div a \in Nat
    BY <2>3 DEF Whole
  <2>8. Len(P) = Len(nodes) \div a
    BY <2>7, ParentsAre
  <2>9. Len(P) <= Len(ls[j + 1]) /\ Len(ls[j + 1]) \in Nat
    BY <2>2, <2>3 DEF Extends
  <2>10. f[j] \in 0 .. Len(ls[j + 1]) - 1 /\ f[j] \in 0 .. (Len(nodes) \div a) - 1
    BY <2>5, <2>6, <2>7, <2>8, <2>9
  <2>. QED BY <2>1, <2>5, <2>10 DEF j, a, nodes
<1>5. Nat \subseteq S
  <2>. HIDE DEF S
  <2>. QED BY <1>3, <1>4, Induct
<1>6. k \in S /\ k <= L - 1
  BY <1>1, <1>5
<1>7. Good(k)
  BY <1>6
<1>. QED
  BY <1>7

IsWalk(f, cfg, o) ==
    f = [k \in 0 .. Len(o.path) |->
           IF k = 0 THEN [cur |-> o.leaf, idx |-> o.index]
           ELSE [cur |-> VerifyStep(cfg, k, f[k - 1].idx, f[k - 1].cur, o.path[k]),
                 idx |-> f[k - 1].idx \div cfg.arities[k]]]

\* What open returns walks up the tree to its root.
LEMMA OpenVerifies ==
    ASSUME NEW cfg, WellFormed(cfg), NEW V, NEW values \in Seq(V), NEW ls, IsTree(cfg, values, ls),
           NEW index \in 0 .. Len(values) - 1
    PROVE  /\ verify_opening(cfg, root(ls), open(cfg, ls, index))
           /\ open(cfg, ls, index).leaf = compute_leaf_hash(cfg, index, values[index + 1])
<1>. DEFINE base == push_leaves(cfg, values)
            L == Len(ls)
            A(k) == ArityAt(cfg, 0, k)
            ix == CHOOSE f : IsIndex(f, cfg, 0, L - 1, index)
            g == [k \in 1 .. L - 1 |-> Siblings(ls[k], ix[k - 1], A(k))]
            o == open(cfg, ls, index)
            w == CHOOSE f : IsWalk(f, cfg, o)
<1>1. PICK T : Shape(cfg, 0, base, ls, T)
  BY DEF IsTree
<1>2. L \in Nat \ {0} /\ ls \in Seq(Seq(T)) /\ Len(ls[L]) = 1
  BY <1>1 DEF Shape, IsTree
<1>3. PICK B : base \in Seq(B) /\ Len(base) = Len(values) /\ base[index + 1] = compute_leaf_hash(cfg, index, values[index + 1])
  <2>1. index + 1 \in 1 .. Len(values) /\ (index + 1) - 1 = index
    OBVIOUS
  <2>. QED BY <2>1, LeavesPushed DEF compute_leaf_hash
<1>4. IsIndex(ix, cfg, 0, L - 1, index)
  <2>1. L - 1 \in Nat
    BY <1>2
  <2>2. \E f : IsIndex(f, cfg, 0, L - 1, index)
    BY <2>1, IndexExists
  <2>. QED BY <2>2, Zenon
<1>5. o.path = g \o << >> /\ o.leaf = ls[1][index + 1] /\ o.index = index
  BY DEF open, PathAbove, IsIndex, ArityAt
<1>6. verify_opening(cfg, root(ls), o) <=> w[Len(o.path)].cur = root(ls)
  BY DEF verify_opening, IsWalk
<1>. HIDE DEF base, ix, o, w, A
<1>7. o.path = g /\ Len(o.path) = L - 1
  <2>1. g = [k \in 1 .. L - 1 |-> g[k]] /\ L - 1 \in Nat
    BY <1>2
  <2>. HIDE DEF g
  <2>. QED BY <2>1, <1>5, FunctionIsSeq
<1>8. o.leaf = base[index + 1]
  <2>1. Extends(base, ls[1]) /\ Len(ls[1]) \in Nat
    BY <1>1, <1>2 DEF Shape
  <2>. QED BY <2>1, <1>3, <1>5 DEF Extends
<1>9. ASSUME NEW k \in 0 .. L - 1
      PROVE  /\ ix[k] \in 0 .. Len(ls[k + 1]) - 1
             /\ k > 0 => ix[k] = ix[k - 1] \div A(k) /\ ix[k] \in 0 .. (Len(ls[k]) \div A(k)) - 1
  <2>1. 0 \in Nat /\ index \in 0 .. Len(base) - 1
    BY <1>3
  <2>. QED BY <2>1, <1>1, <1>3, <1>4, IndexInside DEF A
<1>10. ix[0] = index
  <2>1. 0 \in 0 .. L - 1
    BY <1>2
  <2>. QED BY <2>1, <1>4 DEF IsIndex
<1>11. ASSUME NEW k \in 1 .. L - 1
       PROVE  /\ VerifyStep(cfg, k, ix[k - 1], ls[k][ix[k - 1] + 1], o.path[k]) = ls[k + 1][ix[k] + 1]
              /\ ix[k - 1] \div cfg.arities[k] = ix[k]
  <2>. DEFINE a == A(k)
              i == ix[k - 1]
              P == Parents(cfg, ls[k], a, 0 + k)
  <2>1. k \in 1..L /\ k - 1 \in 0 .. L - 1 /\ (k - 1) + 1 = k /\ k \in 0 .. L - 1 /\ k > 0 /\ 0 + k = k
    BY <1>2
  <2>2. cfg.arities[k] = a
    BY <2>1 DEF A, ArityAt
  <2>3. a \in Nat \ {0} /\ ls[k] \in Seq(T)
    <3>1. k \in 1 .. Len(cfg.arities)
      <4>1. L <= Len(cfg.arities) + 1 /\ Len(cfg.arities) \in Nat
        BY <1>1 DEF Shape, WellFormed
      <4>. HIDE DEF L
      <4>. QED BY <4>1, <1>2
    <3>2. \A j \in 1..L : ls[j] \in Seq(T)
      BY <1>2
    <3>. HIDE DEF a, L
    <3>. QED BY <2>1, <2>2, <3>1, <3>2 DEF WellFormed
  <2>4. Whole(ls[k], a) /\ Extends(P, ls[k + 1])
    BY <1>1 DEF Shape, A
  <2>5. i \in 0 .. Len(ls[k]) - 1
    BY <1>9, <2>1
  <2>6. ix[k] = i \div a /\ ix[k] \in 0 .. (Len(ls[k]) \div a) - 1
    BY <1>9, <2>1
  <2>7. o.path[k] = Siblings(ls[k], i, a)
    BY <1>7
  <2>. HIDE DEF a, i, L
  <2>8. VerifyStep(cfg, k, i, ls[k][i + 1], Siblings(ls[k], i, a)) = ParentOf(cfg, ls[k], a, k, (i \div a) + 1)
    <3>1. Whole(ls[k], a)
      BY <2>4
    <3>2. cfg.arities[k] = a => VerifyStep(cfg, k, i, ls[k][i + 1], Siblings(ls[k], i, a))
                                  = ParentOf(cfg, ls[k], a, k, (i \div a) + 1)
      <4>. DEFINE nodes == ls[k]
      <4>1. nodes \in Seq(T) /\ Whole(nodes, a) /\ i \in 0 .. Len(nodes) - 1 /\ a \in Nat \ {0}
        BY <2>3, <2>5, <3>1
      <4>. HIDE DEF nodes
      <4>2. FindsParent(cfg, k, a, nodes, i)
        BY <4>1, StepFindsParent, Zenon
      <4>3. FindsParent(cfg, k, a, ls[k], i)
        BY <4>2, Zenon DEF nodes
      <4>. QED BY <4>3, Zenon DEF FindsParent
    <3>. QED BY <2>2, <3>2, Zenon
  <2>9. Len(ls[k]) \div a \in Nat \ {0}
    BY <2>4 DEF Whole
  <2>10. Len(P) = Len(ls[k]) \div a /\ \A m \in 1 .. Len(ls[k]) \div a : P[m] = ParentOf(cfg, ls[k], a, 0 + k, m)
    BY <2>9, ParentsAre
  <2>. HIDE DEF P
  <2>11. ix[k] + 1 \in 1 .. Len(P) /\ ix[k] + 1 \in 1 .. Len(ls[k]) \div a
    BY <2>6, <2>9, <2>10
  <2>12. ls[k + 1][ix[k] + 1] = P[ix[k] + 1]
    <3>1. Len(P) <= Len(ls[k + 1]) /\ Len(ls[k + 1]) \in Nat
      <4>1. k + 1 \in 1..L /\ \A j \in 1..L : Len(ls[j]) \in Nat
        BY <1>2 DEF L
      <4>. QED BY <4>1, <2>4 DEF Extends
    <3>2. ix[k] + 1 \in 1 .. Len(ls[k + 1]) /\ ix[k] + 1 <= Len(P)
      BY <2>9, <2>10, <2>11, <3>1
    <3>. QED BY <3>2, <2>4 DEF Extends
  <2>13. ls[k + 1][ix[k] + 1] = ParentOf(cfg, ls[k], a, k, ix[k] + 1)
    BY <2>1, <2>10, <2>11, <2>12
  <2>. QED BY <2>2, <2>6, <2>7, <2>8, <2>13 DEF i
<1>. DEFINE At(k) == [cur |-> ls[k + 1][ix[k] + 1], idx |-> ix[k]]
            step(x, k) == [cur |-> VerifyStep(cfg, k, x.idx, x.cur, o.path[k]), idx |-> x.idx \div cfg.arities[k]]
            W == [k \in 0 .. L - 1 |-> At(k)]
<1>12. At(0) = [cur |-> o.leaf, idx |-> o.index]
  BY <1>5, <1>10
<1>13. ASSUME NEW k \in 1 .. L - 1 PROVE At(k) = step(At(k - 1), k)
  <2>1. At(k - 1).cur = ls[k][ix[k - 1] + 1] /\ At(k - 1).idx = ix[k - 1]
    <3>1. (k - 1) + 1 = k
      OBVIOUS
    <3>. QED BY <3>1
  <2>. HIDE DEF L
  <2>2. step(At(k - 1), k) = [cur |-> VerifyStep(cfg, k, ix[k - 1], ls[k][ix[k - 1] + 1], o.path[k]),
                              idx |-> ix[k - 1] \div cfg.arities[k]]
    BY <2>1, Zenon
  <2>. QED BY <2>2, <1>11
<1>14. \A f : IsWalk(f, cfg, o) <=>
                f = [k \in 0 .. L - 1 |-> IF k = 0 THEN [cur |-> o.leaf, idx |-> o.index] ELSE step(f[k - 1], k)]
  BY <1>7, Zenon DEF IsWalk
<1>. HIDE DEF step, L
<1>15. \E f : IsWalk(f, cfg, o)
  <2>. HIDE DEF At
  <2>1. \A k \in 0 .. L - 1 : W[k] = IF k = 0 THEN [cur |-> o.leaf, idx |-> o.index] ELSE step(W[k - 1], k)
    BY <1>2, <1>12, <1>13
  <2>2. DOMAIN W = 0 .. L - 1 /\ W = [k \in DOMAIN W |-> W[k]]
    OBVIOUS
  <2>. HIDE DEF W
  <2>3. W = [k \in 0 .. L - 1 |-> IF k = 0 THEN [cur |-> o.leaf, idx |-> o.index] ELSE step(W[k - 1], k)]
    BY <2>1, <2>2
  <2>. QED BY <1>14, <2>3
<1>16. w = [k \in 0 .. L - 1 |-> IF k = 0 THEN [cur |-> o.leaf, idx |-> o.index] ELSE step(w[k - 1], k)]
  <2>1. IsWalk(w, cfg, o)
    BY <1>15, Zenon DEF w
  <2>. QED BY <1>14, <2>1
<1>17. w[L - 1] = At(L - 1)
  <2>. DEFINE S == {k \in Nat : k <= L - 1 => w[k] = At(k)}
  <2>. HIDE DEF At
  <2>1. 0 \in S
    BY <1>2, <1>12, <1>16
  <2>2. ASSUME NEW k \in Nat, k \in S PROVE k + 1 \in S
    <3>. SUFFICES ASSUME k + 1 <= L - 1 PROVE w[k + 1] = At(k + 1)
      OBVIOUS
    <3>1. k + 1 \in 1 .. L - 1 /\ k + 1 \in 0 .. L - 1 /\ k + 1 # 0 /\ (k + 1) - 1 = k /\ k <= L - 1
      BY <1>2
    <3>2. w[k + 1] = step(w[k], k + 1)
      BY <3>1, <1>16
    <3>3. At(k + 1) = step(At(k), k + 1)
      BY <3>1, <1>13
    <3>. QED BY <2>2, <3>1, <3>2, <3>3
  <2>3. Nat \subseteq S
    <3>. HIDE DEF S
    <3>. QED BY <2>1, <2>2, Induct
  <2>. QED BY <1>2, <2>3
<1>18. At(L - 1).cur = root(ls)
  <2>1. L - 1 \in 0 .. L - 1 /\ (L - 1) + 1 = L
    BY <1>2
  <2>2. ix[L - 1] \in 0 .. Len(ls[L]) - 1
    BY <2>1, <1>9
  <2>3. ix[L - 1] + 1 = 1
    BY <2>2, <1>2
  <2>. QED BY <2>1, <2>3 DEF root, L
<1>. QED
  BY <1>3, <1>6, <1>7, <1>8, <1>17, <1>18 DEF o

----------------------------------------------------------------------------
(* The inductive invariant. *)

\* The configuration is one the FRI code computes for n leaves, or has room for them.
Fits(s) == (\E m \in Nat : s.cfg = tree_config(s.n, m, 1)) \/ s.n <= Capacity(s.cfg)

CaseOK(s) ==
    /\ s.n \in Nat \ {0} /\ WellFormed(s.cfg) /\ Len(s.cfg.arities) < LEAF_LEVEL_DS
    /\ s.values \in Seq(Nat) /\ Len(s.values) = s.n /\ Fits(s)

Levels(s) == finalize(s.cfg, <<push_leaves(s.cfg, s.values)>>, 0)
Compact(s) == IF \E k \in 0 .. s.n : pow2(k) = s.n THEN commit_compact(s.cfg, s.values) ELSE Panic

Built(s) == s.phase = "tree" => s.levels = Levels(s) /\ s.compact = Compact(s)

Opened(s) ==
    s.phase = "opened" =>
      /\ s.index \in 0 .. s.n - 1 /\ s.root = root(Levels(s)) /\ s.o = open(s.cfg, Levels(s), s.index)
      /\ s.c = IF Compact(s) = Panic THEN open(s.cfg, Levels(s), s.index)
               ELSE open_compact(s.cfg, Compact(s), s.values, s.index)

\* A climb that has made a step began at a node of the tree.
Climbing(s) ==
    s.phase = "climb" =>
      /\ DOMAIN s = {"phase", "n", "cfg", "values", "index", "levels", "leaf", "cur", "idx", "level"}
      /\ IsTree(s.cfg, s.values, s.levels) /\ s.index \in Nat /\ s.idx \in Nat
      /\ s.level \in 0 .. Len(s.cfg.arities)
      /\ IF s.level = 0 THEN s.cur = s.leaf ELSE s.leaf \in Nodes(s.levels)

StateOK(s) == CaseOK(s) /\ Built(s) /\ Opened(s) /\ Climbing(s)
MInv == unit = "merkle" /\ StateOK(st)

\* The invariant holds of every case MerkleInit starts.
LEMMA InitEstablishes == MerkleInit => MInv
<1>. SUFFICES ASSUME MerkleInit PROVE StateOK(st)
  BY DEF MerkleInit, MInv
<1>. USE MerkleAssumption
<1>. DEFINE Cfgs(n) == {tree_config(n, m, 1) : m \in RequestedArities}
                        \cup {c \in {[arities |-> a, label |-> 1] : a \in MixedArities} : n <= Capacity(c)}
<1>1. PICK n, cfg : /\ n \in TreeSizes /\ cfg \in Cfgs(n)
        /\ st = [phase |-> "values", n |-> n, cfg |-> cfg, values |-> [i \in 1..n |-> i % 3] \o << >>]
  BY Zenon DEF MerkleInit
<1>2. n \in Nat \ {0}
  BY <1>1
<1>3. WellFormed(cfg) /\ Len(cfg.arities) < LEAF_LEVEL_DS
  <2>1. CASE cfg \in {tree_config(n, m, 1) : m \in RequestedArities}
    <3>1. PICK m \in RequestedArities : cfg = tree_config(n, m, 1)
      BY <2>1
    <3>. QED BY <1>1, <1>2, <3>1, TreeConfigWellFormed
  <2>2. CASE cfg \in {[arities |-> a, label |-> 1] : a \in MixedArities}
    BY <2>2 DEF WellFormed
  <2>. QED BY <1>1, <2>1, <2>2
<1>6. (\E m \in Nat : cfg = tree_config(n, m, 1)) \/ n <= Capacity(cfg)
  BY <1>1
<1>4. st.values \in Seq(Nat) /\ Len(st.values) = n
  <2>. DEFINE f == [i \in 1..n |-> i % 3]
  <2>1. f \in Seq(Nat) /\ Len(f) = n
    BY <1>2
  <2>2. st.values = f \o << >>
    BY <1>1
  <2>. HIDE DEF f
  <2>. QED BY <2>1, <2>2
<1>5. st.phase = "values" /\ st.n = n /\ st.cfg = cfg
  BY <1>1
<1>. QED
  BY <1>2, <1>3, <1>4, <1>5, <1>6 DEF StateOK, CaseOK, Fits, Built, Opened, Climbing

\* Every case builds a tree: the configuration has an arity for each level.
LEMMA CommitBuilds ==
    ASSUME NEW s, CaseOK(s)
    PROVE  IsTree(s.cfg, s.values, Levels(s)) /\ Levels(s) # Panic
<1>1. /\ s.values # << >> /\ s.values \in Seq(Nat) /\ WellFormed(s.cfg) /\ 0 \in Nat /\ 0 <= Len(s.cfg.arities)
      /\ s.n \in Nat \ {0} /\ Len(s.values) = s.n
  BY DEF CaseOK, WellFormed
<1>. DEFINE base == push_leaves(s.cfg, s.values)
<1>2. PICK B : base \in Seq(B) /\ Len(base) = s.n
  BY <1>1, LeavesPushed
<1>. HIDE DEF base
<1>3. base # << >>
  BY <1>1, <1>2
<1>. DEFINE ls == finalize(s.cfg, <<base>>, 0)
<1>4. ls # Panic
  <2>1. CASE \E m \in Nat : s.cfg = tree_config(s.n, m, 1)
    BY <1>1, <1>2, <2>1, DepthSuffices
  <2>2. CASE s.n <= Capacity(s.cfg)
    BY <1>1, <1>2, <2>2, CapacitySuffices
  <2>. QED BY <2>1, <2>2 DEF CaseOK, Fits
<1>5. (\E T : Shape(s.cfg, 0, base, ls, T)) /\ Len(ls[Len(ls)]) = 1
  BY <1>1, <1>2, <1>3, <1>4, FinalizeHasShape
<1>. QED
  BY <1>4, <1>5 DEF IsTree, Levels, base

\* Every step keeps the invariant: an opening is that of the tree, a climb that
\* has made a step began at a node of it.
LEMMA StepKeeps == MInv /\ [MerkleNext]_unitVars => MInv'
<1>. SUFFICES ASSUME MInv, [MerkleNext]_unitVars PROVE MInv'
  OBVIOUS
<1>1. unit = "merkle" /\ StateOK(st)
  BY DEF MInv
<1>2. CASE MerkleCommit
  <2>1. unit' = "merkle"
    BY <1>2 DEF MerkleCommit, Move
  <2>. DEFINE new == st'
  <2>2. /\ new.phase = "tree" /\ new.n = st.n /\ new.cfg = st.cfg /\ new.values = st.values
        /\ new.levels = Levels(st) /\ new.compact = Compact(st)
    BY <1>2 DEF MerkleCommit, Move, Levels, Compact
  <2>. HIDE DEF new
  <2>3. CaseOK(st) /\ CaseOK(new)
    BY <1>1, <2>2 DEF StateOK, CaseOK, Fits
  <2>4. Built(new)
    BY <2>2 DEF Built, Levels, Compact
  <2>5. StateOK(new)
    BY <2>2, <2>3, <2>4 DEF StateOK, Opened, Climbing
  <2>. QED BY <2>1, <2>5 DEF MInv, new
<1>3. CASE MerkleOpen
  <2>1. unit' = "merkle" /\ st.phase = "tree" /\ st.levels # Panic
    BY <1>3 DEF MerkleOpen, Move
  <2>. DEFINE new == st'
  <2>2. PICK i \in 0 .. st.n - 1 :
          /\ new.phase = "opened" /\ new.n = st.n /\ new.cfg = st.cfg /\ new.values = st.values
          /\ new.index = i /\ new.root = root(st.levels) /\ new.o = open(st.cfg, st.levels, i)
          /\ new.c = IF st.compact = Panic THEN open(st.cfg, st.levels, i)
                     ELSE open_compact(st.cfg, st.compact, st.values, i)
    BY <1>3 DEF MerkleOpen, Move
  <2>. HIDE DEF new
  <2>3. CaseOK(new)
    BY <1>1, <2>2 DEF StateOK, CaseOK, Fits
  <2>4. st.levels = Levels(new) /\ st.compact = Compact(new)
    BY <1>1, <2>1, <2>2 DEF StateOK, Built, Levels, Compact
  <2>5. Opened(new)
    BY <2>2, <2>4 DEF Opened
  <2>6. StateOK(new)
    BY <2>2, <2>3, <2>5 DEF StateOK, Built, Climbing
  <2>. QED BY <2>1, <2>6 DEF MInv, new
<1>4. CASE MerkleForge
  <2>1. unit' = "merkle" /\ st.phase = "tree" /\ st.levels # Panic
    BY <1>4 DEF MerkleForge, Move
  <2>. DEFINE new == st'
  <2>2. PICK i, leaf : i \in 0 .. Capacity(st.cfg) /\
          new = [phase |-> "climb", n |-> st.n, cfg |-> st.cfg, values |-> st.values, index |-> i,
                 levels |-> st.levels, leaf |-> leaf, cur |-> leaf, idx |-> i, level |-> 0]
    BY <1>4, Zenon DEF MerkleForge, Move
  <2>. HIDE DEF new
  <2>3. CaseOK(new)
    BY <1>1, <2>2 DEF StateOK, CaseOK, Fits
  <2>4. IsTree(st.cfg, st.values, st.levels) /\ i \in Nat /\ 0 \in 0 .. Len(st.cfg.arities)
    <3>1. CaseOK(st) /\ st.levels = Levels(st)
      BY <1>1, <2>1 DEF StateOK, Built
    <3>. QED BY <2>2, <3>1, CommitBuilds DEF CaseOK, WellFormed
  <2>5. Climbing(new)
    BY <2>2, <2>4 DEF Climbing
  <2>6. StateOK(new)
    BY <2>2, <2>3, <2>5 DEF StateOK, Built, Opened
  <2>. QED BY <2>1, <2>6 DEF MInv, new
<1>5. CASE MerkleClimb
  <2>1. unit' = "merkle" /\ st.phase = "climb" /\ st.level < Len(st.cfg.arities)
    BY <1>5 DEF MerkleClimb, Move
  <2>. DEFINE new == st'
              a == st.cfg.arities[st.level + 1]
  <2>2. PICK siblings, up :
          /\ up = VerifyStep(st.cfg, st.level + 1, st.idx, st.cur, siblings) /\ up \in Nodes(st.levels)
          /\ new = [st EXCEPT !.cur = up, !.idx = @ \div a, !.level = @ + 1]
    BY <1>5, Zenon DEF MerkleClimb, Move
  <2>3. CaseOK(st) /\ Climbing(st)
    BY <1>1 DEF StateOK
  <2>4. /\ DOMAIN st = {"phase", "n", "cfg", "values", "index", "levels", "leaf", "cur", "idx", "level"}
        /\ IsTree(st.cfg, st.values, st.levels) /\ st.index \in Nat /\ st.idx \in Nat
        /\ st.level \in 0 .. Len(st.cfg.arities)
        /\ IF st.level = 0 THEN st.cur = st.leaf ELSE st.leaf \in Nodes(st.levels)
    BY <2>1, <2>3 DEF Climbing
  <2>5. a \in Nat \ {0} /\ st.idx \div a \in Nat /\ st.level + 1 \in 1 .. Len(st.cfg.arities)
    <3>1. st.level + 1 \in 1 .. Len(st.cfg.arities) /\ st.cfg.arities \in Seq(Nat \ {0, 1})
      BY <2>1, <2>3, <2>4 DEF CaseOK, WellFormed
    <3>2. a \in Nat \ {0}
      BY <3>1
    <3>. HIDE DEF a
    <3>3. st.idx \div a \in Nat
      BY <3>2, <2>4
    <3>. QED BY <3>1, <3>2, <3>3
  <2>6. st.cur \in Nodes(st.levels)
    <3>1. st.values # << >> /\ st.values \in Seq(Nat) /\ LEAF_LEVEL_DS \in Nat
          /\ WellFormed(st.cfg) /\ Len(st.cfg.arities) < LEAF_LEVEL_DS
      BY <2>3, MerkleAssumption DEF CaseOK
    <3>. QED BY <3>1, <2>2, <2>4, <2>5, ClimbStaysInside
  <2>. HIDE DEF new, a
  <2>7. /\ new.phase = st.phase /\ new.n = st.n /\ new.cfg = st.cfg /\ new.values = st.values
        /\ new.index = st.index /\ new.levels = st.levels /\ new.leaf = st.leaf
        /\ new.cur = up /\ new.idx = st.idx \div a /\ new.level = st.level + 1 /\ DOMAIN new = DOMAIN st
    BY <2>2, <2>4
  <2>8. CaseOK(new)
    BY <2>3, <2>7 DEF CaseOK, Fits
  <2>9. st.leaf \in Nodes(st.levels)
    BY <2>4, <2>6
  <2>10. new.level \in 0 .. Len(new.cfg.arities) /\ new.level # 0
    BY <2>5, <2>7
  <2>11. Climbing(new)
    BY <2>4, <2>5, <2>7, <2>9, <2>10 DEF Climbing
  <2>12. StateOK(new)
    BY <2>1, <2>7, <2>8, <2>11 DEF StateOK, Built, Opened
  <2>. QED BY <2>1, <2>12 DEF MInv, new
<1>6. CASE UNCHANGED unitVars
  BY <1>6 DEF unitVars, MInv
<1>. QED
  BY <1>2, <1>3, <1>4, <1>5, <1>6 DEF MerkleNext

\* In every behaviour of the commitment library the trees and openings are those
\* of the committed values, and a climb that got anywhere began inside its tree.
THEOREM Invariance == MerkleSpec => []MInv
<1>. QED
  BY InitEstablishes, StepKeeps, PTL DEF MerkleSpec

\* No opening that the verifier climbs to the root of a tree of any size and any
\* arities presents a value that was not committed at its index.
THEOREM ForgeriesRefused == MerkleSpec => []ForgeryRefused
<1>1. MInv => ForgeryRefused
  <2>. SUFFICES ASSUME MInv, st.phase = "climb", st.cur = root(st.levels),
                       NEW v \in LeafValues, st.leaf = compute_leaf_hash(st.cfg, st.index, v)
                PROVE  st.index < st.n /\ v = st.values[st.index + 1]
    BY DEF ForgeryRefused
  <2>1. CaseOK(st) /\ Climbing(st)
    BY DEF MInv, StateOK
  <2>2. /\ IsTree(st.cfg, st.values, st.levels) /\ st.index \in Nat
        /\ IF st.level = 0 THEN st.cur = st.leaf ELSE st.leaf \in Nodes(st.levels)
    BY <2>1 DEF Climbing
  <2>3. st.leaf \in Nodes(st.levels)
    BY <2>2, RootInside
  <2>4. /\ st.values \in Seq(Nat) /\ st.values # << >> /\ WellFormed(st.cfg)
        /\ Len(st.cfg.arities) < LEAF_LEVEL_DS /\ LEAF_LEVEL_DS \in Nat /\ Len(st.values) = st.n
    BY <2>1, MerkleAssumption DEF CaseOK
  <2>. QED BY <2>2, <2>3, <2>4, LeafInside
<1>. QED
  BY <1>1, Invariance, PTL

\* What `open` returns for any index of any tree in memory verifies against its
\* root and carries the committed leaf.
THEOREM OpeningsVerify == MerkleSpec => []OpeningVerifies
<1>1. MInv => OpeningVerifies
  <2>. SUFFICES ASSUME MInv, st.phase = "opened"
                PROVE  /\ verify_opening(st.cfg, st.root, st.o)
                       /\ st.o.leaf = compute_leaf_hash(st.cfg, st.index, st.values[st.index + 1])
    BY DEF OpeningVerifies
  <2>1. CaseOK(st) /\ Opened(st)
    BY DEF MInv, StateOK
  <2>. DEFINE ls == Levels(st)
  <2>2. IsTree(st.cfg, st.values, ls) /\ st.root = root(ls) /\ st.o = open(st.cfg, ls, st.index)
    BY <2>1, CommitBuilds DEF Opened
  <2>. HIDE DEF ls
  <2>3. st.index \in 0 .. Len(st.values) - 1 /\ st.values \in Seq(Nat) /\ WellFormed(st.cfg)
    BY <2>1 DEF Opened, CaseOK
  <2>. QED BY <2>2, <2>3, OpenVerifies
<1>. QED
  BY <1>1, Invariance, PTL

----------------------------------------------------------------------------
(***************************************************************************)
(* The compact tree: with `skip` bottom levels left out and rebuilt chunk  *)
(* by chunk it has the root and the openings of the tree in memory.  With  *)
(* that the whole of MerkleBinding is a theorem.                           *)
(***************************************************************************)

----------------------------------------------------------------------------
(* The levels left out are binary and without padding. *)

\* The tree has 2^K leaves and its `skip` bottom levels are left out.
Skips(cfg, K, skip) ==
    /\ WellFormed(cfg) /\ K \in Nat /\ skip \in 0..K /\ skip <= Len(cfg.arities)
    /\ \A j \in 1..skip : cfg.arities[j] = 2

\* skip_of leaves out binary levels only, and none above the root.
LEMMA SkipOfSkips ==
    ASSUME NEW cfg, WellFormed(cfg), NEW n \in Nat, NEW k \in 0..n, pow2(k) = n
    PROVE  \E K : pow2(K) = n /\ Skips(cfg, K, skip_of(cfg, n))
<1>. DEFINE K == log2(n)
            M == Len(cfg.arities)
            Pref == {i \in DOMAIN cfg.arities : \A j \in 1..i : cfg.arities[j] = 2}
            b == Cardinality(Pref)
            skip == skip_of(cfg, n)
<1>1. K \in Nat /\ pow2(K) = n
  BY DEF log2
<1>2. M \in Nat /\ DOMAIN cfg.arities = 1..M
  BY DEF WellFormed
<1>3. ASSUME NEW m \in 0..M, Pref \subseteq 1..m PROVE b \in Nat /\ b <= m
  <2>1. IsFiniteSet(1..m) /\ Cardinality(1..m) = m
    BY FS_Interval
  <2>. HIDE DEF Pref
  <2>. QED BY <1>3, <2>1, FS_Subset, FS_CardinalityType
<1>4. b \in Nat /\ b <= M
  <2>1. M \in 0..M /\ Pref \subseteq 1..M
    BY <1>2
  <2>. QED BY <2>1, <1>3
<1>5. skip \in {b, COMPACT_SKIP, K} /\ skip <= b /\ skip <= K
  <2>1. skip = Min({b, COMPACT_SKIP, K})
    BY DEF skip_of
  <2>. HIDE DEF b, K, skip
  <2>2. \E x \in {b, COMPACT_SKIP, K} : \A y \in {b, COMPACT_SKIP, K} : x <= y
    BY <1>1, <1>4, MerkleAssumption
  <2>3. skip \in {b, COMPACT_SKIP, K} /\ \A y \in {b, COMPACT_SKIP, K} : skip <= y
    BY <2>1, <2>2 DEF Min
  <2>. QED BY <2>3
<1>6. skip \in Nat
  BY <1>1, <1>4, <1>5, MerkleAssumption
<1>7. ASSUME NEW j \in 1..skip, cfg.arities[j] # 2 PROVE FALSE
  <2>. HIDE DEF b, skip, K
  <2>1. j \in Nat \ {0} /\ j <= M /\ j - 1 \in 0..M
    BY <1>2, <1>4, <1>5, <1>6
  <2>2. ASSUME NEW i \in Pref PROVE i \in 1 .. j - 1
    <3>1. i \in 1..M /\ \A l \in 1..i : cfg.arities[l] = 2
      BY <1>2
    <3>2. ~ (j <= i)
      BY <3>1, <2>1, <1>7
    <3>. QED BY <3>1, <3>2, <2>1
  <2>3. b <= j - 1
    BY <2>1, <2>2, <1>3
  <2>. QED BY <2>1, <2>3, <1>4, <1>5, <1>6
<1>. HIDE DEF b, skip, K
<1>8. Skips(cfg, K, skip)
  BY <1>1, <1>2, <1>4, <1>5, <1>6, <1>7 DEF Skips
<1>. QED
  BY <1>1, <1>8 DEF skip

\* A part of length 2 is a pair.
LEMMA PairOf ==
    ASSUME NEW T, NEW s \in Seq(T), NEW m \in Nat \ {0}, m + 1 <= Len(s)
    PROVE  SubSeq(s, m, m + 1) = <<s[m], s[m + 1]>>
<1>. DEFINE n == m + 1
            F == SubSeq(s, m, n)
<1>0. n \in Nat /\ n = m + 1 /\ n <= Len(s)
  OBVIOUS
<1>. HIDE DEF n
<1>1. F \in Seq(T) /\ Len(F) = 2 /\ F[1] = s[m] /\ F[2] = s[n]
  <2>1. F \in Seq(T) /\ Len(F) = (n - m) + 1
    BY <1>0
  <2>2. \A i \in 1 .. (n - m) + 1 : F[i] = s[m + i - 1]
    BY <1>0
  <2>3. 1 \in 1 .. (n - m) + 1 /\ 2 \in 1 .. (n - m) + 1 /\ m + 1 - 1 = m /\ m + 2 - 1 = n /\ (n - m) + 1 = 2
    BY <1>0
  <2>. HIDE DEF F
  <2>4. F[1] = s[m + 1 - 1] /\ F[2] = s[m + 2 - 1]
    BY <2>2, <2>3
  <2>. QED BY <2>1, <2>3, <2>4
<1>. HIDE DEF F
<1>2. F = <<s[m], s[n]>>
  BY <1>1
<1>. QED
  BY <1>2 DEF F, n

\* `up` has the parents of the pairs of `low`, which is tree level d - 1.
RowAbove(cfg, x, d, low, up) ==
    \A i \in 1..x : up[i] = compress_node(cfg, 2, d, i - 1, <<low[2 * i - 1], low[2 * i]>>)

\* A pass over an even number of nodes with arity 2 pads nothing.
GrownByPairs(cfg, ls, level, x, P) ==
    /\ GrowLevel(cfg, ls, level) = Append(ls, P)
    /\ P \in Seq(ParentSet(cfg, Top(ls), 2, level)) /\ Len(P) = x
    /\ RowAbove(cfg, x, level, Top(ls), P)

\* The pass appends the parents of the pairs.
LEMMA GrowEven ==
    ASSUME NEW cfg, NEW T, NEW ls \in Seq(Seq(T)), Len(ls) >= 1, NEW level, cfg.arities[level] = 2,
           NEW x \in Nat \ {0}, Len(Top(ls)) = 2 * x
    PROVE  GrownByPairs(cfg, ls, level, x, Parents(cfg, Top(ls), 2, level))
<1>. DEFINE L == Len(ls)
            top == Top(ls)
            P == Parents(cfg, top, 2, level)
<1>1. L \in Nat \ {0} /\ top \in Seq(T) /\ top = ls[L]
  BY DEF Top
<1>2. top \o << >> = top
  BY <1>1
<1>3. PadTo(top, 2) = top
  <2>. DEFINE last == top[Len(top)]
  <2>1. (-Len(top)) % 2 = 0
    OBVIOUS
  <2>2. Repeat(last, 0) = << >>
    BY DEF Repeat
  <2>. HIDE DEF top
  <2>. QED BY <2>1, <2>2, <1>2 DEF PadTo
<1>4. [ls EXCEPT ![L] = top] = ls
  BY <1>1
<1>5. GrowLevel(cfg, ls, level) = Append(ls, P)
  <2>0. Len(top) = 2 * x
    OBVIOUS
  <2>. HIDE DEF top
  <2>1. Len(top) # 1
    BY <2>0
  <2>. QED BY <2>1, <1>1, <1>3, <1>4 DEF GrowLevel
<1>6. Len(top) \div 2 = x /\ x \in Nat
  OBVIOUS
<1>9. Len(top) = 2 * x
  OBVIOUS
<1>. HIDE DEF top, L
<1>7. /\ P \in Seq(ParentSet(cfg, top, 2, level)) /\ Len(P) = x
      /\ \A i \in 1..x : P[i] = ParentOf(cfg, top, 2, level, i)
  BY <1>6, ParentsAre
<1>. HIDE DEF P
<1>8. ASSUME NEW i \in 1..x
      PROVE  P[i] = compress_node(cfg, 2, level, i - 1, <<top[2 * i - 1], top[2 * i]>>)
  <2>. DEFINE F == SubSeq(top, 2 * (i - 1) + 1, 2 * i)
  <2>1. 2 * (i - 1) + 1 = 2 * i - 1 /\ 2 * i = (2 * i - 1) + 1 /\ 2 * i - 1 \in Nat \ {0}
        /\ (2 * i - 1) + 1 <= Len(top)
    BY <1>9
  <2>2. F = SubSeq(top, 2 * i - 1, (2 * i - 1) + 1)
    BY <2>1
  <2>4. F = <<top[2 * i - 1], top[2 * i]>>
    <3>. HIDE DEF F
    <3>1. F = <<top[2 * i - 1], top[(2 * i - 1) + 1]>>
      BY <1>1, <2>1, <2>2, PairOf
    <3>. QED BY <2>1, <3>1
  <2>. HIDE DEF F
  <2>. QED BY <1>7, <2>4 DEF ParentOf, F
<1>. QED
  BY <1>5, <1>7, <1>8 DEF top, P, GrownByPairs, RowAbove

\* What the passes compute, pass by pass.
Passes(f, cfg, levels, level) ==
    f[0] = levels /\ \A m \in 1 .. Len(cfg.arities) - level : f[m] = GrowLevel(cfg, f[m - 1], level + m)

\* What holds of the recursion of finalize holds pass by pass.
LEMMA UpValues ==
    ASSUME NEW cfg, NEW levels, NEW level \in Nat, Len(cfg.arities) - level \in Nat,
           NEW f, IsUp(f, cfg, levels, level)
    PROVE  Passes(f, cfg, levels, level)
<1>. DEFINE N == Len(cfg.arities) - level
            body(m) == IF m = 0 THEN levels ELSE GrowLevel(cfg, f[m - 1], level + m)
<1>1. f = [m \in 0..N |-> body(m)] /\ N \in Nat
  BY DEF IsUp
<1>. HIDE DEF N
<1>2. \A m \in 0..N : f[m] = body(m)
  <2>. HIDE DEF body
  <2>. QED BY <1>1
<1>3. f[0] = levels /\ \A m \in 1..N : f[m] = GrowLevel(cfg, f[m - 1], level + m)
  BY <1>1, <1>2
<1>. QED
  BY <1>3 DEF N, Passes

\* Appending a level to levels.
LEMMA RowAppended ==
    ASSUME NEW T, NEW ls \in Seq(Seq(T)), NEW U, NEW P \in Seq(U)
    PROVE  /\ \E W : Append(ls, P) \in Seq(Seq(W))
           /\ Len(Append(ls, P)) = Len(ls) + 1
           /\ Append(ls, P)[Len(ls) + 1] = P
           /\ \A j \in 1 .. Len(ls) : Append(ls, P)[j] = ls[j]
<1>. DEFINE W == T \cup U
<1>1. T \subseteq W /\ P \in Seq(W)
  OBVIOUS
<1>. HIDE DEF W
<1>2. Append(ls, P) \in Seq(Seq(W))
  BY <1>1
<1>. QED
  BY <1>2

\* R are the binary levels over all 2^K leaves, up to level e.
IsRows(cfg, values, K, e, R) ==
    /\ \E T : R \in Seq(Seq(T))
    /\ Len(R) = e + 1
    /\ R[1] = push_leaves(cfg, values)
    /\ \A d \in 0..e : Len(R[d + 1]) = pow2(K - d)
    /\ \A d \in 1..e : RowAbove(cfg, pow2(K - d), d, R[d], R[d + 1])

\* One more row.
LEMMA RowGrown ==
    ASSUME NEW cfg, NEW values, NEW K \in Nat, NEW e \in Nat, e + 1 <= K, cfg.arities[e + 1] = 2,
           NEW R, IsRows(cfg, values, K, e, R)
    PROVE  IsRows(cfg, values, K, e + 1, GrowLevel(cfg, R, e + 1))
<1>1. PICK T : R \in Seq(Seq(T))
  BY DEF IsRows
<1>. DEFINE x == pow2(K - (e + 1))
            P == Parents(cfg, Top(R), 2, e + 1)
            G == GrowLevel(cfg, R, e + 1)
<1>2. Len(R) = e + 1 /\ Len(R) >= 1 /\ Top(R) = R[e + 1]
  BY DEF IsRows, Top
<1>3. x \in Nat \ {0} /\ Len(Top(R)) = 2 * x
  <2>1. K - (e + 1) \in Nat /\ (K - (e + 1)) + 1 = K - e
    OBVIOUS
  <2>2. x \in Nat \ {0} /\ pow2(K - e) = 2 * x
    BY <2>1, PowStep, PowPositive
  <2>3. e \in 0..e
    OBVIOUS
  <2>4. Len(R[e + 1]) = pow2(K - e)
    BY <2>3 DEF IsRows
  <2>. QED BY <1>2, <2>2, <2>4
<1>. HIDE DEF x
<1>4. /\ G = Append(R, P) /\ P \in Seq(ParentSet(cfg, Top(R), 2, e + 1)) /\ Len(P) = x
      /\ RowAbove(cfg, x, e + 1, Top(R), P)
  <2>1. GrownByPairs(cfg, R, e + 1, x, Parents(cfg, Top(R), 2, e + 1))
    BY <1>1, <1>2, <1>3, GrowEven, Zenon
  <2>. QED BY <2>1, Zenon DEF GrownByPairs
<1>. HIDE DEF P, G
<1>5. /\ \E W : G \in Seq(Seq(W))
      /\ Len(G) = (e + 1) + 1 /\ G[(e + 1) + 1] = P
      /\ \A j \in 1 .. e + 1 : G[j] = R[j]
  BY <1>1, <1>2, <1>4, RowAppended
<1>6. G[1] = push_leaves(cfg, values)
  <2>1. 1 \in 1 .. e + 1
    OBVIOUS
  <2>. QED BY <1>5, <2>1 DEF IsRows
<1>7. ASSUME NEW d \in 0 .. e + 1 PROVE Len(G[d + 1]) = pow2(K - d)
  <2>1. CASE d = e + 1
    BY <1>4, <1>5, <2>1 DEF x
  <2>2. CASE d # e + 1
    <3>1. d \in 0..e /\ d + 1 \in 1 .. e + 1
      BY <2>2
    <3>. QED BY <3>1, <1>5 DEF IsRows
  <2>. QED BY <2>1, <2>2
<1>8. ASSUME NEW d \in 1 .. e + 1 PROVE RowAbove(cfg, pow2(K - d), d, G[d], G[d + 1])
  <2>1. CASE d = e + 1
    <3>1. d \in 1 .. e + 1 /\ G[d] = R[d] /\ R[d] = Top(R) /\ G[d + 1] = P /\ pow2(K - d) = x
      BY <1>2, <1>5, <2>1 DEF x
    <3>. QED BY <3>1, <1>4, <2>1
  <2>2. CASE d # e + 1
    <3>1. d \in 1..e /\ d \in 1 .. e + 1 /\ d + 1 \in 1 .. e + 1
      BY <2>2
    <3>2. G[d] = R[d] /\ G[d + 1] = R[d + 1]
      BY <3>1, <1>5
    <3>. QED BY <3>1, <3>2 DEF IsRows
  <2>. QED BY <2>1, <2>2
<1>. QED
  BY <1>5, <1>6, <1>7, <1>8 DEF IsRows, G

\* The bottom levels of the tree in memory are such rows.
LEMMA UpRows ==
    ASSUME NEW cfg, NEW V, NEW values \in Seq(V), NEW K, NEW skip, Skips(cfg, K, skip), Len(values) = pow2(K),
           NEW f, IsUp(f, cfg, <<push_leaves(cfg, values)>>, 0)
    PROVE  IsRows(cfg, values, K, skip, f[skip])
<1>. DEFINE base == push_leaves(cfg, values)
            M == Len(cfg.arities)
            S == {e \in Nat : e <= skip => IsRows(cfg, values, K, e, f[e])}
<1>1. K \in Nat /\ skip \in 0..K /\ skip \in Nat /\ skip <= M /\ M \in Nat /\ \A j \in 1..skip : cfg.arities[j] = 2
  BY DEF Skips, WellFormed
<1>2. f[0] = <<base>> /\ \A m \in 1..M : f[m] = GrowLevel(cfg, f[m - 1], m)
  <2>1. M - 0 = M /\ M - 0 \in Nat /\ \A m \in 1..M : 0 + m = m
    BY <1>1
  <2>2. Passes(f, cfg, <<base>>, 0)
    BY <2>1, UpValues
  <2>. HIDE DEF M
  <2>. QED BY <2>1, <2>2 DEF Passes, M
<1>3. 0 \in S
  <2>1. PICK B : base \in Seq(B)
    BY LeavesPushed
  <2>2. Len(base) = pow2(K)
    BY LeavesPushed
  <2>. HIDE DEF base
  <2>3. <<base>> \in Seq(Seq(B)) /\ Len(<<base>>) = 1 /\ <<base>>[1] = base
    BY <2>1
  <2>4. K - 0 = K
    BY <1>1
  <2>5. IsRows(cfg, values, K, 0, <<base>>)
    <3>1. \A d \in 0..0 : Len(<<base>>[d + 1]) = pow2(K - d)
      BY <2>2, <2>3, <2>4
    <3>2. 1..0 = {}
      OBVIOUS
    <3>3. <<base>>[1] = push_leaves(cfg, values)
      BY <2>3 DEF base
    <3>. QED BY <2>3, <3>1, <3>2, <3>3 DEF IsRows
  <2>. QED BY <1>2, <2>5
<1>4. ASSUME NEW e \in Nat, e \in S PROVE e + 1 \in S
  <2>. SUFFICES ASSUME e + 1 <= skip PROVE IsRows(cfg, values, K, e + 1, f[e + 1])
    OBVIOUS
  <2>1. e + 1 <= K /\ e + 1 \in 1..skip /\ e + 1 \in 1..M /\ (e + 1) - 1 = e /\ e <= skip
    BY <1>1
  <2>2. IsRows(cfg, values, K, e, f[e])
    BY <1>4, <2>1
  <2>3. f[e + 1] = GrowLevel(cfg, f[e], e + 1) /\ cfg.arities[e + 1] = 2
    BY <1>1, <1>2, <2>1
  <2>. QED BY <1>1, <2>1, <2>2, <2>3, RowGrown
<1>5. Nat \subseteq S
  <2>. HIDE DEF S
  <2>. QED BY <1>3, <1>4, Induct
<1>. QED
  BY <1>1, <1>5

----------------------------------------------------------------------------
(* The chunks a compact tree is opened from are parts of those rows. *)

\* Nodes to the left of chunk c in row d.
Offset(c, skip, d) == c * pow2(skip - d)
Placed(K, skip, d, c) ==
    /\ pow2(skip - d) \in Nat \ {0} /\ Offset(c, skip, d) \in Nat
    /\ Offset(c, skip, d) + pow2(skip - d) <= pow2(K - d)
    /\ (c * pow2(skip)) \div pow2(d) = Offset(c, skip, d)

\* A chunk lies inside each row.
LEMMA ChunkPlaced ==
    ASSUME NEW K \in Nat, NEW skip \in 0..K, NEW d \in 0..skip, NEW c \in 0 .. pow2(K - skip) - 1
    PROVE  Placed(K, skip, d, c)
<1>. DEFINE p == pow2(skip - d)
            q == pow2(d)
            w == pow2(K - skip)
<1>0. skip \in Nat /\ d \in Nat /\ skip - d \in Nat /\ K - skip \in Nat /\ K - d \in Nat
      /\ (skip - d) + d = skip /\ (K - skip) + (skip - d) = K - d
  OBVIOUS
<1>1. p \in Nat \ {0} /\ q \in Nat \ {0} /\ w \in Nat \ {0}
  BY <1>0, PowPositive
<1>2. pow2(skip) = p * q /\ pow2(K - d) = w * p
  <2>1. pow2((skip - d) + d) = pow2(skip - d) * pow2(d)
    BY <1>0, PowSplit
  <2>2. pow2((K - skip) + (skip - d)) = pow2(K - skip) * pow2(skip - d)
    BY <1>0, PowSplit
  <2>. QED BY <1>0, <2>1, <2>2
<1>3. c \in Nat /\ c + 1 <= w
  BY <1>1
<1>. HIDE DEF p, q, w
<1>4. c * p \in Nat /\ (c * p) + p <= w * p
  <2>1. (c * p) + p = (c + 1) * p
    BY <1>1, <1>3
  <2>2. (w - (c + 1)) * p >= 0 /\ (w - (c + 1)) * p = w * p - (c + 1) * p
    BY <1>1, <1>3
  <2>. QED BY <1>1, <1>3, <2>1, <2>2
<1>5. (c * (p * q)) \div q = c * p
  <2>1. c * (p * q) = (c * p) * q
    BY <1>1, <1>3
  <2>. DEFINE y == c * p
  <2>2. y \in Int
    BY <1>4
  <2>. HIDE DEF y
  <2>3. (y * q) \div q = y
    BY <1>1, <2>2, DivExact
  <2>. QED BY <2>1, <2>3 DEF y
<1>. QED
  BY <1>1, <1>2, <1>4, <1>5 DEF Placed, Offset, p, q, w

\* From a row to the row below, places double.
LEMMA OffsetStep ==
    ASSUME NEW skip \in Nat, NEW d \in 1..skip, NEW c \in Nat
    PROVE  Offset(c, skip, d - 1) = 2 * Offset(c, skip, d) /\ pow2(skip - (d - 1)) = 2 * pow2(skip - d)
<1>1. skip - d \in Nat /\ (skip - d) + 1 = skip - (d - 1)
  OBVIOUS
<1>2. pow2(skip - (d - 1)) = 2 * pow2(skip - d) /\ pow2(skip - d) \in Nat
  BY <1>1, PowStep, PowPositive
<1>. DEFINE p == pow2(skip - d)
<1>. HIDE DEF p
<1>3. c * (2 * p) = 2 * (c * p)
  BY <1>2 DEF p
<1>. QED
  BY <1>2, <1>3 DEF Offset, p

\* The part of row d over chunk c.
ChunkRow(R, c, skip, d) == [j \in 1 .. pow2(skip - d) |-> R[d + 1][Offset(c, skip, d) + j]]

\* The recursion of rebuild_chunk_levels.
ChunkLeaves(cfg, values, base, skip) == [i \in 1 .. pow2(skip) |-> compress_leaf(cfg, base + i - 1, values[base + i])]
ChunkNodes(cfg, base, skip, d, low) ==
    [j \in 1 .. pow2(skip - d) |->
       compress_node(cfg, 2, d, (base \div pow2(d)) + j - 1, <<low[2 * j - 1], low[2 * j]>>)]
IsChunk(u, cfg, values, base, skip) ==
    u = [d \in 0..skip |-> IF d = 0 THEN ChunkLeaves(cfg, values, base, skip) \o << >>
                           ELSE ChunkNodes(cfg, base, skip, d, u[d - 1]) \o << >>]

\* A row rebuilt from the part of the row below is the part of the row above.
LEMMA NodesOfChunk ==
    ASSUME NEW cfg, NEW values, NEW K \in Nat, NEW skip \in 0..K, NEW R, IsRows(cfg, values, K, skip, R),
           NEW c \in 0 .. pow2(K - skip) - 1, NEW d \in 1..skip
    PROVE  ChunkNodes(cfg, c * pow2(skip), skip, d, ChunkRow(R, c, skip, d - 1)) = ChunkRow(R, c, skip, d)
<1>. DEFINE w == pow2(K - skip)
            m == Offset(c, skip, d)
            p == pow2(skip - d)
            low == ChunkRow(R, c, skip, d - 1)
<1>1. d \in 0..skip /\ skip \in Nat /\ c \in Nat /\ (d - 1) + 1 = d
  <2>1. K - skip \in Nat
    OBVIOUS
  <2>2. w \in Nat
    BY <2>1, PowPositive
  <2>. HIDE DEF w
  <2>. QED BY <2>2 DEF w
<1>2. Placed(K, skip, d, c)
  BY <1>1, ChunkPlaced
<1>3. /\ p \in Nat \ {0} /\ m \in Nat /\ m + p <= pow2(K - d)
      /\ (c * pow2(skip)) \div pow2(d) = m
  BY <1>2 DEF Placed
<1>4. Offset(c, skip, d - 1) = 2 * m /\ pow2(skip - (d - 1)) = 2 * p
  BY <1>1, OffsetStep
<1>5. RowAbove(cfg, pow2(K - d), d, R[d], R[d + 1])
  BY DEF IsRows
<1>6. pow2(K - d) \in Nat
  <2>1. K - d \in Nat
    OBVIOUS
  <2>. QED BY <2>1, PowPositive
<1>7. low = [j \in 1 .. 2 * p |-> R[d][2 * m + j]]
  BY <1>1, <1>4 DEF ChunkRow
<1>8. ASSUME NEW j \in 1..p
      PROVE  compress_node(cfg, 2, d, m + j - 1, <<low[2 * j - 1], low[2 * j]>>) = R[d + 1][m + j]
  <2>. HIDE DEF low, m, p
  <2>1. /\ 2 * j - 1 \in 1 .. 2 * p /\ 2 * j \in 1 .. 2 * p
        /\ 2 * m + (2 * j - 1) = 2 * (m + j) - 1 /\ 2 * m + 2 * j = 2 * (m + j)
    BY <1>3
  <2>2. m + j \in 1 .. pow2(K - d)
    BY <1>3, <1>6
  <2>3. low[2 * j - 1] = R[d][2 * (m + j) - 1] /\ low[2 * j] = R[d][2 * (m + j)]
    BY <1>7, <2>1
  <2>4. R[d + 1][m + j] = compress_node(cfg, 2, d, (m + j) - 1, <<R[d][2 * (m + j) - 1], R[d][2 * (m + j)]>>)
    BY <1>5, <2>2 DEF RowAbove
  <2>5. (m + j) - 1 = m + (j - 1)
    BY <1>3
  <2>. QED BY <2>3, <2>4, <2>5, Zenon
<1>9. ChunkNodes(cfg, c * pow2(skip), skip, d, low)
        = [j \in 1..p |-> compress_node(cfg, 2, d, m + j - 1, <<low[2 * j - 1], low[2 * j]>>)]
  <2>. HIDE DEF low, m, p
  <2>. QED BY <1>3 DEF ChunkNodes, p
<1>10. ChunkRow(R, c, skip, d) = [j \in 1..p |-> R[d + 1][m + j]]
  BY DEF ChunkRow
<1>. HIDE DEF low, m, p
<1>. QED
  BY <1>8, <1>9, <1>10 DEF low

\* The leaves rebuilt are the part of the bottom row.
LEMMA LeavesOfChunk ==
    ASSUME NEW cfg, NEW V, NEW values \in Seq(V), NEW K \in Nat, NEW skip \in 0..K, Len(values) = pow2(K),
           NEW R, IsRows(cfg, values, K, skip, R), NEW c \in 0 .. pow2(K - skip) - 1
    PROVE  ChunkLeaves(cfg, values, c * pow2(skip), skip) = ChunkRow(R, c, skip, 0)
<1>. DEFINE m == c * pow2(skip)
            p == pow2(skip)
<1>1. 0 \in 0..skip /\ skip - 0 = skip /\ K - 0 = K
  OBVIOUS
<1>2. Placed(K, skip, 0, c)
  BY <1>1, ChunkPlaced
<1>3. Offset(c, skip, 0) = m
  BY <1>1 DEF Offset
<1>4. p \in Nat \ {0} /\ m \in Nat /\ m + p <= Len(values) /\ Len(values) \in Nat
  BY <1>1, <1>2, <1>3 DEF Placed
<1>5. \A i \in 1 .. Len(values) : R[1][i] = compress_leaf(cfg, i - 1, values[i])
  <2>1. R[1] = push_leaves(cfg, values)
    BY DEF IsRows
  <2>2. \A i \in 1 .. Len(values) : push_leaves(cfg, values)[i] = compress_leaf(cfg, i - 1, values[i])
    BY LeavesPushed
  <2>. QED BY <2>1, <2>2
<1>6. ChunkRow(R, c, skip, 0) = [j \in 1..p |-> R[1][m + j]]
  BY <1>1, <1>3 DEF ChunkRow
<1>7. ChunkLeaves(cfg, values, m, skip) = [j \in 1..p |-> compress_leaf(cfg, m + j - 1, values[m + j])]
  BY DEF ChunkLeaves
<1>. HIDE DEF m, p
<1>8. ASSUME NEW j \in 1..p PROVE R[1][m + j] = compress_leaf(cfg, m + j - 1, values[m + j])
  <2>1. m + j \in 1 .. Len(values)
    BY <1>4
  <2>2. (m + j) - 1 = m + (j - 1)
    BY <1>4
  <2>. QED BY <1>5, <2>1, <2>2, Zenon
<1>. QED
  BY <1>6, <1>7, <1>8 DEF m

\* The part of a row is a sequence.
LEMMA RowIsSeq ==
    ASSUME NEW R, NEW c, NEW skip \in Nat, NEW d \in 0..skip
    PROVE  ChunkRow(R, c, skip, d) \o << >> = ChunkRow(R, c, skip, d)
<1>. DEFINE n == pow2(skip - d)
            g == ChunkRow(R, c, skip, d)
<1>1. n \in Nat
  <2>1. skip - d \in Nat
    OBVIOUS
  <2>. QED BY <2>1, PowPositive
<1>2. g = [j \in 1..n |-> g[j]]
  BY DEF ChunkRow
<1>. HIDE DEF n, g
<1>3. g \o << >> = g
  BY <1>1, <1>2, FunctionIsSeq
<1>. QED
  BY <1>3 DEF g

\* What a chunk's levels are rebuilt to.
LEMMA ChunkRebuilt ==
    ASSUME NEW cfg, NEW V, NEW values \in Seq(V), NEW K \in Nat, NEW skip \in 0..K, Len(values) = pow2(K),
           NEW R, IsRows(cfg, values, K, skip, R), NEW c \in 0 .. pow2(K - skip) - 1
    PROVE  rebuild_chunk_levels(cfg, values, c * pow2(skip), skip) = [d \in 1 .. skip + 1 |-> ChunkRow(R, c, skip, d - 1)]
<1>. DEFINE base == c * pow2(skip)
            row(d) == ChunkRow(R, c, skip, d)
            leaves == ChunkLeaves(cfg, values, base, skip) \o << >>
            nodes(d, low) == ChunkNodes(cfg, base, skip, d, low) \o << >>
            u == CHOOSE u : IsChunk(u, cfg, values, base, skip)
<1>1. skip \in Nat /\ 0 \in 0..skip
  OBVIOUS
<1>2. leaves = row(0)
  BY <1>1, LeavesOfChunk, RowIsSeq
<1>3. ASSUME NEW d \in 1..skip PROVE nodes(d, row(d - 1)) = row(d)
  <2>1. d \in 0..skip
    OBVIOUS
  <2>. QED BY <1>1, <2>1, NodesOfChunk, RowIsSeq
<1>4. \A v : IsChunk(v, cfg, values, base, skip) <=> v = [d \in 0..skip |-> IF d = 0 THEN leaves ELSE nodes(d, v[d - 1])]
  BY DEF IsChunk
<1>. HIDE DEF row, leaves, nodes
<1>5. \E v : IsChunk(v, cfg, values, base, skip)
  <2>. DEFINE g == [d \in 0..skip |-> row(d)]
  <2>1. ASSUME NEW d \in 0..skip PROVE row(d) = IF d = 0 THEN leaves ELSE nodes(d, g[d - 1])
    <3>1. CASE d = 0
      BY <3>1, <1>2
    <3>2. CASE d # 0
      <4>1. d \in 1..skip /\ d - 1 \in 0..skip
        BY <3>2
      <4>. QED BY <3>2, <4>1, <1>3
    <3>. QED BY <3>1, <3>2
  <2>2. g = [d \in 0..skip |-> IF d = 0 THEN leaves ELSE nodes(d, g[d - 1])]
    BY <2>1
  <2>. QED BY <2>2, <1>4
<1>6. u = [d \in 0..skip |-> IF d = 0 THEN leaves ELSE nodes(d, u[d - 1])]
  <2>1. IsChunk(u, cfg, values, base, skip)
    BY <1>5, Zenon
  <2>. QED BY <2>1, <1>4, Zenon
<1>7. rebuild_chunk_levels(cfg, values, base, skip) = [d \in 1 .. skip + 1 |-> u[d - 1]] \o << >>
  BY DEF rebuild_chunk_levels, IsChunk, ChunkLeaves, ChunkNodes
<1>. HIDE DEF u, base
<1>8. u[0] = leaves /\ \A d \in 1..skip : u[d] = nodes(d, u[d - 1])
  <2>. DEFINE body(d) == IF d = 0 THEN leaves ELSE nodes(d, u[d - 1])
  <2>1. u = [d \in 0..skip |-> body(d)]
    BY <1>6
  <2>2. \A d \in 0..skip : u[d] = body(d)
    <3>. HIDE DEF body
    <3>. QED BY <2>1
  <2>. QED BY <1>1, <2>2
<1>. DEFINE S == {d \in Nat : d <= skip => u[d] = row(d)}
<1>9. 0 \in S
  BY <1>2, <1>8
<1>10. ASSUME NEW d \in Nat, d \in S PROVE d + 1 \in S
  <2>. SUFFICES ASSUME d + 1 <= skip PROVE u[d + 1] = row(d + 1)
    OBVIOUS
  <2>1. d + 1 \in 1..skip /\ (d + 1) - 1 = d /\ u[d] = row(d)
    BY <1>10, <1>1
  <2>2. u[d + 1] = nodes(d + 1, u[(d + 1) - 1]) /\ nodes(d + 1, row((d + 1) - 1)) = row(d + 1)
    BY <1>3, <1>8, <2>1
  <2>. QED BY <2>1, <2>2
<1>11. Nat \subseteq S
  <2>. HIDE DEF S
  <2>. QED BY <1>9, <1>10, Induct
<1>. DEFINE g == [d \in 1 .. skip + 1 |-> row(d - 1)]
<1>12. [d \in 1 .. skip + 1 |-> u[d - 1]] = g
  <2>1. ASSUME NEW d \in 1 .. skip + 1 PROVE u[d - 1] = row(d - 1)
    <3>1. d - 1 \in Nat /\ d - 1 <= skip
      BY <1>1
    <3>. QED BY <3>1, <1>11
  <2>. QED BY <2>1
<1>13. g \o << >> = g
  <2>1. g = [d \in 1 .. skip + 1 |-> g[d]] /\ skip + 1 \in Nat
    BY <1>1
  <2>. HIDE DEF g
  <2>. QED BY <2>1, FunctionIsSeq
<1>. QED
  BY <1>7, <1>12, <1>13 DEF base, row

----------------------------------------------------------------------------
(* Above the rows the two trees grow alike. *)

\* The chunks commit_compact folds are the top row.
LEMMA ChunksAreTop ==
    ASSUME NEW cfg, NEW V, NEW values \in Seq(V), NEW K \in Nat, NEW skip \in 0..K, Len(values) = pow2(K),
           NEW R, IsRows(cfg, values, K, skip, R)
    PROVE  [c \in 1 .. Len(values) \div pow2(skip) |-> fold_chunk(cfg, values, (c - 1) * pow2(skip), skip)] \o << >>
             = R[skip + 1]
<1>. DEFINE w == pow2(K - skip)
            top == R[skip + 1]
<1>1. PICK T : R \in Seq(Seq(T))
  BY DEF IsRows
<1>2. K - skip \in Nat /\ skip \in Nat /\ (K - skip) + skip = K /\ skip \in 0..skip /\ skip + 1 \in 1 .. skip + 1
      /\ (skip + 1) - 1 = skip /\ skip - skip = 0
  OBVIOUS
<1>3. w \in Nat \ {0} /\ pow2(skip) \in Nat \ {0} /\ pow2(K) = w * pow2(skip)
  <2>1. pow2((K - skip) + skip) = pow2(K - skip) * pow2(skip)
    BY <1>2, PowSplit
  <2>. QED BY <1>2, <2>1, PowPositive
<1>4. Len(values) \div pow2(skip) = w
  <2>. DEFINE p == pow2(skip)
  <2>1. p \in Nat \ {0} /\ w \in Int /\ Len(values) = w * p
    BY <1>3
  <2>. HIDE DEF p, w
  <2>2. (w * p) \div p = w
    BY <2>1, DivExact
  <2>. QED BY <2>1, <2>2 DEF p
<1>5. top \in Seq(T) /\ Len(top) = w
  <2>1. Len(R) = skip + 1 /\ Len(R[skip + 1]) = pow2(K - skip)
    BY <1>2 DEF IsRows
  <2>. QED BY <1>1, <1>2, <2>1
<1>6. ASSUME NEW c \in 1..w PROVE fold_chunk(cfg, values, (c - 1) * pow2(skip), skip) = top[c]
  <2>1. c - 1 \in 0 .. w - 1 /\ (c - 1) + 1 = c /\ c - 1 \in Nat /\ 1 \in 1..1
    BY <1>3
  <2>2. rebuild_chunk_levels(cfg, values, (c - 1) * pow2(skip), skip)
          = [d \in 1 .. skip + 1 |-> ChunkRow(R, c - 1, skip, d - 1)]
    BY <2>1, ChunkRebuilt
  <2>3. rebuild_chunk_levels(cfg, values, (c - 1) * pow2(skip), skip)[skip + 1] = ChunkRow(R, c - 1, skip, skip)
    BY <1>2, <2>2
  <2>4. pow2(skip - skip) = 1 /\ Offset(c - 1, skip, skip) = c - 1
    BY <1>2, <2>1, PowStep DEF Offset
  <2>5. ChunkRow(R, c - 1, skip, skip)[1] = R[skip + 1][(c - 1) + 1]
    BY <2>1, <2>4 DEF ChunkRow
  <2>. QED BY <2>1, <2>3, <2>5 DEF fold_chunk
<1>. HIDE DEF w, top
<1>. DEFINE chunks == [c \in 1..w |-> fold_chunk(cfg, values, (c - 1) * pow2(skip), skip)]
<1>7. chunks = [c \in 1..w |-> top[c]]
  BY <1>6
<1>8. chunks = top
  <2>. HIDE DEF chunks
  <2>. QED BY <1>5, <1>7
<1>9. top \o << >> = top
  BY <1>5
<1>. QED
  BY <1>4, <1>8, <1>9 DEF top

LastThen(s, p, q) == Append([s EXCEPT ![Len(s)] = p], q)

\* Changing the last level and appending one ignores the levels before.
LEMMA AppendBehind ==
    ASSUME NEW A, NEW low \in Seq(A), NEW ls \in Seq(A), Len(ls) >= 1, NEW p, NEW q
    PROVE  LastThen(low \o ls, p, q) = low \o LastThen(ls, p, q)
<1>. DEFINE B == A \cup {p, q}
            l == Len(low)
            n == Len(ls)
            both == low \o ls
            s == [both EXCEPT ![Len(both)] = p]
            t == [ls EXCEPT ![Len(ls)] = p]
<1>1. low \in Seq(B) /\ ls \in Seq(B) /\ p \in B /\ q \in B /\ l \in Nat /\ n \in Nat \ {0}
  OBVIOUS
<1>. HIDE DEF B
<1>2. s \in Seq(B) /\ Len(s) = l + n /\ \A i \in 1 .. l + n : s[i] = IF i = l + n THEN p ELSE IF i <= l THEN low[i] ELSE ls[i - l]
  <2>1. both \in Seq(B) /\ Len(both) = l + n /\ \A i \in 1 .. l + n : both[i] = IF i <= l THEN low[i] ELSE ls[i - l]
    BY <1>1
  <2>. HIDE DEF both, l, n
  <2>2. s \in Seq(B) /\ Len(s) = l + n /\ \A i \in 1 .. l + n : s[i] = IF i = l + n THEN p ELSE both[i]
    BY <1>1, <2>1
  <2>. QED BY <2>1, <2>2
<1>3. t \in Seq(B) /\ Len(t) = n /\ \A i \in 1..n : t[i] = IF i = n THEN p ELSE ls[i]
  BY <1>1
<1>4. l = Len(low)
  OBVIOUS
<1>. HIDE DEF s, t, l, n
<1>. DEFINE x == Append(s, q)
            y == Append(t, q)
            z == low \o y
<1>5. x \in Seq(B) /\ Len(x) = l + n + 1 /\ x[l + n + 1] = q /\ \A i \in 1 .. l + n : x[i] = s[i]
  BY <1>1, <1>2
<1>6. y \in Seq(B) /\ Len(y) = n + 1 /\ y[n + 1] = q /\ \A i \in 1..n : y[i] = t[i]
  BY <1>1, <1>3
<1>. HIDE DEF x, y
<1>7. z \in Seq(B) /\ Len(z) = l + n + 1 /\ \A i \in 1 .. l + n + 1 : z[i] = IF i <= l THEN low[i] ELSE y[i - l]
  BY <1>1, <1>4, <1>6
<1>. HIDE DEF z
<1>8. ASSUME NEW i \in 1 .. l + n + 1 PROVE x[i] = z[i]
  <2>1. CASE i = l + n + 1
    <3>1. i - l = n + 1 /\ ~ (i <= l)
      BY <1>1, <2>1
    <3>. QED BY <1>5, <1>6, <1>7, <2>1, <3>1
  <2>2. CASE i <= l
    <3>1. i \in 1 .. l + n /\ i # l + n
      BY <1>1, <2>2
    <3>. QED BY <1>2, <1>5, <1>7, <2>2, <3>1
  <2>3. CASE i > l /\ i # l + n + 1
    <3>1. i \in 1 .. l + n /\ i - l \in 1..n /\ ~ (i <= l) /\ (i = l + n <=> i - l = n)
      BY <1>1, <2>3
    <3>2. x[i] = s[i] /\ z[i] = y[i - l] /\ y[i - l] = t[i - l]
      BY <1>5, <1>6, <1>7, <3>1
    <3>. QED BY <1>2, <1>3, <3>1, <3>2
  <2>. QED BY <1>1, <2>1, <2>2, <2>3
<1>9. x = z
  BY <1>5, <1>7, <1>8
<1>. QED
  BY <1>9 DEF x, y, z, s, t, LastThen

\* Levels below the last one play no part in growing the next.
GrowsBehind(cfg, low, ls, level) == GrowLevel(cfg, low \o ls, level) = low \o GrowLevel(cfg, ls, level)

\* So does a pass.
LEMMA GrowBehind ==
    ASSUME NEW cfg, NEW A, NEW low \in Seq(A), NEW ls \in Seq(A), Len(ls) >= 1
    PROVE  \A level : GrowsBehind(cfg, low, ls, level)
<1>. SUFFICES ASSUME NEW level PROVE GrowLevel(cfg, low \o ls, level) = low \o GrowLevel(cfg, ls, level)
  BY DEF GrowsBehind
<1>. DEFINE all == low \o ls
            top == ls[Len(ls)]
            p == PadTo(top, cfg.arities[level])
            q == Parents(cfg, p, cfg.arities[level], level)
<1>1. all[Len(all)] = top
  OBVIOUS
<1>2. CASE Len(top) = 1
  BY <1>1, <1>2 DEF GrowLevel
<1>3. CASE Len(top) # 1
  <2>1. GrowLevel(cfg, all, level) = LastThen(all, p, q)
    BY <1>1, <1>3, Zenon DEF GrowLevel, LastThen
  <2>2. GrowLevel(cfg, ls, level) = LastThen(ls, p, q)
    BY <1>3, Zenon DEF GrowLevel, LastThen
  <2>. HIDE DEF p, q
  <2>3. LastThen(low \o ls, p, q) = low \o LastThen(ls, p, q)
    BY AppendBehind
  <2>. QED BY <2>1, <2>2, <2>3
<1>. QED
  BY <1>2, <1>3

\* Where the passes end.
LEMMA FinalizeIs ==
    ASSUME NEW cfg, WellFormed(cfg), NEW levels, NEW skip \in Nat, skip <= Len(cfg.arities)
    PROVE  \E f : /\ IsUp(f, cfg, levels, skip)
                  /\ finalize(cfg, levels, skip) = IF Len(Top(f[Len(cfg.arities) - skip])) = 1
                                                     THEN f[Len(cfg.arities) - skip] ELSE Panic
<1>. DEFINE N == Len(cfg.arities) - skip
            up == CHOOSE f : IsUp(f, cfg, levels, skip)
<1>1. IsUp(up, cfg, levels, skip)
  <2>1. skip \in Int /\ N \in Nat
    BY DEF WellFormed
  <2>2. \E f : IsUp(f, cfg, levels, skip)
    BY <2>1, UpExists, Zenon
  <2>. QED BY <2>2, Zenon
<1>2. finalize(cfg, levels, skip) = IF Len(Top(up[N])) = 1 THEN up[N] ELSE Panic
  BY DEF finalize, IsUp, Top
<1>. HIDE DEF up
<1>. QED
  BY <1>1, <1>2

\* The rows left out of the compact tree.
Below(R, skip) == SubSeq(R, 1, skip)

\* The rows are those left out and the top one.
LEMMA RowsSplit ==
    ASSUME NEW T, NEW R \in Seq(Seq(T)), NEW skip \in Nat, Len(R) = skip + 1
    PROVE  /\ Below(R, skip) \in Seq(Seq(T)) /\ Len(Below(R, skip)) = skip
           /\ \A d \in 1..skip : Below(R, skip)[d] = R[d]
           /\ R = Below(R, skip) \o <<R[skip + 1]>> /\ R[skip + 1] \in Seq(T)
<1>. DEFINE low == Below(R, skip)
            both == low \o <<R[skip + 1]>>
<1>1. low \in Seq(Seq(T)) /\ Len(low) = skip /\ \A d \in 1..skip : low[d] = R[d]
  BY DEF Below
<1>2. R[skip + 1] \in Seq(T)
  OBVIOUS
<1>. HIDE DEF low
<1>3. both \in Seq(Seq(T)) /\ Len(both) = skip + 1 /\ \A i \in 1 .. skip + 1 : both[i] = IF i <= skip THEN low[i] ELSE R[skip + 1]
  BY <1>1, <1>2
<1>. HIDE DEF both
<1>4. ASSUME NEW i \in 1 .. skip + 1 PROVE both[i] = R[i]
  <2>1. CASE i <= skip
    BY <1>1, <1>3, <2>1
  <2>2. CASE i = skip + 1
    BY <1>3, <2>2
  <2>. QED BY <2>1, <2>2
<1>5. both = R
  BY <1>3, <1>4
<1>. QED
  BY <1>1, <1>2, <1>5 DEF low, both

\* The tree in memory is the rows left out followed by the compact tree.
Splits(cfg, full, part, R, skip) ==
    full # Panic => /\ full = Below(R, skip) \o part /\ root(part) = root(full) /\ part # Panic
                    /\ \E U : part \in Seq(Seq(U)) /\ Len(part) >= 1

\* finalize from the leaves and finalize from the top row differ in those rows only.
LEMMA TreeSplits ==
    ASSUME NEW cfg, NEW V, NEW values \in Seq(V), NEW K, NEW skip, Skips(cfg, K, skip), Len(values) = pow2(K)
    PROVE  \E R : /\ IsRows(cfg, values, K, skip, R)
                  /\ Splits(cfg, finalize(cfg, <<push_leaves(cfg, values)>>, 0), finalize(cfg, <<R[skip + 1]>>, skip), R, skip)
<1>. DEFINE base == push_leaves(cfg, values)
            M == Len(cfg.arities)
            N == M - skip
<1>1. WellFormed(cfg) /\ K \in Nat /\ skip \in 0..K /\ skip \in Nat /\ skip <= M /\ M \in Nat /\ N \in Nat
      /\ M - 0 = M /\ 0 \in Nat /\ 0 <= M /\ skip + N = M
  BY DEF Skips, WellFormed
<1>2. PICK f : IsUp(f, cfg, <<base>>, 0) /\ finalize(cfg, <<base>>, 0) = IF Len(Top(f[M - 0])) = 1 THEN f[M - 0] ELSE Panic
  BY <1>1, FinalizeIs
<1>. DEFINE R == f[skip]
            chunks == R[skip + 1]
            low == Below(R, skip)
<1>3. IsRows(cfg, values, K, skip, R)
  BY <1>2, UpRows
<1>4. PICK T : R \in Seq(Seq(T))
  BY <1>3 DEF IsRows
<1>. HIDE DEF R
<1>5. low \in Seq(Seq(T)) /\ Len(low) = skip /\ R = low \o <<chunks>> /\ chunks \in Seq(T)
  <2>1. Len(R) = skip + 1
    BY <1>3 DEF IsRows
  <2>. QED BY <1>1, <1>4, <2>1, RowsSplit
<1>6. chunks # << >>
  <2>1. K - skip \in Nat /\ skip \in 0..skip
    BY <1>1
  <2>2. Len(chunks) = pow2(K - skip) /\ pow2(K - skip) # 0
    BY <1>3, <2>1, PowPositive DEF IsRows
  <2>. QED BY <2>2
<1>. HIDE DEF low, chunks
<1>7. PICK h : IsUp(h, cfg, <<chunks>>, skip) /\ finalize(cfg, <<chunks>>, skip) = IF Len(Top(h[N])) = 1 THEN h[N] ELSE Panic
  BY <1>1, FinalizeIs
<1>8. \A k \in 1..M : f[k] = GrowLevel(cfg, f[k - 1], 0 + k)
  <2>1. Passes(f, cfg, <<base>>, 0)
    BY <1>1, <1>2, UpValues
  <2>. QED BY <1>1, <2>1 DEF Passes
<1>9. h[0] = <<chunks>> /\ \A k \in 1..N : h[k] = GrowLevel(cfg, h[k - 1], skip + k)
  <2>1. Passes(h, cfg, <<chunks>>, skip)
    BY <1>1, <1>7, UpValues
  <2>. QED BY <2>1 DEF Passes
<1>10. ASSUME NEW k \in 0..N PROVE \E U : h[k] \in Seq(Seq(U)) /\ Len(h[k]) >= 1
  <2>1. \E U : Shape(cfg, skip, chunks, h[k], U)
    BY <1>1, <1>5, <1>6, <1>7, UpHasShape
  <2>. QED BY <2>1 DEF Shape
<1>. DEFINE S == {k \in Nat : k <= N => f[skip + k] = low \o h[k]}
<1>11. 0 \in S
  <2>1. skip + 0 = skip
    BY <1>1
  <2>. QED BY <1>5, <1>9, <2>1 DEF R
<1>12. ASSUME NEW k \in Nat, k \in S PROVE k + 1 \in S
  <2>. SUFFICES ASSUME k + 1 <= N PROVE f[skip + (k + 1)] = low \o h[k + 1]
    OBVIOUS
  <2>. HIDE DEF M, N
  <2>1. /\ k + 1 \in 1..N /\ k \in 0..N /\ k <= N /\ (k + 1) - 1 = k
        /\ skip + (k + 1) \in 1..M /\ (skip + (k + 1)) - 1 = skip + k /\ 0 + (skip + (k + 1)) = skip + (k + 1)
    BY <1>1
  <2>2. f[skip + k] = low \o h[k]
    BY <1>12, <2>1
  <2>3. f[skip + (k + 1)] = GrowLevel(cfg, low \o h[k], skip + (k + 1)) /\ h[k + 1] = GrowLevel(cfg, h[k], skip + (k + 1))
    BY <1>8, <1>9, <2>1, <2>2
  <2>4. PICK U : h[k] \in Seq(Seq(U)) /\ Len(h[k]) >= 1
    BY <1>10, <2>1
  <2>. DEFINE A == Seq(T) \cup Seq(U)
              hk == h[k]
  <2>5. low \in Seq(A) /\ hk \in Seq(A) /\ Len(hk) >= 1
    BY <1>5, <2>4
  <2>. HIDE DEF A, hk
  <2>6. GrowLevel(cfg, low \o hk, skip + (k + 1)) = low \o GrowLevel(cfg, hk, skip + (k + 1))
    <3>1. \A lv : GrowsBehind(cfg, low, hk, lv)
      BY <2>5, GrowBehind
    <3>. QED BY <3>1, Zenon DEF GrowsBehind
  <2>. QED BY <2>3, <2>6 DEF hk
<1>13. Nat \subseteq S
  <2>. HIDE DEF S
  <2>. QED BY <1>11, <1>12, Induct
<1>14. f[M] = low \o h[N]
  <2>1. N \in S /\ N <= N
    BY <1>1, <1>13
  <2>. QED BY <1>1, <2>1
<1>15. Top(f[M]) = Top(h[N]) /\ h[N] # << >>
  <2>1. PICK U : h[N] \in Seq(Seq(U)) /\ Len(h[N]) >= 1
    BY <1>1, <1>10
  <2>. DEFINE A == Seq(T) \cup Seq(U)
              hn == h[N]
  <2>2. low \in Seq(A) /\ hn \in Seq(A) /\ Len(hn) >= 1
    BY <1>5, <2>1
  <2>. HIDE DEF A, hn
  <2>3. (low \o hn)[Len(low \o hn)] = hn[Len(hn)] /\ hn # << >>
    BY <2>2
  <2>. QED BY <1>14, <2>3 DEF Top, hn
<1>. DEFINE full == finalize(cfg, <<base>>, 0)
            part == finalize(cfg, <<chunks>>, skip)
<1>16. full = (IF Len(Top(f[M])) = 1 THEN f[M] ELSE Panic) /\ part = IF Len(Top(f[M])) = 1 THEN h[N] ELSE Panic
  BY <1>1, <1>2, <1>7, <1>15
<1>. HIDE DEF full, part, base
<1>17. full # Panic => full = low \o part /\ Top(part) = Top(full) /\ part # Panic
  BY <1>14, <1>15, <1>16 DEF Panic
<1>19. full # Panic => \E U : part \in Seq(Seq(U)) /\ Len(part) >= 1
  <2>1. N \in 0..N
    BY <1>1
  <2>. QED BY <1>10, <1>16, <2>1
<1>18. Splits(cfg, full, part, R, skip)
  BY <1>17, <1>19 DEF Splits, low, root, Top
<1>. QED
  BY <1>3, <1>18 DEF full, part, base, chunks

----------------------------------------------------------------------------
(* Both trees open alike. *)

\* The other node of the pair that holds position idx (positions count from 0).
Buddy(idx) == IF idx % 2 = 0 THEN idx + 2 ELSE idx

SiblingsPlaced(nodes, idx, a) ==
    /\ Len(Siblings(nodes, idx, a)) = a - 1
    /\ \A i \in 1 .. a - 1 : Siblings(nodes, idx, a)[i] =
         nodes[a * (idx \div a) + (IF i - 1 < idx % a THEN i ELSE i + 1)]

\* What Siblings returns, for every place of a level.
LEMMA SiblingsInPlace ==
    ASSUME NEW T, NEW nodes \in Seq(T), NEW a \in Nat \ {0}, Whole(nodes, a)
    PROVE  \A idx \in 0 .. Len(nodes) - 1 : SiblingsPlaced(nodes, idx, a)
  BY SiblingsAre DEF SiblingsPlaced

\* Quotient and remainder.
LEMMA DivMod ==
    ASSUME NEW x \in Int, NEW p \in Nat \ {0}
    PROVE  x \div p \in Int /\ x % p \in 0 .. p - 1 /\ x = p * (x \div p) + (x % p)
  OBVIOUS

\* Even offsets keep parity.
LEMMA EvenMore ==
    ASSUME NEW m \in Nat, NEW q \in Nat
    PROVE  (2 * m + q) % 2 = q % 2
  OBVIOUS

\* With arity 2 there is one sibling, the other of the pair.
LEMMA SiblingOfPair ==
    ASSUME NEW T, NEW nodes \in Seq(T), NEW x \in Nat \ {0}, Len(nodes) = 2 * x, NEW idx \in 0 .. 2 * x - 1
    PROVE  Siblings(nodes, idx, 2) = <<nodes[Buddy(idx)]>>
<1>. DEFINE a == 2
            sib == Siblings(nodes, idx, a)
            g == [i \in 1 .. a - 1 |-> NodeOrLast(nodes, ((idx \div a) * a) + (IF i - 1 < idx % a THEN i - 1 ELSE i))]
<1>1. a \in Nat \ {0} /\ Whole(nodes, a) /\ idx \in 0 .. Len(nodes) - 1 /\ a - 1 = 1 /\ 1 \in 1 .. a - 1
  BY DEF Whole
<1>2. Buddy(idx) = a * (idx \div a) + (IF 1 - 1 < idx % a THEN 1 ELSE 1 + 1)
  BY DEF Buddy
<1>3. sib = g \o << >>
  BY DEF Siblings
<1>4. g = [i \in 1..1 |-> g[i]]
  BY <1>1
<1>. HIDE DEF g
<1>5. \E S : sib \in Seq(S)
  <2>1. g \in Seq({g[i] : i \in 1..1}) /\ g \o << >> = g
    BY <1>4, FunctionIsSeq
  <2>. QED BY <1>3, <2>1
<1>. HIDE DEF a
<1>6. SiblingsPlaced(nodes, idx, a)
  BY <1>1, SiblingsInPlace
<1>7. Len(sib) = 1 /\ sib[1] = nodes[a * (idx \div a) + (IF 1 - 1 < idx % a THEN 1 ELSE 1 + 1)]
  BY <1>1, <1>6, Zenon DEF SiblingsPlaced
<1>8. sib[1] = nodes[Buddy(idx)]
  BY <1>2, <1>7, Zenon
<1>. HIDE DEF sib
<1>9. sib = <<nodes[Buddy(idx)]>>
  BY <1>5, <1>7, <1>8
<1>. QED
  BY <1>9 DEF sib, a

\* A leaf has the same siblings in its chunk as in the whole row.
LEMMA ChunkSibling ==
    ASSUME NEW cfg, NEW values, NEW K \in Nat, NEW skip \in 0..K, NEW R, IsRows(cfg, values, K, skip, R),
           NEW c \in 0 .. pow2(K - skip) - 1, NEW d \in 1..skip, NEW q \in 0 .. pow2(skip - (d - 1)) - 1
    PROVE  Siblings(ChunkRow(R, c, skip, d - 1), q, 2) = Siblings(R[d], Offset(c, skip, d - 1) + q, 2)
<1>. DEFINE w == pow2(K - skip)
            x == pow2(skip - d)
            y == pow2(K - d)
            m == Offset(c, skip, d)
            row == ChunkRow(R, c, skip, d - 1)
<1>1. /\ d \in 0..skip /\ d - 1 \in 0..skip /\ skip \in Nat /\ K - skip \in Nat /\ K - d \in Nat /\ (d - 1) + 1 = d
      /\ (K - d) + 1 = K - (d - 1)
  OBVIOUS
<1>2. c \in Nat
  <2>1. w \in Nat
    BY <1>1, PowPositive
  <2>. HIDE DEF w
  <2>. QED BY <2>1 DEF w
<1>3. x \in Nat \ {0} /\ m \in Nat /\ m + x <= y /\ y \in Nat \ {0}
  <2>1. Placed(K, skip, d, c)
    BY <1>1, ChunkPlaced
  <2>. QED BY <1>1, <2>1, PowPositive DEF Placed
<1>4. Offset(c, skip, d - 1) = 2 * m /\ pow2(skip - (d - 1)) = 2 * x
  BY <1>1, <1>2, OffsetStep
<1>5. PICK T : R \in Seq(Seq(T))
  BY DEF IsRows
<1>6. R[d] \in Seq(T) /\ Len(R[d]) = 2 * y
  <2>1. Len(R) = skip + 1 /\ Len(R[(d - 1) + 1]) = pow2(K - (d - 1))
    BY <1>1 DEF IsRows
  <2>2. pow2(K - (d - 1)) = 2 * y
    BY <1>1, PowStep
  <2>3. d \in 1 .. Len(R)
    BY <2>1
  <2>4. \A j \in 1 .. Len(R) : R[j] \in Seq(T)
    BY <1>5
  <2>. QED BY <1>1, <2>1, <2>2, <2>3, <2>4
<1>7. row = [j \in 1 .. 2 * x |-> R[d][2 * m + j]] /\ q \in 0 .. 2 * x - 1
  BY <1>1, <1>4 DEF ChunkRow
<1>. HIDE DEF x, y, m, row
<1>8. row \in Seq(T) /\ Len(row) = 2 * x
  <2>1. ASSUME NEW j \in 1 .. 2 * x PROVE R[d][2 * m + j] \in T
    <3>1. 2 * m + j \in 1 .. 2 * y
      BY <1>3
    <3>. QED BY <1>6, <3>1
  <2>. QED BY <1>3, <1>7, <2>1
<1>9. 2 * m + q \in 0 .. 2 * y - 1 /\ Buddy(2 * m + q) = 2 * m + Buddy(q) /\ Buddy(q) \in 1 .. 2 * x
  <2>1. (2 * m + q) % 2 = q % 2
    <3>1. q \in Nat
      BY <1>3, <1>7
    <3>. QED BY <1>3, <3>1, EvenMore
  <2>2. Buddy(q) \in 1 .. 2 * x
    BY <1>3, <1>7 DEF Buddy
  <2>3. Buddy(2 * m + q) = 2 * m + Buddy(q)
    BY <1>3, <1>7, <2>1 DEF Buddy
  <2>. QED BY <1>3, <1>7, <2>2, <2>3
<1>10. Siblings(row, q, 2) = <<row[Buddy(q)]>>
  BY <1>3, <1>7, <1>8, SiblingOfPair
<1>11. Siblings(R[d], 2 * m + q, 2) = <<R[d][2 * m + Buddy(q)]>>
  <2>. DEFINE nodes == R[d]
              i == 2 * m + q
  <2>1. nodes \in Seq(T) /\ Len(nodes) = 2 * y /\ i \in 0 .. 2 * y - 1
    BY <1>6, <1>9
  <2>. HIDE DEF nodes, i
  <2>2. Siblings(nodes, i, 2) = <<nodes[Buddy(i)]>>
    BY <1>3, <2>1, SiblingOfPair
  <2>. QED BY <1>9, <2>2 DEF nodes, i
<1>12. row[Buddy(q)] = R[d][2 * m + Buddy(q)]
  BY <1>7, <1>9
<1>. QED
  BY <1>4, <1>10, <1>11, <1>12 DEF row, m

\* Where leaf `index` lies in row d of its chunk c.
InChunk(K, skip, index, d, c) ==
    /\ c \in 0 .. pow2(K - skip) - 1
    /\ index \div pow2(d) \in Nat
    /\ (index \div pow2(d)) - Offset(c, skip, d) \in 0 .. pow2(skip - d) - 1

\* Every index lies inside its chunk, on every row.
LEMMA IndexInChunk ==
    ASSUME NEW K \in Nat, NEW skip \in 0..K, NEW index \in 0 .. pow2(K) - 1, NEW d \in 0..skip
    PROVE  InChunk(K, skip, index, d, index \div pow2(skip))
<1>. DEFINE s == pow2(skip)
            p == pow2(d)
            t == pow2(skip - d)
            w == pow2(K - skip)
            c == index \div s
            r == index % s
            q == r \div p
            e == r % p
<1>1. skip \in Nat /\ d \in Nat /\ skip - d \in Nat /\ K - skip \in Nat /\ d + (skip - d) = skip /\ skip + (K - skip) = K
  OBVIOUS
<1>2. s \in Nat \ {0} /\ p \in Nat \ {0} /\ t \in Nat \ {0} /\ w \in Nat \ {0} /\ s = p * t /\ pow2(K) = s * w
  <2>1. pow2(d + (skip - d)) = p * t /\ pow2(skip + (K - skip)) = s * w
    BY <1>1, PowSplit
  <2>. QED BY <1>1, <2>1, PowPositive
<1>3. index \in Nat /\ index < s * w
  <2>. DEFINE z == pow2(K)
  <2>1. z \in Nat
    BY PowPositive
  <2>2. index \in 0 .. z - 1 /\ z = s * w
    BY <1>2
  <2>. HIDE DEF z, s, w
  <2>. QED BY <2>1, <2>2
<1>. HIDE DEF s, p, t, w
<1>4. c \in Int /\ r \in 0 .. s - 1 /\ index = s * c + r
  <2>1. index \in Int
    BY <1>3
  <2>. QED BY <1>2, <2>1, DivMod, Zenon
<1>5. q \in Int /\ e \in 0 .. p - 1 /\ r = p * q + e
  <2>1. r \in Int
    BY <1>2, <1>4
  <2>. HIDE DEF r
  <2>. QED BY <1>2, <2>1, DivMod, Zenon
<1>. HIDE DEF c, r, q, e
<1>6. c >= 0 /\ c < w
  <2>1. ~ (c <= -1)
    <3>. SUFFICES ASSUME c <= -1 PROVE FALSE
      OBVIOUS
    <3>1. s * (-1 - c) >= 0 /\ s * (-1 - c) = -s - s * c
      BY <1>2, <1>4
    <3>. QED BY <1>2, <1>3, <1>4, <3>1
  <2>2. ~ (c >= w)
    <3>. SUFFICES ASSUME c >= w PROVE FALSE
      OBVIOUS
    <3>1. s * (c - w) >= 0 /\ s * (c - w) = s * c - s * w
      BY <1>2, <1>4
    <3>. QED BY <1>2, <1>3, <1>4, <3>1
  <2>. QED BY <1>2, <1>4, <2>1, <2>2
<1>7. q >= 0 /\ q < t
  <2>1. ~ (q <= -1)
    <3>. SUFFICES ASSUME q <= -1 PROVE FALSE
      OBVIOUS
    <3>1. p * (-1 - q) >= 0 /\ p * (-1 - q) = -p - p * q
      BY <1>2, <1>5
    <3>. QED BY <1>2, <1>4, <1>5, <3>1
  <2>2. ~ (q >= t)
    <3>. SUFFICES ASSUME q >= t PROVE FALSE
      OBVIOUS
    <3>1. p * (q - t) >= 0 /\ p * (q - t) = p * q - p * t
      BY <1>2, <1>5
    <3>. QED BY <1>2, <1>4, <1>5, <3>1
  <2>. QED BY <1>2, <1>5, <2>1, <2>2
<1>8. index \div p = c * t + q /\ c * t \in Nat
  <2>. DEFINE z == c * t + q
  <2>1. z \in Int /\ c * t \in Nat
    BY <1>2, <1>4, <1>5, <1>6
  <2>2. index = p * z + e
    <3>1. s * c = p * (c * t)
      BY <1>2, <1>4
    <3>2. p * z = p * (c * t) + p * q
      BY <1>2, <1>5, <2>1
    <3>. HIDE DEF z
    <3>. QED BY <1>2, <1>4, <1>5, <2>1, <3>1, <3>2
  <2>3. index \in Int
    BY <1>3
  <2>. HIDE DEF z
  <2>4. index \div p = z
    BY <1>2, <1>5, <2>1, <2>2, <2>3, Quotient
  <2>. QED BY <2>1, <2>4 DEF z
<1>. DEFINE o == c * t
<1>9. o \in Nat /\ index \div p = o + q
  BY <1>8
<1>10. Offset(c, skip, d) = o
  BY DEF Offset, t
<1>. HIDE DEF o
<1>11. index \div p \in Nat /\ (index \div p) - o \in 0 .. t - 1
  BY <1>5, <1>7, <1>2, <1>9
<1>12. c \in 0 .. w - 1
  BY <1>2, <1>4, <1>6
<1>. QED
  BY <1>10, <1>11, <1>12 DEF c, s, p, t, w, InChunk

Descent(f, cfg, skip, N, index) == f[0] = index /\ \A m \in 1..N : f[m] = f[m - 1] \div cfg.arities[skip + m]

\* The position on each level, level by level.
LEMMA IndexValues ==
    ASSUME NEW cfg, NEW skip, NEW N \in Nat, NEW index, NEW f, IsIndex(f, cfg, skip, N, index)
    PROVE  Descent(f, cfg, skip, N, index)
<1>. DEFINE body(m) == IF m = 0 THEN index ELSE f[m - 1] \div cfg.arities[skip + m]
<1>1. f = [m \in 0..N |-> body(m)]
  BY DEF IsIndex
<1>2. \A m \in 0..N : f[m] = body(m)
  <2>. HIDE DEF body
  <2>. QED BY <1>1
<1>3. body(0) = index /\ \A m \in 1..N : body(m) = f[m - 1] \div cfg.arities[skip + m]
  OBVIOUS
<1>. HIDE DEF body
<1>4. 0 \in 0..N /\ \A m \in 1..N : m \in 0..N
  OBVIOUS
<1>. QED
  BY <1>2, <1>3, <1>4, Zenon DEF Descent

\* On the rows it is the index shifted right.
LEMMA IndexHalves ==
    ASSUME NEW cfg, NEW K, NEW skip, Skips(cfg, K, skip), NEW N \in Nat, skip <= N, NEW index \in Nat,
           NEW f, Descent(f, cfg, 0, N, index)
    PROVE  \A k \in 0..skip : f[k] = index \div pow2(k)
<1>. DEFINE S == {k \in Nat : k <= skip => f[k] = index \div pow2(k)}
<1>1. skip \in Nat /\ \A j \in 1..skip : cfg.arities[j] = 2
  BY DEF Skips
<1>2. 0 \in S
  <2>1. pow2(0) = 1 /\ index \div 1 = index
    BY PowStep
  <2>. QED BY <2>1 DEF Descent
<1>3. ASSUME NEW k \in Nat, k \in S PROVE k + 1 \in S
  <2>. SUFFICES ASSUME k + 1 <= skip PROVE f[k + 1] = index \div pow2(k + 1)
    OBVIOUS
  <2>1. k + 1 \in 1..skip /\ k + 1 \in 1..N /\ (k + 1) - 1 = k /\ 0 + (k + 1) = k + 1 /\ f[k] = index \div pow2(k)
    BY <1>1, <1>3
  <2>2. f[k + 1] = f[k] \div cfg.arities[k + 1] /\ cfg.arities[k + 1] = 2
    BY <1>1, <2>1 DEF Descent
  <2>. DEFINE p == pow2(k)
  <2>3. p \in Nat \ {0} /\ pow2(k + 1) = 2 * p
    BY PowPositive, PowStep
  <2>. HIDE DEF p
  <2>4. (index \div p) \div 2 = index \div (2 * p)
    BY <2>3, DivTwice
  <2>. QED BY <2>1, <2>2, <2>3, <2>4 DEF p
<1>4. Nat \subseteq S
  <2>. HIDE DEF S
  <2>. QED BY <1>2, <1>3, Induct
<1>. QED
  BY <1>1, <1>4

Continues(f, skip, n, g) == \A k \in 0..n : f[skip + k] = g[k]

\* Above them the two trees go through the same positions.
LEMMA IndexAbove ==
    ASSUME NEW cfg, NEW skip \in Nat, NEW n \in Nat, NEW index, NEW f, Descent(f, cfg, 0, skip + n, index),
           NEW g, Descent(g, cfg, skip, n, f[skip])
    PROVE  Continues(f, skip, n, g)
<1>. DEFINE S == {k \in Nat : k <= n => f[skip + k] = g[k]}
<1>1. 0 \in S
  BY DEF Descent
<1>2. ASSUME NEW k \in Nat, k \in S PROVE k + 1 \in S
  <2>. SUFFICES ASSUME k + 1 <= n PROVE f[skip + (k + 1)] = g[k + 1]
    OBVIOUS
  <2>1. /\ k + 1 \in 1..n /\ (k + 1) - 1 = k /\ skip + (k + 1) \in 1 .. skip + n
        /\ (skip + (k + 1)) - 1 = skip + k /\ 0 + (skip + (k + 1)) = skip + (k + 1) /\ f[skip + k] = g[k]
    BY <1>2
  <2>2. f[skip + (k + 1)] = f[skip + k] \div cfg.arities[skip + (k + 1)]
    BY <2>1 DEF Descent
  <2>3. g[k + 1] = g[k] \div cfg.arities[skip + (k + 1)]
    BY <2>1 DEF Descent
  <2>. QED BY <2>1, <2>2, <2>3
<1>3. Nat \subseteq S
  <2>. HIDE DEF S
  <2>. QED BY <1>1, <1>2, Induct
<1>. QED
  BY <1>3 DEF Continues

\* The siblings on the path of `index`, level by level.
PathSteps(f, cfg, levels, skip, n, index) ==
    /\ Descent(f, cfg, skip, n, index)
    /\ PathAbove(cfg, levels, skip, index) =
         [k \in 1..n |-> Siblings(levels[k], f[k - 1], cfg.arities[skip + k])]

\* PathAbove has the siblings at those positions.
LEMMA PathIs ==
    ASSUME NEW cfg, NEW levels, NEW skip, Len(levels) - 1 \in Nat, NEW index
    PROVE  \E f : PathSteps(f, cfg, levels, skip, Len(levels) - 1, index)
<1>. DEFINE n == Len(levels) - 1
            ix == CHOOSE f : IsIndex(f, cfg, skip, n, index)
            g == [k \in 1..n |-> Siblings(levels[k], ix[k - 1], cfg.arities[skip + k])]
<1>1. IsIndex(ix, cfg, skip, n, index)
  <2>1. \E f : IsIndex(f, cfg, skip, n, index)
    BY IndexExists
  <2>. QED BY <2>1, Zenon
<1>2. PathAbove(cfg, levels, skip, index) = g \o << >>
  BY DEF PathAbove, IsIndex
<1>. HIDE DEF ix
<1>3. g = [k \in 1..n |-> g[k]]
  OBVIOUS
<1>4. g \o << >> = g
  <2>. HIDE DEF g
  <2>. QED BY <1>3, FunctionIsSeq
<1>5. Descent(ix, cfg, skip, n, index)
  BY <1>1, IndexValues
<1>. QED
  BY <1>2, <1>4, <1>5 DEF PathSteps

OnInterval(f, p) == f = [i \in 1..p |-> f[i]]
Concatenation(f, p, g, q) == [i \in 1 .. p + q |-> IF i <= p THEN f[i] ELSE g[i - p]]

\* Concatenation of functions on intervals.
LEMMA FunctionsJoined ==
    ASSUME NEW p \in Nat, NEW q \in Nat, NEW f, OnInterval(f, p), NEW g, OnInterval(g, q)
    PROVE  f \o g = Concatenation(f, p, g, q)
<1>. DEFINE F == {f[i] : i \in 1..p}
            G == {g[i] : i \in 1..q}
            A == F \cup G
<1>1. f \in Seq(F) /\ Len(f) = p /\ g \in Seq(G) /\ Len(g) = q
  BY FunctionIsSeq DEF OnInterval
<1>. HIDE DEF F, G
<1>2. f \in Seq(A) /\ g \in Seq(A)
  BY <1>1
<1>. HIDE DEF A
<1>. QED
  BY <1>1, <1>2 DEF Concatenation, OnInterval

\* `part` is the compact tree whose missing rows are those of R.
IsPart(cfg, values, K, R, skip, part) ==
    /\ Skips(cfg, K, skip) /\ Len(values) = pow2(K) /\ skip = skip_of(cfg, Len(values))
    /\ IsRows(cfg, values, K, skip, R)
    /\ IsTree(cfg, values, Below(R, skip) \o part)
    /\ \E U : part \in Seq(Seq(U)) /\ Len(part) >= 1

\* For every index the compact tree rebuilds the opening of the tree in memory.
LEMMA OpensAlike ==
    ASSUME NEW cfg, NEW V, NEW values \in Seq(V), NEW K, NEW R, NEW skip, NEW part, IsPart(cfg, values, K, R, skip, part),
           NEW index \in 0 .. Len(values) - 1
    PROVE  open_compact(cfg, part, values, index) = open(cfg, Below(R, skip) \o part, index)
<1>. DEFINE c == index \div pow2(skip)
            base == c * pow2(skip)
            low == rebuild_chunk_levels(cfg, values, base, skip)
            local(d) == (index \div pow2(d)) - (base \div pow2(d))
            bottom == [d \in 1..skip |-> Siblings(low[d], local(d - 1), 2)]
            below == Below(R, skip)
            full == below \o part
            Np == Len(part) - 1
            above == PathAbove(cfg, part, skip, c)
            path == PathAbove(cfg, full, 0, index)
<1>1. open_compact(cfg, part, values, index)
        = [leaf |-> low[1][index - base + 1], index |-> index, path |-> bottom \o above]
  <2>1. skip = skip_of(cfg, Len(values))
    BY DEF IsPart
  <2>. QED BY <2>1 DEF open_compact
<1>2. open(cfg, full, index) = [leaf |-> full[1][index + 1], path |-> path, index |-> index]
  BY DEF open
<1>3. Skips(cfg, K, skip) /\ IsRows(cfg, values, K, skip, R) /\ IsTree(cfg, values, full) /\ Len(values) = pow2(K)
  BY DEF IsPart
<1>25. PICK U : part \in Seq(Seq(U)) /\ Len(part) >= 1
  BY DEF IsPart
<1>4. /\ WellFormed(cfg) /\ K \in Nat /\ skip \in 0..K /\ skip \in Nat /\ \A j \in 1..skip : cfg.arities[j] = 2
  BY <1>3 DEF Skips
<1>5. index \in Nat /\ index \in 0 .. pow2(K) - 1
  BY <1>3
<1>6. ASSUME NEW d \in 0..skip PROVE InChunk(K, skip, index, d, c)
  BY <1>4, <1>5, IndexInChunk
<1>7. c \in 0 .. pow2(K - skip) - 1
  <2>1. 0 \in 0..skip
    BY <1>4
  <2>. QED BY <1>6, <2>1 DEF InChunk
<1>8. low = [d \in 1 .. skip + 1 |-> ChunkRow(R, c, skip, d - 1)]
  BY <1>3, <1>4, <1>7, ChunkRebuilt
<1>9. ASSUME NEW d \in 0..skip
      PROVE  /\ base \div pow2(d) = Offset(c, skip, d) /\ Offset(c, skip, d) \in Nat /\ index \div pow2(d) \in Nat
             /\ local(d) \in 0 .. pow2(skip - d) - 1 /\ Offset(c, skip, d) + local(d) = index \div pow2(d)
  <2>1. Placed(K, skip, d, c)
    BY <1>4, <1>7, ChunkPlaced
  <2>2. base \div pow2(d) = Offset(c, skip, d) /\ Offset(c, skip, d) \in Nat
    BY <2>1 DEF Placed
  <2>. DEFINE o == Offset(c, skip, d)
              i == index \div pow2(d)
  <2>3. i \in Nat /\ i - o \in 0 .. pow2(skip - d) - 1 /\ local(d) = i - o /\ o \in Nat
    BY <1>6, <2>2 DEF InChunk
  <2>. HIDE DEF o, i, local
  <2>4. o + local(d) = i
    BY <2>3
  <2>. QED BY <2>2, <2>3, <2>4 DEF o, i
<1>10. PICK T : R \in Seq(Seq(T))
  BY <1>3 DEF IsRows
<1>11. below \in Seq(Seq(T)) /\ Len(below) = skip /\ \A d \in 1..skip : below[d] = R[d]
  <2>1. Len(R) = skip + 1
    BY <1>3 DEF IsRows
  <2>. QED BY <1>4, <1>10, <2>1, RowsSplit
<1>12. low[1][index - base + 1] = full[1][index + 1]
  <2>1. open(cfg, full, index).leaf = compute_leaf_hash(cfg, index, values[index + 1])
    BY <1>3, <1>4, OpenVerifies
  <2>2. full[1][index + 1] = compress_leaf(cfg, index, values[index + 1])
    <3>. HIDE DEF full, path
    <3>. QED BY <1>2, <2>1 DEF compute_leaf_hash
  <2>3. 0 \in 0..skip /\ 1 \in 1 .. skip + 1 /\ 1 - 1 = 0 /\ skip - 0 = skip /\ 0 + 1 = 1
    BY <1>4
  <2>. DEFINE o == Offset(c, skip, 0)
              p == pow2(skip)
              l == local(0)
  <2>4. pow2(0) = 1
    BY PowStep
  <2>5. o = base /\ o \in Nat /\ l \in 0 .. p - 1 /\ p \in Nat
    <3>1. o = base
      BY <2>3 DEF Offset
    <3>. QED BY <1>4, <1>9, <2>3, <3>1, PowPositive
  <2>6. l = index - base /\ o + l = index
    <3>1. index \div 1 = index
      BY <1>5
    <3>2. base \div pow2(0) = o
      BY <1>9, <2>3
    <3>3. l = index - o
      BY <2>4, <3>1, <3>2
    <3>. HIDE DEF o, l, base
    <3>. QED BY <1>5, <2>5, <3>3
  <2>7. low[1] = ChunkRow(R, c, skip, 0)
    BY <1>8, <2>3
  <2>8. ChunkRow(R, c, skip, 0) = [j \in 1..p |-> R[1][o + j]]
    BY <2>3 DEF ChunkRow
  <2>. HIDE DEF o, p, l, base, low
  <2>9. (index - base) + 1 \in 1..p /\ o + ((index - base) + 1) = index + 1
    BY <1>5, <2>5, <2>6
  <2>10. low[1][(index - base) + 1] = R[1][index + 1]
    <3>. DEFINE j == (index - base) + 1
    <3>1. j \in 1..p /\ o + j = index + 1
      BY <2>9
    <3>. HIDE DEF j
    <3>2. low[1][j] = R[1][o + j]
      BY <2>7, <2>8, <3>1
    <3>. QED BY <3>1, <3>2 DEF j
  <2>11. R[1] = push_leaves(cfg, values)
    BY <1>3 DEF IsRows
  <2>12. push_leaves(cfg, values)[index + 1] = compress_leaf(cfg, index, values[index + 1])
    <3>1. index + 1 \in 1 .. Len(values) /\ (index + 1) - 1 = index
      OBVIOUS
    <3>2. push_leaves(cfg, values)[index + 1] = compress_leaf(cfg, (index + 1) - 1, values[index + 1])
      BY <3>1, LeavesPushed
    <3>. QED BY <3>1, <3>2
  <2>. QED BY <2>2, <2>10, <2>11, <2>12
<1>13. Np \in Nat /\ Len(full) - 1 = skip + Np /\ Len(full) - 1 \in Nat
       /\ (\A k \in 1..skip : full[k] = R[k]) /\ \A k \in 1 .. Np + 1 : full[skip + k] = part[k]
  <2>. DEFINE A == Seq(T) \cup Seq(U)
  <2>1. below \in Seq(A) /\ part \in Seq(A) /\ Len(below) = skip /\ \A d \in 1..skip : below[d] = R[d]
    BY <1>11, <1>25
  <2>2. Len(part) \in Nat \ {0}
    BY <1>25
  <2>. HIDE DEF A, below
  <2>3. Len(full) = skip + Len(part) /\ Len(full) \in Nat
    <3>1. Len(full) = Len(below) + Len(part)
      BY <2>1, Joined
    <3>. HIDE DEF full
    <3>. QED BY <1>4, <2>1, <2>2, <3>1
  <2>4. ASSUME NEW k \in 1..skip PROVE full[k] = R[k]
    <3>1. full[k] = below[k]
      BY <1>4, <2>1, <2>2
    <3>. QED BY <2>1, <3>1
  <2>5. ASSUME NEW k \in 1 .. Len(part) PROVE full[skip + k] = part[k]
    BY <1>4, <2>1, <2>2
  <2>6. Np \in Nat /\ Np + 1 = Len(part) /\ Len(full) - 1 = skip + Np /\ skip + Np \in Nat
    BY <1>4, <2>2, <2>3
  <2>. QED BY <2>4, <2>5, <2>6, Zenon
<1>22. Np \in Nat
  BY <1>13
<1>14. PICK f : PathSteps(f, cfg, full, 0, skip + Np, index)
  <2>1. PICK f : PathSteps(f, cfg, full, 0, Len(full) - 1, index)
    <3>. HIDE DEF full
    <3>. QED BY <1>13, PathIs
  <2>. QED BY <1>13, <2>1, Zenon
<1>15. PICK g : PathSteps(g, cfg, part, skip, Np, c)
  BY <1>22, PathIs
<1>23. path = [k \in 1 .. skip + Np |-> Siblings(full[k], f[k - 1], cfg.arities[0 + k])]
  BY <1>14 DEF PathSteps
<1>24. above = [k \in 1..Np |-> Siblings(part[k], g[k - 1], cfg.arities[skip + k])]
  BY <1>15 DEF PathSteps
<1>16. \A k \in 0..skip : f[k] = index \div pow2(k)
  <2>1. skip + Np \in Nat /\ skip <= skip + Np
    BY <1>4, <1>22
  <2>. QED BY <1>3, <1>5, <1>14, <2>1, IndexHalves DEF PathSteps
<1>17. \A k \in 0..Np : f[skip + k] = g[k]
  <2>1. f[skip] = c
    BY <1>4, <1>16
  <2>2. Descent(f, cfg, 0, skip + Np, index) /\ Descent(g, cfg, skip, Np, f[skip])
    BY <1>14, <1>15, <2>1, Zenon DEF PathSteps
  <2>. HIDE DEF c, Np
  <2>3. Continues(f, skip, Np, g)
    BY <1>4, <1>22, <2>2, IndexAbove
  <2>. QED BY <2>3 DEF Continues
<1>18. bottom \o above = [i \in 1 .. skip + Np |-> IF i <= skip THEN bottom[i] ELSE above[i - skip]]
  <2>1. OnInterval(bottom, skip)
    BY DEF OnInterval
  <2>2. OnInterval(above, Np)
    BY <1>24 DEF OnInterval
  <2>. HIDE DEF bottom, above, Np
  <2>3. bottom \o above = Concatenation(bottom, skip, above, Np)
    BY <1>4, <1>22, <2>1, <2>2, FunctionsJoined
  <2>. QED BY <2>3 DEF Concatenation
<1>19. ASSUME NEW k \in 1 .. skip + Np
       PROVE  (IF k <= skip THEN bottom[k] ELSE above[k - skip]) = Siblings(full[k], f[k - 1], cfg.arities[0 + k])
  <2>1. CASE k <= skip
    <3>1. k \in 1..skip /\ k - 1 \in 0..skip /\ k \in 1 .. skip + 1 /\ 0 + k = k
      BY <1>4, <2>1
    <3>2. bottom[k] = Siblings(low[k], local(k - 1), 2)
      BY <3>1
    <3>3. low[k] = ChunkRow(R, c, skip, k - 1)
      BY <1>8, <3>1
    <3>4. local(k - 1) \in 0 .. pow2(skip - (k - 1)) - 1 /\ Offset(c, skip, k - 1) + local(k - 1) = index \div pow2(k - 1)
      BY <1>9, <3>1
    <3>5. f[k - 1] = index \div pow2(k - 1) /\ full[k] = R[k] /\ cfg.arities[0 + k] = 2
      BY <1>4, <1>13, <1>16, <3>1
    <3>. DEFINE q == local(k - 1)
    <3>6. q \in 0 .. pow2(skip - (k - 1)) - 1 /\ Offset(c, skip, k - 1) + q = f[k - 1] /\ bottom[k] = Siblings(ChunkRow(R, c, skip, k - 1), q, 2)
      BY <3>2, <3>3, <3>4, <3>5
    <3>. HIDE DEF q, bottom, full, c
    <3>7. Siblings(ChunkRow(R, c, skip, k - 1), q, 2) = Siblings(R[k], Offset(c, skip, k - 1) + q, 2)
      <4>1. IsRows(cfg, values, K, skip, R) /\ K \in Nat /\ skip \in 0..K
        BY <1>3, <1>4
      <4>2. k \in 1..skip /\ q \in 0 .. pow2(skip - (k - 1)) - 1
        BY <3>1, <3>6
      <4>. QED BY <1>7, <4>1, <4>2, ChunkSibling
    <3>. QED BY <2>1, <3>5, <3>6, <3>7
  <2>2. CASE ~ (k <= skip)
    <3>1. k - skip \in 1..Np /\ k - skip \in 1 .. Np + 1 /\ (k - skip) - 1 \in 0..Np /\ skip + (k - skip) = k /\ 0 + k = k
          /\ skip + ((k - skip) - 1) = k - 1
      <4>. HIDE DEF Np
      <4>. QED BY <1>4, <1>22, <2>2
    <3>2. above[k - skip] = Siblings(part[k - skip], g[(k - skip) - 1], cfg.arities[skip + (k - skip)])
      BY <1>24, <3>1
    <3>3. full[skip + (k - skip)] = part[k - skip] /\ f[skip + ((k - skip) - 1)] = g[(k - skip) - 1]
      BY <1>13, <1>17, <3>1
    <3>. HIDE DEF above, full
    <3>. QED BY <2>2, <3>1, <3>2, <3>3
  <2>. QED BY <2>1, <2>2
<1>20. bottom \o above = path
  <2>. HIDE DEF bottom, above, path, full, Np
  <2>. QED BY <1>23, <1>18, <1>19
<1>. HIDE DEF bottom, above, path, full, low, base
<1>21. open_compact(cfg, part, values, index) = open(cfg, full, index)
  BY <1>1, <1>2, <1>12, <1>20
<1>. QED
  BY <1>21 DEF full

----------------------------------------------------------------------------
(* The compact tree of every committed case. *)

\* The compact tree of a case is the tree in memory without its rows.
LEMMA CompactSplits ==
    ASSUME NEW s, CaseOK(s), NEW k \in 0 .. s.n, pow2(k) = s.n
    PROVE  LET skip == skip_of(s.cfg, Len(s.values))
           IN  \E K, R : /\ Skips(s.cfg, K, skip) /\ Len(s.values) = pow2(K) /\ IsRows(s.cfg, s.values, K, skip, R)
                         /\ Splits(s.cfg, Levels(s), commit_compact(s.cfg, s.values), R, skip)
<1>. DEFINE cfg == s.cfg
            values == s.values
            n == Len(values)
            skip == skip_of(cfg, n)
            chunks == [c \in 1 .. n \div pow2(skip) |-> fold_chunk(cfg, values, (c - 1) * pow2(skip), skip)] \o << >>
<1>1. WellFormed(cfg) /\ values \in Seq(Nat) /\ n = s.n /\ n \in Nat
  BY DEF CaseOK
<1>2. PICK K : pow2(K) = n /\ Skips(cfg, K, skip)
  <2>1. k \in 0..n /\ pow2(k) = n
    BY <1>1
  <2>. HIDE DEF cfg, n
  <2>. QED BY <1>1, <2>1, SkipOfSkips
<1>3. commit_compact(cfg, values) = finalize(cfg, <<chunks>>, skip)
  BY DEF commit_compact
<1>4. Levels(s) = finalize(cfg, <<push_leaves(cfg, values)>>, 0)
  BY DEF Levels
<1>. HIDE DEF cfg, values, skip
<1>5. PICK R : /\ IsRows(cfg, values, K, skip, R)
               /\ Splits(cfg, finalize(cfg, <<push_leaves(cfg, values)>>, 0), finalize(cfg, <<R[skip + 1]>>, skip), R, skip)
  BY <1>1, <1>2, TreeSplits
<1>6. chunks = R[skip + 1]
  <2>1. K \in Nat /\ skip \in 0..K
    BY <1>2 DEF Skips
  <2>. QED BY <1>1, <1>2, <1>5, <2>1, ChunksAreTop
<1>. HIDE DEF chunks
<1>7. Splits(cfg, Levels(s), commit_compact(cfg, values), R, skip)
  BY <1>3, <1>4, <1>5, <1>6
<1>. QED
  BY <1>2, <1>5, <1>7 DEF cfg, values, skip

\* Same root, same openings.
LEMMA CompactAgrees ==
    ASSUME NEW s, CaseOK(s), Compact(s) # Panic
    PROVE  /\ root(Compact(s)) = root(Levels(s))
           /\ \A index \in 0 .. s.n - 1 :
                open_compact(s.cfg, Compact(s), s.values, index) = open(s.cfg, Levels(s), index)
<1>. DEFINE cfg == s.cfg
            values == s.values
            skip == skip_of(cfg, Len(values))
            part == Compact(s)
            full == Levels(s)
<1>1. PICK k \in 0 .. s.n : pow2(k) = s.n
  BY DEF Compact
<1>2. part = commit_compact(cfg, values)
  BY <1>1 DEF Compact
<1>3. PICK K, R : /\ Skips(cfg, K, skip) /\ Len(values) = pow2(K) /\ IsRows(cfg, values, K, skip, R)
                  /\ Splits(cfg, full, part, R, skip)
  BY <1>1, <1>2, CompactSplits
<1>4. full # Panic /\ IsTree(cfg, values, full)
  BY CommitBuilds
<1>5. values \in Seq(Nat) /\ Len(values) = s.n
  BY DEF CaseOK
<1>. HIDE DEF cfg, values, part, full
<1>6. full = Below(R, skip) \o part /\ root(part) = root(full)
  BY <1>3, <1>4 DEF Splits
<1>7. IsPart(cfg, values, K, R, skip, part)
  <2>1. IsTree(cfg, values, Below(R, skip) \o part)
    BY <1>4, <1>6
  <2>2. \E U : part \in Seq(Seq(U)) /\ Len(part) >= 1
    BY <1>3, <1>4 DEF Splits
  <2>. QED BY <1>3, <2>1, <2>2 DEF IsPart
<1>8. ASSUME NEW index \in 0 .. Len(values) - 1
      PROVE  open_compact(cfg, part, values, index) = open(cfg, full, index)
  <2>. HIDE DEF skip
  <2>1. open_compact(cfg, part, values, index) = open(cfg, Below(R, skip) \o part, index)
    BY <1>5, <1>7, OpensAlike
  <2>. QED BY <1>6, <2>1
<1>. QED
  BY <1>5, <1>6, <1>8 DEF cfg, values, part, full

\* For trees of every size and arity: the configuration has an arity for every
\* level, the compact tree has the root of the tree in memory, and for every
\* index both give the same opening, which verifies and carries the committed
\* leaf; no climb to the root starts from a value that was not committed.
THEOREM Binding == MerkleSpec => []MerkleBinding
<1>1. MInv => TreesAgree
  <2>. SUFFICES ASSUME MInv, st.phase = "tree"
                PROVE  st.levels # Panic /\ (st.compact # Panic => root(st.compact) = root(st.levels))
    BY DEF TreesAgree
  <2>1. CaseOK(st) /\ st.levels = Levels(st) /\ st.compact = Compact(st)
    BY DEF MInv, StateOK, Built
  <2>. QED BY <2>1, CommitBuilds, CompactAgrees
<1>2. MInv => OpeningsAgree
  <2>. SUFFICES ASSUME MInv, st.phase = "opened" PROVE st.c = st.o
    BY DEF OpeningsAgree
  <2>1. /\ CaseOK(st) /\ st.index \in 0 .. st.n - 1 /\ st.o = open(st.cfg, Levels(st), st.index)
        /\ st.c = IF Compact(st) = Panic THEN open(st.cfg, Levels(st), st.index)
                  ELSE open_compact(st.cfg, Compact(st), st.values, st.index)
    BY DEF MInv, StateOK, Opened
  <2>2. CASE Compact(st) = Panic
    BY <2>1, <2>2
  <2>3. CASE Compact(st) # Panic
    <3>1. open_compact(st.cfg, Compact(st), st.values, st.index) = open(st.cfg, Levels(st), st.index)
      BY <2>1, <2>3, CompactAgrees
    <3>. QED BY <2>1, <2>3, <3>1
  <2>. QED BY <2>2, <2>3
<1>. QED
  BY <1>1, <1>2, Invariance, OpeningsVerify, ForgeriesRefused, PTL DEF MerkleBinding
============================================================================
