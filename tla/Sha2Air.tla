----------------------------- MODULE Sha2Air -----------------------------
(***************************************************************************)
(* The SHA-256 and SHA-512 trace builders and constraint systems of        *)
(* deep_ali/src/sha256_air.rs and sha512_air.rs.  The two files are one    *)
(* construction: SHA-256 keeps a word in one cell, SHA-512 in a low and a  *)
(* high limb joined by carries.  A variant v gives the limbs of a word,    *)
(* the bits of a limb, the rounds, the rotations and the constants; the    *)
(* message is a sequence of words and the length takes two words, as the   *)
(* 8 of 64 and 16 of 128 bytes do.  A cell holds an element of the native  *)
(* field; a word is in range where the code decomposes it into bits.       *)
(*                                                                         *)
(* The cells determined by their defining constraint alone (the bits and   *)
(* the xor intermediates) are left out; the packed words they define stay. *)
(***************************************************************************)
EXTENDS ProofUnit, Integers, SequencesExt

CONSTANTS ShaVariants,        \* the parameter records of the two files, scaled
          ROWS_PER_BLOCK,     \* rows of a block: the rounds, the digest row, idle rows
          HashMessages,       \* messages hashed
          WalkedMessages,     \* messages for which every accepted trace is walked
          StartWindows,       \* contents of the unconstrained window of row 0
          OddWords            \* sets of words for which the prover picks another final carry

Radix(v) == 2 ^ v.limbBits
WordSize(v) == 2 ^ (v.limbBits * v.limbs)
WordLen(v) == v.limbBits * v.limbs
limbs(v, x) == [j \in 1..v.limbs |-> (x \div Radix(v) ^ (j - 1)) % Radix(v)] \o << >>

----------------------------------------------------------------------------
(* The native functions on words. *)

bit(x, i) == (x \div 2 ^ i) % 2
\* f(0) + 2 f(1) + ... over n bits.
Weighted(n, f(_)) == LET sum[i \in 0..n] == IF i = 0 THEN 0 ELSE sum[i - 1] + f(i - 1) * 2 ^ (i - 1) IN sum[n]
FromBits(v, f(_)) == Weighted(WordLen(v), f)
rotr(v, x, n) == (x \div 2 ^ n) + (x % 2 ^ n) * 2 ^ (WordLen(v) - n)
shr(x, n) == x \div 2 ^ n
Xor3(v, x, y, z) == FromBits(v, LAMBDA i : (bit(x, i) + bit(y, i) + bit(z, i)) % 2)
big_sigma(v, r, x) == Xor3(v, rotr(v, x, r[1]), rotr(v, x, r[2]), rotr(v, x, r[3]))
small_sigma(v, r, x) == Xor3(v, rotr(v, x, r[1]), rotr(v, x, r[2]), shr(x, r[3]))
ch(v, x, y, z) == FromBits(v, LAMBDA i : IF bit(x, i) = 1 THEN bit(y, i) ELSE bit(z, i))
maj(v, x, y, z) == FromBits(v, LAMBDA i : (bit(x, i) + bit(y, i) + bit(z, i)) \div 2)

pad_message_to_blocks(v, message) ==
    LET n == Len(message)
        mlen == (n * WordLen(v)) % (WordSize(v) ^ 2)
        zeros == (14 - (n + 1)) % 16
        buf == message \o <<2 ^ (WordLen(v) - 1)>> \o [i \in 1..zeros |-> 0]
                       \o <<mlen \div WordSize(v), mlen % WordSize(v)>>
    IN  [b \in 1 .. Len(buf) \div 16 |-> SubSeq(buf, 16 * b - 15, 16 * b)]

Schedule(v, block) ==
    FoldLeft(LAMBDA w, t : Append(w, (small_sigma(v, v.ss1, w[t - 2]) + w[t - 7]
                                       + small_sigma(v, v.ss0, w[t - 15]) + w[t - 16]) % WordSize(v)),
             block, [i \in 1 .. v.rounds - 16 |-> i + 16])

Round(v, s, kt, wt) ==
    LET t1 == s[8] + big_sigma(v, v.s1, s[5]) + ch(v, s[5], s[6], s[7]) + kt + wt
        t2 == big_sigma(v, v.s0, s[1]) + maj(v, s[1], s[2], s[3])
    IN  <<(t1 + t2) % WordSize(v), s[1], s[2], s[3], (s[4] + t1) % WordSize(v), s[5], s[6], s[7]>>

\* The working state before every round and after the last one.
state_at(v, iv, w) ==
    FoldLeft(LAMBDA ss, t : Append(ss, Round(v, ss[t], v.K[t], w[t])), <<iv>>, [t \in 1..v.rounds |-> t])

compress_block_native(v, block, iv) == state_at(v, iv, Schedule(v, block))[v.rounds + 1]
AddWords(v, x, y) == [k \in 1..8 |-> (x[k] + y[k]) % WordSize(v)] \o << >>
sha_native(v, blocks) ==
    FoldLeft(LAMBDA h, b : AddWords(v, h, compress_block_native(v, b, h)), v.IV, blocks)

----------------------------------------------------------------------------
(* The trace the code builds. *)

\* Limb by limb, what is left above the radix when the sums are added up with
\* the carry of the limb below.
FillCarries(v, sums) ==
    FoldLeft(LAMBDA cs, s : Append(cs, (s + (IF cs = << >> THEN 0 ELSE cs[Len(cs)])) \div Radix(v)),
             << >>, sums)
FillOut(v, sums) ==
    LET cs == FillCarries(v, sums)
    IN  [j \in 1..v.limbs |-> (sums[j] + (IF j = 1 THEN 0 ELSE cs[j - 1])) % Radix(v)] \o << >>
SumLimbs(v, words) == [j \in 1..v.limbs |-> FoldLeft(LAMBDA a, x : a + limbs(v, x)[j], 0, words)] \o << >>

fill_row(v, r, iv, digest, ss, w) ==
    LET s == ss[IF r < v.rounds THEN r + 1 ELSE v.rounds + 1]
        W(t) == IF t \in 0 .. v.rounds - 1 THEN w[t + 1] ELSE 0
        kt == IF r < v.rounds THEN v.K[r + 1] ELSE 0
        s0 == big_sigma(v, v.s0, s[1])    s1 == big_sigma(v, v.s1, s[5])
        c == ch(v, s[5], s[6], s[7])      m == maj(v, s[1], s[2], s[3])
        g0 == small_sigma(v, v.ss0, W(r - 14))
        g1 == small_sigma(v, v.ss1, W(r - 1))
        t1 == SumLimbs(v, <<s[8], s1, c, kt, W(r)>>)
        t2 == SumLimbs(v, <<s0, m>>)
        t1lo == FillOut(v, t1)
        t2lo == FillOut(v, t2)
        d == limbs(v, s[4])
        active(sums) == IF r < v.rounds THEN FillCarries(v, sums) ELSE [j \in 1..v.limbs |-> 0]
        cells(x) == [k \in DOMAIN x |-> limbs(v, x[k])] \o << >>
    IN  [A |-> cells(s), H |-> cells(IF r <= v.rounds THEN iv ELSE digest),
         win |-> cells([k \in 1..15 |-> W(r - 16 + k)]), W |-> limbs(v, W(r)),
         S0 |-> limbs(v, s0), S1 |-> limbs(v, s1), CH |-> limbs(v, c), MAJ |-> limbs(v, m),
         SS0 |-> limbs(v, g0), SS1 |-> limbs(v, g1),
         T1 |-> t1lo, T1C |-> FillCarries(v, t1), T2 |-> t2lo, T2C |-> FillCarries(v, t2),
         WSC |-> FillCarries(v, SumLimbs(v, <<W(r - 15), g0, W(r - 6), g1>>)),
         NAC |-> active([j \in 1..v.limbs |-> t1lo[j] + t2lo[j]]),
         NEC |-> active([j \in 1..v.limbs |-> d[j] + t1lo[j]])]

fill_block(v, block, iv) ==
    LET w == Schedule(v, block)
        ss == state_at(v, iv, w)
        digest == AddWords(v, iv, ss[v.rounds + 1])
    IN  [i \in 1..ROWS_PER_BLOCK |-> fill_row(v, i - 1, iv, digest, ss, w)] \o << >>

\* All blocks, chained, and the last row repeated up to a power of two.
build_sha_trace_multi(v, blocks) ==
    LET filled == FoldLeft(LAMBDA t, b : [rows |-> t.rows \o fill_block(v, b, t.iv),
                                          iv |-> AddWords(v, t.iv, compress_block_native(v, b, t.iv))],
                           [rows |-> << >>, iv |-> v.IV], blocks).rows
        height == next_power_of_two(Len(filled))
    IN  filled \o [i \in 1 .. height - Len(filled) |-> filled[Len(filled)]]

----------------------------------------------------------------------------
(* The constraints. *)

InField(x) == x % NATIVE
BitsOf(v, cells) == [i \in 0 .. WordLen(v) - 1 |-> bit(cells[(i \div v.limbBits) + 1], i % v.limbBits)]
Decomposed(v, cells) == \A j \in 1..v.limbs : cells[j] \in 0 .. Radix(v) - 1
xor_poly(x, y) == x + y - 2 * x * y
pack(v, f(_)) ==
    [j \in 1..v.limbs |-> Weighted(v.limbBits, LAMBDA i : f((j - 1) * v.limbBits + i))] \o << >>

SigmaCells(v, r, cells) ==
    LET b == BitsOf(v, cells)  n == WordLen(v)
    IN  pack(v, LAMBDA i : xor_poly(xor_poly(b[(i + r[1]) % n], b[(i + r[2]) % n]), b[(i + r[3]) % n]))
SmallSigmaCells(v, r, cells) ==
    LET b == BitsOf(v, cells)  n == WordLen(v)
    IN  pack(v, LAMBDA i : xor_poly(xor_poly(b[(i + r[1]) % n], b[(i + r[2]) % n]),
                                    IF i + r[3] < n THEN b[i + r[3]] ELSE 0))
ChCells(v, e, f, g) ==
    LET be == BitsOf(v, e)  bf == BitsOf(v, f)  bg == BitsOf(v, g)
    IN  pack(v, LAMBDA i : be[i] * bf[i] + bg[i] - be[i] * bg[i])
MajCells(v, a, b, c) ==
    LET ba == BitsOf(v, a)  bb == BitsOf(v, b)  bc == BitsOf(v, c)
    IN  pack(v, LAMBDA i : xor_poly(xor_poly(ba[i] * bb[i], ba[i] * bc[i]), bb[i] * bc[i]))

\* Where the row stands: rows of a block that compress, the row that adds the
\* working state to H, the rows whose successor's W is scheduled.
compression_active(v, row, n) == row \div ROWS_PER_BLOCK < n /\ row % ROWS_PER_BLOCK < v.rounds
finalisation_active(v, row, n) == row \div ROWS_PER_BLOCK < n /\ row % ROWS_PER_BLOCK = v.rounds
\* Variant: the last word of the schedule is left free.
schedule_active_short(v, row, n) == row \div ROWS_PER_BLOCK < n /\ row % ROWS_PER_BLOCK \in 15 .. v.rounds - 3

schedule_active(v, row, n) == row \div ROWS_PER_BLOCK < n /\ row % ROWS_PER_BLOCK \in 15 .. v.rounds - 2

\* The cells `out` that close out + radix * carry = sum + carry of the limb below.
Closing(v, carry, sum) ==
    [j \in 1..v.limbs |-> InField(sum[j] + (IF j = 1 THEN 0 ELSE carry[j - 1]) - Radix(v) * carry[j])] \o << >>
Carry(v, max) == IF v.limbs = 1 THEN {<<c>> : c \in 0..max} ELSE {<<c, d>> : c, d \in 0..max}
CellSum(v, words) == [j \in 1..v.limbs |-> FoldLeft(LAMBDA a, x : a + x[j], 0, words)] \o << >>
k_row(v, row, n) == limbs(v, IF compression_active(v, row, n) THEN v.K[(row % ROWS_PER_BLOCK) + 1] ELSE 0)

RangeHolds(v, cur) ==
    /\ \A k \in {1, 2, 3, 5, 6, 7} : Decomposed(v, cur.A[k])
    /\ Decomposed(v, cur.win[15]) /\ Decomposed(v, cur.win[2])
T1Sum(v, cur, row, n) ==
    CellSum(v, <<cur.A[8], SigmaCells(v, v.s1, cur.A[5]), ChCells(v, cur.A[5], cur.A[6], cur.A[7]),
                 k_row(v, row, n), cur.W>>)
T2Sum(v, cur) ==
    CellSum(v, <<SigmaCells(v, v.s0, cur.A[1]), MajCells(v, cur.A[1], cur.A[2], cur.A[3])>>)
ScheduleSum(v, cur) ==
    CellSum(v, <<cur.win[1], SmallSigmaCells(v, v.ss0, cur.win[2]), cur.win[10],
                 SmallSigmaCells(v, v.ss1, cur.win[15])>>)

eval_sha_constraints(v, cur, nxt, row, n) ==
    /\ RangeHolds(v, cur)
    /\ cur.S0 = SigmaCells(v, v.s0, cur.A[1]) /\ cur.S1 = SigmaCells(v, v.s1, cur.A[5])
    /\ cur.SS0 = SmallSigmaCells(v, v.ss0, cur.win[2])
    /\ cur.SS1 = SmallSigmaCells(v, v.ss1, cur.win[15])
    /\ cur.CH = ChCells(v, cur.A[5], cur.A[6], cur.A[7])
    /\ cur.MAJ = MajCells(v, cur.A[1], cur.A[2], cur.A[3])
    /\ cur.T1C \in Carry(v, 7) /\ cur.T1 = Closing(v, cur.T1C, T1Sum(v, cur, row, n))
    /\ cur.T2C \in Carry(v, v.t2carry) /\ cur.T2 = Closing(v, cur.T2C, T2Sum(v, cur))
    /\ compression_active(v, row, n) =>
         /\ \A k \in {2, 3, 4, 6, 7, 8} : nxt.A[k] = cur.A[k - 1]
         /\ cur.NAC \in Carry(v, 1) /\ nxt.A[1] = Closing(v, cur.NAC, CellSum(v, <<cur.T1, cur.T2>>))
         /\ cur.NEC \in Carry(v, 1) /\ nxt.A[5] = Closing(v, cur.NEC, CellSum(v, <<cur.A[4], cur.T1>>))
    /\ IF finalisation_active(v, row, n)
         THEN \A k \in 1..8 : \E c \in Carry(v, 1) : nxt.H[k] = Closing(v, c, CellSum(v, <<cur.H[k], cur.A[k]>>))
         ELSE nxt.H = cur.H
    /\ \A k \in 1..14 : nxt.win[k] = cur.win[k + 1]
    /\ nxt.win[15] = cur.W
    /\ schedule_active(v, row, n) =>
         cur.WSC \in Carry(v, 3) /\ nxt.W = Closing(v, cur.WSC, ScheduleSum(v, cur))

----------------------------------------------------------------------------
(* The runs: a trace is filled and every row evaluated, or a prover walks    *)
(* down the rows with any carries the constraints accept.                    *)

HashInit ==
    /\ unit = "hash"
    /\ st \in {[phase |-> "message", v |-> v, m |-> m] : v \in ShaVariants, m \in HashMessages}

HashFill ==
    /\ unit = "hash" /\ st.phase = "message"
    /\ LET blocks == pad_message_to_blocks(st.v, st.m)
       IN  Move("hash", [phase |-> "trace", v |-> st.v, m |-> st.m, n |-> Len(blocks),
                         t |-> build_sha_trace_multi(st.v, blocks)])

\* Every row against its successor, the last against row 0, as the merge does.
HashEval ==
    /\ unit = "hash" /\ st.phase = "trace"
    /\ LET height == Len(st.t)
       IN  Move("hash", [phase |-> "filled", v |-> st.v, m |-> st.m, height |-> height,
                         H |-> st.t[ROWS_PER_BLOCK * (st.n - 1) + st.v.rounds + 2].H,
                         bad |-> {i \in 1..height :
                                    ~eval_sha_constraints(st.v, st.t[i], st.t[(i % height) + 1], i - 1, st.n)}])

\* Row 0: H is the IV and the working state starts at H.  The constraints
\* leave both to the caller, as they leave the message words.
HashStart ==
    /\ unit = "hash" /\ st.phase = "message" /\ st.m \in WalkedMessages
    /\ LET v == st.v
           iv == [k \in 1..8 |-> limbs(v, v.IV[k])] \o << >>
           blocks == pad_message_to_blocks(v, st.m)
       IN  \E z \in StartWindows :
             Move("hash", [phase |-> "rows", v |-> v, m |-> st.m, row |-> 0, blocks |-> blocks,
                           cur |-> [A |-> iv, H |-> iv, W |-> limbs(v, blocks[1][1]),
                                    win |-> [k \in 1..15 |-> limbs(v, z)] \o << >>]])

\* The values of a and e on the next row that some carries accept.
NextAE(v, cur, row, n) ==
    LET t1sum == T1Sum(v, cur, row, n)
        t2s == {Closing(v, c, T2Sum(v, cur)) : c \in Carry(v, v.t2carry)}
        inRange(S) == {x \in S : Decomposed(v, x)}
    IN  UNION {LET t1 == Closing(v, c, t1sum)
               IN  inRange({Closing(v, na, CellSum(v, <<t1, t2>>)) : na \in Carry(v, 1), t2 \in t2s})
                   \X inRange({Closing(v, ne, CellSum(v, <<cur.A[4], t1>>)) : ne \in Carry(v, 1)}) :
               c \in Carry(v, 7)}

HashRow ==
    /\ unit = "hash" /\ st.phase = "rows"
    /\ LET v == st.v  cur == st.cur  row == st.row  n == Len(st.blocks)
           next == row + 1
           block == next \div ROWS_PER_BLOCK
           word == next % ROWS_PER_BLOCK
           first == word = 0 /\ block < n
           ws == IF schedule_active(v, row, n)
                   THEN {Closing(v, c, ScheduleSum(v, cur)) : c \in Carry(v, 3)}
                   ELSE {limbs(v, IF block < n /\ word < 16 THEN st.blocks[block + 1][word + 1] ELSE 0)}
           hs == IF finalisation_active(v, row, n)
                   THEN {[k \in 1..8 |-> LET sum == CellSum(v, <<cur.H[k], cur.A[k]>>)
                                         IN  Closing(v, IF k \in S THEN c ELSE FillCarries(v, sum), sum)]
                           \o << >> : S \in OddWords, c \in Carry(v, 1)}
                   ELSE {cur.H}
           as == IF compression_active(v, row, n)
                   THEN {<<ae[1], cur.A[1], cur.A[2], cur.A[3], ae[2], cur.A[5], cur.A[6], cur.A[7]>> :
                           ae \in NextAE(v, cur, row, n)}
                   ELSE {cur.A}
       IN  /\ RangeHolds(v, cur)
           /\ next < n * ROWS_PER_BLOCK
           /\ \E w \in ws, h \in hs, a \in as :
                Move("hash", [st EXCEPT !.row = next,
                                        !.cur = [A |-> IF first THEN h ELSE a, H |-> h, W |-> w,
                                                 win |-> Tail(cur.win) \o <<cur.W>>]])

HashNext == HashFill \/ HashEval \/ HashStart \/ HashRow

----------------------------------------------------------------------------
Signed(x) == IF x > NATIVE \div 2 THEN x - NATIVE ELSE x
WordOf(v, cells) == FoldLeft(LAMBDA a, j : a + Signed(cells[j]) * Radix(v) ^ (j - 1), 0,
                             [j \in 1..v.limbs |-> j]) % WordSize(v)

\* Whatever carries a prover chooses: on the last row of a message whose blocks
\* start from H the accepted H words are the digest of the message, word by
\* word modulo the word size (the H cells themselves have no range check).
\* And the trace the code fills holds the digest and satisfies every row except
\* the one that wraps round to row 0, which holds only if the digest is the IV.
HashExact ==
    unit = "hash" =>
      LET v == st.v
          digest == sha_native(v, pad_message_to_blocks(v, st.m))
          agrees(H) == \A k \in 1..8 : WordOf(v, H[k]) = digest[k]
      IN  /\ st.phase = "rows" /\ st.row = Len(st.blocks) * ROWS_PER_BLOCK - 1 /\ RangeHolds(v, st.cur)
               => agrees(st.cur.H)
          /\ st.phase = "filled" =>
               /\ agrees(st.H)
               /\ st.bad = IF digest = v.IV THEN {} ELSE {st.height}
============================================================================
