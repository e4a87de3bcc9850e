----------------------------- MODULE MCCircuits -----------------------------
EXTENDS Circuits

\* Ed25519: the prime 61 = 2^6 - 3, the curve -x^2 + y^2 = 1 + 2 x^2 y^2 with
\* 56 points and a base point of order 7.
MCWidths == <<2, 1, 2, 1>>
MCFieldOperands == {0, 1, 2, 3, 4, 7, 8, 15, 31, 32, 33, 56, 58, 59, 60, 61, 62, 63}
MCMulOperands == {0, 1, 2, 7, 11, 31, 32, 48, 59, 60, 61, 63}
MCPointBytes == {27, 91, 1, 65, 60, 0, 64, 62, 2, 5}
MCScalars == {0, 1, 6, 7, 8, 255}
MCDigests == {0, 5, 7, 223, 224, 255, 128, 15}
MCPointCases == {<<27, 27>>, <<27, 91>>, <<1, 27>>, <<60, 27>>}
MCMessageLengths == {0, 110, 111, 112, 400, 1000}
MCLadderLengths == {1, 4, 62, 256}
MCSignatures == {<<91, 112, 4, 5>>, <<91, 112, 3, 5>>, <<91, 112, 11, 5>>, <<1, 65, 0, 5>>,
                 <<1, 62, 0, 5>>, <<27, 2, 0, 5>>, <<27, 27, 1, 7>>}

\* SHA-2: one limb of 3 bits, two limbs of 2 bits, 18 rounds.
MCRounds(n, m) == [t \in 1..n |-> (t * 5 + 3 + t * t) % m] \o << >>
MCSha256 == [limbs |-> 1, limbBits |-> 3, rounds |-> 18, K |-> MCRounds(18, 8),
             IV |-> <<6, 3, 1, 7, 5, 2, 0, 4>>, s0 |-> <<1, 2, 0>>, s1 |-> <<2, 0, 1>>,
             ss0 |-> <<1, 2, 1>>, ss1 |-> <<2, 1, 2>>, t2carry |-> 3]
MCSha512 == [limbs |-> 2, limbBits |-> 2, rounds |-> 18, K |-> MCRounds(18, 16),
             IV |-> <<6, 3, 11, 7, 5, 12, 0, 14>>, s0 |-> <<1, 2, 3>>, s1 |-> <<2, 3, 1>>,
             ss0 |-> <<1, 3, 2>>, ss1 |-> <<3, 2, 1>>, t2carry |-> 1]
MCVariants == {MCSha256, MCSha512}
MCMessage(n, c) == [i \in 1..n |-> (i * c + i * i) % 8] \o << >>
MCHashMessages == {MCMessage(n, c) : n \in {0, 13, 14, 30}, c \in {3, 5}}
MCWalked == {MCMessage(13, 3), MCMessage(14, 5)}
MCWindows == {0, 1}
MCOddWords == {{}} \cup {{k} : k \in 1..8} \cup {{4, 8}, {1, 3, 5, 7}}

\* ML-DSA: q = 41 with 27 of order 8, N = 4 and five high parts.
MCPoly(a, b, c, d) == 0 :> a @@ 1 :> b @@ 2 :> c @@ 3 :> d
MCNttInputs == {MCPoly(0, 0, 0, 1), MCPoly(40, 40, 40, 40), MCPoly(3, 38, 0, 6), MCPoly(17, 5, 29, 40)}
MCEquations == {<<<<40, 40>>, <<40, 39>>, 40, 40>>, <<<<0, 0>>, <<5, 6>>, 1, 40>>, <<<<7, 30>>, <<12, 3>>, 9, 0>>}

MCMatrix == <<<<MCPoly(17, 5, 29, 40), MCPoly(1, 2, 3, 4)>>, <<MCPoly(9, 0, 33, 21), MCPoly(40, 7, 12, 5)>>>>
MCV2Inputs == {<<MCMatrix, MCPoly(8, 30, 2, 19), <<MCPoly(5, 16, 27, 38), MCPoly(3, 14, 25, 36)>>, <<55, 55>>>>}
MCV2Signatures ==
    {<<<<MCPoly(1, 39, 0, 6), MCPoly(3, 38, 40, 2)>>, <<MCPoly(0, 1, 0, 1), MCPoly(1, 0, 0, 1)>>>>,
     <<<<MCPoly(2, 0, 40, 5), MCPoly(36, 4, 1, 0)>>, <<MCPoly(1, 1, 0, 0), MCPoly(0, 0, 1, 1)>>>>}
MCDeviations == {"none", "z", "w", "w_approx", "adjusted", "w1bytes", "c_tilde"}
MCChanges == {"pi_hash", "intt", "intt count", "l0 count", "l0 row", "l1 index", "l1 of another", "l5 count",
              "l5 order", "l4 count", "l4 order", "signs", "high parts", "gadget", "coefficients"}

MCTreeSizes == {1, 2, 3, 4, 6, 8}
MCArities == {2, 4, 16}
MCMixed == {<<2, 2, 2>>, <<2, 4>>, <<4, 2>>}
MCLeafValues == 0..3

MCZones == {<<1>>, <<1, 2, 3>>}
MCRecordRows == <<8, 16, 8, 8>>
MCShardSizes == {1, 2, 3, 5}
MCDnskeys == {[name |-> "a", bytes |-> 55], [name |-> "b", bytes |-> 55], [name |-> "c", bytes |-> 56]}

MCExtElements == {<<0, 0, 0, 0, 0, 0, 0, 0>>, <<1, 0, 0, 0, 0, 0, 0, 0>>, <<3, 1008, 5, 9, 0, 7, 1, 500>>,
                  <<0, 1, 0, 0, 2, 0, 0, 1>>, <<1008, 17, 400, 77, 1, 0, 250, 3>>}

MCFriCases ==
    {[n0 |-> 8, schedule |-> s, stir |-> t, coeff |-> c, d_final |-> d, r |-> 1, pi |-> IF t THEN <<7>> ELSE << >>] :
       s \in {<<2>>, <<4>>, <<2, 2>>, <<4, 2>>}, t \in BOOLEAN, c \in BOOLEAN, d \in {1, 2}}
MCFriPolys == {<<3, 7>>, <<1, 2, 3, 4>>, <<9, 1, 0, 4, 7, 7, 2, 3>>}
MCOodPoints == {<<2, 3, 5>>, <<1, 0, 0>>, <<0, 0, 0>>}
MCFolds == {<<3, 0, 7>>, <<1, 0, 0>>}
MCQueries == {0, 3}

MCShapes == {<<2, 2>>, <<4, 2>>, <<4, 4>>}
MCWorkloads == {"fibonacci", "poseidon", "register", "cairo", "age", "rollup", "nsec3"}
MCRollup == {<< >>, <<900, 7, 3>>, <<1, 2, 3, 4, 5>>}
MCChains == {<< >>, <<<<3, 8>>, <<8, 500>>>>, <<<<3, 8>>, <<8, 500>>, <<500, 3>>, <<3, 3>>>>}
MCConstants == [x \in (0..8) \X (1..4) |-> (x[1] * 37 + x[2] * 11 + 5) % 1009]
MCCells == {<<1, 1>>, <<2, 2>>, <<4, 4>>, <<4, 1>>, <<3, 7>>}
=============================================================================
