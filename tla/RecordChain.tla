--------------------------- MODULE RecordChain ---------------------------
(***************************************************************************)
(* swarm-dns: the proofs of zone shards, of DNS record chains and of the   *)
(* delegation to the parent zone, and the code that checks them, here and  *)
(* in swarm-verify.                                                        *)
(*                                                                         *)
(* A hash is the term it hashes, a signature is who signed what, and a     *)
(* STARK is the trace its f0 root commits to and the parameters it was     *)
(* made under (Fri and VerifyAir have what is inside it).  Signed data     *)
(* carry the height of the trace that proves a signature over them.        *)
(***************************************************************************)
EXTENDS MerkleTree

CONSTANTS BLOWUP,      \* low-degree extension factor
          Zones,       \* lists of records, each an address
          RecordRows,  \* trace height of the record with an address
          DnskeyRows,  \* trace height of the DNSKEY set
          MaxEpochs,   \* bound: rollups of one zone
          ShardSizes,  \* numbers of records in a shard
          Dnskeys      \* DNSKEYs, each a name and a size in bytes

IsPow2(n) == n \in Nat /\ \E k \in 0..n : pow2(k) = n
\* Trace heights and the blowup are powers of two, and no list to roll up is empty.
ASSUME RecordAssumption ==
    /\ IsPow2(BLOWUP) /\ IsPow2(DnskeyRows) /\ \A ip \in DOMAIN RecordRows : IsPow2(RecordRows[ip])
    /\ \A zone \in Zones : zone \in Seq(DOMAIN RecordRows) \ {<< >>}
    /\ MaxEpochs \in Nat /\ ShardSizes \subseteq Nat \ {0}
    /\ \A key \in Dnskeys : key.bytes \in Nat

Zero == <<"zero">>
NoBlob == [root_f0 |-> Zero, params |-> << >>]

next_pow2(x) == Max({next_power_of_two(x), 8})
inner_n0_from_record_count(c) == next_pow2(4 * c) * BLOWUP
outer_n0_from_pi_count(c) == next_pow2(4 * c) * BLOWUP

\* Folds by 8 and a residual, or by 2, down to size 1.
make_schedule(n0, ldt) ==
    LET log_n0 == log2(n0)
    IN  IF ldt = "FRI" THEN Repeat(2, log_n0) \o << >>
        ELSE Repeat(8, log_n0 \div 3) \o (IF log_n0 % 3 > 0 THEN <<pow2(log_n0 % 3)>> ELSE << >>)
build_params(n0, fs, ldt) == [schedule |-> make_schedule(n0, ldt), stir |-> ldt = "STIR", fs |-> fs]

stark_prove(trace, n_trace, fs, ldt) ==
    [root_f0 |-> <<"f0", trace>>, params |-> build_params(n_trace * BLOWUP, fs, ldt)]
stark_verify(params, proof) == proof.params = params

ed25519_verify(pk, sig, data) == sig = <<pk, data>>

----------------------------------------------------------------------------
(* The binary Merkle tree of dns.rs: the last node of an odd level is      *)
(* paired with itself.                                                     *)

leaf_hash(record, salt) == <<"LEAF2", salt, <<"LEAF1", salt, record>>>>
Node(l, r) == <<"NODE", l, r>>
Paired(level) ==
    [i \in 1 .. (Len(level) + 1) \div 2 |-> Node(level[2 * i - 1], level[IF 2 * i <= Len(level) THEN 2 * i ELSE 2 * i - 1])] \o << >>
\* One turn of the loop; it is over when a level has one node.
PairTop(levels) == IF Len(Last(levels)) > 1 THEN Append(levels, Paired(Last(levels))) ELSE levels
merkle_build(leaves) ==
    LET up[k \in 0 .. Len(leaves)] == IF k = 0 THEN <<leaves>> ELSE PairTop(up[k - 1])
    IN  up[Len(leaves)]
merkle_root(levels) == Last(levels)[1]

Sibling(i) == IF i % 2 = 0 THEN i + 1 ELSE i - 1
merkle_path(levels, index) ==
    [k \in 1 .. Len(levels) - 1 |->
       LET idx == index \div pow2(k - 1)
           sib == Sibling(idx)
       IN  levels[k][1 + IF sib < Len(levels[k]) THEN sib ELSE idx]] \o << >>
merkle_verify(leaf, index, path, rt) ==
    LET at[k \in 0 .. Len(path)] ==
          IF k = 0 THEN leaf
          ELSE IF (index \div pow2(k - 1)) % 2 = 0 THEN Node(at[k - 1], path[k]) ELSE Node(path[k], at[k - 1])
    IN  at[Len(path)] = rt

----------------------------------------------------------------------------
(* Shards and rollups. *)

pack_hash_to_leaves(h) == <<<<h, 0>>, <<h, 1>>, <<h, 2>>, <<h, 3>>>>
RollupTrace(hashes) ==
    LET active == 4 * Len(hashes)
    IN  [i \in 1 .. next_pow2(active) |->
           IF i <= active THEN pack_hash_to_leaves(hashes[(i + 3) \div 4])[1 + ((i - 1) % 4)] ELSE <<Zero, 0>>] \o << >>

inner_pi_hash_recipe(salt, count, rt, root_f0, fs) == <<"DNS-SHARD-PIHASH-V1", salt, count, rt, root_f0, fs>>
prove_inner_shard(salt, records, fs, ldt) ==
    LET leaves == [i \in DOMAIN records |-> leaf_hash(records[i], salt)] \o << >>
        trace == RollupTrace(leaves)
        rt == merkle_root(merkle_build(leaves))
        proof == stark_prove(trace, Len(trace), fs, ldt)
    IN  [pi_hash |-> inner_pi_hash_recipe(salt, Len(records), rt, proof.root_f0, fs), merkle_root |-> rt,
         record_count |-> Len(records), n_trace |-> Len(trace), proof |-> proof]

\* What swarm-verify checks of the shard a bundle lists.
verify_inner(w, salt, fs, ldt) ==
    /\ w.pi_hash = inner_pi_hash_recipe(salt, w.record_count, w.merkle_root, w.proof.root_f0, fs)
    /\ inner_n0_from_record_count(w.record_count) = w.n_trace * BLOWUP
    /\ stark_verify(build_params(inner_n0_from_record_count(w.record_count), fs, ldt), w.proof)

prove_outer_rollup(pi_hashes, fs, ldt) ==
    LET trace == RollupTrace(pi_hashes)
    IN  [proof |-> stark_prove(trace, Len(trace), fs, ldt), n0 |-> Len(trace) * BLOWUP,
         root_f0 |-> <<"f0", trace>>]

----------------------------------------------------------------------------
(* The delegation: DS to KSK by a hash, KSK to ZSK by a signature. *)

Sha256(dnskey) == <<"sha256", dnskey>>
ds_ksk_pi_hash(dnskey, parent, asserted, root_f0, fs) == <<"DS-KSK-PIHASH-V1", dnskey, parent, asserted, root_f0, fs>>
\* Blocks after padding with one byte, zeros and the length; and as the verifier
\* counts them.
PaddedBlocks(bytes) == (bytes + 9 + ((-(bytes + 9)) % 64)) \div 64
\* Variant: the marker byte is not counted.
ExpectedBlocksUnmarked(bytes) == (bytes + 8 + 63) \div 64
ExpectedBlocks(bytes) == (bytes + 9 + 63) \div 64
prove_ds_ksk_binding(dnskey, parent, fs, ldt) ==
    LET n_blocks == PaddedBlocks(dnskey.bytes)
        n_trace == next_power_of_two(128 * n_blocks)
        proof == stark_prove(<<"sha256", dnskey>>, n_trace, fs, ldt)
    IN  [pi_hash |-> ds_ksk_pi_hash(dnskey, parent, Sha256(dnskey), proof.root_f0, fs),
         asserted |-> Sha256(dnskey), n_blocks |-> n_blocks, n_trace |-> n_trace,
         root_f0 |-> proof.root_f0, proof |-> proof]

\* swarm-verify on a bundle with a DNSKEY and the parent's DS hash.  Nothing here
\* opens the trace: of the STARK only its parameters and its root are looked at.
verify_ds_ksk(b, pk_hash, ldt) ==
    IF b.stark
      THEN /\ b.out.n_blocks = ExpectedBlocks(b.dnskey.bytes)
           /\ stark_verify(build_params(b.out.n_trace * BLOWUP, pk_hash, ldt), b.out.proof)
           /\ b.out.asserted = b.parent
           /\ b.out.pi_hash = ds_ksk_pi_hash(b.dnskey, b.parent, b.out.asserted, b.out.proof.root_f0, pk_hash)
           /\ b.out.root_f0 = b.out.proof.root_f0
      ELSE Sha256(b.dnskey) = b.parent

zsk_ksk_pi_hash(pk, sig, data, fs) == <<"ZSK-KSK-PIHASH-V1", pk, sig, data, fs>>
zsk_ksk_pi_hash_v2_runtime(pk, sig, data, fs, rt) == <<"ZSK-KSK-PIHASH-V2-RT", pk, sig, data, fs, rt>>
zsk_ksk_pi_hash_v2_stark(pk, sig, data, fs, rt, root_f0) == <<"ZSK-KSK-PIHASH-V2-ST", pk, sig, data, fs, rt, root_f0>>
StubPiHash(root_f0, fs) == <<"ZSK-KSK-STUB-K8-PIHASH-V1", root_f0, fs>>

verify_zsk_ksk_native(pk, sig, data, fs) ==
    [pi_hash |-> zsk_ksk_pi_hash(pk, sig, data, fs), verified |-> ed25519_verify(pk, sig, data)]
verify_zsk_ksk_native_v2(pk, sig, data, fs, rt) ==
    [pi_hash |-> zsk_ksk_pi_hash_v2_runtime(pk, sig, data, fs, rt), verified |-> ed25519_verify(pk, sig, data)]
verify_zsk_ksk_runtime_fallback(pk, sig, data, fs, claimed) ==
    zsk_ksk_pi_hash(pk, sig, data, fs) = claimed /\ ed25519_verify(pk, sig, data)
verify_zsk_ksk_runtime_fallback_v2(pk, sig, data, fs, rt, claimed) ==
    zsk_ksk_pi_hash_v2_runtime(pk, sig, data, fs, rt) = claimed /\ ed25519_verify(pk, sig, data)

StubRows == 8
prove_zsk_ksk_binding_stub_k8(fs, ldt) ==
    LET proof == stark_prove(<<"v16 stub">>, StubRows, fs, ldt)
    IN  [pi_hash |-> StubPiHash(proof.root_f0, fs), n_trace |-> StubRows, root_f0 |-> proof.root_f0, proof |-> proof]
\* The proof of a signature that verifies, over the v16 trace.
prove_zsk_ksk_binding_v2(pk, sig, data, fs, rt, ldt) ==
    LET proof == stark_prove(<<"v16", pk, sig, data>>, data.rows, fs, ldt)
    IN  [pi_hash |-> zsk_ksk_pi_hash_v2_stark(pk, sig, data, fs, rt, proof.root_f0), proof |-> proof]

\* swarm-verify on a bundle with any of the ZSK fields.
verify_zsk_ksk(b, ldt) ==
    IF b.stark
      THEN /\ stark_verify(build_params(b.out.n_trace * BLOWUP, b.fs, ldt), b.out.proof)
           /\ b.out.proof.root_f0 = b.out.root_f0
           /\ b.out.pi_hash = StubPiHash(b.out.proof.root_f0, b.fs)
      ELSE verify_zsk_ksk_runtime_fallback(b.pk, b.sig, b.data, b.fs, b.pi_hash)

----------------------------------------------------------------------------
(* A record chain: the KSK signs the DNSKEY set, the ZSK the record, and   *)
(* the lookup tree holds the name and its address.                         *)

dns_lookup_leaf_hash(domain, ip) == <<"DNS-LOOKUP-LEAF-V1", domain, ip>>
dns_lookup_build_tree(records) == merkle_build([i \in DOMAIN records |-> dns_lookup_leaf_hash(i, records[i])] \o << >>)

dns_record_chain_pi_hash(b, ksk_f0, zsk_f0) ==
    <<"DNS-RECORD-CHAIN-V3", b.ksk, b.zsk, b.ksk_sig, b.dnskey_rrset, b.zsk_sig, b.rec_rrset,
      b.inclusion.domain, b.inclusion.ip, b.inclusion.leaf_index, b.inclusion.path, b.root, b.fs, ksk_f0, zsk_f0>>

LayersHold(b) ==
    /\ ed25519_verify(b.ksk, b.ksk_sig, b.dnskey_rrset)
    /\ ed25519_verify(b.zsk, b.zsk_sig, b.rec_rrset)
    /\ merkle_verify(dns_lookup_leaf_hash(b.inclusion.domain, b.inclusion.ip),
                     b.inclusion.leaf_index, b.inclusion.path, b.root)

\* The provers: a chain that does not hold makes them panic.
Sealed(b, stark, ksk_proof, zsk_proof) ==
    [b EXCEPT !.pi_hash = dns_record_chain_pi_hash(b, ksk_proof.root_f0, zsk_proof.root_f0), !.stark_present = stark,
              !.ksk_proof = ksk_proof, !.zsk_proof = zsk_proof,
              !.ksk_f0 = ksk_proof.root_f0, !.zsk_f0 = zsk_proof.root_f0]
prove_dns_record_chain_native(b) == Sealed(b, FALSE, NoBlob, NoBlob)
prove_dns_record_chain_stark(b, ldt) ==
    Sealed(b, TRUE, prove_zsk_ksk_binding_v2(b.ksk, b.ksk_sig, b.dnskey_rrset, b.fs, b.root, ldt).proof,
                    prove_zsk_ksk_binding_v2(b.zsk, b.zsk_sig, b.rec_rrset, b.fs, b.root, ldt).proof)

verify_dns_record_chain_runtime(b) ==
    /\ b.pi_hash = dns_record_chain_pi_hash(b, IF b.stark_present THEN b.ksk_f0 ELSE Zero,
                                               IF b.stark_present THEN b.zsk_f0 ELSE Zero)
    /\ LayersHold(b)
verify_dns_record_chain_stark(b, n_trace, ldt) ==
    /\ verify_dns_record_chain_runtime(b)
    /\ b.stark_present =>
         \A proof \in {b.ksk_proof, b.zsk_proof} :
           stark_verify(build_params(n_trace * BLOWUP, b.fs, ldt), proof)

----------------------------------------------------------------------------
(* Sets of chains: version 4 lists the pi_hashes, version 5 their root. *)

epoch_fs_binding(zone_fs, epoch, serial) == <<"EPOCH-FS-V1", zone_fs, epoch, serial>>
PiHashes(bundles) == [i \in DOMAIN bundles |-> bundles[i].pi_hash] \o << >>

dns_record_chain_set_pi_hash(pi_hashes, root_f0, fs) == <<"DNS-CHAIN-SET-V4", pi_hashes, root_f0, fs>>
\* The caller has checked that every bundle has the set's binding.
prove_dns_record_chain_set(bundles, fs, ldt) ==
    LET outer == prove_outer_rollup(PiHashes(bundles), fs, ldt)
    IN  [pi_hashes |-> PiHashes(bundles), outer |-> outer, fs |-> fs,
         set_pi_hash |-> dns_record_chain_set_pi_hash(PiHashes(bundles), outer.root_f0, fs)]
OuterVerifies(set, ldt) ==
    /\ stark_verify(build_params(set.outer.n0, set.fs, ldt), set.outer.proof)
    /\ set.outer.proof.root_f0 = set.outer.root_f0
verify_dns_record_chain_set(set, bundles, ldt, stark, n_trace) ==
    /\ Len(bundles) = Len(set.pi_hashes)
    /\ set.set_pi_hash = dns_record_chain_set_pi_hash(set.pi_hashes, set.outer.root_f0, set.fs)
    /\ \A i \in DOMAIN bundles :
         /\ bundles[i].pi_hash = set.pi_hashes[i]
         /\ IF stark THEN verify_dns_record_chain_stark(bundles[i], n_trace, ldt)
                     ELSE verify_dns_record_chain_runtime(bundles[i])
    /\ OuterVerifies(set, ldt)

dns_chain_set_v5_leaf(pi_hash) == <<"DNS-CHAIN-SET-LEAF-V5", pi_hash>>
SetTree(bundles) == merkle_build([i \in DOMAIN bundles |-> dns_chain_set_v5_leaf(bundles[i].pi_hash)] \o << >>)
dns_record_chain_set_pi_hash_v5(rt, count, root_f0, fs) == <<"DNS-CHAIN-SET-V5", count, rt, root_f0, fs>>
prove_dns_record_chain_set_v5(bundles, fs, ldt) ==
    LET outer == prove_outer_rollup(PiHashes(bundles), fs, ldt)
        rt == merkle_root(SetTree(bundles))
    IN  [root |-> rt, count |-> Len(bundles), outer |-> outer, fs |-> fs,
         set_pi_hash |-> dns_record_chain_set_pi_hash_v5(rt, Len(bundles), outer.root_f0, fs)]

\* Variant: the path is not walked.
membership_unwalked(set, b, index, path, ldt) ==
    /\ set.set_pi_hash = dns_record_chain_set_pi_hash_v5(set.root, set.count, set.outer.root_f0, set.fs)
    /\ verify_dns_record_chain_runtime(b)
    /\ OuterVerifies(set, ldt)

verify_dns_record_chain_set_membership(set, b, index, path, ldt) ==
    /\ set.set_pi_hash = dns_record_chain_set_pi_hash_v5(set.root, set.count, set.outer.root_f0, set.fs)
    /\ verify_dns_record_chain_runtime(b)
    /\ merkle_verify(dns_chain_set_v5_leaf(b.pi_hash), index, path, set.root)
    /\ OuterVerifies(set, ldt)

----------------------------------------------------------------------------
(* The runs: a shard, a delegation, or a zone through its epochs. *)

ZoneFs == <<"zone fs">>
OtherFs == <<"other fs">>
Bindings == {ZoneFs, OtherFs}
Modes == {"STIR", "FRI"}
DnskeyRrset == [of |-> <<"dnskey">>, rows |-> DnskeyRows]
RecRrset(ip) == [of |-> <<"rec", ip>>, rows |-> RecordRows[ip]]

\* What the prover is given for record i, whose signature is made by `signer`
\* and whose path is that of position `at`.
ChainInput(records, i, signer, at) ==
    LET levels == dns_lookup_build_tree(records)
    IN  [ksk |-> "ksk", zsk |-> "zsk", ksk_sig |-> <<"ksk", DnskeyRrset>>, dnskey_rrset |-> DnskeyRrset,
         zsk_sig |-> <<signer, RecRrset(records[i])>>, rec_rrset |-> RecRrset(records[i]),
         inclusion |-> [domain |-> i, ip |-> records[i], leaf_index |-> at, path |-> merkle_path(levels, at)],
         root |-> merkle_root(levels), fs |-> ZoneFs, pi_hash |-> Zero, stark_present |-> FALSE,
         ksk_proof |-> NoBlob, zsk_proof |-> NoBlob, ksk_f0 |-> Zero, zsk_f0 |-> Zero]
ChainBundle(b, stark, ldt) ==
    IF stark THEN prove_dns_record_chain_stark(b, ldt) ELSE prove_dns_record_chain_native(b)

DnsInit ==
    /\ unit = "dns"
    /\ \/ \E zone \in Zones, stark \in BOOLEAN, ldt \in Modes :
            st = [phase |-> "chain", ldt |-> ldt, stark |-> stark, records |-> zone, bundles |-> << >>,
                  made |-> {}, rolled |-> << >>]
       \/ st = [phase |-> "shard"] \/ st = [phase |-> "ds"] \/ st = [phase |-> "zsk"]

\* The bundle of the next record; the panic of a chain that does not hold.
DnsChain ==
    /\ unit = "dns" /\ st.phase = "chain" /\ Len(st.bundles) < Len(st.records)
    /\ \E signer \in {"zsk", "ksk"}, at \in 0 .. Len(st.records) - 1 :
         LET b == ChainInput(st.records, Len(st.bundles) + 1, signer, at)
             sealed == ChainBundle(b, st.stark, st.ldt)
         IN  IF LayersHold(b)
               THEN Move("dns", [st EXCEPT !.bundles = Append(@, sealed), !.made = @ \cup {sealed}])
               ELSE Move("dns", [phase |-> "panicked", input |-> b])

\* The rollup of an epoch, in both versions.
DnsRoll ==
    /\ unit = "dns" /\ st.phase = "chain" /\ Len(st.bundles) = Len(st.records) /\ Len(st.rolled) < MaxEpochs
    /\ \A e \in DOMAIN st.rolled : st.rolled[e].bundles # st.bundles
    /\ Move("dns", [st EXCEPT !.rolled = Append(@,
         [bundles |-> st.bundles, v4 |-> prove_dns_record_chain_set(st.bundles, ZoneFs, st.ldt),
          v5 |-> prove_dns_record_chain_set_v5(st.bundles, epoch_fs_binding(ZoneFs, Len(st.rolled), 1), st.ldt)])])

\* A record changes and only its bundle is made again: the others keep the root
\* of the lookup tree they were sealed with.
DnsChange ==
    /\ unit = "dns" /\ st.phase = "chain" /\ Len(st.rolled) = 1 /\ st.bundles = st.rolled[1].bundles
    /\ \E i \in {1, Len(st.records)}, ip \in DOMAIN RecordRows \ Range(st.records) :
         LET changed == [st.records EXCEPT ![i] = ip]
             sealed == ChainBundle(ChainInput(changed, i, "zsk", i - 1), st.stark, st.ldt)
         IN  Move("dns", [st EXCEPT !.records = changed, !.bundles = [@ EXCEPT ![i] = sealed],
                                    !.made = @ \cup {sealed}])

\* A bundle as it reaches a consumer: one of those made, or with one field of another.
Altered(b, made) ==
    (UNION {{[b EXCEPT ![f] = c[f]] : f \in DOMAIN b} : c \in made})
      \cup {[b EXCEPT !.stark_present = ~ b.stark_present], [b EXCEPT !.fs = OtherFs]}

DnsQuery ==
    /\ unit = "dns" /\ st.phase = "chain" /\ st.rolled # << >>
    /\ \E e, p \in DOMAIN st.rolled, j, i \in 0 .. Len(st.records) :
       \E b \in UNION {IF e = p /\ i = j THEN Altered(c, st.made) ELSE {c} : c \in st.made} :
         /\ j < Len(st.records)
         /\ Move("dns",
              [phase |-> "answered", records |-> st.rolled[e].bundles, b |-> b, index |-> i,
               own |-> e = p /\ i = j /\ b = st.rolled[e].bundles[j + 1],
               ok |-> verify_dns_record_chain_set_membership(
                        st.rolled[e].v5, b, i, merkle_path(SetTree(st.rolled[p].bundles), j), st.ldt)])

DnsCheckSet ==
    /\ unit = "dns" /\ st.phase = "chain" /\ st.rolled # << >>
    /\ \E e \in DOMAIN st.rolled, i \in DOMAIN st.records, stark \in BOOLEAN, n_trace \in {8, 16} :
       \E b \in Altered(st.rolled[e].bundles[i], st.made) :
         LET bs == [st.rolled[e].bundles EXCEPT ![i] = b]
         IN  Move("dns",
              [phase |-> "checked", records |-> st.rolled[e].bundles, bs |-> bs, stark |-> stark, n_trace |-> n_trace,
               ok |-> verify_dns_record_chain_set(st.rolled[e].v4, bs, st.ldt, stark, n_trace)])

Records(k) == [i \in 1..k |-> i] \o << >>
DnsShard ==
    /\ unit = "dns" /\ st.phase = "shard"
    /\ \E k, count \in ShardSizes, ldt, mode \in Modes, fs \in Bindings, salt \in {1, 2} :
         LET w == [prove_inner_shard(1, Records(k), ZoneFs, ldt) EXCEPT !.record_count = count]
         IN  Move("dns", [phase |-> "shard checked", same |-> k = count /\ ldt = mode /\ fs = ZoneFs /\ salt = 1,
                          schedule |-> w.proof.params.schedule, n_trace |-> w.n_trace,
                          ok |-> verify_inner(w, salt, fs, mode)])

\* A DS bundle put together from what two runs of the prover left: on two keys,
\* each with a parent's digest that need not be its own, under two bindings.
DsFields == {"pi_hash", "asserted", "n_blocks", "n_trace", "root_f0", "proof"}
Assembled(out, other, late) == [f \in DsFields |-> IF f \in late THEN other[f] ELSE out[f]]
DnsDs ==
    /\ unit = "dns" /\ st.phase = "ds"
    /\ \E d, d2, hashed, hashed2 \in Dnskeys, bound, fs \in Bindings, stark \in BOOLEAN, late \in SUBSET DsFields :
       \E shown \in {d, d2}, parent \in {Sha256(hashed), Sha256(hashed2)} :
         LET out == prove_ds_ksk_binding(d, Sha256(hashed), ZoneFs, "STIR")
             other == prove_ds_ksk_binding(d2, Sha256(hashed2), bound, "STIR")
             b == [dnskey |-> shown, parent |-> parent, stark |-> stark, out |-> Assembled(out, other, late)]
         IN  Move("dns", [phase |-> "ds checked", b |-> b, fs |-> fs, ok |-> verify_ds_ksk(b, fs, "STIR")])

DnsZsk ==
    /\ unit = "dns" /\ st.phase = "zsk"
    /\ \E signer, pk \in {"ksk", "zsk"}, shown, fs \in Bindings, stark \in BOOLEAN :
         LET sig == <<signer, DnskeyRrset>>
             out == prove_zsk_ksk_binding_stub_k8(ZoneFs, "STIR")
             b == [pk |-> pk, sig |-> sig, data |-> DnskeyRrset, fs |-> shown, stark |-> stark, out |-> out,
                   pi_hash |-> verify_zsk_ksk_native("ksk", sig, DnskeyRrset, fs).pi_hash]
             v2 == verify_zsk_ksk_native_v2("ksk", sig, DnskeyRrset, fs, Zero)
         IN  Move("dns", [phase |-> "zsk checked", b |-> b, fs |-> fs, signer |-> signer, ok |-> verify_zsk_ksk(b, "STIR"),
                          v2 |-> verify_zsk_ksk_runtime_fallback_v2(pk, sig, DnskeyRrset, shown, Zero, v2.pi_hash)])

DnsNext == DnsChain \/ DnsRoll \/ DnsChange \/ DnsQuery \/ DnsCheckSet \/ DnsShard \/ DnsDs \/ DnsZsk

DnsSpec == DnsInit /\ [][DnsNext]_unitVars

----------------------------------------------------------------------------
\* Two bundles agree on all that a pi_hash seals.
SameChain(b, c) ==
    /\ \A f \in DOMAIN b \ {"stark_present", "ksk_proof", "zsk_proof", "ksk_f0", "zsk_f0"} : b[f] = c[f]
    /\ b.stark_present => b.ksk_f0 = c.ksk_f0 /\ b.zsk_f0 = c.zsk_f0

\* An honest answer verifies; and an answer that verifies against the set of an
\* epoch is a chain proved for that epoch, at the position asked for, whatever
\* path, epoch or field of another bundle it came with: a bundle of a record
\* that changed since is refused.  A list is accepted exactly as it was rolled
\* up; with its STARKs only if both signatures of every chain were proved on
\* traces of the one height the caller names.
ChainBinding ==
    unit = "dns" =>
      /\ st.phase = "answered" =>
           /\ st.own => st.ok
           /\ st.ok => \E i \in DOMAIN st.records :
                         SameChain(st.b, st.records[i]) /\ (st.index < Len(st.records) => i = st.index + 1)
      /\ st.phase = "checked" =>
           /\ st.ok => \A i \in DOMAIN st.bs : SameChain(st.bs[i], st.records[i])
           /\ st.bs = st.records =>
                (st.ok <=> (st.stark => \A i \in DOMAIN st.bs : st.bs[i].stark_present =>
                                          {DnskeyRows, st.bs[i].rec_rrset.rows} = {st.n_trace}))

Product(s) == LET prod[i \in 0 .. Len(s)] == IF i = 0 THEN 1 ELSE s[i] * prod[i - 1] IN prod[Len(s)]

\* Prover and verifier rebuild parameters and pi_hashes apart and agree on what the
\* prover makes.  A shard passes under its own count, salt, binding and mode only,
\* and its schedule folds the whole domain to one point.  Of what runs of the DS
\* prover leave, the verifier takes exactly all the values of one run, made for the
\* key, digest and binding it has, whose key hashes to that digest, for every length
\* of the key; a value left over from another run is taken only where the two runs
\* agree on it.  A signature checked at run time passes only for its key and binding;
\* the stub's STARK for its binding, whatever signature lies beside it.  Nothing is
\* said of values no run of the prover made: the verifier does not open the trace.
ParametersAgree ==
    unit = "dns" =>
      /\ st.phase = "shard checked" =>
           /\ st.ok <=> st.same
           /\ Product(st.schedule) = st.n_trace * BLOWUP
      /\ st.phase = "ds checked" =>
           (st.ok <=> /\ Sha256(st.b.dnskey) = st.b.parent
                      /\ st.b.stark => st.b.out = prove_ds_ksk_binding(st.b.dnskey, st.b.parent, st.fs, "STIR"))
      /\ st.phase = "zsk checked" =>
           /\ st.ok <=> IF st.b.stark THEN st.b.fs = ZoneFs
                        ELSE st.signer = "ksk" /\ st.b.pk = "ksk" /\ st.b.fs = st.fs
           /\ st.v2 <=> st.signer = "ksk" /\ st.b.pk = "ksk" /\ st.b.fs = st.fs
============================================================================
