------------------------------ MODULE Publish ------------------------------
(***************************************************************************)
(* What becomes of collected shards: the files zone_job writes to its      *)
(* state directory, the controller's restarts over the same directory, and *)
(* swarm-verify reading it at any time, with the receipts of the workers   *)
(* and the archives of the witnesses.                                      *)
(*                                                                         *)
(* A hash, a signature or a proof is what it binds: a proof file is the    *)
(* job, the shard and the answer it was made for, and it verifies exactly  *)
(* against those (shard_fs_binding enters every challenge of the proof).   *)
(* An answer is the claim (pi_hash, merkle_root, root_f0) that the vote    *)
(* compares, and whether the proof_blob beside it is good, which the vote  *)
(* does not look at.                                                       *)
(***************************************************************************)
EXTENDS Integers, FiniteSets

CONSTANTS
  Workers,    \* the K replicas of every shard
  Faulty,     \* those that may answer wrongly
  Witnesses,  \* witness controllers
  M,          \* --witness-threshold
  MaxShards,  \* bound: shards of a job
  MaxJobs     \* bound: starts of the controller

ASSUME PublishAssumption ==
  /\ IsFiniteSet(Workers) /\ Faulty \subseteq Workers
  /\ M \in Nat /\ MaxShards \in Nat \ {0} /\ MaxJobs \in Nat \ {0}

Jobs   == 1..MaxJobs
Shards == 1..MaxShards
Right  == [claim |-> "right", good |-> TRUE]
Answer == {Right, [claim |-> "right", good |-> FALSE], [claim |-> "wrong", good |-> FALSE]}

VARIABLES
  job, pc,        \* the job of this start, and how far it is
  n, ds,          \* its shards; its DNSKEY and DS configuration
  answers, result,\* per job: what the workers answered; the canonical answer of a shard
  todo, open,     \* inner proofs still to write, and the one being written
  inner, outer, bundle,    \* the files
  vpc, vb, vnext, seen,    \* the verifier: the bundle it read, the next shard, the files it read
  tainted, full,  \* an audit met what a faulty replica sent; no archive lacked a shard
  verdict,
  last, calm      \* history: the job that last wrote; nothing was written since the verifier started

jobVars  == <<job, pc, n, ds, answers, result, todo, open>>
fileVars == <<inner, outer, bundle>>
verVars  == <<vpc, vb, vnext, seen, tainted, full, verdict>>
histVars == <<last, calm>>
vars     == <<jobVars, fileVars, verVars, histVars>>

Absent == [is |-> "absent"]
Torn   == [is |-> "torn"]
InnerProof(j, s, a) == [is |-> "inner", job |-> j, shard |-> s, answer |-> a]
OuterProof(j)       == [is |-> "outer", job |-> j]

----------------------------------------------------------------------------
(* The vote, as zone_job leaves it behind: a strict majority of the        *)
(* answers of a shard makes one claim, the canonical answer is any of it.  *)

Claiming(a, c) == {w \in Workers : a[w].claim = c}
Majority(a)    == {c \in {"right", "wrong"} : 2 * Cardinality(Claiming(a, c)) > Cardinality(Workers)}
MayAnswer(w)   == IF w \in Faulty THEN Answer ELSE {Right}

Init ==
  /\ job = 1 /\ pc = "proving" /\ n = 0 /\ ds = "none"
  /\ answers = [j \in Jobs |-> <<>>] /\ result = [j \in Jobs |-> <<>>]
  /\ todo = {} /\ open = 0
  /\ inner = [s \in Shards |-> Absent] /\ outer = Absent /\ bundle = Absent
  /\ vpc = "idle" /\ vb = Absent /\ vnext = 1 /\ seen = {}
  /\ tainted = FALSE /\ full = TRUE /\ verdict = "none" /\ last = 0 /\ calm = FALSE

\* All shards are collected, or one has no majority and the job returns.
Collect ==
  /\ pc = "proving"
  /\ \E k \in Shards :
     \E a \in [1..k -> {f \in [Workers -> Answer] : \A w \in Workers : f[w] \in MayAnswer(w)}] :
       /\ n' = k
       /\ answers' = [answers EXCEPT ![job] = a]
       /\ IF \A s \in 1..k : Majority(a[s]) # {}
          THEN /\ \E c \in [1..k -> Workers] :
                    /\ \A s \in 1..k : a[s][c[s]].claim \in Majority(a[s])
                    /\ result' = [result EXCEPT ![job] = [s \in 1..k |-> a[s][c[s]]]]
               /\ todo' = 1..k /\ pc' = "inner"
          ELSE pc' = "returned" /\ UNCHANGED <<result, todo>>
  /\ UNCHANGED <<job, ds, open, fileVars, verVars, histVars>>

Attesting(j, s) == Claiming(answers[j][s], result[j][s].claim)

----------------------------------------------------------------------------
(* The files.  std::fs::write truncates and then writes; it may fail, or   *)
(* the process may die, in between.                                        *)

Writes == last' = job /\ calm' = FALSE

\* The inner proofs, in the order of a HashMap; an error returns.
OpenInner ==
  /\ pc = "inner" /\ open = 0
  /\ \E s \in todo : open' = s /\ inner' = [inner EXCEPT ![s] = Torn]
  /\ Writes
  /\ UNCHANGED <<job, pc, n, ds, answers, result, todo, outer, bundle, verVars>>

\* Variant: the file is named after the position, not the shard.
WriteInnerByPosition ==
  /\ pc = "inner" /\ open # 0
  /\ inner' = [inner EXCEPT ![Cardinality(todo)] = InnerProof(job, open, result[job][open])]
  /\ todo' = todo \ {open} /\ open' = 0
  /\ Writes
  /\ UNCHANGED <<job, pc, n, ds, answers, result, outer, bundle, verVars>>

WriteInner ==
  /\ pc = "inner" /\ open # 0
  /\ inner' = [inner EXCEPT ![open] = InnerProof(job, open, result[job][open])]
  /\ todo' = todo \ {open} /\ open' = 0
  /\ Writes
  /\ UNCHANGED <<job, pc, n, ds, answers, result, outer, bundle, verVars>>

\* Variant: the rollup does not wait for the proofs to be written.
OpenOuterEarly ==
  /\ pc = "inner" /\ open = 0
  /\ outer' = Torn /\ pc' = "outer"
  /\ Writes
  /\ UNCHANGED <<job, n, ds, answers, result, todo, open, inner, bundle, verVars>>

\* The rollup over the claims in shard order, and its file.
OpenOuter ==
  /\ pc = "inner" /\ open = 0 /\ todo = {}
  /\ outer' = Torn /\ pc' = "outer"
  /\ Writes
  /\ UNCHANGED <<job, n, ds, answers, result, todo, open, inner, bundle, verVars>>
WriteOuter ==
  /\ pc = "outer"
  /\ outer' = OuterProof(job) /\ pc' = "sign"
  /\ Writes
  /\ UNCHANGED <<job, n, ds, answers, result, todo, open, inner, bundle, verVars>>

\* The DNSKEY and DS options of this start are read.  A DS hash that is not 32 bytes long ends the job here; nothing compares it
\* with the DNSKEY.
SignDigest ==
  /\ pc = "sign"
  /\ ds' \in {"none", "match", "mismatch", "short"}
  /\ pc' = IF ds' = "short" THEN "returned" ELSE "signed"
  /\ UNCHANGED <<job, n, answers, result, todo, open, fileVars, verVars, histVars>>

\* Variant: the attestations of all replicas are published.
BundleAllAttest(j) ==
  [is |-> "bundle", job |-> j, n |-> n, ds |-> ds,
   claims |-> [s \in 1..n |-> [claim |-> result[j][s].claim, by |-> Workers]]]

Bundle(j) ==
  [is |-> "bundle", job |-> j, n |-> n, ds |-> ds,
   claims |-> [s \in 1..n |-> [claim |-> result[j][s].claim, by |-> Attesting(j, s)]]]

OpenBundle ==
  /\ pc = "signed"
  /\ bundle' = Torn /\ pc' = "bundle"
  /\ Writes
  /\ UNCHANGED <<job, n, ds, answers, result, todo, open, inner, outer, verVars>>
WriteBundle ==
  /\ pc = "bundle"
  /\ bundle' = Bundle(job) /\ pc' = "complete"
  /\ Writes
  /\ UNCHANGED <<job, n, ds, answers, result, todo, open, inner, outer, verVars>>

\* A failed write returns, except that of the bundle, which is only logged.
WriteFails ==
  /\ \/ pc = "inner" /\ open # 0 /\ pc' = "returned"
     \/ pc = "outer" /\ pc' = "returned"
     \/ pc = "bundle" /\ pc' = "complete"
  /\ UNCHANGED <<job, n, ds, answers, result, todo, open, fileVars, verVars, histVars>>

\* The controller dies or has ended, and is started again: a new job over the
\* same directory.
Restart ==
  /\ job < MaxJobs
  /\ job' = job + 1 /\ pc' = "proving" /\ n' = 0 /\ ds' = "none" /\ todo' = {} /\ open' = 0
  /\ UNCHANGED <<answers, result, fileVars, verVars, histVars>>

----------------------------------------------------------------------------
(* swarm-verify.  Every check that fails ends it with an error.            *)

Ends(v) == vpc' = "idle" /\ verdict' = v

ReadBundle ==
  /\ vpc = "idle"
  /\ vb' = IF bundle.is = "bundle" THEN bundle ELSE Absent
  /\ IF bundle.is = "bundle" THEN vpc' = "inner" /\ verdict' = "none" ELSE Ends("err")
  /\ vnext' = 1 /\ seen' = {} /\ tainted' = FALSE /\ full' = TRUE /\ calm' = TRUE
  /\ UNCHANGED <<jobVars, fileVars, last>>

\* Variant: the claim is recomputed without the job in the binding.
ProofVerifiesAnyJob(f, s) ==
  /\ f.is = "inner" /\ f.shard = s /\ f.answer.good
  /\ f.answer.claim = vb.claims[s].claim

\* The size, the claim recomputed over shard_fs_binding, the proof itself; then
\* one to K attestations, all of this claim.
ProofVerifies(f, s) ==
  /\ f.is = "inner" /\ f.job = vb.job /\ f.shard = s /\ f.answer.good
  /\ f.answer.claim = vb.claims[s].claim
AttestationsVerify(s) ==
  /\ Cardinality(vb.claims[s].by) \in 1..Cardinality(Workers)
  /\ vb.claims[s].by \subseteq Claiming(answers[vb.job][s], vb.claims[s].claim)
VerifyInner ==
  /\ vpc = "inner" /\ vnext <= vb.n
  /\ LET f == inner[vnext]
     IN  /\ seen' = seen \cup {f}
         /\ IF ProofVerifies(f, vnext) /\ AttestationsVerify(vnext)
            THEN vnext' = vnext + 1 /\ UNCHANGED <<vpc, verdict>>
            ELSE Ends("err") /\ UNCHANGED vnext
  /\ UNCHANGED <<jobVars, fileVars, vb, tainted, full, histVars>>

\* The rollup and its root, the signed digest, the DS binding.
VerifyOuter ==
  /\ vpc = "inner" /\ vnext > vb.n
  /\ seen' = seen \cup {outer}
  /\ IF outer = OuterProof(vb.job) /\ vb.ds # "mismatch"
     THEN vpc' = "receipts" /\ UNCHANGED verdict
     ELSE Ends("err")
  /\ UNCHANGED <<jobVars, fileVars, vb, vnext, tainted, full, histVars>>

\* Receipts: a replica whose answer was counted holds one for its claim, on disk
\* or still on its way.
Receipts(R) == [p \in R |-> answers[vb.job][p[2]][p[1]].claim]
Censored(R) == {p \in R : Receipts(R)[p] # vb.claims[p[2]].claim}
AuditReceipts ==
  /\ vpc = "receipts"
  /\ \E R \in SUBSET (Workers \X (1..vb.n)) :
       /\ tainted' = \E p \in R : p[1] \in Faulty
       /\ IF Censored(R) # {} THEN Ends("censored")
                              ELSE vpc' = "witnesses" /\ UNCHANGED verdict
  /\ UNCHANGED <<jobVars, fileVars, vb, vnext, seen, full, histVars>>

\* Variant: the archives have no directory per job, and an old file is kept.
EvidenceFirst(s, w) ==
  LET j == CHOOSE i \in Jobs : /\ s \in DOMAIN answers[i]
                               /\ \A k \in 1..(i - 1) : s \notin DOMAIN answers[k]
  IN  [job |-> j, claim |-> answers[j][s][w].claim]

\* A witness keeps one file per job and shard, the evidence of the replica that
\* came last; an archive may still lack it.
Evidence(s, w) == [job |-> vb.job, claim |-> answers[vb.job][s][w].claim]
Matches(s, ws) == \E w \in ws : Evidence(s, w) = [job |-> vb.job, claim |-> vb.claims[s].claim]
AuditWitnesses ==
  /\ vpc = "witnesses"
  /\ \E kept \in [Witnesses \X (1..vb.n) -> {{}} \cup {{w} : w \in Workers}] :
       /\ tainted' = \E x \in DOMAIN kept : kept[x] \cap Faulty # {}
       /\ full' = \A x \in DOMAIN kept : kept[x] # {}
       /\ Ends(IF \A s \in 1..vb.n :
                    Cardinality({v \in Witnesses : Matches(s, kept[<<v, s>>])}) >= M
               THEN "ok" ELSE "shortfall")
  /\ UNCHANGED <<jobVars, fileVars, vb, vnext, seen, histVars>>

Next ==
  \/ Collect \/ OpenInner \/ WriteInner \/ OpenOuter \/ WriteOuter \/ SignDigest
  \/ OpenBundle \/ WriteBundle \/ WriteFails \/ Restart
  \/ ReadBundle \/ VerifyInner \/ VerifyOuter \/ AuditReceipts \/ AuditWitnesses

Spec == Init /\ [][Next]_vars

----------------------------------------------------------------------------
Files  == {Absent, Torn}
            \cup {InnerProof(j, s, a) : j \in Jobs, s \in Shards, a \in Answer}
            \cup {OuterProof(j) : j \in Jobs}

\* Every variable has the shape of the state it stands for, and no file holds
\* what belongs in another.
TypeOK ==
  /\ job \in Jobs /\ n \in 0..MaxShards /\ last \in 0..job /\ calm \in BOOLEAN
  /\ pc \in {"proving", "inner", "outer", "sign", "signed", "bundle", "complete", "returned"}
  /\ ds \in {"none", "match", "mismatch", "short"}
  /\ todo \subseteq 1..n /\ open \in 0..n
  /\ \A s \in Shards : inner[s] \in Files /\ (inner[s].is = "inner" => inner[s].shard = s)
  /\ outer \in Files /\ outer.is # "inner" /\ bundle.is \in {"absent", "torn", "bundle"}
  /\ vpc \in {"idle", "inner", "receipts", "witnesses"} /\ seen \subseteq Files
  /\ vb.is \in {"absent", "bundle"} /\ vnext \in 1..(MaxShards + 1)
  /\ tainted \in BOOLEAN /\ full \in BOOLEAN
  /\ verdict \in {"none", "ok", "censored", "shortfall", "err"}

Proofs(j, k) == {InnerProof(j, s, result[j][s]) : s \in 1..k} \cup {OuterProof(j)}

\* Whatever the controller overwrites meanwhile, a verifier that gets through
\* the chain has read the proofs one job collected, all of them and no other.
VerifiedOneJob ==
  vpc \in {"receipts", "witnesses"} \/ verdict \in {"ok", "censored", "shortfall"}
    => seen = Proofs(vb.job, vb.n) /\ \A f \in seen : f.is = "inner" => f.answer.good

\* A bundle is on disk only after everything it refers to, and stays right until
\* a later job writes: a crash at any point leaves no bundle over missing files.
BundleLast ==
  bundle.is = "bundle" /\ bundle.job = last
    => {inner[s] : s \in 1..bundle.n} \cup {outer} = Proofs(last, bundle.n)

Undisturbed == calm /\ vb.is = "bundle" /\ vb.job = last

\* What the last writer published verifies, if its proofs are good and its DS
\* configuration is consistent.
PublishedVerifies ==
  /\ Undisturbed /\ vb.ds # "mismatch"
  /\ \A s \in 1..vb.n : result[vb.job][s].good
  => verdict # "err"

\* With a faulty minority, the audits accuse or fall short only over what a
\* faulty replica sent, or over archives that are incomplete.
AuditsExplained ==
  /\ verdict = "censored" => tainted
  /\ verdict = "shortfall" /\ M <= Cardinality(Witnesses) => tainted \/ ~full

\* "an ensemble accepts the canonical result so long as at most (k-1)/2 of the
\* assigned workers are Byzantine": what it publishes then verifies.
MajorityVerifies ==
  Undisturbed /\ vb.ds # "mismatch" => verdict # "err"

=============================================================================
