---------------------------- MODULE PublishProofs ----------------------------
(***************************************************************************)
(* What is published can be trusted, for any number of replicas, shards    *)
(* and starts of the controller: the invariants of Publish, by induction   *)
(* over its steps.                                                         *)
(*                                                                         *)
(* The files outlive the job that wrote them and the verifier reads them   *)
(* one at a time, so the invariant ties every file, and every file the     *)
(* verifier holds in memory, to what its job collected.  That never        *)
(* changes again: a job is Settled once its answers are in, and Final once *)
(* nothing is left for it to write.                                        *)
(***************************************************************************)
EXTENDS Publish, FiniteSetTheorems, TLAPS

\* The answers of job j are in, it writes no more: when start i is at p.
Settled(j, i, p) == j \in Jobs /\ (j < i \/ (j = i /\ p # "proving"))
Final(j, i, p)   == j \in Jobs /\ (j < i \/ (j = i /\ p = "complete"))

Votes == {f \in [Workers -> Answer] : \A w \in Workers : f[w] \in MayAnswer(w)}

\* A collection of k shards: each has its votes A[s] and, from one of the
\* replicas that make the majority's claim, its canonical answer R[s].
Collection(A, R, k) ==
  /\ k \in Shards /\ A \in [1..k -> Votes] /\ R \in [1..k -> Answer]
  /\ \A s \in 1..k : /\ \E w \in Workers : A[s][w] = R[s]
                     /\ R[s].claim \in Majority(A[s])

\* A bundle lists the claims of such a collection and who attests them.
Lists(b, A, R) ==
  /\ Collection(A, R, b.n)
  /\ b.claims = [s \in 1..b.n |-> [claim |-> R[s].claim, by |-> Claiming(A[s], R[s].claim)]]

Faithful(b) == Final(b.job, job, pc) /\ Lists(b, answers[b.job], result[b.job])

Kept ==
  /\ \A s \in Shards : inner[s].is = "inner" =>
       Settled(inner[s].job, job, pc) /\ inner[s].answer = result[inner[s].job][s]
  /\ bundle.is = "bundle" => Faithful(bundle)
  /\ vb.is = "bundle" => Faithful(vb)

\* The file of shard s holds what this job proves of it.
Stored(s) == inner[s] = InnerProof(job, s, result[job][s])

\* What this start has behind it.
Writing ==
  /\ pc = "proving" => n = 0
  /\ pc \in {"inner", "outer", "sign", "signed", "bundle", "complete"} => Collection(answers[job], result[job], n)
  /\ pc = "inner" => /\ \A s \in (1..n) \ todo : Stored(s)
                     /\ open # 0 => open \in todo
  /\ pc \in {"outer", "sign", "signed", "bundle"} => \A s \in 1..n : Stored(s)
  /\ pc \in {"sign", "signed", "bundle"} => outer = OuterProof(job)

InnerProofs(j, k) == {InnerProof(j, s, result[j][s]) : s \in 1..k}
AllGood(F)        == \A f \in F : f.is = "inner" => f.answer.good

\* What the verifier has behind it.
Reading ==
  /\ vpc # "idle" => verdict = "none"
  /\ vpc # "idle" \/ verdict \in {"ok", "censored", "shortfall"} => vb.is = "bundle"
  /\ vpc = "inner" => /\ vnext \in 1..(vb.n + 1)
                      /\ seen = InnerProofs(vb.job, vnext - 1) /\ AllGood(seen)
  /\ calm /\ vb.is = "bundle" => bundle = vb

\* Everything a bundle refers to is there, until a later job writes.
InPlace ==
  bundle.is = "bundle" /\ bundle.job = last =>
    /\ \A s \in 1..bundle.n : inner[s] = InnerProof(last, s, result[last][s])
    /\ outer = OuterProof(last)

Shapes == DOMAIN answers = Jobs /\ DOMAIN result = Jobs /\ DOMAIN inner = Shards

IInv ==
  /\ TypeOK /\ Shapes /\ Kept /\ Writing /\ Reading
  /\ InPlace /\ VerifiedOneJob /\ PublishedVerifies

USE PublishAssumption DEF Jobs, Shards
USE DEF jobVars, fileVars, verVars, histVars

----------------------------------------------------------------------------
(* Files and answers.                                                      *)

\* The files are told apart by what they are, and a proof by what it is for.
LEMMA FileFields ==
  /\ Absent.is = "absent" /\ Torn.is = "torn"
  /\ \A j : OuterProof(j).is = "outer"
  /\ \A j, s, a : /\ InnerProof(j, s, a).is = "inner" /\ InnerProof(j, s, a).job = j
                  /\ InnerProof(j, s, a).shard = s /\ InnerProof(j, s, a).answer = a
BY DEF Absent, Torn, OuterProof, InnerProof

\* A proof file is the proof its three fields name.
LEMMA InnerFile ==
  ASSUME NEW f \in Files, f.is = "inner"
  PROVE  /\ f.job \in Jobs /\ f.shard \in Shards /\ f.answer \in Answer
         /\ f = InnerProof(f.job, f.shard, f.answer)
<1>1. PICK j \in Jobs, s \in Shards, a \in Answer : f = InnerProof(j, s, a)
  BY FileFields DEF Files
<1>. QED  BY <1>1, FileFields

LEMMA FileMade ==
  /\ Absent \in Files /\ Torn \in Files
  /\ \A j \in Jobs : OuterProof(j) \in Files
  /\ \A j \in Jobs, s \in Shards, a \in Answer : InnerProof(j, s, a) \in Files
BY DEF Files

LEMMA AnswerFields ==
  /\ Right \in Answer /\ Right.claim = "right" /\ Right.good = TRUE
  /\ \A a \in Answer : a.claim \in {"right", "wrong"} /\ a.good \in BOOLEAN
BY DEF Answer, Right

\* Once the answers of a job are in, no step changes them, or takes back that
\* a job is through with writing.
LEMMA Forward ==
  ASSUME TypeOK, Shapes, [Next]_vars
  PROVE  \A j : /\ Settled(j, job, pc) => /\ Settled(j, job', pc')
                                          /\ answers'[j] = answers[j] /\ result'[j] = result[j]
                /\ Final(j, job, pc) => Settled(j, job, pc) /\ Final(j, job', pc')
<1>0. job \in Nat /\ job >= 1 /\ job <= MaxJobs /\ MaxJobs \in Nat
  BY DEF TypeOK
<1>1. CASE Collect
  <2>1. /\ pc = "proving" /\ job' = job
        /\ \A i \in Jobs : i # job => answers'[i] = answers[i] /\ result'[i] = result[i]
    BY <1>1 DEF Collect, Shapes
  <2>. QED  BY <1>0, <2>1 DEF Settled, Final
<1>2. CASE Restart
  <2>1. job' = job + 1 /\ answers' = answers /\ result' = result
    BY <1>2 DEF Restart
  <2>. QED  BY <1>0, <2>1 DEF Settled, Final
<1>3. CASE ~Collect /\ ~Restart
  <2>1. /\ job' = job /\ answers' = answers /\ result' = result
        /\ pc' # pc => pc' # "proving" /\ pc # "complete" /\ pc # "proving"
    BY <1>3 DEF Next, vars, OpenInner, WriteInner, OpenOuter, WriteOuter, SignDigest,
                OpenBundle, WriteBundle, WriteFails, ReadBundle, VerifyInner, VerifyOuter,
                AuditReceipts, AuditWitnesses, Ends
  <2>. QED  BY <1>0, <2>1 DEF Settled, Final
<1>. QED  BY <1>1, <1>2, <1>3

----------------------------------------------------------------------------
(* The types.                                                              *)

LEMMA Numbers ==
  ASSUME TypeOK
  PROVE  /\ job \in Nat /\ job >= 1 /\ job <= MaxJobs /\ n \in Nat /\ n <= MaxShards
         /\ last \in Nat /\ last <= job /\ vnext \in Nat /\ vnext >= 1
BY DEF TypeOK

LEMMA TypesCollect ==
  ASSUME TypeOK, Writing, Collect
  PROVE  TypeOK'
<1>1. PICK k \in Shards : /\ n' = k /\ pc' \in {"inner", "returned"}
                          /\ todo' \in {todo, 1..k}
  BY DEF Collect
<1>2. n = 0 /\ todo \subseteq 1..n /\ open \in 0..n
  BY DEF Collect, Writing, TypeOK
<1>3. todo \subseteq 1..k /\ open \in 0..k /\ k \in 0..MaxShards
  BY <1>2
<1>4. n' \in 0..MaxShards /\ todo' \subseteq 1..n' /\ open' \in 0..n'
  BY <1>1, <1>3 DEF Collect
<1>. QED  BY <1>1, <1>4 DEF Collect, TypeOK

LEMMA TypesInner ==
  ASSUME TypeOK, Shapes, Writing, OpenInner \/ WriteInner
  PROVE  TypeOK'
<1>1. /\ pc = "inner" /\ Collection(answers[job], result[job], n) /\ todo \subseteq 1..n /\ n \in 0..MaxShards
      /\ job \in Jobs /\ job \in 0..job
  BY Numbers DEF OpenInner, WriteInner, Writing, TypeOK
<1>2. CASE OpenInner
  <2>1. PICK s \in todo : open' = s /\ inner' = [inner EXCEPT ![s] = Torn]
    BY <1>2 DEF OpenInner
  <2>2. s \in 1..n /\ open' \in 0..n
    BY <1>1, <2>1
  <2>3. \A t \in Shards : inner'[t] \in Files /\ (inner'[t].is = "inner" => inner'[t].shard = t)
    BY <2>1, FileFields, FileMade DEF TypeOK, Shapes
  <2>4. last' \in 0..job' /\ calm' \in BOOLEAN
    BY <1>1, <1>2 DEF OpenInner, Writes
  <2>. QED  BY <1>2, <2>2, <2>3, <2>4 DEF OpenInner, TypeOK
<1>3. CASE WriteInner
  <2>0. open \in todo
    BY <1>3 DEF WriteInner, Writing
  <2>1. open \in Shards /\ result[job][open] \in Answer
    <3>1. open \in 1..n /\ n \in Nat /\ n <= MaxShards
      BY <1>1, <2>0
    <3>2. result[job] \in [1..n -> Answer]
      BY <1>1 DEF Collection
    <3>. QED  BY <3>1, <3>2
  <2>2. \A t \in Shards : inner'[t] \in Files /\ (inner'[t].is = "inner" => inner'[t].shard = t)
    BY <1>1, <1>3, <2>1, FileFields, FileMade DEF TypeOK, Shapes, WriteInner
  <2>3. last' \in 0..job' /\ calm' \in BOOLEAN
    BY <1>1, <1>3 DEF WriteInner, Writes
  <2>4. open' = 0 /\ 0 \in 0..n /\ n' = n /\ todo' \subseteq todo
    BY <1>1, <1>3 DEF WriteInner
  <2>5. open' \in 0..n' /\ todo' \subseteq 1..n'
    BY <1>1, <2>4
  <2>. QED  BY <1>3, <2>2, <2>3, <2>5 DEF WriteInner, TypeOK
<1>. QED  BY <1>2, <1>3

LEMMA TypesOuter ==
  ASSUME TypeOK, OpenOuter \/ WriteOuter \/ SignDigest \/ OpenBundle \/ WriteBundle \/ WriteFails
  PROVE  TypeOK'
<1>1. last \in 0..job /\ job \in 0..job /\ job \in Jobs
  BY Numbers DEF TypeOK
<1>2. CASE OpenOuter \/ WriteOuter
  <2>1. outer' \in Files /\ outer'.is # "inner"
    BY <1>1, <1>2, FileFields, FileMade DEF OpenOuter, WriteOuter
  <2>. QED  BY <1>1, <1>2, <2>1 DEF OpenOuter, WriteOuter, Writes, TypeOK
<1>3. CASE SignDigest \/ WriteFails
  <2>1. ds' \in {"none", "match", "mismatch", "short"}
    BY <1>3 DEF SignDigest, WriteFails, TypeOK
  <2>2. pc' \in {"returned", "signed", "complete"}
    BY <1>3 DEF SignDigest, WriteFails
  <2>3. UNCHANGED <<job, n, answers, result, todo, open, fileVars, verVars, histVars>>
    BY <1>3 DEF SignDigest, WriteFails
  <2>. QED  BY <2>1, <2>2, <2>3 DEF TypeOK
<1>4. CASE OpenBundle \/ WriteBundle
  <2>1. bundle'.is \in {"torn", "bundle"}
    BY <1>4, FileFields DEF OpenBundle, WriteBundle, Bundle
  <2>. QED  BY <1>1, <1>4, <2>1 DEF OpenBundle, WriteBundle, Writes, TypeOK
<1>. QED  BY <1>2, <1>3, <1>4

LEMMA TypesRestart ==
  ASSUME TypeOK, Restart
  PROVE  TypeOK'
<1>1. job' \in Jobs /\ last' \in 0..job' /\ n' \in 0..MaxShards /\ todo' \subseteq 1..n' /\ open' \in 0..n'
  BY Numbers DEF Restart
<1>. QED  BY <1>1 DEF Restart, TypeOK

LEMMA TypesVerifier ==
  ASSUME TypeOK, Kept, Reading,
         ReadBundle \/ VerifyInner \/ VerifyOuter \/ AuditReceipts \/ AuditWitnesses
  PROVE  TypeOK'
<1>1. CASE ReadBundle
  <2>1. vb'.is \in {"absent", "bundle"}
    BY <1>1, FileFields DEF ReadBundle
  <2>2. vnext' \in 1..(MaxShards + 1)
    BY <1>1 DEF ReadBundle
  <2>. QED  BY <1>1, <2>1, <2>2 DEF ReadBundle, Ends, TypeOK
<1>2. CASE VerifyInner
  <2>1. vb.n \in Shards /\ vnext <= vb.n
    BY <1>2 DEF VerifyInner, Reading, Kept, Faithful, Lists, Collection
  <2>2. vnext \in Shards /\ vnext + 1 \in 1..(MaxShards + 1)
    BY <2>1, Numbers
  <2>3. seen' \subseteq Files /\ vnext' \in 1..(MaxShards + 1)
    BY <1>2, <2>2 DEF VerifyInner, TypeOK
  <2>. QED  BY <1>2, <2>3 DEF VerifyInner, Ends, TypeOK
<1>3. CASE VerifyOuter
  BY <1>3 DEF VerifyOuter, Ends, TypeOK
<1>4. CASE AuditReceipts
  BY <1>4 DEF AuditReceipts, Ends, TypeOK
<1>5. CASE AuditWitnesses
  BY <1>5 DEF AuditWitnesses, Ends, TypeOK
<1>. QED  BY <1>1, <1>2, <1>3, <1>4, <1>5

LEMMA TypesKept ==
  ASSUME TypeOK, Shapes, Kept, Writing, Reading, [Next]_vars
  PROVE  TypeOK' /\ Shapes'
<1>1. Shapes'
  BY DEF Next, vars, Shapes, Collect, OpenInner, WriteInner, OpenOuter, WriteOuter, SignDigest,
         OpenBundle, WriteBundle, WriteFails, Restart, ReadBundle, VerifyInner, VerifyOuter,
         AuditReceipts, AuditWitnesses, Ends
<1>2. TypeOK'
  <2>1. CASE UNCHANGED vars
    BY <2>1 DEF vars, TypeOK
  <2>. QED  BY <2>1, TypesCollect, TypesInner, TypesOuter, TypesRestart, TypesVerifier DEF Next
<1>. QED  BY <1>1, <1>2

----------------------------------------------------------------------------
(* What is on disk, or in the verifier's hands, is what its job collected. *)

\* A step leaves what a bundle says true.
LEMMA FaithfulStays ==
  ASSUME TypeOK, Shapes, [Next]_vars
  PROVE  \A b : Faithful(b) => /\ Final(b.job, job', pc')
                               /\ Lists(b, answers'[b.job], result'[b.job])
BY Forward DEF Faithful

\* The bundle of a job that has just been collected is faithful.
LEMMA BundleFaithful ==
  ASSUME TypeOK, Shapes, Writing, WriteBundle
  PROVE  Faithful(bundle)' /\ bundle'.job = job /\ bundle'.n = n
<1>1. /\ bundle'.job = job /\ bundle'.n = n
      /\ bundle'.claims = [s \in 1..n |-> [claim |-> result[job][s].claim,
                                           by |-> Claiming(answers[job][s], result[job][s].claim)]]
  BY DEF WriteBundle, Bundle, Attesting
<1>2. /\ UNCHANGED <<job, n, answers, result>> /\ pc' = "complete"
      /\ Collection(answers[job], result[job], n) /\ job \in Jobs
  BY DEF WriteBundle, Writing, TypeOK
<1>3. Final(job, job', pc')
  BY <1>2 DEF Final
<1>4. Lists(bundle', answers[job], result[job])
  BY <1>1, <1>2 DEF Lists
<1>. QED  BY <1>1, <1>2, <1>3, <1>4 DEF Faithful

LEMMA FilesKept ==
  ASSUME TypeOK, Shapes, Kept, Writing, [Next]_vars
  PROVE  \A s \in Shards : inner'[s].is = "inner" =>
           Settled(inner'[s].job, job', pc') /\ inner'[s].answer = result'[inner'[s].job][s]
<1>. SUFFICES ASSUME NEW s \in Shards, inner'[s].is = "inner"
              PROVE  Settled(inner'[s].job, job', pc') /\ inner'[s].answer = result'[inner'[s].job][s]
  OBVIOUS
<1>1. CASE inner'[s] = inner[s]
  <2>1. Settled(inner[s].job, job, pc) /\ inner[s].answer = result[inner[s].job][s]
    BY <1>1 DEF Kept
  <2>2. Settled(inner[s].job, job', pc') /\ result'[inner[s].job] = result[inner[s].job]
    BY <2>1, Forward
  <2>. QED  BY <1>1, <2>1, <2>2
<1>2. CASE inner'[s] # inner[s]
  <2>1. WriteInner /\ s = open
    <3>1. OpenInner \/ WriteInner
      BY <1>2 DEF Next, vars, Collect, OpenOuter, WriteOuter, SignDigest, OpenBundle, WriteBundle,
           WriteFails, Restart, ReadBundle, VerifyInner, VerifyOuter, AuditReceipts, AuditWitnesses
    <3>2. ~OpenInner
      BY <1>2, FileFields DEF OpenInner, Shapes
    <3>. QED  BY <1>2, <3>1, <3>2 DEF WriteInner, Shapes
  <2>2. inner'[s] = InnerProof(job, s, result[job][s])
    BY <2>1 DEF WriteInner, Shapes
  <2>3. inner'[s].job = job /\ inner'[s].answer = result[job][s]
    BY <2>2, FileFields
  <2>4. pc = "inner" /\ pc' = pc /\ job' = job /\ result' = result /\ job \in Jobs
    BY <2>1 DEF WriteInner, TypeOK
  <2>5. Settled(job, job, pc)
    BY <2>4 DEF Settled
  <2>. QED  BY <2>3, <2>4, <2>5
<1>. QED  BY <1>1, <1>2

LEMMA KeptKept ==
  ASSUME TypeOK, Shapes, Kept, Writing, [Next]_vars
  PROVE  Kept'
<1>1. bundle'.is = "bundle" => Faithful(bundle)'
  <2>1. CASE WriteBundle
    BY <2>1, BundleFaithful
  <2>2. CASE bundle' = bundle
    <3>. SUFFICES ASSUME bundle.is = "bundle" PROVE Faithful(bundle)'
      BY <2>2
    <3>1. Faithful(bundle)
      BY DEF Kept
    <3>. QED  BY <2>2, <3>1, FaithfulStays DEF Faithful
  <2>3. CASE bundle' = Torn
    BY <2>3, FileFields
  <2>. QED  BY <2>1, <2>2, <2>3
         DEF Next, vars, Collect, OpenInner, WriteInner, OpenOuter, WriteOuter, SignDigest, OpenBundle,
             WriteFails, Restart, ReadBundle, VerifyInner, VerifyOuter, AuditReceipts, AuditWitnesses
<1>2. vb'.is = "bundle" => Faithful(vb)'
  <2>1. CASE vb' = vb
    <3>. SUFFICES ASSUME vb.is = "bundle" PROVE Faithful(vb)'
      BY <2>1
    <3>1. Faithful(vb)
      BY DEF Kept
    <3>. QED  BY <2>1, <3>1, FaithfulStays DEF Faithful
  <2>2. CASE vb' = bundle
    <3>. SUFFICES ASSUME bundle.is = "bundle" PROVE Faithful(vb)'
      BY <2>2
    <3>1. Faithful(bundle)
      BY DEF Kept
    <3>. QED  BY <2>2, <3>1, FaithfulStays DEF Faithful
  <2>3. CASE vb' = Absent
    BY <2>3, FileFields
  <2>. QED  BY <2>1, <2>2, <2>3
         DEF Next, vars, Collect, OpenInner, WriteInner, OpenOuter, WriteOuter, SignDigest, OpenBundle,
             WriteBundle, WriteFails, Restart, ReadBundle, VerifyInner, VerifyOuter, AuditReceipts,
             AuditWitnesses
<1>. QED  BY <1>1, <1>2, FilesKept DEF Kept

----------------------------------------------------------------------------
(* The writer, and what is in place when it has published.                 *)

VerifierStep == ReadBundle \/ VerifyInner \/ VerifyOuter \/ AuditReceipts \/ AuditWitnesses

LEMMA VerifierOnlyReads ==
  ASSUME VerifierStep \/ UNCHANGED vars
  PROVE  UNCHANGED <<jobVars, fileVars, last>>
BY DEF VerifierStep, ReadBundle, VerifyInner, VerifyOuter, AuditReceipts, AuditWitnesses, vars

LEMMA CollectCollects ==
  ASSUME TypeOK, Shapes, Writing, Collect
  PROVE  Writing'
<1>0. job' = job /\ job \in Jobs /\ open = 0 /\ open' = 0
  <2>1. n = 0 /\ open \in 0..n
    BY DEF Collect, Writing, TypeOK
  <2>. QED  BY <2>1 DEF Collect, TypeOK
<1>a. PICK k \in Shards : \E a \in [1..k -> Votes] :
        /\ n' = k /\ answers' = [answers EXCEPT ![job] = a]
        /\ IF \A s \in 1..k : Majority(a[s]) # {}
           THEN /\ \E c \in [1..k -> Workers] :
                     /\ \A s \in 1..k : a[s][c[s]].claim \in Majority(a[s])
                     /\ result' = [result EXCEPT ![job] = [s \in 1..k |-> a[s][c[s]]]]
                /\ todo' = 1..k /\ pc' = "inner"
           ELSE pc' = "returned"
  BY DEF Collect, Votes
<1>1. PICK a \in [1..k -> Votes] :
        /\ n' = k /\ answers' = [answers EXCEPT ![job] = a]
        /\ IF \A s \in 1..k : Majority(a[s]) # {}
           THEN /\ \E c \in [1..k -> Workers] :
                     /\ \A s \in 1..k : a[s][c[s]].claim \in Majority(a[s])
                     /\ result' = [result EXCEPT ![job] = [s \in 1..k |-> a[s][c[s]]]]
                /\ todo' = 1..k /\ pc' = "inner"
           ELSE pc' = "returned"
  BY <1>a
<1>2. CASE pc' = "inner"
  <2>1. PICK c \in [1..k -> Workers] :
          /\ \A s \in 1..k : a[s][c[s]].claim \in Majority(a[s])
          /\ result' = [result EXCEPT ![job] = [s \in 1..k |-> a[s][c[s]]]]
    BY <1>1, <1>2
  <2>2. answers'[job] = a /\ result'[job] = [s \in 1..k |-> a[s][c[s]]]
    BY <1>0, <1>1, <2>1 DEF Shapes
  <2>3. \A s \in 1..k : a[s] \in [Workers -> Answer] /\ c[s] \in Workers
    BY <1>1, <2>1 DEF Votes
  <2>4. [s \in 1..k |-> a[s][c[s]]] \in [1..k -> Answer]
    BY <2>3
  <2>5. \A s \in 1..k : /\ \E w \in Workers : a[s][w] = [t \in 1..k |-> a[t][c[t]]][s]
                        /\ [t \in 1..k |-> a[t][c[t]]][s].claim \in Majority(a[s])
    BY <2>1, <2>3
  <2>6. Collection(a, [s \in 1..k |-> a[s][c[s]]], k)
    BY <2>4, <2>5 DEF Collection
  <2>7. todo' = 1..n'
    BY <1>1, <1>2
  <2>. QED  BY <1>0, <1>1, <1>2, <2>2, <2>6, <2>7 DEF Writing
<1>3. CASE pc' = "returned"
  BY <1>3 DEF Writing
<1>. QED  BY <1>1, <1>2, <1>3

LEMMA InnerWritten ==
  ASSUME TypeOK, Shapes, Writing, OpenInner \/ WriteInner
  PROVE  Writing'
<1>1. /\ pc = "inner" /\ pc' = pc /\ Collection(answers[job], result[job], n)
      /\ todo \subseteq 1..n /\ n \in 0..MaxShards
      /\ UNCHANGED <<job, n, answers, result>> /\ \A s \in (1..n) \ todo : Stored(s)
  BY DEF OpenInner, WriteInner, Writing, TypeOK
<1>2. 1..n \subseteq Shards
  BY <1>1
<1>3. CASE OpenInner
  <2>1. PICK t \in todo : open' = t /\ inner' = [inner EXCEPT ![t] = Torn] /\ todo' = todo
    BY <1>3 DEF OpenInner
  <2>2. \A s \in (1..n) \ todo : inner'[s] = inner[s]
    BY <1>2, <2>1 DEF Shapes
  <2>. QED  BY <1>1, <2>1, <2>2 DEF Writing, Stored
<1>4. CASE WriteInner
  <2>1. open \in todo /\ open \in 1..n
    BY <1>1, <1>4 DEF WriteInner, Writing
  <2>2. inner'[open] = InnerProof(job, open, result[job][open])
    BY <1>2, <1>4, <2>1 DEF WriteInner, Shapes
  <2>3. \A s \in (1..n) \ todo : inner'[s] = inner[s]
    BY <1>2, <1>4, <2>1 DEF WriteInner, Shapes
  <2>4. todo' = todo \ {open} /\ open' = 0
    BY <1>4 DEF WriteInner
  <2>. QED  BY <1>1, <2>1, <2>2, <2>3, <2>4 DEF Writing, Stored
<1>. QED  BY <1>3, <1>4

LEMMA WritingKept ==
  ASSUME TypeOK, Shapes, Writing, [Next]_vars
  PROVE  Writing'
<1>1. CASE OpenOuter \/ WriteOuter
  BY <1>1 DEF OpenOuter, WriteOuter, Writing, Stored
<1>2. CASE SignDigest \/ WriteFails
  BY <1>2 DEF SignDigest, WriteFails, Writing, Stored
<1>3. CASE OpenBundle \/ WriteBundle
  BY <1>3 DEF OpenBundle, WriteBundle, Writing, Stored
<1>4. CASE Restart
  BY <1>4 DEF Restart, Writing
<1>5. CASE VerifierStep \/ UNCHANGED vars
  BY <1>5, VerifierOnlyReads DEF Writing, Stored
<1>. QED  BY <1>1, <1>2, <1>3, <1>4, <1>5, CollectCollects, InnerWritten DEF Next, VerifierStep

\* Another job's bundle does not survive as the last writer's.
LEMMA InPlaceKept ==
  ASSUME TypeOK, Shapes, Kept, Writing, InPlace, [Next]_vars
  PROVE  InPlace'
<1>1. CASE WriteBundle
  <2>1. bundle'.job = job /\ bundle'.n = n
    BY <1>1, BundleFaithful
  <2>2. /\ pc = "bundle" /\ last' = job /\ UNCHANGED <<job, n, result, inner, outer>>
    BY <1>1 DEF WriteBundle, Writes
  <2>3. (\A s \in 1..n : Stored(s)) /\ outer = OuterProof(job)
    BY <2>2 DEF Writing
  <2>. QED  BY <2>1, <2>2, <2>3 DEF InPlace, Stored
<1>2. CASE OpenBundle
  BY <1>2, FileFields DEF OpenBundle, InPlace
<1>3. CASE OpenInner \/ WriteInner \/ OpenOuter \/ WriteOuter
  <2>1. last' = job /\ bundle' = bundle /\ pc # "complete"
    BY <1>3 DEF OpenInner, WriteInner, OpenOuter, WriteOuter, Writes
  <2>2. bundle.is = "bundle" => bundle.job \in Jobs /\ bundle.job < job
    BY <2>1 DEF Kept, Faithful, Final
  <2>3. bundle.is = "bundle" => bundle.job # job
    BY <2>2, Numbers
  <2>. QED  BY <2>1, <2>3 DEF InPlace
<1>4. CASE UNCHANGED <<inner, outer, bundle, last>>
  <2>. SUFFICES ASSUME bundle.is = "bundle", bundle.job = last
                PROVE  /\ \A s \in 1..bundle.n : inner[s] = InnerProof(last, s, result'[last][s])
                       /\ outer = OuterProof(last)
    BY <1>4 DEF InPlace
  <2>1. Final(last, job, pc)
    BY DEF Kept, Faithful
  <2>2. result'[last] = result[last]
    BY <2>1, Forward
  <2>. QED  BY <2>2 DEF InPlace
<1>. QED  BY <1>1, <1>2, <1>3, <1>4, VerifierOnlyReads
     DEF Next, VerifierStep, Collect, SignDigest, WriteFails, Restart

----------------------------------------------------------------------------
(* The verifier.                                                           *)

\* What the verifier holds is fixed: the job of its bundle is through.
LEMMA HeldFixed ==
  ASSUME TypeOK, Shapes, Kept, [Next]_vars, vb.is = "bundle"
  PROVE  /\ result'[vb.job] = result[vb.job] /\ vb.job \in Jobs
         /\ vb.n \in Nat /\ vb.n >= 1 /\ vb.n <= MaxShards
         /\ Collection(answers[vb.job], result[vb.job], vb.n)
<1>1. Final(vb.job, job, pc) /\ Collection(answers[vb.job], result[vb.job], vb.n)
  BY DEF Kept, Faithful, Lists
<1>2. result'[vb.job] = result[vb.job] /\ vb.job \in Jobs
  BY <1>1, Forward DEF Final
<1>3. vb.n \in Shards
  BY <1>1 DEF Collection
<1>. QED  BY <1>1, <1>2, <1>3

\* Only the verifier's own steps change what it has read.
LEMMA WriterLeavesVerifier ==
  ASSUME [Next]_vars, ~VerifierStep
  PROVE  /\ UNCHANGED verVars
         /\ calm' => calm /\ bundle' = bundle /\ last' = last
BY DEF Next, VerifierStep, vars, Collect, OpenInner, WriteInner, OpenOuter, WriteOuter, SignDigest,
       OpenBundle, WriteBundle, WriteFails, Restart, Writes

\* A proof that verifies is the one the job collected for that shard.
LEMMA VerifiedFile ==
  ASSUME TypeOK, Kept, NEW s \in Shards, ProofVerifies(inner[s], s)
  PROVE  /\ inner[s] = InnerProof(vb.job, s, result[vb.job][s])
         /\ inner[s].is = "inner" /\ inner[s].answer.good
<1>1. inner[s] \in Files /\ inner[s].is = "inner" /\ inner[s].job = vb.job /\ inner[s].shard = s
      /\ inner[s].answer.good
  BY DEF TypeOK, ProofVerifies
<1>2. inner[s].answer = result[vb.job][s]
  BY <1>1 DEF Kept
<1>. QED  BY <1>1, <1>2, InnerFile

LEMMA InnerVerified ==
  ASSUME TypeOK, Shapes, Kept, Reading, VerifyInner, vpc' = "inner"
  PROVE  /\ vnext' \in 1..(vb.n + 1)
         /\ seen' = InnerProofs(vb.job, vnext' - 1) /\ AllGood(seen')
<1>0. [Next]_vars /\ vpc = "inner" /\ vb.is = "bundle" /\ vnext <= vb.n
  BY DEF VerifyInner, Reading, Next
<1>1. vb.n \in Nat /\ vb.n <= MaxShards /\ vnext \in Nat /\ vnext >= 1
  BY <1>0, HeldFixed, Numbers
<1>2. vnext \in Shards
  BY <1>0, <1>1
<1>3. /\ ProofVerifies(inner[vnext], vnext) /\ vnext' = vnext + 1
      /\ seen' = seen \cup {inner[vnext]}
  BY DEF VerifyInner, Ends
<1>4. /\ inner[vnext] = InnerProof(vb.job, vnext, result[vb.job][vnext])
      /\ inner[vnext].answer.good
  BY <1>2, <1>3, VerifiedFile
<1>5. seen = InnerProofs(vb.job, vnext - 1) /\ AllGood(seen)
  BY <1>0 DEF Reading
<1>6. \A s : s \in 1..vnext <=> s \in 1..(vnext - 1) \/ s = vnext
  BY <1>1
<1>7. seen' = InnerProofs(vb.job, vnext)
  BY <1>3, <1>4, <1>5, <1>6 DEF InnerProofs
<1>8. vnext' - 1 = vnext /\ vnext + 1 \in 1..(vb.n + 1)
  BY <1>0, <1>1, <1>3
<1>9. AllGood(seen')
  BY <1>3, <1>4, <1>5 DEF AllGood
<1>. QED  BY <1>3, <1>7, <1>8, <1>9

LEMMA ReadingKept ==
  ASSUME TypeOK, Shapes, Kept, Reading, [Next]_vars
  PROVE  Reading'
<1>1. CASE ~VerifierStep
  <2>1. UNCHANGED verVars /\ (calm' => calm /\ bundle' = bundle)
    BY <1>1, WriterLeavesVerifier
  <2>2. vpc = "inner" => result'[vb.job] = result[vb.job]
    BY HeldFixed DEF Reading
  <2>. QED  BY <2>1, <2>2 DEF Reading, InnerProofs, AllGood
<1>2. CASE ReadBundle
  <2>1. vb'.is = "bundle" => vb' = bundle /\ bundle' = bundle
    BY <1>2, FileFields DEF ReadBundle
  <2>2. vpc' # "idle" => verdict' = "none" /\ vb'.is = "bundle"
    BY <1>2 DEF ReadBundle, Ends
  <2>3. verdict' \in {"none", "err"} /\ (verdict' = "none" => vpc' # "idle")
    BY <1>2 DEF ReadBundle, Ends
  <2>4. vpc' = "inner" => vb'.n \in Shards
    <3>. SUFFICES ASSUME vpc' = "inner" PROVE vb'.n \in Shards
      OBVIOUS
    <3>1. vb' = bundle /\ bundle.is = "bundle"
      BY <2>1, <2>2
    <3>2. Collection(answers[bundle.job], result[bundle.job], bundle.n)
      BY <3>1 DEF Kept, Faithful, Lists
    <3>. QED  BY <3>1, <3>2 DEF Collection
  <2>5. \A k \in Shards : 1 \in 1..(k + 1)
    OBVIOUS
  <2>6. 1..(1 - 1) = {}
    OBVIOUS
  <2>7. vnext' = 1 /\ seen' = {} /\ AllGood({})
    BY <1>2 DEF ReadBundle, AllGood
  <2>8. vpc' = "inner" => vnext' \in 1..(vb'.n + 1)
    BY <2>4, <2>5, <2>7
  <2>9. seen' = InnerProofs(vb.job, vnext - 1)' /\ AllGood(seen)'
    BY <2>6, <2>7 DEF InnerProofs, AllGood
  <2>. QED  BY <2>1, <2>2, <2>3, <2>8, <2>9 DEF Reading
<1>3. CASE VerifyInner
  <2>1. /\ UNCHANGED <<vb, bundle, calm, result>> /\ vb.is = "bundle" /\ verdict = "none"
        /\ vpc' = "inner" => verdict' = verdict
        /\ vpc' \in {"inner", "idle"}
    BY <1>3 DEF VerifyInner, Ends, Reading
  <2>2. vpc' = "inner" => /\ vnext' \in 1..(vb'.n + 1)
                          /\ seen' = InnerProofs(vb.job, vnext' - 1) /\ AllGood(seen')
    BY <1>3, <2>1, InnerVerified
  <2>. QED  BY <2>1, <2>2 DEF Reading, InnerProofs, AllGood
<1>4. CASE VerifyOuter \/ AuditReceipts \/ AuditWitnesses
  <2>1. /\ UNCHANGED <<vb, bundle, calm>> /\ vb.is = "bundle" /\ verdict = "none"
        /\ vpc' \in {"idle", "receipts", "witnesses"}
        /\ vpc' # "idle" => verdict' = verdict
    BY <1>4 DEF VerifyOuter, AuditReceipts, AuditWitnesses, Ends, Reading
  <2>. QED  BY <2>1 DEF Reading
<1>. QED  BY <1>1, <1>2, <1>3, <1>4 DEF VerifierStep

\* The verdict of the audits is reached over the files of one job.
LEMMA VerifiedKept ==
  ASSUME TypeOK, Shapes, Kept, Reading, VerifiedOneJob, [Next]_vars
  PROVE  VerifiedOneJob'
<1>1. CASE ~VerifierStep
  <2>1. UNCHANGED verVars
    BY <1>1, WriterLeavesVerifier
  <2>2. vpc \in {"receipts", "witnesses"} \/ verdict \in {"ok", "censored", "shortfall"}
          => result'[vb.job] = result[vb.job]
    BY HeldFixed DEF Reading
  <2>. QED  BY <2>1, <2>2 DEF VerifiedOneJob, Proofs
<1>2. CASE ReadBundle \/ VerifyInner
  <2>1. vpc' \in {"idle", "inner"} /\ verdict' \in {"none", "err"}
    BY <1>2 DEF ReadBundle, VerifyInner, Ends, Reading
  <2>. QED  BY <2>1 DEF VerifiedOneJob
<1>3. CASE VerifyOuter
  <2>1. /\ vpc = "inner" /\ vb.is = "bundle" /\ verdict = "none" /\ UNCHANGED <<vb, result>>
        /\ vnext > vb.n /\ seen' = seen \cup {outer} /\ verdict' \in {"none", "err"}
        /\ vpc' \in {"idle", "receipts"} /\ (vpc' = "receipts" => outer = OuterProof(vb.job))
    BY <1>3 DEF VerifyOuter, Ends, Reading
  <2>2. vnext \in 1..(vb.n + 1) /\ seen = InnerProofs(vb.job, vnext - 1) /\ AllGood(seen)
    BY <2>1 DEF Reading
  <2>3. vb.n \in Nat
    BY <2>1, HeldFixed
  <2>4. vnext - 1 = vb.n
    BY <2>1, <2>2, <2>3
  <2>5. CASE vpc' = "receipts"
    <3>1. seen' = Proofs(vb.job, vb.n)
      BY <2>1, <2>2, <2>4, <2>5 DEF Proofs, InnerProofs
    <3>2. \A f \in seen' : f.is = "inner" => f.answer.good
      BY <2>1, <2>2, <2>5, FileFields DEF AllGood
    <3>. QED  BY <2>1, <3>1, <3>2 DEF VerifiedOneJob, Proofs
  <2>. QED  BY <2>1, <2>5 DEF VerifiedOneJob
<1>4. CASE AuditReceipts \/ AuditWitnesses
  BY <1>4 DEF AuditReceipts, AuditWitnesses, VerifiedOneJob, Proofs
<1>. QED  BY <1>1, <1>2, <1>3, <1>4 DEF VerifierStep

\* The attestations a faithful bundle lists verify.
LEMMA AttestedByMajority ==
  ASSUME Kept, vb.is = "bundle", NEW s \in 1..vb.n
  PROVE  AttestationsVerify(s) /\ vb.claims[s].claim = result[vb.job][s].claim
<1>. DEFINE A == answers[vb.job]
            R == result[vb.job]
<1>1. Collection(A, R, vb.n)
      /\ vb.claims = [t \in 1..vb.n |-> [claim |-> R[t].claim, by |-> Claiming(A[t], R[t].claim)]]
  BY DEF Kept, Faithful, Lists
<1>2. vb.claims[s].claim = R[s].claim /\ vb.claims[s].by = Claiming(A[s], R[s].claim)
  BY <1>1
<1>3. PICK w \in Workers : A[s][w] = R[s]
  BY <1>1 DEF Collection
<1>4. w \in Claiming(A[s], R[s].claim) /\ Claiming(A[s], R[s].claim) \subseteq Workers
  BY <1>3 DEF Claiming
<1>5. IsFiniteSet(Claiming(A[s], R[s].claim))
      /\ Cardinality(Claiming(A[s], R[s].claim)) <= Cardinality(Workers)
  BY <1>4, FS_Subset
<1>6. /\ Cardinality(Claiming(A[s], R[s].claim)) \in Nat /\ Cardinality(Workers) \in Nat
      /\ Cardinality(Claiming(A[s], R[s].claim)) # 0
  BY <1>4, <1>5, FS_CardinalityType, FS_EmptySet
<1>7. Cardinality(Claiming(A[s], R[s].claim)) \in 1..Cardinality(Workers)
  BY <1>5, <1>6
<1>. QED  BY <1>2, <1>7 DEF AttestationsVerify

LEMMA PublishedKept ==
  ASSUME TypeOK, Shapes, Kept, Reading, InPlace, PublishedVerifies, [Next]_vars
  PROVE  PublishedVerifies'
<1>1. CASE ~VerifierStep
  <2>1. UNCHANGED verVars /\ (calm' => calm /\ last' = last)
    BY <1>1, WriterLeavesVerifier
  <2>2. vb.is = "bundle" => result'[vb.job] = result[vb.job]
    BY HeldFixed
  <2>. QED  BY <2>1, <2>2 DEF PublishedVerifies, Undisturbed
<1>2. CASE ReadBundle
  <2>1. vb'.is = "bundle" => verdict' = "none"
    BY <1>2, FileFields DEF ReadBundle
  <2>. QED  BY <2>1 DEF PublishedVerifies, Undisturbed
<1>3. CASE VerifyInner \/ VerifyOuter
  <2>1. /\ vpc = "inner" /\ vb.is = "bundle" /\ verdict = "none"
        /\ UNCHANGED <<vb, result, calm, last>>
    BY <1>3 DEF VerifyInner, VerifyOuter, Reading
  <2>. SUFFICES ASSUME calm, vb.job = last, vb.ds # "mismatch",
                       \A s \in 1..vb.n : result[vb.job][s].good
                PROVE  verdict' # "err"
    BY <2>1 DEF PublishedVerifies, Undisturbed
  <2>2. /\ \A s \in 1..vb.n : inner[s] = InnerProof(vb.job, s, result[vb.job][s])
        /\ outer = OuterProof(vb.job)
    BY <2>1 DEF Reading, InPlace
  <2>3. CASE VerifyInner
    <3>1. vnext \in 1..vb.n
      BY <2>1, <2>3, HeldFixed, Numbers DEF VerifyInner
    <3>2. ProofVerifies(inner[vnext], vnext) /\ AttestationsVerify(vnext)
      BY <2>1, <2>2, <3>1, FileFields, AttestedByMajority DEF ProofVerifies
    <3>. QED  BY <2>1, <2>3, <3>2 DEF VerifyInner
  <2>4. CASE VerifyOuter
    BY <2>1, <2>2, <2>4 DEF VerifyOuter
  <2>. QED  BY <1>3, <2>3, <2>4
<1>4. CASE AuditReceipts \/ AuditWitnesses
  <2>1. verdict' # "err"
    BY <1>4 DEF AuditReceipts, AuditWitnesses, Ends, Reading
  <2>. QED  BY <2>1 DEF PublishedVerifies
<1>. QED  BY <1>1, <1>2, <1>3, <1>4 DEF VerifierStep

----------------------------------------------------------------------------
(* The audits, when the faulty replicas are no majority.                   *)

FaultyMinority == 2 * Cardinality(Faulty) <= Cardinality(Workers)

\* A replica that is not faulty makes the right claim, and so does the vote.
LEMMA RightWins ==
  ASSUME FaultyMinority, NEW A, NEW R, NEW k, Collection(A, R, k), NEW s \in 1..k
  PROVE  R[s].claim = "right" /\ \A w \in Workers \ Faulty : A[s][w].claim = "right"
<1>1. /\ A[s] \in Votes /\ R[s].claim \in Majority(A[s])
  BY DEF Collection
<1>2. \A w \in Workers \ Faulty : A[s][w] = Right
  BY <1>1 DEF Votes, MayAnswer
<1>3. \A w \in Workers \ Faulty : A[s][w].claim = "right"
  BY <1>2, AnswerFields
<1>4. ASSUME R[s].claim = "wrong" PROVE FALSE
  <2>1. 2 * Cardinality(Claiming(A[s], "wrong")) > Cardinality(Workers)
    BY <1>1, <1>4 DEF Majority
  <2>2. Claiming(A[s], "wrong") \subseteq Faulty
    BY <1>3 DEF Claiming
  <2>3. IsFiniteSet(Faulty)
    BY FS_Subset
  <2>4. Cardinality(Claiming(A[s], "wrong")) <= Cardinality(Faulty) /\ IsFiniteSet(Claiming(A[s], "wrong"))
    BY <2>2, <2>3, FS_Subset
  <2>5. /\ Cardinality(Claiming(A[s], "wrong")) \in Nat /\ Cardinality(Faulty) \in Nat
        /\ Cardinality(Workers) \in Nat
    BY <2>3, <2>4, FS_CardinalityType
  <2>. QED  BY <2>1, <2>4, <2>5 DEF FaultyMinority
<1>5. R[s].claim \in {"right", "wrong"}
  BY <1>1 DEF Majority
<1>. QED  BY <1>3, <1>4, <1>5

\* So the published claims are those of every replica that is not faulty.
LEMMA HonestAgree ==
  ASSUME FaultyMinority, Kept, vb.is = "bundle", NEW s \in 1..vb.n, NEW w \in Workers \ Faulty
  PROVE  answers[vb.job][s][w].claim = vb.claims[s].claim
<1>1. Collection(answers[vb.job], result[vb.job], vb.n)
  BY DEF Kept, Faithful, Lists
<1>2. vb.claims[s].claim = result[vb.job][s].claim
  BY AttestedByMajority
<1>. QED  BY <1>1, <1>2, RightWins

LEMMA ReceiptsExplained ==
  ASSUME FaultyMinority, Kept, Reading, AuditReceipts
  PROVE  AuditsExplained'
<1>1. PICK R \in SUBSET (Workers \X (1..vb.n)) :
        /\ tainted' = \E p \in R : p[1] \in Faulty
        /\ IF Censored(R) # {} THEN Ends("censored")
                               ELSE vpc' = "witnesses" /\ UNCHANGED verdict
  BY DEF AuditReceipts
<1>2. vb.is = "bundle" /\ verdict = "none"
  BY DEF AuditReceipts, Reading
<1>3. CASE Censored(R) # {}
  <2>1. PICK p \in R : answers[vb.job][p[2]][p[1]].claim # vb.claims[p[2]].claim
    BY <1>3 DEF Censored, Receipts
  <2>2. p[1] \in Workers /\ p[2] \in 1..vb.n
    BY <1>1, <2>1
  <2>3. p[1] \in Faulty
    BY <1>2, <2>1, <2>2, HonestAgree
  <2>4. tainted' /\ verdict' = "censored"
    BY <1>1, <1>3, <2>1, <2>3 DEF Ends
  <2>. QED  BY <2>4 DEF AuditsExplained
<1>4. CASE Censored(R) = {}
  BY <1>1, <1>2, <1>4 DEF AuditsExplained
<1>. QED  BY <1>3, <1>4

LEMMA WitnessesExplained ==
  ASSUME FaultyMinority, Kept, Reading, AuditWitnesses
  PROVE  AuditsExplained'
<1>1. PICK kept \in [Witnesses \X (1..vb.n) -> {{}} \cup {{w} : w \in Workers}] :
        /\ tainted' = \E x \in DOMAIN kept : kept[x] \cap Faulty # {}
        /\ full' = \A x \in DOMAIN kept : kept[x] # {}
        /\ Ends(IF \A s \in 1..vb.n :
                     Cardinality({v \in Witnesses : Matches(s, kept[<<v, s>>])}) >= M
                THEN "ok" ELSE "shortfall")
  BY DEF AuditWitnesses
<1>2. vb.is = "bundle"
  BY DEF AuditWitnesses, Reading
<1>3. ASSUME ~tainted', full', NEW s \in 1..vb.n
      PROVE  {v \in Witnesses : Matches(s, kept[<<v, s>>])} = Witnesses
  <2>. SUFFICES ASSUME NEW v \in Witnesses PROVE Matches(s, kept[<<v, s>>])
    OBVIOUS
  <2>1. <<v, s>> \in DOMAIN kept /\ kept[<<v, s>>] \in {{}} \cup {{w} : w \in Workers}
    BY <1>1
  <2>2. kept[<<v, s>>] # {} /\ kept[<<v, s>>] \cap Faulty = {}
    BY <1>1, <1>3, <2>1
  <2>3. PICK w \in Workers : kept[<<v, s>>] = {w}
    BY <2>1, <2>2
  <2>4. w \notin Faulty
    BY <2>2, <2>3
  <2>5. answers[vb.job][s][w].claim = vb.claims[s].claim
    BY <1>2, <2>4, HonestAgree
  <2>. QED  BY <2>3, <2>5 DEF Matches, Evidence
<1>4. ASSUME verdict' = "shortfall", M <= Cardinality(Witnesses), ~tainted', full'
      PROVE  FALSE
  <2>1. PICK s \in 1..vb.n : ~(Cardinality({v \in Witnesses : Matches(s, kept[<<v, s>>])}) >= M)
    BY <1>1, <1>4 DEF Ends
  <2>2. ~(Cardinality(Witnesses) >= M)
    BY <1>3, <1>4, <2>1
  <2>. QED  BY <1>4, <2>2
<1>5. verdict' # "censored" /\ tainted' \in BOOLEAN /\ full' \in BOOLEAN
  BY <1>1 DEF Ends
<1>. QED  BY <1>4, <1>5 DEF AuditsExplained

LEMMA AuditsKept ==
  ASSUME FaultyMinority, Kept, Reading, AuditsExplained, [Next]_vars
  PROVE  AuditsExplained'
<1>1. CASE ~VerifierStep
  BY <1>1, WriterLeavesVerifier DEF AuditsExplained
<1>2. CASE ReadBundle \/ VerifyInner \/ VerifyOuter
  <2>1. verdict' \in {"none", "err"}
    BY <1>2 DEF ReadBundle, VerifyInner, VerifyOuter, Ends, Reading
  <2>. QED  BY <2>1 DEF AuditsExplained
<1>. QED  BY <1>1, <1>2, ReceiptsExplained, WitnessesExplained DEF VerifierStep

----------------------------------------------------------------------------
(* The theorems.                                                           *)

\* The inductive invariant: every file, and every bundle the verifier holds, is
\* what its job collected; what is behind the writer and the verifier is in
\* place, over any number of crashes and restarts.
THEOREM Invariance == Spec => []IInv
<1>1. Init => IInv
  <2>. SUFFICES ASSUME Init PROVE IInv
    OBVIOUS
  <2>1. Shapes
    BY DEF Init, Shapes
  <2>2. \A s \in Shards : inner[s] = Absent
    BY DEF Init
  <2>3. 1 \in Jobs /\ 0 \in 0..MaxShards /\ 0 \in 0..1 /\ 0 \in 0..0 /\ 1 \in 1..(MaxShards + 1)
    OBVIOUS
  <2>4. TypeOK
    BY <2>2, <2>3, FileFields, FileMade DEF Init, TypeOK
  <2>5. Kept /\ InPlace /\ PublishedVerifies
    BY <2>2, FileFields DEF Init, Kept, InPlace, PublishedVerifies, Undisturbed
  <2>6. Writing /\ Reading /\ VerifiedOneJob
    BY FileFields DEF Init, Writing, Reading, VerifiedOneJob
  <2>. QED  BY <2>1, <2>4, <2>5, <2>6 DEF IInv
<1>2. IInv /\ [Next]_vars => IInv'
  BY TypesKept, KeptKept, WritingKept, ReadingKept, InPlaceKept, VerifiedKept, PublishedKept DEF IInv
<1>. QED  BY <1>1, <1>2, PTL DEF Spec

\* zone_job, the state directory and swarm-verify keep their shapes, and no file
\* holds what belongs in another.
THEOREM TypeCorrect == Spec => []TypeOK
<1>1. IInv => TypeOK
  BY DEF IInv
<1>. QED  BY <1>1, Invariance, PTL

\* A swarm-verify that gets through the chain while zone_job, or the next start
\* of it, overwrites the files has read the proofs of one job, all and no other.
THEOREM ReadsOneJob == Spec => []VerifiedOneJob
<1>1. IInv => VerifiedOneJob
  BY DEF IInv
<1>. QED  BY <1>1, Invariance, PTL

\* The bundle is the last thing zone_job writes: wherever it is killed, no
\* bundle of the last writer lies over missing, torn or foreign proofs.
THEOREM BundleAfterProofs == Spec => []BundleLast
<1>1. IInv => BundleLast
  <2>. SUFFICES ASSUME IInv, bundle.is = "bundle", bundle.job = last
                PROVE  {inner[s] : s \in 1..bundle.n} \cup {outer} = Proofs(last, bundle.n)
    BY DEF BundleLast
  <2>1. /\ \A s \in 1..bundle.n : inner[s] = InnerProof(last, s, result[last][s])
        /\ outer = OuterProof(last)
    BY DEF IInv, InPlace
  <2>. QED  BY <2>1 DEF Proofs
<1>. QED  BY <1>1, Invariance, PTL

\* What the last writer published passes swarm-verify, whichever majority
\* signed it, if its proofs are good and its DS hash matches the DNSKEY.
THEOREM PublishedPasses == Spec => []PublishedVerifies
<1>1. IInv => PublishedVerifies
  BY DEF IInv
<1>. QED  BY <1>1, Invariance, PTL

\* As long as at most half of the replicas are faulty, swarm-verify reports
\* censorship or a shortfall of witnesses only over what a faulty replica sent
\* or over archives that lack a shard.
THEOREM AuditsJust == FaultyMinority => (Spec => []AuditsExplained)
<1>. SUFFICES ASSUME FaultyMinority PROVE Spec => []AuditsExplained
  OBVIOUS
<1>1. Init => AuditsExplained
  BY DEF Init, AuditsExplained
<1>2. IInv /\ AuditsExplained /\ [Next]_vars => AuditsExplained'
  BY AuditsKept DEF IInv
<1>. QED  BY <1>1, <1>2, Invariance, PTL DEF Spec

=============================================================================
