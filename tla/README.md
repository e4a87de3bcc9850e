# TLA+ models of the STIR DNS swarm

The repository proves a DNS zone with STARKs. Its core as a *system* is the
swarm: a controller (`crates/swarm-ctrl`) splits a zone into shards and farms
them out to workers (`crates/swarm-worker`) over TLS; every shard is proved by
`K` replicas whose answers are compared; the accepted answers are rolled up,
signed and written as a bundle that `crates/swarm-verify` checks. Beneath it is
the proof system: circuits (AIRs) for Ed25519, SHA-2 and ML-DSA, Merkle
commitments, DEEP-FRI and STIR, and the DNS provers put together from them.

The models come in two halves. The *swarm* half (`ZoneJob`, `Link`, `Publish`,
`AcceptLoop`) is about order and failure. The *circuits* half (the modules under
`Circuits`) is about pure algorithms with two implementations that have to agree,
a native function and a constraint system or a prover and a verifier, scaled down
until TLC can enumerate their cases.

## 1. The system

| part | state it keeps | operations | talks to |
|---|---|---|---|
| zone job (`zone_job`) | `shard_queue`, `ensembles` (assigned, pending, responses per shard), `busy`, `blacklisted`, `results`, `shard_attestations` | wait for quorum, compose, `drain_assignments`, four events, heartbeat reaper, deadline reaper, `evaluate_ensemble` | roster (shared, locked), sessions (event channel in, one bounded channel out per session) |
| session (`handle_session`) | its registration, its position in the loop | register, ack, forward answers, write pushes, break, error | roster, zone job, worker |
| roster | `next_id`, id → entry | allocate, insert, touch, remove | job and sessions, under one mutex |
| accept loop, `ConnLimiter` | per-address bucket (`active`, `tokens`, `last_refill`), `active_total` | `try_acquire`, spawn, `release`, exit check | one task per connection, zone job's join handle |
| worker main loop | authority key, counters, heartbeat timer | register, heartbeat, prove, send evidence, answer, persist receipt | controller, witness controllers |
| framing (`swarm-proto`) | a half-read frame, lost when its future is dropped | `write_frame`, `read_frame` | both ends of a connection |
| bundle writer | files under `state_dir` | write proofs, roll up, sign, write bundle | verifier, by files |
| witness controller | archive of receipts | verify evidence, sign, archive | worker, auditor by files |
| verifier | none | walk the bundle, the delegation proofs, audit receipts and witnesses | files |
| DNS provers (`swarm-dns`) | none | inner shard, outer rollup, DS/KSK/ZSK bindings, record chains and sets of them | `deep_ali`; the verifier rebuilds their parameters |
| low-degree test (`deep_ali/fri.rs`, `lib.rs`) | a transcript, per layer a tree | merge constraints, commit, fold, open, replay | every prover and verifier |
| circuits (`deep_ali/*_air.rs`) | a trace | layout, fill, evaluate constraints | low-degree test |
| Merkle library (`merkle`) | levels of hashes, or the upper ones only | push, finalize, open, compact versions, verify | low-degree test |

Hard behaviour: sessions, job and accept loop interleave at every `await`;
the roster lock is given up between choosing a worker and pushing to it; late
answers race with two reapers; sessions end through three paths of which one
tells nobody; workers crash, vanish silently, reconnect under a new id, answer
wrongly; reads are dropped half-way by `select!`; no heartbeat leaves during a
prove; files are overwritten while they are read; the limiter reads its global
count without the lock. In the circuits: carries that come back at the other end
of a number, values with two representations, rows that wrap round, layouts that
share columns, a verifier that rebuilds a transcript or parameters from memory.
`PROJECT.json` lists these as hazards, each at its line and with the properties
that would catch it.

What makes the parts correct:

* zone job: no shard is lost, none gets more than `K` replicas, `busy` is
  exact, a result is backed by a majority, the job ends once every shard is
  collected, and it does end; seen from far away it is just a vote (`VotedJob`);
* sessions: the roster entry goes before the disconnection is announced; no
  send can block while the roster is locked; a healthy worker is kept, the two
  ends stay in step, every replica is settled;
* bundle and audits: what verifies is one job's, a bundle is the last file, an
  accusation has a cause;
* limiter: counters equal the tasks that run, caps and rates hold;
* circuits: whatever a prover writes, accepted rows say what the native function
  computes (soundness), and what the code's own fill writes is accepted
  (completeness), with the exceptions named in section 6;
* proofs: prover and verifier draw the same challenges, an opening shows what was
  committed, and prover and verifier agree on what a proof is checked under; for which
  proofs more than that is claimed is said with each property in section 3.

## 2. Modules

| module | models | kind |
|---|---|---|
| `ZoneJob` | zone job, sessions, roster, workers as seen by the controller | specification, properties, inductive invariant |
| `VotedJob` | what the job promises | abstract specification, implemented by `ZoneJob` |
| `MCZoneJob` + `MCZone*.cfg` | instances of it | TLC |
| `ZoneJobProofs` | theorems about `ZoneJob`; `ZoneJob` implements `VotedJob` | TLAPS |
| `AcceptLoop` | accept loop, `ConnLimiter`, exit | specification, properties, inductive invariant |
| `MCAcceptLoop` + two cfgs | instances of it | TLC |
| `AcceptLoopProofs` | theorems about `AcceptLoop` | TLAPS |
| `Link` + `MCLink` + two cfgs | one connection: framing, clocks, heartbeats, witness fan-out, both reapers | specification, TLC |
| `LinkProofs` | theorems about `Link`, with its inductive invariant | TLAPS |
| `Publish` + `MCPublish` + two cfgs | files, crashes, restarts, verifier, receipts, audits | specification, TLC |
| `PublishProofs` | theorems about `Publish`, with its inductive invariant | TLAPS |
| `ProofUnit` | the state shared by the circuits' modules: which unit, and its state | base module |
| `FieldAir`, `ScalarAir`, `EdNative`, `PointAir`, `VerifyAir` | Ed25519: field gadgets, scalar reduction, native code, curve gadgets, the verifier v0 to v16; `EdNative` extends the first two, the others the one before | specification |
| `Sha2Air` | SHA-256 and SHA-512 traces and constraints | specification |
| `MerkleTree` | the commitment library and the shapes FRI asks of it | specification |
| `ArithmeticProofs` | lemmas the next three use: induction over sets, powers, division, sums | TLAPS |
| `GadgetProofs` | theorems about `FieldAir`, `ScalarAir` and `MlDsaRows`, with their inductive invariants | TLAPS |
| `MerkleProofs` | theorems about `MerkleTree`: openings, forgeries, the compact tree | TLAPS |
| `TowerExt`, `Fri`, `Stark` | extension fields, DEEP-FRI/STIR, workloads and the merge of their constraints | specification |
| `RecordChain` | DNS provers, record chains, delegation, their verifiers (extends `MerkleTree`) | specification |
| `RecordChainProofs` | theorems about `RecordChain`, with its inductive invariant (extends `MerkleProofs`) | TLAPS |
| `MlDsaRows`, `MlDsaAir`, `MlDsaV2` | ML-DSA: the gadgets of one row; field rows, the transform and version 1.7; the proof that binds them. Each extends the one before | specification |
| `Circuits` + `MCCircuits` + cfg | all of these together | composition, TLC |

Definitions named "Variant" in a module are plausible bugs, used only to see
that a property notices them.

### ZoneJob

`pc` is the position of the job between two awaits:

    wait -> compose -> drain <-> push -> top -> select -> (event) -> drain | top
                                                 select -> reap -> expire -> drain
    top -> collected | stuck          compose, an all-conflict verdict -> aborted

* `drain_assignments` pops each queue entry once (`DrainSkip`, `DrainNoWorker`,
  `DrainPick`); the candidate is chosen under one lock and pushed under another,
  so `DrainPick` and `PushAssign`/`PushLost` are separate steps with sessions in
  between. `cand' \in Candidates(..)` is the unspecified order of a `HashMap`.
* The reaper lists stale workers under one lock (`ReaperTick`), drops them one by
  one (`ReapStale`), lists expired replicas (`ListExpired`), blacklists them
  (`ExpireReplica`), and drains.
* `OnDoneIgnored`, `OnDoneRejected`, `OnDoneCounted` are the outcomes of a
  `ShardDone`; the first goes back to the head of the loop without draining, as
  `continue` does. `evaluate_ensemble` and the three verdicts are as in the code.
* A session is `none -> acking -> up -> closing -> ended`. `SessionError` is every
  `?` and every frame error: it leaves the roster entry behind and sends no event.
  `SessionBreak` is Goodbye, end of file, or the closed channel after the job
  removed the entry; `SendDisconnected` is the step after it.
* An answer is `Canon` (what the deterministic prover computes), another
  well-formed claim, or one with a bad signature or a wrong Merkle root: exactly
  what the job tells apart. Nodes in `Faulty` may give any of them.

Abstractions. The channel into a session, TLS and the socket are one FIFO
(`inbox`); a frame that was written is an event at once, since a frame lost on
the way is a worker that stopped before writing it. Pushing is atomic with the
second roster lookup: removals that fall between the two only make the message
undeliverable, as they do right after it. Heartbeats and clocks are abstracted:
a reaper tick may find *any* worker stale and *any* replica late; finding one so
whose worker runs and is connected costs one unit of the budget `MaxFaults`, like
a crash, an error or a failed prove. Workers run the worker program as far as
identity goes: frames carry their own id and shards they were assigned.
How clocks, heartbeats and framing really behave is the subject of `Link`.
`split_evenly` with more shards than records leads to an assertion in
`merkle_build`, so `Compose` aborts then. The event channel is unbounded in the
model, and allowlist refusals happen before any state changes.

`ImplementsVotedJob` maps the job to `VotedJob`: responses are the votes, results
the decisions, and everything about queues, sessions and reapers is stuttering.

### AcceptLoop

The loop accepts a socket and reads `active_total` (`Accept`, `DenyMaxActive`),
then takes the lock, refills the bucket and decides (`Deny`, `Admit`), then looks
at the job (`CheckJob`). Every connection's task may end in between (`Release`).
Tokens are integers in parts of a connection, so fractional rates are exact; the
rounding of `f64` is left out. `admitted` and `mark` are history variables.

### Link

One registered worker. Both ends are the code's `select!` loops; a frame travels as
its length and `Parts` payload units, and a loop that takes another ready branch
drops its half-done read with the units it consumed (`Dropped`), after which it
takes what follows for a length. `Tick` counts the clocks: time to the next
heartbeat, age of the roster entry, deadline of the replica, what is left of a
prove. The worker proves inside its select branch, then sends evidence to the
witness over a channel of capacity `EvCap` that a stalled witness does not drain,
then answers. `lost`, `broken`, `absent` and `verdict` are history variables.

### Publish

The job after collection: open and write each proof (an opened file is torn until
written), roll up, write the outer proof, sign, write the bundle. Any write may
fail, the controller may stop between any two steps and start over the same
directory. The verifier reads one file per step, at any time. A proof is what it
binds (job, shard, answer); an answer is the claim the vote compares and whether
the blob beside it is good. The worker's receipts and the witnesses' archives (one
file per job and shard, the last replica's stays) feed the two audits.

### The circuits

`unit` says which part a behaviour is about and `st` is its state; the parts share
nothing, so `Circuits` is their disjunction and a behaviour stays in its unit. Two
kinds of steps alternate in every unit: the code's own fill, builder or prover, and
an arbitrary prover that writes cells limb by limb, breaks links, presents nodes or
replays old values, and is stopped only by the constraints. What one unit shows, the
next uses: `PointAir` takes a field gadget to accept exactly the residues that
`FieldSound` and `FieldComplete` say, `VerifyAir` takes points from `PointExact`, `RecordChain` and
`MlDsaV2` take a STARK as its committed trace and parameters, which is what
`MerkleBinding`, `FriExact` and `MergeExact` are about.

Scaling. Primes, limbs, words, rounds and trees are constants. The curve prime is
61 = 2^6 - 3 with limbs of 2, 1, 2 and 1 bits (the code's 2^255 - 19 has the same
alternation and the same kind of fold), the curve has 56 points and a base point of
order 7 (cofactor 8, as the code's), cells are modulo 1009, SHA words have 3 or
2 x 2 bits and 18 rounds (so that the schedule recurs), ML-DSA has q = 41, N = 4 and
five high parts. Row and column *counts* of the layouts are the code's own. Hashes
are free terms, transcripts are the sequence of what was absorbed and a challenge is
an arbitrary value that depends on nothing else; FRI assumes a non-empty folding
schedule, as every caller passes. Of the hash back ends of the transcript only the
default is followed; rounds of Keccak are free terms.

## 3. Runs

| run | instance | shows |
|---|---|---|
| `zone_replicas` | 2 nodes (one faulty), K = 2, 3 registrations, 1 fault; 2.8 M states | `SlotBound`, `NoLostShard`, `InboxBound`, `NeverStuck`, `AssignOnce` |
| `zone_votes` | 3 nodes (one faulty), K = 3; 0.1 M | `ResultBacked`, `AcceptedIsCanonical`, `BlacklistRetired`, `ImplementsVotedJob` |
| `zone_live` | 2 nodes, K = 1, 2 shards, 1 fault, with fairness; 70 k | `BusyExact`, the proofs' `IInv` (with `CollectedMeansAll` in it), `JobCompletes`, `WorkerReleased` |
| `zone_reconnect` | as `zone_replicas`, all honest | violated: `NotPickedAgain` |
| `zone_stuck` | one worker, one fault, with fairness | violated: `StuckReported` |
| `link` | heartbeat every 2 ticks, proves of 1 and 3, deadline 3, transit up to 1, two assignments, with fairness; 1.2 M | `HealthyKept`, `InStepUntilDropped`, `ReplicaSettled` |
| `link_beats` | the same | violated: `BeatsKeepFlowing` |
| `publish` | 2 jobs over one directory, up to 2 shards, 3 replicas (one faulty), 2 witnesses; 0.5 M | `TypeOK`, `VerifiedOneJob`, `BundleLast`, `PublishedVerifies`, `AuditsExplained` |
| `publish_blob` | the same | violated: `MajorityVerifies` |
| `accept_loop` | 2 addresses, 4 sockets, caps 2 and 3, burst 2, half a token per tick, 4 ticks; 0.35 M | `CountsExact`, `CapsHold`, `RateBound` |
| `accept_exit` | one address, no `--exit-on-complete` | violated: `ExitOnlyIfAsked` |
| `circuits` | section 2, "The circuits"; 0.27 M | one property per unit, below |

The properties of `circuits`:

* `FieldSound`: every accepted carry chain of add, sub, mul (square is mul), freeze
  and select gives the result modulo p.
* `FieldComplete`: the code's fill writes that result and is accepted, but for
  double carries.
* `NativeExact`: exponent chains, (de)compression, all forms of addition and scalar
  multiplication and `verify` against the group given by its multiples.
* `ReduceExact`: the digest modulo L, for every quotient, remainder and carry.
* `PointExact`: group operations whichever representatives the prover picks.
* `VerifyExact`: no layout of v0 to v16 overlaps, for message and ladder lengths at
  the padding and the growth boundaries; with up to two broken links an accepted v16
  trace still means the native verifier's equation; good signatures are accepted.
* `HashExact`: with any carries the last row holds the digest.
* `MerkleBinding`: compact and full trees have one root and the same openings, and
  no node presented as a leaf, no short path, opens what was not committed.
* `ExtExact`: products, squares, inverses and Frobenius against polynomials.
* `FriExact`: the last layer is the folded polynomial, the verifier arrives at the
  prover's challenges, an honest proof is accepted exactly when its degree fits, a
  changed opening never.
* `MergeExact`: the quotient of the merged constraints, whole or streamed.
* `ChainBinding`: an answer that verifies against an epoch's set is a chain proved
  for that epoch at the position asked for.
* `ParametersAgree`: prover and verifier rebuild the same parameters and hashes for
  shards and delegations. A shard passes only under its own values; a DS bundle put
  together from two runs of the prover passes exactly if all its values are those of
  one run for the key, digest and binding at hand. Not claimed: section 6.
* `RowsExact`: the rows of the ML-DSA circuit against the native functions. `TransformExact`:
  the butterflies evaluate at the odd powers of the root, the inverse undoes them, and no
  cell of the state can be changed alone. `SignatureBinding`: a proof assembled from traces
  of two witnesses is accepted only if the whole check holds.

Bounds. `MaxId` bounds registrations, `MaxFaults` the faults, `MaxTime` the
clock, `MaxAssign` the assignments on a connection, `MaxJobs` the starts of the
controller, `MaxEpochs` the epochs of a record set, `Tampers` the links a prover
breaks. Three registrations over two nodes allow a reconnection beside a healthy
worker; one fault is enough to reopen a slot along each of the six paths; K = 3
is the smallest vote with a majority against a dissenter, and with two claims
besides it the all-conflict abort is reached in `zone_replicas` (K = 2). The
safety properties of `ZoneJob` are also proved without bounds on any of these
(section 5). In `link` one prove is shorter and one longer than the grace allows,
and a second assignment meets whatever the first left in the stream. Two jobs are
enough for a bundle beside newer proofs and for a verifier that reads across them.
In `accept_loop` both caps bite (3 < 4 sockets, 2 < 3), a bucket runs empty,
refills across ticks, is dropped and is created again. Operands of `circuits` are
the ends of every range: 0, 1, the prime, the numbers between it and the power of
two, limbs that are full; lengths around a padding block; trees with full, partial
and single chunks. A computation of
`circuits` ends with its verdict, so deadlock is not checked there; it is everywhere
else: `ZoneJob` and `AcceptLoop` stutter explicitly where they end, and the clock of
`Link` and the verifier of `Publish` always have a next step.
Symmetry permutes honest nodes and sockets, which no definition tells
apart, and is not used with temporal properties of a fair specification.

## 4. Fairness

`FairSpec` assumes of the runtime that a task that can run is polled: the job's
own steps, a session's sends, a session whose channel was closed, and a live
worker's next message. The job's `select!` is biased to the 500 ms tick; the tick
is due only now and then, so events are received again and again (strong
fairness of `HandleEvent`). Of time it assumes that a worker that no longer runs
is found stale by some later tick, and that a replica it holds is found late:
both reapers compare against the clock at every tick. It is *not* assumed that a
session notices a silently lost peer, that workers register or reconnect, or that
anything fails.

`Link`'s `FairSpec` assumes that the worker's loop, the session's loop, the
witness' loop and the reaper run when they can, and that time passes. A tick
passes only when nothing due is left to do, which is the statement that local
steps are short against the heartbeat interval. Nothing is assumed of the order in
which a `select!` takes its ready branches, nor that a stalled witness reads again.

## 5. Proofs

`ZoneJobProofs` proves, for all constants that satisfy the named assumptions
(`K >= 1`, `Canon` a claim, `None` fresh; any nodes, registrations and faults):

* `Invariance`: `Spec => []IInv`;
* from it `TypeCorrect`, `SlotBounded`, `ShardsNeverLost`, `BusyIsExact`,
  `LoopExit`, `ResultsBacked`, `InboxBounded`, `MajorityIsCanonical`,
  `BlacklistIsFinal`, and the action property `AssignedOnce`.

None of these is inductive alone. `IInv` has five parts:

* `JobInv`, the job's own state: each live ensemble has disjoint pending and
  responding workers, all of them assigned, at most K, and fewer than K responses
  (a full one was decided at once); between `DrainPick` and the push the candidate
  is neither busy nor assigned (`PushOK`); the list of expired replicas is still
  true when it is worked off (`ExpiredOK`); live and collected shards partition
  `1..n_shards`.
* `TrafficOK`, the messages: a worker owes at most one answer, and while it is in
  the roster it holds the shard it owes (`DutyOK`); its inbox is an optional receipt
  followed by an optional assignment, and empty while its answer travels
  (`MailOK`); it leaves the roster before its disconnection is announced
  (`GoneOK`). This is what makes the unconditional `busy.remove` of `ShardFailed`
  safe and bounds the inbox.
* `Provenance`: an answer other than `Canon` comes from a faulty node.
* `RetiredOK`: blacklisted ids are out of the roster; ids not given out yet have
  no past, so a fresh id is never blacklisted or assigned.
* `TypeOK`.

It also proves `Refinement`, that `ZoneJob` implements `VotedJob`, and
`NeverGivesUp`. Of the steps of `ZoneJob` only three are visible in the vote:
`Compose` splits, `OnDoneCounted` counts, `LoopTop` finishes; the others change
neither responses nor results nor what the vote sees of `pc` (`OthersHidden`). The
heart is `CountedVotes`: `JobInv` says that a worker whose answer is counted had not
voted, that its shard is undecided and that fewer than K had answered, so the verdict
falls with exactly the K-th vote. Then a claim with more than K / 2 votes is ahead of
every other (`WinnerIsDecisive`), so `evaluate_ensemble` accepts if and only if some
claim wins, and aborts otherwise. `NeverStuck`
follows from `NoLostShard`: a live shard with nothing pending has fewer than K
responses, hence a free slot, hence is queued, so the stuck branch of the code is
unreachable.

`AcceptLoopProofs` proves `LimiterInvariance`, `CountersExact`, `CapsAlwaysHold`
and `RateIsBounded` for any addresses, finite sockets, caps, rates and bursts. The
invariant adds to the properties that a socket waiting for the lock has seen room
that only the single acquirer can use (`SeenRoom`), and `BucketBound`: for every
past tick, what was admitted since plus what the bucket would hold now is within
burst plus rate times duration. A dropped bucket was full and a new one starts
full, so dropping changes nothing.

`LinkProofs` proves `TypeCorrect`, `InStepKept` and `HealthyNeverReaped` for every
frame length, heartbeat interval, prove time, deadline, transit time and channel
capacity. `TypeCorrect` (with the evidence channel never over its capacity) is proved
only; no run repeats it. The `IInv` (checked by TLC on two instances before it was
proved) adds:

* `Framed`: on both wires every frame is whole and followed by the beginning of
  another one. Frames are written in one piece and only their reader takes them apart.
* `Aligned`: as long as a side has dropped no read, what its half-read frame still
  waits for ends exactly at such a beginning. This is why no reader ever takes payload
  for a length before a read is dropped.
* `BeatsTimely`: since `last_seen` every tick has run down the heartbeat timer, was
  spent away from the `select!` loop, or found a heartbeat on the wire. With the
  bound on transit it gives `HealthyKept`: what the reaper sees as silence beyond the
  grace is time the worker spent proving.
* `EndsExplained`: a session ends before its worker only when its entry is gone or
  its stream is out of step.

`PublishProofs` proves `TypeCorrect`, `ReadsOneJob`, `BundleAfterProofs`,
`PublishedPasses` and `AuditsJust` for any replicas, shards, restarts and witness
threshold. Files outlive the job that wrote them, and a verifier holds a bundle while
they are overwritten, so its `IInv` (checked by TLC with the run's constants first)
ties each of them to what its job collected:

* `Kept`: every inner proof on disk, the bundle on disk and the bundle in the
  verifier's hands say what their job collected. That is stable since a job is
  `Settled` once its answers are in and `Final` once its bundle is written (`Forward`).
* `Writing`: which files each position of the writer has replaced.
* `InPlace`: a bundle of the last writer has all its files. A later job leaves
  `InPlace` vacuously true with its first write: that makes it the last writer.
* `Reading`: the files read so far are the proofs of the bundle's job, in order, and
  without a write since, the bundle on disk is the one in hand.

`AuditsJust` alone needs a hypothesis on the constants, `FaultyMinority`: with more
than half of the replicas faulty an honest receipt contradicts the published claim.
The repository promises as much only for that case.

`MerkleProofs` proves `MerkleBinding`, for every number of leaves,
every list of arities and every `COMPACT_SKIP` (theorem `Binding`; `ForgeriesRefused`
and `OpeningsVerify` are parts of it). The theorems are about `MerkleSpec`, the
commitment library alone: `Circuits` also has units whose modules the prover cannot
load, and as units share no state and never turn into one another, the behaviours of
`Circuits` that start in this unit are those of `MerkleSpec`. `MerkleAssumption` asks
that arities are at least 2 and that no tree has a level numbered `LEAF_LEVEL_DS`,
which is `u32::MAX` in the code.

* The library's induction theorems cannot be used, so `Induct` and `StrongInduct` of
  `ArithmeticProofs` restate induction for *sets* of numbers, from the well-foundedness of `<`. Every
  recursive function is first shown to have a solution (`UpExists`, `DepthExists`,
  `CapacityExists`, `IndexExists`, `PowExists`), then described value by value.
* `Shape`: each level of a finished tree is padded to a multiple of its arity, and its
  nodes hash exactly the children below them with their level and position.
  `GrowKeepsShape` is the step, `DepthSuffices` and `CapacitySuffices` that the arities
  the callers configure always reach a single root.
* Forgeries: all children of a node of the tree are nodes one level below, at the
  position the hash names (`NodesClosed`), so a climb that reaches the root was inside
  the tree from its first step on (`ClimbStaysInside`), at its position, and a leaf
  inside is the committed one. `MInv`, the inductive invariant, says this of the
  climb in progress.
* Openings: what `VerifyStep` computes from the siblings that `open` took is the parent
  (`StepFindsParent`), at every level (`OpenVerifies`).
* The compact tree: the rows left out are binary and even, since their number of leaves
  is a power of two (`UpRows`); a rebuilt chunk is a part of each of these rows
  (`ChunkRebuilt`), the chunks' tops are the first row kept (`ChunksAreTop`), and above
  it both trees grow alike (`TreeSplits`). An opening then takes the siblings below
  from the chunk and above from the kept rows, and is the same (`OpensAlike`).

`RecordChainProofs` proves `ChainBinding` and `ParametersAgree` (theorems `ChainsBound`
and `ParametersRebuilt`) for zones and shards of every length, every height of the traces,
blowup, length of key and number of epochs. They are about `DnsSpec`, the DNS provers
alone, for the same reason as above. `RecordAssumption` asks what the code makes sure of:
trace heights and the blowup are powers of two, and no list to roll up is empty.

* `ParamsBind`: the parameters of a proof determine the domain, the binding and the mode.
  For the domain that needs `SchedulesDiffer`: schedules are as many eights, and a
  residual of two or four, as the exponent says, so different powers of two have
  different ones. `ScheduleFolds`: their product is the domain.
* `TreeBinds`: the tree of `dns.rs` pairs the last node of an odd level with itself, so
  positions beyond the end exist. `StepDown` walks from the root down: a node reached by
  a climb has the climb's previous value below it, at the position asked for if the level
  has that position. Two trees over lists of one length have one height (`SameHeight`),
  so a path of another epoch ends among the leaves too; it proves membership of what is
  there. `OwnPathVerifies` is the converse.
* `HashBinds`: a `pi_hash` over equal terms is over equal fields (`SameChain`). This is
  where bundles with one field of another fall out, and it needs the other side to be a
  bundle that the prover sealed (`IsSealed`): without its STARKs a bundle hashes zeros.
* `DnsInv`, the inductive invariant: a zone has sealed bundles only, in the list and
  among those ever made, and its rollups are of lists of as many of them as it has records
  (`GoodZone`). A bundle of a record that changed is sealed again (`OwnChainHolds`,
  `ChainSealed`), the others keep their seal over the old root of the lookup tree.
* `OwnListVerifies`: with its STARKs a list passes exactly under one height common to
  both proofs of each bundle that has them.
* `BlocksAgree`: padding and the verifier's count give the same number of SHA-256 blocks
  for every length.
* `AssembledBinds`: of values that runs of the DS prover left, accepted ones are all of one
  run. The `pi_hash` fixes key, digest, root and binding, and the root, being that of a
  run's trace, fixes the height (`DsHeightBinds`, by `ParamsBind`). The premise that every
  value was left by a run (`IsAssembled`) is what the step needs, and all it speaks of.

`GadgetProofs` proves `FieldSound` (theorem `Sound`) for every modulus 2^T - FOLD, every
even number of limbs of alternating widths, all operands and every native field large
enough, 2^255 - 19 over Goldilocks among them; it is about `FieldSpec`, the field
gadgets alone. `FieldAssumption` says that wide and narrow limbs take turns and that FOLD
fits a limb; `NativeAssumption` is the bound that `eval_mul_gadget` states in a comment,
the largest sum of products and carries stays below the native characteristic (about
2^62 of 2^64).

* No wrap: a constraint holds modulo NATIVE, but both of its sides are small
  (`ProductBounds`, `TermBounds`, `CarryBounds`), so it holds in the integers
  (`LimbExact`, by `SmallMultiple`).
* The carries telescope (`ValTelescopes`): what limb k hands on, limb k + 1 receives with
  the next weight, and what leaves the top returns times FOLD. So an accepted chain has
  the value of its terms less P for every unit carried out of the top (`ChainValue`),
  whichever carries the prover chose.
* For add and sub the terms have the value of the sum or difference (`ValLinear`). For mul
  that is the substance of the schedule of partial products: weights of two odd limbs
  multiply to twice the weight they land on and a wrapped pair to 2^T times it
  (`WeightProduct`), so every product is in the right place up to a multiple of P
  (`ProductTerm`); summed over the limbs in either order (`SumSwaps`, `SumRotates`) the
  terms are the product of the values (`MulValue`).
* `FreezeSound`: the borrow chain gives c = a - s p, the carry chain shows c + FOLD < 2^T,
  so c is the remainder. `SelectSound`: the unchecked output cells equal a checked input.
* `FieldInd`, the inductive invariant: operands are range-checked elements, the limbs of a
  chain under way satisfy their constraints for the carry that was settled for the top
  (`Chain`), and accepted cells hold the result (`Accepted`).

`GadgetProofs` also proves `ReduceExact` (theorem `Reduced`, about `ScalarSpec`): the
reduction of a digest modulo the group order. `ScalarAssumption` asks that L fills its
limbs, that its shifted copies reach over the input, that the carries have room
(16 * 65535 + 1 is below 2^23 in the code) and that a limb's terms and carries stay below
the native characteristic (about 2^39.2 of 2^64).

* What an arbitrary prover writes. The range checks bound both sides of a limb's
  constraint (`ResidueRange`, `CarryCheckedIs`), so it holds in the integers
  (`LimbEquation`). Summed with their weights the limb equations give input - q L - r =
  (last carry) * BASE^33 (`LimbsValue`, `ProductValue`). The left side is below BASE^32
  and above -BASE^33, as q has 17 limbs and r and L have 16. So the last carry is zero
  although no constraint says so (`GadgetSound`). That r is below L is not claimed: the
  slack is not tied to it.
* What the code writes. Long division leaves the remainder below every copy of L it has
  passed (`LongDivision`), so its bits are the quotient and the quotient fits its limbs
  (`QuotientWritten`); carries divide exactly, the last is zero, and none leaves its
  range (`CarriesExact`, `CarryRange`, `CarriesWritten`); the borrow chain leaves
  L - 1 - r (`SlackWritten`). `FillComplete` puts them together.
* `ScalarInd`, the inductive invariant: the limbs and carries written so far satisfy their
  constraints (`WitnessSoFar`), which limbs written later do not touch, as limb k of
  q L reads the limbs of q up to k only (`ProductAgrees`); a filled row is the fill of a
  digest.

The third theorem of `GadgetProofs` is `RowsExact` (theorem `RowsRight`, about
`MlRowsSpec`): the row gadgets of the ML-DSA circuit. `RowsAssumption` asks that 2 gamma_2
divides q - 1 at least twice, that every bit width holds its range (16 high parts in 4
bits, gamma_2 below 2^18, ...) and that no sum of a row comes near the native
characteristic (about 2^26 of 2^64); the equation has any number of terms.

* Bits. `BitsOfOther`: the bit columns written for v are accepted for c exactly if c is the
  remainder of v modulo the width (`BitsValue`, by induction on the columns), so a cell
  with bits is in range and a negative slack has none (`BitsInRange`).
* Decompose. Every residue has a split r = k * 2 gamma_2 + c, the top interval folded into
  k = 0 with c one lower (`IsSplit`, `SplitExists`), and `decompose` finds it
  (`SplitDecompose`); the filled row says so in its cells (`DecompositionAccepted`). An
  arbitrary accepted row recomposes to r modulo q (`DecompositionSound`): more is not
  true, as the range of r1 is a stub.
* UseHint. The slack bounds the adjusted high part, the constraint on delta leaves one value
  in the native field, and one pair of wrap bits is left for it (`HintSound`). A change by at
  most gamma_2 moves the high part by at most one, to the side of the sign of the low part,
  and around the ends of the range (`SmallChange`, nine cases), which is why one bit of hint
  undoes it (`HintUndoes`).
* Norm. The slack of an accepted row and the absolute value add up to the bound less one
  (`NormRow`); below half of q the sign is then determined (`NormExact`).
* Equation. The accumulators are the sums modulo q (`AccsAre`, by induction on the terms;
  the recursion has a solution by `RunExists`), the quotient cells make each constraint an
  identity, and the last one is a difference of residues (`ResidueDifference`).
* `RowsInd`, the inductive invariant: every phase holds the rows filled for one coefficient
  and one hint, or for one equation.

Only model-checked: the liveness properties (`JobCompletes`, `WorkerReleased`,
`ReplicaSettled`: fairness is out of the prover's reach), `FieldComplete`, the modules
under `Circuits` other than `FieldAir`, `ScalarAir`, `MlDsaRows`, `MerkleTree` and
`RecordChain`, and the violations. `FieldComplete` and those modules rest on `RECURSIVE` operators, bitwise
operators and folds with an operator as parameter, none of which the prover can unfold
for every input; they are checked on scaled instances.

## 6. Findings

* `zone_reconnect`: a comment promises that a worker that reconnects is not picked
  again for the same shard; ids are fresh per connection, so it is. With
  `Faulty`, one node can then hold several slots of a vote; `AcceptedIsCanonical`
  counts ids, not nodes, for that reason.
* `zone_stuck`: the "job stuck" report is unreachable; the job waits silently.
* `accept_exit`: the accept loop exits after the job although not asked to.
* `link_beats`: proving on the blocking pool does not keep heartbeats flowing, as
  the select loop awaits the result in its own branch.
* `publish_blob`: the vote compares claims, not blobs, so a bundle may hold a blob
  that does not verify although the majority is honest.

Observed while modelling, and part of what the properties of `circuits` state:

* The add and sub gadgets reject a legal pair of operands whose wrap makes the
  carry out of the first limb 2 (`DoubleCarry`); the comment at
  `ed25519_field_air.rs:249` rules that out. For 2^255 - 19 such operands are a
  vanishing fraction.
* A decompression row is accepted for encodings with a reduced y and without a sign
  on x = 0 only; the native verifier takes the others too.
* The SHA builders' last row wraps to row 0 and satisfies the transition only if the
  digest is the IV. The doc comment (`sha256_air.rs:420`) and the comment in the body
  (line 444) describe the padding differently.
* `verify_dns_record_chain_set` does not compare the bundles' `fs_binding`, which a
  comment near `prover.rs:1630` says the v4 verifier enforces. That the DNSKEY set
  holds the ZSK, and the record set the queried address, is left to callers.
* What an accepted DS STARK shows is agreement of parameters and public values, and
  `ParametersAgree` claims no more. `swarm-verify` (lines 387 to 470) checks the low-degree
  proof, the block count, the asserted digest against the parent's, the root and the
  `pi_hash`. The `pi_hash` is a hash without a key over these same values, and none of the
  checks ties the committed trace to the DNSKEY or to the asserted digest. The comments at
  `prover.rs:500-504` and `swarm-verify` 433-436 ("SHA-256(dnskey_bytes) = asserted_digest")
  say more; the former names an assumption on the public inputs that the code leaves to be
  met. For values that no run of the prover made, the statement of those comments does not
  follow from the checks, and is not modelled. The path without a STARK hashes the key itself.
* An accepted ZSK STARK is one of the stub's fixed trace, as the doc of
  `prove_zsk_ksk_binding_stub_k8` (`prover.rs:1039-1044`) says: it is about no key or
  signature, and `ParametersAgree` states that it passes under its binding whatever
  signature lies beside it. The path without a STARK verifies the signature.
* `verify_dns_record_chain_stark` (`prover.rs:1520-1527`) does not compare the root of the
  proofs it reads with the roots its bundle records and seals. `ChainBinding` is about what
  the `pi_hash` seals (`SameChain`), which leaves the proofs themselves out; both signatures
  are checked natively on that path too.
* `V2ProofReal::from_bytes` promises to read every legacy blob; one whose first byte
  is 0x02 is taken for a compressed one and refused.
* Comments of `binding_cells_commit.rs` derive z_0 from the seed and n0; the code
  takes it from the transcript. The doc of the skeleton verifier speaks of native
  checks on every row; it compares digests.
* In `verify_v2_real`, the first block of the transcript, the equality of z and its
  transform, and the link of the binding commitment to the trace root are left by
  comments to bindings outside; the model takes those traces from the code's prover.
  The range of r1 is a stub constraint; `RowsExact` therefore claims recomposition
  modulo q for accepted decompositions, and the exact split for filled ones only. The
  NTT's quotient cells have no bound, so only filled rows and single changed cells are
  claimed of it.

## 7. Not modelled

* RSA and Keccak circuits: constraints over 2048-bit numbers and 1600-bit states; no
  small instance keeps the structure that could go wrong. ML-DSA's sampling circuits
  and the earlier versions of its verifier, `prove_nsec3_completeness` and the first
  `prove_zsk_ksk_binding` are left out as well, as is code nobody calls
  (`verify_v2_skeleton`, `synthesise_iv_idle_row`).
* A STIR prover that claims false evaluations at its own out-of-domain points
  (`fri.rs:2307-2584` is what checks them): `FriExact` changes openings of an honest
  prover's proof and is no claim of soundness against such a prover.
* Soundness *errors*: that a random challenge hits a bad value is a probability. A
  query is taken to look everywhere, except in `Fri`, where queries are explicit.
* `ark-goldilocks`, polynomials, FFT, hash functions: tests and algebra serve them
  better. TLS, signatures and CBOR are library calls.
* `swarm-bench` and `cairo-bench` drive processes and print tables. Log output and
  timing figures are left out.
* The event channel's capacity of 256 when nobody receives (a witness controller):
  listed as a hazard without a property.

## 8. Plan

Every invariant of the swarm half is proved, those of the Merkle library and of the DNS
provers, the soundness of the field gadgets, both halves of the scalar reduction, and the
row gadgets of the ML-DSA circuit. Next are the completeness of the field gadgets, which
needs the search for carries written as a fold whose result can be bounded, and the group
law behind `NativeExact` and `PointExact`, an identity of polynomials over a prime field
that the provers here do not find.
