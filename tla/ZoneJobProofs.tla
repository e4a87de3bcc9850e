--------------------------- MODULE ZoneJobProofs ---------------------------
(***************************************************************************)
(* Proofs about ZoneJob, for every number of nodes, replicas, claims and   *)
(* registrations, and every fault budget.                                  *)
(***************************************************************************)
EXTENDS ZoneJob, FiniteSetTheorems, TLAPS

----------------------------------------------------------------------------
(***************************************************************************)
(* Sequences and finite sets.                                              *)
(***************************************************************************)

LEMMA IdsFinite == IsFiniteSet(Ids) /\ IsFiniteSet(Shards)
  BY BoundsAssumption, FS_Interval DEF Ids, Shards

LEMMA DivBound ==
  ASSUME NEW a \in Nat, NEW b \in Nat, b > 0
  PROVE  a \div b \in Nat /\ a \div b <= a
<1>1. a \div b \in Nat
  OBVIOUS
<1>2. a \div b <= a
  OBVIOUS
<1>. QED  BY <1>1, <1>2

LEMMA CountUp ==
  ASSUME NEW S, NEW n \in Nat, 1..n \subseteq S
  PROVE  [i \in 1..n |-> i] \in Seq(S) /\ Range([i \in 1..n |-> i]) = 1..n
  BY DEF Range

LEMMA OrdersSeq ==
  ASSUME NEW S, S \subseteq Shards, NEW q \in Orders(S)
  PROVE  q \in Seq(Shards) /\ Range(q) = S
<1>1. IsFiniteSet(S)
  BY IdsFinite, FS_Subset
<1>2. Cardinality(S) \in Nat
  BY <1>1, FS_CardinalityType
<1>3. q \in [1..Cardinality(S) -> S] /\ Range(q) = S
  BY DEF Orders
<1>. QED  BY <1>2, <1>3

LEMMA RangeTail ==
  ASSUME NEW S, NEW q \in Seq(S), q # <<>>
  PROVE  /\ Head(q) \in S /\ Tail(q) \in Seq(S)
         /\ Range(q) = {Head(q)} \cup Range(Tail(q))
<1>1. /\ Len(q) \in Nat /\ Len(q) > 0 /\ q \in [1..Len(q) -> S]
      /\ Len(Tail(q)) = Len(q) - 1
      /\ \A i \in 1..Len(q) - 1 : Tail(q)[i] = q[i + 1]
      /\ Tail(q) \in Seq(S)
  OBVIOUS
<1>2. DOMAIN Tail(q) = 1..Len(q) - 1
  BY <1>1
<1>3. ASSUME NEW x \in Range(q), x # Head(q)
      PROVE  x \in Range(Tail(q))
  <2>1. PICK i \in 1..Len(q) : x = q[i]
    BY <1>1 DEF Range
  <2>2. i # 1
    BY <1>3, <2>1
  <2>3. i - 1 \in 1..Len(q) - 1 /\ (i - 1) + 1 = i
    BY <1>1, <2>2
  <2>4. Tail(q)[i - 1] = x
    BY <1>1, <2>1, <2>3
  <2>5. i - 1 \in DOMAIN Tail(q)
    BY <1>2, <2>3
  <2>. QED  BY <2>4, <2>5, Zenon DEF Range
<1>4. ASSUME NEW x \in Range(Tail(q))
      PROVE  x \in Range(q)
  <2>1. PICK i \in 1..Len(q) - 1 : x = Tail(q)[i]
    BY <1>2, <1>4 DEF Range
  <2>. QED  BY <1>1, <2>1 DEF Range
<1>5. Head(q) \in Range(q)
  BY <1>1 DEF Range
<1>. QED  BY <1>1, <1>3, <1>4, <1>5

LEMMA RangeAppend ==
  ASSUME NEW S, NEW q \in Seq(S), NEW x \in S
  PROVE  Append(q, x) \in Seq(S) /\ Range(Append(q, x)) = Range(q) \cup {x}
<1>1. /\ Len(q) \in Nat /\ DOMAIN q = 1..Len(q)
      /\ DOMAIN Append(q, x) = 1..Len(q) + 1
      /\ \A i \in 1..Len(q) : Append(q, x)[i] = q[i]
      /\ Append(q, x)[Len(q) + 1] = x
  OBVIOUS
<1>. QED  BY <1>1 DEF Range

LEMMA RangeConcat ==
  ASSUME NEW S, NEW p \in Seq(S), NEW q \in Seq(S)
  PROVE  p \o q \in Seq(S) /\ Range(p \o q) = Range(p) \cup Range(q)
<1>1. /\ Len(p) \in Nat /\ Len(q) \in Nat
      /\ DOMAIN p = 1..Len(p) /\ DOMAIN q = 1..Len(q)
      /\ DOMAIN (p \o q) = 1..Len(p) + Len(q)
      /\ \A i \in 1..Len(p) : (p \o q)[i] = p[i]
      /\ \A i \in 1..Len(q) : (p \o q)[Len(p) + i] = q[i]
  OBVIOUS
<1>2. ASSUME NEW x \in Range(p \o q) PROVE x \in Range(p) \cup Range(q)
  <2>1. PICK i \in 1..Len(p) + Len(q) : x = (p \o q)[i]
    BY <1>1, <1>2 DEF Range
  <2>2. CASE i <= Len(p)
    BY <1>1, <2>1, <2>2 DEF Range
  <2>3. CASE i > Len(p)
    <3>1. i - Len(p) \in 1..Len(q) /\ Len(p) + (i - Len(p)) = i
      BY <1>1, <2>3
    <3>. QED  BY <1>1, <2>1, <3>1 DEF Range
  <2>. QED  BY <1>1, <2>2, <2>3
<1>3. ASSUME NEW x \in Range(q) PROVE x \in Range(p \o q)
  <2>1. PICK i \in 1..Len(q) : x = q[i]
    BY <1>1, <1>3 DEF Range
  <2>2. Len(p) + i \in 1..Len(p) + Len(q)
    BY <1>1
  <2>. QED  BY <1>1, <2>1, <2>2 DEF Range
<1>4. ASSUME NEW x \in Range(p) PROVE x \in Range(p \o q)
  BY <1>1, <1>4 DEF Range
<1>. QED  BY <1>2, <1>3, <1>4

----------------------------------------------------------------------------
(***************************************************************************)
(* Type correctness.  The actions of sessions and workers change the       *)
(* shared state only, those of the job mostly their own.                   *)
(***************************************************************************)

LEMMA TypeInit == Init => TypeOK
<1>. SUFFICES ASSUME Init PROVE TypeOK
  OBVIOUS
<1>. USE BoundsAssumption
<1>. QED  BY DEF Init, TypeOK, Ids, Shards

LEMMA TypeSession ==
  ASSUME TypeOK, NEW w \in Ids, Session(w) \/ Worker(w) \/ Trouble(w)
  PROVE  TypeOK'
<1>. USE BoundsAssumption DEF TypeOK, jobVars, ensVars, outVars, drainVars, reapVars
<1>1. CASE SendAck(w)
  BY <1>1 DEF SendAck, Event, EventOK
<1>2. CASE SessionBreak(w)
  BY <1>2 DEF SessionBreak
<1>3. CASE SendDisconnected(w)
  BY <1>3 DEF SendDisconnected, Event, EventOK
<1>0. ASSUME inbox[w] # <<>>
      PROVE  Head(inbox[w]) \in MsgOK /\ Tail(inbox[w]) \in Seq(MsgOK)
  BY <1>0, RangeTail
<1>4. CASE WorkerReceipt(w)
  BY <1>0, <1>4 DEF WorkerReceipt
<1>5. ASSUME NEW a \in Answers, WorkerProve(w, a)
      PROVE  TypeOK'
  <2>1. Event("ShardDone", w, Head(inbox[w]).shard, a) \in EventOK
    BY <1>0, <1>5 DEF WorkerProve, Event, EventOK, MsgOK
  <2>. QED  BY <1>0, <1>5, <2>1 DEF WorkerProve
<1>6. CASE SessionError(w)
  BY <1>6 DEF SessionError, Fault
<1>7. CASE WorkerStop(w)
  BY <1>7 DEF WorkerStop, Fault
<1>8. CASE WorkerFail(w)
  <2>1. Event("ShardFailed", w, Head(inbox[w]).shard, None) \in EventOK
    BY <1>0, <1>8 DEF WorkerFail, Event, EventOK, MsgOK
  <2>. QED  BY <1>0, <1>8, <2>1 DEF WorkerFail, Fault
<1>. QED
  BY <1>1, <1>2, <1>3, <1>4, <1>5, <1>6, <1>7, <1>8 DEF Session, Worker, Trouble

LEMMA TypeRegister ==
  ASSUME TypeOK, NEW n \in Nodes, Register(n)
  PROVE  TypeOK'
<1>1. nextId + 1 \in Ids /\ nextId + 1 \in 0..MaxId
  BY BoundsAssumption DEF TypeOK, Register, Ids
<1>. QED
  BY <1>1 DEF TypeOK, Register, jobVars, ensVars, outVars, drainVars, reapVars

LEMMA TypeDrain ==
  ASSUME TypeOK, pc = "push" => queue # <<>>, Start \/ Drain \/ LoopTop
  PROVE  TypeOK'
<1>. USE BoundsAssumption
     DEF TypeOK, sessVars, ensVars, outVars, drainVars, reapVars
<1>0. ASSUME queue # <<>>
      PROVE  Head(queue) \in Shards /\ Tail(queue) \in Seq(Shards)
  BY <1>0, RangeTail
<1>1. CASE WaitQuorum
  BY <1>1 DEF WaitQuorum
<1>2. CASE WaitEvent
  BY <1>2 DEF WaitEvent, jobVars
<1>3. CASE Compose
  <2>1. Cardinality(roster) \in 0..MaxId
    <3>1. Cardinality(roster) <= Cardinality(Ids) /\ IsFiniteSet(roster)
      BY IdsFinite, FS_Subset
    <3>2. Cardinality(Ids) = MaxId
      BY FS_Interval DEF Ids
    <3>. QED  BY <3>1, <3>2, FS_CardinalityType
  <2>2. Cardinality(roster) \div K \in 0..MaxId
    <3>. HIDE DEF TypeOK
    <3>1. Cardinality(roster) \in Nat /\ K \in Nat /\ K > 0
      BY <2>1, KAssumption
    <3>. QED  BY <2>1, <3>1, DivBound
  <2>3. PICK n \in 1..MaxId :
          n = IF Cardinality(roster) \div K >= 1 THEN Cardinality(roster) \div K ELSE 1
    BY <2>2
  <2>4. [i \in 1..n |-> i] \in Seq(Shards) /\ 1..n \subseteq Shards
    BY CountUp DEF Shards
  <2>5. CASE n > Records
    BY <1>3, <2>3, <2>5 DEF Compose
  <2>6. CASE ~(n > Records)
    <3>1. /\ n_shards' = n /\ queue' = [i \in 1..n |-> i] /\ live' = 1..n
          /\ pc' = "drain"
      BY <1>3, <2>3, <2>6 DEF Compose
    <3>2. n \in 0..MaxId
      OBVIOUS
    <3>. QED  BY <1>3, <2>4, <3>1, <3>2 DEF Compose
  <2>. QED  BY <2>5, <2>6
<1>4. CASE DrainSkip
  BY <1>0, <1>4 DEF DrainSkip
<1>5. CASE DrainNoWorker
  <2>1. Append(still, Head(queue)) \in Seq(Shards)
    BY <1>0, <1>5, RangeAppend DEF DrainNoWorker
  <2>. QED  BY <1>0, <1>5, <2>1 DEF DrainNoWorker
<1>6. CASE DrainPick
  <2>1. cand' \in 0..MaxId
    BY <1>6 DEF DrainPick, Candidates, Ids
  <2>. QED  BY <1>6, <2>1 DEF DrainPick
<1>7. CASE PushLost
  <2>1. Head(queue) \in Shards /\ Tail(queue) \in Seq(Shards)
    BY <1>0, <1>7 DEF PushLost
  <2>2. Append(still, Head(queue)) \in Seq(Shards)
    BY <2>1, RangeAppend
  <2>. QED  BY <1>7, <2>1, <2>2 DEF PushLost
<1>8. CASE PushAssign
  <2>1. Head(queue) \in Shards /\ Tail(queue) \in Seq(Shards) /\ cand \in Ids
    BY <1>0, <1>8 DEF PushAssign
  <2>2. Msg("assign", Head(queue)) \in MsgOK
    BY <2>1 DEF Msg, MsgOK
  <2>3. Append(inbox[cand], Msg("assign", Head(queue))) \in Seq(MsgOK)
    BY <2>1, <2>2, RangeAppend
  <2>4. Append(still, Head(queue)) \in Seq(Shards)
    BY <2>1, RangeAppend
  <2>5. still' \in Seq(Shards)
    BY <1>8, <2>4 DEF PushAssign
  <2>6. inbox' \in [Ids -> Seq(MsgOK)]
    BY <1>8, <2>1, <2>3 DEF PushAssign
  <2>7. /\ assigned' \in [Shards -> SUBSET Ids] /\ pending' \in [Shards -> SUBSET Ids]
        /\ busy' \in SUBSET Ids
    BY <1>8, <2>1 DEF PushAssign
  <2>8. 0 \in 0..MaxId
    OBVIOUS
  <2>. QED  BY <1>8, <2>1, <2>5, <2>6, <2>7, <2>8 DEF PushAssign
<1>9. CASE DrainDone
  BY <1>9 DEF DrainDone
<1>10. CASE LoopTop
  BY <1>10 DEF LoopTop
<1>. QED
  BY <1>1, <1>2, <1>3, <1>4, <1>5, <1>6, <1>7, <1>8, <1>9, <1>10 DEF Start, Drain

LEMMA TypeDrop ==
  ASSUME TypeOK, NEW w \in Ids, drop_worker(w)
  PROVE  /\ busy' \in SUBSET Ids
         /\ pending' \in [Shards -> SUBSET Ids]
         /\ queue' \in Seq(Shards)
<1>1. PICK q \in Orders({s \in live : w \in pending[s]}) : queue' = queue \o q
  BY DEF drop_worker
<1>2. q \in Seq(Shards)
  BY OrdersSeq DEF TypeOK
<1>3. queue' \in Seq(Shards)
  BY <1>1, <1>2, RangeConcat DEF TypeOK
<1>. QED  BY <1>3 DEF drop_worker, TypeOK

LEMMA TypeSuspect ==
  ASSUME TypeOK, NEW w \in Ids, NEW s \in Shards, suspect(w, s)
  PROVE  /\ busy' \in SUBSET Ids /\ blacklisted' \in SUBSET Ids
         /\ roster' \in SUBSET Ids
         /\ pending' \in [Shards -> SUBSET Ids]
         /\ queue' \in Seq(Shards)
<1>1. queue' \in Seq(Shards)
  BY RangeAppend DEF suspect, TypeOK
<1>. QED  BY <1>1 DEF suspect, TypeOK

LEMMA TypeReaper ==
  ASSUME TypeOK, ReaperTick \/ Reaper
  PROVE  TypeOK'
<1>. USE BoundsAssumption
     DEF TypeOK, sessVars, ensVars, outVars, drainVars, reapVars
<1>1. CASE ReaperTick
  <2>1. IsFiniteSet(stale' \cap linked)
    BY <1>1, IdsFinite, FS_Subset DEF ReaperTick
  <2>2. faults' \in 0..MaxFaults
    BY <1>1, <2>1, FS_CardinalityType DEF ReaperTick, Fault
  <2>. QED  BY <1>1, <2>2 DEF ReaperTick
<1>2. ASSUME NEW w \in Ids, ReapStale(w) PROVE TypeOK'
  <2>1. drop_worker(w)
    BY <1>2 DEF ReapStale
  <2>. QED  BY <1>2, <2>1, TypeDrop DEF ReapStale
<1>3. CASE ListExpired
  <2>1. Pairs \in SUBSET (Ids \X Shards)
    BY DEF Pairs
  <2>2. IsFiniteSet({p \in expired' : p[1] \in linked})
    <3>1. IsFiniteSet(Ids \X Shards)
      BY IdsFinite, FS_Product
    <3>2. {p \in expired' : p[1] \in linked} \subseteq Ids \X Shards
      BY <1>3, <2>1 DEF ListExpired
    <3>. QED  BY <3>1, <3>2, FS_Subset
  <2>3. faults' \in 0..MaxFaults
    BY <1>3, <2>2, FS_CardinalityType DEF ListExpired, Fault
  <2>. QED  BY <1>3, <2>1, <2>3 DEF ListExpired
<1>4. ASSUME NEW w \in Ids, NEW s \in Shards, ExpireReplica(w, s) PROVE TypeOK'
  <2>1. suspect(w, s)
    BY <1>4 DEF ExpireReplica
  <2>. QED  BY <1>4, <2>1, TypeSuspect DEF ExpireReplica
<1>5. CASE ReaperDone
  BY <1>5 DEF ReaperDone
<1>. QED
  BY <1>1, <1>2, <1>3, <1>4, <1>5 DEF Reaper

LEMMA TypeEvents ==
  ASSUME TypeOK, HandleEvent
  PROVE  TypeOK'
<1>. DEFINE e == Head(events)
<1>1. /\ e \in EventOK /\ Tail(events) \in Seq(EventOK) /\ events' = Tail(events)
      /\ e.w \in Ids
  <2>1. events # <<>> /\ events' = Tail(events)
    BY DEF HandleEvent, OnDoneIgnored, OnDoneRejected, OnDoneCounted, OnFailed,
           OnDisconnected, OnRegistered, Recv
  <2>2. e \in EventOK /\ Tail(events) \in Seq(EventOK)
    BY <2>1, RangeTail DEF TypeOK
  <2>. QED  BY <2>1, <2>2 DEF EventOK
<1>. HIDE DEF e
<1>. USE DEF sessVars, ensVars, outVars, drainVars, reapVars
<1>2. CASE OnDoneIgnored
  BY <1>1, <1>2 DEF OnDoneIgnored, TypeOK
<1>3. CASE OnDoneRejected
  <2>1. e.shard \in Shards /\ suspect(e.w, e.shard)
    BY <1>1, <1>3 DEF OnDoneRejected, InPending, TypeOK, e
  <2>. QED  BY <1>1, <1>3, <2>1, TypeSuspect DEF OnDoneRejected, TypeOK
<1>4. CASE OnDoneCounted
  <2>. DEFINE s == e.shard
  <2>1. s \in Shards /\ e.answer \in Claims /\ count(e.w, s, e.answer)
    BY <1>1, <1>4 DEF OnDoneCounted, InPending, TypeOK, e
  <2>. HIDE DEF s
  <2>2. /\ inbox' \in [Ids -> Seq(MsgOK)]
        /\ pending' \in [Shards -> SUBSET Ids]
        /\ responses' \in [Shards -> [Ids -> Claims \cup {None}]]
        /\ busy' \in SUBSET Ids
    <3>1. Msg("receipt", s) \in MsgOK
      BY <2>1 DEF Msg, MsgOK
    <3>2. Append(inbox[e.w], Msg("receipt", s)) \in Seq(MsgOK)
      BY <1>1, <3>1, RangeAppend DEF TypeOK
    <3>. QED  BY <1>1, <2>1, <3>2 DEF count, TypeOK
  <2>. DEFINE Typed == /\ roster' \in SUBSET Ids /\ blacklisted' \in SUBSET Ids
                       /\ live' \in SUBSET Shards
                       /\ results' \in [Shards -> Claims \cup {None}]
                       /\ attest' \in [Shards -> SUBSET Ids]
                       /\ pc' \in {"drain", "aborted"}
  <2>3. Typed
    <3>1. CASE UNCHANGED <<roster, blacklisted, live, outVars>> /\ pc' = "drain"
      BY <3>1 DEF TypeOK
    <3>2. ASSUME NEW c \in Claims, accept(s, c)
          PROVE  Typed
      BY <2>1, <3>2 DEF accept, TypeOK, Bucket
    <3>3. CASE abort(s)
      BY <3>3 DEF abort, TypeOK, Responders
    <3>4. \/ pc' = "drain" /\ UNCHANGED <<roster, blacklisted, live, outVars>>
          \/ \E c \in Claims : accept(s, c)
          \/ abort(s)
      BY <1>4, Zenon DEF OnDoneCounted, Claimed, s, e
    <3>. QED  BY <3>1, <3>2, <3>3, <3>4
  <2>. QED  BY <1>1, <1>4, <2>2, <2>3 DEF OnDoneCounted, TypeOK
<1>5. CASE OnFailed
  <2>1. e.shard \in Shards
    BY <1>1, <1>5 DEF OnFailed, Recv, EventOK, e
  <2>2. queue' \in Seq(Shards)
    BY <1>5, <2>1, RangeAppend DEF OnFailed, TypeOK, e
  <2>3. pending' \in [Shards -> SUBSET Ids] /\ busy' \in SUBSET Ids
    BY <1>5, <2>1 DEF OnFailed, TypeOK, e
  <2>. QED  BY <1>1, <1>5, <2>2, <2>3 DEF OnFailed, TypeOK
<1>6. CASE OnDisconnected
  <2>1. drop_worker(e.w)
    BY <1>6 DEF OnDisconnected, e
  <2>. QED  BY <1>1, <1>6, <2>1, TypeDrop DEF OnDisconnected, TypeOK
<1>7. CASE OnRegistered
  BY <1>1, <1>7 DEF OnRegistered, TypeOK
<1>. QED
  BY <1>2, <1>3, <1>4, <1>5, <1>6, <1>7 DEF HandleEvent

----------------------------------------------------------------------------
(***************************************************************************)
(* The state of the job.                                                   *)
(***************************************************************************)

LEMMA Counts ==
  ASSUME TypeOK, NEW s \in Shards
  PROVE  /\ IsFiniteSet(pending[s]) /\ Cardinality(pending[s]) \in Nat
         /\ IsFiniteSet(Responders(responses[s]))
         /\ Cardinality(Responders(responses[s])) \in Nat
<1>1. pending[s] \subseteq Ids /\ Responders(responses[s]) \subseteq Ids
  BY DEF TypeOK, Responders
<1>2. IsFiniteSet(pending[s]) /\ IsFiniteSet(Responders(responses[s]))
  BY <1>1, IdsFinite, FS_Subset
<1>. QED  BY <1>2, FS_CardinalityType

LEMMA OpenIff ==
  ASSUME TypeOK, NEW s \in Shards
  PROVE  Open(s) <=> /\ s \in live
                     /\ Cardinality(pending[s]) + Cardinality(Responders(responses[s])) < K
  BY Counts, KAssumption DEF Open, slots_remaining

\* A step that leaves the ensembles alone keeps what JobInv says of them.
Core == (\A s \in live : EnsembleOK(s)) /\ ShardsOK /\ BusyExact /\ ResultBacked

LEMMA CoreFrame ==
  ASSUME JobInv, pc # "aborted", UNCHANGED <<ensVars, busy, outVars, n_shards>>
  PROVE  Core' /\ (\A s \in Shards : Open(s)' <=> Open(s))
  BY DEF JobInv, Core, EnsembleOK, ShardsOK, Collected, BusyExact, ResultBacked,
         Open, slots_remaining, Responders, ensVars, outVars

LEMMA JobFrame ==
  ASSUME JobInv, UNCHANGED jobVars
  PROVE  JobInv'
<1>. USE DEF jobVars, ensVars, outVars, drainVars, reapVars
<1>0. (\A s \in live : EnsembleOK(s))'
  BY DEF JobInv, EnsembleOK, Responders
<1>1. ShardsOK' /\ BusyExact' /\ ResultBacked'
  BY DEF JobInv, ShardsOK, Collected, BusyExact, ResultBacked
<1>2. StartOK' /\ PushOK' /\ StillOK' /\ ExpiredOK'
  BY DEF JobInv, StartOK, PushOK, StillOK, ExpiredOK, Pairs, Open, slots_remaining, Responders
<1>3. NoLostShard' /\ NeverStuck' /\ CollectedMeansAll'
  BY DEF JobInv, NoLostShard, NeverStuck, CollectedMeansAll, Open, slots_remaining,
         Responders, Range, Collected
<1>. QED  BY <1>0, <1>1, <1>2, <1>3 DEF JobInv

LEMMA JobInit == Init => JobInv
<1>. SUFFICES ASSUME Init PROVE JobInv
  OBVIOUS
<1>1. \A s \in Shards : Responders(responses[s]) = {}
  BY DEF Init, Responders
<1>2. 1..n_shards = {}
  BY DEF Init
<1>3. Collected = {} /\ live = {} /\ busy = {} /\ pc = "wait"
  BY DEF Init, Collected
<1>. QED
  BY <1>1, <1>2, <1>3 DEF Init, JobInv, StartOK, PushOK, StillOK, ExpiredOK, ShardsOK,
       NoLostShard, BusyExact, ResultBacked, NeverStuck, CollectedMeansAll

LEMMA JobDrain ==
  ASSUME TypeOK, JobInv, DrainSkip \/ DrainNoWorker \/ DrainPick \/ PushLost \/ DrainDone
  PROVE  JobInv'
<1>. USE DEF ensVars, outVars, drainVars, reapVars
<1>1. UNCHANGED <<ensVars, busy, outVars, n_shards>> /\ pc \in {"drain", "push"}
  BY DEF DrainSkip, DrainNoWorker, DrainPick, PushLost, DrainDone
<1>2. Core' /\ (\A s \in Shards : Open(s)' <=> Open(s))
  BY <1>1, CoreFrame
<1>3. pc' \in {"drain", "push", "top"} /\ (pc' = "top" => still' = <<>>)
  BY DEF DrainSkip, DrainNoWorker, DrainPick, PushLost, DrainDone
<1>4. StartOK' /\ StillOK' /\ ExpiredOK' /\ NeverStuck' /\ CollectedMeansAll'
  BY <1>3 DEF StartOK, StillOK, ExpiredOK, NeverStuck, CollectedMeansAll
<1>5. PushOK'
  <2>1. CASE DrainPick
    <3>1. Head(queue) \in Shards
      BY <2>1, RangeTail DEF DrainPick, TypeOK
    <3>2. cand' \in Ids /\ cand' \notin busy /\ cand' \notin assigned[Head(queue)]
      BY <2>1 DEF DrainPick, Candidates, TypeOK
    <3>3. Open(Head(queue))'
      BY <1>2, <2>1, <3>1 DEF DrainPick
    <3>. QED  BY <1>1, <2>1, <3>2, <3>3 DEF DrainPick, PushOK
  <2>2. CASE ~DrainPick
    BY <2>2 DEF DrainSkip, DrainNoWorker, PushLost, DrainDone, PushOK
  <2>. QED  BY <2>1, <2>2
<1>6. NoLostShard'
  <2>. SUFFICES ASSUME NEW s \in live, Open(s)
                PROVE  s \in Range(queue)' \cup Range(still)'
    BY <1>1, <1>2 DEF NoLostShard, TypeOK
  <2>1. s \in Range(queue) \cup Range(still)
    BY DEF JobInv, NoLostShard
  <2>2. CASE DrainPick
    BY <2>1, <2>2 DEF DrainPick
  <2>3. CASE DrainDone
    BY <2>1, <2>3 DEF DrainDone, Range
  <2>4. CASE DrainSkip
    <3>1. Range(queue) = {Head(queue)} \cup Range(Tail(queue)) /\ s # Head(queue)
      BY <2>4, RangeTail DEF DrainSkip, TypeOK
    <3>. QED  BY <2>1, <2>4, <3>1 DEF DrainSkip
  <2>5. CASE DrainNoWorker \/ PushLost
    <3>1. queue # <<>> /\ queue' = Tail(queue) /\ still' = Append(still, Head(queue))
      BY <2>5 DEF DrainNoWorker, PushLost, JobInv, PushOK
    <3>2. /\ Range(queue) = {Head(queue)} \cup Range(Tail(queue))
          /\ Head(queue) \in Shards
      BY <3>1, RangeTail DEF TypeOK
    <3>3. Range(Append(still, Head(queue))) = Range(still) \cup {Head(queue)}
      BY <3>2, RangeAppend DEF TypeOK
    <3>. QED  BY <2>1, <3>1, <3>2, <3>3
  <2>. QED  BY <2>2, <2>3, <2>4, <2>5
<1>. QED  BY <1>2, <1>4, <1>5, <1>6 DEF JobInv, Core

LEMMA JobLoop ==
  ASSUME TypeOK, JobInv, \/ WaitQuorum \/ WaitEvent \/ LoopTop \/ ReaperTick \/ ListExpired
                         \/ ReaperDone \/ OnDoneIgnored \/ OnRegistered
  PROVE  JobInv'
<1>. USE DEF ensVars, outVars, drainVars, reapVars, jobVars, Recv
<1>1. UNCHANGED <<ensVars, busy, outVars, n_shards, queue, still>> /\ pc # "aborted"
  BY DEF WaitQuorum, WaitEvent, LoopTop, ReaperTick, ListExpired, ReaperDone,
         OnDoneIgnored, OnRegistered
<1>2. Core' /\ (\A s \in Shards : Open(s)' <=> Open(s))
  BY <1>1, CoreFrame
<1>3. NoLostShard'
  <2>. SUFFICES ASSUME NEW s \in live, Open(s)
                PROVE  s \in Range(queue)' \cup Range(still)'
    BY <1>1, <1>2 DEF NoLostShard, TypeOK
  <2>. QED  BY <1>1 DEF JobInv, NoLostShard
<1>4. StartOK' /\ PushOK' /\ StillOK'
  BY <1>1 DEF WaitQuorum, WaitEvent, LoopTop, ReaperTick, ListExpired, ReaperDone,
       OnDoneIgnored, OnRegistered, JobInv, StartOK, PushOK, StillOK, Responders
<1>5. ExpiredOK'
  <2>1. CASE ListExpired
    BY <2>1 DEF ListExpired, ExpiredOK, Pairs
  <2>2. CASE ~ListExpired
    BY <2>2 DEF WaitQuorum, WaitEvent, LoopTop, ReaperTick, ReaperDone,
         OnDoneIgnored, OnRegistered, ExpiredOK
  <2>. QED  BY <2>1, <2>2
<1>6. NeverStuck' /\ CollectedMeansAll'
  <2>1. CASE LoopTop
    <3>1. n_shards \in Nat /\ IsFiniteSet(1..n_shards) /\ Cardinality(1..n_shards) = n_shards
      BY FS_Interval DEF TypeOK
    <3>2. ASSUME Cardinality(Collected) = n_shards
          PROVE  Collected = 1..n_shards /\ live = {} /\ busy = {}
      <4>1. Collected = 1..n_shards
        BY <3>1, <3>2, FS_Subset DEF JobInv, ShardsOK
      <4>2. live = {}
        BY <4>1 DEF JobInv, ShardsOK
      <4>. QED  BY <4>1, <4>2 DEF JobInv, BusyExact
    <3>3. ASSUME StuckCheck, still = <<>>
          PROVE  Cardinality(Collected) = n_shards
      <4>1. ASSUME NEW s \in live
            PROVE  FALSE
        <5>1. s \in Shards /\ pending[s] = {} /\ Cardinality(Responders(responses[s])) < K
          BY <2>1, <3>3 DEF StuckCheck, JobInv, EnsembleOK, LoopTop, TypeOK
        <5>2. Cardinality(pending[s]) = 0
          BY <5>1, FS_EmptySet
        <5>3. Open(s)
          BY <5>1, <5>2, OpenIff, Counts
        <5>4. Range(queue) = {} /\ Range(still) = {}
          BY <3>3 DEF StuckCheck, Range
        <5>. QED  BY <5>3, <5>4 DEF JobInv, NoLostShard
      <4>2. Collected = 1..n_shards
        BY <4>1 DEF JobInv, ShardsOK
      <4>. QED  BY <3>1, <4>2
    <3>4. still = <<>>
      BY <2>1 DEF LoopTop, JobInv, StillOK
    <3>5. pc' # "stuck"
      BY <2>1, <3>3, <3>4 DEF LoopTop
    <3>6. CASE pc' = "collected"
      <4>1. Cardinality(Collected) = n_shards
        BY <2>1, <3>6 DEF LoopTop
      <4>. QED  BY <1>1, <3>2, <3>5, <4>1 DEF NeverStuck, CollectedMeansAll, Collected
    <3>. QED  BY <3>5, <3>6 DEF NeverStuck, CollectedMeansAll
  <2>2. CASE ~LoopTop
    BY <2>2 DEF WaitQuorum, WaitEvent, ReaperTick, ListExpired, ReaperDone,
         OnDoneIgnored, OnRegistered, NeverStuck, CollectedMeansAll
  <2>. QED  BY <2>1, <2>2
<1>. QED  BY <1>2, <1>3, <1>4, <1>5, <1>6 DEF JobInv, Core

\* Taking the worker w off the shards in Z, wherever it held them.
LEMMA Release ==
  ASSUME TypeOK, TypeOK', JobInv, pc # "aborted",
         NEW w \in Ids, NEW Z, Z \subseteq live,
         \A s \in Shards : pending'[s] = IF s \in Z THEN pending[s] \ {w} ELSE pending[s],
         \A s \in live \ Z : w \notin pending[s],
         busy' = busy \ {w},
         UNCHANGED <<live, assigned, responses, outVars, n_shards, still>>,
         Range(queue) \subseteq Range(queue'),
         \A s \in Z : w \in pending[s] => s \in Range(queue')
  PROVE  Core' /\ NoLostShard'
<1>. USE DEF outVars
<1>1. ASSUME NEW s \in live
      PROVE  /\ EnsembleOK(s)'
             /\ Open(s)' => Open(s) \/ (s \in Z /\ w \in pending[s])
  <2>0. s \in Shards
    BY DEF TypeOK
  <2>1. pending'[s] \subseteq pending[s] /\ responses'[s] = responses[s]
    BY <2>0
  <2>2. /\ Cardinality(pending'[s]) <= Cardinality(pending[s])
        /\ Cardinality(pending'[s]) \in Nat
    BY <2>0, <2>1, Counts, FS_Subset, FS_CardinalityType
  <2>3. EnsembleOK(s)
    BY DEF JobInv
  <2>4. EnsembleOK(s)'
    BY <2>0, <2>1, <2>2, <2>3, Counts, KAssumption DEF EnsembleOK, Responders
  <2>5. ASSUME ~(s \in Z /\ w \in pending[s]), Open(s)'
        PROVE  Open(s)
    <3>1. pending'[s] = pending[s]
      BY <2>0, <2>5
    <3>. QED  BY <2>1, <2>5, <3>1 DEF Open, slots_remaining, Responders
  <2>. QED  BY <2>4, <2>5
<1>2. BusyExact'
  <2>0. /\ \A x : x \in busy <=> \E s \in live : x \in pending[s]
        /\ \A s, t \in live : s # t => pending[s] \cap pending[t] = {}
    BY DEF JobInv, BusyExact
  <2>1. \A s \in live : pending'[s] = pending[s] \ {w}
    BY DEF TypeOK
  <2>2. \A x : x \in busy' <=> \E s \in live : x \in pending'[s]
    BY <2>0, <2>1
  <2>3. \A s, t \in live : s # t => pending'[s] \cap pending'[t] = {}
    BY <2>0, <2>1
  <2>4. busy' = UNION {pending'[s] : s \in live}
    BY <2>2
  <2>. QED  BY <2>3, <2>4 DEF BusyExact
<1>3. ShardsOK' /\ ResultBacked'
  BY DEF JobInv, ShardsOK, Collected, ResultBacked
<1>4. NoLostShard'
  <2>. SUFFICES ASSUME NEW s \in live, Open(s)'
                PROVE  s \in Range(queue') \cup Range(still')
    BY DEF NoLostShard
  <2>1. CASE Open(s)
    BY <2>1 DEF JobInv, NoLostShard
  <2>2. CASE s \in Z /\ w \in pending[s]
    BY <2>2
  <2>. QED  BY <1>1, <2>1, <2>2
<1>. QED  BY <1>1, <1>2, <1>3, <1>4 DEF Core

LEMMA DropReleases ==
  ASSUME TypeOK, TypeOK', JobInv, pc # "aborted", NEW w \in Ids, drop_worker(w),
         UNCHANGED <<live, assigned, responses, outVars, n_shards, still>>
  PROVE  Core' /\ NoLostShard'
<1>1. PICK q \in Orders({s \in live : w \in pending[s]}) : queue' = queue \o q
  BY DEF drop_worker
<1>2. q \in Seq(Shards) /\ Range(q) = {s \in live : w \in pending[s]}
  BY OrdersSeq DEF TypeOK
<1>3. Range(queue') = Range(queue) \cup {s \in live : w \in pending[s]}
  BY <1>1, <1>2, RangeConcat DEF TypeOK
<1>4. \A s \in Shards : pending'[s] = IF s \in live THEN pending[s] \ {w} ELSE pending[s]
  BY DEF drop_worker
<1>5. busy' = busy \ {w}
  BY DEF drop_worker
<1>. QED  BY <1>3, <1>4, <1>5, Release

LEMMA SuspectReleases ==
  ASSUME TypeOK, TypeOK', JobInv, pc # "aborted", NEW w \in Ids, NEW s \in live,
         w \in pending[s], suspect(w, s),
         UNCHANGED <<live, assigned, responses, outVars, n_shards, still>>
  PROVE  Core' /\ NoLostShard'
<1>1. s \in Shards
  BY DEF TypeOK
<1>2. Range(queue') = Range(queue) \cup {s}
  BY <1>1, RangeAppend DEF suspect, TypeOK
<1>3. \A t \in Shards : pending'[t] = IF t \in {s} THEN pending[t] \ {w} ELSE pending[t]
  BY <1>1 DEF suspect, TypeOK
<1>4. \A t \in live \ {s} : w \notin pending[t]
  BY DEF JobInv, BusyExact
<1>5. busy' = busy \ {w}
  BY DEF suspect
<1>. QED  BY <1>2, <1>3, <1>4, <1>5, Release

\* What JobInv says of the control state holds whenever the job goes back to
\* draining, or stays in one of the two loops of the reaper.
LEMMA JobControl ==
  ASSUME JobInv, Core', NoLostShard',
         \/ pc = "select" /\ pc' = "drain"
         \/ pc = "reap" /\ pc' = "reap" /\ still' = still
         \/ pc = "expire" /\ pc' = "expire" /\ ExpiredOK' /\ still' = still
  PROVE  JobInv'
  BY DEF JobInv, Core, StartOK, PushOK, StillOK, ExpiredOK, NeverStuck, CollectedMeansAll

LEMMA JobReap ==
  ASSUME TypeOK, TypeOK', JobInv,
         \/ \E w \in Ids : ReapStale(w)
         \/ \E w \in Ids, s \in Shards : ExpireReplica(w, s)
         \/ OnDoneRejected \/ OnDisconnected
  PROVE  JobInv'
<1>. USE DEF sessVars, ensVars, outVars, drainVars, reapVars
<1>1. ASSUME NEW w \in Ids, ReapStale(w) PROVE JobInv'
  <2>1. Core' /\ NoLostShard'
    BY <1>1, DropReleases DEF ReapStale
  <2>. QED  BY <1>1, <2>1, JobControl DEF ReapStale
<1>2. ASSUME NEW w \in Ids, NEW s \in Shards, ExpireReplica(w, s) PROVE JobInv'
  <2>1. /\ expired \subseteq Pairs /\ <<w, s>> \in expired
        /\ expired' = expired \ {<<w, s>>}
    BY <1>2 DEF ExpireReplica, JobInv, ExpiredOK
  <2>2. s \in live /\ w \in pending[s]
    BY <2>1 DEF Pairs
  <2>3. Core' /\ NoLostShard'
    BY <1>2, <2>2, SuspectReleases DEF ExpireReplica
  <2>4. expired' \subseteq Pairs'
    <3>. SUFFICES ASSUME NEW p \in expired' PROVE p \in Pairs'
      OBVIOUS
    <3>1. p \in Ids \X Shards /\ p[2] \in live /\ p[1] \in pending[p[2]] /\ p # <<w, s>>
      BY <2>1 DEF Pairs
    <3>2. live' = live /\ \A t \in Shards : pending'[t] = IF t = s THEN pending[t] \ {w} ELSE pending[t]
      BY <1>2 DEF ExpireReplica, suspect, TypeOK
    <3>3. ~(p[1] = w /\ p[2] = s)
      BY <3>1
    <3>4. p[1] \in pending'[p[2]]
      BY <3>1, <3>2, <3>3
    <3>. QED  BY <3>1, <3>2, <3>4 DEF Pairs
  <2>. QED  BY <1>2, <2>3, <2>4, JobControl DEF ExpireReplica, ExpiredOK
<1>. DEFINE e == Head(events)
<1>0. ASSUME events # <<>> PROVE e.w \in Ids
  <2>1. e \in EventOK
    BY <1>0, RangeTail DEF TypeOK
  <2>. QED  BY <2>1 DEF EventOK
<1>3. CASE OnDoneRejected
  <2>1. e.w \in Ids /\ e.shard \in live /\ e.w \in pending[e.shard] /\ suspect(e.w, e.shard)
    BY <1>0, <1>3 DEF OnDoneRejected, InPending, Recv
  <2>2. Core' /\ NoLostShard'
    BY <1>3, <2>1, SuspectReleases DEF OnDoneRejected, Recv
  <2>. QED  BY <1>3, <2>2, JobControl DEF OnDoneRejected, Recv
<1>4. CASE OnDisconnected
  <2>1. e.w \in Ids /\ drop_worker(e.w)
    BY <1>0, <1>4 DEF OnDisconnected, Recv
  <2>2. Core' /\ NoLostShard'
    BY <1>4, <2>1, DropReleases DEF OnDisconnected, Recv
  <2>. QED  BY <1>4, <2>2, JobControl DEF OnDisconnected, Recv
<1>. QED  BY <1>1, <1>2, <1>3, <1>4

LEMMA JobFailed ==
  ASSUME TypeOK, TypeOK', JobInv, TrafficOK, OnFailed
  PROVE  JobInv'
<1>. USE DEF sessVars, ensVars, outVars, drainVars, reapVars
<1>. DEFINE e == Head(events)
<1>1. /\ events # <<>> /\ e.w \in Ids /\ e.shard \in Shards
      /\ e.type = "ShardFailed"
  <2>1. events # <<>> /\ e.type = "ShardFailed"
    BY DEF OnFailed, Recv
  <2>2. e \in EventOK
    BY <2>1, RangeTail DEF TypeOK
  <2>. QED  BY <2>1, <2>2 DEF EventOK
<1>2. \A t \in live : e.w \in pending[t] => t = e.shard
  <2>1. 1 \in DOMAIN events /\ events[1] = e
    BY <1>1 DEF TypeOK
  <2>2. e.shard \in Owed(e.w)
    BY <1>1, <2>1 DEF Owed, IsReply
  <2>. QED  BY <1>1, <2>2 DEF TrafficOK, DutyOK
<1>3. /\ busy' = busy \ {e.w} /\ queue' = Append(queue, e.shard)
      /\ pc = "select" /\ pc' = "drain"
      /\ UNCHANGED <<live, assigned, responses, outVars, n_shards, still>>
  BY DEF OnFailed, Recv
<1>. DEFINE Z == {e.shard} \cap live
<1>4. \A t \in Shards : pending'[t] = IF t \in Z THEN pending[t] \ {e.w} ELSE pending[t]
  BY <1>1 DEF OnFailed, TypeOK
<1>5. Range(queue') = Range(queue) \cup {e.shard}
  BY <1>1, <1>3, RangeAppend DEF TypeOK
<1>. HIDE DEF e
<1>6. Core' /\ NoLostShard'
  <2>1. Z \subseteq live /\ (\A t \in live \ Z : e.w \notin pending[t])
    BY <1>2
  <2>2. Range(queue) \subseteq Range(queue') /\ \A t \in Z : t \in Range(queue')
    BY <1>5
  <2>. HIDE DEF Z
  <2>. QED  BY <1>1, <1>3, <1>4, <2>1, <2>2, Release
<1>. QED  BY <1>3, <1>6, JobControl

LEMMA JobCompose ==
  ASSUME TypeOK, TypeOK', JobInv, Compose
  PROVE  JobInv'
<1>. USE DEF sessVars, outVars, drainVars, reapVars
<1>1. /\ live = {} /\ n_shards = 0 /\ busy = {} /\ pc = "compose" /\ still = <<>>
      /\ \A s \in Shards : /\ assigned[s] = {} /\ pending[s] = {}
                           /\ Responders(responses[s]) = {} /\ results[s] = None
  BY DEF Compose, JobInv, StartOK, StillOK
<1>2. /\ UNCHANGED <<assigned, pending, responses, busy, results, attest, still>>
      /\ \/ pc' = "aborted" /\ UNCHANGED <<n_shards, queue, live>>
         \/ /\ pc' = "drain"
            /\ live' = 1..n_shards' /\ queue' = [i \in 1..n_shards' |-> i]
  BY DEF Compose
<1>3. Collected' = {} /\ live' = 1..n_shards'
  <2>1. Collected' = {}
    BY <1>1, <1>2 DEF Collected
  <2>2. 1..0 = {}
    OBVIOUS
  <2>. QED  BY <1>1, <1>2, <2>1, <2>2
<1>4. ASSUME NEW s \in live' PROVE EnsembleOK(s)'
  <2>1. s \in Shards
    BY <1>4 DEF TypeOK
  <2>2. pending'[s] = {} /\ Responders(responses'[s]) = {}
    BY <1>1, <1>2, <2>1
  <2>. QED  BY <2>2, FS_EmptySet, KAssumption DEF EnsembleOK
<1>5. ShardsOK' /\ ResultBacked'
  BY <1>3 DEF ShardsOK, ResultBacked
<1>6. BusyExact'
  <2>1. \A s \in live' : pending'[s] = {}
    BY <1>1, <1>2 DEF TypeOK
  <2>. QED  BY <1>1, <1>2, <2>1 DEF BusyExact
<1>7. NoLostShard'
  <2>1. CASE pc' = "aborted"
    BY <1>1, <1>2, <2>1 DEF NoLostShard
  <2>2. CASE pc' = "drain"
    <3>1. n_shards' \in Nat /\ queue' = [i \in 1..n_shards' |-> i] /\ live' = 1..n_shards'
      BY <1>2, <2>2 DEF TypeOK
    <3>2. Range(queue') = live'
      BY <3>1, CountUp
    <3>. QED  BY <3>2 DEF NoLostShard
  <2>. QED  BY <1>2, <2>1, <2>2
<1>8. StartOK' /\ PushOK' /\ StillOK' /\ ExpiredOK' /\ NeverStuck' /\ CollectedMeansAll'
  BY <1>1, <1>2 DEF StartOK, PushOK, StillOK, ExpiredOK, NeverStuck, CollectedMeansAll
<1>. QED  BY <1>4, <1>5, <1>6, <1>7, <1>8 DEF JobInv

LEMMA JobAssign ==
  ASSUME TypeOK, TypeOK', JobInv, PushAssign
  PROVE  JobInv'
<1>. USE DEF outVars, reapVars
<1>0. PICK s : s = Head(queue)
  OBVIOUS
<1>1. /\ queue # <<>> /\ Open(s) /\ cand \in Ids /\ cand \notin busy
      /\ cand \notin assigned[s]
  BY <1>0 DEF PushAssign, JobInv, PushOK
<1>2. s \in Shards /\ s \in live /\ Range(queue) = {s} \cup Range(Tail(queue))
  BY <1>0, <1>1, RangeTail DEF TypeOK, Open
<1>3. /\ UNCHANGED <<n_shards, live, responses, outVars>>
      /\ pc' = "drain" /\ busy' = busy \cup {cand} /\ queue' = Tail(queue)
      /\ assigned' = [assigned EXCEPT ![s] = @ \cup {cand}]
      /\ pending' = [pending EXCEPT ![s] = @ \cup {cand}]
      /\ still' = IF slots_remaining(pending'[s], responses[s]) > 0
                  THEN Append(still, s) ELSE still
  BY <1>0 DEF PushAssign
<1>4. /\ pending'[s] = pending[s] \cup {cand}
      /\ assigned'[s] = assigned[s] \cup {cand}
      /\ \A t \in live \ {s} : pending'[t] = pending[t] /\ assigned'[t] = assigned[t]
  BY <1>2, <1>3 DEF TypeOK
<1>5. EnsembleOK(s) /\ cand \notin pending[s] /\ cand \notin Responders(responses[s])
  BY <1>1, <1>2 DEF JobInv, EnsembleOK
<1>6. /\ Cardinality(pending'[s]) = Cardinality(pending[s]) + 1
      /\ Cardinality(pending[s]) + Cardinality(Responders(responses[s])) < K
  BY <1>1, <1>2, <1>4, <1>5, Counts, FS_AddElement, OpenIff
<1>7. ASSUME NEW t \in live PROVE EnsembleOK(t)'
  <2>1. CASE t = s
    <3>1. Responders(responses'[s]) = Responders(responses[s])
      BY <1>3 DEF Responders
    <3>. QED
      BY <1>2, <1>3, <1>4, <1>5, <1>6, <2>1, <3>1, Counts, KAssumption DEF EnsembleOK
  <2>2. CASE t # s
    <3>1. EnsembleOK(t) /\ pc = "push"
      BY DEF JobInv, PushAssign
    <3>. QED  BY <1>3, <1>4, <2>2, <3>1 DEF EnsembleOK
  <2>. QED  BY <2>1, <2>2
<1>8. ShardsOK' /\ ResultBacked'
  <2>1. ShardsOK'
    BY <1>3 DEF JobInv, ShardsOK, Collected
  <2>2. \A t \in Shards : assigned[t] \subseteq assigned'[t]
    BY <1>3 DEF TypeOK
  <2>. QED  BY <1>3, <2>1, <2>2 DEF JobInv, ResultBacked, Collected
<1>9. BusyExact'
  <2>0. /\ \A x : x \in busy <=> \E t \in live : x \in pending[t]
        /\ \A t, u \in live : t # u => pending[t] \cap pending[u] = {}
    BY DEF JobInv, BusyExact
  <2>1. \A x : x \in busy' <=> \E t \in live : x \in pending'[t]
    BY <1>2, <1>3, <1>4, <2>0
  <2>2. \A t, u \in live : t # u => pending'[t] \cap pending'[u] = {}
    BY <1>1, <1>4, <2>0
  <2>3. busy' = UNION {pending'[t] : t \in live}
    BY <2>1
  <2>. QED  BY <1>3, <2>2, <2>3 DEF BusyExact
<1>10. NoLostShard'
  <2>. SUFFICES ASSUME NEW t \in live, Open(t)'
                PROVE  t \in Range(queue') \cup Range(still')
    BY <1>3 DEF NoLostShard
  <2>1. Append(still, s) \in Seq(Shards) /\ Range(Append(still, s)) = Range(still) \cup {s}
    BY <1>2, RangeAppend DEF TypeOK
  <2>2. Range(still) \subseteq Range(still')
    BY <1>3, <2>1
  <2>3. CASE t = s
    <3>1. slots_remaining(pending'[s], responses[s]) > 0
      BY <1>3, <2>3 DEF Open
    <3>. QED  BY <1>3, <2>1, <2>3, <3>1
  <2>4. CASE t # s
    <3>1. Open(t)
      BY <1>3, <1>4, <2>4 DEF Open
    <3>. QED  BY <1>2, <1>3, <2>2, <2>4, <3>1 DEF JobInv, NoLostShard
  <2>. QED  BY <2>3, <2>4
<1>11. StartOK' /\ PushOK' /\ StillOK' /\ ExpiredOK' /\ NeverStuck' /\ CollectedMeansAll'
  BY <1>3 DEF StartOK, PushOK, StillOK, ExpiredOK, NeverStuck, CollectedMeansAll
<1>. QED  BY <1>3, <1>7, <1>8, <1>9, <1>10, <1>11 DEF JobInv

LEMMA BucketFinite ==
  ASSUME NEW r, NEW c
  PROVE  IsFiniteSet(Bucket(r, c)) /\ Cardinality(Bucket(r, c)) \in Nat
<1>1. Bucket(r, c) \subseteq Ids
  BY DEF Bucket
<1>2. IsFiniteSet(Bucket(r, c))
  BY <1>1, IdsFinite, FS_Subset
<1>. QED  BY <1>2, FS_CardinalityType

\* An accepted claim is backed by more than half of K replicas.
LEMMA Majority ==
  ASSUME NEW r \in [Ids -> Claims \cup {None}], NEW c \in Claims,
         Cardinality(Responders(r)) >= K,
         \/ Cardinality(Claimed(r)) = 1 /\ c \in Claimed(r)
         \/ Decisive(r, c)
  PROVE  2 * Cardinality(Bucket(r, c)) > K
<1>1. CASE Decisive(r, c)
  BY <1>1 DEF Decisive
<1>2. CASE Cardinality(Claimed(r)) = 1 /\ c \in Claimed(r)
  <2>1. IsFiniteSet(Claimed(r))
    <3>1. r \in Surjection(Ids, {r[w] : w \in Ids})
      BY DEF Surjection
    <3>2. IsFiniteSet({r[w] : w \in Ids})
      BY <3>1, IdsFinite, FS_Surjection
    <3>3. Claimed(r) \subseteq {r[w] : w \in Ids}
      BY DEF Claimed, Bucket
    <3>. QED  BY <3>2, <3>3, FS_Subset
  <2>2. Claimed(r) = {c}
    BY <1>2, <2>1, FS_Singleton
  <2>3. Bucket(r, c) = Responders(r)
    <3>1. ASSUME NEW w \in Ids, r[w] # None PROVE r[w] = c
      BY <2>2, <3>1 DEF Claimed, Bucket
    <3>. QED  BY <3>1, ClaimAssumption DEF Bucket, Responders
  <2>. QED  BY <2>3, BucketFinite, KAssumption
<1>. QED  BY <1>1, <1>2

LEMMA JobCounted ==
  ASSUME TypeOK, TypeOK', JobInv, OnDoneCounted
  PROVE  JobInv'
<1>. USE DEF outVars, reapVars, drainVars
<1>0. PICK w, s, a : w = Head(events).w /\ s = Head(events).shard /\ a = Head(events).answer
  OBVIOUS
<1>1. /\ s \in live /\ w \in pending[s] /\ a \in Claims /\ count(w, s, a)
      /\ pc = "select" /\ UNCHANGED <<n_shards, queue, still, assigned>>
  BY <1>0 DEF OnDoneCounted, InPending, Recv
<1>2. s \in Shards /\ w \in Ids /\ a # None
  BY <1>1, ClaimAssumption DEF TypeOK
<1>3. /\ pending'[s] = pending[s] \ {w} /\ busy' = busy \ {w}
      /\ responses'[s] = [responses[s] EXCEPT ![w] = a]
      /\ \A t \in Shards \ {s} : pending'[t] = pending[t] /\ responses'[t] = responses[t]
  BY <1>1, <1>2 DEF count, TypeOK
<1>4. Responders(responses'[s]) = Responders(responses[s]) \cup {w}
  BY <1>2, <1>3 DEF Responders, TypeOK
<1>5. EnsembleOK(s) /\ w \notin Responders(responses[s]) /\ w \in assigned[s]
  BY <1>1 DEF JobInv, EnsembleOK
<1>6. /\ Cardinality(pending'[s]) = Cardinality(pending[s]) - 1
      /\ Cardinality(Responders(responses'[s])) = Cardinality(Responders(responses[s])) + 1
      /\ Cardinality(pending[s]) \in Nat /\ Cardinality(Responders(responses[s])) \in Nat
  <2>1. /\ IsFiniteSet(pending[s]) /\ IsFiniteSet(Responders(responses[s]))
        /\ Cardinality(pending[s]) \in Nat /\ Cardinality(Responders(responses[s])) \in Nat
    BY <1>2, Counts
  <2>2. Cardinality(pending[s] \ {w}) = Cardinality(pending[s]) - 1
    BY <1>1, <2>1, FS_RemoveElement
  <2>3. Cardinality(Responders(responses[s]) \cup {w}) = Cardinality(Responders(responses[s])) + 1
    BY <1>5, <2>1, FS_AddElement
  <2>. QED  BY <1>3, <1>4, <2>1, <2>2, <2>3
<1>7. ASSUME NEW t \in live \ {s}
      PROVE  EnsembleOK(t)' /\ (Open(t)' => Open(t))
  <2>1. EnsembleOK(t) /\ t \in Shards
    BY DEF JobInv, TypeOK
  <2>2. EnsembleOK(t)'
    BY <1>1, <1>3, <2>1 DEF EnsembleOK
  <2>3. Open(t)' => Open(t)
    BY <1>3, <2>1 DEF Open
  <2>. QED  BY <2>2, <2>3
<1>8. Open(s)' => Open(s)
  BY <1>1, <1>6, KAssumption DEF Open, slots_remaining
<1>9. s \notin Collected /\ s \in 1..n_shards
  BY <1>1 DEF JobInv, ShardsOK
<1>10. ASSUME NEW q \in {live, live \ {s}}, live' = q
       PROVE  NoLostShard'
  <2>. SUFFICES ASSUME NEW t \in q, Open(t)'
                PROVE  t \in Range(queue') \cup Range(still')
    BY <1>10 DEF NoLostShard
  <2>1. t \in live /\ Open(t)
    BY <1>7, <1>8
  <2>. QED  BY <1>1, <2>1 DEF JobInv, NoLostShard
<1>11. /\ \A x : x \in busy <=> \E t \in live : x \in pending[t]
       /\ \A t, u \in live : t # u => pending[t] \cap pending[u] = {}
  BY DEF JobInv, BusyExact
<1>12. /\ \A t \in live : pending'[t] = pending[t] \ {w}
       /\ \A x : x \in busy' <=> \E t \in live : x \in pending'[t]
       /\ \A t, u \in live : t # u => pending'[t] \cap pending'[u] = {}
  <2>1. \A t \in live : pending'[t] = pending[t] \ {w}
    <3>1. ASSUME NEW t \in live, t # s PROVE pending'[t] = pending[t] /\ w \notin pending[t]
      BY <1>1, <1>3, <1>11, <3>1 DEF TypeOK
    <3>. QED  BY <1>3, <3>1
  <2>. QED  BY <1>3, <1>11, <2>1
<1>13. StartOK' /\ PushOK' /\ StillOK' /\ ExpiredOK' /\ NeverStuck' /\ CollectedMeansAll'
  <2>1. pc' \in {"drain", "aborted"} /\ still' = <<>>
    <3>1. still = <<>>
      BY <1>1 DEF JobInv, StillOK
    <3>2. pc' \in {"drain", "aborted"}
      BY Zenon DEF OnDoneCounted, accept, abort
    <3>. QED  BY <1>1, <3>1, <3>2
  <2>. QED
    BY <2>1 DEF StartOK, PushOK, StillOK, ExpiredOK, NeverStuck, CollectedMeansAll
\* The ensemble stays.
<1>14. ASSUME UNCHANGED <<live, results, attest>>,
              Cardinality(Responders(responses'[s])) < K \/ pc' = "aborted"
       PROVE  JobInv'
  <2>1. EnsembleOK(s)'
    <3>1. /\ pending'[s] \cup Responders(responses'[s]) \subseteq assigned'[s]
          /\ pending'[s] \cap Responders(responses'[s]) = {}
      BY <1>1, <1>3, <1>4, <1>5 DEF EnsembleOK
    <3>2. Cardinality(pending'[s]) + Cardinality(Responders(responses'[s])) <= K
      BY <1>5, <1>6, KAssumption DEF EnsembleOK
    <3>. QED  BY <1>14, <3>1, <3>2 DEF EnsembleOK
  <2>2. \A t \in live' : EnsembleOK(t)'
    BY <1>7, <1>14, <2>1
  <2>3. BusyExact'
    <3>1. busy' = UNION {pending'[t] : t \in live}
      BY <1>12
    <3>. QED  BY <1>12, <1>14, <3>1 DEF BusyExact
  <2>4. ShardsOK'
    BY <1>1, <1>14 DEF JobInv, ShardsOK, Collected
  <2>5. ResultBacked'
    <3>1. \A t \in Collected : responses'[t] = responses[t]
      BY <1>3, <1>9 DEF Collected
    <3>. QED  BY <1>1, <1>14, <3>1 DEF JobInv, ResultBacked, Collected
  <2>. QED  BY <1>10, <1>13, <1>14, <2>2, <2>3, <2>4, <2>5 DEF JobInv
\* The ensemble is decided and removed.
<1>15. ASSUME NEW c \in Claims, accept(s, c),
              2 * Cardinality(Bucket(responses'[s], c)) > K,
              Cardinality(Responders(responses'[s])) >= K
       PROVE  JobInv'
  <2>0. /\ live' = live \ {s}
        /\ results'[s] = c /\ attest'[s] = Bucket(responses'[s], c)
        /\ \A t \in Shards \ {s} : results'[t] = results[t] /\ attest'[t] = attest[t]
    BY <1>2, <1>15 DEF accept, TypeOK
  <2>1. pending'[s] = {}
    <3>1. IsFiniteSet(pending'[s]) /\ Cardinality(pending'[s]) = 0
      <4>1. IsFiniteSet(pending'[s]) /\ Cardinality(pending'[s]) \in Nat
        BY <1>2, <1>3, Counts, FS_Subset, FS_CardinalityType
      <4>. QED  BY <1>5, <1>6, <1>15, <4>1, KAssumption DEF EnsembleOK
    <3>. QED  BY <3>1, FS_EmptySet
  <2>2. \A t \in live' : EnsembleOK(t)'
    BY <1>7, <2>0
  <2>3. BusyExact'
    <3>1. \A x : x \in busy' <=> \E t \in live' : x \in pending'[t]
      BY <1>12, <2>0, <2>1
    <3>2. busy' = UNION {pending'[t] : t \in live'}
      BY <3>1
    <3>. QED  BY <1>12, <2>0, <3>2 DEF BusyExact
  <2>4. ShardsOK'
    <3>1. Collected' = Collected \cup {s}
      BY <1>2, <2>0, ClaimAssumption DEF Collected
    <3>. QED  BY <1>1, <1>9, <2>0, <3>1 DEF JobInv, ShardsOK
  <2>5. ResultBacked'
    <3>. SUFFICES ASSUME NEW t \in Collected'
                  PROVE  /\ 2 * Cardinality(attest'[t]) > K
                         /\ attest'[t] \subseteq assigned'[t]
                         /\ \A v \in attest'[t] : responses'[t][v] = results'[t]
      BY DEF ResultBacked
    <3>1. CASE t = s
      <4>1. Bucket(responses'[s], c) \subseteq Responders(responses'[s])
        BY ClaimAssumption DEF Bucket, Responders
      <4>2. Bucket(responses'[s], c) \subseteq assigned[s]
        BY <1>4, <1>5, <4>1 DEF EnsembleOK
      <4>. QED  BY <1>1, <1>15, <2>0, <3>1, <4>2 DEF Bucket
    <3>2. CASE t # s
      <4>1. t \in Collected /\ t \in Shards
        BY <2>0, <3>2 DEF Collected
      <4>2. /\ responses'[t] = responses[t] /\ results'[t] = results[t]
            /\ attest'[t] = attest[t] /\ assigned'[t] = assigned[t]
        BY <1>1, <1>3, <2>0, <3>2, <4>1
      <4>. QED  BY <4>1, <4>2 DEF JobInv, ResultBacked
    <3>. QED  BY <3>1, <3>2
  <2>. QED  BY <1>10, <1>13, <2>0, <2>2, <2>3, <2>4, <2>5 DEF JobInv
<1>16. responses'[s] \in [Ids -> Claims \cup {None}]
  BY <1>2 DEF TypeOK
<1>17. \/ /\ evaluate_ensemble(responses'[s]) = "Pending"
          /\ UNCHANGED <<live, results, attest>>
       \/ /\ evaluate_ensemble(responses'[s]) = "Accepted"
          /\ \E c \in Claimed(responses'[s]) : accept(s, c)
       \/ /\ evaluate_ensemble(responses'[s]) = "MajorityWin"
          /\ \E c \in Claims : Decisive(responses'[s], c) /\ accept(s, c)
       \/ abort(s)
  BY <1>0 DEF OnDoneCounted
<1>18. Cardinality(Responders(responses'[s])) \in Nat
  BY <1>6
<1>19. CASE evaluate_ensemble(responses'[s]) = "Pending" /\ UNCHANGED <<live, results, attest>>
  BY <1>14, <1>18, <1>19, KAssumption DEF evaluate_ensemble
<1>20. CASE /\ evaluate_ensemble(responses'[s]) = "Accepted"
            /\ \E c \in Claimed(responses'[s]) : accept(s, c)
  <2>1. PICK c \in Claimed(responses'[s]) : accept(s, c)
    BY <1>20
  <2>2. /\ Cardinality(Responders(responses'[s])) >= K /\ c \in Claims
        /\ Cardinality(Claimed(responses'[s])) = 1
    BY <1>18, <1>20, KAssumption DEF evaluate_ensemble, Claimed
  <2>3. 2 * Cardinality(Bucket(responses'[s], c)) > K
    BY <1>16, <2>2, Majority
  <2>. QED  BY <1>15, <2>1, <2>2, <2>3
<1>21. CASE /\ evaluate_ensemble(responses'[s]) = "MajorityWin"
            /\ \E c \in Claims : Decisive(responses'[s], c) /\ accept(s, c)
  <2>1. PICK c \in Claims : Decisive(responses'[s], c) /\ accept(s, c)
    BY <1>21
  <2>2. Cardinality(Responders(responses'[s])) >= K
    BY <1>18, <1>21, KAssumption DEF evaluate_ensemble
  <2>. QED  BY <1>15, <2>1, <2>2 DEF Decisive
<1>22. CASE abort(s)
  BY <1>14, <1>22 DEF abort
<1>. QED  BY <1>17, <1>19, <1>20, <1>21, <1>22

----------------------------------------------------------------------------
(***************************************************************************)
(* The messages under way.                                                 *)
(***************************************************************************)

LEMMA TailAt ==
  ASSUME NEW S, NEW q \in Seq(S), q # <<>>
  PROVE  /\ 1 \in DOMAIN q /\ Head(q) = q[1]
         /\ \A i \in DOMAIN Tail(q) : i \in Nat /\ i + 1 \in DOMAIN q /\ Tail(q)[i] = q[i + 1]
  OBVIOUS

LEMMA AppendAt ==
  ASSUME NEW S, NEW q \in Seq(S), NEW x \in S
  PROVE  \A i \in DOMAIN Append(q, x) :
            \/ i \in DOMAIN q /\ Append(q, x)[i] = q[i]
            \/ i = Len(q) + 1 /\ Append(q, x)[i] = x
  OBVIOUS

LEMMA ShortTail ==
  ASSUME NEW S, NEW q \in Seq(S)
  PROVE  /\ Len(q) = 1 => Tail(q) = <<>>
         /\ Len(q) = 2 => Len(Tail(q)) = 1
<1>1. q # <<>> => Len(Tail(q)) = Len(q) - 1 /\ Tail(q) \in Seq(S)
  OBVIOUS
<1>2. \A p \in Seq(S) : Len(p) = 0 => p = <<>>
  OBVIOUS
<1>3. Len(q) \in Nat /\ (q = <<>> => Len(q) = 0)
  OBVIOUS
<1>4. ASSUME Len(q) = 1 PROVE Tail(q) = <<>>
  <2>1. q # <<>>
    BY <1>3, <1>4
  <2>2. Tail(q) \in Seq(S) /\ Len(Tail(q)) = 0
    BY <1>1, <1>4, <2>1
  <2>. QED  BY <1>2, <2>2, Zenon
<1>5. ASSUME Len(q) = 2 PROVE Len(Tail(q)) = 1
  <2>1. q # <<>>
    BY <1>3, <1>5
  <2>. QED  BY <1>1, <1>5, <2>1
<1>. QED  BY <1>4, <1>5

LEMMA ReplyShard ==
  ASSUME NEW e \in EventOK, IsReply(e)
  PROVE  e.shard \in Shards
  BY DEF EventOK, IsReply

\* Steps that add no assignment and no answer: messages are only taken.
LEMMA MailTaken ==
  ASSUME TypeOK, TypeOK', MailOK,
         \A w \in Ids : \/ inbox'[w] \in {inbox[w], <<>>}
                        \/ inbox[w] # <<>> /\ inbox'[w] = Tail(inbox[w]),
         \/ events' = events
         \/ events # <<>> /\ events' = Tail(events)
         \/ \E x \in EventOK : ~IsReply(x) /\ events' = Append(events, x)
  PROVE  /\ MailOK'
         /\ \A w \in Ids : Owed(w)' \subseteq Owed(w)
<1>1. ASSUME NEW w \in Ids
      PROVE  /\ Shape(inbox'[w])
             /\ inbox[w] = <<>> => inbox'[w] = <<>>
             /\ \A i \in DOMAIN inbox'[w] : \E j \in DOMAIN inbox[w] : inbox'[w][i] = inbox[w][j]
  <2>1. inbox[w] \in Seq(MsgOK) /\ Shape(inbox[w])
    BY DEF TypeOK, MailOK
  <2>2. CASE inbox'[w] = inbox[w]
    BY <2>1, <2>2
  <2>3. CASE inbox'[w] = <<>>
    BY <2>3 DEF Shape
  <2>4. CASE inbox[w] # <<>> /\ inbox'[w] = Tail(inbox[w])
    <3>1. \A i \in DOMAIN Tail(inbox[w]) :
             i + 1 \in DOMAIN inbox[w] /\ Tail(inbox[w])[i] = inbox[w][i + 1]
      BY <2>1, <2>4, TailAt
    <3>2. Shape(Tail(inbox[w]))
      BY <2>1, <2>4, ShortTail DEF Shape
    <3>. QED  BY <2>4, <3>1, <3>2
  <2>. QED  BY <2>2, <2>3, <2>4
<1>2. PICK d \in {0, 1} : \A i \in DOMAIN events' :
         IsReply(events'[i]) => /\ i \in Nat /\ i + d \in DOMAIN events
                                /\ events'[i] = events[i + d]
  <2>0. events \in Seq(EventOK)
    BY DEF TypeOK
  <2>1. CASE events' = events
    <3>1. \A i \in DOMAIN events' : i \in Nat /\ i + 0 = i
      BY <2>0, <2>1
    <3>. QED  BY <2>1, <3>1
  <2>2. CASE events # <<>> /\ events' = Tail(events)
    BY <2>0, <2>2, TailAt
  <2>3. ASSUME NEW x \in EventOK, ~IsReply(x), events' = Append(events, x)
        PROVE  \A i \in DOMAIN events' :
                  IsReply(events'[i]) => /\ i \in Nat /\ i + 0 \in DOMAIN events
                                         /\ events'[i] = events[i + 0]
    <3>1. \A i \in DOMAIN events : i \in Nat /\ i + 0 = i
      BY <2>0
    <3>. QED  BY <2>0, <2>3, <3>1, AppendAt
  <2>. QED  BY <2>1, <2>2, <2>3
<1>3. \A i \in DOMAIN events : events[i].w \in Ids
  BY DEF TypeOK, EventOK
<1>4. MailOK'
  <2>1. \A i \in DOMAIN events' : IsReply(events'[i]) => inbox'[events'[i].w] = <<>>
    BY <1>1, <1>2, <1>3 DEF MailOK
  <2>2. ASSUME NEW i \in DOMAIN events', NEW j \in DOMAIN events',
               IsReply(events'[i]), IsReply(events'[j]), events'[i].w = events'[j].w
        PROVE  i = j
    <3>1. i + d = j + d /\ i \in Nat /\ j \in Nat
      BY <1>2, <2>2 DEF MailOK
    <3>. QED  BY <3>1
  <2>. QED  BY <1>1, <2>1, <2>2 DEF MailOK
<1>5. ASSUME NEW w \in Ids, NEW s \in Owed(w)' PROVE s \in Owed(w)
  <2>0. s \in Shards
    BY <1>5 DEF Owed
  <2>1. CASE \E i \in DOMAIN inbox'[w] : inbox'[w][i].type = "assign" /\ inbox'[w][i].shard = s
    BY <1>1, <2>0, <2>1 DEF Owed
  <2>2. CASE \E i \in DOMAIN events' : /\ IsReply(events'[i]) /\ events'[i].w = w
                                       /\ events'[i].shard = s
    BY <1>2, <2>0, <2>2 DEF Owed
  <2>. QED  BY <1>5, <2>1, <2>2 DEF Owed
<1>. QED  BY <1>4, <1>5

\* The job receives an answer: its worker owes nothing any more, and may be
\* sent a receipt.
LEMMA MailCounted ==
  ASSUME TypeOK, TypeOK', MailOK, events # <<>>, events' = Tail(events),
         NEW w \in Ids, IsReply(Head(events)), w = Head(events).w,
         \A v \in Ids : \/ inbox'[v] = inbox[v]
                        \/ /\ v = w
                           /\ \E x \in MsgOK : /\ x.type = "receipt"
                                               /\ inbox'[v] = Append(inbox[v], x)
  PROVE  /\ MailOK'
         /\ \A v \in Ids : Owed(v)' \subseteq Owed(v)
         /\ Owed(w)' = {}
<1>0. events \in Seq(EventOK) /\ \A i \in DOMAIN events : events[i].w \in Ids
  BY DEF TypeOK, EventOK
<1>2. /\ 1 \in DOMAIN events /\ events[1] = Head(events)
      /\ \A i \in DOMAIN events' : /\ i \in Nat /\ i + 1 \in DOMAIN events
                                   /\ events'[i] = events[i + 1]
  BY <1>0, TailAt
<1>3. inbox[w] = <<>>
  BY <1>2 DEF MailOK
<1>4. \A i \in DOMAIN events' : IsReply(events'[i]) => events'[i].w # w
  <2>. SUFFICES ASSUME NEW i \in DOMAIN events', IsReply(events'[i]), events'[i].w = w
                PROVE  FALSE
    OBVIOUS
  <2>1. i + 1 = 1 /\ i \in Nat
    BY <1>2 DEF MailOK
  <2>2. i >= 1
    BY DEF TypeOK
  <2>. QED  BY <2>1, <2>2
<1>5. \A v \in Ids \ {w} : inbox'[v] = inbox[v]
  OBVIOUS
<1>6. Shape(inbox'[w]) /\ \A i \in DOMAIN inbox'[w] : inbox'[w][i].type # "assign"
  <2>1. CASE inbox'[w] = inbox[w]
    BY <1>3, <2>1 DEF Shape
  <2>2. ASSUME NEW x \in MsgOK, x.type = "receipt", inbox'[w] = Append(inbox[w], x)
        PROVE  Shape(inbox'[w]) /\ \A i \in DOMAIN inbox'[w] : inbox'[w][i].type # "assign"
    <3>1. inbox'[w] = <<x>>
      BY <1>3, <2>2
    <3>. QED  BY <2>2, <3>1 DEF Shape
  <2>. QED  BY <2>1, <2>2
<1>7. MailOK'
  <2>1. \A v \in Ids : Shape(inbox'[v])
    BY <1>5, <1>6 DEF MailOK
  <2>2. \A i \in DOMAIN events' : IsReply(events'[i]) => inbox'[events'[i].w] = <<>>
    BY <1>0, <1>2, <1>4, <1>5 DEF MailOK
  <2>3. ASSUME NEW i \in DOMAIN events', NEW j \in DOMAIN events',
               IsReply(events'[i]), IsReply(events'[j]), events'[i].w = events'[j].w
        PROVE  i = j
    <3>1. i + 1 = j + 1 /\ i \in Nat /\ j \in Nat
      BY <1>2, <2>3 DEF MailOK
    <3>. QED  BY <3>1
  <2>. QED  BY <2>1, <2>2, <2>3 DEF MailOK
<1>8. Owed(w)' = {}
  BY <1>4, <1>6 DEF Owed
<1>9. ASSUME NEW v \in Ids, v # w PROVE Owed(v)' \subseteq Owed(v)
  BY <1>2, <1>5, <1>9 DEF Owed
<1>. QED  BY <1>7, <1>8, <1>9

\* A worker answers the assignment at the head of its inbox.
LEMMA MailReply ==
  ASSUME TypeOK, TypeOK', MailOK, NEW w \in Ids, inbox[w] # <<>>,
         Head(inbox[w]).type = "assign",
         inbox' = [inbox EXCEPT ![w] = Tail(@)],
         NEW x \in EventOK, IsReply(x), x.w = w, x.shard = Head(inbox[w]).shard,
         events' = Append(events, x)
  PROVE  /\ MailOK'
         /\ \A v \in Ids : Owed(v)' \subseteq Owed(v)
<1>0. /\ events \in Seq(EventOK) /\ \A i \in DOMAIN events : events[i].w \in Ids
      /\ inbox[w] \in Seq(MsgOK)
  BY DEF TypeOK, EventOK
<1>1. /\ \A v \in Ids \ {w} : inbox'[v] = inbox[v]
      /\ inbox'[w] = Tail(inbox[w])
  BY DEF TypeOK
<1>2. inbox'[w] = <<>> /\ 1 \in DOMAIN inbox[w] /\ inbox[w][1] = Head(inbox[w])
  <2>1. Shape(inbox[w]) /\ inbox[w][1].type = "assign"
    BY <1>0 DEF MailOK
  <2>2. Len(inbox[w]) = 1
    BY <2>1 DEF Shape
  <2>3. inbox'[w] = <<>>
    BY <1>0, <1>1, <2>2, ShortTail
  <2>. QED  BY <1>0, <2>3, TailAt
<1>3. \A i \in DOMAIN events' : \/ i \in DOMAIN events /\ events'[i] = events[i]
                                \/ i = Len(events) + 1 /\ events'[i] = x
  BY <1>0, AppendAt
<1>4. \A i \in DOMAIN events : IsReply(events[i]) => events[i].w # w
  BY DEF MailOK
<1>5. MailOK'
  <2>1. \A v \in Ids : Shape(inbox'[v])
    BY <1>1, <1>2 DEF MailOK, Shape
  <2>2. \A i \in DOMAIN events' : IsReply(events'[i]) => inbox'[events'[i].w] = <<>>
    BY <1>0, <1>1, <1>2, <1>3, <1>4 DEF MailOK
  <2>3. \A i, j \in DOMAIN events' :
           IsReply(events'[i]) /\ IsReply(events'[j]) /\ events'[i].w = events'[j].w => i = j
    BY <1>3, <1>4 DEF MailOK
  <2>. QED  BY <2>1, <2>2, <2>3 DEF MailOK
<1>6. ASSUME NEW v \in Ids, NEW s \in Owed(v)' PROVE s \in Owed(v)
  <2>0. s \in Shards
    BY <1>6 DEF Owed
  <2>1. CASE \E i \in DOMAIN inbox'[v] : inbox'[v][i].type = "assign" /\ inbox'[v][i].shard = s
    <3>1. v # w
      BY <1>2, <2>1
    <3>. QED  BY <1>1, <2>0, <2>1, <3>1 DEF Owed
  <2>2. ASSUME NEW i \in DOMAIN events', IsReply(events'[i]), events'[i].w = v,
               events'[i].shard = s
        PROVE  s \in Owed(v)
    <3>1. CASE i \in DOMAIN events /\ events'[i] = events[i]
      BY <2>0, <2>2, <3>1 DEF Owed
    <3>2. CASE events'[i] = x
      BY <1>2, <2>0, <2>2, <3>2 DEF Owed
    <3>. QED  BY <1>3, <3>1, <3>2
  <2>. QED  BY <1>6, <2>1, <2>2 DEF Owed
<1>. QED  BY <1>5, <1>6

\* The job assigns s to a worker that owes nothing.
LEMMA MailAssign ==
  ASSUME TypeOK, TypeOK', MailOK, NEW w \in Ids, NEW s \in Shards, Owed(w) = {},
         events' = events,
         inbox' = [inbox EXCEPT ![w] = Append(@, Msg("assign", s))]
  PROVE  /\ MailOK' /\ Owed(w)' = {s}
         /\ \A v \in Ids \ {w} : Owed(v)' = Owed(v)
<1>0. /\ events \in Seq(EventOK) /\ inbox[w] \in Seq(MsgOK)
      /\ \A i \in DOMAIN events : IsReply(events[i]) => events[i].shard \in Shards
  <2>1. events \in Seq(EventOK) /\ inbox[w] \in Seq(MsgOK)
    BY DEF TypeOK
  <2>2. \A i \in DOMAIN events : events[i] \in EventOK
    BY <2>1
  <2>. QED  BY <2>1, <2>2, ReplyShard
<1>1. /\ \A v \in Ids \ {w} : inbox'[v] = inbox[v]
      /\ inbox'[w] = Append(inbox[w], Msg("assign", s))
  BY DEF TypeOK
<1>2. \A i \in DOMAIN inbox[w] : inbox[w][i].type = "receipt" /\ inbox[w][i].shard \in Shards
  <2>1. \A i \in DOMAIN inbox[w] : inbox[w][i] \in MsgOK
    BY <1>0
  <2>. QED  BY <2>1 DEF Owed, MsgOK
<1>3. \A i \in DOMAIN events : IsReply(events[i]) => events[i].w # w
  BY <1>0 DEF Owed
<1>4. \/ inbox[w] = <<>>
      \/ Len(inbox[w]) = 1 /\ inbox[w][1].type = "receipt"
  <2>1. Shape(inbox[w])
    BY DEF MailOK
  <2>2. CASE Len(inbox[w]) = 2 /\ inbox[w][2].type = "assign"
    BY <1>0, <1>2, <2>2
  <2>3. CASE Len(inbox[w]) = 1
    BY <1>0, <1>2, <2>3
  <2>. QED  BY <2>1, <2>2, <2>3 DEF Shape
<1>5. Msg("assign", s) \in MsgOK /\ Msg("assign", s).type = "assign" /\ Msg("assign", s).shard = s
  BY DEF Msg, MsgOK
<1>6. Shape(inbox'[w])
  BY <1>0, <1>1, <1>4, <1>5 DEF Shape
<1>7. MailOK'
  <2>1. \A v \in Ids : Shape(inbox'[v])
    BY <1>1, <1>6 DEF MailOK
  <2>2. \A i \in DOMAIN events : events[i].w \in Ids
    BY DEF TypeOK, EventOK
  <2>3. \A i \in DOMAIN events' : IsReply(events'[i]) => inbox'[events'[i].w] = <<>>
    BY <1>1, <1>3, <2>2 DEF MailOK
  <2>. QED  BY <2>1, <2>3 DEF MailOK
<1>8. Owed(w)' = {s}
  <2>1. \A i \in DOMAIN inbox'[w] : \/ i \in DOMAIN inbox[w] /\ inbox'[w][i] = inbox[w][i]
                                    \/ inbox'[w][i] = Msg("assign", s)
    BY <1>0, <1>1, <1>5, AppendAt
  <2>2. Len(inbox[w]) + 1 \in DOMAIN inbox'[w] /\ inbox'[w][Len(inbox[w]) + 1] = Msg("assign", s)
    BY <1>0, <1>1, <1>5
  <2>. QED  BY <1>2, <1>3, <1>5, <2>1, <2>2 DEF Owed
<1>9. \A v \in Ids \ {w} : Owed(v)' = Owed(v)
  BY <1>1 DEF Owed
<1>. QED  BY <1>7, <1>8, <1>9

\* Every event was there before the step, or is x.
NewEvent(x) ==
  \A i \in DOMAIN events' : events'[i] = x \/ \E j \in DOMAIN events : events'[i] = events[j]

LEMMA EventsTaken ==
  ASSUME TypeOK, events' = events \/ (events # <<>> /\ events' = Tail(events)), NEW x
  PROVE  NewEvent(x)
<1>0. events \in Seq(EventOK)
  BY DEF TypeOK
<1>1. CASE events' = events
  BY <1>1 DEF NewEvent
<1>2. CASE events # <<>> /\ events' = Tail(events)
  <2>1. \A i \in DOMAIN Tail(events) : i + 1 \in DOMAIN events /\ Tail(events)[i] = events[i + 1]
    BY <1>0, <1>2, TailAt
  <2>. QED  BY <1>2, <2>1 DEF NewEvent
<1>. QED  BY <1>1, <1>2

LEMMA EventsAdded ==
  ASSUME TypeOK, NEW x \in EventOK, events' = Append(events, x)
  PROVE  NewEvent(x)
<1>0. events \in Seq(EventOK)
  BY DEF TypeOK
<1>. QED  BY <1>0, AppendAt DEF NewEvent

\* Shards are only taken from workers, and a worker of the roster that owes an
\* answer keeps its shard.
LEMMA DutyFrame ==
  ASSUME TypeOK, BusyExact, BusyExact', DutyOK,
         nextId' = nextId, roster' \subseteq roster,
         \A w \in Ids : Owed(w)' \subseteq Owed(w),
         \A w \in Ids : sess[w] = "none" => sess'[w] = "none",
         \A t \in live' : \A w \in pending'[t] : t \in live /\ w \in pending[t],
         \A w \in roster' : Owed(w)' = {} \/ w \notin busy \/ w \in busy'
  PROVE  DutyOK'
<1>1. ASSUME NEW w \in Ids, NEW s \in Owed(w)'
      PROVE  /\ \A t \in live' : w \in pending'[t] => t = s
             /\ w \in roster' => s \in live' /\ w \in pending'[s]
  <2>1. s \in Owed(w)
    BY <1>1
  <2>2. \A t \in live' : w \in pending'[t] => t = s
    BY <2>1 DEF DutyOK
  <2>3. ASSUME w \in roster' PROVE s \in live' /\ w \in pending'[s]
    <3>1. s \in live /\ w \in pending[s]
      BY <2>1, <2>3 DEF DutyOK, InPending
    <3>2. w \in busy
      BY <3>1 DEF BusyExact
    <3>3. w \in busy'
      BY <1>1, <2>3, <3>2
    <3>4. PICK t \in live' : w \in pending'[t]
      BY <3>3 DEF BusyExact
    <3>. QED  BY <2>2, <3>4
  <2>. QED  BY <2>2, <2>3
<1>2. ASSUME NEW w \in Ids, w > nextId
      PROVE  w \notin roster' /\ sess'[w] = "none" /\ Owed(w)' = {}
  BY <1>2 DEF DutyOK
<1>. QED  BY <1>1, <1>2 DEF DutyOK, InPending

LEMMA GoneFrame ==
  ASSUME TypeOK, TypeOK', GoneOK, nextId' = nextId, roster' \subseteq roster,
         \A w \in Ids : sess'[w] = "closing" =>
            sess[w] = "closing" \/ (w \notin roster' /\ w <= nextId),
         NEW x, NewEvent(x), x.type = "Disconnected" => sess[x.w] = "closing"
  PROVE  GoneOK'
<1>. SUFFICES ASSUME NEW w \in Ids,
                     \/ sess'[w] = "closing"
                     \/ \E i \in DOMAIN events' : /\ events'[i].type = "Disconnected"
                                                  /\ events'[i].w = w
              PROVE  w \notin roster' /\ w <= nextId'
  BY DEF GoneOK
<1>1. CASE sess'[w] = "closing"
  BY <1>1 DEF GoneOK
<1>2. ASSUME NEW i \in DOMAIN events', events'[i].type = "Disconnected", events'[i].w = w
      PROVE  w \notin roster /\ w <= nextId
  BY <1>2 DEF GoneOK, NewEvent
<1>. QED  BY <1>1, <1>2

LEMMA TrafficSession ==
  ASSUME TypeOK, TypeOK', JobInv, JobInv', TrafficOK, NEW w \in Ids,
         Session(w) \/ Worker(w) \/ Trouble(w)
  PROVE  TrafficOK'
<1>. USE DEF jobVars, ensVars
<1>0. MailOK /\ DutyOK /\ GoneOK /\ BusyExact /\ BusyExact'
  BY DEF TrafficOK, JobInv
<1>1. /\ UNCHANGED <<nextId, live, pending, busy>> /\ roster' \subseteq roster
      /\ \A v \in Ids : sess[v] = "none" => sess'[v] = "none"
  <2>1. UNCHANGED <<nextId, live, pending, busy>> /\ roster' \subseteq roster
    BY DEF Session, Worker, Trouble, SendAck, SessionBreak, SendDisconnected, WorkerReceipt,
           WorkerProve, SessionError, WorkerStop, WorkerFail
  <2>2. DOMAIN sess = Ids
    BY DEF TypeOK
  <2>3. ASSUME NEW v \in Ids, sess[v] = "none" PROVE sess'[v] = "none"
    <3>1. CASE Session(w)
      BY <2>2, <2>3, <3>1 DEF Session, SendAck, SessionBreak, SendDisconnected
    <3>2. CASE Worker(w)
      BY <2>3, <3>2 DEF Worker, WorkerReceipt, WorkerProve
    <3>3. CASE Trouble(w)
      BY <2>2, <2>3, <3>3 DEF Trouble, SessionError, WorkerStop, WorkerFail
    <3>. QED BY <3>1, <3>2, <3>3
  <2>. QED BY <2>1, <2>3
<1>2. ASSUME \A v \in Ids : Owed(v)' \subseteq Owed(v)
      PROVE  DutyOK'
  BY <1>0, <1>1, <1>2, DutyFrame
<1>3. CASE SendAck(w) \/ SendDisconnected(w)
  <2>1. PICK x \in EventOK : /\ events' = Append(events, x) /\ ~IsReply(x)
                             /\ x.type = "Disconnected" => sess[x.w] = "closing"
    <3>1. Event("Registered", w, 0, None) \in EventOK /\ Event("Disconnected", w, 0, None) \in EventOK
      BY DEF Event, EventOK
    <3>. QED  BY <1>3, <3>1 DEF SendAck, SendDisconnected, Event, IsReply
  <2>2. MailOK' /\ \A v \in Ids : Owed(v)' \subseteq Owed(v)
    <3>1. inbox' = inbox
      BY <1>3 DEF SendAck, SendDisconnected
    <3>. QED  BY <1>0, <2>1, <3>1, MailTaken
  <2>3. GoneOK'
    <3>1. \A v \in Ids : sess'[v] = "closing" => sess[v] = "closing"
      BY <1>3 DEF SendAck, SendDisconnected, TypeOK
    <3>. QED  BY <1>0, <1>1, <2>1, <3>1, EventsAdded, GoneFrame
  <2>. QED  BY <1>2, <2>2, <2>3 DEF TrafficOK
<1>4. CASE SessionBreak(w) \/ SessionError(w) \/ WorkerStop(w) \/ WorkerReceipt(w)
  <2>1. /\ events' = events
        /\ \A v \in Ids : \/ inbox'[v] \in {inbox[v], <<>>}
                          \/ inbox[v] # <<>> /\ inbox'[v] = Tail(inbox[v])
    <3>0. inbox \in [Ids -> Seq(MsgOK)]
      BY DEF TypeOK
    <3>1. CASE SessionBreak(w)
      BY <3>0, <3>1 DEF SessionBreak
    <3>2. CASE SessionError(w)
      BY <3>0, <3>2 DEF SessionError
    <3>3. CASE WorkerStop(w)
      BY <3>0, <3>3 DEF WorkerStop
    <3>4. CASE WorkerReceipt(w)
      BY <3>0, <3>4 DEF WorkerReceipt
    <3>. QED  BY <1>4, <3>1, <3>2, <3>3, <3>4
  <2>2. MailOK' /\ \A v \in Ids : Owed(v)' \subseteq Owed(v)
    BY <1>0, <2>1, MailTaken
  <2>3. \A v \in Ids : sess'[v] = "closing" =>
           sess[v] = "closing" \/ (v \notin roster' /\ v <= nextId)
    <3>1. sess[w] # "none" => w <= nextId
      BY <1>0 DEF DutyOK, TypeOK, Ids
    <3>2. CASE SessionBreak(w)
      <4>1. /\ sess[w] # "none" /\ w \notin roster'
            /\ \A v \in Ids \ {w} : sess'[v] = sess[v]
        BY <3>2 DEF SessionBreak, TypeOK
      <4>. QED  BY <3>1, <4>1
    <3>3. CASE SessionError(w) \/ WorkerStop(w) \/ WorkerReceipt(w)
      BY <3>3 DEF SessionError, WorkerStop, WorkerReceipt, TypeOK
    <3>. QED  BY <1>4, <3>2, <3>3
  <2>4. GoneOK'
    <3>1. NewEvent([type |-> "none"])
      BY <2>1, EventsTaken
    <3>. QED  BY <1>0, <1>1, <2>3, <3>1, GoneFrame
  <2>. QED  BY <1>2, <2>2, <2>4 DEF TrafficOK
<1>5. CASE WorkerFail(w) \/ \E a \in Answers : WorkerProve(w, a)
  <2>0. inbox[w] # <<>> /\ Head(inbox[w]).type = "assign" /\ sess' = sess
    BY <1>5 DEF WorkerFail, WorkerProve
  <2>1. Head(inbox[w]).shard \in Shards
    <3>1. Head(inbox[w]) \in MsgOK
      BY <2>0, RangeTail DEF TypeOK
    <3>. QED  BY <3>1 DEF MsgOK
  <2>2. PICK x \in EventOK : /\ events' = Append(events, x) /\ IsReply(x)
                             /\ x.w = w /\ x.shard = Head(inbox[w]).shard
    <3>1. Event("ShardFailed", w, Head(inbox[w]).shard, None) \in EventOK
      BY <2>1 DEF Event, EventOK
    <3>2. \A a \in Answers : Event("ShardDone", w, Head(inbox[w]).shard, a) \in EventOK
      BY <2>1 DEF Event, EventOK
    <3>. QED  BY <1>5, <3>1, <3>2 DEF WorkerFail, WorkerProve, Event, IsReply
  <2>3. inbox' = [inbox EXCEPT ![w] = Tail(@)]
    BY <1>5 DEF WorkerFail, WorkerProve
  <2>4. MailOK' /\ \A v \in Ids : Owed(v)' \subseteq Owed(v)
    BY <1>0, <2>0, <2>2, <2>3, MailReply
  <2>5. GoneOK'
    BY <1>0, <1>1, <2>0, <2>2, EventsAdded, GoneFrame DEF IsReply
  <2>. QED  BY <1>2, <2>4, <2>5 DEF TrafficOK
<1>. QED  BY <1>3, <1>4, <1>5 DEF Session, Worker, Trouble

LEMMA TrafficRegister ==
  ASSUME TypeOK, TypeOK', JobInv, TrafficOK, NEW n \in Nodes, Register(n)
  PROVE  TrafficOK'
<1>. USE DEF jobVars, ensVars
<1>1. PICK id \in Ids : id = nextId + 1 /\ id > nextId
  BY BoundsAssumption DEF Register, TypeOK, Ids
<1>2. /\ nextId' = id /\ roster' = roster \cup {id}
      /\ sess' = [sess EXCEPT ![id] = "acking"]
      /\ UNCHANGED <<events, inbox, live, pending>>
  BY <1>1 DEF Register
<1>3. MailOK' /\ \A v \in Ids : Owed(v)' = Owed(v)
  BY <1>2 DEF TrafficOK, MailOK, Owed
<1>4. nextId \in Nat /\ \A v \in Ids : v \in Nat
  BY DEF TypeOK, Ids
<1>5. DutyOK'
  <2>1. ASSUME NEW v \in Ids, NEW s \in Owed(v)
        PROVE  /\ \A t \in live : v \in pending[t] => t = s
               /\ v \in roster' => InPending(v, s)
    <3>1. v # id
      BY <1>1, <2>1 DEF TrafficOK, DutyOK
    <3>. QED  BY <1>2, <2>1, <3>1 DEF TrafficOK, DutyOK
  <2>2. ASSUME NEW v \in Ids, v > id
        PROVE  v \notin roster' /\ sess'[v] = "none" /\ Owed(v) = {}
    <3>1. v > nextId /\ v # id
      BY <1>1, <1>4, <2>2
    <3>. QED  BY <1>2, <3>1 DEF TrafficOK, DutyOK, TypeOK
  <2>. QED  BY <1>2, <1>3, <2>1, <2>2 DEF DutyOK, InPending
<1>6. GoneOK'
  <2>. SUFFICES ASSUME NEW v \in Ids,
                       \/ sess'[v] = "closing"
                       \/ \E i \in DOMAIN events : /\ events[i].type = "Disconnected"
                                                   /\ events[i].w = v
                PROVE  v \notin roster' /\ v <= id
    BY <1>2 DEF GoneOK
  <2>1. v \notin roster /\ v <= nextId
    BY <1>2 DEF TrafficOK, GoneOK, TypeOK
  <2>. QED  BY <1>1, <1>2, <1>4, <2>1
<1>. QED  BY <1>3, <1>5, <1>6 DEF TrafficOK

\* Steps of the job that send and receive nothing.
LEMMA TrafficQuiet ==
  ASSUME TypeOK, TypeOK', JobInv, JobInv', TrafficOK,
         \/ WaitQuorum \/ Compose \/ DrainSkip \/ DrainNoWorker \/ DrainPick \/ PushLost
         \/ DrainDone \/ LoopTop \/ ReaperTick \/ Reaper
  PROVE  TrafficOK'
<1>. USE DEF sessVars, ensVars, outVars, drainVars, reapVars
<1>0. MailOK /\ DutyOK /\ GoneOK /\ BusyExact /\ BusyExact'
  BY DEF TrafficOK, JobInv
<1>1. UNCHANGED <<nextId, events, node, sess, inbox>> /\ roster' \subseteq roster
  BY DEF WaitQuorum, Compose, DrainSkip, DrainNoWorker, DrainPick, PushLost, DrainDone,
         LoopTop, ReaperTick, Reaper, ReapStale, ListExpired, ExpireReplica, ReaperDone, suspect
<1>2. MailOK' /\ \A v \in Ids : Owed(v)' = Owed(v)
  BY <1>0, <1>1 DEF MailOK, Owed
<1>3. GoneOK'
  BY <1>0, <1>1 DEF GoneOK
<1>4. ASSUME \A t \in live' : \A v \in pending'[t] : t \in live /\ v \in pending[t],
             \A v \in roster' : v \notin busy \/ v \in busy'
      PROVE  TrafficOK'
  <2>1. DutyOK'
    BY <1>0, <1>1, <1>2, <1>4, DutyFrame
  <2>. QED  BY <1>2, <1>3, <2>1 DEF TrafficOK
<1>5. CASE Compose
  <2>1. \A t \in Shards : pending'[t] = {}
    BY <1>5 DEF Compose, JobInv, StartOK
  <2>2. live' \subseteq Shards /\ busy' = busy
    BY <1>5 DEF Compose, TypeOK
  <2>. QED  BY <1>4, <2>1, <2>2
<1>6. ASSUME NEW w \in Ids, ReapStale(w) PROVE TrafficOK'
  <2>1. drop_worker(w) /\ live' = live /\ roster' = roster \ {w}
    BY <1>6 DEF ReapStale
  <2>2. \A t \in Shards : pending'[t] \subseteq pending[t]
    BY <2>1 DEF drop_worker
  <2>3. busy' = busy \ {w}
    BY <2>1 DEF drop_worker
  <2>. QED  BY <1>4, <2>1, <2>2, <2>3 DEF TypeOK
<1>7. ASSUME NEW w \in Ids, NEW s \in Shards, ExpireReplica(w, s) PROVE TrafficOK'
  <2>1. suspect(w, s) /\ live' = live
    BY <1>7 DEF ExpireReplica
  <2>2. \A t \in Shards : pending'[t] \subseteq pending[t]
    BY <2>1 DEF suspect, TypeOK
  <2>3. busy' = busy \ {w} /\ roster' = roster \ {w}
    BY <2>1 DEF suspect
  <2>. QED  BY <1>4, <2>1, <2>2, <2>3 DEF TypeOK
<1>8. CASE \/ WaitQuorum \/ DrainSkip \/ DrainNoWorker \/ DrainPick \/ PushLost
           \/ DrainDone \/ LoopTop \/ ReaperTick \/ ListExpired \/ ReaperDone
  <2>1. UNCHANGED <<live, pending, busy>>
    BY <1>8 DEF WaitQuorum, DrainSkip, DrainNoWorker, DrainPick, PushLost, DrainDone,
                LoopTop, ReaperTick, ListExpired, ReaperDone
  <2>. QED  BY <1>4, <2>1
<1>. QED  BY <1>5, <1>6, <1>7, <1>8 DEF Reaper

\* Steps of the job that receive an event.
LEMMA TrafficReceive ==
  ASSUME TypeOK, TypeOK', JobInv, JobInv', TrafficOK, WaitEvent \/ HandleEvent
  PROVE  TrafficOK'
<1>. USE DEF sessVars, ensVars, outVars, drainVars, reapVars, jobVars
<1>0. MailOK /\ DutyOK /\ GoneOK /\ BusyExact /\ BusyExact'
  BY DEF TrafficOK, JobInv
<1>1. events # <<>> /\ events' = Tail(events) /\ UNCHANGED <<nextId, sess>>
  BY DEF WaitEvent, HandleEvent, OnDoneIgnored, OnDoneRejected, OnDoneCounted, OnFailed,
         OnDisconnected, OnRegistered, Recv
<1>2. PICK w, s, x : x = Head(events) /\ w = x.w /\ s = x.shard
  OBVIOUS
<1>3. x \in EventOK /\ w \in Ids /\ 1 \in DOMAIN events /\ events[1] = x
  <2>1. x \in EventOK /\ 1 \in DOMAIN events /\ events[1] = x
    BY <1>1, <1>2, RangeTail, TailAt DEF TypeOK
  <2>. QED  BY <1>2, <2>1 DEF EventOK
<1>4. ASSUME roster' \subseteq roster PROVE GoneOK'
  <2>1. NewEvent([type |-> "none"])
    BY <1>1, EventsTaken
  <2>. QED  BY <1>0, <1>1, <1>4, <2>1, GoneFrame
<1>5. ASSUME inbox' = inbox
      PROVE  MailOK' /\ \A v \in Ids : Owed(v)' \subseteq Owed(v)
  BY <1>0, <1>1, <1>5, MailTaken
<1>6. CASE WaitEvent \/ OnDoneIgnored \/ OnRegistered
  <2>1. UNCHANGED <<roster, inbox, live, pending, busy>>
    BY <1>6 DEF WaitEvent, OnDoneIgnored, OnRegistered
  <2>2. DutyOK'
    BY <1>0, <1>1, <1>5, <2>1, DutyFrame
  <2>. QED  BY <1>4, <1>5, <2>1, <2>2 DEF TrafficOK
<1>7. CASE OnDoneRejected
  <2>1. /\ suspect(w, s) /\ UNCHANGED <<inbox, live>> /\ s \in live
    BY <1>2, <1>7 DEF OnDoneRejected, InPending
  <2>2. \A t \in Shards : pending'[t] \subseteq pending[t]
    BY <2>1 DEF suspect, TypeOK
  <2>3. busy' = busy \ {w} /\ roster' = roster \ {w}
    BY <2>1 DEF suspect
  <2>4. \A t \in live' : \A v \in pending'[t] : t \in live /\ v \in pending[t]
    BY <2>1, <2>2 DEF TypeOK
  <2>5. DutyOK'
    BY <1>0, <1>1, <1>5, <2>1, <2>3, <2>4, DutyFrame
  <2>. QED  BY <1>4, <1>5, <2>1, <2>3, <2>5 DEF TrafficOK
<1>8. CASE OnDisconnected
  <2>1. drop_worker(w) /\ UNCHANGED <<inbox, live, roster>> /\ x.type = "Disconnected"
    BY <1>2, <1>8 DEF OnDisconnected, Recv
  <2>2. \A t \in Shards : pending'[t] \subseteq pending[t]
    BY <2>1 DEF drop_worker
  <2>3. busy' = busy \ {w}
    BY <2>1 DEF drop_worker
  <2>4. w \notin roster
    BY <1>0, <1>2, <1>3, <2>1 DEF GoneOK
  <2>5. \A t \in live' : \A v \in pending'[t] : t \in live /\ v \in pending[t]
    BY <2>1, <2>2 DEF TypeOK
  <2>6. DutyOK'
    BY <1>0, <1>1, <1>5, <2>1, <2>3, <2>4, <2>5, DutyFrame
  <2>. QED  BY <1>4, <1>5, <2>1, <2>6 DEF TrafficOK
<1>9. CASE OnFailed
  <2>1. IsReply(x) /\ busy' = busy \ {w} /\ UNCHANGED <<inbox, live, roster>>
    BY <1>2, <1>9 DEF OnFailed, Recv, IsReply
  <2>2. \A t \in Shards : pending'[t] \subseteq pending[t]
    BY <1>9 DEF OnFailed, TypeOK
  <2>3. /\ MailOK' /\ Owed(w)' = {}
        /\ \A v \in Ids : Owed(v)' \subseteq Owed(v)
    BY <1>0, <1>1, <1>2, <1>3, <2>1, MailCounted
  <2>4. \A t \in live' : \A v \in pending'[t] : t \in live /\ v \in pending[t]
    BY <2>1, <2>2 DEF TypeOK
  <2>5. DutyOK'
    BY <1>0, <1>1, <2>1, <2>3, <2>4, DutyFrame
  <2>. QED  BY <1>4, <2>1, <2>3, <2>5 DEF TrafficOK
<1>10. CASE OnDoneCounted
  <2>1. IsReply(x) /\ s \in live /\ count(w, s, x.answer)
    BY <1>2, <1>10 DEF OnDoneCounted, Recv, IsReply, InPending
  <2>2. roster' \subseteq roster /\ live' \subseteq live
    <3>1. \/ UNCHANGED <<roster, live>>
          \/ \E c : accept(s, c)
          \/ abort(s)
      BY <1>2, <1>10 DEF OnDoneCounted
    <3>. QED  BY <3>1 DEF accept, abort
  <2>3. s \in Shards
    BY <2>1 DEF TypeOK
  <2>4. busy' = busy \ {w} /\ \A t \in Shards : pending'[t] \subseteq pending[t]
    BY <2>1, <2>3 DEF count, TypeOK
  <2>5. Msg("receipt", s) \in MsgOK /\ Msg("receipt", s).type = "receipt"
    BY <2>3 DEF Msg, MsgOK
  <2>6. \A v \in Ids : \/ inbox'[v] = inbox[v]
                       \/ v = w /\ inbox'[v] = Append(inbox[v], Msg("receipt", s))
    BY <1>3, <2>1 DEF count, TypeOK
  <2>7. /\ MailOK' /\ Owed(w)' = {}
        /\ \A v \in Ids : Owed(v)' \subseteq Owed(v)
    BY <1>0, <1>1, <1>2, <1>3, <2>1, <2>5, <2>6, MailCounted
  <2>8. \A t \in live' : \A v \in pending'[t] : t \in live /\ v \in pending[t]
    BY <2>2, <2>4 DEF TypeOK
  <2>9. DutyOK'
    BY <1>0, <1>1, <2>2, <2>4, <2>7, <2>8, DutyFrame
  <2>. QED  BY <1>4, <2>2, <2>7, <2>9 DEF TrafficOK
<1>. QED  BY <1>6, <1>7, <1>8, <1>9, <1>10 DEF HandleEvent

LEMMA TrafficAssign ==
  ASSUME TypeOK, TypeOK', JobInv, TrafficOK, PushAssign
  PROVE  TrafficOK'
<1>0. PICK s, w : s = Head(queue) /\ w = cand
  OBVIOUS
<1>1. /\ w \in roster /\ w \in Ids /\ w \notin busy /\ queue # <<>> /\ s \in live /\ s \in Shards
  <2>1. Open(s) /\ queue # <<>> /\ w \in Ids /\ w \notin busy
    BY <1>0 DEF PushAssign, JobInv, PushOK
  <2>. QED  BY <1>0, <2>1 DEF PushAssign, Open, TypeOK
<1>2. /\ UNCHANGED <<roster, nextId, events, sess, live>>
      /\ inbox' = [inbox EXCEPT ![w] = Append(@, Msg("assign", s))]
      /\ pending'[s] = pending[s] \cup {w}
      /\ \A t \in Shards \ {s} : pending'[t] = pending[t]
  BY <1>0, <1>1 DEF PushAssign, TypeOK
<1>3. \A t \in live : w \notin pending[t]
  BY <1>1 DEF JobInv, BusyExact
<1>4. Owed(w) = {}
  BY <1>1, <1>3 DEF TrafficOK, DutyOK, InPending
<1>5. /\ MailOK' /\ Owed(w)' = {s}
      /\ \A v \in Ids \ {w} : Owed(v)' = Owed(v)
  BY <1>1, <1>2, <1>4, MailAssign DEF TrafficOK
<1>6. live \subseteq Shards
  BY DEF TypeOK
<1>7. DutyOK'
  <2>1. ASSUME NEW v \in Ids, NEW z \in Owed(v)'
        PROVE  /\ \A t \in live : v \in pending'[t] => t = z
               /\ v \in roster => z \in live /\ v \in pending'[z]
    <3>1. CASE v = w
      BY <1>1, <1>2, <1>3, <1>5, <1>6, <2>1, <3>1
    <3>2. CASE v # w
      <4>1. z \in Owed(v)
        BY <1>5, <2>1, <3>2
      <4>2. /\ \A t \in live : v \in pending[t] => t = z
            /\ v \in roster => z \in live /\ v \in pending[z]
        BY <4>1 DEF TrafficOK, DutyOK, InPending
      <4>. QED  BY <1>1, <1>2, <1>6, <3>2, <4>2
    <3>. QED  BY <3>1, <3>2
  <2>2. ASSUME NEW v \in Ids, v > nextId
        PROVE  v \notin roster /\ sess[v] = "none" /\ Owed(v)' = {}
    <3>1. v \notin roster /\ sess[v] = "none" /\ Owed(v) = {}
      BY <2>2 DEF TrafficOK, DutyOK
    <3>. QED  BY <1>1, <1>5, <3>1
  <2>. QED  BY <1>2, <2>1, <2>2 DEF DutyOK, InPending
<1>8. GoneOK'
  BY <1>2 DEF TrafficOK, GoneOK
<1>. QED  BY <1>5, <1>7, <1>8 DEF TrafficOK

----------------------------------------------------------------------------
(***************************************************************************)
(* Where answers come from, and who is retired.                            *)
(***************************************************************************)

LEMMA ProvenanceFrame ==
  ASSUME TypeOK, Provenance, UNCHANGED <<nextId, node>>,
         NEW x, NewEvent(x),
         x.type = "ShardDone" /\ x.answer # Canon => node[x.w] \in Faulty,
         \A s \in Shards, w \in Ids :
            responses'[s][w] # responses[s][w] /\ responses'[s][w] # Canon
               => node[w] \in Faulty
  PROVE  Provenance'
<1>1. \A i \in DOMAIN events' :
         events'[i].type = "ShardDone" /\ events'[i].answer # Canon
            => node[events'[i].w] \in Faulty
  BY DEF NewEvent, Provenance
<1>2. \A s \in Shards, w \in Ids :
         responses'[s][w] \notin {None, Canon} => node[w] \in Faulty
  BY DEF Provenance
<1>. QED  BY <1>1, <1>2 DEF Provenance

LEMMA ProvenanceStep ==
  ASSUME TypeOK, TypeOK', Provenance, Next
  PROVE  Provenance'
<1>. USE DEF sessVars, ensVars, outVars, drainVars, reapVars, jobVars
\* Steps that only take events.
<1>1. ASSUME UNCHANGED <<nextId, node, responses>>,
             events' = events \/ (events # <<>> /\ events' = Tail(events))
      PROVE  Provenance'
  <2>1. NewEvent([type |-> "none"])
    BY <1>1, EventsTaken
  <2>. QED  BY <1>1, <2>1, ProvenanceFrame
<1>2. ASSUME NEW n \in Nodes, Register(n) PROVE Provenance'
  <2>1. PICK id \in Ids : id = nextId + 1 /\ id > nextId
    BY <1>2, BoundsAssumption DEF Register, TypeOK, Ids
  <2>2. /\ nextId' = id /\ node' = [node EXCEPT ![id] = n]
        /\ UNCHANGED <<events, responses>>
    BY <1>2, <2>1 DEF Register
  <2>3. node[id] \notin Faulty
    BY <2>1, ClaimAssumption, NodesAssumption DEF Provenance
  <2>4. \A w \in Ids : (node[w] \in Faulty => node'[w] \in Faulty) /\ (w # id => node'[w] = node[w])
    BY <2>2, <2>3 DEF TypeOK
  <2>5. ASSUME NEW w \in Ids, w > id PROVE node'[w] = None
    <3>1. w > nextId /\ w # id
      BY <2>1, <2>5 DEF TypeOK, Ids
    <3>. QED  BY <2>4, <3>1 DEF Provenance
  <2>6. \A i \in DOMAIN events : events[i].w \in Ids
    BY DEF TypeOK, EventOK
  <2>. QED  BY <2>2, <2>4, <2>5, <2>6 DEF Provenance
<1>3. ASSUME NEW w \in Ids, Session(w) \/ Worker(w) \/ Trouble(w) PROVE Provenance'
  <2>1. UNCHANGED <<nextId, node, responses>>
    BY <1>3 DEF Session, Worker, Trouble, SendAck, SessionBreak, SendDisconnected,
         WorkerReceipt, WorkerProve, SessionError, WorkerStop, WorkerFail
  <2>2. CASE SessionBreak(w) \/ WorkerReceipt(w) \/ SessionError(w) \/ WorkerStop(w)
    BY <1>1, <2>1, <2>2 DEF SessionBreak, WorkerReceipt, SessionError, WorkerStop
  <2>3. ASSUME NEW x \in EventOK, events' = Append(events, x),
               x.type = "ShardDone" /\ x.answer # Canon => node[x.w] \in Faulty
        PROVE  Provenance'
    BY <2>1, <2>3, EventsAdded, ProvenanceFrame
  <2>4. CASE SendAck(w) \/ SendDisconnected(w)
    <3>1. Event("Registered", w, 0, None) \in EventOK /\ Event("Disconnected", w, 0, None) \in EventOK
      BY DEF Event, EventOK
    <3>. QED  BY <2>3, <2>4, <3>1 DEF SendAck, SendDisconnected, Event
  <2>5. ASSUME inbox[w] # <<>> PROVE Head(inbox[w]).shard \in Shards
    <3>1. Head(inbox[w]) \in MsgOK
      BY <2>5, RangeTail DEF TypeOK
    <3>. QED  BY <3>1 DEF MsgOK
  <2>6. CASE WorkerFail(w)
    <3>1. Event("ShardFailed", w, Head(inbox[w]).shard, None) \in EventOK
      BY <2>5, <2>6 DEF WorkerFail, Event, EventOK
    <3>. QED  BY <2>3, <2>6, <3>1 DEF WorkerFail, Event
  <2>7. ASSUME NEW a \in Answers, WorkerProve(w, a) PROVE Provenance'
    <3>1. Event("ShardDone", w, Head(inbox[w]).shard, a) \in EventOK
      BY <2>5, <2>7 DEF WorkerProve, Event, EventOK
    <3>. QED  BY <2>3, <2>7, <3>1 DEF WorkerProve, Event
  <2>. QED  BY <1>3, <2>2, <2>4, <2>6, <2>7 DEF Session, Worker, Trouble
<1>4. CASE OnDoneCounted
  <2>1. PICK e : e = Head(events) /\ events # <<>> /\ events' = Tail(events)
    BY <1>4 DEF OnDoneCounted, Recv
  <2>2. /\ e \in EventOK /\ 1 \in DOMAIN events /\ events[1] = e
        /\ e.type = "ShardDone" /\ e.shard \in live /\ count(e.w, e.shard, e.answer)
        /\ UNCHANGED <<nextId, node>>
    BY <1>4, <2>1, RangeTail, TailAt DEF OnDoneCounted, Recv, InPending, TypeOK
  <2>3. e.w \in Ids /\ e.shard \in Shards
    BY <2>2 DEF EventOK
  <2>4. responses' = [responses EXCEPT ![e.shard][e.w] = e.answer]
    BY <2>2 DEF count
  <2>5. \A s \in Shards, w \in Ids :
           responses'[s][w] # responses[s][w] => w = e.w /\ responses'[s][w] = e.answer
    BY <2>3, <2>4 DEF TypeOK
  <2>6. e.answer # Canon => node[e.w] \in Faulty
    BY <2>2 DEF Provenance
  <2>7. NewEvent([type |-> "none"])
    BY <2>1, EventsTaken
  <2>. QED  BY <2>2, <2>5, <2>6, <2>7, ProvenanceFrame
<1>5. CASE WaitEvent \/ (HandleEvent /\ ~OnDoneCounted)
  BY <1>1, <1>5 DEF WaitEvent, HandleEvent, OnDoneIgnored, OnDoneRejected, OnFailed,
       OnDisconnected, OnRegistered, Recv
<1>6. CASE \/ WaitQuorum \/ Compose \/ Drain \/ LoopTop \/ ReaperTick \/ Reaper
           \/ WaitTimeout \/ Terminated
  <2>1. UNCHANGED <<nextId, node, responses, events>>
    BY <1>6 DEF WaitQuorum, Compose, Drain, DrainSkip, DrainNoWorker, DrainPick, PushLost,
         PushAssign, DrainDone, LoopTop, ReaperTick, Reaper, ReapStale, ListExpired,
         ExpireReplica, ReaperDone, WaitTimeout, Terminated, vars
  <2>. QED  BY <1>1, <2>1
<1>. QED  BY <1>2, <1>3, <1>4, <1>5, <1>6 DEF Next, Start

LEMMA RetiredFrame ==
  ASSUME TypeOK, RetiredOK, nextId' = nextId, assigned' = assigned,
         NEW X, \A w \in X : w \in Ids /\ w <= nextId,
         blacklisted' = blacklisted \cup X, roster' \subseteq roster \ X
  PROVE  RetiredOK'
<1>1. nextId \in Int /\ Ids \subseteq Int
  BY DEF TypeOK, Ids
<1>. QED  BY <1>1 DEF RetiredOK, BlacklistRetired

LEMMA RetiredStep ==
  ASSUME TypeOK, TypeOK', JobInv, TrafficOK, RetiredOK, Next
  PROVE  RetiredOK'
<1>. USE DEF sessVars, ensVars, outVars, drainVars, reapVars, jobVars
<1>0. nextId \in Int /\ Ids \subseteq Int
  BY DEF TypeOK, Ids
<1>1. ASSUME UNCHANGED <<nextId, assigned, blacklisted>>, roster' \subseteq roster
      PROVE  RetiredOK'
  BY <1>1 DEF RetiredOK, BlacklistRetired
<1>2. ASSUME NEW s \in live, NEW w \in Ids, w \in pending[s] \cup Responders(responses[s])
      PROVE  w <= nextId
  <2>1. w \in assigned[s] /\ s \in Shards
    BY <1>2 DEF JobInv, EnsembleOK, TypeOK
  <2>. QED  BY <1>0, <2>1 DEF RetiredOK
<1>3. ASSUME NEW w \in Ids, NEW s \in live, w \in pending[s], suspect(w, s),
             UNCHANGED <<nextId, assigned>>
      PROVE  RetiredOK'
  <2>1. w <= nextId
    BY <1>2, <1>3
  <2>2. blacklisted' = blacklisted \cup {w} /\ roster' = roster \ {w}
    BY <1>3 DEF suspect
  <2>3. PICK X : X = {w}
    OBVIOUS
  <2>4. /\ \A v \in X : v \in Ids /\ v <= nextId
        /\ blacklisted' = blacklisted \cup X /\ roster' \subseteq roster \ X
    BY <2>1, <2>2, <2>3
  <2>. QED  BY <1>3, <2>4, RetiredFrame
<1>4. ASSUME NEW n \in Nodes, Register(n) PROVE RetiredOK'
  <2>1. nextId' = nextId + 1 /\ roster' = roster \cup {nextId + 1}
        /\ UNCHANGED <<assigned, blacklisted>> /\ nextId + 1 \in Ids
    BY <1>4, BoundsAssumption DEF Register, TypeOK, Ids
  <2>2. nextId + 1 \notin blacklisted
    BY <1>0, <2>1 DEF RetiredOK
  <2>3. \A w \in Ids : w > nextId + 1 => w > nextId
    BY <1>0
  <2>. QED  BY <2>1, <2>2, <2>3 DEF RetiredOK, BlacklistRetired
<1>5. CASE PushAssign
  <2>0. PICK w, s : w = cand /\ s = Head(queue)
    OBVIOUS
  <2>1. w \in Ids /\ w \in roster
    BY <1>5, <2>0 DEF PushAssign, TypeOK
  <2>2. ~(w > nextId)
    BY <2>1 DEF TrafficOK, DutyOK
  <2>3. /\ UNCHANGED <<nextId, roster, blacklisted>>
        /\ assigned' = [assigned EXCEPT ![s] = @ \cup {w}]
    BY <1>5, <2>0 DEF PushAssign
  <2>4. \A t \in Shards : assigned'[t] \subseteq assigned[t] \cup {w}
    BY <2>3 DEF TypeOK
  <2>. QED  BY <2>2, <2>3, <2>4 DEF RetiredOK, BlacklistRetired
<1>6. ASSUME NEW w \in Ids, NEW s \in Shards, ExpireReplica(w, s) PROVE RetiredOK'
  <2>1. s \in live /\ w \in pending[s]
    <3>1. <<w, s>> \in Pairs
      BY <1>6 DEF ExpireReplica, JobInv, ExpiredOK
    <3>. QED  BY <3>1 DEF Pairs
  <2>. QED  BY <1>3, <1>6, <2>1 DEF ExpireReplica
<1>7. PICK w, s, a : w = Head(events).w /\ s = Head(events).shard /\ a = Head(events).answer
  OBVIOUS
<1>8. CASE OnDoneRejected
  <2>1. s \in live /\ w \in pending[s] /\ suspect(w, s) /\ UNCHANGED <<nextId, assigned>>
    BY <1>7, <1>8 DEF OnDoneRejected, InPending
  <2>. QED  BY <1>3, <2>1 DEF TypeOK
<1>9. CASE OnDoneCounted
  <2>1. s \in live /\ w \in pending[s] /\ count(w, s, a) /\ UNCHANGED <<nextId, assigned>>
    BY <1>7, <1>9 DEF OnDoneCounted, InPending
  <2>2. s \in Shards /\ w \in Ids
    BY <2>1 DEF TypeOK
  <2>3. \A v \in Responders(responses'[s]) : v \in Ids /\ v <= nextId
    <3>1. \A v \in Responders(responses'[s]) : v \in Ids /\ v \in Responders(responses[s]) \cup {w}
      BY <2>1, <2>2 DEF count, Responders, TypeOK
    <3>. QED  BY <1>2, <2>1, <3>1
  <2>4. ASSUME NEW c, accept(s, c) PROVE RetiredOK'
    <3>. DEFINE D == {v \in Ids : responses'[s][v] \notin {None, c}}
    <3>1. D \subseteq Responders(responses'[s])
      BY DEF Responders
    <3>2. blacklisted' = blacklisted \cup D /\ roster' = roster \ D
      BY <2>4 DEF accept
    <3>. HIDE DEF D
    <3>. QED  BY <2>1, <2>3, <3>1, <3>2, RetiredFrame
  <2>5. CASE abort(s)
    BY <2>1, <2>3, <2>5, RetiredFrame DEF abort
  <2>6. \/ UNCHANGED <<roster, blacklisted>>
        \/ \E c : accept(s, c)
        \/ abort(s)
    BY <1>7, <1>9 DEF OnDoneCounted
  <2>. QED  BY <1>1, <2>1, <2>4, <2>5, <2>6
<1>10. CASE \/ WaitQuorum \/ WaitEvent \/ Compose \/ DrainSkip \/ DrainNoWorker \/ DrainPick
            \/ PushLost \/ DrainDone \/ LoopTop \/ ReaperTick \/ ListExpired \/ ReaperDone
            \/ OnDoneIgnored \/ OnFailed \/ OnDisconnected \/ OnRegistered
            \/ WaitTimeout \/ Terminated
  BY <1>1, <1>10 DEF WaitQuorum, WaitEvent, Compose, DrainSkip, DrainNoWorker, DrainPick,
       PushLost, DrainDone, LoopTop, ReaperTick, ListExpired, ReaperDone, OnDoneIgnored,
       OnFailed, OnDisconnected, OnRegistered, WaitTimeout, Terminated, vars
<1>11. ASSUME NEW v \in Ids, \/ ReapStale(v) \/ Session(v) \/ Worker(v) \/ Trouble(v)
       PROVE  RetiredOK'
  BY <1>1, <1>11 DEF ReapStale, Session, Worker, Trouble, SendAck, SessionBreak,
       SendDisconnected, WorkerReceipt, WorkerProve, SessionError, WorkerStop, WorkerFail
<1>. QED
  BY <1>4, <1>5, <1>6, <1>8, <1>9, <1>10, <1>11 DEF Next, Start, Drain, Reaper, HandleEvent

----------------------------------------------------------------------------
(***************************************************************************)
(* The invariant, and what follows from it.                                *)
(***************************************************************************)

LEMMA InitIInv == Init => IInv
<1>. SUFFICES ASSUME Init PROVE IInv
  OBVIOUS
<1>1. TypeOK /\ JobInv
  BY TypeInit, JobInit
<1>2. \A w \in Ids : inbox[w] = <<>> /\ Owed(w) = {}
  BY DEF Init, Owed
<1>3. TrafficOK
  BY <1>2 DEF Init, TrafficOK, MailOK, DutyOK, GoneOK, Shape
<1>4. Provenance /\ RetiredOK
  BY DEF Init, Provenance, RetiredOK, BlacklistRetired
<1>. QED  BY <1>1, <1>3, <1>4 DEF IInv

LEMMA TypeStep ==
  ASSUME TypeOK, JobInv, Next
  PROVE  TypeOK'
<1>1. pc = "push" => queue # <<>>
  BY DEF JobInv, PushOK
<1>2. CASE \E n \in Nodes : Register(n)
  BY <1>2, TypeRegister
<1>3. CASE \E w \in Ids : Session(w) \/ Worker(w) \/ Trouble(w)
  BY <1>3, TypeSession
<1>4. CASE Start \/ Drain \/ LoopTop
  BY <1>1, <1>4, TypeDrain
<1>5. CASE ReaperTick \/ Reaper
  BY <1>5, TypeReaper
<1>6. CASE HandleEvent
  BY <1>6, TypeEvents
<1>7. CASE WaitTimeout \/ Terminated
  BY <1>7 DEF WaitTimeout, Terminated, vars, sessVars, jobVars, drainVars, reapVars, ensVars,
       outVars, TypeOK
<1>. QED  BY <1>2, <1>3, <1>4, <1>5, <1>6, <1>7 DEF Next

LEMMA JobStep ==
  ASSUME TypeOK, TypeOK', JobInv, TrafficOK, Next
  PROVE  JobInv'
<1>1. ASSUME \/ \E n \in Nodes : Register(n)
             \/ \E w \in Ids : Session(w) \/ Worker(w) \/ Trouble(w)
             \/ WaitTimeout \/ Terminated
      PROVE  JobInv'
  <2>1. UNCHANGED jobVars
    BY <1>1 DEF Register, Session, Worker, Trouble, SendAck, SessionBreak, SendDisconnected,
         WorkerReceipt, WorkerProve, SessionError, WorkerStop, WorkerFail, WaitTimeout,
         Terminated, vars
  <2>. QED  BY <2>1, JobFrame
<1>2. CASE Start
  BY <1>2, JobLoop, JobCompose DEF Start
<1>3. CASE Drain
  BY <1>3, JobDrain, JobAssign DEF Drain
<1>4. CASE LoopTop \/ ReaperTick
  BY <1>4, JobLoop
<1>5. CASE Reaper
  BY <1>5, JobLoop, JobReap DEF Reaper
<1>6. CASE HandleEvent
  BY <1>6, JobLoop, JobReap, JobCounted, JobFailed DEF HandleEvent
<1>. QED  BY <1>1, <1>2, <1>3, <1>4, <1>5, <1>6 DEF Next

LEMMA TrafficStep ==
  ASSUME TypeOK, TypeOK', JobInv, JobInv', TrafficOK, Next
  PROVE  TrafficOK'
<1>1. CASE \E n \in Nodes : Register(n)
  BY <1>1, TrafficRegister
<1>2. CASE \E w \in Ids : Session(w) \/ Worker(w) \/ Trouble(w)
  BY <1>2, TrafficSession
<1>3. CASE Start
  BY <1>3, TrafficQuiet, TrafficReceive DEF Start
<1>4. CASE Drain
  BY <1>4, TrafficQuiet, TrafficAssign DEF Drain
<1>5. CASE LoopTop \/ ReaperTick \/ Reaper
  BY <1>5, TrafficQuiet
<1>6. CASE HandleEvent
  BY <1>6, TrafficReceive
<1>7. CASE WaitTimeout \/ Terminated
  BY <1>7 DEF WaitTimeout, Terminated, vars, sessVars, jobVars, ensVars, TrafficOK, MailOK,
       DutyOK, GoneOK, Owed, InPending
<1>. QED  BY <1>1, <1>2, <1>3, <1>4, <1>5, <1>6, <1>7 DEF Next

LEMMA NextIInv == IInv /\ [Next]_vars => IInv'
<1>. SUFFICES ASSUME IInv, [Next]_vars PROVE IInv'
  OBVIOUS
<1>0. TypeOK /\ JobInv /\ TrafficOK /\ Provenance /\ RetiredOK
  BY DEF IInv
<1>1. CASE Next
  <2>1. TypeOK'
    BY <1>0, <1>1, TypeStep
  <2>2. JobInv'
    BY <1>0, <1>1, <2>1, JobStep
  <2>3. TrafficOK'
    BY <1>0, <1>1, <2>1, <2>2, TrafficStep
  <2>4. Provenance' /\ RetiredOK'
    BY <1>0, <1>1, <2>1, ProvenanceStep, RetiredStep
  <2>. QED  BY <2>1, <2>2, <2>3, <2>4 DEF IInv
<1>2. CASE UNCHANGED vars
  <2>. USE DEF vars, sessVars, jobVars, ensVars, outVars, drainVars, reapVars
  <2>1. TypeOK' /\ JobInv'
    BY <1>0, <1>2, JobFrame DEF TypeOK
  <2>2. TrafficOK'
    BY <1>0, <1>2 DEF TrafficOK, MailOK, DutyOK, GoneOK, Owed, InPending
  <2>3. Provenance' /\ RetiredOK'
    BY <1>0, <1>2 DEF Provenance, RetiredOK, BlacklistRetired
  <2>. QED  BY <2>1, <2>2, <2>3 DEF IInv
<1>. QED  BY <1>1, <1>2

\* The inductive invariant holds in every reachable state of the controller,
\* its sessions and its workers.
THEOREM Invariance == Spec => []IInv
<1>1. Init => IInv
  BY InitIInv
<1>2. IInv /\ [Next]_vars => IInv'
  BY NextIInv
<1>. QED  BY <1>1, <1>2, PTL DEF Spec

\* Every variable keeps the shape of the Rust value it stands for, whatever
\* the sessions, the workers and the job do.
THEOREM TypeCorrect == Spec => []TypeOK
<1>1. IInv => TypeOK
  BY DEF IInv
<1>. QED  BY <1>1, Invariance, PTL

\* drain_assignments never hands out more than K slots of a shard, however
\* its replicas fail, expire, disconnect and answer late.
THEOREM SlotBounded == Spec => []SlotBound
<1>1. IInv => SlotBound
  BY DEF IInv, JobInv, EnsembleOK, SlotBound
<1>. QED  BY <1>1, Invariance, PTL

\* Every path that reopens a slot queues the shard again.
THEOREM ShardsNeverLost == Spec => []NoLostShard
<1>1. IInv => NoLostShard
  BY DEF IInv, JobInv
<1>. QED  BY <1>1, Invariance, PTL

\* `busy` and the pending sets of the ensembles agree at every await point.
THEOREM BusyIsExact == Spec => []BusyExact
<1>1. IInv => BusyExact
  BY DEF IInv, JobInv
<1>. QED  BY <1>1, Invariance, PTL

\* The main loop ends with all results and no replica out, and never through
\* its stuck check.
THEOREM LoopExit == Spec => [](CollectedMeansAll /\ NeverStuck)
<1>1. IInv => CollectedMeansAll /\ NeverStuck
  BY DEF IInv, JobInv
<1>. QED  BY <1>1, Invariance, PTL

\* A result the job keeps is attested by a majority of the shard's replicas.
THEOREM ResultsBacked == Spec => []ResultBacked
<1>1. IInv => ResultBacked
  BY DEF IInv, JobInv
<1>. QED  BY <1>1, Invariance, PTL

\* A session's channel never holds more than a receipt and an assignment.
THEOREM InboxBounded == Spec => []InboxBound
<1>1. IInv => InboxBound
  <2>. SUFFICES ASSUME IInv, NEW w \in Ids PROVE Len(inbox[w]) <= 2
    BY DEF InboxBound
  <2>1. Shape(inbox[w])
    BY DEF IInv, TrafficOK, MailOK
  <2>2. CASE inbox[w] = <<>>
    <3>1. Len(<<>>) <= 2
      OBVIOUS
    <3>. QED  BY <2>2, <3>1
  <2>3. CASE Len(inbox[w]) = 1 \/ Len(inbox[w]) = 2
    <3>1. PICK n : n = Len(inbox[w])
      OBVIOUS
    <3>2. n = 1 \/ n = 2
      BY <2>3, <3>1
    <3>3. n <= 2
      BY <3>2
    <3>. QED  BY <3>1, <3>3
  <2>. QED  BY <2>1, <2>2, <2>3 DEF Shape
<1>. QED  BY <1>1, Invariance, PTL

\* With at most K / 2 faulty replicas on a shard, the accepted claim is the
\* one an honest prover computes.
THEOREM MajorityIsCanonical == Spec => []AcceptedIsCanonical
<1>1. IInv => AcceptedIsCanonical
  <2>. SUFFICES ASSUME IInv, NEW s \in Collected,
                       2 * Cardinality({w \in assigned[s] : node[w] \in Faulty}) <= K,
                       results[s] # Canon
                PROVE  FALSE
    BY DEF AcceptedIsCanonical
  <2>. DEFINE F == {w \in assigned[s] : node[w] \in Faulty}
  <2>1. /\ s \in Shards /\ results[s] # None /\ 2 * Cardinality(attest[s]) > K
        /\ attest[s] \subseteq assigned[s] /\ assigned[s] \subseteq Ids
        /\ \A w \in attest[s] : responses[s][w] = results[s]
    BY DEF IInv, JobInv, ResultBacked, Collected, TypeOK
  <2>2. attest[s] \subseteq F
    BY <2>1 DEF IInv, Provenance
  <2>3. IsFiniteSet(F)
    BY <2>1, IdsFinite, FS_Subset
  <2>4. /\ Cardinality(attest[s]) <= Cardinality(F)
        /\ Cardinality(attest[s]) \in Nat /\ Cardinality(F) \in Nat
    <3>. HIDE DEF F
    <3>. QED  BY <2>2, <2>3, FS_Subset, FS_CardinalityType
  <2>. QED  BY <2>1, <2>4, KAssumption
<1>. QED  BY <1>1, Invariance, PTL

\* A blacklisted worker never comes back under the same id.
THEOREM BlacklistIsFinal == Spec => []BlacklistRetired
<1>1. IInv => BlacklistRetired
  BY DEF IInv, RetiredOK
<1>. QED  BY <1>1, Invariance, PTL

\* A replica is only ever handed to a worker that never had the shard and is
\* not blacklisted, although drain_assignments picks it under one lock of the
\* roster and pushes the shard under another.
THEOREM AssignedOnce == Spec => AssignOnce
<1>. DEFINE A == \A s \in Shards : \A w \in pending'[s] \ pending[s] :
                    w \notin assigned[s] /\ w \notin blacklisted
<1>1. IInv /\ [Next]_vars => [A]_vars
  <2>. SUFFICES ASSUME IInv, Next PROVE A
    OBVIOUS
  <2>. USE DEF sessVars, ensVars, outVars, drainVars, reapVars, jobVars
  <2>0. TypeOK /\ JobInv /\ RetiredOK
    BY DEF IInv
  <2>1. CASE PushAssign
    <3>0. PICK w, s : w = cand /\ s = Head(queue)
      OBVIOUS
    <3>1. w \notin assigned[s] /\ w \in roster
      BY <2>0, <2>1, <3>0 DEF PushAssign, JobInv, PushOK
    <3>2. w \notin blacklisted
      BY <2>0, <3>1 DEF RetiredOK, BlacklistRetired
    <3>3. pending' = [pending EXCEPT ![s] = @ \cup {w}]
      BY <2>1, <3>0 DEF PushAssign
    <3>4. \A t \in Shards : \A v \in pending'[t] \ pending[t] : t = s /\ v = w
      BY <2>0, <3>3 DEF TypeOK
    <3>. QED  BY <3>1, <3>2, <3>4
  <2>2. ASSUME \A t \in Shards : pending'[t] \subseteq pending[t] PROVE A
    BY <2>2
  <2>3. CASE ~PushAssign /\ Drain
    BY <2>2, <2>3 DEF Drain, DrainSkip, DrainNoWorker, DrainPick, PushLost, DrainDone
  <2>4. CASE OnDoneRejected \/ OnDoneCounted \/ OnFailed
    <3>1. PICK w, s : \A t \in Shards : \/ pending'[t] = pending[t]
                                        \/ pending'[t] = pending[t] \ {w}
      BY <2>0, <2>4 DEF OnDoneRejected, OnDoneCounted, OnFailed, suspect, count, TypeOK
    <3>. QED  BY <2>2, <3>1
  <2>5. ASSUME NEW w \in Ids, NEW s \in Shards, ExpireReplica(w, s) PROVE A
    <3>1. pending' = [pending EXCEPT ![s] = @ \ {w}]
      BY <2>5 DEF ExpireReplica, suspect
    <3>. QED  BY <2>0, <2>2, <3>1 DEF TypeOK
  <2>6. CASE OnDisconnected \/ \E w \in Ids : ReapStale(w)
    BY <2>2, <2>6 DEF OnDisconnected, ReapStale, drop_worker
  <2>7. CASE \/ Start \/ LoopTop \/ ReaperTick \/ ListExpired \/ ReaperDone
             \/ OnDoneIgnored \/ OnRegistered \/ WaitTimeout \/ Terminated
    BY <2>2, <2>7 DEF Start, WaitQuorum, WaitEvent, Compose, LoopTop, ReaperTick, ListExpired,
         ReaperDone, OnDoneIgnored, OnRegistered, WaitTimeout, Terminated, vars
  <2>8. CASE \/ \E n \in Nodes : Register(n)
             \/ \E w \in Ids : Session(w) \/ Worker(w) \/ Trouble(w)
    BY <2>2, <2>8 DEF Register, Session, Worker, Trouble, SendAck, SessionBreak,
         SendDisconnected, WorkerReceipt, WorkerProve, SessionError, WorkerStop, WorkerFail
  <2>. QED
    BY <2>1, <2>3, <2>4, <2>5, <2>6, <2>7, <2>8 DEF Next, Reaper, HandleEvent
<1>. QED  BY <1>1, Invariance, PTL DEF Spec, AssignOnce

----------------------------------------------------------------------------
(***************************************************************************)
(* ZoneJob implements VotedJob.  Of all that the controller, its sessions  *)
(* and its workers do, three steps are visible in the vote: the zone is    *)
(* split (Compose), an answer is counted (OnDoneCounted) and the loop is   *)
(* left (LoopTop).                                                         *)
(***************************************************************************)

\* What the vote sees of the other steps: nothing.
Hidden == UNCHANGED <<n_shards, responses, results, VoteStatus>>

LEMMA HiddenStutters ==
  ASSUME Hidden
  PROVE  UNCHANGED Voted!vars
  BY DEF Hidden, Voted!vars

\* VotedJob counts with its own instance of the standard module.
LEMMA SameCount ==
  ASSUME NEW S
  PROVE  Voted!Cardinality(S) = Cardinality(S)
  BY Zenon DEF Voted!Cardinality, Cardinality

\* Among exactly K responses a claim with more than K / 2 is ahead of every
\* other claim, so evaluate_ensemble finds the winner if there is one.
LEMMA WinnerIsDecisive ==
  ASSUME NEW r, Cardinality(Responders(r)) <= K, NEW c \in Claims,
         2 * Cardinality(Bucket(r, c)) > K
  PROVE  Decisive(r, c)
<1>. SUFFICES ASSUME NEW d \in Claims \ {c}
              PROVE  Cardinality(Bucket(r, d)) < Cardinality(Bucket(r, c))
  BY DEF Decisive
<1>. DEFINE B == Bucket(r, c)
            D == Bucket(r, d)
<1>1. /\ IsFiniteSet(B) /\ IsFiniteSet(D)
      /\ Cardinality(B) \in Nat /\ Cardinality(D) \in Nat
  BY BucketFinite
<1>2. B \cap D = {} /\ B \cup D \subseteq Responders(r)
  BY ClaimAssumption DEF Bucket, Responders
<1>3. IsFiniteSet(Responders(r)) /\ Cardinality(Responders(r)) \in Nat
  BY IdsFinite, FS_Subset, FS_CardinalityType DEF Responders
<1>. HIDE DEF B, D
<1>4. Cardinality(B \cup D) = Cardinality(B) + Cardinality(D)
  BY <1>1, <1>2, FS_Union, FS_EmptySet
<1>5. Cardinality(B \cup D) <= Cardinality(Responders(r))
  BY <1>2, <1>3, FS_Subset
<1>6. 2 * Cardinality(B) > K
  BY DEF B
<1>7. Cardinality(D) < Cardinality(B)
  BY <1>1, <1>3, <1>4, <1>5, <1>6, KAssumption
<1>. QED  BY <1>7 DEF B, D

\* The zone is split, or the task dies on a shard without records.
LEMMA ComposeSplits ==
  ASSUME IInv, IInv', Compose
  PROVE  Voted!Split
<1>1. pc = "compose" /\ UNCHANGED <<responses, results>>
  BY DEF Compose, outVars
<1>2. CASE pc' = "aborted"
  <2>1. UNCHANGED n_shards
    BY <1>2 DEF Compose
  <2>. QED  BY <1>1, <1>2, <2>1 DEF Voted!Split, VoteStatus, Running
<1>3. CASE pc' # "aborted"
  <2>1. PICK d : d = Cardinality(roster) \div K
    OBVIOUS
  <2>2. pc' = "drain" /\ n_shards' = IF d >= 1 THEN d ELSE 1
    BY <1>3, <2>1 DEF Compose
  <2>3. n_shards' \in 0..MaxId
    BY DEF IInv, TypeOK
  <2>4. n_shards' \in Shards
    <3>1. CASE d >= 1
      BY <2>2, <2>3, <3>1, BoundsAssumption DEF Shards
    <3>2. CASE ~(d >= 1)
      BY <2>2, <3>2, BoundsAssumption DEF Shards
    <3>. QED  BY <3>1, <3>2
  <2>. QED  BY <1>1, <2>2, <2>4 DEF Voted!Split, VoteStatus, Running
<1>. QED  BY <1>2, <1>3

\* The loop is left with every shard decided, or goes on.
LEMMA LoopFinishes ==
  ASSUME IInv, IInv', LoopTop
  PROVE  Voted!Finish \/ Hidden
<1>1. pc = "top" /\ UNCHANGED <<n_shards, responses, results>>
  BY DEF LoopTop, outVars, ensVars
<1>2. pc' \in {"collected", "select"}
  BY DEF LoopTop, IInv, JobInv, NeverStuck
<1>3. CASE pc' = "select"
  BY <1>1, <1>3 DEF Hidden, VoteStatus, Running
<1>4. CASE pc' = "collected"
  <2>1. Collected' = 1..n_shards'
    BY <1>4 DEF IInv, JobInv, CollectedMeansAll
  <2>2. \A s \in 1..n_shards : results[s] # None
    BY <1>1, <2>1 DEF Collected
  <2>. QED  BY <1>1, <1>4, <2>2 DEF Voted!Finish, VoteStatus, Running
<1>. QED  BY <1>2, <1>3, <1>4

\* A counted answer is a vote: the worker had not voted on the shard, the shard
\* was undecided, and the K-th vote decides it by the majority or aborts the job.
LEMMA CountedVotes ==
  ASSUME IInv, IInv', OnDoneCounted
  PROVE  \E s \in Shards, w \in Ids, c \in Claims : Voted!Vote(s, w, c)
<1>. USE DEF outVars
<1>0. PICK w, s, a : w = Head(events).w /\ s = Head(events).shard /\ a = Head(events).answer
  OBVIOUS
<1>1. /\ s \in live /\ w \in pending[s] /\ a \in Claims /\ count(w, s, a)
      /\ pc = "select" /\ UNCHANGED n_shards
  BY <1>0 DEF OnDoneCounted, InPending, Recv
<1>2. TypeOK /\ TypeOK' /\ JobInv
  BY DEF IInv
<1>3. s \in Shards /\ w \in Ids /\ a # None
  BY <1>1, <1>2, ClaimAssumption DEF TypeOK
<1>. DEFINE r == responses'[s]
<1>4. /\ responses' = [responses EXCEPT ![s][w] = a]
      /\ r = [responses[s] EXCEPT ![w] = a] /\ r \in [Ids -> Claims \cup {None}]
  BY <1>1, <1>2, <1>3 DEF count, TypeOK
<1>5. EnsembleOK(s) /\ s \notin Collected /\ s \in 1..n_shards
  BY <1>1, <1>2 DEF JobInv, ShardsOK
<1>6. responses[s][w] = None /\ results[s] = None
  BY <1>1, <1>3, <1>5 DEF EnsembleOK, Responders, Collected
<1>7. Cardinality(Responders(r)) \in Nat /\ Cardinality(Responders(r)) <= K
  <2>1. Responders(r) = Responders(responses[s]) \cup {w}
    BY <1>2, <1>3, <1>4 DEF Responders, TypeOK
  <2>2. w \notin Responders(responses[s])
    BY <1>6 DEF Responders
  <2>3. /\ IsFiniteSet(Responders(responses[s]))
        /\ Cardinality(Responders(responses[s])) \in Nat
    BY <1>2, <1>3, Counts
  <2>4. Cardinality(Responders(responses[s]) \cup {w}) = Cardinality(Responders(responses[s])) + 1
    BY <2>2, <2>3, FS_AddElement
  <2>5. Cardinality(Responders(responses[s])) < K
    BY <1>1, <1>5 DEF EnsembleOK
  <2>. QED  BY <2>1, <2>3, <2>4, <2>5, KAssumption
<1>. HIDE DEF r
<1>8. /\ Voted!Voters(r) = Responders(r)
      /\ \A c : Voted!Wins(r, c) <=> 2 * Cardinality(Bucket(r, c)) > K
  <2>1. Voted!Voters(r) = Responders(r) /\ \A c : Voted!For(r, c) = Bucket(r, c)
    BY Zenon DEF Voted!Voters, Voted!For, Responders, Bucket
  <2>. QED  BY <2>1, SameCount, Zenon DEF Voted!Wins
<1>9. VoteStatus = "voting"
  BY <1>1 DEF VoteStatus, Running
\* It is enough to say how the shard is decided.
<1>10. ASSUME \/ /\ Cardinality(Responders(r)) < K
                 /\ VoteStatus' = "voting" /\ UNCHANGED results
              \/ /\ Cardinality(Responders(r)) = K
                 /\ \E c \in Claims : /\ Voted!Wins(r, c)
                                      /\ results' = [results EXCEPT ![s] = c]
                 /\ VoteStatus' = "voting"
              \/ /\ Cardinality(Responders(r)) = K
                 /\ ~\E c \in Claims : Voted!Wins(r, c)
                 /\ VoteStatus' = "aborted" /\ UNCHANGED results
       PROVE  Voted!Vote(s, w, a)
  <2>1. /\ VoteStatus = "voting" /\ s \in 1..n_shards
        /\ results[s] = None /\ responses[s][w] = None
        /\ responses' = [responses EXCEPT ![s][w] = a] /\ UNCHANGED n_shards
    BY <1>1, <1>4, <1>5, <1>6, <1>9
  <2>2. Voted!Cardinality(Voted!Voters(responses'[s])) = Cardinality(Responders(r))
    BY <1>8, SameCount DEF r
  <2>3. CASE Cardinality(Responders(r)) < K /\ VoteStatus' = "voting" /\ UNCHANGED results
    BY <1>9, <2>1, <2>2, <2>3, Zenon DEF Voted!Vote
  <2>4. CASE /\ Cardinality(Responders(r)) = K
             /\ \E c \in Claims : /\ Voted!Wins(r, c)
                                  /\ results' = [results EXCEPT ![s] = c]
             /\ VoteStatus' = "voting"
    BY <1>9, <2>1, <2>2, <2>4, Zenon DEF Voted!Vote, r
  <2>5. CASE /\ Cardinality(Responders(r)) = K
             /\ ~\E c \in Claims : Voted!Wins(r, c)
             /\ VoteStatus' = "aborted" /\ UNCHANGED results
    BY <2>1, <2>2, <2>5, Zenon DEF Voted!Vote, r
  <2>. QED  BY <1>10, <2>3, <2>4, <2>5
<1>11. evaluate_ensemble(r) # "Pending" => Cardinality(Responders(r)) = K
  BY <1>7, KAssumption DEF evaluate_ensemble
<1>12. ASSUME NEW c \in Claims, accept(s, c),
              evaluate_ensemble(r) # "Pending",
              \/ Cardinality(Claimed(r)) = 1 /\ c \in Claimed(r)
              \/ Decisive(r, c)
       PROVE  Voted!Vote(s, w, a)
  <2>1. Cardinality(Responders(r)) = K
    BY <1>11, <1>12
  <2>2. 2 * Cardinality(Bucket(r, c)) > K
    BY <1>4, <1>7, <1>12, <2>1, Majority, KAssumption
  <2>3. results' = [results EXCEPT ![s] = c] /\ VoteStatus' = "voting"
    BY <1>12 DEF accept, VoteStatus, Running
  <2>. QED  BY <1>8, <1>10, <2>1, <2>2, <2>3
<1>13. \/ evaluate_ensemble(r) = "Pending" /\ pc' = "drain" /\ UNCHANGED results
       \/ /\ evaluate_ensemble(r) = "Accepted"
          /\ \E c \in Claimed(r) : accept(s, c)
       \/ /\ evaluate_ensemble(r) = "MajorityWin"
          /\ \E c \in Claims : Decisive(r, c) /\ accept(s, c)
       \/ evaluate_ensemble(r) = "AllConflict" /\ abort(s)
  BY <1>0 DEF OnDoneCounted, r
<1>14. CASE evaluate_ensemble(r) = "Pending" /\ pc' = "drain" /\ UNCHANGED results
  <2>1. Cardinality(Responders(r)) < K
    BY <1>14 DEF evaluate_ensemble
  <2>2. VoteStatus' = "voting"
    BY <1>14 DEF VoteStatus, Running
  <2>. QED  BY <1>3, <1>1, <1>10, <1>14, <2>1, <2>2
<1>15. CASE evaluate_ensemble(r) = "Accepted" /\ \E c \in Claimed(r) : accept(s, c)
  <2>1. PICK c \in Claimed(r) : accept(s, c)
    BY <1>15
  <2>2. c \in Claims /\ Cardinality(Claimed(r)) = 1
    BY <1>15, <2>1 DEF Claimed, evaluate_ensemble
  <2>. QED  BY <1>1, <1>3, <1>12, <1>15, <2>1, <2>2
<1>16. CASE /\ evaluate_ensemble(r) = "MajorityWin"
            /\ \E c \in Claims : Decisive(r, c) /\ accept(s, c)
  BY <1>1, <1>3, <1>12, <1>16
<1>17. CASE evaluate_ensemble(r) = "AllConflict" /\ abort(s)
  <2>1. Cardinality(Responders(r)) = K
    BY <1>11, <1>17
  <2>2. ~\E c \in Claims : Decisive(r, c)
    BY <1>17 DEF evaluate_ensemble
  <2>3. ~\E c \in Claims : Voted!Wins(r, c)
    BY <1>7, <1>8, <2>2, WinnerIsDecisive
  <2>4. VoteStatus' = "aborted" /\ UNCHANGED results
    BY <1>17 DEF abort, VoteStatus, Running
  <2>. QED  BY <1>1, <1>3, <1>10, <2>1, <2>3, <2>4
<1>. QED  BY <1>13, <1>14, <1>15, <1>16, <1>17

\* Everything else happens behind the vote: sessions, queues, the reaper, late,
\* rejected and failed answers.
LEMMA OthersHidden ==
  ASSUME Next, ~Compose, ~LoopTop, ~OnDoneCounted
  PROVE  Hidden
<1>. USE DEF sessVars, ensVars, outVars, drainVars, reapVars, jobVars, Hidden, VoteStatus, Running
<1>1. CASE \E n \in Nodes : Register(n)
  BY <1>1 DEF Register
<1>2. CASE \E w \in Ids : Session(w) \/ Worker(w) \/ Trouble(w)
  BY <1>2 DEF Session, Worker, Trouble, SendAck, SessionBreak, SendDisconnected,
       WorkerReceipt, WorkerProve, SessionError, WorkerStop, WorkerFail
<1>3. CASE Start
  BY <1>3 DEF Start, WaitQuorum, WaitEvent
<1>4. CASE Drain
  BY <1>4 DEF Drain, DrainSkip, DrainNoWorker, DrainPick, PushLost, PushAssign, DrainDone
<1>5. CASE ReaperTick \/ Reaper
  BY <1>5 DEF ReaperTick, Reaper, ReapStale, ListExpired, ExpireReplica, ReaperDone
<1>6. CASE HandleEvent
  BY <1>6 DEF HandleEvent, Recv, OnDoneIgnored, OnDoneRejected, OnFailed,
       OnDisconnected, OnRegistered
<1>7. CASE WaitTimeout \/ Terminated
  BY <1>7 DEF WaitTimeout, Terminated, vars
<1>. QED  BY <1>1, <1>2, <1>3, <1>4, <1>5, <1>6, <1>7 DEF Next

\* The controller with its sessions, queues, retries and reapers implements the
\* plain vote: whatever the workers and the network do, no answer counts twice,
\* a decision is the majority's and is never revised, and the job ends as the
\* votes say.
THEOREM Refinement == Spec => ImplementsVotedJob
<1>1. Init => Voted!Init
  BY DEF Init, Voted!Init, VoteStatus
<1>2. IInv /\ IInv' /\ [Next]_vars => [Voted!Next]_Voted!vars
  <2>. SUFFICES ASSUME IInv, IInv', [Next]_vars
                PROVE  [Voted!Next]_Voted!vars
    OBVIOUS
  <2>1. CASE Compose
    BY <2>1, ComposeSplits DEF Voted!Next
  <2>2. CASE LoopTop
    BY <2>2, LoopFinishes, HiddenStutters DEF Voted!Next
  <2>3. CASE OnDoneCounted
    BY <2>3, CountedVotes DEF Voted!Next
  <2>4. CASE Next /\ ~Compose /\ ~LoopTop /\ ~OnDoneCounted
    BY <2>4, OthersHidden, HiddenStutters
  <2>5. CASE UNCHANGED vars
    BY <2>5, HiddenStutters DEF vars, jobVars, ensVars, outVars, Hidden, VoteStatus, Running
  <2>. QED  BY <2>1, <2>2, <2>3, <2>4, <2>5
<1>. QED  BY <1>1, <1>2, Invariance, PTL DEF Spec, ImplementsVotedJob, Voted!Spec

\* The job never gives up through its stuck check: that branch is dead code, as
\* every shard that is not in flight is queued.
THEOREM NeverGivesUp == Spec => []NeverStuck
<1>1. IInv => NeverStuck
  BY DEF IInv, JobInv
<1>. QED  BY <1>1, Invariance, PTL
=============================================================================
