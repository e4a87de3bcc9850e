------------------------------ MODULE ZoneJob ------------------------------
(***************************************************************************)
(* The zone job of the swarm controller (crates/swarm-ctrl/src/main.rs):   *)
(* the task that waits for a quorum of workers, splits the zone in shards, *)
(* hands every shard to K replicas, collects and compares their answers,   *)
(* and reopens the slots of replicas that fail, vanish or are late.        *)
(*                                                                         *)
(* Three kinds of process interleave.                                      *)
(*   - the job itself (zone_job), one await point at a time;               *)
(*   - one session task per registered connection (handle_session), which  *)
(*     shares the roster with the job and talks to it over a FIFO channel  *)
(*     of events;                                                          *)
(*   - the worker at the far end of the connection.                        *)
(* The bounded channel into a session, the TLS stream and the socket       *)
(* buffers are one FIFO, inbox[w]; a frame that the worker has written is  *)
(* an event of the job at once, because a frame lost on the way is the     *)
(* same as a worker that stopped before it wrote.  Time is abstracted: a   *)
(* reaper tick may find any worker stale and any replica late, and being   *)
(* wrong about a healthy worker costs one unit of the fault budget.        *)
(* The job ends here when all inner shards are collected: the outer rollup,*)
(* the signature and the files that follow are no part of this module.     *)
(***************************************************************************)
EXTENDS Integers, Sequences, FiniteSets, Functions

CONSTANTS
  Nodes,        \* machines that run a worker and pass the allowlist
  Faulty,       \* the nodes whose answers may be wrong
  K,            \* args.shard_replication.max(1)
  WaitWorkers,  \* args.wait_workers
  Records,      \* args.zone_records
  Claims,       \* well-formed answers: signed, over the expected Merkle root
  Canon,        \* the one an honest prover computes
  BadSig,       \* an answer whose attestation does not verify
  BadRoot,      \* a signed answer over another Merkle root
  None,
  MaxId,        \* bound: registrations per behaviour
  MaxFaults     \* bound: crashes, errors and wrong suspicions per behaviour

ASSUME NodesAssumption  == Faulty \subseteq Nodes
ASSUME KAssumption      == K \in Nat \ {0}
ASSUME BoundsAssumption == /\ MaxId \in Nat \ {0}
                           /\ MaxFaults \in Nat
                           /\ WaitWorkers \in Nat \ {0}
                           /\ Records \in Nat \ {0}
ASSUME ClaimAssumption  == /\ Canon \in Claims
                           /\ {BadSig, BadRoot, None} \cap Claims = {}
                           /\ None \notin {BadSig, BadRoot}
                           /\ None \notin Nodes

Ids     == 1..MaxId
Shards  == 1..MaxId                 \* n_shards <= roster size <= MaxId
Answers == Claims \cup {BadSig, BadRoot}

VARIABLES
  \* shared by the job and the sessions
  roster,       \* Roster.workers: ids
  nextId,       \* Roster.next_id
  events,       \* the mpsc channel tx_evt / rx_evt
  \* sessions and workers, by worker id
  node,         \* WorkerEntry.node_id
  sess,         \* where handle_session is
  linked,       \* ids whose worker runs and is still connected
  inbox,        \* ServerMsgs not yet read by the worker
  faults,       \* budget spent so far
  \* local to the job
  pc,
  n_shards,
  queue,        \* shard_queue
  still,        \* still_pending of drain_assignments
  cand,         \* its candidate
  stale,        \* reaper: ids still to drop
  expired,      \* reaper: to_blacklist
  live,         \* keys of ensembles
  assigned, pending, responses,       \* the fields of each ensemble
  busy, blacklisted,
  results, attest                     \* results, shard_attestations

sessVars  == <<node, sess, linked, inbox, faults>>
ensVars   == <<live, assigned, pending, responses>>
outVars   == <<results, attest>>
drainVars == <<still, cand>>
reapVars  == <<stale, expired>>
jobVars   == <<pc, n_shards, queue, drainVars, reapVars, ensVars, busy,
               blacklisted, outVars>>
vars      == <<roster, nextId, events, sessVars, jobVars>>

----------------------------------------------------------------------------
Event(t, w, s, a) == [type |-> t, w |-> w, shard |-> s, answer |-> a]
Msg(t, s)         == [type |-> t, shard |-> s]

\* The sequences that list each element of S once: a HashMap is iterated in
\* an order nobody chooses.
Orders(S) == {q \in [1..Cardinality(S) -> S] : Range(q) = S}

Running  == pc \notin {"collected", "aborted", "stuck"}
Fault(n) == faults' = faults + n /\ faults' <= MaxFaults

\* Variant: the responses already in are not counted.
slots_by_pending_only(p, r) == IF Cardinality(p) >= K THEN 0 ELSE K - Cardinality(p)

\* p: the pending workers of an ensemble, r: its responses by worker.
Responders(r) == {w \in Ids : r[w] # None}
slots_remaining(p, r) ==
  LET used == Cardinality(p) + Cardinality(Responders(r))
  IN  IF used >= K THEN 0 ELSE K - used
Open(s) == s \in live /\ slots_remaining(pending[s], responses[s]) > 0

Pairs == {p \in Ids \X Shards : p[2] \in live /\ p[1] \in pending[p[2]]}

----------------------------------------------------------------------------
(***************************************************************************)
(* evaluate_ensemble.  Bucket(r, c) are the replicas that answered c.      *)
(***************************************************************************)
Bucket(r, c) == {w \in Ids : r[w] = c}
Claimed(r)   == {c \in Claims : Bucket(r, c) # {}}

Decisive(r, c) ==
  /\ 2 * Cardinality(Bucket(r, c)) > K
  /\ \A d \in Claims \ {c} : Cardinality(Bucket(r, d)) < Cardinality(Bucket(r, c))

\* Variant: the verdict does not wait for K responses.
evaluate_at_once(r) ==
  IF Cardinality(Claimed(r)) = 1 THEN "Accepted"
  ELSE IF \E c \in Claims : Decisive(r, c) THEN "MajorityWin"
  ELSE "AllConflict"

evaluate_ensemble(r) ==
  IF Cardinality(Responders(r)) < K THEN "Pending"
  ELSE IF Cardinality(Claimed(r)) = 1 THEN "Accepted"
  ELSE IF \E c \in Claims : Decisive(r, c) THEN "MajorityWin"
  ELSE "AllConflict"

----------------------------------------------------------------------------
Init ==
  /\ roster = {} /\ nextId = 0 /\ events = <<>>
  /\ node = [w \in Ids |-> None]
  /\ sess = [w \in Ids |-> "none"]
  /\ linked = {}
  /\ inbox = [w \in Ids |-> <<>>]
  /\ faults = 0
  /\ pc = "wait" /\ n_shards = 0
  /\ queue = <<>> /\ still = <<>> /\ cand = 0
  /\ stale = {} /\ expired = {}
  /\ live = {}
  /\ assigned = [s \in Shards |-> {}]
  /\ pending = [s \in Shards |-> {}]
  /\ responses = [s \in Shards |-> [w \in Ids |-> None]]
  /\ busy = {} /\ blacklisted = {}
  /\ results = [s \in Shards |-> None]
  /\ attest = [s \in Shards |-> {}]

----------------------------------------------------------------------------
(***************************************************************************)
(* Sessions: handle_session.                                               *)
(***************************************************************************)

\* The Register frame is read: a fresh id enters the roster before the
\* acknowledgement is written.
Register(n) ==
  /\ Running
  /\ nextId < MaxId
  /\ \A w \in linked : node[w] # n
  /\ LET id == nextId + 1
     IN  /\ nextId' = id
         /\ roster' = roster \cup {id}
         /\ node' = [node EXCEPT ![id] = n]
         /\ sess' = [sess EXCEPT ![id] = "acking"]
         /\ linked' = linked \cup {id}
  /\ UNCHANGED <<events, inbox, faults, jobVars>>

SendAck(w) ==
  /\ Running
  /\ sess[w] = "acking"
  /\ sess' = [sess EXCEPT ![w] = "up"]
  /\ events' = Append(events, Event("Registered", w, 0, None))
  /\ UNCHANGED <<roster, nextId, node, linked, inbox, faults, jobVars>>

\* A write or a frame fails and `?` leaves the session: the roster entry
\* stays and the job is not told.
SessionError(w) ==
  /\ Running
  /\ sess[w] \in {"acking", "up"}
  /\ Fault(IF w \in linked THEN 1 ELSE 0)
  /\ sess' = [sess EXCEPT ![w] = "ended"]
  /\ linked' = linked \ {w}
  /\ inbox' = [inbox EXCEPT ![w] = <<>>]
  /\ UNCHANGED <<roster, nextId, events, node, jobVars>>

\* Variant: the roster entry is left to the job.
SessionBreakInRoster(w) ==
  /\ Running
  /\ sess[w] = "up"
  /\ w \notin linked \/ w \notin roster
  /\ sess' = [sess EXCEPT ![w] = "closing"]
  /\ linked' = linked \ {w}
  /\ inbox' = [inbox EXCEPT ![w] = <<>>]
  /\ UNCHANGED <<roster, nextId, events, node, faults, jobVars>>

\* Goodbye, end of file, or the job dropped the roster entry (the channel
\* into the session is closed): the loop breaks and the roster is cleaned.
SessionBreak(w) ==
  /\ Running
  /\ sess[w] = "up"
  /\ w \notin linked \/ w \notin roster
  /\ sess' = [sess EXCEPT ![w] = "closing"]
  /\ roster' = roster \ {w}
  /\ linked' = linked \ {w}
  /\ inbox' = [inbox EXCEPT ![w] = <<>>]
  /\ UNCHANGED <<nextId, events, node, faults, jobVars>>

SendDisconnected(w) ==
  /\ Running
  /\ sess[w] = "closing"
  /\ sess' = [sess EXCEPT ![w] = "ended"]
  /\ events' = Append(events, Event("Disconnected", w, 0, None))
  /\ UNCHANGED <<roster, nextId, node, linked, inbox, faults, jobVars>>

----------------------------------------------------------------------------
(***************************************************************************)
(* Workers: the main loop of crates/swarm-worker/src/main.rs.              *)
(***************************************************************************)

\* The process stops (signal, crash) or its network does.
WorkerStop(w) ==
  /\ Running
  /\ w \in linked
  /\ Fault(1)
  /\ linked' = linked \ {w}
  /\ UNCHANGED <<roster, nextId, events, node, sess, inbox, jobVars>>

WorkerReceipt(w) ==
  /\ Running
  /\ w \in linked /\ sess[w] = "up"
  /\ inbox[w] # <<>> /\ Head(inbox[w]).type = "receipt"
  /\ inbox' = [inbox EXCEPT ![w] = Tail(@)]
  /\ UNCHANGED <<roster, nextId, events, node, sess, linked, faults, jobVars>>

\* AssignShard: prove, sign, answer.  An honest worker answers Canon.
WorkerProve(w, a) ==
  /\ Running
  /\ w \in linked /\ sess[w] = "up"
  /\ inbox[w] # <<>> /\ Head(inbox[w]).type = "assign"
  /\ a = Canon \/ node[w] \in Faulty
  /\ inbox' = [inbox EXCEPT ![w] = Tail(@)]
  /\ events' = Append(events, Event("ShardDone", w, Head(inbox[w]).shard, a))
  /\ UNCHANGED <<roster, nextId, node, sess, linked, faults, jobVars>>

\* The prover returns an error.
WorkerFail(w) ==
  /\ Running
  /\ w \in linked /\ sess[w] = "up"
  /\ inbox[w] # <<>> /\ Head(inbox[w]).type = "assign"
  /\ Fault(1)
  /\ inbox' = [inbox EXCEPT ![w] = Tail(@)]
  /\ events' = Append(events, Event("ShardFailed", w, Head(inbox[w]).shard, None))
  /\ UNCHANGED <<roster, nextId, node, sess, linked, jobVars>>

----------------------------------------------------------------------------
(***************************************************************************)
(* zone_job, phases 1 and 2.                                               *)
(***************************************************************************)

WaitQuorum ==
  /\ pc = "wait"
  /\ Cardinality(roster) >= WaitWorkers
  /\ pc' = "compose"
  /\ UNCHANGED <<roster, nextId, events, sessVars, n_shards, queue, drainVars,
                 reapVars, ensVars, busy, blacklisted, outVars>>

WaitEvent ==
  /\ pc = "wait"
  /\ Cardinality(roster) < WaitWorkers
  /\ events # <<>>
  /\ events' = Tail(events)
  /\ UNCHANGED <<roster, nextId, sessVars, jobVars>>

\* One minute without an event: warn and wait again.
WaitTimeout ==
  /\ pc = "wait"
  /\ Cardinality(roster) < WaitWorkers
  /\ events = <<>>
  /\ UNCHANGED vars

\* The roster is read again.  A shard without records has no Merkle root:
\* merkle_build asserts and the task dies.
Compose ==
  /\ pc = "compose"
  /\ LET ids == Cardinality(roster)
         n   == IF ids \div K >= 1 THEN ids \div K ELSE 1
     IN  IF n > Records
         THEN pc' = "aborted" /\ UNCHANGED <<n_shards, queue, live>>
         ELSE /\ n_shards' = n
              /\ queue' = [i \in 1..n |-> i]
              /\ live' = 1..n
              /\ pc' = "drain"
  /\ UNCHANGED <<roster, nextId, events, sessVars, drainVars, reapVars, assigned,
                 pending, responses, busy, blacklisted, outVars>>

----------------------------------------------------------------------------
(***************************************************************************)
(* drain_assignments: every entry of the queue is popped once.             *)
(***************************************************************************)

\* Variant: a worker that already had the shard is eligible again.
CandidatesAgain(s) == {w \in roster : w \notin busy /\ w \notin blacklisted}

\* Variant: only the blacklist is consulted.
CandidatesAny(s) == {w \in roster : w \notin blacklisted}

Candidates(s) == {w \in roster : /\ w \notin busy
                                 /\ w \notin blacklisted
                                 /\ w \notin assigned[s]}

DrainSkip ==
  /\ pc = "drain" /\ queue # <<>>
  /\ ~Open(Head(queue))
  /\ queue' = Tail(queue)
  /\ UNCHANGED <<roster, nextId, events, sessVars, pc, n_shards, drainVars,
                 reapVars, ensVars, busy, blacklisted, outVars>>

DrainNoWorker ==
  /\ pc = "drain" /\ queue # <<>>
  /\ Open(Head(queue))
  /\ Candidates(Head(queue)) = {}
  /\ queue' = Tail(queue)
  /\ still' = Append(still, Head(queue))
  /\ UNCHANGED <<roster, nextId, events, sessVars, pc, n_shards, cand,
                 reapVars, ensVars, busy, blacklisted, outVars>>

DrainPick ==
  /\ pc = "drain" /\ queue # <<>>
  /\ Open(Head(queue))
  /\ cand' \in Candidates(Head(queue))
  /\ pc' = "push"
  /\ UNCHANGED <<roster, nextId, events, sessVars, n_shards, queue, still,
                 reapVars, ensVars, busy, blacklisted, outVars>>

\* Variant: the shard is forgotten when the push fails.
PushForgotten ==
  /\ pc = "push"
  /\ cand \notin roster \/ sess[cand] = "ended"
  /\ queue' = Tail(queue)
  /\ pc' = "drain" /\ cand' = 0
  /\ UNCHANGED <<roster, nextId, events, sessVars, n_shards, still, reapVars,
                 ensVars, busy, blacklisted, outVars>>

\* The roster lock was released in between: the candidate may be gone, or
\* its session may have ended and left the entry behind.
PushLost ==
  /\ pc = "push"
  /\ cand \notin roster \/ sess[cand] = "ended"
  /\ queue' = Tail(queue)
  /\ still' = Append(still, Head(queue))
  /\ pc' = "drain" /\ cand' = 0
  /\ UNCHANGED <<roster, nextId, events, sessVars, n_shards, reapVars,
                 ensVars, busy, blacklisted, outVars>>

PushAssign ==
  /\ pc = "push"
  /\ cand \in roster /\ sess[cand] # "ended"
  /\ LET s == Head(queue)
     IN  /\ inbox' = [inbox EXCEPT ![cand] = Append(@, Msg("assign", s))]
         /\ assigned' = [assigned EXCEPT ![s] = @ \cup {cand}]
         /\ pending' = [pending EXCEPT ![s] = @ \cup {cand}]
         /\ still' = IF slots_remaining(pending'[s], responses[s]) > 0
                     THEN Append(still, s) ELSE still
  /\ busy' = busy \cup {cand}
  /\ queue' = Tail(queue)
  /\ pc' = "drain" /\ cand' = 0
  /\ UNCHANGED <<roster, nextId, events, node, sess, linked, faults, n_shards,
                 reapVars, live, responses, blacklisted, outVars>>

DrainDone ==
  /\ pc = "drain" /\ queue = <<>>
  /\ queue' = still
  /\ still' = <<>>
  /\ pc' = "top"
  /\ UNCHANGED <<roster, nextId, events, sessVars, n_shards, cand, reapVars,
                 ensVars, busy, blacklisted, outVars>>

----------------------------------------------------------------------------
(***************************************************************************)
(* The head of the main loop, and the reaper.                              *)
(***************************************************************************)

Collected == {s \in Shards : results[s] # None}

\* Nothing queued and nothing in flight while shards are missing.
StuckCheck == queue = <<>> /\ \A s \in live : pending[s] = {}

LoopTop ==
  /\ pc = "top"
  /\ pc' = IF Cardinality(Collected) = n_shards THEN "collected"
           ELSE IF StuckCheck THEN "stuck" ELSE "select"
  /\ UNCHANGED <<roster, nextId, events, sessVars, n_shards, queue, drainVars,
                 reapVars, ensVars, busy, blacklisted, outVars>>

\* The stale workers are listed under one lock ...
ReaperTick ==
  /\ pc = "select"
  /\ stale' \in SUBSET roster
  /\ Fault(Cardinality(stale' \cap linked))
  /\ pc' = "reap"
  /\ UNCHANGED <<roster, nextId, events, node, sess, linked, inbox, n_shards,
                 queue, drainVars, expired, ensVars, busy, blacklisted, outVars>>

\* Variant: the reopened slot is not queued.
drop_worker_unqueued(w) ==
  /\ busy' = busy \ {w}
  /\ pending' = [s \in Shards |-> IF s \in live THEN pending[s] \ {w} ELSE pending[s]]
  /\ UNCHANGED queue

\* drop_worker_from_ensembles
drop_worker(w) ==
  /\ busy' = busy \ {w}
  /\ pending' = [s \in Shards |-> IF s \in live THEN pending[s] \ {w} ELSE pending[s]]
  /\ \E q \in Orders({s \in live : w \in pending[s]}) : queue' = queue \o q

\* ... and dropped one by one.
ReapStale(w) ==
  /\ pc = "reap" /\ w \in stale
  /\ stale' = stale \ {w}
  /\ roster' = roster \ {w}
  /\ drop_worker(w)
  /\ UNCHANGED <<nextId, events, sessVars, pc, n_shards, drainVars, expired,
                 live, assigned, responses, blacklisted, outVars>>

ListExpired ==
  /\ pc = "reap" /\ stale = {}
  /\ expired' \in SUBSET Pairs
  /\ Fault(Cardinality({p \in expired' : p[1] \in linked}))
  /\ pc' = "expire"
  /\ UNCHANGED <<roster, nextId, events, node, sess, linked, inbox, n_shards,
                 queue, drainVars, stale, ensVars, busy, blacklisted, outVars>>

\* Variant: the roster entry stays.
suspect_in_roster(w, s) ==
  /\ blacklisted' = blacklisted \cup {w}
  /\ pending' = [pending EXCEPT ![s] = @ \ {w}]
  /\ busy' = busy \ {w}
  /\ queue' = Append(queue, s)
  /\ UNCHANGED roster

\* Lines shared by the deadline reaper and the rejected answers.
suspect(w, s) ==
  /\ blacklisted' = blacklisted \cup {w}
  /\ pending' = [pending EXCEPT ![s] = @ \ {w}]
  /\ busy' = busy \ {w}
  /\ roster' = roster \ {w}
  /\ queue' = Append(queue, s)

ExpireReplica(w, s) ==
  /\ pc = "expire" /\ <<w, s>> \in expired
  /\ expired' = expired \ {<<w, s>>}
  /\ suspect(w, s)
  /\ UNCHANGED <<nextId, events, sessVars, pc, n_shards, drainVars, stale,
                 live, assigned, responses, outVars>>

ReaperDone ==
  /\ pc = "expire" /\ expired = {}
  /\ pc' = "drain"
  /\ UNCHANGED <<roster, nextId, events, sessVars, n_shards, queue, drainVars,
                 reapVars, ensVars, busy, blacklisted, outVars>>

----------------------------------------------------------------------------
(***************************************************************************)
(* Events.                                                                 *)
(***************************************************************************)

Recv(t) == pc = "select" /\ events # <<>> /\ Head(events).type = t
                         /\ events' = Tail(events)

InPending(w, s) == s \in live /\ w \in pending[s]

\* Not pending on the shard, or no longer in the roster.
OnDoneIgnored ==
  /\ Recv("ShardDone")
  /\ LET e == Head(events)
     IN  ~InPending(e.w, e.shard) \/ e.w \notin roster
  /\ pc' = "top"
  /\ UNCHANGED <<roster, nextId, sessVars, n_shards, queue, drainVars,
                 reapVars, ensVars, busy, blacklisted, outVars>>

OnDoneRejected ==
  /\ Recv("ShardDone")
  /\ LET e == Head(events)
     IN  /\ InPending(e.w, e.shard) /\ e.w \in roster
         /\ e.answer \in {BadSig, BadRoot}
         /\ suspect(e.w, e.shard)
  /\ pc' = "drain"
  /\ UNCHANGED <<nextId, sessVars, n_shards, drainVars, reapVars, live,
                 assigned, responses, outVars>>

\* A replica is counted: the receipt goes out, the worker moves from pending
\* to responses, and the ensemble is evaluated.
count(w, s, a) ==
  /\ inbox' = [inbox EXCEPT ![w] =
                 IF sess[w] = "ended" THEN @ ELSE Append(@, Msg("receipt", s))]
  /\ pending' = [pending EXCEPT ![s] = @ \ {w}]
  /\ responses' = [responses EXCEPT ![s][w] = a]
  /\ busy' = busy \ {w}

\* Variant: every responder attests, dissenters included.
accept_all_attest(s, c) ==
  LET r          == responses'[s]
      dissenters == {w \in Ids : r[w] \notin {None, c}}
  IN  /\ results' = [results EXCEPT ![s] = c]
      /\ attest' = [attest EXCEPT ![s] = Responders(r)]
      /\ blacklisted' = blacklisted \cup dissenters
      /\ roster' = roster \ dissenters
      /\ live' = live \ {s}
      /\ pc' = "drain"

\* Variant: the decided ensemble stays in the map.
accept_kept(s, c) ==
  /\ results' = [results EXCEPT ![s] = c]
  /\ attest' = [attest EXCEPT ![s] = Bucket(responses'[s], c)]
  /\ pc' = "drain"
  /\ UNCHANGED <<blacklisted, roster, live>>

accept(s, c) ==
  LET r          == responses'[s]
      dissenters == {w \in Ids : r[w] \notin {None, c}}
  IN  /\ results' = [results EXCEPT ![s] = c]
      /\ attest' = [attest EXCEPT ![s] = Bucket(r, c)]
      /\ blacklisted' = blacklisted \cup dissenters
      /\ roster' = roster \ dissenters
      /\ live' = live \ {s}
      /\ pc' = "drain"

abort(s) ==
  LET bad == Responders(responses'[s])
  IN  /\ blacklisted' = blacklisted \cup bad
      /\ roster' = roster \ bad
      /\ pc' = "aborted"
      /\ UNCHANGED <<results, attest, live>>

OnDoneCounted ==
  /\ Recv("ShardDone")
  /\ LET e == Head(events)
         s == e.shard
     IN  /\ InPending(e.w, s) /\ e.w \in roster
         /\ e.answer \in Claims
         /\ count(e.w, s, e.answer)
         /\ LET v == evaluate_ensemble(responses'[s])
            IN  \/ /\ v = "Pending"
                   /\ pc' = "drain"
                   /\ UNCHANGED <<roster, blacklisted, live, outVars>>
                \/ /\ v = "Accepted"
                   /\ \E c \in Claimed(responses'[s]) : accept(s, c)
                \/ /\ v = "MajorityWin"
                   /\ \E c \in Claims : Decisive(responses'[s], c) /\ accept(s, c)
                \/ v = "AllConflict" /\ abort(s)
  /\ UNCHANGED <<nextId, node, sess, linked, faults, n_shards, queue, drainVars,
                 reapVars, assigned>>

\* Variant: the shard is not queued again.
OnFailedUnqueued ==
  /\ Recv("ShardFailed")
  /\ LET e == Head(events)
     IN  /\ pending' = [pending EXCEPT ![e.shard] =
                          IF e.shard \in live THEN @ \ {e.w} ELSE @]
         /\ busy' = busy \ {e.w}
  /\ pc' = "drain"
  /\ UNCHANGED <<roster, nextId, sessVars, n_shards, queue, drainVars, reapVars,
                 live, assigned, responses, blacklisted, outVars>>

\* Variant: the worker stays busy.
OnFailedBusy ==
  /\ Recv("ShardFailed")
  /\ LET e == Head(events)
     IN  /\ pending' = [pending EXCEPT ![e.shard] =
                          IF e.shard \in live THEN @ \ {e.w} ELSE @]
         /\ queue' = Append(queue, e.shard)
  /\ pc' = "drain"
  /\ UNCHANGED <<roster, nextId, sessVars, n_shards, drainVars, reapVars, live,
                 assigned, responses, busy, blacklisted, outVars>>

\* Variant: the failure is only logged.
OnFailedLogged ==
  /\ Recv("ShardFailed")
  /\ pc' = "drain"
  /\ UNCHANGED <<roster, nextId, sessVars, n_shards, queue, drainVars, reapVars,
                 ensVars, busy, blacklisted, outVars>>

\* The slot is reopened whether or not the worker held it.
OnFailed ==
  /\ Recv("ShardFailed")
  /\ LET e == Head(events)
     IN  /\ pending' = [pending EXCEPT ![e.shard] =
                          IF e.shard \in live THEN @ \ {e.w} ELSE @]
         /\ busy' = busy \ {e.w}
         /\ queue' = Append(queue, e.shard)
  /\ pc' = "drain"
  /\ UNCHANGED <<roster, nextId, sessVars, n_shards, drainVars, reapVars, live,
                 assigned, responses, blacklisted, outVars>>

OnDisconnected ==
  /\ Recv("Disconnected")
  /\ drop_worker(Head(events).w)
  /\ pc' = "drain"
  /\ UNCHANGED <<roster, nextId, sessVars, n_shards, drainVars, reapVars, live,
                 assigned, responses, blacklisted, outVars>>

OnRegistered ==
  /\ Recv("Registered")
  /\ pc' = "drain"
  /\ UNCHANGED <<roster, nextId, sessVars, n_shards, queue, drainVars, reapVars,
                 ensVars, busy, blacklisted, outVars>>

HandleEvent == \/ OnDoneIgnored \/ OnDoneRejected \/ OnDoneCounted
               \/ OnFailed \/ OnDisconnected \/ OnRegistered

----------------------------------------------------------------------------
Terminated == ~Running /\ UNCHANGED vars

Session(w) == \/ SendAck(w) \/ SessionBreak(w) \/ SendDisconnected(w)
Worker(w)  == WorkerReceipt(w) \/ \E a \in Answers : WorkerProve(w, a)
Trouble(w) == SessionError(w) \/ WorkerStop(w) \/ WorkerFail(w)

Drain  == \/ DrainSkip \/ DrainNoWorker \/ DrainPick
          \/ PushLost \/ PushAssign \/ DrainDone
Start  == WaitQuorum \/ WaitEvent \/ Compose
Reaper == \/ \E w \in Ids : ReapStale(w)
          \/ ListExpired
          \/ \E w \in Ids, s \in Shards : ExpireReplica(w, s)
          \/ ReaperDone

Next == \/ \E n \in Nodes : Register(n)
        \/ \E w \in Ids : Session(w) \/ Worker(w) \/ Trouble(w)
        \/ Start \/ Drain \/ LoopTop \/ ReaperTick \/ Reaper \/ HandleEvent
        \/ WaitTimeout \/ Terminated

Spec == Init /\ [][Next]_vars

(***************************************************************************)
(* Fairness.  The tokio runtime keeps polling every task that can run; the *)
(* select of the main loop is biased towards the 500 ms tick, which is due *)
(* only now and then, so events are received again and again (SF).  A      *)
(* session notices that the job dropped it, but may never notice that its  *)
(* peer is gone.  A worker that does not run sends no heartbeat, so a      *)
(* later tick finds it stale, and a replica it holds is past its deadline  *)
(* at a later tick.  Nothing is assumed of registrations or of failures.   *)
(***************************************************************************)
Fairness ==
  /\ WF_vars(Start \/ Drain \/ LoopTop \/ Reaper)
  /\ WF_vars(ReaperTick)
  /\ SF_vars(HandleEvent)
  /\ \A w \in Ids : /\ WF_vars(\/ SendAck(w) \/ SendDisconnected(w)
                               \/ w \notin roster /\ SessionBreak(w))
                    /\ WF_vars(Worker(w))
                    /\ SF_vars(w \notin linked /\ ReaperTick /\ w \in stale')
                    /\ SF_vars(/\ w \notin linked
                               /\ ListExpired
                               /\ \A s \in live : w \in pending[s] => <<w, s>> \in expired')

FairSpec == Spec /\ Fairness

----------------------------------------------------------------------------
EventOK ==
  {e \in [type : {"Registered", "ShardDone", "ShardFailed", "Disconnected"},
          w : Ids, shard : Shards \cup {0}, answer : Answers \cup {None}] :
     /\ e.type \in {"ShardDone", "ShardFailed"} => e.shard \in Shards
     /\ e.type = "ShardDone" => e.answer \in Answers}
MsgOK   == [type : {"assign", "receipt"}, shard : Shards]

\* Every variable has the shape of the Rust state it stands for.
TypeOK ==
  /\ roster \in SUBSET Ids /\ nextId \in 0..MaxId /\ events \in Seq(EventOK)
  /\ node \in [Ids -> Nodes \cup {None}]
  /\ sess \in [Ids -> {"none", "acking", "up", "closing", "ended"}]
  /\ linked \in SUBSET Ids
  /\ inbox \in [Ids -> Seq(MsgOK)]
  /\ faults \in 0..MaxFaults
  /\ pc \in {"wait", "compose", "drain", "push", "top", "select", "reap",
             "expire", "collected", "aborted", "stuck"}
  /\ n_shards \in 0..MaxId
  /\ queue \in Seq(Shards) /\ still \in Seq(Shards) /\ cand \in 0..MaxId
  /\ stale \in SUBSET Ids /\ expired \in SUBSET (Ids \X Shards)
  /\ live \in SUBSET Shards
  /\ assigned \in [Shards -> SUBSET Ids]
  /\ pending \in [Shards -> SUBSET Ids]
  /\ responses \in [Shards -> [Ids -> Claims \cup {None}]]
  /\ busy \in SUBSET Ids /\ blacklisted \in SUBSET Ids
  /\ results \in [Shards -> Claims \cup {None}]
  /\ attest \in [Shards -> SUBSET Ids]

\* The replicas of a shard never exceed K: answers that arrive after their
\* slot was reopened, and slots reopened twice, do not add a replica.
SlotBound ==
  \A s \in live : Cardinality(pending[s]) + Cardinality(Responders(responses[s])) <= K

\* A shard that needs replicas is always waiting in the queue, whichever
\* way its slot was reopened (failure, disconnect, heartbeat, deadline,
\* rejected answer, lost push).
NoLostShard ==
  \A s \in live : Open(s) => s \in Range(queue) \cup Range(still)

\* `busy` is exactly the set of workers that hold a replica, and a worker
\* holds one at a time: a worker is neither leaked nor given two shards.
BusyExact ==
  /\ busy = UNION {pending[s] : s \in live}
  /\ \A s, t \in live : s # t => pending[s] \cap pending[t] = {}

\* A shard's result is attested by more than half of its K replicas, all of
\* which were assigned the shard and gave exactly that answer.
ResultBacked ==
  \A s \in Collected :
     /\ 2 * Cardinality(attest[s]) > K
     /\ attest[s] \subseteq assigned[s]
     /\ \A w \in attest[s] : responses[s][w] = results[s]

\* The vote: when at most half of the K slots' worth of assigned replicas
\* are faulty, the accepted result is the canonical one.
AcceptedIsCanonical ==
  \A s \in Collected :
     2 * Cardinality({w \in assigned[s] : node[w] \in Faulty}) <= K
        => results[s] = Canon

\* The job never gives up through the stuck check.
NeverStuck == pc # "stuck"

\* At most one receipt and one assignment are under way to a worker, so the
\* session channel (capacity 8) never fills and no send blocks the job, in
\* particular the receipt that is sent with the roster locked.
InboxBound == \A w \in Ids : Len(inbox[w]) <= 2

\* A blacklisted worker is out of the roster for good.
BlacklistRetired == blacklisted \cap roster = {}

\* A worker id is given each shard at most once, and never after it was
\* blacklisted.
AssignOnce ==
  [][\A s \in Shards : \A w \in pending'[s] \ pending[s] :
        w \notin assigned[s] /\ w \notin blacklisted]_vars

\* The job leaves its loop with a result for every shard and no replica of
\* any shard still out.
CollectedMeansAll ==
  pc = "collected" => /\ Collected = 1..n_shards
                      /\ live = {}
                      /\ busy = {}

\* Every worker that was handed a replica is eventually released: it answers,
\* fails, or its slot is taken back by the reaper or on its disconnection.
WorkerReleased ==
  \A w \in Ids : (Running /\ w \in busy) ~> (~Running \/ w \notin busy)

\* With workers to spare for the fault budget, a job that has its quorum
\* collects every shard.
JobCompletes == (pc = "compose") ~> (pc = "collected")

\* drop_worker_from_ensembles: "leave them in `assigned` so we don't pick
\* them again for the same shard if they reconnect".
NotPickedAgain ==
  \A s \in live : \A v, w \in assigned[s] : v # w => node[v] # node[w]

\* The stuck check: "no assignable workers and no replicas in flight - job
\* stuck" is reported and the job returns, unless a worker turns up.
Hopeless ==
  /\ Running /\ live # {}
  /\ \A s \in live : pending[s] = {} /\ Candidates(s) = {}
StuckReported == Hopeless ~> ~Hopeless

----------------------------------------------------------------------------
(***************************************************************************)
(* The inductive invariant behind SlotBound, NoLostShard, BusyExact,       *)
(* CollectedMeansAll and NeverStuck, about the job's own state, and the    *)
(* provenance of answers behind AcceptedIsCanonical.                       *)
(***************************************************************************)

\* A live ensemble: who holds or answered it was assigned it, nobody does
\* both, and a full set of responses has been decided.
EnsembleOK(s) ==
  /\ pending[s] \cup Responders(responses[s]) \subseteq assigned[s]
  /\ pending[s] \cap Responders(responses[s]) = {}
  /\ Cardinality(pending[s]) + Cardinality(Responders(responses[s])) <= K
  /\ pc # "aborted" => Cardinality(Responders(responses[s])) < K

\* Before the zone is composed nothing has been assigned.
StartOK ==
  pc \in {"wait", "compose"} =>
     /\ live = {} /\ n_shards = 0 /\ busy = {}
     /\ queue = <<>>
     /\ \A s \in Shards : /\ assigned[s] = {} /\ pending[s] = {}
                          /\ Responders(responses[s]) = {}
                          /\ results[s] = None

PushOK ==
  pc = "push" => /\ queue # <<>> /\ Open(Head(queue))
                 /\ cand \in Ids /\ cand \notin busy
                 /\ cand \notin assigned[Head(queue)]

StillOK   == pc \notin {"drain", "push"} => still = <<>>
ExpiredOK == pc = "expire" => expired \subseteq Pairs
ShardsOK  == live \subseteq 1..n_shards /\ Collected = (1..n_shards) \ live

JobInv == /\ \A s \in live : EnsembleOK(s)
          /\ StartOK /\ PushOK /\ StillOK /\ ExpiredOK /\ ShardsOK
          /\ NoLostShard /\ BusyExact /\ ResultBacked
          /\ NeverStuck /\ CollectedMeansAll

\* The messages under way.  A worker owes at most one answer: its inbox is an
\* optional receipt followed by an optional assignment, and it is empty while
\* an answer travels to the job.
IsReply(e) == e.type \in {"ShardDone", "ShardFailed"}

Shape(q) == \/ q = <<>>
            \/ Len(q) = 1
            \/ Len(q) = 2 /\ q[1].type = "receipt" /\ q[2].type = "assign"

Owed(w) ==
  {s \in Shards :
     \/ \E i \in DOMAIN inbox[w] : inbox[w][i].type = "assign" /\ inbox[w][i].shard = s
     \/ \E i \in DOMAIN events : /\ IsReply(events[i]) /\ events[i].w = w
                                 /\ events[i].shard = s}

MailOK ==
  /\ \A w \in Ids : Shape(inbox[w])
  /\ \A i \in DOMAIN events : IsReply(events[i]) => inbox[events[i].w] = <<>>
  /\ \A i, j \in DOMAIN events :
        IsReply(events[i]) /\ IsReply(events[j]) /\ events[i].w = events[j].w => i = j

\* A worker that owes an answer for s holds no other shard, and while it is in
\* the roster it does hold s.
DutyOK ==
  /\ \A w \in Ids : \A s \in Owed(w) :
        /\ \A t \in live : w \in pending[t] => t = s
        /\ w \in roster => InPending(w, s)
  /\ \A w \in Ids : w > nextId => w \notin roster /\ sess[w] = "none" /\ Owed(w) = {}

\* The roster entry is gone before the disconnection is announced.
GoneOK ==
  \A w \in Ids :
     \/ sess[w] = "closing"
     \/ \E i \in DOMAIN events : events[i].type = "Disconnected" /\ events[i].w = w
     => w \notin roster /\ w <= nextId

TrafficOK == MailOK /\ DutyOK /\ GoneOK

\* Only a faulty node's worker ever claimed anything but Canon.
Provenance ==
  /\ \A w \in Ids : w > nextId => node[w] = None
  /\ \A i \in DOMAIN events :
        events[i].type = "ShardDone" /\ events[i].answer # Canon
           => node[events[i].w] \in Faulty
  /\ \A s \in Shards, w \in Ids :
        responses[s][w] \notin {None, Canon} => node[w] \in Faulty

\* Ids not given out yet have no past.
RetiredOK ==
  /\ BlacklistRetired
  /\ \A w \in Ids : w > nextId => /\ w \notin blacklisted
                                  /\ \A s \in Shards : w \notin assigned[s]

\* The state of the job is consistent, and every answer it counts can be
\* traced to the worker that gave it.
IInv == TypeOK /\ JobInv /\ TrafficOK /\ Provenance /\ RetiredOK

----------------------------------------------------------------------------
(***************************************************************************)
(* The refinement: what is left of the job when only the vote is looked at.*)
(***************************************************************************)
VoteStatus == IF pc \in {"wait", "compose"} THEN "waiting"
              ELSE IF Running THEN "voting" ELSE pc

Voted == INSTANCE VotedJob WITH status <- VoteStatus, n <- n_shards,
                                votes <- responses, decided <- results

\* The job, with everything it does about sessions, queues, retries and late
\* answers, is the vote that VotedJob describes: a decision is never revised, no
\* answer counts twice, and the job ends only as the votes say.
ImplementsVotedJob == Voted!Spec
=============================================================================
