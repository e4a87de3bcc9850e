----------------------------- MODULE AcceptLoop -----------------------------
(***************************************************************************)
(* The accept loop of the swarm controller and its ConnLimiter             *)
(* (crates/swarm-ctrl/src/main.rs): one token bucket and one count of open *)
(* connections per peer address, and a global count that is read without   *)
(* the lock.                                                               *)
(*                                                                         *)
(* The loop is the only one to acquire; every connection's own task        *)
(* releases, at any moment, also between the loop's read of the global     *)
(* count and its taking of the lock.  What a connection does in between    *)
(* (handshake, handshake timeout, session) is module ZoneJob's subject;    *)
(* here it only ends.  The zone job is here a task that ends.              *)
(*                                                                         *)
(* Tokens are counted in parts of a connection: Unit parts admit one, Rate *)
(* parts come in per tick of the clock, so that Rate / Unit is the         *)
(* fractional connect_rate_per_ip.                                         *)
(***************************************************************************)
EXTENDS Integers, FiniteSets

CONSTANTS
  Ips,            \* peer addresses
  Conn,           \* sockets: a task runs on one while it is open
  None,
  MaxPerIp,       \* args.max_conns_per_ip
  MaxActive,      \* args.max_active_conns
  Unit,           \* parts of a token: 1.0
  Rate,           \* parts per tick: args.connect_rate_per_ip
  Burst,          \* parts: args.connect_burst_per_ip
  ExitOnComplete, \* args.exit_on_complete
  MaxTime         \* bound: ticks of the clock

ASSUME ConnAssumption  == IsFiniteSet(Conn) /\ None \notin Ips
ASSUME LimitAssumption == /\ MaxPerIp \in Nat /\ MaxActive \in Nat
                          /\ Unit \in Nat \ {0} /\ Rate \in Nat /\ Burst \in Nat
ASSUME TimeAssumption  == MaxTime \in Nat /\ ExitOnComplete \in BOOLEAN

VARIABLES
  now,            \* Instant::now()
  known,          \* keys of ConnLimiter.state
  active, tokens, last_refill,        \* the fields of IpBucket
  active_total,
  task,           \* peer address of the task on each socket, or None
  pc,             \* where the accept loop is
  sock, from,     \* the socket it accepted, and its peer address
  job,            \* the zone job's task: "none", "running", "finished"
  \* history, for RateBound
  admitted,       \* connections admitted so far, by address
  mark            \* their number when each tick began

clockVars == <<now, mark>>
jobVars   == <<job>>
loopVars  == <<pc, sock, from>>
limVars   == <<known, active, tokens, last_refill, active_total, task, admitted>>
vars      == <<clockVars, jobVars, loopVars, limVars>>

Up          == pc # "exited"
Tasks       == {c \in Conn : task[c] # None}
TasksOf(ip) == {c \in Conn : task[c] = ip}

Init ==
  /\ now = 0 /\ mark = [ip \in Ips |-> [t \in 0..MaxTime |-> 0]]
  /\ job \in {"none", "running"}
  /\ pc = "accept" /\ sock = None /\ from = None
  /\ known = {}
  /\ active = [ip \in Ips |-> 0]
  /\ tokens = [ip \in Ips |-> 0]
  /\ last_refill = [ip \in Ips |-> 0]
  /\ active_total = 0
  /\ task = [c \in Conn |-> None]
  /\ admitted = [ip \in Ips |-> 0]

----------------------------------------------------------------------------
\* The bucket after or_insert and the refill: a new address starts full.
Refilled(ip) ==
  LET t == tokens[ip] + Rate * (now - last_refill[ip])
  IN  IF ip \in known /\ t < Burst THEN t ELSE Burst

\* try_acquire reads the global count without the lock and turns the
\* connection away ...
DenyMaxActive ==
  /\ pc = "accept"
  /\ active_total >= MaxActive
  /\ UNCHANGED vars

\* Variant: the cap is off by one.
AcceptOneMore(c, ip) ==
  /\ pc = "accept"
  /\ task[c] = None
  /\ active_total <= MaxActive
  /\ pc' = "lock" /\ sock' = c /\ from' = ip
  /\ UNCHANGED <<clockVars, jobVars, limVars>>

\* ... or goes on to the lock.
Accept(c, ip) ==
  /\ pc = "accept"
  /\ task[c] = None
  /\ active_total < MaxActive
  /\ pc' = "lock" /\ sock' = c /\ from' = ip
  /\ UNCHANGED <<clockVars, jobVars, limVars>>

\* MaxPerIp or RateLimit: the bucket was refilled all the same.
Deny ==
  /\ pc = "lock"
  /\ active[from] >= MaxPerIp \/ Refilled(from) < Unit
  /\ known' = known \cup {from}
  /\ tokens' = [tokens EXCEPT ![from] = Refilled(from)]
  /\ last_refill' = [last_refill EXCEPT ![from] = now]
  /\ pc' = "accept" /\ sock' = None /\ from' = None
  /\ UNCHANGED <<clockVars, jobVars, active, active_total, task, admitted>>

\* The connection is admitted and its task spawned.
Admit ==
  /\ pc = "lock"
  /\ active[from] < MaxPerIp
  /\ Refilled(from) >= Unit
  /\ known' = known \cup {from}
  /\ tokens' = [tokens EXCEPT ![from] = Refilled(from) - Unit]
  /\ last_refill' = [last_refill EXCEPT ![from] = now]
  /\ active' = [active EXCEPT ![from] = @ + 1]
  /\ active_total' = active_total + 1
  /\ task' = [task EXCEPT ![sock] = from]
  /\ admitted' = [admitted EXCEPT ![from] = @ + 1]
  /\ pc' = "spawned" /\ sock' = None /\ from' = None
  /\ UNCHANGED <<clockVars, jobVars>>

\* Only an admitted connection makes the loop look at the job.
CheckJob ==
  /\ pc = "spawned"
  /\ pc' = IF job = "finished" THEN "exited" ELSE "accept"
  /\ UNCHANGED <<clockVars, jobVars, sock, from, limVars>>

\* Forget the bucket of ip.
Forget(ip) ==
  /\ known' = known \ {ip}
  /\ tokens' = [tokens EXCEPT ![ip] = 0]
  /\ last_refill' = [last_refill EXCEPT ![ip] = 0]
Keep == UNCHANGED <<known, tokens, last_refill>>

\* Variant: an idle bucket is dropped whatever its tokens.
ReleaseIdle(c) ==
  /\ Up /\ task[c] # None
  /\ LET ip == task[c]
     IN  /\ active' = [active EXCEPT ![ip] = @ - 1]
         /\ IF active[ip] = 1 THEN Forget(ip) ELSE Keep
  /\ active_total' = active_total - 1
  /\ task' = [task EXCEPT ![c] = None]
  /\ UNCHANGED <<clockVars, jobVars, loopVars, admitted>>

\* Variant: the global count is given back only with the bucket.
ReleaseLocal(c) ==
  /\ Up /\ task[c] # None
  /\ LET ip   == task[c]
         drop == active[ip] <= 1 /\ tokens[ip] >= Burst
     IN  /\ active' = [active EXCEPT ![ip] = IF @ > 0 THEN @ - 1 ELSE 0]
         /\ IF drop THEN Forget(ip) ELSE Keep
         /\ active_total' = IF drop THEN active_total - 1 ELSE active_total
  /\ task' = [task EXCEPT ![c] = None]
  /\ UNCHANGED <<clockVars, jobVars, loopVars, admitted>>

\* The task on c ends: handshake failed or timed out, session over.  A bucket
\* that is idle and full is dropped; the tokens are those of the last refill.
Release(c) ==
  /\ Up /\ task[c] # None
  /\ LET ip   == task[c]
         drop == active[ip] <= 1 /\ tokens[ip] >= Burst
     IN  /\ active' = [active EXCEPT ![ip] = IF @ > 0 THEN @ - 1 ELSE 0]
         /\ IF ip \in known /\ drop THEN Forget(ip) ELSE Keep
  /\ active_total' = active_total - 1
  /\ task' = [task EXCEPT ![c] = None]
  /\ UNCHANGED <<clockVars, jobVars, loopVars, admitted>>

\* zone_job returns; asked to exit on completion, it ends the process itself.
JobReturns ==
  /\ Up /\ job = "running"
  /\ job' = "finished"
  /\ UNCHANGED <<clockVars, loopVars, limVars>>
JobExits ==
  /\ Up /\ job = "running" /\ ExitOnComplete
  /\ job' = "finished" /\ pc' = "exited"
  /\ UNCHANGED <<clockVars, sock, from, limVars>>

Tick ==
  /\ Up /\ now < MaxTime
  /\ now' = now + 1
  /\ mark' = [ip \in Ips |-> [mark[ip] EXCEPT ![now + 1] = admitted[ip]]]
  /\ UNCHANGED <<jobVars, loopVars, limVars>>

Exited == ~Up /\ UNCHANGED vars

Next == \/ DenyMaxActive
        \/ \E c \in Conn, ip \in Ips : Accept(c, ip)
        \/ Deny \/ Admit \/ CheckJob
        \/ \E c \in Conn : Release(c)
        \/ JobReturns \/ JobExits \/ Tick \/ Exited

Spec == Init /\ [][Next]_vars

----------------------------------------------------------------------------
\* Every variable has the shape of the Rust state it stands for; a bucket
\* never owes a token and never holds more than the burst.
TypeOK ==
  /\ now \in 0..MaxTime
  /\ known \in SUBSET Ips
  /\ active \in [Ips -> Nat]
  /\ tokens \in [Ips -> 0..Burst]
  /\ last_refill \in [Ips -> 0..MaxTime]
  /\ active_total \in Nat
  /\ task \in [Conn -> Ips \cup {None}]
  /\ pc \in {"accept", "lock", "spawned", "exited"}
  /\ pc = "lock" => sock \in Conn /\ from \in Ips
  /\ job \in {"none", "running", "finished"}
  /\ admitted \in [Ips -> Nat]
  /\ mark \in [Ips -> [0..MaxTime -> Nat]]

\* The counters of the limiter are the tasks that run: no path of the loop or
\* of a task leaks a slot or gives one back twice.
CountsExact ==
  /\ active_total = Cardinality(Tasks)
  /\ \A ip \in Ips : active[ip] = Cardinality(TasksOf(ip))

\* The caps of try_acquire hold for the tasks that run, although the global
\* count is read before the lock is taken and buckets come and go.
CapsHold ==
  /\ Cardinality(Tasks) <= MaxActive
  /\ \A ip \in Ips : Cardinality(TasksOf(ip)) <= MaxPerIp

\* The token bucket: since the beginning of any tick t, an address was
\* admitted no more often than a full bucket and the refill rate allow,
\* across buckets that were dropped and created anew.
RateBound ==
  \A ip \in Ips : \A t \in 0..now :
     Unit * (admitted[ip] - mark[ip][t]) <= Burst + Rate * (now - t)

\* "if the zone job has completed and we were asked to exit, break out of the
\* accept loop".
ExitOnlyIfAsked == pc = "exited" => ExitOnComplete

----------------------------------------------------------------------------
(***************************************************************************)
(* The inductive invariant.  The bound of RateBound is shared between what *)
(* was admitted and what the bucket would hold now; a socket that waits    *)
(* for the lock has seen room under the global cap, and nobody else takes  *)
(* it.                                                                     *)
(***************************************************************************)
BucketBound ==
  \A ip \in Ips : \A t \in 0..now :
     /\ mark[ip][t] <= admitted[ip]
     /\ Unit * (admitted[ip] - mark[ip][t]) + Refilled(ip) <= Burst + Rate * (now - t)

SeenRoom == pc = "lock" => task[sock] = None /\ active_total < MaxActive

KnownOK == \A ip \in Ips : /\ ip \notin known => active[ip] = 0
                           /\ last_refill[ip] <= now

\* The state of the limiter is consistent with the tasks and with the history.
IInv == TypeOK /\ CountsExact /\ CapsHold /\ BucketBound /\ SeenRoom /\ KnownOK
=============================================================================
