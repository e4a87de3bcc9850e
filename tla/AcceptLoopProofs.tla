-------------------------- MODULE AcceptLoopProofs --------------------------
(***************************************************************************)
(* Proofs about AcceptLoop, for any addresses, sockets, limits and rates.  *)
(***************************************************************************)
EXTENDS AcceptLoop, FiniteSetTheorems, TLAPS

\* A socket entering or leaving a finite set changes its size by one.
LEMMA CardStep ==
  ASSUME NEW S, IsFiniteSet(S), NEW c
  PROVE  /\ Cardinality(S) \in Nat
         /\ IsFiniteSet(S \cup {c}) /\ IsFiniteSet(S \ {c})
         /\ c \notin S => Cardinality(S \cup {c}) = Cardinality(S) + 1
         /\ c \in S => Cardinality(S \ {c}) = Cardinality(S) - 1
         /\ c \in S => Cardinality(S) >= 1
<1>1. Cardinality(S) \in Nat
  BY FS_CardinalityType
<1>2. /\ IsFiniteSet(S \cup {c})
      /\ Cardinality(S \cup {c}) = IF c \in S THEN Cardinality(S) ELSE Cardinality(S) + 1
  BY FS_AddElement
<1>3. /\ IsFiniteSet(S \ {c})
      /\ Cardinality(S \ {c}) = IF c \in S THEN Cardinality(S) - 1 ELSE Cardinality(S)
  BY FS_RemoveElement
<1>4. Cardinality(S \ {c}) \in Nat
  BY <1>3, FS_CardinalityType
<1> QED
  BY <1>1, <1>2, <1>3, <1>4

\* The sets of tasks are sets of sockets, hence finite.
LEMMA TasksFinite ==
  IsFiniteSet(Tasks) /\ \A ip \in Ips : IsFiniteSet(TasksOf(ip))
<1>1. Tasks \subseteq Conn /\ \A ip \in Ips : TasksOf(ip) \subseteq Conn
  BY DEF Tasks, TasksOf
<1> QED
  BY <1>1, ConnAssumption, FS_Subset

\* One tick more is one refill more.
LEMMA RateStep ==
  ASSUME NEW d \in Int
  PROVE  /\ Rate * d \in Int
         /\ Rate * (d + 1) = Rate * d + Rate
         /\ d >= 0 => Rate * d >= 0
  BY LimitAssumption

\* A bucket holds between nothing and the burst, refilled or not.
LEMMA RefilledType ==
  ASSUME TypeOK, KnownOK, NEW ip \in Ips
  PROVE  Refilled(ip) \in 0..Burst
<1>1. /\ now - last_refill[ip] \in Int /\ now - last_refill[ip] >= 0
      /\ tokens[ip] \in 0..Burst
  BY TimeAssumption DEF TypeOK, KnownOK
<1>2. Rate * (now - last_refill[ip]) \in Int /\ Rate * (now - last_refill[ip]) >= 0
  BY <1>1, RateStep
<1>3. Burst \in Nat
  BY LimitAssumption
<1> DEFINE g == Rate * (now - last_refill[ip])
<1> HIDE DEF g
<1>4. g \in Int /\ g >= 0
  BY <1>2 DEF g
<1>5. Refilled(ip) = IF ip \in known /\ tokens[ip] + g < Burst THEN tokens[ip] + g ELSE Burst
  BY DEF Refilled, g
<1> QED
  BY <1>1, <1>3, <1>4, <1>5

\* The controller starts with no task and no bucket.
LEMMA InitOK == Init => IInv
<1> SUFFICES ASSUME Init PROVE IInv
  OBVIOUS
<1> USE LimitAssumption, TimeAssumption, ConnAssumption
<1>1. TypeOK
  BY DEF Init, TypeOK
<1>2. Tasks = {} /\ \A ip \in Ips : TasksOf(ip) = {}
  <2>1. \A c \in Conn : task[c] = None
    BY DEF Init
  <2>2. Tasks = {}
    BY <2>1 DEF Tasks
  <2>3. ASSUME NEW ip \in Ips PROVE TasksOf(ip) = {}
    <3>1. ip # None
      BY ConnAssumption
    <3> QED
      BY <2>1, <3>1 DEF TasksOf
  <2> QED
    BY <2>2, <2>3
<1>3. CountsExact /\ CapsHold
  <2>1. Cardinality({}) = 0
    BY FS_EmptySet
  <2>2. Cardinality(Tasks) = 0 /\ \A ip \in Ips : Cardinality(TasksOf(ip)) = 0
    BY <1>2, <2>1
  <2>3. active_total = 0 /\ \A ip \in Ips : active[ip] = 0
    BY DEF Init
  <2> QED
    BY <2>2, <2>3 DEF CountsExact, CapsHold
<1>4. SeenRoom /\ KnownOK
  BY DEF Init, SeenRoom, KnownOK
<1>5. BucketBound
  <2> SUFFICES ASSUME NEW ip \in Ips, NEW t \in 0..now
               PROVE  /\ mark[ip][t] <= admitted[ip]
                      /\ Unit * (admitted[ip] - mark[ip][t]) + Refilled(ip)
                           <= Burst + Rate * (now - t)
    BY DEF BucketBound
  <2>1. now = 0 /\ t = 0 /\ admitted[ip] = 0 /\ mark[ip][t] = 0
    BY DEF Init
  <2>2. Refilled(ip) = Burst
    BY DEF Init, Refilled
  <2> QED
    BY <2>1, <2>2
<1> QED
  BY <1>1, <1>3, <1>4, <1>5 DEF IInv

\* A step that leaves the limiter and the clock alone, and does not enter the
\* critical section, keeps the invariant.
LEMMA Idle ==
  ASSUME IInv, UNCHANGED <<clockVars, limVars>>,
         pc' \in {"accept", "lock", "spawned", "exited"},
         pc' = "lock" => /\ sock' \in Conn /\ from' \in Ips
                         /\ task[sock'] = None /\ active_total < MaxActive,
         job' \in {"none", "running", "finished"}
  PROVE  IInv'
<1>1. TypeOK'
  BY DEF IInv, TypeOK, clockVars, limVars
<1>2. CountsExact' /\ CapsHold'
  BY DEF IInv, CountsExact, CapsHold, Tasks, TasksOf, limVars
<1>3. BucketBound' /\ KnownOK'
  BY DEF IInv, BucketBound, KnownOK, Refilled, clockVars, limVars
<1>4. SeenRoom'
  BY DEF SeenRoom, limVars
<1> QED
  BY <1>1, <1>2, <1>3, <1>4 DEF IInv

\* The refill of one bucket, whether the connection is admitted or not,
\* spends Unit parts per admission and moves no bound.
LEMMA BucketSpend ==
  ASSUME IInv, NEW ip \in Ips, NEW n \in {0, 1},
         Refilled(ip) >= Unit * n,
         known' = known \cup {ip},
         tokens' = [tokens EXCEPT ![ip] = Refilled(ip) - Unit * n],
         last_refill' = [last_refill EXCEPT ![ip] = now],
         admitted' = [admitted EXCEPT ![ip] = @ + n],
         UNCHANGED clockVars
  PROVE  BucketBound'
<1> USE LimitAssumption, TimeAssumption
<1> SUFFICES ASSUME NEW q \in Ips, NEW t \in 0..now
             PROVE  /\ mark[q][t] <= admitted'[q]
                    /\ Unit * (admitted'[q] - mark[q][t]) + Refilled(q)'
                         <= Burst + Rate * (now - t)
  BY DEF BucketBound, clockVars
<1>0. /\ mark[q][t] <= admitted[q]
      /\ Unit * (admitted[q] - mark[q][t]) + Refilled(q) <= Burst + Rate * (now - t)
  BY DEF IInv, BucketBound
<1>r. Refilled(q) \in 0..Burst
  BY RefilledType DEF IInv
<1>t. /\ now \in Nat /\ t \in 0..MaxTime /\ t <= now
      /\ mark[q][t] \in Nat /\ admitted[q] \in Nat /\ Refilled(q) \in 0..Burst
  <2>1. /\ now \in 0..MaxTime /\ admitted \in [Ips -> Nat]
        /\ mark \in [Ips -> [0..MaxTime -> Nat]]
    BY DEF IInv, TypeOK
  <2>2. t \in 0..MaxTime /\ t <= now /\ now \in Nat
    BY <2>1
  <2>3. mark[q] \in [0..MaxTime -> Nat]
    BY <2>1
  <2> QED
    BY <1>r, <2>1, <2>2, <2>3
<1>1. CASE q = ip
  <2>1. admitted'[q] = admitted[q] + n
    BY <1>1 DEF IInv, TypeOK
  <2>2. /\ q \in known'
        /\ tokens'[q] = Refilled(q) - Unit * n
        /\ last_refill'[q] = now /\ now' = now
    BY <1>1 DEF IInv, TypeOK, clockVars
  <2>3. Rate * (now - now) = 0
    BY <1>t
  <2>4. Refilled(q)' <= Refilled(q) - Unit * n
    <3>1. Refilled(q)' = IF tokens'[q] + Rate * (now - now) < Burst
                         THEN tokens'[q] + Rate * (now - now) ELSE Burst
      BY <2>2 DEF Refilled
    <3> QED
      BY <3>1, <2>2, <2>3, <1>t, <1>1
  <2>5. Unit * (admitted'[q] - mark[q][t]) = Unit * (admitted[q] - mark[q][t]) + Unit * n
    BY <2>1, <1>t
  <2>6. Refilled(q)' \in Int
    <3>1. Refilled(q)' = IF tokens'[q] + Rate * (now - now) < Burst
                         THEN tokens'[q] + Rate * (now - now) ELSE Burst
      BY <2>2 DEF Refilled
    <3> QED
      BY <3>1, <2>2, <2>3, <1>t, <1>1
  <2> DEFINE x == Unit * (admitted[q] - mark[q][t])
             y == Rate * (now - t)
             z == Unit * n
  <2>7. x \in Int /\ y \in Int /\ z \in Int
    BY <1>t
  <2> HIDE DEF x, y, z
  <2>8. x + Refilled(q) <= Burst + y
    BY <1>0 DEF x, y
  <2>9. x + z + Refilled(q)' <= Burst + y
    BY <2>4, <2>6, <2>7, <2>8, <1>t DEF z
  <2> QED
    BY <2>9, <2>5, <2>1, <1>0, <1>t DEF x, y, z
<1>2. CASE q # ip
  <2>1. /\ admitted'[q] = admitted[q] /\ tokens'[q] = tokens[q]
        /\ last_refill'[q] = last_refill[q] /\ (q \in known' <=> q \in known)
        /\ now' = now
    BY <1>2 DEF IInv, TypeOK, clockVars
  <2>2. Refilled(q)' = Refilled(q)
    BY <2>1 DEF Refilled
  <2> QED
    BY <2>1, <2>2, <1>0
<1> QED
  BY <1>1, <1>2

LEMMA DenyStep == ASSUME IInv, Deny PROVE IInv'
<1> USE LimitAssumption, TimeAssumption
<1>a. from \in Ips /\ now \in 0..MaxTime
  BY DEF IInv, TypeOK, Deny
<1>0. from \in Ips /\ Refilled(from) \in 0..Burst /\ now \in 0..MaxTime
  BY <1>a, RefilledType DEF IInv
<1>1. TypeOK'
  BY <1>0 DEF IInv, TypeOK, Deny, clockVars, jobVars
<1>2. CountsExact' /\ CapsHold'
  BY DEF IInv, CountsExact, CapsHold, Tasks, TasksOf, Deny
<1>3. BucketBound'
  <2>1. /\ Unit * 0 = 0 /\ Refilled(from) - Unit * 0 = Refilled(from)
        /\ admitted' = [admitted EXCEPT ![from] = @ + 0]
    BY <1>0 DEF IInv, TypeOK, Deny
  <2>2. /\ known' = known \cup {from}
        /\ tokens' = [tokens EXCEPT ![from] = Refilled(from) - Unit * 0]
        /\ last_refill' = [last_refill EXCEPT ![from] = now]
        /\ UNCHANGED clockVars
    BY <2>1 DEF Deny
  <2>3. Refilled(from) >= Unit * 0
    BY <1>0, <2>1
  <2> QED
    BY <1>0, <2>1, <2>2, <2>3, BucketSpend
<1>4. SeenRoom'
  BY DEF SeenRoom, Deny
<1>5. KnownOK'
  BY <1>0 DEF IInv, TypeOK, KnownOK, Deny, clockVars
<1> QED
  BY <1>1, <1>2, <1>3, <1>4, <1>5 DEF IInv

LEMMA AdmitStep == ASSUME IInv, Admit PROVE IInv'
<1> USE LimitAssumption, TimeAssumption
<1>a. /\ from \in Ips /\ sock \in Conn
      /\ now \in 0..MaxTime /\ task[sock] = None /\ active_total < MaxActive
  BY DEF IInv, TypeOK, Admit, SeenRoom
<1>f. PICK f \in Ips, k \in Conn : f = from /\ k = sock
  BY <1>a
<1>r. Refilled(f) \in 0..Burst
  BY RefilledType DEF IInv
<1>0. /\ now \in 0..MaxTime /\ task[k] = None /\ active_total < MaxActive
      /\ Refilled(f) >= Unit /\ active[f] < MaxPerIp
      /\ known' = known \cup {f}
      /\ tokens' = [tokens EXCEPT ![f] = Refilled(f) - Unit]
      /\ last_refill' = [last_refill EXCEPT ![f] = now]
      /\ active' = [active EXCEPT ![f] = @ + 1]
      /\ active_total' = active_total + 1
      /\ task' = [task EXCEPT ![k] = f]
      /\ admitted' = [admitted EXCEPT ![f] = @ + 1]
      /\ pc' = "spawned" /\ UNCHANGED <<now, mark, job>>
  BY <1>a, <1>f DEF Admit, clockVars, jobVars
<1>1. TypeOK'
  <2>1. active' \in [Ips -> Nat] /\ active_total' \in Nat /\ admitted' \in [Ips -> Nat]
    BY <1>0 DEF IInv, TypeOK
  <2>2. Refilled(f) - Unit \in 0..Burst
    BY <1>0, <1>r
  <2>3. /\ known' \in SUBSET Ips /\ tokens' \in [Ips -> 0..Burst]
        /\ last_refill' \in [Ips -> 0..MaxTime]
    BY <1>0, <2>2 DEF IInv, TypeOK
  <2>4. task' \in [Conn -> Ips \cup {None}]
    BY <1>0 DEF IInv, TypeOK
  <2> QED
    BY <2>1, <2>3, <2>4, <1>0 DEF IInv, TypeOK
<1>2. /\ Tasks' = Tasks \cup {k} /\ k \notin Tasks
      /\ TasksOf(f)' = TasksOf(f) \cup {k} /\ k \notin TasksOf(f)
      /\ \A ip \in Ips \ {f} : TasksOf(ip)' = TasksOf(ip)
  <2>1. task \in [Conn -> Ips \cup {None}]
    BY DEF IInv, TypeOK
  <2>2. /\ f # None /\ task'[k] = f
        /\ \A d \in Conn \ {k} : task'[d] = task[d]
    BY <2>1, <1>0, ConnAssumption
  <2>3. Tasks' = Tasks \cup {k} /\ k \notin Tasks
    BY <2>2, <1>0 DEF Tasks
  <2>4. TasksOf(f)' = TasksOf(f) \cup {k} /\ k \notin TasksOf(f)
    BY <2>2, <1>0 DEF TasksOf
  <2>5. \A ip \in Ips \ {f} : TasksOf(ip)' = TasksOf(ip)
    <3> TAKE ip \in Ips \ {f}
    <3>1. ip # None
      BY ConnAssumption
    <3> QED
      BY <2>2, <3>1, <1>0 DEF TasksOf
  <2> QED
    BY <2>3, <2>4, <2>5
<1>3. /\ Cardinality(Tasks') = Cardinality(Tasks) + 1
      /\ Cardinality(TasksOf(f)') = Cardinality(TasksOf(f)) + 1
  BY <1>2, TasksFinite, CardStep
<1>4. CountsExact'
  BY <1>0, <1>2, <1>3 DEF IInv, TypeOK, CountsExact
<1>5. CapsHold'
  <2>1. /\ Cardinality(Tasks') <= MaxActive
        /\ Cardinality(TasksOf(f)') <= MaxPerIp
    <3>1. /\ active_total \in Nat /\ active[f] \in Nat
          /\ active_total = Cardinality(Tasks) /\ active[f] = Cardinality(TasksOf(f))
      BY DEF IInv, TypeOK, CountsExact
    <3> QED
      BY <3>1, <1>0, <1>3
  <2> QED
    BY <2>1, <1>2 DEF IInv, CapsHold
<1>6. BucketBound'
  <2>1. Unit * 1 = Unit
    OBVIOUS
  <2> QED
    BY <1>0, <2>1, BucketSpend DEF clockVars
<1>7. SeenRoom'
  BY <1>0 DEF SeenRoom
<1>8. KnownOK'
  BY <1>0 DEF IInv, TypeOK, KnownOK
<1> QED
  BY <1>1, <1>4, <1>5, <1>6, <1>7, <1>8 DEF IInv

\* A bucket that is dropped was full, and a new one starts full.
LEMMA ReleaseStep == ASSUME IInv, NEW c \in Conn, Release(c) PROVE IInv'
<1> USE LimitAssumption, TimeAssumption
<1>i. PICK ip \in Ips : ip = task[c]
  BY DEF IInv, TypeOK, Release
<1>0. /\ c \in Tasks /\ c \in TasksOf(ip) /\ now \in 0..MaxTime
      /\ active[ip] \in Nat /\ active_total \in Nat /\ tokens[ip] \in 0..Burst
  BY <1>i, ConnAssumption DEF IInv, TypeOK, Tasks, TasksOf
<1>1. /\ Tasks' = Tasks \ {c}
      /\ TasksOf(ip)' = TasksOf(ip) \ {c}
      /\ \A q \in Ips \ {ip} : TasksOf(q)' = TasksOf(q)
  <2>1. /\ task \in [Conn -> Ips \cup {None}]
        /\ task' = [task EXCEPT ![c] = None]
    BY DEF IInv, TypeOK, Release
  <2>2. task'[c] = None /\ \A d \in Conn \ {c} : task'[d] = task[d]
    BY <2>1
  <2>3. \A q \in Ips : q # None
    BY ConnAssumption
  <2>4. Tasks' = Tasks \ {c}
    BY <2>2 DEF Tasks
  <2>5. TasksOf(ip)' = TasksOf(ip) \ {c}
    BY <2>2, <2>3 DEF TasksOf
  <2>6. \A q \in Ips \ {ip} : TasksOf(q)' = TasksOf(q)
    BY <2>2, <2>3, <1>i DEF TasksOf
  <2> QED
    BY <2>4, <2>5, <2>6
<1>2. /\ Cardinality(Tasks') = Cardinality(Tasks) - 1
      /\ Cardinality(TasksOf(ip)') = Cardinality(TasksOf(ip)) - 1
      /\ Cardinality(Tasks) >= 1 /\ Cardinality(TasksOf(ip)) >= 1
      /\ Cardinality(Tasks) \in Nat /\ Cardinality(TasksOf(ip)) \in Nat
  BY <1>0, <1>1, TasksFinite, CardStep
<1>3. active_total >= 1 /\ active[ip] >= 1
  BY <1>0, <1>2 DEF IInv, CountsExact
<1>a. /\ active' = [active EXCEPT ![ip] = @ - 1]
      /\ active_total' = active_total - 1
      /\ task' = [task EXCEPT ![c] = None]
      /\ UNCHANGED <<now, mark, job, pc, sock, from, admitted>>
  <2>1. active' = [active EXCEPT ![ip] = IF @ > 0 THEN @ - 1 ELSE 0]
    BY <1>i DEF Release
  <2>2. active' = [active EXCEPT ![ip] = @ - 1]
    <3>1. (IF active[ip] > 0 THEN active[ip] - 1 ELSE 0) = active[ip] - 1
      BY <1>3, <1>0
    <3> QED
      BY <2>1, <3>1
  <2> QED
    BY <2>2 DEF Release, clockVars, jobVars, loopVars
<1>b. \/ active[ip] <= 1 /\ tokens[ip] >= Burst /\ Forget(ip)
      \/ Keep
  BY <1>i DEF Release
<1>4. TypeOK'
  <2>1. active' \in [Ips -> Nat] /\ active_total' \in Nat
    BY <1>0, <1>3, <1>a DEF IInv, TypeOK
  <2>2. /\ known' \in SUBSET Ips /\ tokens' \in [Ips -> 0..Burst]
        /\ last_refill' \in [Ips -> 0..MaxTime]
    <3>1. /\ known \in SUBSET Ips /\ tokens \in [Ips -> 0..Burst]
          /\ last_refill \in [Ips -> 0..MaxTime] /\ 0 \in 0..Burst /\ 0 \in 0..MaxTime
      BY DEF IInv, TypeOK
    <3>2. CASE Keep
      BY <3>1, <3>2 DEF Keep
    <3>3. CASE Forget(ip)
      BY <3>1, <3>3 DEF Forget
    <3> QED
      BY <3>2, <3>3, <1>b
  <2>3. task' \in [Conn -> Ips \cup {None}]
    BY <1>a DEF IInv, TypeOK
  <2> QED
    BY <2>1, <2>2, <2>3, <1>a DEF IInv, TypeOK
<1>5. CountsExact'
  BY <1>0, <1>1, <1>2, <1>a DEF IInv, TypeOK, CountsExact
<1>6. CapsHold'
  BY <1>0, <1>1, <1>2 DEF IInv, CapsHold
<1>7. SeenRoom'
  BY <1>0, <1>a DEF IInv, TypeOK, SeenRoom
<1>8. KnownOK'
  <2>1. /\ active \in [Ips -> Nat] /\ last_refill \in [Ips -> 0..MaxTime]
        /\ \A q \in Ips : (q \notin known => active[q] = 0) /\ last_refill[q] <= now
        /\ ip \in known
    BY <1>3 DEF IInv, TypeOK, KnownOK
  <2>2. CASE Keep
    BY <2>1, <2>2, <1>a DEF KnownOK, Keep
  <2>3. CASE active[ip] <= 1 /\ Forget(ip)
    <3> SUFFICES ASSUME NEW q \in Ips
                 PROVE  (q \notin known' => active'[q] = 0) /\ last_refill'[q] <= now
      BY <1>a DEF KnownOK
    <3>1. CASE q = ip
      BY <3>1, <2>1, <2>3, <1>a, <1>0, <1>3 DEF Forget
    <3>2. CASE q # ip
      BY <3>2, <2>1, <2>3, <1>a DEF Forget
    <3> QED
      BY <3>1, <3>2
  <2> QED
    BY <2>2, <2>3, <1>b
<1>9. BucketBound'
  <2>1. ASSUME NEW q \in Ips PROVE Refilled(q)' = Refilled(q)
    <3>1. CASE Keep
      BY <3>1, <1>a DEF Keep, Refilled
    <3>2. CASE active[ip] <= 1 /\ tokens[ip] >= Burst /\ Forget(ip)
      <4>1. CASE q # ip
        <5>1. /\ tokens'[q] = tokens[q] /\ last_refill'[q] = last_refill[q]
              /\ (q \in known' <=> q \in known) /\ now' = now
          BY <3>2, <4>1, <1>a DEF Forget, IInv, TypeOK
        <5> QED
          BY <5>1 DEF Refilled
      <4>2. CASE q = ip
        <5>1. Refilled(q)' = Burst
          BY <3>2, <4>2 DEF Forget, Refilled
        <5>2. Refilled(q) = Burst
          <6>1. now - last_refill[q] \in Int /\ now - last_refill[q] >= 0
            <7>1. last_refill[q] \in 0..MaxTime
              BY DEF IInv, TypeOK
            <7>2. last_refill[q] <= now
              BY DEF IInv, KnownOK
            <7> QED
              BY <7>1, <7>2, <1>0
          <6>2. Rate * (now - last_refill[q]) \in Int /\ Rate * (now - last_refill[q]) >= 0
            BY <6>1, RateStep
          <6> DEFINE g == Rate * (now - last_refill[q])
          <6> HIDE DEF g
          <6>3. ~(tokens[q] + g < Burst)
            BY <6>2, <3>2, <4>2, <1>0 DEF g
          <6> QED
            BY <6>3 DEF Refilled, g
        <5> QED
          BY <5>1, <5>2
      <4> QED
        BY <4>1, <4>2
    <3> QED
      BY <3>1, <3>2, <1>b
  <2> QED
    BY <2>1, <1>a DEF IInv, BucketBound
<1> QED
  BY <1>4, <1>5, <1>6, <1>7, <1>8, <1>9 DEF IInv

\* A tick adds at most Rate parts to a bucket, and starts a window.
LEMMA TickStep == ASSUME IInv, Tick PROVE IInv'
<1> USE LimitAssumption, TimeAssumption
<1>0. /\ now \in 0..MaxTime /\ now + 1 \in 0..MaxTime /\ now' = now + 1
      /\ UNCHANGED <<known, active, tokens, last_refill, active_total, task, admitted>>
      /\ UNCHANGED <<job, pc, sock, from>>
  BY DEF IInv, TypeOK, Tick, limVars, loopVars, jobVars
<1>m. \A q \in Ips : mark'[q] = [mark[q] EXCEPT ![now + 1] = admitted[q]]
  BY DEF Tick
<1>1. TypeOK'
  <2>1. mark' \in [Ips -> [0..MaxTime -> Nat]]
    BY <1>0 DEF IInv, TypeOK, Tick
  <2> QED
    BY <2>1, <1>0 DEF IInv, TypeOK
<1>2. CountsExact' /\ CapsHold' /\ SeenRoom'
  BY <1>0 DEF IInv, CountsExact, CapsHold, SeenRoom, Tasks, TasksOf
<1>3. KnownOK'
  BY <1>0 DEF IInv, TypeOK, KnownOK
<1>4. ASSUME NEW q \in Ips
      PROVE  /\ Refilled(q) \in 0..Burst /\ Refilled(q)' \in 0..Burst
             /\ Refilled(q)' <= Refilled(q) + Rate
  <2>1. Refilled(q) \in 0..Burst
    BY RefilledType DEF IInv
  <2>2. now - last_refill[q] \in Int /\ now - last_refill[q] >= 0
    BY <1>0 DEF IInv, TypeOK, KnownOK
  <2> DEFINE g == Rate * (now - last_refill[q])
             h == Rate * ((now + 1) - last_refill[q])
  <2>3. g \in Int /\ g >= 0 /\ h = g + Rate
    <3>1. (now + 1) - last_refill[q] = (now - last_refill[q]) + 1
      BY <1>0 DEF IInv, TypeOK
    <3> QED
      BY <3>1, <2>2, RateStep
  <2>4. /\ Refilled(q) = IF q \in known /\ tokens[q] + g < Burst THEN tokens[q] + g ELSE Burst
        /\ Refilled(q)' = IF q \in known /\ tokens[q] + h < Burst THEN tokens[q] + h ELSE Burst
    BY <1>0 DEF Refilled
  <2> HIDE DEF g, h
  <2>5. tokens[q] \in 0..Burst
    BY DEF IInv, TypeOK
  <2> QED
    BY <2>1, <2>3, <2>4, <2>5
<1>5. BucketBound'
  <2> SUFFICES ASSUME NEW q \in Ips, NEW t \in 0..(now + 1)
               PROVE  /\ mark'[q][t] <= admitted[q]
                      /\ Unit * (admitted[q] - mark'[q][t]) + Refilled(q)'
                           <= Burst + Rate * ((now + 1) - t)
    BY <1>0 DEF BucketBound
  <2>0. /\ admitted[q] \in Nat /\ mark[q] \in [0..MaxTime -> Nat] /\ t \in 0..MaxTime
        /\ t \in Nat /\ now \in Nat
    BY <1>0 DEF IInv, TypeOK
  <2>1. CASE t = now + 1
    <3>1. mark'[q][t] = admitted[q]
      BY <2>1, <2>0, <1>m
    <3>2. /\ Unit * (admitted[q] - mark'[q][t]) = 0
          /\ Rate * ((now + 1) - t) = 0
      <4>1. admitted[q] - mark'[q][t] = 0 /\ (now + 1) - t = 0
        BY <3>1, <2>1, <2>0
      <4> QED
        BY <4>1
    <3> QED
      BY <3>1, <3>2, <2>0, <1>4
  <2>2. CASE t # now + 1
    <3>0. t \in 0..now
      BY <2>2, <2>0
    <3>1. t \in 0..now /\ mark'[q][t] = mark[q][t]
      BY <3>0, <2>2, <2>0, <1>m
    <3>2. /\ mark[q][t] <= admitted[q]
          /\ Unit * (admitted[q] - mark[q][t]) + Refilled(q) <= Burst + Rate * (now - t)
      BY <3>1 DEF IInv, BucketBound
    <3>3. /\ Rate * (now - t) \in Int
          /\ Rate * ((now + 1) - t) = Rate * (now - t) + Rate
      <4>1. now - t \in Int /\ (now + 1) - t = (now - t) + 1
        BY <2>0
      <4> QED
        BY <4>1, RateStep
    <3>4. Unit * (admitted[q] - mark[q][t]) \in Int
      BY <2>0, <3>1
    <3> DEFINE x == Unit * (admitted[q] - mark[q][t])
               y == Rate * (now - t)
    <3> HIDE DEF x, y
    <3>5. x + Refilled(q)' <= Burst + (y + Rate)
      BY <3>2, <3>3, <3>4, <1>4 DEF x, y
    <3> QED
      BY <3>1, <3>2, <3>3, <3>5 DEF x, y
  <2> QED
    BY <2>1, <2>2
<1> QED
  BY <1>1, <1>2, <1>3, <1>5 DEF IInv

LEMMA NextStep == IInv /\ [Next]_vars => IInv'
<1> SUFFICES ASSUME IInv, [Next]_vars PROVE IInv'
  OBVIOUS
<1>0. /\ pc \in {"accept", "lock", "spawned", "exited"}
      /\ job \in {"none", "running", "finished"}
      /\ pc = "lock" => /\ sock \in Conn /\ from \in Ips
                        /\ task[sock] = None /\ active_total < MaxActive
  BY DEF IInv, TypeOK, SeenRoom
<1>1. CASE UNCHANGED vars
  BY <1>0, <1>1, Idle DEF vars, jobVars, loopVars
<1>2. CASE DenyMaxActive \/ Exited
  BY <1>0, <1>2, Idle DEF DenyMaxActive, Exited, vars, jobVars, loopVars
<1>3. ASSUME NEW c \in Conn, NEW ip \in Ips, Accept(c, ip) PROVE IInv'
  BY <1>0, <1>3, Idle DEF Accept, jobVars
<1>4. CASE Deny
  BY <1>4, DenyStep
<1>5. CASE Admit
  BY <1>5, AdmitStep
<1>6. CASE CheckJob
  BY <1>0, <1>6, Idle DEF CheckJob, jobVars
<1>7. ASSUME NEW c \in Conn, Release(c) PROVE IInv'
  BY <1>7, ReleaseStep
<1>8. CASE JobReturns
  BY <1>0, <1>8, Idle DEF JobReturns, loopVars
<1>9. CASE JobExits
  BY <1>0, <1>9, Idle DEF JobExits
<1>10. CASE Tick
  BY <1>10, TickStep
<1> QED
  BY <1>1, <1>2, <1>3, <1>4, <1>5, <1>6, <1>7, <1>8, <1>9, <1>10 DEF Next

\* The inductive invariant holds in every reachable state.
THEOREM LimiterInvariance == Spec => []IInv
  BY InitOK, NextStep, PTL DEF Spec

\* The counters of the limiter count the running tasks.
THEOREM CountersExact == Spec => []CountsExact
<1>1. IInv => CountsExact
  BY DEF IInv
<1> QED
  BY <1>1, LimiterInvariance, PTL

\* Neither cap of try_acquire is ever exceeded, for any limits.
THEOREM CapsAlwaysHold == Spec => []CapsHold
<1>1. IInv => CapsHold
  BY DEF IInv
<1> QED
  BY <1>1, LimiterInvariance, PTL

\* The token bucket bounds the admissions of any window of time.
THEOREM RateIsBounded == Spec => []RateBound
<1>1. IInv => RateBound
  <2> SUFFICES ASSUME IInv, NEW ip \in Ips, NEW t \in 0..now
               PROVE  Unit * (admitted[ip] - mark[ip][t]) <= Burst + Rate * (now - t)
    BY DEF RateBound
  <2>1. Unit * (admitted[ip] - mark[ip][t]) + Refilled(ip) <= Burst + Rate * (now - t)
    BY DEF IInv, BucketBound
  <2>2. Refilled(ip) \in 0..Burst
    BY RefilledType DEF IInv
  <2>3. /\ admitted[ip] \in Nat /\ mark[ip][t] \in Nat /\ now \in Nat /\ t \in Nat
        /\ Burst \in Nat
    BY LimitAssumption, TimeAssumption DEF IInv, TypeOK
  <2> DEFINE x == Unit * (admitted[ip] - mark[ip][t])
             y == Rate * (now - t)
  <2>4. x \in Int /\ y \in Int
    BY <2>3, LimitAssumption
  <2> HIDE DEF x, y
  <2>5. x <= Burst + y
    BY <2>1, <2>2, <2>3, <2>4 DEF x, y
  <2> QED
    BY <2>5 DEF x, y
<1> QED
  BY <1>1, LimiterInvariance, PTL
=============================================================================
