-------------------------------- MODULE Link --------------------------------
(***************************************************************************)
(* The connection between one registered worker and the controller, with   *)
(* its framing and its clocks: the select loop of swarm-worker's main, the *)
(* select loop of handle_session and the two reapers of zone_job.          *)
(*                                                                         *)
(* write_frame and read_frame (crates/swarm-proto/src/frame.rs) move a     *)
(* frame as units: the length, then the payload in parts.  A select loop   *)
(* polls its read_frame together with a timer or a channel; when another   *)
(* branch is taken first, the half-done read is dropped with the bytes it  *)
(* consumed, and the next read takes the rest of that frame for a length.  *)
(*                                                                         *)
(* Clocks count down in ticks.  A tick passes only when nothing that is    *)
(* due is left to do: local steps take no time, a frame takes up to Lag    *)
(* ticks, a prove takes what Proves allows.                                *)
(***************************************************************************)
EXTENDS Integers, Sequences

CONSTANTS
  HeartbeatSecs,  \* args.heartbeat_secs, in ticks
  Proves,         \* durations of a prove
  ShardDeadline,  \* args.shard_deadline
  Lag,            \* longest time a frame is on its way
  Parts,          \* payload parts of a long message (AssignShard, ShardDone)
  EvCap,          \* capacity of the evidence channel to the witness task
  MaxAssign       \* bound: assignments per behaviour

ASSUME LinkAssumption ==
  /\ HeartbeatSecs \in Nat /\ ShardDeadline \in Nat /\ Lag \in Nat
  /\ Proves \subseteq Nat /\ Proves # {}
  /\ Parts \in Nat \ {0} /\ EvCap \in Nat \ {0} /\ MaxAssign \in Nat

\* Variant: the grace is a single interval.
GraceOnce == IF HeartbeatSecs > 2 THEN HeartbeatSecs ELSE 2

Interval == IF HeartbeatSecs > 1 THEN HeartbeatSecs ELSE 1
Grace    == IF 2 * HeartbeatSecs > 2 THEN 2 * HeartbeatSecs ELSE 2

VARIABLES
  \* the worker
  wpc,            \* "select", "proving", "fanout", "ended"
  due, left,      \* to the next heartbeat, to the end of the prove
  wread,          \* the read_frame it polls
  \* its task for the witness controller
  evq, wit,       \* evidence queued; "up", "stalled", "ended"
  \* the session
  cpc, cread,
  pushq,          \* rx_to_session
  \* the wires
  toW, toC, lagW, lagC,
  \* roster entry and job
  enrolled,       \* the worker is in the roster
  age,            \* since last_seen
  reap,           \* the reaper's tick is due
  replica,        \* "none", "out", "answered", "failed", "dropped"
  dl,             \* to the deadline of the replica
  assigns,
  \* history
  absent,         \* ticks the worker was away from its select since last_seen
  lost,           \* sides that dropped a half-read frame
  broken,         \* sides that met a frame error
  verdict         \* why the reaper removed the worker: "none", "stale", "late"

workVars == <<wpc, due, left, wread, evq, wit>>
sessVars == <<cpc, cread, pushq>>
wireVars == <<toW, toC, lagW, lagC>>
jobVars  == <<enrolled, age, reap, replica, dl, assigns>>
histVars == <<absent, lost, broken, verdict>>
vars     == <<workVars, sessVars, wireVars, jobVars, histVars>>

----------------------------------------------------------------------------
Long    == {"assign", "done"}
Size(m) == IF m \in Long THEN Parts ELSE 1
Start   == [at |-> "start", m |-> "", left |-> 0]

\* write_frame: the length, then the payload.
Frame(m) == [i \in 1..(Size(m) + 1) |-> [m |-> m, i |-> i - 1]]

\* What one more unit makes of a read: it goes on, it has a frame, or it fails.
More(at, m, n) == [t |-> "more", m |-> m, rd |-> [at |-> at, m |-> m, left |-> n]]
Whole(m)       == [t |-> "frame", m |-> m, rd |-> Start]
FrameError     == [t |-> "error", m |-> "", rd |-> Start]

\* Variant: the length counts itself, so the read takes a unit too many.
read_frameLong(rd, u) ==
  CASE rd.at = "start" /\ u.i = 0  -> {More("payload", u.m, Size(u.m) + 1)}
    [] rd.at = "start" /\ u.i # 0  -> {FrameError}
    [] rd.at # "start" /\ rd.left > 1 -> {More(rd.at, rd.m, rd.left - 1)}
    [] rd.at # "start" /\ rd.left = 1 -> {Whole(rd.m)}

\* read_frame takes one more unit.  A length that is none may be too large, or
\* make it wait for a payload that does not decode.
read_frame(rd, u) ==
  CASE rd.at = "start" /\ u.i = 0  -> {More("payload", u.m, Size(u.m))}
    [] rd.at = "start" /\ u.i # 0  -> {FrameError} \cup {More("junk", "", n) : n \in 1..2}
    [] rd.at # "start" /\ rd.left > 1 -> {More(rd.at, rd.m, rd.left - 1)}
    [] rd.at = "payload" /\ rd.left = 1 -> {Whole(rd.m)}
    [] rd.at = "junk" /\ rd.left = 1 -> {FrameError}

\* A wire is empty at least every Lag ticks.
Rest(wire, lag) == IF Len(wire) = 1 THEN 0 ELSE lag

\* Taking another branch of the select drops the read.
Dropped(rd, side) == IF rd = Start THEN lost ELSE lost \cup {side}

Init ==
  /\ wpc = "select" /\ due = 0 /\ left = 0 /\ wread = Start
  /\ evq = 0 /\ wit \in {"up", "ended"}
  /\ cpc = "select" /\ cread = Start /\ pushq = <<>>
  /\ toW = <<>> /\ toC = <<>> /\ lagW = 0 /\ lagC = 0
  /\ enrolled = TRUE /\ age = 0 /\ reap = FALSE
  /\ replica = "none" /\ dl = 0 /\ assigns = 0
  /\ absent = 0 /\ lost = {} /\ broken = {} /\ verdict = "none"

----------------------------------------------------------------------------
(* The worker.                                                             *)

\* A frame written to a peer that is gone is lost or fails; a failed write ends
\* the writer.
WorkerWrites(m, pc) ==
  \/ /\ toC' = IF cpc = "ended" THEN toC ELSE toC \o Frame(m)
     /\ wpc' = pc
  \/ cpc = "ended" /\ wpc' = "ended" /\ UNCHANGED toC

\* The timer branch: a heartbeat, and the next one an interval from now
\* (MissedTickBehavior::Delay).
WorkerHeartbeat ==
  /\ wpc = "select" /\ due = 0
  /\ WorkerWrites("beat", "select") /\ due' = Interval
  /\ wread' = Start /\ lost' = Dropped(wread, "worker")
  /\ UNCHANGED <<left, evq, wit, sessVars, toW, lagW, lagC, jobVars, absent, broken, verdict>>

\* The read branch, polled after the timer.  An assignment is proved before
\* the loop goes on; an acknowledgement or a receipt is not followed by anything.
WorkerRead ==
  /\ wpc = "select" /\ due > 0 /\ toW # <<>>
  /\ \E r \in read_frame(wread, Head(toW)) :
       /\ wread' = r.rd
       /\ CASE r.t = "error" -> wpc' = "ended" /\ UNCHANGED left
            [] r.t = "frame" /\ r.m = "assign" -> wpc' = "proving" /\ left' \in Proves
            [] OTHER -> UNCHANGED <<wpc, left>>
       /\ broken' = IF r.t = "error" THEN broken \cup {"worker"} ELSE broken
  /\ toW' = Tail(toW) /\ lagW' = Rest(toW, lagW)
  /\ UNCHANGED <<due, evq, wit, sessVars, toC, lagC, jobVars, absent, lost, verdict>>

\* The prover returned: evidence to the witness first, if it failed the report.
ProveDone ==
  /\ wpc = "proving" /\ left = 0
  /\ wpc' = "fanout"
  /\ UNCHANGED <<due, left, wread, evq, wit, sessVars, wireVars, jobVars, histVars>>
ProveFailed ==
  /\ wpc = "proving" /\ left = 0
  /\ WorkerWrites("failed", "select")
  /\ UNCHANGED <<due, left, wread, evq, wit, sessVars, toW, lagW, lagC, jobVars, histVars>>

\* tx.send waits for room, or fails at once when the witness task is gone.
Fanout ==
  /\ wpc = "fanout"
  /\ wit = "ended" \/ evq < EvCap
  /\ evq' = IF wit = "ended" THEN evq ELSE evq + 1
  /\ WorkerWrites("done", "select")
  /\ UNCHANGED <<due, left, wread, wit, sessVars, toW, lagW, lagC, jobVars, histVars>>

\* The task of the witness controller, and a witness that stops reading or ends.
WitnessDrain ==
  /\ wit = "up" /\ evq > 0
  /\ evq' = evq - 1
  /\ UNCHANGED <<wpc, due, left, wread, wit, sessVars, wireVars, jobVars, histVars>>
WitnessFault ==
  /\ wit = "up" /\ wit' \in {"stalled", "ended"}
  /\ UNCHANGED <<wpc, due, left, wread, evq, sessVars, wireVars, jobVars, histVars>>

\* SIGINT is looked at in the select only; end of file after everything was read.
WorkerGoodbye ==
  /\ wpc = "select" /\ WorkerWrites("bye", "ended")
  /\ UNCHANGED <<due, left, wread, evq, wit, sessVars, toW, lagW, lagC, jobVars, histVars>>
WorkerEof ==
  /\ wpc = "select" /\ due > 0 /\ cpc = "ended" /\ toW = <<>>
  /\ wpc' = "ended"
  /\ UNCHANGED <<due, left, wread, evq, wit, sessVars, wireVars, jobVars, histVars>>

----------------------------------------------------------------------------
(* The session.                                                            *)

\* The end of a session that breaks out of its loop: the entry goes, and the
\* job hears of it and drops the replica.
Unenrol ==
  /\ enrolled' = FALSE
  /\ replica' = IF replica = "out" THEN "dropped" ELSE replica

SessionWrites(m) ==
  \/ /\ toW' = IF wpc = "ended" THEN toW ELSE toW \o Frame(m)
     /\ UNCHANGED cpc
  \/ wpc = "ended" /\ cpc' = "ended" /\ UNCHANGED toW

\* The push branch, polled first.
SessionPush ==
  /\ cpc = "select" /\ pushq # <<>>
  /\ pushq' = Tail(pushq)
  /\ SessionWrites(Head(pushq))
  /\ cread' = Start /\ lost' = Dropped(cread, "session")
  /\ UNCHANGED <<workVars, toC, lagW, lagC, jobVars, absent, broken, verdict>>
SessionClosed ==
  /\ cpc = "select" /\ pushq = <<>> /\ ~enrolled
  /\ cpc' = "ended"
  /\ UNCHANGED <<workVars, cread, pushq, wireVars, jobVars, histVars>>

\* Variant: a heartbeat is answered and not noted.
OnBeatUnnoted ==
  /\ UNCHANGED <<age, absent>>
  /\ SessionWrites("ack")
  /\ UNCHANGED <<pushq, enrolled, replica>>

\* What the session does with a whole frame; the job takes its events at once.
OnBeat ==
  /\ age' = 0 /\ absent' = 0
  /\ SessionWrites("ack")
  /\ UNCHANGED <<pushq, enrolled, replica>>
OnAnswer(m) ==
  /\ replica' = IF replica = "out" THEN (IF m = "done" THEN "answered" ELSE "failed")
                                   ELSE replica
  /\ pushq' = IF m = "done" /\ replica = "out" THEN Append(pushq, "receipt") ELSE pushq
  /\ UNCHANGED <<cpc, toW, enrolled, age, absent>>
OnGoodbye == cpc' = "ended" /\ Unenrol /\ UNCHANGED <<pushq, toW, age, absent>>

\* A frame error ends the session and leaves the roster entry behind.
SessionRead ==
  /\ cpc = "select" /\ pushq = <<>> /\ enrolled /\ toC # <<>>
  /\ \E r \in read_frame(cread, Head(toC)) :
       /\ cread' = r.rd
       /\ broken' = IF r.t = "error" THEN broken \cup {"session"} ELSE broken
       /\ \/ r.t = "more" /\ UNCHANGED <<cpc, pushq, toW, enrolled, age, absent, replica>>
          \/ r.t = "error" /\ cpc' = "ended" /\ UNCHANGED <<pushq, toW, enrolled, age, absent, replica>>
          \/ r.t = "frame" /\ r.m = "beat" /\ OnBeat
          \/ r.t = "frame" /\ r.m \in {"done", "failed"} /\ OnAnswer(r.m)
          \/ r.t = "frame" /\ r.m = "bye" /\ OnGoodbye
  /\ toC' = Tail(toC) /\ lagC' = Rest(toC, lagC)
  /\ UNCHANGED <<workVars, lagW, reap, dl, assigns, lost, verdict>>
SessionEof ==
  /\ cpc = "select" /\ pushq = <<>> /\ wpc = "ended" /\ toC = <<>>
  /\ cpc' = "ended" /\ Unenrol
  /\ UNCHANGED <<workVars, cread, pushq, wireVars, age, reap, dl, assigns, histVars>>

----------------------------------------------------------------------------
(* The job and the clock.                                                  *)

Assign ==
  /\ enrolled /\ replica # "out" /\ assigns < MaxAssign
  /\ pushq' = Append(pushq, "assign")
  /\ replica' = "out" /\ dl' = ShardDeadline + 1 /\ assigns' = assigns + 1
  /\ UNCHANGED <<workVars, cpc, cread, wireVars, enrolled, age, reap, histVars>>

\* Variant: only a worker that is stale is looked at for late replicas.
ReaperStaleOnly ==
  /\ reap /\ reap' = FALSE
  /\ LET stale == enrolled /\ age > Grace
     IN  /\ enrolled' = (enrolled /\ ~stale)
         /\ replica' = IF replica = "out" /\ stale THEN "dropped" ELSE replica
         /\ verdict' = IF stale THEN "stale" ELSE verdict
  /\ UNCHANGED <<workVars, sessVars, wireVars, age, dl, assigns, absent, lost, broken>>

\* Both reapers, on the controller's 500 ms tick.
Reaper ==
  /\ reap /\ reap' = FALSE
  /\ LET stale == enrolled /\ age > Grace
         late  == replica = "out" /\ dl = 0
     IN  /\ enrolled' = (enrolled /\ ~stale /\ ~late)
         /\ replica' = IF replica = "out" /\ (stale \/ late) THEN "dropped" ELSE replica
         /\ verdict' = IF stale THEN "stale" ELSE IF late THEN "late" ELSE verdict
  /\ UNCHANGED <<workVars, sessVars, wireVars, age, dl, assigns, absent, lost, broken>>

Down(n)  == IF n > 0 THEN n - 1 ELSE 0
Up(n, m) == IF n < m THEN n + 1 ELSE m
Idle ==
  /\ ~reap
  /\ wpc = "select" => due > 0 /\ (IF toW = <<>> THEN cpc # "ended" ELSE lagW < Lag)
  /\ wpc = "proving" => left > 0
  /\ wpc = "fanout" => wit # "ended" /\ evq >= EvCap
  /\ wit = "up" => evq = 0
  /\ cpc = "select" => pushq = <<>> /\ enrolled
                        /\ (IF toC = <<>> THEN wpc # "ended" ELSE lagC < Lag)
Tick ==
  /\ Idle
  /\ due' = IF wpc = "ended" THEN due ELSE Down(due)
  /\ left' = Down(left) /\ reap' = (enrolled \/ replica = "out")
  /\ dl' = IF replica = "out" THEN Down(dl) ELSE 0
  /\ age' = IF enrolled THEN Up(age, Grace + 1) ELSE age
  /\ lagW' = IF wpc = "select" /\ toW # <<>> THEN lagW + 1 ELSE lagW
  /\ lagC' = IF cpc = "select" /\ toC # <<>> THEN lagC + 1 ELSE lagC
  /\ absent' = IF enrolled /\ wpc \in {"proving", "fanout"} THEN Up(absent, Grace + 1)
                                                          ELSE absent
  /\ UNCHANGED <<wpc, wread, evq, wit, sessVars, toW, toC, enrolled, replica, assigns,
                 lost, broken, verdict>>

Worker  == WorkerHeartbeat \/ WorkerRead \/ ProveDone \/ ProveFailed \/ Fanout \/ WorkerEof
Session == SessionPush \/ SessionClosed \/ SessionRead \/ SessionEof
Next    == Worker \/ Session \/ WitnessDrain \/ WitnessFault \/ WorkerGoodbye
           \/ Assign \/ Reaper \/ Tick

Spec == Init /\ [][Next]_vars

\* The runtime polls every task that can run, and time passes.
FairSpec == /\ Spec
            /\ WF_vars(Worker) /\ WF_vars(Session) /\ WF_vars(WitnessDrain)
            /\ WF_vars(Reaper) /\ WF_vars(Tick)

----------------------------------------------------------------------------
Msgs  == {"assign", "receipt", "ack", "beat", "done", "failed", "bye"}
Units == {[m |-> m, i |-> i] : m \in Msgs, i \in 0..Parts}
Reads == [at : {"start", "payload", "junk"}, m : Msgs \cup {""}, left : 0..(Parts + 2)]

\* Every variable has the shape of the state it stands for, and the counters
\* stay within their clocks.
TypeOK ==
  /\ wpc \in {"select", "proving", "fanout", "ended"} /\ cpc \in {"select", "ended"}
  /\ due \in 0..Interval /\ left \in Nat /\ wread \in Reads /\ cread \in Reads
  /\ evq \in 0..EvCap /\ wit \in {"up", "stalled", "ended"}
  /\ pushq \in Seq({"assign", "receipt"})
  /\ toW \in Seq(Units) /\ toC \in Seq(Units) /\ lagW \in 0..Lag /\ lagC \in 0..Lag
  /\ enrolled \in BOOLEAN /\ reap \in BOOLEAN /\ age \in 0..(Grace + 1)
  /\ replica \in {"none", "out", "answered", "failed", "dropped"}
  /\ dl \in 0..(ShardDeadline + 1) /\ assigns \in 0..MaxAssign
  /\ absent \in 0..(Grace + 1)
  /\ lost \subseteq {"worker", "session"} /\ broken \subseteq {"worker", "session"}
  /\ verdict \in {"none", "stale", "late"}

\* The heartbeat reaper removes a worker that runs and whose stream is whole
\* only if its loop was away (proving, or waiting for a witness) for longer than
\* the grace leaves after one interval and the transit of a heartbeat.
HealthyKept ==
  (verdict = "stale" /\ wpc # "ended" /\ "session" \notin lost)
     => absent + Interval + Lag > Grace

\* A frame error comes only from a read that was dropped half-way: as long as no
\* branch of a select overtakes a read, both ends stay in step.
InStepUntilDropped == broken \subseteq lost

\* "Move proving to the blocking pool so heartbeats keep flowing on the async
\* runtime during long proves": no worker is found stale while it proves.
BeatsKeepFlowing == ~(verdict = "stale" /\ wpc = "proving" /\ lost = {})

\* A replica that was handed out is answered, failed or taken back, although
\* assignments may be lost with dropped reads and the worker may wait for a
\* witness that never reads.
ReplicaSettled == replica = "out" ~> replica # "out"
=============================================================================
