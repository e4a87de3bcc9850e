------------------------------ MODULE VotedJob ------------------------------
(***************************************************************************)
(* What the zone job promises, without workers, sessions, queues or clocks:*)
(* every shard gets at most K votes from different workers, is decided once*)
(* and for good when the K-th is in, by a strict majority of identical     *)
(* claims; without one the job is aborted; with all shards decided it is   *)
(* collected.  ZoneJob implements it.                                      *)
(***************************************************************************)
EXTENDS Integers, FiniteSets

CONSTANTS Ids, Shards, Claims, None, K

VARIABLES
  status,   \* "waiting", "voting", "collected", "aborted"
  n,        \* the shards are 1..n
  votes,    \* by shard and worker
  decided   \* by shard

vars == <<status, n, votes, decided>>

Init ==
  /\ status = "waiting" /\ n = 0
  /\ votes = [s \in Shards |-> [w \in Ids |-> None]]
  /\ decided = [s \in Shards |-> None]

\* The zone is split, or cannot be.
Split ==
  /\ status = "waiting"
  /\ \/ status' = "voting" /\ n' \in Shards
     \/ status' = "aborted" /\ UNCHANGED n
  /\ UNCHANGED <<votes, decided>>

Voters(v)   == {w \in Ids : v[w] # None}
For(v, c)   == {w \in Ids : v[w] = c}
Wins(v, c)  == 2 * Cardinality(For(v, c)) > K

\* A vote, and with the K-th of a shard its decision.
Vote(s, w, c) ==
  /\ status = "voting" /\ s \in 1..n
  /\ decided[s] = None /\ votes[s][w] = None
  /\ votes' = [votes EXCEPT ![s][w] = c]
  /\ LET v == votes'[s]
     IN  \/ /\ Cardinality(Voters(v)) < K
            /\ UNCHANGED <<status, decided>>
         \/ /\ Cardinality(Voters(v)) = K
            /\ \E d \in Claims : Wins(v, d) /\ decided' = [decided EXCEPT ![s] = d]
            /\ UNCHANGED status
         \/ /\ Cardinality(Voters(v)) = K
            /\ ~\E d \in Claims : Wins(v, d)
            /\ status' = "aborted" /\ UNCHANGED decided
  /\ UNCHANGED n

Finish ==
  /\ status = "voting"
  /\ \A s \in 1..n : decided[s] # None
  /\ status' = "collected"
  /\ UNCHANGED <<n, votes, decided>>

Next == Split \/ (\E s \in Shards, w \in Ids, c \in Claims : Vote(s, w, c)) \/ Finish

Spec == Init /\ [][Next]_vars
=============================================================================
