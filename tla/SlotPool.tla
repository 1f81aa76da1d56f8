------------------------------ MODULE SlotPool ------------------------------
(***************************************************************************)
(* What the Jira limiter promises (docs/api.md): at most MaxConcurrent     *)
(* requests call Jira at a time, at most MaxQueue wait for a slot and only *)
(* while there is none; a waiter gets a slot or gives up.  No counters and *)
(* no wake-ups: JiraLimiter shows how the code obtains this from them.     *)
(***************************************************************************)
EXTENDS Integers, FiniteSets

CONSTANTS Requests, MaxConcurrent, MaxQueue

VARIABLES holders,   \* requests that may call Jira
          queued     \* requests waiting for a slot

poolVars == <<holders, queued>>

PoolInit == holders = {} /\ queued = {}

(* A new request, or one that waited, gets a free slot. *)
Acquire(r) ==
    /\ r \notin holders
    /\ Cardinality(holders) < MaxConcurrent
    /\ holders' = holders \cup {r}
    /\ queued' = queued \ {r}

Wait(r) ==
    /\ r \notin holders \cup queued
    /\ Cardinality(holders) = MaxConcurrent
    /\ Cardinality(queued) < MaxQueue
    /\ queued' = queued \cup {r}
    /\ UNCHANGED holders

GiveUp(r) ==
    /\ r \in queued
    /\ queued' = queued \ {r}
    /\ UNCHANGED holders

Return(r) ==
    /\ r \in holders
    /\ holders' = holders \ {r}
    /\ UNCHANGED queued

PoolNext == \E r \in Requests : Acquire(r) \/ Wait(r) \/ GiveUp(r) \/ Return(r)

PoolSpec == PoolInit /\ [][PoolNext]_poolVars
=============================================================================
