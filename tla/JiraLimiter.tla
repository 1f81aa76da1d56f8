---------------------------- MODULE JiraLimiter ----------------------------
(***************************************************************************)
(* JiraRequestLimiter.slot() in app/services/jira.py: the process-wide     *)
(* limit on simultaneous Jira calls, with a bounded queue whose waiters    *)
(* time out.  Each request runs in an asyncio task of its own; a task      *)
(* keeps the event loop between two awaits, so an action is what a task    *)
(* does from one suspension to the next.  The asyncio.Condition (Python    *)
(* 3.12, external) is its deque of waiting futures: notify(1) completes    *)
(* the first pending one, and a waiter that leaves with an exception       *)
(* passes a notification on.  The condition's lock is never held across a  *)
(* suspension, hence never contended.                                      *)
(***************************************************************************)
EXTENDS Integers, Sequences, FiniteSets

CONSTANTS Requests,       \* requests that reach the limiter
          MaxConcurrent,  \* JIRA_MAX_CONCURRENT_REQUESTS, at least 1
          MaxQueue        \* JIRA_MAX_QUEUE_SIZE, may be 0

ASSUME JiraLimiterAssumption ==
    /\ IsFiniteSet(Requests)
    /\ MaxConcurrent \in Nat \ {0}
    /\ MaxQueue \in Nat

VARIABLES
    pc,       \* pc[r]: "idle" outside slot(); "calling" inside its body;
              \* otherwise in Condition.wait() with a future that is pending,
              \* notified (completed) or interrupted (timer or cancellation)
    line,     \* the requests whose futures are pending, oldest first
    active,   \* self._active
    waiting   \* self._waiting

vars == <<pc, line, active, waiting>>

Locations == {"idle", "pending", "notified", "interrupted", "calling"}

TypeOK ==
    /\ pc \in [Requests -> Locations]
    /\ line \in Seq(Requests)
    /\ active \in Int
    /\ waiting \in Int

Init ==
    /\ pc = [r \in Requests |-> "idle"]
    /\ line = <<>>
    /\ active = 0
    /\ waiting = 0

-----------------------------------------------------------------------------
(* s without its i-th element. *)
Without(s, i) == [k \in 1 .. Len(s) - 1 |-> IF k < i THEN s[k] ELSE s[k + 1]]

(* Mutant of MoveAndNotify: the notification is forgotten. *)
MoveSilently(r, l) == pc' = [pc EXCEPT ![r] = l] /\ line' = line

(* Request r moves on to location l, and notify(1) completes the oldest *)
(* future that is still pending, if there is one.                       *)
MoveAndNotify(r, l) ==
    \/ /\ line = <<>>
       /\ pc' = [pc EXCEPT ![r] = l]
       /\ line' = line
    \/ /\ line # <<>>
       /\ pc' = [pc EXCEPT ![r] = l, ![Head(line)] = "notified"]
       /\ line' = Tail(line)

-----------------------------------------------------------------------------
(* A free slot is taken at once, also past waiters that were notified but *)
(* have not run yet.                                                      *)
EnterFree(r) ==
    /\ pc[r] = "idle"
    /\ active < MaxConcurrent
    /\ active' = active + 1
    /\ pc' = [pc EXCEPT ![r] = "calling"]
    /\ UNCHANGED <<line, waiting>>

(* Mutant of EnterLine: the queue takes one request too many. *)
EnterFullLine(r) ==
    /\ pc[r] = "idle"
    /\ active >= MaxConcurrent
    /\ waiting <= MaxQueue
    /\ waiting' = waiting + 1
    /\ pc' = [pc EXCEPT ![r] = "pending"]
    /\ line' = Append(line, r)
    /\ UNCHANGED active

(* No slot but room in the queue.  With neither, the request is answered *)
(* 429 at once (queue_full), which changes nothing.                      *)
EnterLine(r) ==
    /\ pc[r] = "idle"
    /\ active >= MaxConcurrent
    /\ waiting < MaxQueue
    /\ waiting' = waiting + 1
    /\ pc' = [pc EXCEPT ![r] = "pending"]
    /\ line' = Append(line, r)
    /\ UNCHANGED active

(* Mutant of Interrupt: waiters are not timed out. *)
NeverInterrupt(r) == FALSE /\ UNCHANGED vars

(* The timer of wait_for fires, or the task is cancelled: a pending future *)
(* is cancelled, a notified waiter gets CancelledError when it runs.       *)
Interrupt(r) ==
    /\ \/ /\ pc[r] = "pending"
          /\ \E i \in 1 .. Len(line) : line[i] = r /\ line' = Without(line, i)
       \/ pc[r] = "notified" /\ line' = line
    /\ pc' = [pc EXCEPT ![r] = "interrupted"]
    /\ UNCHANGED <<active, waiting>>

(* Mutant of TakeSlot: the waiter trusts its notification. *)
TakeSlotBlindly(r) ==
    /\ pc[r] = "notified"
    /\ waiting' = waiting - 1
    /\ active' = active + 1
    /\ pc' = [pc EXCEPT ![r] = "calling"]
    /\ UNCHANGED line

(* A notified waiter runs and finds a free slot. *)
TakeSlot(r) ==
    /\ pc[r] = "notified"
    /\ active < MaxConcurrent
    /\ waiting' = waiting - 1
    /\ active' = active + 1
    /\ pc' = [pc EXCEPT ![r] = "calling"]
    /\ UNCHANGED line

(* It finds that a newcomer took the slot, and waits again, as the last. *)
WaitAgain(r) ==
    /\ pc[r] = "notified"
    /\ active >= MaxConcurrent
    /\ pc' = [pc EXCEPT ![r] = "pending"]
    /\ line' = Append(line, r)
    /\ UNCHANGED <<active, waiting>>

(* Mutant of Leave: the counter is restored only when a slot was found. *)
LeaveCounted(r) ==
    /\ pc[r] = "interrupted"
    /\ MoveAndNotify(r, "idle")
    /\ UNCHANGED <<active, waiting>>

(* Mutant of Leave: the Condition of Python 3.11, which does not pass a *)
(* notification on.                                                     *)
LeaveSilently(r) ==
    /\ pc[r] = "interrupted"
    /\ MoveSilently(r, "idle")
    /\ waiting' = waiting - 1
    /\ UNCHANGED active

(* An interrupted waiter runs: Condition.wait() passes a notification on, *)
(* the queue counter is restored and the request ends (429 queue_timeout). *)
Leave(r) ==
    /\ pc[r] = "interrupted"
    /\ MoveAndNotify(r, "idle")
    /\ waiting' = waiting - 1
    /\ UNCHANGED active

(* The Jira call ends, in whatever way: the slot is given back. *)
Release(r) ==
    /\ pc[r] = "calling"
    /\ active' = active - 1
    /\ MoveAndNotify(r, "idle")
    /\ UNCHANGED waiting

-----------------------------------------------------------------------------
Resume(r) == TakeSlot(r) \/ WaitAgain(r) \/ Leave(r)

Next ==
    \E r \in Requests :
        \/ EnterFree(r) \/ EnterLine(r) \/ Interrupt(r)
        \/ TakeSlot(r) \/ WaitAgain(r) \/ Leave(r) \/ Release(r)

Spec == Init /\ [][Next]_vars

(* The event loop runs every task that is ready. *)
LoopSpec == Spec /\ \A r \in Requests : WF_vars(Resume(r))

-----------------------------------------------------------------------------
Calling == {r \in Requests : pc[r] = "calling"}
Awake == {r \in Requests : pc[r] \in {"notified", "interrupted"}}
Queued == {r \in Requests : pc[r] \in {"pending", "notified", "interrupted"}}

(* The counters, which the limits are checked against, never drift from the *)
(* requests they count, however a waiter leaves: a leaked count would lower *)
(* the limit for good.                                                      *)
CountersExact ==
    /\ active = Cardinality(Calling)
    /\ waiting = Cardinality(Queued)

(* The limits of the configuration: calls to Jira and length of the queue. *)
WithinLimits ==
    /\ Cardinality(Calling) <= MaxConcurrent
    /\ Cardinality(Queued) <= MaxQueue

(* No wake-up is lost: while anybody sleeps, every free slot is matched by *)
(* a waiter that is about to run and will take it or pass it on.           *)
NoLostWakeup ==
    line # <<>> => MaxConcurrent - active <= Cardinality(Awake)

(* A free slot does not stay free while requests sleep in the queue. *)
FreeSlotTaken ==
    (line # <<>> /\ active < MaxConcurrent) ~> (line = <<>> \/ active >= MaxConcurrent)

(* Timers fire (asyncio.wait_for) and Jira calls end (httpx has a timeout, *)
(* jira_timeout_seconds).                                                  *)
TimersFire == \A r \in Requests : WF_vars(Interrupt(r)) /\ WF_vars(Release(r))

(* Every queued request is then served or answered 429 in the end, although *)
(* newcomers may overtake it again and again.                               *)
EveryWaiterLeaves ==
    TimersFire =>
        \A r \in Requests : pc[r] = "pending" ~> pc[r] \in {"calling", "idle"}

(* The limiter implements the pool of slots. *)
Pool == INSTANCE SlotPool WITH holders <- Calling, queued <- Queued

ImplementsPool == Pool!PoolSpec
=============================================================================
