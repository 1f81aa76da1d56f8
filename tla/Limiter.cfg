\* Two slots and a queue of two for five requests: a waiter is turned away, a
\* newcomer overtakes a notified waiter, and two waiters are notified at once.
CONSTANTS
    Requests = {r1, r2, r3, r4, r5}
    MaxConcurrent = 2
    MaxQueue = 2
SPECIFICATION LoopSpec
INVARIANTS CountersExact NoLostWakeup
PROPERTIES ImplementsPool FreeSlotTaken EveryWaiterLeaves
