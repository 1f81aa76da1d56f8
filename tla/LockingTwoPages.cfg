\* A page with re-read answers and one without share a cycle and the backlog;
\* row locks are fair.
CONSTANTS
    Clients = {c1, c2}
    RereadPages = {c1}
    Nobody = nobody
    Cycles = {1}
    MarkerSeeded = TRUE
    MaxVersion = 2
SPECIFICATION FairSpec
INVARIANTS NoLostUpdate
PROPERTIES ConflictBlamesCommit ImplementsStore EveryRequestAnswered
