\* Backlog commands that reach into two cycles, from two pages that race to
\* insert the backlog row.
CONSTANTS
    Clients = {c1, c2}
    RereadPages = {c1, c2}
    Nobody = nobody
    Cycles = {1, 2}
    MarkerSeeded = FALSE
    MaxVersion = 1
SPECIFICATION Spec
INVARIANTS VersionCountsEdits LockOrder
PROPERTIES
