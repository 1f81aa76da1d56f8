\* The documented promise, for pages with re-read answers too.
CONSTANTS
    Clients = {c1, c2}
    RereadPages = {c1}
    Nobody = nobody
    Cycles = {1}
    MarkerSeeded = TRUE
    MaxVersion = 3
SPECIFICATION Spec
INVARIANTS StaleRequestRejected
