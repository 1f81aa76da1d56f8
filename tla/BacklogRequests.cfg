\* One item and three initiatives of one cycle; one request per form.
CONSTANTS
    Items = {x1}
    Initiatives = {n1, n2, n3}
    Keys = {k1, k2, k3}
    c1 = c1
    c2 = c2
    t1 = t1
    t2 = t2
    tribe = tribe
    Cycles = {c1}
    Tribes = {tribe}
    Teams = {t1, t2}
    Sprints = {}
    Drafts <- OneCycleDrafts
    Staffings <- OtherStaffings
    Backlog = backlog
    None = none
    MaxWanted = 1
SYMMETRY Ids
SPECIFICATION Spec
INVARIANTS CopiesAreNoServiceCards RequestsMatch
PROPERTIES DispatchKeepsRequests
CHECK_DEADLOCK FALSE
