\* Two items, planned for either of two cycles; no requests.
CONSTANTS
    Items = {x1, x2}
    Initiatives = {n1, n2, n3}
    Keys = {k1, k2}
    c1 = c1
    c2 = c2
    t1 = t1
    t2 = t2
    tribe = tribe
    Cycles = {c1, c2}
    Tribes = {tribe}
    Teams = {t1}
    Sprints = {}
    Drafts <- TwoCycleDrafts
    Staffings <- NoStaffings
    Backlog = backlog
    None = none
    MaxWanted = 0
SYMMETRY Ids
SPECIFICATION Spec
INVARIANTS TypeOK KeysUnique LinksMatch
PROPERTIES LinksStay ChangesRaiseVersions DispatchSynchronises
CHECK_DEADLOCK FALSE
