\* Two items of one team whose keys may be exchanged; an initiative may ask for
\* both copies.
CONSTANTS
    Items = {x1, x2}
    Initiatives = {n1, n2, n3}
    Keys = {k1, k2, k3}
    c1 = c1
    c2 = c2
    t1 = t1
    t2 = t2
    tribe = tribe
    Cycles = {c1}
    Tribes = {tribe}
    Teams = {t1, t2}
    Sprints = {s1}
    Drafts <- OneTeamDrafts
    Staffings <- OtherStaffings
    Backlog = backlog
    None = none
    MaxWanted = 2
SYMMETRY Ids
SPECIFICATION Spec
INVARIANTS SwapsGoThrough
CHECK_DEADLOCK FALSE
