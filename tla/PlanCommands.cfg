\* Two initiatives, one of which may be a service card, a story, a work item, two
\* arrows that cross the initiatives, one or two sprints from week 0.
CONSTANTS
    a = a
    b = b
    s = s
    w = w
    Initiatives = {a, b}
    Stories = {s}
    WorkItems = {w}
    ConnectionIds = {c1, c2}
    Starts = {0}
    Counts = {1, 2}
    Dates = {3}
    None = none
    Positions <- MCPositions
    Posted <- MCPosted
    ServiceIds = {b}
    Arrows <- MCArrows
    Plans <- MCPlans
    Boards <- MCBoards
SPECIFICATION Spec
INVARIANTS TypeOK ArrowsLive
PROPERTIES LossesConfirmed LateByPrePI PlanInSchedule
SYMMETRY MCSymmetry
CHECK_DEADLOCK FALSE
