\* Two teams that may swap, with a competency they may lose, and one row of every
\* kind that can name them.
CONSTANTS
    x = x
    y = y
    Teams = {t1, t2}
    Codes = {x, y}
    CodeSets <- MCCodeSets
    Initiatives = {i}
    MemberIds = {m}
    WorkItems = {w}
    GoalIds = {g}
    RiskIds = {r}
    None = none
SPECIFICATION Spec
INVARIANTS TypeOK RefsInCycle
PROPERTIES RefsMoveTogether LossesConfirmed MisfitsBySetupOnly
SYMMETRY MCSymmetry
CHECK_DEADLOCK FALSE
