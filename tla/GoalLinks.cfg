\* Two initiatives of one executor team, one of which may be a service card, and
\* two goals.
CONSTANTS
    a = a
    b = b
    t = t
    GoalTeams = {t}
    Initiatives = {a, b}
    Teams = {t}
    GoalIds = {g1, g2}
    NoText = empty
    Texts = {empty, x}
    None = none
    Developing = {a}
    Executor <- MCExecutor
    ServiceIds = {b}
    Snapshots <- MCSnapshots
SPECIFICATION Spec
INVARIANTS TypeOK PrimaryLinked
PROPERTIES OnlyServiceCardsStray LossesConfirmed SubmitSettles
SYMMETRY MCSymmetry
CHECK_DEADLOCK FALSE
