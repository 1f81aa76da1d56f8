\* One request, two keys, and two teams one of which Jira spells like both.
CONSTANTS
    t1 = t1
    t2 = t2
    Requests = {r1}
    ItemIds = {i}
    Keys = {k, l}
    Texts = {empty, x}
    NoText = empty
    Teams = {t1, t2}
    Tribe = {t2}
    Aliases <- MCAliases
    Rosters <- MCRosters
    MaxVersion = 3
    None = none
SPECIFICATION Spec
INVARIANTS RefreshesWhatWasShown
PROPERTIES BacklogStaysOpen
CHECK_DEADLOCK FALSE
