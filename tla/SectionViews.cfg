\* Every role sees at most three sections, so all their reads fit in flight.
CONSTANTS
    Roles <- MCRoles
    MaxVersion = 3
    MaxReads = 2
    None = none
SPECIFICATION Spec
INVARIANTS TypeOK BlindOnlyIfUnchecked
PROPERTIES AloneStaysUpToDate
CHECK_DEADLOCK FALSE
