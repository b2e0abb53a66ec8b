SPECIFICATION Spec
CONSTANTS
    Requests = {r1, r2}
PROPERTIES
    SigtermDrains
CHECK_DEADLOCK FALSE
