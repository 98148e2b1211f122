\* Four agents in any tree; one restart is allowed, so that the second death
\* under a parent escalates.  RestartAll answers like RestartOne.
SPECIFICATION Spec
CONSTANTS
    Names = {x, y}
    Policies = {"RestartOne", "Escalate", "Permanent"}
    MAX_CHILDREN = 2
    MAX_RESTARTS = 1
    MaxAgents = 4
SYMMETRY NameSymmetry
INVARIANTS
    TreeConsistent
    NameIndexSound
PROPERTIES
    KillTakesOneSubtree
CHECK_DEADLOCK FALSE
