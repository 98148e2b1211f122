\* Two tasks, four capabilities: chains of length four, and trees.
SPECIFICATION Spec
CONSTANTS
    Tasks = {t1, t2}
    PermSets = {{"DELEGATE", "CONNECT"}, {"DELEGATE"}, {"CONNECT"}}
    Resources <- MCResources
    Hosts = {"h", "i"}
    Ports = {80, 81}
    AddrMax = 3
    MaxCaps = 4
    MaxRoots = 2
SYMMETRY TaskSymmetry
INVARIANTS
    LineageAuthorizes
    OutboundWithinLineage
    CascadeIsRecursive
PROPERTIES
    RightsOnlyShrink
    RevokesWholeSubtree
CHECK_DEADLOCK FALSE
