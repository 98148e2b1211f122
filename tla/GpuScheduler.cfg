\* Three requests of three priorities with deadlines at two ticks or none.
SPECIFICATION Spec
CONSTANTS
    MaxRequests = 3
    MaxTick = 2
INVARIANTS
    NoOvertaking
    RequestsAccounted
CHECK_DEADLOCK FALSE
