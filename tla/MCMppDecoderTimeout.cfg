SPECIFICATION Spec
CONSTANTS
    Count = 2
    InputTasks = 2
    MaxDecode = 3
INVARIANTS LifetimeControlled
CHECK_DEADLOCK FALSE
