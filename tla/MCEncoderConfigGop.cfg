SPECIFICATION Spec
CONSTANTS
    Rate = {30}
    Gops = {60}
INVARIANTS GopWholeSeconds
CHECK_DEADLOCK FALSE
