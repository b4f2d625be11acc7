SPECIFICATION Spec
CONSTANTS
    MaxFrame = 2
    MaxParts = 2
INVARIANTS BacklogDelivered
