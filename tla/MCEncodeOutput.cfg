SPECIFICATION FairSpec
CONSTANTS
    MaxFrame = 3
    MaxParts = 2
INVARIANTS  UnitsInOrder DeliveredUnlessMissed
 
