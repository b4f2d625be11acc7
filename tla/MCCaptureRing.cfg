SPECIFICATION FairSpec
CONSTANTS
    b1 = b1
    b2 = b2
    b3 = b3
    b4 = b4
    Buffer = {b1, b2, b3, b4}
    ReadyDepth = 2
    MaxTs = 1
    NoBuf = NoBuf
INVARIANTS TypeOK Ownership LostOnlyOnFailure DriverNeverStarves  
PROPERTIES ImplementsFifo FirstBufferReturns 
