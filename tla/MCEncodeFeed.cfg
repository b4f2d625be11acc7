SPECIFICATION FairSpec
CONSTANTS
    OutputCount = 2
    MaxFrame = 3
    MaxCopyRetry = 2
    MaxPushRetry = 1
INVARIANTS PoolConsistent OutputsKept EncodedInOrder FramesReturned
PROPERTIES ImplementsRelay DecodedReturns 
