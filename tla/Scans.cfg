SPECIFICATION SplitSpec
CONSTANTS
    Byte = {0, 1, 255, 217}
    MaxLen = 9
INVARIANTS EveryNaluFound AcceptedIsTiled PaddingDropped ResponseReadsBack
CHECK_DEADLOCK FALSE
