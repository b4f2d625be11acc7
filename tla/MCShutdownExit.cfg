SPECIFICATION FairSpec
CONSTANTS
    MaxFrames = 1
PROPERTIES GracefulExit
CHECK_DEADLOCK FALSE
