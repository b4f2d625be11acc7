SPECIFICATION FairSpec
CONSTANTS
    MaxFrames = 1
INVARIANTS FrameWakes
PROPERTIES ExitUnlessMissed
CHECK_DEADLOCK FALSE
