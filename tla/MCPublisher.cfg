SPECIFICATION Spec
CONSTANTS
    Stamp <- Stamps
    FrameIntervalUs = 1000
    MaxNalus = 2
    MaxDts = 4000
CONSTRAINT FewUnits
INVARIANTS PresentedAfterDecoded DriftCounted
PROPERTIES DtsIncreases
