SPECIFICATION FairSpec
CONSTANTS
    MaxAlloca = 2
    MaxRefused = 1
    Rates <- SampleRates
    HttpPort = 8000
    RtcPort = 8001
    OtherPort = 9000
    Requests = {0}
INVARIANTS NothingMisused NeedsHeld NothingLeft ReadyToRun OneAnswer
PROPERTIES RequestsAnswered
