CONSTANTS
    Programs <- Functions
    Starts <- Calls
    Versions <- MCVersions
    Echo <- SentBack
    MaxNum = 2
    MaxDataCalls = 10
    DigitMax = 1
    ArrayMax = 2
    SsInfoMax = 2
    MaxCount = 2
    numParamsRilV3 = 2

SPECIFICATION Spec

INVARIANTS
    CheckedIsComplete
    NothingStale
    SettledOnce
    CopiesFreed
    CountsMatch
    RoundTrip
    LayoutRecognised

CHECK_DEADLOCK FALSE
