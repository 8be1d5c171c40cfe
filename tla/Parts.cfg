SPECIFICATION PartsSpec
CONSTANTS
    Handles = {h1, h2, h3, h4}
    INITIAL_STRONG_VALUE = 100
    FirstRefShared = FALSE
    SapConns = 2
    SapReqs = 2
    SapVendors = {q1, q2}
    SapFds = {p1, p2}
    TokensRestart = FALSE
    Vectors = {p1, p2}
    VecItems = {q1, q2}
    Buffers = {1, 2, 3}
    kMinVectorCapacity = 1
    MaxItems = 2
    SortKeys = {1, 2, 3}
    SortTags = {1, 2}
    MaxSorted = 3
    MaxPlain = 3
    Areas = {a1, a2}
    Client = client
    Revoker = revoker
    Dimmed = {"backlight"}
    LightCallers = {p1, p2}
    LightStates <- MCLightStates
    Gamma <- MCGamma
    LCD_BRIGHTNESS_MIN = 5
    Inputs = {1, 2}
    KEYCHECK_TIMEOUT = 3
    MaxBoots = 3
SYMMETRY PartsSymmetry
INVARIANTS
    HeldIsLive
    NothingLeaks
    SapOwned
    SapOnce
    SapAwake
    SapWhole
    VecValues
    VecRefs
    SearchFinds
    SortStable
    UnmappedOnce
    RevokedAll
    LightsShown
    RecoveryWhenAsked
PROPERTIES
    PromotionFails
    KeepsPromise
CHECK_DEADLOCK FALSE
