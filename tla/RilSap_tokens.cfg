SPECIFICATION SapSpec
CONSTANTS
    SapConns = 2
    SapReqs = 2
    SapVendors = {v1, v2}
    SapFds = {f1, f2}
    TokensRestart = TRUE
SYMMETRY SapSymmetry
INVARIANT SapDeallocated
CHECK_DEADLOCK FALSE
