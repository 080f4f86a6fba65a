\* As contention, but node 3 may crash once, and Persist syncs only every
\* second write (LogSync, SyncInterval = 1).
CONSTANTS
    N = 3
    v1 = v1
    v2 = v2
    Values <- MCValues
    ClientValue <- MCClientValue
    NoValue = NoValue
    Proposers = {1, 2}
    MaxProposalID = 1
    PersistMayFail = FALSE
    PriorStates <- MCPriorEmpty
    MaxTimeouts <- MCNoRetry
    LogSync = TRUE
    SyncInterval = 1
    MaxRestarts = 1
    MaxInstance = 1
SPECIFICATION Spec
PROPERTY ConsensusRefined
