\* One proposer, empty stores, and WriteState may fail on any node.
CONSTANTS
    N = 3
    v1 = v1
    v2 = v2
    Values <- MCValues
    ClientValue <- MCClientValue
    NoValue = NoValue
    Proposers = {1}
    MaxProposalID = 2
    PersistMayFail = TRUE
    PriorStates <- MCPriorEmpty
    MaxTimeouts <- MCRetryTwice
    LogSync = TRUE
    SyncInterval = 0
    MaxRestarts = 1
    MaxInstance = 1
SPECIFICATION Spec
INVARIANT ReplyIsDurable PromiseKept
