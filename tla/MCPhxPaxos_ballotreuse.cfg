\* As MCPhxPaxos_silent, but WriteState may fail: the proposer retries a
\* proposal id after an accept timeout and counts promises of the earlier
\* round.
CONSTANTS
    N = 3
    v1 = v1
    v2 = v2
    Values <- MCValues
    ClientValue <- MCClientValue
    NoValue = NoValue
    Proposers = {1}
    MaxProposalID = 3
    PersistMayFail = TRUE
    PriorStates <- MCPriorSilent
    MaxTimeouts <- MCRetryTwice
    LogSync = TRUE
    SyncInterval = 0
    MaxRestarts = 0
    MaxInstance = 1
SPECIFICATION Spec
PROPERTY ConsensusRefined
