\* Two live proposers on nodes 1 and 2 with one ballot each, over a network
\* that loses, duplicates and reorders; stores never fail.
CONSTANTS
    N = 3
    v1 = v1
    v2 = v2
    Values <- MCValues
    ClientValue <- MCClientValue
    NoValue = NoValue
    Proposers = {1, 2}
    MaxProposalID = 1
    PersistMayFail = FALSE
    PriorStates <- MCPriorEmpty
    MaxTimeouts <- MCNoRetry
    LogSync = TRUE
    SyncInterval = 0
    MaxRestarts = 0
    MaxInstance = 1
SPECIFICATION Spec
INVARIANT TypeOK LearnerAgreement ReportedWasAccepted AcceptedValueIsSafe
PROPERTY ConsensusRefined
