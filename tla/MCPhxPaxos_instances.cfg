\* Two live proposers with one ballot each over three instances.  A node
\* moves to the next instance once the value of its instance is chosen,
\* keeping its promise and the proposer's skip-prepare token.
CONSTANTS
    N = 2
    v1 = v1
    v2 = v2
    Values <- MCValues
    ClientValue <- MCClientValue
    NoValue = NoValue
    Proposers = {1, 2}
    MaxProposalID = 1
    PersistMayFail = FALSE
    PriorStates <- MCPriorEmpty
    MaxTimeouts <- MCNoRetry
    LogSync = TRUE
    SyncInterval = 0
    MaxRestarts = 0
    MaxInstance = 3
SPECIFICATION Spec
INVARIANT LearnerAgreement AcceptedValueIsSafe WorkingProposerWillRetry
PROPERTY ConsensusRefined
