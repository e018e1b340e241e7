CONSTANTS
    System = System
    alice = alice
    bob = bob
    node1 = node1
    kAlice = kAlice
    kBob = kBob
    kNode1 = kNode1
    NoKey = NoKey
    Mint = System
    Creator = node1
    Accounts <- MCAccounts
    Keys <- MCKeys
    Rank <- MCRank
    Txs <- MCTxs
    InitialBalances <- MCInitialBalances
    MaxAmount = 4
    MaxMempoolBytes = 4
    SealThreshold = 2
    Authors = {node1}
    Writers = {node1, bob}
    AuthorKeys <- MCAuthorKeys
    MaxTxs = 3
    MaxBlocks = 3
    MaxPending = 3
SPECIFICATION RefSpec
INVARIANTS ReplayAgrees AppendAgrees RequeueAgrees
CHECK_DEADLOCK FALSE
