CONSTANTS
    System = System
    alice = alice
    bob = bob
    node1 = node1
    node2 = node2
    kAlice = kAlice
    kBob = kBob
    kNode1 = kNode1
    kNode2 = kNode2
    kRival = kRival
    NoKey = NoKey
    Mint = System
    Creator = node1
    Self = node2
    SelfKey = kNode2
    Accounts <- MCAccounts
    Keys <- MCKeys
    Rank <- MCRank
    Txs <- TransferTxs
    InitialBalances <- MCInitialBalances
    InitialAuthorities = {node1}
    InitialKeys <- OldKeys
    Snapshots <- FollowerSnapshots
    MaxAmount = 6
    MaxMempoolBytes = 3
    SealThreshold = 2
    MaxSealers = 2
SPECIFICATION FairSpec
INVARIANTS AuthorizedWhenSealing
PROPERTIES PoolDrains
