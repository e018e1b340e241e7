CONSTANTS
    System = System
    alice = alice
    bob = bob
    node1 = node1
    node2 = node2
    kAlice = kAlice
    kBob = kBob
    kNode1 = kNode1
    kNode2 = kNode2
    kRival = kRival
    NoKey = NoKey
    Mint = System
    Creator = node1
    Self = node1
    SelfKey = kNode1
    Accounts <- MCAccounts
    Keys <- MCKeys
    Rank <- MCRank
    Txs <- MintTxs
    InitialBalances <- MCInitialBalances
    InitialAuthorities = {node1, node2}
    InitialKeys <- AuthorityKeys
    Snapshots <- MintSnapshots
    MaxAmount = 4
    MaxMempoolBytes = 3
    SealThreshold = 2
    MaxSealers = 2
SPECIFICATION Spec
INVARIANTS TypeOK Conservation PoolContiguous
PROPERTIES DropsAreExplained
