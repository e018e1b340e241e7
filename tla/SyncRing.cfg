CONSTANTS
    System = System
    alice = alice
    bob = bob
    node1 = node1
    node2 = node2
    node3 = node3
    kAlice = kAlice
    kBob = kBob
    kNode1 = kNode1
    kNode2 = kNode2
    kNode3 = kNode3
    NoKey = NoKey
    Mint = System
    Creator = node1
    Accounts <- MCAccounts
    Keys <- MCKeys
    Rank <- MCRank
    Txs <- TwoTxs
    InitialBalances <- MCInitialBalances
    MaxAmount = 6
    MaxMempoolBytes = 4
    SealThreshold = 2
    Nodes <- ThreeNodes
    SealKey <- ThreeKeys
    Founder <- OneFounder
    InitialAuthorities <- OneAuthority
    InitialKeys <- KeysOfOne
    Clients <- AtNode1
    Links <- Triangle
    Bounds <- TwoLosses
SPECIFICATION FairSpec
PROPERTIES Converges EchoEnds
CHECK_DEADLOCK FALSE
