CONSTANTS
    System = System
    alice = alice
    bob = bob
    node1 = node1
    node2 = node2
    node3 = node3
    kAlice = kAlice
    kBob = kBob
    kNode1 = kNode1
    kNode2 = kNode2
    kNode3 = kNode3
    NoKey = NoKey
    Mint = System
    Creator = node1
    Accounts <- MCAccounts
    Keys <- MCKeys
    Rank <- MCRank
    Txs <- ForkTxs
    InitialBalances <- MCInitialBalances
    MaxAmount = 6
    MaxMempoolBytes = 4
    SealThreshold = 2
    Nodes <- TwoNodes
    SealKey <- TwoKeys
    Founder <- OneFounder
    InitialAuthorities <- TwoAuthorities
    InitialKeys <- KeysOfAll
    Clients <- EachAtHome
    Links = {{node1, node2}}
    Bounds <- OneDrop
SPECIFICATION FairSpec
PROPERTIES NeverFarApart Converges
CHECK_DEADLOCK FALSE
