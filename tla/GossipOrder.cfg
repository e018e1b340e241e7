CONSTANTS
    System = System
    alice = alice
    bob = bob
    node1 = node1
    node2 = node2
    node3 = node3
    kAlice = kAlice
    kBob = kBob
    kNode1 = kNode1
    kNode2 = kNode2
    kNode3 = kNode3
    NoKey = NoKey
    Mint = System
    Creator = node1
    Accounts <- GossipAccounts
    Keys <- MCKeys
    Rank <- MCRank
    Txs <- OrderedTxs
    InitialBalances <- GossipBalances
    MaxAmount = 4
    MaxMempoolBytes = 2
    SealThreshold = 2
    Nodes <- TwoNodes
    Leader = node1
    MaxInFlight = 1
    SealKey <- TwoKeys
    Founder <- OneFounder
    InitialAuthorities <- OneAuthority
    InitialKeys <- KeysAtHome
    Clients <- AtHome
    Links <- OneLink
    Bounds <- OneDrop
SPECIFICATION GossipSpec
INVARIANTS ReceiptsHold
PROPERTIES RejectedOnlyWhenBehind IsOneLog
CHECK_DEADLOCK FALSE
