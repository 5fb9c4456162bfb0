SPECIFICATION FairSpec
CONSTANTS
    G = G
    k1 = k1
    d2 = d2
    a1 = a1
    e2 = e2
    NoBlock = NoBlock
    Genesis = G
    Block <- MCBlock
    Parent <- MCParent
    Height <- MCHeight
    Weight <- MCWeight
    Work <- MCWork
    KeyBlock <- MCKeyBlock
    KeyHeight <- MCKeyHeight
    Bad = {e2}
    Minable = {d2}
    Peer <- MCPeer
    Proofs <- MCProofs
    MaxQueue = 2
    MaxReceived = 2
    MaxMishaps = 1
INVARIANTS TypeOK InStep VerifiedChain HeaviestNotBlacklisted
PROPERTIES NeverLighter ErrsOnlyAtGenesis  RestartKeepsWork ShowsWholeBlocks CatchUp
CHECK_DEADLOCK FALSE
