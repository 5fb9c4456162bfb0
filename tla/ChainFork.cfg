SPECIFICATION Spec
CONSTANTS
    G = G
    k1 = k1
    d2 = d2
    a1 = a1
    e2 = e2
    NoBlock = NoBlock
    Genesis = G
    Block <- MCBlock
    Parent <- MCParent
    Height <- MCHeight
    Weight <- MCWeight
    Work <- MCWork
    KeyBlock <- MCKeyBlock
    KeyHeight <- MCKeyHeight
    Bad = {}
    Minable = {k1}
    Peer <- MCPeer
    Proofs <- MCProofs
    MaxQueue = 2
    MaxReceived = 2
    MaxMishaps = 1
PROPERTIES ForkNeedsWork
CHECK_DEADLOCK FALSE
