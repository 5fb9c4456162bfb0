SPECIFICATION Spec
CONSTANTS
    G = G  a1 = a1  a2 = a2  b1 = b1  b2 = b2  f = f  g = g
    NoBlock = NoBlock
    Block <- MCBlock
    Parent <- MCParent
    Frauds <- MCFrauds
    MaxMishaps = 0
INVARIANTS
    LinkMeansPenalised
