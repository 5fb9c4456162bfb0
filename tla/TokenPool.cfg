SPECIFICATION Spec
CONSTANTS
    dimensionsCount = 2
    valuePerToken = 2
    totalValue = 13
    NoHash = NoHash
    Amount <- MCAmount
    MaxTokens = 3
INVARIANTS
    TypeOK
    Conservation
    CreditBacked
    FreshTokenAccepted
    ClosedOnlyWhenUsedUp
PROPERTY DepthNeverReverts
