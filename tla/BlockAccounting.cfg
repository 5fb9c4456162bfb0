SPECIFICATION Spec
CONSTANTS
    NoObject = "none"
    mAllowedInterFlowSteps = 500
    Tx <- MCTx
    Issuer <- MCIssuer
    issuerOf <- MCissuerOf
    nonceOf <- MCnonceOf
    ergPriceOf <- MCergPriceOf
    packedSizeOf <- MCpackedSizeOf
    kindsOf <- MCkindsOf
    MaxDataBlockSize = 9
    StopRequests = FALSE
    MaxBlocks = 2
INVARIANTS
    AccountingHolds
CHECK_DEADLOCK FALSE
