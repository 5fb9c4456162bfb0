SPECIFICATION Spec
CONSTANTS
    NoObject = "none"
    mAllowedInterFlowSteps = 500
    Tx <- MCTx
    Issuer <- MCIssuer
    issuerOf <- MCissuerOf
    nonceOf <- MCnonceOf
    ergPriceOf <- MCergPriceOf
    packedSizeOf <- MCpackedSizeOf
    kindsOf <- MCkindsOf
    MaxDataBlockSize = 4
    StopRequests = FALSE
    MaxBlocks = 2
INVARIANTS
    CutBlockReplays
CHECK_DEADLOCK FALSE
