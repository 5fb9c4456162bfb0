SPECIFICATION Spec
CONSTANTS
    NoObject = "none"
    mAllowedInterFlowSteps = 500
    Tx <- MCTx
    Issuer <- MCIssuer
    issuerOf <- MCissuerOf
    nonceOf <- MCnonceOf
    ergPriceOf <- MCergPriceOf
    packedSizeOf <- MCpackedSizeOf
    kindsOf <- MCkindsOf
    MaxDataBlockSize = 4
    StopRequests = TRUE
    MaxBlocks = 2
INVARIANTS
    TypeOK
    StackAssertsHold
    StackDiscipline
    BlockSoFarReplays
    PublishedBlockReplays
    NonceSequence
    NoMissedTrigger
    BatchStaysPending
    CountedOnce
CHECK_DEADLOCK FALSE
