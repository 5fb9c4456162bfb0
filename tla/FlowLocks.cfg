SPECIFICATION Spec
CONSTANTS
    key = key
    data = data
    processor = processor
    cleaner = cleaner
    formationFlow = formationFlow
    verificationFlow = verificationFlow
    None = None
    Manager <- MCManager
    KeyFactory <- MCKeyFactory
    DataFactory <- MCDataFactory
    BlockProcessor <- MCBlockProcessor
    Cleaner <- MCCleaner
    managerOf <- MCManagerOf
INVARIANTS
    TypeOK
    OnlyOwnFlowIsClosed
    OneFlow
    OneSetup
PROPERTY StartFlowReturns
CHECK_DEADLOCK FALSE
