SPECIFICATION Spec
CHECK_DEADLOCK FALSE
INVARIANTS
    MemoryLinksHold
    SearchFindsStored
    
    CredentialsSurvive
    BooksBalance
PROPERTIES
    StartRepairs
    NothingDropped
