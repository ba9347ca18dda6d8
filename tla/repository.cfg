CONSTANTS
    Writers = {c1, c2}
    Walkers = {c1}
    Keys <- MCKeys
    Wheres <- MCWheres
    Limits <- MCLimits
    MaxOpenConns = 0
    DefaultMaxOpenConns = 2
    DefaultLimit = 1
    MaxLimit = 2
    AloneKinds <- MCAlone
    TxKinds <- MCTx
    MaxOps = 2
SPECIFICATION FairSpec
INVARIANTS TypeOK OwnWritesSeen
PROPERTIES AllOrNothing WalkComplete Finishes
