CONSTANTS
    Item <- MCItem
    NoItem = NoItem
    Bucket <- MCBucket
    hash1 <- MCHash1
    hash2 <- MCHash2
    MAX_KICKS = 3
SPECIFICATION Spec
INVARIANTS
    StoredOnce
    LookupExact
    HeapExact
PROPERTIES
    ImplementsRegistry
