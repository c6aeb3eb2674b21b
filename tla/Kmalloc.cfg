CONSTANTS
    HeapWords = 16
    Sizes = {8, 40}
    Data = {35}
SPECIFICATION Spec
INVARIANTS
    TypeOK
    ChunksTile
    TagsAgree
    FullyCoalesced
    FreelistExact
PROPERTIES
    ImplementsHeap
CHECK_DEADLOCK FALSE
