SPECIFICATION Spec
CONSTANTS
    Byte = {0, 1}
    BufferSize = 3
    MaxCall = 4
INVARIANTS
    TypeOK
    IndexInv
PROPERTY
    IsByteQueue
