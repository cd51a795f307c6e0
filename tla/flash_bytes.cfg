SPECIFICATION Spec
CONSTANTS
    Size = 8
    Buf = 3
    Word = 2
    MagicOffset = 1
    StatusNum = 6
INVARIANTS
    EndFound
    NodeFound
    ReadsBetween
PROPERTIES
    ReadsForward
