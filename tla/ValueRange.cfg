SPECIFICATION Spec
CONSTANTS
    Bits = 5
    Beyond = "same"
    Width <- MCWidth
    Unsigned <- MCUnsigned
    LastDchar = 5
    Operands <- MCOperands
    Avoided = {"truth", "character", "count", "cut"}
INVARIANTS
    RangeSound
    FoldAsCompiled
    Saturates
CHECK_DEADLOCK FALSE
