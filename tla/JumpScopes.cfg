SPECIFICATION Spec
CONSTANTS
    Labels = {l1, l2}
    MaxLevels = 4
    MaxDepth = 4
    MaxJumps = 2
INVARIANTS
    LegalJumpsAccepted
    BackwardJumpsChecked
    ForwardJumpsChecked
