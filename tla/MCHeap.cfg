SPECIFICATION Spec
CONSTANTS
    SIZEOF = 3
    HEAP = 22
    Sizes = {2}
INVARIANTS
    
    ChainIsLive
    FreeGivesBack
