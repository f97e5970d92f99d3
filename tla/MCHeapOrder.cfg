SPECIFICATION SpecAnyOrder
CONSTANTS
    SIZEOF = 3
    HEAP = 25
    Sizes = {2}
INVARIANT MergesFreeOnly
