SPECIFICATION Spec
CONSTANTS
    Names = {a, b, c}
    a = a
    b = b
    c = c
    LongNames = {}
    WORDS = 14
    MaxInode = 4
    MaxBlock = 4
    StackTypes = {"none", "REG", "DIR"}
VIEW LiveView
SYMMETRY Symmetry
INVARIANTS
    NeverAstray
    TablesPartition
    ParentLinks
PROPERTY ImplementsDirectory
CHECK_DEADLOCK FALSE
