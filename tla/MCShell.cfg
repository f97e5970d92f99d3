SPECIFICATION ShellSpec
CONSTANTS
    Names <- MCNames
    Inode = {1, 2, 3, 4, 5}
    Root = 1
    Contents = {"x"}
    CdPaths <- MCCdPaths
    Sources <- MCSources
    Targets <- MCTargets
    MaxText = 2
INVARIANTS
    ShellTypeOK
    
    OneEntry
    
PROPERTIES
    
    RemovesTheTree
    CopyIsFaithful
    MoveKeepsFile
    
