CONSTANTS
    Paths <- MCPaths
    Calls = {1, 2}
    Menu <- MCMenu
    Trees <- MCTrees
    Dirs <- MCDirs
    MaxEntries = 4
    MaxResults = 2
    TreeBudget = 3
SPECIFICATION Spec
CONSTRAINT InOrder
INVARIANTS
    TypeOK
    WalksMissNothing
    NoLitter
PROPERTIES
    MoveReplacesOnlyLatecomers
    KeepsTree
