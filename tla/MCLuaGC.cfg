SPECIFICATION GCSpec
CONSTANTS
    Obj = {o1, o2, o3}
    M = M
    G = G
    Nothing = Nothing
    Mixes <- FewMixes
    StackSize = 1
SYMMETRY Symmetry
INVARIANT NoDangling
PROPERTY FullCollects
