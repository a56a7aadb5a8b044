CONSTANTS
    b0 = b0
    b1 = b1
    b2 = b2
    b3 = b3
    c2 = c2
    p1 = p1
    p2 = p2
    Nil = Nil
    Headers <- Tree
    Root = b0
    Parent <- TreeParent
    Peers <- TwoPeers
    WindowSize = 2
    BatchSize = 2
    MaxMoves = 2
    MaxMessages = 3
SPECIFICATION Spec
SYMMETRY Interchangeable
INVARIANTS
    OneActiveChain
    
    DeltaIsLegacy
    SourcesHaveIt
PROPERTIES
    PathOnlyGrows
