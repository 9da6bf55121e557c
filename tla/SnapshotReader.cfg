SPECIFICATION ReaderSpec
CONSTANTS
    r1 = r1
    r2 = r2
    a = a
    b = b
    f = f
    c1 = c1
    None = None
    Revisions = {r1, r2}
    Contents = {a, b}
    Tree <- MCTree
    Configs = {c1}
    Scopes <- OneScope
    Ids = {1, 2}
    MaxDepth = 2
    MaxDisturbances = 2
SYMMETRY SwapCommits
INVARIANTS
    ReadsOfSnapshot
    GraphIsSealed
    PinnedIsPublished
PROPERTIES
    ClosedByDisturbanceOnly
