SPECIFICATION Spec
CONSTANTS
    w1 = w1
    w2 = w2
    r1 = r1
    r2 = r2
    a = a
    b = b
    f = f
    g = g
    c1 = c1
    c2 = c2
    None = None
    Writers = {w1, w2}
    Revisions = {r1, r2}
    Contents = {a, b}
    Tree <- MCTree
    Configs = {c1}
    Scopes <- NestedScopes
    MaxAttempts = 2
    MaxWrites = 2
    InterruptPoints <- AnyStep
    FaultPoints <- HandledFaults
    EscapePoints <- Building
    MayCrash = TRUE
    MayDamage = TRUE
SYMMETRY WriterSymmetry
INVARIANTS
    TypeOK
    OneWriter
    BaseIsCurrent
    ManifestIsValid
    BuiltFromFingerprint
    UsableIsCommitted
    ResultIsTrue
PROPERTIES
    UsableAdvances
    ReuseServesSource
    OnlyHolderWrites
    ImplementsPublication
CHECK_DEADLOCK FALSE
