SPECIFICATION FairSpec
CONSTANTS
    w1 = w1
    w2 = w2
    r1 = r1
    r2 = r2
    a = a
    b = b
    f = f
    g = g
    c1 = c1
    c2 = c2
    None = None
    Writers = {w1, w2}
    Revisions = {r1}
    Contents = {a, b}
    Tree <- MCTree1
    Configs = {c1, c2}
    Scopes <- OneScope
    MaxAttempts = 2
    MaxWrites = 1
    InterruptPoints <- DeferredInterrupts
    FaultPoints <- LiveFaults
    EscapePoints <- NoStep
    MayCrash = FALSE
    MayDamage = FALSE
INVARIANTS
    BuildingHasBuilder
    LeaseHasOwner
PROPERTIES
    LeaseIsReleased
    BuildingEnds
CHECK_DEADLOCK FALSE
