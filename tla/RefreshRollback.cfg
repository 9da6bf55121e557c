SPECIFICATION Spec
CONSTANTS
    w1 = w1
    w2 = w2
    r1 = r1
    r2 = r2
    a = a
    b = b
    f = f
    g = g
    c1 = c1
    c2 = c2
    None = None
    Writers = {w1}
    Revisions = {r1}
    Contents = {a, b}
    Tree <- MCTree1
    Configs = {c1}
    Scopes <- OneScope
    MaxAttempts = 2
    MaxWrites = 1
    InterruptPoints <- LateInterrupt
    FaultPoints <- ReloadFault
    EscapePoints <- NoStep
    MayCrash = FALSE
    MayDamage = FALSE
PROPERTIES
    UsableAdvances
CHECK_DEADLOCK FALSE
