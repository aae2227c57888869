SPECIFICATION Spec
CONSTANTS
    Tasks = {t1}
    Owners = {o1, o2}
    Stores = {s1, s2}
    Kinds = {removeWorktree}
    CompSets = {{}, {removeWorktree}}
    Reasons = {r1}
    NoReason = NoReason
    NoOwner = NoOwner
    LeaseTTLs = {1, 2}
    MaxLag = 1
    MaxTime = 4
SYMMETRY Symmetric
INVARIANTS OneHolder StoreInv
PROPERTIES TerminalFinal LeaseOnlyGrows ImplementsLifecycle
CHECK_DEADLOCK FALSE
