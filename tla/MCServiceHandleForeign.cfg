CONSTANTS
    t1 = t1
    t2 = t2
    i1 = i1
    i2 = i2
    h1 = h1
    h2 = h2
    h3 = h3
    Ty = {t1, t2}
    Inst = {i1, i2}
    Handle = {h1, h2, h3}
    HandleTy <- MCHandleTy
    RegisterForms = {"ref"}
    ForeignAny <- MCForeignAny
SPECIFICATION Spec
INVARIANT DerefNeverUB
CHECK_DEADLOCK FALSE
