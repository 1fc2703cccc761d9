SPECIFICATION Spec
CONSTANTS
    o1 = o1
    s1 = s1
    Operations = {o1}
    Signers = {s1}
    Handlers <- MostHandlers
INVARIANT
    NoCircularWait
