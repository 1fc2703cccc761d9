CONSTANTS
    f1 = f1
    e1 = e1
    MaxPath = 1
    Fido2 = {1}
    FidoKeys = {f1}
    SEKeys = {e1}
    Home <- MCHome
    InitialKeys = {f1, e1}
    Flags = {}
    Ops = {o1}
    Signers = {t1, t2}
    NoKey = NoKey
    Inputs = {"lock"}
SPECIFICATION Spec
SYMMETRY Symmetry
INVARIANTS
    SigningAuthorized
    TouchIsAwaited
PROPERTIES
    ImplementsAuthority
