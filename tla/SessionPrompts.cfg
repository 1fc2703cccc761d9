CONSTANTS
    f1 = f1
    e1 = e1
    MaxPath = 2
    Fido2 = {1, 2}
    FidoKeys = {f1}
    SEKeys = {}
    Home <- MCHome
    InitialKeys = {f1}
    Flags = {}
    Ops = {o1}
    Signers = {}
    NoKey = NoKey
    Inputs = {"unlock", "dismiss", "reload", "badScan", "create", "delete"}
SPECIFICATION Spec
INVARIANTS
    SessionFlagSound
    TargetConnected
    LoadingHasOperation
    TouchIsAwaited
