CONSTANTS
    f1 = f1
    e1 = e1
    MaxPath = 1
    Fido2 = {1}
    FidoKeys = {f1}
    SEKeys = {}
    Home <- MCHome
    InitialKeys = {f1}
    Flags = {"screen"}
    Ops = {o1}
    Signers = {}
    NoKey = NoKey
    Inputs = {"unlock", "autolock"}
SPECIFICATION LiveSpec
INVARIANTS
    UnlockedHasPin
PROPERTIES
    UnpluggedIsForgotten
    LoadingEnds
