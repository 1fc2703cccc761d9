CONSTANTS
    f1 = f1
    e1 = e1
    MaxPath = 1
    Fido2 = {1}
    FidoKeys = {f1}
    SEKeys = {e1, e2}
    Home <- MCHome
    InitialKeys = {f1, e1}
    Flags = {}
    Ops = {o1}
    Signers = {}
    NoKey = NoKey
    Inputs = {"enable", "rename", "enclave"}
SPECIFICATION Spec
INVARIANTS
    TypeOK
    EnclaveKeysListed

    
