SPECIFICATION FilesSpec
CONSTANTS
    Procs = {old, new}
    MaxInodes = 5
    Overlap = FALSE
    Tampering = TRUE
    Recorders = {t1, t2}
    MaxEntries = 2
    MaxId = 3
    MaxRuns = 3
    Keys = {k1, k2}
    Names = {n1, n2}
    NoName = NoName
    Deleters = {d1, d2}
    PinChecks = {"create"}
    DefaultPin = {"create"}
    TouchChecks = {"rename"}
    Minutes = {0, 15, 60}
    DefaultMinutes = 15
    Labels = {label}
    NoLabel = NoLabel
    WritesFail = TRUE
    UserLines = {a, b}
    MaxLines = 3
    MaxEdits = 1
INVARIANTS
    LogTypeOK
    EnclaveTypeOK
    SettingsTypeOK
    ConfigTypeOK
    RunningIsReachable
    EndsTidy
    IdsDistinctInRun
    FreshIds
    ClearedIsGone
    ReportedIsKept
    MemoryMatchesRegistry
    DisabledIsStored
    AcknowledgedSurvives
    WaivedOnly
    ShownIsEnforced
    UserLinesKept
    MigrationIsStable
PROPERTIES
    ImplementsKeyTable
    NeverDisconnects
