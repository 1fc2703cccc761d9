SPECIFICATION SettingsSpec
CONSTANTS
    PinChecks = {"startup", "create"}
    DefaultPin = {"create"}
    TouchChecks = {"rename"}
    Minutes = {0, 15, 60}
    DefaultMinutes = 15
    label = label
    Labels = {label}
    NoLabel = NoLabel
    WritesFail = FALSE
INVARIANT
    NothingReset
