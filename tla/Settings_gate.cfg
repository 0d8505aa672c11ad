SPECIFICATION SettingsSpec
CONSTANTS
    Values = {x, y}
    Blank = x
    Malformed = {y}
    Absent = Absent
    SettingsSlots = {s1, s2}
    MaxSettingsInputs = 2
    MaxSettingsMishaps = 0
    Unhurried = TRUE
PROPERTIES
    SavedBypassIsValid
CHECK_DEADLOCK FALSE
