SPECIFICATION WebSpec
CONSTANTS
    Configs = {a, b}
    Providers = {}
    Contents = {good, bad, empty}
    Accepted = {good}
    Fixed = good
    Empty = empty
    None = None
    Slots = {s1, s2}
    MaxEditorInputs = 5
    MaxEditorMishaps = 1
    i1 = i1
    i2 = i2
    n1 = n1
    n2 = n2
    f1 = f1
    f2 = f2
    u1 = u1
    v1 = v1
    v2 = v2
    Ids = {i1, i2}
    Names = {n1, n2}
    Urls = {u1}
    Filenames = {f1, f2}
    NoProfile = NoProfile
    Initially <- TwoProfiles
    ProfileSlots = {s1, s2}
    MaxProfileInputs = 3
    MaxProfileMishaps = 1
    Values = {x, y}
    Blank = x
    Malformed = {y}
    Absent = Absent
    SettingsSlots = {s1, s2}
    MaxSettingsInputs = 4
    MaxSettingsMishaps = 1
    Unhurried = FALSE
    ProxyFiles = {a, b}
    RuleFiles = {r}
    NoProvider = NoProvider
    ProviderSlots = {s1, s2}
    MaxProviderInputs = 3
    MaxProviderMishaps = 1
    BackupFiles = {f1, f2}
    Versions = {v1, v2}
    Uploads <- OneUpload
    MaxBackups = 2
    BackupSlots = {s1, s2}
    MaxMade = 4
    MaxBackupInputs = 5
    MaxBackupMishaps = 1
    Conns = {c1, c2}
    NoConn = NoConn
    ConnSlots = {s1, s2}
    MaxConnInputs = 4
    MaxConnMishaps = 1
    Targets = {t1, t2}
    TestSlots = {s1, s2}
    MaxTestInputs = 3
    MaxTestMishaps = 1
INVARIANTS
    WebTypeOK
    CleanIsStored
    SavesAreApplied
    RestoreCanBeUndone
    PagesComeToRest
PROPERTIES
    NoNewInvalidConfig
    AnswersKeepDrafts
SYMMETRY WebSymmetry
CHECK_DEADLOCK FALSE
