SPECIFICATION WebLiveSpec
CONSTANTS
    Sources = {core, app}
    AppLog = app
    NoStream = None
    Streams = {s1, s2}
    MaxSwitches = 1
    MaxOutages = 2
    Hooks = {shell, page}
    ShellHook = shell
    PollSlots = {1, 2}
    MaxStatusInputs = 1
    MaxStatusMishaps = 1
INVARIANTS
    WebLiveTypeOK
    LiveMeansOpen
    ShellShowsTheCore
PROPERTIES
    NothingOpensAfterUnmount
    StreamComesBack
    StatusCatchesUp
CHECK_DEADLOCK FALSE
