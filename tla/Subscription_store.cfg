\* One requester and the scheduler; one failed write or crash.
SPECIFICATION Spec
CONSTANTS
    Callers = {r1}
    Sched = sched
    None = None
    Ids = {i1, i2}
    Names = {n1, n2}
    Urls = {u1, u2}
    Filenames = {f1, f2}
    Torn = Torn
    MaxMishaps = 1
INVARIANTS
    TypeOK
    UniqueNamesAndFiles
PROPERTIES
    OnlyUpdatesChangeSettings
    HealthyMeansFile
    ImplementsStore
SYMMETRY Interchangeable
