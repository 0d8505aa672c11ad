\* The scheduler against a requester; fetches may fail for ever.
SPECIFICATION FairSpec
CONSTANTS
    Callers = {r1}
    Sched = sched
    None = None
    Ids = {i1, i2}
    Names = {n1, n2}
    Urls = {u1}
    Filenames = {f1, f2}
    Torn = Torn
    MaxMishaps = 0
PROPERTY
    DueIsFetched
