SPECIFICATION Spec
CONSTANTS
    t1 = t1  t2 = t2  clean = clean  rough = rough
    None = None
    Thread = {t1, t2}
    Draft = {d1}
    Key = {k1}
    Body = {clean, rough}
    Clean = {clean}
    Savable = {clean, rough}
    Ttl = {1}
    MaxVersions = 2
    MaxNow = 1
    MaxFaults = 1
INVARIANTS LatestIsCurrent ApprovalKeepsItsText PublicWasApproved
    ApprovedWasLinted RequestedOnce
PROPERTIES ReleasedAsApproved
SYMMETRY Threads
VIEW WithoutForemTexts
CHECK_DEADLOCK FALSE
