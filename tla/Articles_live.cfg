SPECIFICATION LiveSpec
CONSTANTS
    t1 = t1  t2 = t2  clean = clean  rough = rough
    None = None
    Thread = {t1, t2}
    Draft = {d1}
    Key = {k1}
    Body = {clean}
    Clean = {clean}
    Savable = {clean}
    Ttl = {1}
    MaxVersions = 2
    MaxNow = 0
    MaxFaults = 0
PROPERTIES PublishingSettles
CHECK_DEADLOCK FALSE
