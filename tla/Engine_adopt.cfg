SPECIFICATION LiveSpec
CONSTANTS
    t1 = t1  t2 = t2  w1 = w1  w2 = w2  d1 = d1  k1 = k1
    None = None
    Thread = {t1, t2}
    Worker = {w1, w2}
    WorkerOf <- OwnWorker
    Run = {r1}
    Draft = {d1}
    Key = {k1}
    StartInput <- WithoutDraft
    StepOutcome <- OneStep
    LEASE_DURATION_MS = 1
    MAX_WORKFLOW_ATTEMPTS = 1
    BACKOFF_BASE_MS = 1
    BACKOFF_MAX_MS = 2
    MaxNow = 1
    MaxFaults = 1
PROPERTIES AbandonedLeaseAdopted
