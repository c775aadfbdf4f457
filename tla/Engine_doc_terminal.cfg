SPECIFICATION Spec
CONSTANTS
    t1 = t1  t2 = t2  w1 = w1  w2 = w2  d1 = d1  k1 = k1
    None = None
    Thread = {t1, t2}
    Worker = {w1, w2}
    WorkerOf <- OneWorker
    Run = {r1}
    Draft = {d1}
    Key = {k1}
    StartInput <- WithoutDraft
    StepOutcome <- ShortLife
    LEASE_DURATION_MS = 2
    MAX_WORKFLOW_ATTEMPTS = 2
    BACKOFF_BASE_MS = 1
    BACKOFF_MAX_MS = 2
    MaxNow = 0
    MaxFaults = 0
PROPERTIES TerminalIsFinal
