SPECIFICATION ServicesSpec
CONSTANTS
    c1 = c1  c2 = c2  tok = tok  q1 = q1  q2 = q2  q3 = q3  i1 = i1  i2 = i2  g1 = g1  g2 = g2
    ada = ada  eve = eve  k1 = k1  k2 = k2  a1 = a1  a2 = a2  a3 = a3
    Caller = {c1, c2}
    Token = {tok}
    TtlSeconds = {1}
    SECOND = 2
    NoSession = NoSession
    MaxClock = 5
    MaxErrors = 1
    Check = {c1, c2}
    LIMIT = 1
    MaxCalls = 2
    WINDOW = 2
    MaxTime = 4
    MaxLost = 1
    Search = {q1, q2, q3}
    MaxRotations = 2
    MaxPageFailures = 1
    Ingest = {g1, g2}
    Item = {i1, i2}
    MaxText = 2
    MaxMishaps = 1
    Author = {ada, eve}
    Key = {k1, k2}
    Cadence = {"Daily", "fortnightly"}
    CADENCE_DAYS <- ScaledDays
    MaxDay = 3
    Text <- Texts
    Prior = {{"w1"}, {"w1", "w2"}}
    Term = {"injection", "rival"}
    DEFAULT_PROHIBITED = {"injection"}
    Threshold = {6, 10}
    MAX_IDEAS = 2
    MaxIdeas = 4
    Snapshot = {a1, a2, a3}
    About <- Facts
    Limit <- Limits
    Topics <- TopicLists
    DEFAULT_SEARCH_LIMIT = 2
    MAX_SEARCH_LIMIT = 3
    MAX_THEMES = 1
    MAX_QUESTIONS = 2
    MAX_REPRESENTATIVE = 2
    Title = {{"w1"}, {"w1", "w2"}, {"w1", "w2", "w3"}}
    Tags = {{}, {"t1"}, {"t1", "t2"}}
    NoLimit = NoLimit
    Priors <- Written
    TextScore <- RawScores
    VectorScore <- Similarities
    ProviderScore <- Judgments
INVARIANTS ServicesTypeOK RevokedComesBackOnlyByRace SessionDiesAtExpiry BudgetRespected
    RefusedTwiceForCause QuietIndexIsCurrent AnsweredForCause
    ReviewedTextIsSound IdeasAllOrNothing
    BestFoundAreListed DuplicateForCause ConfidenceFallsWithCoverage
PROPERTIES RunChangesHandsByRaceOnly
CHECK_DEADLOCK FALSE
