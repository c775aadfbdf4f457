SPECIFICATION GatewaySpec
CONSTANTS
    s1 = s1  s2 = s2  ada = ada  eve = eve
    Session = {s1, s2}
    SESSION_TTL_MS = 2
    Account = {ada, eve}
    NumberGiven <- Halves
    TopGiven <- Tops
    PathGiven <- Paths
    Absent = Absent
    Junk = Junk
    MaxRequests = 2
    MAX_HTTP_ATTEMPTS = 2
INVARIANTS GatewaysTypeOK ReleasedExactlyOnce ExitLosesNone
    OwnerDecides ForemGetsLegalCalls PostCarriedOutOnce ConfirmedStands
PROPERTIES IdleSessionsLeave ShutdownExits RequestEnds
CHECK_DEADLOCK FALSE
