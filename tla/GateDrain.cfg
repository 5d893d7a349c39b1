SPECIFICATION FairSpec
CONSTANTS
    m1 = m1
    Mac = {m1}
    Offers <- PlainOffers
    MaxTTL = 3
    MinReadd = 2
    IdleTimeout = 0
    MaxSessions = 1
    UnknownPolicy = "Adopt"
    Backend = "ipset"
    ReapConntrack = FALSE
    Talkers = {}
    NoSession = NoSession
    MaxDelay = 1
    MaxGrants = 1
    Faults = {"drop", "writer"}
    MaxFaults = 1
PROPERTY GateDrains
