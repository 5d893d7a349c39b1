SPECIFICATION Spec
CONSTANTS
    m1 = m1
    Mac = {m1}
    Offers <- PlainOffers
    MaxTTL = 3
    MinReadd = 0
    IdleTimeout = 0
    MaxSessions = 1
    UnknownPolicy = "Adopt"
    Backend = "ipset"
    ReapConntrack = FALSE
    Talkers = {}
    NoSession = NoSession
    MaxDelay = 0
    MaxGrants = 1
    Faults = {}
    MaxFaults = 0
INVARIANT GatedStaysOut
