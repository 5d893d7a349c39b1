SPECIFICATION Spec
CONSTANTS
    m1 = m1
    m2 = m2
    m3 = m3
    Mac = {m1, m2, m3}
    Offers <- QuotaOffers
    MaxTTL = 2
    MinReadd = 0
    IdleTimeout = 1
    MaxSessions = 1
    UnknownPolicy = "Adopt"
    Backend = "nft"
    ReapConntrack = FALSE
    Talkers = {}
    NoSession = NoSession
    MaxDelay = 0
    MaxGrants = 3
    Faults = {}
    MaxFaults = 0
SYMMETRY Clients
INVARIANT CapPlusOne
