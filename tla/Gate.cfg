SPECIFICATION Spec
CONSTANTS
    m1 = m1
    Mac = {m1}
    Offers <- FullOffers
    MaxTTL = 2
    MinReadd = 0
    IdleTimeout = 1
    MaxSessions = 1
    UnknownPolicy = "Adopt"
    Backend = "ipset"
    ReapConntrack = TRUE
    Talkers = {m1}
    NoSession = NoSession
    MaxDelay = 0
    MaxGrants = 2
    Faults = {"writer", "drop", "crash", "reap", "shape", "reboot"}
    MaxFaults = 1
INVARIANTS TypeOK LeaseBound OneTerminal Accounted
PROPERTY LeaseSpec
