SPECIFICATION FairSpec
CONSTANTS
    m1 = m1
    Mac = {m1}
    Offers <- UnboundOffers
    MaxTTL = 2
    MinReadd = 0
    IdleTimeout = 0
    MaxSessions = 1
    UnknownPolicy = "Delete"
    Backend = "ipset"
    ReapConntrack = TRUE
    Talkers = {m1}
    NoSession = NoSession
    MaxDelay = 0
    MaxGrants = 1
    Faults = {"crash", "writer", "reap", "rearm", "shape"}
    MaxFaults = 1
PROPERTIES FlowsFollowAuth GrantedToo
