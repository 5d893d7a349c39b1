SPECIFICATION FairSpec
CONSTANTS
    m1 = m1
    Mac = {m1}
    None = None
    RingSize = 2
    OutboundSize = 1
    ReconnectMax = 3
    MaxGrants = 2
    MaxAsks = 2
    MaxAdopts = 1
    MaxFaults = 2
CHECK_DEADLOCK FALSE
INVARIANTS Rebaselined AnsweredOnce
PROPERTIES BacksOff Answered Converges
