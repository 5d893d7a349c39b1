SPECIFICATION FairSpec
CONSTANTS
    s1 = s1
    s2 = s2
    b1 = b1
    b2 = b2
    None = None
    Slug = {s1, s2}
    Bridge = {b1, b2}
    m1 = m1
    Mac = {m1}
    Plans <- SomePlans
    Failing <- OneOrAll
    Window = 2
    StatusBuffer = 2
    MaxPushes = 2
    Faults = {"delete", "set", "commit", "revert", "reload", "undo", "record", "crash", "reboot"}
    MaxFaults = 2
    Blind <- Unarmed
INVARIANTS TypeOK OneOutcome
PROPERTIES ConfirmSpec CommittedIsLive Resolved
