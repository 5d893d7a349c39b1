SPECIFICATION ScopeFairSpec
CONSTANTS
    s1 = s1
    b1 = b1
    b2 = b2
    None = None
    Slug = {s1}
    Bridge = {b1, b2}
    Mac = {}
    Plans <- ScopePlans
    Failing <- RuleOrAll
    Seed = {}
    Window = 1
    StatusBuffer = 2
    MaxPushes = 2
    Faults = {"delete", "set", "commit", "revert", "reload", "undo", "marker", "clear", "record",
              "crash", "reboot"}
    MaxFaults = 2
    Blind = {}
INVARIANT GateCoversAir
PROPERTY FramesAnswered
