SPECIFICATION ScopeSpec
CONSTANTS
    s1 = s1
    b1 = b1
    b2 = b2
    None = None
    Slug = {s1}
    Bridge = {b1, b2}
    Mac = {}
    Plans <- ScopePlans
    Failing <- RuleOrAll
    Seed = {}
    Window = 1
    StatusBuffer = 4
    MaxPushes = 2
    Faults = {"crash"}
    MaxFaults = 1
    Blind = {}
INVARIANT GateAlwaysCoversAir
