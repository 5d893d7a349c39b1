SPECIFICATION FairSpec
CONSTANTS
    b1 = b1
    b2 = b2
    lan = lan
    None = None
    Iface = {b1, b2}
    Lan = lan
    Hotspots = {b1}
    MaxFaults = 2
    MaxDeaths = 1
INVARIANTS GateHolds OthersPass NoExcess NoWindow
PROPERTY GateCloses
