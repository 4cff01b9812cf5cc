SPECIFICATION Spec
CONSTANTS
    MaxSetups = 2
    MaxFaults = 1
    MaxOpens = 4
    Drops = {"A", "B"}
    Reloads = {}
    IceLosses = {}
INVARIANT ReconnectReestablishes
CHECK_DEADLOCK FALSE
