SPECIFICATION Spec
CONSTANTS
    MaxSetups = 2
    MaxFaults = 1
    MaxOpens = 1
    Drops = {"B"}
    Reloads = {"A"}
    IceLosses = {"A", "B"}
INVARIANT RestingHasSession
INVARIANT QueueHasFlusher
INVARIANT InstalledIsUsable
PROPERTY EstablishedStays
CHECK_DEADLOCK FALSE
