SPECIFICATION NetSpec
CONSTANTS
    Bots = {"b1", "b2"}
    LobbySize = 2
    Ports = 1
    InboxSize = 2
    MaxFaults = 2
    Patient = TRUE
    Askers = {"c1", "c2", "c3"}
    Visitors = {"a1", "a2"}
CHECK_DEADLOCK FALSE
INVARIANTS
    SessionInv
PROPERTIES
    MatchesGoOn
    PartsDeliver
    SessionServes
