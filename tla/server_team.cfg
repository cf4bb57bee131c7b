CONSTANTS
    Addr = {a1, a2, a3, a4}
    LobbySize = 3
    TeamSize = 2
    Hero = {0, 1}
    WaitTicks = 3
    MatchTicks = 3
    FinalTicks = 1
SPECIFICATION FairSpec
CHECK_DEADLOCK FALSE
INVARIANTS
    LobbyInv
    ReportedFaithfully
    OrderlyExit
PROPERTIES
    KeepsItsPromises
    LoopRunsDown
    ServerExits
