CONSTANTS
    Client = {c1, c2, c3, c4}
    LobbySize = 2
    MaxQueue = 3
    Cooldown = 2
    ClockWrap = 4
    FirstPort = 7100
    PortRange = 3
SPECIFICATION Spec
SYMMETRY Symmetry
INVARIANTS
    TypeOK
    OnePlace
    CooldownKept
    CooldownOnlyWhenTold
    SpawnsInOrder
PROPERTIES
    KeepsTheLine
