CONSTANTS
    Attackers = {1, 2, 3}
    MaxAssist = 2
    AssistWindow = 1
    StreakWindow = 2
    StreakCap = 4
    Side0 = {0}
    Side1 = {1, 2}
    Slots = {3, 4}
    Tylers = {0}
    Ranged = {1}
    Stealthy = {1}
    CloneCount = 2
    MaxHp = 1
    Damages = {1}
    SwingWindup = 1
    ShotWindup = 2
    MaxShots = 1
    Kits = {"MnM"}
    Donkeys = {}
    MaxLife = 3
    BaseLife = 2
    SilenceTicks = 2
    HideTicks = 1
    ShieldTicks = 2
    ZoneTicks = 2
    CastTicks = 2
    FloorTicks = 2
    ShortFloorTicks = 1
    LongFloorTicks = 3
    FoldTicks = 2
    GlideTicks = 1
    MaxAir = 2
    ChainWindow = 1
SPECIFICATION BattleSpec
CHECK_DEADLOCK FALSE
INVARIANTS
    ClonesFreeTheirSlot
