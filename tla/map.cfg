SPECIFICATION MapSpec
CONSTANTS
    Length = 2
    Obstacles = {2}
    MeleeReach = 0
    ShotReach = 1
    SwingTicks = 2
    GlideTicks = 1
    Patience = 6
    OrderedKinds = {"melee", "ranged", "clone"}
    charm = charm
    plate = plate
    belt = belt
    weapon = weapon
    waist = waist
    Item = {charm, plate, belt}
    Kind = {weapon, waist}
    KindOf <- Kinds
    Cost <- Costs
    Hp <- Bonuses
    Templates <- Builds
    BaseHp = 3
    Blow = 2
    Bounty = 5
    MaxEarned = 20
    LaneSlots = 3
    PerWave = 2
    CasterCount = 1
    FirstWave = 1
    WaveInterval = 3
    Midway = 1
    MeleeSight = 0
    CasterSight = 1
    MeleeHp = 2
    CasterHp = 1
    CreepRest = 1
    HeroBlows = {1}
    Camps = {0, 1}
    CampSlots = 3
    MinionsPerWave = 1
    MinionHp = 1
    CampInterval = 3
    Threshold = 2
    Carriers = {1, 2, 3}
    CarrierTeam <- TwoAndOne
    KingDelay = 1
    KingRespawn = 2
    GrowthTicks = 2
    BoonTicks = 1
    MaxStacks = 2
    RollTicks = 2
    Tiers = 2
    PreyHp = 2
    BlowRest = 2
    Windup = 1
    Pickers = {1, 2}
    Heights <- Orbit
    Top = 2
    LowMoon = 1
    FlowerTicks = 3
    PowerTicks = 3
    PickerHp = 2
    Second = 2
    TreeHp = 2
    TreeRegen = 6
    TickMs = 16
CHECK_DEADLOCK FALSE
INVARIANTS
    OrderInv
    ShopInv
    WildInv
    LaneInv
    GroundInv
PROPERTIES
    OrderSteps
    TradesCostWorth
    LaneBooks
    WildSteps
