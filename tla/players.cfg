SPECIFICATION PlayersSpec
CONSTANTS
    BotKits = {"Duck", "Unicorn", "Frog", "Morrigan", "Loki", "Gary", "FluteDebt", "Abraham", "Tyler", "HeXiangu", "Cart", "DocWheel"}
    MaxMana = 4
    UltPrice = 2
    GridDim = 3
    Pool = 5
    Villages <- Middle
    Home <- Corners
    Drops <- Fields
    PriceOf <- FourPrices
    Recovery <- FourRests
    Health <- Bodies
    Damage <- Blows
    Upgraded = 4
    Purse = 5
    PurseCap = 6
    IncomeTicks = 2
    LifeTicks = 2
    SpawnTicks = 2
    FastSpawnTicks = 1
    TechTicks = 1
    HoldTicks = 2
    FieldTicks = 7
    Guests = {"ann", "ben", "eve"}
    Forgers = {"eve"}
    Seats = 2
    SeqSpan = 4
    Window = 1
    Deck <- OneTalks
    MaxLate = 2
    SilenceLimit = 1
    PickRest = 1
    CampTicks = 2
    Pause = 1
    Catalog = 1
    Views <- SixScenes
    Slots = 3
    Places = {0, 2}
    NodeAt <- ThreeNodes
    PatienceBonus = 2
    CloneSlots = {2}
    Keys = {1}
    MaxUp = 1
    MaxDown = 1
CHECK_DEADLOCK FALSE
INVARIANTS
    DuelInv
    TableInv
    BotInv
    ClientInv
    FieldTypeOK
PROPERTIES
    FieldSteps
