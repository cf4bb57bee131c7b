CONSTANTS
    h1 = h1
    h2 = h2
    h3 = h3
    Node = {n1}
    Hero = {h1, h2}
    TeamOf <- OneAgainstOne
    Rank <- ByNameOfTwo
    Tree = {}
    Flamel = {h1}
    Pizza = {}
    Channel = 2
    TreeSpeed = 1
    MarkTicks = 1
    MarkBonus = 1
    NeutralBonus = 0
    DenyBonus = 0
    NeutralRespawn = 2
    TeamRespawn = 2
    WaveTicks = 2
    GainTicks = 1
    ResourceCap = 30
    MatchTicks = 5
SPECIFICATION FairSpec
CHECK_DEADLOCK FALSE
INVARIANTS
    WinnerNotBehind
    NobodyMissesAWave
PROPERTIES
    DecidesAsPromised
