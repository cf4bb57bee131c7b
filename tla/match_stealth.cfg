CONSTANTS
    h1 = h1
    h2 = h2
    h3 = h3
    Node = {n1}
    Hero = {h1, h2}
    TeamOf <- OneAgainstOne
    Rank <- ByNameOfTwo
    Tree = {}
    Flamel = {h1}
    Pizza = {}
    Channel = 2
    TreeSpeed = 1
    MarkTicks = 1
    MarkBonus = 1
    NeutralBonus = 0
    DenyBonus = 0
    NeutralRespawn = 2
    TeamRespawn = 2
    WaveTicks = 2
    GainTicks = 2
    ResourceCap = 10
    MatchTicks = 5
SPECIFICATION Spec
CHECK_DEADLOCK FALSE
PROPERTIES
    UnseenChannelLives
