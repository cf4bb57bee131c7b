CONSTANTS
    h1 = h1
    h2 = h2
    h3 = h3
    Node = {n1}
    Hero = {h1, h2, h3}
    TeamOf <- TwoAgainstOne
    Rank <- ByName
    Tree = {h1}
    Flamel = {}
    Pizza = {}
    Channel = 4
    TreeSpeed = 2
    MarkTicks = 1
    MarkBonus = 0
    NeutralBonus = 1
    DenyBonus = 1
    NeutralRespawn = 4
    TeamRespawn = 4
    WaveTicks = 2
    GainTicks = 9
    ResourceCap = 20
    MatchTicks = 5
SPECIFICATION Spec
CHECK_DEADLOCK FALSE
INVARIANTS
    ChannelInv
PROPERTIES
    CaptureEarned
