CONSTANTS
    charm = charm
    plate = plate
    belt = belt
    weapon = weapon
    waist = waist
    Item = {charm, plate, belt}
    Kind = {weapon, waist}
    KindOf <- Kinds
    Cost <- Costs
    Hp <- Bonuses
    Templates <- Builds
    BaseHp = 3
    Blow = 2
    Bounty = 5
    MaxEarned = 20
SPECIFICATION ShopSpec
PROPERTIES
    FailedBuyIsSilent
