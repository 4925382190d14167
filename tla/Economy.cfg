CONSTANTS
    Matches <- MCMatches
    ItemOrder <- MCItemOrder
    MoneyCardCost <- MCCost
    BaseSlots = 3
    StashSlots = 1
    SatchelBonus = 3
    MaxStack = 3
    AmmoMax = 1
    MaxCardsHeld = 2
    TaskItems = {"wood"}
    Amounts = {1}
    MaxPeriods = 3
SPECIFICATION Spec
INVARIANTS
    OneCardAPeriod
    ItemsConserved
    EquippedIsHeld
PROPERTIES
    OneGoldenBullet
    BribePaidInFull
CHECK_DEADLOCK FALSE
