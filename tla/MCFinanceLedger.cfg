\* Events through their whole life, and categories that change under an event.
SPECIFICATION MCSpec
CONSTANTS
    admin = admin
    ann = ann
    adv = adv
    farm = farm
    Members <- MCMembers
    Role <- MCRole
    c2 = c2
    Categories = {c1, c2}
    Names = {n1}
    Activities = {home, farm}
    Events = {e1, e2, e3}
    Amounts = {1, 2}
    Reviews = {v1}
    MaxVersion = 2
    None = None
SYMMETRY Symmetry
INVARIANTS
    TypeOK
    ReversalPairing
    OneStandingReplacement
    OfficialTotalIsStandingTotal
    
    EventsFitTheirCategory
PROPERTIES
    DecidedFactsFrozen
    EtagsNameContent
CHECK_DEADLOCK FALSE
