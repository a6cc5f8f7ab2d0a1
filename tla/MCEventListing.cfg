SPECIFICATION MCSpec
CONSTANTS
    Reader = Reader
    Other = Other
    None = None
    Events = {1, 2, 3}
    Days = {1, 2}
    Instants = {1, 2}
    Filters <- MCFilters
    PageSizes = {1, 2}
    MaxChanges = 2
    MMK = MMK
    USD = USD
    Currencies <- MCCurrencies
    AccountingScale <- MCAccountingScale
    Precision = 3
    Scale = 2
    MaxCoefficient = 1200
    MaxPlaces = 3
    Invalid = Invalid
CHECK_DEADLOCK FALSE
INVARIANTS
    TypeOK
    ListedOnce
    MoneyIsExact
