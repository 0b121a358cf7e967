SPECIFICATION LoansSpec
CONSTANTS
    car = car
    house = house
    jan = jan
    feb = feb
    mar = mar
    Advances = {house}
    Principal <- MCPrincipal
    Monthly <- MCMonthly
    Periods = {jan, feb}
    PeriodEnd <- MCPeriodEnd
    LastDay = 4
    MaxPricings = 2
    Handlers = {h1}
    NoLine = NoLine
INVARIANT BalanceInStep
CHECK_DEADLOCK FALSE
