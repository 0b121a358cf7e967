SPECIFICATION LoansSpec
CONSTANTS
    car = car
    house = house
    jan = jan
    feb = feb
    mar = mar
    Advances = {car}
    Principal <- MCPrincipal
    Monthly <- MCMonthly
    Periods = {jan, feb, mar}
    PeriodEnd <- MCPeriodEnd
    LastDay = 4
    MaxPricings = 1
    Handlers = {h1}
    NoLine = NoLine
INVARIANTS BalanceInStep DeductedWhileActive
PROPERTY ActiveNotWithdrawn
CHECK_DEADLOCK FALSE
