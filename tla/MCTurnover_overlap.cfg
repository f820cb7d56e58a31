SPECIFICATION TurnoverSpec
CONSTANTS
    NoStart = NoStart
    Months = {1}
    Days = {1, 15}
    Filers = {f1}
    Payers = {w1}
    Rates = {3}
    Turnovers = {0, 1}
    Steadfast = {}
    MaxUnclear = 0
INVARIANT MonthFiledOnce
CHECK_DEADLOCK FALSE
