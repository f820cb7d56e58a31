SPECIFICATION JournalsSpec
CONSTANTS
    NoAccount = NoAccount
    cash = cash
    sales = sales
    Accounts = {cash, sales}
    AccountType <- TypeEach
    Vouchers = {v1}
    Bookkeepers = {k1}
    Automatic = {cash, sales}
    Steady = {cash, sales}
INVARIANT ReversalNetsToZero
CHECK_DEADLOCK FALSE
