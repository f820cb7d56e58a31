SPECIFICATION Spec
CONSTANTS
    item = item
    customer = customer
    NoLimit = NoLimit
    None = None
    Items = {item}
    Parties = {customer}
    Invoices = {i1, i2}
    Requests = {r1, r2}
    Ops = {"confirm", "void", "pay", "trigger"}
    Limit = NoLimit
    OnHand = 1
    Prices = {0, 1}
    Amounts = {1, 2}
    MaxPayments = 2
    Serialized = {i2}
    ItemOf <- OneItem
    PartyOf <- OneCustomer
    Qty <- OneUnit
    Total <- TotalTwo
    Tax <- TaxOne
    CreditLimit <- LimitOf
    InitStock <- StockOf
INVARIANTS GoodsLeaveOnce LedgerIsFounded LedgerMatchesInvoices ReturnedOnce StockMatchesInvoices
SYMMETRY RequestSymmetry
CHECK_DEADLOCK FALSE
