SPECIFICATION Spec
CONSTANTS
    item = item
    customer = customer
    NoLimit = NoLimit
    None = None
    Items = {item}
    Parties = {customer}
    Invoices = {i1, i2}
    Requests = {r1, r2}
    Ops = {"confirm", "void", "pay"}
    Limit = 3
    OnHand = 2
    Prices = {1}
    Amounts = {1, 2}
    MaxPayments = 1
    Serialized = {i1, i2}
    ItemOf <- OneItem
    PartyOf <- OneCustomer
    Qty <- OneUnit
    Total <- TotalTwo
    Tax <- TaxOne
    CreditLimit <- LimitOf
    InitStock <- StockOf
INVARIANT ExposureWithinLimit
CHECK_DEADLOCK FALSE
