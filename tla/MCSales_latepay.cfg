SPECIFICATION Spec
CONSTANTS
    item = item
    customer = customer
    NoLimit = NoLimit
    None = None
    Items = {item}
    Parties = {customer}
    Invoices = {i1}
    Requests = {r1, r2}
    Ops = {"confirm", "void", "pay"}
    Limit = NoLimit
    OnHand = 1
    Prices = {1}
    Amounts = {1, 2}
    MaxPayments = 2
    Serialized = {}
    ItemOf <- OneItem
    PartyOf <- OneCustomer
    Qty <- OneUnit
    Total <- TotalTwo
    Tax <- TaxOne
    CreditLimit <- LimitOf
    InitStock <- StockOf
INVARIANT VoidLeavesNoReceivable
CHECK_DEADLOCK FALSE
