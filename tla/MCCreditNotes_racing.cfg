SPECIFICATION NotedSpec
CONSTANTS
    item = item
    customer = customer
    NoLimit = NoLimit
    None = None
    i1 = i1
    n3 = n3
    Items = {item}
    Parties = {customer}
    Invoices = {i1}
    Notes = {n1, n2, n3}
    Requests = {r1, r2}
    Ops = {"confirm", "void", "pay"}
    Prices = {0}
    Amounts = {2}
    MaxPayments = 2
    Serialized = {}
    ItemOf <- OneItem
    PartyOf <- OneCustomer
    Qty <- OneUnit
    Total <- TotalThree
    Tax <- TaxOne
    CreditLimit <- Unlimited
    InitStock <- FiveInStock
    Reference <- ReferTo
    NoteItem <- NoteOfItem
    NoteQty <- NoteOneUnit
    NoteTotal <- NoteTotalTwo
    NoteTax <- NoteTaxOne
INVARIANTS NoteCountsOnce PaidAccountsForNotes StatusMatchesPaid
SYMMETRY NoteSymmetry
CHECK_DEADLOCK FALSE
