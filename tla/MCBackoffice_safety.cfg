SPECIFICATION BackofficeSpec
CONSTANTS
    Scenes = {"requests", "purchases", "procurement", "quotations", "calm", "browser"}
    None = None
    Attempts = {p1, p2, p3}
    Keys = {k1, k2}
    Targets = {t1, t2}
    Bodies = {b1, b2}
    Calm = {k2}
    MaxFaults = 2
    NoPurchase = NoPurchase
    i1 = i1
    i2 = i2
    x1 = x1
    x2 = x2
    Purchases = {i1, i2}
    Items = {x1, x2}
    Requests = {r1, r2}
    Serialized = {i2}
    Counted = {x2}
    ItemOf <- ItemEach
    Qty <- OneUnit
    Total <- TotalTwo
    Tax <- TaxOne
    Amounts = {1, 2}
    Deltas <- UpDown
    MaxPayments = 2
    MaxAdjusts = 2
    NoOrder = NoOrder
    Orders = {o1, o2}
    Receipts = {g1, g2}
    Storekeepers = {r1, r2}
    Quantities = {1, 2}
    Deliveries <- Split
    SerialOrders = {o2}
    MaxLines = 3
    NoQuote = NoQuote
    Quotes = {q1}
    Sellers = {p1, p2, p3}
    u1 = u1
    t1 = t1
    t2 = t2
    w1 = w1
    w2 = w2
    Users = {u1}
    Browsers = {w1, w2}
    Tabs = {t1, t2}
    Flights = {f1, f2}
    Calls = {r1, r2}
    UserOf <- OneMember
    BrowserOf <- OneTab
    Undisturbed = {w1}
    EmailVerificationRequired = TRUE
    LockoutThreshold = 2
    MaxTokens = 3
    Nobody = Nobody
INVARIANTS TypesOK ReplayFaithful NoOrphanClaim OnceWhenCalm PurchaseCountsOnce LedgerMatchesPurchases StockIsSumOfMovements ReceivedMatchesReceipts ReceiptsAgainstApproved TotalMatchesLines WithinOrderWhenSerialized ConvertedOnce StaysSignedIn
SYMMETRY Symmetry
CHECK_DEADLOCK FALSE
