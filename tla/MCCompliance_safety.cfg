SPECIFICATION ComplianceSpec
CONSTANTS
    Scenes = {"submission", "receipts", "import", "turnover", "journals", "reports", "banking"}
    None = None
    i1 = i1
    Invoices = {i1}
    Notes = {n1}
    Reference <- OfTheInvoice
    Handlers = {h1, h2}
    MaxDocs = 3
    Nothing = Nothing
    b1 = b1
    c1 = c1
    Bills = {b1, b2}
    BillTotal <- TotalEach
    Slips = {s1}
    SlipAmount <- ReceiptTwo
    Returns = {c1, c2}
    ReturnAmount <- ReturnEach
    Payouts = {p1}
    Gross <- GrossFour
    Withheld <- WithheldTwo
    Officers = {h1, h2}
    Calm = {c1, c2, p1}
    MaxCopies = 1
    NoUpload = NoUpload
    NoNumber = NoNumber
    Uploads = {u1, u2}
    Numbers = {r1}
    Rows = {1, 2}
    NumberOf <- SameNumber
    Importers = {h1, h2}
    Clerks = {k1}
    Batch = 2
    Quiet = {r1}
    Unhurried = {u2}
    MaxFaults = 1
    NoStart = NoStart
    Months = {1}
    Days = {1, 2}
    Filers = {h1, h2}
    Payers = {h1, h2}
    Rates = {3}
    Turnovers = {0, 1}
    Steadfast <- SecondPart
    MaxUnclear = 1
    NoAccount = NoAccount
    cash = cash
    Accounts = {cash, income, vat}
    AccountType <- TypeEach
    Vouchers = {v1, v2}
    Bookkeepers = {h1, h2}
    Automatic = {cash, income}
    Steady = {cash, income}
    NoBank = NoBank
    bank1 = bank1
    bank2 = bank2
    BankAccounts = {bank1, bank2}
    Codes = {k1}
    StatementLines = {l1, l2}
    Tellers = {h1, h2}
    LineAmounts <- UpDown
    Exclusive = {bank1}
    MaxRuns = 2
INVARIANTS TypesOK ReceiptsAreGenuine CreditRefersToInvoice CreditIsBooked UnflaggedIsSupported RemittableNotNegative CapturedOnce UploadsAccount ChargedOnce MirroredOnce  ClaimedOnce
SYMMETRY Symmetry
CHECK_DEADLOCK FALSE
