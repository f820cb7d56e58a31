---------------------------- MODULE TurnoverTax ----------------------------
(***************************************************************************)
(* Turnover tax: the filing periods of an organization (TurnoverTaxService)*)
(* and their payment by mobile money (TotPaymentHandlerRegistrar).         *)
(*                                                                         *)
(* A period goes from the day its listing started on to the end of a       *)
(* month; the unique index is on both ends, so that a month has as many    *)
(* periods as days to start on.  Days are those a listing may start or end *)
(* on: each stands for the days up to the next.                            *)
(*                                                                         *)
(* A period is computed by the first listing that needs it and paid by an  *)
(* outbox event, of which one at most is in flight (Outbox.tla).  The      *)
(* handler reads the period, asks the provider for the money, and writes   *)
(* the period by id.                                                       *)
(***************************************************************************)
EXTENDS Integers, FiniteSets, FiniteSetsExt

CONSTANTS
    Months, Days,
    Filers,       \* requests in progress at the same time
    Payers,       \* handler calls in progress at the same time
    Rates,        \* percentages a profile may have
    Turnovers,    \* sums of the confirmed sales from a day to the next
    Steadfast,    \* periods of which no two handler calls overlap or meet a fault
    MaxUnclear,   \* bound on calls that die and pushes that stay unanswered
    NoStart

\* A period, and a date, by month and day.
Starts == Months \X Days

ASSUME TurnoverAssumption ==
    /\ Months \subseteq Nat /\ Days \subseteq Nat /\ IsFiniteSet(Days)
    /\ Rates \subseteq Nat /\ Turnovers \subseteq Nat
    /\ 0 \in Turnovers /\ 3 \in Rates
    /\ Steadfast \subseteq Starts /\ MaxUnclear \in Nat
    /\ NoStart \notin Starts

VARIABLES
    profile,    \* OrganizationTaxProfile: regime and rate
    sales,      \* confirmed sales from each day to the next
    period,     \* TotFilingPeriod rows by periodStart: status and amount due
    push,       \* amount of the TOT_PAYMENT_STK_PUSH event in flight, 0 if none is
    collected,  \* what the provider has taken for each period
    filer,      \* each request: where it is, its periods or its period and amount
    payer,      \* each handler call: where it is, its period and amount
    unclear     \* faults so far

turnoverVars == <<profile, sales, period, push, collected, filer, payer, unclear>>

Regimes     == {"VAT_STANDARD", "TURNOVER_TAX", "EXEMPT"}
NoPeriod    == [status |-> "NONE", due |-> 0]
NotFiling   == [step |-> "idle", due |-> <<>>, start |-> NoStart, amount |-> 0]
NotPaying   == [step |-> "idle", start |-> NoStart, amount |-> 0]

NotBefore(p, q) == p[1] > q[1] \/ (p[1] = q[1] /\ p[2] >= q[2])
LastDay(p)      == \A d \in Days : d <= p[2]

-----------------------------------------------------------------------------
\* updateProfile
UpdateProfile(g, t) ==
    /\ profile' = [regime |-> g, rate |-> t]
    /\ UNCHANGED <<sales, period, push, collected, filer, payer, unclear>>

\* Invoices of some days are confirmed or voided.
SalesChange(p, n) ==
    /\ sales' = [sales EXCEPT ![p] = n]
    /\ UNCHANGED <<profile, period, push, collected, filer, payer, unclear>>

-----------------------------------------------------------------------------
(* listPeriods of the days from..to                                        *)

\* computeTurnover, up to the end of the month.
Turnover(p) == SumFunctionOnSet(sales, {q \in Starts : q[1] = p[1] /\ NotBefore(q, p)})

\* A period is found when it starts and ends in the range.
Found(from, to) ==
    {p \in Starts : /\ period[p] # NoPeriod
                    /\ NotBefore(p, from)
                    /\ p[1] < to[1] \/ (p[1] = to[1] /\ LastDay(to))}

\* The cursor stays on the day of the month that the range starts on.
Cursors(from, to) ==
    {p \in Starts : p[2] = from[2] /\ NotBefore(p, from) /\ NotBefore(to, p)}

\* Months with sales and without a period that was found.
Computed(from, to) ==
    {p \in Cursors(from, to) : /\ Turnover(p) > 0
                               /\ \A q \in Found(from, to) : q[1] # p[1]}

ListRead(f, from, to) ==
    /\ filer[f] = NotFiling
    /\ Computed(from, to) # {}
    /\ filer' = [filer EXCEPT ![f].step = "insert",
                   ![f].due = [p \in Computed(from, to) |-> Turnover(p) * profile.rate]]
    /\ UNCHANGED <<profile, sales, period, push, collected, payer, unclear>>

\* createMany: all the periods, or none when one of them is there already.
ListInsert(f) ==
    LET due == filer[f].due
    IN  /\ filer[f].step = "insert"
        /\ period' = IF \A p \in DOMAIN due : period[p] = NoPeriod
                     THEN [p \in Starts |-> IF p \in DOMAIN due
                                            THEN [status |-> "PENDING", due |-> due[p]]
                                            ELSE period[p]]
                     ELSE period
        /\ filer' = [filer EXCEPT ![f] = NotFiling]
        /\ UNCHANGED <<profile, sales, push, collected, payer, unclear>>

-----------------------------------------------------------------------------
(* payPeriod                                                               *)

PayPeriodRead(f, p) ==
    /\ filer[f] = NotFiling
    /\ profile.regime = "TURNOVER_TAX"
    /\ period[p].status = "PENDING" /\ period[p].due > 0
    /\ filer' = [filer EXCEPT ![f] = [step |-> "pay", due |-> <<>>, start |-> p,
                                      amount |-> period[p].due]]
    /\ UNCHANGED <<profile, sales, period, push, collected, payer, unclear>>

\* The index refuses a second event; the transaction rolls back.
Pushed(p, a) == IF push[p] = 0 THEN a ELSE push[p]

PayPeriodCommit(f) ==
    LET p == filer[f].start
    IN  /\ filer[f].step = "pay"
        /\ push' = [push EXCEPT ![p] = Pushed(p, filer[f].amount)]
        /\ filer' = [filer EXCEPT ![f] = NotFiling]
        /\ UNCHANGED <<profile, sales, period, collected, payer, unclear>>

-----------------------------------------------------------------------------
(* The handler                                                             *)

\* Mutant: a paid period is paid again.
AlwaysPayable(p) == TRUE
\* The period is read only when it is not paid.
Payable(p)       == period[p].status # "PAID"

TakePush(w, p) ==
    /\ payer[w] = NotPaying /\ push[p] # 0
    /\ p \in Steadfast => \A v \in Payers : payer[v].start # p
    /\ payer' = [payer EXCEPT ![w] = [step |-> IF Payable(p) THEN "push" ELSE "done",
                                      start |-> p, amount |-> push[p]]]
    /\ UNCHANGED <<profile, sales, period, push, collected, filer, unclear>>

\* The call is over and its event waits for a retry or has had its last.
PushFails(w) ==
    /\ push' \in {push, [push EXCEPT ![payer[w].start] = 0]}
    /\ payer' = [payer EXCEPT ![w] = NotPaying]

\* initiatePayment answers SUCCESS, or FAILED without taking anything.
Push(w) ==
    /\ payer[w].step = "push"
    /\ \/ /\ collected' = [collected EXCEPT ![payer[w].start] = @ + payer[w].amount]
          /\ payer' = [payer EXCEPT ![w].step = "mark"]
          /\ UNCHANGED push
       \/ PushFails(w) /\ UNCHANGED collected
    /\ UNCHANGED <<profile, sales, period, filer, unclear>>

\* The money is taken but the answer is PENDING, which the handler takes for a
\* failure, or does not arrive.
PushUnanswered(w) ==
    /\ payer[w].step = "push"
    /\ payer[w].start \notin Steadfast /\ unclear < MaxUnclear
    /\ unclear' = unclear + 1
    /\ collected' = [collected EXCEPT ![payer[w].start] = @ + payer[w].amount]
    /\ PushFails(w)
    /\ UNCHANGED <<profile, sales, period, filer>>

MarkPaid(w) ==
    /\ payer[w].step = "mark"
    /\ period' = [period EXCEPT ![payer[w].start].status = "PAID"]
    /\ payer' = [payer EXCEPT ![w].step = "done"]
    /\ UNCHANGED <<profile, sales, push, collected, filer, unclear>>

PushDone(w) ==
    /\ payer[w].step = "done"
    /\ push' = [push EXCEPT ![payer[w].start] = 0]
    /\ payer' = [payer EXCEPT ![w] = NotPaying]
    /\ UNCHANGED <<profile, sales, period, collected, filer, unclear>>

\* The process dies, or the update of the period fails.
PayerDies(w) ==
    /\ payer[w] # NotPaying
    /\ payer[w].start \notin Steadfast /\ unclear < MaxUnclear
    /\ unclear' = unclear + 1
    /\ PushFails(w)
    /\ UNCHANGED <<profile, sales, period, collected, filer>>

-----------------------------------------------------------------------------
TurnoverInit ==
    /\ profile = [regime |-> "VAT_STANDARD", rate |-> 3]
    /\ sales = [p \in Starts |-> 0]
    /\ period = [p \in Starts |-> NoPeriod]
    /\ push = [p \in Starts |-> 0]
    /\ collected = [p \in Starts |-> 0]
    /\ filer = [f \in Filers |-> NotFiling]
    /\ payer = [w \in Payers |-> NotPaying]
    /\ unclear = 0

Filing(f) ==
    \/ \E from, to \in Starts : ListRead(f, from, to)
    \/ \E p \in Starts : PayPeriodRead(f, p)
    \/ ListInsert(f) \/ PayPeriodCommit(f)

Paying(w) ==
    \/ \E p \in Starts : TakePush(w, p)
    \/ Push(w) \/ PushUnanswered(w) \/ MarkPaid(w) \/ PushDone(w) \/ PayerDies(w)

TurnoverNext ==
    \/ \E g \in Regimes, t \in Rates : UpdateProfile(g, t)
    \/ \E p \in Starts, n \in Turnovers : SalesChange(p, n)
    \/ \E f \in Filers : Filing(f)
    \/ \E w \in Payers : Paying(w)

TurnoverSpec == TurnoverInit /\ [][TurnoverNext]_turnoverVars

-----------------------------------------------------------------------------
TurnoverTypeOK ==
    /\ profile \in [regime : Regimes, rate : Rates]
    /\ sales \in [Starts -> Turnovers]
    /\ period \in [Starts -> [status : {"NONE", "PENDING", "PAID"}, due : Nat]]
    /\ push \in [Starts -> Nat] /\ collected \in [Starts -> Nat]
    /\ \A f \in Filers : /\ filer[f].step \in {"idle", "insert", "pay"}
                         /\ filer[f].start \in Starts \cup {NoStart}
                         /\ DOMAIN filer[f].due \subseteq Starts /\ filer[f].amount \in Nat
    /\ payer \in [Payers -> [step : {"idle", "push", "mark", "done"},
                             start : Starts \cup {NoStart}, amount : Nat]]
    /\ unclear \in 0..MaxUnclear

\* "This ToT filing period is already paid" (payPeriod), "not payable" (the
\* handler): however pay requests overlap with each other and with the
\* payment, and whatever the sales and the rate become, a period is charged
\* once, what it was filed with; only calls that overlap, die or stay
\* unanswered charge it again; and what is marked paid was collected.
ChargedOnce ==
    \A p \in Starts :
      /\ p \in Steadfast => collected[p] \in {0, period[p].due}
      /\ period[p].status = "PAID" => collected[p] >= period[p].due

\* "Materialize any month between start..end that has no persisted period yet"
\* (listPeriods): no month has two periods, that is, no sale is taxed twice.
MonthFiledOnce ==
    \A p, q \in Starts :
      p[1] = q[1] /\ period[p] # NoPeriod /\ period[q] # NoPeriod => p = q
=============================================================================
