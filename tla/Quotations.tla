----------------------------- MODULE Quotations -----------------------------
(***************************************************************************)
(* Quotations (QuotationsService): sent, accepted, cancelled, lazily       *)
(* expired, and converted into a draft sale invoice.                       *)
(*                                                                         *)
(* Every operation reads the quotation outside its transaction, then looks *)
(* at the expiry date it read, then writes with a compare-and-set on the   *)
(* status; only updateDraft writes by id alone.  What a request read is    *)
(* its view.  Dates are reduced to whether they have passed.               *)
(***************************************************************************)
EXTENDS Naturals, FiniteSets

CONSTANTS
    Quotes,
    Sellers,  \* requests in progress at the same time
    NoQuote

ASSUME QuotationsAssumption == NoQuote \notin Quotes

VARIABLES
    quote,    \* Quotation rows: status, lapsed (validUntil has passed), link
    drafted,  \* sale invoices created from each quotation
    selling   \* each request: where it is, about which quotation, and its view

quoteVars == <<quote, drafted, selling>>

QuoteStatus == {"NONE", "DRAFT", "SENT", "ACCEPTED", "CANCELLED", "EXPIRED", "CONVERTED"}
QuoteSteps  == {"idle", "send", "accept", "cancel", "convert", "update", "expire"}

NoQuoteRow == [status |-> "NONE", lapsed |-> FALSE, linked |-> FALSE]
NotSelling == [step |-> "idle", quote |-> NoQuote, status |-> "NONE"]

\* The statuses from which each operation moves, and the one it moves to.
From == [send |-> {"DRAFT"}, accept |-> {"SENT"}, cancel |-> {"DRAFT", "SENT"},
         convert |-> {"ACCEPTED"}]
To   == [send |-> "SENT", accept |-> "ACCEPTED", cancel |-> "CANCELLED",
         convert |-> "CONVERTED"]

-----------------------------------------------------------------------------
CreateQuote(q) ==
    /\ quote[q].status = "NONE"
    /\ \E l \in BOOLEAN : quote' = [quote EXCEPT ![q].status = "DRAFT", ![q].lapsed = l]
    /\ UNCHANGED <<drafted, selling>>

\* Time passes.
Lapse(q) ==
    /\ quote[q].status # "NONE" /\ ~quote[q].lapsed
    /\ quote' = [quote EXCEPT ![q].lapsed = TRUE]
    /\ UNCHANGED <<drafted, selling>>

\* expireIfPast: an overdue quotation is not sent, accepted or converted.
Overdue(q, step) ==
    /\ step \in {"send", "accept", "convert"}
    /\ quote[q].lapsed
    /\ quote[q].status \notin {"EXPIRED", "CONVERTED", "CANCELLED"}

\* The read at the start of send, accept, cancel, convertToInvoice, updateDraft.
ReadQuote(s, q, step) ==
    /\ selling[s].step = "idle"
    /\ quote[q].status # "NONE"
    /\ step = "update" => quote[q].status = "DRAFT"
    /\ selling' = [selling EXCEPT ![s] =
                     [step |-> IF Overdue(q, step) THEN "expire" ELSE step,
                      quote |-> q, status |-> quote[q].status]]
    /\ UNCHANGED <<quote, drafted>>

Answered(s) == selling' = [selling EXCEPT ![s] = NotSelling]

\* Mutant: the update that expires a quotation is not guarded.
ExpireAny(s, q)  == TRUE
\* It is guarded by the status that was read.
SameStatus(s, q) == quote[q].status = selling[s].status

ExpireQuote(s) ==
    LET q == selling[s].quote
    IN  /\ selling[s].step = "expire"
        /\ quote' = IF SameStatus(s, q) THEN [quote EXCEPT ![q].status = "EXPIRED"] ELSE quote
        /\ Answered(s)
        /\ UNCHANGED drafted

\* The where clause of the compare-and-set.
Allowed(step, status) == status \in From[step]

\* send, accept and cancel.
Advance(s) ==
    LET q == selling[s].quote
        t == selling[s].step
    IN  /\ t \in {"send", "accept", "cancel"}
        /\ quote' = IF Allowed(t, quote[q].status)
                    THEN [quote EXCEPT ![q].status = To[t]] ELSE quote
        /\ Answered(s)
        /\ UNCHANGED drafted

\* convertToInvoice: the draft invoice, the status and the link, or nothing.
Convert(s) ==
    LET q == selling[s].quote
    IN  /\ selling[s].step = "convert"
        /\ IF Allowed("convert", quote[q].status)
           THEN /\ quote' = [quote EXCEPT ![q].status = "CONVERTED", ![q].linked = TRUE]
                /\ drafted' = [drafted EXCEPT ![q] = @ + 1]
           ELSE UNCHANGED <<quote, drafted>>
        /\ Answered(s)

\* updateDraft writes by id: it may extend or end the validity of a quotation
\* that was sent, accepted or converted since it was read.
UpdateDraft(s) ==
    LET q == selling[s].quote
    IN  /\ selling[s].step = "update"
        /\ \E l \in BOOLEAN : quote' = [quote EXCEPT ![q].lapsed = l]
        /\ Answered(s)
        /\ UNCHANGED drafted

-----------------------------------------------------------------------------
QuotesInit ==
    /\ quote = [q \in Quotes |-> NoQuoteRow]
    /\ drafted = [q \in Quotes |-> 0]
    /\ selling = [s \in Sellers |-> NotSelling]

Selling(s) ==
    \/ \E q \in Quotes, step \in QuoteSteps \ {"idle", "expire"} : ReadQuote(s, q, step)
    \/ ExpireQuote(s) \/ Advance(s) \/ Convert(s) \/ UpdateDraft(s)

QuotesNext ==
    \/ \E q \in Quotes : CreateQuote(q) \/ Lapse(q)
    \/ \E s \in Sellers : Selling(s)

QuotesSpec == QuotesInit /\ [][QuotesNext]_quoteVars

-----------------------------------------------------------------------------
QuotesTypeOK ==
    /\ quote \in [Quotes -> [status : QuoteStatus, lapsed : BOOLEAN, linked : BOOLEAN]]
    /\ drafted \in [Quotes -> Nat]
    /\ selling \in [Sellers -> [step : QuoteSteps, quote : Quotes \cup {NoQuote},
                                status : QuoteStatus]]
    /\ \A s \in Sellers : selling[s].step # "idle" => selling[s].quote \in Quotes

\* "A concurrently-started convert loses here and the whole transaction,
\* including the invoice row, rolls back" (convertToInvoice): conversions,
\* cancellations and expiries that overlap leave one invoice, linked to its
\* quotation, when the quotation is converted, and none otherwise.
ConvertedOnce ==
    \A q \in Quotes :
      /\ drafted[q] = (IF quote[q].status = "CONVERTED" THEN 1 ELSE 0)
      /\ quote[q].linked <=> quote[q].status = "CONVERTED"
=============================================================================
