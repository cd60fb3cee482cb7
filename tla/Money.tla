------------------------------- MODULE Money -------------------------------
(***************************************************************************)
(* The money of an invoice, twice: the API's decimals (common/money.ts),   *)
(* which are authoritative, and the browser's preview in integer cents     *)
(* (web/lib/money.ts), which must agree with them.                         *)
(*                                                                         *)
(* Amounts are in cents, tax rates in units of 1 / RateScale; a product of *)
(* both is in units of 1 / RateScale of a cent.                            *)
(***************************************************************************)
EXTENDS Integers, Sequences

RateScale == 10000

\* What a field holds before anything valid is typed into it.
Empty == -1

\* What is known of one line: how many, at which price in cents.
PricedLines == [quantity : Nat \cup {Empty}, unitPrice : Nat \cup {Empty}]

Totals == [lineTotals : Seq(Nat), subtotal : Nat, tax : Nat, total : Nat]

(***************************************************************************)
(* The API.                                                                *)
(***************************************************************************)
\* Half-up to the cent.
RoundMoney(n) ==
    IF 2 * (n % RateScale) >= RateScale THEN n \div RateScale + 1 ELSE n \div RateScale

\* The unit price is rounded to cents first, then multiplied.
CalculateLine(line) == line.quantity * RoundMoney(line.unitPrice * RateScale)

SumMoney(values) ==
    LET sum[n \in 0..Len(values)] == IF n = 0 THEN 0 ELSE sum[n - 1] + values[n]
    IN  sum[Len(values)]

\* Tax on the subtotal, rounded once.
CalculateTax(subtotal, taxRate) == RoundMoney(subtotal * taxRate)

CalculateInvoiceTotals(lines, taxRate) ==
    LET lineTotals == [i \in DOMAIN lines |-> CalculateLine(lines[i])]
        subtotal == SumMoney(lineTotals)
        tax == CalculateTax(subtotal, taxRate)
    IN  [lineTotals |-> lineTotals, subtotal |-> subtotal, tax |-> tax, total |-> subtotal + tax]

(***************************************************************************)
(* The preview.                                                            *)
(***************************************************************************)
\* MUTANT: tax is rounded down.
TaxCentsDown(subtotal, taxRate) == (subtotal * taxRate) \div RateScale

TaxCents(subtotal, taxRate) == (subtotal * taxRate + RateScale \div 2) \div RateScale

IsComplete(line) == line.unitPrice \in Nat /\ line.quantity \in Nat \ {0}

\* Only for lines that are all complete: otherwise nothing is shown.
PreviewTotals(lines, taxRate) ==
    LET lineCents == [i \in DOMAIN lines |-> lines[i].unitPrice * lines[i].quantity]
        subtotal == SumMoney(lineCents)
        tax == TaxCents(subtotal, taxRate)
    IN  [lineTotals |-> lineCents, subtotal |-> subtotal, tax |-> tax, total |-> subtotal + tax]
=============================================================================
