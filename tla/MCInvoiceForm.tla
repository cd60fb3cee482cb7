--------------------------- MODULE MCInvoiceForm ---------------------------
(***************************************************************************)
(* A small instance of InvoiceForm for TLC. At five per cent, the tax of   *)
(* three pieces is 4.5 cents at a price of 30, 1.65 at 11 and 2.25 at 15.  *)
(***************************************************************************)
EXTENDS InvoiceForm, TLC

CONSTANTS p1, p2

TwoPrices == p1 :> 30 @@ p2 :> 11
=============================================================================
