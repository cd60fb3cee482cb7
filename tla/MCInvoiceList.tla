--------------------------- MODULE MCInvoiceList ---------------------------
(***************************************************************************)
(* Small instances of InvoiceList for TLC.                                 *)
(***************************************************************************)
EXTENDS InvoiceList

CONSTANTS sale, purchase

ThreeInvoices == <<sale, purchase, sale>>
=============================================================================
