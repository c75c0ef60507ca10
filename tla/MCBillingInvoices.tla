------------------------- MODULE MCBillingInvoices -------------------------
(* BillingInvoices for one invoice and two API processes.  Days are only   *)
(* compared with the grace period, so the shortest one, which today's      *)
(* invoices are within and yesterday's are past, shows both sides.         *)
EXTENDS BillingInvoices
CONSTANTS m1, p1, p2

MCMonths    == {m1}
MCProcesses == {p1, p2}
=============================================================================
