----------------------------- MODULE MCInvoices -----------------------------
(***************************************************************************)
(* Small instances of Invoices for TLC.                                    *)
(***************************************************************************)
EXTENDS Invoices

CONSTANTS i1, i2, u1, u2

Owners  == [i \in Invoices |-> IF i = i1 THEN u1 ELSE u2]
Amounts == [i \in Invoices |-> IF i = i1 THEN 1 ELSE 2]

============================================================================
