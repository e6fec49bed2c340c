----------------------------- MODULE MCBilling -----------------------------
(* Bills over every report, model and exchange rate of a small range.      *)
EXTENDS Bills

CONSTANTS
    MaxReport,   \* reports run from -1 to this bound
    MaxPrice     \* exchange rates run from 0 to this bound

MCPricing  == [m \in {"cheap", "dear"} |->
                 IF m = "cheap" THEN [in |-> 1, out |-> 2] ELSE [in |-> 3, out |-> 7]]
MCFallback == [in |-> 2, out |-> 3]
MCReports  == [in : -1..MaxReport, out : -1..MaxReport]
MCPrices   == 0..MaxPrice

============================================================================
