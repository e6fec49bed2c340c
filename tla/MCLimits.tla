----------------------------- MODULE MCLimits -----------------------------
(* An instance of Limits: one address registers, another sends requests.   *)
EXTENDS Limits

CONSTANTS a1, a2

MCAddressOf == [r \in Registrations |-> a1]

============================================================================
