--------------------------- MODULE MCEventListing ---------------------------
(* Constants for model-checking EventListing, and Money beside it: the two *)
(* share no state, so a behaviour exercises one or the other.              *)
EXTENDS EventListing, Money

CONSTANTS MMK, USD

MCCurrencies == {MMK, USD}
MCAccountingScale == [currency \in MCCurrencies |-> IF currency = USD THEN 1 ELSE 0]

MCFilters ==
    {[statuses |-> {}, archived |-> "ACTIVE"],
     [statuses |-> {"APPROVED"}, archived |-> "ALL"]}

MCInit == Init /\ MoneyInit
MCNext ==
    \/ made = Unused /\ Next /\ UNCHANGED made
    \/ Stored = {} /\ changes = 0 /\ traversal = None /\ MoneyNext /\ UNCHANGED vars
MCSpec == MCInit /\ [][MCNext]_<<vars, made>>
=============================================================================
