------------------------ MODULE MCPurchaseRequisition ------------------------
EXTENDS PurchaseRequisition, TLC

\* A supplier has all the units, cheaply, or part of them, dearly.
Terms == {[qty |-> 2, minimum |-> 2, cost |-> 1], [qty |-> 1, minimum |-> 1, cost |-> 3]}

Symmetric == Permutations(Requests) \cup Permutations(Offers)
=============================================================================
