------------------------- MODULE MCCustomerDecision -------------------------
(* Small instances of CustomerDecision for TLC.                            *)
EXTENDS CustomerDecision, TLC

\* Ids of quotes, of requests of the staff, of turns and of deliveries are
\* interchangeable.
Symmetric ==
  Permutations(Quotes) \cup Permutations(Staff) \cup Permutations(Turns) \cup Permutations(Sends)
=============================================================================
