-------------------------- MODULE MCQuoteLifecycle --------------------------
(* Small instances of QuoteLifecycle for TLC.                              *)
EXTENDS QuoteLifecycle, TLC

\* Ids of quotes, requests and folios are interchangeable.
Symmetric == Permutations(Quotes) \cup Permutations(Requests) \cup Permutations(ErpNumbers)
=============================================================================
