--------------------------- MODULE MCQuoteLifecycle ---------------------------
(* Two requests on one quote, and enough line sets for a draft, an edit and *)
(* an edit that raced with it.                                              *)
EXTENDS QuoteLifecycle, TLC

Symmetry == Permutations(Processes)
=============================================================================
