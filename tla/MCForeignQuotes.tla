-------------------------- MODULE MCForeignQuotes --------------------------
(***************************************************************************)
(* A small instance of ForeignQuotes for TLC: two requests, two providers. *)
(***************************************************************************)
EXTENDS ForeignQuotes

QuoteProviders == {<<"yahoo_finance", "akshare">>, <<"akshare">>}
============================================================================
