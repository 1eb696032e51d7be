--------------------------- MODULE MCQuoteDelivery ---------------------------
(* An instance of QuoteDelivery small enough for TLC. *)
EXTENDS QuoteDelivery
=============================================================================
