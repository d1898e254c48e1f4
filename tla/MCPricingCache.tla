--------------------------- MODULE MCPricingCache ---------------------------
(* PricingCache on two request goroutines and two dashboard handlers.       *)
EXTENDS PricingCache
=============================================================================
