--------------------------- MODULE MCPriceLookup ---------------------------
(* PriceLookup on the seeded pair gpt-4, gpt-4o, and a dated variant of     *)
(* gpt-4o.  Deleting rows makes each of them a model no row is a prefix of. *)
EXTENDS PriceLookup

CONSTANT seeded, edited

gpt_4 == <<"gpt-4">>
gpt_4o == gpt_4 \o <<"o">>
gpt_4o_dated == gpt_4o \o <<"-2024-08-06">>

MCModels == {gpt_4, gpt_4o, gpt_4o_dated}
MCPrices == {seeded, edited}
MCSeed == [m \in MCModels |-> IF m \in {gpt_4, gpt_4o} THEN seeded ELSE NoRow]
=============================================================================
