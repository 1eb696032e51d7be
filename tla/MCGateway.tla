------------------------------ MODULE MCGateway ------------------------------
(* Instances of Gateway: requests a and b of one conversation, a sent twice. *)
EXTENDS Gateway, TLC

CONSTANTS a, b, a1, a2, b1, talk

MCRequestOf == [m \in Messages |-> IF m = b1 THEN b ELSE a]
MCBodyOf == [m \in Messages |-> "text"]
MCOtherBodyOf == [m \in Messages |-> IF m = a2 THEN "edited" ELSE "text"]
MCConversationOf == [r \in {a, b} |-> talk]

InterchangeableGateways == Permutations(Gateways)
=============================================================================
