------------------------------ MODULE MCJudging ------------------------------
(* Two orders of the first bot and one of the second.                       *)
EXTENDS Judging

MCOrders == 1..3
MCBotOf  == [o \in MCOrders |-> IF o = 3 THEN 2 ELSE 1]
MCPrices == 1..2
=============================================================================
