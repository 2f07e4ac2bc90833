------------------------------- MODULE MCGateway -------------------------------
EXTENDS Gateway

CONSTANTS c1, t1, t2, t3

OneEach == [s \in Tiers |-> IF s = "free" THEN 0 ELSE 1]
===============================================================================
