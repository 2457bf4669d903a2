--------------------------- MODULE MCReverseProxy ---------------------------
(* Model values for ReverseProxy: a pool of three, with equal weights. *)
EXTENDS ReverseProxy, TLC

CONSTANTS t1, t2, t3, r1, u1

MCPool == <<t1, t2, t3>>
MCTwo == <<t1, t2>>
MCWeight == [t \in {t1, t2, t3} |-> IF t = t1 THEN 1 ELSE 0]
MCTwoWeight == [t \in {t1, t2} |-> 1]
MCHash == [r \in Requests \cup Upgrades |-> 0]
=============================================================================
