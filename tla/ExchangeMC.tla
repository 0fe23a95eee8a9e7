------------------------------ MODULE ExchangeMC ------------------------------
(* Bounded instances of what goes on between nodes and between servers.       *)
EXTENDS Exchange

MCAuthorOf == [m \in {"m1"} |-> "c1"]
MCNameOf == [t \in {"t1", "t2"} |-> "f"]
MCSizeOf == [u \in {"u1", "u2"} |-> IF u = "u1" THEN 2 ELSE 1]
========================================================================
