------------------------------ MODULE NodeMC ------------------------------
(* Bounded instances of what one node keeps and does by itself.               *)
EXTENDS Node

\* What is heard: an announce, a beacon that brings the USB endpoint along, the
\* beacon of a host whose address another hash had, a new link.
Notice(from, hash, ip, name, id, serial) ==
  [from |-> from, hash |-> hash, fam |-> "lan", ip |-> ip, name |-> name,
   ident |-> id, serial |-> serial]
Adverts == {Notice("announce", "h1", "ip1", "n1", "i1", None),
            Notice("beacon", "h1", "ip1", None, "i1", "s1"),
            Notice("beacon", "h2", "ip1", "n1", "i2", None),
            Notice("link", "h1", None, "n1", None, None)}

\* Rows of a peer on LAN and USB, and of a second peer.
Report(hash, via, ip, name, id) ==
  [hash |-> hash, via |-> via, ip |-> ip, name |-> name, ident |-> id]
Reports == {Report("h1", "lan", "ip1", "n1", "i1"), Report("s1", "serial", None, "n1", "j1"),
            Report("h2", "lan", "ip2", "n2", "i2")}

MCHistoryPeerOf == [m \in {"m1", "m2", "i1"} |-> IF m = "m2" THEN "q" ELSE "p"]
MCNet == [x \in {"ip1", "ip2"} |-> IF x = "ip1" THEN "a" ELSE "b"]
MCRank == [h \in {"h1", "h2", "s1"} |-> CASE h = "h1" -> 2 [] h = "h2" -> 3 [] h = "s1" -> 1]
MCBookPeerOf == [h \in {"h1", "h2", "s1"} |-> IF h = "h2" THEN 2 ELSE 1]
====================================================================
