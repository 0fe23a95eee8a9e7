---------------------------- MODULE LinkRegistryMC ----------------------------
EXTENDS LinkRegistry, TLC
CONSTANTS Other, SerialLinks
MCPeerOf == [l \in Link |-> IF l \in Other THEN "q" ELSE "p"]
MCFamilyOf == [l \in Link |-> IF l \in SerialLinks THEN "serial" ELSE "lan"]
=============================================================================
