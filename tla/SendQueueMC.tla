---------------------------- MODULE SendQueueMC ----------------------------
(* Small instances of SendQueue: each .cfg gives the threads and the entries,  *)
(* by kind and by target.  At most one 1:1 peer; the hub group is the other    *)
(* destination.                                                                *)
EXTENDS SendQueue, TLC

CONSTANTS Texts, Files, ToGroup

MCKindOf == [m \in Msg |-> IF m \in Texts THEN "text"
                           ELSE IF m \in Files THEN "file" ELSE "share"]
MCTargetOf == [m \in Msg |-> IF m \in ToGroup THEN HubGroup
                             ELSE CHOOSE p \in Peer : TRUE]

\* The drain threads are interchangeable.
DrainerSymmetry == Permutations(Drainer)
=============================================================================
