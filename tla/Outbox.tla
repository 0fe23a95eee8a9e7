------------------------------- MODULE Outbox -------------------------------
(* What a store-and-forward queue promises, whatever threads work on it: what  *)
(* it accepted and still owes is kept, an obligation ends and never comes back *)
(* (enqueue refuses a msg_id it has seen), and a message that is forgotten     *)
(* everywhere is not sent again.  SendQueue implements it.                     *)
CONSTANT Msg

VARIABLES
    accepted,   \* the messages enqueued so far
    owed,       \* those that must still reach their target
    kept,       \* those in the queue
    gone        \* those no thread and no file has a copy of

vars == <<accepted, owed, kept, gone>>

Init == accepted = {} /\ owed = {} /\ kept = {} /\ gone = {}

\* The last copies may go in any step; they do not come back.
Forget == gone \subseteq gone' /\ gone' \intersect kept' = {}

\* A message is enqueued; whoever enqueues it inside a window that is not
\* protected is not owed anything.
Accept(m) ==
    /\ m \in Msg \ accepted
    /\ accepted' = accepted \union {m}
    /\ owed' \in {owed, owed \union {m}}
    /\ kept' = kept \union {m}
    /\ Forget

\* A message was delivered, cleared or has lost its file, or a crash cut a save.
Excuse ==
    /\ owed' \subseteq owed
    /\ Forget
    /\ UNCHANGED <<accepted, kept>>

\* The queue becomes another list of what was accepted, with all that is owed.
Rebind ==
    /\ kept' \subseteq accepted
    /\ owed' \subseteq owed \intersect kept'
    /\ Forget
    /\ UNCHANGED accepted

Next == (\E m \in Msg : Accept(m)) \/ Excuse \/ Rebind

Spec == Init /\ [][Next]_vars
=============================================================================
