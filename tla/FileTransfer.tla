---------------------------- MODULE FileTransfer ----------------------------
(* Files and long texts as RNS resources over one link (core/messaging/        *)
(* transfer.py): the sending node's slot, its cancellation and its completion  *)
(* callbacks, and the receiving node's pairing of resources with the metadata  *)
(* packets that announced them.                                                *)
(*                                                                             *)
(* A transfer is announced by a metadata packet, then its bytes follow as an   *)
(* RNS resource.  Nothing ties the two together: the receiver takes the first  *)
(* metadata that waits on the link.  A retry by the queue is another member of *)
(* Xfer.  RNS is external: it runs a callback when a resource has concluded,   *)
(* and it runs it from inside resource.cancel().                               *)
EXTENDS Naturals, Sequences, FiniteSets

CONSTANTS
    Xfer,           \* transfers of the sending node, each in a thread of its own
    LongText,       \* those started by _send_long_text; send_file starts the rest
    None,           \* no transfer
    Unnamed,        \* the metadata _dequeue_pending_file makes up
    MaxReceives,    \* MAX_CONCURRENT_RECEIVES
    MaxFaults       \* bound on exceptions, lost packets and broken resources

ASSUME LongTextAssumption == LongText \subseteq Xfer
ASSUME XferAssumption == IsFiniteSet(Xfer)
ASSUME NoneAssumption == None \notin Xfer /\ Unnamed \notin Xfer \union {None}
ASSUME BoundAssumption == MaxReceives \in Nat \ {0} /\ MaxFaults \in Nat

VARIABLES
    phase,          \* how far the sending thread of a transfer is
    lock,           \* the transfer whose thread holds _file_send_lock
    current,        \* _current_transfer_id
    active,         \* the keys of _active_resources
    cancelled,      \* _cancelled_transfers of the sending node
    canceling,      \* transfers inside cancel_transfer, past the resource's cancel
    outgoing,       \* the sender's end of each resource, and its callback
    verdict,        \* was_cancelled, or else how the resource ended
    wire,           \* metadata packets and cancel notices in flight, both ways
    incoming,       \* the receiver's end of each resource, and its callback
    pending,        \* _pending_files of the link
    cancelledHere,  \* _cancelled_transfers of the receiving node
    saved,          \* the metadata under which a resource was handed to on_message
    faults,         \* exceptions, lost packets and broken resources so far
    asked,          \* history: transfers a user of either node asked to cancel
    announced,      \* history: transfers whose metadata packet was sent
    skewed          \* history: an announcement and its resource may have come apart

sender   == <<phase, lock, current, active, cancelled, canceling>>
receiver == <<pending, cancelledHere, saved>>
resource == <<outgoing, verdict, incoming>>
history  == <<asked, announced, skewed>>
vars == <<sender, receiver, resource, wire, faults, history>>

Init ==
    /\ phase = [x \in Xfer |-> "idle"]
    /\ lock = None /\ current = None
    /\ active = {} /\ cancelled = {} /\ canceling = {}
    /\ outgoing = [x \in Xfer |-> "none"]
    /\ verdict = [x \in Xfer |-> "none"]
    /\ incoming = [x \in Xfer |-> "none"]
    /\ wire = [meta |-> {}, cancel |-> {}, revoke |-> {}]
    /\ pending = <<>>
    /\ cancelledHere = {}
    /\ saved = [x \in Xfer |-> None]
    /\ faults = 0
    /\ asked = {} /\ announced = {}
    /\ skewed = FALSE

-----------------------------------------------------------------------------
(* The sending thread of a transfer. *)

\* The condition _wait_for_send_slot polls for, and what _has_active_transfer tells
\* of the sends.
SlotBusy == current # None \/ active # {}

Released(x) == IF lock = x THEN None ELSE lock
Cleared(x) == IF current = x THEN None ELSE current

\* The metadata packet of x leaves; the receiver is not through with an earlier one.
SendMetadata(x) ==
    /\ wire' = [wire EXCEPT !.meta = @ \union {x}]
    /\ announced' = announced \union {x}
    /\ skewed' = (skewed \/ \E z \in announced : incoming[z] \notin {"over", "lost"})

\* send_file takes _file_send_lock ...
FileBegin(x) ==
    /\ phase[x] = "idle" /\ x \notin LongText
    /\ lock = None
    /\ lock' = x
    /\ phase' = [phase EXCEPT ![x] = "waiting"]
    /\ UNCHANGED <<current, active, cancelled, canceling, receiver, resource, wire,
                   faults, history>>

\* ... _send_long_text does not, and announces before it waits for the slot.
TextBegin(x) ==
    /\ phase[x] = "idle" /\ x \in LongText
    /\ SendMetadata(x)
    /\ phase' = [phase EXCEPT ![x] = "waiting"]
    /\ UNCHANGED <<lock, current, active, cancelled, canceling, receiver, resource,
                   faults, asked>>

\* _wait_for_send_slot sees the slot free ...
SlotFree(x) ==
    /\ phase[x] = "waiting"
    /\ ~SlotBusy
    /\ phase' = [phase EXCEPT ![x] = "won"]
    /\ UNCHANGED <<lock, current, active, cancelled, canceling, receiver, resource,
                   wire, faults, history>>

\* (mutant) a wait without a deadline.
SlotTimeoutNever(x) == phase[x] = "waiting" /\ SlotBusy /\ UNCHANGED vars

\* ... or not for 300 s (120 s for a long text).
SlotTimeout(x) ==
    /\ phase[x] = "waiting"
    /\ SlotBusy
    /\ phase' = [phase EXCEPT ![x] = "failed"]
    /\ lock' = Released(x)
    /\ UNCHANGED <<current, active, cancelled, canceling, receiver, resource, wire,
                   faults, history>>

Claim(x) ==
    /\ phase[x] = "won"
    /\ current' = x
    /\ phase' = [phase EXCEPT ![x] = "claimed"]
    /\ UNCHANGED <<lock, active, cancelled, canceling, receiver, resource, wire,
                   faults, history>>

Announce(x) ==
    /\ phase[x] = "claimed" /\ x \notin LongText
    /\ SendMetadata(x)
    /\ phase' = [phase EXCEPT ![x] = "announced"]
    /\ UNCHANGED <<lock, current, active, cancelled, canceling, receiver, resource,
                   faults, asked>>

\* What both functions have done once the metadata is sent and the slot claimed.
Ready(x) == phase[x] = IF x \in LongText THEN "claimed" ELSE "announced"

\* RNS.Resource(...): from here on it may conclude at any time ...
Build(x) ==
    /\ Ready(x)
    /\ outgoing' = [outgoing EXCEPT ![x] = "running"]
    /\ phase' = [phase EXCEPT ![x] = "built"]
    /\ UNCHANGED <<lock, current, active, cancelled, canceling, receiver, verdict,
                   incoming, wire, faults, history>>

\* (mutant) the lock is given back before the resource is registered.
RegisterForgets(x) ==
    /\ phase[x] = "built"
    /\ lock' = Released(x)
    /\ current' = Cleared(x)
    /\ phase' = [phase EXCEPT ![x] = "returned"]
    /\ UNCHANGED <<active, cancelled, canceling, receiver, resource, wire, faults,
                   history>>

\* ... _active_resources[transfer_id] = resource, and the function returns.
Register(x) ==
    /\ phase[x] = "built"
    /\ active' = active \union {x}
    /\ lock' = Released(x)
    /\ phase' = [phase EXCEPT ![x] = "returned"]
    /\ UNCHANGED <<current, cancelled, canceling, receiver, resource, wire, faults,
                   history>>

\* The except clause: _cleanup_transfer, which leaves _current_transfer_id alone.
SendFails(x) ==
    /\ phase[x] \in {"claimed", "announced"}
    /\ faults < MaxFaults
    /\ faults' = faults + 1
    /\ active' = active \ {x}
    /\ lock' = Released(x)
    /\ phase' = [phase EXCEPT ![x] = "failed"]
    /\ UNCHANGED <<current, cancelled, canceling, receiver, resource, wire, history>>

-----------------------------------------------------------------------------
(* _resource_send_callback: was_cancelled and _cleanup_transfer, then the rest. *)

\* (mutant) the status is read after the resource was reset.
ConcludeLate(x) ==
    /\ outgoing[x] \in {"complete", "failed"}
    /\ outgoing' = [outgoing EXCEPT ![x] = "concluding"]
    /\ verdict' = [verdict EXCEPT ![x] =
                     IF x \in cancelled THEN "cancelled" ELSE outgoing'[x]]
    /\ active' = active \ {x}
    /\ UNCHANGED <<phase, lock, current, cancelled, canceling, receiver, incoming,
                   wire, faults, history>>

Conclude(x) ==
    /\ outgoing[x] \in {"complete", "failed"}
    /\ verdict' = [verdict EXCEPT ![x] =
                     IF x \in cancelled THEN "cancelled" ELSE outgoing[x]]
    /\ outgoing' = [outgoing EXCEPT ![x] = "concluding"]
    /\ active' = active \ {x}
    /\ UNCHANGED <<phase, lock, current, cancelled, canceling, receiver, incoming,
                   wire, faults, history>>

Report(x) ==
    /\ outgoing[x] = "concluding"
    /\ outgoing' = [outgoing EXCEPT ![x] = "over"]
    /\ cancelled' = IF verdict[x] = "cancelled" THEN cancelled \ {x} ELSE cancelled
    /\ current' = Cleared(x)
    /\ UNCHANGED <<phase, lock, active, canceling, receiver, verdict, incoming, wire,
                   faults, history>>

-----------------------------------------------------------------------------
(* Cancellation at the sending node. *)

\* resource.cancel() runs the callback above at once, with was_cancelled true.
Abandon(x) ==
    /\ outgoing' = [outgoing EXCEPT ![x] = "over"]
    /\ verdict' = [verdict EXCEPT ![x] = "cancelled"]
    /\ cancelled' = cancelled \ {x}
    /\ active' = active \ {x}
    /\ current' = Cleared(x)

\* cancel_transfer up to the loop over its targets: a resource not registered yet is
\* not found.
CancelTransfer(x) ==
    IF x \in active /\ outgoing[x] = "running"
    THEN Abandon(x)
    ELSE /\ cancelled' = cancelled \union {x}
         /\ active' = active \ {x}
         /\ UNCHANGED <<current, outgoing, verdict>>

\* handle_transfer_cancel at the sender, for a transfer whose progress is shown.
UserCancel(x) ==
    /\ x \notin LongText
    /\ outgoing[x] # "none"
    /\ x \notin asked \union canceling
    /\ asked' = asked \union {x}
    /\ CancelTransfer(x)
    /\ canceling' = canceling \union {x}
    /\ UNCHANGED <<phase, lock, receiver, incoming, wire, faults, announced, skewed>>

\* The rest of it: _notify_peer_transfer_cancel, and the slot is given back.
CancelEnd(x) ==
    /\ x \in canceling
    /\ canceling' = canceling \ {x}
    /\ wire' = [wire EXCEPT !.cancel = @ \union {x}]
    /\ current' = Cleared(x)
    /\ UNCHANGED <<phase, lock, active, cancelled, receiver, resource, faults, history>>

\* A __transfer_cancel packet from the receiver; is_sender as the code computes it.
Revoked(x) ==
    /\ x \in wire.revoke
    /\ wire' = [wire EXCEPT !.revoke = @ \ {x}]
    /\ IF x \in active \/ current = x \/ phase[x] = "returned"
       THEN IF x \in active /\ outgoing[x] = "running"
            THEN Abandon(x)
            ELSE /\ cancelled' = cancelled \union {x}
                 /\ active' = active \ {x}
                 /\ current' = Cleared(x)
                 /\ UNCHANGED <<outgoing, verdict>>
       ELSE /\ cancelled' = cancelled \union {x}
            /\ UNCHANGED <<active, current, outgoing, verdict>>
    /\ UNCHANGED <<phase, lock, canceling, receiver, incoming, faults, history>>

\* wrapped_progress of a cancelled file; a long text has no progress callback.
ProgressCancel(x) ==
    /\ outgoing[x] = "running"
    /\ x \in cancelled /\ x \notin LongText
    /\ Abandon(x)
    /\ UNCHANGED <<phase, lock, canceling, receiver, incoming, wire, faults, history>>

-----------------------------------------------------------------------------
(* The resource itself (RNS). *)

Receiving == {x \in Xfer : incoming[x] = "incoming"}

\* _resource_accept_callback
Accept(x) ==
    /\ outgoing[x] = "running" /\ incoming[x] = "none"
    /\ Cardinality(Receiving) < MaxReceives
    /\ incoming' = [incoming EXCEPT ![x] = "incoming"]
    /\ UNCHANGED <<sender, receiver, outgoing, verdict, wire, faults, history>>

Refuse(x) ==
    /\ outgoing[x] = "running" /\ incoming[x] = "none"
    /\ Cardinality(Receiving) >= MaxReceives
    /\ incoming' = [incoming EXCEPT ![x] = "lost"]
    /\ UNCHANGED <<sender, receiver, outgoing, verdict, wire, faults, history>>

Received(x) ==
    /\ incoming[x] = "incoming"
    /\ incoming' = [incoming EXCEPT ![x] = "complete"]
    /\ UNCHANGED <<sender, receiver, outgoing, verdict, wire, faults, history>>

\* The receiver proves a complete resource before it runs its callback.
Proved(x) ==
    /\ outgoing[x] = "running" /\ incoming[x] \in {"complete", "over"}
    /\ outgoing' = [outgoing EXCEPT ![x] = "complete"]
    /\ UNCHANGED <<sender, receiver, verdict, incoming, wire, faults, history>>

\* Each end learns that the other has given up.
SenderHears(x) ==
    /\ outgoing[x] = "running" /\ incoming[x] \in {"failed", "lost"}
    /\ outgoing' = [outgoing EXCEPT ![x] = "failed"]
    /\ UNCHANGED <<sender, receiver, verdict, incoming, wire, faults, history>>

ReceiverHears(x) ==
    /\ incoming[x] = "incoming" /\ outgoing[x] # "running"
    /\ incoming' = [incoming EXCEPT ![x] = "failed"]
    /\ UNCHANGED <<sender, receiver, outgoing, verdict, wire, faults, history>>

Break(x) ==
    /\ outgoing[x] = "running" /\ incoming[x] \in {"none", "incoming"}
    /\ faults < MaxFaults
    /\ faults' = faults + 1
    /\ outgoing' = [outgoing EXCEPT ![x] = "failed"]
    /\ UNCHANGED <<sender, receiver, verdict, incoming, wire, history>>

-----------------------------------------------------------------------------
(* The receiving node. *)

\* The packet callback of a metadata packet.
MetadataArrives(x) ==
    /\ x \in wire.meta
    /\ wire' = [wire EXCEPT !.meta = @ \ {x}]
    /\ pending' = Append(pending, x)
    /\ UNCHANGED <<sender, resource, cancelledHere, saved, faults, history>>

MetadataLost(x) ==
    /\ x \in wire.meta
    /\ faults < MaxFaults
    /\ faults' = faults + 1
    /\ wire' = [wire EXCEPT !.meta = @ \ {x}]
    /\ UNCHANGED <<sender, receiver, resource, history>>

Done(x) == IF incoming[x] = "complete" THEN "over" ELSE "lost"

\* What the mutant below leaves in `pending`, and what the code does.
PoppedNot == pending
Popped == Tail(pending)

\* _resource_concluded: the first metadata that waits, whichever resource this is.
ReceiveConcluded(x) ==
    /\ incoming[x] \in {"complete", "failed"}
    /\ pending # <<>>
    /\ LET m == Head(pending) IN
         saved' = IF incoming[x] = "complete" /\ m \notin cancelledHere
                  THEN [saved EXCEPT ![x] = m] ELSE saved
    /\ pending' = Popped
    /\ incoming' = [incoming EXCEPT ![x] = Done(x)]
    /\ UNCHANGED <<sender, outgoing, verdict, wire, cancelledHere, faults, history>>

\* No metadata within a second.
ReceiveUnnamed(x) ==
    /\ incoming[x] \in {"complete", "failed"}
    /\ pending = <<>>
    /\ saved' = IF incoming[x] = "complete" THEN [saved EXCEPT ![x] = Unnamed]
                ELSE saved
    /\ incoming' = [incoming EXCEPT ![x] = Done(x)]
    /\ skewed' = TRUE
    /\ UNCHANGED <<sender, outgoing, verdict, wire, pending, cancelledHere, faults,
                   asked, announced>>

\* handle_transfer_cancel at the receiver: cancel_transfer finds nothing to abort, tells
\* the peer and returns True, so _cancel_incoming_resources is not reached.
ReceiverCancel(x) ==
    /\ \E i \in DOMAIN pending : pending[i] = x
    /\ x \notin asked
    /\ asked' = asked \union {x}
    /\ cancelledHere' = cancelledHere \union {x}
    /\ wire' = [wire EXCEPT !.revoke = @ \union {x}]
    /\ UNCHANGED <<sender, resource, pending, saved, faults, announced, skewed>>

\* The metadata in s of other transfers; that of x, announced once, is there once.
Without(x, s) ==
    LET at == CHOOSE i \in DOMAIN s : s[i] = x
    IN  IF \E i \in DOMAIN s : s[i] = x
        THEN SubSeq(s, 1, at - 1) \o SubSeq(s, at + 1, Len(s)) ELSE s

\* A __transfer_cancel packet from the sender: every incoming resource of the link is
\* cancelled, and each takes a metadata with it; then that of x itself is dropped.
CancelNotice(x) ==
    /\ x \in wire.cancel
    /\ wire' = [wire EXCEPT !.cancel = @ \ {x}]
    /\ cancelledHere' = cancelledHere \union {x}
    /\ LET n == Cardinality(Receiving) IN
         /\ pending' = Without(x, SubSeq(pending, n + 1, Len(pending)))
         /\ skewed' = (skewed \/ n > Len(pending))
    /\ incoming' = [z \in Xfer |-> IF z \in Receiving THEN "lost" ELSE incoming[z]]
    /\ UNCHANGED <<sender, outgoing, verdict, saved, faults, asked, announced>>

-----------------------------------------------------------------------------
SendStep(x) ==
    \/ TextBegin(x) \/ SlotFree(x) \/ SlotTimeout(x) \/ Claim(x) \/ Announce(x)
    \/ Build(x) \/ Register(x) \/ SendFails(x)

ResourceStep(x) ==
    \/ Conclude(x) \/ Report(x) \/ ProgressCancel(x) \/ Accept(x) \/ Refuse(x)
    \/ Received(x) \/ Proved(x) \/ SenderHears(x) \/ ReceiverHears(x)

ReceiveStep(x) ==
    \/ MetadataArrives(x) \/ ReceiveConcluded(x) \/ ReceiveUnnamed(x)
    \/ CancelNotice(x) \/ Revoked(x) \/ CancelEnd(x)

Next == \E x \in Xfer :
    \/ FileBegin(x) \/ SendStep(x)
    \/ ResourceStep(x) \/ Break(x)
    \/ ReceiveStep(x) \/ MetadataLost(x)
    \/ UserCancel(x) \/ ReceiverCancel(x)

Spec == Init /\ [][Next]_vars

\* A started function goes on, its waits end, a thread that waits for the lock gets it
\* when it is free again and again.
Fairness == \A x \in Xfer : /\ WF_vars(SendStep(x))
                            /\ SF_vars(FileBegin(x))
                            /\ WF_vars(CancelEnd(x))
FairSpec == Spec /\ Fairness

-----------------------------------------------------------------------------
(* Properties *)

TypeOK ==
    /\ phase \in [Xfer -> {"idle", "waiting", "won", "claimed", "announced", "built",
                           "returned", "failed"}]
    /\ lock \in Xfer \union {None} /\ current \in Xfer \union {None}
    /\ active \subseteq Xfer /\ cancelled \subseteq Xfer /\ canceling \subseteq Xfer
    /\ outgoing \in [Xfer -> {"none", "running", "complete", "failed", "concluding",
                              "over"}]
    /\ verdict \in [Xfer -> {"none", "complete", "failed", "cancelled"}]
    /\ incoming \in [Xfer -> {"none", "incoming", "complete", "failed", "over", "lost"}]
    /\ wire \in [meta : SUBSET Xfer, cancel : SUBSET Xfer, revoke : SUBSET Xfer]
    /\ pending \in Seq(Xfer)
    /\ cancelledHere \subseteq Xfer
    /\ saved \in [Xfer -> Xfer \union {None, Unnamed}]
    /\ faults \in 0 .. MaxFaults
    /\ asked \subseteq Xfer /\ announced \subseteq Xfer
    /\ skewed \in BOOLEAN

(* Two files are on the wire at once only after somebody asked to cancel one of *)
(* them: neither the unlocked long texts nor failed sends let a second file past *)
(* _wait_for_send_slot (send_file, _active_resources).                          *)
OneFileAtATime ==
    \A x, y \in Xfer \ LongText :
        x # y /\ outgoing[x] = "running" /\ outgoing[y] = "running"
        => x \in asked \/ y \in asked

(* The bytes of a resource are handed to the chat under another transfer's name  *)
(* only if a transfer was announced while the receiver was not through with an   *)
(* earlier one, or a resource was concluded before its metadata had arrived      *)
(* (_resource_concluded, _dequeue_pending_file).                                 *)
MisfiledNeedsSkew == ~skewed => \A x \in Xfer : saved[x] \in {None, x}

(* Whatever fails, is cancelled or leaks the slot, every thread that wants to send *)
(* returns: the deadline of _wait_for_send_slot keeps a leaked slot from holding  *)
(* _file_send_lock for ever.                                                      *)
SendersReturn == \A x \in Xfer : <>(phase[x] \in {"returned", "failed"})

(* _has_active_transfer: "True while a file send or receive is in progress on any *)
(* link."  When the slot is taken, some send is under way.                        *)
BusyMeansSending ==
    SlotBusy => \E x \in Xfer :
        \/ phase[x] \in {"claimed", "announced", "built"}
        \/ outgoing[x] \in {"running", "complete", "failed", "concluding"}

(* README.md: a long message is an "RNS resource (`longtext`) on the same link".  *)
(* What arrives as a long text is the text that was sent.                         *)
LongTextIntact == \A x \in Xfer : saved[x] \in LongText => saved[x] = x
=============================================================================
