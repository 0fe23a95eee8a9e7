------------------------------ MODULE SendQueue ------------------------------
(* The store-and-forward queue of chatx5 (core/messaging/queue.py, the hub    *)
(* drain of hub.py, and the send and receipt paths they use).                  *)
(*                                                                             *)
(* `message_queue` is one Python list that no lock protects.  enqueue appends  *)
(* to it in place; drain_queue, clear_queue and _remove_queue_entry build a    *)
(* second list and rebind the attribute to it.  Web handlers, two 5-second     *)
(* retry loops, per-peer drain timers and the RNS packet threads all do so.    *)
(* A list is modelled by the set of its msg_ids (enqueue keeps them unique);   *)
(* the order of the entries is abstracted, so a loop visits them in any order. *)
EXTENDS Naturals

CONSTANTS
    Msg,            \* msg_ids the web layer may enqueue, each one once
    Peer,           \* 1:1 destinations
    HubGroup,       \* the "__hub_group__" destination
    KindOf,         \* "text" (text, emoji), "file" (file types) or "share"
    TargetOf,       \* the target_hash of each entry
    Drainer,        \* threads that run a drain: the retry loops and the timers
    Receiver,       \* RNS threads that run the packet callback
    NoCallback,     \* no entry in _receipt_callbacks
    PastRun,        \* a callback closed over an earlier run of drain_queue
    MaxFaults       \* bound on link losses plus process crashes

Dest == Peer \union {TargetOf[m] : m \in Msg}

ASSUME KindAssumption == KindOf \in [Msg -> {"text", "file", "share"}]
ASSUME TargetAssumption == TargetOf \in [Msg -> Peer \union {HubGroup}]
ASSUME HubAssumption == HubGroup \notin Peer
ASSUME CallbackAssumption == /\ NoCallback \notin Drainer
                             /\ PastRun \notin Drainer
                             /\ NoCallback # PastRun
ASSUME FaultAssumption == MaxFaults \in Nat

VARIABLES
    messageQueue,       \* the list self.message_queue is bound to
    disk,               \* queue.json
    awaiting,           \* entries whose _queue_sent_at is under 10 s old
    drain,              \* per drain thread: its locals
    rx,                 \* per packet thread: its locals
    ui,                 \* the event loop thread: its locals
    receiptCallback,    \* _receipt_callbacks: which drain run it closes over
    up,                 \* destinations with a usable link
    wire,               \* packets and receipts in flight
    missing,            \* entries whose file no longer exists
    faults,             \* link losses and crashes so far
    fate,               \* history: what has become of each entry
    shown               \* chat history rows that on_queue_sent marked "sent"

store   == <<messageQueue, disk>>
threads == <<drain, rx, ui>>
vars == <<store, awaiting, threads, receiptCallback, up, wire, missing, faults,
          fate, shown>>

\* "unused": not enqueued yet; "pending": the queue owes it to its target; "cleared":
\* the user asked to clear it; "exposed": an unprotected window may have lost it;
\* "settled": the remote peer has processed the text, or send_file or send_hub_*
\* has taken the rest.
Fate == {"unused", "pending", "cleared", "exposed", "settled"}
Becomes(S, f) == [m \in Msg |-> IF m \in S THEN f ELSE fate[m]]

\* A text for a 1:1 peer stays queued until its receipt; all else leaves at once.
NeedsReceipt(m) == KindOf[m] = "text" /\ TargetOf[m] # HubGroup
\* drain_queue has no branch for a share offer to a 1:1 peer.
Unhandled(m) == KindOf[m] = "share" /\ TargetOf[m] # HubGroup

\* Locals of a drain: the entries its loop has still to visit, whether the list it
\* loops over is still the one message_queue is bound to, the `remaining` list, the
\* unvisited entries it will find stamped less than 10 s before its `now`, the entry
\* being sent, and confirmed_ids, as far as it is still looked up.
DrainLocals ==
    [pc : {"idle", "loop", "sent", "registered", "filing", "assign", "save"},
     peer : Peer \union {HubGroup}, todo : SUBSET Msg, live : BOOLEAN,
     remaining : SUBSET Msg, held : SUBSET Msg, cur : SUBSET Msg, confirmed : SUBSET Msg]
IdleDrain == [pc |-> "idle", peer |-> HubGroup, todo |-> {}, live |-> FALSE,
              remaining |-> {}, held |-> {}, cur |-> {}, confirmed |-> {}]
PacketLocals ==
    [pc : {"idle", "remove", "save", "callback", "remove2", "save2", "show"},
     msg : SUBSET Msg, list : SUBSET Msg, removed : BOOLEAN,
     by : Drainer \union {NoCallback, PastRun}]
IdleRx == [pc |-> "idle", msg |-> {}, list |-> {}, removed |-> FALSE,
           by |-> NoCallback]
IdleUi == [pc |-> "idle", list |-> {}]

Init ==
    /\ messageQueue = {}
    /\ disk = [state |-> "whole", entries |-> {}]
    /\ awaiting = {}
    /\ drain = [t \in Drainer |-> IdleDrain]
    /\ rx = [r \in Receiver |-> IdleRx]
    /\ ui = IdleUi
    /\ receiptCallback = [m \in Msg |-> NoCallback]
    /\ up = {}
    /\ wire = [packets |-> {}, receipts |-> {}]
    /\ missing = {}
    /\ faults = 0
    /\ fate = [m \in Msg |-> "unused"]
    /\ shown = {}

-----------------------------------------------------------------------------
(* _save_queue: open(..., "w") truncates, json.dump writes what message_queue  *)
(* is bound to by then.  A second writer that opened earlier overwrites from   *)
(* offset 0, and what is left may not parse.                                   *)
\* (mutant) a save that is skipped.
NotSaved  == disk
Truncated == [state |-> "empty", entries |-> {}]
Garbled   == [state |-> "garbage", entries |-> {}]
\* (mutant) the list dumped inside another list.
NestedSnapshot == [state |-> "whole", entries |-> {messageQueue}]
Snapshot  == [state |-> "whole", entries |-> messageQueue]
DumpOutcomes == {Snapshot} \union (IF disk.state = "empty" THEN {} ELSE {Garbled})

\* Binding message_queue to another list: every loop over the old one goes on
\* with a list that later appends do not reach.
Detached(d) == [t \in Drainer |-> [d[t] EXCEPT !.live = FALSE]]

\* Some thread is past the point where an append would reach what it is going
\* to bind message_queue to.
OverwritePending ==
    \/ \E t \in Drainer :
         \/ drain[t].pc \in {"loop", "sent", "registered", "filing"} /\ ~drain[t].live
         \/ drain[t].pc = "assign"
    \/ \E r \in Receiver : rx[r].pc \in {"remove", "remove2"}

-----------------------------------------------------------------------------
(* The event loop thread. *)

\* enqueue: append in place, then save.
Enqueue(m) ==
    /\ ui.pc = "idle"
    /\ fate[m] = "unused"
    /\ messageQueue' = messageQueue \union {m}
    /\ drain' = [t \in Drainer |->
                   IF drain[t].live
                   THEN [drain[t] EXCEPT !.todo = @ \union {m}] ELSE drain[t]]
    /\ disk' = Truncated
    /\ ui' = [ui EXCEPT !.pc = "save"]
    /\ fate' = Becomes({m}, IF OverwritePending THEN "exposed" ELSE "pending")
    /\ UNCHANGED <<awaiting, rx, receiptCallback, up, wire, missing, faults, shown>>

\* clear_queue(target) or clear_queue(): build the list that stays ...
ClearStart(targets) ==
    /\ ui.pc = "idle"
    /\ LET keep == {m \in messageQueue : TargetOf[m] \notin targets} IN
         /\ ui' = [pc |-> "clear", list |-> keep]
         /\ fate' = Becomes({m \in messageQueue \ keep : fate[m] # "settled"},
                            "cleared")
    /\ UNCHANGED <<store, awaiting, drain, rx, receiptCallback, up, wire, missing,
                   faults, shown>>

\* ... and bind it.
ClearAssign ==
    /\ ui.pc = "clear"
    /\ messageQueue' = ui.list
    /\ drain' = Detached(drain)
    /\ disk' = Truncated
    /\ ui' = [pc |-> "save", list |-> {}]
    /\ UNCHANGED <<awaiting, rx, receiptCallback, up, wire, missing, faults,
                   fate, shown>>

UiSave ==
    /\ ui.pc = "save"
    /\ disk' \in DumpOutcomes
    /\ ui' = IdleUi
    /\ UNCHANGED <<messageQueue, awaiting, drain, rx, receiptCallback, up, wire,
                   missing, faults, fate, shown>>

-----------------------------------------------------------------------------
(* drain_queue and drain_hub_group_queue, on thread t. *)

DrainStart(t, p) ==
    /\ drain[t].pc = "idle"
    /\ p \in up
    /\ p = HubGroup => \E m \in messageQueue : TargetOf[m] = HubGroup
    /\ drain' = [drain EXCEPT ![t] =
                   [IdleDrain EXCEPT !.pc = "loop", !.peer = p, !.live = TRUE,
                                     !.todo = messageQueue,
                                     !.held = messageQueue \intersect awaiting]]
    /\ receiptCallback' = [m \in Msg |-> IF receiptCallback[m] = t
                                         THEN PastRun ELSE receiptCallback[m]]
    /\ rx' = [r \in Receiver |-> IF rx[r].by = t
                                 THEN [rx[r] EXCEPT !.by = PastRun] ELSE rx[r]]
    /\ UNCHANGED <<store, awaiting, ui, up, wire, missing, faults, fate, shown>>

\* What keeps an entry without sending it: another destination, a receipt still
\* awaited, a hub file that is gone, or no link any more.
Kept(t, m) ==
    \/ TargetOf[m] # drain[t].peer
    \/ NeedsReceipt(m) /\ m \in drain[t].held
    \/ TargetOf[m] = HubGroup /\ m \in missing
    \/ ~Unhandled(m) /\ m \notin missing /\ TargetOf[m] \notin up

DrainKeep(t, m) ==
    /\ drain[t].pc = "loop"
    /\ m \in drain[t].todo
    /\ Kept(t, m)
    /\ drain' = [drain EXCEPT ![t] =
                   [drain[t] EXCEPT !.todo = @ \ {m}, !.held = @ \ {m},
                             !.remaining = @ \union {m}]]
    /\ UNCHANGED <<store, awaiting, rx, ui, receiptCallback, up, wire, missing,
                   faults, fate, shown>>

\* Neither branch of drain_queue: nothing sent, nothing kept.  So fares an
\* unknown type, and a file that is no longer there.
DrainDrop(t, m) ==
    /\ drain[t].pc = "loop"
    /\ m \in drain[t].todo
    /\ ~Kept(t, m)
    /\ Unhandled(m) \/ m \in missing
    /\ drain' = [drain EXCEPT ![t] = [drain[t] EXCEPT !.todo = @ \ {m}]]
    /\ UNCHANGED <<store, awaiting, rx, ui, receiptCallback, up, wire, missing,
                   faults, fate, shown>>

\* send_message up to packet.send(); a _queue_sent_at over 10 s old has been popped.
DrainSend(t, m) ==
    /\ drain[t].pc = "loop"
    /\ m \in drain[t].todo
    /\ ~Kept(t, m) /\ NeedsReceipt(m)
    /\ drain' = [drain EXCEPT ![t] =
                   [drain[t] EXCEPT !.todo = @ \ {m}, !.pc = "sent", !.cur = {m}]]
    /\ wire' = [wire EXCEPT !.packets = @ \union {m}]
    /\ UNCHANGED <<store, awaiting, rx, ui, receiptCallback, up, missing, faults, fate, shown>>

\* (mutant) on_receipt that takes the local "sent" for a receipt.
DrainRegisterNotifies(t) ==
    /\ drain[t].pc = "sent"
    /\ drain' = [drain EXCEPT ![t] = [drain[t] EXCEPT !.pc = "registered"]]
    /\ shown' = shown \union drain[t].cur
    /\ UNCHANGED <<store, awaiting, rx, ui, receiptCallback, up, wire, missing,
                   faults, fate>>

\* _receipt_callbacks[msg_id] = on_receipt, only after the packet has left; then
\* _fire_sent_receipt calls it with "sent", which on_receipt ignores.
DrainRegister(t) ==
    /\ drain[t].pc = "sent"
    /\ drain' = [drain EXCEPT ![t] = [drain[t] EXCEPT !.pc = "registered"]]
    /\ receiptCallback' = [m \in Msg |-> IF m \in drain[t].cur
                                         THEN t ELSE receiptCallback[m]]
    /\ UNCHANGED <<store, awaiting, rx, ui, up, wire, missing, faults, fate, shown>>

\* (mutant) a text that was sent counts as delivered.
KeptAfterSendNever(t) == {}
\* What goes on waiting for a receipt: confirmed_ids is looked up once, right here.
KeptAfterSend(t) == drain[t].cur \ drain[t].confirmed

\* Back in drain_queue: stamp the entry, keep it unless its receipt has been here.
DrainStamp(t) ==
    /\ drain[t].pc = "registered"
    /\ awaiting' = awaiting \union drain[t].cur
    /\ drain' = [u \in Drainer |->
                   IF u = t
                   THEN [drain[t] EXCEPT
                           !.pc = "loop", !.cur = {}, !.confirmed = {},
                           !.remaining = @ \union KeptAfterSend(t)]
                   ELSE [drain[u] EXCEPT
                           !.held = @ \union (drain[t].cur \intersect drain[u].todo)]]
    /\ UNCHANGED <<store, rx, ui, receiptCallback, up, wire, missing, faults,
                   fate, shown>>

\* send_file, send_hub_file and send_hub_message return after minutes at worst.
DrainFileStart(t, m) ==
    /\ drain[t].pc = "loop"
    /\ m \in drain[t].todo
    /\ ~Kept(t, m) /\ ~NeedsReceipt(m) /\ ~Unhandled(m) /\ m \notin missing
    /\ drain' = [drain EXCEPT ![t] =
                   [drain[t] EXCEPT !.todo = @ \ {m}, !.pc = "filing", !.cur = {m}]]
    /\ UNCHANGED <<store, awaiting, rx, ui, receiptCallback, up, wire, missing,
                   faults, fate, shown>>

DrainFileTaken(t) ==
    /\ drain[t].pc = "filing"
    /\ drain' = [drain EXCEPT ![t] = [drain[t] EXCEPT !.pc = "loop", !.cur = {}]]
    /\ fate' = Becomes(drain[t].cur, "settled")
    /\ shown' = shown \union drain[t].cur
    /\ UNCHANGED <<store, awaiting, rx, ui, receiptCallback, up, wire, missing,
                   faults>>

\* (mutant) an entry that could not be sent is dropped.
DrainFileFailedDrops(t) ==
    /\ drain[t].pc = "filing"
    /\ drain' = [drain EXCEPT ![t] = [drain[t] EXCEPT !.pc = "loop", !.cur = {}]]
    /\ UNCHANGED <<store, awaiting, rx, ui, receiptCallback, up, wire, missing,
                   faults, fate, shown>>

DrainFileFailed(t) ==
    /\ drain[t].pc = "filing"
    /\ drain' = [drain EXCEPT ![t] =
                   [drain[t] EXCEPT !.pc = "loop", !.cur = {},
                             !.remaining = @ \union drain[t].cur]]
    /\ UNCHANGED <<store, awaiting, rx, ui, receiptCallback, up, wire, missing,
                   faults, fate, shown>>

\* The for loop is exhausted ...
DrainLoopEnd(t) ==
    /\ drain[t].pc = "loop"
    /\ drain[t].todo = {}
    /\ drain' = [drain EXCEPT ![t] = [drain[t] EXCEPT !.pc = "assign"]]
    /\ UNCHANGED <<store, awaiting, rx, ui, receiptCallback, up, wire, missing,
                   faults, fate, shown>>

\* ... and self.message_queue = remaining.
DrainAssign(t) ==
    /\ drain[t].pc = "assign"
    /\ messageQueue' = drain[t].remaining
    /\ drain' = Detached([drain EXCEPT ![t] = [IdleDrain EXCEPT !.pc = "save"]])
    /\ disk' = Truncated
    /\ UNCHANGED <<awaiting, rx, ui, receiptCallback, up, wire, missing, faults,
                   fate, shown>>

DrainSave(t) ==
    /\ drain[t].pc = "save"
    /\ disk' \in DumpOutcomes
    /\ drain' = [drain EXCEPT ![t] = IdleDrain]
    /\ UNCHANGED <<messageQueue, awaiting, rx, ui, receiptCallback, up, wire,
                   missing, faults, fate, shown>>

-----------------------------------------------------------------------------
(* A __receipt packet on thread r. *)

\* _remove_queue_entry: build the list without the entry ...
ReceiptArrive(r, m) ==
    /\ rx[r].pc = "idle"
    /\ m \in wire.receipts
    /\ wire' = [wire EXCEPT !.receipts = @ \ {m}]
    /\ rx' = [rx EXCEPT ![r] = [IdleRx EXCEPT !.pc = "remove", !.msg = {m},
                                  !.list = messageQueue \ {m},
                                  !.removed = m \in messageQueue]]
    /\ UNCHANGED <<store, awaiting, drain, ui, receiptCallback, up, missing, faults,
                   fate, shown>>

\* ... bind it, and save if it is shorter.  The second time round (remove2) it is
\* on_receipt that goes on.
AfterAssign(p, removed) ==
    IF removed THEN (IF p = "remove" THEN "save" ELSE "save2")
               ELSE (IF p = "remove" THEN "callback" ELSE "show")

ReceiptAssign(r) ==
    /\ rx[r].pc \in {"remove", "remove2"}
    /\ messageQueue' = rx[r].list
    /\ drain' = Detached(drain)
    /\ disk' = IF rx[r].removed THEN Truncated ELSE disk
    /\ rx' = [rx EXCEPT ![r] =
                [rx[r] EXCEPT !.pc = AfterAssign(rx[r].pc, rx[r].removed),
                              !.list = {}, !.removed = FALSE]]
    /\ UNCHANGED <<awaiting, ui, receiptCallback, up, wire, missing, faults, fate,
                   shown>>

ReceiptSave(r) ==
    /\ rx[r].pc \in {"save", "save2"}
    /\ disk' \in DumpOutcomes
    /\ rx' = [rx EXCEPT ![r] =
                [rx[r] EXCEPT !.pc = IF rx[r].pc = "save" THEN "callback" ELSE "show"]]
    /\ UNCHANGED <<messageQueue, awaiting, drain, ui, receiptCallback, up, wire,
                   missing, faults, fate, shown>>

\* No callback is registered (a restart, or the receipt overtook DrainRegister).
ReceiptNoCallback(r) ==
    /\ rx[r].pc = "callback"
    /\ \A m \in rx[r].msg : receiptCallback[m] = NoCallback
    /\ rx' = [rx EXCEPT ![r] = IdleRx]
    /\ UNCHANGED <<store, awaiting, drain, ui, receiptCallback, up, wire, missing,
                   faults, fate, shown>>

\* Thread t has not returned from the send_message whose receipt this is.
StillSending(t, owner, m) == owner = t /\ m \in drain[t].cur

\* on_receipt of drain_queue: confirmed_ids, then _remove_queue_entry once more ...
ReceiptCallback(r) ==
    /\ rx[r].pc = "callback"
    /\ \E m \in rx[r].msg :
         /\ receiptCallback[m] # NoCallback
         /\ receiptCallback' = [receiptCallback EXCEPT ![m] = NoCallback]
         /\ drain' = [t \in Drainer |->
                        IF StillSending(t, receiptCallback[m], m)
                        THEN [drain[t] EXCEPT !.confirmed = drain[t].confirmed \union {m}]
                        ELSE drain[t]]
         /\ rx' = [rx EXCEPT ![r] =
                     [rx[r] EXCEPT !.pc = "remove2", !.list = messageQueue \ {m},
                                   !.removed = m \in messageQueue,
                                   !.by = receiptCallback[m]]]
    /\ UNCHANGED <<store, awaiting, ui, up, wire, missing, faults, fate, shown>>

\* ... and on_queue_sent, if send_message has returned by now (sent_msg).
ReceiptShow(r) ==
    /\ rx[r].pc = "show"
    /\ shown' = shown \union {m \in rx[r].msg :
                                \A t \in Drainer : ~StillSending(t, rx[r].by, m)}
    /\ rx' = [rx EXCEPT ![r] = IdleRx]
    /\ UNCHANGED <<store, awaiting, drain, ui, receiptCallback, up, wire, missing,
                   faults, fate>>

-----------------------------------------------------------------------------
(* The surroundings: the remote peer, the network, the clock, faults. *)

\* The remote packet callback: on_message, then _send_receipt.
RemoteReceive(m) ==
    /\ m \in wire.packets
    /\ wire' = [packets |-> wire.packets \ {m}, receipts |-> wire.receipts \union {m}]
    /\ fate' = Becomes({m}, "settled")
    /\ UNCHANGED <<store, awaiting, threads, receiptCallback, up, missing, faults,
                   shown>>

LosePacket(m) ==
    /\ m \in wire.packets
    /\ wire' = [wire EXCEPT !.packets = @ \ {m}]
    /\ UNCHANGED <<store, awaiting, threads, receiptCallback, up, missing, faults,
                   fate, shown>>

LoseReceipt(m) ==
    /\ m \in wire.receipts
    /\ wire' = [wire EXCEPT !.receipts = @ \ {m}]
    /\ UNCHANGED <<store, awaiting, threads, receiptCallback, up, missing, faults,
                   fate, shown>>

\* (mutant) the stamp never gets old.
ReceiptNeverTimesOut(m) == m \in awaiting /\ UNCHANGED vars

\* (mutant) an unanswered text is queued once more.
ReceiptTimeoutRequeues(m) ==
    /\ m \in awaiting
    /\ awaiting' = awaiting \ {m}
    /\ messageQueue' = messageQueue \union {m}
    /\ UNCHANGED <<disk, threads, receiptCallback, up, wire, missing, faults, fate,
                   shown>>

\* QUEUE_RECEIPT_TIMEOUT_S has passed since the stamp.
ReceiptTimeout(m) ==
    /\ m \in awaiting
    /\ awaiting' = awaiting \ {m}
    /\ UNCHANGED <<store, threads, receiptCallback, up, wire, missing, faults,
                   fate, shown>>

FileDeleted(m) ==
    /\ m \in messageQueue /\ KindOf[m] = "file" /\ m \notin missing
    /\ missing' = missing \union {m}
    /\ UNCHANGED <<store, awaiting, threads, receiptCallback, up, wire, faults,
                   fate, shown>>

LinkUp(p) ==
    /\ p \notin up
    /\ up' = up \union {p}
    /\ UNCHANGED <<store, awaiting, threads, receiptCallback, wire, missing, faults,
                   fate, shown>>

LinkDown(p) ==
    /\ p \in up
    /\ faults < MaxFaults
    /\ up' = up \ {p}
    /\ faults' = faults + 1
    /\ UNCHANGED <<store, awaiting, threads, receiptCallback, wire, missing, fate,
                   shown>>

\* The process dies and is started again: _load_queue, then prune_stale_queue
\* with the rows the chat history has as sent.  The stamps are read back too; how
\* old they are by then is left open.
Restart ==
    /\ faults < MaxFaults
    /\ faults' = faults + 1
    /\ LET kept == disk.entries \ shown IN
         /\ messageQueue' = kept
         /\ awaiting' \in SUBSET kept
         /\ disk' = [disk EXCEPT !.entries = kept]
    /\ drain' = [t \in Drainer |-> IdleDrain]
    /\ rx' = [r \in Receiver |-> IdleRx]
    /\ ui' = IdleUi
    /\ receiptCallback' = [m \in Msg |-> NoCallback]
    /\ up' = {}
    /\ fate' = IF disk.state = "whole" THEN fate
               ELSE Becomes({m \in Msg : fate[m] = "pending"}, "exposed")
    /\ UNCHANGED <<wire, missing, shown>>

-----------------------------------------------------------------------------
Clear == \E targets \in {Dest} \union {{p} : p \in Dest} : ClearStart(targets)
UiStep == ClearAssign \/ UiSave

DrainStep(t) ==
    \/ \E m \in Msg : \/ DrainKeep(t, m) \/ DrainDrop(t, m)
                      \/ DrainSend(t, m) \/ DrainFileStart(t, m)
    \/ DrainRegister(t) \/ DrainStamp(t)
    \/ DrainFileTaken(t) \/ DrainFileFailed(t)
    \/ DrainLoopEnd(t) \/ DrainAssign(t) \/ DrainSave(t)

ReceiptStep(r) ==
    \/ ReceiptAssign(r) \/ ReceiptSave(r)
    \/ ReceiptNoCallback(r) \/ ReceiptCallback(r) \/ ReceiptShow(r)

Environment ==
    \/ \E m \in Msg : \/ RemoteReceive(m) \/ LosePacket(m) \/ LoseReceipt(m)
                      \/ ReceiptTimeout(m) \/ FileDeleted(m)
    \/ \E p \in Dest : LinkUp(p) \/ LinkDown(p)
    \/ Restart

Next ==
    \/ \E m \in Msg : Enqueue(m)
    \/ Clear \/ UiStep
    \/ \E t \in Drainer : (\E p \in Dest : DrainStart(t, p)) \/ DrainStep(t)
    \/ \E r \in Receiver : (\E m \in Msg : ReceiptArrive(r, m)) \/ ReceiptStep(r)
    \/ Environment

Spec == Init /\ [][Next]_vars

\* The retry loops call retry_queue every 5 s for as long as the process runs and it
\* visits every queued target, so a destination with a link is drained again and
\* again, and a started drain, receipt or save goes on.  Time passes, lost links
\* come back, and the network, like a transfer, does not fail for ever.
Fairness ==
    /\ WF_vars(UiStep)
    /\ \A t \in Drainer : WF_vars(DrainStep(t)) /\ SF_vars(DrainFileTaken(t))
    /\ \A r \in Receiver : WF_vars(ReceiptStep(r))
    /\ \A p \in Dest : /\ SF_vars(\E t \in Drainer : DrainStart(t, p))
                        /\ WF_vars(LinkUp(p))
    /\ \A m \in Msg : SF_vars(RemoteReceive(m)) /\ WF_vars(ReceiptTimeout(m))

FairSpec == Spec /\ Fairness

-----------------------------------------------------------------------------
(* Properties *)

TypeOK ==
    /\ messageQueue \subseteq Msg
    /\ disk \in [state : {"whole", "empty", "garbage"}, entries : SUBSET Msg]
    /\ awaiting \subseteq Msg
    /\ drain \in [Drainer -> DrainLocals]
    /\ rx \in [Receiver -> PacketLocals]
    /\ ui \in [pc : {"idle", "save", "clear"}, list : SUBSET Msg]
    /\ receiptCallback \in [Msg -> Drainer \union {NoCallback, PastRun}]
    /\ up \subseteq Dest
    /\ wire \in [packets : SUBSET Msg, receipts : SUBSET Msg]
    /\ missing \subseteq Msg
    /\ faults \in 0 .. MaxFaults
    /\ fate \in [Msg -> Fate]
    /\ shown \subseteq Msg

\* Entries nothing has settled and no unprotected window has touched.
Safe == {m \in Msg : fate[m] = "pending" /\ m \notin missing /\ ~Unhandled(m)}

(* A concurrent rebinding of message_queue loses only what was enqueued while  *)
(* some thread was already past the point where it would have seen the entry:  *)
(* whatever drains, receipts and clears overlap, an entry enqueued outside such *)
(* a window stays in the list until it is sent, confirmed or cleared           *)
(* (drain_queue, _remove_queue_entry, clear_queue, enqueue).                   *)
LossNeedsOverlap == Safe \subseteq messageQueue

(* queue.json, when it parses, holds every entry that is still owed, whatever  *)
(* saves overlap (_save_queue): only a kill inside a save, or two overlapping  *)
(* writes, can make a restart lose one.                                        *)
DiskCoversSafe == disk.state = "whole" => Safe \subseteq disk.entries

(* A chat row turns to "sent" only for a text the peer has processed, or a file *)
(* or group message the transport has taken (on_receipt, on_queue_sent).        *)
ShownWasSettled == \A m \in shown : fate[m] = "settled"

\* A thread still has the entry in a local.
HeldByThread(m) ==
    \/ \E t \in Drainer : m \in drain[t].todo \union drain[t].remaining \union drain[t].cur
    \/ \E r \in Receiver : m \in rx[r].list
    \/ m \in ui.list
Gone(m) == /\ fate[m] # "unused"
           /\ m \notin messageQueue \union disk.entries
           /\ ~HeldByThread(m)
Box == INSTANCE Outbox WITH accepted <- {m \in Msg : fate[m] # "unused"},
         owed <- Safe, kept <- messageQueue, gone <- {m \in Msg : Gone(m)}

(* The queue is an outbox: in every step of every thread it keeps what it owes, *)
(* no obligation comes back, and an entry that no list holds any more, in       *)
(* memory, in queue.json or in the locals of a thread, never comes back: the    *)
(* stale lists of running drains are the only way a removed entry is sent again *)
(* (drain_queue's `remaining`, enqueue, clear_queue, _load_queue).              *)
ImplementsOutbox == Box!Spec

(* Every entry the queue owes is in the end delivered or taken, unless the user *)
(* clears it, its file vanishes, or a window exposes it (retry_queue).          *)
EventuallySettled ==
    \A m \in Msg : m \in Safe ~> m \notin Safe

(* README.md: a queued message is "Stored locally; drained when link is up".   *)
(* A text that is neither delivered nor cleared is in the queue.                *)
StoredUntilDrained ==
    \A m \in Msg : NeedsReceipt(m) /\ fate[m] \in {"pending", "exposed"}
                    => m \in messageQueue

(* The same for a share offer to a 1:1 peer, which share_browser.py enqueues    *)
(* and reports as "queued" when it could not be sent.                           *)
ShareOfferStored ==
    \A m \in Msg : Unhandled(m) /\ fate[m] = "pending" => m \in messageQueue
=============================================================================
