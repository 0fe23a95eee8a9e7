--------------------------- MODULE SendQueueProofs ---------------------------
(* Type correctness of SendQueue, the three safety invariants its runs check,   *)
(* and that it implements Outbox, for any entries, threads, destinations and    *)
(* number of faults.                                                            *)
EXTENDS SendQueue, TLAPS

InLoop == {"loop", "sent", "registered", "filing"}

(* What each place that will end up bound to message_queue must still hold.    *)
DrainsKeepSafe ==
    \A t \in Drainer :
      /\ drain[t].pc \in InLoop =>
           Safe \subseteq drain[t].todo \union drain[t].remaining \union drain[t].cur
      /\ drain[t].pc = "loop" => drain[t].cur = {}
      /\ drain[t].pc = "assign" => Safe \subseteq drain[t].remaining
      /\ \A m \in drain[t].confirmed : fate[m] = "settled"
ReceiptsKeepSafe ==
    \A r \in Receiver :
      /\ rx[r].pc \in {"remove", "remove2"} => Safe \subseteq rx[r].list
      /\ \A m \in rx[r].msg : fate[m] = "settled"
UiKeepsSafe == ui.pc = "clear" => Safe \subseteq ui.list
ReceiptsSettled == \A m \in wire.receipts : fate[m] = "settled"

IInv ==
    /\ TypeOK
    /\ LossNeedsOverlap
    /\ DiskCoversSafe
    /\ ShownWasSettled
    /\ DrainsKeepSafe
    /\ ReceiptsKeepSafe
    /\ UiKeepsSafe
    /\ ReceiptsSettled

-----------------------------------------------------------------------------
LEMMA DrainUpdated ==
  ASSUME NEW f \in [Drainer -> DrainLocals], NEW t \in Drainer, NEW d \in DrainLocals
  PROVE  [f EXCEPT ![t] = d] \in [Drainer -> DrainLocals]
  OBVIOUS

LEMMA PacketUpdated ==
  ASSUME NEW f \in [Receiver -> PacketLocals], NEW r \in Receiver,
         NEW d \in PacketLocals
  PROVE  [f EXCEPT ![r] = d] \in [Receiver -> PacketLocals]
  OBVIOUS

LEMMA DetachedTyped ==
  ASSUME NEW f \in [Drainer -> DrainLocals]
  PROVE  Detached(f) \in [Drainer -> DrainLocals]
  BY DEF Detached, DrainLocals

(* What ReceiptArrive and ReceiptCallback store is a packet thread's locals.    *)
LEMMA PacketStarted ==
  ASSUME NEW m \in Msg, NEW L \in SUBSET Msg, NEW b \in BOOLEAN
  PROVE  [IdleRx EXCEPT !.pc = "remove", !.msg = {m}, !.list = L \ {m}, !.removed = b]
           \in PacketLocals
  BY DEF IdleRx, PacketLocals

LEMMA PacketCalledBack ==
  ASSUME NEW m \in Msg, NEW L \in SUBSET Msg, NEW b \in BOOLEAN, NEW x \in PacketLocals,
         NEW c \in Drainer \union {NoCallback, PastRun}
  PROVE  [x EXCEPT !.pc = "remove2", !.list = L \ {m}, !.removed = b, !.by = c]
           \in PacketLocals
  BY DEF PacketLocals

LEMMA IdleTyped == IdleDrain \in DrainLocals /\ IdleRx \in PacketLocals
  BY DEF IdleDrain, DrainLocals, IdleRx, PacketLocals

(* Every variable keeps its type in every step of every thread.               *)
THEOREM TypeCorrect == Spec => []TypeOK
<1>1. Init => TypeOK
  BY FaultAssumption, IdleTyped DEF Init, TypeOK, Fate, IdleUi
<1>2. TypeOK /\ [Next]_vars => TypeOK'
  <2> SUFFICES ASSUME TypeOK, [Next]_vars PROVE TypeOK'
    OBVIOUS
  <2>a. /\ drain \in [Drainer -> DrainLocals] /\ rx \in [Receiver -> PacketLocals]
        /\ messageQueue \subseteq Msg /\ awaiting \subseteq Msg
    BY DEF TypeOK
  <2>1. ASSUME NEW m \in Msg, Enqueue(m) PROVE TypeOK'
    <3>1. \A t \in Drainer : [drain[t] EXCEPT !.todo = @ \union {m}] \in DrainLocals
      BY <2>a DEF DrainLocals
    <3>2. drain' \in [Drainer -> DrainLocals]
      BY <2>1, <2>a, <3>1 DEF Enqueue
    <3> QED
      BY <2>1, <3>2 DEF Enqueue, Truncated, Becomes, Fate, TypeOK, store, threads
  <2>2. ASSUME NEW S \in SUBSET Dest, ClearStart(S) PROVE TypeOK'
    BY <2>2 DEF ClearStart, Becomes, Fate, TypeOK, store, threads
  <2>3. ASSUME ClearAssign PROVE TypeOK'
    BY <2>3, <2>a, DetachedTyped DEF ClearAssign, Truncated, TypeOK, store, threads
  <2>4. ASSUME UiSave PROVE TypeOK'
    BY <2>4 DEF UiSave, IdleUi, DumpOutcomes, Snapshot, Garbled, TypeOK, store,
       threads
  <2>5. ASSUME NEW t \in Drainer, NEW p \in Dest, DrainStart(t, p) PROVE TypeOK'
    <3>1. [IdleDrain EXCEPT !.pc = "loop", !.peer = p, !.live = TRUE,
                        !.todo = messageQueue,
                        !.held = messageQueue \intersect awaiting]
            \in DrainLocals
      BY <2>5, <2>a, HubAssumption, TargetAssumption DEF DrainLocals, Dest,
         IdleDrain
    <3>2. drain' \in [Drainer -> DrainLocals]
      BY <2>5, <2>a, <3>1, DrainUpdated DEF DrainStart
    <3>3. \A r \in Receiver : [rx[r] EXCEPT !.by = PastRun] \in PacketLocals
      BY <2>a DEF PacketLocals
    <3>4. rx' \in [Receiver -> PacketLocals]
      BY <2>5, <2>a, <3>3 DEF DrainStart
    <3> QED
      BY <2>5, <3>2, <3>4 DEF DrainStart, TypeOK, store, threads
  <2>6. ASSUME NEW t \in Drainer, NEW m \in Msg, DrainKeep(t, m) PROVE TypeOK'
    <3>1. [drain[t] EXCEPT !.todo = @ \ {m}, !.held = @ \ {m},
                        !.remaining = @ \union {m}]
            \in DrainLocals
      BY <2>a DEF DrainLocals
    <3>2. drain' \in [Drainer -> DrainLocals]
      BY <2>6, <2>a, <3>1, DrainUpdated DEF DrainKeep
    <3> QED
      BY <2>6, <3>2 DEF DrainKeep, TypeOK, store, threads
  <2>7. ASSUME NEW t \in Drainer, NEW m \in Msg, DrainDrop(t, m) PROVE TypeOK'
    <3>1. [drain[t] EXCEPT !.todo = @ \ {m}]
            \in DrainLocals
      BY <2>a DEF DrainLocals
    <3>2. drain' \in [Drainer -> DrainLocals]
      BY <2>7, <2>a, <3>1, DrainUpdated DEF DrainDrop
    <3> QED
      BY <2>7, <3>2 DEF DrainDrop, TypeOK, store, threads
  <2>8. ASSUME NEW t \in Drainer, NEW m \in Msg, DrainSend(t, m) PROVE TypeOK'
    <3>1. [drain[t] EXCEPT !.todo = @ \ {m}, !.pc = "sent", !.cur = {m}]
            \in DrainLocals
      BY <2>a DEF DrainLocals
    <3>2. drain' \in [Drainer -> DrainLocals]
      BY <2>8, <2>a, <3>1, DrainUpdated DEF DrainSend
    <3> QED
      BY <2>8, <3>2 DEF DrainSend, TypeOK, store, threads
  <2>9. ASSUME NEW t \in Drainer, DrainRegister(t) PROVE TypeOK'
    <3>1. [drain[t] EXCEPT !.pc = "registered"]
            \in DrainLocals
      BY <2>a DEF DrainLocals
    <3>2. drain' \in [Drainer -> DrainLocals]
      BY <2>9, <2>a, <3>1, DrainUpdated DEF DrainRegister
    <3> QED
      BY <2>9, <3>2 DEF DrainRegister, TypeOK, store, threads
  <2>10. ASSUME NEW t \in Drainer, DrainStamp(t) PROVE TypeOK'
    <3>1. [drain[t] EXCEPT !.pc = "loop", !.cur = {}, !.confirmed = {},
                        !.remaining = @ \union KeptAfterSend(t)] \in DrainLocals
      BY <2>a DEF DrainLocals, KeptAfterSend
    <3>2. \A u \in Drainer :
            [drain[u] EXCEPT !.held = @ \union (drain[t].cur \intersect drain[u].todo)]
              \in DrainLocals
      BY <2>a DEF DrainLocals
    <3>3. drain' \in [Drainer -> DrainLocals]
      BY <2>10, <2>a, <3>1, <3>2 DEF DrainStamp
    <3>4. drain[t].cur \subseteq Msg
      BY <2>a DEF DrainLocals
    <3> QED
      BY <2>10, <3>3, <3>4 DEF DrainStamp, TypeOK, store, threads
  <2>11. ASSUME NEW t \in Drainer, NEW m \in Msg, DrainFileStart(t, m) PROVE TypeOK'
    <3>1. [drain[t] EXCEPT !.todo = @ \ {m}, !.pc = "filing", !.cur = {m}]
            \in DrainLocals
      BY <2>a DEF DrainLocals
    <3>2. drain' \in [Drainer -> DrainLocals]
      BY <2>11, <2>a, <3>1, DrainUpdated DEF DrainFileStart
    <3> QED
      BY <2>11, <3>2 DEF DrainFileStart, TypeOK, store, threads
  <2>12. ASSUME NEW t \in Drainer, DrainFileTaken(t) PROVE TypeOK'
    <3>1. [drain[t] EXCEPT !.pc = "loop", !.cur = {}]
            \in DrainLocals
      BY <2>a DEF DrainLocals
    <3>2. drain' \in [Drainer -> DrainLocals]
      BY <2>12, <2>a, <3>1, DrainUpdated DEF DrainFileTaken
    <3>3. drain[t].cur \subseteq Msg
      BY <2>a DEF DrainLocals
    <3> QED
      BY <2>12, <3>2, <3>3 DEF DrainFileTaken, Becomes, Fate, TypeOK, store, threads
  <2>13. ASSUME NEW t \in Drainer, DrainFileFailed(t) PROVE TypeOK'
    <3>1. [drain[t] EXCEPT !.pc = "loop", !.cur = {},
                        !.remaining = @ \union drain[t].cur]
            \in DrainLocals
      BY <2>a DEF DrainLocals
    <3>2. drain' \in [Drainer -> DrainLocals]
      BY <2>13, <2>a, <3>1, DrainUpdated DEF DrainFileFailed
    <3> QED
      BY <2>13, <3>2 DEF DrainFileFailed, TypeOK, store, threads
  <2>14. ASSUME NEW t \in Drainer, DrainLoopEnd(t) PROVE TypeOK'
    <3>1. [drain[t] EXCEPT !.pc = "assign"]
            \in DrainLocals
      BY <2>a DEF DrainLocals
    <3>2. drain' \in [Drainer -> DrainLocals]
      BY <2>14, <2>a, <3>1, DrainUpdated DEF DrainLoopEnd
    <3> QED
      BY <2>14, <3>2 DEF DrainLoopEnd, TypeOK, store, threads
  <2>15. ASSUME NEW t \in Drainer, DrainAssign(t) PROVE TypeOK'
    <3>1. [IdleDrain EXCEPT !.pc = "save"] \in DrainLocals
      BY IdleTyped DEF DrainLocals
    <3>2. drain' \in [Drainer -> DrainLocals]
      BY <2>15, <2>a, <3>1, DrainUpdated, <2>a, DetachedTyped DEF DrainAssign
    <3>3. drain[t].remaining \subseteq Msg
      BY <2>a DEF DrainLocals
    <3> QED
      BY <2>15, <3>2, <3>3 DEF DrainAssign, Truncated, TypeOK, store, threads
  <2>16. ASSUME NEW t \in Drainer, DrainSave(t) PROVE TypeOK'
    <3>1. IdleDrain
            \in DrainLocals
      BY IdleTyped
    <3>2. drain' \in [Drainer -> DrainLocals]
      BY <2>16, <2>a, <3>1, DrainUpdated DEF DrainSave
    <3> QED
      BY <2>16, <3>2 DEF DrainSave, DumpOutcomes, Snapshot, Garbled, TypeOK,
         store, threads
  <2>17. ASSUME NEW r \in Receiver, NEW m \in Msg, ReceiptArrive(r, m) PROVE TypeOK'
    <3>1. [IdleRx EXCEPT !.pc = "remove", !.msg = {m}, !.list = messageQueue \ {m},
                        !.removed = m \in messageQueue] \in PacketLocals
      <4>1. (m \in messageQueue) \in BOOLEAN
        OBVIOUS
      <4> QED
        BY <2>a, <4>1, PacketStarted
    <3>2. rx' \in [Receiver -> PacketLocals]
      BY <2>17, <2>a, <3>1, PacketUpdated DEF ReceiptArrive
    <3> QED
      BY <2>17, <3>2 DEF ReceiptArrive, TypeOK, store, threads
  <2>18. ASSUME NEW r \in Receiver, ReceiptAssign(r) PROVE TypeOK'
    <3>1. /\ [rx[r] EXCEPT !.pc = AfterAssign(rx[r].pc, rx[r].removed),
                            !.list = {}, !.removed = FALSE] \in PacketLocals
          /\ rx[r].list \subseteq Msg
      BY <2>a DEF PacketLocals, AfterAssign
    <3>2. rx' \in [Receiver -> PacketLocals]
      BY <2>18, <2>a, <3>1, PacketUpdated DEF ReceiptAssign
    <3> QED
      BY <2>18, <3>1, <3>2, <2>a, DetachedTyped DEF ReceiptAssign, Truncated,
         TypeOK, store, threads
  <2>19. ASSUME NEW r \in Receiver, ReceiptSave(r) PROVE TypeOK'
    <3>1. [rx[r] EXCEPT !.pc = IF rx[r].pc = "save" THEN "callback" ELSE "show"]
            \in PacketLocals
      BY <2>a DEF PacketLocals
    <3>2. rx' \in [Receiver -> PacketLocals]
      BY <2>19, <3>1, <2>a, PacketUpdated DEF ReceiptSave
    <3> QED
      BY <2>19, <3>2 DEF ReceiptSave, DumpOutcomes, Snapshot, Garbled, TypeOK,
         store, threads
  <2>20. ASSUME NEW r \in Receiver, ReceiptNoCallback(r) PROVE TypeOK'
    BY <2>20, <2>a, IdleTyped, PacketUpdated DEF ReceiptNoCallback, TypeOK, store,
       threads
  <2>21. ASSUME NEW r \in Receiver, ReceiptCallback(r) PROVE TypeOK'
    <3>1. PICK m \in rx[r].msg : ReceiptCallback(r)!2!(m)
      BY <2>21 DEF ReceiptCallback
    <3>2. m \in Msg
      BY <2>a, <3>1 DEF PacketLocals
    <3>3. \A t \in Drainer :
            [drain[t] EXCEPT !.confirmed = drain[t].confirmed \union {m}] \in DrainLocals
      BY <2>a, <3>2 DEF DrainLocals
    <3>4. drain' \in [Drainer -> DrainLocals]
      BY <3>1, <2>a, <3>3
    <3>5. receiptCallback[m] \in Drainer \union {NoCallback, PastRun}
      BY <3>2 DEF TypeOK
    <3>6. [rx[r] EXCEPT !.pc = "remove2", !.list = messageQueue \ {m},
                        !.removed = m \in messageQueue, !.by = receiptCallback[m]]
            \in PacketLocals
      <4>1. (m \in messageQueue) \in BOOLEAN /\ rx[r] \in PacketLocals
        BY <2>a
      <4> QED
        BY <2>a, <3>2, <3>5, <4>1, PacketCalledBack
    <3>7. rx' \in [Receiver -> PacketLocals]
      BY <3>1, <3>6, <2>a, PacketUpdated
    <3> QED
      BY <2>21, <3>1, <3>2, <3>4, <3>7 DEF ReceiptCallback, TypeOK, store, threads
  <2>31. ASSUME NEW r \in Receiver, ReceiptShow(r) PROVE TypeOK'
    <3>1. rx[r].msg \subseteq Msg
      BY <2>a DEF PacketLocals
    <3>2. rx' \in [Receiver -> PacketLocals]
      BY <2>31, <2>a, IdleTyped, PacketUpdated DEF ReceiptShow
    <3> QED
      BY <2>31, <3>1, <3>2 DEF ReceiptShow, TypeOK, store, threads
  <2>22. ASSUME NEW m \in Msg, RemoteReceive(m) PROVE TypeOK'
    BY <2>22 DEF RemoteReceive, Becomes, Fate, TypeOK, store, threads
  <2>23. ASSUME NEW m \in Msg, LosePacket(m) PROVE TypeOK'
    BY <2>23 DEF LosePacket, TypeOK, store, threads
  <2>24. ASSUME NEW m \in Msg, LoseReceipt(m) PROVE TypeOK'
    BY <2>24 DEF LoseReceipt, TypeOK, store, threads
  <2>25. ASSUME NEW m \in Msg, ReceiptTimeout(m) PROVE TypeOK'
    BY <2>25 DEF ReceiptTimeout, TypeOK, store, threads
  <2>26. ASSUME NEW m \in Msg, FileDeleted(m) PROVE TypeOK'
    BY <2>26 DEF FileDeleted, TypeOK, store, threads
  <2>27. ASSUME NEW p \in Dest, LinkUp(p) PROVE TypeOK'
    BY <2>27 DEF LinkUp, TypeOK, store, threads
  <2>28. ASSUME NEW p \in Dest, LinkDown(p) PROVE TypeOK'
    BY <2>28, FaultAssumption DEF LinkDown, TypeOK, store, threads
  <2>29. ASSUME Restart PROVE TypeOK'
    BY <2>29, FaultAssumption, IdleTyped DEF Restart, IdleUi, Becomes, Fate,
       TypeOK, store, threads
  <2>30. CASE UNCHANGED vars
    BY <2>30 DEF vars, TypeOK, store, threads
  <2> QED
    BY <2>1, <2>2, <2>3, <2>4, <2>5, <2>6, <2>7, <2>8, <2>9, <2>10, <2>11, <2>12,
       <2>13, <2>14, <2>15, <2>16, <2>17, <2>18, <2>19, <2>20, <2>21, <2>22,
       <2>23, <2>24, <2>25, <2>26, <2>27, <2>28, <2>29, <2>30, <2>31
       DEF Next, Clear, UiStep, DrainStep, ReceiptStep, Environment
<1> QED
  BY <1>1, <1>2, PTL DEF Spec

-----------------------------------------------------------------------------
(* The strengthening is inductive: wherever a list is being rebuilt, the copy   *)
(* that will replace message_queue holds every safe entry.                     *)
THEOREM Safety == Spec => [](LossNeedsOverlap /\ DiskCoversSafe /\ ShownWasSettled)
<1> DEFINE Rest == /\ LossNeedsOverlap /\ DiskCoversSafe /\ ShownWasSettled
                   /\ DrainsKeepSafe /\ ReceiptsKeepSafe /\ UiKeepsSafe
                   /\ ReceiptsSettled
<1>1. Init => Rest
  BY DEF Init, Safe, LossNeedsOverlap, DiskCoversSafe, ShownWasSettled,
         DrainsKeepSafe, ReceiptsKeepSafe, UiKeepsSafe, ReceiptsSettled,
         IdleDrain, IdleRx, IdleUi, InLoop
<1>2. TypeOK /\ Rest /\ [Next]_vars => Rest'
  <2> SUFFICES ASSUME TypeOK, Rest, [Next]_vars PROVE Rest'
    OBVIOUS
  <2>a. /\ drain \in [Drainer -> DrainLocals] /\ rx \in [Receiver -> PacketLocals]
        /\ messageQueue \subseteq Msg /\ fate \in [Msg -> Fate]
        /\ ui \in [pc : {"idle", "save", "clear"}, list : SUBSET Msg]
        /\ disk \in [state : {"whole", "empty", "garbage"}, entries : SUBSET Msg]
        /\ wire \in [packets : SUBSET Msg, receipts : SUBSET Msg]
    BY DEF TypeOK
  <2>c. shown \subseteq Msg
    BY DEF TypeOK
  <2>b. /\ Safe \subseteq messageQueue
        /\ disk.state = "whole" => Safe \subseteq disk.entries
        /\ \A m \in shown : fate[m] = "settled"
    BY DEF LossNeedsOverlap, DiskCoversSafe, ShownWasSettled
  <2>1. ASSUME NEW m \in Msg, Enqueue(m) PROVE Rest'
    <3>1. /\ Safe' \subseteq Safe \union {m}
          /\ \A k \in Msg : fate[k] = "settled" => fate'[k] = "settled"
      BY <2>1, <2>a DEF Enqueue, Truncated, Becomes, Fate, store, threads, Safe
    <3>2. LossNeedsOverlap' /\ DiskCoversSafe' /\ ShownWasSettled'
      BY <2>1, <2>a, <2>b, <2>c, <3>1 DEF Enqueue, Truncated, Becomes,
         LossNeedsOverlap, DiskCoversSafe, ShownWasSettled
    <3>3. DrainsKeepSafe'
      <4>1. \A u \in Drainer :
              /\ drain'[u].pc = drain[u].pc /\ drain'[u].remaining = drain[u].remaining
              /\ drain'[u].cur = drain[u].cur
              /\ drain'[u].confirmed = drain[u].confirmed
              /\ drain[u].todo \subseteq drain'[u].todo
              /\ drain[u].live => m \in drain'[u].todo
        BY <2>1, <2>a DEF Enqueue, DrainLocals
      <4>2. CASE OverwritePending
        <5>1. Safe' \subseteq Safe
          BY <2>1, <2>a, <4>2 DEF Enqueue, Becomes, Safe
        <5> QED
          BY <3>1, <4>1, <5>1, <2>a DEF DrainsKeepSafe, InLoop, DrainLocals
      <4>3. CASE ~OverwritePending
        BY <3>1, <4>1, <4>3, <2>a
           DEF OverwritePending, DrainsKeepSafe, InLoop, DrainLocals
      <4> QED
        BY <4>2, <4>3
    <3>4. ReceiptsKeepSafe' /\ UiKeepsSafe' /\ ReceiptsSettled'
      <4>1. CASE OverwritePending
        <5>1. Safe' \subseteq Safe
          BY <2>1, <2>a, <4>1 DEF Enqueue, Becomes, Safe
        <5> QED
          BY <2>1, <2>a, <3>1, <5>1 DEF Enqueue, ReceiptsKeepSafe, UiKeepsSafe,
             ReceiptsSettled, PacketLocals
      <4>2. CASE ~OverwritePending
        BY <2>1, <2>a, <3>1, <4>2 DEF Enqueue, OverwritePending, ReceiptsKeepSafe,
           UiKeepsSafe, ReceiptsSettled, PacketLocals
      <4> QED
        BY <4>1, <4>2
    <3> QED
      BY <3>2, <3>3, <3>4
  <2>2. ASSUME NEW S \in SUBSET Dest, ClearStart(S) PROVE Rest'
    <3>1. /\ Safe' \subseteq Safe
          /\ \A k \in Msg : fate[k] = "settled" => fate'[k] = "settled"
      BY <2>2, <2>a DEF ClearStart, Becomes, Fate, store, threads, Safe
    <3>2. LossNeedsOverlap' /\ DiskCoversSafe' /\ ShownWasSettled'
      BY <2>2, <2>a, <2>b, <2>c, <3>1 DEF ClearStart, store, LossNeedsOverlap,
         DiskCoversSafe, ShownWasSettled
    <3>3. DrainsKeepSafe'
      BY <2>2, <2>a, <2>b, <3>1 DEF ClearStart, Becomes, Fate, store, threads,
         DrainsKeepSafe, InLoop, DrainLocals
    <3>4. ReceiptsKeepSafe' /\ UiKeepsSafe' /\ ReceiptsSettled'
      <4>1. Safe' \subseteq ui'.list
        BY <2>2, <2>a, <2>b, <3>1 DEF ClearStart, Becomes, Safe, Fate
      <4> QED
        BY <2>2, <2>a, <3>1, <4>1 DEF ClearStart, ReceiptsKeepSafe, UiKeepsSafe,
           ReceiptsSettled, PacketLocals
    <3> QED
      BY <3>2, <3>3, <3>4
  <2>3. ASSUME ClearAssign PROVE Rest'
    <3>1. /\ Safe' \subseteq Safe
          /\ \A k \in Msg : fate[k] = "settled" => fate'[k] = "settled"
      BY <2>3, <2>a DEF ClearAssign, Detached, Truncated, store, threads, Safe
    <3>2. LossNeedsOverlap' /\ DiskCoversSafe' /\ ShownWasSettled'
      BY <2>3, <2>a, <2>b, <2>c, <3>1 DEF ClearAssign, Truncated, UiKeepsSafe,
         LossNeedsOverlap, DiskCoversSafe, ShownWasSettled
    <3>3. DrainsKeepSafe'
      <4>1. \A u \in Drainer :
              /\ drain'[u].pc = drain[u].pc /\ drain'[u].todo = drain[u].todo
              /\ drain'[u].remaining = drain[u].remaining
              /\ drain'[u].cur = drain[u].cur
              /\ drain'[u].confirmed = drain[u].confirmed
        BY <2>3, <2>a DEF ClearAssign, Detached, DrainLocals
      <4> QED
        BY <3>1, <4>1, <2>a DEF DrainsKeepSafe, DrainLocals
    <3>4. ReceiptsKeepSafe' /\ UiKeepsSafe' /\ ReceiptsSettled'
      BY <2>3, <2>a, <2>b, <3>1 DEF ClearAssign, Detached, Truncated, store,
         threads, ReceiptsKeepSafe, UiKeepsSafe,
         ReceiptsSettled, PacketLocals
    <3> QED
      BY <3>2, <3>3, <3>4
  <2>4. ASSUME UiSave PROVE Rest'
    <3>1. /\ Safe' \subseteq Safe
          /\ \A k \in Msg : fate[k] = "settled" => fate'[k] = "settled"
      BY <2>4, <2>a DEF UiSave, IdleUi, DumpOutcomes, Snapshot, Garbled, store,
         threads, Safe
    <3>2. LossNeedsOverlap' /\ DiskCoversSafe' /\ ShownWasSettled'
      BY <2>4, <2>a, <2>b, <3>1 DEF UiSave, IdleUi, DumpOutcomes, Snapshot,
         Garbled, store, threads, LossNeedsOverlap, DiskCoversSafe,
         ShownWasSettled
    <3>3. DrainsKeepSafe'
      BY <2>4, <2>a, <2>b, <3>1 DEF UiSave, IdleUi, DumpOutcomes, Snapshot,
         Garbled, store, threads, DrainsKeepSafe, InLoop, DrainLocals
    <3>4. ReceiptsKeepSafe' /\ UiKeepsSafe' /\ ReceiptsSettled'
      BY <2>4, <2>a, <2>b, <3>1 DEF UiSave, IdleUi, DumpOutcomes, Snapshot,
         Garbled, store, threads, ReceiptsKeepSafe, UiKeepsSafe,
         ReceiptsSettled, PacketLocals
    <3> QED
      BY <3>2, <3>3, <3>4
  <2>5. ASSUME NEW t \in Drainer, NEW p \in Dest, DrainStart(t, p) PROVE Rest'
    <3>1. /\ Safe' \subseteq Safe
          /\ \A k \in Msg : fate[k] = "settled" => fate'[k] = "settled"
      BY <2>5, <2>a DEF DrainStart, IdleDrain, store, threads, Safe
    <3>2. LossNeedsOverlap' /\ DiskCoversSafe' /\ ShownWasSettled'
      BY <2>5, <2>a, <2>b, <3>1 DEF DrainStart, IdleDrain, store, threads,
         LossNeedsOverlap, DiskCoversSafe,
         ShownWasSettled
    <3>3. DrainsKeepSafe'
      BY <2>5, <2>a, <2>b, <3>1 DEF DrainStart, IdleDrain, store, threads,
         DrainsKeepSafe, InLoop, DrainLocals
    <3>4. ReceiptsKeepSafe' /\ UiKeepsSafe' /\ ReceiptsSettled'
      BY <2>5, <2>a, <2>b, <3>1 DEF DrainStart, IdleDrain, store, threads,
         ReceiptsKeepSafe, UiKeepsSafe,
         ReceiptsSettled, PacketLocals
    <3> QED
      BY <3>2, <3>3, <3>4
  <2>6. ASSUME NEW t \in Drainer, NEW m \in Msg, DrainKeep(t, m) PROVE Rest'
    <3>1. /\ Safe' \subseteq Safe
          /\ \A k \in Msg : fate[k] = "settled" => fate'[k] = "settled"
      BY <2>6, <2>a DEF DrainKeep, store, threads, Safe
    <3>2. LossNeedsOverlap' /\ DiskCoversSafe' /\ ShownWasSettled'
      BY <2>6, <2>a, <2>b, <3>1 DEF DrainKeep, store, threads, LossNeedsOverlap,
         DiskCoversSafe,
         ShownWasSettled
    <3>3. DrainsKeepSafe'
      BY <2>6, <2>a, <2>b, <3>1 DEF DrainKeep, store, threads, DrainsKeepSafe,
         InLoop, DrainLocals
    <3>4. ReceiptsKeepSafe' /\ UiKeepsSafe' /\ ReceiptsSettled'
      BY <2>6, <2>a, <2>b, <3>1 DEF DrainKeep, store, threads, ReceiptsKeepSafe,
         UiKeepsSafe,
         ReceiptsSettled, PacketLocals
    <3> QED
      BY <3>2, <3>3, <3>4
  <2>7. ASSUME NEW t \in Drainer, NEW m \in Msg, DrainDrop(t, m) PROVE Rest'
    <3>1. /\ Safe' \subseteq Safe
          /\ \A k \in Msg : fate[k] = "settled" => fate'[k] = "settled"
      BY <2>7, <2>a DEF DrainDrop, store, threads, Safe
    <3>2. LossNeedsOverlap' /\ DiskCoversSafe' /\ ShownWasSettled'
      BY <2>7, <2>a, <2>b, <3>1 DEF DrainDrop, store, threads, LossNeedsOverlap,
         DiskCoversSafe,
         ShownWasSettled
    <3>3. DrainsKeepSafe'
      <4>1. m \notin Safe
        BY <2>7 DEF DrainDrop, Safe
      <4>2. \A u \in Drainer :
              /\ drain'[u].pc = drain[u].pc /\ drain'[u].cur = drain[u].cur
              /\ drain'[u].remaining = drain[u].remaining
              /\ drain'[u].confirmed = drain[u].confirmed
              /\ drain[u].todo \ {m} \subseteq drain'[u].todo
        BY <2>7, <2>a DEF DrainDrop, DrainLocals
      <4> QED
        BY <2>7, <2>a, <3>1, <4>1, <4>2 DEF DrainDrop, DrainsKeepSafe, InLoop,
           DrainLocals
    <3>4. ReceiptsKeepSafe' /\ UiKeepsSafe' /\ ReceiptsSettled'
      BY <2>7, <2>a, <2>b, <3>1 DEF DrainDrop, store, threads, ReceiptsKeepSafe,
         UiKeepsSafe,
         ReceiptsSettled, PacketLocals
    <3> QED
      BY <3>2, <3>3, <3>4
  <2>8. ASSUME NEW t \in Drainer, NEW m \in Msg, DrainSend(t, m) PROVE Rest'
    <3>1. /\ Safe' \subseteq Safe
          /\ \A k \in Msg : fate[k] = "settled" => fate'[k] = "settled"
      BY <2>8, <2>a DEF DrainSend, store, threads, Safe
    <3>2. LossNeedsOverlap' /\ DiskCoversSafe' /\ ShownWasSettled'
      BY <2>8, <2>a, <2>b, <3>1 DEF DrainSend, store, threads, LossNeedsOverlap,
         DiskCoversSafe,
         ShownWasSettled
    <3>3. DrainsKeepSafe'
      BY <2>8, <2>a, <2>b, <3>1 DEF DrainSend, store, threads, DrainsKeepSafe,
         InLoop, DrainLocals
    <3>4. ReceiptsKeepSafe' /\ UiKeepsSafe' /\ ReceiptsSettled'
      BY <2>8, <2>a, <2>b, <3>1 DEF DrainSend, store, threads, ReceiptsKeepSafe,
         UiKeepsSafe,
         ReceiptsSettled, PacketLocals
    <3> QED
      BY <3>2, <3>3, <3>4
  <2>9. ASSUME NEW t \in Drainer, DrainRegister(t) PROVE Rest'
    <3>1. /\ Safe' \subseteq Safe
          /\ \A k \in Msg : fate[k] = "settled" => fate'[k] = "settled"
      BY <2>9, <2>a DEF DrainRegister, store, threads, Safe
    <3>2. LossNeedsOverlap' /\ DiskCoversSafe' /\ ShownWasSettled'
      BY <2>9, <2>a, <2>b, <3>1 DEF DrainRegister, store, threads,
         LossNeedsOverlap, DiskCoversSafe,
         ShownWasSettled
    <3>3. DrainsKeepSafe'
      BY <2>9, <2>a, <2>b, <3>1 DEF DrainRegister, store, threads, DrainsKeepSafe,
         InLoop, DrainLocals
    <3>4. ReceiptsKeepSafe' /\ UiKeepsSafe' /\ ReceiptsSettled'
      BY <2>9, <2>a, <2>b, <3>1 DEF DrainRegister, store, threads,
         ReceiptsKeepSafe, UiKeepsSafe,
         ReceiptsSettled, PacketLocals
    <3> QED
      BY <3>2, <3>3, <3>4
  <2>10. ASSUME NEW t \in Drainer, DrainStamp(t) PROVE Rest'
    <3>1. /\ Safe' \subseteq Safe
          /\ \A k \in Msg : fate[k] = "settled" => fate'[k] = "settled"
      BY <2>10, <2>a DEF DrainStamp, KeptAfterSend, store, threads, Safe
    <3>2. LossNeedsOverlap' /\ DiskCoversSafe' /\ ShownWasSettled'
      BY <2>10, <2>a, <2>b, <3>1 DEF DrainStamp, KeptAfterSend, store, threads,
         LossNeedsOverlap, DiskCoversSafe,
         ShownWasSettled
    <3>3. DrainsKeepSafe'
      <4>1. \A k \in drain[t].cur : k \in drain[t].confirmed => k \notin Safe
        BY <2>a DEF DrainsKeepSafe, Safe, DrainLocals
      <4>2. /\ drain'[t].pc = "loop" /\ drain'[t].cur = {} /\ drain'[t].confirmed = {}
            /\ drain'[t].todo = drain[t].todo
            /\ drain'[t].remaining = drain[t].remaining \union KeptAfterSend(t)
        BY <2>10, <2>a DEF DrainStamp, DrainLocals
      <4>3. \A u \in Drainer \ {t} :
              /\ drain'[u].pc = drain[u].pc /\ drain'[u].todo = drain[u].todo
              /\ drain'[u].remaining = drain[u].remaining
              /\ drain'[u].cur = drain[u].cur
              /\ drain'[u].confirmed = drain[u].confirmed
        BY <2>10, <2>a DEF DrainStamp, DrainLocals
      <4>4. drain[t].pc = "registered"
        BY <2>10 DEF DrainStamp
      <4>5. Safe' \subseteq drain'[t].todo \union drain'[t].remaining
        BY <3>1, <4>1, <4>2, <4>4, <2>a DEF KeptAfterSend, DrainsKeepSafe, InLoop
      <4> QED
        BY <3>1, <4>2, <4>3, <4>5, <2>a DEF DrainsKeepSafe, DrainLocals
    <3>4. ReceiptsKeepSafe' /\ UiKeepsSafe' /\ ReceiptsSettled'
      BY <2>10, <2>a, <2>b, <3>1 DEF DrainStamp, KeptAfterSend, store, threads,
         ReceiptsKeepSafe, UiKeepsSafe,
         ReceiptsSettled, PacketLocals
    <3> QED
      BY <3>2, <3>3, <3>4
  <2>11. ASSUME NEW t \in Drainer, NEW m \in Msg, DrainFileStart(t, m) PROVE Rest'
    <3>1. /\ Safe' \subseteq Safe
          /\ \A k \in Msg : fate[k] = "settled" => fate'[k] = "settled"
      BY <2>11, <2>a DEF DrainFileStart, store, threads, Safe
    <3>2. LossNeedsOverlap' /\ DiskCoversSafe' /\ ShownWasSettled'
      BY <2>11, <2>a, <2>b, <3>1 DEF DrainFileStart, store, threads,
         LossNeedsOverlap, DiskCoversSafe,
         ShownWasSettled
    <3>3. DrainsKeepSafe'
      <4>1. /\ drain[t].pc = "loop" /\ drain'[t].pc = "filing"
            /\ drain'[t].cur = {m} /\ drain'[t].remaining = drain[t].remaining
            /\ drain'[t].todo = drain[t].todo \ {m}
            /\ drain'[t].confirmed = drain[t].confirmed
        BY <2>11, <2>a DEF DrainFileStart, DrainLocals
      <4>2. \A u \in Drainer \ {t} : drain'[u] = drain[u]
        BY <2>11, <2>a DEF DrainFileStart
      <4> QED
        BY <3>1, <4>1, <4>2, <2>a DEF DrainsKeepSafe, InLoop, DrainLocals
    <3>4. ReceiptsKeepSafe' /\ UiKeepsSafe' /\ ReceiptsSettled'
      BY <2>11, <2>a, <2>b, <3>1 DEF DrainFileStart, store, threads,
         ReceiptsKeepSafe, UiKeepsSafe,
         ReceiptsSettled, PacketLocals
    <3> QED
      BY <3>2, <3>3, <3>4
  <2>12. ASSUME NEW t \in Drainer, DrainFileTaken(t) PROVE Rest'
    <3>1. /\ Safe' \subseteq Safe
          /\ \A k \in Msg : fate[k] = "settled" => fate'[k] = "settled"
      BY <2>12, <2>a DEF DrainFileTaken, Becomes, Fate, store, threads, Safe
    <3>2. LossNeedsOverlap' /\ DiskCoversSafe' /\ ShownWasSettled'
      BY <2>12, <2>a, <2>b, <2>c, <3>1 DEF DrainFileTaken, Becomes, store,
         LossNeedsOverlap, DiskCoversSafe, ShownWasSettled, DrainLocals
    <3>3. DrainsKeepSafe'
      <4>1. \A k \in drain[t].cur : k \notin Safe'
        BY <2>12, <2>a DEF DrainFileTaken, Becomes, Safe, DrainLocals
      <4>2. /\ drain[t].pc = "filing" /\ drain'[t].pc = "loop"
            /\ drain'[t].cur = {} /\ drain'[t].remaining = drain[t].remaining
            /\ drain'[t].todo = drain[t].todo
            /\ drain'[t].confirmed = drain[t].confirmed
        BY <2>12, <2>a DEF DrainFileTaken, DrainLocals
      <4>3. \A u \in Drainer \ {t} : drain'[u] = drain[u]
        BY <2>12, <2>a DEF DrainFileTaken
      <4> QED
        BY <3>1, <4>1, <4>2, <4>3, <2>a DEF DrainsKeepSafe, InLoop, DrainLocals
    <3>4. ReceiptsKeepSafe' /\ UiKeepsSafe' /\ ReceiptsSettled'
      BY <2>12, <2>a, <2>b, <3>1 DEF DrainFileTaken, Becomes, Fate, store,
         threads, ReceiptsKeepSafe, UiKeepsSafe,
         ReceiptsSettled, PacketLocals
    <3> QED
      BY <3>2, <3>3, <3>4
  <2>13. ASSUME NEW t \in Drainer, DrainFileFailed(t) PROVE Rest'
    <3>1. /\ Safe' \subseteq Safe
          /\ \A k \in Msg : fate[k] = "settled" => fate'[k] = "settled"
      BY <2>13, <2>a DEF DrainFileFailed, store, threads, Safe
    <3>2. LossNeedsOverlap' /\ DiskCoversSafe' /\ ShownWasSettled'
      BY <2>13, <2>a, <2>b, <3>1 DEF DrainFileFailed, store, threads,
         LossNeedsOverlap, DiskCoversSafe,
         ShownWasSettled
    <3>3. DrainsKeepSafe'
      BY <2>13, <2>a, <2>b, <3>1 DEF DrainFileFailed, store, threads,
         DrainsKeepSafe, InLoop, DrainLocals
    <3>4. ReceiptsKeepSafe' /\ UiKeepsSafe' /\ ReceiptsSettled'
      BY <2>13, <2>a, <2>b, <3>1 DEF DrainFileFailed, store, threads,
         ReceiptsKeepSafe, UiKeepsSafe,
         ReceiptsSettled, PacketLocals
    <3> QED
      BY <3>2, <3>3, <3>4
  <2>14. ASSUME NEW t \in Drainer, DrainLoopEnd(t) PROVE Rest'
    <3>1. /\ Safe' \subseteq Safe
          /\ \A k \in Msg : fate[k] = "settled" => fate'[k] = "settled"
      BY <2>14, <2>a DEF DrainLoopEnd, store, threads, Safe
    <3>2. LossNeedsOverlap' /\ DiskCoversSafe' /\ ShownWasSettled'
      BY <2>14, <2>a, <2>b, <3>1 DEF DrainLoopEnd, store, threads,
         LossNeedsOverlap, DiskCoversSafe,
         ShownWasSettled
    <3>3. DrainsKeepSafe'
      BY <2>14, <2>a, <2>b, <3>1 DEF DrainLoopEnd, store, threads, DrainsKeepSafe,
         InLoop, DrainLocals
    <3>4. ReceiptsKeepSafe' /\ UiKeepsSafe' /\ ReceiptsSettled'
      BY <2>14, <2>a, <2>b, <3>1 DEF DrainLoopEnd, store, threads,
         ReceiptsKeepSafe, UiKeepsSafe,
         ReceiptsSettled, PacketLocals
    <3> QED
      BY <3>2, <3>3, <3>4
  <2>15. ASSUME NEW t \in Drainer, DrainAssign(t) PROVE Rest'
    <3>1. /\ Safe' \subseteq Safe
          /\ \A k \in Msg : fate[k] = "settled" => fate'[k] = "settled"
      BY <2>15, <2>a DEF DrainAssign, IdleDrain, Detached, Truncated, store,
         threads, Safe
    <3>2. LossNeedsOverlap' /\ DiskCoversSafe' /\ ShownWasSettled'
      BY <2>15, <2>a, <2>b, <2>c, <3>1 DEF DrainAssign, Truncated, DrainsKeepSafe,
         LossNeedsOverlap, DiskCoversSafe, ShownWasSettled
    <3>3. DrainsKeepSafe'
      <4>1. /\ drain'[t].pc = "save" /\ drain'[t].cur = {}
            /\ drain'[t].confirmed = {}
        BY <2>15, <2>a DEF DrainAssign, Detached, IdleDrain
      <4>2. \A u \in Drainer \ {t} :
              /\ drain'[u].pc = drain[u].pc /\ drain'[u].todo = drain[u].todo
              /\ drain'[u].remaining = drain[u].remaining
              /\ drain'[u].cur = drain[u].cur
              /\ drain'[u].confirmed = drain[u].confirmed
        BY <2>15, <2>a DEF DrainAssign, Detached, DrainLocals
      <4> QED
        BY <3>1, <4>1, <4>2, <2>a DEF DrainsKeepSafe, InLoop, DrainLocals
    <3>4. ReceiptsKeepSafe' /\ UiKeepsSafe' /\ ReceiptsSettled'
      BY <2>15, <2>a, <2>b, <3>1 DEF DrainAssign, IdleDrain, Detached, Truncated,
         store, threads, ReceiptsKeepSafe, UiKeepsSafe,
         ReceiptsSettled, PacketLocals
    <3> QED
      BY <3>2, <3>3, <3>4
  <2>16. ASSUME NEW t \in Drainer, DrainSave(t) PROVE Rest'
    <3>1. /\ Safe' \subseteq Safe
          /\ \A k \in Msg : fate[k] = "settled" => fate'[k] = "settled"
      BY <2>16, <2>a DEF DrainSave, IdleDrain, DumpOutcomes, Snapshot, Garbled,
         store, threads, Safe
    <3>2. LossNeedsOverlap' /\ DiskCoversSafe' /\ ShownWasSettled'
      BY <2>16, <2>a, <2>b, <3>1 DEF DrainSave, IdleDrain, DumpOutcomes, Snapshot,
         Garbled, store, threads, LossNeedsOverlap, DiskCoversSafe,
         ShownWasSettled
    <3>3. DrainsKeepSafe'
      BY <2>16, <2>a, <2>b, <3>1 DEF DrainSave, IdleDrain, DumpOutcomes, Snapshot,
         Garbled, store, threads, DrainsKeepSafe, InLoop, DrainLocals
    <3>4. ReceiptsKeepSafe' /\ UiKeepsSafe' /\ ReceiptsSettled'
      BY <2>16, <2>a, <2>b, <3>1 DEF DrainSave, IdleDrain, DumpOutcomes, Snapshot,
         Garbled, store, threads, ReceiptsKeepSafe, UiKeepsSafe,
         ReceiptsSettled, PacketLocals
    <3> QED
      BY <3>2, <3>3, <3>4
  <2>17. ASSUME NEW r \in Receiver, NEW m \in Msg, ReceiptArrive(r, m) PROVE Rest'
    <3>1. /\ Safe' \subseteq Safe
          /\ \A k \in Msg : fate[k] = "settled" => fate'[k] = "settled"
      BY <2>17, <2>a DEF ReceiptArrive, store, threads, Safe
    <3>2. LossNeedsOverlap' /\ DiskCoversSafe' /\ ShownWasSettled'
      BY <2>17, <2>a, <2>b, <3>1 DEF ReceiptArrive, store, threads,
         LossNeedsOverlap, DiskCoversSafe,
         ShownWasSettled
    <3>3. DrainsKeepSafe'
      BY <2>17, <2>a, <2>b, <3>1 DEF ReceiptArrive, store, threads,
         DrainsKeepSafe, InLoop, DrainLocals
    <3>4. ReceiptsKeepSafe' /\ UiKeepsSafe' /\ ReceiptsSettled'
      <4>1. m \notin Safe /\ fate[m] = "settled"
        BY <2>17 DEF ReceiptArrive, ReceiptsSettled, Safe
      <4>2. /\ rx'[r].msg = {m} /\ rx'[r].list = messageQueue \ {m}
            /\ \A q \in Receiver \ {r} : rx'[q] = rx[q]
            /\ wire'.receipts \subseteq wire.receipts
        BY <2>17, <2>a DEF ReceiptArrive
      <4> QED
        BY <2>17, <2>a, <2>b, <3>1, <4>1, <4>2 DEF ReceiptArrive, ReceiptsKeepSafe,
           UiKeepsSafe, ReceiptsSettled, PacketLocals
    <3> QED
      BY <3>2, <3>3, <3>4
  <2>18. ASSUME NEW r \in Receiver, ReceiptAssign(r) PROVE Rest'
    <3>1. /\ Safe' \subseteq Safe
          /\ \A k \in Msg : fate[k] = "settled" => fate'[k] = "settled"
      BY <2>18, <2>a DEF ReceiptAssign, Detached, Truncated, store, threads, Safe
    <3>2. LossNeedsOverlap' /\ DiskCoversSafe' /\ ShownWasSettled'
      BY <2>18, <2>a, <2>b, <2>c, <3>1 DEF ReceiptAssign, Truncated,
         ReceiptsKeepSafe, LossNeedsOverlap, DiskCoversSafe, ShownWasSettled
    <3>3. DrainsKeepSafe'
      <4>1. \A u \in Drainer :
              /\ drain'[u].pc = drain[u].pc /\ drain'[u].todo = drain[u].todo
              /\ drain'[u].remaining = drain[u].remaining
              /\ drain'[u].cur = drain[u].cur
              /\ drain'[u].confirmed = drain[u].confirmed
        BY <2>18, <2>a DEF ReceiptAssign, Detached, DrainLocals
      <4> QED
        BY <3>1, <4>1, <2>a DEF DrainsKeepSafe, DrainLocals
    <3>4. ReceiptsKeepSafe' /\ UiKeepsSafe' /\ ReceiptsSettled'
      <4>1. rx'[r].msg = rx[r].msg /\ rx'[r].pc \notin {"remove", "remove2"}
        <5>1. rx[r] \in PacketLocals /\ r \in DOMAIN rx
          BY <2>a
        <5>2. AfterAssign(rx[r].pc, rx[r].removed) \notin {"remove", "remove2"}
          BY <2>18 DEF ReceiptAssign, AfterAssign
        <5>3. rx' = [rx EXCEPT ![r] =
                       [rx[r] EXCEPT !.pc = AfterAssign(rx[r].pc, rx[r].removed),
                                     !.list = {}, !.removed = FALSE]]
          BY <2>18 DEF ReceiptAssign
        <5> QED
          BY <5>1, <5>2, <5>3 DEF PacketLocals
      <4>2. \A q \in Receiver \ {r} : rx'[q] = rx[q]
        BY <2>18, <2>a DEF ReceiptAssign
      <4> QED
        BY <2>18, <2>a, <3>1, <4>1, <4>2 DEF ReceiptAssign, ReceiptsKeepSafe,
           UiKeepsSafe,
           ReceiptsSettled, PacketLocals
    <3> QED
      BY <3>2, <3>3, <3>4
  <2>19. ASSUME NEW r \in Receiver, ReceiptSave(r) PROVE Rest'
    <3>1. /\ Safe' \subseteq Safe
          /\ \A k \in Msg : fate[k] = "settled" => fate'[k] = "settled"
      BY <2>19, <2>a DEF ReceiptSave, IdleRx, DumpOutcomes, Snapshot, Garbled,
         store, threads, Safe
    <3>2. LossNeedsOverlap' /\ DiskCoversSafe' /\ ShownWasSettled'
      BY <2>19, <2>a, <2>b, <3>1 DEF ReceiptSave, IdleRx, DumpOutcomes, Snapshot,
         Garbled, store, threads, LossNeedsOverlap, DiskCoversSafe,
         ShownWasSettled
    <3>3. DrainsKeepSafe'
      BY <2>19, <2>a, <2>b, <3>1 DEF ReceiptSave, IdleRx, DumpOutcomes, Snapshot,
         Garbled, store, threads, DrainsKeepSafe, InLoop, DrainLocals
    <3>4. ReceiptsKeepSafe' /\ UiKeepsSafe' /\ ReceiptsSettled'
      BY <2>19, <2>a, <2>b, <3>1 DEF ReceiptSave, IdleRx, DumpOutcomes, Snapshot,
         Garbled, store, threads, ReceiptsKeepSafe, UiKeepsSafe,
         ReceiptsSettled, PacketLocals
    <3> QED
      BY <3>2, <3>3, <3>4
  <2>20. ASSUME NEW r \in Receiver, ReceiptNoCallback(r) PROVE Rest'
    <3>1. /\ Safe' \subseteq Safe
          /\ \A k \in Msg : fate[k] = "settled" => fate'[k] = "settled"
      BY <2>20, <2>a DEF ReceiptNoCallback, IdleRx, store, threads, Safe
    <3>2. LossNeedsOverlap' /\ DiskCoversSafe' /\ ShownWasSettled'
      BY <2>20, <2>a, <2>b, <3>1 DEF ReceiptNoCallback, IdleRx, store, threads,
         LossNeedsOverlap, DiskCoversSafe,
         ShownWasSettled
    <3>3. DrainsKeepSafe'
      BY <2>20, <2>a, <2>b, <3>1 DEF ReceiptNoCallback, IdleRx, store, threads,
         DrainsKeepSafe, InLoop, DrainLocals
    <3>4. ReceiptsKeepSafe' /\ UiKeepsSafe' /\ ReceiptsSettled'
      BY <2>20, <2>a, <2>b, <3>1 DEF ReceiptNoCallback, IdleRx, store, threads,
         ReceiptsKeepSafe, UiKeepsSafe,
         ReceiptsSettled, PacketLocals
    <3> QED
      BY <3>2, <3>3, <3>4
  <2>21. ASSUME NEW r \in Receiver, ReceiptCallback(r) PROVE Rest'
    <3>0. PICK m \in rx[r].msg : ReceiptCallback(r)!2!(m)
      BY <2>21 DEF ReceiptCallback
    <3>m. m \in Msg /\ fate[m] = "settled" /\ m \notin Safe
      BY <2>a, <3>0 DEF PacketLocals, ReceiptsKeepSafe, Safe
    <3>1. fate' = fate /\ Safe' = Safe
      BY <2>21 DEF ReceiptCallback, Safe
    <3>2. LossNeedsOverlap' /\ DiskCoversSafe' /\ ShownWasSettled'
      BY <2>21, <2>b, <3>1 DEF ReceiptCallback, store, LossNeedsOverlap,
         DiskCoversSafe, ShownWasSettled
    <3>3. DrainsKeepSafe'
      <4>1. \A u \in Drainer :
              /\ drain'[u].pc = drain[u].pc /\ drain'[u].todo = drain[u].todo
              /\ drain'[u].remaining = drain[u].remaining
              /\ drain'[u].cur = drain[u].cur
              /\ drain'[u].confirmed \subseteq drain[u].confirmed \union {m}
        BY <2>a, <3>0 DEF DrainLocals
      <4>2. \A u \in Drainer : \A k \in drain'[u].confirmed : fate'[k] = "settled"
        BY <3>m, <3>1, <4>1, <2>a DEF DrainsKeepSafe
      <4> QED
        BY <4>1, <4>2, <3>1, <2>a DEF DrainsKeepSafe, InLoop, DrainLocals
    <3>4. ReceiptsKeepSafe' /\ UiKeepsSafe' /\ ReceiptsSettled'
      <4>1. /\ rx'[r].list = messageQueue \ {m} /\ rx'[r].msg = rx[r].msg
            /\ \A q \in Receiver \ {r} : rx'[q] = rx[q]
        BY <2>a, <3>0 DEF PacketLocals
      <4> QED
        BY <2>21, <2>a, <2>b, <3>m, <3>1, <4>1 DEF ReceiptCallback,
           ReceiptsKeepSafe,
           UiKeepsSafe, ReceiptsSettled, PacketLocals
    <3> QED
      BY <3>2, <3>3, <3>4
  <2>31. ASSUME NEW r \in Receiver, ReceiptShow(r) PROVE Rest'
    <3>1. fate' = fate /\ Safe' = Safe
      BY <2>31 DEF ReceiptShow, Safe
    <3>2. LossNeedsOverlap' /\ DiskCoversSafe' /\ ShownWasSettled'
      <4>1. \A m \in rx[r].msg : fate[m] = "settled"
        BY DEF ReceiptsKeepSafe
      <4> QED
        BY <2>31, <2>b, <3>1, <4>1 DEF ReceiptShow, store, LossNeedsOverlap,
           DiskCoversSafe, ShownWasSettled
    <3>3. DrainsKeepSafe'
      BY <2>31, <3>1 DEF ReceiptShow, DrainsKeepSafe
    <3>4. ReceiptsKeepSafe' /\ UiKeepsSafe' /\ ReceiptsSettled'
      BY <2>31, <2>a, <3>1 DEF ReceiptShow, IdleRx, ReceiptsKeepSafe, UiKeepsSafe,
         ReceiptsSettled
    <3> QED
      BY <3>2, <3>3, <3>4
  <2>22. ASSUME NEW m \in Msg, RemoteReceive(m) PROVE Rest'
    <3>1. /\ Safe' \subseteq Safe
          /\ \A k \in Msg : fate[k] = "settled" => fate'[k] = "settled"
      BY <2>22, <2>a DEF RemoteReceive, Becomes, Fate, store, threads, Safe
    <3>2. LossNeedsOverlap' /\ DiskCoversSafe' /\ ShownWasSettled'
      BY <2>22, <2>a, <2>b, <2>c, <3>1 DEF RemoteReceive, store, LossNeedsOverlap,
         DiskCoversSafe, ShownWasSettled
    <3>3. DrainsKeepSafe'
      BY <2>22, <2>a, <2>b, <3>1 DEF RemoteReceive, Becomes, Fate, store, threads,
         DrainsKeepSafe, InLoop, DrainLocals
    <3>4. ReceiptsKeepSafe' /\ UiKeepsSafe' /\ ReceiptsSettled'
      BY <2>22, <2>a, <2>b, <3>1 DEF RemoteReceive, Becomes, Fate, store, threads,
         ReceiptsKeepSafe, UiKeepsSafe,
         ReceiptsSettled, PacketLocals
    <3> QED
      BY <3>2, <3>3, <3>4
  <2>23. ASSUME NEW m \in Msg, LosePacket(m) PROVE Rest'
    <3>1. /\ Safe' \subseteq Safe
          /\ \A k \in Msg : fate[k] = "settled" => fate'[k] = "settled"
      BY <2>23, <2>a DEF LosePacket, store, threads, Safe
    <3>2. LossNeedsOverlap' /\ DiskCoversSafe' /\ ShownWasSettled'
      BY <2>23, <2>a, <2>b, <3>1 DEF LosePacket, store, threads, LossNeedsOverlap,
         DiskCoversSafe,
         ShownWasSettled
    <3>3. DrainsKeepSafe'
      BY <2>23, <2>a, <2>b, <3>1 DEF LosePacket, store, threads, DrainsKeepSafe,
         InLoop, DrainLocals
    <3>4. ReceiptsKeepSafe' /\ UiKeepsSafe' /\ ReceiptsSettled'
      BY <2>23, <2>a, <2>b, <3>1 DEF LosePacket, store, threads, ReceiptsKeepSafe,
         UiKeepsSafe,
         ReceiptsSettled, PacketLocals
    <3> QED
      BY <3>2, <3>3, <3>4
  <2>24. ASSUME NEW m \in Msg, LoseReceipt(m) PROVE Rest'
    <3>1. /\ Safe' \subseteq Safe
          /\ \A k \in Msg : fate[k] = "settled" => fate'[k] = "settled"
      BY <2>24, <2>a DEF LoseReceipt, store, threads, Safe
    <3>2. LossNeedsOverlap' /\ DiskCoversSafe' /\ ShownWasSettled'
      BY <2>24, <2>a, <2>b, <3>1 DEF LoseReceipt, store, threads,
         LossNeedsOverlap, DiskCoversSafe,
         ShownWasSettled
    <3>3. DrainsKeepSafe'
      BY <2>24, <2>a, <2>b, <3>1 DEF LoseReceipt, store, threads, DrainsKeepSafe,
         InLoop, DrainLocals
    <3>4. ReceiptsKeepSafe' /\ UiKeepsSafe' /\ ReceiptsSettled'
      BY <2>24, <2>a, <2>b, <3>1 DEF LoseReceipt, store, threads,
         ReceiptsKeepSafe, UiKeepsSafe,
         ReceiptsSettled, PacketLocals
    <3> QED
      BY <3>2, <3>3, <3>4
  <2>25. ASSUME NEW m \in Msg, ReceiptTimeout(m) PROVE Rest'
    <3>1. /\ Safe' \subseteq Safe
          /\ \A k \in Msg : fate[k] = "settled" => fate'[k] = "settled"
      BY <2>25, <2>a DEF ReceiptTimeout, store, threads, Safe
    <3>2. LossNeedsOverlap' /\ DiskCoversSafe' /\ ShownWasSettled'
      BY <2>25, <2>a, <2>b, <3>1 DEF ReceiptTimeout, store, threads,
         LossNeedsOverlap, DiskCoversSafe,
         ShownWasSettled
    <3>3. DrainsKeepSafe'
      BY <2>25, <2>a, <2>b, <3>1 DEF ReceiptTimeout, store, threads,
         DrainsKeepSafe, InLoop, DrainLocals
    <3>4. ReceiptsKeepSafe' /\ UiKeepsSafe' /\ ReceiptsSettled'
      BY <2>25, <2>a, <2>b, <3>1 DEF ReceiptTimeout, store, threads,
         ReceiptsKeepSafe, UiKeepsSafe,
         ReceiptsSettled, PacketLocals
    <3> QED
      BY <3>2, <3>3, <3>4
  <2>26. ASSUME NEW m \in Msg, FileDeleted(m) PROVE Rest'
    <3>1. /\ Safe' \subseteq Safe
          /\ \A k \in Msg : fate[k] = "settled" => fate'[k] = "settled"
      BY <2>26, <2>a DEF FileDeleted, store, threads, Safe
    <3>2. LossNeedsOverlap' /\ DiskCoversSafe' /\ ShownWasSettled'
      BY <2>26, <2>a, <2>b, <3>1 DEF FileDeleted, store, threads,
         LossNeedsOverlap, DiskCoversSafe,
         ShownWasSettled
    <3>3. DrainsKeepSafe'
      BY <2>26, <2>a, <2>b, <3>1 DEF FileDeleted, store, threads, DrainsKeepSafe,
         InLoop, DrainLocals
    <3>4. ReceiptsKeepSafe' /\ UiKeepsSafe' /\ ReceiptsSettled'
      BY <2>26, <2>a, <2>b, <3>1 DEF FileDeleted, store, threads,
         ReceiptsKeepSafe, UiKeepsSafe,
         ReceiptsSettled, PacketLocals
    <3> QED
      BY <3>2, <3>3, <3>4
  <2>27. ASSUME NEW p \in Dest, LinkUp(p) PROVE Rest'
    <3>1. /\ Safe' \subseteq Safe
          /\ \A k \in Msg : fate[k] = "settled" => fate'[k] = "settled"
      BY <2>27, <2>a DEF LinkUp, store, threads, Safe
    <3>2. LossNeedsOverlap' /\ DiskCoversSafe' /\ ShownWasSettled'
      BY <2>27, <2>a, <2>b, <3>1 DEF LinkUp, store, threads, LossNeedsOverlap,
         DiskCoversSafe,
         ShownWasSettled
    <3>3. DrainsKeepSafe'
      BY <2>27, <2>a, <2>b, <3>1 DEF LinkUp, store, threads, DrainsKeepSafe,
         InLoop, DrainLocals
    <3>4. ReceiptsKeepSafe' /\ UiKeepsSafe' /\ ReceiptsSettled'
      BY <2>27, <2>a, <2>b, <3>1 DEF LinkUp, store, threads, ReceiptsKeepSafe,
         UiKeepsSafe,
         ReceiptsSettled, PacketLocals
    <3> QED
      BY <3>2, <3>3, <3>4
  <2>28. ASSUME NEW p \in Dest, LinkDown(p) PROVE Rest'
    <3>1. /\ Safe' \subseteq Safe
          /\ \A k \in Msg : fate[k] = "settled" => fate'[k] = "settled"
      BY <2>28, <2>a DEF LinkDown, store, threads, Safe
    <3>2. LossNeedsOverlap' /\ DiskCoversSafe' /\ ShownWasSettled'
      BY <2>28, <2>a, <2>b, <3>1 DEF LinkDown, store, threads, LossNeedsOverlap,
         DiskCoversSafe,
         ShownWasSettled
    <3>3. DrainsKeepSafe'
      BY <2>28, <2>a, <2>b, <3>1 DEF LinkDown, store, threads, DrainsKeepSafe,
         InLoop, DrainLocals
    <3>4. ReceiptsKeepSafe' /\ UiKeepsSafe' /\ ReceiptsSettled'
      BY <2>28, <2>a, <2>b, <3>1 DEF LinkDown, store, threads, ReceiptsKeepSafe,
         UiKeepsSafe,
         ReceiptsSettled, PacketLocals
    <3> QED
      BY <3>2, <3>3, <3>4
  <2>29. ASSUME Restart PROVE Rest'
    <3>1. /\ Safe' \subseteq Safe
          /\ \A k \in Msg : fate[k] = "settled" => fate'[k] = "settled"
      BY <2>29, <2>a DEF Restart, IdleDrain, IdleRx, IdleUi, Becomes, Fate, store,
         threads, Safe
    <3>2. LossNeedsOverlap' /\ DiskCoversSafe' /\ ShownWasSettled'
      <4>1. Safe \intersect shown = {}
        BY <2>b DEF Safe
      <4>2. disk.state # "whole" => Safe' = {}
        BY <2>29, <2>a DEF Restart, Becomes, Safe
      <4> QED
        BY <2>29, <2>a, <2>b, <2>c, <3>1, <4>1, <4>2 DEF Restart, LossNeedsOverlap,
           DiskCoversSafe, ShownWasSettled
    <3>3. DrainsKeepSafe'
      BY <2>29, <2>a, <2>b, <3>1 DEF Restart, IdleDrain, IdleRx, IdleUi, Becomes,
         Fate, store, threads, DrainsKeepSafe, InLoop, DrainLocals
    <3>4. ReceiptsKeepSafe' /\ UiKeepsSafe' /\ ReceiptsSettled'
      BY <2>29, <2>a, <2>b, <3>1 DEF Restart, IdleDrain, IdleRx, IdleUi, Becomes,
         Fate, store, threads, ReceiptsKeepSafe, UiKeepsSafe,
         ReceiptsSettled, PacketLocals
    <3> QED
      BY <3>2, <3>3, <3>4
  <2>30. CASE UNCHANGED vars
    BY <2>30 DEF vars, store, threads, Safe, LossNeedsOverlap, DiskCoversSafe,
       ShownWasSettled, DrainsKeepSafe, ReceiptsKeepSafe, UiKeepsSafe, ReceiptsSettled
  <2> QED
    BY <2>1, <2>2, <2>3, <2>4, <2>5, <2>6, <2>7, <2>8, <2>9, <2>10, <2>11, <2>12,
       <2>13, <2>14, <2>15, <2>16, <2>17, <2>18, <2>19, <2>20, <2>21, <2>22,
       <2>23, <2>24, <2>25, <2>26, <2>27, <2>28, <2>29, <2>30, <2>31
       DEF Next, Clear, UiStep, DrainStep, ReceiptStep, Environment
<1> QED
  BY <1>1, <1>2, TypeCorrect, PTL DEF Spec

(* DiskCoversSafe for every instance: queue.json, when it parses, holds what is *)
(* still owed, whatever saves overlap (_save_queue).                           *)
THEOREM DiskSafe == Spec => []DiskCoversSafe
  BY Safety, PTL

(* ShownWasSettled for every instance: no row turns to "sent" too early         *)
(* (on_receipt, on_queue_sent).                                                *)
THEOREM ShownSafe == Spec => []ShownWasSettled
  BY Safety, PTL

-----------------------------------------------------------------------------
(* SendQueue implements Outbox, for any entries, threads, destinations and      *)
(* number of faults.  What LossNeedsOverlap lacks is that nothing holds an       *)
(* entry that was never enqueued, and that no step makes a copy of an entry      *)
(* nothing holds any more.                                                       *)

Known == {m \in Msg : fate[m] # "unused"}
Copied(m) == m \in messageQueue \union disk.entries \/ HeldByThread(m)

(* Only what was enqueued is copied anywhere, or on its way to the peer.         *)
OnlyKnown ==
    /\ \A m \in Msg : Copied(m) => m \in Known
    /\ wire.packets \subseteq Known

(* A step that enqueues nothing: no new copy, no new obligation.                 *)
Quiet ==
    /\ Known' = Known
    /\ Safe' \subseteq Safe
    /\ wire.packets' \subseteq Known
    /\ \A m \in Msg : Copied(m)' => Copied(m)

-----------------------------------------------------------------------------
(* Every action but Enqueue is quiet.                                            *)
LEMMA StepQuiet ==
  ASSUME TypeOK, OnlyKnown, [Next]_vars
  PROVE  (\E m \in Msg : Enqueue(m)) \/ Quiet
<1>a. /\ drain \in [Drainer -> DrainLocals] /\ rx \in [Receiver -> PacketLocals]
      /\ messageQueue \subseteq Msg /\ fate \in [Msg -> Fate]
      /\ ui \in [pc : {"idle", "save", "clear"}, list : SUBSET Msg]
      /\ disk \in [state : {"whole", "empty", "garbage"}, entries : SUBSET Msg]
      /\ wire \in [packets : SUBSET Msg, receipts : SUBSET Msg]
  BY DEF TypeOK
<1>1. ASSUME NEW S \in SUBSET Dest, ClearStart(S) PROVE Quiet
  <2>0. messageQueue \subseteq Known
    BY <1>a DEF OnlyKnown, Copied
  <2>1. Known' = Known /\ Safe' \subseteq Safe /\ wire.packets' \subseteq Known
    BY <1>1, <1>a, <2>0 DEF ClearStart, Becomes, Fate, Known, Safe, OnlyKnown,
       store, threads
  <2>2. ASSUME NEW k \in Msg, Copied(k)' PROVE Copied(k)
    BY <1>1, <1>a, <2>2 DEF ClearStart, Copied, HeldByThread, store, threads
  <2> QED
    BY <2>1, <2>2 DEF Quiet
<1>2. ASSUME ClearAssign PROVE Quiet
  <2>1. Known' = Known /\ Safe' \subseteq Safe /\ wire.packets' \subseteq Known
    BY <1>2, <1>a DEF ClearAssign, Detached, Truncated, Known, Safe, OnlyKnown,
       store, threads
  <2>2. ASSUME NEW k \in Msg, Copied(k)' PROVE Copied(k)
    BY ZenonT(40), <1>2, <1>a, <2>2 DEF ClearAssign, Detached, Truncated, Copied,
       HeldByThread, store, threads, DrainLocals
  <2> QED
    BY <2>1, <2>2 DEF Quiet
<1>3. ASSUME UiSave PROVE Quiet
  <2>1. Known' = Known /\ Safe' \subseteq Safe /\ wire.packets' \subseteq Known
    BY <1>3, <1>a DEF UiSave, IdleUi, DumpOutcomes, Snapshot, Garbled, Known,
       Safe, OnlyKnown, store, threads
  <2>2. ASSUME NEW k \in Msg, Copied(k)' PROVE Copied(k)
    BY <1>3, <1>a, <2>2 DEF UiSave, IdleUi, DumpOutcomes, Snapshot, Garbled,
       Copied, HeldByThread, store, threads
  <2> QED
    BY <2>1, <2>2 DEF Quiet
<1>4. ASSUME NEW t \in Drainer, NEW p \in Dest, DrainStart(t, p) PROVE Quiet
  <2>1. Known' = Known /\ Safe' \subseteq Safe /\ wire.packets' \subseteq Known
    BY <1>4, <1>a DEF DrainStart, IdleDrain, Known, Safe, OnlyKnown, store, threads
  <2>2. ASSUME NEW k \in Msg, Copied(k)' PROVE Copied(k)
    BY <1>4, <1>a, <2>2 DEF DrainStart, IdleDrain, Copied, HeldByThread, store,
       threads, DrainLocals, PacketLocals
  <2> QED
    BY <2>1, <2>2 DEF Quiet
<1>5. ASSUME NEW t \in Drainer, NEW m \in Msg, DrainKeep(t, m) PROVE Quiet
  <2>1. Known' = Known /\ Safe' \subseteq Safe /\ wire.packets' \subseteq Known
    BY <1>5, <1>a DEF DrainKeep, Known, Safe, OnlyKnown, store, threads
  <2>2. ASSUME NEW k \in Msg, Copied(k)' PROVE Copied(k)
    BY <1>5, <1>a, <2>2 DEF DrainKeep, Copied, HeldByThread, store, threads,
       DrainLocals
  <2> QED
    BY <2>1, <2>2 DEF Quiet
<1>6. ASSUME NEW t \in Drainer, NEW m \in Msg, DrainDrop(t, m) PROVE Quiet
  <2>1. Known' = Known /\ Safe' \subseteq Safe /\ wire.packets' \subseteq Known
    BY <1>6, <1>a DEF DrainDrop, Known, Safe, OnlyKnown, store, threads
  <2>2. ASSUME NEW k \in Msg, Copied(k)' PROVE Copied(k)
    BY <1>6, <1>a, <2>2 DEF DrainDrop, Copied, HeldByThread, store, threads,
       DrainLocals
  <2> QED
    BY <2>1, <2>2 DEF Quiet
<1>7. ASSUME NEW t \in Drainer, NEW m \in Msg, DrainSend(t, m) PROVE Quiet
  <2>1. Known' = Known /\ Safe' \subseteq Safe /\ wire.packets' \subseteq Known
    BY <1>7, <1>a DEF DrainSend, Known, Safe, OnlyKnown, Copied, HeldByThread,
       DrainLocals, store, threads
  <2>2. ASSUME NEW k \in Msg, Copied(k)' PROVE Copied(k)
    BY <1>7, <1>a, <2>2 DEF DrainSend, Copied, HeldByThread, store, threads,
       DrainLocals
  <2> QED
    BY <2>1, <2>2 DEF Quiet
<1>8. ASSUME NEW t \in Drainer, DrainRegister(t) PROVE Quiet
  <2>1. Known' = Known /\ Safe' \subseteq Safe /\ wire.packets' \subseteq Known
    BY <1>8, <1>a DEF DrainRegister, Known, Safe, OnlyKnown, store, threads
  <2>2. ASSUME NEW k \in Msg, Copied(k)' PROVE Copied(k)
    BY <1>8, <1>a, <2>2 DEF DrainRegister, Copied, HeldByThread, store, threads,
       DrainLocals
  <2> QED
    BY <2>1, <2>2 DEF Quiet
<1>9. ASSUME NEW t \in Drainer, DrainStamp(t) PROVE Quiet
  <2>1. Known' = Known /\ Safe' \subseteq Safe /\ wire.packets' \subseteq Known
    BY <1>9, <1>a DEF DrainStamp, KeptAfterSend, Known, Safe, OnlyKnown, store,
       threads
  <2>2. ASSUME NEW k \in Msg, Copied(k)' PROVE Copied(k)
    BY <1>9, <1>a, <2>2 DEF DrainStamp, KeptAfterSend, Copied, HeldByThread,
       store, threads, DrainLocals
  <2> QED
    BY <2>1, <2>2 DEF Quiet
<1>10. ASSUME NEW t \in Drainer, NEW m \in Msg, DrainFileStart(t, m) PROVE Quiet
  <2>1. Known' = Known /\ Safe' \subseteq Safe /\ wire.packets' \subseteq Known
    BY <1>10, <1>a DEF DrainFileStart, Known, Safe, OnlyKnown, store, threads
  <2>2. ASSUME NEW k \in Msg, Copied(k)' PROVE Copied(k)
    BY <1>10, <1>a, <2>2 DEF DrainFileStart, Copied, HeldByThread, store, threads,
       DrainLocals
  <2> QED
    BY <2>1, <2>2 DEF Quiet
<1>11. ASSUME NEW t \in Drainer, DrainFileTaken(t) PROVE Quiet
  <2>1. Known' = Known /\ Safe' \subseteq Safe /\ wire.packets' \subseteq Known
    BY <1>11, <1>a DEF DrainFileTaken, Becomes, Fate, Known, Safe, OnlyKnown,
       Copied, HeldByThread, DrainLocals, store, threads
  <2>2. ASSUME NEW k \in Msg, Copied(k)' PROVE Copied(k)
    BY <1>11, <1>a, <2>2 DEF DrainFileTaken, Copied, HeldByThread, store, threads,
       DrainLocals
  <2> QED
    BY <2>1, <2>2 DEF Quiet
<1>12. ASSUME NEW t \in Drainer, DrainFileFailed(t) PROVE Quiet
  <2>1. Known' = Known /\ Safe' \subseteq Safe /\ wire.packets' \subseteq Known
    BY <1>12, <1>a DEF DrainFileFailed, Known, Safe, OnlyKnown, store, threads
  <2>2. ASSUME NEW k \in Msg, Copied(k)' PROVE Copied(k)
    BY <1>12, <1>a, <2>2 DEF DrainFileFailed, Copied, HeldByThread, store,
       threads, DrainLocals
  <2> QED
    BY <2>1, <2>2 DEF Quiet
<1>13. ASSUME NEW t \in Drainer, DrainLoopEnd(t) PROVE Quiet
  <2>1. Known' = Known /\ Safe' \subseteq Safe /\ wire.packets' \subseteq Known
    BY <1>13, <1>a DEF DrainLoopEnd, Known, Safe, OnlyKnown, store, threads
  <2>2. ASSUME NEW k \in Msg, Copied(k)' PROVE Copied(k)
    BY <1>13, <1>a, <2>2 DEF DrainLoopEnd, Copied, HeldByThread, store, threads,
       DrainLocals
  <2> QED
    BY <2>1, <2>2 DEF Quiet
<1>14. ASSUME NEW t \in Drainer, DrainAssign(t) PROVE Quiet
  <2>1. Known' = Known /\ Safe' \subseteq Safe /\ wire.packets' \subseteq Known
    BY <1>14, <1>a DEF DrainAssign, Detached, Truncated, IdleDrain, Known, Safe,
       OnlyKnown, store, threads
  <2>2. ASSUME NEW k \in Msg, Copied(k)' PROVE Copied(k)
    <3>1. \A u \in Drainer :
            drain'[u].todo \union drain'[u].remaining \union drain'[u].cur
              \subseteq drain[u].todo \union drain[u].remaining \union drain[u].cur
      BY <1>14, <1>a DEF DrainAssign, Detached, IdleDrain, DrainLocals
    <3>2. messageQueue' = drain[t].remaining /\ disk'.entries = {} /\ rx' = rx /\ ui' = ui
      BY <1>14 DEF DrainAssign, Truncated
    <3> QED
      BY <2>2, <3>1, <3>2 DEF Copied, HeldByThread
  <2> QED
    BY <2>1, <2>2 DEF Quiet
<1>15. ASSUME NEW t \in Drainer, DrainSave(t) PROVE Quiet
  <2>1. Known' = Known /\ Safe' \subseteq Safe /\ wire.packets' \subseteq Known
    BY <1>15, <1>a DEF DrainSave, DumpOutcomes, Snapshot, Garbled, IdleDrain,
       Known, Safe, OnlyKnown, store, threads
  <2>2. ASSUME NEW k \in Msg, Copied(k)' PROVE Copied(k)
    BY <1>15, <1>a, <2>2 DEF DrainSave, DumpOutcomes, Snapshot, Garbled,
       IdleDrain, Copied, HeldByThread, store, threads, DrainLocals
  <2> QED
    BY <2>1, <2>2 DEF Quiet
<1>16. ASSUME NEW r \in Receiver, NEW m \in Msg, ReceiptArrive(r, m) PROVE Quiet
  <2>1. Known' = Known /\ Safe' \subseteq Safe /\ wire.packets' \subseteq Known
    BY <1>16, <1>a DEF ReceiptArrive, IdleRx, Known, Safe, OnlyKnown, store, threads
  <2>2. ASSUME NEW k \in Msg, Copied(k)' PROVE Copied(k)
    BY <1>16, <1>a, <2>2 DEF ReceiptArrive, IdleRx, Copied, HeldByThread, store,
       threads, PacketLocals
  <2> QED
    BY <2>1, <2>2 DEF Quiet
<1>17. ASSUME NEW r \in Receiver, ReceiptAssign(r) PROVE Quiet
  <2>1. Known' = Known /\ Safe' \subseteq Safe /\ wire.packets' \subseteq Known
    BY <1>17, <1>a DEF ReceiptAssign, Detached, Truncated, AfterAssign, Known,
       Safe, OnlyKnown, store, threads
  <2>2. ASSUME NEW k \in Msg, Copied(k)' PROVE Copied(k)
    <3>1. \A u \in Drainer :
            drain'[u].todo \union drain'[u].remaining \union drain'[u].cur
              = drain[u].todo \union drain[u].remaining \union drain[u].cur
      BY <1>17, <1>a DEF ReceiptAssign, Detached, DrainLocals
    <3>2. /\ messageQueue' = rx[r].list /\ disk'.entries \subseteq disk.entries /\ ui' = ui
          /\ \A q \in Receiver : rx'[q].list \subseteq rx[q].list
      BY <1>17, <1>a DEF ReceiptAssign, Truncated, PacketLocals
    <3> QED
      BY <2>2, <3>1, <3>2 DEF Copied, HeldByThread
  <2> QED
    BY <2>1, <2>2 DEF Quiet
<1>18. ASSUME NEW r \in Receiver, ReceiptSave(r) PROVE Quiet
  <2>1. Known' = Known /\ Safe' \subseteq Safe /\ wire.packets' \subseteq Known
    BY <1>18, <1>a DEF ReceiptSave, DumpOutcomes, Snapshot, Garbled, Known, Safe,
       OnlyKnown, store, threads
  <2>2. ASSUME NEW k \in Msg, Copied(k)' PROVE Copied(k)
    BY <1>18, <1>a, <2>2 DEF ReceiptSave, DumpOutcomes, Snapshot, Garbled, Copied,
       HeldByThread, store, threads, PacketLocals
  <2> QED
    BY <2>1, <2>2 DEF Quiet
<1>19. ASSUME NEW r \in Receiver, ReceiptNoCallback(r) PROVE Quiet
  <2>1. Known' = Known /\ Safe' \subseteq Safe /\ wire.packets' \subseteq Known
    BY <1>19, <1>a DEF ReceiptNoCallback, IdleRx, Known, Safe, OnlyKnown, store,
       threads
  <2>2. ASSUME NEW k \in Msg, Copied(k)' PROVE Copied(k)
    BY <1>19, <1>a, <2>2 DEF ReceiptNoCallback, IdleRx, Copied, HeldByThread,
       store, threads, PacketLocals
  <2> QED
    BY <2>1, <2>2 DEF Quiet
<1>20. ASSUME NEW r \in Receiver, ReceiptCallback(r) PROVE Quiet
  <2>1. Known' = Known /\ Safe' \subseteq Safe /\ wire.packets' \subseteq Known
    BY <1>20, <1>a DEF ReceiptCallback, Known, Safe, OnlyKnown, store, threads
  <2>2. ASSUME NEW k \in Msg, Copied(k)' PROVE Copied(k)
    BY <1>20, <1>a, <2>2 DEF ReceiptCallback, Copied, HeldByThread, store,
       threads, DrainLocals, PacketLocals
  <2> QED
    BY <2>1, <2>2 DEF Quiet
<1>21. ASSUME NEW r \in Receiver, ReceiptShow(r) PROVE Quiet
  <2>1. Known' = Known /\ Safe' \subseteq Safe /\ wire.packets' \subseteq Known
    BY <1>21, <1>a DEF ReceiptShow, IdleRx, Known, Safe, OnlyKnown, store, threads
  <2>2. ASSUME NEW k \in Msg, Copied(k)' PROVE Copied(k)
    BY <1>21, <1>a, <2>2 DEF ReceiptShow, IdleRx, Copied, HeldByThread, store,
       threads, PacketLocals
  <2> QED
    BY <2>1, <2>2 DEF Quiet
<1>22. ASSUME NEW m \in Msg, RemoteReceive(m) PROVE Quiet
  <2>1. Known' = Known /\ Safe' \subseteq Safe /\ wire.packets' \subseteq Known
    BY <1>22, <1>a DEF RemoteReceive, Becomes, Fate, Known, Safe, OnlyKnown,
       store, threads
  <2>2. ASSUME NEW k \in Msg, Copied(k)' PROVE Copied(k)
    BY <1>22, <1>a, <2>2 DEF RemoteReceive, Copied, HeldByThread, store, threads
  <2> QED
    BY <2>1, <2>2 DEF Quiet
<1>23. ASSUME NEW m \in Msg, LosePacket(m) PROVE Quiet
  <2>1. Known' = Known /\ Safe' \subseteq Safe /\ wire.packets' \subseteq Known
    BY <1>23, <1>a DEF LosePacket, Known, Safe, OnlyKnown, store, threads
  <2>2. ASSUME NEW k \in Msg, Copied(k)' PROVE Copied(k)
    BY <1>23, <1>a, <2>2 DEF LosePacket, Copied, HeldByThread, store, threads
  <2> QED
    BY <2>1, <2>2 DEF Quiet
<1>24. ASSUME NEW m \in Msg, LoseReceipt(m) PROVE Quiet
  <2>1. Known' = Known /\ Safe' \subseteq Safe /\ wire.packets' \subseteq Known
    BY <1>24, <1>a DEF LoseReceipt, Known, Safe, OnlyKnown, store, threads
  <2>2. ASSUME NEW k \in Msg, Copied(k)' PROVE Copied(k)
    BY <1>24, <1>a, <2>2 DEF LoseReceipt, Copied, HeldByThread, store, threads
  <2> QED
    BY <2>1, <2>2 DEF Quiet
<1>25. ASSUME NEW m \in Msg, ReceiptTimeout(m) PROVE Quiet
  <2>1. Known' = Known /\ Safe' \subseteq Safe /\ wire.packets' \subseteq Known
    BY <1>25, <1>a DEF ReceiptTimeout, Known, Safe, OnlyKnown, store, threads
  <2>2. ASSUME NEW k \in Msg, Copied(k)' PROVE Copied(k)
    BY <1>25, <1>a, <2>2 DEF ReceiptTimeout, Copied, HeldByThread, store, threads
  <2> QED
    BY <2>1, <2>2 DEF Quiet
<1>26. ASSUME NEW m \in Msg, FileDeleted(m) PROVE Quiet
  <2>1. Known' = Known /\ Safe' \subseteq Safe /\ wire.packets' \subseteq Known
    BY <1>26, <1>a DEF FileDeleted, Known, Safe, OnlyKnown, store, threads
  <2>2. ASSUME NEW k \in Msg, Copied(k)' PROVE Copied(k)
    BY <1>26, <1>a, <2>2 DEF FileDeleted, Copied, HeldByThread, store, threads
  <2> QED
    BY <2>1, <2>2 DEF Quiet
<1>27. ASSUME NEW p \in Dest, LinkUp(p) PROVE Quiet
  <2>1. Known' = Known /\ Safe' \subseteq Safe /\ wire.packets' \subseteq Known
    BY <1>27, <1>a DEF LinkUp, Known, Safe, OnlyKnown, store, threads
  <2>2. ASSUME NEW k \in Msg, Copied(k)' PROVE Copied(k)
    BY <1>27, <1>a, <2>2 DEF LinkUp, Copied, HeldByThread, store, threads
  <2> QED
    BY <2>1, <2>2 DEF Quiet
<1>28. ASSUME NEW p \in Dest, LinkDown(p) PROVE Quiet
  <2>1. Known' = Known /\ Safe' \subseteq Safe /\ wire.packets' \subseteq Known
    BY <1>28, <1>a DEF LinkDown, Known, Safe, OnlyKnown, store, threads
  <2>2. ASSUME NEW k \in Msg, Copied(k)' PROVE Copied(k)
    BY <1>28, <1>a, <2>2 DEF LinkDown, Copied, HeldByThread, store, threads
  <2> QED
    BY <2>1, <2>2 DEF Quiet
<1>29. ASSUME Restart PROVE Quiet
  <2>1. Known' = Known /\ Safe' \subseteq Safe /\ wire.packets' \subseteq Known
    BY <1>29, <1>a DEF Restart, IdleDrain, IdleRx, IdleUi, Becomes, Fate, Known,
       Safe, OnlyKnown, store, threads
  <2>2. ASSUME NEW k \in Msg, Copied(k)' PROVE Copied(k)
    BY <1>29, <1>a, <2>2 DEF Restart, IdleDrain, IdleRx, IdleUi, Copied,
       HeldByThread, store, threads
  <2> QED
    BY <2>1, <2>2 DEF Quiet
<1>30. CASE UNCHANGED vars
  BY <1>30 DEF vars, store, threads, Quiet, Known, Safe, OnlyKnown, Copied,
     HeldByThread
<1> QED
  BY <1>1, <1>2, <1>3, <1>4, <1>5, <1>6, <1>7, <1>8, <1>9, <1>10, <1>11,
     <1>12, <1>13, <1>14, <1>15, <1>16, <1>17, <1>18, <1>19, <1>20,
     <1>21, <1>22, <1>23, <1>24, <1>25, <1>26, <1>27, <1>28, <1>29,
     <1>30
     DEF Next, Clear, UiStep, DrainStep, ReceiptStep, Environment

(* Enqueue copies its own entry only, and that entry is then known.              *)
LEMMA EnqueueAccepts ==
  ASSUME TypeOK, OnlyKnown, NEW m \in Msg, Enqueue(m)
  PROVE  /\ m \notin Known /\ Known' = Known \union {m}
         /\ Safe' \in {Safe, Safe \union {m}}
         /\ wire.packets' \subseteq Known
         /\ \A k \in Msg : Copied(k)' => Copied(k) \/ k = m
<1>a. /\ drain \in [Drainer -> DrainLocals]
      /\ messageQueue \subseteq Msg /\ fate \in [Msg -> Fate]
      /\ ui \in [pc : {"idle", "save", "clear"}, list : SUBSET Msg]
      /\ disk \in [state : {"whole", "empty", "garbage"}, entries : SUBSET Msg]
      /\ wire \in [packets : SUBSET Msg, receipts : SUBSET Msg]
  BY DEF TypeOK
<1>1. m \notin Known /\ Known' = Known \union {m}
  BY <1>a DEF Enqueue, Becomes, Fate, Known
<1>2. Safe' \in {Safe, Safe \union {m}}
  <2>1. \A k \in Msg \ {m} : k \in Safe' <=> k \in Safe
    BY <1>a DEF Enqueue, Becomes, Fate, Safe
  <2>2. m \notin Safe /\ Safe \subseteq Msg /\ Safe' \subseteq Msg
    BY <1>a DEF Enqueue, Safe
  <2> QED
    BY <2>1, <2>2
<1>3. wire.packets' \subseteq Known
  BY DEF Enqueue, OnlyKnown
<1>4. ASSUME NEW k \in Msg, Copied(k)', k # m PROVE Copied(k)
  BY <1>a, <1>4 DEF Enqueue, Truncated, Copied, HeldByThread, DrainLocals
<1> QED
  BY <1>1, <1>2, <1>3, <1>4

(* What the queue holds was enqueued, in every reachable state.                  *)
LEMMA KnownInvariant == Spec => []OnlyKnown
<1>1. Init => OnlyKnown
  BY DEF Init, OnlyKnown, Copied, HeldByThread, IdleDrain, IdleRx, IdleUi
<1>2. TypeOK /\ OnlyKnown /\ [Next]_vars => OnlyKnown'
  <2> SUFFICES ASSUME TypeOK, OnlyKnown, [Next]_vars PROVE OnlyKnown'
    OBVIOUS
  <2>1. ASSUME NEW m \in Msg, Enqueue(m) PROVE OnlyKnown'
    BY <2>1, EnqueueAccepts DEF OnlyKnown
  <2>2. CASE Quiet
    BY <2>2 DEF Quiet, OnlyKnown
  <2> QED
    BY <2>1, <2>2, StepQuiet
<1> QED
  BY <1>1, <1>2, TypeCorrect, PTL DEF Spec

-----------------------------------------------------------------------------
(* ImplementsOutbox: Enqueue is Accept, and every other step of every thread is  *)
(* a Rebind, because LossNeedsOverlap holds after it.                            *)
THEOREM QueueIsOutbox == Spec => ImplementsOutbox
<1> DEFINE Inv == TypeOK /\ OnlyKnown /\ LossNeedsOverlap
           Lost == {m \in Msg : Gone(m)}
<1>1. Init => Box!Init
  BY DEF Init, Box!Init, Safe, Gone
<1>2. Inv /\ Inv' /\ [Next]_vars => [Box!Next]_(Box!vars)
  <2> SUFFICES ASSUME Inv, Inv', [Next]_vars PROVE [Box!Next]_(Box!vars)
    OBVIOUS
  <2>1. /\ Lost = {k \in Msg : k \in Known /\ ~Copied(k)}
        /\ Lost' = {k \in Msg : k \in Known' /\ ~Copied(k)'}
    BY DEF Gone, Known, Copied
  <2>2. Lost' \intersect messageQueue' = {}
    BY <2>1 DEF Copied
  <2>3. messageQueue' \subseteq Known'
    <3>1. messageQueue' \subseteq Msg
      BY DEF TypeOK
    <3>2. \A k \in messageQueue' : Copied(k)'
      BY DEF Copied
    <3> QED
      BY <3>1, <3>2 DEF OnlyKnown
  <2>4. Safe' \subseteq messageQueue'
    BY DEF LossNeedsOverlap
  <2>5. ASSUME NEW m \in Msg, Enqueue(m) PROVE Box!Next
    <3>1. Lost \subseteq Lost'
      BY <2>1, <2>5, EnqueueAccepts
    <3>2. messageQueue' = messageQueue \union {m}
      BY <2>5 DEF Enqueue
    <3>3. Box!Accept(m)
      BY <2>2, <2>5, <3>1, <3>2, EnqueueAccepts DEF Box!Accept, Box!Forget, Known
    <3> QED
      BY <3>3 DEF Box!Next
  <2>6. CASE Quiet
    <3>1. Lost \subseteq Lost'
      BY <2>1, <2>6 DEF Quiet
    <3>2. Box!Rebind
      BY <2>2, <2>3, <2>4, <2>6, <3>1 DEF Quiet, Box!Rebind, Box!Forget, Known
    <3> QED
      BY <3>2 DEF Box!Next
  <2> QED
    BY <2>5, <2>6, StepQuiet
<1> QED
  BY <1>1, <1>2, TypeCorrect, KnownInvariant, Safety, PTL DEF Spec,
     ImplementsOutbox, Box!Spec
=============================================================================
