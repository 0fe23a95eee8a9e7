---------------------------- MODULE ChatHistory ----------------------------
(* message_history and history.json (web/history_store.py) with the handlers   *)
(* that append to, mark and rebuild the list from three threads: the event     *)
(* loop (web sockets, routes), a packet thread of RNS (_on_message) and a      *)
(* drain of the queue (_on_queue_sent).  The queue itself is abstract here:    *)
(* its file is always whole (SendQueue has its races).                         *)
(*                                                                             *)
(* Abstracted: a row is a message, the number of its copy and its status; the  *)
(* order of rows and the limit of 1000 saved rows are left out.                *)
EXTENDS Naturals

CONSTANTS
  Out,          \* messages the user queues
  In,           \* messages that arrive
  File,         \* those of Out that are files
  Peer,
  PeerOf,       \* the chat a message belongs to
  MaxCopies,    \* bound: deliveries of one message
  MaxRemovals,  \* bound: deletions and clearings by the user
  MaxCrashes    \* bound: restarts

VARIABLES
  history,      \* the rows of the current list message_history
  status,       \* of a row; the dict is shared by the lists it is in
  disk,         \* history.json: whole or not, and what a load finds
  owed, owedDisk, \* the queue: ids in memory and in queue.json
  ui, rx, drain,  \* the three threads
  arrivals,     \* deliveries of each incoming message
  sends,        \* times each queued message was sent
  appended,     \* rows appended since the start and not removed by the user
  overlapped,   \* rows appended while the event loop was rebuilding the list
  early,        \* messages sent before the handler had added their row
  cut,          \* messages a crash, or a removal, left half recorded
  spent         \* removals and crashes so far

vars == <<history, status, disk, owed, owedDisk, ui, rx, drain, arrivals, sends,
          appended, overlapped, early, cut, spent>>

Msg == Out \union In
Row == [msg: Msg, copy: 1 .. MaxCopies + 1]
Status == {"none", "queued", "sent", "received"}
Idle == [pc |-> "idle", msgs |-> {}, keep |-> {}, mixed |-> FALSE]
Of(rows, m) == {r \in rows : r.msg = m}
Init ==
  /\ history = {} /\ status = [r \in Row |-> "none"]
  /\ disk = [whole |-> TRUE, rows |-> {}]
  /\ owed = {} /\ owedDisk = {}
  /\ ui = Idle /\ rx = Idle /\ drain = Idle
  /\ arrivals = [m \in In |-> 0] /\ sends = [m \in Out |-> 0]
  /\ appended = {} /\ overlapped = {} /\ early = {} /\ cut = {}
  /\ spent = [removals |-> 0, crashes |-> 0]

\* message_history.append of a new row for m; lost if the event loop is about to
\* bind a list it selected before.
Unused(m) == Of(Row, m) \ (appended \union history)
Append(m, s) == \E r \in Unused(m) :
  /\ \A q \in Unused(m) : r.copy <= q.copy
  /\ history' = history \union {r}
  /\ status' = [status EXCEPT ![r] = s]
  /\ appended' = appended \union {r}
  /\ overlapped' = IF ui.pc = "assign" THEN overlapped \union {r} ELSE overlapped

------------------------------------------------------------------------------
(* _save_history: open(..., "w"), then json.dump of the list as it is by then. *)
(* Two threads in it at once may leave a file that does not load.              *)

SaveOpen(self) ==
  /\ self.pc = "save"
  /\ disk' = [whole |-> FALSE, rows |-> {}]

Mixed(thread) == IF thread.pc = "write" THEN [thread EXCEPT !.mixed = TRUE] ELSE thread
Writing(self, others) ==
  [self EXCEPT !.pc = "write", !.mixed = \E t \in others : t.pc = "write"]

Snapshot == {[row |-> r, status |-> status[r]] : r \in history}

SaveWrite(self) ==
  /\ self.pc = "write"
  /\ \E whole \in IF self.mixed THEN BOOLEAN ELSE {TRUE} :
       disk' = [whole |-> whole, rows |-> IF whole THEN Snapshot ELSE {}]

UiSave ==
  /\ \/ /\ SaveOpen(ui)
        /\ ui' = Writing(ui, {rx, drain})
        /\ rx' = Mixed(rx) /\ drain' = Mixed(drain)
     \/ SaveWrite(ui) /\ ui' = Idle /\ UNCHANGED <<rx, drain>>
  /\ UNCHANGED <<history, status, owed, owedDisk, arrivals, sends, appended, overlapped, early, cut, spent>>

RxSave ==
  /\ \/ /\ SaveOpen(rx)
        /\ rx' = Writing(rx, {ui, drain})
        /\ ui' = Mixed(ui) /\ drain' = Mixed(drain)
     \/ SaveWrite(rx) /\ rx' = Idle /\ UNCHANGED <<ui, drain>>
  /\ UNCHANGED <<history, status, owed, owedDisk, arrivals, sends, appended, overlapped, early, cut, spent>>

\* After its save a drain that sent a file goes on to take it off the queue.
DrainSave ==
  /\ \/ /\ SaveOpen(drain)
        /\ drain' = Writing(drain, {ui, rx})
        /\ ui' = Mixed(ui) /\ rx' = Mixed(rx)
     \/ /\ SaveWrite(drain)
        /\ drain' = IF drain.msgs \subseteq File THEN [Idle EXCEPT !.pc = "dequeue", !.msgs = drain.msgs]
                    ELSE Idle
        /\ UNCHANGED <<ui, rx>>
  /\ UNCHANGED <<history, status, owed, owedDisk, arrivals, sends, appended, overlapped, early, cut, spent>>

------------------------------------------------------------------------------
(* The event loop.                                                             *)

\* The web socket and upload handlers enqueue first ...
UiEnqueue(m) ==
  /\ ui.pc = "idle"
  /\ sends[m] = 0 /\ m \notin owed /\ Of(appended \union history, m) = {} /\ m \notin cut
  /\ owed' = owed \union {m} /\ owedDisk' = owed'
  /\ ui' = [Idle EXCEPT !.pc = "append", !.msgs = {m}]
  /\ UNCHANGED <<history, status, disk, rx, drain, arrivals, sends, appended, overlapped, early, cut, spent>>

\* ... and add the row as "queued" afterwards, whatever has happened since.
UiAppend ==
  /\ ui.pc = "append"
  /\ \E m \in ui.msgs :
       /\ Append(m, "queued")
       /\ early' = IF sends[m] > 0 THEN early \union {m} ELSE early
  /\ ui' = [Idle EXCEPT !.pc = "save"]
  /\ UNCHANGED <<disk, owed, owedDisk, rx, drain, arrivals, sends, cut, spent>>

\* The list comprehension of a deletion, a clearing or an expiry ...
UiSelect(gone) ==
  /\ ui.pc = "idle" /\ spent.removals < MaxRemovals
  /\ spent' = [spent EXCEPT !.removals = @ + 1]
  /\ ui' = [Idle EXCEPT !.pc = "assign", !.keep = history \ gone, !.msgs = {r.msg : r \in gone}]
  /\ appended' = appended \ gone
  /\ cut' = cut \union (drain.msgs \intersect {r.msg : r \in gone})

\* handle_delete_message, _on_transfer_revoked and _apply_retention take away the
\* rows of some messages, _clear_history_for_peer those of a chat.
UiRemove ==
  /\ \/ \E m \in Msg : UiSelect(Of(history, m))
     \/ \E p \in Peer : UiSelect({r \in history : PeerOf[r.msg] = p})
  /\ UNCHANGED <<history, status, disk, owed, owedDisk, rx, drain, arrivals, sends, overlapped, early>>

\* handle_history_clear without a peer.
UiClearAll ==
  /\ ui.pc = "idle" /\ spent.removals < MaxRemovals
  /\ spent' = [spent EXCEPT !.removals = @ + 1]
  /\ history' = {} /\ appended' = {}
  /\ ui' = [Idle EXCEPT !.pc = "save"]
  /\ cut' = cut \union {m \in drain.msgs : Of(history, m) # {}}
  /\ UNCHANGED <<status, disk, owed, owedDisk, rx, drain, arrivals, sends, overlapped, early>>

\* (mutant) none
QueuedRowsNone(p) == {r \in history : FALSE}
\* The rows handle_queue_clear takes away: the queued ones of every chat.
QueuedRows(p) == {r \in history : status[r] = "queued"}

UiClearQueue(p) ==
  /\ \E m \in owed : PeerOf[m] = p
  /\ owed' = {m \in owed : PeerOf[m] # p} /\ owedDisk' = owed'
  /\ UiSelect(QueuedRows(p))
  /\ UNCHANGED <<history, status, disk, rx, drain, arrivals, sends, overlapped, early>>

\* (mutant) the list is read back from the file first
UiAssignReloads ==
  /\ ui.pc = "assign"
  /\ history' = ui.keep \intersect {x.row : x \in disk.rows}
  /\ ui' = [Idle EXCEPT !.pc = "save"]
  /\ cut' = cut \union (drain.msgs \intersect {r.msg : r \in history \ history'})
  /\ UNCHANGED <<status, disk, owed, owedDisk, rx, drain, arrivals, sends, appended, overlapped, early, spent>>

\* ... and its assignment, which drops what was appended in between.  An expiry, or
\* a deletion that finds nothing, is not saved.
UiAssign ==
  /\ ui.pc = "assign"
  /\ history' = ui.keep
  /\ ui' \in {Idle, [Idle EXCEPT !.pc = "save"]}
  /\ cut' = cut \union (drain.msgs \intersect {r.msg : r \in history \ history'})
  /\ UNCHANGED <<status, disk, owed, owedDisk, rx, drain, arrivals, sends, appended, overlapped, early, spent>>

------------------------------------------------------------------------------
(* The packet thread: _on_message appends what arrives, a second copy too.     *)

Arrive(m) ==
  /\ rx.pc = "idle" /\ arrivals[m] < MaxCopies
  /\ arrivals' = [arrivals EXCEPT ![m] = @ + 1]
  /\ Append(m, "received")
  /\ rx' = [Idle EXCEPT !.pc = "save"]
  /\ UNCHANGED <<disk, owed, owedDisk, ui, drain, sends, early, cut, spent>>

------------------------------------------------------------------------------
(* The drain.                                                                  *)

Sent(m) == /\ drain.pc = "idle" /\ m \in owed
           /\ sends' = [sends EXCEPT ![m] = @ + 1]
           /\ drain' = [Idle EXCEPT !.pc = "mark", !.msgs = {m}]

\* A text leaves the queue when its receipt arrives, then its row is marked.
TextReceipt(m) ==
  /\ m \notin File /\ Sent(m)
  /\ owed' = owed \ {m} /\ owedDisk' = owed'
  /\ UNCHANGED <<history, status, disk, ui, rx, arrivals, appended, overlapped, early, cut, spent>>

\* A file's row is marked first.
FileSent(m) ==
  /\ m \in File /\ Sent(m)
  /\ UNCHANGED <<history, status, disk, owed, owedDisk, ui, rx, arrivals, appended, overlapped, early, cut, spent>>

\* _on_queue_sent marks the first row of the message, or adds one.
DrainMark ==
  /\ drain.pc = "mark"
  /\ \E m \in drain.msgs :
       \/ /\ Of(history, m) # {}
          /\ LET first == CHOOSE r \in Of(history, m) : \A q \in Of(history, m) : r.copy <= q.copy
             IN status' = [status EXCEPT ![first] = "sent"]
          /\ UNCHANGED <<history, appended, overlapped>>
       \/ Of(history, m) = {} /\ Append(m, "sent")
  /\ drain' = [drain EXCEPT !.pc = "save"]
  /\ UNCHANGED <<disk, owed, owedDisk, ui, rx, arrivals, sends, early, cut, spent>>

DrainDequeue ==
  /\ drain.pc = "dequeue"
  /\ owed' = owed \ drain.msgs /\ owedDisk' = owed'
  /\ drain' = Idle
  /\ UNCHANGED <<history, status, disk, ui, rx, arrivals, sends, appended, overlapped, early, cut, spent>>

------------------------------------------------------------------------------
\* (mutant) nothing
PrunedNot(rows) == {m \in owedDisk : FALSE}
\* What a restart drops from the queue: what the loaded history shows as sent.
Pruned(rows) == {m \in owedDisk : \E x \in rows : x.row.msg = m /\ x.status = "sent"}

\* Rows the file does not hold as they are.
Unsaved == (disk.rows \ Snapshot) \union (Snapshot \ disk.rows)

\* A crash at any point; _load_history takes a file that does not parse for an
\* empty one, prune_stale_queue follows.
Crash ==
  LET loaded == {x.row : x \in disk.rows} IN
  /\ spent.crashes < MaxCrashes
  /\ spent' = [spent EXCEPT !.crashes = @ + 1]
  /\ history' = loaded
  /\ status' = [r \in Row |-> IF r \in loaded THEN (CHOOSE x \in disk.rows : x.row = r).status ELSE "none"]
  /\ owed' = owedDisk \ Pruned(disk.rows) /\ owedDisk' = owed'
  /\ appended' = loaded /\ overlapped' = {} /\ early' = early
  /\ cut' = cut \union ui.msgs \union (IF drain.pc = "dequeue" THEN {} ELSE drain.msgs)
               \union {x.row.msg : x \in Unsaved}
  /\ ui' = Idle /\ rx' = Idle /\ drain' = Idle
  /\ UNCHANGED <<disk, arrivals, sends>>

Next ==
  \/ UiSave \/ RxSave \/ DrainSave
  \/ \E m \in Out : UiEnqueue(m) \/ TextReceipt(m) \/ FileSent(m)
  \/ UiAppend \/ UiRemove \/ UiClearAll \/ UiAssign
  \/ \E p \in Peer : UiClearQueue(p)
  \/ \E m \in In : Arrive(m)
  \/ DrainMark \/ DrainDequeue \/ Crash

Spec == Init /\ [][Next]_vars

------------------------------------------------------------------------------
(* Properties.                                                                 *)

\* The variables have their types, and an unreadable file holds nothing.
TypeOK ==
  /\ history \subseteq Row /\ status \in [Row -> Status]
  /\ owed \subseteq Out /\ owedDisk = owed
  /\ ~disk.whole => disk.rows = {}
  /\ \A t \in {ui, rx, drain} : t.msgs \subseteq Msg /\ t.keep \subseteq Row

\* A row stays in the list until the user or a retention takes it away, unless it
\* was appended between the list comprehension of a removal and its assignment
\* (history_store.py:255 and the like against messaging_bridge.py:255).
RowLossNeedsOverlap == appended \ overlapped \subseteq history

\* A row shown as "queued" has its message in the queue once the threads are done
\* with it.  It is stuck for ever if the drain was faster than the handler, which
\* enqueues before it adds the row (ws/manager.py:330), or a crash came between
\* the saves of the two files.
QueuedRowOwed ==
  ui.pc = "idle" /\ drain.pc = "idle" =>
    \A r \in history : status[r] = "queued" => r.msg \in owed \union early \union cut

\* The drain marks a file's row before it takes the file off the queue, and a
\* restart drops from the queue what the history has as sent (rns_lifecycle.py:311):
\* a file is sent again only if the crash, or a removal by the user, fell between
\* the send and the save of the row, or the file of the history was torn.
FileResentNeedsCut == \A m \in File \intersect Out : sends[m] > 1 => m \in cut
==============================================================================
