------------------------------ MODULE Node ------------------------------
(* What one node keeps and does by itself: the chat history, the table of    *)
(* discovered peers, the contacts, announces, settings, failover and the USB  *)
(* port.  The components share no state; each behaviour is one of one         *)
(* component.                                                                 *)
EXTENDS Naturals

CONSTANTS
  Out, In, File, Peer, HistoryPeerOf, MaxCopies,
  MaxRemovals, HistoryMaxCrashes,   \* ChatHistory
  PeersHash, PeersIdent, Advert, Net, Scope, Own, PeersSaved,
  Fresh, Stale, Ttl, MaxFailures, MaxTime, MaxHears,
  PeersMaxChanges,   \* Discovery
  BookHash, BookIdent, Ip, Name, Rank, Heard, BookPeerOf,
  MaxSaves, MaxHeard,   \* Contacts
  Request, RadioMaxChanges, MaxFaults,   \* Announce
  Handler, Worker, Starter, MaxEdits, ConfigMaxCrashes,   \* Settings
  Caller, MaxEvents,   \* Failover
  PlugThread, MaxPlugs,   \* SerialPlug
  None, Torn

\* A tap, a reader or a handler is told from "none", a caller from the user.
ASSUME HistoryAssumption == Out \intersect In = {}
ASSUME RequestAssumption == None \notin Request
ASSUME CallerAssumption == None \notin Caller /\ "user" \notin Caller
ASSUME ThreadAssumption == None \notin PlugThread \union {"boot"}

VARIABLES
  which,   \* the component this behaviour is about
  history, status, history_disk, history_owed, owedDisk, ui, rx, drain,
  arrivals, sends, appended, history_overlapped, early, cut, history_spent,
  peers, index, peers_thread, clock, usb, scope, local, peers_owed, chat,
  peers_saved, overlap, peers_spent, dir, book_thread, kept, deleted,
  confused, book_overlapped, book_spent, conf, msg, looper, beacon, net,
  radio_endpoint, pc, ready, tapped, radio_lock, radio_recent, sent, changes,
  faults, file, config, hub, config_job, loop, edits, crashes, config_saved,
  stale, dual, expected, sess, up, link, active, resume_recent, nudge,
  transfer, flag, resume_lock, run, shared, events, plugged, ifaces,
  plug_disk, ident, plug_endpoint, known, wasOnline, detachSent, dead,
  plug_job, crossed, plugs

History == INSTANCE ChatHistory WITH
  PeerOf <- HistoryPeerOf, MaxCrashes <- HistoryMaxCrashes,
  disk <- history_disk, owed <- history_owed,
  overlapped <- history_overlapped, spent <- history_spent
Peers == INSTANCE Discovery WITH
  Hash <- PeersHash, Ident <- PeersIdent, Saved <- PeersSaved, MaxChanges <- PeersMaxChanges,
  thread <- peers_thread, owed <- peers_owed, saved <- peers_saved,
  spent <- peers_spent
\* What announces, beacons and links say, and a row is told from none.
ASSUME AdvertAssumption ==
  /\ \A a \in Advert : /\ a.from \in {"announce", "beacon", "link"} /\ a.hash \in PeersHash
                       /\ a.serial \in PeersHash \union {None}
  /\ None \notin Peers!Stored
Book == INSTANCE Contacts WITH
  Hash <- BookHash, Ident <- BookIdent, PeerOf <- BookPeerOf,
  thread <- book_thread, overlapped <- book_overlapped, spent <- book_spent
Radio == INSTANCE Announce WITH
  MaxChanges <- RadioMaxChanges, endpoint <- radio_endpoint,
  lock <- radio_lock, recent <- radio_recent
Config == INSTANCE Settings WITH
  MaxCrashes <- ConfigMaxCrashes, job <- config_job, saved <- config_saved
\* Edits are numbered, a torn file is no settings, and the start-up thread is one of its own.
ASSUME SettingsAssumption == /\ MaxEdits \in Nat /\ Torn \notin Config!Content
                             /\ Starter \notin Handler \union Worker /\ None \notin Handler
Resume == INSTANCE Failover WITH
  recent <- resume_recent, lock <- resume_lock
Plug == INSTANCE SerialPlug WITH
  Thread <- PlugThread, disk <- plug_disk, endpoint <- plug_endpoint, job <- plug_job

Init ==
  /\ which \in {"History", "Peers", "Book", "Radio", "Config", "Resume", "Plug"}
  /\ History!Init
  /\ Peers!Init
  /\ which # "Peers" => ~usb /\ scope = None
  /\ Book!Init
  /\ Radio!Init
  /\ which # "Radio" => conf.lan = "udp" /\ ~conf.server /\ ~conf.auto /\ ~net.usb
  /\ Config!Init
  /\ Resume!Init
  /\ which # "Resume" => ~dual /\ expected = {}
  /\ Plug!Init
  /\ which # "Plug" => ~plugged

\* One component moves, the others stay as they started.
HistoryMoves == which = "History" /\ History!Next
PeersMoves == which = "Peers" /\ Peers!Next
BookMoves == which = "Book" /\ Book!Next
RadioMoves == which = "Radio" /\ Radio!Next
ConfigMoves == which = "Config" /\ Config!Next
ResumeMoves == which = "Resume" /\ Resume!Next
PlugMoves == which = "Plug" /\ Plug!Next

HistoryVars == <<history, status, history_disk, history_owed, owedDisk, ui, rx, drain,
  arrivals, sends, appended, history_overlapped, early, cut,
  history_spent>>
PeersVars == <<peers, index, peers_thread, clock, usb, scope, local, peers_owed, chat,
  peers_saved, overlap, peers_spent>>
BookVars == <<dir, book_thread, kept, deleted, confused, book_overlapped, book_spent>>
RadioVars == <<conf, msg, looper, beacon, net, radio_endpoint, pc, ready, tapped,
  radio_lock, radio_recent, sent, changes, faults>>
ConfigVars == <<file, config, hub, config_job, loop, edits, crashes, config_saved,
  stale>>
ResumeVars == <<dual, expected, sess, up, link, active, resume_recent, nudge, transfer,
  flag, resume_lock, run, shared, events>>
PlugVars == <<plugged, ifaces, plug_disk, ident, plug_endpoint, known, wasOnline,
  detachSent, dead, plug_job, crossed, plugs>>
vars == <<which, HistoryVars, PeersVars, BookVars, RadioVars, ConfigVars,
  ResumeVars, PlugVars>>

Next ==
  \/ /\ HistoryMoves
     /\ UNCHANGED <<which, PeersVars, BookVars, RadioVars, ConfigVars, ResumeVars, PlugVars>>
  \/ /\ PeersMoves
     /\ UNCHANGED <<which, HistoryVars, BookVars, RadioVars, ConfigVars, ResumeVars, PlugVars>>
  \/ /\ BookMoves
     /\ UNCHANGED <<which, HistoryVars, PeersVars, RadioVars, ConfigVars, ResumeVars, PlugVars>>
  \/ /\ RadioMoves
     /\ UNCHANGED <<which, HistoryVars, PeersVars, BookVars, ConfigVars, ResumeVars, PlugVars>>
  \/ /\ ConfigMoves
     /\ UNCHANGED <<which, HistoryVars, PeersVars, BookVars, RadioVars, ResumeVars, PlugVars>>
  \/ /\ ResumeMoves
     /\ UNCHANGED <<which, HistoryVars, PeersVars, BookVars, RadioVars, ConfigVars, PlugVars>>
  \/ /\ PlugMoves
     /\ UNCHANGED <<which, HistoryVars, PeersVars, BookVars, RadioVars, ConfigVars, ResumeVars>>

Spec == Init /\ [][Next]_vars

\* The variables of the component that moves have their types.
TypeOK ==
  /\ which = "History" => History!TypeOK
  /\ which = "Peers" => Peers!TypeOK
  /\ which = "Book" => Book!TypeOK
  /\ which = "Radio" => Radio!TypeOK
  /\ which = "Config" => Config!TypeOK
  /\ which = "Resume" => Resume!TypeOK
  /\ which = "Plug" => Plug!TypeOK

\* A row stays in the list until the user or a retention takes it away, unless it
\* was appended between the list comprehension of a removal and its assignment
\* (history_store.py:255 and the like against messaging_bridge.py:255).
RowLossNeedsOverlap == which = "History" => History!RowLossNeedsOverlap

\* A row shown as "queued" has its message in the queue once the threads are done
\* with it.  It is stuck for ever if the drain was faster than the handler, which
\* enqueues before it adds the row (ws/manager.py:330), or a crash came between
\* the saves of the two files.
QueuedRowOwed == which = "History" => History!QueuedRowOwed

\* The drain marks a file's row before it takes the file off the queue, and a
\* restart drops from the queue what the history has as sent (rns_lifecycle.py:311):
\* a file is sent again only if the crash, or a removal by the user, fell between
\* the send and the save of the row, or the file of the history was torn.
FileResentNeedsCut == which = "History" => History!FileResentNeedsCut

\* The table and its index agree, and one address is one peer.
TableHolds == which = "Peers" => Peers!TableHolds

\* An eviction throws away the messages queued for a peer only if the row it takes
\* was not heard for 30 s (purge_stale_probes, discovery.py:390), is this node's
\* own, or was heard again, or had the LAN change, while the eviction was running,
\* or a link to it was refused for the row it had borrowed an address from.
DiscardNeedsSilence == Peers!DiscardNeedsSilence

\* A contact the user deleted does not come back, unless another thread had listed
\* it just before and wrote it back (list_contacts, contacts.py:661), or it had been
\* mixed up: joined with another peer's, or saved under its USB hash as a LAN hash
\* (update_contact_endpoint, contacts.py:859).
DeletedStaysDeleted == which = "Book" => Book!DeletedStaysDeleted

\* A hash the user saved finds a contact until the user deletes it, whatever files
\* are merged, refreshed and renamed meanwhile, with the same two exceptions.
SavedIsFound == which = "Book" => Book!SavedIsFound

\* The announce lock is held exactly while a tap waits for the executor: every
\* way out (debounced, nothing to send, an error, the end) gives it back.
LockReturned == which = "Radio" => Radio!LockReturned

\* An announce meant for the LAN leaves on USB only when the node has a LAN
\* address but no LAN interface that can carry it: never next to a working LAN
\* interface, and never with the cable out.
UsbForLan == which = "Radio" => Radio!UsbForLan

\* However often auto-announce is switched off and on, and whatever the sleeping
\* thread of the last time does, one thread sends the periodic beacons.
OneBeaconThread == which = "Radio" => Radio!OneBeaconThread

\* What a handler saved stays saved: a group of keys goes back to an older
\* version only when two writers overlapped (one saved what it had loaded before
\* the other saved, or loaded the file the other had emptied) or the process
\* died in the middle of one.
SettingLossNeedsOverlap == which = "Config" => Config!SettingLossNeedsOverlap

\* With no writer under way and none that overlapped, the interfaces RNS will
\* start with, and the hub interfaces that run, are those of the settings.
ConfigFollows == which = "Config" => Config!ConfigFollows

\* An attempt keeps to the session's transport and is the only one.
AttemptKept == which = "Resume" => Resume!AttemptKept

\* However many threads open the port at once, RNS has one interface for it when
\* they are through.
OneInterface == which = "Plug" => Plug!OneInterface

\* What goes wrong with the USB endpoint needs two threads that set it up at once.
SetUpNeedsOneThread == which = "Plug" => Plug!SetUpNeedsOneThread
==================================================================
