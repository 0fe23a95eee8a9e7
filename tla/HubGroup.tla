------------------------------ MODULE HubGroup ------------------------------
(* The group chat of core/messaging/hub.py and web/hub_runtime.py: clients     *)
(* send their texts to one hub server over a TCP link, the server shows and    *)
(* relays them, a client that was away asks for what it missed over HTTP.      *)
(*                                                                             *)
(* Abstracted: the clock is a counter that orders all sends, a message is its  *)
(* id, the server writes no messages of its own, rows are never deleted and    *)
(* the limits of 200 and 500 rows are not reached.  The hub is on everywhere.  *)
EXTENDS Naturals

CONSTANTS
  Client,      \* the hub's clients
  Msg,         \* message ids
  AuthorOf,    \* the client that writes a message
  Thread,      \* timers and retry loops that drain the group's queue
  Server, Unknown,
  MaxSends,    \* bound: transmissions of texts by the clients
  MaxLinks,    \* bound: links that come up
  MaxFaults,   \* bound: lost packets and links
  MaxSyncs     \* bound: requests to catch up

VARIABLES
  linked,      \* clients with an open hub link
  known,       \* those whose link the server has identified
  rows,        \* message_history of each node, group rows only
  queue,       \* message_queue of each client
  drain,       \* the locals of drain_hub_group_queue in each thread
  wire,        \* packets in flight
  relays,      \* relay_hub_message for each text the server received
  sync,        \* handle_hub_sync_group of each client
  clock,       \* transmissions so far
  spent,       \* links, faults and catch-ups so far
  lost,        \* <<client, stamp>>: packets to a client that went missing
  raced        \* <<client, message>>: synchronised while a copy was on its way

vars == <<linked, known, rows, queue, drain, wire, relays, sync, clock, spent, lost, raced>>

Node == Client \union {Server}
Stamp == 0 .. MaxSends
Row == [msg: Msg, stamp: Stamp, how: {"own", "relay", "sync"}]
Packet == [client: Client, up: BOOLEAN, msg: Msg, stamp: Stamp]
IdleDrain == [pc |-> "idle", todo |-> {}, kept |-> {}]
IdleSync == [pc |-> "idle", since |-> 0, batch |-> {}, had |-> {}]

Messages(S) == {r.msg : r \in S}
Newest(S) == CHOOSE t \in {r.stamp : r \in S} \union {0} :
               \A r \in S : r.stamp <= t
Written == UNION {Messages(rows[c]) : c \in Client}

Init ==
  /\ linked = {} /\ known = {} /\ wire = {} /\ relays = {}
  /\ rows = [n \in Node |-> {}]
  /\ queue = [c \in Client |-> {}]
  /\ drain = [c \in Client |-> [t \in Thread |-> IdleDrain]]
  /\ sync = [c \in Client |-> IdleSync]
  /\ clock = 0
  /\ spent = [links |-> 0, faults |-> 0, syncs |-> 0]
  /\ lost = {} /\ raced = {}

------------------------------------------------------------------------------
(* Links.                                                                      *)

\* ensure_hub_link opens the client's link to the server.
LinkUp(c) ==
  /\ c \notin linked /\ spent.links < MaxLinks
  /\ linked' = linked \union {c}
  /\ spent' = [spent EXCEPT !.links = @ + 1]
  /\ UNCHANGED <<known, rows, queue, drain, wire, relays, sync, clock, lost, raced>>

\* _finalize_hub_tcp_inbound learns whose link it is, up to seconds later.
Identify(c) ==
  /\ c \in linked \ known
  /\ known' = known \union {c}
  /\ UNCHANGED <<linked, rows, queue, drain, wire, relays, sync, clock, spent, lost, raced>>

Fault == /\ spent.faults < MaxFaults
         /\ spent' = [spent EXCEPT !.faults = @ + 1]

\* (mutant) whose link it was is not forgotten
LinkDownKnown(c) ==
  /\ c \in linked /\ Fault
  /\ linked' = linked \ {c}
  /\ wire' = {p \in wire : p.client # c}
  /\ UNCHANGED <<known, rows, queue, drain, relays, sync, clock, lost, raced>>

\* A closed link takes its packets along.
LinkDown(c) ==
  /\ c \in linked /\ Fault
  /\ linked' = linked \ {c}
  /\ known' = known \ {c}
  /\ wire' = {p \in wire : p.client # c}
  /\ lost' = lost \union {<<c, p.stamp>> : p \in {q \in wire : q.client = c /\ ~q.up}}
  /\ relays' = {[r EXCEPT !.steady = r.steady \ {c}] : r \in relays}
  /\ UNCHANGED <<rows, queue, drain, sync, clock, raced>>

Lose(p) ==
  /\ Fault
  /\ wire' = wire \ {p}
  /\ lost' = IF p.up THEN lost ELSE lost \union {<<p.client, p.stamp>>}
  /\ UNCHANGED <<linked, known, rows, queue, drain, relays, sync, clock, raced>>

------------------------------------------------------------------------------
(* A client sends.  A transmission carries the time it was made at.            *)

Transmit(c, m) ==
  /\ clock < MaxSends
  /\ clock' = clock + 1
  /\ wire' = wire \union {[client |-> c, up |-> TRUE, msg |-> m, stamp |-> clock + 1]}

Own(c, m, stamp) == {r \in rows[c] : r.msg # m \/ r.how # "own"}
                      \union {[msg |-> m, stamp |-> stamp, how |-> "own"]}

\* send_hub_message finds the server's link; the web socket handler adds the row.
SendLinked(c, m) ==
  /\ c \in linked
  /\ Transmit(c, m)
  /\ rows' = [rows EXCEPT ![c] = Own(c, m, clock + 1)]
  /\ UNCHANGED <<linked, known, queue, drain, relays, sync, spent, lost, raced>>

\* It finds none: the handler queues the text and shows it as queued.
SendQueued(c, m) ==
  /\ c \notin linked
  /\ queue' = [queue EXCEPT ![c] = @ \union {m}]
  /\ rows' = [rows EXCEPT ![c] = Own(c, m, clock)]
  /\ UNCHANGED <<linked, known, drain, wire, relays, sync, clock, spent, lost, raced>>

Send(c, m) ==
  /\ AuthorOf[m] = c /\ m \notin Written
  /\ SendLinked(c, m) \/ SendQueued(c, m)

\* drain_hub_group_queue: two timers, or a timer and a retry loop, may run it at once.
DrainStart(c, t) ==
  /\ drain[c][t].pc = "idle"
  /\ queue[c] # {} /\ c \in linked
  /\ drain' = [drain EXCEPT ![c][t] = [pc |-> "loop", todo |-> queue[c], kept |-> {}]]
  /\ UNCHANGED <<linked, known, rows, queue, wire, relays, sync, clock, spent, lost, raced>>

\* on_queue_sent marks the author's row and moves it to the time of the send.
DrainSend(c, t, m) ==
  /\ m \in drain[c][t].todo /\ c \in linked
  /\ Transmit(c, m)
  /\ drain' = [drain EXCEPT ![c][t].todo = @ \ {m}]
  /\ rows' = [rows EXCEPT ![c] = Own(c, m, clock + 1)]
  /\ UNCHANGED <<linked, known, queue, relays, sync, spent, lost, raced>>

DrainKeep(c, t, m) ==
  /\ m \in drain[c][t].todo /\ c \notin linked
  /\ drain' = [drain EXCEPT ![c][t].todo = @ \ {m}, ![c][t].kept = @ \union {m}]
  /\ UNCHANGED <<linked, known, rows, queue, wire, relays, sync, clock, spent, lost, raced>>

DrainEnd(c, t) ==
  /\ drain[c][t].pc = "loop" /\ drain[c][t].todo = {}
  /\ queue' = [queue EXCEPT ![c] = drain[c][t].kept]
  /\ drain' = [drain EXCEPT ![c][t] = IdleDrain]
  /\ UNCHANGED <<linked, known, rows, wire, relays, sync, clock, spent, lost, raced>>

------------------------------------------------------------------------------
(* The server relays.                                                          *)

Showing(n, p) == [rows EXCEPT ![n] = @ \union {[msg |-> p.msg, stamp |-> p.stamp, how |-> "relay"]}]

\* on_message: the sender is who the link is known to belong to at this moment.
Sender(p) == IF p.client \in known THEN p.client ELSE Unknown

ServerReceive(p) ==
  /\ p.up
  /\ wire' = wire \ {p}
  /\ rows' = Showing(Server, p)
  /\ relays' = relays \union {[msg |-> p.msg, stamp |-> p.stamp, sender |-> Sender(p),
                               pc |-> "start", todo |-> {}, steady |-> known]}
  /\ UNCHANGED <<linked, known, queue, drain, sync, clock, spent, lost, raced>>

\* The list the loop of relay_hub_message goes through, without the sender.
RelayTargets(r) == known \ {r.sender}

RelayStart(r) ==
  /\ r.pc = "start"
  /\ relays' = (relays \ {r}) \union {[r EXCEPT !.pc = "loop", !.todo = RelayTargets(r)]}
  /\ UNCHANGED <<linked, known, rows, queue, drain, wire, sync, clock, spent, lost, raced>>

\* (mutant) the loop ends at the first client whose link is gone or that was served
RelaySendFirst(r, c) ==
  /\ c \in r.todo
  /\ wire' = IF c \in linked
             THEN wire \union {[client |-> c, up |-> FALSE, msg |-> r.msg, stamp |-> r.stamp]}
             ELSE wire
  /\ relays' = (relays \ {r}) \union {[r EXCEPT !.todo = {}]}
  /\ UNCHANGED <<linked, known, rows, queue, drain, sync, clock, spent, lost, raced>>

\* One round of the loop; a peer without an open link is passed over.
RelaySend(r, c) ==
  /\ c \in r.todo
  /\ wire' = IF c \in linked
             THEN wire \union {[client |-> c, up |-> FALSE, msg |-> r.msg, stamp |-> r.stamp]}
             ELSE wire
  /\ relays' = (relays \ {r}) \union {[r EXCEPT !.todo = @ \ {c}]}
  /\ UNCHANGED <<linked, known, rows, queue, drain, sync, clock, spent, lost, raced>>

\* A client shows whatever the relay brings.
ClientReceive(p) ==
  /\ ~p.up
  /\ wire' = wire \ {p}
  /\ rows' = Showing(p.client, p)
  /\ UNCHANGED <<linked, known, queue, drain, relays, sync, clock, spent, lost, raced>>

------------------------------------------------------------------------------
(* Catching up.                                                                *)

\* The browser asks for what is newer than its newest row (static/js/chat.js).
SyncAsk(c) ==
  /\ sync[c].pc \in {"idle", "done"} /\ spent.syncs < MaxSyncs
  /\ spent' = [spent EXCEPT !.syncs = @ + 1]
  /\ sync' = [sync EXCEPT ![c] = [IdleSync EXCEPT !.pc = "asked", !.since = Newest(rows[c])]]
  /\ UNCHANGED <<linked, known, rows, queue, drain, wire, relays, clock, lost, raced>>

\* A copy of m is in flight to c, or still to be relayed to it.
OnItsWay(c, m) ==
  \/ \E p \in wire : p.client = c /\ p.msg = m
  \/ \E r \in relays : r.msg = m /\ (r.pc = "start" \/ c \in r.todo)

\* _hub_group_messages_since on the server.
SyncReply(c) ==
  LET batch == {r \in rows[Server] : r.stamp > sync[c].since} IN
  /\ sync[c].pc = "asked"
  /\ sync' = [sync EXCEPT ![c].pc = "answered", ![c].batch = batch,
                          ![c].had = Messages(rows[Server])]
  /\ raced' = raced \union {<<c, m>> : m \in {n \in Messages(batch) : OnItsWay(c, n)}}
  /\ UNCHANGED <<linked, known, rows, queue, drain, wire, relays, clock, spent, lost>>

\* (mutant) known ids are not left out
MissingAll(c) == sync[c].batch
\* The rows _merge_incoming_hub_messages appends: one for each id it does not have.
\* (A packet thread that appends meanwhile brings a copy that was on its way.)
Missing(c) == {r \in sync[c].batch : r.msg \notin Messages(rows[c])}

SyncMerge(c) ==
  LET new == Missing(c) IN
  /\ sync[c].pc = "answered"
  /\ \E pick \in [Messages(new) -> new] :
       /\ \A m \in Messages(new) : pick[m].msg = m
       /\ rows' = [rows EXCEPT ![c] = @ \union
            {[msg |-> m, stamp |-> pick[m].stamp, how |-> "sync"] : m \in Messages(new)}]
  /\ sync' = [sync EXCEPT ![c].pc = "done", ![c].batch = {}]
  /\ UNCHANGED <<linked, known, queue, drain, wire, relays, clock, spent, lost, raced>>

------------------------------------------------------------------------------
Next ==
  \/ \E c \in Client : LinkUp(c) \/ Identify(c) \/ LinkDown(c)
  \/ \E c \in Client, m \in Msg : Send(c, m)
  \/ \E c \in Client, t \in Thread : DrainStart(c, t) \/ DrainEnd(c, t)
  \/ \E c \in Client, t \in Thread, m \in Msg : DrainSend(c, t, m) \/ DrainKeep(c, t, m)
  \/ \E p \in wire : Lose(p) \/ ServerReceive(p) \/ ClientReceive(p)
  \/ \E r \in relays : RelayStart(r)
  \/ \E r \in relays, c \in Client : RelaySend(r, c)
  \/ \E c \in Client : SyncAsk(c) \/ SyncReply(c) \/ SyncMerge(c)

Spec == Init /\ [][Next]_vars

------------------------------------------------------------------------------
(* Properties.                                                                 *)

\* The variables have their types.
TypeOK ==
  /\ known \subseteq linked /\ linked \subseteq Client
  /\ rows \in [Node -> SUBSET Row]
  /\ queue \in [Client -> SUBSET Msg]
  /\ wire \subseteq Packet
  /\ \A r \in relays : r.todo \subseteq Client /\ r.sender \in Client \union {Unknown}
  /\ \A c \in Client : Messages(sync[c].batch) \subseteq Msg

\* A client that stayed linked and identified from the moment the server got a
\* text until its relay loop ended has the text, has it in flight, or lost the
\* packet: no other client's coming and going makes the loop skip it
\* (relay_hub_message, hub.py:660).
SteadyHears ==
  \A r \in relays : \A c \in r.steady \ {r.sender} :
    \/ r.pc = "start" \/ c \in r.todo
    \/ AuthorOf[r.msg] = c
    \/ <<c, r.stamp>> \in lost
    \/ \E p \in wire : p.client = c /\ ~p.up /\ p.stamp = r.stamp
    \/ \E q \in rows[c] : q.stamp = r.stamp /\ q.how = "relay"

\* Nothing drops a text that is already shown, so that a client shows it twice
\* if it was sent twice (two drains at once) or a copy was on its way when the
\* client synchronised; in every other case the filter of the merge suffices.
TwiceNeedsOverlap ==
  \A c \in Client : \A q, r \in rows[c] :
    q # r /\ q.msg = r.msg /\ AuthorOf[q.msg] # c =>
      \/ <<c, q.msg>> \in raced
      \/ \E x, y \in relays : x # y /\ x.msg = q.msg /\ y.msg = q.msg

==============================================================================
