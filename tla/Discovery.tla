------------------------------ MODULE Discovery ------------------------------
(* The table of discovered peers (core/discovery.py), its hash index, and what  *)
(* an eviction does to queue, chats and contacts (web/discovery_bridge.py).     *)
(* Four threads change the dictionaries without a lock: RNS calls _on_announce, *)
(* the beacon socket _on_beacon, the probe loop and the event loop purge.       *)
(*                                                                              *)
(* Abstracted: names and addresses are values, the clock counts units of about  *)
(* 15 s, round trip times are left out (a UDP probe never takes the 10 s that   *)
(* would count), rows renamed by an eviction carry queue and chat to the new    *)
(* hash.  Dead code: an announce without address on a LAN interface never gets  *)
(* to the "rns" branch, _peer_dedup_key is unique among the rows, serial rows   *)
(* are always verified.                                                         *)
EXTENDS Naturals, FiniteSets, Sequences

CONSTANTS
  Hash,         \* destination hashes
  Ident,        \* identity hashes
  Advert,       \* what announces, beacons and new links may say
  Net,          \* Net[ip]: the LAN of an address
  Scope,        \* LANs the user may pin
  Own,          \* the hash of this node's USB endpoint, looped back by the cable
  Saved,        \* hashes of saved contacts, initially
  None,
  Fresh, Stale, Ttl,   \* 12 s, 30 s and 300 s
  MaxFailures,  \* probe failures that count
  MaxTime, MaxHears, MaxChanges   \* bounds: clock, adverts, changes of LAN and USB

VARIABLES
  peers,        \* peers: a row or None for each storage key
  index,        \* _hash_index
  thread,       \* what each thread is in the middle of
  clock, usb, scope, local,
  owed,         \* hashes with queued messages
  chat,         \* hashes with chat rows
  saved,        \* hashes of saved contacts
  overlap,      \* keys one thread dropped while another was storing them
  spent         \* adverts heard and changes made

vars == <<peers, index, thread, clock, usb, scope, local, owed, chat, saved, overlap, spent>>

Thread == {"rns", "udp", "probe", "loop"}
Key == Hash \X {"lan", "serial", "link"}
Family(via) == IF via = "serial" THEN "serial" ELSE "lan"
Idle == [pc |-> "idle", todo |-> {}, popped |-> None, tell |-> "no", row |-> None,
         rest |-> <<>>, removed |-> {}, late |-> FALSE]
\* A row, and where it is stored.
Stored == [hash : Hash, via : {"lan", "serial", "link"}, ip : {a.ip : a \in Advert} \union {None},
           name : {a.name : a \in Advert} \union {None}, ident : {a.ident : a \in Advert} \union {None},
           seen : Nat, okAt : Nat, fails : Nat]
KeyOf(r) == <<r.hash, r.via>>
Rows == {k \in Key : peers[k] # None}

Init ==
  /\ peers = [k \in Key |-> None]
  /\ index = [h \in Hash \union Ident |-> {}]
  /\ thread = [t \in Thread |-> Idle]
  /\ clock = 0 /\ usb \in BOOLEAN /\ scope \in Scope \union {None}
  /\ local = {} /\ owed = {} /\ chat = {} /\ saved = Saved /\ overlap = {}
  /\ spent = [hears |-> 0, changes |-> 0]

InScope(ip) == scope = None \/ Net[ip] = scope

\* _peer_keys_for_hash: the index first, the table only if that finds nothing.
Lookup(h) ==
  LET found == index[h] \intersect Rows IN
  IF found # {} THEN found ELSE {k \in Rows : k[1] = h}

Hashes(r) == {r.hash} \union ({r.ident} \ {None})

------------------------------------------------------------------------------
(* What is heard.                                                               *)

\* The transport of an announce by the interface it came in on; None: ignored.
Via(a) ==
  CASE a.fam = "serial" -> IF usb THEN "serial" ELSE None
    [] a.fam # "serial" /\ a.ip = None -> IF usb THEN "serial" ELSE None
    [] OTHER -> IF InScope(a.ip) THEN "lan" ELSE None

\* (mutant) a USB row keeps the address it was heard with
RowAddressed(a, via) ==
  [hash |-> a.hash, via |-> via, ip |-> a.ip,
   name |-> a.name, ident |-> a.ident, seen |-> clock, okAt |-> clock, fails |-> 0]
Row(a, via) ==
  [hash |-> a.hash, via |-> via, ip |-> IF via = "serial" THEN None ELSE a.ip,
   name |-> a.name, ident |-> a.ident, seen |-> clock, okAt |-> clock, fails |-> 0]

\* A beacon without a name takes that of a row with its identity.
Named(r) ==
  IF r.name # None THEN {r}
  ELSE LET names == {peers[k].name : k \in {j \in Rows : r.ident \in Hashes(peers[j])}} \ {None}
       IN IF names = {} THEN {r} ELSE {[r EXCEPT !.name = n] : n \in names}

\* _attach_peer_ip: an address from a LAN row of the same name or identity.
Attached(r) ==
  LET like == {k \in Rows : /\ peers[k].ip # None /\ InScope(peers[k].ip)
                            /\ \/ r.name # None /\ peers[k].name = r.name
                               \/ r.ident # None /\ peers[k].ident = r.ident}
  IN IF r.ip # None \/ r.via = "serial" \/ like = {} THEN {r}
     ELSE {[r EXCEPT !.ip = peers[k].ip] : k \in like}

\* _sanitize_peer_scope
Allowed(r) == IF r.via = "serial" THEN usb
              ELSE scope = None \/ (r.ip # None /\ InScope(r.ip))

\* The rows an advert stores: a beacon may bring the peer's USB endpoint along.
Stores(a) ==
  CASE a.from = "announce" -> IF Via(a) = None THEN {} ELSE {<<Row(a, Via(a))>>}
    [] a.from = "link" -> IF \E r \in Attached(Row(a, "link")) : Allowed(r) THEN {<<Row(a, "link")>>} ELSE {}
    [] a.from = "beacon" ->
         IF a.ip = None \/ ~InScope(a.ip) THEN {}
         ELSE {<<r>> \o (IF a.serial = None \/ ~usb \/ a.serial \in local THEN <<>>
                         ELSE <<[Row(a, "serial") EXCEPT !.hash = a.serial, !.name = r.name]>>) :
                r \in Named(Row(a, "lan"))}

\* _on_announce, _on_beacon and register_link_peer up to _store_peer.
Hear(a) ==
  LET t == CASE a.from = "announce" -> "rns" [] a.from = "beacon" -> "udp" [] OTHER -> "loop" IN
  /\ thread[t] = Idle /\ spent.hears < MaxHears
  /\ spent' = [spent EXCEPT !.hears = @ + 1]
  /\ a.hash \notin local
  /\ \E rows \in Stores(a) :
       thread' = [thread EXCEPT ![t] = [Idle EXCEPT !.pc = "check", !.row = Head(rows), !.rest = Tail(rows)]]
  /\ UNCHANGED <<peers, index, clock, usb, scope, local, owed, chat, saved, overlap>>

\* _evict_superseded_peers: other hashes of the same family that are the same host.
Superseded(r) ==
  {k \in Rows :
     LET e == peers[k]
         sameHost == r.ip # None /\ e.ip = r.ip
         sameName == r.name # None /\ e.name = r.name
     IN /\ e.hash # r.hash /\ Family(e.via) = Family(r.via)
        /\ \/ r.ident # None /\ e.ident = r.ident
           \/ ~(usb /\ sameName /\ ~sameHost) /\ (sameHost \/ sameName)}

\* What _store_peer does next with the row of thread t.
NextStore(t) ==
  IF thread[t].rest = <<>> THEN Idle
  ELSE [Idle EXCEPT !.pc = "check", !.row = Head(thread[t].rest), !.rest = Tail(thread[t].rest)]

\* Stores that have looked for superseded rows and not yet put their own, with t's.
Crowd(t) ==
  LET others == {u \in Thread \ {t} : /\ thread[u].pc \in {"drop", "insert", "merge"}
                                      /\ thread[u].tell = "successor"}
  IN IF others = {} THEN {} ELSE {KeyOf(thread[u].row) : u \in others \union {t}}

\* The first half of _store_peer: a row that does not fit the LAN any more takes
\* every row of its hash with it, one that fits the rows it supersedes.  A link that
\* was allowed with another row's address is refused when that row has gone.
Check(t) ==
  /\ thread[t].pc = "check"
  /\ \E r \in Attached(thread[t].row) :
       thread' = [thread EXCEPT ![t] =
         IF r.hash \in local THEN NextStore(t)
         ELSE IF Allowed(r)
         THEN [@ EXCEPT !.pc = "drop", !.tell = "successor", !.row = r, !.todo = Superseded(r)]
         ELSE [@ EXCEPT !.pc = "drop", !.tell = IF r.via = "link" THEN "refused" ELSE "each",
                        !.row = None, !.todo = {k \in Rows : k[1] = r.hash}]]
  /\ overlap' = overlap \union Crowd(t)
  /\ UNCHANGED <<peers, index, clock, usb, scope, local, owed, chat, saved, spent>>

------------------------------------------------------------------------------
(* Dropping rows.                                                               *)

\* Threads about to store, or in the middle of storing, under key k.
Storing(k) == {t \in Thread : thread[t].pc \in {"insert", "merge", "index"} /\ KeyOf(thread[t].row) = k}

\* _pop_peer_key and _remove_peer_entry take the row first; a thread that was about
\* to merge into it keeps the dictionary of a row nobody has any more.
Pop(t, k) ==
  /\ k \in thread[t].todo /\ thread[t].popped = None
  /\ peers' = [peers EXCEPT ![k] = None]
  /\ overlap' = IF Storing(k) \ {t} # {} THEN overlap \union {k} ELSE overlap
  /\ thread' = [u \in Thread |->
       IF u = t THEN [thread[t] EXCEPT !.todo = @ \ {k}, !.popped = peers[k],
                        !.removed = IF thread[t].tell = "successor" THEN @ \union {k[1]} ELSE @]
       ELSE IF u \in Storing(k) /\ thread[u].pc = "merge" THEN [thread[u] EXCEPT !.late = TRUE]
       ELSE thread[u]]
  /\ UNCHANGED <<index, clock, usb, scope, local, owed, chat, saved, spent>>

\* _supersede_peer_hashes without a replacement: the queue goes, and the chat of a
\* peer that is no contact.
Forget(h) == /\ owed' = owed \ {h}
             /\ chat' = IF h \in saved THEN chat ELSE chat \ {h}
             /\ UNCHANGED saved

\* Then _unindex_peer, and _notify_peer_evicted where the caller notifies.
Unindex(t) ==
  LET r == thread[t].popped IN
  /\ r # None
  /\ index' = [h \in DOMAIN index |-> IF h \in Hashes(r) THEN index[h] \ {KeyOf(r)} ELSE index[h]]
  /\ IF thread[t].tell \in {"each", "refused"} THEN Forget(r.hash) ELSE UNCHANGED <<owed, chat, saved>>
  /\ thread' = [thread EXCEPT ![t].popped = None]
  /\ UNCHANGED <<peers, clock, usb, scope, local, overlap, spent>>

Renamed(S, old, new) == IF S \intersect old = {} THEN S ELSE (S \ old) \union {new}

\* The loop is done.  With a replacement contacts, queue and chat follow it.
Dropped(t) ==
  LET me == thread[t] IN
  /\ me.pc = "drop" /\ me.todo = {} /\ me.popped = None
  /\ IF me.tell = "successor"
     THEN /\ thread' = [thread EXCEPT ![t].pc = IF peers[KeyOf(me.row)] = None THEN "insert" ELSE "merge"]
          /\ saved' = Renamed(saved, me.removed, me.row.hash)
          /\ owed' = Renamed(owed, me.removed, me.row.hash)
          /\ chat' = Renamed(chat, me.removed, me.row.hash)
     ELSE thread' = [thread EXCEPT ![t] = NextStore(t)] /\ UNCHANGED <<saved, owed, chat>>
  /\ UNCHANGED <<peers, index, clock, usb, scope, local, overlap, spent>>

------------------------------------------------------------------------------
(* The second half of _store_peer.                                              *)

\* reset_peer_probe_state: every row found for the hash is alive.
Alive(rows, h) ==
  [k \in Key |-> IF k \in Lookup(h) THEN [rows[k] EXCEPT !.okAt = rows[k].seen, !.fails = 0] ELSE rows[k]]

\* Another thread has chosen the row under k, or is busy taking it out.
Dropping(k) ==
  \E u \in Thread :
    \/ k \in thread[u].todo
    \/ thread[u].popped # None /\ KeyOf(thread[u].popped) = k

Insert(t) ==
  LET k == KeyOf(thread[t].row) IN
  /\ thread[t].pc = "insert"
  /\ peers' = [peers EXCEPT ![k] = thread[t].row]
  /\ thread' = [thread EXCEPT ![t].pc = "index"]
  /\ overlap' = IF Dropping(k) THEN overlap \union {k} ELSE overlap
  /\ UNCHANGED <<index, clock, usb, scope, local, owed, chat, saved, spent>>

\* (mutant) under hashes that find nothing yet
IndexNew(t) ==
  LET r == thread[t].row IN
  /\ thread[t].pc = "index"
  /\ index' = [h \in DOMAIN index |-> IF h \in Hashes(r) /\ index[h] = {} THEN {KeyOf(r)} ELSE index[h]]
  /\ peers' = Alive(peers, r.hash)
  /\ thread' = [thread EXCEPT ![t] = NextStore(t)]
  /\ UNCHANGED <<clock, usb, scope, local, owed, chat, saved, overlap, spent>>

\* _index_peer, after the row is in the table.
Index(t) ==
  LET r == thread[t].row IN
  /\ thread[t].pc = "index"
  /\ index' = [h \in DOMAIN index |-> IF h \in Hashes(r) THEN index[h] \union {KeyOf(r)} ELSE index[h]]
  /\ peers' = Alive(peers, r.hash)
  /\ thread' = [thread EXCEPT ![t] = NextStore(t)]
  /\ UNCHANGED <<clock, usb, scope, local, owed, chat, saved, overlap, spent>>

Merged(e, r) ==
  [e EXCEPT !.ip = IF r.ip # None THEN r.ip ELSE @, !.ident = IF @ = None THEN r.ident ELSE @,
            !.name = IF r.name # None THEN r.name ELSE @,
            !.seen = r.seen, !.okAt = r.seen, !.fails = 0]

\* An address that went out of scope meanwhile removes the row instead.
Merge(t) ==
  LET r == thread[t].row  k == KeyOf(r) IN
  /\ thread[t].pc = "merge"
  /\ IF ~thread[t].late /\ r.ip # None /\ r.ip # peers[k].ip /\ ~InScope(r.ip)
     THEN thread' = [thread EXCEPT ![t] = [@ EXCEPT !.pc = "drop", !.tell = "each", !.todo = {k}]] /\ UNCHANGED peers
     ELSE /\ peers' = Alive(IF thread[t].late THEN peers ELSE [peers EXCEPT ![k] = Merged(@, r)], r.hash)
          /\ thread' = [thread EXCEPT ![t] = NextStore(t)]
  /\ overlap' = IF Dropping(k) THEN overlap \union {k} ELSE overlap
  /\ UNCHANGED <<index, clock, usb, scope, local, owed, chat, saved, spent>>

------------------------------------------------------------------------------
(* Probes and purges.                                                           *)

\* _probe_discovered_peers of one LAN row with update_peer_probe for all rows the
\* index has for its hash.
Probed(r, answers) ==
  CASE answers -> [r EXCEPT !.okAt = clock, !.fails = 0]
    [] ~answers /\ clock - r.seen < Fresh -> [r EXCEPT !.okAt = r.seen, !.fails = 0]
    [] OTHER -> [r EXCEPT !.fails = IF @ < MaxFailures THEN @ + 1 ELSE @]

Probe(k, answers) ==
  /\ thread["probe"] = Idle /\ k \in Rows /\ k[2] # "serial" /\ peers[k].ip # None
  /\ peers' = [j \in Key |-> IF j \in Lookup(k[1]) /\ j[2] # "serial" THEN Probed(peers[j], answers) ELSE peers[j]]
  /\ peers' # peers
  /\ UNCHANGED <<index, thread, clock, usb, scope, local, owed, chat, saved, overlap, spent>>

Purge(t, keys, tell) ==
  /\ thread[t] = Idle /\ keys # {}
  /\ thread' = [thread EXCEPT ![t] = [Idle EXCEPT !.pc = "drop", !.todo = keys, !.tell = tell]]

\* (mutant) only the failures count
SilentByFailures(k) == k[2] # "serial" /\ peers[k].fails >= 1
\* purge_stale_probes
Silent(k) ==
  /\ k[2] # "serial" /\ clock - peers[k].seen > Stale /\ clock - peers[k].okAt > Stale
  /\ peers[k].fails >= MaxFailures

PurgeSilent ==
  /\ Purge("probe", {k \in Rows : Silent(k)}, "each")
  /\ UNCHANGED <<peers, index, clock, usb, scope, local, owed, chat, saved, overlap, spent>>

\* get_peers and purge_ipless_non_serial, every second.
PurgeOld ==
  /\ Purge("loop", {k \in Rows : clock - peers[k].seen > Ttl \/ (k[2] # "serial" /\ peers[k].ip = None)}, "no")
  /\ UNCHANGED <<peers, index, clock, usb, scope, local, owed, chat, saved, overlap, spent>>

Change == /\ spent.changes < MaxChanges
          /\ spent' = [spent EXCEPT !.changes = @ + 1]

\* _apply_lan_scope_change: purge_out_of_scope.
NewScope(s) ==
  /\ s # scope /\ Change /\ thread["probe"] = Idle
  /\ scope' = s
  /\ LET out == {k \in Rows : k[2] # "serial" /\ peers[k].ip # None /\ Net[peers[k].ip] # s} IN
     IF out = {} \/ s = None THEN UNCHANGED thread ELSE Purge("probe", out, "no")
  /\ UNCHANGED <<peers, index, clock, usb, local, owed, chat, saved, overlap>>

Plug ==
  /\ ~usb /\ Change /\ usb' = TRUE
  /\ UNCHANGED <<peers, index, thread, clock, scope, local, owed, chat, saved, overlap>>

\* purge_offline_serial_peers
Unplug ==
  /\ usb /\ Change /\ usb' = FALSE /\ thread["loop"] = Idle
  /\ LET out == {k \in Rows : k[2] = "serial"} IN
     IF out = {} THEN UNCHANGED thread ELSE Purge("loop", out, "no")
  /\ UNCHANGED <<peers, index, clock, scope, local, owed, chat, saved, overlap>>

\* set_local_hashes, once the serial identity is known.
LearnOwn ==
  /\ local = {} /\ thread["loop"] = Idle /\ local' = {Own}
  /\ LET mine == {k \in Rows : k[1] = Own} IN
     IF mine = {} THEN UNCHANGED thread ELSE Purge("loop", mine, "each")
  /\ overlap' = overlap \union {KeyOf(thread[t].row) : t \in {u \in Thread :
                  thread[u].row # None /\ thread[u].row.hash = Own}}
  /\ UNCHANGED <<peers, index, clock, usb, scope, owed, chat, saved, spent>>

\* No thread is in the middle of something for as long as 15 s.
Tick ==
  /\ \A t \in Thread : thread[t] = Idle
  /\ clock < MaxTime /\ clock' = clock + 1
  /\ UNCHANGED <<peers, index, thread, usb, scope, local, owed, chat, saved, overlap, spent>>

\* The user writes to a peer that is listed, or saved, and away.
Write(h) ==
  /\ h \in saved \/ \E k \in Rows : k[1] = h
  /\ h \notin owed
  /\ owed' = owed \union {h} /\ chat' = chat \union {h}
  /\ UNCHANGED <<peers, index, thread, clock, usb, scope, local, saved, overlap, spent>>

Next ==
  \/ \E a \in Advert : Hear(a)
  \/ \E t \in Thread : Check(t) \/ Unindex(t) \/ Dropped(t) \/ Insert(t) \/ Index(t) \/ Merge(t)
  \/ \E t \in Thread, k \in Key : Pop(t, k)
  \/ \E k \in Key, answers \in BOOLEAN : Probe(k, answers)
  \/ \E s \in Scope \union {None} : NewScope(s)
  \/ PurgeSilent \/ PurgeOld \/ Plug \/ Unplug \/ LearnOwn \/ Tick
  \/ \E h \in Hash : Write(h)

Spec == Init /\ [][Next]_vars

------------------------------------------------------------------------------
(* Properties.                                                                  *)

\* Rows are stored under their hash and transport, and a USB row has no address.
TypeOK ==
  /\ \A k \in Rows : /\ peers[k] \in Stored /\ KeyOf(peers[k]) = k
                     /\ k[2] = "serial" => peers[k].ip = None
  /\ \A h \in DOMAIN index : index[h] \subseteq Key
  /\ owed \subseteq Hash /\ chat \subseteq Hash /\ saved \subseteq Hash
  /\ \A t \in Thread : thread[t].todo \subseteq Key

\* A row is found by its hash, so that probes and announces reach it, unless one
\* thread stored it while another was taking an older one out of the index
\* (_pop_peer_key against _store_peer, discovery.py:142 and 656).
FindableByHash ==
  \A k \in Rows : \/ k \in Lookup(k[1]) \union overlap
                 \/ \E t \in Thread : thread[t].pc = "index" /\ KeyOf(thread[t].row) = k

\* Two rows of one transport never show the same address under two hashes, unless
\* two threads stored them at once, each looking for superseded rows before the
\* other's was there (_evict_superseded_peers, discovery.py:527).
OneHashPerAddress ==
  \A j, k \in Rows :
    /\ j[1] # k[1] /\ peers[j].ip # None /\ peers[j].ip = peers[k].ip
    => {j, k} \subseteq overlap

\* The table and its index agree, and one address is one peer.
TableHolds == FindableByHash /\ OneHashPerAddress

\* An eviction throws away the messages queued for a peer only if the row it takes
\* was not heard for 30 s (purge_stale_probes, discovery.py:390), is this node's
\* own, or was heard again, or had the LAN change, while the eviction was running,
\* or a link to it was refused for the row it had borrowed an address from.
DiscardNeedsSilence ==
  [][\A t \in Thread : LET r == thread[t].popped IN
       /\ r # None /\ thread'[t].popped = None
       /\ r.hash \in owed /\ r.hash \notin owed'
       => \/ clock - r.seen > Stale \/ r.hash \in local \/ KeyOf(r) \in overlap
          \/ thread[t].tell = "refused" \/ spent.changes > 0]_vars

==============================================================================
