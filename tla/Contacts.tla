------------------------------ MODULE Contacts ------------------------------
(* The saved contacts (core/contacts.py): one JSON file for each, named by its  *)
(* primary hash.  Every operation starts with list_contacts, which reads all    *)
(* files, merges those it takes for one peer, and writes them all back.  The    *)
(* event loop (routes, broadcasts) and the discovery threads                    *)
(* (_on_peer_discovered, web/discovery_bridge.py) do so at the same time.       *)
(*                                                                              *)
(* Abstracted: names are equal or unrelated, a name that is a hash prefix or    *)
(* garbage is None, ports and LAN scopes are left out, lan_identity_hash always *)
(* equals identity_hash and "hash" always equals lan_hash, as normalize_contact *)
(* leaves them.                                                                 *)
EXTENDS Naturals, FiniteSets, Sequences, SequencesExt

CONSTANTS
  Hash, Ident, Ip, Name,
  Rank,          \* Rank[h]: the place of a file in the sorted directory
  Heard,         \* rows discovery reports: [hash, via, ip, name, ident]
  PeerOf,        \* PeerOf[h]: whose hash it is
  None, Torn,    \* no value or no file; a file opened for writing
  MaxSaves, MaxHeard   \* bounds: operations of the user, reports

VARIABLES
  dir,           \* the contacts directory
  thread,        \* the operation each thread is in the middle of
  kept,          \* hashes the user saved and did not delete
  deleted,       \* hashes of contacts the user deleted since
  confused,      \* peers two of whose contacts were joined, or whose hashes were mixed up
  overlapped,    \* two operations have run at once
  spent

vars == <<dir, thread, kept, deleted, confused, overlapped, spent>>

Thread == {"loop", "rns"}
Contact == [lan: Hash \union {None}, serial: Hash \union {None}, ident: Ident \union {None},
            sident: Ident \union {None}, ip: Ip \union {None}, name: Name \union {None}, custom: BOOLEAN]
Blank == [lan |-> None, serial |-> None, ident |-> None, sident |-> None, ip |-> None,
          name |-> None, custom |-> FALSE]
Idle == [pc |-> "idle", ops |-> <<>>, writes |-> {}, open |-> None, gone |-> {}, out |-> <<>>]

Init ==
  /\ dir = [h \in Hash |-> None]
  /\ thread = [t \in Thread |-> Idle]
  /\ kept = {} /\ deleted = {} /\ confused = {} /\ overlapped = FALSE
  /\ spent = [saves |-> 0, heard |-> 0]

------------------------------------------------------------------------------
(* Contacts.                                                                    *)

\* normalize_contact: a hash stands for one transport only.
Normal(c) ==
  IF c.lan = None \/ c.lan # c.serial THEN c
  ELSE IF c.ip # None THEN [c EXCEPT !.serial = None] ELSE [c EXCEPT !.lan = None]

Primary(c) == IF c.lan # None THEN c.lan ELSE c.serial
Hashes(c) == {c.lan, c.serial, c.ident, c.sident} \ {None}

\* load_contact: an empty file is a contact with the file's name for a hash.
Load(h) == IF dir[h] = Torn THEN [Blank EXCEPT !.lan = h] ELSE dir[h]

\* _resolve_contact_name: what is saved wins.
Resolved(c, n) == IF c.name # None THEN c.name ELSE n

\* _should_merge_contacts
Mergeable(a, b) ==
  \/ Hashes(a) \intersect Hashes(b) # {}
  \/ /\ a.lan # None /\ b.serial # None /\ a.serial = None /\ b.lan = None
  \/ /\ a.serial # None /\ b.lan # None /\ a.lan = None /\ b.serial = None
First(x, y) == IF x # None THEN x ELSE y

\* (mutant) the second is dropped
MergeFirst(a, b) == a
\* _merge_contact_entries: the first fills its gaps from the second.
Merge(a, b) ==
  Normal([lan |-> First(a.lan, b.lan), serial |-> First(a.serial, b.serial),
          ident |-> First(a.ident, b.ident), sident |-> First(a.sident, b.sident),
          ip |-> First(a.ip, b.ip), name |-> First(a.name, b.name), custom |-> a.custom \/ b.custom])

\* _contact_dedup_keys, the most telling first.
Keys(c) ==
  SelectSeq(<< <<"ident", c.ident, None>>, <<"h", c.lan, c.serial>>, <<"name", c.name, None>> >>,
            LAMBDA k : k[2] # None \/ k[3] # None)

\* The first pass of list_contacts joins what shares a key, the second what is
\* mergeable.  acc.at maps keys to places in acc.out.
JoinByKey(acc, c) ==
  LET keys == Keys(c)
      hits == {i \in DOMAIN keys : \E p \in acc.at : p[1] = keys[i]}
      g == IF hits = {} THEN Len(acc.out) + 1
           ELSE LET i == CHOOSE i \in hits : \A j \in hits : i <= j
                IN (CHOOSE p \in acc.at : p[1] = keys[i])[2]
  IN [out |-> IF hits = {} THEN Append(acc.out, c) ELSE [acc.out EXCEPT ![g] = Merge(@, c)],
      at |-> {p \in acc.at : \A i \in DOMAIN keys : p[1] # keys[i]} \union {<<keys[i], g>> : i \in DOMAIN keys}]

JoinMergeable(out, c) ==
  LET fit == {i \in DOMAIN out : Mergeable(out[i], c)} IN
  IF fit = {} THEN Append(out, c)
  ELSE LET i == CHOOSE i \in fit : \A j \in fit : i <= j IN [out EXCEPT ![i] = Merge(@, c)]

Files == SetToSortSeq({h \in Hash : dir[h] # None}, LAMBDA g, h : Rank[g] < Rank[h])
Raw == [i \in DOMAIN Files |-> Normal(Load(Files[i]))]
Listed(raw) ==
  FoldLeft(JoinMergeable, <<>>, FoldLeft(JoinByKey, [out |-> <<>>, at |-> {}], raw).out)

\* What list_contacts writes back, and the files it takes away.
WriteBack(raw, out) ==
  IF Len(raw) > Len(out) \/ \E i \in DOMAIN out : Hashes(out[i]) # {Primary(out[i])}
  THEN {<<Primary(out[i]), out[i]>> : i \in DOMAIN out} ELSE {}
TakenAway(raw, out) ==
  UNION {Hashes(raw[i]) : i \in DOMAIN raw} \ {Primary(out[i]) : i \in DOMAIN out}

------------------------------------------------------------------------------
(* Operations on what was listed: the files they write and take away.           *)

Nothing == [writes |-> {}, gone |-> {}]
Store(c, also) ==
  [writes |-> {<<Primary(c), c>>}, gone |-> (Hashes(c) \union also) \ {Primary(c)}]

\* find_contact_by_hash; save_contact also looks for the name.
FindFirst(out, Test(_)) ==
  LET hits == {i \in DOMAIN out : Test(out[i])} IN
  IF hits = {} THEN None ELSE out[CHOOSE i \in hits : \A j \in hits : i <= j]
Find(out, h) == FindFirst(out, LAMBDA c : h \in Hashes(c))

\* save_contact for one transport row.
Saved(out, op) ==
  LET known == Find(out, op.hash)
      alike == FindFirst(out, LAMBDA c : op.name # None /\ c.name = op.name)
      old == IF known # None THEN known ELSE IF alike # None THEN alike ELSE Blank
      named == [old EXCEPT !.name = IF op.custom THEN op.name ELSE Resolved(old, op.name),
                           !.custom = @ \/ op.custom]
  IN Normal(IF op.via = "serial"
            THEN [named EXCEPT !.serial = op.hash, !.sident = First(op.ident, @),
                               !.lan = IF @ = op.hash THEN None ELSE @]
            ELSE [named EXCEPT !.lan = op.hash, !.ident = First(op.ident, @), !.ip = First(op.ip, @)])

\* _contact_matches_discovery_peer
Matches(c, row) ==
  \/ {row.hash, row.ident} \intersect Hashes(c) # {}
  \/ row.ip # None /\ c.ip = row.ip
  \/ row.name # None /\ c.name = row.name

\* sync_contact_from_discovery
Synced(out, row) ==
  LET c == FindFirst(out, LAMBDA d : Matches(d, row))
      e == IF row.via = "serial"
           THEN [c EXCEPT !.serial = row.hash, !.sident = First(row.ident, @), !.name = Resolved(c, row.name)]
           ELSE [c EXCEPT !.lan = row.hash, !.ident = First(row.ident, @), !.ip = First(row.ip, @),
                          !.name = Resolved(c, row.name)]
  IN IF c = None \/ e = c THEN Nothing
     ELSE Store(e, Hashes(c))

\* update_contact_endpoint: it looks at the LAN hash only, and saves a peer of the same
\* name under the hash reported as its LAN hash, the hash of a USB row too.
Refreshed(out, row) ==
  LET c == FindFirst(out, LAMBDA d : \/ d.lan = row.hash
                                     \/ row.ident # None /\ row.ident \in {d.ident, d.lan}
                                     \/ row.name # None /\ d.name = row.name)
      op == [hash |-> row.hash, via |-> "lan", ip |-> row.ip, name |-> row.name, ident |-> row.ident, custom |-> FALSE]
      e == Saved(out, op)
  IN IF c = None \/ c.lan = None THEN Nothing
     ELSE IF c.lan # row.hash THEN Store(e, {row.hash})
     ELSE IF row.ip # None /\ row.ip # c.ip THEN Store(e, {}) ELSE Nothing

\* (mutant) only the file of the hash itself
DeletedOne(out, h) == [writes |-> {}, gone |-> {h}]
Deleted(out, h) ==
  LET c == Find(out, h) IN
  [writes |-> {}, gone |-> IF c = None THEN {h} ELSE Hashes(c)]

Effect(out, op) ==
  CASE op.kind = "list" -> Nothing
    [] op.kind = "save" -> Store(Saved(out, op), {op.hash})
    [] op.kind = "delete" -> Deleted(out, op.hash)
    [] op.kind = "sync" -> Synced(out, op)
    [] op.kind = "refresh" -> Refreshed(out, op)

\* (history) The peers a contact has hashes of; a USB hash stands where a LAN hash should.
Peers(c) == {PeerOf[h] : h \in Hashes(c) \intersect Hash}
WrongTransport(c) == \E row \in Heard : row.via = "serial" /\ row.hash = c.lan

------------------------------------------------------------------------------
(* The steps of an operation.                                                   *)

Begin(t, ops) ==
  /\ thread[t] = Idle
  /\ thread' = [thread EXCEPT ![t] = [Idle EXCEPT !.pc = "read", !.ops = ops]]
  /\ overlapped' = (overlapped \/ \E u \in Thread \ {t} : thread[u] # Idle)

Op(kind, row) == [kind |-> kind, hash |-> row.hash, via |-> row.via, ip |-> row.ip, name |-> row.name,
                  ident |-> row.ident, custom |-> FALSE]

User == spent.saves < MaxSaves /\ spent' = [spent EXCEPT !.saves = @ + 1]

\* handle_add_contact saves a row the user sees, ...
UserSaves(row) ==
  /\ User /\ Begin("loop", <<Op("save", row)>>)
  /\ kept' = kept \union {row.hash}
  /\ deleted' = {h \in deleted : PeerOf[h] # PeerOf[row.hash]}
  /\ UNCHANGED <<dir, confused>>

\* ... handle_delete_contact deletes the contact with a hash.
UserDeletes(h) ==
  /\ User /\ h \in kept /\ Begin("loop", <<[Op("delete", CHOOSE r \in Heard : TRUE) EXCEPT !.hash = h]>>)
  /\ kept' = {g \in kept : PeerOf[g] # PeerOf[h]}
  /\ deleted' = deleted \union {g \in Hash : PeerOf[g] = PeerOf[h]}
  /\ UNCHANGED <<dir, confused>>

\* Broadcasts and lookups list the contacts all the time.
Lists ==
  /\ Begin("loop", <<Op("list", CHOOSE r \in Heard : TRUE)>>)
  /\ \E h \in Hash : dir[h] # None
  /\ UNCHANGED <<dir, kept, deleted, confused, spent>>

\* _on_peer_discovered
Discovers(row) ==
  /\ spent.heard < MaxHeard /\ spent' = [spent EXCEPT !.heard = @ + 1]
  /\ Begin("rns", <<Op("sync", row), Op("refresh", row)>>)
  /\ UNCHANGED <<dir, kept, deleted, confused>>

Read(t) ==
  LET raw == Raw  out == Listed(raw) IN
  /\ thread[t].pc = "read"
  /\ thread' = [thread EXCEPT ![t] = [@ EXCEPT !.pc = "write", !.out = out,
                  !.writes = WriteBack(raw, out), !.gone = TakenAway(raw, out)]]
  /\ confused' = confused \union UNION {Peers(out[i]) : i \in {j \in DOMAIN out : Cardinality(Peers(out[j])) > 1}}
  /\ UNCHANGED <<dir, kept, deleted, overlapped, spent>>

\* open(path, "w") empties a file, json.dump fills it.
Open(t) ==
  /\ thread[t].pc = "write" /\ thread[t].open = None
  /\ \E w \in thread[t].writes :
       /\ dir' = [dir EXCEPT ![w[1]] = Torn]
       /\ thread' = [thread EXCEPT ![t].open = w, ![t].writes = @ \ {w}]
  /\ UNCHANGED <<kept, deleted, confused, overlapped, spent>>

Dump(t) ==
  LET w == thread[t].open IN
  /\ w # None
  /\ dir' = [dir EXCEPT ![w[1]] = w[2]]
  /\ thread' = [thread EXCEPT ![t].open = None]
  /\ UNCHANGED <<kept, deleted, confused, overlapped, spent>>

\* The stale files go; then comes the operation itself, or the next one.
Clean(t) ==
  LET me == thread[t]
      todo == IF me.out = None THEN Nothing ELSE Effect(me.out, Head(me.ops))
  IN
  /\ me.pc = "write" /\ me.writes = {} /\ me.open = None
  /\ dir' = [h \in Hash |-> IF h \in me.gone THEN None ELSE dir[h]]
  /\ thread' = [thread EXCEPT ![t] =
       IF me.out # None THEN [me EXCEPT !.out = None, !.writes = todo.writes, !.gone = todo.gone]
       ELSE IF Len(me.ops) > 1 THEN [Idle EXCEPT !.pc = "read", !.ops = Tail(me.ops)]
       ELSE Idle]
  /\ confused' = confused \union {PeerOf[w[1]] : w \in {v \in todo.writes : WrongTransport(v[2])}}
  /\ UNCHANGED <<kept, deleted, overlapped, spent>>

Next ==
  \/ \E row \in Heard : UserSaves(row) \/ Discovers(row)
  \/ \E h \in Hash : UserDeletes(h)
  \/ Lists
  \/ \E t \in Thread : Read(t) \/ Open(t) \/ Dump(t) \/ Clean(t)

Spec == Init /\ [][Next]_vars

------------------------------------------------------------------------------
(* Properties.                                                                  *)

\* Files hold contacts, under a hash of theirs.
TypeOK ==
  \A h \in Hash : dir[h] \notin {None, Torn} =>
    dir[h] \in Contact /\ (overlapped \/ h = Primary(dir[h]))

Quiet == \A t \in Thread : thread[t] = Idle

\* A contact the user deleted does not come back, unless another thread had listed
\* it just before and wrote it back (list_contacts, contacts.py:661), or it had been
\* mixed up: joined with another peer's, or saved under its USB hash as a LAN hash
\* (update_contact_endpoint, contacts.py:859).
DeletedStaysDeleted ==
  Quiet /\ ~overlapped =>
    \A h \in Hash : dir[h] # None =>
      \A g \in Hashes(Load(h)) \intersect deleted : PeerOf[g] \in confused

\* A hash the user saved finds a contact until the user deletes it, whatever files
\* are merged, refreshed and renamed meanwhile, with the same two exceptions.
SavedIsFound ==
  Quiet /\ ~overlapped =>
    \A h \in kept : PeerOf[h] \in confused \/ Find(Listed(Raw), h) # None

==============================================================================
