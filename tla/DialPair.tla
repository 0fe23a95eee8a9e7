------------------------------ MODULE DialPair ------------------------------
(***************************************************************************)
(* Two nodes that connect to each other over one LAN transport: connect.py *)
(* (connect_to and the attempts it makes under _connect_lock), peer_connect*)
(* .py (the wake of the peer, which makes it dial back) and the inbound    *)
(* callback of inbound_callbacks.py.  A connect of one node starts a dial  *)
(* in both, so two links are opened at about the same time and each node   *)
(* decides alone which one to keep.                                        *)
(*                                                                         *)
(* A link is opened in RNS by a request, a proof (active at the caller) and*)
(* a third packet (active at the callee, whose callback runs).  One        *)
(* callback, or one poll of a connect, is one step: the interleavings      *)
(* inside a node are those of LinkRegistry.                                *)
(***************************************************************************)
EXTENDS Naturals

CONSTANTS
  Node,       \* the two nodes
  MaxLinks,   \* bound: links opened
  MaxTries,   \* bound: attempts of one connect (quick, primed, final, serial)
  MaxUser,    \* bound: connects the users ask for
  MaxFaults   \* bound: packets lost

VARIABLES
  caller,     \* [link -> the node that opened it]; its length counts links
  end,        \* [link -> [Node -> "none", "pending", "active", "closed"]]
  wire,       \* packets on their way: <<kind, link, destination>>
  known,      \* [Node -> links whose remote identity was received]
  links,      \* [Node -> self.links: links with callbacks]
  cached,     \* [Node -> links in _link_peer_hashes under the peer]
  listed,     \* [Node -> peer_links[peer], 0 if none]
  active,     \* [Node -> active_link, 0 if none]
  session,    \* [Node -> _session_peer_hash is the peer]
  task,       \* [Node -> the connect that holds _connect_lock]
  waiting,    \* [Node -> kinds of connects that wait for the lock]
  asked,      \* connects asked for by users
  told,       \* [Node -> the last result: "none", "ok", "failed"]
  crossed,    \* ghost: a dial began before the other node's link arrived
  left,       \* ghost: attempts that were left without a teardown
  spent       \* packets lost so far

vars == <<caller, end, wire, known, links, cached, listed, active, session,
          task, waiting, asked, told, crossed, left, spent>>

registry == <<links, cached, listed, active, session>>

Link == 1..MaxLinks
Opened == DOMAIN caller
Other(n) == CHOOSE m \in Node : m # n
Idle == [at |-> "idle", user |-> FALSE, link |-> 0, tries |-> 0]

Init ==
  /\ caller = [l \in {} |-> 0]
  /\ end = [l \in Link |-> [n \in Node |-> "none"]]
  /\ wire = {}
  /\ known = [n \in Node |-> {}]
  /\ links = [n \in Node |-> {}]
  /\ cached = [n \in Node |-> {}]
  /\ listed = [n \in Node |-> 0]
  /\ active = [n \in Node |-> 0]
  /\ session = [n \in Node |-> FALSE]
  /\ task = [n \in Node |-> Idle]
  /\ waiting = [n \in Node |-> {}]
  /\ asked = 0
  /\ told = [n \in Node |-> "none"]
  /\ crossed = FALSE /\ left = {}
  /\ spent = 0

(***************************************************************************)
(* The registry of one node as a record, and what the calls do to it       *)
(***************************************************************************)

Here(n) == [links |-> links[n], cached |-> cached[n], listed |-> listed[n],
            active |-> active[n], session |-> session[n], shut |-> {}]

Up(n, r) == {l \in Opened : end[l][n] = "active"} \ r.shut

\* _other_active_links_for_peer
Active(n, r) == r.links \cap r.cached \cap Up(n, r)

\* _link_for_peer: the listed link, else any cached one.
LinkFor(n, r) ==
  IF r.listed # 0 THEN r.listed
  ELSE IF r.links \cap r.cached # {} THEN CHOOSE l \in r.links \cap r.cached : TRUE
  ELSE 0

\* _find_active_link_for_peer
Found(n, r) == r.links \cap (r.cached \cup known[n]) \cap Up(n, r)

\* _peer_link_active
PeerActive(n, r) == LinkFor(n, r) \in Up(n, r) \/ Found(n, r) # {}

\* _peer_link_usable, its interface and its path being there.
Usable(n, r) == IF LinkFor(n, r) # 0 THEN {LinkFor(n, r)} ELSE Found(n, r)

\* _register_peer_link
Registered(r, l) == [r EXCEPT !.listed = l, !.cached = @ \cup {l}]

\* _link_closed at this node, for each of ls: the callback of a link that has
\* callbacks; another active link of the peer, if any, takes its place.
DroppedAll(n, r, ls) ==
  LET mine == ls \cap r.links
      gone == [r EXCEPT !.links = @ \ mine, !.cached = @ \ mine, !.shut = @ \cup ls]
      rest == Active(n, gone)
      next == IF rest = {} THEN 0 ELSE CHOOSE k \in rest : TRUE
  IN  IF mine = {} THEN gone
      ELSE [gone EXCEPT !.listed = next, !.active = IF @ \in mine THEN next ELSE @]

Dropped(n, r, l) == DroppedAll(n, r, {l})

\* (mutant) the link to keep is not told from the others
OthersAll(n, r, keep) == Active(n, r) \cup ({r.listed} \ {0})

Others(n, r, keep) == (Active(n, r) \cup ({r.listed} \ {0})) \ {keep}

\* _consolidate_peer_links: every other link of the peer is torn down.
Consolidated(n, r, keep) == DroppedAll(n, r, Others(n, r, keep))

\* (mutant) the callbacks of a link are not set
SetUpNot(r, l) == [r EXCEPT !.cached = @ \cup {l}]

\* _setup_link
SetUp(r, l) == [r EXCEPT !.links = @ \cup {l}]

\* _notify_link_established
Notified(n, r, l, promote) ==
  LET reg == Registered(r, l) IN
  IF ~promote THEN reg
  ELSE [Consolidated(n, reg, l) EXCEPT !.listed = l, !.active = l, !.session = TRUE]

\* A pending link is closed without a word; an end that is closed ignores it.
Told(n, r) == {l \in r.shut : end[l][n] = "active" /\ end[l][Other(n)] # "closed"}

\* The node takes over r: what was shut is closed here and the peer is told.
Store(n, r, more) ==
  /\ links' = [links EXCEPT ![n] = r.links]
  /\ cached' = [cached EXCEPT ![n] = r.cached]
  /\ listed' = [listed EXCEPT ![n] = r.listed]
  /\ active' = [active EXCEPT ![n] = r.active]
  /\ session' = [session EXCEPT ![n] = r.session]
  /\ end' = [l \in Link |-> IF l \in r.shut THEN [end[l] EXCEPT ![n] = "closed"] ELSE end[l]]
  /\ wire' = more \cup {<<"close", l, Other(n)>> : l \in Told(n, r)}

(***************************************************************************)
(* Connects                                                                *)
(***************************************************************************)

\* POST /api/connect
Press(n) ==
  /\ asked < MaxUser
  /\ "user" \notin waiting[n]
  /\ asked' = asked + 1
  /\ waiting' = [waiting EXCEPT ![n] = @ \cup {"user"}]
  /\ UNCHANGED <<caller, end, wire, known, registry, task, told, crossed, left, spent>>

\* handle_request_connect on the woken node: linked already, or another
\* request of the last 3 s, and nothing more happens.
Woken(m) == IF PeerActive(m, Here(m)) THEN waiting
            ELSE [waiting EXCEPT ![m] = @ \cup {"reverse"}]

\* connect_to takes the lock; a user's connect sets the session and wakes the
\* peer (or cannot reach it).
Begin(n, kind) ==
  /\ kind \in waiting[n] /\ task[n].at = "idle"
  /\ task' = [task EXCEPT ![n] = [Idle EXCEPT !.at = "check", !.user = kind = "user"]]
  /\ session' = [session EXCEPT ![n] = @ \/ kind = "user"]
  /\ \E w \in (IF kind = "user" THEN {waiting, Woken(Other(n))} ELSE {waiting}) :
       waiting' = [w EXCEPT ![n] = @ \ {kind}]
  /\ UNCHANGED <<caller, end, wire, known, links, cached, listed, active, asked,
                 told, crossed, left, spent>>

\* _finish_connect keeps one link, and the lock is released.
Finished(n, r, l) ==
  /\ Store(n, IF l = 0 THEN r ELSE Consolidated(n, r, l), wire)
  /\ task' = [task EXCEPT ![n] = Idle]
  /\ told' = [told EXCEPT ![n] = "ok"]

\* Connected already, by the active link or by another one, which a user's connect
\* promotes; or a link the peer opened meanwhile is adopted.
Already(n) ==
  /\ task[n].at = "check"
  /\ LET r == Here(n) IN
     \/ /\ active[n] # 0
        /\ Finished(n, r, active[n])
     \/ /\ active[n] = 0 /\ PeerActive(n, r)
        /\ \/ \E l \in Usable(n, r) :
                Finished(n, IF task[n].user THEN Notified(n, r, l, TRUE) ELSE r, l)
           \/ \E l \in Found(n, r) : Finished(n, Notified(n, r, l, TRUE), l)
  /\ UNCHANGED <<caller, known, waiting, asked, crossed, left, spent>>

\* RNS.Link(destination) of _establish_outbound_link.
Dial(n) == \E l \in Link :
  /\ task[n].at \in {"check", "again"}
  /\ task[n].at = "check" => active[n] = 0 /\ ~PeerActive(n, Here(n))
  /\ Opened = 1..(l - 1)
  /\ caller' = [k \in Opened \cup {l} |-> IF k = l THEN n ELSE caller[k]]
  /\ end' = [end EXCEPT ![l][n] = "pending"]
  /\ wire' = wire \cup {<<"request", l, Other(n)>>}
  /\ task' = [task EXCEPT ![n] = [at |-> "poll", user |-> @.user, link |-> l, tries |-> @.tries + 1]]
  /\ crossed' = (crossed \/ \E k \in Opened : /\ caller[k] # n /\ end[k][n] # "active"
                                          /\ end[k][Other(n)] \in {"pending", "active"})
  /\ UNCHANGED <<known, registry, waiting, asked, told, left, spent>>

\* _teardown_outbound_attempt: only a link that is not active yet is closed.
Abandoned(n, r, l) ==
  IF l \in Up(n, r) THEN r ELSE [r EXCEPT !.shut = @ \cup {l}, !.links = @ \ {l}]

\* The poll finds a link of the peer: it is promoted, the attempt is left.
PollAdopts(n) ==
  /\ task[n].at = "poll"
  /\ PeerActive(n, Here(n)) /\ LinkFor(n, Here(n)) # 0
  /\ LET r == Here(n)
         l == LinkFor(n, r)
     IN  Finished(n, Abandoned(n, Notified(n, r, l, TRUE), task[n].link), l)
  /\ left' = IF end[task[n].link][n] = "active" THEN left \cup {task[n].link} ELSE left
  /\ UNCHANGED <<caller, known, waiting, asked, crossed, spent>>

\* _promote_outbound_link, then _finish_connect.
PollPromotes(n) ==
  /\ task[n].at = "poll"
  /\ PeerActive(n, Here(n)) => LinkFor(n, Here(n)) = 0
  /\ end[task[n].link][n] = "active"
  /\ LET l == task[n].link
         r == SetUp(Here(n), l)
         promote == task[n].user \/ session[n]
     IN  /\ Store(n, Consolidated(n, Notified(n, r, l, promote), l),
                  wire \cup {<<"identify", l, Other(n)>>})
  /\ task' = [task EXCEPT ![n] = Idle]
  /\ told' = [told EXCEPT ![n] = "ok"]
  /\ UNCHANGED <<caller, known, waiting, asked, crossed, left, spent>>

\* A link of the peer is known by its identity alone: nothing adopts it, the connect
\* has succeeded, and the attempt that timed out or was closed is left as it is.
PollFinds(n) ==
  /\ task[n].at = "poll"
  /\ PeerActive(n, Here(n)) /\ LinkFor(n, Here(n)) = 0
  /\ end[task[n].link][n] \in {"pending", "closed"}
  /\ task' = [task EXCEPT ![n] = Idle]
  /\ told' = [told EXCEPT ![n] = "ok"]
  /\ left' = IF end[task[n].link][n] = "pending" THEN left \cup {task[n].link} ELSE left
  /\ UNCHANGED <<caller, end, wire, known, registry, waiting, asked, crossed, spent>>

\* The attempt times out or was closed; the peer is woken again and its link
\* awaited before the next attempt.
PollEnds(n) ==
  /\ task[n].at = "poll"
  /\ ~PeerActive(n, Here(n))
  /\ end[task[n].link][n] \in {"pending", "closed"}
  /\ Store(n, Abandoned(n, Here(n), task[n].link), wire)
  /\ task' = [task EXCEPT ![n] = [@ EXCEPT !.at = "await", !.link = 0]]
  /\ \E w \in (IF task[n].user THEN {waiting, Woken(Other(n))} ELSE {waiting}) :
       waiting' = w
  /\ UNCHANGED <<caller, known, asked, told, crossed, left, spent>>

\* _wait_for_peer_link
AwaitAdopts(n) ==
  /\ task[n].at = "await"
  /\ PeerActive(n, Here(n))
  /\ LET r == Here(n) IN
     \E l \in Usable(n, r) : Finished(n, Notified(n, r, l, LinkFor(n, r) = 0 \/ session[n]), l)
  /\ UNCHANGED <<caller, known, waiting, asked, crossed, left, spent>>

AwaitEnds(n) ==
  /\ task[n].at = "await"
  /\ ~PeerActive(n, Here(n))
  /\ IF task[n].tries < MaxTries /\ Opened # Link
     THEN /\ task' = [task EXCEPT ![n] = [@ EXCEPT !.at = "again"]]
          /\ UNCHANGED told
     ELSE /\ task' = [task EXCEPT ![n] = Idle]
          /\ told' = [told EXCEPT ![n] = "failed"]
  /\ UNCHANGED <<caller, end, wire, known, registry, waiting, asked, crossed, left, spent>>

(***************************************************************************)
(* RNS and the callbacks                                                   *)
(***************************************************************************)

\* The callee answers a link request with a proof.
Request(n, l) ==
  /\ <<"request", l, n>> \in wire
  /\ wire' = (wire \ {<<"request", l, n>>}) \cup {<<"proof", l, Other(n)>>}
  /\ end' = [end EXCEPT ![l][n] = "pending"]
  /\ UNCHANGED <<caller, known, registry, task, waiting, asked, told, crossed, left, spent>>

\* The proof makes the link active at the caller; no callback is set there
\* before the poll sees it.
Proof(n, l) ==
  /\ <<"proof", l, n>> \in wire
  /\ IF end[l][n] = "pending"
     THEN /\ end' = [end EXCEPT ![l][n] = "active"]
          /\ wire' = (wire \ {<<"proof", l, n>>}) \cup {<<"rtt", l, Other(n)>>}
     ELSE /\ wire' = wire \ {<<"proof", l, n>>}
          /\ UNCHANGED end
  /\ UNCHANGED <<caller, known, registry, task, waiting, asked, told, crossed, left, spent>>

\* _link_callback with another link of the same peer active: the one in use
\* has the same score and is kept.
InboundRefused(n, l) ==
  /\ <<"rtt", l, n>> \in wire /\ end[l][n] = "pending"
  /\ active[n] # 0
  /\ Store(n, [Here(n) EXCEPT !.shut = {l}],
           (wire \ {<<"rtt", l, n>>}) \cup {<<"close", l, Other(n)>>})
  /\ UNCHANGED <<caller, known, task, waiting, asked, told, crossed, left, spent>>

\* _link_callback with no active link.  Without an identity the link is the
\* session peer's, if there is one; a listed link of that peer is replaced.
\* A link of nobody is only set up.
InboundTaken(n, l) ==
  /\ <<"rtt", l, n>> \in wire /\ end[l][n] = "pending"
  /\ active[n] = 0
  /\ LET old == LinkFor(n, Here(n))
         r == IF session[n] /\ old # 0 THEN Dropped(n, Here(n), old) ELSE Here(n)
         set == SetUp(r, l)
         new == IF session[n] THEN Notified(n, set, l, TRUE) ELSE set
     IN  /\ links' = [links EXCEPT ![n] = new.links]
         /\ cached' = [cached EXCEPT ![n] = new.cached]
         /\ listed' = [listed EXCEPT ![n] = new.listed]
         /\ active' = [active EXCEPT ![n] = new.active]
         /\ session' = [session EXCEPT ![n] = new.session]
         /\ end' = [k \in Link |-> IF k = l THEN [end[k] EXCEPT ![n] = "active"]
                                   ELSE IF k \in new.shut THEN [end[k] EXCEPT ![n] = "closed"]
                                   ELSE end[k]]
         /\ wire' = (wire \ {<<"rtt", l, n>>})
                      \cup {<<"close", k, Other(n)>> : k \in Told(n, new)}
  /\ UNCHANGED <<caller, known, task, waiting, asked, told, crossed, left, spent>>

Identified(n, l) ==
  /\ <<"identify", l, n>> \in wire
  /\ <<"rtt", l, n>> \notin wire
  /\ wire' = wire \ {<<"identify", l, n>>}
  /\ known' = [known EXCEPT ![n] = @ \cup {l}]
  /\ UNCHANGED <<caller, end, registry, task, waiting, asked, told, crossed, left, spent>>

\* Packets for a closed link are ignored.
Gone(n, l) == wire \ {<<kind, l, n>> : kind \in {"close", "rtt", "identify"}}

\* The other end closed the link.
Closed(n, l) ==
  /\ <<"close", l, n>> \in wire
  /\ IF end[l][n] = "active"
     THEN Store(n, Dropped(n, Here(n), l), Gone(n, l))
     ELSE /\ wire' = Gone(n, l)
          /\ end' = [end EXCEPT ![l][n] = "closed"]
          /\ UNCHANGED registry
  /\ UNCHANGED <<caller, known, task, waiting, asked, told, crossed, left, spent>>

Lose(m) ==
  /\ m \in wire /\ spent < MaxFaults
  /\ wire' = wire \ {m}
  /\ spent' = spent + 1
  /\ UNCHANGED <<caller, end, known, registry, task, waiting, asked, told, crossed, left>>

Next ==
  \/ \E n \in Node : \/ Press(n) \/ Begin(n, "user") \/ Begin(n, "reverse")
                     \/ Already(n) \/ Dial(n) \/ PollAdopts(n) \/ PollPromotes(n)
                     \/ PollFinds(n) \/ PollEnds(n) \/ AwaitAdopts(n) \/ AwaitEnds(n)
  \/ \E n \in Node, l \in Opened :
       \/ Request(n, l) \/ Proof(n, l) \/ InboundRefused(n, l) \/ InboundTaken(n, l)
       \/ Identified(n, l) \/ Closed(n, l)
  \/ \E m \in wire : Lose(m)

Spec == Init /\ [][Next]_vars

-----------------------------------------------------------------------------
Quiet == wire = {} /\ \A n \in Node : task[n].at = "idle" /\ waiting[n] = {}

OpenBoth == {l \in Opened : \A n \in Node : end[l][n] = "active"}

TypeOK ==
  /\ \A n \in Node : links[n] \subseteq Opened /\ listed[n] \in Opened \cup {0}
                     /\ active[n] \in Opened \cup {0} /\ task[n].link \in Opened \cup {0}
                     /\ waiting[n] \subseteq {"user", "reverse"}
  /\ \A l \in Link : l \notin Opened => end[l] = [n \in Node |-> "none"]

(* A link open at both ends is heard at both, unless a node left it as the   *)
(* attempt it no longer needed (connect.py:601): with no packet lost, no     *)
(* other order of dials and callbacks makes a node deaf on an open link.     *)
DeafNeedsLeft == Quiet /\ spent = 0 =>
  \A l \in OpenBoth, n \in Node : l \in links[n] \cup left

(* A connect that reported success leaves the nodes linked, unless both      *)
(* dialled at the same time: then each may refuse the link the other keeps   *)
(* (inbound_callbacks.py:108-151).                                           *)
LinkedAfterConnect == Quiet /\ spent = 0 =>
  \A n \in Node : told[n] = "ok" => crossed \/ OpenBoth # {}

=============================================================================
