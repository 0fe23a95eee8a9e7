---------------------------- MODULE LinkRegistry ----------------------------
(* The link registry of chatx5 (core/messaging/links.py, the link callbacks of *)
(* inbound_callbacks.py and the session part of backend.py) and the connect    *)
(* thread of connect.py that works on it.                                      *)
(*                                                                             *)
(* No lock protects the registry.  RNS threads run the established and the     *)
(* closed callbacks, the event loop disconnects, one executor thread connects  *)
(* (under _connect_lock).  RNS.Link.teardown runs the closed callback in the   *)
(* caller's thread, so the functions re-enter each other: a thread is a stack  *)
(* of calls, and a step runs the top one up to its next nested call.           *)
(*                                                                             *)
(* A peer stands for all hashes dest_hash_for maps to one destination.  Dict   *)
(* order is abstracted: a loop visits links in any order.  Interface health,   *)
(* paths and RTT appear as free choices of the steps that test them.           *)
EXTENDS Naturals, Sequences, FiniteSets

CONSTANTS
    Link, Peer,
    PeerOf,         \* the remote party of each link
    FamilyOf,       \* "lan" or "serial", from the interface the link came over
    Inbound,        \* links the remote party opens
    Rns, Ui, Conn,  \* threads: RNS callbacks, the event loop, the connect executor
    Parallel,       \* _parallel_sessions_allowed(): USB serial and LAN both up
    Limit,          \* max_peer_links, 0 for none
    NoLink, NoPeer,
    MaxCommands     \* bound on connects, disconnects and resets

Thread == Rns \union {Ui, Conn}
Family == {"lan", "serial"}
Key == Peer \X (Family \union {"bare"})

ASSUME LinkAssumption == /\ PeerOf \in [Link -> Peer]
                         /\ FamilyOf \in [Link -> Family]
                         /\ Inbound \subseteq Link
ASSUME NoneAssumption == NoLink \notin Link /\ NoPeer \notin Peer
ASSUME ThreadAssumption == Ui \notin Rns /\ Conn \notin Rns /\ Ui # Conn
ASSUME ParallelAssumption == /\ Parallel \in BOOLEAN /\ Limit \in Nat
                             /\ Limit = 1 => ~Parallel
ASSUME CommandAssumption == MaxCommands \in Nat

VARIABLES
    status,         \* RNS: "none", "pending", "active" or "closed"
    identified,     \* links whose remote identity RNS has verified
    hooked,         \* links whose callbacks _setup_link has set
    links,          \* self.links
    cached,         \* self._link_peer_hashes
    peerLinks,      \* self.peer_links
    active, activePeer,         \* active_link, active_peer_hash
    session, sessionFamily,     \* _session_peer_hash, _session_transport
    handoff,        \* _link_handoff
    off,            \* _user_disconnected
    stack,          \* per thread: the calls it is in, innermost first
    commands,       \* user commands and resets so far
    guessed,        \* history: peers of links handled before these had identified
                    \* themselves, and the peers they were taken for
    silent,         \* history: links whose callbacks were set after they had closed
    dead,           \* history: links that were closed when they became, or that
                    \* stayed, the active link
    kept,           \* history: peers the user left over one transport while the
                    \* session kept its link
    evicted,        \* history: peers an entry of which was evicted
    crossed         \* history: peers that calls of two threads were about at once

rns      == <<status, identified, hooked>>
registry == <<links, cached, peerLinks>>
chosen   == <<active, activePeer, session, sessionFamily>>
parted   == <<kept, evicted>>
noted    == <<guessed, silent, dead, parted>>
vars == <<rns, registry, chosen, handoff, off, stack, commands, noted, crossed>>

Ops == {"inbound", "welcome", "teardown", "closed", "closedMid", "closedEnd",
        "notify", "adopt", "consolidate", "handoffEnd", "closeAll", "resetEnd",
        "disconnectEnd", "evict", "unlink", "reuse", "outbound", "finish"}
Frame == [op : Ops, link : Link \union {NoLink}, peer : Peer \union {NoPeer},
          todo : SUBSET Link, promote : BOOLEAN]
Made(op, l, p, S, b) == [op |-> op, link |-> l, peer |-> p, todo |-> S, promote |-> b]
Call(op, l, p) == Made(op, l, p, {}, FALSE)
Promote(l, p, b) == Made("notify", l, p, {}, b)
TearDown(l) == Call("teardown", l, NoPeer)
\* A loop that closes the links of S; _consolidate_peer_links skips closed ones.
CloseAll(S) == IF S = {} THEN <<>>
               ELSE <<Made("closeAll", NoLink, NoPeer, S, FALSE)>>
CloseOpen(S) == IF S = {} THEN <<>>
                ELSE <<Made("closeAll", NoLink, NoPeer, S, TRUE)>>

Init ==
    /\ status = [l \in Link |-> "none"]
    /\ identified = {} /\ hooked = {} /\ links = {}
    /\ cached = [l \in Link |-> NoPeer]
    /\ peerLinks = [k \in Key |-> NoLink]
    /\ active = NoLink /\ activePeer = NoPeer
    /\ session = NoPeer /\ sessionFamily = "bare"
    /\ handoff = FALSE
    /\ off = {}
    /\ stack = [t \in Thread |-> <<>>]
    /\ commands = 0
    /\ guessed = {} /\ silent = {} /\ dead = {} /\ kept = {}
    /\ evicted = {} /\ crossed = {}

-----------------------------------------------------------------------------
(* Look-ups. *)

In(t, op) == stack[t] # <<>> /\ Head(stack[t]).op = op
Frm(t) == Head(stack[t])
\* The party a link is known to lead to: a verified identity before the cache.
\* An opened link has the identity it was opened to once the other end accepts.
Remote(l) == IF l \in identified THEN PeerOf[l] ELSE cached[l]
Matches(l, p) == IF Remote(l) # NoPeer THEN Remote(l) = p
                 ELSE \E f \in Family \union {"bare"} : peerLinks[<<p, f>>] = l

OtherActive(p, x) ==
    {l \in links \ {x} : p # NoPeer /\ cached[l] = p /\ status[l] = "active"}
LinksOf(p) == OtherActive(p, NoLink) \union
              {l \in Link : \E f \in Family \union {"bare"} : peerLinks[<<p, f>>] = l}

\* What _link_for_peer may return: the bare entry, else a keyed one, else a link
\* cached for the peer.
LinkFor(p) ==
    LET bare  == {l \in Link : peerLinks[<<p, "bare">>] = l /\ Matches(l, p)}
        keyed == {l \in Link : /\ \E f \in Family : peerLinks[<<p, f>>] = l
                               /\ Matches(l, p)}
        other == {l \in links : cached[l] = p /\ Matches(l, p)}
    IN  IF p = NoPeer THEN {NoLink}
        ELSE IF bare # {} THEN bare
        ELSE IF keyed # {} THEN keyed
        ELSE IF other # {} THEN other ELSE {NoLink}

\* _find_active_link_for_peer and _peer_link_active.
FoundActive(p) == {l \in links : status[l] = "active" /\ Remote(l) = p}
LinkActive(p) == \/ FoundActive(p) # {}
                 \/ \E l \in LinkFor(p) : l # NoLink /\ status[l] = "active"

\* _unlink_peer: peer_links without the entries of p, all or those of the
\* transports of S.
Unlinked(p, all, S) == [k \in Key |-> IF k[1] = p /\ (all \/ k[2] \in {FamilyOf[l] : l \in S})
                                      THEN NoLink ELSE peerLinks[k]]

\* _register_peer_link: a verified identity overrides the caller's hash.
Target(l, p) == IF Remote(l) # NoPeer THEN Remote(l) ELSE p
Register(l, p) ==
    LET q == Target(l, p) IN
      /\ peerLinks' = [k \in Key |-> IF k = <<q, FamilyOf[l]>> THEN l
                                     ELSE IF k = <<q, "bare">> THEN NoLink
                                     ELSE peerLinks[k]]
      /\ cached' = [cached EXCEPT ![l] = q]

\* Peer an incoming link is taken to come from: an unidentified one is ascribed
\* to the session peer when there is one (_resolve_incoming_peer).
Ascribed(l) == IF Remote(l) # NoPeer THEN Remote(l) ELSE session

\* The peers a call is about, and those the calls of the other threads are about:
\* what one read of such a peer may be stale by the time it uses it.
Held(c) == {c.link} \union (IF c.op \in {"closeAll", "closedMid"} THEN c.todo ELSE {})
About(c) == IF c.op = "resetEnd" THEN Peer
            ELSE ({c.peer} \union {PeerOf[l] : l \in Held(c) \ {NoLink}}) \ {NoPeer}
Topics(calls) == UNION {About(calls[i]) : i \in DOMAIN calls}
Elsewhere(t) == UNION {Topics(stack[u]) : u \in Thread \ {t}}
Runs(t, calls, rest) == /\ stack' = [stack EXCEPT ![t] = calls \o rest]
                        /\ crossed' = crossed \union (Topics(calls) \intersect Elsewhere(t))
\* Thread t begins with `calls`, or its current call continues as `calls`.
Start(t, calls) == stack[t] = <<>> /\ Runs(t, calls, <<>>)
Continue(t, calls) == Runs(t, calls, Tail(stack[t]))
\* A link handled as one of p before it has identified itself.
Guess(l, p) == guessed' = IF l \in identified THEN guessed
                          ELSE guessed \union {PeerOf[l], p}

-----------------------------------------------------------------------------
(* RNS and the remote parties. *)

LinkArrives(l, t) ==
    /\ l \in Inbound /\ status[l] = "none" /\ t \in Rns
    /\ status' = [status EXCEPT ![l] = "active"]
    /\ Start(t, <<Call("inbound", l, NoPeer)>>)
    /\ UNCHANGED <<identified, hooked, registry, chosen, handoff, off, commands, noted>>

Identify(l) ==
    /\ l \in Inbound \ identified /\ status[l] = "active"
    /\ identified' = identified \union {l}
    /\ UNCHANGED <<status, hooked, registry, chosen, handoff, off, stack, commands, noted, crossed>>

LinkAccepted(l) ==
    /\ status[l] = "pending"
    /\ status' = [status EXCEPT ![l] = "active"]
    /\ identified' = identified \union {l}
    /\ UNCHANGED <<hooked, registry, chosen, handoff, off, stack, commands, noted, crossed>>

\* The remote party closes the link, or the watchdog does.  Before _setup_link no
\* callback hears of it.
LinkLost(l, t) ==
    /\ status[l] \in {"pending", "active"} /\ t \in Rns
    /\ status' = [status EXCEPT ![l] = "closed"]
    /\ IF l \in hooked
       THEN Start(t, <<Call("closed", l, NoPeer)>>)
       ELSE UNCHANGED <<stack, crossed>>
    /\ UNCHANGED <<identified, hooked, registry, chosen, handoff, off, commands, noted>>

-----------------------------------------------------------------------------
(* The established callback. *)

Setup(l) == /\ hooked' = hooked \union {l}
            /\ links' = links \union {l}
            /\ silent' = IF status[l] = "closed" THEN silent \union {l} ELSE silent

\* An incoming link of the session's own peer: kept only as a better path
\* (_handoff_to_link), otherwise closed before any callback is set.
InboundSamePeer(t) ==
    /\ In(t, "inbound")
    /\ LET l == Frm(t).link
           p == Ascribed(l) IN
         /\ active # NoLink /\ p # NoPeer /\ p = activePeer
         /\ cached' = [cached EXCEPT ![l] = p]
         /\ Guess(l, p)
         /\ \/ /\ Continue(t, <<TearDown(l)>>)
               /\ UNCHANGED <<hooked, links, handoff, silent>>
            \/ /\ active # l
               /\ (FamilyOf[l] = FamilyOf[active] \/ FamilyOf[l] = "serial")
               /\ Setup(l)
               /\ handoff' = TRUE
               /\ Continue(t, <<Promote(l, p, TRUE),
                              Made("handoffEnd", active, p, {}, TRUE)>>)
    /\ UNCHANGED <<status, identified, peerLinks, chosen, off, commands, dead, parted>>

\* Any other incoming link: out of scope, or it replaces the peer's link.
InboundOther(t) ==
    /\ In(t, "inbound")
    /\ LET l == Frm(t).link
           p == Ascribed(l) IN
         /\ (active = NoLink \/ p = NoPeer \/ p # activePeer)
         /\ cached' = [cached EXCEPT ![l] = p]
         /\ Guess(l, p)
         /\ \/ Continue(t, <<TearDown(l)>>)
            \/ \E old \in LinkFor(p) :
                 Continue(t, (IF old \in {NoLink, l} THEN <<>>
                                       ELSE <<TearDown(old)>>)
                                      \o <<Call("welcome", l, p)>>)
    /\ UNCHANGED <<rns, links, peerLinks, chosen, handoff, off, commands, silent, dead, parted>>

PromotesAny(p) == active = NoLink \/ p = activePeer    \* (mutant)
Promotes(p) == p \notin off /\ (active = NoLink \/ p = activePeer)
Welcome(t) ==
    /\ In(t, "welcome")
    /\ LET l == Frm(t).link
           p == IF Frm(t).peer # NoPeer THEN Frm(t).peer ELSE Remote(l) IN
         /\ Setup(l)
         /\ Continue(t, <<Promote(l, p, Promotes(p))>>)
    /\ UNCHANGED <<status, identified, cached, peerLinks, chosen, handoff, off,
                   commands, guessed, dead, parted>>

\* _handoff_to_link after the new link took over: close the old one, still flagged.
HandoffEnd(t) ==
    /\ In(t, "handoffEnd")
    /\ IF Frm(t).promote
       THEN /\ Continue(t, <<TearDown(Frm(t).link),
                                      Call("handoffEnd", NoLink, NoPeer)>>)
            /\ UNCHANGED handoff
       ELSE /\ handoff' = FALSE
            /\ Continue(t, <<>>)
    /\ UNCHANGED <<rns, registry, chosen, off, commands, noted>>

-----------------------------------------------------------------------------
(* _notify_link_established. *)

\* Register the link; a promoted one makes the peer's other links superfluous.
Notify(t) ==
    /\ In(t, "notify")
    /\ LET l == Frm(t).link
           p == IF Remote(l) # NoPeer THEN Remote(l)
                ELSE IF Frm(t).peer # NoPeer THEN Frm(t).peer ELSE session
           rest == {x \in LinksOf(p) \ {l} : Parallel => FamilyOf[x] = FamilyOf[l]}
       IN IF p = NoPeer
          THEN Continue(t, <<>>) /\ UNCHANGED <<cached, peerLinks, guessed>>
          ELSE /\ Register(l, p)
               /\ Guess(l, p)
               /\ Continue(t, IF Frm(t).promote
                             THEN CloseOpen(rest) \o <<Call("adopt", l, p)>> ELSE <<>>)
    /\ UNCHANGED <<rns, links, chosen, handoff, off, commands, silent, dead, parted>>

\* RNS.Link.teardown: the closed callback runs before it returns.
ClosingUnheard(l) == <<>>      \* (mutant) only the remote end's close is heard
Closing(l) == IF l \in hooked THEN <<Call("closed", l, NoPeer)>> ELSE <<>>
TearDownLink(t) ==
    /\ In(t, "teardown")
    /\ status' = [status EXCEPT ![Frm(t).link] = "closed"]
    /\ Continue(t, Closing(Frm(t).link))
    /\ UNCHANGED <<identified, hooked, registry, chosen, handoff, off, commands, noted>>

\* One turn of _consolidate_peer_links or another loop that closes links.
CloseNext(t) ==
    /\ In(t, "closeAll")
    /\ \E l \in Frm(t).todo :
         /\ status' = [status EXCEPT ![l] = "closed"]
         /\ LET skip == Frm(t).promote /\ status[l] = "closed"
                rest == Frm(t).todo \ {l} IN
              Continue(t, (IF skip THEN <<>> ELSE Closing(l))
                                   \o IF Frm(t).promote THEN CloseOpen(rest) ELSE CloseAll(rest))
    /\ UNCHANGED <<identified, hooked, registry, chosen, handoff, off, commands, noted>>

\* The link becomes the session's; in parallel mode only for its own session.
Adopt(t) ==
    /\ In(t, "adopt")
    /\ LET l == Frm(t).link
           p == Frm(t).peer
           mine == \/ ~Parallel \/ session = NoPeer \/ active = NoLink
                   \/ p = session \/ FamilyOf[l] = sessionFamily
       IN IF mine
          THEN /\ active' = l /\ activePeer' = p
               /\ session' = p /\ sessionFamily' = FamilyOf[l]
               /\ dead' = IF status[l] = "closed" THEN dead \union {l} ELSE dead
               /\ UNCHANGED <<cached, peerLinks>>
          ELSE Register(l, p) /\ UNCHANGED <<chosen, dead>>
    /\ Continue(t, <<>>)
    /\ UNCHANGED <<rns, links, handoff, off, commands, guessed, silent, parted>>

-----------------------------------------------------------------------------
(* The closed callback _link_closed. *)

\* The end of the callback: release the session, unless the close is part of a
\* handoff, and take the session peer's other link instead.
Release(l) ==
    IF active # l \/ handoff
    THEN /\ UNCHANGED chosen
         /\ dead' = dead \union ({active} \intersect {l})
    ELSE LET s == IF activePeer \notin off \union {NoPeer} THEN activePeer ELSE session
         IN /\ session' = s
            /\ \E next \in IF s \in off THEN {NoLink} ELSE LinkFor(s) :
                 /\ active' = IF next = l THEN NoLink ELSE next
                 /\ activePeer' = IF next \in {NoLink, l} THEN NoPeer ELSE s
                 /\ dead' = IF next \notin {NoLink, l} /\ status[next] = "closed"
                            THEN dead \union {next} ELSE dead
            /\ UNCHANGED sessionFamily

\* Forget the link, and look for other open links of its peer ...
Closed(t) ==
    /\ In(t, "closed")
    /\ LET l == Frm(t).link
           p == Ascribed(l) IN
         /\ links' = links \ {l}
         /\ cached' = [cached EXCEPT ![l] = NoPeer]
         /\ Continue(t, <<Made("closedMid", l, p, OtherActive(p, l), FALSE)>>)
         /\ Guess(l, p)
    /\ UNCHANGED <<rns, peerLinks, chosen, handoff, off, commands, silent, dead, parted>>

\* ... fall back on one of them, or drop the peer's entries ...
ClosedFallBack(t) ==
    /\ In(t, "closedMid")
    /\ LET l == Frm(t).link
           p == Frm(t).peer
       IN IF Frm(t).todo = {}
          THEN /\ peerLinks' = Unlinked(p, TRUE, {})
               /\ Release(l) /\ Continue(t, <<>>)
          ELSE \E next \in Frm(t).todo :
               /\ peerLinks' = [peerLinks EXCEPT ![<<p, "bare">>] = next]
               /\ IF active = l /\ ~handoff
                  THEN /\ Continue(t, <<Promote(next, p, TRUE), Call("closedEnd", l, p)>>)
                       /\ UNCHANGED <<chosen, dead>>
                  ELSE Release(l) /\ Continue(t, <<>>)
    /\ UNCHANGED <<rns, links, cached, handoff, off, commands, guessed, silent, parted>>

ClosedEnd(t) ==
    /\ In(t, "closedEnd")
    /\ Release(Frm(t).link) /\ Continue(t, <<>>)
    /\ UNCHANGED <<rns, registry, handoff, off, commands, guessed, silent, parted>>

-----------------------------------------------------------------------------
(* The user's disconnect and the network reset. *)

\* disconnect_peer(p, user_initiated=True, transport=f): "bare" for no transport.
Disconnect(p, f) ==
    /\ commands < MaxCommands /\ commands' = commands + 1
    /\ off' = IF f = "bare" THEN off \union {p} ELSE off
    /\ session' = IF f = "bare" THEN NoPeer ELSE session
    /\ sessionFamily' = IF f = "bare" THEN "bare" ELSE sessionFamily
    /\ Start(Ui, CloseAll({l \in links : Remote(l) = p /\ f \in {"bare", FamilyOf[l]}})
                 \o <<Made("disconnectEnd", NoLink, p,
                           {l \in Link : f \in {"bare", FamilyOf[l]}}, f = "bare")>>)
    /\ UNCHANGED <<rns, registry, active, activePeer, handoff, noted>>

\* The part after the loop.  `todo` is the set of links of the transport.
DisconnectEnd(t) ==
    /\ In(t, "disconnectEnd")
    /\ LET p == Frm(t).peer
           whole == Frm(t).promote
           release == active \in Frm(t).todo /\ activePeer = p
           leave == whole \/ OtherActive(p, NoLink) = {}
       IN /\ peerLinks' = Unlinked(p, whole, Frm(t).todo)
          /\ active' = IF release THEN NoLink ELSE active
          /\ activePeer' = IF release THEN NoPeer ELSE activePeer
          /\ session' = IF leave THEN NoPeer ELSE session
          /\ sessionFamily' = IF leave THEN "bare" ELSE sessionFamily
          /\ off' = IF leave THEN off \union {p} ELSE off
          /\ kept' = IF leave /\ ~release /\ activePeer = p /\ active # NoLink
                     THEN kept \union {p} ELSE kept
    /\ Continue(t, <<>>)
    /\ UNCHANGED <<rns, links, cached, handoff, commands, guessed, silent, dead, evicted>>

\* disconnect_all_peers: scope change, network reset, identity rebind.
Reset(keepSession) ==
    /\ commands < MaxCommands /\ commands' = commands + 1
    /\ handoff' = TRUE
    /\ Start(Ui, CloseAll(links) \o <<Made("resetEnd", NoLink, NoPeer, {}, keepSession)>>)
    /\ UNCHANGED <<rns, registry, chosen, off, noted>>

ResetEnd(t) ==
    /\ In(t, "resetEnd")
    /\ peerLinks' = [k \in Key |-> NoLink]
    /\ cached' = [l \in Link |-> NoPeer]
    /\ active' = NoLink /\ activePeer' = NoPeer
    /\ session' = IF Frm(t).promote THEN session ELSE NoPeer
    /\ sessionFamily' = IF Frm(t).promote THEN sessionFamily ELSE "bare"
    /\ handoff' = FALSE
    /\ Continue(t, <<>>)
    /\ UNCHANGED <<rns, links, off, commands, noted>>

-----------------------------------------------------------------------------
(* connect_to, one at a time under _connect_lock. *)

\* _teardown_other_peer_links (not in parallel mode) and _teardown_mismatched_links.
Others(p) == {l \in links : \/ ~Parallel /\ Ascribed(l) \notin {NoPeer, p}
                            \/ l \in identified /\ PeerOf[l] # p}

\* Connect by the user, over transport f or any ("bare"): p is the session's peer,
\* and the active one once the registry is within its limit.
ConnectByUser(p, f) ==
    /\ commands < MaxCommands /\ commands' = commands + 1
    /\ off' = off \ {p}
    /\ session' = p
    /\ sessionFamily' = IF f = "bare" THEN sessionFamily ELSE f
    /\ Start(Conn, <<Made("evict", NoLink, p, {l \in Link : FamilyOf[l] = f}, FALSE),
                     Made("reuse", NoLink, p, {}, TRUE)>>)
    /\ UNCHANGED <<rns, registry, active, activePeer, handoff, noted>>

\* _enforce_max_peer_links: while more entries than the limit have an open link,
\* one that is not the requested one goes, with its link.  Then come the Others.
Entries == {k \in Key : peerLinks[k] # NoLink /\ status[peerLinks[k]] # "closed"}
Requested(c, k) == /\ k[1] = c.peer
                   /\ IF c.todo = {} THEN k[2] = "bare"
                      ELSE k[2] # "bare" /\ peerLinks[k] \in c.todo
Stays(c) == Parallel /\ active \notin c.todo \union {NoLink} /\ activePeer \notin {NoPeer, c.peer}
Evict(t) ==
    /\ In(t, "evict")
    /\ LET c == Frm(t)
           victims == {k \in Entries : ~Requested(c, k)}
       IN IF Limit = 0 \/ Cardinality(Entries) <= Limit \/ victims = {}
          THEN /\ activePeer' = IF Stays(c) THEN activePeer ELSE c.peer
               /\ Continue(t, CloseAll(Others(c.peer)))
          ELSE /\ \E k \in victims :
                    Continue(t, <<TearDown(peerLinks[k]),
                                  Made("unlink", NoLink, k[1],
                                       {l \in Link : FamilyOf[l] = k[2]}, k[2] = "bare"),
                                  c>>)
               /\ UNCHANGED activePeer
    /\ UNCHANGED <<rns, registry, active, session, sessionFamily, handoff, off, commands, noted>>

Unlink(t) ==
    /\ In(t, "unlink")
    /\ LET p == Frm(t).peer IN
         /\ peerLinks' = Unlinked(p, Frm(t).promote, Frm(t).todo)
         /\ evicted' = evicted \union {p}
    /\ Continue(t, <<>>)
    /\ UNCHANGED <<rns, links, cached, chosen, handoff, off, commands, guessed, silent, dead,
                   kept>>

\* Connect on behalf of the peer (request_connect) or of the failover loop: of a
\* peer the user left, a link that is there is only registered.
ConnectForPeer(p) ==
    /\ commands < MaxCommands /\ commands' = commands + 1
    /\ IF p \notin off THEN Start(Conn, <<Call("reuse", NoLink, p)>>)
       ELSE \E l \in FoundActive(p) : Start(Conn, <<Promote(l, p, FALSE)>>)
    /\ UNCHANGED <<rns, registry, chosen, handoff, off, noted>>

\* Close a link that is not fit for use, silently, and go on with `op`.
Unfit(t, l, op) ==
    /\ handoff' = TRUE
    /\ Continue(t, <<TearDown(l), Call("handoffEnd", NoLink, NoPeer),
                              Made(op, NoLink, Frm(t).peer, {}, Frm(t).promote)>>)

\* A link to p that is there already is used, if it is fit and of the requested
\* transport; else, with the unfit ones closed, a link is opened.
Reuse(t) ==
    /\ In(t, "reuse")
    /\ LET p == Frm(t).peer
           mine == active # NoLink /\ activePeer = p
       IN
         \/ /\ mine /\ status[active] = "active"
            /\ \/ Continue(t, <<Call("finish", active, p)>>)
               \/ Continue(t, <<Made("outbound", NoLink, p, {}, Frm(t).promote)>>)
            /\ UNCHANGED <<active, handoff>>
         \/ /\ mine
            /\ active' = NoLink
            /\ Unfit(t, active, "outbound")
         \/ /\ ~mine /\ LinkActive(p)
            /\ \E l \in FoundActive(p) \union (LinkFor(p) \ {NoLink}),
                  b \in {TRUE, Frm(t).promote} :
                 Continue(t, (IF b THEN <<Promote(l, p, TRUE)>> ELSE <<>>)
                                      \o <<Call("finish", l, p)>>)
            /\ UNCHANGED <<active, handoff>>
         \/ /\ ~mine /\ LinkActive(p)
            /\ \E l \in {x \in links : cached[x] = p} : Unfit(t, l, "reuse")
            /\ UNCHANGED active
         \/ /\ ~mine
            /\ Continue(t, <<Made("outbound", NoLink, p, {}, Frm(t).promote)>>)
            /\ UNCHANGED <<active, handoff>>
    /\ UNCHANGED <<rns, registry, activePeer, session, sessionFamily, off, commands, noted>>

\* RNS.Link(destination).
Open(t) ==
    /\ In(t, "outbound") /\ Frm(t).link = NoLink
    /\ \E l \in Link \ Inbound :
         /\ PeerOf[l] = Frm(t).peer /\ status[l] = "none"
         /\ status' = [status EXCEPT ![l] = "pending"]
         /\ Continue(t, <<Made("outbound", l, Frm(t).peer, {}, Frm(t).promote)>>)
    /\ UNCHANGED <<identified, hooked, registry, chosen, handoff, off, commands, noted>>

\* _teardown_outbound_attempt: a link that is open is left alone.
Attempted(l) == IF l # NoLink /\ status[l] # "active" THEN <<TearDown(l)>> ELSE <<>>

\* Waiting, the poll finds that the peer has linked to us meanwhile.
InboundInstead(t) ==
    /\ In(t, "outbound")
    /\ LET p == Frm(t).peer
           mine == Frm(t).link
       IN \E l \in (LinkFor(p) \union FoundActive(p)) \ {NoLink, mine} :
            /\ status[l] = "active"
            /\ Continue(t, <<Promote(l, p, TRUE)>> \o Attempted(mine)
                                    \o <<Call("finish", l, p)>>)
    /\ UNCHANGED <<rns, registry, chosen, handoff, off, commands, noted>>

\* _promote_outbound_link: the link came up.
Established(t) ==
    /\ In(t, "outbound")
    /\ LET p == Frm(t).peer
           l == Frm(t).link
       IN /\ l # NoLink /\ status[l] = "active"
          /\ Setup(l)
          /\ Continue(t, <<Promote(l, p, Frm(t).promote \/ p \in {activePeer, session}),
                                    Call("finish", l, p)>>)
    /\ UNCHANGED <<status, identified, cached, peerLinks, chosen, handoff, off, commands, guessed,
                   dead, parted>>

\* The deadline passes, or the link was refused.
ConnectFails(t) ==
    /\ In(t, "outbound")
    /\ Frm(t).link # NoLink => status[Frm(t).link] # "active"
    /\ Continue(t, Attempted(Frm(t).link))
    /\ UNCHANGED <<rns, registry, chosen, handoff, off, commands, noted>>

\* _finish_connect: close the peer's other links.
Finish(t) ==
    /\ In(t, "finish")
    /\ LET l == Frm(t).link
           p == Frm(t).peer
       IN Continue(t, CloseOpen({x \in LinksOf(p) \ {l} :
                                  Parallel => FamilyOf[x] = FamilyOf[l]}))
    /\ UNCHANGED <<rns, registry, chosen, handoff, off, commands, noted>>

-----------------------------------------------------------------------------
Step(t) ==
    \/ InboundSamePeer(t) \/ InboundOther(t) \/ Welcome(t) \/ HandoffEnd(t)
    \/ Notify(t) \/ CloseNext(t) \/ Adopt(t)
    \/ TearDownLink(t) \/ Closed(t) \/ ClosedFallBack(t) \/ ClosedEnd(t)
    \/ DisconnectEnd(t) \/ ResetEnd(t)
    \/ Evict(t) \/ Unlink(t) \/ Reuse(t) \/ Open(t) \/ InboundInstead(t) \/ Established(t)
    \/ ConnectFails(t) \/ Finish(t)

Command ==
    \/ \E p \in Peer, f \in {"bare"} \union {FamilyOf[l] : l \in Link} : Disconnect(p, f)
    \/ \E k \in BOOLEAN : Reset(k)
    \/ \E p \in Peer, f \in {"bare"} \union {FamilyOf[l] : l \in Link} : ConnectByUser(p, f)
    \/ \E p \in Peer : ConnectForPeer(p)

Next ==
    \/ \E l \in Link, t \in Rns : LinkArrives(l, t) \/ LinkLost(l, t)
    \/ \E l \in Link : Identify(l) \/ LinkAccepted(l)
    \/ Command
    \/ \E t \in Thread : Step(t)

Spec == Init /\ [][Next]_vars

-----------------------------------------------------------------------------
TypeOK ==
    /\ status \in [Link -> {"none", "pending", "active", "closed"}]
    /\ identified \subseteq Link /\ hooked \subseteq Link /\ links \subseteq hooked
    /\ cached \in [Link -> Peer \union {NoPeer}]
    /\ peerLinks \in [Key -> Link \union {NoLink}]
    /\ active \in Link \union {NoLink} /\ activePeer \in Peer \union {NoPeer}
    /\ session \in Peer \union {NoPeer} /\ sessionFamily \in Family \union {"bare"}
    /\ handoff \in BOOLEAN /\ off \subseteq Peer
    /\ stack \in [Thread -> Seq(Frame)]
    /\ commands \in 0 .. MaxCommands
    /\ guessed \subseteq Peer \union {NoPeer} /\ silent \subseteq Link /\ dead \subseteq Link
    /\ kept \subseteq Peer /\ evicted \subseteq Peer
    /\ crossed \subseteq Peer

\* Every call about a link has returned, whichever callbacks ran in between.
AtRest == \A t \in Thread : stack[t] = <<>>

\* The active link is open, unless it had closed before it was made the active one
\* or its close fell into a handoff - of any link - which silences the callback.
ActiveIsOpen ==
    AtRest /\ active # NoLink => status[active] # "closed" \/ active \in dead

\* The session is ascribed to the peer its open link leads to.
SessionIsPeers ==
    AtRest /\ active # NoLink /\ status[active] = "active" /\ PeerOf[active] \notin guessed
        => activePeer = PeerOf[active]

\* The registry files a link under the peer it leads to.
FiledByIdentity ==
    \A l \in Link : PeerOf[l] \notin guessed =>
        /\ cached[l] \in {PeerOf[l], NoPeer}
        /\ \A k \in Key : peerLinks[k] = l => k[1] = PeerOf[l]

\* A link that closed is forgotten, unless it did so before its callbacks were set.
ClosedForgotten ==
    AtRest => \A l \in links : status[l] # "closed" \/ l \in silent

\* No open link is lost: linked_peers and the queue find its peer in peer_links.
OpenLinkListed ==
    AtRest => \A l \in links :
        status[l] = "active" /\ cached[l] = PeerOf[l]
          /\ PeerOf[l] \notin guessed \union crossed \union evicted
            => peerLinks[<<PeerOf[l], FamilyOf[l]>>] # NoLink

\* Once every call about a link has returned, the session's link and the map of
\* the peers tell the truth about it, whichever callbacks ran in between.
LinksAtRest == /\ TypeOK /\ ActiveIsOpen /\ SessionIsPeers /\ FiledByIdentity
               /\ ClosedForgotten /\ OpenLinkListed

\* A peer the user has disconnected is not the session's, by its name or by the
\* link that leads to it.
DisconnectHolds ==
    AtRest /\ active # NoLink
      => \A p \in {activePeer, PeerOf[active]} :
           p \in off => p \in guessed \union crossed \union kept \union {PeerOf[l] : l \in dead}

=============================================================================
