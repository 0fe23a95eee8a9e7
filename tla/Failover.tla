------------------------------ MODULE Failover ------------------------------
(* Automatic reconnection of the session peer: the failover loop and the task *)
(* a new web socket starts both decide, by session_needs_reconnect, whether   *)
(* the peer's link must be replaced and run reconnect_active_peer in the      *)
(* executor, next to the user's own connects and disconnects, plugging and    *)
(* unplugging, and links that die.  dual_identity_mode switches it off.       *)
EXTENDS Naturals, Sequences, SequencesExt

CONSTANTS
  Caller,     \* coroutines that reconnect: the failover loop, the resume tasks
  None,
  MaxEvents   \* what the user, the network and the peer do

VARIABLES
  dual,       \* dual_identity_mode
  expected,   \* transports the peer is known on (_peer_expected_transport_families)
  sess,       \* _session_peer_hash set, user_disconnected, _session_transport
  up,         \* the interface of a transport is online
  link,       \* the peer's link on each transport
  active,     \* active_link
  recent,     \* since the last attempt, since the link was lost, since it came up
  nudge,      \* _transport_reconnect_pending
  transfer,   \* _has_active_transfer
  flag,       \* _failover_in_progress
  lock,       \* holder of _connect_lock: _connect_in_progress
  run,        \* reconnect_active_peer of each caller
  shared,     \* two callers were past its checks at once
  events

vars == <<dual, expected, sess, up, link, active, recent, nudge, transfer, flag,
          lock, run, shared, events>>

Transport == {"lan", "serial"}
Rest == [pc |-> "idle", order |-> <<>>, want |-> "none", serial |-> FALSE]

TypeOK ==
  /\ dual \in BOOLEAN /\ expected \in SUBSET Transport
  /\ sess \in [on : BOOLEAN, left : BOOLEAN, want : Transport \union {"none"}]
  /\ up \in [Transport -> BOOLEAN]
  /\ link \in [Transport -> {"none", "active", "stale"}]
  /\ active \in Transport \union {None}
  /\ recent \in [attempt : BOOLEAN, lost : BOOLEAN, grace : BOOLEAN]
  /\ nudge \in BOOLEAN /\ transfer \in BOOLEAN /\ flag \in BOOLEAN
  /\ lock \in Caller \union {"user", None}
  /\ \A c \in Caller :
       /\ run[c].pc \in {"idle", "called", "passed", "prepare", "dial"}
       /\ run[c].order \in {<<>>, <<"lan">>, <<"serial">>, <<"lan", "serial">>, <<"serial", "lan">>}
       /\ run[c].want \in Transport \union {"none"} /\ run[c].serial \in BOOLEAN
  /\ shared \in BOOLEAN /\ events \in 0 .. MaxEvents

-----------------------------------------------------------------------------
(* Decisions                                                                  *)

Healthy(t) == link[t] # "none" /\ up[t]
Linked == \E t \in Transport : link[t] = "active"
Locked == sess.want # "none"

\* _adopt_healthy_peer_link: what active_link is after it.
Adopted ==
  IF active # None /\ Healthy(active) THEN active
  ELSE IF \E t \in Transport : link[t] = "active" /\ up[t]
       THEN CHOOSE t \in Transport : link[t] = "active" /\ up[t]
       ELSE active

\* Path scores, receipts that stay away and a path lost while the other family
\* is preferred may or may not ask for a change.
MayAsk(t) == IF link[t] = "stale" \/ ~recent.grace THEN BOOLEAN ELSE {FALSE}

\* link_needs_failover for an active link on transport t.
LinkNeeds(t) ==
  IF dual \/ transfer \/ (sess.want = t /\ Healthy(t)) THEN {FALSE}
  ELSE IF ~Healthy(t) THEN {TRUE}
  ELSE IF expected # {} /\ t \notin expected /\ ~recent.grace THEN {TRUE}
  ELSE IF expected = {t} THEN {FALSE}
  ELSE MayAsk(t)

\* session_needs_reconnect, after it adopted what it found.
NeedsReconnect(now) ==
  IF dual \/ lock # None \/ transfer \/ ~sess.on \/ sess.left
     \/ (expected = {"serial"} /\ ~up["serial"]) THEN {FALSE}
  ELSE IF now # None /\ Healthy(now)
       THEN (IF now = "serial" THEN {FALSE} ELSE LinkNeeds(now))
  ELSE IF Linked /\ now # None THEN {TRUE}
  ELSE IF (recent.grace /\ \E t \in Transport : link[t] # "none") \/ flag THEN {FALSE}
  ELSE IF now # None THEN LinkNeeds(now)
  ELSE IF recent.lost THEN {FALSE}
  ELSE {nudge \/ ~recent.attempt}

\* The better transport first, when both are up by what _serial_faster_than_lan
\* measured.
BestFirst ==
  IF up["lan"] /\ up["serial"] THEN {<<"lan", "serial">>, <<"serial", "lan">>}
  ELSE IF up["serial"] THEN {<<"serial", "lan">>} ELSE {<<"lan", "serial">>}

\* (mutant) The transport the user picked does not count.
OrdersAny == {<<"lan", "serial">>, <<"serial", "lan">>}

\* _failover_families_to_try: the transport the user picked, if it is up in the
\* case of USB, else the transports the peer is known on.
Orders ==
  IF sess.want = "serial" /\ up["serial"] THEN {<<"serial">>}
  ELSE IF sess.want = "lan" THEN {<<"lan">>}
  ELSE LET known == IF expected = {} THEN Transport ELSE expected
       IN {SelectSeq(o, LAMBDA t : t \in known) : o \in BestFirst}

-----------------------------------------------------------------------------
(* Callers                                                                    *)

Framed == <<dual, expected>>

\* _link_failover_loop: one round, up to its call of reconnect_active_peer.
LoopRound(c) ==
  /\ run[c].pc = "idle" /\ c = "loop" /\ ~dual
  /\ active' = IF sess.on /\ lock = None /\ ~transfer /\ ~sess.left THEN Adopted ELSE active
  /\ TRUE \in NeedsReconnect(active')
  /\ run' = [run EXCEPT ![c].pc = "called"]
  /\ UNCHANGED <<Framed, sess, up, link, recent, nudge, transfer, flag, lock, shared, events>>

\* handle_websocket starts _resume_session_task; resume_session_peer looks again.
Resume(c) ==
  /\ run[c].pc = "idle" /\ c # "loop"
  /\ sess.on /\ active = None /\ ~sess.left /\ lock = None /\ ~flag /\ ~recent.attempt
  /\ ~dual
  /\ run' = [run EXCEPT ![c].pc = "called"]
  /\ UNCHANGED <<Framed, sess, up, link, active, recent, nudge, transfer, flag, lock, shared, events>>

\* The early returns of reconnect_active_peer.
Refuses(c) ==
  \/ dual \/ lock # None \/ flag \/ ~sess.on \/ sess.left \/ transfer
  \/ expected = {"serial"} /\ ~up["serial"]
  \/ \E t \in Transport : link[t] = "active" /\ up[t]
  \/ recent.attempt

\* reconnect_active_peer looks; an active healthy link is adopted and kept.
Looks(c) ==
  /\ run[c].pc = "called"
  /\ IF Refuses(c)
     THEN /\ run' = [run EXCEPT ![c] = Rest]
          /\ active' = IF lock = None /\ ~flag /\ sess.on /\ ~sess.left /\ ~transfer THEN Adopted ELSE active
     ELSE run' = [run EXCEPT ![c].pc = "passed"] /\ UNCHANGED active
  /\ shared' = (shared \/ (~Refuses(c) /\ \E d \in Caller \ {c} : run[d].pc = "passed"))
  /\ UNCHANGED <<Framed, sess, up, link, recent, nudge, transfer, flag, lock, events>>

\* It takes the flag, closes what is stale and the active link, and starts.
Starts(c) ==
  /\ run[c].pc = "passed"
  /\ \E o \in Orders :
       run' = [run EXCEPT ![c] = [pc |-> IF o = <<>> THEN "idle" ELSE "prepare", order |-> o,
                                  want |-> sess.want, serial |-> up["serial"]]]
  /\ flag' = (run'[c].pc # "idle")
  /\ recent' = [recent EXCEPT !.attempt = TRUE]
  /\ nudge' = FALSE
  /\ link' = [t \in Transport |-> IF t = active \/ ~(link[t] = "active" /\ up[t]) THEN "none" ELSE link[t]]
  /\ active' = None
  /\ UNCHANGED <<Framed, sess, up, transfer, lock, shared, events>>

NextFamily(c) ==
  IF Len(run[c].order) > 1
  THEN /\ run' = [run EXCEPT ![c] = [pc |-> "prepare", order |-> Tail(run[c].order),
                                     want |-> run[c].want, serial |-> run[c].serial]]
       /\ UNCHANGED flag
  ELSE run' = [run EXCEPT ![c] = Rest] /\ flag' = FALSE
Finishes(c) == run' = [run EXCEPT ![c] = Rest] /\ flag' = FALSE

PathMayCome(t) == up[t]

\* _prepare_failover_path: no path without the interface; with it, one may come.
PrepareFails(c) ==
  /\ run[c].pc = "prepare"
  /\ NextFamily(c)
  /\ UNCHANGED <<Framed, sess, up, link, active, recent, nudge, transfer, lock, shared, events>>
PrepareWorks(c) ==
  /\ run[c].pc = "prepare" /\ PathMayCome(Head(run[c].order))
  /\ run' = [run EXCEPT ![c].pc = "dial"]
  /\ UNCHANGED <<Framed, sess, up, link, active, recent, nudge, transfer, flag, lock, shared, events>>
\* A link came in while it waited: it is adopted.
InboundCame(c) ==
  /\ run[c].pc = "dial" /\ Linked /\ lock # c
  /\ active' = Adopted
  /\ Finishes(c)
  /\ UNCHANGED <<Framed, sess, up, link, recent, nudge, transfer, lock, shared, events>>

\* connect_to(failover = True), under the connect lock.
Dials(c) ==
  /\ run[c].pc = "dial" /\ lock = None
  /\ lock' = c
  /\ UNCHANGED <<Framed, sess, up, link, active, recent, nudge, transfer, flag, run, shared, events>>
DialFails(c) ==
  /\ lock = c /\ lock' = None
  /\ NextFamily(c)
  /\ UNCHANGED <<Framed, sess, up, link, active, recent, nudge, transfer, shared, events>>
DialWorks(c) ==
  /\ lock = c /\ lock' = None
  /\ LET t == Head(run[c].order) IN
       up[t] /\ link' = [link EXCEPT ![t] = "active"] /\ active' = t
  /\ recent' = [recent EXCEPT !.grace = TRUE]
  /\ Finishes(c)
  /\ UNCHANGED <<Framed, sess, up, nudge, transfer, shared, events>>

-----------------------------------------------------------------------------
(* The user, the interfaces, the peer, the clock                              *)

Event == events < MaxEvents /\ events' = events + 1

\* connect_to(user_initiated = True) on a transport the user tapped.
UserConnects(t) ==
  /\ Event /\ lock = None /\ lock' = "user"
  /\ sess' = [on |-> TRUE, left |-> FALSE, want |-> t]
  /\ UNCHANGED <<Framed, up, link, active, recent, nudge, transfer, flag, run, shared>>
UserConnectEnds(ok) ==
  /\ lock = "user" /\ lock' = None
  /\ IF ok /\ Locked /\ sess.want \in {t \in Transport : up[t]}
     THEN link' = [link EXCEPT ![sess.want] = "active"] /\ active' = sess.want
     ELSE UNCHANGED <<link, active>>
  /\ UNCHANGED <<Framed, sess, up, recent, nudge, transfer, flag, run, shared, events>>
\* disconnect_peer(user_initiated = True).
UserDisconnects ==
  /\ Event /\ sess.on
  /\ sess' = [on |-> FALSE, left |-> TRUE, want |-> "none"]
  /\ link' = [t \in Transport |-> "none"] /\ active' = None
  /\ nudge' = FALSE /\ recent' = [recent EXCEPT !.lost = FALSE]
  /\ UNCHANGED <<Framed, up, transfer, flag, lock, run, shared>>

\* The peer opens a link (_notify_link_established).
InboundLink(t) ==
  /\ Event /\ up[t] /\ link[t] = "none"
  /\ link' = [link EXCEPT ![t] = "active"]
  /\ active' = IF active = None /\ ~sess.left THEN t ELSE active
  /\ recent' = [recent EXCEPT !.grace = TRUE]
  /\ UNCHANGED <<Framed, sess, up, nudge, transfer, flag, lock, run, shared>>
\* The link closes (_link_closed), or RNS finds it stale.
LinkGone(t) ==
  /\ Event /\ link[t] # "none"
  /\ link' = [link EXCEPT ![t] = "none"]
  /\ active' = IF active = t THEN None ELSE active
  /\ recent' = IF active = t THEN [recent EXCEPT !.lost = TRUE] ELSE recent
  /\ UNCHANGED <<Framed, sess, up, nudge, transfer, flag, lock, run, shared>>
LinkStale(t) ==
  /\ Event /\ link[t] = "active"
  /\ link' = [link EXCEPT ![t] = "stale"]
  /\ UNCHANGED <<Framed, sess, up, active, recent, nudge, transfer, flag, lock, run, shared>>

\* on_serial_transport_attached; the loop notices a LAN that came back.
Attached(t) ==
  /\ Event /\ ~up[t]
  /\ up' = [up EXCEPT ![t] = TRUE]
  /\ LET nudges == IF t = "lan" THEN TRUE ELSE sess.on /\ ~sess.left /\ ~transfer /\ ~Linked IN
       /\ nudge' = (nudge \/ nudges)
       /\ recent' = IF nudges THEN [recent EXCEPT !.attempt = FALSE] ELSE recent
  /\ UNCHANGED <<Framed, sess, link, active, transfer, flag, lock, run, shared>>
\* on_serial_transport_detached closes the USB links; a LAN link stays as it is.
Detached(t) ==
  /\ Event /\ up[t]
  /\ up' = [up EXCEPT ![t] = FALSE]
  /\ link' = IF t = "serial" THEN [link EXCEPT ![t] = "none"] ELSE link
  /\ active' = IF t = "serial" /\ active = t THEN None ELSE active
  /\ nudge' = IF t = "serial" THEN FALSE ELSE nudge
  /\ UNCHANGED <<Framed, sess, recent, transfer, flag, lock, run, shared>>
TransferToggles ==
  /\ Event /\ (transfer \/ active # None)
  /\ transfer' = ~transfer
  /\ UNCHANGED <<Framed, sess, up, link, active, recent, nudge, flag, lock, run, shared>>
TimePasses(k) ==
  /\ recent[k]
  /\ recent' = [recent EXCEPT ![k] = FALSE]
  /\ UNCHANGED <<Framed, sess, up, link, active, nudge, transfer, flag, lock, run, shared, events>>

\* _failover_cooldown, _session_reconnect_min_idle and LINK_FAILOVER_GRACE_S.
CooldownOver == TimePasses("attempt")
IdleOver == TimePasses("lost")
GraceOver == TimePasses("grace")

Init ==
  /\ dual \in BOOLEAN /\ expected \in {{}, {"serial"}, Transport}
  /\ sess = [on |-> FALSE, left |-> FALSE, want |-> "none"]
  /\ up = [t \in Transport |-> TRUE]
  /\ link = [t \in Transport |-> "none"] /\ active = None
  /\ recent = [attempt |-> FALSE, lost |-> FALSE, grace |-> FALSE]
  /\ nudge = FALSE /\ transfer = FALSE /\ flag = FALSE /\ lock = None
  /\ run = [c \in Caller |-> Rest] /\ shared = FALSE /\ events = 0

Next ==
  \/ \E c \in Caller :
       \/ LoopRound(c) \/ Resume(c) \/ Looks(c) \/ Starts(c) \/ PrepareFails(c) \/ PrepareWorks(c)
       \/ InboundCame(c) \/ Dials(c) \/ DialFails(c) \/ DialWorks(c)
  \/ \E t \in Transport : \/ UserConnects(t) \/ InboundLink(t) \/ LinkGone(t) \/ LinkStale(t)
                          \/ Attached(t) \/ Detached(t)
  \/ \E ok \in BOOLEAN : UserConnectEnds(ok)
  \/ UserDisconnects \/ TransferToggles
  \/ CooldownOver \/ IdleOver \/ GraceOver

Spec == Init /\ [][Next]_vars

-----------------------------------------------------------------------------
(* Properties                                                                 *)

\* The transport the user picked is the one failover dials, except that a USB
\* session whose interface was down when the attempt began may go to the LAN.
CrossNeedsSerialDown ==
  \A c \in Caller :
    (run[c].pc \in {"prepare", "dial"} /\ run[c].want # "none") =>
      (run[c].order = <<run[c].want>> \/ (run[c].want = "serial" /\ ~run[c].serial))

\* One attempt at a time: the flag is up as long as an attempt is under way,
\* unless two callers were past its checks before either had set it.
FlagCoversRun ==
  (~shared /\ \E c \in Caller : run[c].pc \in {"prepare", "dial"}) => flag

\* An attempt keeps to the session's transport and is the only one.
AttemptKept == CrossNeedsSerialDown /\ FlagCoversRun
=============================================================================
