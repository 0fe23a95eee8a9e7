----------------------------- MODULE SerialPlug -----------------------------
(* The USB port is plugged in and out of a running node.  The watchdog, the   *)
(* failover loop, the settings and the network status each make sure, in      *)
(* threads of their own, that RNS has one SerialInterface for the port, and   *)
(* the first two that it comes with an identity and an inbound destination.   *)
EXTENDS Naturals, FiniteSets

CONSTANTS
  Thread,     \* any of "watch", "update", "loop", "status"
  None,
  MaxPlugs    \* times the port is plugged in or out, or an open port breaks

VARIABLES
  plugged,    \* the port can be opened
  ifaces,     \* SerialInterfaces RNS has: who made them, ready or not
  disk,       \* identities/identity_serial, named after the thread that made it
  ident,      \* identity_serial of the backend
  endpoint,   \* identity of destination_serial
  known,      \* identities RNS has an inbound destination for
  wasOnline, detachSent, dead,  \* locals of the watchdog; dead when it raised
  job,        \* of each thread
  crossed,    \* two threads were setting up the identity at once
  plugs

vars == <<plugged, ifaces, disk, ident, endpoint, known, wasOnline, detachSent,
          dead, job, crossed, plugs>>

Maker == Thread \union {"boot"}
Iface == [by : Maker, ready : BOOLEAN]
Idle == [pc |-> "idle", drop |-> {}, ret |-> "none", role |-> "none", made |-> None]
IdentityPc == {"read", "create", "save", "bind", "check", "build"}

TypeOK ==
  /\ plugged \in BOOLEAN /\ ifaces \subseteq Iface
  /\ disk \in Maker \union {None} /\ ident \in Maker \union {None}
  /\ endpoint \in Maker \union {None} /\ known \subseteq Maker
  /\ wasOnline \in BOOLEAN /\ detachSent \in BOOLEAN /\ dead \in BOOLEAN
  /\ job \in [Thread -> [pc : {"idle", "ensure", "wait", "dedupe", "drop", "find", "open", "notify",
                               "back"} \union IdentityPc,
                         drop : SUBSET Iface, ret : {"none", "find", "notify", "idle", "iface"},
                         role : {"none", "mgr", "callback", "own"}, made : Maker \union {None}]]
  /\ crossed \in BOOLEAN /\ plugs \in 0 .. MaxPlugs

-----------------------------------------------------------------------------
(* ensure_runtime_serial                                                      *)

Port == <<plugged, plugs>>
Watch == <<wasOnline, detachSent, dead>>
Identity == <<disk, ident, endpoint, known, crossed>>
Goes(t, pc) == job' = [job EXCEPT ![t].pc = pc]
Returns(t, r) == job' = [job EXCEPT ![t].pc = "back", ![t].ret = r]

Starts(t) ==
  /\ job[t].pc = "idle" /\ ~(t = "watch" /\ (dead \/ ~plugged))
  /\ IF t = "loop" THEN job' = [job EXCEPT ![t].pc = "dedupe", ![t].ret = "idle"] ELSE Goes(t, "ensure")
  /\ IF t = "watch" THEN detachSent' = FALSE ELSE UNCHANGED detachSent
  /\ UNCHANGED <<Port, ifaces, Identity, wasOnline, dead>>

\* The port is not there: its interfaces go.  One that is not ready gets 2 s.
Looks(t) ==
  /\ job[t].pc = "ensure"
  /\ ifaces' = IF plugged THEN ifaces ELSE {}
  /\ IF ~plugged THEN Returns(t, "none")
     ELSE IF \E i \in ifaces : i.ready THEN Returns(t, "iface")
     ELSE IF ifaces # {} THEN Goes(t, "wait")
     ELSE job' = [job EXCEPT ![t].pc = "dedupe", ![t].ret = "find"]
  /\ UNCHANGED <<Port, Identity, Watch>>
Waited(t) ==
  /\ job[t].pc = "wait"
  /\ IF ifaces # {} THEN Returns(t, "iface")
     ELSE job' = [job EXCEPT ![t].pc = "dedupe", ![t].ret = "find"]
  /\ UNCHANGED <<Port, ifaces, Identity, Watch>>

\* dedupe_serial_interfaces walks a copy of the list and keeps the best.
Dedupes(t) ==
  /\ job[t].pc = "dedupe"
  /\ \E drop \in SUBSET ifaces :
       /\ ifaces # {} => Cardinality(drop) = Cardinality(ifaces) - 1
       /\ \A i \in drop : \E k \in ifaces \ drop : i.ready => k.ready
       /\ job' = [job EXCEPT ![t].pc = "drop", ![t].drop = drop]
  /\ UNCHANGED <<Port, ifaces, Identity, Watch>>
Drops(t) ==
  /\ job[t].pc = "drop"
  /\ ifaces' = {i \in ifaces : \A d \in job[t].drop : d.by # i.by}
  /\ job' = [job EXCEPT ![t].pc = IF job[t].ret = "idle" THEN "ensure" ELSE job[t].ret,
                        ![t].drop = {}, ![t].ret = "none"]
  /\ UNCHANGED <<Port, Identity, Watch>>

\* hot_add_serial_interface: one that came meanwhile is taken.
Finds(t) ==
  /\ job[t].pc = "find"
  /\ IF ifaces # {} THEN Returns(t, "iface") ELSE Goes(t, "open")
  /\ UNCHANGED <<Port, ifaces, Identity, Watch>>
OpenFails(t) ==
  /\ job[t].pc = "open"
  /\ Returns(t, IF ifaces # {} THEN "iface" ELSE "none")
  /\ UNCHANGED <<Port, ifaces, Identity, Watch>>

\* (mutant) What came while the port was being opened is not looked for.
AfterOpen(t) == [job EXCEPT ![t].pc = "notify"]
Opened(t) == [job EXCEPT ![t].pc = "dedupe", ![t].ret = "notify"]

\* The constructor opens the port, then _register_hot_rns_interface.
Opens(t) ==
  /\ job[t].pc = "open" /\ plugged
  /\ ifaces' = ifaces \union {[by |-> t, ready |-> TRUE]}
  /\ job' = Opened(t)
  /\ UNCHANGED <<Port, Identity, Watch>>

-----------------------------------------------------------------------------
(* Identity and destination                                                   *)

SetsUp(t, pc, role) ==
  /\ job' = [job EXCEPT ![t].pc = pc, ![t].role = role]
  /\ crossed' = (crossed \/ \E u \in Thread \ {t} : job[u].pc \in IdentityPc)

Bound == endpoint # None

\* on_serial_transport_attached, as the callback of a hot add: ensure_serial_runtime.
Notifies(t) ==
  /\ job[t].pc = "notify"
  /\ IF Bound THEN Returns(t, "iface") /\ UNCHANGED crossed ELSE SetsUp(t, "read", "callback")
  /\ UNCHANGED <<Port, ifaces, disk, ident, endpoint, known, Watch>>

\* What the caller does with the interface, or without: the watchdog and the
\* settings load the identity, each with a manager of its own.
GoesOn(t) ==
  /\ job[t].pc = "back"
  /\ LET got == job[t].ret = "iface" IN
       /\ wasOnline' = IF t = "watch" THEN got ELSE wasOnline
       /\ IF t = "update" \/ (t = "watch" /\ got /\ ~wasOnline)
          THEN SetsUp(t, "read", "mgr")
          ELSE job' = [job EXCEPT ![t] = Idle] /\ UNCHANGED crossed
  /\ UNCHANGED <<Port, ifaces, disk, ident, endpoint, known, detachSent, dead>>

\* load_or_create: the file, or a new identity, that is saved.
\* (mutant) It does not look at the file.
ReadsNothing == None
Stored == disk
Reads(t) ==
  /\ job[t].pc = "read"
  /\ job' = [job EXCEPT ![t].made = Stored, ![t].pc = IF Stored = None THEN "create" ELSE "bind"]
  /\ UNCHANGED <<Port, ifaces, Identity, Watch>>
Creates(t) ==
  /\ job[t].pc = "create"
  /\ job' = [job EXCEPT ![t].made = t, ![t].pc = "save"]
  /\ UNCHANGED <<Port, ifaces, Identity, Watch>>
Saves(t) ==
  /\ job[t].pc = "save"
  /\ disk' = job[t].made
  /\ Goes(t, "bind")
  /\ UNCHANGED <<Port, ifaces, ident, endpoint, known, crossed, Watch>>

\* The manager of the server goes on to ensure_serial_runtime; there, the backend
\* takes the identity and then looks whether it still lacks a destination.
Binds(t) ==
  /\ job[t].pc = "bind"
  /\ IF job[t].role = "mgr"
     THEN /\ job' = [job EXCEPT ![t] =
               IF job[t].ret # "iface" \/ Bound THEN Idle
               ELSE [job[t] EXCEPT !.pc = "read", !.role = "own", !.made = None]]
          /\ UNCHANGED ident
     ELSE ident' = job[t].made /\ Goes(t, "check")
  /\ UNCHANGED <<Port, ifaces, disk, endpoint, known, crossed, Watch>>
Ends(t) ==
  IF job[t].role = "callback"
  THEN job' = [job EXCEPT ![t].pc = "back", ![t].ret = "iface", ![t].made = None, ![t].role = "none"]
  ELSE job' = [job EXCEPT ![t] = Idle]
Checks(t) ==
  /\ job[t].pc = "check"
  /\ IF Bound THEN Ends(t) ELSE Goes(t, "build")
  /\ UNCHANGED <<Port, ifaces, Identity, Watch>>
\* RNS refuses a second inbound destination of an identity.  The hot-add callback
\* and the settings' handler catch what is raised, the watchdog ends with it.
Builds(t) ==
  /\ job[t].pc = "build"
  /\ IF ident \in known
     THEN /\ dead' = (dead \/ (t = "watch" /\ job[t].role = "own"))
          /\ UNCHANGED <<endpoint, known>>
     ELSE endpoint' = ident /\ known' = known \union {ident} /\ UNCHANGED dead
  /\ Ends(t)
  /\ UNCHANGED <<Port, ifaces, disk, ident, crossed, wasOnline, detachSent>>

-----------------------------------------------------------------------------
(* The port                                                                   *)

\* The watchdog finds the port missing: _disable_rns_serial_interfaces, once.
Detaches ==
  /\ "watch" \in Thread /\ job["watch"].pc = "idle" /\ ~dead /\ ~plugged
  /\ (wasOnline \/ ~detachSent)
  /\ wasOnline' = FALSE /\ detachSent' = TRUE
  /\ ifaces' = IF detachSent THEN ifaces ELSE {}
  /\ UNCHANGED <<Port, Identity, dead, job>>
\* The failover loop: prune_dead_serial_interfaces, when none is online.
Prunes ==
  /\ "loop" \in Thread /\ job["loop"].pc = "idle"
  /\ ~plugged /\ ifaces # {} /\ \A i \in ifaces : ~i.ready
  /\ ifaces' = {}
  /\ UNCHANGED <<Port, Identity, Watch, job>>
PlugChanges ==
  /\ plugs < MaxPlugs /\ plugs' = plugs + 1
  /\ plugged' = ~plugged
  /\ ifaces' = IF plugged THEN {[i EXCEPT !.ready = FALSE] : i \in ifaces} ELSE ifaces
  /\ UNCHANGED <<Identity, Watch, job>>
\* RNS opens a port again that came back.
Reopens ==
  /\ plugged
  /\ \E i \in ifaces : ~i.ready /\ ifaces' = (ifaces \ {i}) \union {[i EXCEPT !.ready = TRUE]}
  /\ UNCHANGED <<Port, Identity, Watch, job>>

\* The node started without USB, or with a port and what start_rns set up for it.
Init ==
  /\ plugged \in BOOLEAN
  /\ \E was \in BOOLEAN :
       /\ was => plugged
       /\ ifaces = IF was THEN {[by |-> "boot", ready |-> TRUE]} ELSE {}
       /\ disk = (IF was THEN "boot" ELSE None) /\ ident = disk /\ endpoint = disk
       /\ known = (IF was THEN {"boot"} ELSE {})
  /\ wasOnline = FALSE /\ detachSent = FALSE /\ dead = FALSE
  /\ job = [t \in Thread |-> Idle] /\ crossed = FALSE /\ plugs = 0

Next ==
  \/ \E t \in Thread :
       \/ Starts(t) \/ Looks(t) \/ Waited(t) \/ Dedupes(t) \/ Drops(t) \/ Finds(t) \/ OpenFails(t)
       \/ Opens(t) \/ Notifies(t) \/ GoesOn(t) \/ Reads(t) \/ Creates(t) \/ Saves(t) \/ Binds(t)
       \/ Checks(t) \/ Builds(t)
  \/ Detaches \/ Prunes \/ PlugChanges \/ Reopens

Spec == Init /\ [][Next]_vars

-----------------------------------------------------------------------------
(* Properties                                                                 *)

\* However many threads open the port at once, RNS has one interface for it when
\* they are through.
OneInterface ==
  (\A t \in Thread : job[t].pc \in {"idle", "back"} \union IdentityPc) => Cardinality(ifaces) <= 1

\* The USB endpoint peers learn is the identity that is on disk and that the next
\* start loads, unless two threads were setting one up at the same time.
EndpointStored ==
  (~crossed /\ endpoint # None) => endpoint = disk

\* The watchdog does not end, unless it and another thread set up the endpoint at
\* the same time.
WatchLives == dead => crossed

\* What goes wrong with the USB endpoint needs two threads that set it up at once.
SetUpNeedsOneThread == EndpointStored /\ WatchLives
=============================================================================
