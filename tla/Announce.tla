------------------------------ MODULE Announce ------------------------------
(* Announces: the "Announce" buttons (_perform_announce, under a lock that    *)
(* the event loop takes and keeps across its awaits), the announce loop of    *)
(* the messaging back end, the periodic LAN beacon, the announce when USB is  *)
(* plugged in, and the settings that turn the periodic ones on and off.       *)
EXTENDS Naturals

CONSTANTS
  Request,      \* taps on an announce button, each handled by a coroutine
  None,
  MaxChanges,   \* changes of the network, the USB cable or the settings
  MaxFaults     \* announces that raise

VARIABLES
  conf,      \* settings.json: the LAN transport, the hub role, USB, auto-announce
  msg,       \* backend: running, auto_announce
  looper,    \* _announce_thread and what became of it
  beacon,    \* lan_beacon: created, periodic, its threads, on_periodic
  net,       \* LAN address up, LAN interface online, USB online, link traffic
  endpoint,  \* the USB destination and identity exist (ensure_serial_runtime)
  pc, ready, \* where the coroutine of a tap is, and whether its call returned
  tapped,    \* the transport each tap asked for
  lock,      \* the coroutine that holds _announce_lock
  recent,    \* less than ANNOUNCE_DEBOUNCE_SEC since _last_announce_at
  sent,      \* what the last announcing step put on which medium
  changes, faults

vars == <<conf, msg, looper, beacon, net, endpoint, pc, ready, tapped, lock, recent,
          sent, changes, faults>>

Vias == {"lan", "serial", "all"}
Awaiting == {"serial", "lan", "beacon"}

TypeOK ==
  /\ conf \in [lan : {"udp", "tcp", "off"}, server : BOOLEAN, serial : BOOLEAN,
               auto : BOOLEAN, lanIv : BOOLEAN, serIv : BOOLEAN]
  /\ msg \in [running : BOOLEAN, auto : BOOLEAN]
  /\ looper \in {"none", "begun", "alive", "gone"}
  /\ beacon \in [made : BOOLEAN, periodic : BOOLEAN, threads : Nat, hook : BOOLEAN]
  /\ net \in [ip : BOOLEAN, lan : BOOLEAN, usb : BOOLEAN,
                busy : {"no", "connect", "transfer"}]
  /\ endpoint \in BOOLEAN
  /\ pc \in [Request -> {"new", "blocked", "done"} \union Awaiting]
  /\ ready \in [Request -> BOOLEAN]
  /\ tapped \in [Request -> Vias]
  /\ lock \in Request \union {None}
  /\ recent \in BOOLEAN
  /\ sent \in [for : {"none", "lan", "serial"}, on : SUBSET {"lan", "usb"},
               heard : BOOLEAN, ip : BOOLEAN]
  /\ changes \in 0 .. MaxChanges /\ faults \in 0 .. MaxFaults

-----------------------------------------------------------------------------
(* What goes out                                                              *)

\* The interface an announce for the LAN goes out on: the TCP one unless this
\* node is the hub server, else UDP.
LanFamily == IF conf.lan = "tcp" /\ ~conf.server THEN "tcp"
             ELSE IF conf.lan = "udp" THEN "udp" ELSE "off"
LanOut == LanFamily # "off" /\ net.lan

\* _burst_serial_announce: dropped while a connect or a transfer runs, unless
\* it is forced; the USB endpoint is created on the way.
Bursts(force) == net.usb /\ (force \/ net.busy = "no")
Burst(force) == IF Bursts(force) THEN {"usb"} ELSE {}

\* _fallback_announce: over USB when it is up, else on every interface.
Fallback == IF net.usb THEN Burst(FALSE) ELSE IF net.lan THEN {"lan"} ELSE {}

\* (mutant) also_serial is not asked.
SilentAlso(also) ==
  IF ~net.ip THEN Burst(FALSE)
  ELSE IF LanOut THEN {"lan"}
  ELSE IF net.usb THEN Burst(FALSE)
  ELSE Fallback

\* _silent_announce.
Silent(also) ==
  IF ~net.ip THEN (IF also THEN Burst(FALSE) ELSE {})
  ELSE IF LanOut THEN {"lan"}
  ELSE IF also /\ net.usb THEN Burst(FALSE)
  ELSE Fallback

\* _announce: the one of the start-up.
Loud(also) ==
  IF ~net.ip /\ net.usb THEN (IF also THEN Burst(FALSE) ELSE {})
  ELSE (IF LanOut THEN {"lan"} ELSE Fallback)
         \union (IF also /\ conf.serial /\ net.ip /\ conf.lan # "off" THEN Burst(FALSE) ELSE {})

\* suppress_offline_lan_transports: without a LAN address its interfaces go.
Suppressed == [net EXCEPT !.lan = net.lan /\ (net.ip \/ LanFamily = "tcp")]

\* An announcing step: the media it used, for which transport it was meant.
Emits(for, on) ==
  /\ sent' = [for |-> for, on |-> on, heard |-> LanOut, ip |-> net.ip]
  /\ endpoint' = (endpoint \/ "usb" \in on)
EmitsLan == Emits("lan", Silent(FALSE)) /\ net' = Suppressed
EmitsUsb(force) == Emits("serial", Burst(force)) /\ net' = Suppressed

-----------------------------------------------------------------------------
(* The buttons                                                                *)

Frozen == \E r \in Request : pc[r] = "blocked"

\* What comes after a step of the announce.
NextStage(via, stage) ==
  IF stage = "new" /\ via \in {"serial", "all"} /\ conf.serial THEN "serial"
  ELSE IF stage \in {"new", "serial"} /\ via \in {"lan", "all"} /\ conf.lan # "off"
       THEN "lan"
  ELSE IF stage = "lan" /\ net.ip /\ beacon.made THEN "beacon"
  ELSE "done"

Enters(r, stage) ==
  /\ pc' = [pc EXCEPT ![r] = stage]
  /\ ready' = [ready EXCEPT ![r] = FALSE]
  /\ lock' = IF stage = "done" THEN None ELSE r

\* _perform_announce up to its first await.  The lock is a threading.Lock: when
\* another tap waits for the executor with the lock held, it stops the loop.
Tap(r, via) ==
  /\ pc[r] = "new" /\ msg.running /\ ~Frozen
  /\ IF lock # None THEN pc' = [pc EXCEPT ![r] = "blocked"] /\ UNCHANGED <<ready, lock, recent>>
     ELSE IF recent THEN Enters(r, "done") /\ UNCHANGED recent
     ELSE Enters(r, NextStage(via, "new")) /\ recent' = TRUE
  /\ tapped' = [tapped EXCEPT ![r] = via]
  /\ UNCHANGED <<conf, msg, looper, beacon, net, endpoint, sent, changes, faults>>

\* The executor runs the call; it does not need the loop.
Call(r) ==
  /\ pc[r] \in Awaiting /\ ~ready[r]
  /\ ready' = [ready EXCEPT ![r] = TRUE]
  /\ CASE pc[r] = "serial" -> EmitsUsb(TRUE)
       [] pc[r] = "lan" -> EmitsLan
       [] pc[r] = "beacon" -> UNCHANGED <<sent, endpoint, net>>
  /\ UNCHANGED <<conf, msg, looper, beacon, pc, tapped, lock, recent, changes, faults>>

\* The coroutine goes on: only on a loop that is not blocked.
Resume(r) ==
  /\ pc[r] \in Awaiting /\ ready[r] /\ ~Frozen
  /\ Enters(r, NextStage(tapped[r], pc[r]))
  /\ UNCHANGED <<conf, msg, looper, beacon, net, endpoint, tapped, recent, sent, changes, faults>>

\* (mutant) the error leaves the lock taken
RaiseKeeps(r) ==
  /\ pc[r] \in Awaiting /\ ~ready[r] /\ ~Frozen /\ faults < MaxFaults
  /\ faults' = faults + 1
  /\ pc' = [pc EXCEPT ![r] = "done"]
  /\ UNCHANGED <<conf, msg, looper, beacon, net, endpoint, ready, tapped, lock, recent, sent, changes>>
\* The call raised: the handler leaves the lock and answers with the error.
Raise(r) ==
  /\ pc[r] \in Awaiting /\ ~ready[r] /\ ~Frozen /\ faults < MaxFaults
  /\ faults' = faults + 1
  /\ Enters(r, "done")
  /\ UNCHANGED <<conf, msg, looper, beacon, net, endpoint, tapped, recent, sent, changes>>

DebounceOver ==
  /\ recent /\ recent' = FALSE
  /\ UNCHANGED <<conf, msg, looper, beacon, net, endpoint, pc, ready, tapped, lock, sent, changes, faults>>

-----------------------------------------------------------------------------
(* Start-up and the periodic announces                                        *)

\* What the loaded settings say: auto-announce brings its default intervals.
LoadedIv == conf.auto \/ conf.lanIv \/ conf.serIv

\* LanBeacon.start.
BeaconStarted(on) ==
  [made |-> TRUE, periodic |-> on, threads |-> IF on THEN 1 ELSE 0, hook |-> on]

\* MessagingBackend.start: an announce; its thread begins before running is set.
StartThread ==
  /\ looper = "none" /\ ~msg.running /\ LoadedIv /\ ~msg.auto
  /\ msg' = [msg EXCEPT !.auto = TRUE]
  /\ looper' = "begun"
  /\ Emits("lan", Loud(FALSE))
  /\ UNCHANGED <<conf, beacon, net, pc, ready, tapped, lock, recent, changes, faults>>
\* start_rns goes on: running, the beacon, the intervals of the settings.
StartRunning ==
  /\ ~msg.running /\ (LoadedIv => msg.auto)
  /\ msg' = [msg EXCEPT !.running = TRUE, !.auto = LoadedIv]
  /\ looper' = IF LoadedIv /\ looper = "none" THEN "alive" ELSE looper
  /\ beacon' = IF conf.lan # "off" THEN BeaconStarted(LoadedIv) ELSE beacon
  /\ UNCHANGED <<conf, net, endpoint, pc, ready, tapped, lock, recent, sent, changes, faults>>
\* The new thread looks at running, and ends when it is not set yet.
LooperChecks ==
  /\ looper = "begun"
  /\ looper' = IF msg.running THEN "alive" ELSE "gone"
  /\ UNCHANGED <<conf, msg, beacon, net, endpoint, pc, ready, tapped, lock, recent, sent, changes, faults>>

\* _should_periodic_announce: either transport; the loop then does both.
Periodic == msg.auto /\ net.busy = "no" /\ (conf.lan # "off" \/ (conf.serial /\ net.usb))
LoopLan ==
  /\ looper = "alive" /\ Periodic /\ conf.lan # "off"
  /\ EmitsLan
  /\ UNCHANGED <<conf, msg, looper, beacon, pc, ready, tapped, lock, recent, changes, faults>>
LoopUsb ==
  /\ looper = "alive" /\ Periodic /\ conf.serial /\ net.usb
  /\ EmitsUsb(FALSE)
  /\ UNCHANGED <<conf, msg, looper, beacon, pc, ready, tapped, lock, recent, changes, faults>>
\* LanBeacon._periodic and _on_beacon_periodic: whatever periodic says by now.
BeaconTick ==
  /\ beacon.threads > 0 /\ beacon.hook
  /\ EmitsLan
  /\ UNCHANGED <<conf, msg, looper, beacon, pc, ready, tapped, lock, recent, changes, faults>>

-----------------------------------------------------------------------------
(* Settings and the network                                                   *)

Changes == changes < MaxChanges /\ changes' = changes + 1

\* (mutant) is_alive is not asked
SetPeriodicAnew(on) ==
  [beacon EXCEPT !.periodic = on, !.hook = on \/ beacon.hook,
                 !.threads = IF on /\ ~beacon.periodic THEN @ + 1 ELSE @]
\* LanBeacon.set_periodic: a thread that sleeps counts as alive.
SetPeriodic(on) ==
  [beacon EXCEPT !.periodic = on, !.hook = on \/ beacon.hook,
                 !.threads = IF on /\ ~beacon.periodic /\ beacon.threads = 0 THEN 1 ELSE @]

\* POST /api/settings with auto_announce: _apply_auto_announce_settings.
SaveAuto(on) ==
  /\ Changes /\ msg.running /\ ~Frozen
  /\ conf' = [conf EXCEPT !.auto = on]
  /\ msg' = [msg EXCEPT !.auto = on]
  /\ beacon' = IF beacon.made THEN SetPeriodic(on) ELSE beacon
  /\ UNCHANGED <<looper, net, endpoint, pc, ready, tapped, lock, recent, sent, faults>>
\* With an announce interval: saved, not applied.
SaveInterval(key, on) ==
  /\ Changes /\ msg.running /\ ~Frozen
  /\ conf' = [conf EXCEPT ![key] = on]
  /\ UNCHANGED <<msg, looper, beacon, net, endpoint, pc, ready, tapped, lock, recent, sent, faults>>
\* With a probe interval: _apply_probe_interval_settings applies all of them.
SaveProbe ==
  /\ Changes /\ msg.running /\ ~Frozen
  /\ msg' = [msg EXCEPT !.auto = LoadedIv]
  /\ looper' = IF LoadedIv /\ looper = "none" THEN "alive" ELSE looper
  /\ UNCHANGED <<conf, beacon, net, endpoint, pc, ready, tapped, lock, recent, sent, faults>>

NetChanges ==
  /\ Changes
  /\ \/ \E k \in {"ip", "lan"} : net' = [net EXCEPT ![k] = ~net[k]]
     \/ \E b \in {"no", "connect", "transfer"} : net' = [net EXCEPT !.busy = b]
  /\ UNCHANGED <<conf, msg, looper, beacon, endpoint, pc, ready, tapped, lock, recent, sent, faults>>
\* on_serial_transport_attached: the USB interface came online.
UsbAttached ==
  /\ Changes /\ ~net.usb
  /\ net' = [net EXCEPT !.usb = TRUE]
  /\ IF msg.running /\ net.busy # "transfer"
     THEN sent' = [for |-> "serial", on |-> {"usb"}, heard |-> LanOut, ip |-> net.ip] /\ endpoint' = TRUE
     ELSE UNCHANGED <<sent, endpoint>>
  /\ UNCHANGED <<conf, msg, looper, beacon, pc, ready, tapped, lock, recent, faults>>
UsbGone ==
  /\ Changes /\ net.usb
  /\ net' = [net EXCEPT !.usb = FALSE]
  /\ UNCHANGED <<conf, msg, looper, beacon, endpoint, pc, ready, tapped, lock, recent, sent, faults>>

Init ==
  /\ conf \in [lan : {"udp", "tcp"}, server : BOOLEAN, serial : {TRUE}, auto : BOOLEAN,
               lanIv : {FALSE}, serIv : {FALSE}]
  /\ msg = [running |-> FALSE, auto |-> FALSE]
  /\ looper = "none"
  /\ beacon = [made |-> FALSE, periodic |-> FALSE, threads |-> 0, hook |-> FALSE]
  /\ net \in [ip : {TRUE}, lan : {TRUE}, usb : BOOLEAN, busy : {"no"}]
  /\ endpoint = FALSE
  /\ pc = [r \in Request |-> "new"] /\ ready = [r \in Request |-> FALSE]
  /\ tapped = [r \in Request |-> "all"]
  /\ lock = None /\ recent = FALSE
  /\ sent = [for |-> "none", on |-> {}, heard |-> FALSE, ip |-> FALSE]
  /\ changes = 0 /\ faults = 0

Next ==
  \/ \E r \in Request : \/ \E via \in Vias : Tap(r, via)
                        \/ Call(r) \/ Resume(r) \/ Raise(r)
  \/ DebounceOver \/ StartThread \/ StartRunning \/ LooperChecks
  \/ LoopLan \/ LoopUsb \/ BeaconTick
  \/ \E on \in BOOLEAN : SaveAuto(on) \/ \E k \in {"lanIv", "serIv"} : SaveInterval(k, on)
  \/ SaveProbe \/ NetChanges \/ UsbAttached \/ UsbGone

Spec == Init /\ [][Next]_vars

-----------------------------------------------------------------------------
(* Properties                                                                 *)

\* The announce lock is held exactly while a tap waits for the executor: every
\* way out (debounced, nothing to send, an error, the end) gives it back.
LockReturned == \A r \in Request : pc[r] \in Awaiting <=> lock = r

\* An announce meant for the LAN leaves on USB only when the node has a LAN
\* address but no LAN interface that can carry it: never next to a working LAN
\* interface, and never with the cable out.
UsbForLan ==
  (sent.for = "lan" /\ "usb" \in sent.on) => (sent.ip /\ ~sent.heard)

\* However often auto-announce is switched off and on, and whatever the sleeping
\* thread of the last time does, one thread sends the periodic beacons.
OneBeaconThread == beacon.threads <= 1

=============================================================================
