----------------------------- MODULE Lifecycle -----------------------------
(* Servers of one machine start, stop and make room for each other            *)
(* (web/server.py, start_rns in rns_lifecycle.py, rns_utils.py).  A server    *)
(* has a main thread, which runs the event loop, and executor threads, which  *)
(* nothing cancels: start_rns, and the serial watchdog's open of the port.    *)
(* SIGTERM is taken when the loop runs next; until the handlers are set it    *)
(* kills, and SIGKILL always does.                                            *)
EXTENDS Naturals, FiniteSets

CONSTANTS
  Server,     \* processes, launched once each, with the same HTTP port
  Forced,     \* those launched with --force
  MaxStops,   \* servers the user stops
  None

VARIABLES
  main,       \* where the main thread is
  worker,     \* where start_rns is
  job,        \* servers that are opening the serial port
  shutting,   \* _shutting_down
  cleaning,   \* servers in _on_cleanup or past it
  has,        \* messaging, discovery, lan_beacon that exist
  up,         \* what runs: open ports, running flags
  again,      \* start_rns is in its retry
  targets,    \* processes stop_stale_chatx5_servers waits for, per thread
  term,       \* processes with a SIGTERM or SIGINT to take
  foreign,    \* another program holds UDP 4242
  last, left, \* history: the latest launch, servers the user stopped
  overlap,    \* history: a launch while another one was still starting
  late        \* history: servers with an executor thread at their last teardown

vars == <<main, worker, job, shutting, cleaning, has, up, again, targets, term,
          foreign, last, left, overlap, late>>

Part == {"backend", "discovery", "beacon"}
Resource == Part \union {"http", "udp", "serial"}
Role == {"main", "worker"}
Idle == [r \in Role |-> {}]
Teardown == {"beaconDown", "discoveryDown", "backendDown", "rnsDown"}
Early == {"prepare", "killing"}
Starting == {"ports", "killing", "recheck", "rns", "repair", "backend", "backendStart",
             "discovery", "discoveryStart", "beacon", "beaconStart", "finish"}

TypeOK ==
  /\ main \in [Server -> {"off", "setup", "bind", "serve", "closing", "exiting", "dead"}
                         \union Early \union Teardown]
  /\ worker \in [Server -> {"none", "done", "failed"} \union Starting]
  /\ job \subseteq Server /\ shutting \subseteq Server /\ cleaning \subseteq Server
  /\ has \in [Server -> SUBSET Part] /\ up \in [Server -> SUBSET Resource]
  /\ again \subseteq Server
  /\ targets \in [Server -> [Role -> SUBSET Server]] /\ term \subseteq Server
  /\ foreign \in BOOLEAN /\ last \in Server \union {None} /\ left \subseteq Server
  /\ overlap \in BOOLEAN /\ late \subseteq Server

Init ==
  /\ main = [p \in Server |-> "off"] /\ worker = [p \in Server |-> "none"]
  /\ job = {} /\ shutting = {} /\ cleaning = {} /\ again = {} /\ term = {}
  /\ has = [p \in Server |-> {}] /\ up = [p \in Server |-> {}]
  /\ targets = [p \in Server |-> Idle]
  /\ foreign \in BOOLEAN
  /\ last = None /\ left = {} /\ overlap = FALSE /\ late = {}

-----------------------------------------------------------------------------
Alive == {p \in Server : main[p] \notin {"off", "dead"}}
Holders(port) == {p \in Server : port \in up[p]}
Busy(p) == worker[p] \in Starting \/ p \in job
StartingUp(p) == p \in Alive /\ (main[p] \in Early \union {"setup", "bind"} \/ worker[p] \in Starting)

Main(p, pc) == main' = [main EXCEPT ![p] = pc]
Worker(p, pc) == worker' = [worker EXCEPT ![p] = pc]
Raise(p, r) == up' = [up EXCEPT ![p] = @ \union r]
Lower(p, r) == up' = [up EXCEPT ![p] = @ \ r]
Make(p, x) == has' = [has EXCEPT ![p] = @ \union {x}]

\* The processes D end, whatever they were doing, and nothing of them remains.  The
\* other threads go on at `mains` and `workers`.
Die(D, mains, workers, waits) ==
  /\ main' = [p \in Server |-> IF p \in D THEN "dead" ELSE mains[p]]
  /\ worker' = [p \in Server |-> IF p \in D THEN "none" ELSE workers[p]]
  /\ targets' = [p \in Server |-> IF p \in D THEN Idle ELSE waits[p]]
  /\ has' = [p \in Server |-> IF p \in D THEN {} ELSE has[p]]
  /\ up' = [p \in Server |-> IF p \in D THEN {} ELSE up[p]]
  /\ job' = job \ D /\ shutting' = shutting \ D /\ cleaning' = cleaning \ D
  /\ again' = again \ D /\ term' = term \ D /\ late' = late \ D
  /\ UNCHANGED <<foreign, last, left, overlap>>

-----------------------------------------------------------------------------
(* stop_stale_chatx5_servers, called by _prepare_listen_ports in the main     *)
(* thread and by start_rns: SIGTERM to every other chatx5 process, five       *)
(* seconds to go, then SIGKILL.                                               *)

AllOfThem(p) == Alive     \* (mutant) without exclude_pid
Others(p) == Alive \ {p}
Kill(p, role) ==
  /\ targets' = [targets EXCEPT ![p][role] = Others(p)]
  /\ term' = term \union Others(p)

Killed(p, role, mains, workers) ==
  Die(targets[p][role] \intersect Alive, mains, workers, [targets EXCEPT ![p][role] = {}])

MainKilled(p) ==
  /\ main[p] = "killing"
  /\ Killed(p, "main", [main EXCEPT ![p] = "setup"], worker)
WorkerKilled(p) ==
  /\ worker[p] \in {"killing", "repair"}
  /\ Killed(p, "worker", main,
            [worker EXCEPT ![p] = IF @ = "repair" THEN "ports" ELSE "recheck"])

-----------------------------------------------------------------------------
(* run: make room, set the handlers, start the tasks, bind, serve.            *)

Launch(p) ==
  /\ main[p] = "off"
  /\ Main(p, "prepare")
  /\ last' = p
  /\ overlap' = (overlap \/ \E q \in Server : StartingUp(q))
  /\ UNCHANGED <<worker, job, shutting, cleaning, has, up, again, targets, term, foreign, left, late>>

Prepare(p) ==
  /\ main[p] = "prepare"
  /\ IF foreign \/ p \in Forced \/ Holders("http") \union Holders("udp") # {}
     THEN Main(p, "killing") /\ Kill(p, "main")
     ELSE Main(p, "setup") /\ UNCHANGED <<targets, term>>
  /\ UNCHANGED <<worker, job, shutting, cleaning, has, up, again, foreign, last, left, overlap, late>>

\* runner.setup runs _on_startup, which has start_rns run by an executor thread.
Setup(p) ==
  /\ main[p] = "setup"
  /\ Main(p, "bind")
  /\ Worker(p, "ports")
  /\ UNCHANGED <<job, shutting, cleaning, has, up, again, targets, term, foreign, last, left, overlap, late>>

\* Without the port, run gives up and cleans up.
Bind(p) ==
  /\ main[p] = "bind"
  /\ IF Holders("http") = {}
     THEN Main(p, "serve") /\ Raise(p, {"http"}) /\ UNCHANGED shutting
     ELSE Main(p, "closing") /\ shutting' = shutting \union {p} /\ UNCHANGED up
  /\ UNCHANGED <<worker, job, cleaning, has, again, targets, term, foreign, last, left, overlap, late>>

-----------------------------------------------------------------------------
(* start_rns.                                                                 *)

PortsFree(p) == ~foreign /\ Holders("udp") \ {p} = {}
AnyPorts(p) ==
  /\ worker[p] = "ports"
  /\ \/ PortsFree(p) /\ Worker(p, "rns") /\ UNCHANGED <<targets, term>>
     \/ /\ ~PortsFree(p) /\ (p \in Forced \union again \/ Holders("udp") # {})
        /\ Worker(p, "killing") /\ Kill(p, "worker")
     \/ /\ ~PortsFree(p) /\ p \notin Forced \union again /\ Holders("udp") = {}
        /\ Worker(p, "failed") /\ UNCHANGED <<targets, term>>
  /\ UNCHANGED <<main, job, shutting, cleaning, has, up, again, foreign, last, left, overlap, late>>

Recheck(p) ==
  /\ worker[p] = "recheck"
  /\ Worker(p, IF PortsFree(p) THEN "rns" ELSE "failed")
  /\ UNCHANGED <<main, job, shutting, cleaning, has, up, again, targets, term, foreign, last, left, overlap, late>>

\* RNS.Reticulum(); when the port was taken meanwhile, stop stale servers and
\* try once more.
StartReticulum(p) ==
  /\ worker[p] = "rns"
  /\ \/ PortsFree(p) /\ Raise(p, {"udp"}) /\ Worker(p, "backend") /\ UNCHANGED <<again, targets, term>>
     \/ /\ ~PortsFree(p) /\ p \notin again
        /\ again' = again \union {p}
        /\ Worker(p, "repair") /\ Kill(p, "worker")
        /\ UNCHANGED up
     \/ ~PortsFree(p) /\ p \in again /\ Worker(p, "failed") /\ UNCHANGED <<up, again, targets, term>>
  /\ UNCHANGED <<main, job, shutting, cleaning, has, foreign, last, left, overlap, late>>

\* Each part is stored in the server before it is started.
MakePart(p) ==
  /\ worker[p] \in Part
  /\ Make(p, worker[p])
  /\ Worker(p, CASE worker[p] = "backend" -> "backendStart"
                 [] worker[p] = "discovery" -> "discoveryStart"
                 [] worker[p] = "beacon" -> "beaconStart")
  /\ UNCHANGED <<main, job, shutting, cleaning, up, again, targets, term, foreign, last, left, overlap, late>>

StartBackend(p) ==
  /\ worker[p] = "backendStart"
  /\ Raise(p, {"backend"}) /\ Worker(p, "discovery")
  /\ UNCHANGED <<main, job, shutting, cleaning, has, again, targets, term, foreign, last, left, overlap, late>>

StartDiscovery(p) ==
  /\ worker[p] = "discoveryStart"
  /\ Raise(p, {"discovery"}) /\ Worker(p, "beacon")
  /\ UNCHANGED <<main, job, shutting, cleaning, has, again, targets, term, foreign, last, left, overlap, late>>

\* A teardown has set lan_beacon to None meanwhile: start_rns raises.
StartBeacon(p) ==
  /\ worker[p] = "beaconStart"
  /\ IF "beacon" \in has[p] THEN Raise(p, {"beacon"}) /\ Worker(p, "finish")
                            ELSE Worker(p, "failed") /\ UNCHANGED up
  /\ UNCHANGED <<main, job, shutting, cleaning, has, again, targets, term, foreign, last, left, overlap, late>>

\* The serial port, when there is one, and what else needs the running stack.
FinishStart(p) ==
  /\ worker[p] = "finish"
  /\ Worker(p, "done")
  /\ \E s \in SUBSET {"serial"} : Raise(p, s)
  /\ UNCHANGED <<main, job, shutting, cleaning, has, again, targets, term, foreign, last, left, overlap, late>>

\* _run_blocking(ensure_runtime_serial) of the watchdog.
JobStarts(p) ==
  /\ main[p] \in {"serve", "closing"} /\ p \notin shutting \union job
  /\ worker[p] = "done"
  /\ job' = job \union {p}
  /\ UNCHANGED <<main, worker, shutting, cleaning, has, up, again, targets, term, foreign, last, left, overlap, late>>

JobEnds(p) ==
  /\ p \in job
  /\ job' = job \ {p}
  /\ Raise(p, {"serial"})
  /\ UNCHANGED <<main, worker, shutting, cleaning, has, again, targets, term, foreign, last, left, overlap, late>>

-----------------------------------------------------------------------------
(* Stopping.                                                                  *)

UserStops(p) ==
  /\ p \in Alive \ left /\ Cardinality(left) < MaxStops
  /\ left' = left \union {p} /\ term' = term \union {p}
  /\ UNCHANGED <<main, worker, job, shutting, cleaning, has, up, again, targets, foreign, last, overlap, late>>

\* _stop_loop: the teardown runs in the handler, the loop waits.
StopLoop(p) ==
  /\ p \in term /\ main[p] \in {"bind", "serve"}
  /\ term' = term \ {p}
  /\ shutting' = shutting \union {p}
  /\ Main(p, "beaconDown")
  /\ UNCHANGED <<worker, job, cleaning, has, up, again, targets, foreign, last, left, overlap, late>>

\* Before the handlers are set, after the loop is closed, and, by os._exit, when
\* a stop is under way already.
SignalKills(p) ==
  /\ p \in term /\ main[p] \notin {"bind", "serve"}
  /\ main[p] \in Teardown => p \in cleaning
  /\ Die({p}, main, worker, targets)

\* _teardown_network_stack, in the handler and again in _on_cleanup.
BeaconDown(p) ==
  /\ main[p] = "beaconDown"
  /\ IF "beacon" \in has[p] THEN Lower(p, {"beacon"}) ELSE UNCHANGED up
  /\ has' = [has EXCEPT ![p] = @ \ {"beacon"}]
  /\ Main(p, "discoveryDown")
  /\ UNCHANGED <<worker, job, shutting, cleaning, again, targets, term, foreign, last, left, overlap, late>>

DiscoveryDown(p) ==
  /\ main[p] = "discoveryDown"
  /\ IF "discovery" \in has[p] THEN Lower(p, {"discovery"}) ELSE UNCHANGED up
  /\ Main(p, "backendDown")
  /\ UNCHANGED <<worker, job, shutting, cleaning, has, again, targets, term, foreign, last, left, overlap, late>>

BackendDown(p) ==
  /\ main[p] = "backendDown"
  /\ IF "backend" \in has[p] THEN Lower(p, {"backend"}) ELSE UNCHANGED up
  /\ Main(p, "rnsDown")
  /\ UNCHANGED <<worker, job, shutting, cleaning, has, again, targets, term, foreign, last, left, overlap, late>>

RnsDown(p) ==
  /\ main[p] = "rnsDown"
  /\ Lower(p, {"udp", "serial"})
  /\ Main(p, IF p \in cleaning THEN "exiting" ELSE "closing")
  /\ UNCHANGED <<worker, job, shutting, cleaning, has, again, targets, term, foreign, last, left, overlap, late>>

\* runner.cleanup: the site closes, then _on_shutdown, then _on_cleanup, which
\* ends with "[shutdown] Server stopped - ports released".
CleanupTrusts == "exiting"    \* (mutant) the handler has torn everything down
CleanupFrom == "beaconDown"
Closing(p) ==
  /\ main[p] = "closing"
  /\ shutting' = shutting \union {p} /\ cleaning' = cleaning \union {p}
  /\ Lower(p, {"http"} \union (IF "backend" \in has[p] THEN {"backend"} ELSE {}))
  /\ late' = IF Busy(p) THEN late \union {p} ELSE late
  /\ Main(p, CleanupFrom)
  /\ UNCHANGED <<worker, job, has, again, targets, term, foreign, last, left, overlap>>

\* The interpreter joins its executor threads before it exits.
Exit(p) ==
  /\ main[p] = "exiting" /\ ~Busy(p)
  /\ Die({p}, main, worker, targets)

Next == \E p \in Server :
  \/ Launch(p) \/ Prepare(p) \/ MainKilled(p) \/ Setup(p) \/ Bind(p)
  \/ AnyPorts(p) \/ WorkerKilled(p) \/ Recheck(p) \/ StartReticulum(p)
  \/ MakePart(p) \/ StartBackend(p) \/ StartDiscovery(p) \/ StartBeacon(p) \/ FinishStart(p)
  \/ JobStarts(p) \/ JobEnds(p)
  \/ UserStops(p) \/ StopLoop(p) \/ SignalKills(p)
  \/ BeaconDown(p) \/ DiscoveryDown(p) \/ BackendDown(p) \/ RnsDown(p)
  \/ Closing(p) \/ Exit(p)

Spec == Init /\ [][Next]_vars

-----------------------------------------------------------------------------
\* When a server has said that its ports are released, nothing of it runs on,
\* unless an executor thread was still starting things at the last teardown.
ReleasedIsDown == \A p \in Server : main[p] = "exiting" /\ p \notin late => up[p] = {}

AtRest == /\ Alive \intersect term = {}
          /\ \A p \in Alive : main[p] = "serve" /\ ~Busy(p)

\* A launch takes over: when every process has come to rest, the latest one that
\* the user has not stopped serves, its network is up unless another program has
\* the port, and no other server is left - unless two were starting at once,
\* which stop each other.
LastTakesOver ==
  AtRest /\ last # None /\ last \notin left /\ ~overlap =>
    /\ Alive = {last}
    /\ worker[last] = "done" \/ foreign

=============================================================================
