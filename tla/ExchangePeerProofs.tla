------------------------ MODULE ExchangePeerProofs ------------------------
(* Starts and stops (Lifecycle), for any number of servers, launches and      *)
(* stops, and the hub group (HubGroup), for any number of clients, texts,     *)
(* transmissions, links and faults.                                           *)
EXTENDS Exchange, TLAPS

\* A step between nodes is a step of each component, or leaves it alone.
LEMMA LifeSteps == [Next]_vars => [Life!Next]_(Life!vars)
  BY DEF Next, vars, HubMoves, OfferMoves, DialMoves, ShareMoves, LifeMoves,
     LifeVars, Life!vars

-----------------------------------------------------------------------------
(* Starts and stops (Lifecycle)                                                *)

\* What the proof needs of the variables' types.
Places == {"off", "setup", "bind", "serve", "closing", "exiting", "dead"} \union Life!Early \union Life!Teardown
Phases == {"none", "done", "failed"} \union Life!Starting
LifeTyped ==
  /\ main \in [LifeServer -> Places] /\ worker \in [LifeServer -> Phases]
  /\ has \in [LifeServer -> SUBSET Life!Part] /\ life_up \in [LifeServer -> SUBSET Life!Resource]

\* What is up has been stored before, so that a teardown finds it.
UpIsStored(p) ==
  /\ life_up[p] \intersect Life!Part \subseteq has[p]
  /\ worker[p] = "backendStart" => "backend" \in has[p]
  /\ worker[p] = "discoveryStart" => "discovery" \in has[p]

\* From _on_shutdown on no executor thread can start in this server, and only the
\* last teardown lies ahead.
LastTeardown(p) ==
  p \in cleaning =>
    /\ main[p] \in Life!Teardown \union {"exiting"} /\ p \in shutting
    /\ p \notin late => ~Life!Busy(p)
ExitsCleaned(p) == main[p] = "exiting" => p \in cleaning

\* How far the last teardown has got, when no executor thread is left.
Lowered(p) ==
  p \in cleaning /\ p \notin late =>
    /\ "http" \notin life_up[p]
    /\ main[p] \in {"discoveryDown", "backendDown", "rnsDown", "exiting"} => "beacon" \notin life_up[p]
    /\ main[p] \in {"backendDown", "rnsDown", "exiting"} => "discovery" \notin life_up[p]
    /\ main[p] \in {"rnsDown", "exiting"} => "backend" \notin life_up[p]
    /\ main[p] = "exiting" => life_up[p] = {}

Sound(p) == UpIsStored(p) /\ LastTeardown(p) /\ ExitsCleaned(p) /\ Lowered(p)
DownInv == LifeTyped /\ \A p \in LifeServer : Sound(p)


-----------------------------------------------------------------------------
LEMMA LifeStart == Life!Init => DownInv
  BY DEF Life!Init, DownInv, LifeTyped, Places, Phases, Sound, UpIsStored,
     LastTeardown,
     ExitsCleaned, Lowered

LEMMA LaunchSound ==
  ASSUME DownInv, NEW p \in LifeServer, Life!Launch(p)
  PROVE  DownInv'
<1>1. LifeTyped'
  BY DEF DownInv, LifeTyped, Life!Launch, Life!Main, Places, Phases, Life!Early,
     Life!Teardown, Life!Starting
<1>2. ASSUME NEW q \in LifeServer PROVE Sound(q)'
  <2>1. Sound(q) /\ LifeTyped
    BY DEF DownInv
  <2>2. CASE q # p
    BY <2>1, <2>2 DEF LifeTyped, Life!Launch, Life!Main, Sound, UpIsStored,
       LastTeardown,
       ExitsCleaned, Lowered, Life!Busy
  <2>3. CASE q = p
    BY <2>1, <2>3 DEF LifeTyped, Life!Launch, Life!Main, Sound, UpIsStored,
       LastTeardown,
       ExitsCleaned, Lowered, Life!Busy, Places, Phases, Life!Early, Life!Teardown, Life!Starting
  <2> QED
    BY <2>2, <2>3
<1> QED
  BY <1>1, <1>2 DEF DownInv

LEMMA PrepareSound ==
  ASSUME DownInv, NEW p \in LifeServer, Life!Prepare(p)
  PROVE  DownInv'
<1>1. LifeTyped'
  BY DEF DownInv, LifeTyped, Life!Prepare, Life!Main, Life!Kill, Places, Phases,
     Life!Early, Life!Teardown,
     Life!Starting
<1>2. ASSUME NEW q \in LifeServer PROVE Sound(q)'
  <2>1. Sound(q) /\ LifeTyped
    BY DEF DownInv
  <2>2. CASE q # p
    BY <2>1, <2>2 DEF LifeTyped, Life!Prepare, Life!Main, Life!Kill, Sound,
       UpIsStored, LastTeardown,
       ExitsCleaned, Lowered, Life!Busy
  <2>3. CASE q = p
    BY <2>1, <2>3 DEF LifeTyped, Life!Prepare, Life!Main, Life!Kill, Sound,
       UpIsStored, LastTeardown,
       ExitsCleaned, Lowered, Life!Busy, Places, Phases, Life!Early, Life!Teardown, Life!Starting
  <2> QED
    BY <2>2, <2>3
<1> QED
  BY <1>1, <1>2 DEF DownInv

LEMMA SetupSound ==
  ASSUME DownInv, NEW p \in LifeServer, Life!Setup(p)
  PROVE  DownInv'
<1>1. LifeTyped'
  BY DEF DownInv, LifeTyped, Life!Setup, Life!Main, Life!Worker, Places, Phases,
     Life!Early, Life!Teardown,
     Life!Starting
<1>2. ASSUME NEW q \in LifeServer PROVE Sound(q)'
  <2>1. Sound(q) /\ LifeTyped
    BY DEF DownInv
  <2>2. CASE q # p
    BY <2>1, <2>2 DEF LifeTyped, Life!Setup, Life!Main, Life!Worker, Sound,
       UpIsStored, LastTeardown,
       ExitsCleaned, Lowered, Life!Busy
  <2>3. CASE q = p
    BY <2>1, <2>3 DEF LifeTyped, Life!Setup, Life!Main, Life!Worker, Sound,
       UpIsStored, LastTeardown,
       ExitsCleaned, Lowered, Life!Busy, Places, Phases, Life!Early, Life!Teardown, Life!Starting
  <2> QED
    BY <2>2, <2>3
<1> QED
  BY <1>1, <1>2 DEF DownInv

LEMMA BindSound ==
  ASSUME DownInv, NEW p \in LifeServer, Life!Bind(p)
  PROVE  DownInv'
<1>1. LifeTyped'
  BY DEF DownInv, LifeTyped, Life!Bind, Life!Main, Life!Raise, Places, Phases,
     Life!Early, Life!Teardown,
     Life!Starting, Life!Part, Life!Resource
<1>2. ASSUME NEW q \in LifeServer PROVE Sound(q)'
  <2>1. Sound(q) /\ LifeTyped
    BY DEF DownInv
  <2>2. CASE q # p
    BY <2>1, <2>2 DEF LifeTyped, Life!Bind, Life!Main, Life!Raise, Sound,
       UpIsStored, LastTeardown,
       ExitsCleaned, Lowered, Life!Busy
  <2>3. CASE q = p
    BY <2>1, <2>3 DEF LifeTyped, Life!Bind, Life!Main, Life!Raise, Sound,
       UpIsStored, LastTeardown,
       ExitsCleaned, Lowered, Life!Busy, Places, Phases, Life!Early, Life!Teardown, Life!Starting,
       Life!Part, Life!Resource
  <2> QED
    BY <2>2, <2>3
<1> QED
  BY <1>1, <1>2 DEF DownInv

LEMMA AnyPortsSound ==
  ASSUME DownInv, NEW p \in LifeServer, Life!AnyPorts(p)
  PROVE  DownInv'
<1>1. LifeTyped'
  BY DEF DownInv, LifeTyped, Life!AnyPorts, Life!Worker, Life!Kill, Places,
     Phases, Life!Early, Life!Teardown,
     Life!Starting
<1>2. ASSUME NEW q \in LifeServer PROVE Sound(q)'
  <2>1. Sound(q) /\ LifeTyped
    BY DEF DownInv
  <2>2. CASE q # p
    BY <2>1, <2>2 DEF LifeTyped, Life!AnyPorts, Life!Worker, Life!Kill, Sound,
       UpIsStored,
       LastTeardown, ExitsCleaned, Lowered, Life!Busy
  <2>3. CASE q = p
    BY <2>1, <2>3 DEF LifeTyped, Life!AnyPorts, Life!Worker, Life!Kill, Sound,
       UpIsStored,
       LastTeardown, ExitsCleaned, Lowered, Life!Busy, Places, Phases, Life!Early, Life!Teardown,
       Life!Starting
  <2> QED
    BY <2>2, <2>3
<1> QED
  BY <1>1, <1>2 DEF DownInv

LEMMA RecheckSound ==
  ASSUME DownInv, NEW p \in LifeServer, Life!Recheck(p)
  PROVE  DownInv'
<1>1. LifeTyped'
  BY DEF DownInv, LifeTyped, Life!Recheck, Life!Worker, Places, Phases,
     Life!Early, Life!Teardown, Life!Starting
<1>2. ASSUME NEW q \in LifeServer PROVE Sound(q)'
  <2>1. Sound(q) /\ LifeTyped
    BY DEF DownInv
  <2>2. CASE q # p
    BY <2>1, <2>2 DEF LifeTyped, Life!Recheck, Life!Worker, Sound, UpIsStored,
       LastTeardown,
       ExitsCleaned, Lowered, Life!Busy
  <2>3. CASE q = p
    BY <2>1, <2>3 DEF LifeTyped, Life!Recheck, Life!Worker, Sound, UpIsStored,
       LastTeardown,
       ExitsCleaned, Lowered, Life!Busy, Places, Phases, Life!Early, Life!Teardown, Life!Starting
  <2> QED
    BY <2>2, <2>3
<1> QED
  BY <1>1, <1>2 DEF DownInv

LEMMA StartReticulumSound ==
  ASSUME DownInv, NEW p \in LifeServer, Life!StartReticulum(p)
  PROVE  DownInv'
<1>1. LifeTyped'
  BY DEF DownInv, LifeTyped, Life!StartReticulum, Life!Raise, Life!Worker,
     Life!Kill, Places, Phases,
     Life!Early, Life!Teardown, Life!Starting, Life!Part, Life!Resource
<1>2. ASSUME NEW q \in LifeServer PROVE Sound(q)'
  <2>1. Sound(q) /\ LifeTyped
    BY DEF DownInv
  <2>2. CASE q # p
    BY <2>1, <2>2 DEF LifeTyped, Life!StartReticulum, Life!Raise, Life!Worker,
       Life!Kill, Sound,
       UpIsStored, LastTeardown, ExitsCleaned, Lowered, Life!Busy
  <2>3. CASE q = p
    BY <2>1, <2>3 DEF LifeTyped, Life!StartReticulum, Life!Raise, Life!Worker,
       Life!Kill, Sound,
       UpIsStored, LastTeardown, ExitsCleaned, Lowered, Life!Busy, Places, Phases,
       Life!Early, Life!Teardown, Life!Starting, Life!Part, Life!Resource
  <2> QED
    BY <2>2, <2>3
<1> QED
  BY <1>1, <1>2 DEF DownInv

LEMMA MakePartSound ==
  ASSUME DownInv, NEW p \in LifeServer, Life!MakePart(p)
  PROVE  DownInv'
<1>1. LifeTyped'
  BY DEF DownInv, LifeTyped, Life!MakePart, Life!Make, Life!Worker, Places,
     Phases, Life!Early, Life!Teardown,
     Life!Starting, Life!Part, Life!Resource
<1>2. ASSUME NEW q \in LifeServer PROVE Sound(q)'
  <2>1. Sound(q) /\ LifeTyped
    BY DEF DownInv
  <2>2. CASE q # p
    BY <2>1, <2>2 DEF LifeTyped, Life!MakePart, Life!Make, Life!Worker, Sound,
       UpIsStored,
       LastTeardown, ExitsCleaned, Lowered, Life!Busy
  <2>3. CASE q = p
    BY <2>1, <2>3 DEF LifeTyped, Life!MakePart, Life!Make, Life!Worker, Sound,
       UpIsStored,
       LastTeardown, ExitsCleaned, Lowered, Life!Busy, Places, Phases, Life!Early, Life!Teardown,
       Life!Starting, Life!Part, Life!Resource
  <2> QED
    BY <2>2, <2>3
<1> QED
  BY <1>1, <1>2 DEF DownInv

LEMMA StartBackendSound ==
  ASSUME DownInv, NEW p \in LifeServer, Life!StartBackend(p)
  PROVE  DownInv'
<1>1. LifeTyped'
  BY DEF DownInv, LifeTyped, Life!StartBackend, Life!Raise, Life!Worker, Places,
     Phases, Life!Early,
     Life!Teardown, Life!Starting, Life!Part, Life!Resource
<1>2. ASSUME NEW q \in LifeServer PROVE Sound(q)'
  <2>1. Sound(q) /\ LifeTyped
    BY DEF DownInv
  <2>2. CASE q # p
    BY <2>1, <2>2 DEF LifeTyped, Life!StartBackend, Life!Raise, Life!Worker,
       Sound, UpIsStored,
       LastTeardown, ExitsCleaned, Lowered, Life!Busy
  <2>3. CASE q = p
    BY <2>1, <2>3 DEF LifeTyped, Life!StartBackend, Life!Raise, Life!Worker,
       Sound, UpIsStored,
       LastTeardown, ExitsCleaned, Lowered, Life!Busy, Places, Phases, Life!Early, Life!Teardown,
       Life!Starting, Life!Part, Life!Resource
  <2> QED
    BY <2>2, <2>3
<1> QED
  BY <1>1, <1>2 DEF DownInv

LEMMA StartDiscoverySound ==
  ASSUME DownInv, NEW p \in LifeServer, Life!StartDiscovery(p)
  PROVE  DownInv'
<1>1. LifeTyped'
  BY DEF DownInv, LifeTyped, Life!StartDiscovery, Life!Raise, Life!Worker, Places,
     Phases, Life!Early,
     Life!Teardown, Life!Starting, Life!Part, Life!Resource
<1>2. ASSUME NEW q \in LifeServer PROVE Sound(q)'
  <2>1. Sound(q) /\ LifeTyped
    BY DEF DownInv
  <2>2. CASE q # p
    BY <2>1, <2>2 DEF LifeTyped, Life!StartDiscovery, Life!Raise, Life!Worker,
       Sound, UpIsStored,
       LastTeardown, ExitsCleaned, Lowered, Life!Busy
  <2>3. CASE q = p
    BY <2>1, <2>3 DEF LifeTyped, Life!StartDiscovery, Life!Raise, Life!Worker,
       Sound, UpIsStored,
       LastTeardown, ExitsCleaned, Lowered, Life!Busy, Places, Phases, Life!Early, Life!Teardown,
       Life!Starting, Life!Part, Life!Resource
  <2> QED
    BY <2>2, <2>3
<1> QED
  BY <1>1, <1>2 DEF DownInv

LEMMA StartBeaconSound ==
  ASSUME DownInv, NEW p \in LifeServer, Life!StartBeacon(p)
  PROVE  DownInv'
<1>1. LifeTyped'
  BY DEF DownInv, LifeTyped, Life!StartBeacon, Life!Raise, Life!Worker, Places,
     Phases, Life!Early,
     Life!Teardown, Life!Starting, Life!Part, Life!Resource
<1>2. ASSUME NEW q \in LifeServer PROVE Sound(q)'
  <2>1. Sound(q) /\ LifeTyped
    BY DEF DownInv
  <2>2. CASE q # p
    BY <2>1, <2>2 DEF LifeTyped, Life!StartBeacon, Life!Raise, Life!Worker, Sound,
       UpIsStored,
       LastTeardown, ExitsCleaned, Lowered, Life!Busy
  <2>3. CASE q = p
    BY <2>1, <2>3 DEF LifeTyped, Life!StartBeacon, Life!Raise, Life!Worker, Sound,
       UpIsStored,
       LastTeardown, ExitsCleaned, Lowered, Life!Busy, Places, Phases, Life!Early, Life!Teardown,
       Life!Starting, Life!Part, Life!Resource
  <2> QED
    BY <2>2, <2>3
<1> QED
  BY <1>1, <1>2 DEF DownInv

LEMMA FinishStartSound ==
  ASSUME DownInv, NEW p \in LifeServer, Life!FinishStart(p)
  PROVE  DownInv'
<1>1. LifeTyped'
  BY ZenonT(40) DEF DownInv, LifeTyped, Life!FinishStart, Life!Worker, Life!Raise,
     Places, Phases, Life!Early,
     Life!Teardown, Life!Starting, Life!Part, Life!Resource
<1>2. ASSUME NEW q \in LifeServer PROVE Sound(q)'
  <2>1. Sound(q) /\ LifeTyped
    BY DEF DownInv
  <2>2. CASE q # p
    BY <2>1, <2>2 DEF LifeTyped, Life!FinishStart, Life!Worker, Life!Raise, Sound,
       UpIsStored,
       LastTeardown, ExitsCleaned, Lowered, Life!Busy
  <2>3. CASE q = p
    BY <2>1, <2>3 DEF LifeTyped, Life!FinishStart, Life!Worker, Life!Raise, Sound,
       UpIsStored,
       LastTeardown, ExitsCleaned, Lowered, Life!Busy, Places, Phases, Life!Early, Life!Teardown,
       Life!Starting, Life!Part, Life!Resource
  <2> QED
    BY <2>2, <2>3
<1> QED
  BY <1>1, <1>2 DEF DownInv

LEMMA JobStartsSound ==
  ASSUME DownInv, NEW p \in LifeServer, Life!JobStarts(p)
  PROVE  DownInv'
<1>1. LifeTyped'
  BY DEF DownInv, LifeTyped, Life!JobStarts, Places, Phases, Life!Early,
     Life!Teardown, Life!Starting
<1>2. ASSUME NEW q \in LifeServer PROVE Sound(q)'
  <2>1. Sound(q) /\ LifeTyped
    BY DEF DownInv
  <2>2. CASE q # p
    BY <2>1, <2>2 DEF LifeTyped, Life!JobStarts, Sound, UpIsStored, LastTeardown,
       ExitsCleaned, Lowered, Life!Busy
  <2>3. CASE q = p
    BY <2>1, <2>3 DEF LifeTyped, Life!JobStarts, Sound, UpIsStored, LastTeardown,
       ExitsCleaned, Lowered, Life!Busy, Places, Phases, Life!Early, Life!Teardown, Life!Starting
  <2> QED
    BY <2>2, <2>3
<1> QED
  BY <1>1, <1>2 DEF DownInv

LEMMA JobEndsSound ==
  ASSUME DownInv, NEW p \in LifeServer, Life!JobEnds(p)
  PROVE  DownInv'
<1>1. LifeTyped'
  BY DEF DownInv, LifeTyped, Life!JobEnds, Life!Raise, Places, Phases, Life!Early,
     Life!Teardown,
     Life!Starting, Life!Part, Life!Resource
<1>2. ASSUME NEW q \in LifeServer PROVE Sound(q)'
  <2>1. Sound(q) /\ LifeTyped
    BY DEF DownInv
  <2>2. CASE q # p
    BY <2>1, <2>2 DEF LifeTyped, Life!JobEnds, Life!Raise, Sound, UpIsStored,
       LastTeardown,
       ExitsCleaned, Lowered, Life!Busy
  <2>3. CASE q = p
    BY <2>1, <2>3 DEF LifeTyped, Life!JobEnds, Life!Raise, Sound, UpIsStored,
       LastTeardown,
       ExitsCleaned, Lowered, Life!Busy, Places, Phases, Life!Early, Life!Teardown, Life!Starting,
       Life!Part, Life!Resource
  <2> QED
    BY <2>2, <2>3
<1> QED
  BY <1>1, <1>2 DEF DownInv

LEMMA UserStopsSound ==
  ASSUME DownInv, NEW p \in LifeServer, Life!UserStops(p)
  PROVE  DownInv'
<1>1. LifeTyped'
  BY DEF DownInv, LifeTyped, Life!UserStops, Places, Phases, Life!Early,
     Life!Teardown, Life!Starting
<1>2. ASSUME NEW q \in LifeServer PROVE Sound(q)'
  <2>1. Sound(q) /\ LifeTyped
    BY DEF DownInv
  <2>2. CASE q # p
    BY <2>1, <2>2 DEF LifeTyped, Life!UserStops, Sound, UpIsStored, LastTeardown,
       ExitsCleaned, Lowered, Life!Busy
  <2>3. CASE q = p
    BY <2>1, <2>3 DEF LifeTyped, Life!UserStops, Sound, UpIsStored, LastTeardown,
       ExitsCleaned, Lowered, Life!Busy, Places, Phases, Life!Early, Life!Teardown, Life!Starting
  <2> QED
    BY <2>2, <2>3
<1> QED
  BY <1>1, <1>2 DEF DownInv

LEMMA StopLoopSound ==
  ASSUME DownInv, NEW p \in LifeServer, Life!StopLoop(p)
  PROVE  DownInv'
<1>1. LifeTyped'
  BY DEF DownInv, LifeTyped, Life!StopLoop, Life!Main, Places, Phases, Life!Early,
     Life!Teardown, Life!Starting
<1>2. ASSUME NEW q \in LifeServer PROVE Sound(q)'
  <2>1. Sound(q) /\ LifeTyped
    BY DEF DownInv
  <2>2. CASE q # p
    BY <2>1, <2>2 DEF LifeTyped, Life!StopLoop, Life!Main, Sound, UpIsStored,
       LastTeardown,
       ExitsCleaned, Lowered, Life!Busy
  <2>3. CASE q = p
    BY <2>1, <2>3 DEF LifeTyped, Life!StopLoop, Life!Main, Sound, UpIsStored,
       LastTeardown,
       ExitsCleaned, Lowered, Life!Busy, Places, Phases, Life!Early, Life!Teardown, Life!Starting
  <2> QED
    BY <2>2, <2>3
<1> QED
  BY <1>1, <1>2 DEF DownInv

LEMMA BeaconDownSound ==
  ASSUME DownInv, NEW p \in LifeServer, Life!BeaconDown(p)
  PROVE  DownInv'
<1>1. LifeTyped'
  BY DEF DownInv, LifeTyped, Life!BeaconDown, Life!Lower, Life!Main, Places,
     Phases, Life!Early, Life!Teardown,
     Life!Starting, Life!Part, Life!Resource
<1>2. ASSUME NEW q \in LifeServer PROVE Sound(q)'
  <2>1. Sound(q) /\ LifeTyped
    BY DEF DownInv
  <2>2. CASE q # p
    BY <2>1, <2>2 DEF LifeTyped, Life!BeaconDown, Life!Lower, Life!Main, Sound,
       UpIsStored,
       LastTeardown, ExitsCleaned, Lowered, Life!Busy
  <2>3. CASE q = p
    BY <2>1, <2>3 DEF LifeTyped, Life!BeaconDown, Life!Lower, Life!Main, Sound,
       UpIsStored,
       LastTeardown, ExitsCleaned, Lowered, Life!Busy, Places, Phases, Life!Early, Life!Teardown,
       Life!Starting, Life!Part, Life!Resource
  <2> QED
    BY <2>2, <2>3
<1> QED
  BY <1>1, <1>2 DEF DownInv

LEMMA DiscoveryDownSound ==
  ASSUME DownInv, NEW p \in LifeServer, Life!DiscoveryDown(p)
  PROVE  DownInv'
<1>1. LifeTyped'
  BY DEF DownInv, LifeTyped, Life!DiscoveryDown, Life!Lower, Life!Main, Places,
     Phases, Life!Early,
     Life!Teardown, Life!Starting, Life!Part, Life!Resource
<1>2. ASSUME NEW q \in LifeServer PROVE Sound(q)'
  <2>1. Sound(q) /\ LifeTyped
    BY DEF DownInv
  <2>2. CASE q # p
    BY <2>1, <2>2 DEF LifeTyped, Life!DiscoveryDown, Life!Lower, Life!Main, Sound,
       UpIsStored,
       LastTeardown, ExitsCleaned, Lowered, Life!Busy
  <2>3. CASE q = p
    BY <2>1, <2>3 DEF LifeTyped, Life!DiscoveryDown, Life!Lower, Life!Main, Sound,
       UpIsStored,
       LastTeardown, ExitsCleaned, Lowered, Life!Busy, Places, Phases, Life!Early, Life!Teardown,
       Life!Starting, Life!Part, Life!Resource
  <2> QED
    BY <2>2, <2>3
<1> QED
  BY <1>1, <1>2 DEF DownInv

LEMMA BackendDownSound ==
  ASSUME DownInv, NEW p \in LifeServer, Life!BackendDown(p)
  PROVE  DownInv'
<1>1. LifeTyped'
  BY DEF DownInv, LifeTyped, Life!BackendDown, Life!Lower, Life!Main, Places,
     Phases, Life!Early,
     Life!Teardown, Life!Starting, Life!Part, Life!Resource
<1>2. ASSUME NEW q \in LifeServer PROVE Sound(q)'
  <2>1. Sound(q) /\ LifeTyped
    BY DEF DownInv
  <2>2. CASE q # p
    BY <2>1, <2>2 DEF LifeTyped, Life!BackendDown, Life!Lower, Life!Main, Sound,
       UpIsStored,
       LastTeardown, ExitsCleaned, Lowered, Life!Busy
  <2>3. CASE q = p
    BY <2>1, <2>3 DEF LifeTyped, Life!BackendDown, Life!Lower, Life!Main, Sound,
       UpIsStored,
       LastTeardown, ExitsCleaned, Lowered, Life!Busy, Places, Phases, Life!Early, Life!Teardown,
       Life!Starting, Life!Part, Life!Resource
  <2> QED
    BY <2>2, <2>3
<1> QED
  BY <1>1, <1>2 DEF DownInv

LEMMA RnsDownSound ==
  ASSUME DownInv, NEW p \in LifeServer, Life!RnsDown(p)
  PROVE  DownInv'
<1>1. LifeTyped'
  BY DEF DownInv, LifeTyped, Life!RnsDown, Life!Lower, Life!Main, Places, Phases,
     Life!Early, Life!Teardown,
     Life!Starting, Life!Part, Life!Resource
<1>2. ASSUME NEW q \in LifeServer PROVE Sound(q)'
  <2>1. Sound(q) /\ LifeTyped
    BY DEF DownInv
  <2>2. CASE q # p
    BY <2>1, <2>2 DEF LifeTyped, Life!RnsDown, Life!Lower, Life!Main, Sound,
       UpIsStored,
       LastTeardown, ExitsCleaned, Lowered, Life!Busy
  <2>3. CASE q = p
    BY <2>1, <2>3 DEF LifeTyped, Life!RnsDown, Life!Lower, Life!Main, Sound,
       UpIsStored,
       LastTeardown, ExitsCleaned, Lowered, Life!Busy, Places, Phases, Life!Early, Life!Teardown,
       Life!Starting, Life!Part, Life!Resource
  <2> QED
    BY <2>2, <2>3
<1> QED
  BY <1>1, <1>2 DEF DownInv

LEMMA ClosingSound ==
  ASSUME DownInv, NEW p \in LifeServer, Life!Closing(p)
  PROVE  DownInv'
<1>1. LifeTyped'
  BY DEF DownInv, LifeTyped, Life!Closing, Life!Main, Life!Lower,
     Life!CleanupFrom, Places, Phases, Life!Early,
     Life!Teardown, Life!Starting, Life!Part, Life!Resource
<1>2. ASSUME NEW q \in LifeServer PROVE Sound(q)'
  <2>1. Sound(q) /\ LifeTyped
    BY DEF DownInv
  <2>2. CASE q # p
    BY <2>1, <2>2 DEF LifeTyped, Life!Closing, Life!Main, Life!Lower,
       Life!CleanupFrom, Sound, UpIsStored,
       LastTeardown, ExitsCleaned, Lowered, Life!Busy
  <2>3. CASE q = p
    BY <2>1, <2>3 DEF LifeTyped, Life!Closing, Life!Main, Life!Lower,
       Life!CleanupFrom, Sound, UpIsStored,
       LastTeardown, ExitsCleaned, Lowered, Life!Busy, Places, Phases, Life!Early, Life!Teardown,
       Life!Starting, Life!Part, Life!Resource
  <2> QED
    BY <2>2, <2>3
<1> QED
  BY <1>1, <1>2 DEF DownInv

(* The end of processes leaves the others as they are, but for where the two    *)
(* threads of the one that waited for it go on.                                 *)
LEMMA DieSound ==
  ASSUME DownInv, NEW D \in SUBSET LifeServer, NEW mains \in [LifeServer -> Places],
         NEW workers \in [LifeServer -> Phases], NEW waits, Life!Die(D, mains, workers, waits),
         \A q \in LifeServer \ D :
            /\ mains[q] = main[q] \/ (main[q] = "killing" /\ mains[q] = "setup")
            /\ \/ workers[q] = worker[q]
               \/ worker[q] \in {"killing", "repair"} /\ workers[q] \in {"ports", "recheck"}
  PROVE  DownInv'
<1>1. LifeTyped'
  BY DEF DownInv, LifeTyped, Life!Die, Places, Phases
<1>2. ASSUME NEW q \in LifeServer PROVE Sound(q)'
  <2>1. Sound(q) /\ LifeTyped
    BY DEF DownInv
  <2>2. CASE q \in D
    BY <2>1, <2>2 DEF LifeTyped, Life!Die, Sound, UpIsStored, LastTeardown,
       ExitsCleaned,
       Lowered, Life!Busy
  <2>3. CASE q \notin D
    BY <2>1, <2>3 DEF LifeTyped, Life!Die, Sound, UpIsStored, LastTeardown,
       ExitsCleaned,
       Lowered, Life!Busy, Places, Phases, Life!Early, Life!Teardown, Life!Starting
  <2> QED
    BY <2>2, <2>3
<1> QED
  BY <1>1, <1>2 DEF DownInv

LEMMA MainKilledSound ==
  ASSUME DownInv, NEW p \in LifeServer, Life!MainKilled(p)
  PROVE  DownInv'
<1> DEFINE D == targets[p]["main"] \intersect Life!Alive
           mains == [main EXCEPT ![p] = "setup"]
           waits == [targets EXCEPT ![p]["main"] = {}]
<1>1. Life!Die(D, mains, worker, waits)
  BY DEF Life!MainKilled, Life!Killed
<1>2. D \in SUBSET LifeServer
  BY DEF Life!Alive
<1>3. mains \in [LifeServer -> Places] /\ worker \in [LifeServer -> Phases]
  BY DEF DownInv, LifeTyped, Places, Life!Early
<1>4. \A q \in LifeServer : mains[q] = main[q] \/ (main[q] = "killing" /\ mains[q] = "setup")
  BY DEF DownInv, LifeTyped, Life!MainKilled
<1> HIDE DEF D, mains, waits
<1> QED
  BY <1>1, <1>2, <1>3, <1>4, DieSound

LEMMA WorkerKilledSound ==
  ASSUME DownInv, NEW p \in LifeServer, Life!WorkerKilled(p)
  PROVE  DownInv'
<1> DEFINE D == targets[p]["worker"] \intersect Life!Alive
           next == IF worker[p] = "repair" THEN "ports" ELSE "recheck"
           workers == [worker EXCEPT ![p] = next]
           waits == [targets EXCEPT ![p]["worker"] = {}]
<1>1. Life!Die(D, main, workers, waits)
  BY DEF Life!WorkerKilled, Life!Killed
<1>2. D \in SUBSET LifeServer
  BY DEF Life!Alive
<1>3. main \in [LifeServer -> Places] /\ workers \in [LifeServer -> Phases]
  BY DEF DownInv, LifeTyped, Phases, Life!Starting
<1>4. \A q \in LifeServer : \/ workers[q] = worker[q]
                            \/ worker[q] \in {"killing", "repair"} /\ workers[q] \in {"ports", "recheck"}
  BY DEF DownInv, LifeTyped, Life!WorkerKilled
<1> HIDE DEF D, workers, waits
<1> QED
  BY <1>1, <1>2, <1>3, <1>4, DieSound

LEMMA SignalKillsSound ==
  ASSUME DownInv, NEW p \in LifeServer, Life!SignalKills(p) \/ Life!Exit(p)
  PROVE  DownInv'
<1>1. Life!Die({p}, main, worker, targets)
  BY DEF Life!SignalKills, Life!Exit
<1> QED
  BY <1>1, DieSound DEF DownInv, LifeTyped

LEMMA DownKept == DownInv /\ [Next]_vars => DownInv'
<1> SUFFICES ASSUME DownInv, [Life!Next]_(Life!vars) PROVE DownInv'
  BY LifeSteps
<1>1. ASSUME NEW p \in LifeServer, Life!Launch(p) PROVE DownInv'
  BY <1>1, LaunchSound
<1>2. ASSUME NEW p \in LifeServer, Life!Prepare(p) PROVE DownInv'
  BY <1>2, PrepareSound
<1>3. ASSUME NEW p \in LifeServer, Life!MainKilled(p) PROVE DownInv'
  BY <1>3, MainKilledSound
<1>4. ASSUME NEW p \in LifeServer, Life!Setup(p) PROVE DownInv'
  BY <1>4, SetupSound
<1>5. ASSUME NEW p \in LifeServer, Life!Bind(p) PROVE DownInv'
  BY <1>5, BindSound
<1>6. ASSUME NEW p \in LifeServer, Life!AnyPorts(p) PROVE DownInv'
  BY <1>6, AnyPortsSound
<1>7. ASSUME NEW p \in LifeServer, Life!WorkerKilled(p) PROVE DownInv'
  BY <1>7, WorkerKilledSound
<1>8. ASSUME NEW p \in LifeServer, Life!Recheck(p) PROVE DownInv'
  BY <1>8, RecheckSound
<1>9. ASSUME NEW p \in LifeServer, Life!StartReticulum(p) PROVE DownInv'
  BY <1>9, StartReticulumSound
<1>10. ASSUME NEW p \in LifeServer, Life!MakePart(p) PROVE DownInv'
  BY <1>10, MakePartSound
<1>11. ASSUME NEW p \in LifeServer, Life!StartBackend(p) PROVE DownInv'
  BY <1>11, StartBackendSound
<1>12. ASSUME NEW p \in LifeServer, Life!StartDiscovery(p) PROVE DownInv'
  BY <1>12, StartDiscoverySound
<1>13. ASSUME NEW p \in LifeServer, Life!StartBeacon(p) PROVE DownInv'
  BY <1>13, StartBeaconSound
<1>14. ASSUME NEW p \in LifeServer, Life!FinishStart(p) PROVE DownInv'
  BY <1>14, FinishStartSound
<1>15. ASSUME NEW p \in LifeServer, Life!JobStarts(p) PROVE DownInv'
  BY <1>15, JobStartsSound
<1>16. ASSUME NEW p \in LifeServer, Life!JobEnds(p) PROVE DownInv'
  BY <1>16, JobEndsSound
<1>17. ASSUME NEW p \in LifeServer, Life!UserStops(p) PROVE DownInv'
  BY <1>17, UserStopsSound
<1>18. ASSUME NEW p \in LifeServer, Life!StopLoop(p) PROVE DownInv'
  BY <1>18, StopLoopSound
<1>19. ASSUME NEW p \in LifeServer, Life!BeaconDown(p) PROVE DownInv'
  BY <1>19, BeaconDownSound
<1>20. ASSUME NEW p \in LifeServer, Life!DiscoveryDown(p) PROVE DownInv'
  BY <1>20, DiscoveryDownSound
<1>21. ASSUME NEW p \in LifeServer, Life!BackendDown(p) PROVE DownInv'
  BY <1>21, BackendDownSound
<1>22. ASSUME NEW p \in LifeServer, Life!RnsDown(p) PROVE DownInv'
  BY <1>22, RnsDownSound
<1>23. ASSUME NEW p \in LifeServer, Life!Closing(p) PROVE DownInv'
  BY <1>23, ClosingSound
<1>24. ASSUME NEW p \in LifeServer, Life!SignalKills(p) \/ Life!Exit(p) PROVE DownInv'
  BY <1>24, SignalKillsSound
<1>25. CASE UNCHANGED Life!vars
  BY <1>25 DEF Life!vars, DownInv, LifeTyped, Sound, UpIsStored, LastTeardown,
     ExitsCleaned, Lowered, Life!Busy
<1> QED
  BY <1>1, <1>2, <1>3, <1>4, <1>5, <1>6, <1>7, <1>8, <1>9, <1>10, <1>11, <1>12,
     <1>13, <1>14, <1>15, <1>16, <1>17, <1>18, <1>19, <1>20, <1>21, <1>22,
     <1>23, <1>24, <1>25 DEF Life!Next

(* When a server has said that its ports are released, nothing of it runs on,   *)
(* unless start_rns or the serial watchdog was still at work in a thread when   *)
(* _on_shutdown ran: _teardown_network_stack, run twice, and the flag that      *)
(* _run_blocking tests leave no other way.                                      *)
THEOREM AllReleased == Spec => []ReleasedIsDown
<1>1. Init => DownInv
  BY LifeStart DEF Init
<1>2. DownInv => ReleasedIsDown
  BY DEF DownInv, Sound, ExitsCleaned, Lowered, ReleasedIsDown, Life!ReleasedIsDown
<1> QED
  BY <1>1, DownKept, <1>2, PTL DEF Spec

-----------------------------------------------------------------------------
(* The latest launch takes over (Lifecycle)                                   *)

StartTyped ==
  /\ last # None => last \in LifeServer
  /\ targets \in [LifeServer -> [Life!Role -> SUBSET LifeServer]]

\* What holds of every server: where its threads can be, what it holds and whom it
\* waits for there.
Single(p) ==
  /\ main[p] = "off" =>
       /\ worker[p] = "none" /\ p \notin term /\ life_up[p] = {}
       /\ \A q \in LifeServer, r \in Life!Role : p \notin targets[q][r]
  /\ main[p] = "dead" => worker[p] = "none" /\ life_up[p] = {}
  /\ p \in job => main[p] \notin {"off", "dead"}
  /\ main[p] \in Life!Early \union {"setup"} => worker[p] = "none"
  /\ main[p] \in Life!Early \union {"setup", "bind"} => "http" \notin life_up[p]
  /\ main[p] \in {"bind", "serve"} => worker[p] # "none"
  /\ main[p] = "serve" => "http" \in life_up[p]
  /\ worker[p] = "none" => p \notin again
  /\ main[p] # "killing" => targets[p]["main"] = {}
  /\ worker[p] \notin {"killing", "repair"} => targets[p]["worker"] = {}

\* While no two start at once nobody stops the latest server, ...
Undisturbed ==
  /\ last \notin term
  /\ \A q \in LifeServer, r \in Life!Role : last \notin targets[q][r]
  /\ main[last] \in Life!Early \union {"setup", "bind", "serve"}
\* ... the HTTP port is free when it binds it, ...
Room ==
  /\ main[last] = "killing" => Life!Alive \ {last} \subseteq targets[last]["main"]
  /\ main[last] \in {"setup", "bind", "serve"} =>
       \A q \in LifeServer \ {last} : "http" \notin life_up[q]
\* ... and when start_rns has stopped the others, only another program can have
\* the network port.
NetworkComes ==
  /\ worker[last] \in {"killing", "repair"} => Life!Alive \ {last} \subseteq targets[last]["worker"]
  /\ worker[last] = "recheck" => Life!Alive = {last}
  /\ last \in again /\ worker[last] # "repair" => Life!Alive = {last}
  /\ worker[last] = "failed" => foreign
  /\ worker[last] = "beaconStart" => "beacon" \in has[last]

LatestAlone == \A p \in LifeServer : Life!StartingUp(p) => p = last
LatestKept == last # None /\ last \notin life_left => Undisturbed /\ Room /\ NetworkComes
TakeInv == StartTyped /\ (\A p \in LifeServer : Single(p)) /\ (~overlap => LatestAlone /\ LatestKept)

\* What a kill waits for.
LEMMA KillTargets ==
  ASSUME StartTyped, NEW p \in LifeServer, NEW r \in Life!Role, Life!Kill(p, r)
  PROVE  /\ targets' \in [LifeServer -> [Life!Role -> SUBSET LifeServer]]
         /\ targets'[p][r] = Life!Alive \ {p}
         /\ \A q \in LifeServer, t \in Life!Role : q # p \/ t # r => targets'[q][t] = targets[q][t]
  BY DEF StartTyped, Life!Kill, Life!Others, Life!Alive

LEMMA KillSpares ==
  ASSUME StartTyped, NEW p \in LifeServer, NEW r \in Life!Role, Life!Kill(p, r), p \notin term,
         \A q \in LifeServer, t \in Life!Role : p \notin targets[q][t]
  PROVE  p \notin term' /\ \A q \in LifeServer, t \in Life!Role : p \notin targets'[q][t]
<1>1. p \notin term'
  BY DEF Life!Kill, Life!Others
<1>2. ASSUME NEW q \in LifeServer, NEW t \in Life!Role PROVE p \notin targets'[q][t]
  BY KillTargets
<1> QED
  BY <1>1, <1>2

LEMMA TakeStart == Life!Init => TakeInv
  BY DEF Life!Init, TakeInv, StartTyped, Single, LatestAlone, LatestKept,
     Life!StartingUp, Life!Alive, Life!Idle, Life!Role

LEMMA LaunchTakes ==
  ASSUME DownInv, TakeInv, NEW p \in LifeServer, Life!Launch(p)
  PROVE  TakeInv'
<1>1. LifeTyped /\ StartTyped
  BY DEF DownInv, TakeInv
<1>2. StartTyped'
  BY <1>1 DEF Life!Launch, Life!Main, LifeTyped, StartTyped, Life!Role, Life!Alive
<1>3. ASSUME NEW q \in LifeServer PROVE Single(q)'
  BY <1>1, <1>3 DEF Life!Launch, Life!Main, LifeTyped, StartTyped, Life!Role,
     Single, Places, Phases, Life!Early, Life!Teardown, Life!Starting, Life!Alive,
     TakeInv
<1>4. ASSUME ~overlap' PROVE LatestAlone' /\ LatestKept'
  <2>1. ~overlap /\ LatestAlone /\ LatestKept /\ \A q \in LifeServer : Single(q)
    BY <1>4 DEF TakeInv, Life!Launch
  <2>2. LatestAlone'
    <3>1. \A q \in LifeServer : ~Life!StartingUp(q)
      BY <1>4 DEF Life!Launch
    <3>2. last' = p /\ main' = [main EXCEPT ![p] = "prepare"] /\ worker' = worker
      BY DEF Life!Launch, Life!Main
    <3> QED
      BY <1>1, <3>1, <3>2 DEF LatestAlone, Life!StartingUp, Life!Alive, LifeTyped
  <2>3. ASSUME last' # None, last' \notin life_left' PROVE Undisturbed' /\ Room' /\ NetworkComes'
    <3>1. Undisturbed'
      BY <1>1, <2>1, <2>3 DEF Single, LatestAlone, Life!StartingUp, LatestKept,
         Undisturbed, Room, NetworkComes, Life!Launch, Life!Main, LifeTyped,
         StartTyped, Life!Role, Places, Phases, Life!Early, Life!Teardown,
         Life!Starting, Life!Alive
    <3>2. Room'
      BY <1>1, <2>1, <2>3 DEF Single, LatestAlone, Life!StartingUp, LatestKept,
         Undisturbed, Room, NetworkComes, Life!Launch, Life!Main, LifeTyped,
         StartTyped, Life!Role, Places, Phases, Life!Early, Life!Teardown,
         Life!Starting, Life!Alive
    <3>3. NetworkComes'
      BY <1>1, <2>1, <2>3 DEF Single, LatestAlone, Life!StartingUp, LatestKept,
         Undisturbed, Room, NetworkComes, Life!Launch, Life!Main, LifeTyped,
         StartTyped, Life!Role, Places, Phases, Life!Early, Life!Teardown,
         Life!Starting, Life!Alive
    <3> QED
      BY <3>1, <3>2, <3>3
  <2> QED
    BY <2>2, <2>3 DEF LatestKept
<1> QED
  BY <1>2, <1>3, <1>4 DEF TakeInv

LEMMA PrepareTakes ==
  ASSUME DownInv, TakeInv, NEW p \in LifeServer, Life!Prepare(p)
  PROVE  TakeInv'
<1>1. LifeTyped /\ StartTyped
  BY DEF DownInv, TakeInv
<1>2. StartTyped'
  <2>1. CASE Life!Kill(p, "main")
    BY <1>1, <2>1, KillTargets DEF Life!Prepare, StartTyped, Life!Role
  <2>2. CASE UNCHANGED targets
    BY <1>1, <2>2 DEF Life!Prepare, StartTyped
  <2> QED
    BY <2>1, <2>2 DEF Life!Prepare
<1>3. ASSUME NEW q \in LifeServer PROVE Single(q)'
  <2>1. Single(q)
    BY DEF TakeInv
  <2>2. CASE q # p
    BY SMTT(30), <1>1, <2>1, <2>2 DEF Life!Prepare, Life!Main, Life!Kill,
       Life!Others,
       LifeTyped, StartTyped, Life!Role, Single, Life!Alive
  <2>3. CASE q = p
    BY <1>1, <2>1, <2>3 DEF Life!Prepare, Life!Main, Life!Kill, Life!Others,
       LifeTyped, StartTyped, Life!Role, Single, Places, Phases, Life!Early,
       Life!Teardown, Life!Starting, Life!Alive
  <2> QED
    BY <2>2, <2>3
<1>4. ASSUME ~overlap' PROVE LatestAlone' /\ LatestKept'
  <2>1. ~overlap /\ LatestAlone /\ LatestKept /\ \A q \in LifeServer : Single(q)
    BY <1>4 DEF TakeInv, Life!Prepare
  <2>2. LatestAlone'
    BY <1>1, <2>1 DEF Single, LatestAlone, Life!StartingUp, Life!Alive,
       Life!Prepare, Life!Main, Life!Kill, Life!Others, LifeTyped, StartTyped,
       Life!Role, Places, Phases, Life!Early, Life!Teardown, Life!Starting
  <2>3. ASSUME last' # None, last' \notin life_left' PROVE Undisturbed' /\ Room' /\ NetworkComes'
    <3>1. Undisturbed'
      <4>1. last' = last /\ last = p /\ Undisturbed
        BY <2>1, <2>3 DEF Life!Prepare, LatestAlone, LatestKept, Life!StartingUp,
           Life!Alive, Life!Starting, Life!Early, Single
      <4>2. CASE Life!Kill(p, "main")
        <5>1. last \notin term' /\ \A q \in LifeServer, t \in Life!Role : last \notin targets'[q][t]
          BY <1>1, <4>1, <4>2, KillSpares DEF Undisturbed, Life!Role
        <5> QED
          BY <1>1, <4>1, <5>1 DEF Undisturbed, Life!Prepare, Life!Main, LifeTyped,
             Life!Early
      <4>3. CASE UNCHANGED <<targets, term>>
        BY <1>1, <4>1, <4>3 DEF Undisturbed, Life!Prepare, Life!Main, LifeTyped,
           Life!Early
      <4> QED
        BY <4>2, <4>3 DEF Life!Prepare
    <3>2. Room'
      <4>1. CASE Life!Kill(p, "main") /\ Life!Main(p, "killing")
        <5>1. targets'[p]["main"] = Life!Alive \ {p}
          BY <1>1, <4>1, KillTargets DEF Life!Role
        <5>2. last = p /\ last' = p /\ main' = [main EXCEPT ![p] = "killing"]
          BY <2>1, <4>1 DEF Life!Prepare, Life!Main, LatestAlone, Life!StartingUp,
             Life!Alive, Life!Early
        <5> QED
          BY <1>1, <5>1, <5>2 DEF Room, Life!Alive, LifeTyped
      <4>2. CASE Life!Main(p, "setup") /\ UNCHANGED targets
       BY <1>1, <2>1, <2>3, <4>2 DEF Room, Life!Prepare, Life!Main, Life!Holders,
          LatestAlone, Life!StartingUp, Life!Alive,
          Life!Early, LifeTyped
      <4> QED
        BY <4>1, <4>2 DEF Life!Prepare
    <3>3. NetworkComes'
      BY <1>1, <2>1, <2>3 DEF Single, LatestAlone, Life!StartingUp, LatestKept,
         Undisturbed, Room, NetworkComes, Life!Prepare, Life!Main, Life!Kill,
         Life!Others, LifeTyped, StartTyped, Life!Role, Places, Phases,
         Life!Early, Life!Teardown, Life!Starting, Life!Alive
    <3> QED
      BY <3>1, <3>2, <3>3
  <2> QED
    BY <2>2, <2>3 DEF LatestKept
<1> QED
  BY <1>2, <1>3, <1>4 DEF TakeInv

LEMMA SetupTakes ==
  ASSUME DownInv, TakeInv, NEW p \in LifeServer, Life!Setup(p)
  PROVE  TakeInv'
<1>1. LifeTyped /\ StartTyped
  BY DEF DownInv, TakeInv
<1>2. StartTyped'
  BY <1>1 DEF Life!Setup, Life!Main, Life!Worker, LifeTyped, StartTyped,
     Life!Role, Life!Alive
<1>3. ASSUME NEW q \in LifeServer PROVE Single(q)'
  BY <1>1, <1>3 DEF Life!Setup, Life!Main, Life!Worker, LifeTyped, StartTyped,
     Life!Role, Single, Places, Phases, Life!Early, Life!Teardown, Life!Starting,
     Life!Alive, TakeInv
<1>4. ASSUME ~overlap' PROVE LatestAlone' /\ LatestKept'
  <2>1. ~overlap /\ LatestAlone /\ LatestKept /\ \A q \in LifeServer : Single(q)
    BY <1>4 DEF TakeInv, Life!Setup
  <2>2. LatestAlone'
    BY <1>1, <2>1 DEF Single, LatestAlone, Life!StartingUp, Life!Alive,
       Life!Setup, Life!Main, Life!Worker, LifeTyped, StartTyped, Life!Role,
       Places, Phases, Life!Early, Life!Teardown, Life!Starting
  <2>3. ASSUME last' # None, last' \notin life_left' PROVE Undisturbed' /\ Room' /\ NetworkComes'
    BY <1>1, <2>1, <2>3 DEF Single, LatestAlone, Life!StartingUp, LatestKept,
       Undisturbed, Room, NetworkComes, Life!Setup, Life!Main, Life!Worker,
       LifeTyped, StartTyped, Life!Role, Places, Phases, Life!Early,
       Life!Teardown, Life!Starting, Life!Alive
  <2> QED
    BY <2>2, <2>3 DEF LatestKept
<1> QED
  BY <1>2, <1>3, <1>4 DEF TakeInv

LEMMA BindTakes ==
  ASSUME DownInv, TakeInv, NEW p \in LifeServer, Life!Bind(p)
  PROVE  TakeInv'
<1>1. LifeTyped /\ StartTyped
  BY DEF DownInv, TakeInv
<1>2. StartTyped'
  BY <1>1 DEF Life!Bind, Life!Main, Life!Raise, Life!Holders, LifeTyped,
     StartTyped, Life!Role, Life!Alive
<1>3. ASSUME NEW q \in LifeServer PROVE Single(q)'
  <2>1. Single(q)
    BY DEF TakeInv
  <2>2. CASE q # p
    BY <1>1, <2>1, <2>2 DEF Life!Bind, Life!Main, Life!Raise, Life!Holders,
       LifeTyped, StartTyped, Life!Role, Single, Life!Alive
  <2>3. CASE q = p
    BY <1>1, <2>1, <2>3 DEF Life!Bind, Life!Main, Life!Raise, Life!Holders,
       LifeTyped, StartTyped, Life!Role, Single, Places, Phases, Life!Early,
       Life!Teardown, Life!Starting, Life!Alive
  <2> QED
    BY <2>2, <2>3
<1>4. ASSUME ~overlap' PROVE LatestAlone' /\ LatestKept'
  <2>1. ~overlap /\ LatestAlone /\ LatestKept /\ \A q \in LifeServer : Single(q)
    BY <1>4 DEF TakeInv, Life!Bind
  <2>2. LatestAlone'
    BY <1>1, <2>1 DEF Single, LatestAlone, Life!StartingUp, Life!Alive, Life!Bind,
       Life!Main, Life!Raise, Life!Holders, LifeTyped, StartTyped, Life!Role,
       Places, Phases, Life!Early, Life!Teardown, Life!Starting
  <2>3. ASSUME last' # None, last' \notin life_left' PROVE Undisturbed' /\ Room' /\ NetworkComes'
    BY <1>1, <2>1, <2>3 DEF Single, LatestAlone, Life!StartingUp, LatestKept,
       Undisturbed, Room, NetworkComes, Life!Bind, Life!Main, Life!Raise,
       Life!Holders, LifeTyped, StartTyped, Life!Role, Places, Phases, Life!Early,
       Life!Teardown, Life!Starting, Life!Alive
  <2> QED
    BY <2>2, <2>3 DEF LatestKept
<1> QED
  BY <1>2, <1>3, <1>4 DEF TakeInv

LEMMA AnyPortsTakes ==
  ASSUME DownInv, TakeInv, NEW p \in LifeServer, Life!AnyPorts(p)
  PROVE  TakeInv'
<1>1. LifeTyped /\ StartTyped
  BY DEF DownInv, TakeInv
<1>2. StartTyped'
  BY <1>1 DEF Life!AnyPorts, Life!Worker, Life!Kill, Life!Others, Life!PortsFree,
     Life!Holders, LifeTyped, StartTyped, Life!Role, Life!Alive
<1>3. ASSUME NEW q \in LifeServer PROVE Single(q)'
  <2>1. Single(q)
    BY DEF TakeInv
  <2>2. CASE q # p
    BY <1>1, <2>1, <2>2 DEF Life!AnyPorts, Life!Worker, Life!Kill, Life!Others,
       Life!PortsFree, Life!Holders, LifeTyped, StartTyped, Life!Role, Single,
       Life!Alive
  <2>3. CASE q = p
    BY <1>1, <2>1, <2>3 DEF Life!AnyPorts, Life!Worker, Life!Kill, Life!Others,
       Life!PortsFree, Life!Holders, LifeTyped, StartTyped, Life!Role, Single,
       Places, Phases, Life!Early, Life!Teardown, Life!Starting, Life!Alive
  <2> QED
    BY <2>2, <2>3
<1>4. ASSUME ~overlap' PROVE LatestAlone' /\ LatestKept'
  <2>1. ~overlap /\ LatestAlone /\ LatestKept /\ \A q \in LifeServer : Single(q)
    BY <1>4 DEF TakeInv, Life!AnyPorts
  <2>2. LatestAlone'
    BY <1>1, <2>1 DEF Single, LatestAlone, Life!StartingUp, Life!Alive,
       Life!AnyPorts, Life!Worker, Life!Kill, Life!Others, Life!PortsFree,
       Life!Holders, LifeTyped, StartTyped, Life!Role, Places, Phases, Life!Early,
       Life!Teardown, Life!Starting
  <2>3. ASSUME last' # None, last' \notin life_left' PROVE Undisturbed' /\ Room' /\ NetworkComes'
    <3>1. Undisturbed'
      <4>1. last' = last /\ last = p /\ Undisturbed
        BY <2>1, <2>3 DEF Life!AnyPorts, LatestAlone, LatestKept, Life!StartingUp,
           Life!Alive, Life!Starting, Life!Early, Single
      <4>2. CASE Life!Kill(p, "worker")
        <5>1. last \notin term' /\ \A q \in LifeServer, t \in Life!Role : last \notin targets'[q][t]
          BY <1>1, <4>1, <4>2, KillSpares DEF Undisturbed, Life!Role
        <5> QED
          BY <1>1, <4>1, <5>1 DEF Undisturbed, Life!AnyPorts, Life!Main,
             LifeTyped, Life!Early
      <4>3. CASE UNCHANGED <<targets, term>>
        BY <1>1, <4>1, <4>3 DEF Undisturbed, Life!AnyPorts, Life!Main, LifeTyped,
           Life!Early
      <4> QED
        BY <4>2, <4>3 DEF Life!AnyPorts
    <3>2. Room'
      BY <1>1, <2>1, <2>3 DEF Single, LatestAlone, Life!StartingUp, LatestKept,
         Undisturbed, Room, NetworkComes, Life!AnyPorts, Life!Worker, Life!Kill,
         Life!Others, Life!PortsFree, Life!Holders, LifeTyped, StartTyped,
         Life!Role, Places, Phases, Life!Early, Life!Teardown, Life!Starting,
         Life!Alive
    <3>3. NetworkComes'
      BY <1>1, <2>1, <2>3 DEF Single, LatestAlone, Life!StartingUp, LatestKept,
         Undisturbed, Room, NetworkComes, Life!AnyPorts, Life!Worker, Life!Kill,
         Life!Others, Life!PortsFree, Life!Holders, LifeTyped, StartTyped,
         Life!Role, Places, Phases, Life!Early, Life!Teardown, Life!Starting,
         Life!Alive
    <3> QED
      BY <3>1, <3>2, <3>3
  <2> QED
    BY <2>2, <2>3 DEF LatestKept
<1> QED
  BY <1>2, <1>3, <1>4 DEF TakeInv

LEMMA RecheckTakes ==
  ASSUME DownInv, TakeInv, NEW p \in LifeServer, Life!Recheck(p)
  PROVE  TakeInv'
<1>1. LifeTyped /\ StartTyped
  BY DEF DownInv, TakeInv
<1>2. StartTyped'
  BY <1>1 DEF Life!Recheck, Life!Worker, Life!PortsFree, Life!Holders, LifeTyped,
     StartTyped, Life!Role, Life!Alive
<1>3. ASSUME NEW q \in LifeServer PROVE Single(q)'
  BY <1>1, <1>3 DEF Life!Recheck, Life!Worker, Life!PortsFree, Life!Holders,
     LifeTyped, StartTyped, Life!Role, Single, Places, Phases, Life!Early,
     Life!Teardown, Life!Starting, Life!Alive, TakeInv
<1>4. ASSUME ~overlap' PROVE LatestAlone' /\ LatestKept'
  <2>1. ~overlap /\ LatestAlone /\ LatestKept /\ \A q \in LifeServer : Single(q)
    BY <1>4 DEF TakeInv, Life!Recheck
  <2>2. LatestAlone'
    BY <1>1, <2>1 DEF Single, LatestAlone, Life!StartingUp, Life!Alive,
       Life!Recheck, Life!Worker, Life!PortsFree, Life!Holders, LifeTyped,
       StartTyped, Life!Role, Places, Phases, Life!Early, Life!Teardown,
       Life!Starting
  <2>3. ASSUME last' # None, last' \notin life_left' PROVE Undisturbed' /\ Room' /\ NetworkComes'
    BY <1>1, <2>1, <2>3 DEF Single, LatestAlone, Life!StartingUp, LatestKept,
       Undisturbed, Room, NetworkComes, Life!Recheck, Life!Worker, Life!PortsFree,
       Life!Holders, LifeTyped, StartTyped, Life!Role, Places, Phases, Life!Early,
       Life!Teardown, Life!Starting, Life!Alive
  <2> QED
    BY <2>2, <2>3 DEF LatestKept
<1> QED
  BY <1>2, <1>3, <1>4 DEF TakeInv

LEMMA StartReticulumTakes ==
  ASSUME DownInv, TakeInv, NEW p \in LifeServer, Life!StartReticulum(p)
  PROVE  TakeInv'
<1>1. LifeTyped /\ StartTyped
  BY DEF DownInv, TakeInv
<1>2. StartTyped'
  BY <1>1 DEF Life!StartReticulum, Life!Raise, Life!Worker, Life!Kill,
     Life!Others, Life!PortsFree, Life!Holders, LifeTyped, StartTyped, Life!Role,
     Life!Alive
<1>3. ASSUME NEW q \in LifeServer PROVE Single(q)'
  <2>1. Single(q)
    BY DEF TakeInv
  <2>2. CASE q # p
    <3>1. targets'[q] = targets[q]
      BY <1>1, <2>2 DEF Life!StartReticulum, Life!Kill, StartTyped
    <3>2. \A x \in LifeServer, r \in Life!Role : q \in targets'[x][r] => q \in targets[x][r] \/ main[q] # "off"
      BY <1>1, <2>2 DEF Life!StartReticulum, Life!Kill, StartTyped, Life!Others,
         Life!Alive, Life!Role
    <3> QED
      BY <1>1, <2>1, <2>2, <3>1, <3>2 DEF Life!StartReticulum, Life!Raise,
         Life!Worker, Life!Kill, Life!Others, Life!PortsFree, Life!Holders,
         LifeTyped, StartTyped, Life!Role, Single, Life!Alive
  <2>3. CASE q = p
    BY <1>1, <2>1, <2>3 DEF Life!StartReticulum, Life!Raise, Life!Worker,
       Life!Kill, Life!Others, Life!PortsFree, Life!Holders, LifeTyped,
       StartTyped, Life!Role, Single, Places, Phases, Life!Early, Life!Teardown,
       Life!Starting, Life!Alive
  <2> QED
    BY <2>2, <2>3
<1>4. ASSUME ~overlap' PROVE LatestAlone' /\ LatestKept'
  <2>1. ~overlap /\ LatestAlone /\ LatestKept /\ \A q \in LifeServer : Single(q)
    BY <1>4 DEF TakeInv, Life!StartReticulum
  <2>2. LatestAlone'
    BY <1>1, <2>1 DEF Single, LatestAlone, Life!StartingUp, Life!Alive,
       Life!StartReticulum, Life!Raise, Life!Worker, Life!Kill, Life!Others,
       Life!PortsFree, Life!Holders, LifeTyped, StartTyped, Life!Role, Places,
       Phases, Life!Early, Life!Teardown, Life!Starting
  <2>3. ASSUME last' # None, last' \notin life_left' PROVE Undisturbed' /\ Room' /\ NetworkComes'
    <3>1. Undisturbed'
      <4>1. last' = last /\ last = p /\ Undisturbed
        BY <2>1, <2>3 DEF Life!StartReticulum, LatestAlone, LatestKept,
           Life!StartingUp, Life!Alive, Life!Starting, Life!Early, Single
      <4>2. CASE Life!Kill(p, "worker")
        <5>1. last \notin term' /\ \A q \in LifeServer, t \in Life!Role : last \notin targets'[q][t]
          BY <1>1, <4>1, <4>2, KillSpares DEF Undisturbed, Life!Role
        <5> QED
          BY <1>1, <4>1, <5>1 DEF Undisturbed, Life!StartReticulum, Life!Main,
             LifeTyped, Life!Early
      <4>3. CASE UNCHANGED <<targets, term>>
        BY <1>1, <4>1, <4>3 DEF Undisturbed, Life!StartReticulum, Life!Main,
           LifeTyped, Life!Early
      <4> QED
        BY <4>2, <4>3 DEF Life!StartReticulum
    <3>2. Room'
      BY <1>1, <2>1, <2>3 DEF Single, LatestAlone, Life!StartingUp, LatestKept,
         Undisturbed, Room, NetworkComes, Life!StartReticulum, Life!Raise,
         Life!Worker, Life!Kill, Life!Others, Life!PortsFree, Life!Holders,
         LifeTyped, StartTyped, Life!Role, Places, Phases, Life!Early,
         Life!Teardown, Life!Starting, Life!Alive
    <3>3. NetworkComes'
      BY <1>1, <2>1, <2>3 DEF Single, LatestAlone, Life!StartingUp, LatestKept,
         Undisturbed, Room, NetworkComes, Life!StartReticulum, Life!Raise,
         Life!Worker, Life!Kill, Life!Others, Life!PortsFree, Life!Holders,
         LifeTyped, StartTyped, Life!Role, Places, Phases, Life!Early,
         Life!Teardown, Life!Starting, Life!Alive
    <3> QED
      BY <3>1, <3>2, <3>3
  <2> QED
    BY <2>2, <2>3 DEF LatestKept
<1> QED
  BY <1>2, <1>3, <1>4 DEF TakeInv

LEMMA MakePartTakes ==
  ASSUME DownInv, TakeInv, NEW p \in LifeServer, Life!MakePart(p)
  PROVE  TakeInv'
<1>1. LifeTyped /\ StartTyped
  BY DEF DownInv, TakeInv
<1>2. StartTyped'
  BY <1>1 DEF Life!MakePart, Life!Make, Life!Worker, Life!Part, LifeTyped,
     StartTyped, Life!Role, Life!Alive
<1>3. ASSUME NEW q \in LifeServer PROVE Single(q)'
  BY <1>1, <1>3 DEF Life!MakePart, Life!Make, Life!Worker, Life!Part, LifeTyped,
     StartTyped, Life!Role, Single, Places, Phases, Life!Early, Life!Teardown,
     Life!Starting, Life!Alive, TakeInv
<1>4. ASSUME ~overlap' PROVE LatestAlone' /\ LatestKept'
  <2>1. ~overlap /\ LatestAlone /\ LatestKept /\ \A q \in LifeServer : Single(q)
    BY <1>4 DEF TakeInv, Life!MakePart
  <2>2. LatestAlone'
    BY <1>1, <2>1 DEF Single, LatestAlone, Life!StartingUp, Life!Alive,
       Life!MakePart, Life!Make, Life!Worker, Life!Part, LifeTyped, StartTyped,
       Life!Role, Places, Phases, Life!Early, Life!Teardown, Life!Starting
  <2>3. ASSUME last' # None, last' \notin life_left' PROVE Undisturbed' /\ Room' /\ NetworkComes'
    BY <1>1, <2>1, <2>3 DEF Single, LatestAlone, Life!StartingUp, LatestKept,
       Undisturbed, Room, NetworkComes, Life!MakePart, Life!Make, Life!Worker,
       Life!Part, LifeTyped, StartTyped, Life!Role, Places, Phases, Life!Early,
       Life!Teardown, Life!Starting, Life!Alive
  <2> QED
    BY <2>2, <2>3 DEF LatestKept
<1> QED
  BY <1>2, <1>3, <1>4 DEF TakeInv

LEMMA StartBackendTakes ==
  ASSUME DownInv, TakeInv, NEW p \in LifeServer, Life!StartBackend(p)
  PROVE  TakeInv'
<1>1. LifeTyped /\ StartTyped
  BY DEF DownInv, TakeInv
<1>2. StartTyped'
  BY <1>1 DEF Life!StartBackend, Life!Raise, Life!Worker, LifeTyped, StartTyped,
     Life!Role, Life!Alive
<1>3. ASSUME NEW q \in LifeServer PROVE Single(q)'
  BY <1>1, <1>3 DEF Life!StartBackend, Life!Raise, Life!Worker, LifeTyped,
     StartTyped, Life!Role, Single, Places, Phases, Life!Early, Life!Teardown,
     Life!Starting, Life!Alive, TakeInv
<1>4. ASSUME ~overlap' PROVE LatestAlone' /\ LatestKept'
  <2>1. ~overlap /\ LatestAlone /\ LatestKept /\ \A q \in LifeServer : Single(q)
    BY <1>4 DEF TakeInv, Life!StartBackend
  <2>2. LatestAlone'
    BY <1>1, <2>1 DEF Single, LatestAlone, Life!StartingUp, Life!Alive,
       Life!StartBackend, Life!Raise, Life!Worker, LifeTyped, StartTyped,
       Life!Role, Places, Phases, Life!Early, Life!Teardown, Life!Starting
  <2>3. ASSUME last' # None, last' \notin life_left' PROVE Undisturbed' /\ Room' /\ NetworkComes'
    BY <1>1, <2>1, <2>3 DEF Single, LatestAlone, Life!StartingUp, LatestKept,
       Undisturbed, Room, NetworkComes, Life!StartBackend, Life!Raise,
       Life!Worker, LifeTyped, StartTyped, Life!Role, Places, Phases, Life!Early,
       Life!Teardown, Life!Starting, Life!Alive
  <2> QED
    BY <2>2, <2>3 DEF LatestKept
<1> QED
  BY <1>2, <1>3, <1>4 DEF TakeInv

LEMMA StartDiscoveryTakes ==
  ASSUME DownInv, TakeInv, NEW p \in LifeServer, Life!StartDiscovery(p)
  PROVE  TakeInv'
<1>1. LifeTyped /\ StartTyped
  BY DEF DownInv, TakeInv
<1>2. StartTyped'
  BY <1>1 DEF Life!StartDiscovery, Life!Raise, Life!Worker, LifeTyped, StartTyped,
     Life!Role, Life!Alive
<1>3. ASSUME NEW q \in LifeServer PROVE Single(q)'
  BY <1>1, <1>3 DEF Life!StartDiscovery, Life!Raise, Life!Worker, LifeTyped,
     StartTyped, Life!Role, Single, Places, Phases, Life!Early, Life!Teardown,
     Life!Starting, Life!Alive, TakeInv
<1>4. ASSUME ~overlap' PROVE LatestAlone' /\ LatestKept'
  <2>1. ~overlap /\ LatestAlone /\ LatestKept /\ \A q \in LifeServer : Single(q)
    BY <1>4 DEF TakeInv, Life!StartDiscovery
  <2>2. LatestAlone'
    BY <1>1, <2>1 DEF Single, LatestAlone, Life!StartingUp, Life!Alive,
       Life!StartDiscovery, Life!Raise, Life!Worker, LifeTyped, StartTyped,
       Life!Role, Places, Phases, Life!Early, Life!Teardown, Life!Starting
  <2>3. ASSUME last' # None, last' \notin life_left' PROVE Undisturbed' /\ Room' /\ NetworkComes'
    BY <1>1, <2>1, <2>3 DEF Single, LatestAlone, Life!StartingUp, LatestKept,
       Undisturbed, Room, NetworkComes, Life!StartDiscovery, Life!Raise,
       Life!Worker, LifeTyped, StartTyped, Life!Role, Places, Phases, Life!Early,
       Life!Teardown, Life!Starting, Life!Alive
  <2> QED
    BY <2>2, <2>3 DEF LatestKept
<1> QED
  BY <1>2, <1>3, <1>4 DEF TakeInv

LEMMA StartBeaconTakes ==
  ASSUME DownInv, TakeInv, NEW p \in LifeServer, Life!StartBeacon(p)
  PROVE  TakeInv'
<1>1. LifeTyped /\ StartTyped
  BY DEF DownInv, TakeInv
<1>2. StartTyped'
  BY <1>1 DEF Life!StartBeacon, Life!Raise, Life!Worker, LifeTyped, StartTyped,
     Life!Role, Life!Alive
<1>3. ASSUME NEW q \in LifeServer PROVE Single(q)'
  BY <1>1, <1>3 DEF Life!StartBeacon, Life!Raise, Life!Worker, LifeTyped,
     StartTyped, Life!Role, Single, Places, Phases, Life!Early, Life!Teardown,
     Life!Starting, Life!Alive, TakeInv
<1>4. ASSUME ~overlap' PROVE LatestAlone' /\ LatestKept'
  <2>1. ~overlap /\ LatestAlone /\ LatestKept /\ \A q \in LifeServer : Single(q)
    BY <1>4 DEF TakeInv, Life!StartBeacon
  <2>2. LatestAlone'
    BY <1>1, <2>1 DEF Single, LatestAlone, Life!StartingUp, Life!Alive,
       Life!StartBeacon, Life!Raise, Life!Worker, LifeTyped, StartTyped,
       Life!Role, Places, Phases, Life!Early, Life!Teardown, Life!Starting
  <2>3. ASSUME last' # None, last' \notin life_left' PROVE Undisturbed' /\ Room' /\ NetworkComes'
    BY <1>1, <2>1, <2>3 DEF Single, LatestAlone, Life!StartingUp, LatestKept,
       Undisturbed, Room, NetworkComes, Life!StartBeacon, Life!Raise, Life!Worker,
       LifeTyped, StartTyped, Life!Role, Places, Phases, Life!Early,
       Life!Teardown, Life!Starting, Life!Alive
  <2> QED
    BY <2>2, <2>3 DEF LatestKept
<1> QED
  BY <1>2, <1>3, <1>4 DEF TakeInv

LEMMA FinishStartTakes ==
  ASSUME DownInv, TakeInv, NEW p \in LifeServer, Life!FinishStart(p)
  PROVE  TakeInv'
<1>1. LifeTyped /\ StartTyped
  BY DEF DownInv, TakeInv
<1>2. StartTyped'
  BY <1>1 DEF Life!FinishStart, Life!Worker, Life!Raise, LifeTyped, StartTyped,
     Life!Role, Life!Alive
<1>3. ASSUME NEW q \in LifeServer PROVE Single(q)'
  BY <1>1, <1>3 DEF Life!FinishStart, Life!Worker, Life!Raise, LifeTyped,
     StartTyped, Life!Role, Single, Places, Phases, Life!Early, Life!Teardown,
     Life!Starting, Life!Alive, TakeInv
<1>4. ASSUME ~overlap' PROVE LatestAlone' /\ LatestKept'
  <2>1. ~overlap /\ LatestAlone /\ LatestKept /\ \A q \in LifeServer : Single(q)
    BY <1>4 DEF TakeInv, Life!FinishStart
  <2>2. LatestAlone'
    BY <1>1, <2>1 DEF Single, LatestAlone, Life!StartingUp, Life!Alive,
       Life!FinishStart, Life!Worker, Life!Raise, LifeTyped, StartTyped,
       Life!Role, Places, Phases, Life!Early, Life!Teardown, Life!Starting
  <2>3. ASSUME last' # None, last' \notin life_left' PROVE Undisturbed' /\ Room' /\ NetworkComes'
    BY <1>1, <2>1, <2>3 DEF Single, LatestAlone, Life!StartingUp, LatestKept,
       Undisturbed, Room, NetworkComes, Life!FinishStart, Life!Worker, Life!Raise,
       LifeTyped, StartTyped, Life!Role, Places, Phases, Life!Early,
       Life!Teardown, Life!Starting, Life!Alive
  <2> QED
    BY <2>2, <2>3 DEF LatestKept
<1> QED
  BY <1>2, <1>3, <1>4 DEF TakeInv

LEMMA JobStartsTakes ==
  ASSUME DownInv, TakeInv, NEW p \in LifeServer, Life!JobStarts(p)
  PROVE  TakeInv'
<1>1. LifeTyped /\ StartTyped
  BY DEF DownInv, TakeInv
<1>2. StartTyped'
  BY <1>1 DEF Life!JobStarts, LifeTyped, StartTyped, Life!Role, Life!Alive
<1>3. ASSUME NEW q \in LifeServer PROVE Single(q)'
  BY <1>1, <1>3 DEF Life!JobStarts, LifeTyped, StartTyped, Life!Role, Single,
     Places, Phases, Life!Early, Life!Teardown, Life!Starting, Life!Alive, TakeInv
<1>4. ASSUME ~overlap' PROVE LatestAlone' /\ LatestKept'
  <2>1. ~overlap /\ LatestAlone /\ LatestKept /\ \A q \in LifeServer : Single(q)
    BY <1>4 DEF TakeInv, Life!JobStarts
  <2>2. LatestAlone'
    BY <1>1, <2>1 DEF Single, LatestAlone, Life!StartingUp, Life!Alive,
       Life!JobStarts, LifeTyped, StartTyped, Life!Role, Places, Phases,
       Life!Early, Life!Teardown, Life!Starting
  <2>3. ASSUME last' # None, last' \notin life_left' PROVE Undisturbed' /\ Room' /\ NetworkComes'
    BY <1>1, <2>1, <2>3 DEF Single, LatestAlone, Life!StartingUp, LatestKept,
       Undisturbed, Room, NetworkComes, Life!JobStarts, LifeTyped, StartTyped,
       Life!Role, Places, Phases, Life!Early, Life!Teardown, Life!Starting,
       Life!Alive
  <2> QED
    BY <2>2, <2>3 DEF LatestKept
<1> QED
  BY <1>2, <1>3, <1>4 DEF TakeInv

LEMMA JobEndsTakes ==
  ASSUME DownInv, TakeInv, NEW p \in LifeServer, Life!JobEnds(p)
  PROVE  TakeInv'
<1>1. LifeTyped /\ StartTyped
  BY DEF DownInv, TakeInv
<1>2. StartTyped'
  BY <1>1 DEF Life!JobEnds, Life!Raise, LifeTyped, StartTyped, Life!Role, Life!Alive
<1>3. ASSUME NEW q \in LifeServer PROVE Single(q)'
  BY <1>1, <1>3 DEF Life!JobEnds, Life!Raise, LifeTyped, StartTyped, Life!Role,
     Single, Places, Phases, Life!Early, Life!Teardown, Life!Starting, Life!Alive,
     TakeInv
<1>4. ASSUME ~overlap' PROVE LatestAlone' /\ LatestKept'
  <2>1. ~overlap /\ LatestAlone /\ LatestKept /\ \A q \in LifeServer : Single(q)
    BY <1>4 DEF TakeInv, Life!JobEnds
  <2>2. LatestAlone'
    BY <1>1, <2>1 DEF Single, LatestAlone, Life!StartingUp, Life!Alive,
       Life!JobEnds, Life!Raise, LifeTyped, StartTyped, Life!Role, Places, Phases,
       Life!Early, Life!Teardown, Life!Starting
  <2>3. ASSUME last' # None, last' \notin life_left' PROVE Undisturbed' /\ Room' /\ NetworkComes'
    BY <1>1, <2>1, <2>3 DEF Single, LatestAlone, Life!StartingUp, LatestKept,
       Undisturbed, Room, NetworkComes, Life!JobEnds, Life!Raise, LifeTyped,
       StartTyped, Life!Role, Places, Phases, Life!Early, Life!Teardown,
       Life!Starting, Life!Alive
  <2> QED
    BY <2>2, <2>3 DEF LatestKept
<1> QED
  BY <1>2, <1>3, <1>4 DEF TakeInv

LEMMA UserStopsTakes ==
  ASSUME DownInv, TakeInv, NEW p \in LifeServer, Life!UserStops(p)
  PROVE  TakeInv'
<1>1. LifeTyped /\ StartTyped
  BY DEF DownInv, TakeInv
<1>2. StartTyped'
  BY <1>1 DEF Life!UserStops, LifeTyped, StartTyped, Life!Role, Life!Alive
<1>3. ASSUME NEW q \in LifeServer PROVE Single(q)'
  BY <1>1, <1>3 DEF Life!UserStops, LifeTyped, StartTyped, Life!Role, Single,
     Places, Phases, Life!Early, Life!Teardown, Life!Starting, Life!Alive, TakeInv
<1>4. ASSUME ~overlap' PROVE LatestAlone' /\ LatestKept'
  <2>1. ~overlap /\ LatestAlone /\ LatestKept /\ \A q \in LifeServer : Single(q)
    BY <1>4 DEF TakeInv, Life!UserStops
  <2>2. LatestAlone'
    BY <1>1, <2>1 DEF Single, LatestAlone, Life!StartingUp, Life!Alive,
       Life!UserStops, LifeTyped, StartTyped, Life!Role, Places, Phases,
       Life!Early, Life!Teardown, Life!Starting
  <2>3. ASSUME last' # None, last' \notin life_left' PROVE Undisturbed' /\ Room' /\ NetworkComes'
    BY <1>1, <2>1, <2>3 DEF Single, LatestAlone, Life!StartingUp, LatestKept,
       Undisturbed, Room, NetworkComes, Life!UserStops, LifeTyped, StartTyped,
       Life!Role, Places, Phases, Life!Early, Life!Teardown, Life!Starting,
       Life!Alive
  <2> QED
    BY <2>2, <2>3 DEF LatestKept
<1> QED
  BY <1>2, <1>3, <1>4 DEF TakeInv

LEMMA StopLoopTakes ==
  ASSUME DownInv, TakeInv, NEW p \in LifeServer, Life!StopLoop(p)
  PROVE  TakeInv'
<1>1. LifeTyped /\ StartTyped
  BY DEF DownInv, TakeInv
<1>2. StartTyped'
  BY <1>1 DEF Life!StopLoop, Life!Main, LifeTyped, StartTyped, Life!Role, Life!Alive
<1>3. ASSUME NEW q \in LifeServer PROVE Single(q)'
  BY <1>1, <1>3 DEF Life!StopLoop, Life!Main, LifeTyped, StartTyped, Life!Role,
     Single, Places, Phases, Life!Early, Life!Teardown, Life!Starting, Life!Alive,
     TakeInv
<1>4. ASSUME ~overlap' PROVE LatestAlone' /\ LatestKept'
  <2>1. ~overlap /\ LatestAlone /\ LatestKept /\ \A q \in LifeServer : Single(q)
    BY <1>4 DEF TakeInv, Life!StopLoop
  <2>2. LatestAlone'
    BY <1>1, <2>1 DEF Single, LatestAlone, Life!StartingUp, Life!Alive,
       Life!StopLoop, Life!Main, LifeTyped, StartTyped, Life!Role, Places, Phases,
       Life!Early, Life!Teardown, Life!Starting
  <2>3. ASSUME last' # None, last' \notin life_left' PROVE Undisturbed' /\ Room' /\ NetworkComes'
    BY <1>1, <2>1, <2>3 DEF Single, LatestAlone, Life!StartingUp, LatestKept,
       Undisturbed, Room, NetworkComes, Life!StopLoop, Life!Main, LifeTyped,
       StartTyped, Life!Role, Places, Phases, Life!Early, Life!Teardown,
       Life!Starting, Life!Alive
  <2> QED
    BY <2>2, <2>3 DEF LatestKept
<1> QED
  BY <1>2, <1>3, <1>4 DEF TakeInv

LEMMA BeaconDownTakes ==
  ASSUME DownInv, TakeInv, NEW p \in LifeServer, Life!BeaconDown(p)
  PROVE  TakeInv'
<1>1. LifeTyped /\ StartTyped
  BY DEF DownInv, TakeInv
<1>2. StartTyped'
  BY <1>1 DEF Life!BeaconDown, Life!Lower, Life!Main, LifeTyped, StartTyped,
     Life!Role, Life!Alive
<1>3. ASSUME NEW q \in LifeServer PROVE Single(q)'
  BY <1>1, <1>3 DEF Life!BeaconDown, Life!Lower, Life!Main, LifeTyped, StartTyped,
     Life!Role, Single, Places, Phases, Life!Early, Life!Teardown, Life!Starting,
     Life!Alive, TakeInv
<1>4. ASSUME ~overlap' PROVE LatestAlone' /\ LatestKept'
  <2>1. ~overlap /\ LatestAlone /\ LatestKept /\ \A q \in LifeServer : Single(q)
    BY <1>4 DEF TakeInv, Life!BeaconDown
  <2>2. LatestAlone'
    BY <1>1, <2>1 DEF Single, LatestAlone, Life!StartingUp, Life!Alive,
       Life!BeaconDown, Life!Lower, Life!Main, LifeTyped, StartTyped, Life!Role,
       Places, Phases, Life!Early, Life!Teardown, Life!Starting
  <2>3. ASSUME last' # None, last' \notin life_left' PROVE Undisturbed' /\ Room' /\ NetworkComes'
    BY <1>1, <2>1, <2>3 DEF Single, LatestAlone, Life!StartingUp, LatestKept,
       Undisturbed, Room, NetworkComes, Life!BeaconDown, Life!Lower, Life!Main,
       LifeTyped, StartTyped, Life!Role, Places, Phases, Life!Early,
       Life!Teardown, Life!Starting, Life!Alive
  <2> QED
    BY <2>2, <2>3 DEF LatestKept
<1> QED
  BY <1>2, <1>3, <1>4 DEF TakeInv

LEMMA DiscoveryDownTakes ==
  ASSUME DownInv, TakeInv, NEW p \in LifeServer, Life!DiscoveryDown(p)
  PROVE  TakeInv'
<1>1. LifeTyped /\ StartTyped
  BY DEF DownInv, TakeInv
<1>2. StartTyped'
  BY <1>1 DEF Life!DiscoveryDown, Life!Lower, Life!Main, LifeTyped, StartTyped,
     Life!Role, Life!Alive
<1>3. ASSUME NEW q \in LifeServer PROVE Single(q)'
  BY <1>1, <1>3 DEF Life!DiscoveryDown, Life!Lower, Life!Main, LifeTyped,
     StartTyped, Life!Role, Single, Places, Phases, Life!Early, Life!Teardown,
     Life!Starting, Life!Alive, TakeInv
<1>4. ASSUME ~overlap' PROVE LatestAlone' /\ LatestKept'
  <2>1. ~overlap /\ LatestAlone /\ LatestKept /\ \A q \in LifeServer : Single(q)
    BY <1>4 DEF TakeInv, Life!DiscoveryDown
  <2>2. LatestAlone'
    BY <1>1, <2>1 DEF Single, LatestAlone, Life!StartingUp, Life!Alive,
       Life!DiscoveryDown, Life!Lower, Life!Main, LifeTyped, StartTyped,
       Life!Role, Places, Phases, Life!Early, Life!Teardown, Life!Starting
  <2>3. ASSUME last' # None, last' \notin life_left' PROVE Undisturbed' /\ Room' /\ NetworkComes'
    BY <1>1, <2>1, <2>3 DEF Single, LatestAlone, Life!StartingUp, LatestKept,
       Undisturbed, Room, NetworkComes, Life!DiscoveryDown, Life!Lower, Life!Main,
       LifeTyped, StartTyped, Life!Role, Places, Phases, Life!Early,
       Life!Teardown, Life!Starting, Life!Alive
  <2> QED
    BY <2>2, <2>3 DEF LatestKept
<1> QED
  BY <1>2, <1>3, <1>4 DEF TakeInv

LEMMA BackendDownTakes ==
  ASSUME DownInv, TakeInv, NEW p \in LifeServer, Life!BackendDown(p)
  PROVE  TakeInv'
<1>1. LifeTyped /\ StartTyped
  BY DEF DownInv, TakeInv
<1>2. StartTyped'
  BY <1>1 DEF Life!BackendDown, Life!Lower, Life!Main, LifeTyped, StartTyped,
     Life!Role, Life!Alive
<1>3. ASSUME NEW q \in LifeServer PROVE Single(q)'
  BY <1>1, <1>3 DEF Life!BackendDown, Life!Lower, Life!Main, LifeTyped,
     StartTyped, Life!Role, Single, Places, Phases, Life!Early, Life!Teardown,
     Life!Starting, Life!Alive, TakeInv
<1>4. ASSUME ~overlap' PROVE LatestAlone' /\ LatestKept'
  <2>1. ~overlap /\ LatestAlone /\ LatestKept /\ \A q \in LifeServer : Single(q)
    BY <1>4 DEF TakeInv, Life!BackendDown
  <2>2. LatestAlone'
    BY <1>1, <2>1 DEF Single, LatestAlone, Life!StartingUp, Life!Alive,
       Life!BackendDown, Life!Lower, Life!Main, LifeTyped, StartTyped, Life!Role,
       Places, Phases, Life!Early, Life!Teardown, Life!Starting
  <2>3. ASSUME last' # None, last' \notin life_left' PROVE Undisturbed' /\ Room' /\ NetworkComes'
    BY <1>1, <2>1, <2>3 DEF Single, LatestAlone, Life!StartingUp, LatestKept,
       Undisturbed, Room, NetworkComes, Life!BackendDown, Life!Lower, Life!Main,
       LifeTyped, StartTyped, Life!Role, Places, Phases, Life!Early,
       Life!Teardown, Life!Starting, Life!Alive
  <2> QED
    BY <2>2, <2>3 DEF LatestKept
<1> QED
  BY <1>2, <1>3, <1>4 DEF TakeInv

LEMMA RnsDownTakes ==
  ASSUME DownInv, TakeInv, NEW p \in LifeServer, Life!RnsDown(p)
  PROVE  TakeInv'
<1>1. LifeTyped /\ StartTyped
  BY DEF DownInv, TakeInv
<1>2. StartTyped'
  BY <1>1 DEF Life!RnsDown, Life!Lower, Life!Main, LifeTyped, StartTyped,
     Life!Role, Life!Alive
<1>3. ASSUME NEW q \in LifeServer PROVE Single(q)'
  BY <1>1, <1>3 DEF Life!RnsDown, Life!Lower, Life!Main, LifeTyped, StartTyped,
     Life!Role, Single, Places, Phases, Life!Early, Life!Teardown, Life!Starting,
     Life!Alive, TakeInv
<1>4. ASSUME ~overlap' PROVE LatestAlone' /\ LatestKept'
  <2>1. ~overlap /\ LatestAlone /\ LatestKept /\ \A q \in LifeServer : Single(q)
    BY <1>4 DEF TakeInv, Life!RnsDown
  <2>2. LatestAlone'
    BY <1>1, <2>1 DEF Single, LatestAlone, Life!StartingUp, Life!Alive,
       Life!RnsDown, Life!Lower, Life!Main, LifeTyped, StartTyped, Life!Role,
       Places, Phases, Life!Early, Life!Teardown, Life!Starting
  <2>3. ASSUME last' # None, last' \notin life_left' PROVE Undisturbed' /\ Room' /\ NetworkComes'
    BY <1>1, <2>1, <2>3 DEF Single, LatestAlone, Life!StartingUp, LatestKept,
       Undisturbed, Room, NetworkComes, Life!RnsDown, Life!Lower, Life!Main,
       LifeTyped, StartTyped, Life!Role, Places, Phases, Life!Early,
       Life!Teardown, Life!Starting, Life!Alive
  <2> QED
    BY <2>2, <2>3 DEF LatestKept
<1> QED
  BY <1>2, <1>3, <1>4 DEF TakeInv

LEMMA ClosingTakes ==
  ASSUME DownInv, TakeInv, NEW p \in LifeServer, Life!Closing(p)
  PROVE  TakeInv'
<1>1. LifeTyped /\ StartTyped
  BY DEF DownInv, TakeInv
<1>2. StartTyped'
  BY <1>1 DEF Life!Closing, Life!Lower, Life!Main, Life!Busy, Life!CleanupFrom,
     LifeTyped, StartTyped, Life!Role, Life!Alive
<1>3. ASSUME NEW q \in LifeServer PROVE Single(q)'
  BY <1>1, <1>3 DEF Life!Closing, Life!Lower, Life!Main, Life!Busy,
     Life!CleanupFrom, LifeTyped, StartTyped, Life!Role, Single, Places, Phases,
     Life!Early, Life!Teardown, Life!Starting, Life!Alive, TakeInv
<1>4. ASSUME ~overlap' PROVE LatestAlone' /\ LatestKept'
  <2>1. ~overlap /\ LatestAlone /\ LatestKept /\ \A q \in LifeServer : Single(q)
    BY <1>4 DEF TakeInv, Life!Closing
  <2>2. LatestAlone'
    BY <1>1, <2>1 DEF Single, LatestAlone, Life!StartingUp, Life!Alive,
       Life!Closing, Life!Lower, Life!Main, Life!Busy, Life!CleanupFrom,
       LifeTyped, StartTyped, Life!Role, Places, Phases, Life!Early,
       Life!Teardown, Life!Starting
  <2>3. ASSUME last' # None, last' \notin life_left' PROVE Undisturbed' /\ Room' /\ NetworkComes'
    BY <1>1, <2>1, <2>3 DEF Single, LatestAlone, Life!StartingUp, LatestKept,
       Undisturbed, Room, NetworkComes, Life!Closing, Life!Lower, Life!Main,
       Life!Busy, Life!CleanupFrom, LifeTyped, StartTyped, Life!Role, Places,
       Phases, Life!Early, Life!Teardown, Life!Starting, Life!Alive
  <2> QED
    BY <2>2, <2>3 DEF LatestKept
<1> QED
  BY <1>2, <1>3, <1>4 DEF TakeInv

LEMMA MainKilledTakes ==
  ASSUME DownInv, TakeInv, NEW p \in LifeServer, Life!MainKilled(p)
  PROVE  TakeInv'
<1>1. LifeTyped /\ StartTyped
  BY DEF DownInv, TakeInv
<1>2. StartTyped'
  BY <1>1 DEF Life!MainKilled, Life!Killed, Life!Die, Life!Idle, LifeTyped,
     StartTyped, Life!Role, Life!Alive
<1>3. ASSUME NEW q \in LifeServer PROVE Single(q)'
  BY <1>1, <1>3 DEF Life!MainKilled, Life!Killed, Life!Die, Life!Idle, LifeTyped,
     StartTyped, Life!Role, Single, Places, Phases, Life!Early, Life!Teardown,
     Life!Starting, Life!Alive, TakeInv
<1>4. ASSUME ~overlap' PROVE LatestAlone' /\ LatestKept'
  <2>1. ~overlap /\ LatestAlone /\ LatestKept /\ \A q \in LifeServer : Single(q)
    BY <1>4 DEF TakeInv, Life!MainKilled, Life!Killed, Life!Die
  <2>2. LatestAlone'
    BY <1>1, <2>1 DEF Single, LatestAlone, Life!StartingUp, Life!Alive,
       Life!MainKilled, Life!Killed, Life!Die, Life!Idle, LifeTyped, StartTyped,
       Life!Role, Places, Phases, Life!Early, Life!Teardown, Life!Starting
  <2>3. ASSUME last' # None, last' \notin life_left' PROVE Undisturbed' /\ Room' /\ NetworkComes'
    BY <1>1, <2>1, <2>3 DEF Single, LatestAlone, Life!StartingUp, LatestKept,
       Undisturbed, Room, NetworkComes, Life!MainKilled, Life!Killed, Life!Die,
       Life!Idle, LifeTyped, StartTyped, Life!Role, Places, Phases, Life!Early,
       Life!Teardown, Life!Starting, Life!Alive
  <2> QED
    BY <2>2, <2>3 DEF LatestKept
<1> QED
  BY <1>2, <1>3, <1>4 DEF TakeInv

LEMMA WorkerKilledTakes ==
  ASSUME DownInv, TakeInv, NEW p \in LifeServer, Life!WorkerKilled(p)
  PROVE  TakeInv'
<1>1. LifeTyped /\ StartTyped
  BY DEF DownInv, TakeInv
<1>2. StartTyped'
  BY <1>1 DEF Life!WorkerKilled, Life!Killed, Life!Die, Life!Idle, LifeTyped,
     StartTyped, Life!Role, Life!Alive
<1>3. ASSUME NEW q \in LifeServer PROVE Single(q)'
  BY <1>1, <1>3 DEF Life!WorkerKilled, Life!Killed, Life!Die, Life!Idle,
     LifeTyped, StartTyped, Life!Role, Single, Places, Phases, Life!Early,
     Life!Teardown, Life!Starting, Life!Alive, TakeInv
<1>4. ASSUME ~overlap' PROVE LatestAlone' /\ LatestKept'
  <2>1. ~overlap /\ LatestAlone /\ LatestKept /\ \A q \in LifeServer : Single(q)
    BY <1>4 DEF TakeInv, Life!WorkerKilled, Life!Killed, Life!Die
  <2>2. LatestAlone'
    BY <1>1, <2>1 DEF Single, LatestAlone, Life!StartingUp, Life!Alive,
       Life!WorkerKilled, Life!Killed, Life!Die, Life!Idle, LifeTyped, StartTyped,
       Life!Role, Places, Phases, Life!Early, Life!Teardown, Life!Starting
  <2>3. ASSUME last' # None, last' \notin life_left' PROVE Undisturbed' /\ Room' /\ NetworkComes'
    BY <1>1, <2>1, <2>3 DEF Single, LatestAlone, Life!StartingUp, LatestKept,
       Undisturbed, Room, NetworkComes, Life!WorkerKilled, Life!Killed, Life!Die,
       Life!Idle, LifeTyped, StartTyped, Life!Role, Places, Phases, Life!Early,
       Life!Teardown, Life!Starting, Life!Alive
  <2> QED
    BY <2>2, <2>3 DEF LatestKept
<1> QED
  BY <1>2, <1>3, <1>4 DEF TakeInv

LEMMA SignalKillsTakes ==
  ASSUME DownInv, TakeInv, NEW p \in LifeServer, Life!SignalKills(p)
  PROVE  TakeInv'
<1>1. LifeTyped /\ StartTyped
  BY DEF DownInv, TakeInv
<1>2. StartTyped'
  BY <1>1 DEF Life!SignalKills, Life!Die, Life!Idle, LifeTyped, StartTyped,
     Life!Role, Life!Alive
<1>3. ASSUME NEW q \in LifeServer PROVE Single(q)'
  BY <1>1, <1>3 DEF Life!SignalKills, Life!Die, Life!Idle, LifeTyped, StartTyped,
     Life!Role, Single, Places, Phases, Life!Early, Life!Teardown, Life!Starting,
     Life!Alive, TakeInv
<1>4. ASSUME ~overlap' PROVE LatestAlone' /\ LatestKept'
  <2>1. ~overlap /\ LatestAlone /\ LatestKept /\ \A q \in LifeServer : Single(q)
    BY <1>4 DEF TakeInv, Life!SignalKills, Life!Die
  <2>2. LatestAlone'
    BY <1>1, <2>1 DEF Single, LatestAlone, Life!StartingUp, Life!Alive,
       Life!SignalKills, Life!Die, Life!Idle, LifeTyped, StartTyped, Life!Role,
       Places, Phases, Life!Early, Life!Teardown, Life!Starting
  <2>3. ASSUME last' # None, last' \notin life_left' PROVE Undisturbed' /\ Room' /\ NetworkComes'
    BY <1>1, <2>1, <2>3 DEF Single, LatestAlone, Life!StartingUp, LatestKept,
       Undisturbed, Room, NetworkComes, Life!SignalKills, Life!Die, Life!Idle,
       LifeTyped, StartTyped, Life!Role, Places, Phases, Life!Early,
       Life!Teardown, Life!Starting, Life!Alive
  <2> QED
    BY <2>2, <2>3 DEF LatestKept
<1> QED
  BY <1>2, <1>3, <1>4 DEF TakeInv

LEMMA ExitTakes ==
  ASSUME DownInv, TakeInv, NEW p \in LifeServer, Life!Exit(p)
  PROVE  TakeInv'
<1>1. LifeTyped /\ StartTyped
  BY DEF DownInv, TakeInv
<1>2. StartTyped'
  BY <1>1 DEF Life!Exit, Life!Die, Life!Idle, LifeTyped, StartTyped, Life!Role,
     Life!Alive
<1>3. ASSUME NEW q \in LifeServer PROVE Single(q)'
  BY <1>1, <1>3 DEF Life!Exit, Life!Die, Life!Idle, LifeTyped, StartTyped,
     Life!Role, Single, Places, Phases, Life!Early, Life!Teardown, Life!Starting,
     Life!Alive, TakeInv
<1>4. ASSUME ~overlap' PROVE LatestAlone' /\ LatestKept'
  <2>1. ~overlap /\ LatestAlone /\ LatestKept /\ \A q \in LifeServer : Single(q)
    BY <1>4 DEF TakeInv, Life!Exit, Life!Die
  <2>2. LatestAlone'
    BY <1>1, <2>1 DEF Single, LatestAlone, Life!StartingUp, Life!Alive, Life!Exit,
       Life!Die, Life!Idle, LifeTyped, StartTyped, Life!Role, Places, Phases,
       Life!Early, Life!Teardown, Life!Starting
  <2>3. ASSUME last' # None, last' \notin life_left' PROVE Undisturbed' /\ Room' /\ NetworkComes'
    BY <1>1, <2>1, <2>3 DEF Single, LatestAlone, Life!StartingUp, LatestKept,
       Undisturbed, Room, NetworkComes, Life!Exit, Life!Die, Life!Idle, LifeTyped,
       StartTyped, Life!Role, Places, Phases, Life!Early, Life!Teardown,
       Life!Starting, Life!Alive
  <2> QED
    BY <2>2, <2>3 DEF LatestKept
<1> QED
  BY <1>2, <1>3, <1>4 DEF TakeInv

LEMMA TakeKept == DownInv /\ TakeInv /\ [Next]_vars => TakeInv'
<1> SUFFICES ASSUME DownInv, TakeInv, [Next]_vars PROVE TakeInv'
  OBVIOUS
<1>1. ASSUME NEW p \in LifeServer,
             Life!Launch(p) \/ Life!Prepare(p) \/ Life!Setup(p) \/ Life!Bind(p) \/
               Life!AnyPorts(p) \/ Life!Recheck(p) \/ Life!StartReticulum(p) \/ Life!MakePart(p) \/
               Life!StartBackend(p) \/ Life!StartDiscovery(p) \/ Life!StartBeacon(p) \/ Life!FinishStart(p) \/
               Life!JobStarts(p) \/ Life!JobEnds(p) \/ Life!UserStops(p) \/ Life!StopLoop(p) \/
               Life!BeaconDown(p) \/ Life!DiscoveryDown(p) \/ Life!BackendDown(p) \/ Life!RnsDown(p) \/
               Life!Closing(p) \/ Life!MainKilled(p) \/ Life!WorkerKilled(p) \/ Life!SignalKills(p) \/
               Life!Exit(p)
      PROVE  TakeInv'
  BY <1>1, LaunchTakes, PrepareTakes, SetupTakes, BindTakes, AnyPortsTakes,
     RecheckTakes, StartReticulumTakes, MakePartTakes, StartBackendTakes,
     StartDiscoveryTakes, StartBeaconTakes, FinishStartTakes, JobStartsTakes,
     JobEndsTakes, UserStopsTakes, StopLoopTakes, BeaconDownTakes,
     DiscoveryDownTakes, BackendDownTakes, RnsDownTakes, ClosingTakes,
     MainKilledTakes, WorkerKilledTakes, SignalKillsTakes, ExitTakes
<1>2. CASE UNCHANGED Life!vars
  BY <1>2 DEF Life!vars, TakeInv, StartTyped, Single, LatestAlone, LatestKept,
     Life!StartingUp,
     Life!Alive, Undisturbed, Room, NetworkComes
<1> QED
  BY <1>1, <1>2, LifeSteps DEF Life!Next

\* A launch takes over (_prepare_listen_ports and start_rns, web/server.py and
\* rns_lifecycle.py): at rest the latest server the user has not stopped is the only
\* one, and its network is up unless another program has the port - for any number
\* of servers, forced or not, unless two were starting at once.
THEOREM LatestTakesOver == Spec => []LastTakesOver
<1>1. Init => DownInv /\ TakeInv
  BY LifeStart, TakeStart DEF Init
<1>2. DownInv /\ TakeInv /\ [Next]_vars => DownInv' /\ TakeInv'
  BY DownKept, TakeKept
<1>3. DownInv /\ TakeInv => LastTakesOver
  <2> SUFFICES ASSUME DownInv, TakeInv, Life!AtRest, last # None, last \notin life_left, ~overlap
               PROVE  Life!Alive = {last} /\ (worker[last] = "done" \/ foreign)
    BY DEF LastTakesOver, Life!LastTakesOver
  <2>1. LifeTyped /\ last \in LifeServer /\ Undisturbed /\ Room /\ NetworkComes /\ \A q \in LifeServer : Single(q)
    BY DEF DownInv, TakeInv, StartTyped, LatestKept
  <2>2. last \in Life!Alive /\ main[last] = "serve"
    BY <2>1 DEF Undisturbed, Life!AtRest, Life!Alive, Life!Early
  <2>3. ASSUME NEW q \in Life!Alive PROVE q = last
    BY <2>1, <2>2, <2>3 DEF Life!AtRest, Life!Alive, Single, Room
  <2>4. worker[last] = "done" \/ foreign
    BY <2>1, <2>2 DEF Life!AtRest, Life!Busy, Single, NetworkComes, LifeTyped,
       Phases
  <2> QED
    BY <2>2, <2>3, <2>4
<1> QED
  BY <1>1, <1>2, <1>3, PTL DEF Spec

-----------------------------------------------------------------------------
\* A step between nodes is a step of each component, or leaves it alone.
LEMMA HubSteps == [Next]_vars => [Hub!Next]_(Hub!vars)
  BY DEF Next, vars, HubMoves, OfferMoves, DialMoves, ShareMoves, LifeMoves,
     HubVars, Hub!vars

-----------------------------------------------------------------------------
(* The hub's relay (HubGroup)                                                  *)

Relay == [msg: Msg, stamp: Nat, sender: Client \union {Unknown},
          pc: {"start", "loop"}, todo: SUBSET Client, steady: SUBSET Client]
Shown == [msg: Msg, stamp: Nat, how: {"own", "relay", "sync"}]
Sent == [client: Client, up: BOOLEAN, msg: Msg, stamp: Nat]
Since == {Hub!Newest(S) : S \in SUBSET Shown} \union {0}
Asked == [pc: {"idle", "asked", "answered", "done"}, since: Since, batch: SUBSET Shown, had: SUBSET Msg]
RelaysTyped ==
  /\ hub_known \subseteq linked /\ linked \subseteq Client
  /\ rows \in [Hub!Node -> SUBSET Shown]
  /\ hub_wire \subseteq Sent
  /\ relays \subseteq Relay /\ clock \in Nat
  /\ sync \in [Client -> Asked]

\* Whoever stayed steadily linked is still known now.
SteadyAreKnown == \A r \in relays : r.steady \subseteq hub_known
HearsInv == RelaysTyped /\ SteadyAreKnown /\ Hub!SteadyHears

LEMMA HubStart == Hub!Init => HearsInv
  BY DEF Hub!Init, HearsInv, RelaysTyped, SteadyAreKnown, Hub!SteadyHears,
     Hub!IdleSync, Asked, Since, Hub!Node

LEMMA LinkHears ==
  ASSUME HearsInv, NEW c \in Client, Hub!LinkUp(c) \/ Hub!Identify(c) 
  PROVE  HearsInv'
<1>1. RelaysTyped'
  BY DEF HearsInv, RelaysTyped, Hub!LinkUp, Hub!Identify
<1>2. (SteadyAreKnown /\ Hub!SteadyHears)'
  BY DEF HearsInv, SteadyAreKnown, Hub!LinkUp, Hub!Identify, Hub!SteadyHears
<1> QED
  BY <1>1, <1>2 DEF HearsInv


\* What the client has, has in flight or has lost of a relayed text.
Heard(r, c) ==
  \/ AuthorOf[r.msg] = c
  \/ <<c, r.stamp>> \in lost
  \/ \E p \in hub_wire : p.client = c /\ ~p.up /\ p.stamp = r.stamp
  \/ \E q \in rows[c] : q.stamp = r.stamp /\ q.how = "relay"

LEMMA LinkDownHears ==
  ASSUME HearsInv, NEW c \in Client, Hub!LinkDown(c)
  PROVE  HearsInv'
<1> USE DEF Hub!LinkDown, Hub!Fault
<1>1. RelaysTyped'
  BY DEF HearsInv, RelaysTyped, Relay
<1>2. SteadyAreKnown'
  BY DEF HearsInv, SteadyAreKnown, RelaysTyped, Relay
<1>3. ASSUME NEW r \in relays', NEW d \in r.steady \ {r.sender}
      PROVE  r.pc = "start" \/ d \in r.todo \/ Heard(r, d)'
  <2>1. PICK q \in relays : r = [q EXCEPT !.steady = q.steady \ {c}]
    OBVIOUS
  <2>2. /\ r.pc = q.pc /\ r.todo = q.todo /\ r.sender = q.sender /\ r.msg = q.msg /\ r.stamp = q.stamp
        /\ d \in q.steady \ {q.sender} /\ d # c
    BY <2>1 DEF HearsInv, RelaysTyped, Relay
  <2>3. q.pc = "start" \/ d \in q.todo \/ Heard(q, d)
    BY <2>2 DEF HearsInv, Hub!SteadyHears, Heard
  <2>4. rows' = rows /\ lost \subseteq lost' /\ \A p \in hub_wire : p.client # c => p \in hub_wire'
    OBVIOUS
  <2>5. Heard(q, d) => Heard(r, d)'
    BY <2>2, <2>4 DEF Heard
  <2> QED
    BY <2>2, <2>3, <2>5
<1>4. Hub!SteadyHears'
  BY <1>3 DEF Hub!SteadyHears, Heard
<1> QED
  BY <1>1, <1>2, <1>4 DEF HearsInv

LEMMA LoseHears ==
  ASSUME HearsInv, NEW p \in hub_wire, Hub!Lose(p)
  PROVE  HearsInv'
<1> USE DEF Hub!Lose, Hub!Fault
<1>1. (RelaysTyped /\ SteadyAreKnown)'
  BY DEF HearsInv, RelaysTyped, SteadyAreKnown
<1>2. ASSUME NEW r \in relays, NEW c \in r.steady \ {r.sender}
      PROVE  r.pc = "start" \/ c \in r.todo \/ Heard(r, c)'
  <2>1. r.pc = "start" \/ c \in r.todo \/ Heard(r, c)
    BY DEF HearsInv, Hub!SteadyHears, Heard
  <2>2. lost \subseteq lost' /\ rows' = rows
    OBVIOUS
  <2>3. Heard(r, c) => Heard(r, c)'
    BY <2>2 DEF Heard
  <2> QED
    BY <2>1, <2>3
<1>3. Hub!SteadyHears'
  BY <1>2 DEF Hub!SteadyHears, Heard, Hub!Lose
<1> QED
  BY <1>1, <1>3 DEF HearsInv

\* Nobody unhears: rows of a relay, packets and losses stay.
LEMMA HearingStays ==
  ASSUME HearsInv, relays' = relays, lost' = lost, hub_wire \subseteq hub_wire',
         \A c \in Client : \A q \in rows[c] : q.how = "relay" => q \in rows'[c]
  PROVE  Hub!SteadyHears'
<1>1. ASSUME NEW r \in relays, NEW c \in r.steady \ {r.sender}
      PROVE  r.pc = "start" \/ c \in r.todo \/ Heard(r, c)'
  <2>1. r.pc = "start" \/ c \in r.todo \/ Heard(r, c)
    BY DEF HearsInv, Hub!SteadyHears, Heard
  <2>2. c \in Client
    BY DEF HearsInv, RelaysTyped, Relay
  <2>3. Heard(r, c) => Heard(r, c)'
    BY <2>2 DEF Heard
  <2> QED
    BY <2>1, <2>3
<1> QED
  BY <1>1 DEF Hub!SteadyHears, Heard

\* A client's own row in its own history.
LEMMA OwnRow ==
  ASSUME HearsInv, NEW c \in Client, NEW m \in Msg, NEW s \in Nat,
         rows' = [rows EXCEPT ![c] = Hub!Own(c, m, s)]
  PROVE  /\ rows' \in [Hub!Node -> SUBSET Shown]
         /\ \A d \in Client : \A q \in rows[d] : q.how = "relay" => q \in rows'[d]
<1>1. rows \in [Hub!Node -> SUBSET Shown] /\ c \in Hub!Node /\ Client \subseteq Hub!Node
  BY DEF HearsInv, RelaysTyped, Hub!Node
<1>2. [msg |-> m, stamp |-> s, how |-> "own"] \in Shown
  BY DEF Shown
<1>3. Hub!Own(c, m, s) \in SUBSET Shown
  BY <1>1, <1>2 DEF Hub!Own
<1>4. rows' \in [Hub!Node -> SUBSET Shown]
  BY <1>1, <1>3
<1>5. \A q \in rows[c] : q.how = "relay" => q \in Hub!Own(c, m, s)
  BY DEF Hub!Own
<1> QED
  BY <1>1, <1>4, <1>5

LEMMA SendHears ==
  ASSUME HearsInv, NEW c \in Client, NEW m \in Msg,
         \/ Hub!Send(c, m)
         \/ \E t \in Thread : Hub!DrainSend(c, t, m) \/ Hub!DrainKeep(c, t, m)
  PROVE  HearsInv'
<1>1. /\ \/ UNCHANGED rows
         \/ rows' = [rows EXCEPT ![c] = Hub!Own(c, m, clock)]
         \/ rows' = [rows EXCEPT ![c] = Hub!Own(c, m, clock + 1)]
      /\ \/ UNCHANGED hub_wire
         \/ hub_wire' = hub_wire \union {[client |-> c, up |-> TRUE, msg |-> m, stamp |-> clock + 1]}
      /\ clock' \in Nat /\ UNCHANGED <<linked, hub_known, relays, sync, lost>>
  <2>1. CASE Hub!SendLinked(c, m)
    BY <2>1 DEF Hub!SendLinked, Hub!Transmit, HearsInv, RelaysTyped
  <2>2. CASE Hub!SendQueued(c, m)
    BY <2>2 DEF Hub!SendQueued, HearsInv, RelaysTyped
  <2>3. ASSUME NEW t \in Thread, Hub!DrainSend(c, t, m)
        PROVE  /\ rows' = [rows EXCEPT ![c] = Hub!Own(c, m, clock + 1)]
               /\ hub_wire' = hub_wire \union {[client |-> c, up |-> TRUE, msg |-> m, stamp |-> clock + 1]}
               /\ clock' \in Nat /\ UNCHANGED <<linked, hub_known, relays, sync, lost>>
    <3>1. /\ rows' = [rows EXCEPT ![c] = Hub!Own(c, m, clock + 1)] /\ clock' = clock + 1
          /\ hub_wire' = hub_wire \union {[client |-> c, up |-> TRUE, msg |-> m, stamp |-> clock + 1]}
          /\ UNCHANGED <<linked, hub_known, relays, sync, lost>>
      BY <2>3 DEF Hub!DrainSend, Hub!Transmit
    <3> QED
      BY <3>1 DEF HearsInv, RelaysTyped
  <2>4. ASSUME NEW t \in Thread, Hub!DrainKeep(c, t, m)
        PROVE  UNCHANGED <<rows, hub_wire, clock, linked, hub_known, relays, sync, lost>>
    BY <2>4 DEF Hub!DrainKeep
  <2> QED
    <3>1. Hub!Send(c, m) => Hub!SendLinked(c, m) \/ Hub!SendQueued(c, m)
      BY DEF Hub!Send
    <3>2. clock \in Nat
      BY DEF HearsInv, RelaysTyped
    <3> QED
      BY <2>1, <2>2, <2>3, <2>4, <3>1, <3>2
<1>2. /\ rows' \in [Hub!Node -> SUBSET Shown]
      /\ \A d \in Client : \A q \in rows[d] : q.how = "relay" => q \in rows'[d]
  <2>1. CASE UNCHANGED rows
    BY <2>1 DEF HearsInv, RelaysTyped
  <2>2. CASE rows' = [rows EXCEPT ![c] = Hub!Own(c, m, clock)]
    BY <2>2, OwnRow DEF HearsInv, RelaysTyped
  <2>3. CASE rows' = [rows EXCEPT ![c] = Hub!Own(c, m, clock + 1)]
    <3>1. clock + 1 \in Nat
      BY DEF HearsInv, RelaysTyped
    <3> QED
      BY <2>3, <3>1, OwnRow
  <2> QED
    BY <1>1, <2>1, <2>2, <2>3
<1>3. hub_wire \subseteq hub_wire' /\ hub_wire' \subseteq Sent
  <2>1. [client |-> c, up |-> TRUE, msg |-> m, stamp |-> clock + 1] \in Sent
    BY DEF HearsInv, RelaysTyped, Sent
  <2> QED
    BY <1>1, <2>1 DEF HearsInv, RelaysTyped
<1>4. Hub!SteadyHears'
  BY <1>1, <1>2, <1>3, HearingStays
<1> QED
  BY <1>1, <1>2, <1>3, <1>4 DEF HearsInv, RelaysTyped, SteadyAreKnown

LEMMA DrainHears ==
  ASSUME HearsInv, NEW c \in Client, NEW t \in Thread, Hub!DrainStart(c, t) \/ Hub!DrainEnd(c, t)
  PROVE  HearsInv'
  BY DEF HearsInv, RelaysTyped, SteadyAreKnown, Hub!SteadyHears, Hub!DrainStart,
     Hub!DrainEnd


\* A row that arrives is added to what the node shows.
LEMMA ShownRow ==
  ASSUME HearsInv, NEW n \in Hub!Node, NEW p \in Sent, rows' = Hub!Showing(n, p)
  PROVE  /\ rows' \in [Hub!Node -> SUBSET Shown]
         /\ \A d \in Hub!Node : rows[d] \subseteq rows'[d]
         /\ [msg |-> p.msg, stamp |-> p.stamp, how |-> "relay"] \in rows'[n]
<1>1. rows \in [Hub!Node -> SUBSET Shown]
  BY DEF HearsInv, RelaysTyped
<1>2. [msg |-> p.msg, stamp |-> p.stamp, how |-> "relay"] \in Shown
  BY DEF Shown, Sent
<1> QED
  BY <1>1, <1>2 DEF Hub!Showing

LEMMA ServerReceiveHears ==
  ASSUME HearsInv, NEW p \in hub_wire, Hub!ServerReceive(p)
  PROVE  HearsInv'
<1>1. p \in Sent /\ HubServer \in Hub!Node /\ Client \subseteq Hub!Node
  BY DEF HearsInv, RelaysTyped, Hub!Node
<1>2. rows' = Hub!Showing(HubServer, p) /\ hub_wire' = hub_wire \ {p} /\ p.up
  BY DEF Hub!ServerReceive
<1>3. rows' \in [Hub!Node -> SUBSET Shown] /\ \A d \in Hub!Node : rows[d] \subseteq rows'[d]
  BY <1>1, <1>2, ShownRow
<1>4. DEFINE new == [msg |-> p.msg, stamp |-> p.stamp, sender |-> Hub!Sender(p),
                     pc |-> "start", todo |-> {}, steady |-> hub_known]
<1>5. new \in Relay
  BY <1>1 DEF Relay, Sent, Hub!Sender, HearsInv, RelaysTyped
<1>6. relays' = relays \union {new} /\ UNCHANGED <<linked, hub_known, sync, clock, lost>>
  BY DEF Hub!ServerReceive
<1>7. RelaysTyped'
  BY <1>2, <1>3, <1>5, <1>6 DEF HearsInv, RelaysTyped
<1>70. new.steady = hub_known /\ new.pc = "start"
  OBVIOUS
<1> HIDE DEF new
<1>71. SteadyAreKnown'
  BY <1>6, <1>70 DEF HearsInv, SteadyAreKnown
<1>8. ASSUME NEW r \in relays, NEW c \in r.steady \ {r.sender}
      PROVE  r.pc = "start" \/ c \in r.todo \/ Heard(r, c)'
  <2>1. r.pc = "start" \/ c \in r.todo \/ Heard(r, c)
    BY DEF HearsInv, Hub!SteadyHears, Heard
  <2>2. c \in Hub!Node
    BY DEF HearsInv, RelaysTyped, Relay, Hub!Node
  <2>3. Heard(r, c) => Heard(r, c)'
    BY <1>2, <1>3, <1>6, <2>2 DEF Heard
  <2> QED
    BY <2>1, <2>3
<1>9. Hub!SteadyHears'
  BY <1>6, <1>70, <1>8 DEF Hub!SteadyHears, Heard
<1> QED
  BY <1>7, <1>71, <1>9 DEF HearsInv

LEMMA ClientReceiveHears ==
  ASSUME HearsInv, NEW p \in hub_wire, Hub!ClientReceive(p)
  PROVE  HearsInv'
<1>1. p \in Sent /\ p.client \in Hub!Node /\ Client \subseteq Hub!Node
  BY DEF HearsInv, RelaysTyped, Hub!Node, Sent
<1>2. /\ rows' = Hub!Showing(p.client, p) /\ hub_wire' = hub_wire \ {p}
      /\ UNCHANGED <<linked, hub_known, relays, sync, clock, lost>>
  BY DEF Hub!ClientReceive
<1>3. /\ rows' \in [Hub!Node -> SUBSET Shown] /\ \A d \in Hub!Node : rows[d] \subseteq rows'[d]
      /\ [msg |-> p.msg, stamp |-> p.stamp, how |-> "relay"] \in rows'[p.client]
  BY <1>1, <1>2, ShownRow
<1>4. (RelaysTyped /\ SteadyAreKnown)'
  BY <1>2, <1>3 DEF HearsInv, RelaysTyped, SteadyAreKnown
<1>5. ASSUME NEW r \in relays, NEW c \in r.steady \ {r.sender}
      PROVE  r.pc = "start" \/ c \in r.todo \/ Heard(r, c)'
  <2>1. r.pc = "start" \/ c \in r.todo \/ Heard(r, c)
    BY DEF HearsInv, Hub!SteadyHears, Heard
  <2>2. c \in Hub!Node
    BY DEF HearsInv, RelaysTyped, Relay, Hub!Node
  <2>3. ASSUME NEW q \in hub_wire, q.client = c, ~q.up, q.stamp = r.stamp PROVE Heard(r, c)'
    BY <1>2, <1>3, <2>3 DEF Heard
  <2>4. Heard(r, c) => Heard(r, c)'
    BY <1>2, <1>3, <2>2, <2>3 DEF Heard
  <2> QED
    BY <2>1, <2>4
<1>6. Hub!SteadyHears'
  BY <1>2, <1>5 DEF Hub!SteadyHears, Heard
<1> QED
  BY <1>4, <1>6 DEF HearsInv

LEMMA RelayStartHears ==
  ASSUME HearsInv, NEW r \in relays, Hub!RelayStart(r)
  PROVE  HearsInv'
<1> DEFINE new == [r EXCEPT !.pc = "loop", !.todo = Hub!RelayTargets(r)]
<1>1. /\ relays' = (relays \ {r}) \union {new}
      /\ UNCHANGED <<linked, hub_known, rows, hub_wire, sync, clock, lost>>
  BY DEF Hub!RelayStart
<1>2. r \in Relay /\ hub_known \subseteq Client /\ r.steady \subseteq hub_known
  BY DEF HearsInv, RelaysTyped, SteadyAreKnown
<1>3. new \in Relay /\ new.steady = r.steady /\ new.sender = r.sender /\ new.todo = hub_known \ {r.sender}
  BY <1>2 DEF Relay, Hub!RelayTargets
<1>4. (RelaysTyped /\ SteadyAreKnown)'
  BY <1>1, <1>2, <1>3 DEF HearsInv, RelaysTyped, SteadyAreKnown
<1> HIDE DEF new
<1>5. Hub!SteadyHears'
  <2>1. ASSUME NEW q \in relays', NEW c \in q.steady \ {q.sender}
        PROVE  q.pc = "start" \/ c \in q.todo \/ Heard(q, c)'
    <3>1. CASE q = new
      BY <1>2, <1>3, <3>1
    <3>2. CASE q \in relays
      BY <1>1, <3>2 DEF HearsInv, Hub!SteadyHears, Heard
    <3> QED
      BY <1>1, <3>1, <3>2
  <2> QED
    BY <2>1 DEF Hub!SteadyHears, Heard
<1> QED
  BY <1>4, <1>5 DEF HearsInv

LEMMA RelaySendHears ==
  ASSUME HearsInv, NEW r \in relays, NEW c \in Client, Hub!RelaySend(r, c)
  PROVE  HearsInv'
<1> DEFINE new == [r EXCEPT !.todo = @ \ {c}]
           packet == [client |-> c, up |-> FALSE, msg |-> r.msg, stamp |-> r.stamp]
<1>1. /\ relays' = (relays \ {r}) \union {new} /\ c \in r.todo
      /\ hub_wire' = IF c \in linked THEN hub_wire \union {packet} ELSE hub_wire
      /\ UNCHANGED <<linked, hub_known, rows, sync, clock, lost>>
  BY DEF Hub!RelaySend
<1>2. r \in Relay /\ hub_known \subseteq linked /\ r.steady \subseteq hub_known
  BY DEF HearsInv, RelaysTyped, SteadyAreKnown
<1>3. /\ new \in Relay /\ new.steady = r.steady /\ new.sender = r.sender /\ new.todo = r.todo \ {c}
      /\ new.pc = r.pc /\ new.msg = r.msg /\ new.stamp = r.stamp
  BY <1>2 DEF Relay
<1>4. packet \in Sent
  BY <1>2 DEF Relay, Sent
<1>5. (RelaysTyped /\ SteadyAreKnown)'
  BY <1>1, <1>2, <1>3, <1>4 DEF HearsInv, RelaysTyped, SteadyAreKnown
<1>6. ASSUME NEW q \in relays', NEW d \in q.steady \ {q.sender}
      PROVE  q.pc = "start" \/ d \in q.todo \/ Heard(q, d)'
  <2>1. ASSUME NEW s \in relays, NEW e \in s.steady \ {s.sender}
        PROVE  s.pc = "start" \/ e \in s.todo \/ Heard(s, e)'
    BY <1>1 DEF HearsInv, Hub!SteadyHears, Heard
  <2>2. CASE q = new /\ d = c
    <3>1. c \in linked
      BY <1>2, <1>3, <2>2
    <3>2. packet \in hub_wire' /\ packet.client = c /\ ~packet.up /\ packet.stamp = new.stamp
      BY <1>1, <1>3, <3>1
    <3> QED
      BY <2>2, <3>2 DEF Heard
  <2>3. CASE q = new /\ d # c
    <3>1. r.pc = "start" \/ d \in r.todo \/ Heard(r, d)'
      BY <1>3, <2>1, <2>3
    <3>2. Heard(r, d)' => Heard(new, d)'
      BY <1>3 DEF Heard
    <3> QED
      BY <1>3, <2>3, <3>1, <3>2
  <2> QED
    BY <1>1, <2>1, <2>2, <2>3
<1>7. Hub!SteadyHears'
  BY <1>6 DEF Hub!SteadyHears, Heard
<1> QED
  BY <1>5, <1>7 DEF HearsInv

LEMMA SyncHears ==
  ASSUME HearsInv, NEW c \in Client, Hub!SyncAsk(c) \/ Hub!SyncReply(c)
  PROVE  HearsInv'
<1>1. sync' \in [Client -> Asked]
  <2>1. CASE Hub!SyncAsk(c)
    <3>1. Hub!Newest(rows[c]) \in Since
      BY DEF HearsInv, RelaysTyped, Since, Hub!Node
    <3> QED
      BY <2>1, <3>1 DEF HearsInv, RelaysTyped, Hub!SyncAsk, Hub!IdleSync, Asked
  <2>2. CASE Hub!SyncReply(c)
    <3>1. rows[HubServer] \subseteq Shown
      BY DEF HearsInv, RelaysTyped, Hub!Node
    <3>2. Hub!Messages(rows[HubServer]) \subseteq Msg
      BY <3>1 DEF Shown, Hub!Messages
    <3> DEFINE batch == {r \in rows[HubServer] : r.stamp > sync[c].since}
    <3>3. batch \subseteq Shown
      BY <3>1
    <3>4. sync' = [sync EXCEPT ![c] = [sync[c] EXCEPT !.pc = "answered", !.batch = batch,
                                                      !.had = Hub!Messages(rows[HubServer])]]
      BY <2>2 DEF Hub!SyncReply
    <3>5. sync[c] \in Asked /\ sync \in [Client -> Asked]
      BY DEF HearsInv, RelaysTyped
    <3> HIDE DEF batch
    <3>6. [sync[c] EXCEPT !.pc = "answered", !.batch = batch, !.had = Hub!Messages(rows[HubServer])] \in Asked
      BY <3>2, <3>3, <3>5 DEF Asked
    <3> QED
      BY <3>4, <3>5, <3>6
  <2> QED
    BY <2>1, <2>2
<1>2. UNCHANGED <<linked, hub_known, rows, hub_wire, relays, clock, lost>>
  BY DEF Hub!SyncAsk, Hub!SyncReply
<1> QED
  BY <1>1, <1>2 DEF HearsInv, RelaysTyped, SteadyAreKnown, Hub!SteadyHears

LEMMA SyncMergeHears ==
  ASSUME HearsInv, NEW c \in Client, Hub!SyncMerge(c)
  PROVE  HearsInv'
<1>1. PICK merged \in SUBSET Shown : rows' = [rows EXCEPT ![c] = @ \union merged]
  <2> DEFINE new == Hub!Missing(c)
  <2>1. PICK pick \in [Hub!Messages(new) -> new] :
          rows' = [rows EXCEPT ![c] = @ \union
            {[msg |-> m, stamp |-> pick[m].stamp, how |-> "sync"] : m \in Hub!Messages(new)}]
    BY DEF Hub!SyncMerge
  <2>2. new \subseteq Shown
    BY DEF HearsInv, RelaysTyped, Asked, Hub!Missing
  <2>3. {[msg |-> m, stamp |-> pick[m].stamp, how |-> "sync"] : m \in Hub!Messages(new)} \subseteq Shown
    BY <2>2 DEF Hub!Messages, Shown
  <2> QED
    BY <2>1, <2>3
<1>2. rows' \in [Hub!Node -> SUBSET Shown] /\ \A d \in Client : rows[d] \subseteq rows'[d]
  BY <1>1 DEF HearsInv, RelaysTyped, Hub!Node
<1>3. sync' \in [Client -> Asked] /\ UNCHANGED <<linked, hub_known, hub_wire, relays, clock, lost>>
  <2>1. /\ sync' = [sync EXCEPT ![c] = [sync[c] EXCEPT !.pc = "done", !.batch = {}]]
        /\ UNCHANGED <<linked, hub_known, hub_wire, relays, clock, lost>>
    BY DEF Hub!SyncMerge
  <2>2. sync \in [Client -> Asked]
    BY DEF HearsInv, RelaysTyped
  <2>3. [sync[c] EXCEPT !.pc = "done", !.batch = {}] \in Asked
    BY <2>2 DEF Asked
  <2> QED
    BY <2>1, <2>2, <2>3
<1>4. Hub!SteadyHears'
  BY <1>2, <1>3, HearingStays
<1> QED
  BY <1>2, <1>3, <1>4 DEF HearsInv, RelaysTyped, SteadyAreKnown

LEMMA HearsKept == ASSUME HearsInv, [Hub!Next]_(Hub!vars) PROVE HearsInv'
<1>1. CASE UNCHANGED Hub!vars
  BY <1>1 DEF Hub!vars, HearsInv, RelaysTyped, SteadyAreKnown, Hub!SteadyHears
<1> QED
  BY <1>1, LinkHears, LinkDownHears, LoseHears, SendHears, DrainHears,
     ServerReceiveHears,
     ClientReceiveHears, RelayStartHears, RelaySendHears, SyncHears, SyncMergeHears DEF Hub!Next

\* Whoever stays linked from the moment the server gets a text until its relay loop ends
\* has it, has it in flight or lost the packet (relay_hub_message, hub.py:660): the loop
\* goes through a copy of the peer list, and no other client's step takes a peer off it.
THEOREM SteadyHeard == Spec => []SteadyHears
<1>1. Init => HearsInv
  BY HubStart DEF Init
<1>2. HearsInv /\ [Next]_vars => HearsInv'
  BY HubSteps, HearsKept
<1>3. HearsInv => SteadyHears
  BY DEF HearsInv, SteadyHears
<1> QED
  BY <1>1, <1>2, <1>3, PTL DEF Spec

-----------------------------------------------------------------------------
(* A text shown twice (HubGroup)                                               *)

\* Only its author queues and sends a text, and shows it as its own.
Drains == [pc: {"idle", "loop"}, todo: SUBSET Msg, kept: SUBSET Msg]
QueuesTyped == queue \in [Client -> SUBSET Msg] /\ drain \in [Client -> [Thread -> Drains]]
OnlyAuthors ==
  /\ \A c \in Client : \A m \in queue[c] : AuthorOf[m] = c
  /\ \A c \in Client, t \in Thread : \A m \in drain[c][t].todo \union drain[c][t].kept : AuthorOf[m] = c
  /\ \A p \in hub_wire : p.up => AuthorOf[p.msg] = p.client
  /\ \A c \in Client : \A q \in rows[c] : q.how = "own" => AuthorOf[q.msg] = c

\* A transmission has a time of its own: the server relays no packet twice.
FreshStamps ==
  \A p \in hub_wire : p.up =>
    /\ p.stamp <= clock
    /\ \A q \in hub_wire : q.up /\ q # p => q.stamp # p.stamp
    /\ \A r \in relays : r.stamp # p.stamp
RelayedBefore == \A r \in relays : r.stamp <= clock

\* What is on its way back has been relayed.
Relayed(m, s) == \E r \in relays : r.msg = m /\ r.stamp = s
FromRelays ==
  /\ \A p \in hub_wire : ~p.up => Relayed(p.msg, p.stamp)
  /\ \A n \in Hub!Node : \A q \in rows[n] : q.how # "own" => Relayed(q.msg, q.stamp)
  /\ \A q \in rows[HubServer] : q.how = "relay"
  /\ \A c \in Client : \A q \in sync[c].batch : Relayed(q.msg, q.stamp)

\* Two transmissions of the text reached the server, or its copy was seen on its way.
RelayedTwice(m) == \E x, y \in relays : x.msg = m /\ y.msg = m /\ x.stamp # y.stamp
Excused(c, m) == <<c, m>> \in raced \/ RelayedTwice(m)

\* A text that the client synchronises is not also on its way, and nothing is shown twice.
SyncedOnce(c) ==
  /\ \A q \in sync[c].batch : AuthorOf[q.msg] # c /\ Hub!OnItsWay(c, q.msg) => Excused(c, q.msg)
  /\ \A q \in rows[c] :
       q.how = "sync" /\ AuthorOf[q.msg] # c /\ Hub!OnItsWay(c, q.msg) => Excused(c, q.msg)
ShownOnce(c) ==
  \A q, r \in rows[c] : q # r /\ q.msg = r.msg /\ AuthorOf[q.msg] # c => Excused(c, q.msg)
OnceInv ==
  /\ RelaysTyped /\ QueuesTyped /\ OnlyAuthors /\ FreshStamps /\ RelayedBefore /\ FromRelays
  /\ \A c \in Client : SyncedOnce(c) /\ ShownOnce(c)

LEMMA OnceStart == Hub!Init => OnceInv
  BY HubStart DEF Hub!Init, OnceInv, HearsInv, QueuesTyped, OnlyAuthors,
     FreshStamps, RelayedBefore, FromRelays,
     SyncedOnce, ShownOnce, Hub!IdleDrain, Hub!IdleSync, Drains, Hub!Node

\* A step that leaves the relays, the wire and the rows alone.
LEMMA QuietOnce ==
  ASSUME OnceInv, RelaysTyped', QueuesTyped', OnlyAuthors',
         UNCHANGED <<rows, relays, sync, raced>>, clock' = clock, hub_wire' \subseteq hub_wire
  PROVE  OnceInv'
<1>1. (FreshStamps /\ RelayedBefore)'
  BY DEF OnceInv, FreshStamps, RelayedBefore
<1>2. FromRelays'
  BY DEF OnceInv, FromRelays, Relayed
<1>3. ASSUME NEW c \in Client, NEW m PROVE /\ Hub!OnItsWay(c, m)' => Hub!OnItsWay(c, m)
                                           /\ Excused(c, m)' <=> Excused(c, m)
  BY DEF Hub!OnItsWay, Excused, RelayedTwice
<1>4. \A c \in Client : (SyncedOnce(c) /\ ShownOnce(c))'
  BY <1>3 DEF OnceInv, SyncedOnce, ShownOnce
<1> QED
  BY <1>1, <1>2, <1>4 DEF OnceInv

LEMMA LinkOnce ==
  ASSUME OnceInv, RelaysTyped', NEW c \in Client, Hub!LinkUp(c) \/ Hub!Identify(c)
  PROVE  OnceInv'
  BY QuietOnce DEF Hub!LinkUp, Hub!Identify, OnceInv, QueuesTyped, OnlyAuthors

LEMMA LoseOnce ==
  ASSUME OnceInv, RelaysTyped', NEW p \in hub_wire, Hub!Lose(p)
  PROVE  OnceInv'
  BY QuietOnce DEF Hub!Lose, OnceInv, QueuesTyped, OnlyAuthors

LEMMA AskOnce ==
  ASSUME OnceInv, RelaysTyped', NEW c \in Client, Hub!SyncAsk(c)
  PROVE  OnceInv'
<1>1. UNCHANGED <<rows, relays, hub_wire, clock, raced, queue, drain>>
  BY DEF Hub!SyncAsk
<1>2. \A d \in Client : sync'[d].batch \subseteq sync[d].batch
  BY DEF Hub!SyncAsk, OnceInv, RelaysTyped, Hub!IdleSync
<1>3. (QueuesTyped /\ OnlyAuthors /\ FreshStamps /\ RelayedBefore /\ FromRelays)'
  BY <1>1, <1>2 DEF OnceInv, QueuesTyped, OnlyAuthors, FreshStamps, RelayedBefore,
     FromRelays, Relayed
<1>4. \A d \in Client : (SyncedOnce(d) /\ ShownOnce(d))'
  BY <1>1, <1>2 DEF OnceInv, SyncedOnce, ShownOnce, Hub!OnItsWay, Excused,
     RelayedTwice
<1> QED
  BY <1>3, <1>4 DEF OnceInv

LEMMA DrainOnce ==
  ASSUME OnceInv, RelaysTyped', NEW c \in Client, NEW t \in Thread,
         \/ Hub!DrainStart(c, t) \/ Hub!DrainEnd(c, t)
         \/ \E m \in Msg : Hub!DrainKeep(c, t, m)
  PROVE  OnceInv'
<1> DEFINE Mine == {m \in Msg : AuthorOf[m] = c}
<1>1. UNCHANGED <<rows, relays, hub_wire, clock, raced, sync>>
  BY DEF Hub!DrainStart, Hub!DrainEnd, Hub!DrainKeep
<1>2. /\ queue \in [Client -> SUBSET Msg] /\ drain \in [Client -> [Thread -> Drains]]
      /\ queue[c] \subseteq Mine /\ drain[c][t].todo \subseteq Mine /\ drain[c][t].kept \subseteq Mine
  BY DEF OnceInv, QueuesTyped, OnlyAuthors, Drains
<1>3. PICK d \in Drains : /\ drain' = [drain EXCEPT ![c][t] = d]
                          /\ d.todo \subseteq Mine /\ d.kept \subseteq Mine
  <2>1. CASE Hub!DrainStart(c, t)
    <3>1. [pc |-> "loop", todo |-> queue[c], kept |-> {}] \in Drains
      BY <1>2 DEF Drains
    <3> QED
      BY <1>2, <2>1, <3>1 DEF Hub!DrainStart
  <2>2. CASE Hub!DrainEnd(c, t)
    <3>1. Hub!IdleDrain \in Drains /\ Hub!IdleDrain.todo = {} /\ Hub!IdleDrain.kept = {}
      BY DEF Hub!IdleDrain, Drains
    <3> QED
      BY <2>2, <3>1 DEF Hub!DrainEnd
  <2>3. ASSUME NEW m \in Msg, Hub!DrainKeep(c, t, m)
        PROVE  \E e \in Drains : /\ drain' = [drain EXCEPT ![c][t] = e]
                                 /\ e.todo \subseteq Mine /\ e.kept \subseteq Mine
    <3> DEFINE e == [drain[c][t] EXCEPT !.todo = @ \ {m}, !.kept = @ \union {m}]
    <3>1. drain[c][t] \in Drains /\ m \in drain[c][t].todo
      BY <1>2, <2>3 DEF Hub!DrainKeep
    <3>2. e \in Drains /\ e.todo \subseteq Mine /\ e.kept \subseteq Mine
      BY <1>2, <3>1 DEF Drains
    <3>3. drain' = [drain EXCEPT ![c][t] = e]
      <4> DEFINE half == [drain EXCEPT ![c] = [drain[c] EXCEPT ![t] = [drain[c][t] EXCEPT !.todo = @ \ {m}]]]
      <4>1. drain' = [half EXCEPT ![c] = [half[c] EXCEPT ![t] = [half[c][t] EXCEPT !.kept = @ \union {m}]]]
        BY <2>3 DEF Hub!DrainKeep
      <4>2. half[c] = [drain[c] EXCEPT ![t] = [drain[c][t] EXCEPT !.todo = @ \ {m}]]
        BY <1>2
      <4>3. half[c][t] = [drain[c][t] EXCEPT !.todo = @ \ {m}]
        BY <1>2, <4>2
      <4>4. e = [half[c][t] EXCEPT !.kept = @ \union {m}]
        BY <4>3, <3>1 DEF Drains
      <4>5. half \in [Client -> [Thread -> Drains]]
        BY <1>2, <3>1 DEF Drains
      <4> HIDE DEF half, e
      <4>6. drain' = [half EXCEPT ![c][t] = e]
        BY <4>1, <4>4
      <4>7. half = [drain EXCEPT ![c][t] = half[c][t]]
        BY <1>2, <4>2, <4>3 DEF half
      <4>8. [half EXCEPT ![c][t] = e] = [drain EXCEPT ![c][t] = e]
        BY <1>2, <4>7
      <4> QED
        BY <4>6, <4>8
    <3> QED
      BY <3>2, <3>3
  <2> QED
    BY <2>1, <2>2, <2>3
<1>4. queue' \in [Client -> SUBSET Msg] /\ \A e \in Client : \A m \in queue'[e] : AuthorOf[m] = e
  <2>1. UNCHANGED queue \/ queue' = [queue EXCEPT ![c] = drain[c][t].kept]
    BY DEF Hub!DrainStart, Hub!DrainEnd, Hub!DrainKeep
  <2> QED
    BY <1>2, <2>1 DEF OnceInv, OnlyAuthors, Drains
<1>5. QueuesTyped'
  BY <1>2, <1>3, <1>4 DEF QueuesTyped
<1>6. \A e \in Client, u \in Thread : \A m \in drain'[e][u].todo \union drain'[e][u].kept : AuthorOf[m] = e
  BY <1>2, <1>3 DEF OnceInv, OnlyAuthors
<1>7. OnlyAuthors'
  BY <1>1, <1>4, <1>6 DEF OnceInv, OnlyAuthors
<1> QED
  BY <1>1, <1>5, <1>7, QuietOnce

\* A text is sent: a new packet to the server, or none.
LEMMA TransmitOnce ==
  ASSUME OnceInv, RelaysTyped', QueuesTyped', NEW c \in Client, NEW m \in Msg, NEW s \in Nat, AuthorOf[m] = c,
         rows' = [rows EXCEPT ![c] = Hub!Own(c, m, s)], UNCHANGED <<relays, raced, sync>>,
         \/ UNCHANGED <<hub_wire, clock>>
         \/ Hub!Transmit(c, m),
         \A d \in Client : queue'[d] \subseteq queue[d] \union {n \in {m} : d = c},
         \A d \in Client, t \in Thread : /\ drain'[d][t].todo \subseteq drain[d][t].todo
                                         /\ drain'[d][t].kept \subseteq drain[d][t].kept
  PROVE  OnceInv'
<1> DEFINE packet == [client |-> c, up |-> TRUE, msg |-> m, stamp |-> clock + 1]
<1>1. clock \in Nat /\ \/ hub_wire' = hub_wire /\ clock' = clock
                       \/ hub_wire' = hub_wire \union {packet} /\ clock' = clock + 1
  BY DEF Hub!Transmit, OnceInv, RelaysTyped
<1>2. \A n \in Hub!Node : \A q \in rows'[n] :
        q \in rows[n] \/ (n = c /\ q.how = "own" /\ q.msg = m)
  BY DEF Hub!Own, OnceInv, RelaysTyped
<1>3. OnlyAuthors'
  <2>1. \A p \in hub_wire' : p.up => AuthorOf[p.msg] = p.client
    BY <1>1 DEF OnceInv, OnlyAuthors
  <2>2. \A d \in Client : \A q \in rows'[d] : q.how = "own" => AuthorOf[q.msg] = d
    BY <1>2 DEF OnceInv, OnlyAuthors, Hub!Node
  <2> QED
    BY <2>1, <2>2 DEF OnceInv, OnlyAuthors
<1>4. (FreshStamps /\ RelayedBefore)'
  <2>1. \A p \in hub_wire : p.stamp \in Nat
    BY DEF OnceInv, RelaysTyped, Sent
  <2>2. \A r \in relays : r.stamp \in Nat
    BY DEF OnceInv, RelaysTyped, Relay
  <2>3. CASE hub_wire' = hub_wire /\ clock' = clock
    BY <2>3 DEF OnceInv, FreshStamps, RelayedBefore
  <2>4. CASE hub_wire' = hub_wire \union {packet} /\ clock' = clock + 1
    <3>1. packet.stamp = clock + 1 /\ RelayedBefore
      BY DEF OnceInv
    <3> HIDE DEF packet
    <3>2. RelayedBefore'
      BY <1>1, <2>2, <2>4 DEF OnceInv, RelayedBefore
    <3>3. ASSUME NEW p \in hub_wire', p.up
          PROVE  /\ p.stamp <= clock'
                 /\ \A q \in hub_wire' : q.up /\ q # p => q.stamp # p.stamp
                 /\ \A r \in relays : r.stamp # p.stamp
      <4>1. CASE p = packet
        BY <1>1, <2>1, <2>2, <2>4, <3>1, <4>1 DEF OnceInv, FreshStamps,
           RelayedBefore
      <4>2. CASE p \in hub_wire
        BY <1>1, <2>1, <2>2, <2>4, <3>1, <3>3, <4>2 DEF OnceInv, FreshStamps
      <4> QED
        BY <2>4, <4>1, <4>2
    <3> QED
      BY <3>2, <3>3 DEF FreshStamps
  <2> QED
    BY <1>1, <2>3, <2>4
<1>5. FromRelays'
  BY <1>1, <1>2, ServerAssumption DEF OnceInv, FromRelays, Relayed
<1>6. ASSUME NEW d \in Client PROVE (SyncedOnce(d) /\ ShownOnce(d))'
  <2>1. \A n : AuthorOf[n] # d /\ Hub!OnItsWay(d, n)' => Hub!OnItsWay(d, n)
    BY <1>1 DEF Hub!OnItsWay
  <2>2. \A n : Excused(d, n)' <=> Excused(d, n)
    BY DEF Excused, RelayedTwice
  <2>3. \A q \in rows'[d] : q.how = "sync" \/ AuthorOf[q.msg] # d => q \in rows[d]
    BY <1>2 DEF Hub!Node
  <2> QED
    BY <2>1, <2>2, <2>3 DEF OnceInv, SyncedOnce, ShownOnce
<1> QED
  BY <1>3, <1>4, <1>5, <1>6 DEF OnceInv

LEMMA SendOnce ==
  ASSUME OnceInv, RelaysTyped', NEW c \in Client, NEW m \in Msg, Hub!Send(c, m)
  PROVE  OnceInv'
<1>1. AuthorOf[m] = c /\ UNCHANGED <<relays, raced, sync, drain>> /\ clock \in Nat
  BY DEF Hub!Send, Hub!SendLinked, Hub!SendQueued, OnceInv, RelaysTyped
<1>2. CASE Hub!SendLinked(c, m)
  <2>1. rows' = [rows EXCEPT ![c] = Hub!Own(c, m, clock + 1)] /\ Hub!Transmit(c, m) /\ UNCHANGED queue
    BY <1>2 DEF Hub!SendLinked
  <2>2. QueuesTyped' /\ clock + 1 \in Nat
    BY <1>1, <2>1 DEF OnceInv, QueuesTyped
  <2> QED
    BY <1>1, <2>1, <2>2, TransmitOnce
<1>3. CASE Hub!SendQueued(c, m)
  <2>1. /\ rows' = [rows EXCEPT ![c] = Hub!Own(c, m, clock)] /\ UNCHANGED <<hub_wire, clock>>
        /\ queue' = [queue EXCEPT ![c] = @ \union {m}]
    BY <1>3 DEF Hub!SendQueued
  <2>2. QueuesTyped' /\ \A d \in Client : queue'[d] \subseteq queue[d] \union {n \in {m} : d = c}
    BY <1>1, <2>1 DEF OnceInv, QueuesTyped
  <2> QED
    BY <1>1, <2>1, <2>2, TransmitOnce
<1> QED
  BY <1>2, <1>3 DEF Hub!Send

LEMMA DrainSendOnce ==
  ASSUME OnceInv, RelaysTyped', NEW c \in Client, NEW t \in Thread, NEW m \in Msg, Hub!DrainSend(c, t, m)
  PROVE  OnceInv'
<1>1. /\ m \in drain[c][t].todo /\ Hub!Transmit(c, m) /\ UNCHANGED <<relays, raced, sync, queue>>
      /\ rows' = [rows EXCEPT ![c] = Hub!Own(c, m, clock + 1)]
      /\ drain' = [drain EXCEPT ![c][t].todo = @ \ {m}]
  BY DEF Hub!DrainSend
<1>2. AuthorOf[m] = c /\ clock \in Nat /\ drain \in [Client -> [Thread -> Drains]]
  BY <1>1 DEF OnceInv, OnlyAuthors, RelaysTyped, QueuesTyped
<1>3. /\ drain' \in [Client -> [Thread -> Drains]]
      /\ \A d \in Client, u \in Thread : /\ drain'[d][u].todo \subseteq drain[d][u].todo
                                         /\ drain'[d][u].kept \subseteq drain[d][u].kept
  <2>1. /\ drain' = [drain EXCEPT ![c][t] = [drain[c][t] EXCEPT !.todo = @ \ {m}]]
        /\ drain[c][t] \in Drains
    BY <1>1, <1>2
  <2>2. LET d == [drain[c][t] EXCEPT !.todo = @ \ {m}]
        IN  d \in Drains /\ d.todo \subseteq drain[c][t].todo /\ d.kept = drain[c][t].kept
    BY <2>1 DEF Drains
  <2> QED
    BY <1>2, <2>1, <2>2
<1>4. QueuesTyped' /\ clock + 1 \in Nat
  BY <1>1, <1>2, <1>3 DEF OnceInv, QueuesTyped
<1> QED
  BY <1>1, <1>2, <1>3, <1>4, TransmitOnce

\* What was excused stays so; what has been relayed stays relayed.
LEMMA StaysRelayed ==
  ASSUME raced \subseteq raced',
         \A r \in relays : \E s \in relays' : s.msg = r.msg /\ s.stamp = r.stamp
  PROVE  /\ \A m, s : Relayed(m, s) => Relayed(m, s)'
         /\ \A c, m : Excused(c, m) => Excused(c, m)'
<1>1. \A m, s : Relayed(m, s) => Relayed(m, s)'
  BY DEF Relayed
<1>2. ASSUME NEW m, RelayedTwice(m) PROVE RelayedTwice(m)'
  <2>1. PICK x \in relays, y \in relays : x.msg = m /\ y.msg = m /\ x.stamp # y.stamp
    BY <1>2 DEF RelayedTwice
  <2>2. PICK v \in relays', w \in relays' :
          v.msg = x.msg /\ v.stamp = x.stamp /\ w.msg = y.msg /\ w.stamp = y.stamp
    OBVIOUS
  <2> QED
    BY <2>1, <2>2 DEF RelayedTwice
<1>3. \A c, m : Excused(c, m) => Excused(c, m)'
  BY <1>2 DEF Excused
<1> QED
  BY <1>1, <1>3

LEMMA LinkDownOnce ==
  ASSUME OnceInv, RelaysTyped', NEW c \in Client, Hub!LinkDown(c)
  PROVE  OnceInv'
<1>1. /\ hub_wire' \subseteq hub_wire /\ relays' = {[r EXCEPT !.steady = r.steady \ {c}] : r \in relays}
      /\ UNCHANGED <<rows, queue, drain, sync, clock, raced>>
  BY DEF Hub!LinkDown
<1>2. \A r \in relays : [r EXCEPT !.steady = r.steady \ {c}] \in relays'
  BY <1>1
<1>3. \A r \in relays : LET s == [r EXCEPT !.steady = r.steady \ {c}] IN
        s.msg = r.msg /\ s.stamp = r.stamp /\ s.pc = r.pc /\ s.todo = r.todo
  BY DEF OnceInv, RelaysTyped, Relay
<1>4. /\ \A r \in relays : \E s \in relays' : s.msg = r.msg /\ s.stamp = r.stamp
      /\ \A s \in relays' : \E r \in relays :
           s.msg = r.msg /\ s.stamp = r.stamp /\ s.pc = r.pc /\ s.todo = r.todo
  BY ZenonT(40), <1>1, <1>2, <1>3
<1>5. /\ \A m, s : Relayed(m, s) => Relayed(m, s)'
      /\ \A d, m : Excused(d, m) => Excused(d, m)'
  BY <1>1, <1>4, StaysRelayed
<1>6. (QueuesTyped /\ OnlyAuthors /\ FromRelays)'
  BY <1>1, <1>5 DEF OnceInv, QueuesTyped, OnlyAuthors, FromRelays
<1>7. (FreshStamps /\ RelayedBefore)'
  BY <1>1, <1>4 DEF OnceInv, FreshStamps, RelayedBefore
<1>8. \A d, m : Hub!OnItsWay(d, m)' => Hub!OnItsWay(d, m)
  BY <1>1, <1>4 DEF Hub!OnItsWay
<1>9. \A d \in Client : (SyncedOnce(d) /\ ShownOnce(d))'
  BY <1>1, <1>5, <1>8 DEF OnceInv, SyncedOnce, ShownOnce
<1> QED
  BY <1>6, <1>7, <1>9 DEF OnceInv

LEMMA ServerReceiveOnce ==
  ASSUME OnceInv, RelaysTyped', NEW p \in hub_wire, Hub!ServerReceive(p)
  PROVE  OnceInv'
<1> DEFINE new == [msg |-> p.msg, stamp |-> p.stamp, sender |-> Hub!Sender(p),
                   pc |-> "start", todo |-> {}, steady |-> hub_known]
           row == [msg |-> p.msg, stamp |-> p.stamp, how |-> "relay"]
<1>1. /\ p.up /\ hub_wire' = hub_wire \ {p} /\ relays' = relays \union {new}
      /\ rows' = [rows EXCEPT ![HubServer] = @ \union {row}]
      /\ UNCHANGED <<queue, drain, sync, clock, raced>>
  BY DEF Hub!ServerReceive, Hub!Showing
<1>2. new.msg = p.msg /\ new.stamp = p.stamp /\ row.msg = p.msg /\ row.stamp = p.stamp /\ row.how = "relay"
  OBVIOUS
<1> HIDE DEF new, row
<1>3. /\ \A m, s : Relayed(m, s) => Relayed(m, s)'
      /\ \A d, m : Excused(d, m) => Excused(d, m)'
  BY <1>1, StaysRelayed
<1>4. Relayed(p.msg, p.stamp)'
  BY <1>1, <1>2 DEF Relayed
<1>5. /\ \A n \in Hub!Node : \A q \in rows'[n] : q \in rows[n] \/ (n = HubServer /\ q = row)
      /\ \A d \in Client : rows'[d] = rows[d]
  BY <1>1, ServerAssumption DEF OnceInv, RelaysTyped, Hub!Node
<1>6. (QueuesTyped /\ OnlyAuthors)'
  BY <1>1, <1>5 DEF OnceInv, QueuesTyped, OnlyAuthors
<1>7. FromRelays'
  <2>1. \A n \in Hub!Node : \A q \in rows'[n] : q.how # "own" => Relayed(q.msg, q.stamp)'
    BY <1>2, <1>3, <1>4, <1>5 DEF OnceInv, FromRelays
  <2>2. \A q \in rows'[HubServer] : q.how = "relay"
    BY <1>2, <1>5 DEF OnceInv, FromRelays, Hub!Node
  <2>3. \A q \in hub_wire' : ~q.up => Relayed(q.msg, q.stamp)'
    BY <1>1, <1>3 DEF OnceInv, FromRelays
  <2>4. \A c \in Client : \A q \in sync'[c].batch : Relayed(q.msg, q.stamp)'
    BY <1>1, <1>3 DEF OnceInv, FromRelays
  <2> QED
    BY <2>1, <2>2, <2>3, <2>4 DEF FromRelays
<1>8. (FreshStamps /\ RelayedBefore)'
  BY <1>1, <1>2 DEF OnceInv, FreshStamps, RelayedBefore
<1>9. ASSUME NEW d \in Client PROVE (SyncedOnce(d) /\ ShownOnce(d))'
  <2>1. ASSUME NEW m, NEW s, Relayed(m, s), Hub!OnItsWay(d, m)', AuthorOf[m] # d
        PROVE  Hub!OnItsWay(d, m) \/ Excused(d, m)'
    <3>1. CASE m = p.msg
      <4>1. PICK r \in relays : r.msg = m
        BY <2>1 DEF Relayed
      <4>2. r.stamp # p.stamp
        BY <1>1 DEF OnceInv, FreshStamps
      <4>3. RelayedTwice(m)'
        BY <1>1, <1>2, <3>1, <4>1, <4>2 DEF RelayedTwice
      <4> QED
        BY <4>3 DEF Excused
    <3>2. CASE m # p.msg
      BY <1>1, <1>2, <2>1, <3>2 DEF Hub!OnItsWay
    <3> QED
      BY <3>1, <3>2
  <2>2. ASSUME NEW q \in rows[d], q.how = "sync" PROVE Relayed(q.msg, q.stamp)
    BY <2>2 DEF OnceInv, FromRelays, Hub!Node
  <2>3. \A q \in sync[d].batch : Relayed(q.msg, q.stamp)
    BY DEF OnceInv, FromRelays
  <2>4. SyncedOnce(d)'
    BY <1>1, <1>3, <1>5, <2>1, <2>2, <2>3 DEF OnceInv, SyncedOnce
  <2>5. ShownOnce(d)'
    BY <1>3, <1>5 DEF OnceInv, ShownOnce
  <2> QED
    BY <2>4, <2>5
<1> QED
  BY <1>6, <1>7, <1>8, <1>9 DEF OnceInv

LEMMA RelayOnce ==
  ASSUME OnceInv, RelaysTyped', NEW r \in relays,
         Hub!RelayStart(r) \/ \E c \in Client : Hub!RelaySend(r, c)
  PROVE  OnceInv'
<1>1. PICK new : /\ relays' = (relays \ {r}) \union {new} /\ new.msg = r.msg /\ new.stamp = r.stamp
                 /\ r.pc = "start" \/ (new.pc = r.pc /\ new.todo \subseteq r.todo)
                 /\ new.pc = "start" => r.pc = "start"
  <2>1. r \in Relay
    BY DEF OnceInv, RelaysTyped
  <2>2. CASE Hub!RelayStart(r)
    <3>1. LET n == [r EXCEPT !.pc = "loop", !.todo = Hub!RelayTargets(r)] IN
            n.msg = r.msg /\ n.stamp = r.stamp /\ n.pc = "loop"
      BY <2>1 DEF Relay
    <3> QED
      BY <2>2, <3>1 DEF Hub!RelayStart
  <2>3. ASSUME NEW c \in Client, Hub!RelaySend(r, c)
        PROVE  \E n : /\ relays' = (relays \ {r}) \union {n} /\ n.msg = r.msg /\ n.stamp = r.stamp
                      /\ n.pc = r.pc /\ n.todo \subseteq r.todo
    <3>1. LET n == [r EXCEPT !.todo = @ \ {c}] IN
            n.msg = r.msg /\ n.stamp = r.stamp /\ n.pc = r.pc /\ n.todo \subseteq r.todo
      BY <2>1 DEF Relay
    <3> QED
      BY <2>3, <3>1 DEF Hub!RelaySend
  <2> QED
    BY <2>2, <2>3
<1>2. /\ UNCHANGED <<rows, queue, drain, sync, clock, raced>> /\ hub_wire \subseteq hub_wire'
      /\ \A p \in hub_wire' \ hub_wire :
           ~p.up /\ p.msg = r.msg /\ p.stamp = r.stamp /\ p.client \in r.todo
  BY DEF Hub!RelayStart, Hub!RelaySend
<1>3. \A q \in relays : \E s \in relays' : s.msg = q.msg /\ s.stamp = q.stamp
  BY <1>1
<1>4. /\ \A m, s : Relayed(m, s) => Relayed(m, s)'
      /\ \A d, m : Excused(d, m) => Excused(d, m)'
  BY <1>2, <1>3, StaysRelayed
<1>5. (QueuesTyped /\ OnlyAuthors)'
  BY <1>2 DEF OnceInv, QueuesTyped, OnlyAuthors
<1>6. FromRelays'
  <2>1. Relayed(r.msg, r.stamp)
    BY DEF Relayed
  <2> QED
    BY <1>2, <1>4, <2>1 DEF OnceInv, FromRelays
<1>7. (FreshStamps /\ RelayedBefore)'
  BY <1>1, <1>2 DEF OnceInv, FreshStamps, RelayedBefore
<1>8. \A d, m : Hub!OnItsWay(d, m)' => Hub!OnItsWay(d, m)
  BY <1>1, <1>2 DEF Hub!OnItsWay
<1>9. \A d \in Client : (SyncedOnce(d) /\ ShownOnce(d))'
  BY <1>2, <1>4, <1>8 DEF OnceInv, SyncedOnce, ShownOnce
<1> QED
  BY <1>5, <1>6, <1>7, <1>9 DEF OnceInv

LEMMA ClientReceiveOnce ==
  ASSUME OnceInv, RelaysTyped', NEW p \in hub_wire, Hub!ClientReceive(p)
  PROVE  OnceInv'
<1> DEFINE c == p.client
           row == [msg |-> p.msg, stamp |-> p.stamp, how |-> "relay"]
<1>1. /\ ~p.up /\ hub_wire' = hub_wire \ {p} /\ rows' = [rows EXCEPT ![c] = @ \union {row}]
      /\ UNCHANGED <<queue, drain, relays, sync, clock, raced>>
  BY DEF Hub!ClientReceive, Hub!Showing
<1>2. c \in Client /\ row.msg = p.msg /\ row.stamp = p.stamp /\ row.how = "relay"
  BY DEF OnceInv, RelaysTyped, Sent
<1> HIDE DEF row
<1>3. /\ \A n \in Hub!Node : \A q \in rows'[n] : q \in rows[n] \/ (n = c /\ q = row)
      /\ rows'[HubServer] = rows[HubServer]
  BY <1>1, <1>2, ServerAssumption DEF OnceInv, RelaysTyped, Hub!Node
<1>4. (QueuesTyped /\ OnlyAuthors)'
  BY <1>1, <1>2, <1>3 DEF OnceInv, QueuesTyped, OnlyAuthors, Hub!Node
<1>5. Relayed(p.msg, p.stamp) /\ \A m, s : Relayed(m, s)' <=> Relayed(m, s)
  BY <1>1 DEF OnceInv, FromRelays, Relayed
<1>6. FromRelays'
  BY <1>1, <1>2, <1>3, <1>5 DEF OnceInv, FromRelays
<1>7. (FreshStamps /\ RelayedBefore)'
  BY <1>1 DEF OnceInv, FreshStamps, RelayedBefore
<1>8. /\ \A d, m : Excused(d, m) <=> Excused(d, m)'
      /\ \A d, m : Hub!OnItsWay(d, m)' => Hub!OnItsWay(d, m)
  BY <1>1 DEF Excused, RelayedTwice, Hub!OnItsWay
<1>9. ASSUME NEW d \in Client PROVE (SyncedOnce(d) /\ ShownOnce(d))'
  <2>1. SyncedOnce(d)'
    BY <1>1, <1>2, <1>3, <1>8 DEF OnceInv, SyncedOnce, Hub!Node
  <2>2. ASSUME NEW q \in rows[c], q.msg = row.msg, q # row, AuthorOf[q.msg] # c PROVE Excused(c, q.msg)
    <3>1. q \in Shown /\ row \in Shown
      BY <1>2, <2>2 DEF OnceInv, RelaysTyped, Hub!Node, Shown, Sent, row
    <3>2. CASE q.how = "sync"
      BY <1>2, <2>2, <3>2 DEF OnceInv, SyncedOnce, Hub!OnItsWay
    <3>3. CASE q.how = "relay"
      <4>1. q.stamp # row.stamp
        BY <1>2, <2>2, <3>1, <3>3 DEF Shown
      <4>2. Relayed(q.msg, q.stamp)
        BY <1>2, <3>3 DEF OnceInv, FromRelays, Hub!Node
      <4> QED
        BY <1>2, <1>5, <2>2, <4>1, <4>2 DEF Excused, RelayedTwice, Relayed
    <3>4. q.how # "own"
      BY <1>2, <2>2 DEF OnceInv, OnlyAuthors
    <3> QED
      BY <3>1, <3>2, <3>3, <3>4 DEF Shown
  <2>3. ShownOnce(d)'
    BY <1>3, <1>8, <2>2 DEF OnceInv, ShownOnce, Hub!Node
  <2> QED
    BY <2>1, <2>3
<1> QED
  BY <1>4, <1>6, <1>7, <1>9 DEF OnceInv

LEMMA ReplyOnce ==
  ASSUME OnceInv, RelaysTyped', NEW c \in Client, Hub!SyncReply(c)
  PROVE  OnceInv'
<1> DEFINE batch == {r \in rows[HubServer] : r.stamp > sync[c].since}
<1>1. /\ sync' = [sync EXCEPT ![c] = [sync[c] EXCEPT !.pc = "answered", !.batch = batch,
                                                     !.had = Hub!Messages(rows[HubServer])]]
      /\ raced' = raced \union {<<c, m>> : m \in {n \in Hub!Messages(batch) : Hub!OnItsWay(c, n)}}
      /\ UNCHANGED <<rows, queue, drain, hub_wire, relays, clock>>
  BY DEF Hub!SyncReply
<1>2. sync'[c].batch = batch /\ \A d \in Client \ {c} : sync'[d] = sync[d]
  BY ZenonT(40), <1>1 DEF OnceInv, RelaysTyped, Asked
<1>3. \A q \in batch : q \in rows[HubServer] /\ q.how = "relay" /\ q.msg \in Hub!Messages(batch)
  BY DEF OnceInv, FromRelays, Hub!Messages
<1> HIDE DEF batch
<1>4. (QueuesTyped /\ OnlyAuthors /\ FreshStamps /\ RelayedBefore)'
  BY <1>1 DEF OnceInv, QueuesTyped, OnlyAuthors, FreshStamps, RelayedBefore
<1>5. FromRelays'
  <2>1. \A q \in batch : Relayed(q.msg, q.stamp)
    BY <1>3 DEF OnceInv, FromRelays, Hub!Node
  <2> QED
    BY <1>1, <1>2, <2>1 DEF OnceInv, FromRelays, Relayed
<1>6. /\ \A d, m : Excused(d, m) => Excused(d, m)'
      /\ \A d, m : Hub!OnItsWay(d, m)' <=> Hub!OnItsWay(d, m)
      /\ \A m : m \in Hub!Messages(batch) /\ Hub!OnItsWay(c, m) => Excused(c, m)'
  BY <1>1 DEF Excused, RelayedTwice, Hub!OnItsWay
<1>7. ASSUME NEW d \in Client PROVE (SyncedOnce(d) /\ ShownOnce(d))'
  <2>1. \A q \in sync'[d].batch : AuthorOf[q.msg] # d /\ Hub!OnItsWay(d, q.msg)' => Excused(d, q.msg)'
    BY <1>2, <1>3, <1>6 DEF OnceInv, SyncedOnce
  <2> QED
    BY <1>1, <1>6, <2>1 DEF OnceInv, SyncedOnce, ShownOnce
<1> QED
  BY <1>4, <1>5, <1>7 DEF OnceInv

LEMMA MergeOnce ==
  ASSUME OnceInv, RelaysTyped', NEW c \in Client, Hub!SyncMerge(c)
  PROVE  OnceInv'
<1> DEFINE new == Hub!Missing(c)
<1>1. PICK pick \in [Hub!Messages(new) -> new] :
        /\ \A m \in Hub!Messages(new) : pick[m].msg = m
        /\ rows' = [rows EXCEPT ![c] = @ \union
             {[msg |-> m, stamp |-> pick[m].stamp, how |-> "sync"] : m \in Hub!Messages(new)}]
  BY DEF Hub!SyncMerge
<1> DEFINE merged == {[msg |-> m, stamp |-> pick[m].stamp, how |-> "sync"] : m \in Hub!Messages(new)}
<1>2. /\ sync' = [sync EXCEPT ![c] = [sync[c] EXCEPT !.pc = "done", !.batch = {}]]
      /\ UNCHANGED <<queue, drain, hub_wire, relays, clock, raced>>
  BY DEF Hub!SyncMerge
<1>3. sync'[c].batch = {} /\ \A d \in Client \ {c} : sync'[d] = sync[d]
  BY <1>2 DEF OnceInv, RelaysTyped, Asked
<1>4. new \subseteq sync[c].batch /\ \A q \in new : q.msg \notin Hub!Messages(rows[c])
  BY DEF Hub!Missing
<1>5. /\ \A q \in merged : /\ q.how = "sync" /\ q.msg \in Hub!Messages(new) /\ q.stamp = pick[q.msg].stamp
                           /\ q = [msg |-> q.msg, stamp |-> pick[q.msg].stamp, how |-> "sync"]
                           /\ pick[q.msg] \in sync[c].batch /\ pick[q.msg].msg = q.msg
      /\ \A m \in Hub!Messages(new) : \A q \in rows[c] : q.msg # m
  BY <1>1, <1>4 DEF Hub!Messages
<1>6. /\ \A n \in Hub!Node : \A q \in rows'[n] : q \in rows[n] \/ (n = c /\ q \in merged)
      /\ rows'[HubServer] = rows[HubServer]
  BY <1>1, ServerAssumption DEF OnceInv, RelaysTyped, Hub!Node
<1> HIDE DEF new, merged
<1>7. (QueuesTyped /\ OnlyAuthors /\ FreshStamps /\ RelayedBefore)'
  BY <1>2, <1>5, <1>6 DEF OnceInv, QueuesTyped, OnlyAuthors, FreshStamps,
     RelayedBefore, Hub!Node
<1>8. FromRelays'
  <2>1. \A q \in merged : Relayed(q.msg, q.stamp)
    BY <1>5 DEF OnceInv, FromRelays
  <2> QED
    BY <1>2, <1>3, <1>6, <2>1 DEF OnceInv, FromRelays, Relayed
<1>9. /\ \A d, m : Excused(d, m)' <=> Excused(d, m)
      /\ \A d, m : Hub!OnItsWay(d, m)' <=> Hub!OnItsWay(d, m)
  BY <1>2 DEF Excused, RelayedTwice, Hub!OnItsWay
<1>10. ASSUME NEW d \in Client PROVE (SyncedOnce(d) /\ ShownOnce(d))'
  <2>1. \A q \in merged : AuthorOf[q.msg] # c /\ Hub!OnItsWay(c, q.msg) => Excused(c, q.msg)
    BY <1>5 DEF OnceInv, SyncedOnce
  <2>2. SyncedOnce(d)'
    BY <1>3, <1>6, <1>9, <2>1 DEF OnceInv, SyncedOnce, Hub!Node
  <2>3. ShownOnce(d)'
    BY <1>5, <1>6, <1>9 DEF OnceInv, ShownOnce, Hub!Node
  <2> QED
    BY <2>2, <2>3
<1> QED
  BY <1>7, <1>8, <1>10 DEF OnceInv

\* A client shows a text of somebody else's twice only when it was sent twice or a copy was
\* on its way while it synchronised: nothing else defeats the filter of
\* _merge_incoming_hub_messages.
THEOREM TwiceOnlyOverlapped == Spec => []TwiceNeedsOverlap
<1>1. Init => HearsInv /\ OnceInv
  BY HubStart, OnceStart DEF Init
<1>2. HearsInv /\ OnceInv /\ [Next]_vars => (HearsInv /\ OnceInv)'
  <2> SUFFICES ASSUME HearsInv, OnceInv, [Hub!Next]_(Hub!vars) PROVE (HearsInv /\ OnceInv)'
    BY HubSteps
  <2>1. HearsInv' /\ RelaysTyped'
    BY HearsKept DEF HearsInv
  <2>2. CASE UNCHANGED Hub!vars
    BY <2>1, <2>2, QuietOnce DEF Hub!vars, OnceInv, QueuesTyped, OnlyAuthors
  <2> QED
    BY <2>1, <2>2, LinkOnce, LinkDownOnce, LoseOnce, SendOnce, DrainOnce,
       DrainSendOnce,
       ServerReceiveOnce, ClientReceiveOnce, RelayOnce, AskOnce, ReplyOnce, MergeOnce DEF Hub!Next
<1>3. OnceInv => TwiceNeedsOverlap
  <2>1. \A m : RelayedTwice(m) => \E x, y \in relays : x # y /\ x.msg = m /\ y.msg = m
    BY DEF RelayedTwice
  <2> QED
    BY <2>1 DEF OnceInv, ShownOnce, Excused, TwiceNeedsOverlap,
       Hub!TwiceNeedsOverlap
<1> QED
  BY <1>1, <1>2, <1>3, PTL DEF Spec
=============================================================================
