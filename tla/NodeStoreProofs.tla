-------------------------- MODULE NodeStoreProofs --------------------------
(* What a node keeps in files, for any number of messages, handlers, threads  *)
(* and crashes: the settings and the RNS config written from them (Settings), *)
(* the chat history beside the queue (ChatHistory).                           *)
EXTENDS Node, WellFoundedInduction, TLAPS

\* A step of the node is a step of each of its components, or leaves it alone.
LEMMA ConfigSteps == [Next]_vars => [Config!Next]_(Config!vars)
  BY DEF Next, vars, HistoryMoves, PeersMoves, BookMoves, RadioMoves, ConfigMoves, ResumeMoves, PlugMoves,
     ConfigVars, Config!vars

-----------------------------------------------------------------------------
(* settings.json and the RNS config (Settings)                                 *)

\* The types, but for the count of crashes.
ConfigTyped ==
  /\ file \in Config!Content \union {Torn} /\ config \in Config!Content /\ hub \in Config!Version
  /\ config_job \in [Config!Actor -> Config!Job]
  /\ edits \in Config!Version
  /\ config_saved \in Config!Content /\ stale \in BOOLEAN

\* No version is newer than the newest edit.
Known(f) == \A k \in Config!Key : f[k] <= edits
KnownVersions ==
  /\ file # Torn => Known(file)
  /\ Known(config_saved)
  /\ \A a \in Config!Actor : Known(config_job[a].has) /\ Known(config_job[a].base)

\* What each plan goes through, and what it changes on the way.
SameNet(a) == \A k \in {"hub", "ifaces"} : config_job[a].has[k] = config_job[a].base[k]
Planned(a) ==
  /\ \A k \in Config!Key : config_job[a].base[k] <= config_job[a].has[k]
  /\ config_job[a].pc \in {"save", "dump"} =>
       /\ config_job[a].plan # "boot"
       /\ config_job[a].plan = "save" => SameNet(a)
       /\ config_job[a].plan = "sync" => config_job[a].has["hub"] = config_job[a].base["hub"]
  /\ config_job[a].pc \in {"config", "configdump", "render"} => config_job[a].plan # "save"
  /\ config_job[a].pc \in {"config", "configdump", "render", "apply", "last"} =>
       config_job[a].has = config_job[a].base
  /\ config_job[a].pc \in {"apply", "last", "lastdump"} => config_job[a].plan \in {"await", "boot"}
  /\ config_job[a].pc = "lastdump" => SameNet(a)

\* While no writer overlapped another: one writes at a time, and it saves what it
\* loaded with its own change.
Dumping(a) == config_job[a].pc \in {"dump", "configdump", "lastdump"}
InTurn ==
  /\ file = Torn => \E a \in Config!Actor : Dumping(a)
  /\ \A a, b \in Config!Actor : Dumping(a) /\ Dumping(b) => a = b
  /\ \A a \in Config!Actor : Dumping(a) => file = Torn /\ config_saved = config_job[a].base
  /\ file # Torn => file = config_saved

\* The RNS config and the hub interfaces follow, or somebody is about to make them.
ToRender(a) == config_job[a].pc \in {"config", "configdump", "render"}
ToApply(a) ==
  /\ config_job[a].plan \in {"await", "boot"}
  /\ config_job[a].pc \in {"config", "configdump", "render", "apply"}
ToBoot == config_job[Starter].pc = "idle" /\ config_job[Starter].plan = "boot"
Rendered ==
  \/ \A k \in {"hub", "ifaces"} : config[k] = config_saved[k]
  \/ \E a \in Config!Actor : ToRender(a)
Applied ==
  \/ hub = config_saved["hub"]
  \/ \E a \in Config!Actor : ToApply(a)
  \/ ToBoot
ConfigInv ==
  /\ ConfigTyped /\ KnownVersions /\ \A a \in Config!Actor : Planned(a)
  /\ ~stale => InTurn /\ Rendered /\ Applied

LEMMA ConfigStart == Config!Init => ConfigInv
<1> SUFFICES ASSUME Config!Init PROVE ConfigInv
  OBVIOUS
<1> USE SettingsAssumption DEF Config!Init
<1>1. /\ Config!Defaults \in Config!Content /\ \A k \in Config!Key : Config!Defaults[k] = 0
      /\ 0 \in Config!Version
  BY DEF Config!Defaults, Config!Content, Config!Version
<1>2. \A a \in Config!Actor : /\ config_job[a] \in Config!Job /\ config_job[a].pc = "idle"
                              /\ config_job[a].has = Config!Defaults /\ config_job[a].base = Config!Defaults
  BY <1>1 DEF Config!Idle, Config!Job
<1>3. ConfigTyped
  BY <1>1, <1>2 DEF ConfigTyped
<1>4. KnownVersions /\ \A a \in Config!Actor : Planned(a)
  BY <1>1, <1>2 DEF KnownVersions, Known, Planned
<1>5. InTurn /\ Rendered /\ Applied
  BY <1>1, <1>2 DEF InTurn, Rendered, Applied, Dumping, Config!Key
<1> QED
  BY <1>3, <1>4, <1>5 DEF ConfigInv

\* The job of one writer is replaced.
LEMMA NewJob ==
  ASSUME ConfigTyped, NEW a \in Config!Actor, NEW j \in Config!Job, config_job' = [config_job EXCEPT ![a] = j]
  PROVE  /\ config_job' \in [Config!Actor -> Config!Job] /\ config_job'[a] = j
         /\ \A b \in Config!Actor \ {a} : config_job'[b] = config_job[b]
  BY DEF ConfigTyped

\* A writer takes the file and changes one group of keys.
LEMMA TakesFollows ==
  ASSUME ConfigInv, NEW a \in Handler \union Worker, NEW k \in Config!Key, NEW plan \in {"save", "sync", "await", "fast"},
         config_job[a].pc = "idle", edits < MaxEdits, edits' = edits + 1,
         config_job' = [config_job EXCEPT ![a] = [pc |-> "save", has |-> Config!Edited(k), base |-> Config!Loaded, plan |-> plan]],
         stale' = (stale \/ file = Torn), UNCHANGED <<file, config, hub, config_saved>>,
         plan = "save" => k \notin {"hub", "ifaces"}, plan = "sync" => k # "hub"
  PROVE  ConfigInv'
<1>1. /\ Config!Loaded \in Config!Content /\ Known(Config!Loaded)
  BY SettingsAssumption DEF Config!Loaded, Config!Defaults, ConfigInv, ConfigTyped, KnownVersions, Known,
     Config!Content, Config!Version
<1>2. /\ Config!Edited(k) \in Config!Content /\ Config!Edited(k)[k] = edits + 1
      /\ \A i \in Config!Key \ {k} : Config!Edited(k)[i] = Config!Loaded[i]
      /\ edits \in Nat /\ edits + 1 \in Config!Version
  BY <1>1, SettingsAssumption DEF Config!Edited, ConfigInv, ConfigTyped, Config!Content, Config!Version
<1>3. \A i \in Config!Key : /\ Config!Loaded[i] \in Nat /\ Config!Loaded[i] <= Config!Edited(k)[i]
                            /\ Config!Edited(k)[i] <= edits + 1
  BY <1>1, <1>2 DEF Known, Config!Content, Config!Version
<1>4. PICK j \in Config!Job :
        /\ j = [pc |-> "save", has |-> Config!Edited(k), base |-> Config!Loaded, plan |-> plan]
        /\ j.pc = "save" /\ j.plan = plan /\ j.has = Config!Edited(k) /\ j.base = Config!Loaded
  <2>1. [pc |-> "save", has |-> Config!Edited(k), base |-> Config!Loaded, plan |-> plan] \in Config!Job
    BY <1>1, <1>2 DEF Config!Job, Config!Step
  <2> QED
    BY <2>1
<1>5. /\ config_job' \in [Config!Actor -> Config!Job] /\ config_job'[a] = j
      /\ \A b \in Config!Actor \ {a} : config_job'[b] = config_job[b]
      /\ a \in Config!Actor
  BY <1>4, NewJob DEF ConfigInv, Config!Actor
<1>6. ConfigTyped'
  BY <1>2, <1>5 DEF ConfigInv, ConfigTyped
<1>7. KnownVersions'
  <2>1. \A f \in Config!Content : Known(f) => \A i \in Config!Key : f[i] <= edits'
    BY <1>2 DEF Known, Config!Content, Config!Version
  <2>2. \A i \in Config!Key : j.has[i] <= edits' /\ j.base[i] <= edits'
    BY <1>1, <1>2, <1>3, <1>4 DEF Known
  <2>3. \A b \in Config!Actor : \A i \in Config!Key :
          config_job'[b].has[i] <= edits' /\ config_job'[b].base[i] <= edits'
    <3>1. \A b \in Config!Actor : config_job[b].has \in Config!Content /\ config_job[b].base \in Config!Content
      BY DEF ConfigInv, ConfigTyped, Config!Job
    <3> QED
      BY <1>5, <2>1, <2>2, <3>1 DEF ConfigInv, KnownVersions, Known
  <2> QED
    BY <2>1, <2>3 DEF ConfigInv, KnownVersions, ConfigTyped, Known
<1>8. \A b \in Config!Actor : Planned(b)'
  <2>1. \A i \in Config!Key : j.base[i] <= j.has[i]
    BY <1>3, <1>4
  <2>2. {"hub", "ifaces"} \subseteq Config!Key
    BY DEF Config!Key
  <2>3. Planned(a)'
    BY <1>2, <1>4, <1>5, <2>1, <2>2 DEF Planned, SameNet
  <2> QED
    BY <1>5, <2>3 DEF ConfigInv, Planned, SameNet
<1>9. ASSUME ~stale' PROVE (InTurn /\ Rendered /\ Applied)'
  <2>1. InTurn /\ Rendered /\ Applied /\ file # Torn
    BY <1>9 DEF ConfigInv
  <2>2. \A b \in Config!Actor : /\ Dumping(b)' <=> Dumping(b)
                                /\ ToRender(b)' <=> ToRender(b)
                                /\ ToApply(b)' <=> ToApply(b)
    BY <1>4, <1>5 DEF Dumping, ToRender, ToApply
  <2>3. InTurn'
    BY <2>1, <2>2 DEF InTurn
  <2>4. Rendered'
    BY <2>1, <2>2 DEF Rendered
  <2>5. ToBoot' <=> ToBoot
    BY <1>5, SettingsAssumption DEF ToBoot, Config!Actor
  <2>6. Applied'
    BY <2>1, <2>2, <2>5 DEF Applied
  <2> QED
    BY <2>3, <2>4, <2>6
<1> QED
  BY <1>6, <1>7, <1>8, <1>9 DEF ConfigInv

\* What a job takes along of the types.
LEMMA JobTyped ==
  ASSUME ConfigInv, NEW a \in Config!Actor
  PROVE  /\ config_job[a] \in Config!Job
         /\ config_job[a].has \in Config!Content /\ config_job[a].base \in Config!Content
         /\ \A k \in Config!Key : /\ config_job[a].has[k] \in Nat /\ config_job[a].has[k] <= edits
                                  /\ config_job[a].base[k] \in Nat /\ config_job[a].base[k] <= config_job[a].has[k]
  BY DEF ConfigInv, ConfigTyped, KnownVersions, Known, Planned, Config!Job, Config!Content, Config!Version

\* A step in which one writer goes on, with what it has or one newer group of keys.
LEMMA JobGoesOn ==
  ASSUME ConfigInv, NEW a \in Config!Actor, NEW j \in Config!Job, config_job' = [config_job EXCEPT ![a] = j],
         edits' \in Config!Version, edits <= edits', config' \in Config!Content, hub' \in Config!Version,
         stale' \in BOOLEAN, file' \in Config!Content \union {Torn}, config_saved' \in Config!Content,
         \A k \in Config!Key : /\ j.has[k] <= edits' /\ j.base[k] <= edits' /\ config_saved'[k] <= edits'
                               /\ file' # Torn => file'[k] <= edits',
         Planned(a)'
  PROVE  ConfigTyped' /\ KnownVersions' /\ \A b \in Config!Actor : Planned(b)'
<1>1. /\ config_job' \in [Config!Actor -> Config!Job] /\ config_job'[a] = j
      /\ \A b \in Config!Actor \ {a} : config_job'[b] = config_job[b]
  BY NewJob DEF ConfigInv
<1>2. ConfigTyped'
  BY <1>1 DEF ConfigTyped
<1>3. \A b \in Config!Actor : \A k \in Config!Key :
        config_job'[b].has[k] <= edits' /\ config_job'[b].base[k] <= edits'
  <2>1. edits \in Nat /\ edits' \in Nat
    BY SettingsAssumption DEF ConfigInv, ConfigTyped, Config!Version
  <2>2. ASSUME NEW b \in Config!Actor \ {a}, NEW k \in Config!Key
        PROVE  config_job[b].has[k] <= edits' /\ config_job[b].base[k] <= edits'
    BY <2>1, JobTyped
  <2> QED
    BY <1>1, <2>2
<1>4. KnownVersions'
  BY <1>3 DEF KnownVersions, Known
<1>5. \A b \in Config!Actor : Planned(b)'
  BY <1>1 DEF ConfigInv, Planned, SameNet
<1> QED
  BY <1>2, <1>4, <1>5

\* The writers and what they are about to do, but for one.
LEMMA OthersStay ==
  ASSUME ConfigInv, NEW a \in Config!Actor, NEW j \in Config!Job, config_job' = [config_job EXCEPT ![a] = j]
  PROVE  /\ config_job'[a] = j
         /\ \A b \in Config!Actor \ {a} : /\ config_job'[b] = config_job[b]
                                          /\ Dumping(b)' <=> Dumping(b)
                                          /\ ToRender(b)' <=> ToRender(b)
                                          /\ ToApply(b)' <=> ToApply(b)
         /\ Starter \in Config!Actor
         /\ a # Starter => (ToBoot' <=> ToBoot)
  BY NewJob DEF ConfigInv, Dumping, ToRender, ToApply, ToBoot, Config!Actor

\* A writer empties the file.
LEMMA TruncatesFollows ==
  ASSUME ConfigInv, NEW a \in Config!Actor, NEW j \in Config!Job, config_job' = [config_job EXCEPT ![a] = j],
         Config!Truncates(a), UNCHANGED <<config, hub, config_saved>>, edits' \in Config!Version, edits <= edits',
         \A k \in Config!Key : j.has[k] <= edits', Planned(a)', j.base = config_job[a].base,
         \/ config_job[a].pc = "save" /\ j.pc = "dump"
         \/ config_job[a].pc = "config" /\ j.pc = "configdump" /\ j.plan = config_job[a].plan
         \/ config_job[a].pc = "last" /\ j.pc = "lastdump"
  PROVE  ConfigInv'
<1>1. /\ file' = Torn
      /\ stale' = (stale \/ file # config_job[a].base \/ \E b \in Config!Actor \ {a} : Dumping(b))
  BY DEF Config!Truncates, Dumping
<1>2. edits \in Nat /\ edits' \in Nat /\ stale' \in BOOLEAN
  BY <1>1, SettingsAssumption DEF ConfigInv, ConfigTyped, Config!Version
<1>3. \A k \in Config!Key : j.base[k] <= edits' /\ config_saved[k] <= edits'
  BY <1>2, JobTyped DEF ConfigInv, KnownVersions, Known, ConfigTyped, Config!Content, Config!Version
<1>4. ConfigTyped' /\ KnownVersions' /\ \A b \in Config!Actor : Planned(b)'
  BY <1>1, <1>2, <1>3, JobGoesOn DEF ConfigInv, ConfigTyped
<1>5. ASSUME ~stale' PROVE (InTurn /\ Rendered /\ Applied)'
  <2>1. InTurn /\ Rendered /\ Applied
    BY <1>1, <1>5 DEF ConfigInv
  <2>2. file = config_job[a].base /\ \A b \in Config!Actor \ {a} : ~Dumping(b)
    BY <1>1, <1>5
  <2>3. config_saved = j.base
    BY <2>1, <2>2, JobTyped, SettingsAssumption DEF InTurn
  <2>4. /\ config_job'[a] = j
        /\ \A b \in Config!Actor \ {a} : /\ config_job'[b] = config_job[b]
                                         /\ Dumping(b)' <=> Dumping(b)
                                         /\ ToRender(b)' <=> ToRender(b)
                                         /\ ToApply(b)' <=> ToApply(b)
        /\ a # Starter => (ToBoot' <=> ToBoot)
    BY OthersStay
  <2>5. /\ Dumping(a)' /\ (ToRender(a) => ToRender(a)') /\ (ToApply(a) => ToApply(a)')
        /\ a = Starter => ~ToBoot
    BY <2>4 DEF Dumping, ToRender, ToApply, ToBoot
  <2>6. InTurn'
    BY <1>1, <2>2, <2>3, <2>4, <2>5 DEF InTurn
  <2>7. Rendered'
    BY <2>1, <2>4, <2>5 DEF Rendered
  <2>8. Applied'
    BY <2>1, <2>4, <2>5 DEF Applied
  <2> QED
    BY <2>6, <2>7, <2>8
<1> QED
  BY <1>4, <1>5 DEF ConfigInv

LEMMA OpensFollows ==
  ASSUME ConfigInv, NEW a \in Config!Actor, Config!SaveOpens(a) \/ Config!ConfigOpens(a)
  PROVE  ConfigInv'
<1>1. PICK p \in {"dump", "configdump"} :
        /\ config_job' = [config_job EXCEPT ![a] = [config_job[a] EXCEPT !.pc = p]]
        /\ \/ config_job[a].pc = "save" /\ p = "dump"
           \/ config_job[a].pc = "config" /\ p = "configdump"
  BY DEF Config!SaveOpens, Config!ConfigOpens
<1>2. Config!Truncates(a) /\ UNCHANGED <<config, hub, edits, config_saved>>
  BY DEF Config!SaveOpens, Config!ConfigOpens
<1>3. PICK j \in Config!Job : /\ config_job' = [config_job EXCEPT ![a] = j]
                              /\ j.pc = p /\ j.plan = config_job[a].plan
                              /\ j.has = config_job[a].has /\ j.base = config_job[a].base
  <2>1. LET i == [config_job[a] EXCEPT !.pc = p]
        IN  i \in Config!Job /\ i.pc = p /\ i.plan = config_job[a].plan
            /\ i.has = config_job[a].has /\ i.base = config_job[a].base
    BY JobTyped DEF Config!Job, Config!Step
  <2> QED
    BY <1>1, <2>1
<1>4. config_job'[a] = j
  BY <1>3, NewJob DEF ConfigInv
<1>5. Planned(a)'
  BY <1>1, <1>3, <1>4 DEF ConfigInv, Planned, SameNet
<1>6. edits' \in Config!Version /\ edits <= edits' /\ \A k \in Config!Key : j.has[k] <= edits'
  BY <1>2, <1>3, JobTyped, SettingsAssumption DEF ConfigInv, ConfigTyped, Config!Version
<1> QED
  BY <1>1, <1>2, <1>3, <1>5, <1>6, TruncatesFollows

LEMMA StoresFollows ==
  ASSUME ConfigInv, Config!StoresOwnHash
  PROVE  ConfigInv'
<1>1. Starter \in Config!Actor
  BY DEF Config!Actor
<1>2. /\ config_job[Starter].pc = "last" /\ edits < MaxEdits /\ edits' = edits + 1
      /\ config_job' = [config_job EXCEPT ![Starter].has["hash"] = edits + 1, ![Starter].pc = "lastdump"]
      /\ Config!Truncates(Starter) /\ UNCHANGED <<config, hub, config_saved>>
  BY DEF Config!StoresOwnHash
<1> DEFINE h == [config_job[Starter].has EXCEPT !["hash"] = edits + 1]
<1>3. edits \in Nat /\ edits' \in Config!Version /\ edits + 1 \in Config!Version
  BY <1>2, SettingsAssumption DEF ConfigInv, ConfigTyped, Config!Version
<1>4. /\ h \in Config!Content /\ h["hash"] = edits + 1
      /\ \A k \in Config!Key \ {"hash"} : h[k] = config_job[Starter].has[k]
  BY <1>1, <1>3, JobTyped DEF Config!Content, Config!Key
<1>5. PICK j \in Config!Job : /\ config_job' = [config_job EXCEPT ![Starter] = j]
                              /\ j.pc = "lastdump" /\ j.plan = config_job[Starter].plan
                              /\ j.has = h /\ j.base = config_job[Starter].base
  <2> DEFINE i == [config_job[Starter] EXCEPT !.has = h, !.pc = "lastdump"]
  <2>1. /\ i \in Config!Job /\ i.pc = "lastdump" /\ i.plan = config_job[Starter].plan
        /\ i.has = h /\ i.base = config_job[Starter].base
    <3> HIDE DEF h
    <3> QED
      BY <1>1, <1>4, JobTyped DEF Config!Job, Config!Step
  <2>2. config_job' = [config_job EXCEPT ![Starter] = i]
    <3> DEFINE half == [config_job EXCEPT ![Starter] = [config_job[Starter] EXCEPT !.has = h]]
    <3>1. config_job' = [half EXCEPT ![Starter] = [half[Starter] EXCEPT !.pc = "lastdump"]]
      BY <1>2
    <3>2. half[Starter] = [config_job[Starter] EXCEPT !.has = h]
      BY <1>1 DEF ConfigInv, ConfigTyped
    <3>3. [half[Starter] EXCEPT !.pc = "lastdump"] = i
      BY <3>2
    <3>4. config_job' = [half EXCEPT ![Starter] = i]
      BY <3>1, <3>3
    <3> HIDE DEF i
    <3> QED
      BY <3>4
  <2> HIDE DEF i
  <2> QED
    BY <2>1, <2>2
<1> HIDE DEF h
<1>6. config_job'[Starter] = j
  BY <1>1, <1>5, NewJob DEF ConfigInv
<1>7. \A k \in Config!Key : /\ j.base[k] <= j.has[k] /\ j.has[k] <= edits'
                            /\ k # "hash" => j.has[k] = j.base[k]
  BY <1>1, <1>2, <1>3, <1>4, <1>5, JobTyped DEF ConfigInv, Planned
<1>8. Planned(Starter)'
  BY <1>1, <1>2, <1>5, <1>6, <1>7 DEF ConfigInv, Planned, SameNet, Config!Key
<1>9. edits <= edits'
  BY <1>2, <1>3
<1> QED
  BY <1>1, <1>2, <1>3, <1>5, <1>7, <1>8, <1>9, TruncatesFollows

\* A writer fills the file: nobody else writes, so what it has is what was saved, changed.
LEMMA FillsSaves ==
  ASSUME ConfigInv, NEW a \in Config!Actor, Config!Fills(a), Dumping(a)
  PROVE  /\ file' \in Config!Content \union {Torn} /\ config_saved' \in Config!Content
         /\ \A k \in Config!Key : config_saved'[k] <= edits /\ (file' # Torn => file'[k] <= edits)
         /\ ~stale => /\ file' = config_job[a].has /\ config_saved' = config_job[a].has
                      /\ config_saved = config_job[a].base /\ \A b \in Config!Actor \ {a} : ~Dumping(b)
<1> DEFINE h == config_job[a].has
<1>1. /\ file' \in {h, Torn}
      /\ file' = h \/ \E b \in Config!Actor \ {a} : Dumping(b)
      /\ config_saved' = [k \in Config!Key |-> IF h[k] > config_saved[k] THEN h[k] ELSE config_saved[k]]
  BY DEF Config!Fills, Dumping
<1>2. /\ h \in Config!Content /\ \A k \in Config!Key : h[k] <= edits
      /\ \A k \in Config!Key : config_saved[k] <= edits
      /\ config_saved \in Config!Content
  BY JobTyped DEF ConfigInv, KnownVersions, Known, ConfigTyped
<1>3. /\ config_saved' \in Config!Content
      /\ \A k \in Config!Key : config_saved'[k] <= edits
  BY <1>1, <1>2 DEF Config!Content
<1>4. ASSUME ~stale
      PROVE  /\ file' = h /\ config_saved' = h
             /\ config_saved = config_job[a].base /\ \A b \in Config!Actor \ {a} : ~Dumping(b)
  <2>1. config_saved = config_job[a].base /\ \A b \in Config!Actor \ {a} : ~Dumping(b)
    BY <1>4 DEF ConfigInv, InTurn
  <2>2. \A k \in Config!Key : h[k] \in Nat /\ config_saved[k] \in Nat /\ config_saved[k] <= h[k]
    BY <2>1, JobTyped
  <2>3. \A k \in Config!Key : config_saved'[k] = h[k]
    BY <1>1, <2>2
  <2>4. config_saved' = h
    BY <1>2, <1>3, <2>3 DEF Config!Content
  <2> QED
    BY <1>1, <2>1, <2>4
<1> QED
  BY <1>1, <1>2, <1>3, <1>4

\* What a filled file means for the job and the config.
LEMMA FilledFollows ==
  ASSUME ConfigInv, NEW a \in Config!Actor, Config!Fills(a), Dumping(a), UNCHANGED <<config, edits, stale>>,
         NEW j \in Config!Job, config_job' = [config_job EXCEPT ![a] = j],
         hub' \in Config!Version, Planned(a)', \A k \in Config!Key : j.has[k] <= edits /\ j.base[k] <= edits,
         j.pc \notin {"dump", "configdump", "lastdump"},
         \/ ToRender(a)'
         \/ ~ToRender(a) /\ SameNet(a),
         \/ hub' = config_job[a].has["hub"]
         \/ ToApply(a)'
         \/ hub' = hub /\ ~ToApply(a) /\ config_job[a].has["hub"] = config_job[a].base["hub"]
  PROVE  ConfigInv'
<1>1. /\ file' \in Config!Content \union {Torn} /\ config_saved' \in Config!Content
      /\ \A k \in Config!Key : config_saved'[k] <= edits /\ (file' # Torn => file'[k] <= edits)
      /\ ~stale => /\ file' = config_job[a].has /\ config_saved' = config_job[a].has
                   /\ config_saved = config_job[a].base /\ \A b \in Config!Actor \ {a} : ~Dumping(b)
  BY FillsSaves
<1>2. edits \in Config!Version /\ edits <= edits /\ config \in Config!Content /\ stale \in BOOLEAN
  BY SettingsAssumption DEF ConfigInv, ConfigTyped, Config!Version
<1>3. ConfigTyped' /\ KnownVersions' /\ \A b \in Config!Actor : Planned(b)'
  BY <1>1, <1>2, JobGoesOn
<1>4. ASSUME ~stale' PROVE (InTurn /\ Rendered /\ Applied)'
  <2>1. InTurn /\ Rendered /\ Applied
    BY <1>4 DEF ConfigInv
  <2>2. /\ file' = config_job[a].has /\ config_saved' = config_job[a].has
        /\ config_saved = config_job[a].base /\ \A b \in Config!Actor \ {a} : ~Dumping(b)
    BY <1>1, <1>4
  <2>3. file' # Torn
    BY <2>2, JobTyped, SettingsAssumption
  <2>4. /\ config_job'[a] = j
        /\ \A b \in Config!Actor \ {a} : /\ config_job'[b] = config_job[b]
                                         /\ Dumping(b)' <=> Dumping(b)
                                         /\ ToRender(b)' <=> ToRender(b)
                                         /\ ToApply(b)' <=> ToApply(b)
        /\ a # Starter => (ToBoot' <=> ToBoot)
    BY OthersStay
  <2>5. ~Dumping(a)' /\ config_job[a].pc # "idle"
    BY <2>4 DEF Dumping
  <2>6. InTurn'
    BY <2>2, <2>3, <2>4, <2>5 DEF InTurn
  <2>7. Rendered'
    BY <2>1, <2>2, <2>4 DEF Rendered, SameNet
  <2>8. ToBoot => ToBoot'
    BY <2>4, <2>5 DEF ToBoot
  <2>9. Applied'
    BY <2>1, <2>2, <2>4, <2>8 DEF Applied
  <2> QED
    BY <2>6, <2>7, <2>9
<1> QED
  BY <1>3, <1>4 DEF ConfigInv

LEMMA IdleJob ==
  /\ Config!Idle \in Config!Job /\ Config!Idle.pc = "idle" /\ Config!Idle.plan = "save"
  /\ \A k \in Config!Key : Config!Idle.has[k] = 0 /\ Config!Idle.base[k] = 0
  BY SettingsAssumption DEF Config!Idle, Config!Job, Config!Defaults, Config!Content, Config!Version

\* A writer that is through.
LEMMA EndsPlanned ==
  ASSUME ConfigInv, NEW a \in Config!Actor, config_job' = [config_job EXCEPT ![a] = Config!Idle]
  PROVE  Planned(a)' /\ ~ToRender(a)' /\ ~ToApply(a)'
<1>1. config_job'[a] = Config!Idle
  BY IdleJob, NewJob DEF ConfigInv
<1> QED
  BY <1>1, IdleJob DEF Planned, ToRender, ToApply

\* A writer that goes on with what it saved.
LEMMA GoesJob ==
  ASSUME ConfigInv, NEW a \in Config!Actor, NEW p \in {"config", "render", "apply"}, Config!Goes(a, p)
  PROVE  \E j \in Config!Job : /\ config_job' = [config_job EXCEPT ![a] = j] /\ config_job'[a] = j
                               /\ j.pc = p /\ j.plan = config_job[a].plan
                               /\ j.has = config_job[a].has /\ j.base = config_job[a].has
<1> DEFINE half == [config_job EXCEPT ![a] = [config_job[a] EXCEPT !.pc = p]]
           i == [[config_job[a] EXCEPT !.pc = p] EXCEPT !.base = config_job[a].has]
<1>1. config_job' = [half EXCEPT ![a] = [half[a] EXCEPT !.base = config_job[a].has]]
  BY DEF Config!Goes
<1>2. half[a] = [config_job[a] EXCEPT !.pc = p]
  BY DEF ConfigInv, ConfigTyped
<1>3. config_job' = [half EXCEPT ![a] = i]
  BY <1>1, <1>2
<1>4. /\ i \in Config!Job /\ i.pc = p /\ i.plan = config_job[a].plan
      /\ i.has = config_job[a].has /\ i.base = config_job[a].has
  BY JobTyped DEF Config!Job, Config!Step
<1> HIDE DEF i
<1>5. config_job' = [config_job EXCEPT ![a] = i]
  BY <1>3
<1> HIDE DEF half
<1>6. config_job'[a] = i
  BY <1>4, <1>5, NewJob DEF ConfigInv
<1> QED
  BY <1>4, <1>5, <1>6

LEMMA SaveFillsFollows ==
  ASSUME ConfigInv, NEW a \in Config!Actor, Config!SaveFills(a)
  PROVE  ConfigInv'
<1>1. /\ config_job[a].pc = "dump" /\ Config!Fills(a) /\ Dumping(a) /\ UNCHANGED <<config, edits, stale>>
      /\ hub' = IF config_job[a].plan = "fast" THEN config_job[a].has["hub"] ELSE hub
      /\ IF config_job[a].plan = "save" THEN Config!Ends(a) ELSE Config!Goes(a, "config")
  BY DEF Config!SaveFills, Config!AfterSave, Dumping
<1>2. /\ config_job[a].plan \in {"save", "sync", "await", "fast"}
      /\ config_job[a].plan = "save" => SameNet(a)
      /\ config_job[a].plan = "sync" => config_job[a].has["hub"] = config_job[a].base["hub"]
      /\ \A k \in Config!Key : config_job[a].has[k] \in Config!Version /\ config_job[a].has[k] <= edits
  BY <1>1, JobTyped DEF ConfigInv, Planned, Config!Job, Config!Content
<1>3. hub' \in Config!Version
  BY <1>1, <1>2 DEF ConfigInv, ConfigTyped, Config!Key
<1>4. ~ToRender(a) /\ ~ToApply(a)
  BY <1>1 DEF ToRender, ToApply
<1>5. edits \in Nat
  BY SettingsAssumption DEF ConfigInv, ConfigTyped, Config!Version
<1>6. CASE config_job[a].plan = "save"
  <2>1. config_job' = [config_job EXCEPT ![a] = Config!Idle]
    BY <1>1, <1>6 DEF Config!Ends
  <2>2. Planned(a)'
    BY <2>1, EndsPlanned
  <2>4. \A k \in Config!Key : Config!Idle.has[k] <= edits /\ Config!Idle.base[k] <= edits
    BY <1>5, IdleJob
  <2>3. config_job[a].has["hub"] = config_job[a].base["hub"]
    BY <1>2, <1>6 DEF SameNet
  <2> QED
    BY <1>1, <1>2, <1>3, <1>4, <1>6, <2>1, <2>2, <2>3, <2>4, IdleJob, FilledFollows
<1>7. CASE config_job[a].plan # "save"
  <2>1. PICK j \in Config!Job :
          /\ config_job' = [config_job EXCEPT ![a] = j] /\ config_job'[a] = j
          /\ j.pc = "config" /\ j.plan = config_job[a].plan
          /\ j.has = config_job[a].has /\ j.base = config_job[a].has
    BY <1>1, <1>7, GoesJob
  <2>2. ToRender(a)' /\ (config_job[a].plan = "await" => ToApply(a)')
    BY <2>1 DEF ToRender, ToApply
  <2>3. Planned(a)'
    BY <1>2, <1>7, <2>1, JobTyped DEF Planned
  <2>4. \A k \in Config!Key : j.has[k] <= edits /\ j.base[k] <= edits
    BY <1>2, <2>1
  <2> QED
    BY <1>1, <1>2, <1>3, <1>4, <1>7, <2>1, <2>2, <2>3, <2>4, FilledFollows
<1> QED
  BY <1>6, <1>7

LEMMA ConfigFillsFollows ==
  ASSUME ConfigInv, NEW a \in Config!Actor, Config!ConfigFills(a)
  PROVE  ConfigInv'
<1>1. /\ config_job[a].pc = "configdump" /\ Config!Fills(a) /\ Dumping(a) /\ Config!Goes(a, "render")
      /\ UNCHANGED <<config, edits, stale, hub>>
  BY DEF Config!ConfigFills, Dumping
<1>2. /\ config_job[a].plan # "save" /\ config_job[a].has = config_job[a].base
      /\ \A k \in Config!Key : config_job[a].has[k] \in Nat /\ config_job[a].has[k] <= edits
  BY <1>1, JobTyped DEF ConfigInv, Planned
<1>3. PICK j \in Config!Job :
        /\ config_job' = [config_job EXCEPT ![a] = j] /\ config_job'[a] = j
        /\ j.pc = "render" /\ j.plan = config_job[a].plan
        /\ j.has = config_job[a].has /\ j.base = config_job[a].has
  BY <1>1, GoesJob
<1>4. ToRender(a)' /\ (ToApply(a) => ToApply(a)')
  BY <1>3 DEF ToRender, ToApply
<1>5. Planned(a)'
  BY <1>2, <1>3, JobTyped DEF Planned
<1>6. \A k \in Config!Key : j.has[k] <= edits /\ j.base[k] <= edits
  BY <1>2, <1>3
<1>7. hub' \in Config!Version
  BY <1>1 DEF ConfigInv, ConfigTyped
<1> QED
  BY <1>1, <1>2, <1>3, <1>4, <1>5, <1>6, <1>7, FilledFollows

LEMMA LastFillsFollows ==
  ASSUME ConfigInv, Config!LastFills
  PROVE  ConfigInv'
<1>1. /\ Starter \in Config!Actor
      /\ config_job[Starter].pc = "lastdump" /\ Config!Fills(Starter) /\ Dumping(Starter)
      /\ config_job' = [config_job EXCEPT ![Starter] = Config!Idle] /\ UNCHANGED <<config, edits, stale, hub>>
  BY DEF Config!LastFills, Config!Ends, Dumping, Config!Actor
<1>2. SameNet(Starter) /\ ~ToRender(Starter) /\ ~ToApply(Starter)
  BY <1>1 DEF ConfigInv, Planned, ToRender, ToApply
<1>3. config_job[Starter].has["hub"] = config_job[Starter].base["hub"]
  BY <1>2 DEF SameNet
<1>4. edits \in Nat /\ hub' \in Config!Version
  BY <1>1, SettingsAssumption DEF ConfigInv, ConfigTyped, Config!Version
<1>5. Planned(Starter)'
  BY <1>1, EndsPlanned
<1>6. \A k \in Config!Key : Config!Idle.has[k] <= edits /\ Config!Idle.base[k] <= edits
  BY <1>4, IdleJob
<1> QED
  BY <1>1, <1>2, <1>3, <1>4, <1>5, <1>6, IdleJob, FilledFollows

\* A step of one writer that leaves settings.json alone.
LEMMA LeavesFileFollows ==
  ASSUME ConfigInv, NEW a \in Config!Actor, NEW j \in Config!Job, config_job' = [config_job EXCEPT ![a] = j],
         UNCHANGED <<file, edits, config_saved>>, ~Dumping(a), j.pc \notin {"dump", "configdump", "lastdump"},
         stale' \in BOOLEAN, stale => stale',
         config' \in Config!Content, hub' \in Config!Version,
         Planned(a)', \A k \in Config!Key : j.has[k] <= edits /\ j.base[k] <= edits,
         \/ ~stale' => file # Torn /\ config' = file
         \/ config' = config /\ (ToRender(a) => ToRender(a)'),
         \/ ~stale' => file # Torn /\ hub' = file["hub"]
         \/ hub' = hub /\ (ToApply(a) => ToApply(a)') /\ (a = Starter /\ ToBoot => ToApply(a)')
  PROVE  ConfigInv'
<1>1. ConfigTyped' /\ KnownVersions' /\ \A b \in Config!Actor : Planned(b)'
  <2>1. /\ edits' \in Config!Version /\ edits <= edits' /\ file' \in Config!Content \union {Torn}
        /\ config_saved' \in Config!Content
    BY SettingsAssumption DEF ConfigInv, ConfigTyped, Config!Version
  <2>2. \A k \in Config!Key : /\ config_saved'[k] <= edits' /\ j.has[k] <= edits' /\ j.base[k] <= edits'
                              /\ file' # Torn => file'[k] <= edits'
    BY DEF ConfigInv, KnownVersions, Known
  <2> QED
    BY <2>1, <2>2, JobGoesOn
<1>2. ASSUME ~stale' PROVE (InTurn /\ Rendered /\ Applied)'
  <2>1. InTurn /\ Rendered /\ Applied
    BY <1>2 DEF ConfigInv
  <2>2. /\ config_job'[a] = j
        /\ \A b \in Config!Actor \ {a} : /\ config_job'[b] = config_job[b]
                                         /\ Dumping(b)' <=> Dumping(b)
                                         /\ ToRender(b)' <=> ToRender(b)
                                         /\ ToApply(b)' <=> ToApply(b)
        /\ a # Starter => (ToBoot' <=> ToBoot)
    BY OthersStay
  <2>3. ~Dumping(a)'
    BY <2>2 DEF Dumping
  <2>4. InTurn'
    BY <2>1, <2>2, <2>3 DEF InTurn
  <2>5. file # Torn => file = config_saved
    BY <2>1 DEF InTurn
  <2>6. Rendered'
    BY <1>2, <2>1, <2>2, <2>5 DEF Rendered
  <2>7. Applied'
    BY <1>2, <2>1, <2>2, <2>5 DEF Applied
  <2> QED
    BY <2>4, <2>6, <2>7
<1> QED
  BY <1>1, <1>2 DEF ConfigInv

LEMMA RendersFollows ==
  ASSUME ConfigInv, NEW a \in Config!Actor, Config!Renders(a)
  PROVE  ConfigInv'
<1>1. /\ config_job[a].pc = "render" /\ config' = config_job[a].has
      /\ stale' = (stale \/ file # config_job[a].has) /\ UNCHANGED <<file, hub, edits, config_saved>>
      /\ IF config_job[a].plan \in {"await", "boot"} THEN Config!Goes(a, "apply") ELSE Config!Ends(a)
  BY DEF Config!Renders, Config!AfterRender
<1>2. /\ ~Dumping(a) /\ config_job[a].plan # "save" /\ stale' \in BOOLEAN /\ (stale => stale')
      /\ ~stale' => file # Torn /\ config' = file
      /\ config' \in Config!Content /\ hub' \in Config!Version
  BY <1>1, JobTyped, SettingsAssumption DEF ConfigInv, ConfigTyped, Planned, Dumping
<1>3. edits \in Nat /\ ~(a = Starter /\ ToBoot)
  BY <1>1, SettingsAssumption DEF ConfigInv, ConfigTyped, Config!Version, ToBoot
<1>4. CASE config_job[a].plan \in {"await", "boot"}
  <2>1. PICK j \in Config!Job :
          /\ config_job' = [config_job EXCEPT ![a] = j] /\ config_job'[a] = j
          /\ j.pc = "apply" /\ j.plan = config_job[a].plan
          /\ j.has = config_job[a].has /\ j.base = config_job[a].has
    BY <1>1, <1>4, GoesJob
  <2>2. ToApply(a)'
    BY <1>4, <2>1 DEF ToApply
  <2>3. Planned(a)'
    BY <1>4, <2>1, JobTyped DEF Planned
  <2>4. \A k \in Config!Key : j.has[k] <= edits /\ j.base[k] <= edits
    BY <2>1, JobTyped
  <2>5. hub' = hub
    BY <1>1
  <2> QED
    BY <1>1, <1>2, <1>3, <2>1, <2>2, <2>3, <2>4, <2>5, LeavesFileFollows
<1>5. CASE config_job[a].plan \notin {"await", "boot"}
  <2>1. config_job' = [config_job EXCEPT ![a] = Config!Idle]
    BY <1>1, <1>5 DEF Config!Ends
  <2>2. Planned(a)'
    BY <2>1, EndsPlanned
  <2>3. \A k \in Config!Key : Config!Idle.has[k] <= edits /\ Config!Idle.base[k] <= edits
    BY <1>3, IdleJob
  <2>4. ~ToApply(a) /\ hub' = hub
    BY <1>1, <1>5 DEF ToApply
  <2> QED
    BY <1>1, <1>2, <1>3, <2>1, <2>2, <2>3, <2>4, IdleJob, LeavesFileFollows
<1> QED
  BY <1>4, <1>5

LEMMA AppliesFollows ==
  ASSUME ConfigInv, NEW a \in Config!Actor, Config!Applies(a)
  PROVE  ConfigInv'
<1>1. /\ config_job[a].pc = "apply" /\ hub' = config_job[a].has["hub"]
      /\ stale' = (stale \/ file # config_job[a].has) /\ UNCHANGED <<file, config, edits, config_saved>>
      /\ IF config_job[a].plan = "boot" THEN config_job' = [config_job EXCEPT ![a].pc = "last"]
                                        ELSE Config!Ends(a)
  BY DEF Config!Applies
<1>2. "hub" \in Config!Key
  BY DEF Config!Key
<1>3. /\ ~Dumping(a) /\ ~ToRender(a) /\ stale' \in BOOLEAN /\ (stale => stale')
      /\ ~stale' => file # Torn /\ hub' = file["hub"]
      /\ config' \in Config!Content
  BY <1>1, JobTyped, SettingsAssumption DEF ConfigInv, ConfigTyped, Dumping, ToRender
<1>4. edits \in Nat /\ hub' \in Config!Version /\ config' = config
  BY <1>1, <1>2, JobTyped, SettingsAssumption DEF ConfigInv, ConfigTyped, Config!Version, Config!Content
<1>5. CASE config_job[a].plan = "boot"
  <2>1. PICK j \in Config!Job : /\ config_job' = [config_job EXCEPT ![a] = j]
                                /\ j.pc = "last" /\ j.plan = config_job[a].plan
                                /\ j.has = config_job[a].has /\ j.base = config_job[a].base
    <3>1. LET i == [config_job[a] EXCEPT !.pc = "last"]
          IN  i \in Config!Job /\ i.pc = "last" /\ i.plan = config_job[a].plan
              /\ i.has = config_job[a].has /\ i.base = config_job[a].base
      BY JobTyped DEF Config!Job, Config!Step
    <3> QED
      BY <1>1, <1>5, <3>1
  <2>2. config_job'[a] = j
    BY <2>1, NewJob DEF ConfigInv
  <2>3. Planned(a)'
    BY <1>1, <1>5, <2>1, <2>2 DEF ConfigInv, Planned
  <2>4. \A k \in Config!Key : j.has[k] <= edits /\ j.base[k] <= edits
    BY <2>1 DEF ConfigInv, KnownVersions, Known
  <2> QED
    BY <1>1, <1>3, <1>4, <2>1, <2>3, <2>4, LeavesFileFollows
<1>6. CASE config_job[a].plan # "boot"
  <2>1. config_job' = [config_job EXCEPT ![a] = Config!Idle]
    BY <1>1, <1>6 DEF Config!Ends
  <2>2. Planned(a)'
    BY <2>1, EndsPlanned
  <2>3. \A k \in Config!Key : Config!Idle.has[k] <= edits /\ Config!Idle.base[k] <= edits
    BY <1>4, IdleJob
  <2> QED
    BY <1>1, <1>3, <1>4, <2>1, <2>2, <2>3, IdleJob, LeavesFileFollows
<1> QED
  BY <1>5, <1>6

LEMMA BootsFollows ==
  ASSUME ConfigInv, Config!Boots
  PROVE  ConfigInv'
<1>1. /\ Starter \in Config!Actor /\ config_job[Starter].pc = "idle" /\ config_job[Starter].plan = "boot"
      /\ config_job' = [config_job EXCEPT ![Starter] =
           [pc |-> "config", has |-> Config!Loaded, base |-> Config!Loaded, plan |-> "boot"]]
      /\ stale' = (stale \/ file = Torn) /\ UNCHANGED <<file, config, hub, edits, config_saved>>
  BY DEF Config!Boots, Config!Actor
<1>2. /\ Config!Loaded \in Config!Content
      /\ \A k \in Config!Key : Config!Loaded[k] \in Nat /\ Config!Loaded[k] <= edits
  BY SettingsAssumption DEF Config!Loaded, Config!Defaults, ConfigInv, ConfigTyped, KnownVersions, Known,
     Config!Content, Config!Version
<1>3. PICK j \in Config!Job : /\ config_job' = [config_job EXCEPT ![Starter] = j]
                              /\ j.pc = "config" /\ j.plan = "boot"
                              /\ j.has = Config!Loaded /\ j.base = Config!Loaded
  <2>1. [pc |-> "config", has |-> Config!Loaded, base |-> Config!Loaded, plan |-> "boot"] \in Config!Job
    BY <1>2 DEF Config!Job, Config!Step
  <2> QED
    BY <1>1, <2>1
<1>4. config_job'[Starter] = j
  BY <1>1, <1>3, NewJob DEF ConfigInv
<1>5. Planned(Starter)'
  BY <1>2, <1>3, <1>4 DEF Planned
<1>6. \A k \in Config!Key : j.has[k] <= edits /\ j.base[k] <= edits
  BY <1>2, <1>3
<1>7. ToRender(Starter)' /\ ToApply(Starter)' /\ ~Dumping(Starter)
  BY <1>1, <1>3, <1>4 DEF ToRender, ToApply, Dumping
<1>8. /\ stale' \in BOOLEAN /\ (stale => stale') /\ config' = config /\ hub' = hub
      /\ config' \in Config!Content /\ hub' \in Config!Version
  BY <1>1 DEF ConfigInv, ConfigTyped
<1> QED
  BY <1>1, <1>3, <1>5, <1>6, <1>7, <1>8, LeavesFileFollows

LEMMA BootEndsFollows ==
  ASSUME ConfigInv, Config!BootEnds
  PROVE  ConfigInv'
<1>1. /\ Starter \in Config!Actor /\ config_job[Starter].pc = "last"
      /\ config_job' = [config_job EXCEPT ![Starter] = Config!Idle]
      /\ UNCHANGED <<file, config, hub, edits, config_saved, stale>>
  BY DEF Config!BootEnds, Config!Ends, Config!Actor
<1>2. Planned(Starter)' /\ ~ToRender(Starter) /\ ~ToApply(Starter) /\ ~Dumping(Starter) /\ ~ToBoot
  BY <1>1, EndsPlanned DEF ToRender, ToApply, Dumping, ToBoot
<1>3. edits \in Nat
  BY SettingsAssumption DEF ConfigInv, ConfigTyped, Config!Version
<1>4. \A k \in Config!Key : Config!Idle.has[k] <= edits /\ Config!Idle.base[k] <= edits
  BY <1>3, IdleJob
<1>5. /\ stale' \in BOOLEAN /\ (stale => stale') /\ config' = config /\ hub' = hub
      /\ config' \in Config!Content /\ hub' \in Config!Version
  BY <1>1 DEF ConfigInv, ConfigTyped
<1> QED
  BY <1>1, <1>2, <1>4, <1>5, IdleJob, LeavesFileFollows

\* The process dies: nobody was writing, or somebody was and it is flagged.
LEMMA CrashFollows ==
  ASSUME ConfigInv, Config!Crash
  PROVE  ConfigInv'
<1>1. /\ stale' = (stale \/ \E a \in Config!Actor : config_job[a].pc # "idle")
      /\ config_job' = [a \in Config!Actor |-> IF a = Starter THEN [Config!Idle EXCEPT !.plan = "boot"] ELSE Config!Idle]
      /\ hub' = 0 /\ UNCHANGED <<file, config, edits, config_saved>>
  BY DEF Config!Crash
<1>2. edits \in Nat /\ 0 \in Config!Version /\ Starter \in Config!Actor
  BY SettingsAssumption DEF ConfigInv, ConfigTyped, Config!Version, Config!Actor
<1>3. LET i == [Config!Idle EXCEPT !.plan = "boot"]
      IN  /\ i \in Config!Job /\ i.pc = "idle" /\ i.plan = "boot"
          /\ i.has = Config!Idle.has /\ i.base = Config!Idle.base
  BY IdleJob DEF Config!Job
<1>4. \A a \in Config!Actor : /\ config_job'[a] \in Config!Job /\ config_job'[a].pc = "idle"
                              /\ config_job'[a].has = Config!Idle.has /\ config_job'[a].base = Config!Idle.base
  BY <1>1, <1>3, IdleJob
<1>5. ConfigTyped'
  BY <1>1, <1>2, <1>4 DEF ConfigInv, ConfigTyped
<1>6. KnownVersions'
  BY <1>1, <1>2, <1>4, IdleJob DEF ConfigInv, KnownVersions, Known
<1>7. \A a \in Config!Actor : Planned(a)'
  BY <1>4, IdleJob DEF Planned
<1>8. ToBoot'
  BY <1>1, <1>2, <1>3 DEF ToBoot
<1>9. ASSUME ~stale' PROVE (InTurn /\ Rendered /\ Applied)'
  <2>1. InTurn /\ Rendered /\ \A a \in Config!Actor : ~Dumping(a) /\ ~ToRender(a)
    BY <1>1, <1>9 DEF ConfigInv, Dumping, ToRender
  <2>2. \A a \in Config!Actor : ~Dumping(a)'
    BY <1>4 DEF Dumping
  <2> QED
    BY <1>1, <1>8, <2>1, <2>2 DEF InTurn, Rendered, Applied
<1> QED
  BY <1>5, <1>6, <1>7, <1>9 DEF ConfigInv

LEMMA ConfigStep == ConfigInv /\ [Config!Next]_(Config!vars) => ConfigInv'
<1> SUFFICES ASSUME ConfigInv, [Config!Next]_(Config!vars) PROVE ConfigInv'
  OBVIOUS
<1>1. ASSUME NEW u \in Handler, Config!PostKeys(u) \/ Config!EditInterfaces(u)
      PROVE  ConfigInv'
  BY <1>1, TakesFollows DEF Config!PostKeys, Config!EditInterfaces, Config!Takes, Config!Key
<1>2. ASSUME NEW u \in Handler, NEW k \in {"hub", "ifaces"}, Config!PostNetwork(u, k) \/ Config!PostSetup(u, k)
      PROVE  ConfigInv'
  BY <1>2, TakesFollows DEF Config!PostNetwork, Config!PostSetup, Config!Takes, Config!Key
<1>3. ASSUME NEW w \in Worker, Config!RecordHash(w)
      PROVE  ConfigInv'
  BY <1>3, TakesFollows DEF Config!RecordHash, Config!Key
<1>4. ASSUME NEW a \in Config!Actor,
             \/ Config!SaveOpens(a) \/ Config!SaveFills(a) \/ Config!ConfigOpens(a) \/ Config!ConfigFills(a)
             \/ Config!Renders(a) \/ Config!Applies(a)
      PROVE  ConfigInv'
  BY <1>4, OpensFollows, SaveFillsFollows, ConfigFillsFollows, RendersFollows, AppliesFollows
<1>5. ASSUME UNCHANGED Config!vars PROVE ConfigInv'
  <2>1. UNCHANGED <<file, config, hub, config_job, edits, config_saved, stale>>
    BY <1>5 DEF Config!vars
  <2>2. /\ ConfigTyped' <=> ConfigTyped
        /\ KnownVersions' <=> KnownVersions
        /\ \A a \in Config!Actor : Planned(a)' <=> Planned(a)
    BY <2>1 DEF ConfigTyped, KnownVersions, Known, Planned, SameNet
  <2>3. InTurn' <=> InTurn
    BY <2>1 DEF InTurn, Dumping
  <2>4. (Rendered' <=> Rendered) /\ (Applied' <=> Applied)
    BY <2>1 DEF Rendered, Applied, ToRender, ToApply, ToBoot
  <2> QED
    BY <2>1, <2>2, <2>3, <2>4 DEF ConfigInv
<1> QED
  BY <1>1, <1>2, <1>3, <1>4, <1>5, BootsFollows, StoresFollows, BootEndsFollows, LastFillsFollows, CrashFollows
     DEF Config!Next

LEMMA ConfigHolds == Spec => []ConfigInv
<1>1. Init => ConfigInv
  BY ConfigStart DEF Init
<1>2. ConfigInv /\ [Next]_vars => ConfigInv'
  BY ConfigSteps, ConfigStep
<1> QED
  BY <1>1, <1>2, PTL DEF Spec

\* What a handler saved stays saved (the load, the change and the save of the
\* whole file in config.py and the handlers): unless two writers overlapped or the
\* process died in one, settings.json at rest has the newest version of every
\* group of keys, however many handlers, threads and start-ups wrote it.
THEOREM SettingsKept == Spec => []SettingLossNeedsOverlap
<1>1. ConfigInv => SettingLossNeedsOverlap
  BY DEF ConfigInv, InTurn, Dumping, SettingLossNeedsOverlap, Config!SettingLossNeedsOverlap, Config!Quiet
<1> QED
  BY <1>1, ConfigHolds, PTL

\* The RNS config and the running hub interfaces follow the settings: whatever
\* path a handler takes (in the executor, in the handler, as a task, at the
\* start), once nobody is at it and no two overlapped, they are those of the file.
THEOREM ConfigFollowsSettings == Spec => []ConfigFollows
<1>1. ASSUME ConfigInv, Config!Quiet, ~stale
      PROVE  /\ config["ifaces"] = config_saved["ifaces"] /\ config["hub"] = config_saved["hub"]
             /\ hub = config_saved["hub"]
  BY <1>1 DEF ConfigInv, Rendered, Applied, ToRender, ToApply, ToBoot, Config!Quiet, Config!Actor
<1>2. ConfigInv => ConfigFollows
  BY <1>1 DEF ConfigFollows, Config!ConfigFollows
<1> QED
  BY <1>2, ConfigHolds, PTL

LEMMA HistorySteps == [Next]_vars => [History!Next]_(History!vars)
  BY DEF Next, vars, HistoryMoves, PeersMoves, BookMoves, RadioMoves, ConfigMoves, ResumeMoves, PlugMoves,
     HistoryVars, History!vars

-----------------------------------------------------------------------------
(* The chat history (ChatHistory)                                              *)

HistoryThread ==
  [pc : {"idle", "append", "assign", "save", "write", "mark", "dequeue"}, msgs : SUBSET History!Msg,
   keep : SUBSET History!Row, mixed : BOOLEAN]
HistoryTyped ==
  /\ history \subseteq History!Row /\ status \in [History!Row -> History!Status]
  /\ history_disk \in [whole : BOOLEAN, rows : SUBSET [row : History!Row, status : History!Status]]
  /\ history_owed \subseteq Out /\ owedDisk = history_owed
  /\ sends \in [Out -> Nat]
  /\ ui \in HistoryThread /\ drain \in HistoryThread
  /\ ui.pc \in {"idle", "append", "assign", "save", "write"}
  /\ ui.pc = "append" => \E m \in Out : ui.msgs = {m}
  /\ ui.pc = "assign" => ui.keep \subseteq history
  /\ drain.pc \in {"idle", "mark", "save", "write", "dequeue"}
  /\ IF drain.pc = "idle" THEN drain.msgs = {} ELSE \E m \in Out : drain.msgs = {m}
  /\ \A r \in History!Row : status[r] = "queued" => r.msg \in Out
  /\ \A x \in history_disk.rows : x.status = "queued" => x.row.msg \in Out

\* A row not in the list is appended.
LEMMA AppendsOne ==
  ASSUME HistoryTyped, NEW m \in History!Msg, NEW s \in History!Status, History!Append(m, s),
         s = "queued" => m \in Out
  PROVE  \E r \in History!Row :
           /\ r.msg = m /\ r \notin history /\ r \notin appended
           /\ history' = history \union {r} /\ appended' = appended \union {r}
           /\ history_overlapped' = IF ui.pc = "assign" THEN history_overlapped \union {r} ELSE history_overlapped
           /\ status' \in [History!Row -> History!Status] /\ status'[r] = s
           /\ \A q \in History!Row \ {r} : status'[q] = status[q]
           /\ \A q \in History!Row : status'[q] = "queued" => q.msg \in Out
<1>1. PICK r \in History!Unused(m) :
        /\ history' = history \union {r} /\ appended' = appended \union {r}
        /\ status' = [status EXCEPT ![r] = s]
        /\ history_overlapped' = IF ui.pc = "assign" THEN history_overlapped \union {r} ELSE history_overlapped
  BY DEF History!Append
<1>2. r \in History!Row /\ r.msg = m /\ r \notin history /\ r \notin appended
  BY DEF History!Unused, History!Of
<1>3. status' \in [History!Row -> History!Status] /\ status'[r] = s /\ \A q \in History!Row \ {r} : status'[q] = status[q]
  BY <1>1, <1>2 DEF HistoryTyped
<1> QED
  BY <1>1, <1>2, <1>3 DEF HistoryTyped

\* The first row of a message is one of its rows.
LEMMA LeastNat ==
  ASSUME NEW S \in SUBSET Nat, S # {}
  PROVE  \E n \in S : \A m \in S : n <= m
<1> DEFINE R == OpToRel(<, Nat)
<1>1. IsWellFoundedOn(R, Nat)
  BY NatLessThanWellFounded
<1>2. PICK n \in S : \A m \in S : ~(<<m, n>> \in R)
  <2> HIDE DEF R
  <2> QED
    BY <1>1, WFMin
<1>3. \A m \in S : ~(m < n)
  BY <1>2 DEF OpToRel
<1> QED
  BY <1>3

FirstOf(rows) == CHOOSE r \in rows : \A q \in rows : r.copy <= q.copy
LEMMA FirstIsOne ==
  ASSUME NEW rows \in SUBSET History!Row, rows # {}
  PROVE  FirstOf(rows) \in rows
<1> DEFINE S == {r.copy : r \in rows}
<1>1. S \in SUBSET Nat /\ S # {}
  BY DEF History!Row
<1>2. PICK n \in S : \A m \in S : n <= m
  <2> HIDE DEF S
  <2> QED
    BY <1>1, LeastNat
<1>3. PICK r \in rows : n = r.copy
  BY <1>2
<1>4. \A q \in rows : r.copy <= q.copy
  BY <1>2, <1>3
<1> QED
  BY <1>4 DEF FirstOf


\* The threads between their steps.
LEMMA IdleThread ==
  /\ History!Idle \in HistoryThread /\ History!Idle.pc = "idle" /\ History!Idle.msgs = {} /\ History!Idle.keep = {}
  /\ LET t == [History!Idle EXCEPT !.pc = "save"] IN t \in HistoryThread /\ t.pc = "save" /\ t.msgs = {}
  BY DEF History!Idle, HistoryThread

LEMMA ThreadSaves ==
  ASSUME NEW t \in HistoryThread, NEW others
  PROVE  LET w == History!Writing(t, others)
             x == History!Mixed(t)
         IN  /\ w \in HistoryThread /\ w.pc = "write" /\ w.msgs = t.msgs
             /\ x \in HistoryThread /\ x.pc = t.pc /\ x.msgs = t.msgs /\ x.keep = t.keep
<1>1. LET w == History!Writing(t, others)
      IN  w \in HistoryThread /\ w.pc = "write" /\ w.msgs = t.msgs
  BY DEF History!Writing, HistoryThread
<1>2. LET x == History!Mixed(t)
      IN  x \in HistoryThread /\ x.pc = t.pc /\ x.msgs = t.msgs /\ x.keep = t.keep
  BY DEF History!Mixed, HistoryThread
<1> QED
  BY <1>1, <1>2

\* What a save of any thread leaves of what the others do.
DiskTyped(d) ==
  /\ d \in [whole : BOOLEAN, rows : SUBSET [row : History!Row, status : History!Status]]
  /\ \A x \in d.rows : x.status = "queued" => x.row.msg \in Out
SavesOnly ==
  /\ UNCHANGED <<history, status, history_owed, owedDisk, sends, appended, history_overlapped, early, cut>>
  /\ ui' \in HistoryThread /\ drain' \in HistoryThread /\ DiskTyped(history_disk')
  /\ \/ ui'.pc = ui.pc /\ ui'.msgs = ui.msgs /\ ui'.keep = ui.keep
     \/ ui.pc \in {"save", "write"} /\ ui'.pc \in {"write", "idle"}
  /\ \/ drain'.pc = drain.pc /\ drain'.msgs = drain.msgs
     \/ drain.pc = "save" /\ drain'.pc = "write" /\ drain'.msgs = drain.msgs
     \/ drain.pc = "write" /\ drain'.pc = "dequeue" /\ drain'.msgs = drain.msgs
     \/ drain.pc = "write" /\ drain'.pc = "idle" /\ drain'.msgs = {} /\ ~(drain.msgs \subseteq File)

LEMMA SnapshotTyped ==
  ASSUME HistoryTyped
  PROVE  /\ History!Snapshot \subseteq [row : History!Row, status : History!Status]
         /\ \A x \in History!Snapshot : x.row \in history /\ x.status = status[x.row]
         /\ \A x \in History!Snapshot : x.status = "queued" => x.row.msg \in Out
         /\ \A r \in history : [row |-> r, status |-> status[r]] \in History!Snapshot
  BY DEF HistoryTyped, History!Snapshot

LEMMA DiskFollows ==
  ASSUME HistoryTyped, NEW t, History!SaveOpen(t) \/ History!SaveWrite(t)
  PROVE  DiskTyped(history_disk')
<1>1. CASE History!SaveOpen(t)
  BY <1>1 DEF History!SaveOpen, DiskTyped
<1>2. CASE History!SaveWrite(t)
  <2>1. PICK whole \in BOOLEAN : history_disk' = [whole |-> whole, rows |-> IF whole THEN History!Snapshot ELSE {}]
    BY <1>2 DEF History!SaveWrite
  <2> QED
    BY <2>1, SnapshotTyped DEF DiskTyped
<1> QED
  BY <1>1, <1>2

LEMMA SavesOnlyTheFile ==
  ASSUME HistoryTyped, History!UiSave \/ History!RxSave \/ History!DrainSave
  PROVE  SavesOnly
<1>1. UNCHANGED <<history, status, history_owed, owedDisk, sends, appended, history_overlapped, early, cut>>
  BY DEF History!UiSave, History!RxSave, History!DrainSave
<1>2. DiskTyped(history_disk')
  BY DiskFollows DEF History!UiSave, History!RxSave, History!DrainSave
<1>3. /\ \/ ui' = ui
         \/ ui' = History!Mixed(ui)
         \/ ui.pc = "save" /\ \E others : ui' = History!Writing(ui, others)
         \/ ui.pc = "write" /\ ui' = History!Idle
  BY DEF History!UiSave, History!RxSave, History!DrainSave, History!SaveOpen, History!SaveWrite
<1>4. /\ \/ drain' = drain
         \/ drain' = History!Mixed(drain)
         \/ drain.pc = "save" /\ \E others : drain' = History!Writing(drain, others)
         \/ drain.pc = "write" /\ drain.msgs \subseteq File
            /\ drain' = [History!Idle EXCEPT !.pc = "dequeue", !.msgs = drain.msgs]
         \/ drain.pc = "write" /\ ~(drain.msgs \subseteq File) /\ drain' = History!Idle
  BY DEF History!UiSave, History!RxSave, History!DrainSave, History!SaveOpen, History!SaveWrite
<1>5. ui \in HistoryThread /\ drain \in HistoryThread
  BY DEF HistoryTyped
<1>6. LET t == [History!Idle EXCEPT !.pc = "dequeue", !.msgs = drain.msgs]
      IN  t \in HistoryThread /\ t.pc = "dequeue" /\ t.msgs = drain.msgs
  BY <1>5 DEF History!Idle, HistoryThread
<1>7. /\ ui' \in HistoryThread
      /\ \/ ui'.pc = ui.pc /\ ui'.msgs = ui.msgs /\ ui'.keep = ui.keep
         \/ ui.pc \in {"save", "write"} /\ ui'.pc \in {"write", "idle"}
  BY <1>3, <1>5, ThreadSaves, IdleThread
<1>8. /\ drain' \in HistoryThread
      /\ \/ drain'.pc = drain.pc /\ drain'.msgs = drain.msgs
         \/ drain.pc = "save" /\ drain'.pc = "write" /\ drain'.msgs = drain.msgs
         \/ drain.pc = "write" /\ drain'.pc = "dequeue" /\ drain'.msgs = drain.msgs
         \/ drain.pc = "write" /\ drain'.pc = "idle" /\ drain'.msgs = {} /\ ~(drain.msgs \subseteq File)
  <2>1. CASE drain' = drain \/ drain' = History!Mixed(drain)
    BY <1>5, <2>1, ThreadSaves
  <2>2. CASE drain.pc = "save" /\ \E others : drain' = History!Writing(drain, others)
    BY <1>5, <2>2, ThreadSaves
  <2>3. CASE /\ drain.pc = "write" /\ drain.msgs \subseteq File
             /\ drain' = [History!Idle EXCEPT !.pc = "dequeue", !.msgs = drain.msgs]
    <3>1. drain' \in HistoryThread /\ drain'.pc = "dequeue" /\ drain'.msgs = drain.msgs
      BY <1>6, <2>3
    <3> QED
      BY <2>3, <3>1
  <2>4. CASE drain.pc = "write" /\ ~(drain.msgs \subseteq File) /\ drain' = History!Idle
    BY <2>4, IdleThread
  <2> QED
    BY <1>4, <2>1, <2>2, <2>3, <2>4
<1> QED
  BY <1>1, <1>2, <1>7, <1>8 DEF SavesOnly

-----------------------------------------------------------------------------
(* Rows and the queue                                                           *)

Rows(m) == {r \in history : r.msg = m}
Marked == drain.pc \in {"save", "write", "dequeue"}

\* What the handler and the drain know of one queued message: the handler that
\* enqueued it adds the only row of it; while that row says "queued" the message is
\* in the queue, or the drain is about to mark the row, or the handler of a removal
\* is about to drop it; and a file that was sent left the queue, or is about to.
MsgInv(m) ==
  /\ ui.pc = "append" /\ m \in ui.msgs => /\ m \in history_owed \/ sends[m] > 0
                                          /\ sends[m] = 0 => Rows(m) = {}
  /\ m \in drain.msgs => sends[m] > 0
  /\ m \notin early \union cut => \A r \in Rows(m) : status[r] = "queued" =>
       /\ Rows(m) = {r}
       /\ \/ m \in history_owed
          \/ drain.pc = "mark" /\ m \in drain.msgs
          \/ ui.pc = "assign" /\ m \in ui.msgs /\ r \notin ui.keep
       /\ ~(Marked /\ m \in drain.msgs)
  /\ m \notin cut /\ Marked /\ m \in drain.msgs => \E r \in Rows(m) : status[r] = "sent"
  /\ m \in File /\ m \notin cut => sends[m] <= 1 /\ (sends[m] > 0 => m \notin history_owed \/ m \in drain.msgs)
RowsInv ==
  /\ appended \ history_overlapped \subseteq history
  /\ ui.pc = "assign" => appended \ history_overlapped \subseteq ui.keep
HistoryInv == HistoryTyped /\ RowsInv /\ \A m \in Out : MsgInv(m)

LEMMA SavesFollow ==
  ASSUME HistoryInv, SavesOnly
  PROVE  HistoryInv'
<1>1. HistoryTyped'
  BY DEF HistoryInv, HistoryTyped, SavesOnly, DiskTyped
<1>2. RowsInv'
  BY DEF HistoryInv, HistoryTyped, RowsInv, SavesOnly
<1>3. ASSUME NEW m \in Out PROVE MsgInv(m)'
  <2>1. MsgInv(m) /\ Rows(m)' = Rows(m) /\ HistoryTyped
    BY DEF HistoryInv, Rows, SavesOnly
  <2>2. m \in drain'.msgs => m \in drain.msgs /\ (Marked' <=> Marked) /\ (drain'.pc = "mark" <=> drain.pc = "mark")
    BY <2>1 DEF SavesOnly, Marked, HistoryTyped
  <2>3. m \in drain.msgs /\ drain.pc = "mark" => m \in drain'.msgs /\ drain'.pc = "mark"
    BY DEF SavesOnly
  <2>4. m \in drain.msgs /\ m \in File => m \in drain'.msgs
    BY <2>1 DEF SavesOnly, HistoryTyped
  <2> QED
    BY <2>1, <2>2, <2>3, <2>4 DEF MsgInv, SavesOnly
<1> QED
  BY <1>1, <1>2, <1>3 DEF HistoryInv

\* What a message has, when a step does not touch it.
LEMMA MsgStays ==
  ASSUME HistoryInv, NEW m \in Out, Rows(m)' = Rows(m), \A r \in Rows(m) : status'[r] = status[r],
         m \in history_owed' <=> m \in history_owed, sends'[m] = sends[m],
         early \subseteq early', cut \subseteq cut',
         \/ UNCHANGED ui
         \/ ui.pc \in {"idle", "save", "write"} /\ (ui'.pc # "append" \/ m \notin ui'.msgs)
         \/ m \notin ui.msgs /\ m \notin ui'.msgs,
         \/ UNCHANGED drain
         \/ m \notin drain.msgs /\ m \notin drain'.msgs
  PROVE  MsgInv(m)'
<1>1. MsgInv(m)
  BY DEF HistoryInv
<1>2. m \in drain'.msgs => m \in drain.msgs /\ (Marked' <=> Marked) /\ drain'.pc = drain.pc
  BY DEF Marked
<1>3. m \in drain.msgs => m \in drain'.msgs /\ drain'.pc = drain.pc
  OBVIOUS
<1>4. ui.pc = "assign" /\ m \in ui.msgs => ui' = ui
  OBVIOUS
<1>5. ui'.pc = "append" /\ m \in ui'.msgs => ui' = ui
  OBVIOUS
<1> QED
  BY <1>1, <1>2, <1>3, <1>4, <1>5 DEF MsgInv

LEMMA EnqueueFollows ==
  ASSUME HistoryInv, NEW m \in Out, History!UiEnqueue(m)
  PROVE  HistoryInv'
<1>1. /\ ui.pc = "idle" /\ sends[m] = 0 /\ m \notin history_owed /\ History!Of(appended \union history, m) = {}
      /\ history_owed' = history_owed \union {m} /\ owedDisk' = history_owed'
      /\ ui' = [History!Idle EXCEPT !.pc = "append", !.msgs = {m}]
      /\ UNCHANGED <<history, status, history_disk, drain, sends, appended, history_overlapped, early, cut>>
  BY DEF History!UiEnqueue
<1>2. ui' \in HistoryThread /\ ui'.pc = "append" /\ ui'.msgs = {m}
  BY <1>1 DEF History!Idle, HistoryThread, History!Msg
<1>3. HistoryTyped'
  BY <1>1, <1>2 DEF HistoryInv, HistoryTyped
<1>4. RowsInv'
  BY <1>1, <1>2 DEF HistoryInv, RowsInv
<1>5. ASSUME NEW k \in Out PROVE MsgInv(k)'
  <2>1. Rows(k)' = Rows(k) /\ MsgInv(k)
    BY <1>1 DEF Rows, HistoryInv
  <2>2. CASE k # m
    BY <1>1, <1>2, <2>1, <2>2, MsgStays
  <2>3. CASE k = m
    <3>1. Rows(m) = {} /\ m \notin drain.msgs /\ sends[m] = 0
      BY <1>1, <2>1, <2>3 DEF Rows, History!Of, HistoryInv, MsgInv
    <3> QED
      BY <1>1, <1>2, <2>1, <2>3, <3>1 DEF MsgInv, HistoryInv, HistoryTyped
  <2> QED
    BY <2>2, <2>3
<1> QED
  BY <1>3, <1>4, <1>5 DEF HistoryInv

LEMMA UiAppendFollows ==
  ASSUME HistoryInv, History!UiAppend
  PROVE  HistoryInv'
<1>1. PICK m \in ui.msgs : /\ History!Append(m, "queued")
                           /\ early' = IF sends[m] > 0 THEN early \union {m} ELSE early
  BY DEF History!UiAppend
<1>2. /\ ui.pc = "append" /\ ui' = [History!Idle EXCEPT !.pc = "save"]
      /\ UNCHANGED <<history_disk, history_owed, owedDisk, drain, sends, cut>>
  BY DEF History!UiAppend
<1>3. m \in Out /\ ui.msgs = {m} /\ m \in History!Msg
  BY <1>1, <1>2 DEF HistoryInv, HistoryTyped, History!Msg
<1>4. PICK r \in History!Row :
           /\ r.msg = m /\ r \notin history /\ r \notin appended
           /\ history' = history \union {r} /\ appended' = appended \union {r}
           /\ history_overlapped' = IF ui.pc = "assign" THEN history_overlapped \union {r} ELSE history_overlapped
           /\ status' \in [History!Row -> History!Status] /\ status'[r] = "queued"
           /\ \A q \in History!Row \ {r} : status'[q] = status[q]
           /\ \A q \in History!Row : status'[q] = "queued" => q.msg \in Out
  BY <1>1, <1>3, AppendsOne DEF HistoryInv, History!Status
<1>5. ui' \in HistoryThread /\ ui'.pc = "save" /\ ui'.msgs = {}
  BY <1>2, IdleThread
<1>6. HistoryTyped'
  BY <1>2, <1>4, <1>5 DEF HistoryInv, HistoryTyped
<1>7. RowsInv'
  BY <1>2, <1>4, <1>5 DEF HistoryInv, RowsInv
<1>8. ASSUME NEW k \in Out PROVE MsgInv(k)'
  <2>1. MsgInv(k) /\ history \subseteq History!Row
    BY DEF HistoryInv, HistoryTyped
  <2>2. CASE k # m
    <3>1. Rows(k)' = Rows(k) /\ \A q \in Rows(k) : status'[q] = status[q]
      BY <1>4, <2>1, <2>2 DEF Rows
    <3>2. k \notin ui.msgs /\ k \notin ui'.msgs /\ early \subseteq early'
      BY <1>1, <1>3, <1>5, <2>2
    <3> QED
      BY <1>2, <3>1, <3>2, MsgStays
  <2>3. CASE k = m
    <3>1. m \in history_owed \/ sends[m] > 0
      BY <1>2, <1>3, <2>1, <2>3 DEF MsgInv
    <3>2. sends[m] = 0 \/ sends[m] > 0
      BY <1>3 DEF HistoryInv, HistoryTyped
    <3>3. sends[m] = 0 => Rows(m)' = {r} /\ m \notin drain.msgs
      BY <1>2, <1>3, <1>4, <2>1, <2>3 DEF MsgInv, Rows
    <3>4. sends[m] > 0 => m \in early'
      BY <1>1
    <3>5. Rows(m) \subseteq Rows(m)' /\ \A q \in Rows(m) : status'[q] = status[q]
      BY <1>4, <2>1 DEF Rows
    <3>6. Marked' <=> Marked
      BY <1>2 DEF Marked
    <3> QED
      BY <1>2, <1>3, <1>5, <2>1, <2>3, <3>1, <3>2, <3>3, <3>4, <3>5, <3>6 DEF MsgInv
  <2> QED
    BY <2>2, <2>3
<1> QED
  BY <1>6, <1>7, <1>8 DEF HistoryInv

\* The comprehension of a removal: what it takes away is still in the list.
LEMMA SelectFollows ==
  ASSUME HistoryInv, NEW gone \in SUBSET history, History!UiSelect(gone),
         UNCHANGED <<history, status, history_disk, drain, sends, history_overlapped, early>>,
         history_owed' \subseteq history_owed, owedDisk' = history_owed',
         \A r \in history \ gone : status[r] = "queued" /\ r.msg \in history_owed => r.msg \in history_owed'
  PROVE  HistoryInv'
<1>1. /\ ui.pc = "idle" /\ appended' = appended \ gone /\ cut \subseteq cut'
      /\ ui' = [History!Idle EXCEPT !.pc = "assign", !.keep = history \ gone, !.msgs = {r.msg : r \in gone}]
  BY DEF History!UiSelect
<1>2. history \subseteq History!Row /\ gone \subseteq History!Row /\ \A r \in History!Row : r.msg \in History!Msg
  BY DEF HistoryInv, HistoryTyped, History!Row
<1>3. /\ ui' \in HistoryThread /\ ui'.pc = "assign" /\ ui'.keep = history \ gone /\ ui'.msgs = {r.msg : r \in gone}
  <2>1. {r.msg : r \in gone} \subseteq History!Msg /\ history \ gone \subseteq History!Row
    BY <1>2
  <2> QED
    BY <1>1, <2>1 DEF History!Idle, HistoryThread
<1>4. HistoryTyped'
  BY <1>1, <1>3 DEF HistoryInv, HistoryTyped
<1>5. RowsInv'
  BY <1>1, <1>3 DEF HistoryInv, RowsInv
<1>6. ASSUME NEW m \in Out PROVE MsgInv(m)'
  <2>1. MsgInv(m) /\ Rows(m)' = Rows(m) /\ Rows(m) \subseteq history
    BY DEF HistoryInv, Rows
  <2>2. (Marked' <=> Marked) /\ drain' = drain /\ sends' = sends /\ status' = status
    BY DEF Marked
  <2>3. ASSUME NEW q \in Rows(m), status[q] = "queued", m \notin early' \union cut'
        PROVE  /\ Rows(m) = {q} /\ ~(Marked /\ m \in drain.msgs)
               /\ m \in history_owed' \/ (drain.pc = "mark" /\ m \in drain.msgs) \/ (m \in ui'.msgs /\ q \notin ui'.keep)
    <3>1. /\ Rows(m) = {q} /\ ~(Marked /\ m \in drain.msgs)
          /\ m \in history_owed \/ (drain.pc = "mark" /\ m \in drain.msgs)
      BY <1>1, <2>1, <2>3 DEF MsgInv
    <3>2. q \in gone => m \in ui'.msgs /\ q \notin ui'.keep
      BY <1>3 DEF Rows
    <3>3. q \in history \ gone /\ m \in history_owed => m \in history_owed'
      BY <2>3 DEF Rows
    <3> QED
      BY <2>1, <3>1, <3>2, <3>3
  <2> QED
    BY <1>1, <1>3, <2>1, <2>2, <2>3 DEF MsgInv
<1> QED
  BY <1>4, <1>5, <1>6 DEF HistoryInv

LEMMA RemovesFollow ==
  ASSUME HistoryInv, History!UiRemove \/ \E p \in Peer : History!UiClearQueue(p)
  PROVE  HistoryInv'
<1>1. CASE History!UiRemove
  <2>1. PICK gone \in SUBSET history : History!UiSelect(gone)
    BY <1>1 DEF History!UiRemove, History!Of
  <2>2. UNCHANGED <<history, status, history_disk, history_owed, owedDisk, drain, sends, history_overlapped, early>>
    BY <1>1 DEF History!UiRemove
  <2>3. owedDisk = history_owed
    BY DEF HistoryInv, HistoryTyped
  <2> QED
    BY <2>1, <2>2, <2>3, SelectFollows
<1>2. ASSUME NEW p \in Peer, History!UiClearQueue(p) PROVE HistoryInv'
  <2> DEFINE gone == History!QueuedRows(p)
  <2>1. gone \in SUBSET history /\ \A r \in history \ gone : status[r] # "queued"
    BY DEF History!QueuedRows
  <2>2. /\ History!UiSelect(gone) /\ history_owed' \subseteq history_owed /\ owedDisk' = history_owed'
        /\ UNCHANGED <<history, status, history_disk, drain, sends, history_overlapped, early>>
    BY <1>2 DEF History!UiClearQueue
  <2> HIDE DEF gone
  <2> QED
    BY <2>1, <2>2, SelectFollows
<1> QED
  BY <1>1, <1>2

\* A step that takes rows away flags a message whose row the drain has marked.
LEMMA DropsRowsFollows ==
  ASSUME HistoryInv, history' \subseteq history, UNCHANGED <<status, history_disk, history_owed, owedDisk, drain, sends, early>>,
         cut \subseteq cut', ui' \in HistoryThread, ui'.pc \in {"idle", "save"},
         \A r \in history \ history' : r.msg \in drain.msgs => r.msg \in cut',
         ui.pc # "assign" => history' = {}, ui.pc = "assign" => history' = ui.keep,
         ui.pc \in {"idle", "assign"}, appended' \ history_overlapped' \subseteq history'
  PROVE  HistoryInv'
<1>1. HistoryTyped'
  BY DEF HistoryInv, HistoryTyped
<1>2. RowsInv'
  BY DEF RowsInv
<1>3. ASSUME NEW m \in Out PROVE MsgInv(m)'
  <2>1. MsgInv(m) /\ Rows(m)' \subseteq Rows(m) /\ \A r \in Rows(m) \ Rows(m)' : r \in history \ history' /\ r.msg = m
    BY DEF HistoryInv, Rows
  <2>2. \A r \in Rows(m)' : ui.pc = "assign" /\ r \in ui.keep
    BY DEF Rows
  <2>3. (Marked' <=> Marked) /\ drain' = drain /\ status' = status
    BY DEF Marked
  <2> QED
    BY <2>1, <2>2, <2>3 DEF MsgInv
<1> QED
  BY <1>1, <1>2, <1>3 DEF HistoryInv

LEMMA ClearsAndAssignsFollow ==
  ASSUME HistoryInv, History!UiClearAll \/ History!UiAssign
  PROVE  HistoryInv'
<1>1. CASE History!UiClearAll
  <2>1. /\ ui.pc = "idle" /\ history' = {} /\ appended' = {} /\ ui' = [History!Idle EXCEPT !.pc = "save"]
        /\ cut' = cut \union {m \in drain.msgs : History!Of(history, m) # {}}
        /\ UNCHANGED <<status, history_disk, history_owed, owedDisk, drain, sends, early>>
    BY <1>1 DEF History!UiClearAll
  <2>2. \A r \in history : r.msg \in drain.msgs => r.msg \in cut'
    BY <2>1 DEF History!Of
  <2> QED
    BY <2>1, <2>2, IdleThread, DropsRowsFollows
<1>2. CASE History!UiAssign
  <2>1. /\ ui.pc = "assign" /\ history' = ui.keep /\ ui' \in {History!Idle, [History!Idle EXCEPT !.pc = "save"]}
        /\ cut' = cut \union (drain.msgs \intersect {r.msg : r \in history \ history'})
        /\ UNCHANGED <<status, history_disk, history_owed, owedDisk, drain, sends, early, appended, history_overlapped>>
    BY <1>2 DEF History!UiAssign
  <2>2. \A r \in history \ history' : r.msg \in drain.msgs => r.msg \in cut'
    BY <2>1
  <2>3. history' \subseteq history /\ appended' \ history_overlapped' \subseteq history'
    BY <2>1 DEF HistoryInv, HistoryTyped, RowsInv
  <2>4. ui' \in HistoryThread /\ ui'.pc \in {"idle", "save"}
    BY <2>1, IdleThread
  <2> QED
    BY <2>1, <2>2, <2>3, <2>4, DropsRowsFollows
<1> QED
  BY <1>1, <1>2

LEMMA ArriveFollows ==
  ASSUME HistoryInv, NEW m \in In, History!Arrive(m)
  PROVE  HistoryInv'
<1>1. /\ History!Append(m, "received")
      /\ UNCHANGED <<history_disk, history_owed, owedDisk, ui, drain, sends, early, cut>>
  BY DEF History!Arrive
<1>2. PICK r \in History!Row :
        /\ r.msg = m /\ r \notin history /\ r \notin appended
        /\ history' = history \union {r} /\ appended' = appended \union {r}
        /\ history_overlapped' = IF ui.pc = "assign" THEN history_overlapped \union {r} ELSE history_overlapped
        /\ status' \in [History!Row -> History!Status] /\ status'[r] = "received"
        /\ \A q \in History!Row \ {r} : status'[q] = status[q]
        /\ \A q \in History!Row : status'[q] = "queued" => q.msg \in Out
  BY <1>1, AppendsOne DEF HistoryInv, History!Status, History!Msg
<1>3. HistoryTyped'
  BY <1>1, <1>2 DEF HistoryInv, HistoryTyped
<1>4. RowsInv'
  BY <1>1, <1>2 DEF HistoryInv, RowsInv
<1>5. ASSUME NEW k \in Out PROVE MsgInv(k)'
  <2>1. k # m /\ history \subseteq History!Row
    BY HistoryAssumption DEF HistoryInv, HistoryTyped
  <2>2. Rows(k)' = Rows(k) /\ \A q \in Rows(k) : status'[q] = status[q]
    BY <1>2, <2>1 DEF Rows
  <2> QED
    BY <1>1, <2>2, MsgStays
<1> QED
  BY <1>3, <1>4, <1>5 DEF HistoryInv

LEMMA SentFollows ==
  ASSUME HistoryInv, NEW m \in Out, History!TextReceipt(m) \/ History!FileSent(m)
  PROVE  HistoryInv'
<1>1. /\ drain.pc = "idle" /\ m \in history_owed /\ sends' = [sends EXCEPT ![m] = @ + 1]
      /\ drain' = [History!Idle EXCEPT !.pc = "mark", !.msgs = {m}]
      /\ \/ m \notin File /\ history_owed' = history_owed \ {m} /\ owedDisk' = history_owed'
         \/ m \in File /\ history_owed' = history_owed /\ owedDisk' = owedDisk
      /\ UNCHANGED <<history, status, history_disk, ui, appended, history_overlapped, early, cut>>
  BY DEF History!TextReceipt, History!FileSent, History!Sent
<1>2. drain' \in HistoryThread /\ drain'.pc = "mark" /\ drain'.msgs = {m}
  BY <1>1 DEF History!Idle, HistoryThread, History!Msg
<1>3. sends' \in [Out -> Nat] /\ sends'[m] = sends[m] + 1 /\ \A k \in Out \ {m} : sends'[k] = sends[k]
  BY <1>1 DEF HistoryInv, HistoryTyped
<1>4. HistoryTyped'
  BY <1>1, <1>2, <1>3 DEF HistoryInv, HistoryTyped
<1>5. RowsInv'
  BY <1>1 DEF HistoryInv, RowsInv
<1>6. ASSUME NEW k \in Out PROVE MsgInv(k)'
  <2>1. MsgInv(k) /\ Rows(k)' = Rows(k) /\ drain.msgs = {} /\ sends[k] \in Nat
    BY <1>1 DEF HistoryInv, HistoryTyped, Rows
  <2>2. CASE k # m
    BY <1>1, <1>2, <1>3, <2>1, <2>2, MsgStays
  <2>3. CASE k = m
    <3>1. ~Marked' /\ sends'[m] > 0
      BY <1>2, <1>3, <2>1, <2>3 DEF Marked
    <3>2. m \in File /\ m \notin cut => sends'[m] <= 1
      BY <1>1, <1>3, <2>1, <2>3 DEF MsgInv
    <3> QED
      BY <1>1, <1>2, <1>3, <2>1, <2>3, <3>1, <3>2 DEF MsgInv
  <2> QED
    BY <2>2, <2>3
<1> QED
  BY <1>4, <1>5, <1>6 DEF HistoryInv

\* The drain marks the first row of what it sent, or adds one.
LEMMA MarkFollows ==
  ASSUME HistoryInv, History!DrainMark
  PROVE  HistoryInv'
<1>1. PICK m \in Out : drain.msgs = {m}
  BY DEF History!DrainMark, HistoryInv, HistoryTyped
<1>2. /\ drain.pc = "mark" /\ drain' = [drain EXCEPT !.pc = "save"]
      /\ UNCHANGED <<history_disk, history_owed, owedDisk, ui, sends, early, cut>>
  BY DEF History!DrainMark
<1>3. drain' \in HistoryThread /\ drain'.pc = "save" /\ drain'.msgs = {m}
  BY <1>1, <1>2 DEF HistoryInv, HistoryTyped, HistoryThread
<1>4. PICK r \in History!Row :
        /\ r.msg = m /\ history' = history \union {r}
        /\ status' \in [History!Row -> History!Status] /\ status'[r] = "sent"
        /\ \A q \in History!Row \ {r} : status'[q] = status[q]
        /\ \A q \in History!Row : status'[q] = "queued" => q.msg \in Out
        /\ \/ r \in history /\ UNCHANGED <<appended, history_overlapped>>
           \/ /\ Rows(m) = {} /\ appended' = appended \union {r}
              /\ history_overlapped' = IF ui.pc = "assign" THEN history_overlapped \union {r} ELSE history_overlapped
  <2>1. CASE History!Of(history, m) # {}
    <3>1. status' = [status EXCEPT ![FirstOf(Rows(m))] = "sent"] /\ UNCHANGED <<history, appended, history_overlapped>>
      BY <1>1, <2>1 DEF History!DrainMark, History!Of, FirstOf, Rows
    <3>2. Rows(m) \in SUBSET History!Row /\ Rows(m) # {}
      BY <2>1 DEF Rows, History!Of, HistoryInv, HistoryTyped
    <3>3. FirstOf(Rows(m)) \in Rows(m)
      BY <3>2, FirstIsOne
    <3>4. PICK f : f = FirstOf(Rows(m))
      OBVIOUS
    <3>5. f \in History!Row /\ f.msg = m /\ f \in history
      BY <3>2, <3>3, <3>4 DEF Rows
    <3>6. /\ status' \in [History!Row -> History!Status] /\ status'[f] = "sent"
          /\ \A q \in History!Row \ {f} : status'[q] = status[q]
      BY <3>1, <3>4, <3>5 DEF HistoryInv, HistoryTyped, History!Status
    <3>7. \A q \in History!Row : status'[q] = "queued" => q.msg \in Out
      BY <3>6 DEF HistoryInv, HistoryTyped
    <3>8. history' = history \union {f}
      BY <3>1, <3>5
    <3> QED
      BY <3>1, <3>5, <3>6, <3>7, <3>8
  <2>2. CASE History!Of(history, m) = {}
    <3>1. History!Append(m, "sent")
      BY <1>1, <2>2 DEF History!DrainMark
    <3>2. m \in History!Msg /\ "sent" \in History!Status /\ Rows(m) = {}
      BY <2>2 DEF History!Msg, History!Status, Rows, History!Of
    <3> QED
      BY <3>1, <3>2, AppendsOne DEF HistoryInv
  <2> QED
    BY <2>1, <2>2
<1>5. HistoryTyped'
  BY <1>2, <1>3, <1>4 DEF HistoryInv, HistoryTyped
<1>6. RowsInv'
  BY <1>2, <1>4 DEF HistoryInv, RowsInv
<1>7. ASSUME NEW k \in Out PROVE MsgInv(k)'
  <2>1. MsgInv(k) /\ history \subseteq History!Row
    BY DEF HistoryInv, HistoryTyped
  <2>2. CASE k # m
    <3>1. Rows(k)' = Rows(k) /\ \A q \in Rows(k) : status'[q] = status[q]
      BY <1>4, <2>1, <2>2 DEF Rows
    <3> QED
      BY <1>1, <1>2, <1>3, <2>2, <3>1, MsgStays
  <2>3. CASE k = m
    <3>1. r \in Rows(m)' /\ status'[r] = "sent" /\ Rows(m)' = Rows(m) \union {r}
      BY <1>4 DEF Rows
    <3>2. sends[m] > 0
      BY <1>1, <2>1, <2>3 DEF MsgInv
    <3>3. ASSUME NEW q \in Rows(m)', status'[q] = "queued" PROVE m \in early \union cut
      <4>1. q # r /\ q \in Rows(m) /\ status[q] = "queued"
        BY <1>4, <2>1, <3>1, <3>3 DEF Rows
      <4>2. r \in Rows(m) \/ Rows(m) = {}
        BY <1>4 DEF Rows
      <4> QED
        BY <2>1, <2>3, <4>1, <4>2 DEF MsgInv
    <3> QED
      BY <1>1, <1>2, <1>3, <2>1, <2>3, <3>1, <3>2, <3>3 DEF MsgInv
  <2> QED
    BY <2>2, <2>3
<1> QED
  BY <1>5, <1>6, <1>7 DEF HistoryInv

LEMMA DequeueFollows ==
  ASSUME HistoryInv, History!DrainDequeue
  PROVE  HistoryInv'
<1>1. /\ drain.pc = "dequeue" /\ history_owed' = history_owed \ drain.msgs /\ owedDisk' = history_owed'
      /\ drain' = History!Idle
      /\ UNCHANGED <<history, status, history_disk, ui, sends, appended, history_overlapped, early, cut>>
  BY DEF History!DrainDequeue
<1>2. HistoryTyped'
  BY <1>1, IdleThread DEF HistoryInv, HistoryTyped
<1>3. RowsInv'
  BY <1>1 DEF HistoryInv, RowsInv
<1>4. ASSUME NEW k \in Out PROVE MsgInv(k)'
  <2>1. MsgInv(k) /\ Rows(k)' = Rows(k) /\ drain'.msgs = {} /\ ~Marked' /\ Marked
    BY <1>1, IdleThread DEF HistoryInv, Rows, Marked
  <2>2. CASE k \notin drain.msgs
    BY <1>1, <2>1, <2>2, MsgStays
  <2>3. CASE k \in drain.msgs
    BY <1>1, <2>1, <2>3 DEF MsgInv
  <2> QED
    BY <2>2, <2>3
<1> QED
  BY <1>2, <1>3, <1>4 DEF HistoryInv

\* A crash: of a message it is not flagged for, the file has the rows the list had.
LEMMA CrashRestores ==
  ASSUME HistoryInv, History!Crash
  PROVE  HistoryInv'
<1>1. /\ history' = {x.row : x \in history_disk.rows} /\ appended' = history' /\ history_overlapped' = {}
      /\ status' = [r \in History!Row |-> IF r \in history' THEN (CHOOSE x \in history_disk.rows : x.row = r).status ELSE "none"]
      /\ history_owed' = owedDisk \ History!Pruned(history_disk.rows) /\ owedDisk' = history_owed'
      /\ early' = early
      /\ cut' = cut \union ui.msgs \union (IF drain.pc = "dequeue" THEN {} ELSE drain.msgs)
                    \union {x.row.msg : x \in History!Unsaved}
      /\ ui' = History!Idle /\ drain' = History!Idle /\ UNCHANGED <<history_disk, sends>>
  BY DEF History!Crash
<1>2. /\ history_disk.rows \subseteq [row : History!Row, status : History!Status]
      /\ \A x \in history_disk.rows : x.status = "queued" => x.row.msg \in Out
      /\ HistoryTyped
  BY DEF HistoryInv, HistoryTyped
<1>3. ASSUME NEW r \in history'
      PROVE  \E x \in history_disk.rows : x.row = r /\ status'[r] = x.status /\ r \in History!Row
  <2>1. \E x \in history_disk.rows : x.row = r
    BY <1>1
  <2>2. PICK y : y = (CHOOSE x \in history_disk.rows : x.row = r)
    OBVIOUS
  <2>3. y \in history_disk.rows /\ y.row = r
    BY <2>1, <2>2
  <2>4. r \in History!Row
    BY <1>2, <2>3
  <2>5. status'[r] = y.status
    BY <1>1, <2>2, <2>4
  <2> QED
    BY <2>3, <2>4, <2>5
<1>4. history' \subseteq History!Row /\ status' \in [History!Row -> History!Status]
      /\ \A r \in History!Row : status'[r] = "queued" => r.msg \in Out
  <2>1. history' \subseteq History!Row
    BY <1>3
  <2>2. ASSUME NEW r \in History!Row PROVE status'[r] \in History!Status /\ (status'[r] = "queued" => r.msg \in Out)
    <3>1. CASE r \in history'
      BY <1>2, <1>3, <3>1
    <3>2. CASE r \notin history'
      BY <1>1, <3>2 DEF History!Status
    <3> QED
      BY <3>1, <3>2
  <2>3. DOMAIN status' = History!Row /\ status' = [r \in History!Row |-> status'[r]]
    BY <1>1
  <2> QED
    BY <2>1, <2>2, <2>3
<1>5. HistoryTyped'
  BY <1>1, <1>2, <1>4, IdleThread DEF HistoryTyped
<1>6. RowsInv'
  BY <1>1, IdleThread DEF RowsInv
<1>7. ASSUME NEW m \in Out, m \notin cut'
      PROVE  /\ Rows(m)' = Rows(m) /\ \A r \in Rows(m) : status'[r] = status[r]
             /\ \A r \in Rows(m) : [row |-> r, status |-> status[r]] \in history_disk.rows
  <2>1. \A x \in history_disk.rows : x.row.msg = m => x \in History!Snapshot
    BY <1>1, <1>7 DEF History!Unsaved
  <2>2. \A x \in History!Snapshot : x.row.msg = m => x \in history_disk.rows
    BY <1>1, <1>7 DEF History!Unsaved
  <2>3. ASSUME NEW r \in Rows(m)' PROVE r \in Rows(m) /\ status'[r] = status[r]
    <3>1. PICK x \in history_disk.rows : x.row = r /\ status'[r] = x.status
      BY <1>3 DEF Rows
    <3>2. x \in History!Snapshot /\ r.msg = m
      BY <2>1, <3>1 DEF Rows
    <3> QED
      BY <1>2, <3>1, <3>2, SnapshotTyped DEF Rows
  <2>4. ASSUME NEW r \in Rows(m) PROVE r \in Rows(m)' /\ [row |-> r, status |-> status[r]] \in history_disk.rows
    <3>1. [row |-> r, status |-> status[r]] \in History!Snapshot /\ r.msg = m
      BY <1>2, SnapshotTyped DEF Rows
    <3>2. [row |-> r, status |-> status[r]] \in history_disk.rows
      BY <2>2, <3>1
    <3>3. r \in history'
      BY <1>1, <3>2
    <3> QED
      BY <3>1, <3>2, <3>3 DEF Rows
  <2> QED
    BY <2>3, <2>4
<1>8. ASSUME NEW m \in Out PROVE MsgInv(m)'
  <2>1. MsgInv(m) /\ cut \subseteq cut' /\ ui'.pc = "idle" /\ ~Marked' /\ drain'.msgs = {}
        /\ sends' = sends /\ early' = early
    BY <1>1, IdleThread DEF HistoryInv, Marked
  <2>2. history_owed' = history_owed \ History!Pruned(history_disk.rows)
    BY <1>1, <1>2 DEF HistoryTyped
  <2>3. ASSUME NEW r \in Rows(m)', status'[r] = "queued", m \notin early \union cut'
        PROVE  Rows(m)' = {r} /\ m \in history_owed'
    <3>1. Rows(m)' = Rows(m) /\ r \in Rows(m) /\ status[r] = "queued" /\ m \notin cut
      BY <1>7, <2>1, <2>3
    <3>2. Rows(m) = {r} /\ m \in history_owed
      BY <1>1, <2>1, <2>3, <3>1 DEF MsgInv
    <3>3. ASSUME NEW x \in history_disk.rows, x.row.msg = m, x.status = "sent" PROVE FALSE
      <4>1. x \in History!Snapshot
        BY <1>1, <2>3, <3>3 DEF History!Unsaved
      <4>2. x.row = r
        BY <1>2, <3>2, <3>3, <4>1, SnapshotTyped DEF Rows
      <4> QED
        BY <1>2, <3>1, <3>3, <4>1, <4>2, SnapshotTyped
    <3>4. m \notin History!Pruned(history_disk.rows)
      BY <3>3 DEF History!Pruned
    <3> QED
      BY <2>2, <3>1, <3>2, <3>4
  <2>4. ASSUME m \in File, m \notin cut'
        PROVE  sends[m] <= 1 /\ (sends[m] > 0 => m \notin history_owed')
    <3>1. sends[m] <= 1 /\ (sends[m] > 0 => m \notin history_owed \/ m \in drain.msgs)
      BY <2>1, <2>4 DEF MsgInv
    <3>2. CASE m \in drain.msgs
      <4>1. Marked /\ m \notin cut
        BY <1>1, <2>1, <2>4, <3>2 DEF Marked
      <4>2. PICK r \in Rows(m) : status[r] = "sent"
        BY <2>1, <3>2, <4>1 DEF MsgInv
      <4>3. [row |-> r, status |-> "sent"] \in history_disk.rows /\ r.msg = m
        BY <1>7, <2>4, <4>2 DEF Rows
      <4>4. m \in owedDisk => m \in History!Pruned(history_disk.rows)
        BY <4>3 DEF History!Pruned
      <4> QED
        BY <1>1, <3>1, <4>4
    <3> QED
      BY <2>2, <3>1, <3>2
  <2> QED
    BY <2>1, <2>3, <2>4 DEF MsgInv
<1> QED
  BY <1>5, <1>6, <1>8 DEF HistoryInv

LEMMA HistoryStart == History!Init => HistoryInv
<1> SUFFICES ASSUME History!Init PROVE HistoryInv
  OBVIOUS
<1> USE DEF History!Init
<1>1. HistoryTyped
  <2>1. status \in [History!Row -> History!Status] /\ sends \in [Out -> Nat]
    BY DEF History!Status
  <2>2. history_disk \in [whole : BOOLEAN, rows : SUBSET [row : History!Row, status : History!Status]]
        /\ history_disk.rows = {}
    OBVIOUS
  <2> QED
    BY <2>1, <2>2, IdleThread DEF HistoryTyped
<1>2. RowsInv
  BY IdleThread DEF RowsInv
<1>3. ASSUME NEW m \in Out PROVE MsgInv(m)
  <2>1. Rows(m) = {} /\ sends[m] = 0 /\ ui.pc = "idle" /\ drain.msgs = {} /\ m \notin history_owed
    BY IdleThread DEF Rows
  <2> QED
    BY <2>1 DEF MsgInv
<1> QED
  BY <1>1, <1>2, <1>3 DEF HistoryInv

LEMMA HistoryStep == HistoryInv /\ [History!Next]_(History!vars) => HistoryInv'
<1> SUFFICES ASSUME HistoryInv, [History!Next]_(History!vars) PROVE HistoryInv'
  OBVIOUS
<1>1. CASE History!UiSave \/ History!RxSave \/ History!DrainSave
  BY <1>1, SavesOnlyTheFile, SavesFollow DEF HistoryInv
<1>2. ASSUME NEW m \in Out, History!UiEnqueue(m) \/ History!TextReceipt(m) \/ History!FileSent(m) PROVE HistoryInv'
  BY <1>2, EnqueueFollows, SentFollows
<1>3. ASSUME NEW m \in In, History!Arrive(m) PROVE HistoryInv'
  BY <1>3, ArriveFollows
<1>4. CASE UNCHANGED History!vars
  <2>1. UNCHANGED <<history, status, history_disk, history_owed, owedDisk, ui, drain, sends, appended,
                    history_overlapped, early, cut>>
    BY <1>4 DEF History!vars
  <2>2. HistoryTyped' /\ RowsInv'
    BY <2>1 DEF HistoryInv, HistoryTyped, RowsInv
  <2>3. \A m \in Out : MsgInv(m)'
    BY <2>1 DEF HistoryInv, MsgInv, Rows, Marked
  <2> QED
    BY <2>2, <2>3 DEF HistoryInv
<1> QED
  BY <1>1, <1>2, <1>3, <1>4, UiAppendFollows, RemovesFollow, ClearsAndAssignsFollow, MarkFollows, DequeueFollows,
     CrashRestores DEF History!Next

LEMMA HistoryHolds == Spec => []HistoryInv
<1>1. Init => HistoryInv
  BY HistoryStart DEF Init
<1>2. HistoryInv /\ [Next]_vars => HistoryInv'
  BY HistorySteps, HistoryStep
<1> QED
  BY <1>1, <1>2, PTL DEF Spec

\* A row stays in message_history (history_store.py, messaging_bridge.py) until the
\* user or a retention takes it away, whatever the event loop, the packet threads
\* and the drain do to the list and its file, and across crashes, unless it was
\* appended between the comprehension of a removal and its assignment.
THEOREM RowsStay == Spec => []RowLossNeedsOverlap
<1>1. HistoryInv => RowLossNeedsOverlap
  BY DEF HistoryInv, RowsInv, RowLossNeedsOverlap, History!RowLossNeedsOverlap
<1> QED
  BY <1>1, HistoryHolds, PTL

\* No row is stuck at "queued" (ws/manager.py, _on_queue_sent): once the handler and
\* the drain are through, the message of a queued row is in the queue, except that
\* the drain was faster than the handler, or a crash or a removal cut in.
THEOREM QueuedRowsOwed == Spec => []QueuedRowOwed
<1>1. ASSUME HistoryInv, ui.pc = "idle", drain.pc = "idle", NEW r \in history, status[r] = "queued"
      PROVE  r.msg \in history_owed \union early \union cut
  <2>1. r.msg \in Out
    BY <1>1 DEF HistoryInv, HistoryTyped
  <2>2. MsgInv(r.msg) /\ r \in Rows(r.msg)
    BY <1>1, <2>1 DEF HistoryInv, Rows
  <2> QED
    BY <1>1, <2>2 DEF MsgInv
<1>2. HistoryInv => QueuedRowOwed
  BY <1>1 DEF QueuedRowOwed, History!QueuedRowOwed
<1> QED
  BY <1>2, HistoryHolds, PTL

\* A file is sent once (the drain marks its row before it takes it off the queue,
\* and prune_stale_queue drops at a start what the history has as sent), unless a
\* crash or a removal fell between the send and the save of its row.
THEOREM FilesSentOnce == Spec => []FileResentNeedsCut
<1>1. ASSUME HistoryInv, NEW m \in File \intersect Out, sends[m] > 1 PROVE m \in cut
  <2>1. MsgInv(m) /\ sends[m] \in Nat
    BY <1>1 DEF HistoryInv, HistoryTyped
  <2> QED
    BY <1>1, <2>1 DEF MsgInv
<1>2. HistoryInv => FileResentNeedsCut
  BY <1>1 DEF FileResentNeedsCut, History!FileResentNeedsCut
<1> QED
  BY <1>2, HistoryHolds, PTL
=============================================================================
