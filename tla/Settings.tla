------------------------------ MODULE Settings ------------------------------
(* settings.json and the RNS config beside it.  Every handler loads the whole *)
(* file, changes its keys and saves the whole file again; some do it on the   *)
(* event loop, some go on in the executor with what they loaded before, and   *)
(* receive threads and the start-up do it at any time.  Saving truncates the  *)
(* file before it writes it; a file that cannot be read loads as defaults.    *)
EXTENDS Naturals

CONSTANTS
  Handler,      \* requests the event loop serves
  Worker,       \* RNS threads that record the hash of the hub server
  Starter,      \* the worker thread of the start-up
  None,
  Torn,         \* a file that does not parse
  MaxEdits,     \* edits
  MaxCrashes    \* crashes

VARIABLES
  file,         \* settings.json: the version of each group of keys
  config,       \* the RNS config: the versions it was written from
  hub,          \* the hub interfaces that run: the version they were made from
  job,          \* where each writer is, and the settings it carries
  loop,         \* the handler the event loop is in, between two awaits
  edits, crashes,
  saved,        \* newest version of each group that was saved on request
  stale         \* a save wrote over, or a load met, what another writer did

vars == <<file, config, hub, job, loop, edits, crashes, saved, stale>>

Key == {"name", "hub", "ifaces", "hash"}
Actor == Handler \union Worker \union {Starter}
Version == 0 .. MaxEdits
Content == [Key -> Version]
Defaults == [k \in Key |-> 0]

\* The rest of a job: save, save again on the way to the RNS config (in the
\* executor, or in the handler), apply to the hub interfaces, save once more.
Step == {"save", "dump", "config", "configdump", "render", "apply", "last", "lastdump"}

Idle == [pc |-> "idle", has |-> Defaults, base |-> Defaults, plan |-> "save"]
Job == [pc : Step \union {"idle"}, has : Content, base : Content,
        plan : {"save", "sync", "await", "fast", "boot"}]

TypeOK ==
  /\ file \in Content \union {Torn} /\ config \in Content /\ hub \in Version
  /\ job \in [Actor -> Job]
  /\ loop \in Handler \union {None}
  /\ edits \in Version /\ crashes \in 0 .. MaxCrashes
  /\ saved \in Content /\ stale \in BOOLEAN

-----------------------------------------------------------------------------
(* Loading and saving                                                         *)

\* load_settings: a file in the middle of a save does not parse.
Loaded == IF file = Torn THEN Defaults ELSE file
\* (mutant) the other groups of keys are not loaded
EditedAlone(k) == [Defaults EXCEPT ![k] = edits + 1]
Edited(k) == [Loaded EXCEPT ![k] = edits + 1]

\* The loop serves one handler at a time; threads run as they like.
MayRun(a) == a \in Handler => loop \in {None, a}
\* What the loop is in after a step of a: the handlers of plan "sync" stay in it.
LoopAfter(a, stays) ==
  loop' = IF a \notin Handler THEN loop ELSE IF stays THEN a ELSE None

\* A job takes the file with one group of keys changed.
Takes(a, k, plan) ==
  /\ job[a].pc = "idle" /\ loop = None /\ edits < MaxEdits
  /\ edits' = edits + 1
  /\ job' = [job EXCEPT ![a] = [pc |-> "save", has |-> Edited(k), base |-> Loaded, plan |-> plan]]
  /\ stale' = (stale \/ file = Torn)
  /\ LoopAfter(a, TRUE)
  /\ UNCHANGED <<file, config, hub, crashes, saved>>

\* save_settings: open(..., "w") empties the file, json.dump fills it.  Two
\* writers at once leave the text of one of them or a mixture.
Truncates(a) ==
  /\ file' = Torn
  /\ stale' = (stale \/ (file # job[a].base) \/ (\E b \in Actor \ {a} : job[b].pc \in {"dump", "configdump", "lastdump"}))
Fills(a) ==
  /\ file' \in {job[a].has} \union
       (IF \E b \in Actor \ {a} : job[b].pc \in {"dump", "configdump", "lastdump"} THEN {Torn} ELSE {})
  /\ saved' = [k \in Key |-> IF job[a].has[k] > saved[k] THEN job[a].has[k] ELSE saved[k]]

Goes(a, pc) == job' = [job EXCEPT ![a].pc = pc, ![a].base = job[a].has]
Ends(a) == job' = [job EXCEPT ![a] = Idle]

-----------------------------------------------------------------------------
(* Writers                                                                    *)

\* handle_settings_post of ordinary keys; _reset_network_state alike.
PostKeys(u) == Takes(u, "name", "save")
\* handle_settings_post of hub keys or of the LAN transport: the config is
\* written in the executor, with the settings of this handler.
PostNetwork(u, k) == Takes(u, k, "await")
\* The same from the setup wizard: the config becomes a task.
PostSetup(u, k) == Takes(u, k, "fast")
\* handle_rns_interfaces_add, _delete, _update, handle_network_repair.
EditInterfaces(u) == Takes(u, "ifaces", "sync")
\* _maybe_update_hub_server_hash, _persist_hub_server_hash, on RNS threads.
RecordHash(w) ==
  /\ job[w].pc = "idle" /\ edits < MaxEdits
  /\ edits' = edits + 1
  /\ job' = [job EXCEPT ![w] = [pc |-> "save", has |-> Edited("hash"), base |-> Loaded, plan |-> "save"]]
  /\ stale' = (stale \/ file = Torn)
  /\ UNCHANGED <<file, config, hub, loop, crashes, saved>>

\* start_rns takes the settings to write the config anew.
Boots ==
  /\ job[Starter].pc = "idle" /\ job[Starter].plan = "boot"
  /\ job' = [job EXCEPT ![Starter] = [pc |-> "config", has |-> Loaded, base |-> Loaded, plan |-> "boot"]]
  /\ stale' = (stale \/ file = Torn)
  /\ UNCHANGED <<file, config, hub, loop, edits, crashes, saved>>
\* Its last lines: the server stores its own hash, in the settings it loaded
\* when it began.
StoresOwnHash ==
  /\ job[Starter].pc = "last" /\ edits < MaxEdits
  /\ edits' = edits + 1
  /\ job' = [job EXCEPT ![Starter].has["hash"] = edits + 1, ![Starter].pc = "lastdump"]
  /\ Truncates(Starter)
  /\ UNCHANGED <<config, hub, loop, crashes, saved>>
BootEnds ==
  /\ job[Starter].pc = "last"
  /\ Ends(Starter)
  /\ UNCHANGED <<file, config, hub, loop, edits, crashes, saved, stale>>

\* The save of the handler itself, and what follows it.
SaveOpens(a) ==
  /\ job[a].pc = "save" /\ MayRun(a)
  /\ Truncates(a)
  /\ job' = [job EXCEPT ![a].pc = "dump"]
  /\ UNCHANGED <<config, hub, loop, edits, crashes, saved>>
\* (mutant) the RNS config is left as it was
AfterSaveOnly(a) ==
  IF job[a].plan = "sync" THEN Goes(a, "config") ELSE Ends(a)
AfterSave(a) ==
  IF job[a].plan = "save" THEN Ends(a) ELSE Goes(a, "config")
SaveFills(a) ==
  /\ job[a].pc = "dump" /\ MayRun(a)
  /\ Fills(a)
  /\ AfterSave(a)
  /\ hub' = IF job[a].plan = "fast" THEN job[a].has["hub"] ELSE hub
  /\ LoopAfter(a, job[a].plan = "sync")
  /\ UNCHANGED <<config, edits, crashes, stale>>

\* _write_rns_config saves what it was given before it renders the config.
ConfigOpens(a) ==
  /\ job[a].pc = "config" /\ (job[a].plan = "sync" => MayRun(a))
  /\ Truncates(a)
  /\ job' = [job EXCEPT ![a].pc = "configdump"]
  /\ UNCHANGED <<config, hub, loop, edits, crashes, saved>>
ConfigFills(a) ==
  /\ job[a].pc = "configdump" /\ (job[a].plan = "sync" => MayRun(a))
  /\ Fills(a)
  /\ Goes(a, "render")
  /\ UNCHANGED <<config, hub, loop, edits, crashes, stale>>
AfterRender(a) ==
  CASE job[a].plan = "await" -> Goes(a, "apply")
    [] job[a].plan = "boot" -> Goes(a, "apply")
    [] OTHER -> Ends(a)
Renders(a) ==
  /\ job[a].pc = "render" /\ (job[a].plan = "sync" => MayRun(a))
  /\ config' = job[a].has
  /\ AfterRender(a)
  /\ LoopAfter(a, FALSE)
  /\ stale' = (stale \/ file # job[a].has)
  /\ UNCHANGED <<file, hub, edits, crashes, saved>>
\* _apply_hub_runtime with the settings of this job.
Applies(a) ==
  /\ job[a].pc = "apply"
  /\ hub' = job[a].has["hub"]
  /\ IF job[a].plan = "boot" THEN job' = [job EXCEPT ![a].pc = "last"] ELSE Ends(a)
  /\ stale' = (stale \/ file # job[a].has)
  /\ UNCHANGED <<file, config, loop, edits, crashes, saved>>
LastFills ==
  /\ job[Starter].pc = "lastdump"
  /\ Fills(Starter)
  /\ Ends(Starter)
  /\ UNCHANGED <<config, hub, loop, edits, crashes, stale>>

\* The process dies and starts again.
Crash ==
  /\ crashes < MaxCrashes /\ crashes' = crashes + 1
  /\ stale' = (stale \/ \E a \in Actor : job[a].pc # "idle")
  /\ job' = [a \in Actor |-> IF a = Starter THEN [Idle EXCEPT !.plan = "boot"] ELSE Idle]
  /\ loop' = None /\ hub' = 0
  /\ UNCHANGED <<file, config, edits, saved>>

Init ==
  /\ file = Defaults /\ config = Defaults /\ hub = 0
  /\ job = [a \in Actor |-> IF a = Starter THEN [Idle EXCEPT !.plan = "boot"] ELSE Idle]
  /\ loop = None /\ edits = 0 /\ crashes = 0
  /\ saved = Defaults /\ stale = FALSE

Next ==
  \/ \E u \in Handler : \/ PostKeys(u) \/ EditInterfaces(u)
                        \/ \E k \in {"hub", "ifaces"} : PostNetwork(u, k) \/ PostSetup(u, k)
  \/ \E w \in Worker : RecordHash(w)
  \/ \E a \in Actor : \/ SaveOpens(a) \/ SaveFills(a) \/ ConfigOpens(a) \/ ConfigFills(a)
                      \/ Renders(a) \/ Applies(a)
  \/ Boots \/ StoresOwnHash \/ BootEnds \/ LastFills \/ Crash

Spec == Init /\ [][Next]_vars

-----------------------------------------------------------------------------
(* Properties                                                                 *)

Quiet == \A a \in Actor : job[a].pc = "idle" /\ job[a].plan # "boot"

\* What a handler saved stays saved: a group of keys goes back to an older
\* version only when two writers overlapped (one saved what it had loaded before
\* the other saved, or loaded the file the other had emptied) or the process
\* died in the middle of one.
SettingLossNeedsOverlap == (Quiet /\ ~stale) => file = saved

\* With no writer under way and none that overlapped, the interfaces RNS will
\* start with, and the hub interfaces that run, are those of the settings.
ConfigFollows ==
  (Quiet /\ ~stale) =>
    /\ config["ifaces"] = saved["ifaces"] /\ config["hub"] = saved["hub"]
    /\ hub = saved["hub"]
=============================================================================
