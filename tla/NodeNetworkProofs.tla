------------------------- MODULE NodeNetworkProofs -------------------------
(* What a node does on its network interfaces, for any number of threads and  *)
(* changes: the announce lock, the beacon thread and the medium of an announce *)
(* (Announce), the reconnect attempts (Failover), the interface and the        *)
(* identity of the USB port (SerialPlug), and the table of the peers heard     *)
(* there (Discovery), for any adverts, LANs and clock.                         *)
EXTENDS Node, Sequences, SequenceTheorems, FiniteSetTheorems, TLAPS

\* A step of the node is a step of each of its components, or leaves it alone.
LEMMA RadioSteps == [Next]_vars => [Radio!Next]_(Radio!vars)
  BY DEF Next, vars, HistoryMoves, PeersMoves, BookMoves, RadioMoves, ConfigMoves,
     ResumeMoves, PlugMoves, RadioVars, Radio!vars

LEMMA ResumeSteps == [Next]_vars => [Resume!Next]_(Resume!vars)
  BY DEF Next, vars, HistoryMoves, PeersMoves, BookMoves, RadioMoves, ConfigMoves,
     ResumeMoves, PlugMoves, ResumeVars, Resume!vars

-----------------------------------------------------------------------------
(* The announces (Announce)                                                    *)

\* What the arguments need of TypeOK.
TapsTyped ==
    /\ pc \in [Request -> {"new", "blocked", "done"} \union Radio!Awaiting]
    /\ radio_lock \in Request \union {None}
ThreadTyped == beacon \in [made : BOOLEAN, periodic : BOOLEAN, threads : Nat, hook : BOOLEAN]

-----------------------------------------------------------------------------
LEMMA StageKnown ==
  ASSUME NEW via, NEW stage
  PROVE  Radio!NextStage(via, stage) \in {"done"} \union Radio!Awaiting
  BY DEF Radio!NextStage, Radio!Awaiting

(* A coroutine that enters a stage holds the lock unless it is done; the others *)
(* do not wait for the executor.                                                *)
LEMMA EntersKeepsLock ==
  ASSUME TapsTyped, Radio!LockReturned, NEW r \in Request,
         radio_lock \in {None, r}, NEW s \in {"done"} \union Radio!Awaiting, Radio!Enters(r, s)
  PROVE  TapsTyped' /\ Radio!LockReturned'
<1>1. TapsTyped'
  BY DEF TapsTyped, Radio!Enters
<1>2. ASSUME NEW q \in Request PROVE pc'[q] \in Radio!Awaiting <=> radio_lock' = q
  BY RequestAssumption DEF TapsTyped, Radio!LockReturned, Radio!Enters,
     Radio!Awaiting
<1> QED
  BY <1>1, <1>2 DEF Radio!LockReturned

LEMMA LockFramed ==
  ASSUME TapsTyped, Radio!LockReturned, UNCHANGED <<pc, radio_lock>>
  PROVE  TapsTyped' /\ Radio!LockReturned'
  BY DEF TapsTyped, Radio!LockReturned

(* LockReturned for any number of taps: whichever way a tap ends, debounced, in *)
(* an error or after its last announce, it gives _announce_lock back            *)
(* (_perform_announce).                                                         *)
THEOREM LockAlwaysReturned == Spec => []LockReturned
<1>1. Init => TapsTyped /\ Radio!LockReturned
  BY RequestAssumption DEF Init, Radio!Init, TapsTyped, Radio!LockReturned,
     Radio!Awaiting
<1>2. TapsTyped /\ Radio!LockReturned /\ [Next]_vars => TapsTyped' /\ Radio!LockReturned'
  <2> SUFFICES ASSUME TapsTyped, Radio!LockReturned, [Radio!Next]_(Radio!vars)
               PROVE  TapsTyped' /\ Radio!LockReturned'
    BY RadioSteps
  <2>1. ASSUME NEW r \in Request, NEW via \in Radio!Vias, Radio!Tap(r, via)
        PROVE  TapsTyped' /\ Radio!LockReturned'
    <3>1. CASE radio_lock # None
      <4>1. pc[r] = "new" /\ pc' = [pc EXCEPT ![r] = "blocked"] /\ radio_lock' = radio_lock
        BY <2>1, <3>1 DEF Radio!Tap
      <4> QED
        BY <4>1 DEF TapsTyped, Radio!LockReturned, Radio!Awaiting
    <3>2. CASE radio_lock = None
      <4>1. \E s \in {"done"} \union Radio!Awaiting : Radio!Enters(r, s)
        BY <2>1, <3>2, StageKnown DEF Radio!Tap
      <4> QED
        BY <3>2, <4>1, EntersKeepsLock
    <3> QED
      BY <3>1, <3>2
  <2>2. ASSUME NEW r \in Request, Radio!Call(r) PROVE TapsTyped' /\ Radio!LockReturned'
    BY <2>2, LockFramed DEF Radio!Call
  <2>3. ASSUME NEW r \in Request, Radio!Resume(r) \/ Radio!Raise(r) PROVE TapsTyped' /\ Radio!LockReturned'
    <3>1. radio_lock = r
      BY <2>3 DEF Radio!Resume, Radio!Raise, Radio!LockReturned
    <3>2. \E s \in {"done"} \union Radio!Awaiting : Radio!Enters(r, s)
      BY <2>3, StageKnown DEF Radio!Resume, Radio!Raise
    <3> QED
      BY <3>1, <3>2, EntersKeepsLock
  <2>4. CASE \/ Radio!DebounceOver \/ Radio!StartThread \/ Radio!StartRunning \/ Radio!LooperChecks \/ Radio!LoopLan
             \/ Radio!LoopUsb \/ Radio!BeaconTick \/ Radio!SaveProbe \/ Radio!NetChanges \/ Radio!UsbAttached \/ Radio!UsbGone
             \/ \E on \in BOOLEAN : Radio!SaveAuto(on)
             \/ \E on \in BOOLEAN : \E k \in {"lanIv", "serIv"} : Radio!SaveInterval(k, on)
    <3>1. UNCHANGED <<pc, radio_lock>>
      BY <2>4 DEF Radio!DebounceOver, Radio!StartThread, Radio!StartRunning,
         Radio!LooperChecks, Radio!LoopLan,
         Radio!LoopUsb, Radio!BeaconTick, Radio!SaveProbe, Radio!NetChanges, Radio!UsbAttached, Radio!UsbGone, Radio!SaveAuto,
         Radio!SaveInterval
    <3> QED
      BY <3>1, LockFramed
  <2>5. CASE UNCHANGED Radio!vars
    BY <2>5, LockFramed DEF Radio!vars
  <2> QED
    BY <2>1, <2>2, <2>3, <2>4, <2>5 DEF Radio!Next
<1>3. Radio!LockReturned => LockReturned
  BY DEF LockReturned
<1> QED
  BY <1>1, <1>2, <1>3, PTL DEF Spec

-----------------------------------------------------------------------------
LEMMA BeaconUpdated ==
  ASSUME ThreadTyped, NEW p \in BOOLEAN, NEW h \in BOOLEAN, NEW n \in 0 .. 1,
         beacon' = [beacon EXCEPT !.periodic = p, !.hook = h, !.threads = n]
  PROVE  ThreadTyped' /\ Radio!OneBeaconThread'
<1>1. n \in Nat /\ n <= 1
  OBVIOUS
<1>2. beacon'.threads = n
  BY DEF ThreadTyped
<1>3. [beacon EXCEPT !.periodic = p, !.hook = h, !.threads = n]
        \in [made : BOOLEAN, periodic : BOOLEAN, threads : Nat, hook : BOOLEAN]
  BY ONLY <1>1, ThreadTyped, p \in BOOLEAN, h \in BOOLEAN DEF ThreadTyped
<1> QED
  BY <1>1, <1>2, <1>3 DEF ThreadTyped, Radio!OneBeaconThread

LEMMA BeaconKept ==
  ASSUME ThreadTyped, Radio!OneBeaconThread, UNCHANGED beacon
  PROVE  ThreadTyped' /\ Radio!OneBeaconThread'
  BY DEF ThreadTyped, Radio!OneBeaconThread

(* OneBeaconThread for any number of switches: set_periodic starts no second    *)
(* thread while the last one still sleeps (LanBeacon.start, set_periodic).      *)
THEOREM BeaconThreadAlone == Spec => []OneBeaconThread
<1> DEFINE Inv == ThreadTyped /\ Radio!OneBeaconThread
<1>1. Init => Inv
  BY DEF Init, Radio!Init, ThreadTyped, Radio!OneBeaconThread
<1>2. Inv /\ [Next]_vars => Inv'
  <2> SUFFICES ASSUME Inv, [Radio!Next]_(Radio!vars) PROVE Inv'
    BY RadioSteps
  <2>1. CASE Radio!StartRunning
    <3>1. CASE beacon' = beacon
      BY <3>1, BeaconKept
    <3>2. CASE beacon' = Radio!BeaconStarted(Radio!LoadedIv)
      <4>1. Radio!LoadedIv \in BOOLEAN
        BY Zenon DEF Radio!LoadedIv
      <4> QED
        BY <3>2, <4>1 DEF Radio!BeaconStarted, ThreadTyped, Radio!OneBeaconThread
    <3> QED
      BY <2>1, <3>1, <3>2 DEF Radio!StartRunning
  <2>2. ASSUME NEW on \in BOOLEAN, Radio!SaveAuto(on) PROVE Inv'
    <3>1. CASE beacon' = beacon
      BY <3>1, BeaconKept
    <3>2. CASE beacon' = Radio!SetPeriodic(on)
      <4> DEFINE n == IF on /\ ~beacon.periodic /\ beacon.threads = 0
                      THEN 1 ELSE beacon.threads
                 h == on \/ beacon.hook
      <4>1. n \in 0 .. 1
        BY DEF ThreadTyped, Radio!OneBeaconThread
      <4>2. h \in BOOLEAN
        BY Zenon
      <4>3. beacon' = [beacon EXCEPT !.periodic = on, !.hook = h, !.threads = n]
        BY <3>2, Zenon DEF Radio!SetPeriodic
      <4> HIDE DEF n, h
      <4> QED
        BY <4>1, <4>2, <4>3, BeaconUpdated
    <3> QED
      BY <2>2, <3>1, <3>2 DEF Radio!SaveAuto
  <2>3. ASSUME NEW r \in Request,
               Radio!Call(r) \/ Radio!Resume(r) \/ Radio!Raise(r) \/ \E via \in Radio!Vias : Radio!Tap(r, via)
        PROVE  Inv'
    BY <2>3, BeaconKept DEF Radio!Tap, Radio!Call, Radio!Resume, Radio!Raise
  <2>4. CASE \/ Radio!DebounceOver \/ Radio!StartThread \/ Radio!LooperChecks \/ Radio!LoopLan \/ Radio!LoopUsb
             \/ Radio!BeaconTick \/ Radio!SaveProbe \/ Radio!NetChanges \/ Radio!UsbAttached \/ Radio!UsbGone
    BY <2>4, BeaconKept DEF Radio!DebounceOver, Radio!StartThread,
       Radio!LooperChecks, Radio!LoopLan, Radio!LoopUsb,
       Radio!BeaconTick, Radio!SaveProbe, Radio!NetChanges, Radio!UsbAttached, Radio!UsbGone
  <2>5. ASSUME NEW on \in BOOLEAN, NEW k \in {"lanIv", "serIv"}, Radio!SaveInterval(k, on)
        PROVE  Inv'
    BY <2>5, BeaconKept DEF Radio!SaveInterval
  <2>6. CASE UNCHANGED Radio!vars
    BY <2>6, BeaconKept DEF Radio!vars
  <2> QED
    BY <2>1, <2>2, <2>3, <2>4, <2>5, <2>6 DEF Radio!Next
<1>3. Inv => OneBeaconThread
  BY DEF OneBeaconThread
<1> QED
  BY <1>1, <1>2, <1>3, PTL DEF Spec

-----------------------------------------------------------------------------
LEMMA LanEmitted ==
  ASSUME Radio!Emits("lan", Radio!Silent(FALSE)) \/ Radio!Emits("lan", Radio!Loud(FALSE))
  PROVE  Radio!UsbForLan'
  BY DEF Radio!Emits, Radio!Silent, Radio!Loud, Radio!Fallback, Radio!Burst,
     Radio!Bursts, Radio!UsbForLan

LEMMA UsbEmitted ==
  ASSUME sent'.for = "serial"
  PROVE  Radio!UsbForLan'
  BY DEF Radio!UsbForLan

(* UsbForLan for any history of cables, addresses and interfaces: what is meant *)
(* for the LAN goes over USB only if the node has a LAN address and no LAN       *)
(* interface that works (_announce, _silent_announce, _fallback_announce).       *)
THEOREM UsbOnlyInstead == Spec => []UsbForLan
<1>1. Init => Radio!UsbForLan
  BY DEF Init, Radio!Init, Radio!UsbForLan
<1>2. Radio!UsbForLan /\ [Next]_vars => Radio!UsbForLan'
  <2> SUFFICES ASSUME Radio!UsbForLan, [Radio!Next]_(Radio!vars) PROVE Radio!UsbForLan'
    BY RadioSteps
  <2>1. UNCHANGED sent => Radio!UsbForLan'
    BY DEF Radio!UsbForLan
  <2>2. ASSUME NEW r \in Request, Radio!Call(r) PROVE Radio!UsbForLan'
    <3>1. CASE pc[r] = "serial"
      <4>1. sent'.for = "serial"
        BY <2>2, <3>1 DEF Radio!Call, Radio!EmitsUsb, Radio!Emits
      <4> QED
        BY <4>1, UsbEmitted
    <3>2. CASE pc[r] = "lan"
      BY <2>2, <3>2, LanEmitted DEF Radio!Call, Radio!EmitsLan
    <3>3. CASE pc[r] = "beacon"
      BY <2>2, <3>3, <2>1 DEF Radio!Call
    <3> QED
      BY <2>2, <3>1, <3>2, <3>3 DEF Radio!Call, Radio!Awaiting
  <2>3. CASE Radio!StartThread \/ Radio!LoopLan \/ Radio!BeaconTick
    BY <2>3, LanEmitted DEF Radio!StartThread, Radio!LoopLan, Radio!BeaconTick,
       Radio!EmitsLan
  <2>4. CASE Radio!LoopUsb
    <3>1. sent'.for = "serial"
      BY <2>4 DEF Radio!LoopUsb, Radio!EmitsUsb, Radio!Emits
    <3> QED
      BY <3>1, UsbEmitted
  <2>5. CASE Radio!UsbAttached
    <3>1. sent'.for = "serial" \/ sent' = sent
      BY <2>5 DEF Radio!UsbAttached
    <3> QED
      BY <3>1, <2>1, UsbEmitted
  <2>6. ASSUME NEW r \in Request, Radio!Resume(r) \/ Radio!Raise(r) \/ \E via \in Radio!Vias : Radio!Tap(r, via)
        PROVE  Radio!UsbForLan'
    BY <2>6, <2>1 DEF Radio!Resume, Radio!Raise, Radio!Tap
  <2>7. CASE \/ Radio!DebounceOver \/ Radio!StartRunning \/ Radio!LooperChecks \/ Radio!SaveProbe \/ Radio!NetChanges
             \/ Radio!UsbGone \/ UNCHANGED Radio!vars
             \/ \E on \in BOOLEAN : Radio!SaveAuto(on)
             \/ \E on \in BOOLEAN : \E k \in {"lanIv", "serIv"} : Radio!SaveInterval(k, on)
    BY <2>7, <2>1 DEF Radio!DebounceOver, Radio!StartRunning, Radio!LooperChecks,
       Radio!SaveProbe, Radio!NetChanges,
       Radio!UsbGone, Radio!vars, Radio!SaveAuto, Radio!SaveInterval
  <2> QED
    BY <2>2, <2>3, <2>4, <2>5, <2>6, <2>7 DEF Radio!Next
<1>3. Radio!UsbForLan => UsbForLan
  BY DEF UsbForLan
<1> QED
  BY <1>1, <1>2, <1>3, PTL DEF Spec

-----------------------------------------------------------------------------
(* The reconnect attempts (Failover)                                           *)

AtWork == {"prepare", "dial"}
Engaged == AtWork \union {"passed"}

\* What the arguments need of TypeOK.
Whole(r) == r = [pc |-> r.pc, order |-> r.order, want |-> r.want, serial |-> r.serial]
RunTyped ==
  /\ run = [c \in Caller |-> run[c]]
  /\ \A c \in Caller : Whole(run[c])
  /\ sess = [on |-> sess.on, left |-> sess.left, want |-> sess.want]
  /\ sess.want \in Resume!Transport \union {"none"}

\* The connect lock is only held by a caller that dials.
LockDials == \A c \in Caller : resume_lock = c => run[c].pc = "dial"

\* Until two callers have passed the checks together, there is one beyond them.
OneEngaged ==
  ~shared => \A c, d \in Caller :
               (run[c].pc \in Engaged /\ run[d].pc \in Engaged) => c = d

AttemptInv ==
  RunTyped /\ LockDials /\ OneEngaged /\ Resume!CrossNeedsSerialDown /\ Resume!FlagCoversRun

-----------------------------------------------------------------------------
LEMMA RunsStart == Resume!Init => AttemptInv
<1> SUFFICES ASSUME Resume!Init PROVE AttemptInv
  OBVIOUS
<1>1. run = [c \in Caller |-> [pc |-> "idle", order |-> <<>>, want |-> "none", serial |-> FALSE]]
  BY DEF Resume!Init, Resume!Rest
<1>2. \A c \in Caller : run[c].pc = "idle"
  BY <1>1
<1>3. RunTyped
  BY <1>1 DEF Resume!Init, RunTyped, Whole
<1>4. LockDials
  BY CallerAssumption DEF Resume!Init, LockDials
<1> QED
  BY <1>2, <1>3, <1>4 DEF AttemptInv, OneEngaged, Resume!CrossNeedsSerialDown,
     Resume!FlagCoversRun, Engaged, AtWork

\* A step that leaves the callers, the flag and what they saw alone.
LEMMA CallersFramed ==
  ASSUME AttemptInv, UNCHANGED <<run, flag, shared>>,
         sess' = [on |-> sess'.on, left |-> sess'.left, want |-> sess'.want],
         sess'.want \in Resume!Transport \union {"none"},
         LockDials'
  PROVE  AttemptInv'
  BY DEF AttemptInv, RunTyped, OneEngaged, Resume!CrossNeedsSerialDown,
     Resume!FlagCoversRun

(* A caller that goes back to rest leaves the others as they are; if it was     *)
(* engaged it was the only one, and may take the flag down.                     *)
LEMMA Rests ==
  ASSUME AttemptInv, NEW c \in Caller, run' = [run EXCEPT ![c] = Resume!Rest],
         UNCHANGED sess, shared' <=> shared, resume_lock' = resume_lock \/ resume_lock' = None,
         resume_lock = c => resume_lock' = None, flag' = flag \/ run[c].pc \in Engaged
  PROVE  AttemptInv'
<1>1. run' = [d \in Caller |-> IF d = c THEN Resume!Rest ELSE run[d]]
  BY DEF AttemptInv, RunTyped
<1>2. run'[c].pc = "idle" /\ \A d \in Caller \ {c} : run'[d] = run[d]
  BY <1>1 DEF Resume!Rest
<1>3. RunTyped'
  <2>1. Whole(run'[c])
    BY <1>1 DEF Whole, Resume!Rest
  <2> QED
    BY <1>1, <1>2, <2>1 DEF AttemptInv, RunTyped, Whole
<1>4. LockDials'
  BY CallerAssumption, <1>2 DEF AttemptInv, LockDials
<1>5. OneEngaged'
  BY <1>2 DEF AttemptInv, OneEngaged, Engaged, AtWork
<1>6. Resume!CrossNeedsSerialDown'
  BY <1>2 DEF AttemptInv, Resume!CrossNeedsSerialDown
<1>7. Resume!FlagCoversRun'
  <2> SUFFICES ASSUME ~shared, NEW d \in Caller, run'[d].pc \in AtWork PROVE flag'
    BY DEF Resume!FlagCoversRun, AtWork
  <2>1. d # c /\ run[d].pc \in AtWork
    BY <1>2 DEF AtWork
  <2>2. run[c].pc \notin Engaged
    BY <2>1 DEF AttemptInv, OneEngaged, Engaged
  <2>3. flag
    BY <2>1 DEF AttemptInv, Resume!FlagCoversRun, AtWork
  <2> QED
    BY <2>2, <2>3
<1> QED
  BY <1>3, <1>4, <1>5, <1>6, <1>7 DEF AttemptInv

\* An engaged caller that goes on with the transport it has.
LEMMA GoesOn ==
  ASSUME AttemptInv, NEW c \in Caller, NEW step \in AtWork,
         NEW order,
         run' = [run EXCEPT ![c] = [pc |-> step, order |-> order,
                                    want |-> run[c].want, serial |-> run[c].serial]],
         run[c].pc \in AtWork,
         order = run[c].order \/ ~(run[c].order = <<run[c].want>>),
         UNCHANGED <<sess, shared, flag>>, resume_lock' = resume_lock \/ resume_lock' = None,
         resume_lock = c => resume_lock' = None
  PROVE  AttemptInv'
<1>1. run' = [d \in Caller |-> IF d = c THEN [pc |-> step, order |-> order,
                                    want |-> run[c].want, serial |-> run[c].serial]
                               ELSE run[d]]
  BY DEF AttemptInv, RunTyped
<1>2. /\ run'[c].pc = step /\ run'[c].order = order
      /\ run'[c].want = run[c].want /\ run'[c].serial = run[c].serial
      /\ \A d \in Caller \ {c} : run'[d] = run[d]
  BY <1>1
<1>3. RunTyped'
  <2>1. Whole(run'[c])
    BY <1>1 DEF Whole
  <2> QED
    BY <1>1, <1>2, <2>1 DEF AttemptInv, RunTyped, Whole
<1>4. LockDials'
  BY CallerAssumption, <1>2 DEF AttemptInv, LockDials
<1>5. OneEngaged'
  BY <1>2 DEF AttemptInv, OneEngaged, Engaged, AtWork
<1>6. Resume!CrossNeedsSerialDown'
  BY <1>2 DEF AttemptInv, Resume!CrossNeedsSerialDown, AtWork
<1>7. Resume!FlagCoversRun'
  BY <1>2 DEF AttemptInv, Resume!FlagCoversRun, AtWork
<1> QED
  BY <1>3, <1>4, <1>5, <1>6, <1>7 DEF AttemptInv

LEMMA PcOnly ==
  ASSUME AttemptInv, NEW c \in Caller, NEW step, run' = [run EXCEPT ![c].pc = step]
  PROVE  run' = [run EXCEPT ![c] = [pc |-> step, order |-> run[c].order,
                                    want |-> run[c].want, serial |-> run[c].serial]]
<1>1. Whole(run[c])
  BY DEF AttemptInv, RunTyped
<1>2. [run[c] EXCEPT !.pc = step] = [pc |-> step, order |-> run[c].order,
                                   want |-> run[c].want, serial |-> run[c].serial]
  BY <1>1 DEF Whole
<1> QED
  BY <1>2

\* reconnect_active_peer is called, or has passed its checks.
LEMMA MovesOn ==
  ASSUME AttemptInv, NEW c \in Caller, NEW step \in {"called", "passed"},
         run' = [run EXCEPT ![c].pc = step], run[c].pc \in {"idle", "called"},
         step = "passed" => ~flag /\ (~shared' => ~shared /\ \A d \in Caller \ {c} : run[d].pc # "passed"),
         shared => shared',
         UNCHANGED <<sess, resume_lock, flag>>
  PROVE  AttemptInv'
<1>1. run' = [d \in Caller |-> IF d = c THEN [pc |-> step, order |-> run[c].order,
                                    want |-> run[c].want, serial |-> run[c].serial]
                               ELSE run[d]]
  BY PcOnly DEF AttemptInv, RunTyped
<1>2. run'[c].pc = step /\ \A d \in Caller \ {c} : run'[d] = run[d]
  BY <1>1
<1>3. RunTyped'
  <2>1. Whole(run'[c])
    BY <1>1 DEF Whole
  <2> QED
    BY <1>1, <1>2, <2>1 DEF AttemptInv, RunTyped, Whole
<1>4. LockDials'
  BY <1>2 DEF AttemptInv, LockDials
<1>5. ~shared' => ~shared
  OBVIOUS
<1>6. \A d \in Caller : run'[d].pc \in AtWork => d # c /\ run[d].pc \in AtWork
  BY <1>2 DEF AtWork
<1>7. OneEngaged'
  <2> SUFFICES ASSUME ~shared', NEW d \in Caller, NEW e \in Caller,
                      run'[d].pc \in Engaged, run'[e].pc \in Engaged
               PROVE  d = e
    BY DEF OneEngaged, Engaged, AtWork
  <2>1. CASE d # c /\ e # c
    BY <1>2, <1>5, <2>1 DEF AttemptInv, OneEngaged
  <2>2. CASE d = c \/ e = c
    <3>1. step = "passed"
      BY <1>2, <2>2 DEF Engaged, AtWork
    <3>2. \A q \in Caller \ {c} : run[q].pc \notin AtWork
      BY <1>5, <3>1 DEF AttemptInv, Resume!FlagCoversRun, AtWork
    <3>3. \A q \in Caller \ {c} : run'[q].pc \notin Engaged
      BY <1>2, <3>1, <3>2 DEF Engaged
    <3> QED
      BY <2>2, <3>3
  <2> QED
    BY <2>1, <2>2
<1>8. Resume!CrossNeedsSerialDown'
  BY <1>2, <1>6 DEF AttemptInv, Resume!CrossNeedsSerialDown, AtWork
<1>9. Resume!FlagCoversRun'
  BY <1>5, <1>6 DEF AttemptInv, Resume!FlagCoversRun, AtWork
<1> QED
  BY <1>3, <1>4, <1>7, <1>8, <1>9 DEF AttemptInv

\* The attempt begins: the transports are chosen from what the session wants.
LEMMA Begins ==
  ASSUME AttemptInv, NEW c \in Caller, Resume!Starts(c)
  PROVE  AttemptInv'
<1>1. PICK o \in Resume!Orders :
        run' = [run EXCEPT ![c] = [pc |-> IF o = <<>> THEN "idle" ELSE "prepare", order |-> o,
                                   want |-> sess.want, serial |-> up["serial"]]]
  BY DEF Resume!Starts
<1> DEFINE begun == [pc |-> IF o = <<>> THEN "idle" ELSE "prepare", order |-> o,
                     want |-> sess.want, serial |-> up["serial"]]
<1>2. run' = [d \in Caller |-> IF d = c THEN begun ELSE run[d]]
  BY <1>1 DEF AttemptInv, RunTyped
<1>3. /\ run'[c].pc \in {"idle", "prepare"} /\ run'[c].order = o /\ run'[c].want = sess.want
      /\ run'[c].serial = up["serial"]
      /\ \A d \in Caller \ {c} : run'[d] = run[d]
  BY <1>2
<1>4. run[c].pc = "passed" /\ UNCHANGED <<sess, shared, resume_lock>> /\ flag' = (run'[c].pc # "idle")
  BY DEF Resume!Starts
<1>5. RunTyped'
  <2>1. Whole(run'[c])
    BY <1>2 DEF Whole
  <2> HIDE DEF begun
  <2> QED
    BY <1>2, <1>3, <1>4, <2>1 DEF AttemptInv, RunTyped, Whole
<1> HIDE DEF begun
<1>6. LockDials'
  BY <1>3, <1>4 DEF AttemptInv, LockDials
<1>7. OneEngaged'
  BY <1>3, <1>4 DEF AttemptInv, OneEngaged, Engaged
<1>8. Resume!CrossNeedsSerialDown'
  <2>1. sess.want # "none" => o = <<sess.want>> \/ (sess.want = "serial" /\ ~up["serial"])
    BY <1>1 DEF Resume!Orders, AttemptInv, RunTyped, Resume!Transport
  <2> SUFFICES ASSUME NEW d \in Caller, run'[d].pc \in {"prepare", "dial"}, run'[d].want # "none"
               PROVE  \/ run'[d].order = <<run'[d].want>>
                      \/ run'[d].want = "serial" /\ ~run'[d].serial
    BY DEF Resume!CrossNeedsSerialDown
  <2>2. CASE d = c
    BY <1>3, <2>1, <2>2
  <2>3. CASE d # c
    BY <1>3, <2>3 DEF AttemptInv, Resume!CrossNeedsSerialDown
  <2> QED
    BY <2>2, <2>3
<1>9. Resume!FlagCoversRun'
  <2> SUFFICES ASSUME ~shared, NEW d \in Caller, run'[d].pc \in AtWork PROVE flag'
    BY <1>4 DEF Resume!FlagCoversRun, AtWork
  <2>1. d = c
    BY <1>3, <1>4 DEF AttemptInv, OneEngaged, Engaged
  <2> QED
    BY <1>4, <2>1 DEF AtWork
<1> QED
  BY <1>5, <1>6, <1>7, <1>8, <1>9 DEF AttemptInv

\* A family failed: the next one is tried, or the attempt ends.
LEMMA TriesNext ==
  ASSUME AttemptInv, NEW c \in Caller, run[c].pc \in AtWork, Resume!NextFamily(c),
         UNCHANGED <<sess, shared>>, resume_lock' = resume_lock \/ resume_lock' = None, resume_lock = c => resume_lock' = None
  PROVE  AttemptInv'
<1>1. CASE Len(run[c].order) > 1
  <2> DEFINE rest == Tail(run[c].order)
  <2>1. run' = [run EXCEPT ![c] = [pc |-> "prepare", order |-> rest,
                                   want |-> run[c].want, serial |-> run[c].serial]]
        /\ UNCHANGED flag
    BY <1>1 DEF Resume!NextFamily
  <2>3. ~(run[c].order = <<run[c].want>>)
    <3> SUFFICES ASSUME run[c].order = <<run[c].want>> PROVE FALSE
      OBVIOUS
    <3>1. Len(<<run[c].want>>) = 1
      OBVIOUS
    <3>2. PICK n : n = Len(run[c].order)
      OBVIOUS
    <3>3. n = 1
      BY <3>1, <3>2, Zenon
    <3>4. n > 1
      BY <1>1, <3>2, Zenon
    <3> QED
      BY ONLY <3>3, <3>4
  <2> HIDE DEF rest
  <2>5. "prepare" \in AtWork
    BY DEF AtWork
  <2> QED
    BY <2>1, <2>3, <2>5, GoesOn
<1>2. CASE ~(Len(run[c].order) > 1)
  <2>1. run' = [run EXCEPT ![c] = Resume!Rest] /\ flag' = FALSE
    BY <1>2 DEF Resume!NextFamily
  <2>2. run[c].pc \in Engaged
    BY DEF Engaged
  <2> QED
    BY <2>1, <2>2, Rests
<1> QED
  BY <1>1, <1>2

-----------------------------------------------------------------------------
LEMMA RunsStep == AttemptInv /\ [Resume!Next]_(Resume!vars) => AttemptInv'
<1> SUFFICES ASSUME AttemptInv, [Resume!Next]_(Resume!vars) PROVE AttemptInv'
  OBVIOUS
<1> DEFINE Still == UNCHANGED <<run, flag, shared>>
<1>0. sess = [on |-> sess.on, left |-> sess.left, want |-> sess.want]
      /\ sess.want \in Resume!Transport \union {"none"}
  BY DEF AttemptInv, RunTyped
<1>a. ASSUME Still, UNCHANGED sess, resume_lock' = resume_lock \/ resume_lock' \in {None, "user"}
      PROVE  AttemptInv'
  <2>1. LockDials'
    BY CallerAssumption, <1>a DEF AttemptInv, LockDials
  <2> QED
    BY <1>0, <1>a, <2>1, CallersFramed
<1>1. ASSUME NEW c \in Caller, Resume!LoopRound(c) \/ Resume!Resume(c)
      PROVE  AttemptInv'
  <2>1. run' = [run EXCEPT ![c].pc = "called"] /\ run[c].pc = "idle"
        /\ UNCHANGED <<sess, resume_lock, flag, shared>>
    BY <1>1 DEF Resume!LoopRound, Resume!Resume
  <2> QED
    BY <2>1, MovesOn
<1>2. ASSUME NEW c \in Caller, Resume!Looks(c)
      PROVE  AttemptInv'
  <2>1. CASE Resume!Refuses(c)
    <3>1. run' = [run EXCEPT ![c] = Resume!Rest] /\ run[c].pc = "called" /\ UNCHANGED <<sess, resume_lock, flag>>
      BY <1>2, <2>1 DEF Resume!Looks
    <3>2. shared' <=> shared
      BY <1>2, <2>1, Zenon DEF Resume!Looks
    <3>3. resume_lock # c
      BY <3>1 DEF AttemptInv, LockDials
    <3> QED
      BY <3>1, <3>2, <3>3, Rests
  <2>2. CASE ~Resume!Refuses(c)
    <3>1. run' = [run EXCEPT ![c].pc = "passed"] /\ run[c].pc = "called"
          /\ UNCHANGED <<sess, resume_lock, flag>> /\ ~flag
      BY <1>2, <2>2 DEF Resume!Looks, Resume!Refuses
    <3>2. shared' <=> shared \/ \E d \in Caller \ {c} : run[d].pc = "passed"
      BY <1>2, <2>2, Zenon DEF Resume!Looks
    <3> QED
      BY <3>1, <3>2, MovesOn
  <2> QED
    BY <2>1, <2>2
<1>3. ASSUME NEW c \in Caller, Resume!Starts(c)
      PROVE  AttemptInv'
  BY <1>3, Begins
<1>4. ASSUME NEW c \in Caller, Resume!PrepareFails(c)
      PROVE  AttemptInv'
  <2>1. run[c].pc \in AtWork /\ Resume!NextFamily(c) /\ UNCHANGED <<sess, shared, resume_lock>> /\ resume_lock # c
    BY <1>4 DEF Resume!PrepareFails, AtWork, AttemptInv, LockDials
  <2> QED
    BY <2>1, TriesNext
<1>5. ASSUME NEW c \in Caller, Resume!PrepareWorks(c)
      PROVE  AttemptInv'
  <2>1. run' = [run EXCEPT ![c].pc = "dial"] /\ UNCHANGED <<sess, shared, resume_lock, flag>>
    BY <1>5 DEF Resume!PrepareWorks
  <2>2. run[c].pc \in AtWork /\ "dial" \in AtWork /\ resume_lock # c
    BY <1>5 DEF Resume!PrepareWorks, AtWork, AttemptInv, LockDials
  <2>3. run' = [run EXCEPT ![c] = [pc |-> "dial", order |-> run[c].order,
                                   want |-> run[c].want, serial |-> run[c].serial]]
    BY <2>1, PcOnly
  <2> QED
    BY <2>1, <2>2, <2>3, GoesOn
<1>6. ASSUME NEW c \in Caller, Resume!InboundCame(c)
      PROVE  AttemptInv'
  <2>1. run' = [run EXCEPT ![c] = Resume!Rest] /\ UNCHANGED <<sess, shared, resume_lock>> /\ resume_lock # c
        /\ run[c].pc \in Engaged
    BY <1>6 DEF Resume!InboundCame, Resume!Finishes, Engaged, AtWork
  <2> QED
    BY <2>1, Rests
<1>7. ASSUME NEW c \in Caller, Resume!Dials(c)
      PROVE  AttemptInv'
  <2>1. LockDials'
    BY <1>7 DEF Resume!Dials, LockDials
  <2>2. Still /\ UNCHANGED sess
    BY <1>7 DEF Resume!Dials
  <2> QED
    BY <1>0, <2>1, <2>2, CallersFramed
<1>8. ASSUME NEW c \in Caller, Resume!DialFails(c)
      PROVE  AttemptInv'
  <2>1. run[c].pc \in AtWork /\ Resume!NextFamily(c) /\ UNCHANGED <<sess, shared>> /\ resume_lock' = None
    BY <1>8 DEF Resume!DialFails, AtWork, AttemptInv, LockDials
  <2> QED
    BY <2>1, TriesNext
<1>9. ASSUME NEW c \in Caller, Resume!DialWorks(c)
      PROVE  AttemptInv'
  <2>1. run' = [run EXCEPT ![c] = Resume!Rest] /\ UNCHANGED <<sess, shared>> /\ resume_lock' = None
    BY <1>9 DEF Resume!DialWorks, Resume!Finishes
  <2>2. run[c].pc \in Engaged
    BY <1>9 DEF Resume!DialWorks, Engaged, AtWork, AttemptInv, LockDials
  <2> QED
    BY <2>1, <2>2, Rests
<1>10. ASSUME NEW t \in Resume!Transport, Resume!UserConnects(t)
       PROVE  AttemptInv'
  <2>1. Still /\ resume_lock' = "user" /\ sess' = [on |-> TRUE, left |-> FALSE, want |-> t]
    BY <1>10 DEF Resume!UserConnects
  <2>2. sess'.want = t /\ sess' = [on |-> sess'.on, left |-> sess'.left, want |-> sess'.want]
    BY <2>1
  <2>3. LockDials'
    BY CallerAssumption, <2>1 DEF LockDials
  <2> QED
    BY <2>1, <2>2, <2>3, CallersFramed
<1>11. ASSUME NEW t \in Resume!Transport, Resume!InboundLink(t) \/ Resume!LinkGone(t) \/ Resume!LinkStale(t)
       PROVE  AttemptInv'
  <2>1. Still /\ UNCHANGED <<sess, resume_lock>>
    BY <1>11 DEF Resume!InboundLink, Resume!LinkGone, Resume!LinkStale
  <2> QED
    BY <2>1, <1>a
<1>12. ASSUME NEW t \in Resume!Transport, Resume!Attached(t) \/ Resume!Detached(t)
       PROVE  AttemptInv'
  <2>1. Still /\ UNCHANGED <<sess, resume_lock>>
    BY <1>12 DEF Resume!Attached, Resume!Detached
  <2> QED
    BY <2>1, <1>a
<1>13. ASSUME NEW ok \in BOOLEAN, Resume!UserConnectEnds(ok)
       PROVE  AttemptInv'
  <2>1. Still /\ UNCHANGED sess /\ resume_lock' = None
    BY <1>13 DEF Resume!UserConnectEnds
  <2> QED
    BY <2>1, <1>a
<1>14. ASSUME Resume!UserDisconnects
       PROVE  AttemptInv'
  <2>1. Still /\ UNCHANGED resume_lock /\ sess' = [on |-> FALSE, left |-> TRUE, want |-> "none"]
    BY <1>14 DEF Resume!UserDisconnects
  <2>2. sess'.want = "none" /\ sess' = [on |-> sess'.on, left |-> sess'.left, want |-> sess'.want]
    BY <2>1
  <2>3. LockDials'
    BY <2>1 DEF AttemptInv, LockDials
  <2> QED
    BY <2>1, <2>2, <2>3, CallersFramed
<1>15. ASSUME Resume!TransferToggles \/ Resume!CooldownOver \/ Resume!IdleOver \/ Resume!GraceOver
       PROVE  AttemptInv'
  <2>1. Still /\ UNCHANGED <<sess, resume_lock>>
    BY <1>15 DEF Resume!TransferToggles, Resume!CooldownOver, Resume!IdleOver,
       Resume!GraceOver, Resume!TimePasses
  <2> QED
    BY <2>1, <1>a
<1>16. ASSUME UNCHANGED Resume!vars
       PROVE  AttemptInv'
  BY <1>16, <1>a DEF Resume!vars
<1> QED
  BY <1>1, <1>2, <1>3, <1>4, <1>5, <1>6, <1>7, <1>8, <1>9, <1>10, <1>11, <1>12,
     <1>13,
     <1>14, <1>15, <1>16 DEF Resume!Next

(* AttemptKept for any number of resume tasks: reconnect_active_peer dials only *)
(* the transport the user picked, unless its USB interface was down, and never  *)
(* twice at once unless two callers passed its checks together.                 *)
THEOREM OneAttempt == Spec => []AttemptKept
<1>1. AttemptInv => AttemptKept
  BY DEF AttemptInv, AttemptKept, Resume!AttemptKept
<1>2. Init => AttemptInv
  BY RunsStart DEF Init
<1>3. AttemptInv /\ [Next]_vars => AttemptInv'
  BY RunsStep, ResumeSteps
<1> QED
  BY <1>1, <1>2, <1>3, PTL DEF Spec

LEMMA PlugSteps == [Next]_vars => [Plug!Next]_(Plug!vars)
  BY DEF Next, vars, HistoryMoves, PeersMoves, BookMoves, RadioMoves, ConfigMoves,
     ResumeMoves, PlugMoves,
     PlugVars, Plug!vars

-----------------------------------------------------------------------------
(* The USB port (SerialPlug)                                                   *)

LEMMA PlugCounts == \A s : Plug!Cardinality(s) = Cardinality(s) /\ (Plug!IsFiniteSet(s) <=> IsFiniteSet(s))
  BY Zenon DEF Cardinality, IsFiniteSet, Plug!Cardinality, Plug!IsFiniteSet

PlugJob == [pc : {"idle", "ensure", "wait", "dedupe", "drop", "find", "open", "notify", "back"} \union Plug!IdentityPc,
            drop : SUBSET Plug!Iface, ret : {"none", "find", "notify", "idle", "iface"},
            role : {"none", "mgr", "callback", "own"}, made : Plug!Maker \union {None}]
\* dedupe_serial_interfaces returns to who called it.
Asked(j) == j.pc \in {"dedupe", "drop"} => j.ret \in {"find", "notify", "idle"}
PlugTyped ==
  /\ ifaces \subseteq Plug!Iface /\ plug_disk \in Plug!Maker \union {None}
  /\ plug_job \in [PlugThread -> PlugJob] /\ \A t \in PlugThread : Asked(plug_job[t])

\* One interface of a thread, none of one that is about to open the port; and if
\* there are several somebody is still to look at them, or to drop all but one.
Single(s) == \A i, j \in s : i = j
Left(t) == {i \in ifaces : \A d \in plug_job[t].drop : d.by # i.by}
IfaceInv ==
  /\ PlugTyped
  /\ IsFiniteSet(ifaces)
  /\ \A i, j \in ifaces : i.by = j.by => i = j
  /\ \A t \in PlugThread : plug_job[t].pc = "open" => \A i \in ifaces : i.by # t
  /\ \/ Single(ifaces)
     \/ \E t \in PlugThread : \/ plug_job[t].pc = "dedupe"
                              \/ plug_job[t].pc = "drop" /\ Single(Left(t))

\* What a step of one thread leaves of the others.
LEMMA NewPlugJob ==
  ASSUME PlugTyped, NEW t \in PlugThread, NEW j \in PlugJob, plug_job' = [plug_job EXCEPT ![t] = j], Asked(j)
  PROVE  /\ plug_job' \in [PlugThread -> PlugJob] /\ plug_job'[t] = j
         /\ \A u \in PlugThread : Asked(plug_job'[u])
         /\ \A u \in PlugThread \ {t} : plug_job'[u] = plug_job[u]
  BY DEF PlugTyped


LEMMA PlugJobTyped ==
  ASSUME PlugTyped, NEW t \in PlugThread
  PROVE  /\ plug_job[t] \in PlugJob /\ Plug!Idle \in PlugJob /\ Plug!Idle.pc = "idle" /\ Plug!Idle.drop = {}
         /\ plug_job[t].made \in Plug!Maker \union {None} /\ t \in Plug!Maker
  BY DEF PlugTyped, PlugJob, Plug!Idle, Plug!Maker

\* The step of a thread that looks, waits or sets up the identity.
PlugThinks(t) ==
  /\ plug_job[t].pc \notin {"dedupe", "drop"}
  /\ ifaces' = ifaces
  /\ \E j \in PlugJob : plug_job' = [plug_job EXCEPT ![t] = j] /\ j.pc # "open" /\ Asked(j)

LEMMA StartsThinks ==
  ASSUME IfaceInv, NEW t \in PlugThread, Plug!Starts(t)
  PROVE  PlugThinks(t)
<1> DEFINE i == [plug_job[t] EXCEPT !.pc = "dedupe", !.ret = "idle"]
           k == [plug_job[t] EXCEPT !.pc = "ensure"]
<1>1. /\ i \in PlugJob /\ i.pc # "open" /\ k \in PlugJob /\ k.pc # "open" /\ Asked(i) /\ Asked(k)
  BY PlugJobTyped DEF IfaceInv, PlugJob, Asked
<1>2. plug_job' = [plug_job EXCEPT ![t] = i] \/ plug_job' = [plug_job EXCEPT ![t] = k]
  BY DEF IfaceInv, PlugTyped, Plug!Starts, Plug!Goes
<1>3. plug_job[t].pc \notin {"dedupe", "drop"} /\ ifaces' = ifaces
  BY DEF Plug!Starts
<1> HIDE DEF i, k
<1> QED
  BY <1>1, <1>2, <1>3 DEF PlugThinks

LEMMA ReturnsThinks ==
  ASSUME IfaceInv, NEW t \in PlugThread, NEW r \in {"none", "iface"}, Plug!Returns(t, r)
  PROVE  \E j \in PlugJob : plug_job' = [plug_job EXCEPT ![t] = j] /\ j.pc = "back"
<1> DEFINE i == [plug_job[t] EXCEPT !.pc = "back", !.ret = r]
<1>1. /\ i \in PlugJob /\ i.pc = "back"
  BY ZenonT(40), PlugJobTyped DEF IfaceInv, PlugJob
<1>2. plug_job' = [plug_job EXCEPT ![t] = i]
  BY DEF IfaceInv, PlugTyped, Plug!Returns
<1> HIDE DEF i
<1> QED
  BY <1>1, <1>2

LEMMA GoesThinks ==
  ASSUME IfaceInv, NEW t \in PlugThread, NEW p \in {"wait", "open", "dedupe"} \union Plug!IdentityPc,
         Plug!Goes(t, p)
  PROVE  \E j \in PlugJob : plug_job' = [plug_job EXCEPT ![t] = j] /\ j.pc = p
<1> DEFINE i == [plug_job[t] EXCEPT !.pc = p]
<1>1. /\ i \in PlugJob /\ i.pc = p
  BY PlugJobTyped DEF IfaceInv, PlugJob
<1>2. plug_job' = [plug_job EXCEPT ![t] = i]
  BY DEF Plug!Goes
<1> HIDE DEF i
<1> QED
  BY <1>1, <1>2

\* The two ways into dedupe_serial_interfaces.
LEMMA DedupesNext ==
  ASSUME IfaceInv, NEW t \in PlugThread, NEW r \in {"find", "notify"},
         plug_job' = [plug_job EXCEPT ![t].pc = "dedupe", ![t].ret = r]
  PROVE  \E j \in PlugJob : plug_job' = [plug_job EXCEPT ![t] = j] /\ j.pc = "dedupe" /\ j.ret = r
<1> DEFINE i == [plug_job[t] EXCEPT !.pc = "dedupe", !.ret = r]
<1>1. /\ i \in PlugJob /\ i.pc = "dedupe" /\ i.ret = r
  BY PlugJobTyped DEF IfaceInv, PlugJob
<1>2. plug_job' = [plug_job EXCEPT ![t] = i]
  BY DEF IfaceInv, PlugTyped
<1> HIDE DEF i
<1> QED
  BY <1>1, <1>2

LEMMA EndsThinks ==
  ASSUME IfaceInv, NEW t \in PlugThread, Plug!Ends(t)
  PROVE  \E j \in PlugJob : plug_job' = [plug_job EXCEPT ![t] = j] /\ j.pc \in {"back", "idle"}
<1> DEFINE i == [plug_job[t] EXCEPT !.pc = "back", !.ret = "iface", !.made = None, !.role = "none"]
<1>1. /\ i \in PlugJob /\ i.pc = "back"
  BY PlugJobTyped DEF IfaceInv, PlugJob
<1>2. plug_job' = [plug_job EXCEPT ![t] = i] \/ plug_job' = [plug_job EXCEPT ![t] = Plug!Idle]
  BY DEF IfaceInv, PlugTyped, Plug!Ends
<1> HIDE DEF i
<1> QED
  BY <1>1, <1>2, PlugJobTyped DEF IfaceInv

LEMMA SetsUpThinks ==
  ASSUME IfaceInv, NEW t \in PlugThread, NEW role \in {"mgr", "callback"}, Plug!SetsUp(t, "read", role)
  PROVE  \E j \in PlugJob : plug_job' = [plug_job EXCEPT ![t] = j] /\ j.pc = "read"
<1> DEFINE i == [plug_job[t] EXCEPT !.pc = "read", !.role = role]
<1>1. /\ i \in PlugJob /\ i.pc = "read"
  BY PlugJobTyped DEF IfaceInv, PlugJob, Plug!IdentityPc
<1>2. plug_job' = [plug_job EXCEPT ![t] = i]
  BY DEF IfaceInv, PlugTyped, Plug!SetsUp
<1> HIDE DEF i
<1> QED
  BY <1>1, <1>2

LEMMA IdentityThinks ==
  ASSUME IfaceInv, NEW t \in PlugThread,
         Plug!Reads(t) \/ Plug!Creates(t) \/ Plug!Saves(t) \/ Plug!Binds(t) \/ Plug!Checks(t) \/ Plug!Builds(t)
  PROVE  PlugThinks(t)
<1>1. plug_job[t].pc \notin {"dedupe", "drop"} /\ ifaces' = ifaces
  BY DEF Plug!Reads, Plug!Creates, Plug!Saves, Plug!Binds, Plug!Checks, Plug!Builds
<1>2. CASE Plug!Reads(t)
  <2> DEFINE i == [plug_job[t] EXCEPT !.made = plug_disk, !.pc = IF plug_disk = None THEN "create" ELSE "bind"]
  <2>1. plug_disk \in Plug!Maker \union {None} => i \in PlugJob /\ i.pc \notin {"open", "dedupe", "drop"}
    BY PlugJobTyped DEF IfaceInv, PlugJob, Plug!IdentityPc
  <2>2. plug_job' = [plug_job EXCEPT ![t] = i]
    BY <1>2 DEF IfaceInv, PlugTyped, Plug!Reads, Plug!Stored
  <2> HIDE DEF i
  <2> QED
    BY <1>1, <2>1, <2>2 DEF PlugThinks, Asked, IfaceInv, PlugTyped
<1>3. CASE Plug!Creates(t)
  <2> DEFINE i == [plug_job[t] EXCEPT !.made = t, !.pc = "save"]
  <2>1. i \in PlugJob /\ i.pc \notin {"open", "dedupe", "drop"}
    BY PlugJobTyped DEF IfaceInv, PlugJob, Plug!IdentityPc
  <2>2. plug_job' = [plug_job EXCEPT ![t] = i]
    BY <1>3 DEF IfaceInv, PlugTyped, Plug!Creates
  <2> HIDE DEF i
  <2> QED
    BY <1>1, <2>1, <2>2 DEF PlugThinks, Asked
<1>4. CASE Plug!Saves(t)
  BY <1>1, <1>4, GoesThinks DEF PlugThinks, Asked, Plug!Saves, Plug!IdentityPc
<1>5. CASE Plug!Binds(t)
  <2> DEFINE i == [plug_job[t] EXCEPT !.pc = "read", !.role = "own", !.made = None]
  <2>1. i \in PlugJob /\ i.pc \notin {"open", "dedupe", "drop"}
    BY PlugJobTyped DEF IfaceInv, PlugJob, Plug!IdentityPc
  <2>2. \/ plug_job' = [plug_job EXCEPT ![t] = i]
        \/ plug_job' = [plug_job EXCEPT ![t] = Plug!Idle]
        \/ Plug!Goes(t, "check")
    BY <1>5 DEF Plug!Binds
  <2> HIDE DEF i
  <2> QED
    BY <1>1, <2>1, <2>2, GoesThinks, PlugJobTyped DEF PlugThinks, Asked,
       Plug!IdentityPc, IfaceInv
<1>6. CASE Plug!Checks(t)
  BY <1>1, <1>6, GoesThinks, EndsThinks DEF PlugThinks, Asked, Plug!Checks,
     Plug!IdentityPc
<1>7. CASE Plug!Builds(t)
  BY <1>1, <1>7, EndsThinks DEF PlugThinks, Asked, Plug!Builds
<1> QED
  BY <1>2, <1>3, <1>4, <1>5, <1>6, <1>7

LEMMA OthersThink ==
  ASSUME IfaceInv, NEW t \in PlugThread,
         \/ Plug!Waited(t) \/ Plug!OpenFails(t) \/ Plug!Notifies(t) \/ Plug!GoesOn(t)
         \/ Plug!Looks(t) /\ plugged
         \/ Plug!Finds(t) /\ ifaces # {}
  PROVE  PlugThinks(t)
<1>1. plug_job[t].pc \notin {"dedupe", "drop"} /\ ifaces' = ifaces
  BY DEF Plug!Waited, Plug!OpenFails, Plug!Notifies, Plug!GoesOn, Plug!Looks,
     Plug!Finds
<1>2. CASE Plug!Waited(t)
  BY <1>1, <1>2, ReturnsThinks, DedupesNext DEF Plug!Waited, PlugThinks, Asked
<1>3. CASE Plug!OpenFails(t)
  BY <1>1, <1>3, ReturnsThinks DEF Plug!OpenFails, PlugThinks, Asked
<1>4. CASE Plug!Notifies(t)
  BY <1>1, <1>4, ReturnsThinks, SetsUpThinks DEF Plug!Notifies, PlugThinks, Asked
<1>5. CASE Plug!GoesOn(t)
  <2>1. Plug!SetsUp(t, "read", "mgr") \/ plug_job' = [plug_job EXCEPT ![t] = Plug!Idle]
    BY <1>5 DEF Plug!GoesOn
  <2> QED
    BY <1>1, <2>1, SetsUpThinks, PlugJobTyped DEF PlugThinks, Asked, IfaceInv
<1>6. CASE Plug!Looks(t) /\ plugged
  BY <1>1, <1>6, ReturnsThinks, GoesThinks, DedupesNext DEF Plug!Looks,
     PlugThinks, Asked
<1>7. CASE Plug!Finds(t) /\ ifaces # {}
  BY <1>1, <1>7, ReturnsThinks DEF Plug!Finds, PlugThinks, Asked
<1> QED
  BY <1>2, <1>3, <1>4, <1>5, <1>6, <1>7

\* What is left of the interfaces, once a thread has only to drop the rest, is
\* what is left of fewer of them.
LEMMA FewerLeft ==
  ASSUME IfaceInv, ifaces' \subseteq Plug!Iface, plug_disk' \in Plug!Maker \union {None},
         IsFiniteSet(ifaces'), \A i, j \in ifaces' : i.by = j.by => i = j,
         \A i \in ifaces' : \E j \in ifaces : i.by = j.by,
         plug_job' = plug_job
  PROVE  IfaceInv'
<1>1. \A t \in PlugThread : plug_job[t].pc = "open" => \A i \in ifaces' : i.by # t
  BY DEF IfaceInv
<1>2. CASE Single(ifaces)
  BY <1>1, <1>2 DEF IfaceInv, PlugTyped, Single
<1>3. ASSUME NEW t \in PlugThread, plug_job[t].pc = "drop", Single(Left(t)) PROVE Single(Left(t)')
  BY <1>3 DEF Single, Left
<1> QED
  BY <1>1, <1>2, <1>3 DEF IfaceInv, PlugTyped

LEMMA ThinksFollows ==
  ASSUME IfaceInv, NEW t \in PlugThread, PlugThinks(t), plug_disk' \in Plug!Maker \union {None}
  PROVE  IfaceInv'
<1>1. PICK j \in PlugJob : plug_job' = [plug_job EXCEPT ![t] = j] /\ j.pc # "open" /\ Asked(j)
  BY DEF PlugThinks
<1>2. /\ plug_job' \in [PlugThread -> PlugJob] /\ plug_job'[t] = j /\ \A u \in PlugThread : Asked(plug_job'[u])
      /\ \A u \in PlugThread \ {t} : plug_job'[u] = plug_job[u]
  BY <1>1, NewPlugJob DEF IfaceInv
<1>3. \A u \in PlugThread \ {t} : Left(u)' = Left(u)
  BY <1>2 DEF PlugThinks, Left
<1> QED
  BY <1>1, <1>2, <1>3 DEF IfaceInv, PlugTyped, PlugThinks, Single

LEMMA LooksFollows ==
  ASSUME IfaceInv, NEW t \in PlugThread, Plug!Looks(t), ~plugged
  PROVE  IfaceInv'
<1>1. ifaces' = {} /\ plug_disk' = plug_disk /\ Plug!Returns(t, "none")
  BY DEF Plug!Looks, Plug!Identity
<1>2. PICK j \in PlugJob : plug_job' = [plug_job EXCEPT ![t] = j] /\ j.pc = "back"
  BY <1>1, ReturnsThinks
<1>3. plug_job' \in [PlugThread -> PlugJob] /\ \A u \in PlugThread : Asked(plug_job'[u])
  BY <1>2, NewPlugJob DEF IfaceInv, Asked
<1>4. IsFiniteSet({})
  BY FS_EmptySet
<1> QED
  BY <1>1, <1>3, <1>4 DEF IfaceInv, PlugTyped, Single

LEMMA FindsFollows ==
  ASSUME IfaceInv, NEW t \in PlugThread, Plug!Finds(t), ifaces = {}
  PROVE  IfaceInv'
<1>1. ifaces' = {} /\ plug_disk' = plug_disk /\ Plug!Goes(t, "open")
  BY DEF Plug!Finds, Plug!Identity
<1>2. PICK j \in PlugJob : plug_job' = [plug_job EXCEPT ![t] = j] /\ j.pc = "open"
  BY <1>1, GoesThinks
<1>3. plug_job' \in [PlugThread -> PlugJob] /\ \A u \in PlugThread : Asked(plug_job'[u])
  BY <1>2, NewPlugJob DEF IfaceInv, Asked
<1>4. IsFiniteSet({})
  BY FS_EmptySet
<1> QED
  BY <1>1, <1>3, <1>4 DEF IfaceInv, PlugTyped, Single

\* dedupe_serial_interfaces keeps one.
LEMMA DedupesFollows ==
  ASSUME IfaceInv, NEW t \in PlugThread, Plug!Dedupes(t)
  PROVE  IfaceInv'
<1>1. PICK drop \in SUBSET ifaces :
        /\ ifaces # {} => Cardinality(drop) = Cardinality(ifaces) - 1
        /\ plug_job' = [plug_job EXCEPT ![t].pc = "drop", ![t].drop = drop]
  BY PlugCounts DEF Plug!Dedupes
<1>2. plug_job[t].pc = "dedupe" /\ ifaces' = ifaces /\ plug_disk' = plug_disk
  BY DEF Plug!Dedupes, Plug!Identity
<1>3. PICK j \in PlugJob : plug_job' = [plug_job EXCEPT ![t] = j] /\ j.pc = "drop" /\ j.drop = drop /\ Asked(j)
  <2> DEFINE i == [plug_job[t] EXCEPT !.pc = "drop", !.drop = drop]
  <2>1. i \in PlugJob /\ i.pc = "drop" /\ i.drop = drop /\ Asked(i)
    BY <1>2, PlugJobTyped DEF IfaceInv, PlugJob, PlugTyped, Asked
  <2>2. plug_job' = [plug_job EXCEPT ![t] = i]
    BY <1>1 DEF IfaceInv, PlugTyped
  <2> HIDE DEF i
  <2> QED
    BY <2>1, <2>2
<1>4. /\ plug_job' \in [PlugThread -> PlugJob] /\ plug_job'[t] = j /\ \A u \in PlugThread : Asked(plug_job'[u])
      /\ \A u \in PlugThread \ {t} : plug_job'[u] = plug_job[u]
  BY <1>3, NewPlugJob DEF IfaceInv
<1>5. Single(ifaces \ drop)
  <2>1. CASE ifaces = {}
    BY <2>1 DEF Single
  <2>2. CASE ifaces # {}
    <3>1. IsFiniteSet(ifaces) /\ IsFiniteSet(drop) /\ IsFiniteSet(ifaces \ drop)
      BY FS_Subset DEF IfaceInv
    <3>2. Cardinality(ifaces \ drop) = Cardinality(ifaces) - Cardinality(ifaces \intersect drop)
      BY <3>1, FS_Difference
    <3>3. ifaces \intersect drop = drop
      OBVIOUS
    <3>4. Cardinality(ifaces) \in Nat /\ Cardinality(drop) \in Nat
      BY <3>1, FS_CardinalityType
    <3>5. Cardinality(ifaces \ drop) = 1
      <4>1. Cardinality(ifaces \ drop) = Cardinality(ifaces) - Cardinality(drop)
        BY <3>2, <3>3
      <4>2. Cardinality(drop) = Cardinality(ifaces) - 1
        BY <1>1, <2>2
      <4> QED
        BY <3>4, <4>1, <4>2
    <3>6. \E x : ifaces \ drop = {x}
      BY <3>1, <3>5, FS_Singleton
    <3> QED
      BY <3>6 DEF Single
  <2> QED
    BY <2>1, <2>2
<1>6. Single(Left(t)')
  <2>1. Left(t)' \subseteq ifaces \ drop
    BY <1>2, <1>3, <1>4 DEF Left
  <2> QED
    BY <1>5, <2>1 DEF Single
<1>7. \A u \in PlugThread : plug_job'[u].pc = "open" => plug_job[u].pc = "open"
  BY <1>3, <1>4
<1>8. plug_job'[t].pc = "drop"
  BY <1>3, <1>4
<1> QED
  BY <1>2, <1>4, <1>6, <1>7, <1>8 DEF IfaceInv, PlugTyped

LEMMA DropsFollows ==
  ASSUME IfaceInv, NEW t \in PlugThread, Plug!Drops(t)
  PROVE  IfaceInv'
<1>1. /\ plug_job[t].pc = "drop" /\ ifaces' = Left(t) /\ plug_disk' = plug_disk
      /\ plug_job' = [plug_job EXCEPT ![t].pc = IF plug_job[t].ret = "idle" THEN "ensure" ELSE plug_job[t].ret,
                                      ![t].drop = {}, ![t].ret = "none"]
  BY DEF Plug!Drops, Plug!Identity, Left
<1>2. PICK j \in PlugJob : plug_job' = [plug_job EXCEPT ![t] = j] /\ j.pc # "open" /\ Asked(j)
  <2> DEFINE i == [plug_job[t] EXCEPT !.pc = IF plug_job[t].ret = "idle" THEN "ensure" ELSE plug_job[t].ret,
                                      !.drop = {}, !.ret = "none"]
  <2>1. i \in PlugJob /\ i.pc # "open" /\ Asked(i)
    BY <1>1, PlugJobTyped DEF IfaceInv, PlugJob, PlugTyped, Asked
  <2>2. plug_job' = [plug_job EXCEPT ![t] = i]
    BY <1>1 DEF IfaceInv, PlugTyped
  <2> HIDE DEF i
  <2> QED
    BY <2>1, <2>2
<1>3. /\ plug_job' \in [PlugThread -> PlugJob] /\ plug_job'[t] = j /\ \A u \in PlugThread : Asked(plug_job'[u])
      /\ \A u \in PlugThread \ {t} : plug_job'[u] = plug_job[u]
  BY <1>2, NewPlugJob DEF IfaceInv
<1>4. Left(t) \subseteq ifaces /\ IsFiniteSet(ifaces')
  <2>1. Left(t) \subseteq ifaces
    BY DEF Left
  <2> QED
    BY <1>1, <2>1, FS_Subset DEF IfaceInv
<1>5. ASSUME NEW u \in PlugThread \ {t}, Single(Left(u)) PROVE Single(Left(u)')
  BY <1>1, <1>3, <1>4, <1>5 DEF Single, Left
<1>6. \/ Single(ifaces')
      \/ \E u \in PlugThread : \/ plug_job'[u].pc = "dedupe"
                               \/ plug_job'[u].pc = "drop" /\ Single(Left(u)')
  BY <1>1, <1>3, <1>4, <1>5 DEF IfaceInv, Single
<1>7. \A u \in PlugThread : plug_job'[u].pc = "open" => \A i \in ifaces' : i.by # u
  BY <1>1, <1>2, <1>3, <1>4 DEF IfaceInv
<1> QED
  BY <1>1, <1>3, <1>4, <1>6, <1>7 DEF IfaceInv, PlugTyped

\* A thread that opened the port is to look at the interfaces again.
LEMMA OpensLooksAgain ==
  ASSUME IfaceInv, NEW t \in PlugThread, Plug!Opens(t)
  PROVE  IfaceInv'
<1> DEFINE new == [by |-> t, ready |-> TRUE]
<1>1. /\ plug_job[t].pc = "open" /\ ifaces' = ifaces \union {new} /\ plug_disk' = plug_disk
      /\ plug_job' = [plug_job EXCEPT ![t].pc = "dedupe", ![t].ret = "notify"]
  BY DEF Plug!Opens, Plug!Opened, Plug!Identity
<1>2. PICK j \in PlugJob : plug_job' = [plug_job EXCEPT ![t] = j] /\ j.pc = "dedupe" /\ Asked(j)
  BY <1>1, DedupesNext DEF Asked
<1>3. /\ plug_job' \in [PlugThread -> PlugJob] /\ plug_job'[t] = j /\ \A u \in PlugThread : Asked(plug_job'[u])
      /\ \A u \in PlugThread \ {t} : plug_job'[u] = plug_job[u]
  BY <1>2, NewPlugJob DEF IfaceInv
<1>4. new \in Plug!Iface /\ new.by = t
  BY DEF Plug!Iface, Plug!Maker
<1> HIDE DEF new
<1>5. IsFiniteSet(ifaces')
  BY <1>1, FS_AddElement DEF IfaceInv
<1>6. \A i, k \in ifaces' : i.by = k.by => i = k
  BY <1>1, <1>4 DEF IfaceInv
<1>7. \A u \in PlugThread : plug_job'[u].pc = "open" => \A i \in ifaces' : i.by # u
  BY <1>1, <1>2, <1>3, <1>4 DEF IfaceInv
<1> QED
  BY <1>1, <1>2, <1>3, <1>4, <1>5, <1>6, <1>7 DEF IfaceInv, PlugTyped

\* The port comes and goes, RNS opens it again, the watchdog and the failover
\* loop take interfaces away.
LEMMA PortFollows ==
  ASSUME IfaceInv, Plug!Detaches \/ Plug!Prunes \/ Plug!PlugChanges \/ Plug!Reopens
  PROVE  IfaceInv'
<1>1. plug_job' = plug_job /\ plug_disk' = plug_disk
  BY DEF Plug!Detaches, Plug!Prunes, Plug!PlugChanges, Plug!Reopens, Plug!Identity
<1>2. plug_disk' \in Plug!Maker \union {None} /\ ifaces \subseteq Plug!Iface /\ IsFiniteSet(ifaces)
  BY <1>1 DEF IfaceInv, PlugTyped
<1>3. CASE ifaces' = {}
  BY <1>1, <1>2, <1>3, FS_EmptySet, FewerLeft
<1>4. CASE ifaces' = ifaces
  BY <1>1, <1>2, <1>4, FewerLeft DEF IfaceInv
<1>5. CASE ifaces' = {[i EXCEPT !.ready = FALSE] : i \in ifaces}
  <2>1. ifaces' \subseteq Plug!Iface /\ \A i \in ifaces' : \E k \in ifaces : i.by = k.by /\ i = [k EXCEPT !.ready = FALSE]
    BY <1>2, <1>5 DEF Plug!Iface
  <2>2. ASSUME NEW i \in ifaces', NEW k \in ifaces', i.by = k.by PROVE i = k
    <3>1. PICK x \in ifaces : i.by = x.by /\ i = [x EXCEPT !.ready = FALSE]
      BY <2>1
    <3>2. PICK y \in ifaces : k.by = y.by /\ k = [y EXCEPT !.ready = FALSE]
      BY <2>1
    <3>3. x = y
      BY <2>2, <3>1, <3>2 DEF IfaceInv
    <3> QED
      BY <3>1, <3>2, <3>3
  <2>3. IsFiniteSet(ifaces')
    <3> DEFINE broken == [i \in ifaces |-> [i EXCEPT !.ready = FALSE]]
    <3>1. broken \in Surjection(ifaces, ifaces')
      BY <1>5 DEF Surjection
    <3> QED
      BY <1>2, <3>1, FS_Surjection
  <2> QED
    BY <1>1, <1>2, <2>1, <2>2, <2>3, FewerLeft
<1>6. ASSUME NEW i \in ifaces, ifaces' = (ifaces \ {i}) \union {[i EXCEPT !.ready = TRUE]}
      PROVE  IfaceInv'
  <2>1. [i EXCEPT !.ready = TRUE] \in Plug!Iface /\ [i EXCEPT !.ready = TRUE].by = i.by
    BY <1>2 DEF Plug!Iface
  <2>2. IsFiniteSet(ifaces \ {i}) /\ IsFiniteSet(ifaces')
    <3>1. IsFiniteSet(ifaces \ {i})
      BY <1>2, FS_Subset
    <3> QED
      BY <1>6, <3>1, FS_AddElement
  <2>3. \A k \in ifaces' : k \in Plug!Iface /\ \E l \in ifaces : k.by = l.by
    BY <1>2, <1>6, <2>1
  <2>4. \A k, l \in ifaces' : k.by = l.by => k = l
    BY <1>6, <2>1 DEF IfaceInv
  <2> QED
    BY <1>1, <1>2, <2>2, <2>3, <2>4, FewerLeft
<1> QED
  BY <1>3, <1>4, <1>5, <1>6 DEF Plug!Detaches, Plug!Prunes, Plug!PlugChanges,
     Plug!Reopens

LEMMA IfaceStart == Plug!Init => IfaceInv
<1> SUFFICES ASSUME Plug!Init PROVE IfaceInv
  OBVIOUS
<1>1. /\ plug_job = [t \in PlugThread |-> Plug!Idle]
      /\ \/ ifaces = {[by |-> "boot", ready |-> TRUE]} /\ plug_disk = "boot"
         \/ ifaces = {} /\ plug_disk = None
  BY DEF Plug!Init
<1>2. \A t \in PlugThread : plug_job[t] \in PlugJob /\ plug_job[t].pc = "idle"
  BY <1>1 DEF Plug!Idle, PlugJob
<1>3. [by |-> "boot", ready |-> TRUE] \in Plug!Iface /\ "boot" \in Plug!Maker
  BY DEF Plug!Iface, Plug!Maker
<1>4. PlugTyped
  <2>1. ifaces \subseteq Plug!Iface /\ plug_disk \in Plug!Maker \union {None}
    BY <1>1, <1>3
  <2>2. plug_job \in [PlugThread -> PlugJob]
    BY <1>1, <1>2
  <2> QED
    BY <1>2, <2>1, <2>2 DEF PlugTyped, Asked
<1>5. IsFiniteSet(ifaces)
  <2>1. \A x : IsFiniteSet({x})
    BY FS_Singleton
  <2> QED
    BY <1>1, <2>1, FS_EmptySet
<1> QED
  BY <1>1, <1>2, <1>4, <1>5 DEF IfaceInv, Single

LEMMA IfaceStep == IfaceInv /\ [Plug!Next]_(Plug!vars) => IfaceInv'
<1> SUFFICES ASSUME IfaceInv, [Plug!Next]_(Plug!vars) PROVE IfaceInv'
  OBVIOUS
<1>1. ASSUME NEW t \in PlugThread,
             \/ Plug!Starts(t) \/ Plug!Waited(t) \/ Plug!OpenFails(t) \/ Plug!Notifies(t) \/ Plug!GoesOn(t)
             \/ Plug!Looks(t) /\ plugged
             \/ Plug!Finds(t) /\ ifaces # {}
             \/ Plug!Reads(t) \/ Plug!Creates(t) \/ Plug!Saves(t) \/ Plug!Binds(t) \/ Plug!Checks(t) \/ Plug!Builds(t)
      PROVE  IfaceInv'
  <2>1. PlugThinks(t)
    BY <1>1, StartsThinks, OthersThink, IdentityThinks
  <2>2. plug_disk' \in Plug!Maker \union {None}
    <3>1. plug_disk' = plug_disk \/ plug_disk' = plug_job[t].made
      BY <1>1 DEF Plug!Starts, Plug!Waited, Plug!OpenFails, Plug!Notifies,
         Plug!GoesOn, Plug!Looks, Plug!Finds,
         Plug!Reads, Plug!Creates, Plug!Saves, Plug!Binds, Plug!Checks, Plug!Builds, Plug!Identity
    <3> QED
      BY <3>1, PlugJobTyped DEF IfaceInv, PlugTyped
  <2> QED
    BY <2>1, <2>2, ThinksFollows
<1>2. ASSUME NEW t \in PlugThread,
             \/ Plug!Looks(t) /\ ~plugged
             \/ Plug!Finds(t) /\ ifaces = {}
             \/ Plug!Dedupes(t) \/ Plug!Drops(t) \/ Plug!Opens(t)
      PROVE  IfaceInv'
  BY <1>2, LooksFollows, FindsFollows, DedupesFollows, DropsFollows, OpensLooksAgain
<1>3. CASE Plug!Detaches \/ Plug!Prunes \/ Plug!PlugChanges \/ Plug!Reopens
  BY <1>3, PortFollows
<1>4. CASE UNCHANGED Plug!vars
  <2>1. ifaces' = ifaces /\ plug_job' = plug_job /\ plug_disk' = plug_disk
    BY <1>4 DEF Plug!vars
  <2> QED
    BY <2>1, FewerLeft DEF IfaceInv, PlugTyped
<1> QED
  BY <1>1, <1>2, <1>3, <1>4 DEF Plug!Next

\* One RNS interface for the USB port (ensure_runtime_serial in serial_interface.py,
\* which the watchdog, the failover loop and the handlers run in threads of their
\* own): however many of them open the port at once, when all are through with
\* it at most one is left, since each that opened it looks at the list again.
THEOREM OneInterfaceLeft == Spec => []OneInterface
<1>1. ASSUME IfaceInv, \A t \in PlugThread : plug_job[t].pc \in {"idle", "back"} \union Plug!IdentityPc
      PROVE  Plug!Cardinality(ifaces) <= 1
  <2>1. Single(ifaces)
    BY <1>1 DEF IfaceInv, Plug!IdentityPc
  <2>2. CASE ifaces = {}
    BY <2>2, PlugCounts, FS_EmptySet
  <2>3. ASSUME NEW i \in ifaces PROVE Plug!Cardinality(ifaces) <= 1
    <3>1. ifaces = {i}
      BY <2>1 DEF Single
    <3>2. Cardinality(ifaces) = 1
      BY <3>1, FS_Singleton
    <3> QED
      BY <3>2, PlugCounts
  <2> QED
    BY <2>2, <2>3
<1>2. IfaceInv => OneInterface
  BY <1>1 DEF OneInterface, Plug!OneInterface
<1>3. Init => IfaceInv
  BY IfaceStart DEF Init
<1>4. IfaceInv /\ [Next]_vars => IfaceInv'
  BY PlugSteps, IfaceStep
<1> QED
  BY <1>2, <1>3, <1>4, PTL DEF Spec

-----------------------------------------------------------------------------
(* The identity of the USB endpoint                                            *)

\* One thread at a time, while none crossed another, takes the identity from the
\* file, or makes it and saves it first, and then builds what is not there yet.
SettingUp(t) == plug_job[t].pc \in Plug!IdentityPc
Alone ==
  /\ \A t, u \in PlugThread : SettingUp(t) /\ SettingUp(u) => t = u
  /\ ~dead
  /\ IF plug_endpoint = None THEN known = {} ELSE plug_endpoint = plug_disk
  /\ \A t \in PlugThread :
       /\ plug_job[t].pc \in {"create", "save"} => plug_disk = None
       /\ plug_job[t].pc = "save" => plug_job[t].made = t
       /\ plug_job[t].pc \in {"bind", "check", "build"} => plug_disk # None /\ plug_job[t].made = plug_disk
       /\ plug_job[t].pc \in {"check", "build"} => ident = plug_disk
       /\ plug_job[t].pc = "build" => plug_endpoint = None
SetUpInv == PlugTyped /\ (~crossed => Alone)

\* A step of a thread that goes nowhere near the identity.
LEMMA AwayFollows ==
  ASSUME PlugTyped, PlugTyped', SetUpInv, UNCHANGED <<plug_disk, ident, plug_endpoint, known>>,
         dead' = dead \/ crossed', crossed => crossed', 
         \A t \in PlugThread : plug_job'[t] = plug_job[t] \/ ~SettingUp(t)'
  PROVE  SetUpInv'
  BY DEF SetUpInv, Alone, SettingUp, Plug!IdentityPc

\* What becomes of the job of a thread that is through, that returns, or that goes on.
LEMMA JobAfter ==
  ASSUME PlugTyped, NEW t \in PlugThread
  PROVE  /\ \A r : Plug!Returns(t, r) => /\ plug_job'[t].pc = "back"
                                        /\ \A u \in PlugThread \ {t} : plug_job'[u] = plug_job[u]
         /\ \A p : Plug!Goes(t, p) => /\ plug_job'[t].pc = p /\ plug_job'[t].made = plug_job[t].made
                                     /\ \A u \in PlugThread \ {t} : plug_job'[u] = plug_job[u]
         /\ Plug!Ends(t) => /\ plug_job'[t].pc \in {"idle", "back"}
                            /\ \A u \in PlugThread \ {t} : plug_job'[u] = plug_job[u]
         /\ plug_job' = [plug_job EXCEPT ![t] = Plug!Idle] =>
              /\ plug_job'[t].pc = "idle" /\ \A u \in PlugThread \ {t} : plug_job'[u] = plug_job[u]
<1>1. ASSUME NEW r, Plug!Returns(t, r)
      PROVE  plug_job'[t].pc = "back" /\ \A u \in PlugThread \ {t} : plug_job'[u] = plug_job[u]
  BY <1>1 DEF Plug!Returns, PlugTyped
<1>2. ASSUME NEW p, Plug!Goes(t, p)
      PROVE  /\ plug_job'[t].pc = p /\ plug_job'[t].made = plug_job[t].made
             /\ \A u \in PlugThread \ {t} : plug_job'[u] = plug_job[u]
  <2>1. plug_job[t] \in PlugJob
    BY DEF PlugTyped
  <2> QED
    BY <1>2, <2>1 DEF Plug!Goes, PlugTyped, PlugJob
<1>3. ASSUME plug_job' = [plug_job EXCEPT ![t] = Plug!Idle]
      PROVE  plug_job'[t].pc = "idle" /\ \A u \in PlugThread \ {t} : plug_job'[u] = plug_job[u]
  BY <1>3 DEF Plug!Idle, PlugTyped
<1>4. ASSUME Plug!Ends(t)
      PROVE  plug_job'[t].pc \in {"idle", "back"} /\ \A u \in PlugThread \ {t} : plug_job'[u] = plug_job[u]
  <2>1. CASE plug_job[t].role = "callback"
    BY <1>4, <2>1, PlugJobTyped DEF Plug!Ends, PlugTyped, PlugJob
  <2>2. CASE plug_job[t].role # "callback"
    BY <1>3, <1>4, <2>2 DEF Plug!Ends
  <2> QED
    BY <2>1, <2>2
<1> QED
  BY <1>1, <1>2, <1>3, <1>4

LEMMA ReadsFollows ==
  ASSUME SetUpInv, PlugTyped', NEW t \in PlugThread, Plug!Reads(t)
  PROVE  SetUpInv'
<1>1. /\ plug_job[t].pc = "read" /\ UNCHANGED <<plug_disk, ident, plug_endpoint, known, dead, crossed>>
      /\ plug_job'[t].made = plug_disk
      /\ plug_job'[t].pc = IF plug_disk = None THEN "create" ELSE "bind"
      /\ \A u \in PlugThread \ {t} : plug_job'[u] = plug_job[u]
  BY DEF Plug!Reads, Plug!Stored, Plug!Identity, Plug!Watch, SetUpInv, PlugTyped
<1>2. \A u \in PlugThread : SettingUp(u)' <=> SettingUp(u)
  BY <1>1 DEF SettingUp, Plug!IdentityPc
<1>3. ASSUME ~crossed' PROVE Alone'
  BY <1>1, <1>2, <1>3 DEF SetUpInv, Alone
<1> QED
  BY <1>3 DEF SetUpInv

LEMMA CreatesFollows ==
  ASSUME SetUpInv, PlugTyped', NEW t \in PlugThread, Plug!Creates(t)
  PROVE  SetUpInv'
<1>1. /\ plug_job[t].pc = "create" /\ UNCHANGED <<plug_disk, ident, plug_endpoint, known, dead, crossed>>
      /\ plug_job'[t].made = t /\ plug_job'[t].pc = "save"
      /\ \A u \in PlugThread \ {t} : plug_job'[u] = plug_job[u]
  BY DEF Plug!Creates, Plug!Identity, Plug!Watch, SetUpInv, PlugTyped
<1>2. \A u \in PlugThread : SettingUp(u)' <=> SettingUp(u)
  BY <1>1 DEF SettingUp, Plug!IdentityPc
<1>3. ASSUME ~crossed' PROVE Alone'
  BY <1>1, <1>2, <1>3 DEF SetUpInv, Alone
<1> QED
  BY <1>3 DEF SetUpInv

LEMMA SavesFollows ==
  ASSUME SetUpInv, PlugTyped', NEW t \in PlugThread, Plug!Saves(t)
  PROVE  SetUpInv'
<1>1. /\ plug_job[t].pc = "save" /\ UNCHANGED <<ident, plug_endpoint, known, dead, crossed>>
      /\ plug_disk' = plug_job[t].made
      /\ plug_job'[t].made = plug_job[t].made /\ plug_job'[t].pc = "bind"
      /\ \A u \in PlugThread \ {t} : plug_job'[u] = plug_job[u]
  BY DEF Plug!Saves, Plug!Goes, Plug!Watch, SetUpInv, PlugTyped
<1>2. \A u \in PlugThread : SettingUp(u)' <=> SettingUp(u)
  BY <1>1 DEF SettingUp, Plug!IdentityPc
<1>3. ASSUME ~crossed' PROVE Alone'
  <2>1. Alone /\ \A u \in PlugThread \ {t} : ~SettingUp(u)
    BY <1>1, <1>3 DEF SetUpInv, Alone, SettingUp, Plug!IdentityPc
  <2>2. plug_disk = None /\ plug_disk' = t /\ t # None
    BY <1>1, <2>1, ThreadAssumption DEF Alone
  <2>3. plug_endpoint = None /\ known = {} /\ ~dead
    BY <2>1, <2>2 DEF Alone
  <2>4. \A u \in PlugThread \ {t} : plug_job'[u].pc \notin Plug!IdentityPc
    BY <1>1, <2>1 DEF SettingUp
  <2> QED
    BY <1>1, <1>2, <2>1, <2>2, <2>3, <2>4 DEF Alone, Plug!IdentityPc
<1> QED
  BY <1>3 DEF SetUpInv

LEMMA BindsFollows ==
  ASSUME SetUpInv, PlugTyped', NEW t \in PlugThread, Plug!Binds(t)
  PROVE  SetUpInv'
<1>1. /\ plug_job[t].pc = "bind" /\ UNCHANGED <<plug_disk, plug_endpoint, known, dead, crossed>>
      /\ \/ plug_job'[t].pc \in {"idle", "read"} /\ ident' = ident
         \/ plug_job'[t].pc = "check" /\ plug_job'[t].made = plug_job[t].made /\ ident' = plug_job[t].made
      /\ \A u \in PlugThread \ {t} : plug_job'[u] = plug_job[u]
  <2>1. /\ plug_job[t].pc = "bind" /\ UNCHANGED <<plug_disk, plug_endpoint, known, dead, crossed>>
        /\ \/ plug_job' = [plug_job EXCEPT ![t] = Plug!Idle] /\ ident' = ident
           \/ plug_job' = [plug_job EXCEPT ![t] = [plug_job[t] EXCEPT !.pc = "read", !.role = "own", !.made = None]]
              /\ ident' = ident
           \/ ident' = plug_job[t].made /\ Plug!Goes(t, "check")
    BY DEF Plug!Binds, Plug!Watch
  <2>2. PlugTyped
    BY DEF SetUpInv
  <2>3. ASSUME plug_job' = [plug_job EXCEPT ![t] = [plug_job[t] EXCEPT !.pc = "read", !.role = "own", !.made = None]]
        PROVE  plug_job'[t].pc = "read" /\ \A u \in PlugThread \ {t} : plug_job'[u] = plug_job[u]
    BY <2>2, <2>3, PlugJobTyped DEF PlugTyped, PlugJob
  <2> QED
    BY <2>1, <2>2, <2>3, JobAfter
<1>2. ASSUME ~crossed' PROVE Alone'
  <2>1. Alone /\ \A u \in PlugThread \ {t} : ~SettingUp(u)
    BY <1>1, <1>2 DEF SetUpInv, Alone, SettingUp, Plug!IdentityPc
  <2>2. \A u \in PlugThread \ {t} : plug_job'[u].pc \notin Plug!IdentityPc
    BY <1>1, <2>1 DEF SettingUp
  <2> QED
    BY <1>1, <2>1, <2>2 DEF Alone, SettingUp, Plug!IdentityPc
<1> QED
  BY <1>2 DEF SetUpInv

LEMMA ChecksFollows ==
  ASSUME SetUpInv, PlugTyped', NEW t \in PlugThread, Plug!Checks(t)
  PROVE  SetUpInv'
<1>1. /\ plug_job[t].pc = "check" /\ UNCHANGED <<plug_disk, ident, plug_endpoint, known, dead, crossed>>
      /\ \/ plug_job'[t].pc \in {"idle", "back"}
         \/ plug_job'[t].pc = "build" /\ plug_job'[t].made = plug_job[t].made /\ plug_endpoint = None
      /\ \A u \in PlugThread \ {t} : plug_job'[u] = plug_job[u]
  <2>1. /\ plug_job[t].pc = "check" /\ UNCHANGED <<plug_disk, ident, plug_endpoint, known, dead, crossed>>
        /\ Plug!Ends(t) \/ (plug_endpoint = None /\ Plug!Goes(t, "build"))
    BY DEF Plug!Checks, Plug!Bound, Plug!Watch, Plug!Identity
  <2> QED
    BY <2>1, JobAfter DEF SetUpInv
<1>2. ASSUME ~crossed' PROVE Alone'
  <2>1. Alone /\ \A u \in PlugThread \ {t} : ~SettingUp(u)
    BY <1>1, <1>2 DEF SetUpInv, Alone, SettingUp, Plug!IdentityPc
  <2>2. \A u \in PlugThread \ {t} : plug_job'[u].pc \notin Plug!IdentityPc
    BY <1>1, <2>1 DEF SettingUp
  <2> QED
    BY <1>1, <2>1, <2>2 DEF Alone, SettingUp, Plug!IdentityPc
<1> QED
  BY <1>2 DEF SetUpInv

LEMMA BuildsFollows ==
  ASSUME SetUpInv, PlugTyped', NEW t \in PlugThread, Plug!Builds(t)
  PROVE  SetUpInv'
<1>1. /\ plug_job[t].pc = "build" /\ UNCHANGED <<plug_disk, ident, crossed>>
      /\ plug_job'[t].pc \in {"idle", "back"}
      /\ ident \notin known => plug_endpoint' = ident /\ dead' = dead
      /\ \A u \in PlugThread \ {t} : plug_job'[u] = plug_job[u]
  BY JobAfter DEF Plug!Builds, SetUpInv
<1>2. ASSUME ~crossed' PROVE Alone'
  <2>1. Alone /\ \A u \in PlugThread \ {t} : ~SettingUp(u)
    BY <1>1, <1>2 DEF SetUpInv, Alone, SettingUp, Plug!IdentityPc
  <2>2. \A u \in PlugThread : plug_job'[u].pc \notin Plug!IdentityPc
    BY <1>1, <2>1 DEF SettingUp, Plug!IdentityPc
  <2>3. known = {} /\ ident = plug_disk /\ plug_disk # None /\ ~dead
    BY <1>1, <2>1 DEF Alone
  <2> QED
    BY <1>1, <2>2, <2>3 DEF Alone, SettingUp, Plug!IdentityPc
<1> QED
  BY <1>2 DEF SetUpInv

\* Somebody begins: it is noted when somebody else is at it.
LEMMA BeginsFollows ==
  ASSUME SetUpInv, PlugTyped', NEW t \in PlugThread, Plug!Notifies(t) \/ Plug!GoesOn(t)
  PROVE  SetUpInv'
<1>1. /\ UNCHANGED <<plug_disk, ident, plug_endpoint, known, dead>>
      /\ plug_job[t].pc \in {"notify", "back"} /\ plug_job'[t].pc \in {"idle", "back", "read"}
      /\ crossed => crossed'
      /\ \A u \in PlugThread \ {t} : plug_job'[u] = plug_job[u]
      /\ plug_job'[t].pc = "read" /\ ~crossed' => \A u \in PlugThread \ {t} : ~SettingUp(u)
  <2>1. /\ UNCHANGED <<plug_disk, ident, plug_endpoint, known, dead>>
        /\ plug_job[t].pc \in {"notify", "back"}
        /\ \/ Plug!Returns(t, "iface") /\ crossed' = crossed
           \/ \E role : Plug!SetsUp(t, "read", role)
           \/ plug_job' = [plug_job EXCEPT ![t] = Plug!Idle] /\ crossed' = crossed
    BY DEF Plug!Notifies, Plug!GoesOn, Plug!Watch
  <2>2. ASSUME NEW role, Plug!SetsUp(t, "read", role)
        PROVE  /\ plug_job'[t].pc = "read" /\ (crossed => crossed')
               /\ \A u \in PlugThread \ {t} : plug_job'[u] = plug_job[u]
               /\ ~crossed' => \A u \in PlugThread \ {t} : ~SettingUp(u)
    <3>1. plug_job'[t].pc = "read" /\ \A u \in PlugThread \ {t} : plug_job'[u] = plug_job[u]
      BY <2>2, PlugJobTyped DEF Plug!SetsUp, SetUpInv, PlugTyped, PlugJob
    <3>2. (crossed => crossed') /\ (~crossed' => \A u \in PlugThread \ {t} : ~SettingUp(u))
      BY <2>2, Zenon DEF Plug!SetsUp, SettingUp
    <3> QED
      BY <3>1, <3>2
  <2>3. PlugTyped
    BY DEF SetUpInv
  <2> QED
    BY <2>1, <2>2, <2>3, JobAfter
<1>2. ASSUME ~crossed' PROVE Alone'
  <2>1. Alone
    BY <1>1, <1>2 DEF SetUpInv
  <2>2. \A u, v \in PlugThread : SettingUp(u)' /\ SettingUp(v)' => u = v
    <3>1. \A u \in PlugThread \ {t} : SettingUp(u)' <=> SettingUp(u)
      BY <1>1 DEF SettingUp
    <3>2. SettingUp(t)' => \A u \in PlugThread \ {t} : ~SettingUp(u)
      BY <1>1, <1>2 DEF SettingUp, Plug!IdentityPc
    <3> QED
      BY <2>1, <3>1, <3>2 DEF Alone
  <2> QED
    BY <1>1, <2>1, <2>2 DEF Alone
<1> QED
  BY <1>2 DEF SetUpInv

LEMMA SetUpStep == IfaceInv /\ IfaceInv' /\ SetUpInv /\ [Plug!Next]_(Plug!vars) => SetUpInv'
<1> SUFFICES ASSUME IfaceInv, IfaceInv', SetUpInv, [Plug!Next]_(Plug!vars) PROVE SetUpInv'
  OBVIOUS
<1>1. PlugTyped /\ PlugTyped'
  BY DEF IfaceInv
<1>2. ASSUME NEW t \in PlugThread,
             \/ Plug!Reads(t) \/ Plug!Creates(t) \/ Plug!Saves(t) \/ Plug!Binds(t) \/ Plug!Checks(t) \/ Plug!Builds(t)
             \/ Plug!Notifies(t) \/ Plug!GoesOn(t)
      PROVE  SetUpInv'
  BY <1>1, <1>2, ReadsFollows, CreatesFollows, SavesFollows, BindsFollows,
     ChecksFollows, BuildsFollows, BeginsFollows
<1>3. ASSUME NEW t \in PlugThread,
             \/ Plug!Starts(t) \/ Plug!Looks(t) \/ Plug!Waited(t) \/ Plug!OpenFails(t) \/ Plug!Finds(t)
             \/ Plug!Dedupes(t) \/ Plug!Opens(t)
      PROVE  SetUpInv'
  <2> DEFINE Went == /\ plug_job'[t].pc \in {"ensure", "dedupe", "wait", "back", "open", "drop"}
                     /\ \A u \in PlugThread \ {t} : plug_job'[u] = plug_job[u]
  <2>1. UNCHANGED <<plug_disk, ident, plug_endpoint, known, dead, crossed>>
    BY <1>3 DEF Plug!Starts, Plug!Looks, Plug!Waited, Plug!OpenFails, Plug!Finds,
       Plug!Dedupes, Plug!Opens,
       Plug!Identity, Plug!Watch
  <2>3. ASSUME NEW p, NEW r,
               \/ plug_job' = [plug_job EXCEPT ![t].pc = p, ![t].ret = r]
               \/ plug_job' = [plug_job EXCEPT ![t].pc = p, ![t].drop = r]
        PROVE  plug_job'[t].pc = p /\ \A u \in PlugThread \ {t} : plug_job'[u] = plug_job[u]
    BY <1>1, <2>3 DEF PlugTyped, PlugJob
  <2>4. ASSUME Plug!Starts(t) PROVE Went
    BY <1>1, <2>3, <2>4, JobAfter DEF Plug!Starts
  <2>5. ASSUME Plug!Looks(t) \/ Plug!Waited(t) PROVE Went
    BY SMTT(30), <1>1, <2>3, <2>5, JobAfter DEF Plug!Looks, Plug!Waited
  <2>6. ASSUME Plug!OpenFails(t) \/ Plug!Finds(t) PROVE Went
    BY <1>1, <2>6, JobAfter DEF Plug!OpenFails, Plug!Finds
  <2>7. ASSUME Plug!Dedupes(t) \/ Plug!Opens(t) PROVE Went
    BY <2>3, <2>7 DEF Plug!Dedupes, Plug!Opens, Plug!Opened
  <2>8. Went
    BY <1>3, <2>4, <2>5, <2>6, <2>7
  <2>2. \A u \in PlugThread : plug_job'[u] = plug_job[u] \/ ~SettingUp(u)'
    BY <2>8 DEF SettingUp, Plug!IdentityPc
  <2> QED
    BY <1>1, <2>1, <2>2, AwayFollows
<1>4. ASSUME NEW t \in PlugThread, Plug!Drops(t)
      PROVE  SetUpInv'
  <2>1. /\ UNCHANGED <<plug_disk, ident, plug_endpoint, known, dead, crossed>>
        /\ plug_job'[t].pc = IF plug_job[t].ret = "idle" THEN "ensure" ELSE plug_job[t].ret
        /\ \A u \in PlugThread \ {t} : plug_job'[u] = plug_job[u]
        /\ plug_job[t].pc = "drop"
    BY <1>1, <1>4 DEF Plug!Drops, Plug!Identity, Plug!Watch, PlugTyped
  <2>2. \A u \in PlugThread : plug_job'[u] = plug_job[u] \/ ~SettingUp(u)'
    BY <1>1, <2>1 DEF SettingUp, Plug!IdentityPc, PlugTyped, Asked
  <2> QED
    BY <1>1, <2>1, <2>2, AwayFollows
<1>5. CASE Plug!Detaches \/ Plug!Prunes \/ Plug!PlugChanges \/ Plug!Reopens \/ UNCHANGED Plug!vars
  <2>1. UNCHANGED <<plug_disk, ident, plug_endpoint, known, dead, crossed, plug_job>>
    BY <1>5 DEF Plug!Detaches, Plug!Prunes, Plug!PlugChanges, Plug!Reopens,
       Plug!vars, Plug!Identity, Plug!Watch
  <2> QED
    BY <1>1, <2>1, AwayFollows
<1> QED
  BY <1>2, <1>3, <1>4, <1>5 DEF Plug!Next

\* The USB endpoint (identity_manager.py, ensure_serial_runtime): whatever the
\* watchdog, the callback of a hot add and the handlers do, and however often the
\* port comes and goes, the endpoint peers learn has the identity that is on disk
\* and the watchdog lives, unless two threads set the identity up at once.
THEOREM EndpointIsStored == Spec => []SetUpNeedsOneThread
<1>1. Init => IfaceInv /\ SetUpInv
  <2>1. ASSUME Plug!Init PROVE SetUpInv
    <3>1. /\ plug_job = [t \in PlugThread |-> Plug!Idle] /\ ~crossed /\ ~dead
          /\ IF plug_endpoint = None THEN known = {} ELSE plug_endpoint = plug_disk
      BY <2>1, ThreadAssumption DEF Plug!Init
    <3>2. \A t \in PlugThread : plug_job[t].pc = "idle"
      BY <3>1 DEF Plug!Idle
    <3>3. PlugTyped
      BY <2>1, IfaceStart DEF IfaceInv
    <3> QED
      BY <3>1, <3>2, <3>3 DEF SetUpInv, Alone, SettingUp, Plug!IdentityPc
  <2> QED
    BY <2>1, IfaceStart DEF Init
<1>2. IfaceInv /\ SetUpInv /\ [Next]_vars => (IfaceInv /\ SetUpInv)'
  BY PlugSteps, IfaceStep, SetUpStep
<1>3. SetUpInv => SetUpNeedsOneThread
  BY DEF SetUpInv, Alone, SetUpNeedsOneThread, Plug!SetUpNeedsOneThread,
     Plug!EndpointStored, Plug!WatchLives
<1> QED
  BY <1>1, <1>2, <1>3, PTL DEF Spec

-----------------------------------------------------------------------------
(* The table of discovered peers (Discovery)                                   *)

\* A step of the node is a step of the table, or leaves it alone.
LEMMA PeersSteps == [Next]_vars => [Peers!Next]_(Peers!vars)
  BY DEF Next, vars, HistoryMoves, PeersMoves, BookMoves, RadioMoves, ConfigMoves,
     ResumeMoves,
     PlugMoves, PeersVars, Peers!vars

\* What the table holds, and what its threads are in the middle of.
Storage == PeersHash \X {"lan", "serial", "link"}
RowSet == {r \in Peers!Stored : r.via = "serial" => r.ip = None}
Stages == {"idle", "check", "drop", "insert", "merge", "index"}
Work == [pc : Stages, todo : SUBSET Storage, popped : RowSet \union {None},
         tell : {"no", "each", "refused", "successor"}, row : RowSet \union {None},
         rest : Seq(RowSet), removed : SUBSET PeersHash, late : BOOLEAN]
Shape(w) ==
  /\ w.todo # {} \/ w.popped # None => w.pc = "drop"
  /\ w.pc \in {"check", "insert", "merge", "index"} => w.row # None
  /\ w.pc = "drop" /\ w.tell = "successor" => w.row # None
  /\ w.pc \in {"insert", "merge"} => w.tell = "successor"
TableTyped ==
  /\ peers \in [Storage -> RowSet \union {None}]
  /\ \A k \in Storage : peers[k] # None => Peers!KeyOf(peers[k]) = k
  /\ PeersHash \subseteq DOMAIN index
  /\ clock \in Nat /\ peers_spent \in [hears : Nat, changes : Nat]
  /\ peers_thread \in [Peers!Thread -> Work]
  /\ \A t \in Peers!Thread : Shape(peers_thread[t])

\* A row is in the index, or will be.
Indexing(k) == \E t \in Peers!Thread : peers_thread[t].pc = "index" /\ Peers!KeyOf(peers_thread[t].row) = k
RowsFound == \A k \in Peers!Rows : k \in index[k[1]] \union overlap \/ Indexing(k)
\* A row that was taken stays away, and one that a thread merges into is there.
RowsGone ==
  \A t \in Peers!Thread : LET r == peers_thread[t].popped IN
    r # None /\ Peers!KeyOf(r) \in Peers!Rows => Peers!KeyOf(r) \in overlap
RowsMerged ==
  \A t \in Peers!Thread : peers_thread[t].pc = "merge" /\ ~peers_thread[t].late
    => Peers!KeyOf(peers_thread[t].row) \in Peers!Rows

\* Threads that have looked for superseded rows and not yet put their own.
Ahead(t) == peers_thread[t].pc \in {"drop", "insert", "merge"} /\ peers_thread[t].tell = "successor"
CrowdKnown ==
  \A t, u \in Peers!Thread : t # u /\ Ahead(t) /\ Ahead(u) => Peers!KeyOf(peers_thread[t].row) \in overlap
\* The rows with the address of the row of thread t are on its list.
Cleared(t) ==
  LET r == peers_thread[t].row IN
  Ahead(t) /\ r.ip # None =>
    \A j \in Peers!Rows : j[1] # r.hash /\ peers[j].ip = r.ip
      => j \in peers_thread[t].todo \/ (j \in overlap /\ Peers!KeyOf(r) \in overlap)
AddressesCleared == \A t \in Peers!Thread : Cleared(t)
OneHash ==
  \A j, k \in Peers!Rows :
    j[1] # k[1] /\ peers[j].ip # None /\ peers[j].ip = peers[k].ip => j \in overlap /\ k \in overlap

TableInv == /\ TableTyped /\ RowsFound /\ RowsGone /\ RowsMerged
            /\ CrowdKnown /\ AddressesCleared /\ OneHash

-----------------------------------------------------------------------------
\* The set of keys is the one of the table.
LEMMA KeysAre == Peers!Key = Storage
  BY DEF Peers!Key, Storage

LEMMA RowFacts ==
  ASSUME NEW r \in RowSet
  PROVE  /\ r # None /\ r.hash \in PeersHash /\ Peers!KeyOf(r) \in Storage
         /\ Peers!KeyOf(r)[1] = r.hash /\ Peers!KeyOf(r)[2] = r.via
         /\ r.via = "serial" => r.ip = None
         /\ r.seen \in Nat
  BY AdvertAssumption DEF RowSet, Peers!Stored, Peers!KeyOf, Storage

LEMMA IdleFacts ==
  /\ Peers!Idle \in Work /\ Shape(Peers!Idle)
  /\ Peers!Idle.pc = "idle" /\ Peers!Idle.popped = None /\ Peers!Idle.todo = {}
  /\ Peers!Idle.rest = <<>> /\ Peers!Idle.tell = "no"
<1>1. <<>> \in Seq(RowSet)
  OBVIOUS
<1> QED
  BY <1>1 DEF Peers!Idle, Work, Shape, Stages

LEMMA TableStart == Peers!Init => TableInv
<1> SUFFICES ASSUME Peers!Init PROVE TableInv
  OBVIOUS
<1>1. Peers!Rows = {}
  BY DEF Peers!Init, Peers!Rows
<1>2. \A t \in Peers!Thread : peers_thread[t] = Peers!Idle
  BY DEF Peers!Init
<1>3. TableTyped
  BY <1>2, IdleFacts, KeysAre DEF Peers!Init, TableTyped
<1>4. RowsFound /\ RowsGone /\ RowsMerged /\ CrowdKnown /\ AddressesCleared /\ OneHash
  BY <1>1, <1>2, IdleFacts DEF RowsFound, RowsGone, RowsMerged, CrowdKnown,
     AddressesCleared, Cleared, OneHash, Ahead
<1> QED
  BY <1>3, <1>4 DEF TableInv

\* A step that leaves table and threads alone.
LEMMA TableUntouched ==
  ASSUME TableInv, UNCHANGED <<peers, index, peers_thread>>, overlap \subseteq overlap',
         clock' \in Nat, peers_spent' \in [hears : Nat, changes : Nat]
  PROVE  TableInv'
<1>1. Peers!Rows' = Peers!Rows
  BY DEF Peers!Rows
<1>2. TableTyped'
  BY DEF TableInv, TableTyped
<1>3. RowsFound'
  BY <1>1 DEF TableInv, RowsFound, Indexing
<1>4. RowsGone' /\ RowsMerged'
  BY <1>1 DEF TableInv, RowsGone, RowsMerged
<1>5. CrowdKnown'
  BY DEF TableInv, CrowdKnown, Ahead
<1>6. AddressesCleared' /\ OneHash'
  BY <1>1 DEF TableInv, AddressesCleared, Cleared, Ahead, OneHash
<1> QED
  BY <1>2, <1>3, <1>4, <1>5, <1>6 DEF TableInv

\* A step that gives one thread work other than storing a row it has checked.
LEMMA WorkGiven ==
  ASSUME TableInv, UNCHANGED <<peers, index, clock>>, overlap \subseteq overlap', peers_spent' \in [hears : Nat, changes : Nat],
         NEW t \in Peers!Thread, NEW w \in Work, Shape(w),
         peers_thread' = [peers_thread EXCEPT ![t] = w], peers_thread[t].pc # "index",
         w.popped = None, w.pc \in {"idle", "check", "drop"}, w.tell # "successor"
  PROVE  TableInv'
<1>1. Peers!Rows' = Peers!Rows
  BY DEF Peers!Rows
<1>2. /\ \A u \in Peers!Thread : peers_thread'[u] = IF u = t THEN w ELSE peers_thread[u]
      /\ peers_thread' \in [Peers!Thread -> Work]
  BY DEF TableInv, TableTyped
<1>3. TableTyped'
  BY <1>2 DEF TableInv, TableTyped
<1>4. RowsFound'
  BY <1>1, <1>2 DEF TableInv, RowsFound, Indexing
<1>5. RowsGone' /\ RowsMerged'
  BY <1>1, <1>2 DEF TableInv, RowsGone, RowsMerged
<1>6. \A u \in Peers!Thread : Ahead(u)' => u # t /\ Ahead(u) /\ peers_thread'[u] = peers_thread[u]
  BY <1>2 DEF Ahead
<1>7. CrowdKnown'
  BY <1>6 DEF TableInv, CrowdKnown
<1>8. AddressesCleared'
  <2> SUFFICES ASSUME NEW u \in Peers!Thread, Ahead(u)' PROVE Cleared(u)'
    BY DEF AddressesCleared, Cleared
  <2>1. Ahead(u) /\ peers_thread'[u] = peers_thread[u] /\ Cleared(u)
    BY <1>6 DEF TableInv, AddressesCleared
  <2> QED
    BY <2>1, <1>1 DEF Cleared
<1>9. OneHash'
  BY <1>1 DEF TableInv, OneHash
<1> QED
  BY <1>3, <1>4, <1>5, <1>7, <1>8, <1>9 DEF TableInv

\* What a thread does after a row.
LEMMA NextStoreFits ==
  ASSUME TableInv, NEW t \in Peers!Thread
  PROVE  LET w == Peers!NextStore(t) IN
         w \in Work /\ Shape(w) /\ w.popped = None /\ w.todo = {} /\ w.pc \in {"idle", "check"} /\ w.tell = "no"
<1>1. peers_thread[t].rest \in Seq(RowSet)
  BY DEF TableInv, TableTyped, Work
<1>2. CASE peers_thread[t].rest = <<>>
  BY <1>2, IdleFacts DEF Peers!NextStore
<1>3. CASE peers_thread[t].rest # <<>>
  <2>1. Head(peers_thread[t].rest) \in RowSet /\ Tail(peers_thread[t].rest) \in Seq(RowSet)
    BY <1>1, <1>3
  <2>2. Head(peers_thread[t].rest) # None
    BY <2>1, RowFacts
  <2>3. Peers!NextStore(t) =
          [Peers!Idle EXCEPT !.pc = "check", !.row = Head(peers_thread[t].rest), !.rest = Tail(peers_thread[t].rest)]
    BY <1>3 DEF Peers!NextStore
  <2> QED
    BY <2>1, <2>2, <2>3, IdleFacts DEF Work, Shape, Stages
<1> QED
  BY <1>2, <1>3

-----------------------------------------------------------------------------
\* The rows an advert stores.
LEMMA RowsOfAdverts ==
  ASSUME NEW a \in Advert, clock \in Nat
  PROVE  /\ \A via \in {"lan", "serial", "link"} : Peers!Row(a, via) \in RowSet
         /\ Peers!Via(a) \in {None, "lan", "serial"}
<1>1. a.hash \in PeersHash
  BY AdvertAssumption
<1> QED
  BY <1>1 DEF Peers!Row, Peers!Via, RowSet, Peers!Stored

LEMMA NamedRows ==
  ASSUME TableInv, NEW r \in RowSet
  PROVE  \A s \in Peers!Named(r) : s \in RowSet /\ s.via = r.via /\ s.ip = r.ip /\ s.hash = r.hash
<1> SUFFICES ASSUME NEW s \in Peers!Named(r)
             PROVE  s \in RowSet /\ s.via = r.via /\ s.ip = r.ip /\ s.hash = r.hash
  OBVIOUS
<1>1. s = r \/ \E k \in Peers!Rows : s = [r EXCEPT !.name = peers[k].name]
  BY DEF Peers!Named
<1>2. \A k \in Peers!Rows : peers[k] \in RowSet
  BY KeysAre DEF TableInv, TableTyped, Peers!Rows
<1> QED
  BY <1>1, <1>2 DEF RowSet, Peers!Stored

LEMMA AttachedRows ==
  ASSUME TableInv, NEW r \in RowSet
  PROVE  \A s \in Peers!Attached(r) :
           /\ s \in RowSet /\ s.via = r.via /\ s.hash = r.hash
           /\ r.ip # None \/ r.via = "serial" => s = r
           /\ r.ip = None /\ s.ip # None => Peers!InScope(s.ip)
<1> SUFFICES ASSUME NEW s \in Peers!Attached(r)
             PROVE  /\ s \in RowSet /\ s.via = r.via /\ s.hash = r.hash
                    /\ r.ip # None \/ r.via = "serial" => s = r
                    /\ r.ip = None /\ s.ip # None => Peers!InScope(s.ip)
  OBVIOUS
<1>1. \/ s = r
      \/ /\ r.ip = None /\ r.via # "serial"
         /\ \E k \in Peers!Rows : s = [r EXCEPT !.ip = peers[k].ip] /\ Peers!InScope(peers[k].ip)
  BY DEF Peers!Attached
<1>2. \A k \in Peers!Rows : peers[k] \in RowSet
  BY KeysAre DEF TableInv, TableTyped, Peers!Rows
<1> QED
  BY <1>1, <1>2 DEF RowSet, Peers!Stored

LEMMA StoresRows ==
  ASSUME TableInv, NEW a \in Advert, NEW rows \in Peers!Stores(a)
  PROVE  rows \in Seq(RowSet) /\ rows # <<>>
<1>1. clock \in Nat
  BY DEF TableInv, TableTyped
<1>0. \A r \in RowSet : <<r>> \in Seq(RowSet) /\ <<r>> # <<>>
  OBVIOUS
<1>2. CASE a.from = "announce"
  <2>1. Peers!Via(a) \in {"lan", "serial"} /\ rows = <<Peers!Row(a, Peers!Via(a))>>
    BY <1>1, <1>2, RowsOfAdverts DEF Peers!Stores
  <2> QED
    BY <1>0, <1>1, <2>1, RowsOfAdverts
<1>3. CASE a.from = "link"
  <2>1. rows = <<Peers!Row(a, "link")>>
    BY <1>3 DEF Peers!Stores
  <2> QED
    BY <1>0, <1>1, <2>1, RowsOfAdverts
<1>4. CASE a.from = "beacon"
  <2>1. PICK r \in Peers!Named(Peers!Row(a, "lan")) :
          rows = <<r>> \o (IF a.serial = None \/ ~usb \/ a.serial \in local THEN <<>>
                           ELSE <<[Peers!Row(a, "serial") EXCEPT !.hash = a.serial, !.name = r.name]>>)
    BY <1>4 DEF Peers!Stores
  <2>2. r \in RowSet
    BY <1>1, <2>1, RowsOfAdverts, NamedRows
  <2>3. CASE a.serial = None \/ ~usb \/ a.serial \in local
    BY <2>1, <2>2, <2>3
  <2>4. CASE ~(a.serial = None \/ ~usb \/ a.serial \in local)
    <3> DEFINE s == [Peers!Row(a, "serial") EXCEPT !.hash = a.serial, !.name = r.name]
    <3>1. s \in RowSet
      BY <1>1, <2>2, <2>4, RowsOfAdverts, AdvertAssumption DEF RowSet, Peers!Stored
    <3>2. rows = <<r>> \o <<s>>
      BY <2>1, <2>4
    <3> HIDE DEF s
    <3> QED
      BY <2>2, <3>1, <3>2
  <2> QED
    BY <2>3, <2>4
<1> QED
  BY <1>2, <1>3, <1>4, AdvertAssumption

LEMMA HearKept ==
  ASSUME TableInv, NEW a \in Advert, Peers!Hear(a)
  PROVE  TableInv'
<1>1. PICK t \in Peers!Thread, rows \in Peers!Stores(a) :
        /\ peers_thread[t] = Peers!Idle
        /\ peers_thread' = [peers_thread EXCEPT ![t] =
             [Peers!Idle EXCEPT !.pc = "check", !.row = Head(rows), !.rest = Tail(rows)]]
  BY DEF Peers!Hear, Peers!Thread
<1> DEFINE w == [Peers!Idle EXCEPT !.pc = "check", !.row = Head(rows), !.rest = Tail(rows)]
<1>2. Head(rows) \in RowSet /\ Tail(rows) \in Seq(RowSet)
  BY StoresRows
<1>3. w \in Work /\ Shape(w) /\ w.popped = None /\ w.pc = "check" /\ w.tell = "no"
  BY <1>2, RowFacts, IdleFacts DEF Work, Shape, Stages
<1>4. peers_spent' \in [hears : Nat, changes : Nat]
  BY DEF Peers!Hear, TableInv, TableTyped
<1>5. UNCHANGED <<peers, index, clock, overlap>>
  BY DEF Peers!Hear
<1>6. peers_thread' = [peers_thread EXCEPT ![t] = w] /\ peers_thread[t].pc # "index"
  BY <1>1, IdleFacts
<1> HIDE DEF w
<1> QED
  BY <1>3, <1>4, <1>5, <1>6, WorkGiven

\* The purges.
LEMMA PurgeKept ==
  ASSUME TableInv, NEW t \in Peers!Thread, NEW keys \in SUBSET Peers!Rows, NEW tell \in {"no", "each"},
         Peers!Purge(t, keys, tell),
         UNCHANGED <<peers, index, clock>>, overlap \subseteq overlap', peers_spent' \in [hears : Nat, changes : Nat]
  PROVE  TableInv'
<1> DEFINE w == [Peers!Idle EXCEPT !.pc = "drop", !.todo = keys, !.tell = tell]
<1>1. peers_thread' = [peers_thread EXCEPT ![t] = w] /\ peers_thread[t].pc = "idle"
  BY IdleFacts DEF Peers!Purge
<1>2. w \in Work /\ Shape(w) /\ w.popped = None /\ w.pc = "drop" /\ w.tell # "successor"
  BY IdleFacts, KeysAre DEF Work, Shape, Stages, Peers!Rows
<1> HIDE DEF w
<1> QED
  BY <1>1, <1>2, WorkGiven

LEMMA PurgesKept ==
  ASSUME TableInv, Peers!PurgeSilent \/ Peers!PurgeOld \/ Peers!Unplug \/ Peers!LearnOwn
                   \/ \E s \in Scope \union {None} : Peers!NewScope(s)
  PROVE  TableInv'
<1>0. "probe" \in Peers!Thread /\ "loop" \in Peers!Thread /\ peers_spent \in [hears : Nat, changes : Nat] /\ clock \in Nat
  BY DEF Peers!Thread, TableInv, TableTyped
<1>1. CASE Peers!PurgeSilent
  <2>1. PICK keys \in SUBSET Peers!Rows : Peers!Purge("probe", keys, "each")
    BY <1>1 DEF Peers!PurgeSilent
  <2>2. UNCHANGED <<peers, index, clock, overlap, peers_spent>>
    BY <1>1 DEF Peers!PurgeSilent
  <2> QED
    BY <1>0, <2>1, <2>2, PurgeKept
<1>2. CASE Peers!PurgeOld
  <2>1. PICK keys \in SUBSET Peers!Rows : Peers!Purge("loop", keys, "no")
    BY <1>2 DEF Peers!PurgeOld
  <2>2. UNCHANGED <<peers, index, clock, overlap, peers_spent>>
    BY <1>2 DEF Peers!PurgeOld
  <2> QED
    BY <1>0, <2>1, <2>2, PurgeKept
<1>3. CASE Peers!Unplug
  <2>1. /\ peers_thread' = peers_thread \/ \E keys \in SUBSET Peers!Rows : Peers!Purge("loop", keys, "no")
        /\ UNCHANGED <<peers, index, clock, overlap>>
    BY <1>3 DEF Peers!Unplug
  <2>2. peers_spent' \in [hears : Nat, changes : Nat]
    BY <1>0, <1>3 DEF Peers!Unplug, Peers!Change
  <2> QED
    BY <1>0, <2>1, <2>2, PurgeKept, TableUntouched
<1>4. CASE Peers!LearnOwn
  <2>1. /\ peers_thread' = peers_thread \/ \E keys \in SUBSET Peers!Rows : Peers!Purge("loop", keys, "each")
        /\ UNCHANGED <<peers, index, clock, peers_spent>> /\ overlap \subseteq overlap'
    BY <1>4 DEF Peers!LearnOwn
  <2> QED
    BY <1>0, <2>1, PurgeKept, TableUntouched
<1>5. CASE \E s \in Scope \union {None} : Peers!NewScope(s)
  <2>1. /\ peers_thread' = peers_thread \/ \E keys \in SUBSET Peers!Rows : Peers!Purge("probe", keys, "no")
        /\ UNCHANGED <<peers, index, clock, overlap>>
    BY <1>5 DEF Peers!NewScope
  <2>2. peers_spent' \in [hears : Nat, changes : Nat]
    BY <1>0, <1>5 DEF Peers!NewScope, Peers!Change
  <2> QED
    BY <1>0, <2>1, <2>2, PurgeKept, TableUntouched
<1> QED
  BY <1>1, <1>2, <1>3, <1>4, <1>5

-----------------------------------------------------------------------------
\* A row that fits the LAN clears the rows it supersedes, and the threads ahead know
\* of each other.
LEMMA CheckKept ==
  ASSUME TableInv, NEW t \in Peers!Thread, Peers!Check(t)
  PROVE  TableInv'
<1> DEFINE me == peers_thread[t]
<1>0. me.pc = "check" /\ me \in Work /\ Shape(me) /\ me.row \in RowSet /\ me.todo = {} /\ me.popped = None
  BY DEF Peers!Check, TableInv, TableTyped, Shape, Work
<1>1. PICK r \in Peers!Attached(me.row) :
        peers_thread' = [peers_thread EXCEPT ![t] =
          IF r.hash \in local THEN Peers!NextStore(t)
          ELSE IF Peers!Allowed(r)
          THEN [me EXCEPT !.pc = "drop", !.tell = "successor", !.row = r, !.todo = Peers!Superseded(r)]
          ELSE [me EXCEPT !.pc = "drop", !.tell = IF r.via = "link" THEN "refused" ELSE "each",
                          !.row = None, !.todo = {k \in Peers!Rows : k[1] = r.hash}]]
  BY DEF Peers!Check
<1>2. /\ UNCHANGED <<peers, index, clock, peers_spent>>
      /\ overlap' = overlap \union Peers!Crowd(t) /\ overlap \subseteq overlap'
      /\ peers_spent' \in [hears : Nat, changes : Nat]
  BY DEF Peers!Check, TableInv, TableTyped
<1>3. r \in RowSet /\ r.via = me.row.via /\ r.hash = me.row.hash
  BY <1>0, AttachedRows
<1>4. CASE r.hash \in local
  <2>1. peers_thread' = [peers_thread EXCEPT ![t] = Peers!NextStore(t)]
    BY <1>1, <1>4
  <2> QED
    BY <2>1, <1>0, <1>2, NextStoreFits, WorkGiven
<1>5. CASE r.hash \notin local /\ ~Peers!Allowed(r)
  <2> DEFINE w == [me EXCEPT !.pc = "drop", !.tell = IF r.via = "link" THEN "refused" ELSE "each",
                             !.row = None, !.todo = {k \in Peers!Rows : k[1] = r.hash}]
  <2>1. peers_thread' = [peers_thread EXCEPT ![t] = w]
    BY <1>1, <1>5
  <2>2. {k \in Peers!Rows : k[1] = r.hash} \in SUBSET Storage
    BY KeysAre DEF Peers!Rows
  <2>3. w \in Work /\ Shape(w) /\ w.popped = None /\ w.pc = "drop" /\ w.tell # "successor"
    BY <1>0, <2>2 DEF Work, Shape, Stages
  <2> HIDE DEF w
  <2> QED
    BY <1>0, <1>2, <2>1, <2>3, WorkGiven
<1>6. CASE r.hash \notin local /\ Peers!Allowed(r)
  <2> DEFINE w == [me EXCEPT !.pc = "drop", !.tell = "successor", !.row = r, !.todo = Peers!Superseded(r)]
  <2>1. peers_thread' = [peers_thread EXCEPT ![t] = w]
    BY <1>1, <1>6
  <2>2. Peers!Superseded(r) \in SUBSET Storage
    BY KeysAre DEF Peers!Rows, Peers!Superseded
  <2>3. /\ w \in Work /\ Shape(w) /\ w.popped = None /\ w.pc = "drop" /\ w.tell = "successor"
        /\ w.row = r /\ w.todo = Peers!Superseded(r)
    BY <1>0, <1>3, <2>2, RowFacts DEF Work, Shape, Stages
  <2> HIDE DEF w
  <2>4. /\ \A u \in Peers!Thread : peers_thread'[u] = IF u = t THEN w ELSE peers_thread[u]
        /\ peers_thread' \in [Peers!Thread -> Work]
    BY <2>1, <2>3 DEF TableInv, TableTyped
  <2>5. Peers!Rows' = Peers!Rows
    BY <1>2 DEF Peers!Rows
  <2>6. TableTyped'
    BY <1>2, <2>3, <2>4 DEF TableInv, TableTyped
  <2>7. RowsFound' /\ RowsGone' /\ RowsMerged'
    BY <1>0, <1>2, <2>3, <2>4, <2>5 DEF TableInv, RowsFound, Indexing, RowsGone,
       RowsMerged
  <2>8. Peers!KeyOf(w.row) = Peers!KeyOf(me.row)
    BY <1>3, <2>3 DEF Peers!KeyOf
  <2>9. \A u \in Peers!Thread : u # t /\ Ahead(u)
          => Peers!KeyOf(peers_thread[u].row) \in overlap' /\ Peers!KeyOf(me.row) \in overlap'
    BY <1>2 DEF Peers!Crowd, Ahead
  <2>10. CrowdKnown'
    <3> SUFFICES ASSUME NEW u \in Peers!Thread, NEW v \in Peers!Thread, u # v, Ahead(u)', Ahead(v)'
                 PROVE  Peers!KeyOf(peers_thread'[u].row) \in overlap'
      BY DEF CrowdKnown
    <3>1. (u # t => Ahead(u)) /\ (v # t => Ahead(v))
      BY <2>4 DEF Ahead
    <3>2. CASE u # t /\ v # t
      BY <3>1, <3>2, <2>4, <1>2 DEF TableInv, CrowdKnown
    <3>3. CASE u = t \/ v = t
      BY <3>1, <3>3, <2>4, <2>8, <2>9
    <3> QED
      BY <3>2, <3>3
  <2>11. AddressesCleared'
    <3> SUFFICES ASSUME NEW u \in Peers!Thread, Ahead(u)' PROVE Cleared(u)'
      BY DEF AddressesCleared, Cleared
    <3>1. CASE u # t
      <4>1. Ahead(u) /\ Cleared(u) /\ peers_thread'[u] = peers_thread[u]
        BY <3>1, <2>4 DEF Ahead, TableInv, AddressesCleared
      <4> QED
        BY <4>1, <1>2, <2>5 DEF Cleared
    <3>2. CASE u = t
      <4> SUFFICES ASSUME NEW j \in Peers!Rows, r.ip # None, j[1] # r.hash, peers[j].ip = r.ip
                   PROVE  j \in Peers!Superseded(r)
        BY <3>2, <1>2, <2>3, <2>4, <2>5 DEF Cleared
      <4>1. peers[j] \in RowSet /\ Peers!KeyOf(peers[j]) = j
        BY KeysAre DEF TableInv, TableTyped, Peers!Rows
      <4>2. peers[j].via # "serial" /\ r.via # "serial" /\ peers[j].hash # r.hash
        BY <4>1, <1>3, RowFacts
      <4> QED
        BY <4>2 DEF Peers!Superseded, Peers!Family
    <3> QED
      BY <3>1, <3>2
  <2>12. OneHash'
    BY <1>2, <2>5 DEF TableInv, OneHash
  <2> QED
    BY <2>6, <2>7, <2>10, <2>11, <2>12 DEF TableInv
<1> QED
  BY <1>4, <1>5, <1>6

\* Taking a row.
LEMMA PopKept ==
  ASSUME TableInv, NEW t \in Peers!Thread, NEW k \in Peers!Key, Peers!Pop(t, k)
  PROVE  TableInv'
<1> DEFINE me == peers_thread[t]
<1>0. /\ me \in Work /\ Shape(me) /\ k \in me.todo /\ me.popped = None /\ me.pc = "drop" /\ k \in Storage
      /\ UNCHANGED <<index, clock, peers_spent>>
  BY KeysAre DEF Peers!Pop, TableInv, TableTyped, Shape, Work
<1>1. /\ peers' = [peers EXCEPT ![k] = None] /\ overlap \subseteq overlap'
      /\ Peers!Storing(k) \ {t} # {} => k \in overlap'
  BY DEF Peers!Pop
<1>2. /\ \A j \in Storage : peers'[j] = IF j = k THEN None ELSE peers[j]
      /\ Peers!Rows' = Peers!Rows \ {k}
  BY <1>1, KeysAre DEF TableInv, TableTyped, Peers!Rows
<1> DEFINE mine == [me EXCEPT !.todo = me.todo \ {k}, !.popped = peers[k],
                     !.removed = IF me.tell = "successor" THEN me.removed \union {k[1]} ELSE me.removed]
           theirs(u) == IF u \in Peers!Storing(k) /\ peers_thread[u].pc = "merge"
                        THEN [peers_thread[u] EXCEPT !.late = TRUE] ELSE peers_thread[u]
<1>3. \A u \in Peers!Thread : peers_thread'[u] = IF u = t THEN mine ELSE theirs(u)
  BY DEF Peers!Pop
<1>4. /\ mine \in Work /\ mine.todo = me.todo \ {k} /\ mine.popped = peers[k] /\ mine.pc = me.pc
      /\ mine.tell = me.tell /\ mine.row = me.row
  <2>1. peers[k] \in RowSet \union {None} /\ k[1] \in PeersHash
    BY <1>0 DEF TableInv, TableTyped, Storage
  <2> QED
    BY <1>0, <2>1 DEF Work
<1>5. \A u \in Peers!Thread :
        /\ theirs(u) \in Work /\ theirs(u).pc = peers_thread[u].pc /\ theirs(u).todo = peers_thread[u].todo
        /\ theirs(u).tell = peers_thread[u].tell /\ theirs(u).row = peers_thread[u].row
        /\ theirs(u).popped = peers_thread[u].popped
        /\ theirs(u).pc = "merge" /\ ~theirs(u).late => u \notin Peers!Storing(k) /\ ~peers_thread[u].late
  BY ZenonT(40) DEF TableInv, TableTyped, Work
<1> HIDE DEF mine, theirs
<1>6. \A u \in Peers!Thread :
        /\ peers_thread'[u].pc = peers_thread[u].pc /\ peers_thread'[u].tell = peers_thread[u].tell
        /\ peers_thread'[u].row = peers_thread[u].row
        /\ peers_thread'[u].todo = IF u = t THEN me.todo \ {k} ELSE peers_thread[u].todo
        /\ peers_thread'[u].popped = IF u = t THEN peers[k] ELSE peers_thread[u].popped
  BY <1>3, <1>4, <1>5
<1>7. TableTyped'
  <2>1. peers_thread' \in [Peers!Thread -> Work]
    <3>1. \A u \in Peers!Thread : peers_thread'[u] \in Work
      BY <1>3, <1>4, <1>5
    <3>2. peers_thread' = [u \in Peers!Thread |-> peers_thread'[u]]
      BY DEF Peers!Pop
    <3> QED
      BY <3>1, <3>2
  <2>2. \A u \in Peers!Thread : Shape(peers_thread'[u])
    BY <1>0, <1>6 DEF TableInv, TableTyped, Shape
  <2>3. /\ peers' \in [Storage -> RowSet \union {None}]
        /\ \A j \in Storage : peers'[j] # None => Peers!KeyOf(peers'[j]) = j
    BY <1>0, <1>1, <1>2 DEF TableInv, TableTyped
  <2> QED
    BY <1>0, <2>1, <2>2, <2>3 DEF TableInv, TableTyped
<1>8. RowsFound'
  BY <1>0, <1>1, <1>2, <1>6 DEF TableInv, RowsFound, Indexing
<1>9. RowsGone'
  <2> SUFFICES ASSUME NEW u \in Peers!Thread, peers_thread'[u].popped # None,
                      Peers!KeyOf(peers_thread'[u].popped) \in Peers!Rows'
               PROVE  Peers!KeyOf(peers_thread'[u].popped) \in overlap'
    BY DEF RowsGone
  <2>1. CASE u = t
    <3>1. Peers!KeyOf(peers[k]) = k
      BY <2>1, <1>0, <1>6 DEF TableInv, TableTyped
    <3> QED
      BY <2>1, <3>1, <1>2, <1>6
  <2>2. CASE u # t
    BY <2>2, <1>1, <1>2, <1>6 DEF TableInv, RowsGone
  <2> QED
    BY <2>1, <2>2
<1>10. RowsMerged'
  <2> SUFFICES ASSUME NEW u \in Peers!Thread, peers_thread'[u].pc = "merge", ~peers_thread'[u].late
               PROVE  Peers!KeyOf(peers_thread'[u].row) \in Peers!Rows'
    BY DEF RowsMerged
  <2>1. u # t /\ u \notin Peers!Storing(k) /\ ~peers_thread[u].late /\ peers_thread[u].pc = "merge"
    BY <1>0, <1>3, <1>5, <1>6
  <2>2. Peers!KeyOf(peers_thread[u].row) # k
    BY <2>1 DEF Peers!Storing
  <2> QED
    BY <2>1, <2>2, <1>2, <1>6 DEF TableInv, RowsMerged
<1>11. CrowdKnown'
  BY <1>1, <1>6 DEF TableInv, CrowdKnown, Ahead
<1>12. AddressesCleared'
  <2> SUFFICES ASSUME NEW u \in Peers!Thread, Ahead(u)' PROVE Cleared(u)'
    BY DEF AddressesCleared, Cleared
  <2>1. Ahead(u) /\ Cleared(u)
    BY <1>6 DEF Ahead, TableInv, AddressesCleared
  <2>2. \A j \in Peers!Rows' : j \in Peers!Rows /\ j # k /\ peers'[j] = peers[j]
    BY <1>2, KeysAre DEF Peers!Rows
  <2> QED
    BY <2>1, <2>2, <1>1, <1>6 DEF Cleared
<1>13. OneHash'
  BY <1>1, <1>2, KeysAre DEF TableInv, OneHash, Peers!Rows
<1> QED
  BY <1>7, <1>8, <1>9, <1>10, <1>11, <1>12, <1>13 DEF TableInv

\* Taking it out of the index.
LEMMA UnindexKept ==
  ASSUME TableInv, NEW t \in Peers!Thread, Peers!Unindex(t)
  PROVE  TableInv'
<1> DEFINE me == peers_thread[t]
           k == Peers!KeyOf(me.popped)
           w == [me EXCEPT !.popped = None]
<1>0. /\ me \in Work /\ Shape(me) /\ me.popped # None /\ me.popped \in RowSet /\ me.pc = "drop"
      /\ UNCHANGED <<peers, clock, overlap, peers_spent>>
  BY DEF Peers!Unindex, TableInv, TableTyped, Shape, Work
<1>1. /\ w \in Work /\ Shape(w) /\ w.popped = None /\ w.pc = me.pc /\ w.tell = me.tell /\ w.row = me.row
      /\ w.todo = me.todo /\ w.late = me.late
  BY <1>0 DEF Work, Shape
<1>2. /\ \A u \in Peers!Thread : peers_thread'[u] = IF u = t THEN w ELSE peers_thread[u]
      /\ peers_thread' \in [Peers!Thread -> Work]
  BY <1>1 DEF Peers!Unindex, TableInv, TableTyped
<1>3. /\ DOMAIN index' = DOMAIN index
      /\ \A h \in DOMAIN index : index[h] \ {k} \subseteq index'[h]
  BY DEF Peers!Unindex
<1> HIDE DEF w
<1>4. Peers!Rows' = Peers!Rows /\ \A j \in Peers!Rows : j[1] \in DOMAIN index
  BY <1>0, KeysAre DEF Peers!Rows, Storage, TableInv, TableTyped
<1>5. TableTyped'
  BY <1>0, <1>1, <1>2, <1>3 DEF TableInv, TableTyped
<1>6. RowsFound'
  <2> SUFFICES ASSUME NEW j \in Peers!Rows, ~Indexing(j)', j \notin overlap
               PROVE  j \in index'[j[1]]
    BY <1>0, <1>4 DEF RowsFound
  <2>1. j \in index[j[1]]
    BY <1>0, <1>1, <1>2 DEF TableInv, RowsFound, Indexing
  <2>2. j # k
    BY <1>0 DEF TableInv, RowsGone
  <2> QED
    BY <2>1, <2>2, <1>3, <1>4
<1>7. RowsGone' /\ RowsMerged'
  BY <1>0, <1>1, <1>2, <1>4 DEF TableInv, RowsGone, RowsMerged
<1>8. CrowdKnown'
  BY <1>0, <1>1, <1>2 DEF TableInv, CrowdKnown, Ahead
<1>9. AddressesCleared' /\ OneHash'
  BY <1>0, <1>1, <1>2, <1>4 DEF TableInv, AddressesCleared, Cleared, Ahead, OneHash
<1> QED
  BY <1>5, <1>6, <1>7, <1>8, <1>9 DEF TableInv

\* The list is done.
LEMMA DroppedKept ==
  ASSUME TableInv, NEW t \in Peers!Thread, Peers!Dropped(t)
  PROVE  TableInv'
<1> DEFINE me == peers_thread[t]
<1>0. /\ me \in Work /\ Shape(me) /\ me.popped = None /\ me.pc = "drop" /\ me.todo = {}
      /\ UNCHANGED <<peers, index, clock, overlap, peers_spent>>
      /\ peers_spent' \in [hears : Nat, changes : Nat]
  BY DEF Peers!Dropped, TableInv, TableTyped
<1>1. CASE me.tell # "successor"
  <2>1. peers_thread' = [peers_thread EXCEPT ![t] = Peers!NextStore(t)]
    BY <1>1 DEF Peers!Dropped
  <2> QED
    BY <2>1, <1>0, NextStoreFits, WorkGiven
<1>2. CASE me.tell = "successor"
  <2> DEFINE w == [me EXCEPT !.pc = IF peers[Peers!KeyOf(me.row)] = None THEN "insert" ELSE "merge"]
  <2>1. peers_thread' = [peers_thread EXCEPT ![t] = w]
    BY <1>2 DEF Peers!Dropped
  <2>2. /\ w \in Work /\ Shape(w) /\ w.popped = None /\ w.tell = me.tell /\ w.row = me.row
        /\ w.todo = me.todo /\ w.pc \in {"insert", "merge"}
        /\ w.pc = "merge" => peers[Peers!KeyOf(me.row)] # None
    BY <1>0, <1>2 DEF Work, Shape, Stages
  <2> HIDE DEF w
  <2>3. /\ \A u \in Peers!Thread : peers_thread'[u] = IF u = t THEN w ELSE peers_thread[u]
        /\ peers_thread' \in [Peers!Thread -> Work]
    BY <2>1, <2>2 DEF TableInv, TableTyped
  <2>4. Peers!Rows' = Peers!Rows
    BY <1>0 DEF Peers!Rows
  <2>5. TableTyped'
    BY <1>0, <2>2, <2>3 DEF TableInv, TableTyped
  <2>6. RowsFound' /\ RowsGone'
    BY <1>0, <2>2, <2>3, <2>4 DEF TableInv, RowsFound, Indexing, RowsGone
  <2>7. RowsMerged'
    <3>1. w.pc = "merge" => Peers!KeyOf(w.row) \in Peers!Rows
      <4>1. Peers!KeyOf(me.row) \in Storage
        BY <1>0, <1>2, RowFacts DEF Work, Shape
      <4> QED
        BY <4>1, <2>2, KeysAre DEF Peers!Rows
    <3> QED
      BY <3>1, <2>3, <2>4 DEF TableInv, RowsMerged
  <2>8. CrowdKnown'
    BY <1>0, <1>2, <2>2, <2>3 DEF TableInv, CrowdKnown, Ahead
  <2>9. AddressesCleared' /\ OneHash'
    BY <1>0, <1>2, <2>2, <2>3, <2>4 DEF TableInv, AddressesCleared, Cleared,
       Ahead, OneHash
  <2> QED
    BY <2>5, <2>6, <2>7, <2>8, <2>9 DEF TableInv
<1> QED
  BY <1>1, <1>2

\* A row that finds no other under its key.
LEMMA InsertKept ==
  ASSUME TableInv, NEW t \in Peers!Thread, Peers!Insert(t)
  PROVE  TableInv'
<1> DEFINE me == peers_thread[t]
           r == me.row
           w == [me EXCEPT !.pc = "index"]
<1>00. PICK k : k = Peers!KeyOf(r)
  OBVIOUS
<1>0. /\ me \in Work /\ Shape(me) /\ me.pc = "insert" /\ me.popped = None /\ me.todo = {}
      /\ r \in RowSet /\ r # None /\ k \in Storage /\ Ahead(t)
      /\ UNCHANGED <<index, clock, peers_spent>>
  BY <1>00, RowFacts DEF Peers!Insert, TableInv, TableTyped, Shape, Work, Ahead
<1>1. /\ peers' = [peers EXCEPT ![k] = r] /\ overlap \subseteq overlap'
      /\ Peers!Dropping(k) => k \in overlap'
  BY <1>00 DEF Peers!Insert
<1>2. /\ \A j \in Storage : peers'[j] = IF j = k THEN r ELSE peers[j]
      /\ Peers!Rows' = Peers!Rows \union {k}
  BY <1>0, <1>1, KeysAre DEF TableInv, TableTyped, Peers!Rows
<1>3. /\ w \in Work /\ Shape(w) /\ w.popped = None /\ w.pc = "index" /\ w.row = r /\ w.todo = {}
  BY <1>0 DEF Work, Shape, Stages
<1>4. /\ \A u \in Peers!Thread : peers_thread'[u] = IF u = t THEN w ELSE peers_thread[u]
      /\ peers_thread' \in [Peers!Thread -> Work]
  BY <1>3 DEF Peers!Insert, TableInv, TableTyped
<1> HIDE DEF w
<1>5. TableTyped'
  <2> QED
    BY <1>00, <1>0, <1>1, <1>2, <1>3, <1>4 DEF TableInv, TableTyped
<1>6. RowsFound'
  <2>1. Indexing(k)'
    BY <1>00, <1>3, <1>4 DEF Indexing
  <2>2. \A j \in Peers!Rows : Indexing(j) => Indexing(j)'
    BY <1>0, <1>4 DEF Indexing
  <2> SUFFICES ASSUME NEW j \in Peers!Rows', j \notin overlap', ~Indexing(j)' PROVE j \in index'[j[1]]
    BY DEF RowsFound
  <2>3. j # k
    BY <2>1 DEF Indexing
  <2>4. j \in Peers!Rows /\ ~Indexing(j)
    BY <2>2, <2>3, <1>2
  <2> QED
    BY <2>4, <1>0, <1>1 DEF TableInv, RowsFound
<1>7. RowsGone'
  <2> SUFFICES ASSUME NEW u \in Peers!Thread, peers_thread'[u].popped # None,
                      Peers!KeyOf(peers_thread'[u].popped) \in Peers!Rows'
               PROVE  Peers!KeyOf(peers_thread'[u].popped) \in overlap'
    BY DEF RowsGone
  <2>1. u # t /\ peers_thread'[u] = peers_thread[u]
    BY <1>3, <1>4
  <2>2. CASE Peers!KeyOf(peers_thread[u].popped) = k
    BY <2>1, <2>2, <1>1 DEF Peers!Dropping
  <2>3. CASE Peers!KeyOf(peers_thread[u].popped) # k
    BY <2>1, <2>3, <1>1, <1>2 DEF TableInv, RowsGone
  <2> QED
    BY <2>2, <2>3
<1>8. RowsMerged'
  BY <1>2, <1>3, <1>4 DEF TableInv, RowsMerged
<1>9. CrowdKnown'
  BY <1>1, <1>3, <1>4 DEF TableInv, CrowdKnown, Ahead
<1>10. AddressesCleared'
  <2> SUFFICES ASSUME NEW u \in Peers!Thread, Ahead(u)' PROVE Cleared(u)'
    BY DEF AddressesCleared, Cleared
  <2>1. u # t /\ Ahead(u) /\ Cleared(u) /\ peers_thread'[u] = peers_thread[u]
    BY <1>3, <1>4 DEF Ahead, TableInv, AddressesCleared
  <2>2. k \in overlap /\ Peers!KeyOf(peers_thread[u].row) \in overlap
    BY <2>1, <1>00, <1>0 DEF TableInv, CrowdKnown
  <2>3. \A j \in Peers!Rows' : j = k \/ (j \in Peers!Rows /\ peers'[j] = peers[j])
    BY <1>2, KeysAre DEF Peers!Rows
  <2> QED
    BY <2>1, <2>2, <2>3, <1>1 DEF Cleared
<1>11. OneHash'
  <2>1. \A j \in Peers!Rows : j[1] # k[1] /\ r.ip # None /\ peers[j].ip = r.ip => j \in overlap /\ k \in overlap
    BY <1>00, <1>0, RowFacts DEF TableInv, AddressesCleared, Cleared
  <2>2. \A j \in Peers!Rows' : (j = k /\ peers'[j] = r) \/ (j \in Peers!Rows /\ peers'[j] = peers[j])
    BY <1>0, <1>2, KeysAre DEF Peers!Rows
  <2>3. ASSUME NEW i \in Peers!Rows', NEW j \in Peers!Rows', i[1] # j[1], peers'[i].ip # None,
               peers'[i].ip = peers'[j].ip
        PROVE  i \in overlap' /\ j \in overlap'
    <3>1. CASE i = k
      BY <3>1, <2>1, <2>2, <2>3, <1>0, <1>1, <1>2
    <3>2. CASE j = k
      BY <3>2, <2>1, <2>2, <2>3, <1>0, <1>1, <1>2
    <3>3. CASE i # k /\ j # k
      BY <3>3, <2>2, <2>3, <1>1 DEF TableInv, OneHash
    <3> QED
      BY <3>1, <3>2, <3>3
  <2> QED
    BY <2>3 DEF OneHash
<1> QED
  BY <1>5, <1>6, <1>7, <1>8, <1>9, <1>10, <1>11 DEF TableInv

-----------------------------------------------------------------------------
\* Rows refreshed in place: the same keys, hashes, transports, addresses and times.
SameRows(p, q) ==
  /\ q \in [Storage -> RowSet \union {None}]
  /\ \A k \in Storage :
       /\ q[k] = None <=> p[k] = None
       /\ p[k] # None => Peers!KeyOf(q[k]) = Peers!KeyOf(p[k]) /\ q[k].ip = p[k].ip /\ q[k].seen = p[k].seen

Refreshed(x, y) == \E m, n \in Nat : y = [x EXCEPT !.okAt = m, !.fails = n]
LEMMA RowRefreshed ==
  ASSUME NEW x \in RowSet, NEW y, Refreshed(x, y)
  PROVE  y \in RowSet /\ y # None /\ Peers!KeyOf(y) = Peers!KeyOf(x) /\ y.ip = x.ip /\ y.seen = x.seen
<1>1. y \in RowSet /\ y.hash = x.hash /\ y.via = x.via /\ y.ip = x.ip /\ y.seen = x.seen
  BY DEF RowSet, Peers!Stored, Refreshed
<1> QED
  BY <1>1, RowFacts DEF Peers!KeyOf

LEMMA RowMerged ==
  ASSUME NEW x \in RowSet, NEW r \in RowSet, Peers!KeyOf(x) = Peers!KeyOf(r)
  PROVE  LET y == Peers!Merged(x, r) IN
         /\ y \in RowSet /\ y # None /\ Peers!KeyOf(y) = Peers!KeyOf(r)
         /\ y.ip = IF r.ip # None THEN r.ip ELSE x.ip
         /\ y.seen = r.seen
<1> DEFINE y == Peers!Merged(x, r)
<1> DEFINE ip == IF r.ip # None THEN r.ip ELSE x.ip
           id == IF x.ident = None THEN r.ident ELSE x.ident
           name == IF r.name # None THEN r.name ELSE x.name
<1>0. x.via = r.via /\ x.hash = r.hash
  BY RowFacts DEF Peers!KeyOf
<1>1. y = [x EXCEPT !.ip = ip, !.ident = id, !.name = name, !.seen = r.seen, !.okAt = r.seen, !.fails = 0]
  BY DEF Peers!Merged
<1>2. /\ ip \in {a.ip : a \in Advert} \union {None} /\ id \in {a.ident : a \in Advert} \union {None}
      /\ name \in {a.name : a \in Advert} \union {None} /\ r.seen \in Nat
      /\ r.via = "serial" => ip = None
  BY <1>0 DEF RowSet, Peers!Stored
<1>3. y.ip = ip /\ y.via = x.via /\ y.hash = x.hash /\ y.seen = r.seen
  BY <1>1 DEF RowSet, Peers!Stored
<1> HIDE DEF y
<1>4. y \in Peers!Stored
  <2> HIDE DEF ip, id, name
  <2> QED
    BY <1>1, <1>2 DEF RowSet, Peers!Stored
<1>5. y \in RowSet
  BY <1>0, <1>2, <1>3, <1>4 DEF RowSet
<1> QED
  BY <1>0, <1>3, <1>5, RowFacts DEF Peers!KeyOf, y

LEMMA LookupFinds ==
  ASSUME NEW h
  PROVE  Peers!Lookup(h) \subseteq Peers!Rows
  BY DEF Peers!Lookup

LEMMA AliveSame ==
  ASSUME TableInv, NEW p \in [Storage -> RowSet \union {None}], NEW h,
         \A k \in Storage : p[k] = None <=> peers[k] = None
  PROVE  SameRows(p, Peers!Alive(p, h))
<1> DEFINE q == Peers!Alive(p, h)
<1>1. q = [k \in Storage |-> IF k \in Peers!Lookup(h) THEN [p[k] EXCEPT !.okAt = p[k].seen, !.fails = 0] ELSE p[k]]
  BY KeysAre DEF Peers!Alive
<1>2. ASSUME NEW k \in Storage
      PROVE  /\ q[k] \in RowSet \union {None} /\ (q[k] = None <=> p[k] = None)
             /\ p[k] # None => Peers!KeyOf(q[k]) = Peers!KeyOf(p[k]) /\ q[k].ip = p[k].ip /\ q[k].seen = p[k].seen
  <2>1. CASE k \in Peers!Lookup(h)
    <3>1. p[k] \in RowSet
      BY <2>1, LookupFinds, KeysAre DEF Peers!Rows
    <3>2. q[k] = [p[k] EXCEPT !.okAt = p[k].seen, !.fails = 0]
      BY <1>1, <2>1
    <3>3. Refreshed(p[k], q[k])
      <4>1. p[k].seen \in Nat /\ 0 \in Nat
        BY <3>1, RowFacts
      <4> QED
        BY <3>2, <4>1 DEF Refreshed
    <3> QED
      BY <3>1, <3>3, RowFacts, RowRefreshed
  <2>2. CASE k \notin Peers!Lookup(h)
    BY <1>1, <2>2
  <2> QED
    BY <2>1, <2>2
<1>3. q \in [Storage -> RowSet \union {None}]
  BY <1>1, <1>2
<1>4. q = Peers!Alive(p, h)
  OBVIOUS
<1> HIDE DEF q
<1>5. SameRows(p, q)
  BY <1>2, <1>3 DEF SameRows
<1> QED
  BY <1>4, <1>5

\* Refreshed rows disturb nobody.
LEMMA SameRowsKeep ==
  ASSUME TableInv, SameRows(peers, peers'),
         UNCHANGED <<index, peers_thread, clock, overlap, peers_spent>>
  PROVE  TableInv'
<1>1. /\ Peers!Rows' = Peers!Rows
      /\ \A k \in Peers!Rows : peers'[k].ip = peers[k].ip
  BY KeysAre DEF SameRows, Peers!Rows
<1>2. TableTyped'
  BY DEF TableInv, TableTyped, SameRows
<1>3. RowsFound' /\ RowsGone' /\ RowsMerged'
  BY <1>1 DEF TableInv, RowsFound, Indexing, RowsGone, RowsMerged
<1>4. CrowdKnown' /\ AddressesCleared' /\ OneHash'
  BY <1>1 DEF TableInv, CrowdKnown, AddressesCleared, Cleared, Ahead, OneHash
<1> QED
  BY <1>2, <1>3, <1>4 DEF TableInv

LEMMA ProbedSame ==
  ASSUME TableInv, NEW k \in Peers!Key, NEW answers \in BOOLEAN, Peers!Probe(k, answers)
  PROVE  SameRows(peers, peers')
<1>1. peers' = [j \in Storage |-> IF j \in Peers!Lookup(k[1]) /\ j[2] # "serial"
                                  THEN Peers!Probed(peers[j], answers) ELSE peers[j]]
  BY KeysAre DEF Peers!Probe
<1>2. ASSUME NEW j \in Storage
      PROVE  /\ peers'[j] \in RowSet \union {None} /\ (peers'[j] = None <=> peers[j] = None)
             /\ peers[j] # None => /\ Peers!KeyOf(peers'[j]) = Peers!KeyOf(peers[j])
                                   /\ peers'[j].ip = peers[j].ip /\ peers'[j].seen = peers[j].seen
  <2>1. CASE j \in Peers!Lookup(k[1]) /\ j[2] # "serial"
    <3>1. peers[j] \in RowSet /\ clock \in Nat
      BY <2>1, LookupFinds, KeysAre DEF Peers!Rows, TableInv, TableTyped
    <3>2. peers'[j] = Peers!Probed(peers[j], answers)
      BY <1>1, <2>1
    <3>3. \/ peers'[j] = [peers[j] EXCEPT !.okAt = clock, !.fails = 0]
          \/ peers'[j] = [peers[j] EXCEPT !.okAt = peers[j].seen, !.fails = 0]
          \/ peers'[j] = [peers[j] EXCEPT !.fails = IF peers[j].fails < MaxFailures THEN peers[j].fails + 1 ELSE peers[j].fails]
      BY <3>2 DEF Peers!Probed
    <3>4. /\ peers[j].seen \in Nat /\ peers[j].fails \in Nat /\ 0 \in Nat
          /\ (IF peers[j].fails < MaxFailures THEN peers[j].fails + 1 ELSE peers[j].fails) \in Nat
      BY <3>1 DEF RowSet, Peers!Stored
    <3>5. PICK m \in Nat, n \in Nat : peers'[j] = [peers[j] EXCEPT !.okAt = m, !.fails = n]
      <4>1. CASE peers'[j] = [peers[j] EXCEPT !.okAt = clock, !.fails = 0]
        BY <4>1, <3>1, <3>4
      <4>2. CASE peers'[j] = [peers[j] EXCEPT !.okAt = peers[j].seen, !.fails = 0]
        BY <4>2, <3>4
      <4>3. CASE peers'[j] = [peers[j] EXCEPT !.fails = IF peers[j].fails < MaxFailures THEN peers[j].fails + 1 ELSE peers[j].fails]
        <5> DEFINE n == IF peers[j].fails < MaxFailures THEN peers[j].fails + 1 ELSE peers[j].fails
                   x == peers[j]
        <5>1. x \in RowSet /\ x.okAt \in Nat /\ n \in Nat /\ peers'[j] = [x EXCEPT !.fails = n]
          BY <4>3, <3>1, <3>4 DEF RowSet, Peers!Stored
        <5> HIDE DEF n, x
        <5>2. [x EXCEPT !.fails = n] = [x EXCEPT !.okAt = x.okAt, !.fails = n]
          BY <5>1 DEF RowSet, Peers!Stored
        <5> QED
          BY <5>1, <5>2 DEF x
      <4> QED
        BY <4>1, <4>2, <4>3, <3>3
    <3>6. Refreshed(peers[j], peers'[j])
      BY <3>5 DEF Refreshed
    <3> QED
      BY <3>1, <3>6, RowFacts, RowRefreshed
  <2>2. CASE ~(j \in Peers!Lookup(k[1]) /\ j[2] # "serial")
    BY <1>1, <2>2 DEF TableInv, TableTyped
  <2> QED
    BY <2>1, <2>2
<1>3. peers' \in [Storage -> RowSet \union {None}]
  BY <1>1, <1>2
<1> QED
  BY <1>2, <1>3 DEF SameRows

LEMMA ProbeKept ==
  ASSUME TableInv, NEW k \in Peers!Key, NEW answers \in BOOLEAN, Peers!Probe(k, answers)
  PROVE  TableInv'
<1>1. UNCHANGED <<index, peers_thread, clock, overlap, peers_spent>>
  BY DEF Peers!Probe
<1> QED
  BY <1>1, ProbedSame, SameRowsKeep

\* A stored row gets into the index.
LEMMA IndexKept ==
  ASSUME TableInv, NEW t \in Peers!Thread, Peers!Index(t)
  PROVE  TableInv'
<1> DEFINE me == peers_thread[t]
           k == Peers!KeyOf(me.row)
           w == Peers!NextStore(t)
<1>0. /\ me \in Work /\ Shape(me) /\ me.pc = "index" /\ me.row \in RowSet
      /\ UNCHANGED <<clock, overlap, peers_spent>>
  BY DEF Peers!Index, TableInv, TableTyped, Shape, Work
<1>1. SameRows(peers, peers')
  BY AliveSame DEF Peers!Index, TableInv, TableTyped
<1>2. /\ w \in Work /\ Shape(w) /\ w.popped = None /\ w.pc \in {"idle", "check"}
  BY NextStoreFits
<1>3. /\ \A u \in Peers!Thread : peers_thread'[u] = IF u = t THEN w ELSE peers_thread[u]
      /\ peers_thread' \in [Peers!Thread -> Work]
  BY <1>2 DEF Peers!Index, TableInv, TableTyped
<1>4. /\ DOMAIN index' = DOMAIN index
      /\ \A h \in DOMAIN index : index[h] \subseteq index'[h]
      /\ k[1] \in DOMAIN index => k \in index'[k[1]]
  BY <1>0, RowFacts DEF Peers!Index, Peers!Hashes
<1> HIDE DEF w, k
<1>5. /\ Peers!Rows' = Peers!Rows
      /\ \A j \in Peers!Rows : peers'[j].ip = peers[j].ip /\ j[1] \in DOMAIN index
  BY <1>1, KeysAre DEF SameRows, Peers!Rows, TableInv, TableTyped, Storage
<1>6. TableTyped'
  BY <1>0, <1>1, <1>2, <1>3, <1>4 DEF TableInv, TableTyped, SameRows
<1>7. RowsFound'
  <2> SUFFICES ASSUME NEW j \in Peers!Rows, j \notin overlap, ~Indexing(j)' PROVE j \in index'[j[1]]
    BY <1>0, <1>5 DEF RowsFound
  <2>1. j \in index[j[1]] \/ Indexing(j)
    BY DEF TableInv, RowsFound
  <2>2. Indexing(j) => j = k
    BY <1>3 DEF Indexing, k
  <2> QED
    BY <2>1, <2>2, <1>4, <1>5
<1>8. RowsGone' /\ RowsMerged'
  BY <1>0, <1>2, <1>3, <1>5 DEF TableInv, RowsGone, RowsMerged
<1>9. CrowdKnown' /\ AddressesCleared' /\ OneHash'
  BY <1>0, <1>2, <1>3, <1>5 DEF TableInv, CrowdKnown, AddressesCleared, Cleared,
     Ahead, OneHash
<1> QED
  BY <1>6, <1>7, <1>8, <1>9 DEF TableInv

-----------------------------------------------------------------------------
\* A row that finds another under its key.
LEMMA MergeKept ==
  ASSUME TableInv, NEW t \in Peers!Thread, Peers!Merge(t)
  PROVE  TableInv'
<1> DEFINE me == peers_thread[t]
           r == me.row
           k == Peers!KeyOf(r)
<1>0. /\ me \in Work /\ Shape(me) /\ me.pc = "merge" /\ me.popped = None /\ me.todo = {}
      /\ r \in RowSet /\ r # None /\ k \in Storage /\ Ahead(t)
      /\ UNCHANGED <<index, clock, peers_spent>> /\ overlap \subseteq overlap'
      /\ peers_spent' \in [hears : Nat, changes : Nat]
  BY RowFacts DEF Peers!Merge, TableInv, TableTyped, Shape, Work, Ahead
<1>1. CASE ~me.late /\ r.ip # None /\ r.ip # peers[k].ip /\ ~Peers!InScope(r.ip)
  <2> DEFINE w == [me EXCEPT !.pc = "drop", !.tell = "each", !.todo = {k}]
  <2>1. peers_thread' = [peers_thread EXCEPT ![t] = w] /\ UNCHANGED peers
    BY <1>1 DEF Peers!Merge
  <2>2. w \in Work /\ Shape(w) /\ w.popped = None /\ w.pc = "drop" /\ w.tell # "successor"
    BY <1>0 DEF Work, Shape, Stages
  <2> HIDE DEF w, k
  <2> QED
    BY <1>0, <2>1, <2>2, WorkGiven
<1>2. CASE ~(~me.late /\ r.ip # None /\ r.ip # peers[k].ip /\ ~Peers!InScope(r.ip))
  <2> DEFINE e == Peers!Merged(peers[k], r)
             p == IF me.late THEN peers ELSE [peers EXCEPT ![k] = e]
  <2>1. peers' = Peers!Alive(p, r.hash) /\ peers_thread' = [peers_thread EXCEPT ![t] = Peers!NextStore(t)]
    BY <1>2 DEF Peers!Merge
  <2>2. ~me.late => /\ peers[k] \in RowSet /\ peers[k] # None /\ e \in RowSet /\ Peers!KeyOf(e) = k
                    /\ Peers!KeyOf(peers[k]) = k
                    /\ e.ip = IF r.ip # None THEN r.ip ELSE peers[k].ip
    <3> SUFFICES ASSUME ~me.late
                 PROVE  /\ peers[k] \in RowSet /\ peers[k] # None /\ e \in RowSet /\ Peers!KeyOf(e) = k
                        /\ Peers!KeyOf(peers[k]) = k
                        /\ e.ip = IF r.ip # None THEN r.ip ELSE peers[k].ip
      OBVIOUS
    <3>1. peers[k] # None /\ peers[k] \in RowSet /\ Peers!KeyOf(peers[k]) = k
      BY <1>0 DEF TableInv, RowsMerged, Peers!Rows, TableTyped
    <3> QED
      BY <3>1, <1>0, RowMerged
  <2>3. /\ p \in [Storage -> RowSet \union {None}]
        /\ \A j \in Storage : /\ p[j] = None <=> peers[j] = None
                              /\ j # k \/ me.late => p[j] = peers[j]
                              /\ p[j] # None => Peers!KeyOf(p[j]) = j
        /\ ~me.late => p[k] = e
    <3>1. CASE me.late
      BY <3>1 DEF TableInv, TableTyped
    <3>2. CASE ~me.late
      <4> HIDE DEF e, k
      <4>1. p = [peers EXCEPT ![k] = e] /\ e # None
        BY <3>2, <2>2, RowFacts
      <4>2. peers \in [Storage -> RowSet \union {None}] /\ \A j \in Storage : peers[j] # None => Peers!KeyOf(peers[j]) = j
        BY DEF TableInv, TableTyped
      <4> HIDE DEF p
      <4> QED
        BY <4>1, <4>2, <3>2, <2>2, <1>0
    <3> QED
      BY <3>1, <3>2
  <2> HIDE DEF p, e, k
  <2>4. SameRows(p, peers')
    BY <2>1, <2>3, AliveSame
  <2>5. /\ Peers!Rows' = Peers!Rows
        /\ \A j \in Peers!Rows : j # k \/ me.late => peers'[j].ip = peers[j].ip
        /\ ~me.late => peers'[k].ip = IF r.ip # None THEN r.ip ELSE peers[k].ip
    <3>1. Peers!Rows' = Peers!Rows
      BY <2>3, <2>4, KeysAre DEF SameRows, Peers!Rows
    <3>2. \A j \in Storage : p[j] # None => peers'[j].ip = p[j].ip
      BY <2>4 DEF SameRows
    <3> QED
      BY <3>1, <3>2, <2>2, <2>3, <1>0, RowFacts, KeysAre DEF Peers!Rows
  <2> DEFINE w == Peers!NextStore(t)
  <2>6. w \in Work /\ Shape(w) /\ w.popped = None /\ w.pc \in {"idle", "check"}
    BY NextStoreFits
  <2>7. /\ \A u \in Peers!Thread : peers_thread'[u] = IF u = t THEN w ELSE peers_thread[u]
        /\ peers_thread' \in [Peers!Thread -> Work]
    BY <2>1, <2>6 DEF TableInv, TableTyped
  <2> HIDE DEF w
  <2>8. TableTyped'
    <3>1. \A j \in Storage : peers'[j] # None => Peers!KeyOf(peers'[j]) = j
      BY <2>3, <2>4 DEF SameRows
    <3> QED
      BY <3>1, <1>0, <2>4, <2>6, <2>7 DEF TableInv, TableTyped, SameRows
  <2>9. RowsFound' /\ RowsGone' /\ RowsMerged'
    <3>1. \A j : Indexing(j) => Indexing(j)'
      BY <1>0, <2>7 DEF Indexing
    <3> QED
      BY <3>1, <1>0, <2>5, <2>6, <2>7 DEF TableInv, RowsFound, RowsGone, RowsMerged
  <2>10. CrowdKnown'
    BY <1>0, <2>6, <2>7 DEF TableInv, CrowdKnown, Ahead
  <2>11. AddressesCleared'
    <3> SUFFICES ASSUME NEW u \in Peers!Thread, Ahead(u)' PROVE Cleared(u)'
      BY DEF AddressesCleared, Cleared
    <3>1. u # t /\ Ahead(u) /\ Cleared(u) /\ peers_thread'[u] = peers_thread[u]
      BY <2>6, <2>7 DEF Ahead, TableInv, AddressesCleared
    <3>2. k \in overlap /\ Peers!KeyOf(peers_thread[u].row) \in overlap
      BY <3>1, <1>0 DEF TableInv, CrowdKnown, k
    <3> QED
      BY <3>1, <3>2, <1>0, <2>5 DEF Cleared
  <2>12. OneHash'
    <3>1. \A j \in Peers!Rows : j[1] # k[1] /\ r.ip # None /\ peers[j].ip = r.ip => j \in overlap /\ k \in overlap
      BY <1>0, RowFacts DEF TableInv, AddressesCleared, Cleared, k
    <3>2. ASSUME NEW i \in Peers!Rows, NEW j \in Peers!Rows, i[1] # j[1], peers'[i].ip # None,
                 peers'[i].ip = peers'[j].ip
          PROVE  i \in overlap /\ j \in overlap
      <4>0. i \in Peers!Rows /\ j \in Peers!Rows /\ OneHash
        BY DEF TableInv
      <4>1. CASE me.late
        BY <4>0, <4>1, <3>2, <2>5 DEF OneHash
      <4>2. CASE ~me.late /\ i = k
        <5>1. j # k /\ peers'[j].ip = peers[j].ip
          BY <4>2, <3>2, <2>5
        <5>2. CASE r.ip # None
          BY <5>1, <5>2, <4>2, <3>1, <3>2, <2>5
        <5>3. CASE r.ip = None
          BY <5>1, <5>3, <4>0, <4>2, <3>2, <2>5 DEF OneHash
        <5> QED
          BY <5>2, <5>3
      <4>3. CASE ~me.late /\ j = k
        <5>1. i # k /\ peers'[i].ip = peers[i].ip
          BY <4>3, <3>2, <2>5
        <5>2. CASE r.ip # None
          BY <5>1, <5>2, <4>3, <3>1, <3>2, <2>5
        <5>3. CASE r.ip = None
          BY <5>1, <5>3, <4>0, <4>3, <3>2, <2>5 DEF OneHash
        <5> QED
          BY <5>2, <5>3
      <4>4. CASE i # k /\ j # k
        BY <4>0, <4>4, <3>2, <2>5 DEF OneHash
      <4> QED
        BY <4>1, <4>2, <4>3, <4>4
    <3> QED
      BY <3>2, <1>0, <2>5 DEF OneHash
  <2> QED
    BY <2>8, <2>9, <2>10, <2>11, <2>12 DEF TableInv
<1> QED
  BY <1>1, <1>2

-----------------------------------------------------------------------------
LEMMA TableKept ==
  ASSUME TableInv, [Peers!Next]_(Peers!vars)
  PROVE  TableInv'
<1>0. peers_spent \in [hears : Nat, changes : Nat] /\ clock \in Nat
  BY DEF TableInv, TableTyped
<1>1. CASE UNCHANGED Peers!vars
  BY <1>0, <1>1, TableUntouched DEF Peers!vars
<1>2. CASE Peers!Next
  <2>1. CASE \E a \in Advert : Peers!Hear(a)
    BY <2>1, HearKept
  <2>2. CASE \E t \in Peers!Thread : Peers!Check(t) \/ Peers!Unindex(t) \/ Peers!Dropped(t)
    BY <2>2, CheckKept, UnindexKept, DroppedKept
  <2>3. CASE \E t \in Peers!Thread : Peers!Insert(t) \/ Peers!Index(t) \/ Peers!Merge(t)
    BY <2>3, InsertKept, IndexKept, MergeKept
  <2>4. CASE \E t \in Peers!Thread, k \in Peers!Key : Peers!Pop(t, k)
    BY <2>4, PopKept
  <2>5. CASE \E k \in Peers!Key, answers \in BOOLEAN : Peers!Probe(k, answers)
    BY <2>5, ProbeKept
  <2>6. CASE \/ \E s \in Scope \union {None} : Peers!NewScope(s)
             \/ Peers!PurgeSilent \/ Peers!PurgeOld \/ Peers!Unplug \/ Peers!LearnOwn
    BY <2>6, PurgesKept
  <2>7. CASE Peers!Plug
    BY <1>0, <2>7, TableUntouched DEF Peers!Plug, Peers!Change
  <2>8. CASE Peers!Tick
    BY <1>0, <2>8, TableUntouched DEF Peers!Tick
  <2>9. CASE \E h \in PeersHash : Peers!Write(h)
    BY <1>0, <2>9, TableUntouched DEF Peers!Write
  <2> QED
    BY <1>2, <2>1, <2>2, <2>3, <2>4, <2>5, <2>6, <2>7, <2>8, <2>9 DEF Peers!Next
<1> QED
  BY <1>1, <1>2

LEMMA TableInvHolds == TableInv => TableHolds
<1> SUFFICES ASSUME TableInv PROVE Peers!FindableByHash /\ Peers!OneHashPerAddress
  BY DEF TableHolds, Peers!TableHolds
<1>1. Peers!FindableByHash
  <2> SUFFICES ASSUME NEW k \in Peers!Rows, k \notin overlap, ~Indexing(k) PROVE k \in Peers!Lookup(k[1])
    BY DEF Peers!FindableByHash, Indexing
  <2>1. k \in index[k[1]]
    BY DEF TableInv, RowsFound
  <2> QED
    BY <2>1 DEF Peers!Lookup
<1>2. Peers!OneHashPerAddress
  BY DEF TableInv, OneHash, Peers!OneHashPerAddress
<1> QED
  BY <1>1, <1>2

\* Whatever four threads do to the dictionaries of the discovered peers without a lock,
\* a row is found by its hash and an address is one peer, but for the rows one thread
\* dropped while another was storing them (_store_peer and _pop_peer_key in
\* core/discovery.py).
THEOREM TableAgrees == Spec => []TableHolds
<1>1. Init => TableInv
  BY TableStart DEF Init
<1>2. TableInv /\ [Next]_vars => TableInv'
  BY PeersSteps, TableKept
<1> QED
  BY <1>1, <1>2, TableInvHolds, PTL DEF Spec

-----------------------------------------------------------------------------
\* A row an eviction may take with its messages.
Silenced(k, seen) == clock - seen > Stale \/ k[1] \in local \/ k \in overlap
StoresNext(w) == w.pc \in {"drop", "insert", "merge"} /\ w.tell = "successor"
Heeds(w) ==
  /\ w.pc = "check" /\ w.row.via # "link" => Peers!Allowed(w.row)
  /\ \A i \in 1 .. Len(w.rest) : w.rest[i].via # "link" /\ Peers!Allowed(w.rest[i])
  /\ StoresNext(w) => Peers!Allowed(w.row)
  /\ w.tell = "each" =>
       /\ \A k \in w.todo : peers[k] # None => Silenced(k, peers[k].seen)
       /\ w.popped # None => Silenced(Peers!KeyOf(w.popped), w.popped.seen)
SilenceInv == peers_spent.changes = 0 => \A t \in Peers!Thread : Heeds(peers_thread[t])

\* What a row that is refused or stored later depends on, and what it does not.
Still == UNCHANGED <<usb, scope, peers_spent, clock>> /\ local \subseteq local' /\ overlap \subseteq overlap'

LEMMA SilenceStart == Peers!Init => SilenceInv
  BY IdleFacts DEF Peers!Init, SilenceInv, Heeds, StoresNext

\* Changes are counted.
LEMMA ChangeCounts ==
  ASSUME TableInv, Peers!Change
  PROVE  SilenceInv'
<1>1. peers_spent'.changes = peers_spent.changes + 1 /\ peers_spent.changes \in Nat
  BY DEF Peers!Change, TableInv, TableTyped
<1> QED
  BY <1>1 DEF SilenceInv

LEMMA HeedsTogether ==
  ASSUME NEW f, peers_thread' = f, peers_spent'.changes = 0 => \A t \in Peers!Thread : Heeds(f[t])'
  PROVE  SilenceInv'
  BY DEF SilenceInv, Heeds, StoresNext

\* What stays true of work that goes on as before.
LEMMA HeedsStill ==
  ASSUME Still, NEW w, NEW v, Heeds(w),
         v.pc = w.pc, v.row = w.row, v.rest = w.rest, v.tell = w.tell, v.popped = w.popped, v.todo = w.todo,
         \A k \in w.todo : peers'[k] # None =>
           k \in overlap' \/ (peers[k] # None /\ peers'[k].seen = peers[k].seen)
  PROVE  Heeds(v)'
<1>1. \A r : Peers!Allowed(r) => Peers!Allowed(r)'
  BY DEF Still, Peers!Allowed, Peers!InScope
<1>2. \A k, seen : Silenced(k, seen) => Silenced(k, seen)'
  BY DEF Still, Silenced
<1>3. \A k : k \in overlap' => Silenced(k, peers[k].seen)'
  BY DEF Silenced
<1>4. v.pc = "check" /\ v.row.via # "link" => Peers!Allowed(v.row)'
  BY <1>1 DEF Heeds
<1>5. \A i \in 1 .. Len(v.rest) : v.rest[i].via # "link" /\ Peers!Allowed(v.rest[i])'
  BY <1>1 DEF Heeds
<1>6. StoresNext(v) => Peers!Allowed(v.row)'
  BY <1>1 DEF Heeds, StoresNext
<1>7. ASSUME v.tell = "each", NEW k \in v.todo, peers'[k] # None
      PROVE  Silenced(k, peers[k].seen)'
  BY <1>3, <1>7 DEF Heeds, Still, Silenced
<1>8. ASSUME v.tell = "each", v.popped # None
      PROVE  Silenced(Peers!KeyOf(v.popped), v.popped.seen)'
  BY <1>2, <1>8 DEF Heeds
<1> QED
  BY <1>4, <1>5, <1>6, <1>7, <1>8 DEF Heeds

\* Work that begins, or goes on with the next row.
LEMMA HeedsNew ==
  ASSUME NEW w, w.tell \in {"no", "refused"}, w.pc \in {"idle", "drop"},
         \A i \in 1 .. Len(w.rest) : w.rest[i].via # "link" /\ Peers!Allowed(w.rest[i])'
  PROVE  Heeds(w)'
  BY DEF Heeds, StoresNext

LEMMA HeedsNext ==
  ASSUME TableInv, Still, NEW t \in Peers!Thread, Heeds(peers_thread[t])
  PROVE  \A w : w = Peers!NextStore(t) => Heeds(w)'
<1> SUFFICES ASSUME NEW w, w = Peers!NextStore(t) PROVE Heeds(w)'
  OBVIOUS
<1>0. \A r : Peers!Allowed(r) => Peers!Allowed(r)'
  BY DEF Still, Peers!Allowed, Peers!InScope
<1>1. w.popped = None /\ w.tell = "no"
  BY NextStoreFits
<1>2. CASE peers_thread[t].rest = <<>>
  <2>1. w = Peers!Idle
    BY <1>2 DEF Peers!NextStore
  <2>2. w.pc = "idle" /\ w.rest = <<>> /\ w.tell = "no"
    BY <2>1, IdleFacts
  <2> QED
    BY <2>2 DEF Heeds, StoresNext
<1>3. CASE peers_thread[t].rest # <<>>
  <2>1. PICK rest : rest = peers_thread[t].rest /\ rest \in Seq(RowSet) /\ rest # <<>>
    BY <1>3 DEF TableInv, TableTyped, Work
  <2>2. w.pc = "check" /\ w.row = Head(rest) /\ w.rest = Tail(rest)
    BY <1>3, <2>1 DEF Peers!NextStore, Peers!Idle
  <2>3. \A i \in 1 .. Len(rest) : rest[i].via # "link" /\ Peers!Allowed(rest[i])'
    BY <1>0, <2>1 DEF Heeds
  <2>4. Head(rest) = rest[1] /\ 1 \in 1 .. Len(rest)
    BY <2>1
  <2>5. \A i \in 1 .. Len(Tail(rest)) : i + 1 \in 1 .. Len(rest) /\ Tail(rest)[i] = rest[i + 1]
    BY <2>1
  <2>6. Peers!Allowed(w.row)'
    BY <2>2, <2>3, <2>4
  <2>7. \A i \in 1 .. Len(w.rest) : w.rest[i].via # "link" /\ Peers!Allowed(w.rest[i])'
    BY <2>2, <2>3, <2>5
  <2> QED
    BY <1>1, <2>2, <2>6, <2>7 DEF Heeds, StoresNext
<1> QED
  BY <1>2, <1>3

\* One thread goes on, and no row on another's list is heard unnoticed.
LEMMA OneHeeds ==
  ASSUME TableInv, SilenceInv, Still, NEW t \in Peers!Thread, NEW w,
         peers_thread' = [peers_thread EXCEPT ![t] = w],
         \A u \in Peers!Thread \ {t} : \A k \in peers_thread[u].todo : peers'[k] # None =>
           k \in overlap' \/ (peers[k] # None /\ peers'[k].seen = peers[k].seen),
         Heeds(peers_thread[t]) => Heeds(w)'
  PROVE  SilenceInv'
<1>1. PICK f : f = peers_thread'
  OBVIOUS
<1>2. peers_spent' = peers_spent
  BY DEF Still
<1>3. ASSUME peers_spent.changes = 0, NEW u \in Peers!Thread PROVE Heeds(f[u])'
  <2>1. PICK e : e = peers_thread[u]
    OBVIOUS
  <2>2. Heeds(e)
    BY <1>3, <2>1 DEF SilenceInv
  <2>3. CASE u = t
    <3>1. f[u] = w
      BY <1>1, <2>3 DEF TableInv, TableTyped
    <3>2. Heeds(peers_thread[t])
      BY <1>3 DEF SilenceInv
    <3>3. Heeds(w)'
      BY <3>2
    <3> QED
      BY <3>1, <3>3
  <2>4. CASE u # t
    <3>1. f[u] = e
      BY <1>1, <2>1, <2>4 DEF TableInv, TableTyped
    <3>2. Heeds(e)'
      BY <2>1, <2>2, <2>4, HeedsStill
    <3> QED
      BY <3>1, <3>2
  <2> QED
    BY <2>3, <2>4
<1> QED
  BY <1>1, <1>2, <1>3, HeedsTogether

\* What an advert brings is allowed, but for a link.
LEMMA OneAndMore ==
  ASSUME NEW r, NEW s
  PROVE  /\ <<r>> \o <<>> = <<r>>
         /\ LET q == <<r>> \o <<s>> IN Head(q) = r /\ Len(Tail(q)) = 1 /\ Tail(q)[1] = s
<1> DEFINE q == <<r>> \o <<s>>
<1>1. <<r>> \in Seq({r, s}) /\ <<s>> \in Seq({r, s}) /\ Len(<<r>>) = 1 /\ Len(<<s>>) = 1
  OBVIOUS
<1>2. q \in Seq({r, s}) /\ Len(q) = 2 /\ q[1] = r /\ q[2] = s
  BY <1>1, ConcatProperties
<1>3. <<r>> \o <<>> = <<r>>
  BY <1>1, ConcatEmptySeq
<1> HIDE DEF q
<1>4. Head(q) = r /\ Len(Tail(q)) = 1 /\ Tail(q)[1] = s
  <2>1. q # <<>>
    BY <1>2
  <2> QED
    BY <2>1, <1>2, HeadTailProperties
<1> QED
  BY <1>3, <1>4 DEF q

LEMMA AdvertsFit ==
  ASSUME TableInv, NEW a \in Advert, NEW rows \in Peers!Stores(a)
  PROVE  /\ Head(rows).via # "link" => Peers!Allowed(Head(rows))
         /\ \A i \in 1 .. Len(Tail(rows)) : Tail(rows)[i].via # "link" /\ Peers!Allowed(Tail(rows)[i])
<1>1. clock \in Nat
  BY DEF TableInv, TableTyped
<1>2. CASE a.from = "announce"
  <2>1. rows = <<Peers!Row(a, Peers!Via(a))>> /\ Peers!Via(a) \in {"lan", "serial"} /\ Peers!Via(a) # None
    BY <1>1, <1>2, RowsOfAdverts DEF Peers!Stores
  <2>2. PICK r : r = Peers!Row(a, Peers!Via(a))
    OBVIOUS
  <2>21. r.via = Peers!Via(a) /\ (r.via = "lan" => r.ip = a.ip)
    BY <2>1, <2>2 DEF Peers!Row
  <2>22. (Peers!Via(a) = "serial" => usb) /\ (Peers!Via(a) = "lan" => a.ip # None /\ Peers!InScope(a.ip))
    BY <2>1 DEF Peers!Via
  <2>3. Peers!Allowed(r)
    BY <2>1, <2>21, <2>22 DEF Peers!Allowed
  <2>4. rows = <<r>>
    BY <2>1, <2>2
  <2>5. Head(rows) = r /\ Len(Tail(rows)) = 0
    BY <2>4
  <2>6. 1 .. Len(Tail(rows)) = {}
    <3>1. 1 .. 0 = {}
      OBVIOUS
    <3> QED
      BY <2>5, <3>1
  <2> QED
    BY <2>3, <2>5, <2>6
<1>3. CASE a.from = "link"
  <2>1. PICK r : r = Peers!Row(a, "link") /\ rows = <<r>>
    BY <1>3 DEF Peers!Stores
  <2>2. Head(rows) = r /\ Len(Tail(rows)) = 0 /\ r.via = "link"
    BY <2>1 DEF Peers!Row
  <2>3. 1 .. Len(Tail(rows)) = {}
    <3>1. 1 .. 0 = {}
      OBVIOUS
    <3> QED
      BY <2>2, <3>1
  <2> QED
    BY <2>2, <2>3
<1>4. CASE a.from = "beacon"
  <2>0. a.ip # None /\ Peers!InScope(a.ip)
    BY <1>4 DEF Peers!Stores
  <2>1. PICK r \in Peers!Named(Peers!Row(a, "lan")) :
          rows = <<r>> \o (IF a.serial = None \/ ~usb \/ a.serial \in local THEN <<>>
                           ELSE <<[Peers!Row(a, "serial") EXCEPT !.hash = a.serial, !.name = r.name]>>)
    BY <1>4 DEF Peers!Stores
  <2>2. r.via = "lan" /\ r.ip = a.ip
    <3>1. Peers!Row(a, "lan") \in RowSet /\ Peers!Row(a, "lan").via = "lan" /\ Peers!Row(a, "lan").ip = a.ip
      BY <1>1, RowsOfAdverts DEF Peers!Row
    <3> QED
      BY <3>1, <2>1, NamedRows
  <2>3. Peers!Allowed(r)
    BY <2>0, <2>2 DEF Peers!Allowed
  <2>4. CASE a.serial = None \/ ~usb \/ a.serial \in local
    <3>1. rows = <<r>>
      BY <2>1, <2>4, OneAndMore
    <3>2. Head(rows) = r /\ Len(Tail(rows)) = 0
      BY <3>1
    <3>3. 1 .. Len(Tail(rows)) = {}
      <4>1. 1 .. 0 = {}
        OBVIOUS
      <4> QED
        BY <3>2, <4>1
    <3> QED
      BY <2>3, <3>2, <3>3
  <2>5. CASE ~(a.serial = None \/ ~usb \/ a.serial \in local)
    <3>1. PICK s : s = [Peers!Row(a, "serial") EXCEPT !.hash = a.serial, !.name = r.name]
      OBVIOUS
    <3>2. s.via = "serial" /\ Peers!Allowed(s)
      BY <3>1, <2>5 DEF Peers!Row, Peers!Allowed
    <3>3. rows = <<r>> \o <<s>>
      BY <2>1, <2>5, <3>1
    <3>4. Head(rows) = r /\ Len(Tail(rows)) = 1 /\ Tail(rows)[1] = s
      BY <3>3, OneAndMore
    <3> QED
      BY <2>3, <3>2, <3>4
  <2> QED
    BY <2>4, <2>5
<1> QED
  BY <1>2, <1>3, <1>4, AdvertAssumption

LEMMA HearHeeded ==
  ASSUME TableInv, SilenceInv, NEW a \in Advert, Peers!Hear(a)
  PROVE  SilenceInv'
<1>1. PICK t \in Peers!Thread, rows \in Peers!Stores(a) :
        peers_thread' = [peers_thread EXCEPT ![t] =
             [Peers!Idle EXCEPT !.pc = "check", !.row = Head(rows), !.rest = Tail(rows)]]
  BY DEF Peers!Hear, Peers!Thread
<1>2. PICK w : w = [Peers!Idle EXCEPT !.pc = "check", !.row = Head(rows), !.rest = Tail(rows)]
  OBVIOUS
<1>3. w.pc = "check" /\ w.row = Head(rows) /\ w.rest = Tail(rows) /\ w.tell = "no"
  BY <1>2 DEF Peers!Idle
<1>4. UNCHANGED <<peers, usb, scope, clock, local, overlap>>
  BY DEF Peers!Hear
<1>5. peers_spent'.changes = peers_spent.changes
  BY DEF Peers!Hear, TableInv, TableTyped
<1>6. PICK f : f = peers_thread'
  OBVIOUS
<1>7. ASSUME peers_spent.changes = 0, NEW u \in Peers!Thread PROVE Heeds(f[u])'
  <2>1. CASE u = t
    <3>1. f[u] = w
      BY <1>1, <1>2, <1>6, <2>1 DEF TableInv, TableTyped
    <3>2. Heeds(w)
      BY <1>3, AdvertsFit DEF Heeds, StoresNext
    <3> QED
      BY <3>1, <3>2, <1>4 DEF Heeds, StoresNext, Peers!Allowed, Peers!InScope,
         Silenced
  <2>2. CASE u # t
    <3>1. f[u] = peers_thread[u] /\ Heeds(peers_thread[u])
      BY <1>1, <1>6, <1>7, <2>2 DEF TableInv, TableTyped, SilenceInv
    <3>2. Heeds(f[u])
      BY <3>1
    <3> QED
      BY <3>2, <1>4 DEF Heeds, StoresNext, Peers!Allowed, Peers!InScope, Silenced
  <2> QED
    BY <2>1, <2>2
<1> QED
  BY <1>5, <1>6, <1>7, HeedsTogether

LEMMA CheckHeeded ==
  ASSUME TableInv, SilenceInv, NEW t \in Peers!Thread, Peers!Check(t)
  PROVE  SilenceInv'
<1>0. Still /\ UNCHANGED peers
  BY DEF Peers!Check, Still
<1>1. PICK me : me = peers_thread[t]
  OBVIOUS
<1>2. me.pc = "check" /\ me \in Work /\ me.row \in RowSet /\ me.todo = {} /\ me.popped = None
  BY <1>1 DEF Peers!Check, TableInv, TableTyped, Shape, Work
<1>3. PICK r \in Peers!Attached(me.row) :
        peers_thread' = [peers_thread EXCEPT ![t] =
          IF r.hash \in local THEN Peers!NextStore(t)
          ELSE IF Peers!Allowed(r)
          THEN [me EXCEPT !.pc = "drop", !.tell = "successor", !.row = r, !.todo = Peers!Superseded(r)]
          ELSE [me EXCEPT !.pc = "drop", !.tell = IF r.via = "link" THEN "refused" ELSE "each",
                          !.row = None, !.todo = {k \in Peers!Rows : k[1] = r.hash}]]
  BY <1>1 DEF Peers!Check
<1>30. PICK w :
        /\ peers_thread' = [peers_thread EXCEPT ![t] = w]
        /\ w = IF r.hash \in local THEN Peers!NextStore(t)
               ELSE IF Peers!Allowed(r)
               THEN [me EXCEPT !.pc = "drop", !.tell = "successor", !.row = r, !.todo = Peers!Superseded(r)]
               ELSE [me EXCEPT !.pc = "drop", !.tell = IF r.via = "link" THEN "refused" ELSE "each",
                               !.row = None, !.todo = {k \in Peers!Rows : k[1] = r.hash}]
  BY <1>3
<1>4. /\ r.via = me.row.via
      /\ me.row.ip # None \/ me.row.via = "serial" => r = me.row
      /\ me.row.ip = None /\ r.ip # None => Peers!InScope(r.ip)
  BY <1>2, AttachedRows
<1>5. Peers!Allowed(me.row) => Peers!Allowed(r)
  BY <1>4 DEF Peers!Allowed, Peers!InScope
<1>6. \A s : Peers!Allowed(s) => Peers!Allowed(s)'
  BY <1>0 DEF Still, Peers!Allowed, Peers!InScope
<1>7. ASSUME Heeds(me) PROVE Heeds(w)'
  <2>0. \A i \in 1 .. Len(me.rest) : me.rest[i].via # "link" /\ Peers!Allowed(me.rest[i])'
    BY <1>6, <1>7 DEF Heeds
  <2>1. CASE r.hash \in local
    BY <2>1, <1>0, <1>1, <1>30, <1>7, HeedsNext
  <2>2. CASE r.hash \notin local /\ Peers!Allowed(r)
    <3>1. w.pc = "drop" /\ w.tell = "successor" /\ w.row = r /\ w.rest = me.rest
      BY <2>2, <1>2, <1>30 DEF Work
    <3> QED
      BY <3>1, <2>0, <2>2, <1>6 DEF Heeds, StoresNext
  <2>3. CASE r.hash \notin local /\ ~Peers!Allowed(r)
    <3>1. r.via = "link"
      BY <2>3, <1>2, <1>4, <1>5, <1>7 DEF Heeds
    <3>2. w.pc = "drop" /\ w.tell = "refused" /\ w.rest = me.rest
      BY <2>3, <3>1, <1>2, <1>30 DEF Work
    <3> QED
      BY <3>2, <2>0 DEF Heeds, StoresNext
  <2> QED
    BY <2>1, <2>2, <2>3
<1>8. \A u \in Peers!Thread \ {t} : \A k \in peers_thread[u].todo : peers'[k] # None =>
           k \in overlap' \/ (peers[k] # None /\ peers'[k].seen = peers[k].seen)
  BY <1>0
<1> QED
  BY <1>0, <1>1, <1>30, <1>7, <1>8, OneHeeds

LEMMA PopHeeded ==
  ASSUME TableInv, SilenceInv, NEW t \in Peers!Thread, NEW k \in Peers!Key, Peers!Pop(t, k)
  PROVE  SilenceInv'
<1>0. /\ Still /\ k \in Storage /\ peers' = [peers EXCEPT ![k] = None]
      /\ k \in peers_thread[t].todo /\ peers_thread[t].popped = None
  BY KeysAre DEF Peers!Pop, Still
<1>1. \A j : peers'[j] # None => j \in overlap' \/ (peers[j] # None /\ peers'[j].seen = peers[j].seen)
  BY <1>0 DEF TableInv, TableTyped
<1>2. PICK f : f = peers_thread'
  OBVIOUS
<1>3. ASSUME peers_spent.changes = 0, NEW u \in Peers!Thread PROVE Heeds(f[u])'
  <2>1. PICK me : me = peers_thread[u] /\ me \in Work /\ Heeds(me)
    BY <1>3 DEF TableInv, TableTyped, SilenceInv
  <2>2. PICK v : v = f[u]
    OBVIOUS
  <2>3. CASE u # t
    <3>1. v = me \/ v = [me EXCEPT !.late = TRUE]
      BY <1>2, <2>1, <2>2, <2>3 DEF Peers!Pop
    <3>2. /\ v.pc = me.pc /\ v.row = me.row /\ v.rest = me.rest /\ v.tell = me.tell /\ v.popped = me.popped
          /\ v.todo = me.todo
      BY <2>1, <3>1 DEF Work
    <3>3. Heeds(v)'
      BY <1>0, <1>1, <2>1, <3>2, HeedsStill
    <3> QED
      BY <2>2, <3>3
  <2>4. CASE u = t
    <3>1. PICK r : r = peers[k]
      OBVIOUS
    <3>2. v = [me EXCEPT !.todo = me.todo \ {k}, !.popped = r,
                 !.removed = IF me.tell = "successor" THEN me.removed \union {k[1]} ELSE me.removed]
      BY <1>2, <2>1, <2>2, <2>4, <3>1 DEF Peers!Pop
    <3>3. /\ v.pc = me.pc /\ v.row = me.row /\ v.rest = me.rest /\ v.tell = me.tell /\ v.popped = r
          /\ v.todo = me.todo \ {k}
      BY <2>1, <3>2 DEF Work
    <3> DEFINE w == [me EXCEPT !.todo = me.todo \ {k}]
    <3>4. PICK x : x = w
      OBVIOUS
    <3>5. /\ x.pc = me.pc /\ x.row = me.row /\ x.rest = me.rest /\ x.tell = me.tell /\ x.popped = None
          /\ x.todo = me.todo \ {k} /\ me.popped = None
      BY <1>0, <2>1, <2>4, <3>4 DEF Work
    <3>6. Heeds(x)
      BY <2>1, <3>5 DEF Heeds, StoresNext
    <3>7. Heeds(x)'
      BY <1>0, <1>1, <3>6, HeedsStill
    <3>8. r # None /\ v.tell = "each" => Silenced(Peers!KeyOf(r), r.seen)'
      <4> SUFFICES ASSUME r # None, v.tell = "each" PROVE Silenced(Peers!KeyOf(r), r.seen)'
        OBVIOUS
      <4>1. Silenced(k, r.seen)
        BY <1>0, <2>1, <2>4, <3>1, <3>3 DEF Heeds
      <4>2. Peers!KeyOf(r) = k
        BY <1>0, <3>1 DEF TableInv, TableTyped
      <4> QED
        BY <4>1, <4>2, <1>0 DEF Silenced, Still
    <3>9. Heeds(v)'
      BY <3>3, <3>5, <3>7, <3>8 DEF Heeds, StoresNext
    <3> QED
      BY <2>2, <3>9
  <2> QED
    BY <2>3, <2>4
<1>4. peers_spent' = peers_spent
  BY <1>0 DEF Still
<1> QED
  BY <1>2, <1>3, <1>4, HeedsTogether

LEMMA UnindexHeeded ==
  ASSUME TableInv, SilenceInv, NEW t \in Peers!Thread, Peers!Unindex(t)
  PROVE  SilenceInv'
<1>1. PICK me : me = peers_thread[t] /\ me \in Work
  BY DEF TableInv, TableTyped
<1>2. PICK w : w = [me EXCEPT !.popped = None]
  OBVIOUS
<1>3. Still /\ UNCHANGED peers /\ peers_thread' = [peers_thread EXCEPT ![t] = w]
  BY <1>1, <1>2 DEF Peers!Unindex, Still
<1>4. /\ w.pc = me.pc /\ w.row = me.row /\ w.rest = me.rest /\ w.tell = me.tell /\ w.popped = None
      /\ w.todo = me.todo
  BY <1>1, <1>2 DEF Work
<1>5. ASSUME Heeds(me) PROVE Heeds(w)'
  <2>1. Heeds(w)
    BY <1>4, <1>5 DEF Heeds, StoresNext
  <2> QED
    BY <2>1, <1>3, HeedsStill
<1>6. \A u \in Peers!Thread \ {t} : \A k \in peers_thread[u].todo : peers'[k] # None =>
           k \in overlap' \/ (peers[k] # None /\ peers'[k].seen = peers[k].seen)
  BY <1>3
<1> QED
  BY <1>1, <1>3, <1>5, <1>6, OneHeeds

LEMMA DroppedHeeded ==
  ASSUME TableInv, SilenceInv, NEW t \in Peers!Thread, Peers!Dropped(t)
  PROVE  SilenceInv'
<1>1. PICK me : me = peers_thread[t] /\ me \in Work
  BY DEF TableInv, TableTyped
<1>2. PICK w : w = IF me.tell = "successor"
                   THEN [me EXCEPT !.pc = IF peers[Peers!KeyOf(me.row)] = None THEN "insert" ELSE "merge"]
                   ELSE Peers!NextStore(t)
  OBVIOUS
<1>3. Still /\ UNCHANGED peers /\ peers_thread' = [peers_thread EXCEPT ![t] = w] /\ me.pc = "drop"
  BY <1>1, <1>2 DEF Peers!Dropped, Still
<1>5. ASSUME Heeds(me) PROVE Heeds(w)'
  <2>1. CASE me.tell = "successor"
    <3>1. /\ w.pc \in {"insert", "merge"} /\ w.row = me.row /\ w.rest = me.rest /\ w.tell = me.tell
          /\ w.popped = me.popped /\ w.todo = me.todo
      BY <1>1, <1>2, <2>1 DEF Work
    <3>2. Heeds(w)
      BY <3>1, <2>1, <1>3, <1>5 DEF Heeds, StoresNext
    <3> QED
      BY <3>2, <1>3, HeedsStill
  <2>2. CASE me.tell # "successor"
    BY <2>2, <1>1, <1>2, <1>3, <1>5, HeedsNext
  <2> QED
    BY <2>1, <2>2
<1>6. \A u \in Peers!Thread \ {t} : \A k \in peers_thread[u].todo : peers'[k] # None =>
           k \in overlap' \/ (peers[k] # None /\ peers'[k].seen = peers[k].seen)
  BY <1>3
<1> QED
  BY <1>1, <1>3, <1>5, <1>6, OneHeeds

\* A key on another's list is busy.
LEMMA ListedIsDropping ==
  ASSUME NEW u \in Peers!Thread, NEW k \in peers_thread[u].todo
  PROVE  Peers!Dropping(k)
  BY DEF Peers!Dropping

LEMMA InsertHeeded ==
  ASSUME TableInv, SilenceInv, NEW t \in Peers!Thread, Peers!Insert(t)
  PROVE  SilenceInv'
<1>1. PICK me : me = peers_thread[t] /\ me \in Work
  BY DEF TableInv, TableTyped
<1>2. PICK w, k : w = [me EXCEPT !.pc = "index"] /\ k = Peers!KeyOf(me.row)
  OBVIOUS
<1>3. /\ Still /\ peers_thread' = [peers_thread EXCEPT ![t] = w] /\ me.pc = "insert"
      /\ peers' = [peers EXCEPT ![k] = me.row] /\ (Peers!Dropping(k) => k \in overlap')
  BY <1>1, <1>2 DEF Peers!Insert, Still
<1>4. /\ w.pc = "index" /\ w.row = me.row /\ w.rest = me.rest /\ w.tell = me.tell /\ w.popped = me.popped
      /\ w.todo = me.todo
  BY <1>1, <1>2 DEF Work
<1>5. ASSUME NEW u \in Peers!Thread, NEW j \in peers_thread[u].todo, peers'[j] # None
      PROVE  j \in overlap' \/ (peers[j] # None /\ peers'[j].seen = peers[j].seen)
  BY <1>3, <1>5, ListedIsDropping DEF TableInv, TableTyped
<1>6. ASSUME Heeds(me) PROVE Heeds(w)'
  <2>1. Heeds(w)
    BY <1>3, <1>4, <1>6 DEF Heeds, StoresNext
  <2> QED
    BY <2>1, <1>1, <1>3, <1>4, <1>5, HeedsStill
<1> QED
  BY <1>1, <1>3, <1>5, <1>6, OneHeeds

LEMMA IndexHeeded ==
  ASSUME TableInv, SilenceInv, NEW t \in Peers!Thread, Peers!Index(t)
  PROVE  SilenceInv'
<1>1. PICK w : w = Peers!NextStore(t)
  OBVIOUS
<1>2. Still /\ peers_thread' = [peers_thread EXCEPT ![t] = w]
  BY <1>1 DEF Peers!Index, Still
<1>3. SameRows(peers, peers')
  BY AliveSame DEF Peers!Index, TableInv, TableTyped
<1>4. ASSUME NEW u \in Peers!Thread, NEW j \in peers_thread[u].todo, peers'[j] # None
      PROVE  peers[j] # None /\ peers'[j].seen = peers[j].seen
  BY <1>3, <1>4 DEF SameRows, TableInv, TableTyped, Work
<1> QED
  BY <1>1, <1>2, <1>4, HeedsNext, OneHeeds

LEMMA MergeHeeded ==
  ASSUME TableInv, SilenceInv, NEW t \in Peers!Thread, Peers!Merge(t)
  PROVE  SilenceInv'
<1>0. PICK me : me = peers_thread[t] /\ me \in Work /\ me.pc = "merge" /\ me.tell = "successor" /\ me.row \in RowSet
  BY DEF Peers!Merge, TableInv, TableTyped, Shape, Work
<1>1. PICK r, k : r = me.row /\ k = Peers!KeyOf(r)
  OBVIOUS
<1>2. Still /\ (Peers!Dropping(k) => k \in overlap')
  BY <1>0, <1>1 DEF Peers!Merge, Still
<1>3. CASE ~me.late /\ r.ip # None /\ r.ip # peers[k].ip /\ ~Peers!InScope(r.ip)
  <2>1. PICK w : w = [me EXCEPT !.pc = "drop", !.tell = "each", !.todo = {k}]
    OBVIOUS
  <2>2. peers_thread' = [peers_thread EXCEPT ![t] = w] /\ UNCHANGED peers
    BY <1>0, <1>1, <1>3, <2>1 DEF Peers!Merge
  <2>3. ~Heeds(me)
    BY <1>0, <1>1, <1>3 DEF Heeds, StoresNext, Peers!Allowed, Peers!InScope, RowSet
  <2> QED
    BY <1>0, <1>2, <2>2, <2>3, OneHeeds
<1>4. CASE ~(~me.late /\ r.ip # None /\ r.ip # peers[k].ip /\ ~Peers!InScope(r.ip))
  <2>1. PICK w : w = Peers!NextStore(t)
    OBVIOUS
  <2>2. /\ peers_thread' = [peers_thread EXCEPT ![t] = w]
        /\ peers' = Peers!Alive(IF me.late THEN peers ELSE [peers EXCEPT ![k] = Peers!Merged(peers[k], r)], r.hash)
    BY <1>0, <1>1, <1>4, <2>1 DEF Peers!Merge
  <2>3. PICK p : p = IF me.late THEN peers ELSE [peers EXCEPT ![k] = Peers!Merged(peers[k], r)]
    OBVIOUS
  <2>4. /\ p \in [Storage -> RowSet \union {None}]
        /\ \A j \in Storage : (p[j] = None <=> peers[j] = None) /\ (j # k => p[j] = peers[j])
    <3>1. peers \in [Storage -> RowSet \union {None}]
      BY DEF TableInv, TableTyped
    <3>2. CASE me.late
      BY <3>1, <3>2, <2>3
    <3>3. CASE ~me.late
      <4>1. k \in Storage /\ peers[k] \in RowSet /\ peers[k] # None /\ Peers!KeyOf(peers[k]) = Peers!KeyOf(r)
        BY <1>0, <1>1, <3>3, KeysAre DEF TableInv, TableTyped, RowsMerged,
           Peers!Rows
      <4>2. PICK e : e = Peers!Merged(peers[k], r)
        OBVIOUS
      <4>3. e \in RowSet /\ e # None
        BY <4>1, <4>2, <1>0, <1>1, RowMerged
      <4>4. p = [peers EXCEPT ![k] = e]
        BY <2>3, <3>3, <4>2
      <4> QED
        BY <3>1, <4>1, <4>3, <4>4
    <3> QED
      BY <3>2, <3>3
  <2>5. SameRows(p, peers')
    BY <2>2, <2>3, <2>4, AliveSame
  <2>6. ASSUME NEW u \in Peers!Thread, NEW j \in peers_thread[u].todo, peers'[j] # None
        PROVE  j \in overlap' \/ (peers[j] # None /\ peers'[j].seen = peers[j].seen)
    <3>1. CASE j = k
      BY <3>1, <1>2, ListedIsDropping
    <3>2. CASE j # k
      <4>1. j \in Storage
        BY DEF TableInv, TableTyped, Work
      <4> QED
        BY <4>1, <3>2, <2>4, <2>5, <2>6 DEF SameRows
    <3> QED
      BY <3>1, <3>2
  <2> QED
    BY <1>2, <2>1, <2>2, <2>6, HeedsNext, OneHeeds
<1> QED
  BY <1>3, <1>4

\* The purges: what they list was silent, is this node's own, or goes without a word.
LEMMA PurgeHeeded ==
  ASSUME TableInv, SilenceInv, Still, UNCHANGED peers, NEW t \in Peers!Thread, NEW keys, NEW tell \in {"no", "each"},
         Peers!Purge(t, keys, tell), tell = "each" => \A k \in keys : Silenced(k, peers[k].seen)'
  PROVE  SilenceInv'
<1>1. PICK w : w = [Peers!Idle EXCEPT !.pc = "drop", !.todo = keys, !.tell = tell]
  OBVIOUS
<1>2. peers_thread' = [peers_thread EXCEPT ![t] = w]
  BY <1>1 DEF Peers!Purge
<1>3. w.pc = "drop" /\ w.todo = keys /\ w.tell = tell /\ w.rest = <<>> /\ w.popped = None
  BY <1>1 DEF Peers!Idle
<1>4. Heeds(w)'
  BY <1>3 DEF Heeds, StoresNext
<1> QED
  BY <1>2, <1>4, OneHeeds

LEMMA StillHeeded ==
  ASSUME TableInv, SilenceInv, Still, UNCHANGED <<peers, peers_thread>>
  PROVE  SilenceInv'
<1>1. PICK f : f = peers_thread'
  OBVIOUS
<1>2. ASSUME peers_spent.changes = 0, NEW u \in Peers!Thread PROVE Heeds(f[u])'
  <2>1. Heeds(f[u])
    BY <1>1, <1>2 DEF SilenceInv
  <2> QED
    BY <2>1, HeedsStill
<1>3. peers_spent' = peers_spent
  BY DEF Still
<1> QED
  BY <1>1, <1>2, <1>3, HeedsTogether

LEMMA PurgesHeeded ==
  ASSUME TableInv, SilenceInv, Peers!PurgeSilent \/ Peers!PurgeOld \/ Peers!Unplug \/ Peers!LearnOwn
                   \/ \E s \in Scope \union {None} : Peers!NewScope(s)
  PROVE  SilenceInv'
<1>0. "probe" \in Peers!Thread /\ "loop" \in Peers!Thread
  BY DEF Peers!Thread
<1>1. CASE Peers!PurgeSilent
  <2>1. Still /\ UNCHANGED peers
    BY <1>1 DEF Peers!PurgeSilent, Still
  <2>2. PICK keys : keys = {k \in Peers!Rows : Peers!Silent(k)}
    OBVIOUS
  <2>3. Peers!Purge("probe", keys, "each")
    BY <1>1, <2>2 DEF Peers!PurgeSilent
  <2>4. \A k \in keys : Silenced(k, peers[k].seen)'
    BY <2>1, <2>2 DEF Peers!Silent, Silenced, Still
  <2> QED
    BY <1>0, <2>1, <2>3, <2>4, PurgeHeeded
<1>2. CASE Peers!PurgeOld
  <2>1. Still /\ UNCHANGED peers
    BY <1>2 DEF Peers!PurgeOld, Still
  <2>2. PICK keys : Peers!Purge("loop", keys, "no")
    BY <1>2 DEF Peers!PurgeOld
  <2> QED
    BY <1>0, <2>1, <2>2, PurgeHeeded
<1>3. CASE Peers!Unplug \/ \E s \in Scope \union {None} : Peers!NewScope(s)
  BY <1>3, ChangeCounts DEF Peers!Unplug, Peers!NewScope
<1>4. CASE Peers!LearnOwn
  <2>1. Still /\ UNCHANGED peers /\ local' = {Own}
    BY <1>4 DEF Peers!LearnOwn, Still
  <2>2. PICK mine : mine = {k \in Peers!Rows : k[1] = Own}
    OBVIOUS
  <2>3. UNCHANGED peers_thread \/ Peers!Purge("loop", mine, "each")
    BY <1>4, <2>2 DEF Peers!LearnOwn
  <2>4. \A k \in mine : Silenced(k, peers[k].seen)'
    BY <2>1, <2>2 DEF Silenced
  <2> QED
    BY <1>0, <2>1, <2>3, <2>4, PurgeHeeded, StillHeeded
<1> QED
  BY <1>1, <1>2, <1>3, <1>4

\* Time passes only when nobody has anything on a list.
LEMMA TickHeeded ==
  ASSUME TableInv, SilenceInv, Peers!Tick
  PROVE  SilenceInv'
<1>1. \A t \in Peers!Thread : peers_thread'[t] = Peers!Idle
  BY DEF Peers!Tick
<1> QED
  BY <1>1, IdleFacts DEF SilenceInv, Heeds, StoresNext

LEMMA ProbeHeeded ==
  ASSUME TableInv, SilenceInv, NEW k \in Peers!Key, NEW answers \in BOOLEAN, Peers!Probe(k, answers)
  PROVE  SilenceInv'
<1>1. Still /\ UNCHANGED peers_thread
  BY DEF Peers!Probe, Still
<1>2. SameRows(peers, peers')
  BY ProbedSame
<1>3. PICK f : f = peers_thread'
  OBVIOUS
<1>4. ASSUME peers_spent.changes = 0, NEW u \in Peers!Thread PROVE Heeds(f[u])'
  <2>1. Heeds(f[u])
    BY <1>1, <1>3, <1>4 DEF SilenceInv
  <2>2. \A j \in f[u].todo : peers'[j] # None => peers[j] # None /\ peers'[j].seen = peers[j].seen
    BY <1>1, <1>2, <1>3 DEF SameRows, TableInv, TableTyped, Work
  <2> QED
    BY <2>1, <2>2, <1>1, HeedsStill
<1>5. peers_spent' = peers_spent
  BY <1>1 DEF Still
<1> QED
  BY <1>3, <1>4, <1>5, HeedsTogether

LEMMA SilenceKept ==
  ASSUME TableInv, SilenceInv, [Peers!Next]_(Peers!vars)
  PROVE  SilenceInv'
<1>1. CASE UNCHANGED Peers!vars
  BY <1>1, StillHeeded DEF Peers!vars, Still
<1>2. CASE Peers!Next
  <2>1. CASE \E a \in Advert : Peers!Hear(a)
    BY <2>1, HearHeeded
  <2>2. CASE \E t \in Peers!Thread : Peers!Check(t) \/ Peers!Unindex(t) \/ Peers!Dropped(t)
    BY <2>2, CheckHeeded, UnindexHeeded, DroppedHeeded
  <2>3. CASE \E t \in Peers!Thread : Peers!Insert(t) \/ Peers!Index(t) \/ Peers!Merge(t)
    BY <2>3, InsertHeeded, IndexHeeded, MergeHeeded
  <2>4. CASE \E t \in Peers!Thread, k \in Peers!Key : Peers!Pop(t, k)
    BY <2>4, PopHeeded
  <2>5. CASE \E k \in Peers!Key, answers \in BOOLEAN : Peers!Probe(k, answers)
    BY <2>5, ProbeHeeded
  <2>6. CASE \/ \E s \in Scope \union {None} : Peers!NewScope(s)
             \/ Peers!PurgeSilent \/ Peers!PurgeOld \/ Peers!Unplug \/ Peers!LearnOwn
    BY <2>6, PurgesHeeded
  <2>7. CASE Peers!Plug
    BY <2>7, ChangeCounts DEF Peers!Plug
  <2>8. CASE Peers!Tick
    BY <2>8, TickHeeded
  <2>9. CASE \E h \in PeersHash : Peers!Write(h)
    BY <2>9, StillHeeded DEF Peers!Write, Still
  <2> QED
    BY <1>2, <2>1, <2>2, <2>3, <2>4, <2>5, <2>6, <2>7, <2>8, <2>9 DEF Peers!Next
<1> QED
  BY <1>1, <1>2

-----------------------------------------------------------------------------
\* A row that was taken is given up by the end of its eviction only.
LEMMA GivenUp ==
  ASSUME TableInv, Peers!Next, NEW t \in Peers!Thread, peers_thread[t].popped # None, peers_thread'[t].popped = None
  PROVE  Peers!Unindex(t)
<1>0. /\ peers_thread[t].pc = "drop" /\ peers_thread[t] # Peers!Idle
      /\ peers_thread \in [Peers!Thread -> Work]
  BY IdleFacts DEF TableInv, TableTyped, Shape
<1>1. \A a \in Advert : ~Peers!Hear(a)
  BY <1>0 DEF Peers!Hear
<1>2. \A u \in Peers!Thread : ~Peers!Check(u) /\ ~Peers!Dropped(u) /\ ~Peers!Insert(u) /\ ~Peers!Index(u) /\ ~Peers!Merge(u)
  BY <1>0 DEF Peers!Check, Peers!Dropped, Peers!Insert, Peers!Index, Peers!Merge
<1>3. \A u \in Peers!Thread : Peers!Unindex(u) => u = t
  BY <1>0 DEF Peers!Unindex
<1>4. \A u \in Peers!Thread, k \in Peers!Key : ~Peers!Pop(u, k)
  BY <1>0 DEF Peers!Pop, Work
<1>5. /\ ~Peers!PurgeSilent /\ ~Peers!PurgeOld /\ ~Peers!Unplug /\ ~Peers!LearnOwn
      /\ \A s : ~Peers!NewScope(s)
  BY <1>0 DEF Peers!PurgeSilent, Peers!PurgeOld, Peers!Unplug, Peers!LearnOwn,
     Peers!NewScope, Peers!Purge
<1>6. /\ ~Peers!Plug /\ ~Peers!Tick /\ \A h : ~Peers!Write(h)
      /\ \A k, answers : ~Peers!Probe(k, answers)
  BY <1>0 DEF Peers!Plug, Peers!Tick, Peers!Write, Peers!Probe
<1> QED
  BY <1>1, <1>2, <1>3, <1>4, <1>5, <1>6 DEF Peers!Next

\* One step of DiscardNeedsSilence.
DiscardStep ==
  \A t \in Peers!Thread : LET r == peers_thread[t].popped IN
    /\ r # None /\ peers_thread'[t].popped = None
    /\ r.hash \in peers_owed /\ r.hash \notin peers_owed'
    => \/ clock - r.seen > Stale \/ r.hash \in local \/ Peers!KeyOf(r) \in overlap
       \/ peers_thread[t].tell = "refused" \/ peers_spent.changes > 0

LEMMA DiscardJustified ==
  ASSUME TableInv, SilenceInv, [Peers!Next]_(Peers!vars)
  PROVE  DiscardStep
<1> SUFFICES ASSUME NEW t \in Peers!Thread, peers_thread[t].popped # None, peers_thread'[t].popped = None,
                    peers_thread[t].popped.hash \in peers_owed, peers_thread[t].popped.hash \notin peers_owed',
                    peers_thread[t].tell # "refused", ~(peers_spent.changes > 0)
             PROVE  LET r == peers_thread[t].popped IN
                    clock - r.seen > Stale \/ r.hash \in local \/ Peers!KeyOf(r) \in overlap
  BY DEF DiscardStep
<1>1. Peers!Next
  BY DEF Peers!vars
<1>2. Peers!Unindex(t)
  BY <1>1, GivenUp
<1>3. peers_thread[t].tell = "each"
  BY <1>2 DEF Peers!Unindex
<1>4. peers_spent.changes = 0
  BY DEF TableInv, TableTyped
<1>5. Heeds(peers_thread[t])
  BY <1>4 DEF SilenceInv
<1>6. Silenced(Peers!KeyOf(peers_thread[t].popped), peers_thread[t].popped.seen)
  BY <1>3, <1>5 DEF Heeds
<1> QED
  BY <1>6 DEF Silenced, Peers!KeyOf

\* What is queued for a peer is thrown away with its row only if the row was silent, is
\* this node's own, was heard again or had the LAN change meanwhile, or lost the row a
\* link had borrowed an address from (_remove_peer_entry and purge_stale_probes in
\* core/discovery.py, _supersede_peer_hashes in web/discovery_bridge.py).
THEOREM DiscardsJustified == Spec => DiscardNeedsSilence
<1>1. Init => TableInv /\ SilenceInv
  BY TableStart, SilenceStart DEF Init
<1>2. TableInv /\ SilenceInv /\ [Next]_vars => TableInv' /\ SilenceInv'
  BY PeersSteps, TableKept, SilenceKept
<1>3. TableInv /\ SilenceInv /\ [Next]_vars => [DiscardStep]_(Peers!vars)
  BY PeersSteps, DiscardJustified
<1>4. Spec => [][DiscardStep]_(Peers!vars)
  BY <1>1, <1>2, <1>3, PTL DEF Spec
<1>5. [][DiscardStep]_(Peers!vars) => DiscardNeedsSilence
  BY PTL DEF DiscardNeedsSilence, Peers!DiscardNeedsSilence, DiscardStep
<1> QED
  BY <1>4, <1>5, PTL
=============================================================================
