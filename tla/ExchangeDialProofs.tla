------------------------ MODULE ExchangeDialProofs ------------------------
(* Two nodes that dial each other (DialPair), for any number of links,        *)
(* attempts and faults: a link one node has open is open for the other or     *)
(* still hears of its end, and an attempt that succeeded has its link unless  *)
(* something was lost.                                                        *)
EXTENDS Exchange, TLAPS

-----------------------------------------------------------------------------
(* Two nodes that dial each other (DialPair)                                  *)

\* A step between nodes is a step of the pair, or leaves it alone.
LEMMA DialSteps == [Next]_vars => [Dial!Next]_(Dial!vars)
  BY DEF Next, vars, HubMoves, OfferMoves, DialMoves, ShareMoves, LifeMoves,
     DialVars, Dial!vars

LEMMA OtherNode ==
  ASSUME NEW n \in DialNode
  PROVE  Dial!Other(n) \in DialNode /\ Dial!Other(n) # n
<1>1. \E m \in DialNode : m # n
  BY PairAssumption
<1> QED
  BY <1>1 DEF Dial!Other

Dialled == Dial!Opened
Place == {"none", "pending", "active", "closed"}
Kind == {"request", "proof", "rtt", "identify", "close"}
Stage == {"idle", "check", "again", "poll", "await"}

\* The registry of a node, as a record.
Registry == [links : SUBSET Dialled, cached : SUBSET Dialled, listed : Dialled \union {0},
             active : Dialled \union {0}, session : BOOLEAN, shut : SUBSET Dialled]

DialTyped ==
  /\ Dialled \subseteq Dial!Link
  /\ caller \in [Dialled -> DialNode]
  /\ end \in [Dial!Link -> [DialNode -> Place]]
  /\ dial_wire \subseteq Kind \X Dialled \X DialNode
  /\ links \in [DialNode -> SUBSET Dialled] /\ cached \in [DialNode -> SUBSET Dialled]
  /\ listed \in [DialNode -> Dialled \union {0}] /\ active \in [DialNode -> Dialled \union {0}]
  /\ session \in [DialNode -> BOOLEAN]
  /\ task \in [DialNode -> [at : Stage, user : BOOLEAN, link : Dialled \union {0}, tries : Nat]]
  /\ dial_known \in [DialNode -> SUBSET Dialled]

\* What the packets of a link's opening say of where it stands, and whose turn it is.
Addressed ==
  /\ \A l \in Dialled, n \in DialNode :
       /\ <<"request", l, n>> \in dial_wire => n # caller[l]
       /\ <<"rtt", l, n>> \in dial_wire => n # caller[l]
       /\ <<"proof", l, n>> \in dial_wire => n = caller[l]
  /\ \A l \in Dial!Link \ Dialled, n \in DialNode : end[l][n] = "none"

\* The attempt of node n that is under way.
Trying(n, l) == task[n].at = "poll" /\ task[n].link = l
Attempts == \A n \in DialNode : task[n].at = "poll"
    => task[n].link \in Dialled /\ caller[task[n].link] = n

\* An end is watched by the registry or by the attempt, or was left.
Watched(l, n) == l \in links[n] \union dial_left \/ (n = caller[l] /\ Trying(n, l))
EndsHeard ==
  /\ \A l \in Dialled, n \in DialNode : end[l][n] = "active" => Watched(l, n)
  /\ \A l \in Dialled : end[l][caller[l]] = "pending" => l \in dial_left \/ Trying(caller[l], l)

DialInv == DialTyped /\ Addressed /\ Attempts /\ EndsHeard

-----------------------------------------------------------------------------
(* What the calls do to the registry: of its links they lose only those they   *)
(* shut, and never the one they keep.                                          *)

LEMMA DroppedAllLoses ==
  ASSUME NEW n \in DialNode, NEW r \in Registry, NEW ls \in SUBSET Dialled
  PROVE  /\ Dial!DroppedAll(n, r, ls) \in Registry
         /\ Dial!DroppedAll(n, r, ls).links = r.links \ ls
         /\ Dial!DroppedAll(n, r, ls).shut = r.shut \union ls
<1> DEFINE mine == ls \intersect r.links
           gone == [r EXCEPT !.links = @ \ mine, !.cached = @ \ mine, !.shut = @ \union ls]
           rest == Dial!Active(n, gone)
           next == IF rest = {} THEN 0 ELSE CHOOSE k \in rest : TRUE
<1>1. gone \in Registry /\ gone.links = r.links \ ls /\ gone.shut = r.shut \union ls
  BY DEF Registry
<1>2. next \in Dialled \union {0}
  BY <1>1 DEF Registry, Dial!Active
<1>3. Dial!DroppedAll(n, r, ls) =
        IF mine = {} THEN gone
        ELSE [gone EXCEPT !.listed = next, !.active = IF @ \in mine THEN next ELSE @]
  BY DEF Dial!DroppedAll
<1> HIDE DEF gone, next
<1> QED
  BY <1>1, <1>2, <1>3 DEF Registry

LEMMA ConsolidatedLoses ==
  ASSUME NEW n \in DialNode, NEW r \in Registry, NEW keep
  PROVE  \E ls \in SUBSET (Dialled \ {keep}) :
           /\ Dial!Consolidated(n, r, keep) \in Registry
           /\ Dial!Consolidated(n, r, keep).links = r.links \ ls
           /\ Dial!Consolidated(n, r, keep).shut = r.shut \union ls
<1>1. Dial!Others(n, r, keep) \in SUBSET (Dialled \ {keep})
  BY DEF Registry, Dial!Others, Dial!Active
<1>2. Dial!Others(n, r, keep) \in SUBSET Dialled
  BY <1>1
<1> WITNESS Dial!Others(n, r, keep) \in SUBSET (Dialled \ {keep})
<1> QED
  BY <1>2, DroppedAllLoses DEF Dial!Consolidated

LEMMA NotifiedLoses ==
  ASSUME NEW n \in DialNode, NEW r \in Registry, NEW l \in Dialled, NEW promote
  PROVE  \E ls \in SUBSET (Dialled \ {l}) :
           /\ Dial!Notified(n, r, l, promote) \in Registry
           /\ Dial!Notified(n, r, l, promote).links = r.links \ ls
           /\ Dial!Notified(n, r, l, promote).shut = r.shut \union ls
<1> DEFINE reg == Dial!Registered(r, l)
<1>1. reg \in Registry /\ reg.links = r.links /\ reg.shut = r.shut
  BY DEF Registry, Dial!Registered
<1>2. CASE ~promote
  <2>1. Dial!Notified(n, r, l, promote) = reg
    BY <1>2 DEF Dial!Notified
  <2> HIDE DEF reg
  <2> WITNESS {} \in SUBSET (Dialled \ {l})
  <2> QED
    BY <1>1, <2>1
<1>3. CASE promote
  <2> HIDE DEF reg
  <2>1. PICK ls \in SUBSET (Dialled \ {l}) :
           /\ Dial!Consolidated(n, reg, l) \in Registry
           /\ Dial!Consolidated(n, reg, l).links = reg.links \ ls
           /\ Dial!Consolidated(n, reg, l).shut = reg.shut \union ls
    BY SMTT(30), <1>1, ConsolidatedLoses
  <2> DEFINE q == Dial!Consolidated(n, reg, l)
  <2>2. Dial!Notified(n, r, l, promote) = [q EXCEPT !.listed = l, !.active = l, !.session = TRUE]
    BY <1>3 DEF Dial!Notified, reg
  <2> HIDE DEF q
  <2>3. q \in Registry /\ q.links = r.links \ ls /\ q.shut = r.shut \union ls
    BY <1>1, <2>1 DEF q
  <2> WITNESS ls \in SUBSET (Dialled \ {l})
  <2> QED
    BY <2>2, <2>3 DEF Registry
<1> QED
  BY <1>2, <1>3

LEMMA HereIs ==
  ASSUME DialTyped, NEW n \in DialNode
  PROVE  Dial!Here(n) \in Registry /\ Dial!Here(n).links = links[n] /\ Dial!Here(n).shut = {}
  BY DEF DialTyped, Registry, Dial!Here

LEMMA FoundIs ==
  ASSUME DialTyped, NEW n \in DialNode
  PROVE  /\ Dial!Found(n, Dial!Here(n)) \subseteq Dialled
         /\ Dial!Usable(n, Dial!Here(n)) \subseteq Dialled
         /\ Dial!LinkFor(n, Dial!Here(n)) \in Dialled \union {0}
  BY DEF DialTyped, Dial!Here, Dial!Found, Dial!Usable, Dial!LinkFor

-----------------------------------------------------------------------------
(* A step that stores a registry: what it shut is closed at this end.          *)

LEMMA StoreTypes ==
  ASSUME DialTyped, NEW n \in DialNode, NEW q \in Registry, NEW more,
         more \subseteq Kind \X Dialled \X DialNode, Dial!Store(n, q, more)
  PROVE  /\ links' \in [DialNode -> SUBSET Dialled] /\ cached' \in [DialNode -> SUBSET Dialled]
         /\ listed' \in [DialNode -> Dialled \union {0}]
                /\ active' \in [DialNode -> Dialled \union {0}]
         /\ session' \in [DialNode -> BOOLEAN]
         /\ end' \in [Dial!Link -> [DialNode -> Place]]
         /\ dial_wire' \subseteq Kind \X Dialled \X DialNode
<1>1. q.links \in SUBSET Dialled /\ q.cached \in SUBSET Dialled /\ q.session \in BOOLEAN
      /\ q.listed \in Dialled \union {0} /\ q.active \in Dialled \union {0}
             /\ q.shut \in SUBSET Dialled
  BY DEF Registry
<1>2. links' \in [DialNode -> SUBSET Dialled] /\ cached' \in [DialNode -> SUBSET Dialled]
      /\ listed' \in [DialNode -> Dialled \union {0}]
             /\ active' \in [DialNode -> Dialled \union {0}]
  BY <1>1 DEF DialTyped, Dial!Store
<1>3. session' \in [DialNode -> BOOLEAN]
  <2>1. session' = [session EXCEPT ![n] = q.session]
    BY DEF Dial!Store
  <2> QED
    BY <1>1, <2>1, Zenon DEF DialTyped
<1>4. end' \in [Dial!Link -> [DialNode -> Place]]
  BY DEF DialTyped, Dial!Store, Place
<1>5. \A l \in Dialled : <<"close", l, Dial!Other(n)>> \in Kind \X Dialled \X DialNode
  BY OtherNode DEF Kind
<1>6. Dial!Told(n, q) \subseteq Dialled
  BY <1>1 DEF Dial!Told
<1>7. dial_wire' \subseteq Kind \X Dialled \X DialNode
  BY <1>5, <1>6 DEF Dial!Store
<1> QED
  BY <1>2, <1>3, <1>4, <1>7

LEMMA StoreKept ==
  ASSUME DialInv, NEW n \in DialNode, NEW q \in Registry, NEW more,
         more \subseteq Kind \X Dialled \X DialNode, Dial!Store(n, q, more),
         \A p \in more : p \in dial_wire \/ p[1] \in {"identify", "close"},
         links[n] \ q.shut \subseteq q.links,
         UNCHANGED <<caller, dial_known>>, dial_left \subseteq dial_left',
         task' \in [DialNode -> [at : Stage, user : BOOLEAN, link : Dialled \union {0}, tries : Nat]],
         Attempts', \A m \in DialNode \ {n} : task'[m] = task[m],
         \A l \in Dialled : Trying(n, l) =>
           \/ Trying(n, l)' \/ l \in dial_left' \/ l \in q.shut \/ end[l][n] = "closed"
           \/ l \in q.links /\ end[l][n] = "active"
  PROVE  DialInv'
<1>1. DialTyped /\ Addressed /\ Attempts /\ EndsHeard
  BY DEF DialInv
<1>2. Dialled' = Dialled
  BY DEF Dial!Opened, Dialled
<1>3. DialTyped'
  BY <1>1, <1>2, StoreTypes DEF DialTyped
<1>4. end' = [l \in Dial!Link |-> IF l \in q.shut THEN [end[l] EXCEPT ![n] = "closed"] ELSE end[l]]
      /\ links' = [links EXCEPT ![n] = q.links]
      /\ dial_wire' = more \union {<<"close", l, Dial!Other(n)>> : l \in Dial!Told(n, q)}
  BY DEF Dial!Store
<1>5. \A l \in Dialled, m \in DialNode : end'[l][m] = end[l][m]
          \/ (m = n /\ end'[l][m] = "closed" /\ l \in q.shut)
  BY <1>1, <1>4 DEF DialTyped
<1>6. \A l \in q.shut : end'[l][n] = "closed"
  BY <1>1, <1>4 DEF DialTyped, Registry
<1>7. Addressed'
  <2>1. \A l \in Dialled, m \in DialNode,
            k \in {"request", "rtt", "proof"} : <<k, l, m>> \in dial_wire'
                => <<k, l, m>> \in dial_wire
    BY <1>4
  <2>2. \A l \in Dial!Link \ Dialled, m \in DialNode : end'[l][m] = "none"
    BY <1>1, <1>4 DEF Addressed, DialTyped, Registry
  <2> QED
    BY <1>1, <1>2, <2>1, <2>2 DEF Addressed
<1>8. EndsHeard'
  <2>1. ASSUME NEW l \in Dialled, NEW m \in DialNode, end'[l][m] = "active" PROVE Watched(l, m)'
    <3>1. end[l][m] = "active" /\ Watched(l, m)
      BY <1>1, <1>5, <2>1 DEF EndsHeard
    <3>2. CASE m # n
      BY <1>1, <1>4, <3>1, <3>2 DEF Watched, Trying, DialTyped
    <3>3. CASE m = n
      BY <1>1, <1>4, <1>6, <2>1, <3>1, <3>3 DEF Watched, Trying, DialTyped
    <3> QED
      BY <3>2, <3>3
  <2>2. ASSUME NEW l \in Dialled, end'[l][caller[l]] = "pending"
        PROVE  l \in dial_left' \/ Trying(caller[l], l)'
    <3>1. caller[l] \in DialNode /\ end[l][caller[l]] = "pending"
      BY <1>1, <1>5, <2>2 DEF DialTyped
    <3>2. l \in dial_left \/ Trying(caller[l], l)
      BY <1>1, <3>1 DEF EndsHeard
    <3>3. CASE caller[l] # n
      BY <3>1, <3>2, <3>3 DEF Trying
    <3>4. CASE caller[l] = n
      BY <1>6, <2>2, <3>1, <3>2, <3>4
    <3> QED
      BY <3>3, <3>4
  <2> QED
    BY <1>2, <2>1, <2>2 DEF EndsHeard
<1> QED
  BY <1>3, <1>7, <1>8 DEF DialInv

-----------------------------------------------------------------------------
(* The steps of a connect.                                                     *)

LEMMA IdleTask ==
  ASSUME DialTyped, Attempts, NEW n \in DialNode, task' = [task EXCEPT ![n] = Dial!Idle],
      UNCHANGED caller
  PROVE  /\ task' \in [DialNode -> [at : Stage, user : BOOLEAN, link : Dialled \union {0}, tries : Nat]]
         /\ Attempts' /\ \A m \in DialNode \ {n} : task'[m] = task[m]
<1>1. Dial!Idle \in [at : Stage, user : BOOLEAN, link : Dialled \union {0}, tries : Nat]
  BY DEF Dial!Idle, Stage
<1>2. Dialled' = Dialled
  BY DEF Dial!Opened, Dialled
<1> QED
  BY <1>1, <1>2 DEF DialTyped, Attempts, Dial!Idle

LEMMA FinishedKept ==
  ASSUME DialInv, NEW n \in DialNode, NEW q \in Registry, NEW l, Dial!Finished(n, q, l),
         links[n] \ q.shut \subseteq q.links, UNCHANGED <<caller, dial_known>>,
             dial_left \subseteq dial_left',
         \A k \in Dialled : Trying(n, k) => k \in dial_left' \/ k \in q.shut
  PROVE  DialInv'
<1> DEFINE z == IF l = 0 THEN q ELSE Dial!Consolidated(n, q, l)
<1>1. z \in Registry /\ q.shut \subseteq z.shut /\ q.links \ z.shut \subseteq z.links
  BY ConsolidatedLoses
<1>2. Dial!Store(n, z, dial_wire) /\ task' = [task EXCEPT ![n] = Dial!Idle]
  BY DEF Dial!Finished
<1> HIDE DEF z
<1>3. DialTyped /\ Attempts /\ dial_wire \subseteq Kind \X Dialled \X DialNode
  BY DEF DialInv, DialTyped
<1> QED
  BY <1>1, <1>2, <1>3, IdleTask, StoreKept

LEMMA AlreadyKept ==
  ASSUME DialInv, NEW n \in DialNode, Dial!Already(n)
  PROVE  DialInv'
<1> DEFINE r == Dial!Here(n)
<1>1. DialTyped /\ r \in Registry /\ r.links = links[n] /\ r.shut = {}
  BY HereIs DEF DialInv
<1>2. UNCHANGED <<caller, dial_known, dial_left>> /\ \A k \in Dialled : ~Trying(n, k)
  BY DEF Dial!Already, Trying
<1>3. Dial!Found(n, r) \subseteq Dialled /\ Dial!Usable(n, r) \subseteq Dialled
  BY <1>1, FoundIs
<1> HIDE DEF r
<1>4. ASSUME NEW l, NEW q \in Registry, links[n] \ q.shut \subseteq q.links, Dial!Finished(n, q, l)
      PROVE  DialInv'
  BY <1>2, <1>4, FinishedKept
<1>5. ASSUME NEW l \in Dialled, Dial!Finished(n, Dial!Notified(n, r, l, TRUE), l) PROVE DialInv'
  <2> DEFINE yes == TRUE
             q == Dial!Notified(n, r, l, yes)
  <2> HIDE DEF yes
  <2>1. q \in Registry /\ links[n] \ q.shut \subseteq q.links
    BY <1>1, NotifiedLoses
  <2> HIDE DEF q
  <2> QED
    BY <1>4, <1>5, <2>1 DEF q, yes
<1>6. ASSUME NEW l, Dial!Finished(n, r, l) PROVE DialInv'
  BY <1>1, <1>4, <1>6
<1> QED
  BY <1>3, <1>5, <1>6 DEF Dial!Already, r

LEMMA AwaitAdoptsKept ==
  ASSUME DialInv, NEW n \in DialNode, Dial!AwaitAdopts(n)
  PROVE  DialInv'
<1> DEFINE r == Dial!Here(n)
<1>1. DialTyped /\ r \in Registry /\ r.links = links[n] /\ r.shut = {}
  BY HereIs DEF DialInv
<1>2. UNCHANGED <<caller, dial_known, dial_left>> /\ \A k \in Dialled : ~Trying(n, k)
  BY DEF Dial!AwaitAdopts, Trying
<1>3. PICK l \in Dialled, promote \in BOOLEAN : Dial!Finished(n, Dial!Notified(n, r, l, promote), l)
  BY <1>1, FoundIs DEF Dial!AwaitAdopts
<1> HIDE DEF r
<1> DEFINE q == Dial!Notified(n, r, l, promote)
<1>4. q \in Registry /\ links[n] \ q.shut \subseteq q.links
  BY <1>1, NotifiedLoses
<1> HIDE DEF q
<1> QED
  BY <1>2, <1>3, <1>4, FinishedKept DEF q

LEMMA PollAdoptsKept ==
  ASSUME DialInv, NEW n \in DialNode, Dial!PollAdopts(n)
  PROVE  DialInv'
<1> DEFINE r == Dial!Here(n)
           l == Dial!LinkFor(n, r)
           yes == TRUE
           q == Dial!Notified(n, r, l, yes)
           t == task[n].link
           z == Dial!Abandoned(n, q, t)
<1>1. DialTyped /\ r \in Registry /\ r.links = links[n] /\ r.shut = {}
  BY HereIs DEF DialInv
<1>2. l \in Dialled /\ t \in Dialled
  BY <1>1, FoundIs DEF Dial!PollAdopts, DialInv, Attempts
<1> HIDE DEF r, l, t, yes
<1>3. q \in Registry /\ links[n] \ q.shut \subseteq q.links
  BY <1>1, <1>2, NotifiedLoses
<1> HIDE DEF q
<1>4. z \in Registry /\ links[n] \ z.shut \subseteq z.links
  BY <1>2, <1>3 DEF Dial!Abandoned, Registry
<1>5. dial_left \subseteq dial_left' /\ (t \in dial_left' \/ end[t][n] # "active")
  BY DEF Dial!PollAdopts, t
<1>6. t \in dial_left' \/ t \in z.shut
  BY <1>2, <1>5 DEF Dial!Abandoned, Dial!Up, Registry
<1>7. \A k \in Dialled : Trying(n, k) => k = t
  BY DEF Trying, t
<1>8. Dial!Finished(n, z, l) /\ UNCHANGED <<caller, dial_known>>
  BY DEF Dial!PollAdopts, z, q, yes, t, l, r
<1> HIDE DEF z
<1> QED
  BY <1>4, <1>5, <1>6, <1>7, <1>8, FinishedKept

LEMMA PollPromotesKept ==
  ASSUME DialInv, NEW n \in DialNode, Dial!PollPromotes(n)
  PROVE  DialInv'
<1> DEFINE t == task[n].link
           r == Dial!SetUp(Dial!Here(n), t)
           promote == task[n].user \/ session[n]
           q == Dial!Notified(n, r, t, promote)
           z == Dial!Consolidated(n, q, t)
           more == dial_wire \union {<<"identify", t, Dial!Other(n)>>}
<1>1. DialTyped /\ Attempts /\ dial_wire \subseteq Kind \X Dialled \X DialNode
  BY DEF DialInv, DialTyped
<1>2. t \in Dialled /\ end[t][n] = "active"
  BY <1>1 DEF Dial!PollPromotes, Attempts
<1>3. \A k \in Dialled : Trying(n, k) => k = t
  BY DEF Trying
<1>4. Dial!Store(n, z, more) /\ task' = [task EXCEPT ![n] = Dial!Idle]
          /\ UNCHANGED <<caller, dial_known, dial_left>>
  BY DEF Dial!PollPromotes
<1> HIDE DEF t
<1>5. r \in Registry /\ r.links = links[n] \union {t} /\ r.shut = {}
  <2>1. Dial!Here(n) \in Registry /\ Dial!Here(n).links = links[n] /\ Dial!Here(n).shut = {}
    BY <1>1, HereIs
  <2> QED
    BY <1>2, <2>1 DEF Dial!SetUp, Registry
<1> HIDE DEF r, promote
<1>6. q \in Registry /\ t \in q.links /\ links[n] \ q.shut \subseteq q.links
  BY <1>2, <1>5, NotifiedLoses
<1> HIDE DEF q
<1>7. z \in Registry /\ t \in z.links /\ links[n] \ z.shut \subseteq z.links
  BY <1>6, ConsolidatedLoses
<1> HIDE DEF z
<1>8. more \subseteq Kind \X Dialled \X DialNode
          /\ \A p \in more : p \in dial_wire \/ p[1] \in {"identify", "close"}
  BY <1>1, <1>2, OtherNode DEF Kind
<1> HIDE DEF more
<1> QED
  BY <1>1, <1>2, <1>3, <1>4, <1>7, <1>8, IdleTask, StoreKept

LEMMA PollEndsKept ==
  ASSUME DialInv, NEW n \in DialNode, Dial!PollEnds(n)
  PROVE  DialInv'
<1> DEFINE t == task[n].link
           r == Dial!Here(n)
           z == Dial!Abandoned(n, r, t)
<1>1. DialTyped /\ Attempts /\ dial_wire \subseteq Kind \X Dialled \X DialNode
  BY DEF DialInv, DialTyped
<1>2. t \in Dialled /\ end[t][n] # "active"
  BY <1>1 DEF Dial!PollEnds, Attempts
<1>3. \A k \in Dialled : Trying(n, k) => k = t
  BY DEF Trying
<1>4. Dial!Store(n, z, dial_wire) /\ UNCHANGED <<caller, dial_known, dial_left>>
  BY DEF Dial!PollEnds
<1>5. r \in Registry /\ r.links = links[n] /\ r.shut = {}
  BY <1>1, HereIs
<1> HIDE DEF r
<1>6. z \in Registry /\ t \in z.shut /\ links[n] \ z.shut \subseteq z.links
  BY <1>2, <1>5 DEF Dial!Abandoned, Dial!Up, Registry
<1>7. /\ task' \in [DialNode -> [at : Stage, user : BOOLEAN, link : Dialled \union {0}, tries : Nat]]
      /\ Attempts' /\ \A m \in DialNode \ {n} : task'[m] = task[m]
  <2>1. task' = [task EXCEPT ![n] = [@ EXCEPT !.at = "await", !.link = 0]]
    BY DEF Dial!PollEnds
  <2>2. Dialled' = Dialled
    BY <1>4 DEF Dial!Opened, Dialled
  <2>3. task' \in [DialNode -> [at : Stage, user : BOOLEAN, link : Dialled \union {0}, tries : Nat]]
    BY <1>1, <2>1 DEF DialTyped, Stage
  <2>4. \A m \in DialNode \ {n} : task'[m] = task[m]
    BY <1>1, <2>1 DEF DialTyped
  <2>5. task'[n].at = "await"
    BY <1>1, <2>1 DEF DialTyped
  <2> QED
    BY <1>1, <1>4, <2>2, <2>3, <2>4, <2>5 DEF Attempts
<1> HIDE DEF z, t
<1> QED
  BY <1>1, <1>3, <1>4, <1>6, <1>7, StoreKept

LEMMA PressKept ==
  ASSUME DialInv, NEW n \in DialNode, Dial!Press(n)
  PROVE  DialInv'
  BY SMTT(30) DEF DialInv, DialTyped, Addressed, Attempts, EndsHeard, Watched,
     Trying,
     Dialled,
     Dial!Opened,
     Dial!Press, Dial!registry

LEMMA BeginKept ==
  ASSUME DialInv, NEW n \in DialNode, NEW kind, Dial!Begin(n, kind)
  PROVE  DialInv'
<1>1. DialTyped /\ Addressed /\ Attempts /\ EndsHeard
  BY DEF DialInv
<1>2. Dialled' = Dialled /\ UNCHANGED <<caller, end, dial_wire, dial_known, links, cached, listed, active, dial_left>>
  BY DEF Dial!Begin, Dial!Opened, Dialled
<1> DEFINE mine == kind = "user"
<1>3. task' = [task EXCEPT ![n] = [Dial!Idle EXCEPT !.at = "check", !.user = mine]]
          /\ task[n].at = "idle"
  BY DEF Dial!Begin
<1>4. mine \in BOOLEAN
  OBVIOUS
<1> HIDE DEF mine
<1>5. [Dial!Idle EXCEPT !.at = "check", !.user = mine]
        \in [at : Stage, user : BOOLEAN, link : Dialled \union {0}, tries : Nat]
  BY <1>4 DEF Dial!Idle, Stage
<1>6. task' \in [DialNode -> [at : Stage, user : BOOLEAN, link : Dialled \union {0}, tries : Nat]]
  BY <1>1, <1>3, <1>5 DEF DialTyped
<1>7. session' = [session EXCEPT ![n] = @ \/ kind = "user"]
  BY DEF Dial!Begin
<1>8. session' \in [DialNode -> BOOLEAN]
  BY <1>1, <1>7, Zenon DEF DialTyped
<1>9. DialTyped'
  BY <1>1, <1>2, <1>6, <1>8 DEF DialTyped
<1>10. \A m \in DialNode : task'[m] = task[m] \/ (m = n /\ task'[m].at = "check")
  BY <1>1, <1>3 DEF DialTyped, Dial!Idle
<1>11. Attempts' /\ EndsHeard'
  BY <1>1, <1>2, <1>3, <1>10 DEF Attempts, EndsHeard, Watched, Trying, DialTyped
<1> QED
  BY <1>1, <1>2, <1>9, <1>11 DEF DialInv, Addressed

LEMMA DialKept ==
  ASSUME DialInv, NEW n \in DialNode, Dial!Dial(n)
  PROVE  DialInv'
<1>1. DialTyped /\ Addressed /\ Attempts /\ EndsHeard
  BY DEF DialInv
<1>3. PICK l \in Dial!Link :
        /\ task[n].at \in {"check", "again"}
        /\ Dial!Opened = 1..(l - 1)
        /\ caller' = [x \in Dial!Opened \union {l} |-> IF x = l THEN n ELSE caller[x]]
        /\ end' = [end EXCEPT ![l][n] = "pending"]
        /\ dial_wire' = dial_wire \union {<<"request", l, Dial!Other(n)>>}
        /\ task' = [task EXCEPT ![n] =
                     [at |-> "poll", user |-> @.user, link |-> l, tries |-> @.tries + 1]]
        /\ UNCHANGED <<dial_known, links, cached, listed, active, session, dial_left>>
  BY DEF Dial!Dial, Dial!registry
<1>4. l \in Nat \ {0} /\ l \notin Dialled
  BY <1>3 DEF Dialled, Dial!Link
<1>5. Dialled' = Dialled \union {l}
  BY <1>3 DEF Dialled, Dial!Opened
<1>6. Dial!Other(n) \in DialNode /\ Dial!Other(n) # n
  BY OtherNode
<1>7. /\ caller' \in [Dialled' -> DialNode] /\ caller'[l] = n
             /\ \A x \in Dialled : caller'[x] = caller[x]
  BY <1>1, <1>3, <1>4, <1>5 DEF DialTyped, Dialled
<1>8. /\ end' \in [Dial!Link -> [DialNode -> Place]] /\ end'[l][n] = "pending"
      /\ \A x \in Dial!Link, m \in DialNode : x # l \/ m # n => end'[x][m] = end[x][m]
  BY <1>1, <1>3 DEF DialTyped, Place
<1>9. /\ task' \in [DialNode -> [at : Stage, user : BOOLEAN, link : Dialled' \union {0}, tries : Nat]]
      /\ task'[n].at = "poll" /\ task'[n].link = l /\ \A m \in DialNode \ {n} : task'[m] = task[m]
  <2>1. task[n] \in [at : Stage, user : BOOLEAN, link : Dialled \union {0}, tries : Nat]
    BY <1>1 DEF DialTyped
  <2> DEFINE new == [at |-> "poll", user |-> task[n].user, link |-> l, tries |-> task[n].tries + 1]
  <2>2. new \in [at : Stage, user : BOOLEAN, link : Dialled' \union {0}, tries : Nat]
        /\ new.at = "poll" /\ new.link = l
    <3>1. l \in Dialled' \union {0}
      BY <1>5
    <3>2. task[n].tries + 1 \in Nat /\ task[n].user \in BOOLEAN
      BY <2>1
    <3> QED
      BY <3>1, <3>2 DEF Stage
  <2>3. task' = [task EXCEPT ![n] = new]
    BY <1>3
  <2> HIDE DEF new
  <2>4. \A m \in DialNode : task[m] \in [at : Stage, user : BOOLEAN, link : Dialled' \union {0}, tries : Nat]
    BY <1>1, <1>5 DEF DialTyped
  <2> QED
    BY <1>1, <2>2, <2>3, <2>4 DEF DialTyped
<1>10. dial_wire' \subseteq Kind \X Dialled' \X DialNode
  BY <1>1, <1>3, <1>5, <1>6 DEF DialTyped, Kind
<1>11. DialTyped'
  <2>2. Dialled' \subseteq Dial!Link
    BY <1>1, <1>5 DEF DialTyped
  <2>3. /\ links' \in [DialNode -> SUBSET Dialled'] /\ cached' \in [DialNode -> SUBSET Dialled']
        /\ listed' \in [DialNode -> Dialled' \union {0}]
               /\ active' \in [DialNode -> Dialled' \union {0}]
        /\ session' \in [DialNode -> BOOLEAN] /\ dial_known' \in [DialNode -> SUBSET Dialled']
    BY <1>1, <1>3, <1>5 DEF DialTyped
  <2> QED
    BY <1>7, <1>8, <1>9, <1>10, <2>2, <2>3 DEF DialTyped, Dial!Link
<1>12. Addressed'
  <2>1. \A x \in Dialled', m \in DialNode :
          /\ <<"request", x, m>> \in dial_wire' => m # caller'[x]
          /\ <<"rtt", x, m>> \in dial_wire' => m # caller'[x]
          /\ <<"proof", x, m>> \in dial_wire' => m = caller'[x]
    <3> SUFFICES ASSUME NEW x \in Dialled', NEW m \in DialNode
                 PROVE  /\ <<"request", x, m>> \in dial_wire' => m # caller'[x]
                        /\ <<"rtt", x, m>> \in dial_wire' => m # caller'[x]
                        /\ <<"proof", x, m>> \in dial_wire' => m = caller'[x]
      OBVIOUS
    <3>1. CASE x = l
      <4>1. \A t \in Kind : <<t, l, m>> \notin dial_wire
        BY <1>1, <1>4 DEF DialTyped
      <4> QED
        BY <1>3, <1>6, <1>7, <3>1, <4>1 DEF Kind
    <3>2. CASE x # l
      BY <1>1, <1>3, <1>5, <1>7, <3>2 DEF Addressed
    <3> QED
      BY <3>1, <3>2
  <2>2. \A x \in Dial!Link \ Dialled', m \in DialNode : end'[x][m] = "none"
    BY <1>1, <1>5, <1>8 DEF Addressed
  <2> QED
    BY <2>1, <2>2 DEF Addressed, Dial!Link
<1>13. Attempts'
  BY <1>1, <1>5, <1>7, <1>9 DEF Attempts
<1>14. EndsHeard'
  <2>1. ASSUME NEW x \in Dialled', NEW m \in DialNode, end'[x][m] = "active" PROVE Watched(x, m)'
    <3>1. x \in Dialled /\ end[x][m] = "active"
      BY <1>1, <1>5, <1>8, <2>1 DEF Addressed, DialTyped
    <3>2. Watched(x, m)
      BY <1>1, <3>1 DEF EndsHeard
    <3> QED
      BY <1>3, <1>7, <1>9, <3>1, <3>2 DEF Watched, Trying
  <2>2. ASSUME NEW x \in Dialled', end'[x][caller'[x]] = "pending"
        PROVE  x \in dial_left' \/ (task'[caller'[x]].at = "poll" /\ task'[caller'[x]].link = x)
    <3>1. CASE x = l
      BY <1>7, <1>9, <3>1
    <3>2. CASE x # l
      BY <1>1, <1>3, <1>5, <1>7, <1>8, <1>9, <2>2, <3>2 DEF EndsHeard, Trying,
         DialTyped
    <3> QED
      BY <3>1, <3>2
  <2> QED
    BY <2>1, <2>2 DEF EndsHeard, Trying
<1> QED
  BY <1>11, <1>12, <1>13, <1>14 DEF DialInv

LEMMA PollFindsKept ==
  ASSUME DialInv, NEW n \in DialNode, Dial!PollFinds(n)
  PROVE  DialInv'
<1>1. DialTyped /\ Addressed /\ Attempts /\ EndsHeard
  BY DEF DialInv
<1>2. Dialled' = Dialled /\ UNCHANGED <<caller, end, dial_wire, dial_known, links, cached, listed, active, session>>
  BY DEF Dial!PollFinds, Dial!registry, Dial!Opened, Dialled
<1>3. /\ task' \in [DialNode -> [at : Stage, user : BOOLEAN, link : Dialled \union {0}, tries : Nat]]
      /\ Attempts' /\ \A m \in DialNode \ {n} : task'[m] = task[m]
  BY <1>1, IdleTask DEF Dial!PollFinds
<1>4. /\ dial_left \subseteq dial_left'
      /\ \A l : Trying(n, l) => end[l][n] = "closed" \/ l \in dial_left'
  BY DEF Dial!PollFinds, Trying
<1>5. EndsHeard'
  <2>1. ASSUME NEW l \in Dialled, NEW m \in DialNode, Watched(l, m), end[l][m] # "closed"
        PROVE Watched(l, m)'
    BY <1>1, <1>2, <1>3, <1>4, <2>1 DEF Watched, Trying
  <2>2. ASSUME NEW l \in Dialled, l \in dial_left \/ Trying(caller[l], l),
            end[l][caller[l]] = "pending"
        PROVE  l \in dial_left' \/ Trying(caller[l], l)'
    <3>1. caller[l] \in DialNode
      BY <1>1 DEF DialTyped
    <3> QED
      BY <1>2, <1>3, <1>4, <2>2, <3>1 DEF Trying
  <2> QED
    BY <1>1, <1>2, <2>1, <2>2 DEF EndsHeard
<1> QED
  BY <1>1, <1>2, <1>3, <1>5 DEF DialInv, DialTyped, Addressed

LEMMA AwaitEndsKept ==
  ASSUME DialInv, NEW n \in DialNode, Dial!AwaitEnds(n)
  PROVE  DialInv'
<1>1. DialTyped /\ Addressed /\ Attempts /\ EndsHeard
  BY DEF DialInv
<1>2. Dialled' = Dialled
      /\ UNCHANGED <<caller, end, dial_wire, dial_known, links, cached, listed, active, session, dial_left>>
  BY DEF Dial!AwaitEnds, Dial!registry, Dial!Opened, Dialled
<1>3. /\ task' \in [DialNode -> [at : Stage, user : BOOLEAN, link : Dialled \union {0}, tries : Nat]]
      /\ Attempts' /\ \A m \in DialNode \ {n} : task'[m] = task[m]
  <2>1. CASE task' = [task EXCEPT ![n] = [@ EXCEPT !.at = "again"]]
    <3>1. task' \in [DialNode -> [at : Stage, user : BOOLEAN, link : Dialled \union {0}, tries : Nat]]
      BY <1>1, <2>1 DEF DialTyped, Stage
    <3>2. task'[n].at = "again" /\ \A m \in DialNode \ {n} : task'[m] = task[m]
      BY <1>1, <2>1 DEF DialTyped
    <3> QED
      BY <1>1, <1>2, <3>1, <3>2 DEF Attempts
  <2>2. CASE task' = [task EXCEPT ![n] = Dial!Idle]
    BY <1>1, <1>2, <2>2, IdleTask
  <2> QED
    BY <2>1, <2>2 DEF Dial!AwaitEnds
<1>4. \A l : ~Trying(n, l)
  BY DEF Dial!AwaitEnds, Trying
<1>5. EndsHeard'
  <2>1. ASSUME NEW l \in Dialled, NEW m \in DialNode, Watched(l, m), end[l][m] # "closed"
        PROVE Watched(l, m)'
    BY <1>1, <1>2, <1>3, <1>4, <2>1 DEF Watched, Trying
  <2>2. ASSUME NEW l \in Dialled, l \in dial_left \/ Trying(caller[l], l),
            end[l][caller[l]] = "pending"
        PROVE  l \in dial_left' \/ Trying(caller[l], l)'
    <3>1. caller[l] \in DialNode
      BY <1>1 DEF DialTyped
    <3> QED
      BY <1>2, <1>3, <1>4, <2>2, <3>1 DEF Trying
  <2> QED
    BY <1>1, <1>2, <2>1, <2>2 DEF EndsHeard
<1> QED
  BY <1>1, <1>2, <1>3, <1>5 DEF DialInv, DialTyped, Addressed

-----------------------------------------------------------------------------
(* RNS and the callbacks.                                                      *)

LEMMA RequestKept ==
  ASSUME DialInv, NEW n \in DialNode, NEW l \in Dialled, Dial!Request(n, l)
  PROVE  DialInv'
<1>1. DialTyped /\ Addressed /\ Attempts /\ EndsHeard
  BY DEF DialInv
<1>2. /\ <<"request", l, n>> \in dial_wire /\ n # caller[l]
      /\ dial_wire' = (dial_wire \ {<<"request", l, n>>}) \union {<<"proof", l, Dial!Other(n)>>}
      /\ end' = [end EXCEPT ![l][n] = "pending"]
      /\ UNCHANGED <<caller, dial_known, links, cached, listed, active, session, task, dial_left>>
  BY <1>1 DEF Dial!Request, Dial!registry, Addressed
<1>3. Dialled' = Dialled
  BY <1>2 DEF Dialled, Dial!Opened
<1>4. Dial!Other(n) \in DialNode /\ Dial!Other(n) = caller[l] /\ caller[l] \in DialNode
  BY <1>1, <1>2, OtherNode, PairAssumption DEF DialTyped
<1>5. /\ end' \in [Dial!Link -> [DialNode -> Place]]
      /\ \A x \in Dial!Link, m \in DialNode : x # l \/ m # n => end'[x][m] = end[x][m]
      /\ end'[l][n] = "pending"
  BY <1>1, <1>2 DEF DialTyped, Place
<1>6. DialTyped'
  BY <1>1, <1>2, <1>3, <1>4, <1>5 DEF DialTyped, Kind
<1>7. Addressed'
  BY <1>1, <1>2, <1>3, <1>4, <1>5 DEF Addressed
<1>8. EndsHeard'
  BY <1>1, <1>2, <1>3, <1>4, <1>5 DEF EndsHeard, Watched, Trying, DialTyped
<1> QED
  BY <1>1, <1>2, <1>3, <1>6, <1>7, <1>8 DEF DialInv, Attempts

LEMMA ProofKept ==
  ASSUME DialInv, NEW n \in DialNode, NEW l \in Dialled, Dial!Proof(n, l)
  PROVE  DialInv'
<1>1. DialTyped /\ Addressed /\ Attempts /\ EndsHeard
  BY DEF DialInv
<1>2. /\ <<"proof", l, n>> \in dial_wire /\ n = caller[l]
      /\ UNCHANGED <<caller, dial_known, links, cached, listed, active, session, task, dial_left>>
  BY <1>1 DEF Dial!Proof, Dial!registry, Addressed
<1>3. Dialled' = Dialled
  BY <1>2 DEF Dialled, Dial!Opened
<1>4. Dial!Other(n) \in DialNode /\ Dial!Other(n) # n
  BY OtherNode
<1>5. CASE end[l][n] = "pending" /\ end' = [end EXCEPT ![l][n] = "active"]
           /\ dial_wire' = (dial_wire \ {<<"proof", l, n>>}) \union {<<"rtt", l, Dial!Other(n)>>}
  <2>1. /\ end' \in [Dial!Link -> [DialNode -> Place]]
        /\ \A x \in Dial!Link, m \in DialNode : x # l \/ m # n => end'[x][m] = end[x][m]
        /\ end'[l][n] = "active"
    BY <1>1, <1>5 DEF DialTyped, Place
  <2>2. DialTyped'
    BY <1>1, <1>2, <1>3, <1>4, <1>5, <2>1 DEF DialTyped, Kind
  <2>3. Addressed'
    BY <1>1, <1>2, <1>3, <1>4, <1>5, <2>1 DEF Addressed
  <2>4. EndsHeard'
    BY <1>1, <1>2, <1>3, <1>5, <2>1 DEF EndsHeard, Watched, Trying, DialTyped
  <2> QED
    BY <1>1, <1>2, <1>3, <2>2, <2>3, <2>4 DEF DialInv, Attempts
<1>6. CASE dial_wire' = dial_wire \ {<<"proof", l, n>>} /\ UNCHANGED end
  BY <1>1, <1>2, <1>3, <1>6 DEF DialInv, DialTyped, Addressed, Attempts, EndsHeard,
     Watched, Trying
<1> QED
  BY <1>5, <1>6 DEF Dial!Proof

LEMMA InboundRefusedKept ==
  ASSUME DialInv, NEW n \in DialNode, NEW l \in Dialled, Dial!InboundRefused(n, l)
  PROVE  DialInv'
<1> DEFINE q == [Dial!Here(n) EXCEPT !.shut = {l}]
           more == (dial_wire \ {<<"rtt", l, n>>}) \union {<<"close", l, Dial!Other(n)>>}
<1>1. DialTyped /\ Addressed /\ Attempts /\ EndsHeard
  BY DEF DialInv
<1>2. q \in Registry /\ links[n] \ q.shut \subseteq q.links
  BY <1>1, HereIs DEF Registry
<1>3. more \subseteq Kind \X Dialled \X DialNode
          /\ \A p \in more : p \in dial_wire \/ p[1] \in {"identify", "close"}
  BY <1>1, OtherNode DEF DialTyped, Kind
<1>4. Dial!Store(n, q, more) /\ UNCHANGED <<caller, dial_known, task, dial_left>>
  BY DEF Dial!InboundRefused
<1>5. Dialled' = Dialled
  BY <1>4 DEF Dialled, Dial!Opened
<1> HIDE DEF q, more
<1>6. task' \in [DialNode -> [at : Stage, user : BOOLEAN, link : Dialled \union {0}, tries : Nat]] /\ Attempts'
  BY <1>1, <1>4, <1>5 DEF DialTyped, Attempts
<1>7. \A k \in Dialled : Trying(n, k)' <=> Trying(n, k)
  BY <1>4 DEF Trying
<1> QED
  BY <1>2, <1>3, <1>4, <1>6, <1>7, StoreKept

LEMMA InboundTakenKept ==
  ASSUME DialInv, NEW n \in DialNode, NEW l \in Dialled, Dial!InboundTaken(n, l)
  PROVE  DialInv'
<1> DEFINE here == Dial!Here(n)
           old == Dial!LinkFor(n, here)
           r == IF session[n] /\ old # 0 THEN Dial!Dropped(n, here, old) ELSE here
           set == Dial!SetUp(r, l)
           yes == TRUE
           new == IF session[n] THEN Dial!Notified(n, set, l, yes) ELSE set
<1>1. DialTyped /\ Addressed /\ Attempts /\ EndsHeard
  BY DEF DialInv
<1>2. here \in Registry /\ here.links = links[n] /\ here.shut = {} /\ old \in Dialled \union {0}
  BY <1>1, HereIs, FoundIs
<1>3. /\ <<"rtt", l, n>> \in dial_wire /\ n # caller[l] /\ end[l][n] = "pending"
      /\ links' = [links EXCEPT ![n] = new.links] /\ cached' = [cached EXCEPT ![n] = new.cached]
      /\ listed' = [listed EXCEPT ![n] = new.listed] /\ active' = [active EXCEPT ![n] = new.active]
      /\ session' = [session EXCEPT ![n] = new.session]
      /\ end' = [k \in Dial!Link |-> IF k = l THEN [end[k] EXCEPT ![n] = "active"]
                                     ELSE IF k \in new.shut THEN [end[k] EXCEPT ![n] = "closed"]
                                     ELSE end[k]]
      /\ dial_wire' = (dial_wire \ {<<"rtt", l, n>>})
                         \union {<<"close", k, Dial!Other(n)>> : k \in Dial!Told(n, new)}
      /\ UNCHANGED <<caller, dial_known, task, dial_left>>
  BY <1>1 DEF Dial!InboundTaken, Addressed
<1> HIDE DEF here, old, yes
<1>4. r \in Registry /\ links[n] \ r.shut \subseteq r.links
  BY <1>2, DroppedAllLoses DEF Dial!Dropped
<1> HIDE DEF r
<1>5. set \in Registry /\ links[n] \ set.shut \subseteq set.links /\ l \in set.links
  BY <1>4 DEF Dial!SetUp, Registry
<1> HIDE DEF set
<1>6. new \in Registry /\ links[n] \ new.shut \subseteq new.links /\ l \in new.links
  BY <1>5, NotifiedLoses
<1> HIDE DEF new
<1>7. new.links \in SUBSET Dialled /\ new.cached \in SUBSET Dialled /\ new.session \in BOOLEAN
      /\ new.listed \in Dialled \union {0} /\ new.active \in Dialled \union {0}
             /\ new.shut \in SUBSET Dialled
  BY <1>6 DEF Registry
<1>8. Dialled' = Dialled
  BY <1>3 DEF Dialled, Dial!Opened
<1>9. /\ end' \in [Dial!Link -> [DialNode -> Place]] /\ end'[l][n] = "active"
      /\ \A k \in Dial!Link, m \in DialNode : k # l /\ end'[k][m] # end[k][m]
             => m = n /\ k \in new.shut /\ end'[k][m] = "closed"
      /\ \A k \in new.shut \ {l} : end'[k][n] = "closed"
      /\ \A m \in DialNode \ {n} : end'[l][m] = end[l][m]
  BY <1>1, <1>3, <1>7 DEF DialTyped, Place
<1>10. DialTyped'
  <2>1. /\ links' \in [DialNode -> SUBSET Dialled] /\ cached' \in [DialNode -> SUBSET Dialled]
        /\ listed' \in [DialNode -> Dialled \union {0}]
               /\ active' \in [DialNode -> Dialled \union {0}]
    BY <1>1, <1>3, <1>7 DEF DialTyped
  <2>2. session' \in [DialNode -> BOOLEAN]
    BY <1>1, <1>3, <1>7, Zenon DEF DialTyped
  <2>3. \A k \in Dial!Told(n, new) : <<"close", k, Dial!Other(n)>> \in Kind \X Dialled \X DialNode
    BY <1>7, OtherNode DEF Kind, Dial!Told
  <2>4. dial_wire' \subseteq Kind \X Dialled \X DialNode
    BY <1>1, <1>3, <2>3 DEF DialTyped
  <2> QED
    BY <1>1, <1>3, <1>8, <1>9, <2>1, <2>2, <2>4 DEF DialTyped
<1>11. Addressed'
  <2>1. \A x \in Dialled, m \in DialNode,
            k \in {"request", "rtt", "proof"} : <<k, x, m>> \in dial_wire'
                => <<k, x, m>> \in dial_wire
    BY <1>3
  <2>2. \A x \in Dial!Link \ Dialled, m \in DialNode : end'[x][m] = "none"
    BY <1>1, <1>7, <1>9 DEF Addressed
  <2> QED
    BY <1>1, <1>3, <1>8, <2>1, <2>2 DEF Addressed
<1>12. EndsHeard'
  <2>1. ASSUME NEW x \in Dialled, NEW m \in DialNode, end'[x][m] = "active" PROVE Watched(x, m)'
    <3>1. CASE m = n /\ x = l
      BY <1>1, <1>3, <1>6, <3>1 DEF Watched, DialTyped
    <3>2. CASE m = n /\ x # l
      BY <1>1, <1>3, <1>6, <1>9, <2>1, <3>2 DEF EndsHeard, Watched, Trying,
         DialTyped
    <3>3. CASE m # n
      BY <1>1, <1>3, <1>9, <2>1, <3>3 DEF EndsHeard, Watched, Trying, DialTyped
    <3> QED
      BY <3>1, <3>2, <3>3
  <2>2. ASSUME NEW x \in Dialled, end'[x][caller[x]] = "pending"
        PROVE  x \in dial_left \/ Trying(caller[x], x)
    BY <1>1, <1>3, <1>9, <2>2 DEF EndsHeard, DialTyped
  <2> QED
    BY <1>3, <1>8, <2>1, <2>2 DEF EndsHeard, Trying
<1> QED
  BY <1>1, <1>3, <1>8, <1>10, <1>11, <1>12 DEF DialInv, Attempts

LEMMA IdentifiedKept ==
  ASSUME DialInv, NEW n \in DialNode, NEW l \in Dialled, Dial!Identified(n, l)
  PROVE  DialInv'
<1>1. DialTyped /\ Addressed /\ Attempts /\ EndsHeard
  BY DEF DialInv
<1>2. /\ dial_wire' \subseteq dial_wire /\ dial_known' = [dial_known EXCEPT ![n] = @ \union {l}]
      /\ UNCHANGED <<caller, end, links, cached, listed, active, session, task, dial_left>>
  BY DEF Dial!Identified, Dial!registry
<1>3. Dialled' = Dialled
  BY <1>2 DEF Dialled, Dial!Opened
<1>4. dial_known' \in [DialNode -> SUBSET Dialled]
  BY <1>1, <1>2 DEF DialTyped
<1>5. DialTyped'
  BY <1>1, <1>2, <1>3, <1>4 DEF DialTyped
<1>6. Addressed' /\ Attempts'
  BY <1>1, <1>2, <1>3 DEF Addressed, Attempts
<1>7. EndsHeard'
  BY <1>1, <1>2, <1>3 DEF EndsHeard, Watched, Trying
<1> QED
  BY <1>5, <1>6, <1>7 DEF DialInv

LEMMA ClosedKept ==
  ASSUME DialInv, NEW n \in DialNode, NEW l \in Dialled, Dial!Closed(n, l)
  PROVE  DialInv'
<1> DEFINE q == Dial!Dropped(n, Dial!Here(n), l)
           more == Dial!Gone(n, l)
<1>1. DialTyped /\ Addressed /\ Attempts /\ EndsHeard
  BY DEF DialInv
<1>2. q \in Registry /\ links[n] \ q.shut \subseteq q.links
  BY <1>1, HereIs, DroppedAllLoses DEF Dial!Dropped
<1>3. more \subseteq dial_wire
  BY DEF Dial!Gone
<1>4. UNCHANGED <<caller, dial_known, task, dial_left>>
  BY DEF Dial!Closed
<1>5. Dialled' = Dialled
  BY <1>4 DEF Dialled, Dial!Opened
<1> HIDE DEF q, more
<1>6. task' \in [DialNode -> [at : Stage, user : BOOLEAN, link : Dialled \union {0}, tries : Nat]] /\ Attempts'
  BY <1>1, <1>4, <1>5 DEF DialTyped, Attempts
<1>7. \A k \in Dialled, m \in DialNode : Trying(m, k)' <=> Trying(m, k)
  BY <1>4 DEF Trying
<1>8. CASE Dial!Store(n, q, more)
  <2>1. more \subseteq Kind \X Dialled \X DialNode
    BY <1>1, <1>3 DEF DialTyped
  <2> QED
    BY <1>2, <1>3, <1>4, <1>6, <1>7, <1>8, <2>1, StoreKept
<1>9. CASE dial_wire' = more /\ end' = [end EXCEPT ![l][n] = "closed"]
           /\ UNCHANGED <<links, cached, listed, active, session>>
  <2>1. /\ end' \in [Dial!Link -> [DialNode -> Place]] /\ end'[l][n] = "closed"
        /\ \A x \in Dial!Link, m \in DialNode : x # l \/ m # n => end'[x][m] = end[x][m]
    BY <1>1, <1>9 DEF DialTyped, Place
  <2>2. DialTyped'
    BY <1>1, <1>3, <1>4, <1>5, <1>9, <2>1 DEF DialTyped
  <2>3. Addressed'
    BY <1>1, <1>3, <1>4, <1>5, <1>9, <2>1 DEF Addressed
  <2>4. EndsHeard'
    <3>1. ASSUME NEW x \in Dialled, NEW m \in DialNode, end'[x][m] = "active" PROVE Watched(x, m)'
      BY <1>1, <1>4, <1>7, <1>9, <2>1, <3>1 DEF EndsHeard, Watched, DialTyped
    <3>2. ASSUME NEW x \in Dialled, end'[x][caller[x]] = "pending"
          PROVE x \in dial_left \/ Trying(caller[x], x)
      BY <1>1, <2>1, <3>2 DEF EndsHeard, DialTyped
    <3> QED
      BY <1>4, <1>5, <3>1, <3>2 DEF EndsHeard, Trying
  <2> QED
    BY <1>6, <2>2, <2>3, <2>4 DEF DialInv
<1> QED
  BY <1>8, <1>9 DEF Dial!Closed, Dial!registry, q, more

LEMMA LoseKept ==
  ASSUME DialInv, NEW m, Dial!Lose(m)
  PROVE  DialInv'
<1>1. dial_wire' \subseteq dial_wire
      /\ UNCHANGED <<caller, dial_known, end, links, cached, listed, active, session, task, dial_left>>
  BY DEF Dial!Lose, Dial!registry
<1>2. Dialled' = Dialled
  BY <1>1 DEF Dialled, Dial!Opened
<1> QED
  BY <1>1, <1>2 DEF DialInv, DialTyped, Addressed, Attempts, EndsHeard, Watched,
     Trying

-----------------------------------------------------------------------------
LEMMA DialStart == Dial!Init => DialInv
  BY DEF Dial!Init, DialInv, DialTyped, Addressed, Attempts, EndsHeard, Dialled,
     Dial!Opened,
     Dial!Idle, Place, Stage, Kind, Dial!Link

LEMMA DialKeeps == DialInv /\ [Next]_vars => DialInv'
<1> SUFFICES ASSUME DialInv, [Next]_vars PROVE DialInv'
  OBVIOUS
<1>1. ASSUME NEW n \in DialNode,
             Dial!Press(n) \/ Dial!Begin(n, "user") \/ Dial!Begin(n, "reverse")
                 \/ Dial!Already(n) \/
             Dial!Dial(n) \/ Dial!PollAdopts(n) \/ Dial!PollPromotes(n) \/ Dial!PollFinds(n) \/
             Dial!PollEnds(n) \/ Dial!AwaitAdopts(n) \/ Dial!AwaitEnds(n)
      PROVE  DialInv'
  BY <1>1, PressKept, BeginKept, AlreadyKept, DialKept, PollAdoptsKept,
     PollPromotesKept, PollFindsKept,
     PollEndsKept, AwaitAdoptsKept, AwaitEndsKept
<1>2. ASSUME NEW n \in DialNode, NEW l \in Dialled,
             Dial!Request(n, l) \/ Dial!Proof(n, l) \/ Dial!InboundRefused(n, l) \/
             Dial!InboundTaken(n, l) \/ Dial!Identified(n, l) \/ Dial!Closed(n, l)
      PROVE  DialInv'
  BY <1>2, RequestKept, ProofKept, InboundRefusedKept, InboundTakenKept,
     IdentifiedKept, ClosedKept
<1>3. ASSUME NEW m, Dial!Lose(m) PROVE DialInv'
  BY <1>3, LoseKept
<1>4. CASE UNCHANGED Dial!vars
  BY <1>4 DEF Dial!vars, Dial!registry, DialInv, DialTyped, Addressed, Attempts,
     EndsHeard, Watched, Trying,
     Dialled, Dial!Opened
<1> QED
  BY <1>1, <1>2, <1>3, <1>4, DialSteps DEF Dial!Next, Dialled

\* An end of a link that two nodes opened to each other is heard, by its callbacks or
\* by the attempt that polls it, unless the node left it as the attempt it no longer
\* needed (_teardown_outbound_attempt and the finally clause of
\* _establish_outbound_link, connect.py): in no order of dials, callbacks, closes and
\* lost packets is a node deaf on an open link otherwise.
THEOREM OpenLinksHeard == Spec => []DeafNeedsLeft
<1>1. Init => DialInv
  BY DialStart DEF Init
<1>2. DialInv => DeafNeedsLeft
  <2> SUFFICES ASSUME DialInv, Dial!Quiet, NEW l \in Dial!OpenBoth, NEW n \in DialNode
               PROVE l \in links[n] \union dial_left
    BY DEF DeafNeedsLeft, Dial!DeafNeedsLeft
  <2> QED
    BY DEF DialInv, EndsHeard, Watched, Trying, Dial!Quiet, Dial!OpenBoth, Dialled
<1> QED
  BY <1>1, <1>2, DialKeeps, PTL DEF Spec

-----------------------------------------------------------------------------
(* Two nodes that dial each other, once more: a success is a link.             *)

LEMMA TheOther ==
  ASSUME NEW n \in DialNode, NEW m \in DialNode, m # n
  PROVE  m = Dial!Other(n) /\ n = Dial!Other(m)
<1>1. Dial!Other(n) \in DialNode \ {n} /\ Dial!Other(m) \in DialNode \ {m}
  BY OtherNode
<1> QED
  BY <1>1, PairAssumption

\* A registry that lists at most one link, of the open ones it has callbacks for.
Tidy(n, r) ==
  /\ r \in Registry
  /\ \A l \in r.links : end[l][n] = "active" /\ l \notin r.shut
  /\ r.cached = {r.listed} \ {0}
  /\ r.listed \in r.links \union {0}
  /\ r.active \in {0, r.listed}

\* A registry of the session's peer that has no link but the active one.
InSession(r) == r.session
OnlyLink(r) == InSession(r) /\ r.links \subseteq {r.listed} /\ r.active = r.listed

LEMMA TidyViews ==
  ASSUME DialTyped, NEW n \in DialNode, NEW r, Tidy(n, r)
  PROVE  /\ Dial!Active(n, r) = {r.listed} \ {0}
         /\ Dial!LinkFor(n, r) = r.listed
         /\ Dial!Found(n, r) = ({r.listed} \ {0}) \union (r.links \intersect dial_known[n])
         /\ Dial!PeerActive(n, r) <=> Dial!Found(n, r) # {}
         /\ 0 \notin Dialled
<1>1. 0 \notin Dialled
  BY DEF DialTyped, Dial!Link
<1>2. r.links \subseteq Dialled /\ r.links \subseteq Dial!Up(n, r)
          /\ Dial!Up(n, r) \subseteq Dialled
  BY DEF Tidy, Registry, Dial!Up, Dialled
<1>3. Dial!Active(n, r) = {r.listed} \ {0}
  BY <1>1, <1>2 DEF Tidy, Dial!Active
<1>4. Dial!LinkFor(n, r) = r.listed
  BY <1>1, <1>2 DEF Tidy, Dial!LinkFor
<1>5. Dial!Found(n, r) = ({r.listed} \ {0}) \union (r.links \intersect dial_known[n])
  BY <1>1, <1>2 DEF Tidy, Dial!Found
<1>6. Dial!PeerActive(n, r) <=> Dial!Found(n, r) # {}
  BY <1>1, <1>2, <1>4, <1>5 DEF Tidy, Dial!PeerActive
<1> QED
  BY <1>1, <1>3, <1>4, <1>5, <1>6

LEMMA DropTidy ==
  ASSUME DialTyped, NEW n \in DialNode, NEW r, Tidy(n, r), NEW ls \in SUBSET Dialled,
         NEW q, q = Dial!DroppedAll(n, r, ls)
  PROVE  /\ Tidy(n, q)
         /\ q.links = r.links \ ls /\ q.shut = r.shut \union ls /\ q.session = r.session
         /\ q.listed = (IF r.listed \in ls THEN 0 ELSE r.listed)
         /\ q.active = (IF r.listed \in ls THEN 0 ELSE r.active)
<1> DEFINE mine == ls \intersect r.links
           gone == [r EXCEPT !.links = @ \ mine, !.cached = @ \ mine, !.shut = @ \union ls]
           rest == Dial!Active(n, gone)
           next == IF rest = {} THEN 0 ELSE CHOOSE k \in rest : TRUE
<1>1. 0 \notin Dialled /\ r \in Registry
  BY TidyViews DEF Tidy
<1>2. /\ gone \in Registry /\ gone.links = r.links \ ls /\ gone.shut = r.shut \union ls
      /\ gone.cached = ({r.listed} \ {0}) \ mine /\ gone.listed = r.listed
      /\ gone.active = r.active /\ gone.session = r.session
  BY DEF Registry, Tidy
<1>3. gone.links \subseteq Dial!Up(n, gone)
  BY <1>1, <1>2 DEF Tidy, Registry, Dial!Up, Dialled
<1>4. rest = gone.cached \intersect gone.links
  BY <1>3 DEF Dial!Active
<1>5. rest = (IF r.listed \in ls \union {0} THEN {} ELSE {r.listed})
  <2>1. CASE r.listed \in ls \union {0}
    BY <1>1, <1>2, <1>4, <2>1 DEF Tidy
  <2>2. CASE r.listed \notin ls \union {0}
    <3>1. r.listed \in r.links
      BY <2>2 DEF Tidy
    <3> QED
      BY <1>2, <1>4, <2>2, <3>1
  <2> QED
    BY <2>1, <2>2
<1>6. next = (IF r.listed \in ls THEN 0 ELSE r.listed)
  BY <1>5
<1>7. q = IF mine = {} THEN gone
          ELSE [gone EXCEPT !.listed = next, !.active = IF @ \in mine THEN next ELSE @]
  BY DEF Dial!DroppedAll
<1>8. mine = {} => r.listed \notin ls
  BY <1>1 DEF Tidy
<1>9. r.active \in mine => r.listed \in ls
  BY <1>1 DEF Tidy, Registry
<1>10. r.listed \in ls => r.active \in mine \union {0}
  BY <1>1 DEF Tidy, Registry
<1> HIDE DEF gone, next
<1>11. /\ q \in Registry /\ q.links = r.links \ ls /\ q.shut = r.shut \union ls
              /\ q.session = r.session
       /\ q.cached = gone.cached
       /\ q.listed = (IF r.listed \in ls THEN 0 ELSE r.listed)
       /\ q.active = (IF r.listed \in ls THEN 0 ELSE r.active)
  <2>1. CASE mine = {}
    BY <1>2, <1>7, <1>8, <2>1
  <2>2. CASE mine # {}
    <3>1. next \in Dialled \union {0}
      BY <1>1, <1>6 DEF Registry
    <3>2. q = [gone EXCEPT !.listed = next, !.active = IF @ \in mine THEN next ELSE @]
      BY <1>7, <2>2
    <3>3. q \in Registry
      BY <1>2, <3>1, <3>2 DEF Registry
    <3>4. /\ q.links = gone.links /\ q.shut = gone.shut /\ q.session = gone.session
          /\ q.cached = gone.cached /\ q.listed = next
          /\ q.active = (IF gone.active \in mine THEN next ELSE gone.active)
      BY <1>2, <3>2 DEF Registry
    <3> QED
      BY <1>2, <1>6, <1>9, <1>10, <3>3, <3>4
  <2> QED
    BY <2>1, <2>2
<1>12. q.cached = {q.listed} \ {0}
  BY <1>1, <1>2, <1>11 DEF Tidy
<1> QED
  BY <1>11, <1>12 DEF Tidy

LEMMA ConsolidateTidy ==
  ASSUME DialTyped, NEW n \in DialNode, NEW r, Tidy(n, r), NEW l, r.listed \in {0, l},
         NEW q, q = Dial!Consolidated(n, r, l)
  PROVE  q = r
<1>1. Dial!Others(n, r, l) = {}
  BY TidyViews DEF Dial!Others
<1>2. r.links \ {} = r.links /\ r.cached \ {} = r.cached /\ r.shut \union {} = r.shut
  OBVIOUS
<1>3. r = [r EXCEPT !.links = r.links, !.cached = r.cached, !.shut = r.shut]
  BY DEF Tidy, Registry
<1>4. Dial!DroppedAll(n, r, {}) = r
  BY <1>2, <1>3 DEF Dial!DroppedAll
<1> QED
  BY <1>1, <1>4 DEF Dial!Consolidated

Promoted(n, r, l) == Dial!Notified(n, r, l, TRUE)

\* What a promotion does: the link listed before is shut.
LEMMA PromoteTidy ==
  ASSUME DialTyped, NEW n \in DialNode, NEW r, Tidy(n, r), NEW l, l \in r.links,
         NEW q, q = Promoted(n, r, l)
  PROVE  /\ Tidy(n, q)
         /\ q.links = r.links \ ({r.listed} \ {0, l})
                /\ q.shut = r.shut \union ({r.listed} \ {0, l})
         /\ q.listed = l /\ q.active = l /\ InSession(q)
<1> DEFINE reg == Dial!Registered(r, l)
           olds == {r.listed} \ {0, l}
           z == Dial!Consolidated(n, reg, l)
<1>1. 0 \notin Dialled /\ r \in Registry /\ l \in Dialled /\ l # 0
  BY TidyViews DEF Tidy, Registry
<1>2. /\ reg \in Registry /\ reg.links = r.links /\ reg.shut = r.shut /\ reg.listed = l
      /\ reg.cached = ({r.listed} \ {0}) \union {l} /\ reg.active = r.active
             /\ reg.session = r.session
  BY <1>1 DEF Registry, Tidy, Dial!Registered
<1>3. q = [z EXCEPT !.listed = l, !.active = l, !.session = TRUE]
  BY DEF Dial!Notified, Promoted
<1> HIDE DEF reg
<1>4. reg.links \subseteq Dial!Up(n, reg)
  BY <1>1, <1>2 DEF Tidy, Registry, Dial!Up, Dialled
<1>5. Dial!Active(n, reg) = ({r.listed} \ {0}) \union {l}
  BY <1>2, <1>4 DEF Dial!Active, Tidy
<1>6. Dial!Others(n, reg, l) = olds
  BY <1>1, <1>2, <1>5 DEF Dial!Others
<1>7. olds \in SUBSET Dialled /\ olds \subseteq r.links
  BY <1>1 DEF Tidy, Registry
<1>8. z \in Registry /\ z.links = r.links \ olds /\ z.shut = r.shut \union olds
  BY <1>2, <1>6, <1>7, DroppedAllLoses DEF Dial!Consolidated
<1>9. z.cached = {l}
  <2> DEFINE mine == olds \intersect reg.links
             gone == [reg EXCEPT !.links = @ \ mine, !.cached = @ \ mine, !.shut = @ \union olds]
             rest == Dial!Active(n, gone)
             next == IF rest = {} THEN 0 ELSE CHOOSE k \in rest : TRUE
  <2>1. gone \in Registry /\ gone.cached = {l}
    BY <1>1, <1>2, <1>7 DEF Registry
  <2>2. z = IF mine = {} THEN gone
            ELSE [gone EXCEPT !.listed = next, !.active = IF @ \in mine THEN next ELSE @]
    BY <1>6 DEF Dial!Consolidated, Dial!DroppedAll
  <2> HIDE DEF gone, next, mine
  <2> QED
    BY <2>1, <2>2 DEF Registry
<1> HIDE DEF z, olds
<1>10. /\ q \in Registry /\ q.links = r.links \ olds /\ q.shut = r.shut \union olds
              /\ q.cached = {l}
       /\ q.listed = l /\ q.active = l /\ InSession(q)
  BY <1>1, <1>3, <1>8, <1>9 DEF Registry, InSession
<1> QED
  BY <1>1, <1>7, <1>10 DEF Tidy, olds

-----------------------------------------------------------------------------
(* What is known of the registries and of the packets.                         *)

OneListed == \A n \in DialNode : Tidy(n, Dial!Here(n))

\* A close follows the end it speaks of; a request comes before anything else.
Ordered ==
  /\ \A l \in Dialled, n \in DialNode : <<"close", l, n>> \in dial_wire
         => end[l][Dial!Other(n)] = "closed"
  /\ \A l \in Dialled, n \in DialNode : <<"request", l, n>> \in dial_wire =>
       /\ end[l][n] = "none" /\ end[l][Dial!Other(n)] # "active"
       /\ <<"close", l, n>> \notin dial_wire /\ <<"proof", l, Dial!Other(n)>> \notin dial_wire

\* Only the callee gets an identity.
Identities ==
  /\ \A n \in DialNode : \A l \in dial_known[n] : caller[l] # n
  /\ \A l \in Dialled, n \in DialNode : <<"identify", l, n>> \in dial_wire => caller[l] # n

\* Nobody has begun a connect.
Untouched ==
  /\ Dialled = {} /\ waiting \in [DialNode -> SUBSET {"user"}]
  /\ \A n \in DialNode : task[n].at = "idle"

\* Node s, whose user connected first, has no link but its active one, and of a link it
\* opened it never closes its end first once the other end is open.
First(s) ==
  /\ OnlyLink(Dial!Here(s))
  /\ \A l \in Dialled : caller[l] = s =>
       /\ end[l][Dial!Other(s)] = "active" => end[l][s] = "active"
       /\ <<"rtt", l, Dial!Other(s)>> \in dial_wire =>
            end[l][s] = "active" \/ end[l][Dial!Other(s)] = "closed"
Sided == Untouched \/ \E s \in DialNode : First(s)

Counted == dial_spent \in Nat /\ told \in [DialNode -> {"none", "ok", "failed"}]
SidesInv == OneListed /\ Ordered /\ Identities /\ Sided /\ Counted

\* Up to the first link that is open at both ends: no callee's end is open, nothing was
\* closed, one node alone has attempts under way, and a success has an open link.
Called(l) == end[l][caller[l]]
Callee(l) == Dial!Other(caller[l])
FirstDial ==
  /\ \A l \in Dialled : end[l][Callee(l)] \in {"none", "pending"}
  /\ \A l \in Dialled, n \in DialNode : <<"close", l, n>> \notin dial_wire
  /\ \A l \in Dialled : Called(l) = "active" => <<"rtt", l, Callee(l)>> \in dial_wire
  /\ \A l \in Dialled : <<"rtt", l, Callee(l)>> \in dial_wire => Called(l) = "active"
  /\ \A k, l \in Dialled :
       Called(k) \in {"pending", "active"} /\ Called(l) \in {"pending", "active"}
         => caller[k] = caller[l]
  /\ (\E n \in DialNode : told[n] = "ok") => \E l \in Dialled : Called(l) = "active"

LinkedInv == SidesInv /\ (crossed \/ dial_spent # 0 \/ Dial!OpenBoth # {} \/ FirstDial)

-----------------------------------------------------------------------------
(* What the steps of a connect do to the registry of their node.               *)

\* The node may take q over: what it shuts is not open at both ends, or a link the other
\* node opened is kept for it.
Keeps(n, q) ==
  /\ Tidy(n, q)
  /\ OnlyLink(Dial!Here(n)) =>
       OnlyLink(q) /\ \A l \in q.shut : end[l][n] = "active" => end[l][Dial!Other(n)] = "closed"
  /\ \A l \in q.shut : <<"request", l, n>> \notin dial_wire
  /\ \A l \in q.shut : end[l][n] = "active" =>
       end[l][Dial!Other(n)] = "closed"
       \/ \E k \in Dialled \ q.shut : end[k][n] = "active" /\ caller[k] # n

Connects(n, q, more) ==
  /\ Keeps(n, q) /\ Dial!Store(n, q, more)
  /\ \A l \in q.shut : end[l][n] = "active" \/ caller[l] = n
  /\ \/ more = dial_wire
     \/ \E t \in Dialled : caller[t] = n
            /\ more = dial_wire \union {<<"identify", t, Dial!Other(n)>>}
  /\ UNCHANGED <<caller, dial_known, crossed, dial_spent>>
  /\ \/ told' = told
     \/ told' = [told EXCEPT ![n] = "ok"] /\ \E k \in Dialled : end[k][n] = "active"

LEMMA HereTidy ==
  ASSUME DialTyped, OneListed, NEW n \in DialNode, NEW r, r = Dial!Here(n)
  PROVE  /\ Tidy(n, r) /\ r.links = links[n] /\ r.listed = listed[n] /\ r.active = active[n]
         /\ r.session = session[n] /\ r.shut = {}
         /\ \A l \in links[n] : end[l][n] = "active"
         /\ listed[n] \in links[n] \union {0} /\ active[n] \in {0, listed[n]}
  BY DEF OneListed, Dial!Here, Tidy

\* A registry that shuts nothing is kept.
LEMMA NothingShut ==
  ASSUME NEW n \in DialNode, NEW q, Tidy(n, q), q.shut = {}, OnlyLink(Dial!Here(n)) => OnlyLink(q)
  PROVE  Keeps(n, q)
  BY DEF Keeps

\* A link that is promoted for the one listed was found by the identity of its caller.
LEMMA PromotionKeeps ==
  ASSUME DialTyped, OneListed, Ordered, Identities, NEW n \in DialNode, NEW l \in links[n],
         l = listed[n] \/ listed[n] = 0 \/ l \in dial_known[n],
         NEW q, q = Promoted(n, Dial!Here(n), l)
  PROVE  Keeps(n, q) /\ q.listed = l /\ \A k \in q.shut : end[k][n] = "active"
<1> DEFINE r == Dial!Here(n)
           olds == {listed[n]} \ {0, l}
<1>1. /\ Tidy(n, r) /\ r.links = links[n] /\ r.listed = listed[n] /\ r.active = active[n]
      /\ r.session = session[n] /\ r.shut = {} /\ \A k \in links[n] : end[k][n] = "active"
      /\ listed[n] \in links[n] \union {0}
  BY HereTidy
<1> HIDE DEF r
<1>2. /\ Tidy(n, q) /\ q.links = links[n] \ olds /\ q.shut = olds
      /\ q.listed = l /\ q.active = l /\ InSession(q)
  <2>1. l \in r.links /\ q = Promoted(n, r, l)
    BY <1>1 DEF r
  <2>2. /\ Tidy(n, q) /\ q.links = r.links \ ({r.listed} \ {0, l})
               /\ q.shut = r.shut \union ({r.listed} \ {0, l})
        /\ q.listed = l /\ q.active = l /\ InSession(q)
    BY <1>1, <2>1, PromoteTidy
  <2> QED
    BY <1>1, <2>2
<1>3. OnlyLink(r) => olds = {} /\ OnlyLink(q)
  <2> SUFFICES ASSUME OnlyLink(r) PROVE olds = {} /\ OnlyLink(q)
    OBVIOUS
  <2>1. links[n] \subseteq {listed[n]}
    BY <1>1 DEF OnlyLink
  <2>2. l = listed[n] /\ olds = {}
    BY <2>1
  <2> HIDE DEF olds
  <2> QED
    BY <1>2, <2>1, <2>2 DEF OnlyLink
<1>4. \A k \in olds : end[k][n] = "active" /\ l \in dial_known[n] /\ k \in Dialled
  BY <1>1 DEF DialTyped
<1>5. \A k \in olds : <<"request", k, n>> \notin dial_wire
  BY <1>4 DEF Ordered
<1>6. olds # {} => l \in Dialled \ olds /\ end[l][n] = "active" /\ caller[l] # n
  BY <1>1, <1>4 DEF Identities, DialTyped
<1> HIDE DEF olds
<1> QED
  BY <1>2, <1>3, <1>4, <1>5, <1>6 DEF Keeps, r

\* A connect that ends with the link l: the registry is kept as it is, or l is promoted.
LEMMA AdoptionConnects ==
  ASSUME DialTyped, OneListed, Ordered, Identities, NEW n \in DialNode, NEW l, NEW q,
         UNCHANGED <<caller, dial_known, crossed, dial_spent>>,
         \/ q = Dial!Here(n) /\ (l = listed[n] \/ listed[n] = 0)
         \/ /\ l \in links[n] /\ (l = listed[n] \/ listed[n] = 0 \/ l \in dial_known[n])
            /\ q = Promoted(n, Dial!Here(n), l),
         \E k \in Dialled : end[k][n] = "active",
         Dial!Finished(n, q, l)
  PROVE  Connects(n, q, dial_wire)
<1> DEFINE r == Dial!Here(n)
<1>1. /\ Tidy(n, r) /\ r.links = links[n] /\ r.listed = listed[n] /\ r.active = active[n]
      /\ r.session = session[n] /\ r.shut = {} /\ \A k \in links[n] : end[k][n] = "active"
      /\ listed[n] \in links[n] \union {0}
  BY HereTidy
<1>2. Keeps(n, q) /\ q.listed \in {0, l} /\ \A k \in q.shut : end[k][n] = "active"
  <2>1. CASE q = r /\ (l = listed[n] \/ listed[n] = 0)
    BY <1>1, <2>1, NothingShut DEF r
  <2>2. CASE l \in links[n] /\ (l = listed[n] \/ listed[n] = 0 \/ l \in dial_known[n])
             /\ q = Promoted(n, r, l)
    BY <2>2, PromotionKeeps DEF r
  <2> QED
    BY <2>1, <2>2
<1>3. Tidy(n, q)
  BY <1>2 DEF Keeps
<1>4. l # 0 => Dial!Consolidated(n, q, l) = q
  BY <1>2, <1>3, ConsolidateTidy
<1>5. Dial!Store(n, q, dial_wire) /\ told' = [told EXCEPT ![n] = "ok"]
  BY <1>4 DEF Dial!Finished
<1> QED
  BY <1>2, <1>5 DEF Connects

\* What PeerActive says of a tidy registry.
LEMMA PeerIs ==
  ASSUME DialTyped, OneListed, NEW n \in DialNode
  PROVE  /\ Dial!LinkFor(n, Dial!Here(n)) = listed[n]
         /\ Dial!Found(n, Dial!Here(n)) = ({listed[n]} \ {0})
                \union (links[n] \intersect dial_known[n])
         /\ Dial!PeerActive(n, Dial!Here(n)) => \E k \in Dialled : end[k][n] = "active"
         /\ listed[n] # 0 => Dial!PeerActive(n, Dial!Here(n))
         /\ 0 \notin Dialled
<1> DEFINE r == Dial!Here(n)
<1>1. /\ Tidy(n, r) /\ r.links = links[n] /\ r.listed = listed[n]
      /\ listed[n] \in links[n] \union {0} /\ \A k \in links[n] : end[k][n] = "active"
  BY HereTidy
<1> HIDE DEF r
<1>2. /\ Dial!LinkFor(n, r) = r.listed
      /\ Dial!Found(n, r) = ({r.listed} \ {0}) \union (r.links \intersect dial_known[n])
      /\ Dial!PeerActive(n, r) <=> Dial!Found(n, r) # {}
      /\ 0 \notin Dialled
  BY <1>1, TidyViews
<1>3. r.links \subseteq Dialled
  BY <1>1 DEF Tidy, Registry
<1>4. Dial!Found(n, r) \subseteq links[n]
  BY <1>1, <1>2
<1> QED
  BY <1>1, <1>2, <1>3, <1>4 DEF r

LEMMA AlreadyConnects ==
  ASSUME DialTyped, OneListed, Ordered, Identities, NEW n \in DialNode, Dial!Already(n)
  PROVE  \E q, more : Connects(n, q, more)
<1> DEFINE r == Dial!Here(n)
<1>1. /\ listed[n] \in links[n] \union {0} /\ active[n] \in {0, listed[n]}
             /\ links[n] \subseteq Dialled
      /\ \A k \in links[n] : end[k][n] = "active"
  BY HereTidy DEF DialTyped
<1>2. /\ Dial!LinkFor(n, r) = listed[n] /\ 0 \notin Dialled
      /\ Dial!Found(n, r) = ({listed[n]} \ {0}) \union (links[n] \intersect dial_known[n])
      /\ Dial!PeerActive(n, r) => \E k \in Dialled : end[k][n] = "active"
  BY PeerIs
<1>3. UNCHANGED <<caller, dial_known, crossed, dial_spent>>
  BY DEF Dial!Already
<1>4. Dial!Found(n, r) \subseteq {l \in links[n] : l = listed[n] \/ l \in dial_known[n]}
  BY <1>1, <1>2
<1>5. Dial!Usable(n, r) \subseteq {l \in links[n] : l = listed[n] \/ l \in dial_known[n]}
  BY <1>1, <1>2, <1>4 DEF Dial!Usable
<1>6. ASSUME NEW l \in links[n], l = listed[n] \/ l \in dial_known[n],
             \E k \in Dialled : end[k][n] = "active", Dial!Finished(n, Promoted(n, r, l), l)
      PROVE  \E q, more : Connects(n, q, more)
  BY <1>3, <1>6, AdoptionConnects
<1>7. ASSUME NEW l, l = listed[n] \/ listed[n] = 0,
             \E k \in Dialled : end[k][n] = "active", Dial!Finished(n, r, l)
      PROVE  \E q, more : Connects(n, q, more)
  BY <1>3, <1>7, AdoptionConnects
<1>8. \/ active[n] # 0 /\ Dial!Finished(n, r, active[n])
      \/ /\ Dial!PeerActive(n, r)
         /\ \/ \E l \in Dial!Usable(n, r) :
                   Dial!Finished(n, IF task[n].user THEN Promoted(n, r, l) ELSE r, l)
            \/ \E l \in Dial!Found(n, r) : Dial!Finished(n, Promoted(n, r, l), l)
  BY DEF Dial!Already, Promoted
<1> HIDE DEF r
<1>9. CASE active[n] # 0 /\ Dial!Finished(n, r, active[n])
  BY <1>1, <1>7, <1>9
<1>10. ASSUME Dial!PeerActive(n, r), NEW l \in Dial!Usable(n, r),
              Dial!Finished(n, IF task[n].user THEN Promoted(n, r, l) ELSE r, l)
       PROVE  \E q, more : Connects(n, q, more)
  <2>1. CASE task[n].user
    BY <1>2, <1>5, <1>6, <1>10, <2>1
  <2>2. CASE ~task[n].user
    <3>1. l = listed[n] \/ listed[n] = 0
      BY <1>2, <1>10 DEF Dial!Usable
    <3> QED
      BY <1>2, <1>7, <1>10, <2>2, <3>1
  <2> QED
    BY <2>1, <2>2
<1>11. ASSUME Dial!PeerActive(n, r), NEW l \in Dial!Found(n, r),
           Dial!Finished(n, Promoted(n, r, l), l)
       PROVE  \E q, more : Connects(n, q, more)
  BY <1>2, <1>4, <1>6, <1>11
<1> QED
  BY <1>8, <1>9, <1>10, <1>11

LEMMA AwaitAdoptsConnects ==
  ASSUME DialTyped, OneListed, Ordered, Identities, NEW n \in DialNode, Dial!AwaitAdopts(n)
  PROVE  \E q, more : Connects(n, q, more)
<1> DEFINE r == Dial!Here(n)
<1>1. /\ listed[n] \in links[n] \union {0} /\ Tidy(n, r) /\ r.links = links[n]
             /\ r.listed = listed[n]
      /\ r.active = active[n] /\ r.session = session[n] /\ r.shut = {}
      /\ \A k \in links[n] : end[k][n] = "active"
  BY HereTidy
<1>2. /\ Dial!LinkFor(n, r) = listed[n] /\ 0 \notin Dialled
      /\ Dial!Found(n, r) = ({listed[n]} \ {0}) \union (links[n] \intersect dial_known[n])
      /\ Dial!PeerActive(n, r) => \E k \in Dialled : end[k][n] = "active"
  BY PeerIs
<1>3. UNCHANGED <<caller, dial_known, crossed, dial_spent>>
          /\ \E k \in Dialled : end[k][n] = "active"
  BY <1>2 DEF Dial!AwaitAdopts
<1>4. PICK l \in Dial!Usable(n, r) :
        Dial!Finished(n, Dial!Notified(n, r, l, Dial!LinkFor(n, r) = 0 \/ session[n]), l)
  BY DEF Dial!AwaitAdopts
<1> HIDE DEF r
<1>5. l = listed[n] \/ listed[n] = 0
  BY <1>2 DEF Dial!Usable
<1>6. l \in links[n]
  BY <1>1, <1>2 DEF Dial!Usable
<1>7. CASE Dial!LinkFor(n, r) = 0 \/ session[n]
  <2>1. Dial!Finished(n, Promoted(n, r, l), l)
    BY <1>4, <1>7 DEF Promoted, Dial!Notified
  <2> QED
    BY <1>3, <1>5, <1>6, <2>1, AdoptionConnects DEF r
<1>8. CASE ~(Dial!LinkFor(n, r) = 0 \/ session[n])
  <2>1. l = listed[n] /\ l # 0 /\ l \in Dialled
    BY <1>1, <1>2, <1>5, <1>6, <1>8 DEF Tidy, Registry
  <2>2. Dial!Registered(r, l) = r
    <3>1. r.cached \union {l} = r.cached /\ r.listed = l
      BY <1>1, <2>1 DEF Tidy
    <3> QED
      BY <1>1, <3>1 DEF Tidy, Registry, Dial!Registered
  <2>3. Dial!Finished(n, r, l)
    BY <1>4, <1>8, <2>2 DEF Dial!Notified
  <2> QED
    BY <1>3, <1>5, <2>3, AdoptionConnects DEF r
<1> QED
  BY <1>7, <1>8

LEMMA PollAdoptsConnects ==
  ASSUME DialTyped, Addressed, Attempts, OneListed, Ordered, Identities, NEW n \in DialNode,
      Dial!PollAdopts(n)
  PROVE  \E q, more : Connects(n, q, more)
<1> DEFINE r == Dial!Here(n)
           t == task[n].link
           l == listed[n]
           p == Promoted(n, r, l)
           q == Dial!Abandoned(n, p, t)
<1>1. /\ listed[n] \in links[n] \union {0} /\ r.shut = {} /\ r.listed = listed[n]
      /\ Tidy(n, r) /\ r.links = links[n] /\ \A k \in links[n] : end[k][n] = "active"
  BY HereTidy
<1>2. /\ Dial!LinkFor(n, r) = l /\ 0 \notin Dialled
      /\ Dial!PeerActive(n, r) => \E k \in Dialled : end[k][n] = "active"
  BY PeerIs
<1>3. /\ UNCHANGED <<caller, dial_known, crossed, dial_spent>>
             /\ \E k \in Dialled : end[k][n] = "active"
      /\ l # 0 /\ t \in Dialled /\ caller[t] = n
  BY <1>2 DEF Dial!PollAdopts, Attempts
<1>4. Dial!Finished(n, q, l)
  BY <1>2 DEF Dial!PollAdopts, Promoted
<1>5. l \in links[n]
  BY <1>1, <1>3
<1>6. p = Promoted(n, Dial!Here(n), l)
  OBVIOUS
<1> HIDE DEF r, p
<1>7. Keeps(n, p) /\ p.listed = l /\ p.shut = {} /\ p.links = links[n]
  <2>1. Keeps(n, p) /\ p.listed = l
    BY <1>5, <1>6, PromotionKeeps
  <2>2. p.links = r.links \ ({r.listed} \ {0, l}) /\ p.shut = r.shut \union ({r.listed} \ {0, l})
    BY <1>1, <1>5, PromoteTidy DEF p
  <2> QED
    BY <1>1, <2>1, <2>2
<1>8. \/ q = p
      \/ /\ end[t][n] # "active" /\ q.shut = {t} /\ q.listed = l /\ Tidy(n, q)
         /\ OnlyLink(p) => OnlyLink(q)
  <2>1. Tidy(n, p)
    BY <1>7 DEF Keeps
  <2>2. CASE t \in Dial!Up(n, p)
    BY <2>2 DEF Dial!Abandoned
  <2>3. CASE t \notin Dial!Up(n, p)
    <3>1. end[t][n] # "active"
      BY <1>3, <1>7, <2>3 DEF Dial!Up, Dialled
    <3>2. q = [p EXCEPT !.shut = @ \union {t}, !.links = @ \ {t}]
      BY <2>3 DEF Dial!Abandoned
    <3>3. p.links \ {t} = p.links /\ p.shut \union {t} = {t}
      BY <1>1, <1>7, <3>1
    <3> HIDE DEF q
    <3>4. /\ q \in Registry /\ q.links = p.links /\ q.shut = {t} /\ q.cached = p.cached
          /\ q.listed = p.listed /\ q.active = p.active /\ q.session = p.session
      BY <1>3, <2>1, <3>2, <3>3 DEF Tidy, Registry
    <3>5. Tidy(n, q)
      BY <1>1, <1>7, <2>1, <3>1, <3>4 DEF Tidy
    <3>6. OnlyLink(p) => OnlyLink(q)
      BY <3>4 DEF OnlyLink, InSession
    <3> QED
      BY <1>7, <3>1, <3>4, <3>5, <3>6
  <2> QED
    BY <2>2, <2>3
<1>9. <<"request", t, n>> \notin dial_wire
  BY <1>3 DEF Addressed
<1> HIDE DEF q, t, l
<1>10. Keeps(n, q) /\ q.listed = l /\ \A k \in q.shut : end[k][n] = "active" \/ caller[k] = n
  BY <1>3, <1>7, <1>8, <1>9 DEF Keeps
<1>11. Tidy(n, q)
  BY <1>10 DEF Keeps
<1>12. Dial!Consolidated(n, q, l) = q
  BY <1>10, <1>11, ConsolidateTidy
<1>13. Dial!Store(n, q, dial_wire) /\ told' = [told EXCEPT ![n] = "ok"]
  BY <1>4, <1>12 DEF Dial!Finished
<1> QED
  BY <1>3, <1>10, <1>13 DEF Connects

LEMMA PollEndsConnects ==
  ASSUME DialTyped, Addressed, Attempts, OneListed, NEW n \in DialNode, Dial!PollEnds(n)
  PROVE  \E q, more : Connects(n, q, more)
<1> DEFINE r == Dial!Here(n)
           t == task[n].link
           q == Dial!Abandoned(n, r, t)
<1>1. /\ Tidy(n, r) /\ r.links = links[n] /\ r.shut = {} /\ \A k \in links[n] : end[k][n] = "active"
  BY HereTidy
<1>2. /\ UNCHANGED <<caller, dial_known, crossed, dial_spent, told>> /\ Dial!Store(n, q, dial_wire)
      /\ t \in Dialled /\ caller[t] = n /\ end[t][n] # "active"
  BY DEF Dial!PollEnds, Attempts
<1> HIDE DEF r
<1>3. q = [r EXCEPT !.shut = @ \union {t}, !.links = @ \ {t}]
  BY <1>2 DEF Dial!Abandoned, Dial!Up
<1>4. r.links \ {t} = r.links /\ r.shut \union {t} = {t}
  BY <1>1, <1>2
<1> HIDE DEF q
<1>5. /\ q \in Registry /\ q.links = r.links /\ q.shut = {t} /\ q.cached = r.cached
      /\ q.listed = r.listed /\ q.active = r.active /\ q.session = r.session
  BY <1>1, <1>2, <1>3, <1>4 DEF Tidy, Registry
<1>6. Tidy(n, q)
  BY <1>1, <1>2, <1>5 DEF Tidy
<1>7. OnlyLink(r) => OnlyLink(q)
  BY <1>5 DEF OnlyLink, InSession
<1>8. <<"request", t, n>> \notin dial_wire
  BY <1>2 DEF Addressed
<1>9. Keeps(n, q) /\ \A k \in q.shut : caller[k] = n
  BY <1>2, <1>5, <1>6, <1>7, <1>8 DEF Keeps, r
<1> QED
  BY <1>2, <1>9 DEF Connects

LEMMA PollPromotesConnects ==
  ASSUME DialTyped, Attempts, OneListed, NEW n \in DialNode, Dial!PollPromotes(n)
  PROVE  \E q, more : Connects(n, q, more)
<1> DEFINE t == task[n].link
           h == Dial!Here(n)
           r == Dial!SetUp(h, t)
           promote == task[n].user \/ session[n]
           reg == Dial!Registered(r, t)
           q == IF promote THEN [reg EXCEPT !.listed = t, !.active = t, !.session = TRUE] ELSE reg
           more == dial_wire \union {<<"identify", t, Dial!Other(n)>>}
<1>1. /\ Tidy(n, h) /\ h.links = links[n] /\ h.shut = {} /\ h.listed = listed[n]
             /\ h.active = active[n]
      /\ h.session = session[n] /\ \A k \in links[n] : end[k][n] = "active"
  BY HereTidy
<1>2. /\ t \in Dialled /\ caller[t] = n /\ end[t][n] = "active"
      /\ UNCHANGED <<caller, dial_known, crossed, dial_spent>> /\ told' = [told EXCEPT ![n] = "ok"]
      /\ Dial!Store(n, Dial!Consolidated(n, Dial!Notified(n, r, t, promote), t), more)
  BY DEF Dial!PollPromotes, Attempts
<1>3. listed[n] = 0 /\ 0 \notin Dialled
  BY PeerIs DEF Dial!PollPromotes
<1> HIDE DEF h, t
<1>4. h.cached = {} /\ h.active = 0 /\ h \in Registry
  BY <1>1, <1>3 DEF Tidy
<1>5. /\ r \in Registry /\ r.links = links[n] \union {t} /\ r.cached = {} /\ r.listed = 0
      /\ r.active = 0 /\ r.session = session[n] /\ r.shut = {}
  BY <1>1, <1>2, <1>3, <1>4 DEF Dial!SetUp, Registry
<1> HIDE DEF r
<1>6. /\ reg \in Registry /\ reg.links = links[n] \union {t} /\ reg.cached = {t} /\ reg.listed = t
      /\ reg.active = 0 /\ reg.session = session[n] /\ reg.shut = {}
  BY <1>2, <1>5 DEF Dial!Registered, Registry
<1> HIDE DEF reg
<1>7. Tidy(n, reg)
  BY <1>1, <1>2, <1>3, <1>6 DEF Tidy
<1>8. Dial!Consolidated(n, reg, t) = reg
  BY <1>6, <1>7, ConsolidateTidy
<1>9. Dial!Notified(n, r, t, promote) = q
  BY <1>8 DEF Dial!Notified, reg
<1> HIDE DEF promote
<1>10. /\ q \in Registry /\ q.links = links[n] \union {t} /\ q.cached = {t} /\ q.listed = t
       /\ q.active = (IF promote THEN t ELSE 0) /\ q.shut = {}
  BY <1>2, <1>6 DEF Registry
<1>11. Tidy(n, q)
  <2> HIDE DEF q
  <2> QED
    BY <1>1, <1>2, <1>3, <1>10 DEF Tidy
<1>12. OnlyLink(h) => OnlyLink(q)
  <2> SUFFICES ASSUME OnlyLink(h) PROVE OnlyLink(q)
    OBVIOUS
  <2>1. promote /\ links[n] \subseteq {0}
    BY <1>1, <1>3 DEF OnlyLink, InSession, promote
  <2>2. links[n] \subseteq Dialled
    BY DEF DialTyped
  <2>3. links[n] = {}
    BY <1>3, <2>1, <2>2
  <2>4. InSession(q)
    BY <1>6, <2>1 DEF Registry, InSession
  <2> HIDE DEF q
  <2> QED
    BY <1>10, <2>1, <2>3, <2>4 DEF OnlyLink
<1> HIDE DEF q
<1>13. Keeps(n, q)
  BY <1>10, <1>11, <1>12, NothingShut DEF h
<1>14. Dial!Consolidated(n, q, t) = q
  BY <1>10, <1>11, ConsolidateTidy
<1>15. Dial!Store(n, q, more)
  BY <1>2, <1>9, <1>14
<1> QED
  BY <1>2, <1>10, <1>13, <1>15 DEF Connects

-----------------------------------------------------------------------------
(* A step that stores a registry keeps what is known of both nodes.            *)

\* What a node adds to the packets on their way when it stores a registry.
Sends(n, q, more) ==
  \A p \in more \ dial_wire :
    \/ \E t \in Dialled : caller[t] = n /\ p = <<"identify", t, Dial!Other(n)>>
    \/ \E t \in q.shut : caller[t] # n /\ p = <<"close", t, Dial!Other(n)>>

\* The registry of a node in the next state.
LEMMA HereAfter ==
  ASSUME DialTyped, DialTyped', OneListed, NEW m \in DialNode, UNCHANGED caller,
         UNCHANGED <<links[m], cached[m], listed[m], active[m], session[m]>>,
         \A l \in links[m] : end'[l][m] = end[l][m]
  PROVE  Tidy(m, Dial!Here(m))' /\ (OnlyLink(Dial!Here(m)) => OnlyLink(Dial!Here(m))')
<1>1. Dialled' = Dialled
  BY DEF Dial!Opened, Dialled
<1>2. Dial!Here(m)' = Dial!Here(m) /\ Tidy(m, Dial!Here(m)) /\ Dial!Here(m).links = links[m]
          /\ Dial!Here(m).shut = {}
  BY HereTidy DEF Dial!Here
<1> QED
  BY <1>1, <1>2 DEF Tidy, OnlyLink, InSession, Registry

LEMMA HereStored ==
  ASSUME DialTyped, DialTyped', NEW n \in DialNode, UNCHANGED caller, NEW q, Tidy(n, q),
         links'[n] = q.links, cached'[n] = q.cached, listed'[n] = q.listed, active'[n] = q.active,
         session'[n] = q.session, \A l \in q.links : end'[l][n] = "active"
  PROVE  Tidy(n, Dial!Here(n))' /\ (OnlyLink(q) => OnlyLink(Dial!Here(n))')
<1>1. Dialled' = Dialled
  BY DEF Dial!Opened, Dialled
<1>2. /\ Dial!Here(n)'.links = q.links /\ Dial!Here(n)'.cached = q.cached
             /\ Dial!Here(n)'.listed = q.listed
      /\ Dial!Here(n)'.active = q.active /\ Dial!Here(n)'.session = q.session
             /\ Dial!Here(n)'.shut = {}
  BY DEF Dial!Here
<1>3. Dial!Here(n)' \in Registry'
  BY HereIs DEF DialTyped, Registry, Dial!Here
<1> QED
  BY <1>1, <1>2, <1>3 DEF Tidy, OnlyLink, InSession

LEMMA StoreMoves ==
  ASSUME DialTyped, NEW n \in DialNode, NEW q, Tidy(n, q), NEW more,
         more \subseteq Kind \X Dialled \X DialNode, Dial!Store(n, q, more)
  PROVE  /\ \A l \in Dialled, m \in DialNode :
              end'[l][m] = (IF m = n /\ l \in q.shut THEN "closed" ELSE end[l][m])
         /\ links'[n] = q.links /\ cached'[n] = q.cached /\ listed'[n] = q.listed
         /\ active'[n] = q.active /\ session'[n] = q.session
         /\ \A m \in DialNode \ {n} :
              UNCHANGED <<links[m], cached[m], listed[m], active[m], session[m]>>
         /\ \A l \in Dialled, m \in DialNode, k \in Kind : <<k, l, m>> \in dial_wire' =>
              \/ <<k, l, m>> \in more
              \/ /\ k = "close" /\ m = Dial!Other(n) /\ l \in q.shut
                 /\ end[l][n] = "active" /\ end[l][m] # "closed"
         /\ more \subseteq dial_wire'
<1>1. /\ end' = [l \in Dial!Link |-> IF l \in q.shut THEN [end[l] EXCEPT ![n] = "closed"] ELSE end[l]]
      /\ links' = [links EXCEPT ![n] = q.links] /\ cached' = [cached EXCEPT ![n] = q.cached]
      /\ listed' = [listed EXCEPT ![n] = q.listed] /\ active' = [active EXCEPT ![n] = q.active]
      /\ session' = [session EXCEPT ![n] = q.session]
      /\ dial_wire' = more \union {<<"close", l, Dial!Other(n)>> : l \in Dial!Told(n, q)}
  BY DEF Dial!Store
<1>2. \A l \in Dialled, m \in DialNode :
        end'[l][m] = (IF m = n /\ l \in q.shut THEN "closed" ELSE end[l][m])
  BY <1>1 DEF DialTyped
<1>3. /\ links'[n] = q.links /\ cached'[n] = q.cached /\ listed'[n] = q.listed
             /\ active'[n] = q.active
      /\ \A m \in DialNode \ {n} : UNCHANGED <<links[m], cached[m], listed[m], active[m]>>
  BY <1>1 DEF DialTyped
<1>4. session'[n] = q.session /\ \A m \in DialNode \ {n} : session'[m] = session[m]
  BY <1>1, Zenon DEF DialTyped
<1>5. \A p \in dial_wire' : p \in more
          \/ \E l \in Dial!Told(n, q) : p = <<"close", l, Dial!Other(n)>>
  BY <1>1
<1>6. more \subseteq dial_wire'
  BY <1>1
<1>7. ASSUME NEW l \in Dialled, NEW m \in DialNode, NEW k \in Kind, <<k, l, m>> \in dial_wire',
          <<k, l, m>> \notin more
      PROVE  /\ k = "close" /\ m = Dial!Other(n) /\ l \in q.shut
             /\ end[l][n] = "active" /\ end[l][m] # "closed"
  <2>1. PICK x \in Dial!Told(n, q) : <<k, l, m>> = <<"close", x, Dial!Other(n)>>
    BY <1>5, <1>7
  <2> QED
    BY <2>1 DEF Dial!Told
<1> QED
  BY <1>2, <1>3, <1>4, <1>6, <1>7

LEMMA StoreSides ==
  ASSUME DialTyped, DialTyped', Addressed, OneListed, Ordered, Identities, NEW n \in DialNode,
      NEW q, NEW more,
         more \subseteq Kind \X Dialled \X DialNode, Keeps(n, q), Dial!Store(n, q, more),
             Sends(n, q, more),
         UNCHANGED <<caller, dial_known>>
  PROVE  /\ OneListed' /\ Ordered' /\ Identities'
         /\ \A s \in DialNode : First(s) => First(s)'
<1>1. Dialled' = Dialled
  BY DEF Dial!Opened, Dialled
<1>2. /\ Tidy(n, q) /\ q.shut \subseteq Dialled
      /\ \A l \in q.links : l \notin q.shut /\ end[l][n] = "active"
  BY DEF Keeps, Tidy, Registry
<1>3. /\ \A l \in Dialled, m \in DialNode :
           end'[l][m] = (IF m = n /\ l \in q.shut THEN "closed" ELSE end[l][m])
      /\ links'[n] = q.links /\ cached'[n] = q.cached /\ listed'[n] = q.listed
      /\ active'[n] = q.active /\ session'[n] = q.session
      /\ \A m \in DialNode \ {n} :
           UNCHANGED <<links[m], cached[m], listed[m], active[m], session[m]>>
      /\ more \subseteq dial_wire'
  BY <1>2, StoreMoves
<1>4. \A l \in Dialled, m \in DialNode, k \in Kind : <<k, l, m>> \in dial_wire' =>
              \/ <<k, l, m>> \in more
              \/ /\ k = "close" /\ m = Dial!Other(n) /\ l \in q.shut
                 /\ end[l][n] = "active" /\ end[l][m] # "closed"
  BY <1>2, StoreMoves
<1>5. q.links \subseteq Dialled
  BY <1>2 DEF Tidy, Registry
<1>6. Tidy(n, Dial!Here(n))' /\ (OnlyLink(q) => OnlyLink(Dial!Here(n))')
  BY <1>2, <1>3, <1>5, HereStored
<1>7. ASSUME NEW m \in DialNode \ {n}
      PROVE  Tidy(m, Dial!Here(m))' /\ (OnlyLink(Dial!Here(m)) => OnlyLink(Dial!Here(m))')
  <2>1. \A l \in links[m] : end'[l][m] = end[l][m]
    BY <1>3 DEF DialTyped
  <2> QED
    BY <1>3, <2>1, HereAfter
<1>8. \A l \in Dialled, m \in DialNode, k \in Kind : <<k, l, m>> \in dial_wire' =>
        \/ <<k, l, m>> \in dial_wire
        \/ k = "identify" /\ m = Dial!Other(n) /\ caller[l] = n
        \/ /\ k = "close" /\ m = Dial!Other(n) /\ l \in q.shut
                  /\ (caller[l] = n => end[l][n] = "active")
           /\ (caller[l] # n \/ end[l][n] = "active")
  BY <1>4 DEF Sends
<1>9. \A l \in Dialled, m \in DialNode : end[l][m] = "closed" => end'[l][m] = "closed"
  BY <1>3
<1>10. \A l \in Dialled, m \in DialNode : end'[l][m] # "closed" => end'[l][m] = end[l][m]
  BY <1>3
<1>11. Ordered'
  <2>1. ASSUME NEW l \in Dialled, NEW m \in DialNode, <<"close", l, m>> \in dial_wire'
        PROVE  end'[l][Dial!Other(m)] = "closed"
    <3>1. CASE <<"close", l, m>> \in dial_wire
      BY <1>9, <3>1, OtherNode DEF Ordered
    <3>2. CASE <<"close", l, m>> \notin dial_wire
      <4>1. m = Dial!Other(n) /\ l \in q.shut
        BY <1>8, <2>1, <3>2 DEF Kind
      <4>2. Dial!Other(m) = n
        BY <4>1, OtherNode, TheOther
      <4> QED
        BY <1>3, <4>1, <4>2
    <3> QED
      BY <3>1, <3>2
  <2>2. ASSUME NEW l \in Dialled, NEW m \in DialNode, <<"request", l, m>> \in dial_wire'
        PROVE  /\ end'[l][m] = "none" /\ end'[l][Dial!Other(m)] # "active"
               /\ <<"close", l, m>> \notin dial_wire'
                      /\ <<"proof", l, Dial!Other(m)>> \notin dial_wire'
    <3>1. <<"request", l, m>> \in dial_wire /\ Dial!Other(m) \in DialNode
      BY <1>8, <2>2, OtherNode DEF Kind
    <3>2. /\ end[l][m] = "none" /\ end[l][Dial!Other(m)] # "active" /\ m # caller[l]
          /\ <<"close", l, m>> \notin dial_wire /\ <<"proof", l, Dial!Other(m)>> \notin dial_wire
      BY <3>1 DEF Ordered, Addressed
    <3>3. end'[l][m] = "none"
      BY <1>3, <3>1, <3>2 DEF Keeps
    <3>4. end'[l][Dial!Other(m)] # "active"
      BY <1>3, <3>1, <3>2
    <3>5. <<"proof", l, Dial!Other(m)>> \notin dial_wire'
      BY <1>8, <3>1, <3>2 DEF Kind
    <3>6. caller[l] = Dial!Other(m) /\ caller[l] \in DialNode
      BY <3>2, TheOther DEF DialTyped
    <3>7. ASSUME m = Dial!Other(n) PROVE n = Dial!Other(m)
      BY <3>7, OtherNode, TheOther
    <3>8. <<"close", l, m>> \notin dial_wire'
      BY <1>8, <3>1, <3>2, <3>6, <3>7 DEF Kind
    <3> QED
      BY <3>3, <3>4, <3>5, <3>8
  <2> QED
    BY <1>1, <2>1, <2>2 DEF Ordered
<1>12. Identities'
  <2>1. ASSUME NEW l \in Dialled, NEW m \in DialNode, <<"identify", l, m>> \in dial_wire'
        PROVE caller[l] # m
    BY <1>8, <2>1, OtherNode DEF Identities, Kind
  <2> QED
    BY <1>1, <2>1 DEF Identities
<1>13. ASSUME NEW s \in DialNode, First(s) PROVE First(s)'
  <2>1. OnlyLink(Dial!Here(s)) => OnlyLink(Dial!Here(s))'
    BY <1>6, <1>7 DEF Keeps
  <2>2. ASSUME NEW l \in Dialled, caller[l] = s
        PROVE  /\ end'[l][Dial!Other(s)] = "active" => end'[l][s] = "active"
               /\ <<"rtt", l, Dial!Other(s)>> \in dial_wire' =>
                    end'[l][s] = "active" \/ end'[l][Dial!Other(s)] = "closed"
    <3>1. Dial!Other(s) \in DialNode /\ Dial!Other(s) # s
      BY OtherNode
    <3>2. <<"rtt", l, Dial!Other(s)>> \in dial_wire' => <<"rtt", l, Dial!Other(s)>> \in dial_wire
      BY <1>8, <3>1 DEF Kind
    <3>3. end'[l][Dial!Other(s)] = end[l][Dial!Other(s)] \/ end'[l][Dial!Other(s)] = "closed"
      BY <1>3, <3>1
    <3>4. end[l][s] = "active" => end'[l][s] = "active" \/ end'[l][Dial!Other(s)] = "closed"
      BY <1>3, <1>9, <1>13, <3>1 DEF First, Keeps
    <3> QED
      BY <1>9, <1>13, <2>2, <3>1, <3>2, <3>3, <3>4 DEF First
  <2> QED
    BY <1>1, <1>13, <2>1, <2>2 DEF First
<1> QED
  BY <1>6, <1>7, <1>11, <1>12, <1>13 DEF OneListed

LEMMA StoreOpen ==
  ASSUME DialTyped, NEW n \in DialNode, NEW q, NEW more, NEW s \in DialNode, First(s),
         more \subseteq Kind \X Dialled \X DialNode, Keeps(n, q), Dial!Store(n, q, more),
         UNCHANGED caller, Dial!OpenBoth # {}
  PROVE  Dial!OpenBoth' # {}
<1>1. Dialled' = Dialled /\ Tidy(n, q)
  BY DEF Dial!Opened, Dialled, Keeps
<1>2. \A l \in Dialled, m \in DialNode :
        end'[l][m] = (IF m = n /\ l \in q.shut THEN "closed" ELSE end[l][m])
  BY <1>1, StoreMoves
<1>3. PICK l \in Dialled : \A m \in DialNode : end[l][m] = "active"
  BY DEF Dial!OpenBoth, Dialled
<1>4. \E k \in Dialled : \A m \in DialNode : end'[k][m] = "active"
  <2>1. CASE l \notin q.shut
    BY <1>2, <1>3, <2>1
  <2>2. CASE l \in q.shut
    <3>1. Dial!Other(n) \in DialNode /\ Dial!Other(n) # n
      BY OtherNode
    <3>2. end[l][Dial!Other(n)] # "closed" /\ end[l][n] = "active"
      BY <1>3, <3>1
    <3>3. n # s
      BY <2>2, <3>2 DEF Keeps, First
    <3>4. PICK k \in Dialled \ q.shut : end[k][n] = "active" /\ caller[k] # n
      BY <2>2, <3>2 DEF Keeps
    <3>5. caller[k] = s /\ n = Dial!Other(s)
      BY <3>3, <3>4, TheOther DEF DialTyped
    <3>6. end[k][s] = "active"
      BY <3>4, <3>5 DEF First
    <3>7. \A m \in DialNode : m = n \/ m = s
      BY <3>5, TheOther
    <3> QED
      BY <1>2, <3>4, <3>6, <3>7
  <2> QED
    BY <2>1, <2>2
<1> QED
  BY <1>1, <1>4 DEF Dial!OpenBoth, Dialled

-----------------------------------------------------------------------------
(* What every step does to the invariant.                                      *)

Advances ==
  /\ SidesInv'
  /\ Dial!OpenBoth # {} => Dial!OpenBoth' # {}
  /\ crossed => crossed'
  /\ dial_spent # 0 => dial_spent' # 0
  /\ FirstDial => crossed' \/ dial_spent' # 0 \/ Dial!OpenBoth' # {} \/ FirstDial'

LEMMA ConnectAdvances ==
  ASSUME DialInv, DialInv', SidesInv, NEW n \in DialNode, task[n].at # "idle",
         NEW q, NEW more, Connects(n, q, more)
  PROVE  Advances
<1>1. /\ DialTyped /\ DialTyped' /\ Addressed /\ OneListed /\ Ordered /\ Identities /\ Sided
             /\ Counted
      /\ dial_wire \subseteq Kind \X Dialled \X DialNode
  BY DEF DialInv, SidesInv, DialTyped
<1>2. /\ Keeps(n, q) /\ Dial!Store(n, q, more) /\ Tidy(n, q) /\ q.shut \subseteq Dialled
      /\ \A l \in q.shut : end[l][n] = "active" \/ caller[l] = n
      /\ UNCHANGED <<caller, dial_known, crossed, dial_spent>>
      /\ \/ told' = told
         \/ told' = [told EXCEPT ![n] = "ok"] /\ \E k \in Dialled : end[k][n] = "active"
  BY DEF Connects, Keeps, Tidy, Registry
<1>3. /\ more \subseteq Kind \X Dialled \X DialNode /\ dial_wire \subseteq more
      /\ \A p \in more \ dial_wire : \E t \in Dialled : caller[t] = n
             /\ p = <<"identify", t, Dial!Other(n)>>
  BY <1>1, OtherNode DEF Connects, Kind
<1>4. Sends(n, q, more) /\ Dialled' = Dialled
  BY <1>2, <1>3 DEF Sends, Dial!Opened, Dialled
<1>5. PICK s \in DialNode : First(s)
  BY <1>1 DEF Sided, Untouched
<1>6. OneListed' /\ Ordered' /\ Identities' /\ First(s)'
  BY <1>1, <1>2, <1>3, <1>4, <1>5, StoreSides
<1>7. Dial!OpenBoth # {} => Dial!OpenBoth' # {}
  BY <1>1, <1>2, <1>3, <1>5, StoreOpen
<1>8. Counted'
  BY <1>1, <1>2 DEF Counted
<1>9. SidesInv'
  BY <1>6, <1>8 DEF SidesInv, Sided
<1>10. ASSUME FirstDial PROVE FirstDial'
  <2>1. /\ \A l \in Dialled, m \in DialNode :
              end'[l][m] = (IF m = n /\ l \in q.shut THEN "closed" ELSE end[l][m])
        /\ more \subseteq dial_wire'
        /\ \A l \in Dialled, m \in DialNode, k \in Kind : <<k, l, m>> \in dial_wire' =>
              \/ <<k, l, m>> \in more
              \/ k = "close" /\ l \in q.shut /\ end[l][n] = "active"
    BY <1>1, <1>2, <1>3, StoreMoves
  <2>2. /\ \A l \in Dialled : end[l][Callee(l)] \in {"none", "pending"}
        /\ \A l \in Dialled, m \in DialNode : <<"close", l, m>> \notin dial_wire
        /\ \A l \in Dialled : Called(l) = "active" <=> <<"rtt", l, Callee(l)>> \in dial_wire
        /\ \A k, l \in Dialled :
             Called(k) \in {"pending", "active"} /\ Called(l) \in {"pending", "active"}
               => caller[k] = caller[l]
        /\ (\E m \in DialNode : told[m] = "ok") => \E l \in Dialled : Called(l) = "active"
    BY <1>10 DEF FirstDial
  <2>3. \A l \in Dialled : caller[l] \in DialNode /\ Callee(l) \in DialNode /\ Callee(l) # caller[l]
    BY <1>1, OtherNode DEF DialTyped, Callee
  <2>4. \A l \in Dialled : end[l][n] = "active" => caller[l] = n
    BY <1>1, <2>2, TheOther DEF DialTyped, Callee
  <2>5. \A l \in q.shut : end[l][n] # "active" /\ caller[l] = n
    <3> SUFFICES ASSUME NEW l \in q.shut, end[l][n] = "active" PROVE FALSE
      BY <1>2
    <3>1. caller[l] = n /\ end[l][Dial!Other(n)] # "closed"
      BY <1>2, <2>2, <2>4 DEF Callee
    <3> QED
      BY <1>2, <2>4, <3>1 DEF Keeps
  <2>6. \A l \in Dialled : Callee(l)' = Callee(l)
    BY <1>2 DEF Callee
  <2>7. \A l \in Dialled :
          /\ end'[l][Callee(l)] = end[l][Callee(l)]
          /\ \/ Called(l)' = Called(l)
             \/ Called(l)' = "closed" /\ Called(l) # "active"
    BY <1>2, <2>1, <2>3, <2>5 DEF Called
  <2>8. \A l \in Dialled, m \in DialNode, k \in Kind \ {"identify"} :
          <<k, l, m>> \in dial_wire' <=> <<k, l, m>> \in dial_wire
    <3>1. \A l \in Dialled, m \in DialNode,
              k \in Kind : <<k, l, m>> \in dial_wire' => <<k, l, m>> \in more
      BY <2>1, <2>5
    <3>2. \A l \in Dialled, m \in DialNode,
              k \in Kind \ {"identify"} : <<k, l, m>> \notin more \ dial_wire
      BY <1>3
    <3> QED
      BY <1>3, <2>1, <3>1, <3>2
  <2>9. (\E m \in DialNode : told'[m] = "ok") => \E l \in Dialled : Called(l) = "active"
    <3>1. CASE told' = told
      BY <2>2, <3>1
    <3>2. CASE \E k \in Dialled : end[k][n] = "active"
      BY <2>4, <3>2 DEF Called
    <3> QED
      BY <1>2, <3>1, <3>2
  <2>10. \A l \in Dialled, m \in DialNode : <<"close", l, m>> \notin dial_wire'
    BY <2>2, <2>8 DEF Kind
  <2>11. \A l \in Dialled : Called(l)' = "active" <=> <<"rtt", l, Callee(l)>> \in dial_wire'
    BY <2>2, <2>3, <2>7, <2>8 DEF Kind
  <2>12. \A k, l \in Dialled : Called(k)' \in {"pending", "active"}
             /\ Called(l)' \in {"pending", "active"}
                            => caller[k] = caller[l]
    BY <2>2, <2>7
  <2>13. (\E m \in DialNode : told'[m] = "ok") => \E l \in Dialled : Called(l)' = "active"
    BY <2>7, <2>9
  <2>14. \A l \in Dialled : end'[l][Callee(l)] \in {"none", "pending"}
    <3> SUFFICES ASSUME NEW l \in Dialled PROVE end'[l][Callee(l)] \in {"none", "pending"}
      OBVIOUS
    <3> QED
      BY <2>2, <2>7
  <2> QED
    BY <1>2, <1>4, <2>6, <2>10, <2>11, <2>12, <2>13, <2>14 DEF FirstDial
<1> QED
  BY <1>2, <1>7, <1>9, <1>10 DEF Advances

\* A step that moves no end, no packet and no registry.
LEMMA StillAdvances ==
  ASSUME DialInv, DialInv', SidesInv,
         UNCHANGED <<caller, end, dial_wire, dial_known, links, cached, listed, active, crossed, dial_spent>>,
         \A m \in DialNode : session[m] => session'[m], Untouched => Sided',
         told' \in [DialNode -> {"none", "ok", "failed"}],
         \/ \A m \in DialNode : told'[m] = "ok" => told[m] = "ok"
         \/ \E m \in DialNode : Dial!PeerActive(m, Dial!Here(m))
  PROVE  Advances
<1>1. /\ DialTyped /\ DialTyped' /\ OneListed /\ Ordered /\ Identities /\ Sided /\ Counted
  BY DEF DialInv, SidesInv
<1>2. Dialled' = Dialled
  BY DEF Dial!Opened, Dialled
<1>3. ASSUME NEW m \in DialNode
      PROVE  Tidy(m, Dial!Here(m))' /\ (OnlyLink(Dial!Here(m)) => OnlyLink(Dial!Here(m))')
  <2>1. /\ Dial!Here(m)'.links = links[m] /\ Dial!Here(m)'.cached = cached[m]
               /\ Dial!Here(m)'.listed = listed[m]
        /\ Dial!Here(m)'.active = active[m] /\ Dial!Here(m)'.session = session'[m]
               /\ Dial!Here(m)'.shut = {}
    BY DEF Dial!Here
  <2>2. Dial!Here(m)' \in Registry'
    BY <1>1 DEF DialTyped, Registry, Dial!Here
  <2>3. /\ Dial!Here(m).links = links[m] /\ Dial!Here(m).cached = cached[m]
               /\ Dial!Here(m).listed = listed[m]
        /\ Dial!Here(m).active = active[m] /\ Dial!Here(m).session = session[m]
               /\ Tidy(m, Dial!Here(m))
    BY <1>1 DEF Dial!Here, OneListed
  <2>4. Tidy(m, Dial!Here(m))'
    BY <2>1, <2>2, <2>3 DEF Tidy
  <2>5. OnlyLink(Dial!Here(m)) => OnlyLink(Dial!Here(m))'
    BY <2>1, <2>3 DEF OnlyLink, InSession
  <2> QED
    BY <2>4, <2>5
<1>4. OneListed'
  BY <1>3 DEF OneListed
<1>5. Ordered' /\ Identities'
  BY <1>1, <1>2 DEF Ordered, Identities
<1>6. Sided'
  <2>1. ASSUME NEW s \in DialNode, First(s) PROVE First(s)'
    BY <1>2, <1>3, <2>1 DEF First
  <2> QED
    BY <1>1, <2>1 DEF Sided
<1>7. Counted'
  BY <1>1 DEF Counted
<1>8. Dial!OpenBoth' = Dial!OpenBoth
  BY <1>2 DEF Dial!OpenBoth, Dialled
<1>9. ASSUME FirstDial PROVE FirstDial'
  <2>1. \A l \in Dialled : Called(l)' = Called(l) /\ Callee(l)' = Callee(l)
    BY DEF Called, Callee
  <2>2. (\E m \in DialNode : told'[m] = "ok") => \E l \in Dialled : Called(l) = "active"
    <3>1. CASE \A m \in DialNode : told'[m] = "ok" => told[m] = "ok"
      BY <1>9, <3>1 DEF FirstDial
    <3>2. ASSUME NEW m \in DialNode, Dial!PeerActive(m, Dial!Here(m))
          PROVE \E l \in Dialled : Called(l) = "active"
      <4>1. PICK l \in Dialled : end[l][m] = "active"
        BY <1>1, <3>2, PeerIs
      <4>2. caller[l] = m
        BY <1>1, <1>9, <4>1, TheOther DEF FirstDial, Callee, DialTyped
      <4> QED
        BY <4>1, <4>2 DEF Called
    <3> QED
      BY <3>1, <3>2
  <2> QED
    BY <1>2, <1>9, <2>1, <2>2 DEF FirstDial
<1> QED
  BY <1>4, <1>5, <1>6, <1>7, <1>8, <1>9 DEF Advances, SidesInv

LEMMA PressAdvances ==
  ASSUME DialInv, DialInv', SidesInv, NEW n \in DialNode, Dial!Press(n)
  PROVE  Advances
<1>1. /\ UNCHANGED <<caller, end, dial_wire, dial_known, links, cached, listed, active, session, task, crossed, dial_spent, told>>
      /\ waiting' = [waiting EXCEPT ![n] = @ \union {"user"}]
  BY DEF Dial!Press, Dial!registry
<1>2. Untouched => Sided'
  BY <1>1 DEF Untouched, Sided, Dialled, Dial!Opened
<1>3. told' \in [DialNode -> {"none", "ok", "failed"}]
  BY <1>1 DEF SidesInv, Counted
<1> QED
  BY <1>1, <1>2, <1>3, StillAdvances

LEMMA BeginAdvances ==
  ASSUME DialInv, DialInv', SidesInv, NEW n \in DialNode, NEW kind \in {"user", "reverse"},
      Dial!Begin(n, kind)
  PROVE  Advances
<1>1. /\ UNCHANGED <<caller, end, dial_wire, dial_known, links, cached, listed, active, crossed, dial_spent, told>>
      /\ kind \in waiting[n] /\ session' = [session EXCEPT ![n] = @ \/ kind = "user"]
  BY DEF Dial!Begin
<1>2. \A m \in DialNode : session[m] => session'[m]
  BY <1>1, Zenon DEF DialInv, DialTyped
<1>3. ASSUME Untouched PROVE Sided'
  <2>1. kind = "user" /\ session'[n] /\ Dialled = {}
    <3>1. kind = "user" /\ Dialled = {}
      BY <1>1, <1>3 DEF Untouched
    <3>2. session'[n]
      BY <1>1, <3>1, Zenon DEF DialInv, DialTyped
    <3> QED
      BY <3>1, <3>2
  <2>2. Dialled' = {} /\ links'[n] = {} /\ listed'[n] = 0 /\ active'[n] = 0
    BY <1>1, <2>1 DEF DialInv, DialTyped, Dialled, Dial!Opened
  <2>3. OnlyLink(Dial!Here(n))'
    BY <2>1, <2>2 DEF OnlyLink, InSession, Dial!Here
  <2>4. First(n)'
    BY <2>2, <2>3 DEF First
  <2> QED
    BY <2>4 DEF Sided
<1>4. told' \in [DialNode -> {"none", "ok", "failed"}]
  BY <1>1 DEF SidesInv, Counted
<1> QED
  BY <1>1, <1>2, <1>3, <1>4, StillAdvances

LEMMA PollFindsAdvances ==
  ASSUME DialInv, DialInv', SidesInv, NEW n \in DialNode, Dial!PollFinds(n)
  PROVE  Advances
<1>1. /\ UNCHANGED <<caller, end, dial_wire, dial_known, links, cached, listed, active, session, crossed, dial_spent>>
      /\ told' = [told EXCEPT ![n] = "ok"] /\ task[n].at = "poll"
      /\ Dial!PeerActive(n, Dial!Here(n)) /\ Dial!LinkFor(n, Dial!Here(n)) = 0
  BY DEF Dial!PollFinds, Dial!registry
<1>2. ~Untouched
  BY <1>1 DEF Untouched
<1>3. told' \in [DialNode -> {"none", "ok", "failed"}]
  BY <1>1 DEF SidesInv, Counted
<1> QED
  BY <1>1, <1>2, <1>3, StillAdvances

LEMMA AwaitEndsAdvances ==
  ASSUME DialInv, DialInv', SidesInv, NEW n \in DialNode, Dial!AwaitEnds(n)
  PROVE  Advances
<1>1. /\ UNCHANGED <<caller, end, dial_wire, dial_known, links, cached, listed, active, session, crossed, dial_spent>>
      /\ told' = told \/ told' = [told EXCEPT ![n] = "failed"]
      /\ task[n].at = "await"
  BY DEF Dial!AwaitEnds, Dial!registry
<1>2. ~Untouched
  BY <1>1 DEF Untouched
<1>3. /\ told' \in [DialNode -> {"none", "ok", "failed"}]
      /\ \A m \in DialNode : told'[m] = "ok" => told[m] = "ok"
  BY <1>1 DEF SidesInv, Counted
<1> QED
  BY <1>1, <1>2, <1>3, StillAdvances

LEMMA DialAdvances ==
  ASSUME DialInv, DialInv', SidesInv, NEW n \in DialNode, Dial!Dial(n)
  PROVE  Advances
<1>1. /\ DialTyped /\ DialTyped' /\ Addressed /\ OneListed /\ Ordered /\ Identities /\ Sided
             /\ Counted
  BY DEF DialInv, SidesInv
<1>2. PICK l \in Dial!Link :
        /\ task[n].at \in {"check", "again"}
        /\ Dial!Opened = 1..(l - 1)
        /\ caller' = [x \in Dial!Opened \union {l} |-> IF x = l THEN n ELSE caller[x]]
        /\ end' = [end EXCEPT ![l][n] = "pending"]
        /\ dial_wire' = dial_wire \union {<<"request", l, Dial!Other(n)>>}
        /\ crossed' = (crossed \/ \E k \in Dial!Opened : /\ caller[k] # n /\ end[k][n] # "active"
                                          /\ end[k][Dial!Other(n)] \in {"pending", "active"})
        /\ UNCHANGED <<dial_known, links, cached, listed, active, session, told, dial_spent>>
  BY DEF Dial!Dial, Dial!registry
<1>3. l \notin Dialled /\ Dialled' = Dialled \union {l}
  BY <1>2 DEF Dialled, Dial!Opened, Dial!Link
<1>4. Dial!Other(n) \in DialNode /\ Dial!Other(n) # n
  BY OtherNode
<1>5. caller'[l] = n /\ \A x \in Dialled : caller'[x] = caller[x]
  BY <1>2, <1>3 DEF Dialled
<1>6. /\ end'[l][n] = "pending" /\ end'[l][Dial!Other(n)] = "none"
      /\ \A x \in Dialled, m \in DialNode : end'[x][m] = end[x][m]
  <2>1. end[l][Dial!Other(n)] = "none"
    BY <1>1, <1>3, <1>4 DEF Addressed
  <2> QED
    BY <1>1, <1>2, <1>3, <1>4, <2>1 DEF DialTyped
<1>7. /\ \A k \in Kind, m \in DialNode : <<k, l, m>> \in dial_wire'
             <=> k = "request" /\ m = Dial!Other(n)
      /\ \A x \in Dialled, k \in Kind,
             m \in DialNode : <<k, x, m>> \in dial_wire' <=> <<k, x, m>> \in dial_wire
  <2>1. \A k \in Kind, m \in DialNode : <<k, l, m>> \notin dial_wire
    BY <1>1, <1>3 DEF DialTyped
  <2> QED
    BY <1>2, <1>3, <2>1
<1>8. ASSUME NEW m \in DialNode
      PROVE  Tidy(m, Dial!Here(m))' /\ (OnlyLink(Dial!Here(m)) => OnlyLink(Dial!Here(m))')
  <2>1. Dial!Here(m)' = Dial!Here(m) /\ Tidy(m, Dial!Here(m))
            /\ Dial!Here(m).links \subseteq Dialled
    BY <1>1, <1>2 DEF Dial!Here, OneListed, DialTyped
  <2>2. Dial!Here(m)' \in Registry'
    BY <1>3, <2>1 DEF Tidy, Registry
  <2> QED
    BY <1>6, <2>1, <2>2 DEF Tidy, OnlyLink, InSession
<1>9. OneListed'
  BY <1>8 DEF OneListed
<1>10. Ordered'
  <2>1. ASSUME NEW x \in Dialled', NEW m \in DialNode, <<"close", x, m>> \in dial_wire'
        PROVE end'[x][Dial!Other(m)] = "closed"
    BY <1>1, <1>3, <1>6, <1>7, <2>1, OtherNode DEF Ordered, Kind
  <2>2. ASSUME NEW x \in Dialled', NEW m \in DialNode, <<"request", x, m>> \in dial_wire'
        PROVE  /\ end'[x][m] = "none" /\ end'[x][Dial!Other(m)] # "active"
               /\ <<"close", x, m>> \notin dial_wire'
                      /\ <<"proof", x, Dial!Other(m)>> \notin dial_wire'
    <3>1. CASE x = l
      <4>1. m = Dial!Other(n) /\ Dial!Other(m) = n
        BY <1>4, <1>7, <2>2, <3>1, TheOther DEF Kind
      <4> QED
        BY <1>4, <1>6, <1>7, <3>1, <4>1 DEF Kind
    <3>2. CASE x \in Dialled
      BY <1>1, <1>6, <1>7, <2>2, <3>2, OtherNode DEF Ordered, Kind
    <3> QED
      BY <1>3, <3>1, <3>2
  <2> QED
    BY <2>1, <2>2 DEF Ordered
<1>11. Identities'
  <2>1. ASSUME NEW m \in DialNode, NEW x \in dial_known'[m] PROVE caller'[x] # m
    BY <1>1, <1>2, <1>5, <2>1 DEF Identities, DialTyped
  <2>2. ASSUME NEW x \in Dialled', NEW m \in DialNode, <<"identify", x, m>> \in dial_wire'
        PROVE caller'[x] # m
    BY <1>1, <1>3, <1>5, <1>7, <2>2 DEF Identities, Kind
  <2> QED
    BY <2>1, <2>2 DEF Identities
<1>12. Sided'
  <2>1. PICK s \in DialNode : First(s)
    BY <1>1, <1>2 DEF Sided, Untouched
  <2>2. ASSUME NEW x \in Dialled', caller'[x] = s
        PROVE  /\ end'[x][Dial!Other(s)] = "active" => end'[x][s] = "active"
               /\ <<"rtt", x, Dial!Other(s)>> \in dial_wire' =>
                    end'[x][s] = "active" \/ end'[x][Dial!Other(s)] = "closed"
    <3>1. CASE x = l
      BY <1>4, <1>5, <1>6, <1>7, <2>2, <3>1 DEF Kind
    <3>2. CASE x \in Dialled
      BY <1>5, <1>6, <1>7, <2>1, <2>2, <3>2, OtherNode DEF First, Kind
    <3> QED
      BY <1>3, <3>1, <3>2
  <2>3. OnlyLink(Dial!Here(s))'
    BY <1>8, <2>1 DEF First
  <2> QED
    BY <2>2, <2>3 DEF Sided, First
<1>13. Counted'
  BY <1>1, <1>2 DEF Counted
<1>14. Dial!OpenBoth # {} => Dial!OpenBoth' # {}
  BY <1>3, <1>6 DEF Dial!OpenBoth, Dialled
<1>15. (crossed => crossed') /\ (dial_spent # 0 => dial_spent' # 0)
  BY <1>2
<1>16. ASSUME FirstDial, ~crossed' PROVE FirstDial'
  <2>1. \A x \in Dialled : /\ Called(x)' = Called(x) /\ Callee(x)' = Callee(x)
                          /\ caller[x] \in DialNode /\ Callee(x) \in DialNode
    BY <1>1, <1>5, <1>6, OtherNode DEF Called, Callee, DialTyped
  <2>2. Called(l)' = "pending" /\ Callee(l)' = Dial!Other(n)
    BY <1>5, <1>6 DEF Called, Callee
  <2>3. \A x \in Dialled : caller[x] # n => Called(x) \notin {"pending", "active"}
    <3> SUFFICES ASSUME NEW x \in Dialled, caller[x] # n
                 PROVE Called(x) \notin {"pending", "active"}
      OBVIOUS
    <3>1. caller[x] = Dial!Other(n) /\ Callee(x) = n
      BY <1>1, TheOther DEF Callee, DialTyped
    <3>2. end[x][n] # "active"
      BY <1>16, <3>1 DEF FirstDial
    <3> QED
      BY <1>2, <1>16, <3>1, <3>2 DEF Called, Dialled
  <2>4. \A x \in Dialled' : end'[x][Callee(x)'] \in {"none", "pending"}
    BY <1>3, <1>6, <1>16, <2>1, <2>2 DEF FirstDial
  <2>5. \A x \in Dialled', m \in DialNode : <<"close", x, m>> \notin dial_wire'
    BY <1>3, <1>7, <1>16 DEF FirstDial, Kind
  <2>6. \A x \in Dialled' : Called(x)' = "active" <=> <<"rtt", x, Callee(x)'>> \in dial_wire'
    BY <1>3, <1>4, <1>7, <1>16, <2>1, <2>2 DEF FirstDial, Kind
  <2>7. \A k, x \in Dialled' : Called(k)' \in {"pending", "active"}
            /\ Called(x)' \in {"pending", "active"}
                            => caller'[k] = caller'[x]
    BY <1>3, <1>5, <1>16, <2>1, <2>3 DEF FirstDial
  <2>8. (\E m \in DialNode : told'[m] = "ok") => \E x \in Dialled' : Called(x)' = "active"
    BY <1>2, <1>3, <1>16, <2>1 DEF FirstDial
  <2> QED
    BY <2>4, <2>5, <2>6, <2>7, <2>8 DEF FirstDial
<1> QED
  BY <1>9, <1>10, <1>11, <1>12, <1>13, <1>14, <1>15, <1>16 DEF Advances, SidesInv

LEMMA RequestAdvances ==
  ASSUME DialInv, DialInv', SidesInv, NEW n \in DialNode, NEW l \in Dialled, Dial!Request(n, l)
  PROVE  Advances
<1>1. /\ DialTyped /\ DialTyped' /\ Addressed /\ OneListed /\ Ordered /\ Identities /\ Sided
             /\ Counted
  BY DEF DialInv, SidesInv
<1>2. /\ <<"request", l, n>> \in dial_wire /\ n # caller[l]
      /\ dial_wire' = (dial_wire \ {<<"request", l, n>>}) \union {<<"proof", l, Dial!Other(n)>>}
      /\ end' = [end EXCEPT ![l][n] = "pending"]
      /\ UNCHANGED <<caller, dial_known, links, cached, listed, active, session, told, crossed, dial_spent>>
  BY <1>1 DEF Dial!Request, Dial!registry, Addressed
<1>3. Dialled' = Dialled /\ Dial!Other(n) \in DialNode /\ Dial!Other(n) # n
  BY <1>2, OtherNode DEF Dialled, Dial!Opened
<1>4. end[l][n] = "none" /\ <<"close", l, n>> \notin dial_wire
  BY <1>1, <1>2 DEF Ordered
<1>5. /\ end'[l][n] = "pending"
      /\ \A x \in Dialled, m \in DialNode : x # l \/ m # n => end'[x][m] = end[x][m]
  BY <1>1, <1>2 DEF DialTyped
<1>6. \A x \in Dialled, k \in Kind \ {"request", "proof"}, m \in DialNode :
        <<k, x, m>> \in dial_wire' <=> <<k, x, m>> \in dial_wire
  BY <1>2
<1>7. ASSUME NEW m \in DialNode
      PROVE  Tidy(m, Dial!Here(m))' /\ (OnlyLink(Dial!Here(m)) => OnlyLink(Dial!Here(m))')
  <2>1. \A x \in links[m] : end'[x][m] = end[x][m]
    BY <1>1, <1>4, <1>5, HereTidy DEF DialTyped
  <2> QED
    BY <1>1, <1>2, <2>1, HereAfter
<1>8. Ordered'
  <2>1. ASSUME NEW x \in Dialled, NEW m \in DialNode, <<"close", x, m>> \in dial_wire'
        PROVE end'[x][Dial!Other(m)] = "closed"
    BY <1>1, <1>4, <1>5, <1>6, <2>1, OtherNode DEF Ordered, Kind
  <2>2. ASSUME NEW x \in Dialled, NEW m \in DialNode, <<"request", x, m>> \in dial_wire'
        PROVE  /\ end'[x][m] = "none" /\ end'[x][Dial!Other(m)] # "active"
               /\ <<"close", x, m>> \notin dial_wire'
                      /\ <<"proof", x, Dial!Other(m)>> \notin dial_wire'
    <3>1. <<"request", x, m>> \in dial_wire /\ (x # l \/ m # n) /\ Dial!Other(m) \in DialNode
      BY <1>2, <2>2, OtherNode
    <3>2. /\ end[x][m] = "none" /\ end[x][Dial!Other(m)] # "active" /\ m # caller[x]
          /\ <<"close", x, m>> \notin dial_wire /\ <<"proof", x, Dial!Other(m)>> \notin dial_wire
      BY <1>1, <3>1 DEF Ordered, Addressed
    <3>3. x # l
      BY <1>1, <1>2, <3>1, <3>2, TheOther DEF DialTyped
    <3> QED
      BY <1>2, <1>5, <3>1, <3>2, <3>3
  <2> QED
    BY <1>3, <2>1, <2>2 DEF Ordered
<1>9. Identities'
  BY <1>1, <1>2, <1>3, <1>6 DEF Identities, Kind
<1>10. Sided'
  <2>1. PICK s \in DialNode : First(s)
    BY <1>1 DEF Sided, Untouched
  <2>2. ASSUME NEW x \in Dialled, caller[x] = s
        PROVE  /\ end'[x][Dial!Other(s)] = "active" => end'[x][s] = "active"
               /\ <<"rtt", x, Dial!Other(s)>> \in dial_wire' =>
                    end'[x][s] = "active" \/ end'[x][Dial!Other(s)] = "closed"
    <3>1. Dial!Other(s) \in DialNode /\ Dial!Other(s) # s
      BY OtherNode
    <3>2. \/ end'[x][Dial!Other(s)] = end[x][Dial!Other(s)]
          \/ end[x][Dial!Other(s)] = "none" /\ end'[x][Dial!Other(s)] = "pending"
      BY <1>4, <1>5, <3>1
    <3>3. end'[x][s] = end[x][s]
      BY <1>2, <1>5, <2>2
    <3>4. <<"rtt", x, Dial!Other(s)>> \in dial_wire' => <<"rtt", x, Dial!Other(s)>> \in dial_wire
      BY <1>6, <3>1 DEF Kind
    <3> QED
      BY <2>1, <2>2, <3>2, <3>3, <3>4 DEF First
  <2>3. OnlyLink(Dial!Here(s))'
    BY <1>7, <2>1 DEF First
  <2> QED
    BY <1>2, <1>3, <2>2, <2>3 DEF Sided, First
<1>11. Dial!OpenBoth # {} => Dial!OpenBoth' # {}
  BY <1>3, <1>4, <1>5 DEF Dial!OpenBoth, Dialled
<1>12. ASSUME FirstDial PROVE FirstDial'
  <2>1. \A x \in Dialled : Called(x)' = Called(x) /\ Callee(x)' = Callee(x)
            /\ Callee(x) \in DialNode
    BY <1>1, <1>2, <1>5, OtherNode DEF Called, Callee, DialTyped
  <2>2. \A x \in Dialled : end'[x][Callee(x)] \in {"none", "pending"}
    BY <1>5, <1>12, <2>1 DEF FirstDial
  <2>3. \A x \in Dialled, m \in DialNode : <<"close", x, m>> \notin dial_wire'
    BY <1>6, <1>12 DEF FirstDial, Kind
  <2>4. \A x \in Dialled : <<"rtt", x, Callee(x)>> \in dial_wire'
            <=> <<"rtt", x, Callee(x)>> \in dial_wire
    BY <1>6, <2>1 DEF Kind
  <2> QED
    BY <1>2, <1>3, <1>12, <2>1, <2>2, <2>3, <2>4 DEF FirstDial
<1> QED
  BY <1>1, <1>2, <1>7, <1>8, <1>9, <1>10, <1>11, <1>12 DEF Advances, SidesInv,
     OneListed, Counted

LEMMA ProofAdvances ==
  ASSUME DialInv, DialInv', SidesInv, NEW n \in DialNode, NEW l \in Dialled, Dial!Proof(n, l)
  PROVE  Advances
<1>1. /\ DialTyped /\ DialTyped' /\ Addressed /\ OneListed /\ Ordered /\ Identities /\ Sided
             /\ Counted
  BY DEF DialInv, SidesInv
<1>2. /\ <<"proof", l, n>> \in dial_wire /\ n = caller[l]
      /\ UNCHANGED <<caller, dial_known, links, cached, listed, active, session, told, crossed, dial_spent>>
  BY <1>1 DEF Dial!Proof, Dial!registry, Addressed
<1>3. Dialled' = Dialled /\ Dial!Other(n) \in DialNode /\ Dial!Other(n) # n
  BY <1>2, OtherNode DEF Dialled, Dial!Opened
<1>4. \/ end' = end /\ dial_wire' = dial_wire \ {<<"proof", l, n>>}
      \/ /\ end[l][n] = "pending" /\ end' = [end EXCEPT ![l][n] = "active"]
         /\ dial_wire' = (dial_wire \ {<<"proof", l, n>>}) \union {<<"rtt", l, Dial!Other(n)>>}
  BY DEF Dial!Proof
<1>5. /\ end'[l][n] = end[l][n] \/ (end[l][n] = "pending" /\ end'[l][n] = "active")
      /\ \A x \in Dialled, m \in DialNode : x # l \/ m # n => end'[x][m] = end[x][m]
  BY <1>1, <1>4 DEF DialTyped
<1>6. /\ \A x \in Dialled, k \in Kind \ {"rtt"},
             m \in DialNode : <<k, x, m>> \in dial_wire' => <<k, x, m>> \in dial_wire
      /\ \A x \in Dialled, m \in DialNode : <<"rtt", x, m>> \in dial_wire' =>
           <<"rtt", x, m>> \in dial_wire \/ (x = l /\ m = Dial!Other(n) /\ end'[l][n] = "active")
      /\ \A x \in Dialled, m \in DialNode : <<"rtt", x, m>> \in dial_wire
             => <<"rtt", x, m>> \in dial_wire'
  BY <1>1, <1>4 DEF DialTyped
<1>7. ASSUME NEW m \in DialNode
      PROVE  Tidy(m, Dial!Here(m))' /\ (OnlyLink(Dial!Here(m)) => OnlyLink(Dial!Here(m))')
  <2>1. \A x \in links[m] : end'[x][m] = end[x][m]
    BY <1>1, <1>5, HereTidy DEF DialTyped
  <2> QED
    BY <1>1, <1>2, <2>1, HereAfter
<1>8. Ordered'
  <2>1. ASSUME NEW x \in Dialled, NEW m \in DialNode, <<"close", x, m>> \in dial_wire'
        PROVE end'[x][Dial!Other(m)] = "closed"
    BY <1>1, <1>5, <1>6, <2>1, OtherNode DEF Ordered, Kind
  <2>2. ASSUME NEW x \in Dialled, NEW m \in DialNode, <<"request", x, m>> \in dial_wire'
        PROVE  /\ end'[x][m] = "none" /\ end'[x][Dial!Other(m)] # "active"
               /\ <<"close", x, m>> \notin dial_wire'
                      /\ <<"proof", x, Dial!Other(m)>> \notin dial_wire'
    <3>1. <<"request", x, m>> \in dial_wire /\ Dial!Other(m) \in DialNode
      BY <1>6, <2>2, OtherNode DEF Kind
    <3>2. /\ end[x][m] = "none" /\ end[x][Dial!Other(m)] # "active"
          /\ <<"close", x, m>> \notin dial_wire /\ <<"proof", x, Dial!Other(m)>> \notin dial_wire
      BY <1>1, <3>1 DEF Ordered
    <3>3. x # l
      <4>1. x = l => m # caller[l]
        BY <1>1, <3>1 DEF Addressed
      <4> QED
        BY <1>2, <3>2, <4>1, TheOther
    <3> QED
      BY <1>5, <1>6, <3>1, <3>2, <3>3 DEF Kind
  <2> QED
    BY <1>3, <2>1, <2>2 DEF Ordered
<1>9. Identities'
  BY <1>1, <1>2, <1>3, <1>6 DEF Identities, Kind
<1>10. Sided'
  <2>1. PICK s \in DialNode : First(s)
    BY <1>1 DEF Sided, Untouched
  <2>2. ASSUME NEW x \in Dialled, caller[x] = s
        PROVE  /\ end'[x][Dial!Other(s)] = "active" => end'[x][s] = "active"
               /\ <<"rtt", x, Dial!Other(s)>> \in dial_wire' =>
                    end'[x][s] = "active" \/ end'[x][Dial!Other(s)] = "closed"
    <3>1. Dial!Other(s) \in DialNode /\ Dial!Other(s) # s
      BY OtherNode
    <3>2. end'[x][Dial!Other(s)] = end[x][Dial!Other(s)]
      BY <1>2, <1>5, <2>2, <3>1
    <3>3. end[x][s] = "active" => end'[x][s] = "active"
      BY <1>5
    <3> QED
      BY <1>2, <1>6, <2>1, <2>2, <3>1, <3>2, <3>3 DEF First
  <2>3. OnlyLink(Dial!Here(s))'
    BY <1>7, <2>1 DEF First
  <2> QED
    BY <1>2, <1>3, <2>2, <2>3 DEF Sided, First
<1>11. Dial!OpenBoth # {} => Dial!OpenBoth' # {}
  BY <1>3, <1>5 DEF Dial!OpenBoth, Dialled
<1>12. ASSUME FirstDial PROVE FirstDial'
  <2>1. \A x \in Dialled : Callee(x)' = Callee(x) /\ Callee(x) \in DialNode
            /\ Callee(x) # caller[x] /\ caller[x] \in DialNode
    BY <1>1, <1>2, OtherNode DEF Callee, DialTyped
  <2>2. \A x \in Dialled : end'[x][Callee(x)] \in {"none", "pending"}
    BY <1>2, <1>5, <1>12, <2>1 DEF FirstDial
  <2>3. \A x \in Dialled, m \in DialNode : <<"close", x, m>> \notin dial_wire'
    BY <1>6, <1>12 DEF FirstDial, Kind
  <2>4. \A x \in Dialled : Called(x)' = Called(x)
            \/ (x = l /\ Called(x) = "pending" /\ Called(x)' = "active")
    BY <1>2, <1>5, <2>1 DEF Called
  <2>5. \A x \in Dialled : Called(x)' = "active" <=> <<"rtt", x, Callee(x)>> \in dial_wire'
    <3> SUFFICES ASSUME NEW x \in Dialled
                 PROVE Called(x)' = "active" <=> <<"rtt", x, Callee(x)>> \in dial_wire'
      OBVIOUS
    <3>1. CASE x # l
      BY <1>6, <1>12, <2>1, <2>4, <3>1 DEF FirstDial
    <3>2. CASE x = l
      <4>1. Callee(l) = Dial!Other(n) /\ Called(l) = end[l][n] /\ Called(l)' = end'[l][n]
        BY <1>2 DEF Called, Callee
      <4>2. CASE end' = end /\ dial_wire' = dial_wire \ {<<"proof", l, n>>}
        BY <1>3, <1>12, <3>2, <4>1, <4>2 DEF FirstDial
      <4>3. CASE /\ end' = [end EXCEPT ![l][n] = "active"]
                 /\ dial_wire' = (dial_wire \ {<<"proof", l, n>>})
                        \union {<<"rtt", l, Dial!Other(n)>>}
        BY <1>1, <3>2, <4>1, <4>3 DEF DialTyped
      <4> QED
        BY <1>4, <4>2, <4>3
    <3> QED
      BY <3>1, <3>2
  <2>6. \A k, x \in Dialled : Called(k)' \in {"pending", "active"}
            /\ Called(x)' \in {"pending", "active"}
                            => caller[k] = caller[x]
    BY <1>12, <2>4 DEF FirstDial
  <2>7. (\E m \in DialNode : told'[m] = "ok") => \E x \in Dialled : Called(x)' = "active"
    BY <1>2, <1>12, <2>4 DEF FirstDial
  <2> QED
    BY <1>2, <1>3, <2>1, <2>2, <2>3, <2>5, <2>6, <2>7 DEF FirstDial
<1> QED
  BY <1>1, <1>2, <1>7, <1>8, <1>9, <1>10, <1>11, <1>12 DEF Advances, SidesInv,
     OneListed, Counted

LEMMA IdentifiedAdvances ==
  ASSUME DialInv, DialInv', SidesInv, NEW n \in DialNode, NEW l \in Dialled, Dial!Identified(n, l)
  PROVE  Advances
<1>1. /\ DialTyped /\ DialTyped' /\ Addressed /\ OneListed /\ Ordered /\ Identities /\ Sided
             /\ Counted
  BY DEF DialInv, SidesInv
<1>2. /\ <<"identify", l, n>> \in dial_wire /\ dial_wire' = dial_wire \ {<<"identify", l, n>>}
      /\ dial_known' = [dial_known EXCEPT ![n] = @ \union {l}]
      /\ UNCHANGED <<caller, end, links, cached, listed, active, session, told, crossed, dial_spent>>
  BY DEF Dial!Identified, Dial!registry
<1>3. Dialled' = Dialled
  BY <1>2 DEF Dialled, Dial!Opened
<1>4. /\ \A x \in Dialled, k \in Kind \ {"identify"},
             m \in DialNode : <<k, x, m>> \in dial_wire' <=> <<k, x, m>> \in dial_wire
      /\ dial_wire' \subseteq dial_wire
  BY <1>2
<1>5. OneListed'
  <2> SUFFICES ASSUME NEW m \in DialNode PROVE Tidy(m, Dial!Here(m))'
    BY DEF OneListed
  <2> QED
    BY <1>1, <1>2, HereAfter
<1>6. Ordered'
  BY <1>1, <1>2, <1>3, <1>4 DEF Ordered
<1>7. Identities'
  <2>1. caller[l] # n
    BY <1>1, <1>2 DEF Identities
  <2>2. \A m \in DialNode : \A x \in dial_known'[m] : x \in dial_known[m] \/ (x = l /\ m = n)
    BY <1>1, <1>2 DEF DialTyped
  <2> QED
    BY <1>1, <1>2, <1>3, <1>4, <2>1, <2>2 DEF Identities
<1>8. Sided'
  <2>1. PICK s \in DialNode : First(s)
    BY <1>1 DEF Sided, Untouched
  <2>2. Dial!Here(s)' = Dial!Here(s)
    BY <1>2 DEF Dial!Here
  <2>3. First(s)'
    BY <1>2, <1>3, <1>4, <2>1, <2>2 DEF First, OnlyLink, InSession
  <2> QED
    BY <2>3 DEF Sided
<1>9. Dial!OpenBoth' = Dial!OpenBoth
  BY <1>2, <1>3 DEF Dial!OpenBoth, Dialled
<1>10. ASSUME FirstDial PROVE FirstDial'
  <2>1. \A x \in Dialled : Called(x)' = Called(x) /\ Callee(x)' = Callee(x)
            /\ Callee(x) \in DialNode
    BY <1>1, <1>2, OtherNode DEF Called, Callee, DialTyped
  <2>2. \A x \in Dialled : <<"rtt", x, Callee(x)>> \in dial_wire'
            <=> <<"rtt", x, Callee(x)>> \in dial_wire
    BY <1>4, <2>1 DEF Kind
  <2> QED
    BY <1>2, <1>3, <1>4, <1>10, <2>1, <2>2 DEF FirstDial
<1> QED
  BY <1>1, <1>2, <1>5, <1>6, <1>7, <1>8, <1>9, <1>10 DEF Advances, SidesInv, Counted

LEMMA LoseAdvances ==
  ASSUME DialInv, DialInv', SidesInv, NEW p, Dial!Lose(p)
  PROVE  Advances
<1>1. /\ DialTyped /\ DialTyped' /\ Addressed /\ OneListed /\ Ordered /\ Identities /\ Sided
             /\ Counted
  BY DEF DialInv, SidesInv
<1>2. /\ dial_wire' \subseteq dial_wire /\ p \in dial_wire /\ dial_spent' = dial_spent + 1
      /\ UNCHANGED <<caller, end, dial_known, links, cached, listed, active, session, told, crossed>>
  BY DEF Dial!Lose, Dial!registry
<1>3. Dialled' = Dialled
  BY <1>2 DEF Dialled, Dial!Opened
<1>4. OneListed'
  <2> SUFFICES ASSUME NEW m \in DialNode PROVE Tidy(m, Dial!Here(m))'
    BY DEF OneListed
  <2> QED
    BY <1>1, <1>2, HereAfter
<1>5. Ordered' /\ Identities'
  BY <1>1, <1>2, <1>3 DEF Ordered, Identities
<1>6. Sided'
  <2>1. Dialled # {}
    BY <1>1, <1>2 DEF DialTyped
  <2>2. PICK s \in DialNode : First(s)
    BY <1>1, <2>1 DEF Sided, Untouched
  <2>3. Dial!Here(s)' = Dial!Here(s)
    BY <1>2 DEF Dial!Here
  <2>4. First(s)'
    BY <1>2, <1>3, <2>2, <2>3 DEF First, OnlyLink, InSession
  <2> QED
    BY <2>4 DEF Sided
<1>7. Dial!OpenBoth' = Dial!OpenBoth
  BY <1>2, <1>3 DEF Dial!OpenBoth, Dialled
<1>8. Counted' /\ dial_spent' # 0
  BY <1>1, <1>2 DEF Counted
<1> QED
  BY <1>2, <1>4, <1>5, <1>6, <1>7, <1>8 DEF Advances, SidesInv

\* A callback that shuts a link: none runs as long as FirstDial holds.
LEMMA CallbackAdvances ==
  ASSUME DialInv, DialInv', SidesInv, NEW n \in DialNode, NEW q, NEW more, NEW l \in Dialled,
         more \subseteq Kind \X Dialled \X DialNode, Keeps(n, q), Dial!Store(n, q, more),
             Sends(n, q, more),
         UNCHANGED <<caller, dial_known, told, crossed, dial_spent>>, ~FirstDial
  PROVE  Advances
<1>1. /\ DialTyped /\ DialTyped' /\ Addressed /\ OneListed /\ Ordered /\ Identities /\ Sided
             /\ Counted
  BY DEF DialInv, SidesInv
<1>2. PICK s \in DialNode : First(s)
  BY <1>1 DEF Sided, Untouched
<1>3. OneListed' /\ Ordered' /\ Identities' /\ First(s)'
  BY <1>1, <1>2, StoreSides
<1>4. Dial!OpenBoth # {} => Dial!OpenBoth' # {}
  BY <1>1, <1>2, StoreOpen
<1> QED
  BY <1>1, <1>3, <1>4 DEF Advances, SidesInv, Sided, Counted

LEMMA InboundRefusedAdvances ==
  ASSUME DialInv, DialInv', SidesInv, NEW n \in DialNode, NEW l \in Dialled,
      Dial!InboundRefused(n, l)
  PROVE  Advances
<1> DEFINE r == Dial!Here(n)
           q == [r EXCEPT !.shut = {l}]
           more == (dial_wire \ {<<"rtt", l, n>>}) \union {<<"close", l, Dial!Other(n)>>}
<1>1. /\ DialTyped /\ DialTyped' /\ Addressed /\ OneListed /\ Ordered /\ Identities /\ Sided
             /\ Counted
  BY DEF DialInv, SidesInv
<1>2. /\ <<"rtt", l, n>> \in dial_wire /\ end[l][n] = "pending" /\ active[n] # 0 /\ caller[l] # n
      /\ Dial!Store(n, q, more) /\ UNCHANGED <<caller, dial_known, told, crossed, dial_spent>>
  BY <1>1 DEF Dial!InboundRefused, Addressed
<1>3. /\ Tidy(n, r) /\ r.links = links[n] /\ r.shut = {} /\ \A k \in links[n] : end[k][n] = "active"
  BY <1>1, HereTidy
<1>4. active[n] \in links[n] /\ links[n] \subseteq Dialled
  BY <1>1, <1>2, HereTidy DEF DialTyped
<1> HIDE DEF r
<1>5. /\ q \in Registry /\ q.links = r.links /\ q.cached = r.cached /\ q.listed = r.listed
      /\ q.active = r.active /\ q.session = r.session /\ q.shut = {l}
  BY <1>3 DEF Tidy, Registry
<1> HIDE DEF q
<1>6. Tidy(n, q) /\ (OnlyLink(r) => OnlyLink(q))
  BY <1>2, <1>3, <1>5 DEF Tidy, OnlyLink, InSession
<1>7. <<"request", l, n>> \notin dial_wire
  BY <1>1, <1>2 DEF Ordered
<1>8. Keeps(n, q)
  BY <1>2, <1>5, <1>6, <1>7 DEF Keeps, r
<1>9. more \subseteq Kind \X Dialled \X DialNode
  BY <1>1, OtherNode DEF DialTyped, Kind
<1>10. Sends(n, q, more)
  BY <1>2, <1>5 DEF Sends
<1>11. ~FirstDial
  <2> SUFFICES ASSUME FirstDial PROVE FALSE
    OBVIOUS
  <2>1. Callee(l) = n /\ Called(l) = "active"
    BY <1>1, <1>2, TheOther DEF FirstDial, Callee, DialTyped
  <2>2. PICK k \in Dialled : end[k][n] = "active"
    BY <1>3, <1>4
  <2>3. caller[k] = n
    BY <1>1, <2>2, TheOther DEF FirstDial, Callee, DialTyped
  <2>4. Called(k) = "active"
    BY <2>2, <2>3 DEF Called
  <2> QED
    BY <1>2, <2>1, <2>3, <2>4 DEF FirstDial
<1> HIDE DEF more
<1> QED
  BY <1>2, <1>8, <1>9, <1>10, <1>11, CallbackAdvances

LEMMA ClosedAdvances ==
  ASSUME DialInv, DialInv', SidesInv, NEW n \in DialNode, NEW l \in Dialled, Dial!Closed(n, l)
  PROVE  Advances
<1> DEFINE r == Dial!Here(n)
           more == Dial!Gone(n, l)
<1>1. /\ DialTyped /\ DialTyped' /\ Addressed /\ OneListed /\ Ordered /\ Identities /\ Sided
             /\ Counted
  BY DEF DialInv, SidesInv
<1>2. /\ <<"close", l, n>> \in dial_wire /\ end[l][Dial!Other(n)] = "closed"
             /\ <<"request", l, n>> \notin dial_wire
      /\ UNCHANGED <<caller, dial_known, told, crossed, dial_spent>>
  BY <1>1 DEF Dial!Closed, Ordered
<1>3. /\ Tidy(n, r) /\ r.links = links[n] /\ r.listed = listed[n] /\ r.shut = {}
      /\ \A k \in links[n] : end[k][n] = "active"
  BY <1>1, HereTidy
<1>4. more \subseteq dial_wire /\ dial_wire \subseteq Kind \X Dialled \X DialNode
  BY <1>1 DEF Dial!Gone, DialTyped
<1>5. ~FirstDial
  BY <1>2 DEF FirstDial
<1>6. ASSUME NEW q, Tidy(n, q), q.shut = {l}, OnlyLink(r) => OnlyLink(q), Dial!Store(n, q, more)
      PROVE Advances
  <2>1. Keeps(n, q)
    BY <1>2, <1>6 DEF Keeps, r
  <2>2. Sends(n, q, more) /\ more \subseteq Kind \X Dialled \X DialNode
    BY <1>4 DEF Sends
  <2> QED
    BY <1>2, <1>5, <1>6, <2>1, <2>2, CallbackAdvances
<1> HIDE DEF more
<1>7. CASE end[l][n] = "active"
  <2> DEFINE q == Dial!DroppedAll(n, r, {l})
  <2>1. Dial!Store(n, q, more)
    BY <1>7 DEF Dial!Closed, Dial!Dropped, more
  <2> HIDE DEF r
  <2>2. /\ Tidy(n, q)
        /\ q.links = r.links \ {l} /\ q.shut = r.shut \union {l} /\ q.session = r.session
        /\ q.listed = (IF r.listed \in {l} THEN 0 ELSE r.listed)
        /\ q.active = (IF r.listed \in {l} THEN 0 ELSE r.active)
    BY <1>1, <1>3, DropTidy
  <2> HIDE DEF q
  <2>3. OnlyLink(r) => OnlyLink(q)
    BY <2>2 DEF OnlyLink, InSession
  <2> QED
    BY <1>3, <1>6, <2>1, <2>2, <2>3
<1>8. CASE end[l][n] # "active"
  <2> DEFINE q == [r EXCEPT !.shut = {l}]
  <2>1. /\ end' = [end EXCEPT ![l][n] = "closed"] /\ dial_wire' = more
        /\ UNCHANGED <<links, cached, listed, active, session>>
    BY <1>8 DEF Dial!Closed, Dial!registry, more
  <2>2. /\ r.cached = cached[n] /\ r.active = active[n] /\ r.session = session[n]
    BY DEF Dial!Here
  <2> HIDE DEF r
  <2>3. /\ q \in Registry /\ q.links = r.links /\ q.cached = r.cached /\ q.listed = r.listed
        /\ q.active = r.active /\ q.session = r.session /\ q.shut = {l}
    BY <1>3 DEF Tidy, Registry
  <2> HIDE DEF q
  <2>4. Tidy(n, q) /\ (OnlyLink(r) => OnlyLink(q))
    BY <1>3, <1>8, <2>3 DEF Tidy, OnlyLink, InSession
  <2>5. Dial!Told(n, q) = {}
    BY <1>8, <2>3 DEF Dial!Told
  <2>6. end' = [k \in Dial!Link |-> IF k \in q.shut THEN [end[k] EXCEPT ![n] = "closed"] ELSE end[k]]
    BY <1>1, <2>1, <2>3 DEF DialTyped
  <2>7. /\ links' = [links EXCEPT ![n] = q.links] /\ cached' = [cached EXCEPT ![n] = q.cached]
        /\ listed' = [listed EXCEPT ![n] = q.listed] /\ active' = [active EXCEPT ![n] = q.active]
    BY <1>1, <1>3, <2>1, <2>2, <2>3 DEF DialTyped
  <2>8. session' = [session EXCEPT ![n] = q.session]
    <3>1. session = [session EXCEPT ![n] = session[n]]
      BY <1>1, Zenon DEF DialTyped
    <3> QED
      BY <2>1, <2>2, <2>3, <3>1
  <2>9. Dial!Store(n, q, more)
    BY <2>1, <2>5, <2>6, <2>7, <2>8 DEF Dial!Store
  <2> QED
    BY <1>6, <2>3, <2>4, <2>9
<1> QED
  BY <1>7, <1>8

\* What the callback of an accepted link does: with a session, the listed link is shut.
Replaced(n) == IF session[n] THEN {listed[n]} \ {0} ELSE {}
Takes(n, l) ==
  /\ links' = [links EXCEPT ![n] = (links[n] \ Replaced(n)) \union {l}]
  /\ listed' = [listed EXCEPT ![n] = IF session[n] THEN l ELSE listed[n]]
  /\ cached' = [cached EXCEPT ![n] = {IF session[n] THEN l ELSE listed[n]} \ {0}]
  /\ active' = [active EXCEPT ![n] = IF session[n] THEN l ELSE 0]
  /\ session[n] => session'[n]
  /\ \A m \in DialNode \ {n} : session'[m] = session[m]
  /\ end' = [k \in Dial!Link |-> IF k = l THEN [end[k] EXCEPT ![n] = "active"]
                                ELSE IF k \in Replaced(n) THEN [end[k] EXCEPT ![n] = "closed"]
                                ELSE end[k]]
  /\ \A p \in dial_wire' : \/ p \in dial_wire \ {<<"rtt", l, n>>}
                           \/ \E k \in Replaced(n) : p = <<"close", k, Dial!Other(n)>>
  /\ dial_wire \ {<<"rtt", l, n>>} \subseteq dial_wire'

LEMMA TakenIs ==
  ASSUME DialTyped, OneListed, NEW n \in DialNode, NEW l \in Dialled,
         end[l][n] = "pending", active[n] = 0, Dial!InboundTaken(n, l)
  PROVE  Takes(n, l)
<1> DEFINE S == Replaced(n)
           here == Dial!Here(n)
           old == Dial!LinkFor(n, here)
           r == IF session[n] /\ old # 0 THEN Dial!Dropped(n, here, old) ELSE here
           set == Dial!SetUp(r, l)
           new == IF session[n] THEN Promoted(n, set, l) ELSE set
<1>s. S = IF session[n] THEN {listed[n]} \ {0} ELSE {}
  BY DEF Replaced
<1> HIDE DEF S
<1>1. /\ Tidy(n, here) /\ here.links = links[n] /\ here.shut = {} /\ here.listed = listed[n]
      /\ here.active = 0 /\ here.session = session[n] /\ listed[n] \in links[n] \union {0}
  BY HereTidy
<1>2. old = listed[n] /\ 0 \notin Dialled
  BY PeerIs
<1>3. /\ links' = [links EXCEPT ![n] = new.links] /\ cached' = [cached EXCEPT ![n] = new.cached]
      /\ listed' = [listed EXCEPT ![n] = new.listed] /\ active' = [active EXCEPT ![n] = new.active]
      /\ session' = [session EXCEPT ![n] = new.session]
      /\ end' = [k \in Dial!Link |-> IF k = l THEN [end[k] EXCEPT ![n] = "active"]
                                     ELSE IF k \in new.shut THEN [end[k] EXCEPT ![n] = "closed"]
                                     ELSE end[k]]
      /\ dial_wire' = (dial_wire \ {<<"rtt", l, n>>})
                         \union {<<"close", k, Dial!Other(n)>> : k \in Dial!Told(n, new)}
  BY DEF Dial!InboundTaken, Promoted
<1> HIDE DEF here, old
<1>4. /\ Tidy(n, r) /\ r.links = links[n] \ S /\ r.shut = S /\ r.session = session[n]
             /\ r.active = 0
      /\ r.listed = (IF session[n] THEN 0 ELSE listed[n])
  <2>1. CASE session[n] /\ old # 0
    <3> DEFINE q == Dial!DroppedAll(n, here, {old})
    <3>1. old \in Dialled /\ S = {old}
      BY <1>s, <1>1, <1>2, <2>1 DEF Tidy, Registry
    <3>2. /\ Tidy(n, q)
          /\ q.links = here.links \ {old} /\ q.shut = here.shut \union {old}
                 /\ q.session = here.session
          /\ q.listed = (IF here.listed \in {old} THEN 0 ELSE here.listed)
          /\ q.active = (IF here.listed \in {old} THEN 0 ELSE here.active)
      BY <1>1, <3>1, DropTidy
    <3>3. r = q
      BY <2>1 DEF Dial!Dropped
    <3> HIDE DEF q, r
    <3> QED
      BY <1>1, <1>2, <2>1, <3>1, <3>2, <3>3
  <2>2. CASE ~(session[n] /\ old # 0)
    <3>1. r = here /\ S = {}
      BY <1>s, <1>2, <2>2
    <3> QED
      BY <1>1, <1>2, <2>2, <3>1
  <2> QED
    BY <2>1, <2>2
<1> HIDE DEF r
<1>5. /\ set \in Registry /\ set.links = (links[n] \ S) \union {l} /\ set.shut = S
             /\ set.session = session[n]
      /\ set.active = 0 /\ set.listed = (IF session[n] THEN 0 ELSE listed[n])
             /\ set.cached = {set.listed} \ {0}
  BY <1>4 DEF Tidy, Registry, Dial!SetUp
<1> HIDE DEF set
<1>6. /\ new.links = (links[n] \ S) \union {l} /\ new.shut = S
      /\ new.listed = (IF session[n] THEN l ELSE listed[n]) /\ new.cached = {new.listed} \ {0}
      /\ new.active = (IF session[n] THEN l ELSE 0) /\ new.session \in BOOLEAN
             /\ (session[n] => new.session)
  <2>1. CASE session[n]
    <3> DEFINE reg == Dial!Registered(set, l)
    <3>1. /\ reg \in Registry /\ reg.links = set.links /\ reg.cached = {l} /\ reg.listed = l
                 /\ reg.shut = S
      BY <1>5, <2>1 DEF Dial!Registered, Registry
    <3>2. new = [Dial!Consolidated(n, reg, l) EXCEPT !.listed = l, !.active = l, !.session = TRUE]
      BY <2>1 DEF Promoted, Dial!Notified
    <3> HIDE DEF reg
    <3>3. Dial!Others(n, reg, l) = {}
      BY <3>1 DEF Dial!Others, Dial!Active
    <3>4. reg.links \ {} = reg.links /\ reg.cached \ {} = reg.cached
              /\ reg.shut \union {} = reg.shut
      OBVIOUS
    <3>5. reg = [reg EXCEPT !.links = reg.links, !.cached = reg.cached, !.shut = reg.shut]
      BY <3>1 DEF Registry
    <3>6. Dial!DroppedAll(n, reg, {}) = reg
      BY <3>4, <3>5 DEF Dial!DroppedAll
    <3>7. new = [reg EXCEPT !.listed = l, !.active = l, !.session = TRUE]
      BY <3>2, <3>3, <3>6 DEF Dial!Consolidated
    <3> HIDE DEF new
    <3>8. /\ new.links = reg.links /\ new.shut = reg.shut /\ new.cached = reg.cached
                 /\ new.listed = l /\ new.active = l
      BY <3>1, <3>7 DEF Registry
    <3>9. new.session \in BOOLEAN /\ new.session
      BY <3>1, <3>7 DEF Registry
    <3>10. {l} = {new.listed} \ {0}
      BY <1>2, <3>8
    <3> QED
      BY <1>5, <2>1, <3>1, <3>8, <3>9, <3>10
  <2>2. CASE ~session[n]
    <3>1. new = set
      BY <2>2
    <3>2. set.session \in BOOLEAN
      BY <1>5 DEF Registry
    <3> QED
      BY <1>5, <2>2, <3>1, <3>2
  <2> QED
    BY <2>1, <2>2
<1>7. Dial!Told(n, new) \subseteq S
  BY <1>6 DEF Dial!Told
<1> HIDE DEF new
<1>8. (session[n] => session'[n]) /\ \A m \in DialNode \ {n} : session'[m] = session[m]
  BY <1>3, <1>6, Zenon DEF DialTyped
<1>9. \A p \in dial_wire' : \/ p \in dial_wire \ {<<"rtt", l, n>>}
                            \/ \E k \in S : p = <<"close", k, Dial!Other(n)>>
  BY <1>3, <1>7
<1> QED
  BY <1>3, <1>6, <1>8, <1>9 DEF Takes, S

LEMMA InboundTakenAdvances ==
  ASSUME DialInv, DialInv', SidesInv, NEW n \in DialNode, NEW l \in Dialled, Dial!InboundTaken(n, l)
  PROVE  Advances
<1> DEFINE S == Replaced(n)
<1>1. /\ DialTyped /\ DialTyped' /\ Addressed /\ OneListed /\ Ordered /\ Identities /\ Sided
             /\ Counted
  BY DEF DialInv, SidesInv
<1>2. /\ <<"rtt", l, n>> \in dial_wire /\ end[l][n] = "pending" /\ active[n] = 0 /\ caller[l] # n
      /\ UNCHANGED <<caller, dial_known, told, crossed, dial_spent>>
  BY <1>1 DEF Dial!InboundTaken, Addressed
<1>s. S = IF session[n] THEN {listed[n]} \ {0} ELSE {}
  BY DEF Replaced
<1>t. Takes(n, l)
  BY <1>1, <1>2, TakenIs
<1> HIDE DEF S
<1>3. /\ links' = [links EXCEPT ![n] = (links[n] \ S) \union {l}]
      /\ listed' = [listed EXCEPT ![n] = IF session[n] THEN l ELSE listed[n]]
      /\ cached' = [cached EXCEPT ![n] = {IF session[n] THEN l ELSE listed[n]} \ {0}]
      /\ active' = [active EXCEPT ![n] = IF session[n] THEN l ELSE 0]
      /\ session[n] => session'[n]
      /\ \A m \in DialNode \ {n} : session'[m] = session[m]
      /\ end' = [k \in Dial!Link |-> IF k = l THEN [end[k] EXCEPT ![n] = "active"]
                                    ELSE IF k \in S THEN [end[k] EXCEPT ![n] = "closed"]
                                    ELSE end[k]]
      /\ \A p \in dial_wire' : \/ p \in dial_wire \ {<<"rtt", l, n>>}
                               \/ \E k \in S : p = <<"close", k, Dial!Other(n)>>
      /\ dial_wire \ {<<"rtt", l, n>>} \subseteq dial_wire'
  BY <1>t DEF Takes, S
<1>4. Dialled' = Dialled /\ 0 \notin Dialled
  BY <1>1, <1>2, PeerIs DEF Dialled, Dial!Opened
<1>5. /\ \A k \in links[n] : end[k][n] = "active"
      /\ listed[n] \in links[n] \union {0} /\ links[n] \subseteq Dialled
  BY <1>1, HereTidy DEF DialTyped
<1>6. /\ S \subseteq links[n] /\ S \subseteq Dialled /\ l \notin S
             /\ \A k \in S : end[k][n] = "active"
      /\ (~session[n] => S = {}) /\ (session[n] => listed[n] \notin links[n] \ S)
             /\ S \subseteq {listed[n]}
  BY <1>s, <1>2, <1>4, <1>5
<1>7. /\ end'[l][n] = "active"
      /\ \A k \in S : end'[k][n] = "closed"
      /\ \A k \in Dialled, m \in DialNode : m # n \/ k \notin S \union {l} => end'[k][m] = end[k][m]
  BY <1>1, <1>3, <1>6 DEF DialTyped
<1>8. \A k \in Dialled, m \in DialNode, x \in Kind : <<x, k, m>> \in dial_wire' =>
        \/ <<x, k, m>> \in dial_wire
        \/ x = "close" /\ m = Dial!Other(n) /\ k \in S
  BY <1>3
<1>9. Tidy(n, Dial!Here(n))'
  <2>1. /\ links'[n] = (links[n] \ S) \union {l}
               /\ listed'[n] = (IF session[n] THEN l ELSE listed[n])
        /\ cached'[n] = {listed'[n]} \ {0} /\ active'[n] \in {0, listed'[n]}
    BY <1>1, <1>3 DEF DialTyped
  <2>2. \A k \in links'[n] : end'[k][n] = "active"
    BY <1>5, <1>6, <1>7, <2>1
  <2>3. listed'[n] \in links'[n] \union {0}
    BY <1>5, <1>6, <2>1
  <2>4. Dial!Here(n)' \in Registry'
    BY <1>1 DEF DialTyped, Registry, Dial!Here
  <2>5. /\ Dial!Here(n)'.links = links'[n] /\ Dial!Here(n)'.cached = cached'[n]
               /\ Dial!Here(n)'.listed = listed'[n]
        /\ Dial!Here(n)'.active = active'[n] /\ Dial!Here(n)'.shut = {}
    BY DEF Dial!Here
  <2> QED
    BY <2>1, <2>2, <2>3, <2>4, <2>5 DEF Tidy
<1>10. ASSUME NEW m \in DialNode \ {n}
       PROVE  Tidy(m, Dial!Here(m))' /\ (OnlyLink(Dial!Here(m)) => OnlyLink(Dial!Here(m))')
  <2>1. UNCHANGED <<links[m], cached[m], listed[m], active[m], session[m]>>
    BY <1>1, <1>3 DEF DialTyped
  <2>2. \A k \in links[m] : end'[k][m] = end[k][m]
    BY <1>1, <1>7 DEF DialTyped
  <2> QED
    BY <1>1, <1>2, <2>1, <2>2, HereAfter
<1>11. OneListed'
  BY <1>9, <1>10 DEF OneListed
<1>12. \A k \in S : <<"request", k, n>> \notin dial_wire
           /\ <<"request", k, Dial!Other(n)>> \notin dial_wire
  <2>1. Dial!Other(n) \in DialNode /\ Dial!Other(Dial!Other(n)) = n
    BY OtherNode, TheOther
  <2> SUFFICES ASSUME NEW k \in S
               PROVE  <<"request", k, n>> \notin dial_wire
                   /\ <<"request", k, Dial!Other(n)>> \notin dial_wire
    OBVIOUS
  <2>2. end[k][n] = "active" /\ k \in Dialled
    BY <1>6
  <2>3. <<"request", k, n>> \notin dial_wire
    BY <1>1, <2>2 DEF Ordered
  <2>4. ASSUME <<"request", k, Dial!Other(n)>> \in dial_wire PROVE FALSE
    <3>1. end[k][Dial!Other(Dial!Other(n))] # "active"
      BY <1>1, <2>1, <2>2, <2>4 DEF Ordered
    <3> QED
      BY <2>1, <2>2, <3>1
  <2> QED
    BY <2>3, <2>4
<1>13. Ordered'
  <2>1. ASSUME NEW k \in Dialled, NEW m \in DialNode, <<"close", k, m>> \in dial_wire'
        PROVE end'[k][Dial!Other(m)] = "closed"
    <3>1. CASE <<"close", k, m>> \in dial_wire
      <4>1. end[k][Dial!Other(m)] = "closed" /\ Dial!Other(m) \in DialNode
        BY <1>1, <3>1, OtherNode DEF Ordered
      <4> QED
        BY <1>2, <1>6, <1>7, <4>1
    <3>2. CASE <<"close", k, m>> \notin dial_wire
      <4>1. m = Dial!Other(n) /\ k \in S
        BY <1>8, <2>1, <3>2 DEF Kind
      <4>2. Dial!Other(m) = n
        BY <4>1, OtherNode, TheOther
      <4> QED
        BY <1>7, <4>1, <4>2
    <3> QED
      BY <3>1, <3>2
  <2>2. ASSUME NEW k \in Dialled, NEW m \in DialNode, <<"request", k, m>> \in dial_wire'
        PROVE  /\ end'[k][m] = "none" /\ end'[k][Dial!Other(m)] # "active"
               /\ <<"close", k, m>> \notin dial_wire'
                      /\ <<"proof", k, Dial!Other(m)>> \notin dial_wire'
    <3>1. <<"request", k, m>> \in dial_wire /\ Dial!Other(m) \in DialNode
      BY <1>8, <2>2, OtherNode DEF Kind
    <3>2. /\ end[k][m] = "none" /\ end[k][Dial!Other(m)] # "active" /\ m # caller[k]
          /\ <<"close", k, m>> \notin dial_wire /\ <<"proof", k, Dial!Other(m)>> \notin dial_wire
      BY <1>1, <3>1 DEF Ordered, Addressed
    <3>3. k # l
      <4>1. k = l => m = n
        BY <1>1, <1>2, <3>2, TheOther DEF DialTyped
      <4> QED
        BY <1>2, <3>2, <4>1
    <3>4. k \notin S
      BY <1>12, <3>1, TheOther
    <3> QED
      BY <1>7, <1>8, <3>1, <3>2, <3>3, <3>4 DEF Kind
  <2> QED
    BY <1>4, <2>1, <2>2 DEF Ordered
<1>14. Identities'
  BY <1>1, <1>2, <1>4, <1>8 DEF Identities, Kind
<1>15. PICK s \in DialNode : First(s)
  BY <1>1 DEF Sided, Untouched
<1>16. caller[l] = s => end[l][s] = "active"
  <2>1. caller[l] = s => n = Dial!Other(s)
    BY <1>2, TheOther
  <2> QED
    BY <1>2, <1>15, <2>1 DEF First
<1>17. First(s)'
  <2>1. CASE s = n
    <3>1. /\ session[n] /\ links[n] \subseteq {listed[n]} /\ active[n] = listed[n]
      BY <1>15, <2>1 DEF First, OnlyLink, InSession, Dial!Here
    <3>2. links[n] = {} /\ S = {}
      BY <1>2, <1>4, <1>5, <1>6, <3>1
    <3>3. links'[n] = {l} /\ listed'[n] = l /\ active'[n] = l /\ session'[n]
      BY <1>1, <1>3, <3>1, <3>2 DEF DialTyped
    <3>4. OnlyLink(Dial!Here(n))'
      BY <3>3 DEF OnlyLink, InSession, Dial!Here
    <3>5. Dial!Other(n) \in DialNode /\ Dial!Other(n) # n
      BY OtherNode
    <3>6. \A k \in Dialled : caller[k] = n
              => end'[k][n] = end[k][n] /\ end'[k][Dial!Other(n)] = end[k][Dial!Other(n)]
      BY <1>2, <1>7, <3>2, <3>5
    <3>7. \A k \in Dialled : <<"rtt", k, Dial!Other(n)>> \in dial_wire'
              => <<"rtt", k, Dial!Other(n)>> \in dial_wire
      BY <1>8, <3>5 DEF Kind
    <3> QED
      BY <1>2, <1>4, <1>15, <2>1, <3>4, <3>6, <3>7 DEF First
  <2>2. CASE s # n
    <3>1. OnlyLink(Dial!Here(s))'
      BY <1>10, <1>15, <2>2 DEF First
    <3>2. n = Dial!Other(s)
      BY <2>2, TheOther
    <3>3. ASSUME NEW k \in Dialled, caller[k] = s
          PROVE  /\ end'[k][n] = "active" => end'[k][s] = "active"
                 /\ <<"rtt", k, n>> \in dial_wire' => end'[k][s] = "active" \/ end'[k][n] = "closed"
      <4>1. end'[k][s] = end[k][s]
        BY <1>7, <2>2
      <4>2. end'[k][n] = "active" => end[k][n] = "active" \/ k = l
        BY <1>6, <1>7
      <4>3. end[k][n] = "closed" => end'[k][n] = "closed"
        BY <1>2, <1>6, <1>7
      <4>4. <<"rtt", k, n>> \in dial_wire' => <<"rtt", k, n>> \in dial_wire
        BY <1>8 DEF Kind
      <4> QED
        BY <1>15, <1>16, <3>2, <3>3, <4>1, <4>2, <4>3, <4>4 DEF First
    <3> QED
      BY <1>2, <1>4, <3>1, <3>2, <3>3 DEF First
  <2> QED
    BY <2>1, <2>2
<1>18. ASSUME end[l][caller[l]] = "active" PROVE Dial!OpenBoth' # {}
  <2>1. \A m \in DialNode : m = n \/ m = caller[l]
    BY <1>1, <1>2, TheOther DEF DialTyped
  <2>2. \A m \in DialNode : end'[l][m] = "active"
    BY <1>2, <1>7, <1>18, <2>1
  <2> QED
    BY <1>4, <2>2 DEF Dial!OpenBoth, Dialled
<1>19. Dial!OpenBoth # {} => Dial!OpenBoth' # {}
  <2> SUFFICES ASSUME NEW k \in Dialled, \A m \in DialNode : end[k][m] = "active"
               PROVE Dial!OpenBoth' # {}
    BY DEF Dial!OpenBoth, Dialled
  <2>1. CASE k \notin S
    <3>1. \A m \in DialNode : end'[k][m] = "active"
      BY <1>7, <2>1
    <3> QED
      BY <1>4, <3>1 DEF Dial!OpenBoth, Dialled
  <2>2. CASE k \in S
    <3>1. s # n
      BY <1>2, <1>4, <1>6, <1>15, <2>2 DEF First, OnlyLink, Dial!Here
    <3>2. caller[l] = s
      BY <1>1, <1>2, <3>1, PairAssumption DEF DialTyped
    <3> QED
      BY <1>16, <1>18, <3>2
  <2> QED
    BY <2>1, <2>2
<1>20. FirstDial => Dial!OpenBoth' # {}
  <2>1. Callee(l) = n
    BY <1>1, <1>2, TheOther DEF Callee, DialTyped
  <2> QED
    BY <1>2, <1>18, <2>1 DEF FirstDial, Called
<1> QED
  BY <1>1, <1>2, <1>11, <1>13, <1>14, <1>17, <1>19, <1>20 DEF Advances, SidesInv,
     Sided, Counted

-----------------------------------------------------------------------------
LEMMA LinkedStart == Dial!Init => LinkedInv
<1> SUFFICES ASSUME Dial!Init PROVE LinkedInv
  OBVIOUS
<1>1. DialTyped /\ Dialled = {}
  BY DialStart DEF DialInv, Dial!Init, Dialled, Dial!Opened
<1>2. /\ dial_wire = {} /\ links = [n \in DialNode |-> {}] /\ cached = [n \in DialNode |-> {}]
      /\ listed = [n \in DialNode |-> 0] /\ active = [n \in DialNode |-> 0]
      /\ dial_known = [n \in DialNode |-> {}] /\ told = [n \in DialNode |-> "none"]
      /\ waiting = [n \in DialNode |-> {}] /\ dial_spent = 0
             /\ \A n \in DialNode : task[n].at = "idle"
  BY DEF Dial!Init, Dial!Idle
<1>3. OneListed
  <2> SUFFICES ASSUME NEW n \in DialNode PROVE Tidy(n, Dial!Here(n))
    BY DEF OneListed
  <2>1. Dial!Here(n) \in Registry /\ Dial!Here(n).links = {} /\ Dial!Here(n).cached = {}
        /\ Dial!Here(n).listed = 0 /\ Dial!Here(n).active = 0
    BY <1>1, <1>2, HereIs DEF Dial!Here
  <2> QED
    BY <2>1 DEF Tidy
<1>4. Untouched
  BY <1>1, <1>2 DEF Untouched
<1>5. SidesInv
  BY <1>1, <1>2, <1>3, <1>4 DEF SidesInv, Ordered, Identities, Sided, Counted
<1>6. FirstDial
  BY <1>1, <1>2 DEF FirstDial
<1> QED
  BY <1>5, <1>6 DEF LinkedInv

LEMMA LinkedKept == DialInv /\ LinkedInv /\ [Next]_vars => LinkedInv'
<1> SUFFICES ASSUME DialInv, LinkedInv, [Next]_vars PROVE LinkedInv'
  OBVIOUS
<1>1. DialInv' /\ SidesInv
  BY DialKeeps DEF LinkedInv
<1>2. ASSUME Advances PROVE LinkedInv'
  BY <1>2 DEF LinkedInv, Advances
<1>3. ASSUME NEW n \in DialNode,
             Dial!Already(n) \/ Dial!PollAdopts(n) \/ Dial!PollPromotes(n) \/ Dial!PollEnds(n)
                 \/ Dial!AwaitAdopts(n)
      PROVE  Advances
  <2>1. \E q, more : Connects(n, q, more)
    BY <1>1, <1>3, AlreadyConnects, PollAdoptsConnects, PollPromotesConnects,
       PollEndsConnects,
       AwaitAdoptsConnects DEF DialInv, SidesInv
  <2>2. task[n].at # "idle"
    BY <1>3 DEF Dial!Already, Dial!PollAdopts, Dial!PollPromotes, Dial!PollEnds,
       Dial!AwaitAdopts
  <2> QED
    BY <1>1, <2>1, <2>2, ConnectAdvances
<1>4. ASSUME NEW n \in DialNode,
             Dial!Press(n) \/ Dial!Begin(n, "user") \/ Dial!Begin(n, "reverse") \/ Dial!Dial(n) \/
             Dial!PollFinds(n) \/ Dial!AwaitEnds(n)
      PROVE  Advances
  BY <1>1, <1>4, PressAdvances, BeginAdvances, DialAdvances, PollFindsAdvances,
     AwaitEndsAdvances
<1>5. ASSUME NEW n \in DialNode, NEW l \in Dialled,
             Dial!Request(n, l) \/ Dial!Proof(n, l) \/ Dial!InboundRefused(n, l) \/
             Dial!InboundTaken(n, l) \/ Dial!Identified(n, l) \/ Dial!Closed(n, l)
      PROVE  Advances
  BY <1>1, <1>5, RequestAdvances, ProofAdvances, InboundRefusedAdvances,
     InboundTakenAdvances,
     IdentifiedAdvances, ClosedAdvances
<1>6. ASSUME NEW p, Dial!Lose(p) PROVE Advances
  BY <1>1, <1>6, LoseAdvances
<1>7. CASE UNCHANGED Dial!vars
  <2>1. /\ UNCHANGED <<caller, end, dial_wire, dial_known, links, cached, listed, active, session, task, waiting>>
        /\ UNCHANGED <<told, crossed, dial_spent>>
    BY <1>7 DEF Dial!vars
  <2>2. Untouched => Sided'
    BY <2>1 DEF Untouched, Sided, Dialled, Dial!Opened
  <2>3. told' \in [DialNode -> {"none", "ok", "failed"}]
    BY <1>1, <2>1 DEF SidesInv, Counted
  <2>4. Advances
    BY <1>1, <2>1, <2>2, <2>3, StillAdvances
  <2> QED
    BY <1>2, <2>4
<1> QED
  BY <1>2, <1>3, <1>4, <1>5, <1>6, <1>7, DialSteps DEF Dial!Next, Dialled

\* A connect that reported success leaves a link that is open at both nodes, unless both
\* dialled at the same time (or a packet was lost): no promotion, replacement or refusal
\* of a link (_notify_link_established, _consolidate_peer_links, connect.py; _link_callback,
\* inbound_callbacks.py) closes the last link that both hold.
THEOREM ConnectedAreLinked == Spec => []LinkedAfterConnect
<1>1. Init => DialInv /\ LinkedInv
  BY DialStart, LinkedStart DEF Init
<1>2. DialInv /\ LinkedInv /\ [Next]_vars => DialInv' /\ LinkedInv'
  BY DialKeeps, LinkedKept
<1>3. DialInv /\ LinkedInv => LinkedAfterConnect
  <2> SUFFICES ASSUME DialInv, LinkedInv, Dial!Quiet, dial_spent = 0, NEW n \in DialNode,
          told[n] = "ok"
               PROVE  crossed \/ Dial!OpenBoth # {}
    BY DEF LinkedAfterConnect, Dial!LinkedAfterConnect
  <2>1. ~FirstDial
    BY DEF FirstDial, Dial!Quiet
  <2> QED
    BY <2>1 DEF LinkedInv
<1> QED
  BY <1>1, <1>2, <1>3, PTL DEF Spec
=============================================================================
