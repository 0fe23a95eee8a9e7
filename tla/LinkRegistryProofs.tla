-------------------------- MODULE LinkRegistryProofs --------------------------
(* LinksAtRest and DisconnectHolds for any links, peers and threads, and any     *)
(* number of commands.                                                          *)
(*                                                                              *)
(*   1. A stack is the set of its calls (Elems), but for what must be at its      *)
(*      bottom or its top; each action gives up one call for new ones (the        *)
(*      ...Form lemmas).                                                         *)
(*   2. IType and IKnown: the types, and what a call and the registry rest on,    *)
(*      a link that is known to lead to the peer it is filed under.               *)
(*   3. Done: every action is one of fifteen kinds of step, told apart by what   *)
(*      they do to the registry, so that the rest of the argument is about the    *)
(*      kinds and never about the actions.                                       *)
(*   4. ILinks and ILeft: the parts of the invariant that need the calls of all   *)
(*      the threads, each preserved by every kind of step.                        *)
EXTENDS LinkRegistry, SequenceTheorems, TLAPS

(* The calls on a stack, without their order.  A loop's end and the dial are at   *)
(* the bottom of a stack, the callback's middle and a notification at its top.   *)
Elems(s) == {s[i] : i \in DOMAIN s}
Calls(t) == Elems(stack[t])
Rest(t)  == Elems(Tail(stack[t]))
Bottoms == {"disconnectEnd", "resetEnd", "reuse"}
Tops    == {"closedMid", "notify"}
Shaped(s) == \A i \in DOMAIN s : /\ s[i].op \in Bottoms => i = Len(s)
                                 /\ s[i].op \in Tops => i = 1
Shape == \A t \in Thread : Shaped(stack[t])
Plain(s) == \A i \in DOMAIN s : s[i].op \notin Bottoms \union Tops

(* One peer between the threads is a crossing.                                   *)
Cross == \A t, u \in Thread : t # u => Topics(stack[t]) \intersect Topics(stack[u]) \subseteq crossed

(* What a step does to the calls of its thread.                                  *)
Moved(t, new) ==
    /\ stack' \in [Thread -> Seq(Frame)] /\ Shape'
    /\ Frm(t) \in Frame /\ Calls(t) = {Frm(t)} \union Rest(t)
    /\ Calls(t)' = new \union Rest(t)
    /\ \A u \in Thread \ {t} : Calls(u)' = Calls(u)
    /\ \A c \in Rest(t) : c \in Frame /\ c.op \notin Tops
    /\ Frm(t).op \in Bottoms => Rest(t) = {}
    /\ new \subseteq Frame
    /\ crossed \subseteq crossed' /\ (crossed \subseteq Peer => crossed' \subseteq Peer)
    /\ Cross => Cross'
Begun(t, new) ==
    /\ stack' \in [Thread -> Seq(Frame)] /\ Shape'
    /\ Calls(t) = {} /\ Calls(t)' = new
    /\ \A u \in Thread \ {t} : Calls(u)' = Calls(u)
    /\ new \subseteq Frame
    /\ crossed \subseteq crossed' /\ (crossed \subseteq Peer => crossed' \subseteq Peer)
    /\ Cross => Cross'

-----------------------------------------------------------------------------
(* Sequences of calls.                                                           *)

LEMMA ElemsConcat ==
  ASSUME NEW S, NEW s \in Seq(S), NEW r \in Seq(S)
  PROVE  s \o r \in Seq(S) /\ Elems(s \o r) = Elems(s) \union Elems(r)
<1>. DEFINE q == s \o r
<1>1. q \in Seq(S) /\ Len(q) = Len(s) + Len(r)
      /\ \A i \in 1 .. Len(q) : q[i] = IF i <= Len(s) THEN s[i] ELSE r[i - Len(s)]
  BY ConcatProperties
<1>2. DOMAIN q = 1 .. Len(q) /\ DOMAIN s = 1 .. Len(s) /\ DOMAIN r = 1 .. Len(r)
      /\ Len(s) \in Nat /\ Len(r) \in Nat
  BY <1>1, LenProperties
<1>. HIDE DEF q
<1>3. ASSUME NEW x \in Elems(q) PROVE x \in Elems(s) \union Elems(r)
  <2>1. PICK i \in 1 .. Len(q) : x = q[i]  BY <1>2 DEF Elems
  <2>2. CASE i <= Len(s)  BY <2>1, <2>2, <1>1, <1>2 DEF Elems
  <2>3. CASE ~(i <= Len(s))
    <3>1. i - Len(s) \in 1 .. Len(r) /\ x = r[i - Len(s)]  BY <2>1, <2>3, <1>1, <1>2
    <3>. QED  BY <3>1, <1>2 DEF Elems
  <2>. QED  BY <2>2, <2>3
<1>4. ASSUME NEW x \in Elems(s) PROVE x \in Elems(q)
  <2>1. PICK i \in 1 .. Len(s) : x = s[i]  BY <1>2 DEF Elems
  <2>2. i \in 1 .. Len(q) /\ x = q[i]  BY <2>1, <1>1, <1>2
  <2>. QED  BY <2>2, <1>2 DEF Elems
<1>5. ASSUME NEW x \in Elems(r) PROVE x \in Elems(q)
  <2>1. PICK i \in 1 .. Len(r) : x = r[i]  BY <1>2 DEF Elems
  <2>2. Len(s) + i \in 1 .. Len(q) /\ x = q[Len(s) + i]  BY <2>1, <1>1, <1>2
  <2>. QED  BY <2>2, <1>2 DEF Elems
<1>6. Elems(q) = Elems(s) \union Elems(r)  BY <1>3, <1>4, <1>5
<1>. QED  BY <1>1, <1>6 DEF q

LEMMA ElemsHead ==
  ASSUME NEW S, NEW s \in Seq(S), s # <<>>
  PROVE  /\ Head(s) \in S /\ Tail(s) \in Seq(S)
         /\ Len(s) \in Nat \ {0} /\ Len(Tail(s)) = Len(s) - 1
         /\ \A i \in 1 .. Len(Tail(s)) : Tail(s)[i] = s[i + 1]
         /\ Elems(s) = {Head(s)} \union Elems(Tail(s))
<1>1. /\ Head(s) \in S /\ Tail(s) \in Seq(S) /\ Len(Tail(s)) = Len(s) - 1
      /\ \A i \in 1 .. Len(Tail(s)) : Tail(s)[i] = s[i + 1]
  BY HeadTailProperties
<1>2. Len(s) \in Nat \ {0} /\ DOMAIN s = 1 .. Len(s) /\ DOMAIN Tail(s) = 1 .. Len(Tail(s))
      /\ Head(s) = s[1]
  BY <1>1, LenProperties, EmptySeq
<1>3. ASSUME NEW x \in Elems(s) PROVE x \in {Head(s)} \union Elems(Tail(s))
  <2>1. PICK i \in 1 .. Len(s) : x = s[i]  BY <1>2 DEF Elems
  <2>2. CASE i = 1  BY <2>1, <2>2, <1>2
  <2>3. CASE i # 1
    <3>1. i - 1 \in 1 .. Len(Tail(s)) /\ x = Tail(s)[i - 1]  BY <2>1, <2>3, <1>1, <1>2
    <3>. QED  BY <3>1, <1>2 DEF Elems
  <2>. QED  BY <2>2, <2>3
<1>4. ASSUME NEW x \in Elems(Tail(s)) PROVE x \in Elems(s)
  <2>1. PICK i \in 1 .. Len(Tail(s)) : x = Tail(s)[i]  BY <1>2 DEF Elems
  <2>2. i + 1 \in 1 .. Len(s) /\ x = s[i + 1]  BY <2>1, <1>1, <1>2
  <2>. QED  BY <2>2, <1>2 DEF Elems
<1>5. Head(s) \in Elems(s)  BY <1>2 DEF Elems
<1>. QED  BY <1>1, <1>2, <1>3, <1>4, <1>5

LEMMA ElemsTuple ==
  /\ Elems(<<>>) = {}
  /\ \A a : Elems(<<a>>) = {a}
  /\ \A a, b : Elems(<<a, b>>) = {a, b}
  /\ \A a, b, c : Elems(<<a, b, c>>) = {a, b, c}
<1>1. Elems(<<>>) = {}  BY DEF Elems
<1>2. ASSUME NEW a PROVE Elems(<<a>>) = {a}  BY DEF Elems
<1>3. ASSUME NEW a, NEW b PROVE Elems(<<a, b>>) = {a, b}
  <2>1. DOMAIN <<a, b>> = {1, 2} /\ <<a, b>>[1] = a /\ <<a, b>>[2] = b  OBVIOUS
  <2>. QED  BY <2>1 DEF Elems
<1>4. ASSUME NEW a, NEW b, NEW c PROVE Elems(<<a, b, c>>) = {a, b, c}
  <2>1. DOMAIN <<a, b, c>> = {1, 2, 3} /\ <<a, b, c>>[1] = a /\ <<a, b, c>>[2] = b
        /\ <<a, b, c>>[3] = c  OBVIOUS
  <2>. QED  BY <2>1 DEF Elems
<1>. QED  BY <1>1, <1>2, <1>3, <1>4

-----------------------------------------------------------------------------
(* A thread's step on its stack.                                                 *)

LEMMA TopicsElems ==
  ASSUME NEW s
  PROVE  \A p : p \in Topics(s) <=> \E c \in Elems(s) : p \in About(c)
BY DEF Topics, Elems

LEMMA AboutPeers ==
  ASSUME NEW c \in Frame
  PROVE  About(c) \subseteq Peer
<1>1. c.peer \in Peer \union {NoPeer} /\ c.link \in Link \union {NoLink} /\ c.todo \subseteq Link
  BY DEF Frame
<1>2. Held(c) \ {NoLink} \subseteq Link  BY <1>1 DEF Held
<1>. QED  BY <1>1, <1>2, LinkAssumption DEF About

(* A thread's calls give way to `new` ones; what remains was there before.        *)
LEMMA CrossKept ==
  ASSUME Cross, NEW t \in Thread, NEW calls, NEW left,
         Calls(t)' = Elems(calls) \union left, left \subseteq Calls(t),
         \A u \in Thread \ {t} : Calls(u)' = Calls(u),
         crossed' = crossed \union (Topics(calls) \intersect Elsewhere(t))
  PROVE  Cross'
<1>1. ASSUME NEW u \in Thread, NEW v \in Thread, u # v,
             NEW p, NEW c \in Calls(u)', p \in About(c), NEW d \in Calls(v)', p \in About(d)
      PROVE  p \in crossed'
  <2>0. \A x, y \in Thread : x # y =>
          \A a \in Calls(x), b \in Calls(y) : p \in About(a) /\ p \in About(b) => p \in crossed
    BY TopicsElems DEF Cross, Calls
  <2>1. ASSUME NEW x \in Thread, x # t, NEW a \in Calls(t)', NEW b \in Calls(x), p \in About(a),
               p \in About(b)
        PROVE  p \in crossed'
    <3>1. CASE a \in Elems(calls)
      <4>1. p \in Topics(calls)  BY <3>1, <2>1, TopicsElems
      <4>2. p \in Topics(stack[x])  BY <2>1, TopicsElems DEF Calls
      <4>3. p \in Elsewhere(t)  BY <4>2, <2>1 DEF Elsewhere
      <4>. QED  BY <4>1, <4>3
    <3>2. CASE a \in left  BY <3>2, <2>0, <2>1
    <3>. QED  BY <3>1, <3>2, <2>1
  <2>2. CASE u = t  BY <2>2, <2>1, <1>1
  <2>3. CASE v = t  BY <2>3, <2>1, <1>1
  <2>4. CASE u # t /\ v # t  BY <2>4, <2>0, <1>1
  <2>. QED  BY <2>2, <2>3, <2>4
<1>2. \A x : \A p : p \in Topics(stack[x])' <=> \E c \in Calls(x)' : p \in About(c)
  BY DEF Topics, Calls, Elems
<1>. QED  BY <1>1, <1>2 DEF Cross

LEMMA Continues ==
  ASSUME stack \in [Thread -> Seq(Frame)], Shape, NEW t \in Thread, stack[t] # <<>>,
         NEW calls \in Seq(Frame), Continue(t, calls),
         \A i \in DOMAIN calls : /\ calls[i].op \in Bottoms => i = Len(calls) /\ Frm(t).op \in Bottoms
                                 /\ calls[i].op \in Tops => i = 1
  PROVE  Moved(t, Elems(calls))
<1>. DEFINE s == stack[t]   r == Tail(s)   q == calls \o r
<1>1. s \in Seq(Frame) /\ s # <<>> /\ Shaped(s)  BY DEF Shape
<1>2. /\ Head(s) \in Frame /\ r \in Seq(Frame) /\ Len(s) \in Nat \ {0} /\ Len(r) = Len(s) - 1
      /\ \A i \in 1 .. Len(r) : r[i] = s[i + 1]
      /\ Elems(s) = {Head(s)} \union Elems(r)
  BY <1>1, ElemsHead
<1>3. q \in Seq(Frame) /\ Elems(q) = Elems(calls) \union Elems(r)  BY <1>2, ElemsConcat
<1>4. stack' = [stack EXCEPT ![t] = q]
      /\ crossed' = crossed \union (Topics(calls) \intersect Elsewhere(t))
  BY DEF Continue, Runs
<1>5. stack' \in [Thread -> Seq(Frame)]  BY <1>3, <1>4
<1>6. Calls(t)' = Elems(calls) \union Rest(t) /\ \A u \in Thread \ {t} : Calls(u)' = Calls(u)
  BY <1>3, <1>4 DEF Calls, Rest
<1>7. Calls(t) = {Frm(t)} \union Rest(t) /\ Frm(t) \in Frame  BY <1>2 DEF Calls, Rest, Frm
<1>8. DOMAIN s = 1 .. Len(s) /\ DOMAIN r = 1 .. Len(r) /\ Head(s) = s[1]
      /\ DOMAIN calls = 1 .. Len(calls) /\ Len(calls) \in Nat /\ Len(r) \in Nat
  BY <1>1, <1>2, LenProperties
<1>a. Rest(t) = Elems(r) /\ Frm(t) = Head(s)  BY DEF Rest, Frm
<1>b. Elems(calls) \union Elems(r) = Elems(q)  BY <1>3
<1>c. /\ q \in Seq(Frame) /\ Len(q) = Len(calls) + Len(r)
      /\ \A i \in 1 .. Len(calls) + Len(r) :
           q[i] = IF i <= Len(calls) THEN calls[i] ELSE r[i - Len(calls)]
  BY <1>2, ConcatProperties
<1>. HIDE DEF s, r, q
<1>9. \A i \in 1 .. Len(r) : /\ r[i] \in Frame /\ r[i].op \notin Tops
                             /\ r[i].op \in Bottoms => i = Len(r)
  <2>. SUFFICES ASSUME NEW i \in 1 .. Len(r)
                PROVE  /\ r[i] \in Frame /\ r[i].op \notin Tops
                       /\ r[i].op \in Bottoms => i = Len(r)
    OBVIOUS
  <2>1. i + 1 \in 1 .. Len(s) /\ r[i] = s[i + 1] /\ i + 1 # 1  BY <1>2
  <2>2. s[i + 1] \in Frame  BY <2>1, <1>1, <1>8, ElementOfSeq
  <2>3. s[i + 1].op \notin Tops /\ (s[i + 1].op \in Bottoms => i + 1 = Len(s))
    <3>1. i + 1 \in DOMAIN s  BY <2>1, <1>8
    <3>2. /\ s[i + 1].op \in Bottoms => i + 1 = Len(s)
          /\ s[i + 1].op \in Tops => i + 1 = 1
      BY <3>1, <1>1 DEF Shaped
    <3>. QED  BY <3>2, <2>1
  <2>4. r[i].op \in Bottoms => i = Len(r)  BY <2>1, <2>3, <1>2, <1>8
  <2>. QED  BY <2>1, <2>2, <2>3, <2>4
<1>10. ASSUME NEW c \in Rest(t) PROVE c \in Frame /\ c.op \notin Tops
  <2>1. PICK i \in 1 .. Len(r) : c = r[i]  BY <1>a, <1>8 DEF Elems
  <2>. QED  BY <2>1, <1>9
<1>11. Frm(t).op \in Bottoms => Len(r) = 0
  <2>1. 1 \in DOMAIN s  BY <1>2, <1>8
  <2>2. s[1].op \in Bottoms => 1 = Len(s)  BY <2>1, <1>1 DEF Shaped
  <2>. QED  BY <2>2, <1>a, <1>2, <1>8
<1>12. Frm(t).op \in Bottoms => Rest(t) = {}  BY <1>a, <1>8, <1>11 DEF Elems
<1>13. Elems(calls) \subseteq Frame  BY <1>8, ElementOfSeq DEF Elems
<1>14. Shaped(q)
  <2>1. Len(q) = Len(calls) + Len(r) /\ DOMAIN q = 1 .. Len(q)
        /\ \A i \in 1 .. Len(q) : q[i] = IF i <= Len(calls) THEN calls[i] ELSE r[i - Len(calls)]
    BY <1>c, LenProperties
  <2>. SUFFICES ASSUME NEW i \in 1 .. Len(q)
                PROVE  /\ q[i].op \in Bottoms => i = Len(q)
                       /\ q[i].op \in Tops => i = 1
    BY <2>1 DEF Shaped
  <2>2. CASE i <= Len(calls)
    <3>1. i \in DOMAIN calls /\ q[i] = calls[i]  BY <2>1, <2>2, <1>8
    <3>2. CASE q[i].op \in Bottoms
      <4>1. i = Len(calls) /\ Len(r) = 0  BY <3>1, <3>2, <1>11
      <4>. QED  BY <4>1, <3>1, <2>1, <1>8
    <3>3. CASE q[i].op \notin Bottoms  BY <3>1, <3>3
    <3>. QED  BY <3>2, <3>3
  <2>3. CASE ~(i <= Len(calls))
    <3>1. i - Len(calls) \in 1 .. Len(r) /\ q[i] = r[i - Len(calls)]  BY <2>1, <2>3, <1>8
    <3>a. PICK j \in 1 .. Len(r) : j = i - Len(calls)  BY <3>1
    <3>b. q[i] = r[j]  BY <3>1, <3>a
    <3>2. q[i].op \notin Tops /\ (q[i].op \in Bottoms => i - Len(calls) = Len(r))
      BY <3>a, <3>b, <1>9
    <3>. QED  BY <3>1, <3>2, <2>1, <1>8
  <2>. QED  BY <2>2, <2>3
<1>15. Shape'  BY <1>4, <1>14 DEF Shape
<1>16. crossed \subseteq Peer => crossed' \subseteq Peer
  <2>1. Topics(calls) \subseteq Peer  BY <1>13, AboutPeers, TopicsElems
  <2>. QED  BY <2>1, <1>4
<1>17. Cross => Cross'  BY <1>4, <1>6, <1>7, CrossKept
<1>. QED  BY <1>4, <1>5, <1>6, <1>7, <1>10, <1>12, <1>13, <1>15, <1>16, <1>17 DEF Moved

LEMMA Starts ==
  ASSUME stack \in [Thread -> Seq(Frame)], Shape, NEW t \in Thread,
         NEW calls \in Seq(Frame), Start(t, calls), Shaped(calls)
  PROVE  Begun(t, Elems(calls))
<1>1. /\ stack[t] = <<>> /\ stack' = [stack EXCEPT ![t] = calls]
      /\ crossed' = crossed \union (Topics(calls) \intersect Elsewhere(t))
  BY ConcatEmptySeq DEF Start, Runs
<1>2. stack' \in [Thread -> Seq(Frame)]  BY <1>1
<1>3. Calls(t) = {}  BY <1>1, ElemsTuple DEF Calls
<1>4. Calls(t)' = Elems(calls) /\ \A u \in Thread \ {t} : Calls(u)' = Calls(u)
  BY <1>1 DEF Calls
<1>5. Elems(calls) \subseteq Frame
  <2>1. DOMAIN calls = 1 .. Len(calls)  BY LenProperties
  <2>. QED  BY <2>1, ElementOfSeq DEF Elems
<1>6. Shape'  BY <1>1 DEF Shape
<1>7. crossed \subseteq Peer => crossed' \subseteq Peer
  <2>1. Topics(calls) \subseteq Peer  BY <1>5, AboutPeers, TopicsElems
  <2>. QED  BY <2>1, <1>1
<1>8. Cross => Cross'
  <2>1. Calls(t)' = Elems(calls) \union Calls(t)  BY <1>3, <1>4
  <2>. QED  BY <2>1, <1>1, <1>4, CrossKept
<1>. QED  BY <1>1, <1>2, <1>3, <1>4, <1>5, <1>6, <1>7, <1>8 DEF Begun

-----------------------------------------------------------------------------
(* The calls the actions make, as sets.                                          *)

Heard(l) == IF l \in hooked THEN {Call("closed", l, NoPeer)} ELSE {}
Loop(S, b) == IF S = {} THEN {} ELSE {Made("closeAll", NoLink, NoPeer, S, b)}
Dropped(l) == IF l # NoLink /\ status[l] # "active" THEN {Call("teardown", l, NoPeer)} ELSE {}
Unflag == Call("handoffEnd", NoLink, NoPeer)

TypedFrame(c) ==
    /\ c.op \in {"inbound", "welcome", "teardown", "closed", "closedMid", "closedEnd",
                 "notify", "adopt"} => c.link \in Link
    /\ c.op = "handoffEnd" /\ c.promote => c.link \in Link
    /\ c.op \in {"evict", "reuse", "outbound", "finish", "disconnectEnd", "unlink"}
         => c.peer \in Peer
Typed == \A t \in Thread : \A c \in Calls(t) : TypedFrame(c)
IType == TypeOK /\ Shape /\ Typed

LEMMA MadeFrame ==
  ASSUME NEW op \in Ops, NEW l \in Link \union {NoLink}, NEW p \in Peer \union {NoPeer},
         NEW S \in SUBSET Link, NEW b \in BOOLEAN
  PROVE  Made(op, l, p, S, b) \in Frame
BY DEF Made, Frame

LEMMA CallFrame ==
  ASSUME NEW op \in Ops, NEW l \in Link \union {NoLink}, NEW p \in Peer \union {NoPeer}
  PROVE  Call(op, l, p) \in Frame
BY MadeFrame DEF Call

LEMMA PlainElems ==
  ASSUME NEW s
  PROVE  Plain(s) <=> \A c \in Elems(s) : c.op \notin Bottoms \union Tops
BY DEF Plain, Elems

LEMMA TupleSeq ==
  ASSUME NEW S
  PROVE  /\ <<>> \in Seq(S)
         /\ \A a \in S : <<a>> \in Seq(S)
         /\ \A a, b \in S : <<a, b>> \in Seq(S)
         /\ \A a, b, c \in S : <<a, b, c>> \in Seq(S)
OBVIOUS

LEMMA ContinuesPlain ==
  ASSUME stack \in [Thread -> Seq(Frame)], Shape, NEW t \in Thread, stack[t] # <<>>,
         NEW calls \in Seq(Frame), Continue(t, calls), Plain(calls)
  PROVE  Moved(t, Elems(calls))
<1>1. \A i \in DOMAIN calls : /\ calls[i].op \in Bottoms => i = Len(calls) /\ Frm(t).op \in Bottoms
                              /\ calls[i].op \in Tops => i = 1
  BY DEF Plain
<1>. QED  BY <1>1, Continues

LEMMA ContinuesTop ==
  ASSUME stack \in [Thread -> Seq(Frame)], Shape, NEW t \in Thread, stack[t] # <<>>,
         NEW a \in Frame, a.op \notin Bottoms, NEW s \in Seq(Frame), Plain(s),
         Continue(t, <<a>> \o s)
  PROVE  Moved(t, {a} \union Elems(s))
<1>. DEFINE u == <<a>>   calls == u \o s
<1>0. u \in Seq(Frame) /\ Len(u) = 1 /\ u[1] = a /\ Elems(u) = {a}  BY TupleSeq, ElemsTuple
<1>a. Continue(t, calls)  OBVIOUS
<1>. HIDE DEF u
<1>1. /\ calls \in Seq(Frame) /\ Len(calls) = Len(u) + Len(s)
      /\ \A i \in 1 .. Len(u) + Len(s) : calls[i] = IF i <= Len(u) THEN u[i] ELSE s[i - Len(u)]
  BY <1>0, ConcatProperties
<1>2. Elems(calls) = {a} \union Elems(s)  BY <1>0, ElemsConcat
<1>3. DOMAIN calls = 1 .. Len(calls) /\ DOMAIN s = 1 .. Len(s) /\ Len(s) \in Nat
  BY <1>1, LenProperties
<1>4. Continue(t, calls)  BY <1>a
<1>. HIDE DEF calls
<1>5. ASSUME NEW i \in DOMAIN calls
      PROVE  calls[i].op \notin Bottoms /\ (calls[i].op \in Tops => i = 1)
  <2>1. CASE i = 1
    <3>1. calls[i] = a  BY <2>1, <1>0, <1>1, <1>3
    <3>. QED  BY <3>1, <2>1
  <2>2. CASE i # 1
    <3>1. PICK j \in 1 .. Len(s) : j = i - 1  BY <2>2, <1>0, <1>1, <1>3
    <3>2. calls[i] = s[j]  BY <3>1, <2>2, <1>0, <1>1, <1>3
    <3>. QED  BY <3>1, <3>2, <1>3 DEF Plain
  <2>. QED  BY <2>1, <2>2
<1>6. \A i \in DOMAIN calls : /\ calls[i].op \in Bottoms => i = Len(calls) /\ Frm(t).op \in Bottoms
                              /\ calls[i].op \in Tops => i = 1
  BY <1>5
<1>7. Moved(t, Elems(calls))  BY <1>1, <1>4, <1>6, Continues
<1>. QED  BY <1>2, <1>7

LEMMA StartsBottom ==
  ASSUME stack \in [Thread -> Seq(Frame)], Shape, NEW t \in Thread,
         NEW s \in Seq(Frame), Plain(s), NEW a \in Frame, a.op \notin Tops,
         Start(t, s \o <<a>>)
  PROVE  Begun(t, Elems(s) \union {a})
<1>. DEFINE u == <<a>>   calls == s \o u
<1>0. u \in Seq(Frame) /\ Len(u) = 1 /\ u[1] = a /\ Elems(u) = {a}  BY TupleSeq, ElemsTuple
<1>a. Start(t, calls)  OBVIOUS
<1>. HIDE DEF u
<1>1. /\ calls \in Seq(Frame) /\ Len(calls) = Len(s) + Len(u)
      /\ \A i \in 1 .. Len(s) + Len(u) : calls[i] = IF i <= Len(s) THEN s[i] ELSE u[i - Len(s)]
  BY <1>0, ConcatProperties
<1>2. Elems(calls) = Elems(s) \union {a}  BY <1>0, ElemsConcat
<1>3. DOMAIN calls = 1 .. Len(calls) /\ DOMAIN s = 1 .. Len(s) /\ Len(s) \in Nat
  BY <1>1, LenProperties
<1>4. Start(t, calls)  BY <1>a
<1>. HIDE DEF calls
<1>5. ASSUME NEW i \in DOMAIN calls
      PROVE  calls[i].op \notin Tops /\ (calls[i].op \in Bottoms => i = Len(calls))
  <2>1. CASE i <= Len(s)
    <3>1. i \in DOMAIN s /\ calls[i] = s[i]  BY <2>1, <1>0, <1>1, <1>3
    <3>. QED  BY <3>1 DEF Plain
  <2>2. CASE ~(i <= Len(s))
    <3>1. i - Len(s) = 1 /\ i = Len(calls)  BY <2>2, <1>0, <1>1, <1>3
    <3>2. calls[i] = a  BY <3>1, <2>2, <1>0, <1>1, <1>3
    <3>. QED  BY <3>1, <3>2
  <2>. QED  BY <2>1, <2>2
<1>6. Shaped(calls)  BY <1>5 DEF Shaped
<1>7. Begun(t, Elems(calls))  BY <1>1, <1>4, <1>6, Starts
<1>. QED  BY <1>2, <1>7

LEMMA LoopCalls ==
  ASSUME NEW S \in SUBSET Link
  PROVE  /\ CloseAll(S) \in Seq(Frame) /\ Elems(CloseAll(S)) = Loop(S, FALSE)
         /\ CloseOpen(S) \in Seq(Frame) /\ Elems(CloseOpen(S)) = Loop(S, TRUE)
         /\ Plain(CloseAll(S)) /\ Plain(CloseOpen(S))
<1>1. \A b \in BOOLEAN : Made("closeAll", NoLink, NoPeer, S, b) \in Frame  BY MadeFrame DEF Ops
<1>2. CloseAll(S) = IF S = {} THEN <<>> ELSE <<Made("closeAll", NoLink, NoPeer, S, FALSE)>>
  BY DEF CloseAll
<1>3. CloseOpen(S) = IF S = {} THEN <<>> ELSE <<Made("closeAll", NoLink, NoPeer, S, TRUE)>>
  BY DEF CloseOpen
<1>4. CloseAll(S) \in Seq(Frame) /\ CloseOpen(S) \in Seq(Frame)  BY <1>1, <1>2, <1>3, TupleSeq
<1>5. Elems(CloseAll(S)) = Loop(S, FALSE) /\ Elems(CloseOpen(S)) = Loop(S, TRUE)
  BY <1>2, <1>3, ElemsTuple DEF Loop
<1>6. \A b : \A c \in Loop(S, b) : c.op = "closeAll"  BY DEF Loop, Made
<1>. QED  BY <1>4, <1>5, <1>6, PlainElems DEF Bottoms, Tops

LEMMA HeardCalls ==
  ASSUME NEW l \in Link
  PROVE  Closing(l) \in Seq(Frame) /\ Elems(Closing(l)) = Heard(l) /\ Plain(Closing(l))
<1>1. Call("closed", l, NoPeer) \in Frame  BY CallFrame DEF Ops
<1>2. Closing(l) = IF l \in hooked THEN <<Call("closed", l, NoPeer)>> ELSE <<>>
  BY DEF Closing
<1>3. Elems(Closing(l)) = Heard(l)  BY <1>2, ElemsTuple DEF Heard
<1>4. \A c \in Heard(l) : c.op = "closed"  BY DEF Heard, Call, Made
<1>. QED  BY <1>1, <1>2, <1>3, <1>4, TupleSeq, PlainElems DEF Bottoms, Tops

LEMMA PlainConcat ==
  ASSUME NEW s \in Seq(Frame), NEW r \in Seq(Frame), Plain(s), Plain(r)
  PROVE  s \o r \in Seq(Frame) /\ Elems(s \o r) = Elems(s) \union Elems(r) /\ Plain(s \o r)
<1>1. s \o r \in Seq(Frame) /\ Elems(s \o r) = Elems(s) \union Elems(r)  BY ElemsConcat
<1>. QED  BY <1>1, PlainElems

LEMMA Continues0 ==
  ASSUME stack \in [Thread -> Seq(Frame)], Shape, NEW t \in Thread, stack[t] # <<>>,
         Continue(t, <<>>)
  PROVE  Moved(t, {})
<1>1. <<>> \in Seq(Frame) /\ Plain(<<>>) /\ Elems(<<>>) = {}  BY TupleSeq, ElemsTuple, PlainElems
<1>. QED  BY <1>1, ContinuesPlain

LEMMA Continues1 ==
  ASSUME stack \in [Thread -> Seq(Frame)], Shape, NEW t \in Thread, stack[t] # <<>>,
         NEW a \in Frame, a.op \notin Bottoms, Continue(t, <<a>>)
  PROVE  Moved(t, {a})
<1>. DEFINE calls == <<a>>
<1>1. calls \in Seq(Frame) /\ Elems(calls) = {a} /\ Len(calls) = 1 /\ DOMAIN calls = {1}
      /\ calls[1] = a
  BY TupleSeq, ElemsTuple
<1>2. Continue(t, calls)  OBVIOUS
<1>. HIDE DEF calls
<1>3. \A i \in DOMAIN calls : /\ calls[i].op \in Bottoms => i = Len(calls) /\ Frm(t).op \in Bottoms
                              /\ calls[i].op \in Tops => i = 1
  BY <1>1
<1>. QED  BY <1>1, <1>2, <1>3, Continues

LEMMA Continues2 ==
  ASSUME stack \in [Thread -> Seq(Frame)], Shape, NEW t \in Thread, stack[t] # <<>>,
         NEW a \in Frame, NEW b \in Frame, a.op \notin Bottoms, b.op \notin Bottoms \union Tops,
         Continue(t, <<a, b>>)
  PROVE  Moved(t, {a, b})
<1>. DEFINE calls == <<a, b>>
<1>1. calls \in Seq(Frame) /\ Elems(calls) = {a, b} /\ Len(calls) = 2 /\ DOMAIN calls = {1, 2}
      /\ calls[1] = a /\ calls[2] = b
  BY TupleSeq, ElemsTuple
<1>2. Continue(t, calls)  OBVIOUS
<1>. HIDE DEF calls
<1>3. \A i \in DOMAIN calls : /\ calls[i].op \in Bottoms => i = Len(calls) /\ Frm(t).op \in Bottoms
                              /\ calls[i].op \in Tops => i = 1
  BY <1>1
<1>4. Moved(t, Elems(calls))  BY <1>1, <1>2, <1>3, Continues
<1>5. Elems(calls) = {a, b}  BY <1>1
<1>. QED  BY <1>4, <1>5, Zenon

LEMMA Continues3 ==
  ASSUME stack \in [Thread -> Seq(Frame)], Shape, NEW t \in Thread, stack[t] # <<>>,
         NEW a \in Frame, NEW b \in Frame, NEW c \in Frame,
         a.op \notin Bottoms \union Tops, b.op \notin Bottoms \union Tops, c.op \notin Tops,
         c.op \in Bottoms => Frm(t).op \in Bottoms, Continue(t, <<a, b, c>>)
  PROVE  Moved(t, {a, b, c})
<1>. DEFINE calls == <<a, b, c>>
<1>1. calls \in Seq(Frame) /\ Elems(calls) = {a, b, c} /\ Len(calls) = 3
      /\ DOMAIN calls = {1, 2, 3} /\ calls[1] = a /\ calls[2] = b /\ calls[3] = c
  BY TupleSeq, ElemsTuple
<1>2. Continue(t, calls)  OBVIOUS
<1>. HIDE DEF calls
<1>3. \A i \in DOMAIN calls : /\ calls[i].op \in Bottoms => i = Len(calls) /\ Frm(t).op \in Bottoms
                              /\ calls[i].op \in Tops => i = 1
  BY <1>1
<1>4. Moved(t, Elems(calls))  BY <1>1, <1>2, <1>3, Continues
<1>5. Elems(calls) = {a, b, c}  BY <1>1
<1>. QED  BY <1>4, <1>5, Zenon

LEMMA Starts1 ==
  ASSUME stack \in [Thread -> Seq(Frame)], Shape, NEW t \in Thread,
         NEW a \in Frame, Start(t, <<a>>)
  PROVE  Begun(t, {a})
<1>. DEFINE calls == <<a>>
<1>1. calls \in Seq(Frame) /\ Elems(calls) = {a} /\ Len(calls) = 1 /\ DOMAIN calls = {1}
      /\ calls[1] = a
  BY TupleSeq, ElemsTuple
<1>2. Start(t, calls)  OBVIOUS
<1>. HIDE DEF calls
<1>3. Shaped(calls)  BY <1>1 DEF Shaped
<1>. QED  BY <1>1, <1>2, <1>3, Starts

LEMMA AtTop ==
  ASSUME IType, NEW t \in Thread, NEW op, In(t, op)
  PROVE  /\ stack \in [Thread -> Seq(Frame)] /\ Shape /\ stack[t] # <<>>
         /\ Frm(t) \in Frame /\ Frm(t).op = op /\ Frm(t) \in Calls(t) /\ TypedFrame(Frm(t))
         /\ Frm(t).link \in Link \union {NoLink} /\ Frm(t).peer \in Peer \union {NoPeer}
         /\ Frm(t).todo \in SUBSET Link /\ Frm(t).promote \in BOOLEAN
<1>1. stack \in [Thread -> Seq(Frame)] /\ Shape /\ stack[t] # <<>> /\ Frm(t).op = op
  BY DEF IType, TypeOK, In, Frm
<1>2. Frm(t) \in Frame /\ Frm(t) \in Calls(t)  BY <1>1, ElemsHead DEF Frm, Calls
<1>3. TypedFrame(Frm(t))  BY <1>2 DEF IType, Typed
<1>. QED  BY <1>1, <1>2, <1>3 DEF Frame

LEMMA RemoteType ==
  ASSUME TypeOK, NEW l \in Link
  PROVE  /\ Remote(l) \in Peer \union {NoPeer} /\ Ascribed(l) \in Peer \union {NoPeer}
         /\ PeerOf[l] \in Peer /\ FamilyOf[l] \in Family
         /\ Remote(l) # NoPeer => Remote(l) \in Peer
BY LinkAssumption DEF TypeOK, Remote, Ascribed

LEMMA LookupType ==
  ASSUME TypeOK
  PROVE  \A p : /\ LinkFor(p) \subseteq Link \union {NoLink} /\ LinkFor(p) # {}
                /\ FoundActive(p) \subseteq links /\ FoundActive(p) \subseteq Link
                /\ \A x : OtherActive(p, x) \subseteq links /\ OtherActive(p, x) \subseteq Link
                /\ LinksOf(p) \subseteq Link
                /\ Others(p) \subseteq Link
<1>1. links \subseteq Link  BY DEF TypeOK
<1>2. \A p : \A x : OtherActive(p, x) \subseteq links  BY DEF OtherActive
<1>3. \A p : LinkFor(p) \subseteq Link \union {NoLink} /\ LinkFor(p) # {}  BY <1>1 DEF LinkFor
<1>4. \A p : FoundActive(p) \subseteq links  BY DEF FoundActive
<1>5. \A p : LinksOf(p) \subseteq Link  BY <1>1, <1>2 DEF LinksOf
<1>6. \A p : Others(p) \subseteq Link  BY <1>1 DEF Others
<1>. QED  BY <1>1, <1>2, <1>3, <1>4, <1>5, <1>6

-----------------------------------------------------------------------------
(* Each action with its calls as sets.                                           *)

LEMMA OpNames ==
  /\ {"inbound", "welcome", "teardown", "closed", "closedMid", "closedEnd"} \subseteq Ops
  /\ {"notify", "adopt", "consolidate", "handoffEnd", "closeAll", "resetEnd"} \subseteq Ops
  /\ {"disconnectEnd", "evict", "unlink", "reuse", "outbound", "finish"} \subseteq Ops
BY DEF Ops

LEMMA PlainCall ==
  ASSUME NEW op \in Ops, NEW l \in Link \union {NoLink}, NEW p \in Peer \union {NoPeer}
  PROVE  Call(op, l, p) \in Frame /\ Call(op, l, p).op = op
<1>1. Call(op, l, p) \in Frame  BY CallFrame
<1>2. Call(op, l, p).op = op  BY DEF Made, Call
<1>. QED  BY <1>1, <1>2

LEMMA MadeCall ==
  ASSUME NEW op \in Ops, NEW l \in Link \union {NoLink}, NEW p \in Peer \union {NoPeer},
         NEW S \in SUBSET Link, NEW b \in BOOLEAN
  PROVE  Made(op, l, p, S, b) \in Frame /\ Made(op, l, p, S, b).op = op
<1>1. Made(op, l, p, S, b) \in Frame  BY MadeFrame
<1>2. Made(op, l, p, S, b).op = op  BY DEF Made
<1>. QED  BY <1>1, <1>2

LEMMA NoCalls ==
  ASSUME NEW op \in Ops, NEW l \in Link \union {NoLink}, NEW p \in Peer \union {NoPeer},
         NEW b \in BOOLEAN
  PROVE  Made(op, l, p, {}, b) \in Frame /\ Made(op, l, p, {}, b).op = op
<1>1. {} \in SUBSET Link  OBVIOUS
<1>. QED  BY <1>1, MadeCall

LEMMA ArrivesForm ==
  ASSUME IType, NEW l \in Link, NEW t \in Rns, LinkArrives(l, t)
  PROVE  Begun(t, {Call("inbound", l, NoPeer)})
<1>1. Call("inbound", l, NoPeer) \in Frame  BY OpNames, PlainCall
<1>2. Start(t, <<Call("inbound", l, NoPeer)>>)  BY DEF LinkArrives
<1>. QED  BY <1>1, <1>2, Starts1 DEF IType, TypeOK, Thread

LEMMA LostForm ==
  ASSUME IType, NEW l \in Link, NEW t \in Rns, LinkLost(l, t)
  PROVE  \/ l \in hooked /\ Begun(t, {Call("closed", l, NoPeer)})
         \/ l \notin hooked /\ UNCHANGED <<stack, crossed>>
<1>1. Call("closed", l, NoPeer) \in Frame  BY OpNames, PlainCall
<1>2. CASE l \in hooked
  <2>1. Start(t, <<Call("closed", l, NoPeer)>>)  BY <1>2 DEF LinkLost
  <2>. QED  BY <1>1, <1>2, <2>1, Starts1 DEF IType, TypeOK, Thread
<1>3. CASE l \notin hooked  BY <1>3 DEF LinkLost
<1>. QED  BY <1>2, <1>3

LEMMA InboundSamePeerForm ==
  ASSUME IType, NEW t \in Thread, InboundSamePeer(t),
         NEW l, l = Frm(t).link, NEW p, p = Ascribed(l)
  PROVE  /\ l \in Link /\ p \in Peer /\ active # NoLink
         /\ \/ /\ Moved(t, {Call("teardown", l, NoPeer)})
               /\ UNCHANGED <<hooked, links, handoff, silent>>
            \/ /\ Setup(l) /\ handoff' = TRUE
               /\ Moved(t, {Made("notify", l, p, {}, TRUE), Made("handoffEnd", active, p, {}, TRUE)})
<1>1. In(t, "inbound")  BY DEF InboundSamePeer
<1>2. /\ stack \in [Thread -> Seq(Frame)] /\ Shape /\ stack[t] # <<>> /\ l \in Link
  BY <1>1, AtTop DEF TypedFrame
<1>3. p \in Peer /\ active \in Link  BY <1>2, RemoteType DEF InboundSamePeer, IType, TypeOK
<1>a. Call("teardown", l, NoPeer) \in Frame /\ Call("teardown", l, NoPeer).op = "teardown"
  BY <1>2, OpNames, PlainCall
<1>b. Made("notify", l, p, {}, TRUE) \in Frame /\ Made("notify", l, p, {}, TRUE).op = "notify"
  BY <1>2, <1>3, OpNames, NoCalls
<1>c. /\ Made("handoffEnd", active, p, {}, TRUE) \in Frame
      /\ Made("handoffEnd", active, p, {}, TRUE).op = "handoffEnd"
  BY <1>3, OpNames, NoCalls
<1>4. /\ Call("teardown", l, NoPeer) \in Frame /\ Call("teardown", l, NoPeer).op = "teardown"
      /\ Made("notify", l, p, {}, TRUE) \in Frame /\ Made("notify", l, p, {}, TRUE).op = "notify"
      /\ Made("handoffEnd", active, p, {}, TRUE) \in Frame
      /\ Made("handoffEnd", active, p, {}, TRUE).op = "handoffEnd"
  BY <1>a, <1>b, <1>c
<1>5. \/ Continue(t, <<Call("teardown", l, NoPeer)>>) /\ UNCHANGED <<hooked, links, handoff, silent>>
      \/ /\ Setup(l) /\ handoff' = TRUE
         /\ Continue(t, <<Made("notify", l, p, {}, TRUE), Made("handoffEnd", active, p, {}, TRUE)>>)
  BY DEF InboundSamePeer, TearDown, Promote
<1>6. CASE Continue(t, <<Call("teardown", l, NoPeer)>>) /\ UNCHANGED <<hooked, links, handoff, silent>>
  <2>1. Moved(t, {Call("teardown", l, NoPeer)})  BY <1>2, <1>4, <1>6, Continues1 DEF Bottoms
  <2>. QED  BY <2>1, <1>2, <1>3, <1>6, NoneAssumption
<1>7. CASE /\ Setup(l) /\ handoff' = TRUE
           /\ Continue(t, <<Made("notify", l, p, {}, TRUE), Made("handoffEnd", active, p, {}, TRUE)>>)
  <2>1. Moved(t, {Made("notify", l, p, {}, TRUE), Made("handoffEnd", active, p, {}, TRUE)})
    BY <1>2, <1>4, <1>7, Continues2 DEF Bottoms, Tops
  <2>. QED  BY <2>1, <1>2, <1>3, <1>7, NoneAssumption
<1>. QED  BY <1>5, <1>6, <1>7

LEMMA InboundOtherForm ==
  ASSUME IType, NEW t \in Thread, InboundOther(t),
         NEW l, l = Frm(t).link, NEW p, p = Ascribed(l)
  PROVE  /\ l \in Link /\ p \in Peer \union {NoPeer}
         /\ \/ Moved(t, {Call("teardown", l, NoPeer)})
            \/ Moved(t, {Call("welcome", l, p)})
            \/ \E old \in Link : Moved(t, {Call("teardown", old, NoPeer), Call("welcome", l, p)})
<1>1. In(t, "inbound")  BY DEF InboundOther
<1>2. /\ stack \in [Thread -> Seq(Frame)] /\ Shape /\ stack[t] # <<>> /\ l \in Link
  BY <1>1, AtTop DEF TypedFrame
<1>3. p \in Peer \union {NoPeer}  BY <1>2, RemoteType DEF IType
<1>4. /\ Call("welcome", l, p) \in Frame /\ Call("welcome", l, p).op = "welcome"
      /\ \A x \in Link : /\ Call("teardown", x, NoPeer) \in Frame
                         /\ Call("teardown", x, NoPeer).op = "teardown"
  BY <1>2, <1>3, OpNames, PlainCall
<1>5. CASE Continue(t, <<TearDown(l)>>)
  <2>1. Continue(t, <<Call("teardown", l, NoPeer)>>)  BY <1>5 DEF TearDown
  <2>2. Moved(t, {Call("teardown", l, NoPeer)})  BY <2>1, <1>2, <1>4, Continues1 DEF Bottoms
  <2>. QED  BY <2>2, <1>2, <1>3
<1>6. CASE \E old \in LinkFor(p) :
             Continue(t, (IF old \in {NoLink, l} THEN <<>> ELSE <<TearDown(old)>>)
                         \o <<Call("welcome", l, p)>>)
  <2>1. PICK old \in LinkFor(p) :
             Continue(t, (IF old \in {NoLink, l} THEN <<>> ELSE <<TearDown(old)>>)
                         \o <<Call("welcome", l, p)>>)
    BY <1>6
  <2>. DEFINE w == Call("welcome", l, p)   d == Call("teardown", old, NoPeer)
  <2>2. <<w>> \in Seq(Frame) /\ Elems(<<w>>) = {w}  BY <1>4, TupleSeq, ElemsTuple
  <2>3. Plain(<<w>>)  BY <1>4, <2>2, PlainElems DEF Bottoms, Tops
  <2>4. CASE old \in {NoLink, l}
    <3>1. Continue(t, <<>> \o <<w>>)  BY <2>1, <2>4
    <3>2. <<>> \o <<w>> = <<w>>  BY <2>2, ConcatEmptySeq
    <3>3. Continue(t, <<w>>)  BY <3>1, <3>2
    <3>4. Moved(t, {w})  BY <3>3, <1>2, <1>4, Continues1 DEF Bottoms
    <3>. QED  BY <3>4, <1>2, <1>3
  <2>5. CASE old \notin {NoLink, l}
    <3>1. old \in Link  BY <2>5, LookupType DEF IType
    <3>2. Continue(t, <<d>> \o <<w>>)  BY <2>1, <2>5 DEF TearDown
    <3>3. <<d>> \in Seq(Frame) /\ Elems(<<d>>) = {d}  BY <3>1, <1>4, TupleSeq, ElemsTuple
    <3>4. Plain(<<d>>)  BY <3>1, <1>4, <3>3, PlainElems DEF Bottoms, Tops
    <3>5. Moved(t, Elems(<<d>> \o <<w>>)) /\ Elems(<<d>> \o <<w>>) = Elems(<<d>>) \union Elems(<<w>>)
      BY <3>2, <3>3, <3>4, <2>2, <2>3, <1>2, PlainConcat, ContinuesPlain
    <3>6. Elems(<<d>>) \union Elems(<<w>>) = {d, w}  BY <3>3, <2>2
    <3>7. Moved(t, {d, w})  BY <3>5, <3>6, Zenon
    <3>. QED  BY <3>1, <3>7, <1>2, <1>3
  <2>. QED  BY <2>4, <2>5
<1>. QED  BY <1>5, <1>6 DEF InboundOther

LEMMA WelcomeForm ==
  ASSUME IType, NEW t \in Thread, Welcome(t), NEW l, l = Frm(t).link,
         NEW p, p = IF Frm(t).peer # NoPeer THEN Frm(t).peer ELSE Remote(l)
  PROVE  /\ l \in Link /\ p \in Peer \union {NoPeer} /\ Setup(l)
         /\ Moved(t, {Made("notify", l, p, {}, Promotes(p))}) /\ Promotes(p) \in BOOLEAN
<1>1. In(t, "welcome")  BY DEF Welcome
<1>2. /\ stack \in [Thread -> Seq(Frame)] /\ Shape /\ stack[t] # <<>> /\ l \in Link
      /\ Frm(t).peer \in Peer \union {NoPeer}
  BY <1>1, AtTop DEF TypedFrame
<1>3. p \in Peer \union {NoPeer} /\ Promotes(p) \in BOOLEAN
  BY <1>2, RemoteType DEF IType, Promotes
<1>4. /\ Made("notify", l, p, {}, Promotes(p)) \in Frame
      /\ Made("notify", l, p, {}, Promotes(p)).op = "notify"
  <2>1. \A b \in BOOLEAN : /\ Made("notify", l, p, {}, b) \in Frame
                            /\ Made("notify", l, p, {}, b).op = "notify"
    <3>1. "notify" \in Ops /\ l \in Link \union {NoLink}  BY <1>2, OpNames
    <3>. QED  BY <3>1, <1>3, NoCalls
  <2>. QED  BY <2>1, <1>3, Zenon
<1>5. Setup(l) /\ Continue(t, <<Made("notify", l, p, {}, Promotes(p))>>)  BY DEF Welcome, Promote
<1>6. Moved(t, {Made("notify", l, p, {}, Promotes(p))})
  BY <1>2, <1>4, <1>5, Continues1 DEF Bottoms
<1>. QED  BY <1>2, <1>3, <1>5, <1>6

LEMMA OneCall ==
  ASSUME NEW a \in Frame, a.op \notin Bottoms \union Tops
  PROVE  <<a>> \in Seq(Frame) /\ Elems(<<a>>) = {a} /\ Plain(<<a>>)
<1>1. <<a>> \in Seq(Frame)  BY TupleSeq
<1>2. Elems(<<a>>) = {a}  BY ElemsTuple
<1>3. Plain(<<a>>)  BY <1>2, PlainElems
<1>. QED  BY <1>1, <1>2, <1>3

LEMMA ContinuesTwo ==
  ASSUME stack \in [Thread -> Seq(Frame)], Shape, NEW t \in Thread, stack[t] # <<>>,
         NEW s \in Seq(Frame), NEW r \in Seq(Frame), Plain(s), Plain(r), Continue(t, s \o r)
  PROVE  Moved(t, Elems(s) \union Elems(r))
<1>1. s \o r \in Seq(Frame) /\ Elems(s \o r) = Elems(s) \union Elems(r) /\ Plain(s \o r)
  BY PlainConcat
<1>2. Moved(t, Elems(s \o r))  BY <1>1, ContinuesPlain
<1>. QED  BY <1>1, <1>2, Zenon

LEMMA HandoffEndForm ==
  ASSUME IType, NEW t \in Thread, HandoffEnd(t)
  PROVE  \/ /\ Frm(t).promote /\ UNCHANGED handoff /\ Frm(t).link \in Link
            /\ Moved(t, {Call("teardown", Frm(t).link, NoPeer), Unflag})
         \/ ~Frm(t).promote /\ handoff' = FALSE /\ Moved(t, {})
<1>1. In(t, "handoffEnd")  BY DEF HandoffEnd
<1>2. /\ stack \in [Thread -> Seq(Frame)] /\ Shape /\ stack[t] # <<>>
      /\ Frm(t).promote => Frm(t).link \in Link
  BY <1>1, AtTop DEF TypedFrame
<1>3. CASE Frm(t).promote
  <2>1. Frm(t).link \in Link  BY <1>2, <1>3
  <2>2. /\ Call("teardown", Frm(t).link, NoPeer) \in Frame
        /\ Call("teardown", Frm(t).link, NoPeer).op = "teardown"
    BY <2>1, OpNames, PlainCall
  <2>3. Unflag \in Frame /\ Unflag.op = "handoffEnd"  BY OpNames, PlainCall DEF Unflag
  <2>4. Continue(t, <<Call("teardown", Frm(t).link, NoPeer), Unflag>>) /\ UNCHANGED handoff
    BY <1>3 DEF HandoffEnd, TearDown, Unflag
  <2>5. Moved(t, {Call("teardown", Frm(t).link, NoPeer), Unflag})
    BY <2>2, <2>3, <2>4, <1>2, Continues2 DEF Bottoms, Tops
  <2>. QED  BY <2>1, <2>4, <2>5, <1>3
<1>4. CASE ~Frm(t).promote
  <2>1. Continue(t, <<>>) /\ handoff' = FALSE  BY <1>4 DEF HandoffEnd
  <2>2. Moved(t, {})  BY <2>1, <1>2, Continues0
  <2>. QED  BY <2>1, <2>2, <1>4
<1>. QED  BY <1>3, <1>4

(* Whom Notify registers the link for, and the links it then closes.             *)
Notified(t) == IF Remote(Frm(t).link) # NoPeer THEN Remote(Frm(t).link)
               ELSE IF Frm(t).peer # NoPeer THEN Frm(t).peer ELSE session
Surplus(l, p) == {x \in LinksOf(p) \ {l} : Parallel => FamilyOf[x] = FamilyOf[l]}

LEMMA NotifyForm ==
  ASSUME IType, NEW t \in Thread, Notify(t), NEW l, l = Frm(t).link, NEW p, p = Notified(t)
  PROVE  /\ l \in Link /\ p \in Peer \union {NoPeer}
         /\ \/ p = NoPeer /\ Moved(t, {}) /\ UNCHANGED <<cached, peerLinks, guessed>>
            \/ /\ p \in Peer /\ Register(l, p) /\ Guess(l, p)
               /\ \/ ~Frm(t).promote /\ Moved(t, {})
                  \/ Frm(t).promote
                     /\ Moved(t, Loop(Surplus(l, p), TRUE) \union {Call("adopt", l, p)})
<1>1. In(t, "notify")  BY DEF Notify
<1>2. /\ stack \in [Thread -> Seq(Frame)] /\ Shape /\ stack[t] # <<>> /\ l \in Link
      /\ Frm(t).peer \in Peer \union {NoPeer}
  BY <1>1, AtTop DEF TypedFrame
<1>3. p \in Peer \union {NoPeer}  BY <1>2, RemoteType DEF IType, Notified, TypeOK
<1>4. CASE p = NoPeer
  <2>1. Continue(t, <<>>) /\ UNCHANGED <<cached, peerLinks, guessed>>
    BY <1>4 DEF Notify, Notified
  <2>2. Moved(t, {})  BY <2>1, <1>2, Continues0
  <2>. QED  BY <2>1, <2>2, <1>2, <1>3, <1>4
<1>5. CASE p # NoPeer
  <2>1. /\ Register(l, p) /\ Guess(l, p)
        /\ Continue(t, IF Frm(t).promote
                       THEN CloseOpen(Surplus(l, p)) \o <<Call("adopt", l, p)>> ELSE <<>>)
    BY <1>5 DEF Notify, Notified, Surplus
  <2>2. p \in Peer  BY <1>3, <1>5
  <2>3. CASE Frm(t).promote
    <3>. DEFINE s == CloseOpen(Surplus(l, p))   a == Call("adopt", l, p)
    <3>1. Surplus(l, p) \in SUBSET Link  BY LookupType DEF Surplus, IType
    <3>2. s \in Seq(Frame) /\ Elems(s) = Loop(Surplus(l, p), TRUE) /\ Plain(s)
      BY <3>1, LoopCalls
    <3>3. a \in Frame /\ a.op = "adopt"  BY <1>2, <2>2, OpNames, PlainCall
    <3>4. <<a>> \in Seq(Frame) /\ Elems(<<a>>) = {a} /\ Plain(<<a>>)
      BY <3>3, OneCall DEF Bottoms, Tops
    <3>5. Continue(t, s \o <<a>>)  BY <2>1, <2>3
    <3>. HIDE DEF s, a
    <3>6. Moved(t, Elems(s) \union Elems(<<a>>))  BY <3>2, <3>4, <3>5, <1>2, ContinuesTwo
    <3>7. Elems(s) \union Elems(<<a>>) = Loop(Surplus(l, p), TRUE) \union {a}  BY <3>2, <3>4
    <3>8. Moved(t, Loop(Surplus(l, p), TRUE) \union {a})  BY <3>6, <3>7, Zenon
    <3>. QED  BY <3>8, <2>1, <2>2, <2>3, <1>2 DEF a
  <2>4. CASE ~Frm(t).promote
    <3>1. Continue(t, <<>>)  BY <2>1, <2>4
    <3>2. Moved(t, {})  BY <3>1, <1>2, Continues0
    <3>. QED  BY <3>2, <2>1, <2>2, <2>4, <1>2
  <2>. QED  BY <2>3, <2>4
<1>. QED  BY <1>4, <1>5

LEMMA TearDownForm ==
  ASSUME IType, NEW t \in Thread, TearDownLink(t), NEW l, l = Frm(t).link
  PROVE  l \in Link /\ Moved(t, Heard(l)) /\ status' = [status EXCEPT ![l] = "closed"]
<1>1. In(t, "teardown")  BY DEF TearDownLink
<1>2. /\ stack \in [Thread -> Seq(Frame)] /\ Shape /\ stack[t] # <<>> /\ l \in Link
  BY <1>1, AtTop DEF TypedFrame
<1>3. Continue(t, Closing(l)) /\ status' = [status EXCEPT ![l] = "closed"]  BY DEF TearDownLink
<1>4. Closing(l) \in Seq(Frame) /\ Elems(Closing(l)) = Heard(l) /\ Plain(Closing(l))
  BY <1>2, HeardCalls
<1>5. Moved(t, Elems(Closing(l)))  BY <1>2, <1>3, <1>4, ContinuesPlain
<1>6. Moved(t, Heard(l))  BY <1>4, <1>5, Zenon
<1>. QED  BY <1>2, <1>3, <1>6

LEMMA CloseNextForm ==
  ASSUME IType, NEW t \in Thread, CloseNext(t)
  PROVE  \E l \in Frm(t).todo :
           /\ l \in Link /\ status' = [status EXCEPT ![l] = "closed"]
           /\ \/ /\ Frm(t).promote /\ status[l] = "closed"
                 /\ Moved(t, Loop(Frm(t).todo \ {l}, Frm(t).promote))
              \/ /\ ~(Frm(t).promote /\ status[l] = "closed")
                 /\ Moved(t, Heard(l) \union Loop(Frm(t).todo \ {l}, Frm(t).promote))
<1>1. In(t, "closeAll")  BY DEF CloseNext
<1>2. /\ stack \in [Thread -> Seq(Frame)] /\ Shape /\ stack[t] # <<>>
      /\ Frm(t).todo \in SUBSET Link /\ Frm(t).promote \in BOOLEAN
  BY <1>1, AtTop
<1>3. PICK l \in Frm(t).todo :
        /\ status' = [status EXCEPT ![l] = "closed"]
        /\ LET skip == Frm(t).promote /\ status[l] = "closed"
               rest == Frm(t).todo \ {l} IN
             Continue(t, (IF skip THEN <<>> ELSE Closing(l))
                         \o IF Frm(t).promote THEN CloseOpen(rest) ELSE CloseAll(rest))
  BY DEF CloseNext
<1>. DEFINE rest == Frm(t).todo \ {l}
            r == IF Frm(t).promote THEN CloseOpen(rest) ELSE CloseAll(rest)
<1>4. l \in Link /\ rest \in SUBSET Link  BY <1>2
<1>5. r \in Seq(Frame) /\ Elems(r) = Loop(rest, Frm(t).promote) /\ Plain(r)
  <2>1. CASE Frm(t).promote = TRUE  BY <2>1, <1>4, LoopCalls
  <2>2. CASE Frm(t).promote = FALSE  BY <2>2, <1>4, LoopCalls
  <2>. QED  BY <2>1, <2>2, <1>2
<1>6. CASE Frm(t).promote /\ status[l] = "closed"
  <2>1. Continue(t, <<>> \o r)  BY <1>3, <1>6
  <2>. HIDE DEF r
  <2>2. <<>> \o r = r  BY <1>5, ConcatEmptySeq
  <2>3. Continue(t, r)  BY <2>1, <2>2
  <2>4. Moved(t, Elems(r))  BY <2>3, <1>2, <1>5, ContinuesPlain
  <2>5. Moved(t, Loop(rest, Frm(t).promote))  BY <2>4, <1>5, Zenon
  <2>. QED  BY <2>5, <1>3, <1>4, <1>6
<1>7. CASE ~(Frm(t).promote /\ status[l] = "closed")
  <2>1. Continue(t, Closing(l) \o r)  BY <1>3, <1>7
  <2>. HIDE DEF r
  <2>2. Closing(l) \in Seq(Frame) /\ Elems(Closing(l)) = Heard(l) /\ Plain(Closing(l))
    BY <1>4, HeardCalls
  <2>3. Moved(t, Elems(Closing(l)) \union Elems(r))  BY <2>1, <2>2, <1>2, <1>5, ContinuesTwo
  <2>4. Moved(t, Heard(l) \union Loop(rest, Frm(t).promote))  BY <2>2, <2>3, <1>5, Zenon
  <2>. QED  BY <2>4, <1>3, <1>4, <1>7
<1>. QED  BY <1>6, <1>7

(* Adopt makes the link the session's, or only registers it.                     *)
Taken(l, p) == /\ active' = l /\ activePeer' = p /\ session' = p /\ sessionFamily' = FamilyOf[l]
               /\ dead' = IF status[l] = "closed" THEN dead \union {l} ELSE dead
               /\ UNCHANGED <<cached, peerLinks>>
Added(l, p) == active # NoLink /\ Register(l, p) /\ UNCHANGED <<chosen, dead>>

LEMMA AdoptForm ==
  ASSUME IType, NEW t \in Thread, Adopt(t), NEW l, l = Frm(t).link, NEW p, p = Frm(t).peer
  PROVE  /\ l \in Link /\ p \in Peer \union {NoPeer} /\ Moved(t, {})
         /\ Taken(l, p) \/ Added(l, p)
         /\ UNCHANGED <<rns, links, handoff, off, commands, guessed, silent, parted>>
<1>1. In(t, "adopt")  BY DEF Adopt
<1>2. Continue(t, <<>>)  BY DEF Adopt
<1>3. Taken(l, p) \/ Added(l, p)
  <2>. DEFINE mine == \/ ~Parallel \/ session = NoPeer \/ active = NoLink
                      \/ p = session \/ FamilyOf[l] = sessionFamily
  <2>1. CASE mine  BY <2>1 DEF Adopt, Taken
  <2>2. CASE ~mine  BY <2>2 DEF Adopt, Added
  <2>. QED  BY <2>1, <2>2
<1>4. UNCHANGED <<rns, links, handoff, off, commands, guessed, silent, parted>>  BY DEF Adopt
<1>. QED  BY <1>1, <1>2, <1>3, <1>4, AtTop, Continues0 DEF TypedFrame

LEMMA ClosedForm ==
  ASSUME IType, NEW t \in Thread, Closed(t), NEW l, l = Frm(t).link, NEW p, p = Ascribed(l)
  PROVE  /\ l \in Link /\ p \in Peer \union {NoPeer}
         /\ Moved(t, {Made("closedMid", l, p, OtherActive(p, l), FALSE)})
<1>1. In(t, "closed")  BY DEF Closed
<1>2. /\ stack \in [Thread -> Seq(Frame)] /\ Shape /\ stack[t] # <<>> /\ l \in Link
  BY <1>1, AtTop DEF TypedFrame
<1>3. p \in Peer \union {NoPeer} /\ OtherActive(p, l) \in SUBSET Link
  BY <1>2, RemoteType, LookupType DEF IType
<1>4. /\ Made("closedMid", l, p, OtherActive(p, l), FALSE) \in Frame
      /\ Made("closedMid", l, p, OtherActive(p, l), FALSE).op = "closedMid"
  <2>1. "closedMid" \in Ops /\ l \in Link \union {NoLink}  BY <1>2, OpNames
  <2>. QED  BY <2>1, <1>3, MadeCall
<1>5. Continue(t, <<Made("closedMid", l, p, OtherActive(p, l), FALSE)>>)  BY DEF Closed
<1>. QED  BY <1>2, <1>3, <1>4, <1>5, Continues1 DEF Bottoms

LEMMA ClosedFallBackForm ==
  ASSUME IType, NEW t \in Thread, ClosedFallBack(t),
         NEW l, l = Frm(t).link, NEW p, p = Frm(t).peer
  PROVE  /\ l \in Link
         /\ \/ /\ Frm(t).todo = {} /\ Moved(t, {}) /\ Release(l)
               /\ peerLinks' = Unlinked(p, TRUE, {})
            \/ \E next \in Frm(t).todo :
                 /\ next \in Link /\ peerLinks' = [peerLinks EXCEPT ![<<p, "bare">>] = next]
                 /\ \/ /\ active = l /\ ~handoff /\ UNCHANGED <<chosen, dead>>
                       /\ Moved(t, {Made("notify", next, p, {}, TRUE), Call("closedEnd", l, p)})
                    \/ ~(active = l /\ ~handoff) /\ Moved(t, {}) /\ Release(l)
<1>1. In(t, "closedMid")  BY DEF ClosedFallBack
<1>2. /\ stack \in [Thread -> Seq(Frame)] /\ Shape /\ stack[t] # <<>> /\ l \in Link
      /\ p \in Peer \union {NoPeer} /\ Frm(t).todo \in SUBSET Link
  BY <1>1, AtTop DEF TypedFrame
<1>3. CASE Frm(t).todo = {}
  <2>1. /\ peerLinks' = Unlinked(p, TRUE, {}) /\ Release(l) /\ Continue(t, <<>>)
    BY <1>3 DEF ClosedFallBack
  <2>2. Moved(t, {})  BY <2>1, <1>2, Continues0
  <2>. QED  BY <2>1, <2>2, <1>2, <1>3
<1>4. CASE Frm(t).todo # {}
  <2>1. PICK next \in Frm(t).todo :
          /\ peerLinks' = [peerLinks EXCEPT ![<<p, "bare">>] = next]
          /\ IF active = l /\ ~handoff
             THEN /\ Continue(t, <<Promote(next, p, TRUE), Call("closedEnd", l, p)>>)
                  /\ UNCHANGED <<chosen, dead>>
             ELSE Release(l) /\ Continue(t, <<>>)
    BY <1>4 DEF ClosedFallBack
  <2>2. next \in Link  BY <1>2
  <2>3. CASE active = l /\ ~handoff
    <3>1. /\ Continue(t, <<Made("notify", next, p, {}, TRUE), Call("closedEnd", l, p)>>)
          /\ UNCHANGED <<chosen, dead>>
      BY <2>1, <2>3 DEF Promote
    <3>2. Made("notify", next, p, {}, TRUE) \in Frame
          /\ Made("notify", next, p, {}, TRUE).op = "notify"
      BY <2>2, <1>2, OpNames, NoCalls
    <3>3. Call("closedEnd", l, p) \in Frame /\ Call("closedEnd", l, p).op = "closedEnd"
      BY <1>2, OpNames, PlainCall
    <3>4. Moved(t, {Made("notify", next, p, {}, TRUE), Call("closedEnd", l, p)})
      BY <3>1, <3>2, <3>3, <1>2, Continues2 DEF Bottoms, Tops
    <3>. QED  BY <3>1, <3>4, <2>1, <2>2, <2>3, <1>2
  <2>4. CASE ~(active = l /\ ~handoff)
    <3>1. Release(l) /\ Continue(t, <<>>)  BY <2>1, <2>4
    <3>2. Moved(t, {})  BY <3>1, <1>2, Continues0
    <3>. QED  BY <3>1, <3>2, <2>1, <2>2, <2>4, <1>2
  <2>. QED  BY <2>3, <2>4
<1>. QED  BY <1>3, <1>4

LEMMA ClosedEndForm ==
  ASSUME IType, NEW t \in Thread, ClosedEnd(t)
  PROVE  Frm(t).link \in Link /\ Moved(t, {}) /\ Release(Frm(t).link)
<1>1. In(t, "closedEnd")  BY DEF ClosedEnd
<1>2. Continue(t, <<>>) /\ Release(Frm(t).link)  BY DEF ClosedEnd
<1>. QED  BY <1>1, <1>2, AtTop, Continues0 DEF TypedFrame

LEMMA EndForm ==
  ASSUME IType, NEW t \in Thread, DisconnectEnd(t) \/ ResetEnd(t) \/ Unlink(t)
  PROVE  Moved(t, {})
<1>1. Continue(t, <<>>) /\ \E op : In(t, op)  BY DEF DisconnectEnd, ResetEnd, Unlink
<1>. QED  BY <1>1, AtTop, Continues0

LEMMA EvictForm ==
  ASSUME IType, NEW t \in Thread, Evict(t)
  PROVE  \/ /\ activePeer' \in {activePeer, Frm(t).peer}
            /\ Moved(t, Loop(Others(Frm(t).peer), FALSE))
         \/ \E k \in Key :
              /\ UNCHANGED activePeer /\ peerLinks[k] \in Link
              /\ Moved(t, {Call("teardown", peerLinks[k], NoPeer),
                           Made("unlink", NoLink, k[1], {l \in Link : FamilyOf[l] = k[2]}, k[2] = "bare"),
                           Frm(t)})
<1>. DEFINE V == {j \in Entries : ~Requested(Frm(t), j)}
            Go == Continue(t, CloseAll(Others(Frm(t).peer)))
            On == \E k \in V :
                    Continue(t, <<TearDown(peerLinks[k]),
                        Made("unlink", NoLink, k[1], {l \in Link : FamilyOf[l] = k[2]}, k[2] = "bare"),
                        Frm(t)>>)
<1>0. \/ Go /\ activePeer' = IF Stays(Frm(t)) THEN activePeer ELSE Frm(t).peer
      \/ On /\ UNCHANGED activePeer
  BY DEF Evict
<1>1. In(t, "evict")  BY DEF Evict
<1>2. /\ stack \in [Thread -> Seq(Frame)] /\ Shape /\ stack[t] # <<>> /\ Frm(t) \in Frame
      /\ Frm(t).op = "evict"
  BY <1>1, AtTop
<1>3. CASE Go /\ activePeer' = IF Stays(Frm(t)) THEN activePeer ELSE Frm(t).peer
  <2>. DEFINE s == CloseAll(Others(Frm(t).peer))
  <2>1. Others(Frm(t).peer) \in SUBSET Link  BY LookupType DEF IType
  <2>2. s \in Seq(Frame) /\ Elems(s) = Loop(Others(Frm(t).peer), FALSE) /\ Plain(s)
    BY <2>1, LoopCalls
  <2>3. Moved(t, Elems(s))  BY <1>2, <1>3, <2>2, ContinuesPlain
  <2>. HIDE DEF s
  <2>4. Moved(t, Loop(Others(Frm(t).peer), FALSE))  BY <2>2, <2>3, Zenon
  <2>5. activePeer' \in {activePeer, Frm(t).peer}  BY <1>3
  <2>. QED  BY <2>4, <2>5
<1>4. CASE On /\ UNCHANGED activePeer
  <2>1. PICK k \in Entries :
             Continue(t, <<TearDown(peerLinks[k]),
                 Made("unlink", NoLink, k[1], {l \in Link : FamilyOf[l] = k[2]}, k[2] = "bare"),
                 Frm(t)>>)
    BY <1>4
  <2>2. k \in Key /\ peerLinks[k] \in Link /\ k[1] \in Peer
    BY DEF Entries, IType, TypeOK, Key
  <2>. DEFINE S == {l \in Link : FamilyOf[l] = k[2]}
  <2>3. S \in SUBSET Link /\ (k[2] = "bare") \in BOOLEAN  OBVIOUS
  <2>4. \A b \in BOOLEAN : /\ Made("unlink", NoLink, k[1], S, b) \in Frame
                           /\ Made("unlink", NoLink, k[1], S, b).op = "unlink"
    <3>1. "unlink" \in Ops /\ k[1] \in Peer \union {NoPeer}  BY <2>2, OpNames
    <3>. QED  BY <3>1, <2>3, MadeCall
  <2>5. /\ Made("unlink", NoLink, k[1], S, k[2] = "bare") \in Frame
        /\ Made("unlink", NoLink, k[1], S, k[2] = "bare").op = "unlink"
    BY <2>3, <2>4, Zenon
  <2>6. /\ Call("teardown", peerLinks[k], NoPeer) \in Frame
        /\ Call("teardown", peerLinks[k], NoPeer).op = "teardown"
    BY <2>2, OpNames, PlainCall
  <2>7. Continue(t, <<Call("teardown", peerLinks[k], NoPeer),
                      Made("unlink", NoLink, k[1], S, k[2] = "bare"), Frm(t)>>)
    BY <2>1 DEF TearDown
  <2>8. Moved(t, {Call("teardown", peerLinks[k], NoPeer),
                  Made("unlink", NoLink, k[1], S, k[2] = "bare"), Frm(t)})
    BY <1>2, <2>5, <2>6, <2>7, Continues3 DEF Bottoms, Tops
  <2>. QED  BY <1>4, <2>2, <2>8
<1>. QED  BY <1>0, <1>3, <1>4

(* The dial goes on with `op`, keeping the peer and whether the user asked.       *)
Again(t, op, l) == Made(op, l, Frm(t).peer, {}, Frm(t).promote)

LEMMA UnfitForm ==
  ASSUME IType, NEW t \in Thread, In(t, "reuse"), NEW l \in Link, NEW op,
         op \in {"reuse", "outbound"}, Unfit(t, l, op)
  PROVE  handoff' = TRUE /\ Moved(t, {Call("teardown", l, NoPeer), Unflag, Again(t, op, NoLink)})
<1>1. /\ stack \in [Thread -> Seq(Frame)] /\ Shape /\ stack[t] # <<>> /\ Frm(t).op = "reuse"
      /\ Frm(t).peer \in Peer \union {NoPeer} /\ Frm(t).promote \in BOOLEAN
  BY AtTop
<1>2. Call("teardown", l, NoPeer) \in Frame /\ Call("teardown", l, NoPeer).op = "teardown"
  BY OpNames, PlainCall
<1>3. Unflag \in Frame /\ Unflag.op = "handoffEnd"  BY OpNames, PlainCall DEF Unflag
<1>4. Again(t, op, NoLink) \in Frame /\ Again(t, op, NoLink).op = op
  <2>1. op \in Ops  BY OpNames
  <2>. QED  BY <2>1, <1>1, NoCalls DEF Again
<1>5. Continue(t, <<Call("teardown", l, NoPeer), Unflag, Again(t, op, NoLink)>>) /\ handoff' = TRUE
  BY DEF Unfit, TearDown, Unflag, Again
<1>6. Frm(t).op \in Bottoms  BY <1>1 DEF Bottoms
<1>7. Moved(t, {Call("teardown", l, NoPeer), Unflag, Again(t, op, NoLink)})
  <2>1. /\ Call("teardown", l, NoPeer).op \notin Bottoms \union Tops
        /\ Unflag.op \notin Bottoms \union Tops /\ Again(t, op, NoLink).op \notin Tops
    BY <1>2, <1>3, <1>4 DEF Bottoms, Tops
  <2>. QED  BY <2>1, <1>1, <1>2, <1>3, <1>4, <1>5, <1>6, Continues3
<1>. QED  BY <1>5, <1>7

LEMMA ReuseForm ==
  ASSUME IType, NEW t \in Thread, Reuse(t), NEW p, p = Frm(t).peer
  PROVE  /\ p \in Peer
         /\ \/ /\ active # NoLink /\ activePeer = p /\ status[active] = "active"
               /\ Moved(t, {Call("finish", active, p)}) /\ UNCHANGED <<active, handoff>>
            \/ Moved(t, {Again(t, "outbound", NoLink)}) /\ UNCHANGED <<active, handoff>>
            \/ /\ active # NoLink /\ activePeer = p /\ active' = NoLink /\ handoff' = TRUE
               /\ Moved(t, {Call("teardown", active, NoPeer), Unflag, Again(t, "outbound", NoLink)})
            \/ /\ ~(active # NoLink /\ activePeer = p) /\ UNCHANGED <<active, handoff>>
               /\ \E l \in FoundActive(p) \union (LinkFor(p) \ {NoLink}) :
                    \/ Moved(t, {Call("finish", l, p)})
                    \/ Moved(t, {Made("notify", l, p, {}, TRUE), Call("finish", l, p)})
            \/ /\ ~(active # NoLink /\ activePeer = p) /\ UNCHANGED active /\ handoff' = TRUE
               /\ \E l \in links :
                    Moved(t, {Call("teardown", l, NoPeer), Unflag, Again(t, "reuse", NoLink)})
<1>. DEFINE mine == active # NoLink /\ activePeer = p
<1>1. In(t, "reuse")  BY DEF Reuse
<1>2. /\ stack \in [Thread -> Seq(Frame)] /\ Shape /\ stack[t] # <<>> /\ p \in Peer
      /\ Frm(t).op = "reuse" /\ Frm(t).promote \in BOOLEAN
  BY <1>1, AtTop DEF TypedFrame
<1>3. links \subseteq Link /\ active \in Link \union {NoLink}  BY DEF IType, TypeOK
<1>4. Again(t, "outbound", NoLink) \in Frame /\ Again(t, "outbound", NoLink).op = "outbound"
  BY <1>2, OpNames, NoCalls DEF Again
<1>5. \A l \in Link : Call("finish", l, p) \in Frame /\ Call("finish", l, p).op = "finish"
  BY <1>2, OpNames, PlainCall
<1>6. \A l \in Link : /\ Made("notify", l, p, {}, TRUE) \in Frame
                      /\ Made("notify", l, p, {}, TRUE).op = "notify"
  <2>1. "notify" \in Ops /\ p \in Peer \union {NoPeer} /\ TRUE \in BOOLEAN  BY <1>2, OpNames
  <2>. QED  BY <2>1, NoCalls
<1>7. CASE Continue(t, <<Again(t, "outbound", NoLink)>>) /\ UNCHANGED <<active, handoff>>
  <2>1. Moved(t, {Again(t, "outbound", NoLink)})  BY <1>2, <1>4, <1>7, Continues1 DEF Bottoms
  <2>. QED  BY <2>1, <1>2, <1>7
<1>8. CASE mine /\ status[active] = "active" /\ Continue(t, <<Call("finish", active, p)>>)
           /\ UNCHANGED <<active, handoff>>
  <2>1. active \in Link  BY <1>3, <1>8
  <2>2. Moved(t, {Call("finish", active, p)})  BY <2>1, <1>2, <1>5, <1>8, Continues1 DEF Bottoms
  <2>. QED  BY <2>2, <1>2, <1>8
<1>9. CASE mine /\ active' = NoLink /\ Unfit(t, active, "outbound")
  <2>1. active \in Link  BY <1>3, <1>9
  <2>2. /\ handoff' = TRUE
        /\ Moved(t, {Call("teardown", active, NoPeer), Unflag, Again(t, "outbound", NoLink)})
    BY <2>1, <1>1, <1>9, UnfitForm
  <2>. QED  BY <2>2, <1>2, <1>9
<1>10. CASE ~mine /\ UNCHANGED <<active, handoff>>
            /\ \E l \in FoundActive(p) \union (LinkFor(p) \ {NoLink}), b \in {TRUE, Frm(t).promote} :
                 Continue(t, (IF b THEN <<Promote(l, p, TRUE)>> ELSE <<>>) \o <<Call("finish", l, p)>>)
  <2>1. PICK l \in FoundActive(p) \union (LinkFor(p) \ {NoLink}), b \in {TRUE, Frm(t).promote} :
               Continue(t, (IF b THEN <<Promote(l, p, TRUE)>> ELSE <<>>) \o <<Call("finish", l, p)>>)
    BY <1>10
  <2>2. l \in Link  BY LookupType DEF IType
  <2>. DEFINE n == Made("notify", l, p, {}, TRUE)   f == Call("finish", l, p)
  <2>3. n \in Frame /\ n.op = "notify" /\ f \in Frame /\ f.op = "finish"  BY <2>2, <1>5, <1>6
  <2>4. <<f>> \in Seq(Frame) /\ Elems(<<f>>) = {f} /\ Plain(<<f>>)
    BY <2>3, OneCall DEF Bottoms, Tops
  <2>5. CASE b
    <3>1. Continue(t, <<n>> \o <<f>>)  BY <2>1, <2>5 DEF Promote
    <3>. HIDE DEF n, f
    <3>2. Moved(t, {n} \union Elems(<<f>>))
      BY <3>1, <2>3, <2>4, <1>2, ContinuesTop DEF Bottoms
    <3>3. {n} \union Elems(<<f>>) = {n, f}  BY <2>4
    <3>4. Moved(t, {n, f})  BY <3>2, <3>3, Zenon
    <3>. QED  BY <3>4, <1>2, <1>10 DEF n, f
  <2>6. CASE ~b
    <3>1. Continue(t, <<>> \o <<f>>)  BY <2>1, <2>6
    <3>. HIDE DEF n, f
    <3>2. <<>> \o <<f>> = <<f>>  BY <2>4, ConcatEmptySeq
    <3>3. Continue(t, <<f>>)  BY <3>1, <3>2
    <3>4. Moved(t, {f})  BY <3>3, <2>3, <1>2, Continues1 DEF Bottoms
    <3>. QED  BY <3>4, <1>2, <1>10 DEF f
  <2>. QED  BY <2>5, <2>6
<1>11. CASE ~mine /\ UNCHANGED active /\ \E l \in {x \in links : cached[x] = p} : Unfit(t, l, "reuse")
  <2>1. PICK l \in links : Unfit(t, l, "reuse")  BY <1>11
  <2>2. /\ handoff' = TRUE
        /\ Moved(t, {Call("teardown", l, NoPeer), Unflag, Again(t, "reuse", NoLink)})
    BY <2>1, <1>1, <1>3, UnfitForm
  <2>. QED  BY <2>1, <2>2, <1>2, <1>11
<1>. QED  BY <1>7, <1>8, <1>9, <1>10, <1>11 DEF Reuse, Again

LEMMA OpenForm ==
  ASSUME IType, NEW t \in Thread, Open(t)
  PROVE  /\ Frm(t).peer \in Peer
         /\ \E l \in Link \ Inbound : /\ PeerOf[l] = Frm(t).peer /\ status[l] = "none"
                                      /\ status' = [status EXCEPT ![l] = "pending"]
                                      /\ Moved(t, {Again(t, "outbound", l)})
<1>1. In(t, "outbound")  BY DEF Open
<1>2. /\ stack \in [Thread -> Seq(Frame)] /\ Shape /\ stack[t] # <<>> /\ Frm(t).peer \in Peer
      /\ Frm(t).promote \in BOOLEAN
  BY <1>1, AtTop DEF TypedFrame
<1>3. PICK l \in Link \ Inbound : /\ PeerOf[l] = Frm(t).peer /\ status[l] = "none"
                                  /\ status' = [status EXCEPT ![l] = "pending"]
                                  /\ Continue(t, <<Again(t, "outbound", l)>>)
  BY DEF Open, Again
<1>4. Again(t, "outbound", l) \in Frame /\ Again(t, "outbound", l).op = "outbound"
  BY <1>2, OpNames, NoCalls DEF Again
<1>5. Moved(t, {Again(t, "outbound", l)})  BY <1>2, <1>3, <1>4, Continues1 DEF Bottoms
<1>. QED  BY <1>2, <1>3, <1>5

LEMMA AttemptedCalls ==
  ASSUME NEW l \in Link \union {NoLink}
  PROVE  Attempted(l) \in Seq(Frame) /\ Elems(Attempted(l)) = Dropped(l) /\ Plain(Attempted(l))
<1>1. Call("teardown", l, NoPeer) \in Frame  BY OpNames, PlainCall
<1>2. Attempted(l) = IF l # NoLink /\ status[l] # "active"
                     THEN <<Call("teardown", l, NoPeer)>> ELSE <<>>
  BY DEF Attempted, TearDown
<1>3. Elems(Attempted(l)) = Dropped(l)  BY <1>2, ElemsTuple DEF Dropped
<1>4. \A c \in Dropped(l) : c.op = "teardown"  BY DEF Dropped, Call, Made
<1>. QED  BY <1>1, <1>2, <1>3, <1>4, TupleSeq, PlainElems DEF Bottoms, Tops

LEMMA InboundInsteadForm ==
  ASSUME IType, NEW t \in Thread, InboundInstead(t)
  PROVE  /\ Frm(t).peer \in Peer
         /\ \E l \in Link :
              /\ l \in LinkFor(Frm(t).peer) \union FoundActive(Frm(t).peer) /\ status[l] = "active"
              /\ Moved(t, ({Made("notify", l, Frm(t).peer, {}, TRUE)} \union Dropped(Frm(t).link))
                          \union {Call("finish", l, Frm(t).peer)})
<1>. DEFINE p == Frm(t).peer   mine == Frm(t).link
<1>1. In(t, "outbound")  BY DEF InboundInstead
<1>2. /\ stack \in [Thread -> Seq(Frame)] /\ Shape /\ stack[t] # <<>> /\ p \in Peer
      /\ mine \in Link \union {NoLink}
  BY <1>1, AtTop DEF TypedFrame
<1>3. PICK l \in (LinkFor(p) \union FoundActive(p)) \ {NoLink, mine} :
        /\ status[l] = "active"
        /\ Continue(t, <<Promote(l, p, TRUE)>> \o Attempted(mine) \o <<Call("finish", l, p)>>)
  BY DEF InboundInstead
<1>4. l \in Link  BY LookupType DEF IType
<1>. DEFINE n == Made("notify", l, p, {}, TRUE)   f == Call("finish", l, p)   u == <<n>>   w == <<f>>
            a == Attempted(mine)
<1>5. n \in Frame /\ n.op = "notify"  BY <1>2, <1>4, OpNames, NoCalls
<1>6. f \in Frame /\ f.op = "finish"  BY <1>2, <1>4, OpNames, PlainCall
<1>7. w \in Seq(Frame) /\ Elems(w) = {f} /\ Plain(w)  BY <1>6, OneCall DEF Bottoms, Tops
<1>8. a \in Seq(Frame) /\ Elems(a) = Dropped(mine) /\ Plain(a)  BY <1>2, AttemptedCalls
<1>9. Continue(t, u \o a \o w)  BY <1>3 DEF Promote
<1>10. u \in Seq(Frame)  BY <1>5, TupleSeq
<1>a. Continue(t, <<n>> \o (a \o w))
  <2>. HIDE DEF u, a, w
  <2>1. u \o a \o w = u \o (a \o w)  BY <1>7, <1>8, <1>10, ConcatAssociative
  <2>2. Continue(t, u \o (a \o w))  BY <2>1, <1>9
  <2>. QED  BY <2>2 DEF u
<1>. HIDE DEF n, f, a, w
<1>11. a \o w \in Seq(Frame) /\ Elems(a \o w) = Elems(a) \union Elems(w) /\ Plain(a \o w)
  BY <1>7, <1>8, PlainConcat
<1>12. Moved(t, {n} \union Elems(a \o w))  BY <1>2, <1>5, <1>a, <1>11, ContinuesTop DEF Bottoms
<1>13. {n} \union Elems(a \o w) = ({n} \union Dropped(mine)) \union {f}  BY <1>7, <1>8, <1>11
<1>14. Moved(t, ({n} \union Dropped(mine)) \union {f})  BY <1>12, <1>13, Zenon
<1>. QED  BY <1>2, <1>3, <1>4, <1>14 DEF n, f

(* An opened link that came up is made the session's when the user asked for it,  *)
(* or when its peer is the session's.                                            *)
Wanted(t) == Frm(t).promote \/ Frm(t).peer \in {activePeer, session}

LEMMA EstablishedForm ==
  ASSUME IType, NEW t \in Thread, Established(t), NEW l, l = Frm(t).link
  PROVE  /\ l \in Link /\ Frm(t).peer \in Peer /\ status[l] = "active" /\ Setup(l)
         /\ Wanted(t) \in BOOLEAN
         /\ Moved(t, {Made("notify", l, Frm(t).peer, {}, Wanted(t)), Call("finish", l, Frm(t).peer)})
<1>. DEFINE p == Frm(t).peer
<1>1. In(t, "outbound")  BY DEF Established
<1>2. /\ stack \in [Thread -> Seq(Frame)] /\ Shape /\ stack[t] # <<>> /\ p \in Peer
      /\ l \in Link \union {NoLink} /\ Frm(t).promote \in BOOLEAN
  BY <1>1, AtTop DEF TypedFrame
<1>3. /\ l # NoLink /\ status[l] = "active" /\ Setup(l)
      /\ Continue(t, <<Made("notify", l, p, {}, Wanted(t)), Call("finish", l, p)>>)
  BY DEF Established, Wanted, Promote
<1>4. l \in Link /\ Wanted(t) \in BOOLEAN  BY <1>2, <1>3 DEF Wanted
<1>5. \A b \in BOOLEAN : /\ Made("notify", l, p, {}, b) \in Frame
                         /\ Made("notify", l, p, {}, b).op = "notify"
  <2>1. "notify" \in Ops /\ p \in Peer \union {NoPeer} /\ l \in Link \union {NoLink}
    BY <1>2, OpNames
  <2>. QED  BY <2>1, NoCalls
<1>6. /\ Made("notify", l, p, {}, Wanted(t)) \in Frame
      /\ Made("notify", l, p, {}, Wanted(t)).op = "notify"
  BY <1>4, <1>5, Zenon
<1>7. Call("finish", l, p) \in Frame /\ Call("finish", l, p).op = "finish"
  BY <1>2, <1>4, OpNames, PlainCall
<1>8. Moved(t, {Made("notify", l, p, {}, Wanted(t)), Call("finish", l, p)})
  BY <1>2, <1>3, <1>6, <1>7, Continues2 DEF Bottoms, Tops
<1>. QED  BY <1>2, <1>3, <1>4, <1>8

LEMMA ConnectFailsForm ==
  ASSUME IType, NEW t \in Thread, ConnectFails(t)
  PROVE  Moved(t, Dropped(Frm(t).link))
<1>1. In(t, "outbound") /\ Continue(t, Attempted(Frm(t).link))  BY DEF ConnectFails
<1>2. /\ stack \in [Thread -> Seq(Frame)] /\ Shape /\ stack[t] # <<>>
      /\ Frm(t).link \in Link \union {NoLink}
  BY <1>1, AtTop
<1>3. /\ Attempted(Frm(t).link) \in Seq(Frame) /\ Plain(Attempted(Frm(t).link))
      /\ Elems(Attempted(Frm(t).link)) = Dropped(Frm(t).link)
  BY <1>2, AttemptedCalls
<1>4. Moved(t, Elems(Attempted(Frm(t).link)))  BY <1>1, <1>2, <1>3, ContinuesPlain
<1>. QED  BY <1>3, <1>4, Zenon

LEMMA FinishForm ==
  ASSUME IType, NEW t \in Thread, Finish(t)
  PROVE  \E S \in SUBSET Link : Moved(t, Loop(S, TRUE))
<1>. DEFINE S == {x \in LinksOf(Frm(t).peer) \ {Frm(t).link} :
                    Parallel => FamilyOf[x] = FamilyOf[Frm(t).link]}
<1>1. In(t, "finish") /\ Continue(t, CloseOpen(S))  BY DEF Finish
<1>2. stack \in [Thread -> Seq(Frame)] /\ Shape /\ stack[t] # <<>>  BY <1>1, AtTop
<1>3. S \in SUBSET Link  BY LookupType DEF IType
<1>. HIDE DEF S
<1>4. CloseOpen(S) \in Seq(Frame) /\ Plain(CloseOpen(S)) /\ Elems(CloseOpen(S)) = Loop(S, TRUE)
  BY <1>3, LoopCalls
<1>5. Moved(t, Elems(CloseOpen(S)))  BY <1>1, <1>2, <1>4, ContinuesPlain
<1>6. Moved(t, Loop(S, TRUE))  BY <1>4, <1>5, Zenon
<1>. QED  BY <1>3, <1>6

(* What the user's disconnect closes first, and its last part.                   *)
Leaf(p, f) == {l \in links : Remote(l) = p /\ f \in {"bare", FamilyOf[l]}}
LeaveCall(p, f) == Made("disconnectEnd", NoLink, p, {l \in Link : f \in {"bare", FamilyOf[l]}}, f = "bare")

LEMMA LeaveFrame ==
  ASSUME NEW p \in Peer, NEW f
  PROVE  LeaveCall(p, f) \in Frame /\ LeaveCall(p, f).op = "disconnectEnd"
<1>. DEFINE S == {l \in Link : f \in {"bare", FamilyOf[l]}}
<1>1. S \in SUBSET Link /\ (f = "bare") \in BOOLEAN  OBVIOUS
<1>2. \A b \in BOOLEAN : /\ Made("disconnectEnd", NoLink, p, S, b) \in Frame
                         /\ Made("disconnectEnd", NoLink, p, S, b).op = "disconnectEnd"
  <2>1. "disconnectEnd" \in Ops /\ p \in Peer \union {NoPeer} /\ NoLink \in Link \union {NoLink}
    BY OpNames
  <2>. QED  BY <2>1, <1>1, MadeCall
<1>3. /\ Made("disconnectEnd", NoLink, p, S, f = "bare") \in Frame
      /\ Made("disconnectEnd", NoLink, p, S, f = "bare").op = "disconnectEnd"
  BY <1>1, <1>2, Zenon
<1>. QED  BY <1>3 DEF LeaveCall

LEMMA DisconnectForm ==
  ASSUME IType, NEW p \in Peer, NEW f, Disconnect(p, f)
  PROVE  Begun(Ui, Loop(Leaf(p, f), FALSE) \union {LeaveCall(p, f)})
<1>. DEFINE s == CloseAll(Leaf(p, f))   a == LeaveCall(p, f)
<1>1. Start(Ui, s \o <<a>>)  BY DEF Disconnect, Leaf, LeaveCall
<1>2. stack \in [Thread -> Seq(Frame)] /\ Shape /\ Ui \in Thread  BY DEF IType, TypeOK, Thread
<1>3. Leaf(p, f) \in SUBSET Link  BY DEF IType, TypeOK, Leaf
<1>4. s \in Seq(Frame) /\ Elems(s) = Loop(Leaf(p, f), FALSE) /\ Plain(s)  BY <1>3, LoopCalls
<1>5. a \in Frame /\ a.op = "disconnectEnd"  BY LeaveFrame
<1>. HIDE DEF s, a
<1>6. Begun(Ui, Elems(s) \union {a})  BY <1>1, <1>2, <1>4, <1>5, StartsBottom DEF Tops
<1>7. Begun(Ui, Loop(Leaf(p, f), FALSE) \union {a})  BY <1>4, <1>6, Zenon
<1>. QED  BY <1>7 DEF a

LEMMA ResetForm ==
  ASSUME IType, NEW b \in BOOLEAN, Reset(b)
  PROVE  Begun(Ui, Loop(links, FALSE) \union {Made("resetEnd", NoLink, NoPeer, {}, b)})
<1>. DEFINE s == CloseAll(links)   a == Made("resetEnd", NoLink, NoPeer, {}, b)
<1>1. Start(Ui, s \o <<a>>)  BY DEF Reset
<1>2. stack \in [Thread -> Seq(Frame)] /\ Shape /\ Ui \in Thread  BY DEF IType, TypeOK, Thread
<1>3. links \in SUBSET Link  BY DEF IType, TypeOK
<1>4. s \in Seq(Frame) /\ Elems(s) = Loop(links, FALSE) /\ Plain(s)  BY <1>3, LoopCalls
<1>5. a \in Frame /\ a.op = "resetEnd"  BY OpNames, NoCalls
<1>. HIDE DEF s, a
<1>6. Begun(Ui, Elems(s) \union {a})  BY <1>1, <1>2, <1>4, <1>5, StartsBottom DEF Tops
<1>7. Begun(Ui, Loop(links, FALSE) \union {a})  BY <1>4, <1>6, Zenon
<1>. QED  BY <1>7 DEF a

LEMMA ConnectByUserForm ==
  ASSUME IType, NEW p \in Peer, NEW f, ConnectByUser(p, f)
  PROVE  \E S \in SUBSET Link :
           Begun(Conn, {Made("evict", NoLink, p, S, FALSE), Made("reuse", NoLink, p, {}, TRUE)})
<1>. DEFINE S == {l \in Link : FamilyOf[l] = f}   e == Made("evict", NoLink, p, S, FALSE)
            a == Made("reuse", NoLink, p, {}, TRUE)   u == <<e>>
<1>1. Start(Conn, <<e, a>>)  BY DEF ConnectByUser
<1>2. stack \in [Thread -> Seq(Frame)] /\ Shape /\ Conn \in Thread  BY DEF IType, TypeOK, Thread
<1>3. S \in SUBSET Link  OBVIOUS
<1>4. a \in Frame /\ a.op = "reuse"  BY OpNames, NoCalls
<1>5. e \in Frame /\ e.op = "evict"
  <2>1. "evict" \in Ops /\ NoLink \in Link \union {NoLink} /\ p \in Peer \union {NoPeer}
        /\ FALSE \in BOOLEAN
    BY OpNames
  <2>. QED  BY <2>1, <1>3, MadeCall
<1>. HIDE DEF a, e
<1>6. u \in Seq(Frame) /\ Elems(u) = {e} /\ Plain(u)  BY <1>5, OneCall DEF Bottoms, Tops
<1>7. u \o <<a>> = <<e, a>>
  <2>1. /\ u \o <<a>> \in Seq(Frame) /\ Len(u \o <<a>>) = 2
        /\ (u \o <<a>>)[1] = e /\ (u \o <<a>>)[2] = a
    BY <1>4, <1>5, ConcatProperties
  <2>2. <<e, a>> \in Seq(Frame) /\ Len(<<e, a>>) = 2 /\ <<e, a>>[1] = e /\ <<e, a>>[2] = a
    BY <1>4, <1>5
  <2>3. \A i \in 1 .. 2 : i = 1 \/ i = 2  OBVIOUS
  <2>4. \A i \in 1 .. Len(u \o <<a>>) : (u \o <<a>>)[i] = <<e, a>>[i]  BY <2>1, <2>2, <2>3
  <2>. QED  BY <2>1, <2>2, <2>4, SeqEqual
<1>8. Begun(Conn, Elems(u) \union {a})  BY <1>1, <1>2, <1>4, <1>6, <1>7, StartsBottom DEF Tops
<1>9. Elems(u) \union {a} = {e, a}  BY <1>6
<1>10. Begun(Conn, {e, a})  BY <1>8, <1>9, Zenon
<1>. QED  BY <1>10, <1>3 DEF e, a

LEMMA ConnectForPeerForm ==
  ASSUME IType, NEW p \in Peer, ConnectForPeer(p)
  PROVE  \/ p \notin off /\ Begun(Conn, {Call("reuse", NoLink, p)})
         \/ p \in off /\ \E l \in FoundActive(p) :
                           l \in Link /\ Begun(Conn, {Made("notify", l, p, {}, FALSE)})
<1>2. stack \in [Thread -> Seq(Frame)] /\ Shape /\ Conn \in Thread  BY DEF IType, TypeOK, Thread
<1>3. CASE p \notin off
  <2>1. Start(Conn, <<Call("reuse", NoLink, p)>>)  BY <1>3 DEF ConnectForPeer
  <2>2. Call("reuse", NoLink, p) \in Frame  BY OpNames, PlainCall
  <2>. QED  BY <2>1, <2>2, <1>2, <1>3, Starts1
<1>4. CASE p \in off
  <2>1. PICK l \in FoundActive(p) : Start(Conn, <<Made("notify", l, p, {}, FALSE)>>)
    BY <1>4 DEF ConnectForPeer, Promote
  <2>2. l \in Link  BY LookupType DEF IType
  <2>3. Made("notify", l, p, {}, FALSE) \in Frame  BY <2>2, OpNames, NoCalls
  <2>4. Begun(Conn, {Made("notify", l, p, {}, FALSE)})  BY <2>1, <2>3, <1>2, Starts1
  <2>. QED  BY <2>2, <2>4, <1>4
<1>. QED  BY <1>3, <1>4

-----------------------------------------------------------------------------
(* Types.                                                                        *)

Fields ==
    /\ status \in [Link -> {"none", "pending", "active", "closed"}]
    /\ identified \subseteq Link /\ hooked \subseteq Link /\ links \subseteq hooked
    /\ cached \in [Link -> Peer \union {NoPeer}]
    /\ peerLinks \in [Key -> Link \union {NoLink}]
    /\ active \in Link \union {NoLink} /\ activePeer \in Peer \union {NoPeer}
    /\ session \in Peer \union {NoPeer} /\ sessionFamily \in Family \union {"bare"}
    /\ handoff \in BOOLEAN /\ off \subseteq Peer
    /\ commands \in 0 .. MaxCommands
    /\ guessed \subseteq Peer \union {NoPeer} /\ silent \subseteq Link /\ dead \subseteq Link
    /\ kept \subseteq Peer /\ evicted \subseteq Peer

LEMMA TypeParts == TypeOK <=> /\ Fields /\ stack \in [Thread -> Seq(Frame)]
                              /\ crossed \subseteq Peer
BY DEF TypeOK, Fields

LEMMA TypeMoved ==
  ASSUME IType, NEW t \in Thread, NEW new, Moved(t, new) \/ Begun(t, new), Fields',
         \A c \in new : TypedFrame(c)
  PROVE  IType'
<1>1. stack' \in [Thread -> Seq(Frame)] /\ Shape' /\ crossed' \subseteq Peer
  BY TypeParts DEF IType, Moved, Begun
<1>2. TypeOK'  BY <1>1 DEF TypeOK, Fields
<1>3. \A c \in Calls(t)' : TypedFrame(c)
  BY DEF Moved, Begun, IType, Typed
<1>4. \A u \in Thread : \A c \in Calls(u)' : TypedFrame(c)
  BY <1>3 DEF Moved, Begun, IType, Typed
<1>. QED  BY <1>1, <1>2, <1>4 DEF IType, Typed

LEMMA TypeSame ==
  ASSUME IType, Fields', UNCHANGED <<stack, crossed>>
  PROVE  IType'
<1>1. TypeOK'  BY DEF IType, TypeOK, Fields
<1>. QED  BY <1>1 DEF IType, Shape, Typed, Calls

LEMMA ReleaseFields ==
  ASSUME TypeOK, NEW l \in Link, Release(l)
  PROVE  /\ active' \in Link \union {NoLink} /\ activePeer' \in Peer \union {NoPeer}
         /\ session' \in Peer \union {NoPeer} /\ sessionFamily' \in Family \union {"bare"}
         /\ dead' \subseteq Link
<1>1. CASE active # l \/ handoff
  <2>1. UNCHANGED chosen /\ dead' = dead \union ({active} \intersect {l})
    BY <1>1 DEF Release
  <2>. QED  BY <2>1 DEF TypeOK, chosen
<1>2. CASE ~(active # l \/ handoff)
  <2>1. PICK s, next : /\ s = IF activePeer \notin off \union {NoPeer} THEN activePeer ELSE session
                       /\ session' = s /\ UNCHANGED sessionFamily
                       /\ next \in IF s \in off THEN {NoLink} ELSE LinkFor(s)
                       /\ active' = IF next = l THEN NoLink ELSE next
                       /\ activePeer' = IF next \in {NoLink, l} THEN NoPeer ELSE s
                       /\ dead' = IF next \notin {NoLink, l} /\ status[next] = "closed"
                                  THEN dead \union {next} ELSE dead
    BY <1>2 DEF Release
  <2>2. s \in Peer \union {NoPeer} /\ next \in Link \union {NoLink}
    BY <2>1, LookupType DEF TypeOK
  <2>3. active' \in Link \union {NoLink} /\ activePeer' \in Peer \union {NoPeer}  BY <2>1, <2>2
  <2>4. dead' \subseteq Link  BY <2>1, <2>2 DEF TypeOK
  <2>. QED  BY <2>1, <2>2, <2>3, <2>4 DEF TypeOK
<1>. QED  BY <1>1, <1>2

LEMMA RegisterFields ==
  ASSUME TypeOK, NEW l \in Link, NEW p \in Peer \union {NoPeer}, Register(l, p)
  PROVE  cached' \in [Link -> Peer \union {NoPeer}] /\ peerLinks' \in [Key -> Link \union {NoLink}]
<1>1. Target(l, p) \in Peer \union {NoPeer}  BY RemoteType DEF Target
<1>. QED  BY <1>1 DEF TypeOK, Register

LEMMA EndFields ==
  ASSUME TypeOK, NEW p, NEW S, NEW b
  PROVE  Unlinked(p, b, S) \in [Key -> Link \union {NoLink}]
BY DEF TypeOK, Unlinked

LEMMA EnvironmentTyped ==
  ASSUME IType, \/ \E l \in Link, t \in Rns : LinkArrives(l, t) \/ LinkLost(l, t)
                \/ \E l \in Link : Identify(l) \/ LinkAccepted(l)
  PROVE  IType'
<1>0. TypeOK  BY DEF IType
<1>1. ASSUME NEW l \in Link, NEW t \in Rns, LinkArrives(l, t) PROVE IType'
  <2>1. Fields'  BY <1>1, <1>0 DEF Fields, TypeOK, LinkArrives, registry, chosen, noted, parted
  <2>2. Begun(t, {Call("inbound", l, NoPeer)})  BY <1>1, ArrivesForm
  <2>3. \A c \in {Call("inbound", l, NoPeer)} : TypedFrame(c)  BY DEF TypedFrame, Call, Made
  <2>. QED  BY <2>1, <2>2, <2>3, TypeMoved DEF Thread
<1>2. ASSUME NEW l \in Link, NEW t \in Rns, LinkLost(l, t) PROVE IType'
  <2>1. Fields'  BY <1>2, <1>0 DEF Fields, TypeOK, LinkLost, registry, chosen, noted, parted
  <2>2. CASE Begun(t, {Call("closed", l, NoPeer)})
    <3>1. \A c \in {Call("closed", l, NoPeer)} : TypedFrame(c)  BY DEF TypedFrame, Call, Made
    <3>. QED  BY <2>1, <2>2, <3>1, TypeMoved DEF Thread
  <2>3. CASE UNCHANGED <<stack, crossed>>  BY <2>1, <2>3, TypeSame
  <2>. QED  BY <2>2, <2>3, <1>2, LostForm
<1>3. ASSUME NEW l \in Link, Identify(l) PROVE IType'
  <2>1. Fields'  BY <1>3, <1>0 DEF Fields, TypeOK, Identify, registry, chosen, noted, parted
  <2>. QED  BY <2>1, <1>3, TypeSame DEF Identify
<1>4. ASSUME NEW l \in Link, LinkAccepted(l) PROVE IType'
  <2>1. Fields'  BY <1>4, <1>0 DEF Fields, TypeOK, LinkAccepted, registry, chosen, noted, parted
  <2>. QED  BY <2>1, <1>4, TypeSame DEF LinkAccepted
<1>. QED  BY <1>1, <1>2, <1>3, <1>4

LEMMA LoopTyped ==
  /\ \A S, b : \A c \in Loop(S, b) : TypedFrame(c)
  /\ \A l \in Link : \A c \in Heard(l) : TypedFrame(c)
  /\ \A l \in Link \union {NoLink} : \A c \in Dropped(l) : TypedFrame(c)
  /\ TypedFrame(Unflag)
<1>1. \A S, b : \A c \in Loop(S, b) : TypedFrame(c)  BY DEF Loop, Made, TypedFrame
<1>2. \A l \in Link : \A c \in Heard(l) : TypedFrame(c)  BY DEF Heard, Call, Made, TypedFrame
<1>3. \A l \in Link \union {NoLink} : \A c \in Dropped(l) : TypedFrame(c)
  BY DEF Dropped, Call, Made, TypedFrame
<1>4. TypedFrame(Unflag)  BY DEF Unflag, Call, Made, TypedFrame
<1>. QED  BY <1>1, <1>2, <1>3, <1>4

LEMMA CommandTyped ==
  ASSUME IType, Command
  PROVE  IType'
<1>0. TypeOK /\ Ui \in Thread /\ Conn \in Thread  BY DEF IType, Thread
<1>a. \A n : n \in 0 .. MaxCommands /\ n < MaxCommands => n + 1 \in 0 .. MaxCommands
  BY CommandAssumption
<1>1. ASSUME NEW p \in Peer, NEW f, f \in {"bare"} \union {FamilyOf[l] : l \in Link}, Disconnect(p, f)
      PROVE  IType'
  <2>1. Fields'  BY <1>1, <1>0, <1>a DEF Fields, TypeOK, Disconnect, rns, registry, noted, parted
  <2>2. TypedFrame(LeaveCall(p, f))
    <3>1. LeaveCall(p, f).op = "disconnectEnd" /\ LeaveCall(p, f).peer = p  BY DEF LeaveCall, Made
    <3>. QED  BY <3>1 DEF TypedFrame
  <2>3. \A c \in Loop(Leaf(p, f), FALSE) \union {LeaveCall(p, f)} : TypedFrame(c)
    BY <2>2, LoopTyped
  <2>4. Begun(Ui, Loop(Leaf(p, f), FALSE) \union {LeaveCall(p, f)})  BY <1>1, DisconnectForm
  <2>. QED  BY <2>1, <2>3, <2>4, <1>0, TypeMoved
<1>2. ASSUME NEW b \in BOOLEAN, Reset(b) PROVE IType'
  <2>1. Fields'  BY <1>2, <1>0, <1>a DEF Fields, TypeOK, Reset, rns, registry, chosen, noted, parted
  <2>2. \A c \in Loop(links, FALSE) \union {Made("resetEnd", NoLink, NoPeer, {}, b)} : TypedFrame(c)
    <3>1. TypedFrame(Made("resetEnd", NoLink, NoPeer, {}, b))  BY DEF TypedFrame, Made
    <3>. QED  BY <3>1, LoopTyped
  <2>3. Begun(Ui, Loop(links, FALSE) \union {Made("resetEnd", NoLink, NoPeer, {}, b)})
    BY <1>2, ResetForm
  <2>. QED  BY <2>1, <2>2, <2>3, <1>0, TypeMoved
<1>3. ASSUME NEW p \in Peer, NEW f, f \in {"bare"} \union {FamilyOf[l] : l \in Link}, ConnectByUser(p, f)
      PROVE  IType'
  <2>0. f \in Family \union {"bare"}  BY <1>3, LinkAssumption
  <2>1. Fields'
    BY <1>3, <1>0, <1>a, <2>0 DEF Fields, TypeOK, ConnectByUser, rns, registry, noted, parted
  <2>2. TypedFrame(Made("reuse", NoLink, p, {}, TRUE))  BY DEF TypedFrame, Made
  <2>3. PICK S \in SUBSET Link :
             Begun(Conn, {Made("evict", NoLink, p, S, FALSE), Made("reuse", NoLink, p, {}, TRUE)})
    BY <1>3, ConnectByUserForm
  <2>4. TypedFrame(Made("evict", NoLink, p, S, FALSE))  BY DEF TypedFrame, Made
  <2>5. \A c \in {Made("evict", NoLink, p, S, FALSE), Made("reuse", NoLink, p, {}, TRUE)} :
          TypedFrame(c)
    BY <2>2, <2>4
  <2>. QED  BY <2>1, <2>3, <2>5, <1>0, TypeMoved
<1>4. ASSUME NEW p \in Peer, ConnectForPeer(p) PROVE IType'
  <2>1. Fields'
    BY <1>4, <1>0, <1>a DEF Fields, TypeOK, ConnectForPeer, rns, registry, chosen, noted, parted
  <2>2. CASE Begun(Conn, {Call("reuse", NoLink, p)})
    <3>1. \A c \in {Call("reuse", NoLink, p)} : TypedFrame(c)  BY DEF TypedFrame, Call, Made
    <3>. QED  BY <2>1, <2>2, <3>1, <1>0, TypeMoved
  <2>3. CASE \E l \in Link : Begun(Conn, {Made("notify", l, p, {}, FALSE)})
    <3>1. PICK l \in Link : Begun(Conn, {Made("notify", l, p, {}, FALSE)})  BY <2>3
    <3>2. \A c \in {Made("notify", l, p, {}, FALSE)} : TypedFrame(c)  BY DEF TypedFrame, Made
    <3>. QED  BY <2>1, <3>1, <3>2, <1>0, TypeMoved
  <2>. QED  BY <2>2, <2>3, <1>4, ConnectForPeerForm
<1>. QED  BY <1>1, <1>2, <1>3, <1>4 DEF Command

LEMMA CallbackTyped ==
  ASSUME IType, NEW t \in Thread,
         \/ InboundSamePeer(t) \/ InboundOther(t) \/ Welcome(t) \/ HandoffEnd(t) \/ Notify(t)
  PROVE  IType'
<1>0. TypeOK  BY DEF IType
<1>1. CASE InboundSamePeer(t)
  <2>. DEFINE l == Frm(t).link   p == Ascribed(l)
  <2>1. /\ l \in Link /\ p \in Peer /\ active \in Link
        /\ \/ /\ Moved(t, {Call("teardown", l, NoPeer)})
              /\ UNCHANGED <<hooked, links, handoff, silent>>
           \/ /\ Setup(l) /\ handoff' = TRUE
              /\ Moved(t, {Made("notify", l, p, {}, TRUE), Made("handoffEnd", active, p, {}, TRUE)})
    BY <1>0, <1>1, InboundSamePeerForm DEF TypeOK
  <2>2. Fields'
    <3>1. cached' = [cached EXCEPT ![l] = p] /\ Guess(l, p)
          /\ UNCHANGED <<status, identified, peerLinks, chosen, off, commands, dead, parted>>
      BY <1>1 DEF InboundSamePeer
    <3>2. guessed' \subseteq Peer \union {NoPeer}  BY <3>1, <2>1, <1>0, LinkAssumption DEF Guess, TypeOK
    <3>3. hooked' \subseteq Link /\ links' \subseteq hooked' /\ handoff' \in BOOLEAN /\ silent' \subseteq Link
      BY <2>1, <1>0 DEF Setup, TypeOK
    <3>. QED  BY <3>1, <3>2, <3>3, <2>1, <1>0 DEF Fields, TypeOK, chosen, parted
  <2>. HIDE DEF l, p
  <2>3. CASE Moved(t, {Call("teardown", l, NoPeer)})
    <3>1. \A c \in {Call("teardown", l, NoPeer)} : TypedFrame(c)
      BY <2>1 DEF TypedFrame, Call, Made
    <3>. QED  BY <2>2, <2>3, <3>1, TypeMoved
  <2>4. CASE Moved(t, {Made("notify", l, p, {}, TRUE), Made("handoffEnd", active, p, {}, TRUE)})
    <3>1. \A c \in {Made("notify", l, p, {}, TRUE), Made("handoffEnd", active, p, {}, TRUE)} :
            TypedFrame(c)
      BY <2>1 DEF TypedFrame, Made
    <3>. QED  BY <2>2, <2>4, <3>1, TypeMoved
  <2>. QED  BY <2>1, <2>3, <2>4
<1>2. CASE InboundOther(t)
  <2>. DEFINE l == Frm(t).link   p == Ascribed(l)
  <2>1. /\ l \in Link /\ p \in Peer \union {NoPeer}
        /\ \/ Moved(t, {Call("teardown", l, NoPeer)})
           \/ Moved(t, {Call("welcome", l, p)})
           \/ \E old \in Link : Moved(t, {Call("teardown", old, NoPeer), Call("welcome", l, p)})
    BY <1>2, InboundOtherForm
  <2>2. Fields'
    <3>1. cached' = [cached EXCEPT ![l] = p] /\ Guess(l, p)
          /\ UNCHANGED <<rns, links, peerLinks, chosen, handoff, off, commands, silent, dead, parted>>
      BY <1>2 DEF InboundOther
    <3>2. guessed' \subseteq Peer \union {NoPeer}  BY <3>1, <2>1, <1>0, LinkAssumption DEF Guess, TypeOK
    <3>. QED  BY <3>1, <3>2, <2>1, <1>0 DEF Fields, TypeOK, rns, chosen, parted
  <2>. HIDE DEF l, p
  <2>3. TypedFrame(Call("welcome", l, p)) /\ \A x \in Link : TypedFrame(Call("teardown", x, NoPeer))
    BY <2>1 DEF TypedFrame, Call, Made
  <2>4. CASE Moved(t, {Call("teardown", l, NoPeer)})
    <3>1. \A c \in {Call("teardown", l, NoPeer)} : TypedFrame(c)  BY <2>1, <2>3
    <3>. QED  BY <2>2, <2>4, <3>1, TypeMoved
  <2>5. CASE Moved(t, {Call("welcome", l, p)})
    <3>1. \A c \in {Call("welcome", l, p)} : TypedFrame(c)  BY <2>3
    <3>. QED  BY <2>2, <2>5, <3>1, TypeMoved
  <2>6. CASE \E old \in Link : Moved(t, {Call("teardown", old, NoPeer), Call("welcome", l, p)})
    <3>1. PICK old \in Link : Moved(t, {Call("teardown", old, NoPeer), Call("welcome", l, p)})
      BY <2>6
    <3>2. \A c \in {Call("teardown", old, NoPeer), Call("welcome", l, p)} : TypedFrame(c)  BY <2>3
    <3>. QED  BY <2>2, <3>1, <3>2, TypeMoved
  <2>. QED  BY <2>1, <2>4, <2>5, <2>6
<1>3. CASE Welcome(t)
  <2>. DEFINE l == Frm(t).link   p == IF Frm(t).peer # NoPeer THEN Frm(t).peer ELSE Remote(l)
              n == Made("notify", l, p, {}, Promotes(p))
  <2>1. l \in Link /\ Setup(l) /\ Moved(t, {n})  BY <1>3, WelcomeForm
  <2>2. Fields'
    <3>1. UNCHANGED <<status, identified, cached, peerLinks, chosen, handoff, off, commands, guessed,
                      dead, parted>>
      BY <1>3 DEF Welcome
    <3>. QED  BY <3>1, <2>1, <1>0 DEF Fields, TypeOK, Setup, chosen, parted
  <2>3. n.op = "notify" /\ n.link = l  BY DEF Made
  <2>. HIDE DEF l, n
  <2>4. \A c \in {n} : TypedFrame(c)  BY <2>1, <2>3 DEF TypedFrame
  <2>. QED  BY <2>1, <2>2, <2>4, TypeMoved
<1>4. CASE HandoffEnd(t)
  <2>1. Fields'
    <3>1. UNCHANGED <<rns, registry, chosen, off, commands, noted>> /\ handoff' \in BOOLEAN
      BY <1>4, <1>0 DEF HandoffEnd, TypeOK
    <3>. QED  BY <3>1, <1>0 DEF Fields, TypeOK, rns, registry, chosen, noted, parted
  <2>2. CASE /\ Frm(t).link \in Link /\ Moved(t, {Call("teardown", Frm(t).link, NoPeer), Unflag})
    <3>1. TypedFrame(Call("teardown", Frm(t).link, NoPeer))  BY <2>2 DEF TypedFrame, Call, Made
    <3>2. \A c \in {Call("teardown", Frm(t).link, NoPeer), Unflag} : TypedFrame(c)
      BY <3>1, LoopTyped
    <3>. QED  BY <2>1, <2>2, <3>2, TypeMoved
  <2>3. CASE Moved(t, {})  BY <2>1, <2>3, TypeMoved
  <2>. QED  BY <2>2, <2>3, <1>4, HandoffEndForm
<1>5. CASE Notify(t)
  <2>. DEFINE l == Frm(t).link   p == Notified(t)   S == Surplus(l, p)
  <2>1. /\ l \in Link /\ p \in Peer \union {NoPeer}
        /\ \/ p = NoPeer /\ Moved(t, {}) /\ UNCHANGED <<cached, peerLinks, guessed>>
           \/ /\ p \in Peer /\ Register(l, p) /\ Guess(l, p)
              /\ \/ ~Frm(t).promote /\ Moved(t, {})
                 \/ Frm(t).promote
                    /\ Moved(t, Loop(S, TRUE) \union {Call("adopt", l, p)})
    BY <1>5, NotifyForm
  <2>2. Fields'
    <3>1. UNCHANGED <<rns, links, chosen, handoff, off, commands, silent, dead, parted>>
      BY <1>5 DEF Notify
    <3>2. cached' \in [Link -> Peer \union {NoPeer}] /\ peerLinks' \in [Key -> Link \union {NoLink}]
          /\ guessed' \subseteq Peer \union {NoPeer}
      <4>1. CASE UNCHANGED <<cached, peerLinks, guessed>>  BY <4>1, <1>0 DEF TypeOK
      <4>2. CASE p \in Peer /\ Register(l, p) /\ Guess(l, p)
        BY <4>2, <2>1, <1>0, RegisterFields, LinkAssumption DEF TypeOK, Guess
      <4>. QED  BY <4>1, <4>2, <2>1
    <3>. QED  BY <3>1, <3>2, <1>0 DEF Fields, TypeOK, rns, chosen, parted
  <2>. HIDE DEF l, p, S
  <2>3. CASE Moved(t, {})  BY <2>2, <2>3, TypeMoved
  <2>4. CASE Moved(t, Loop(S, TRUE) \union {Call("adopt", l, p)})
    <3>1. TypedFrame(Call("adopt", l, p))  BY <2>1 DEF TypedFrame, Call, Made
    <3>2. \A c \in Loop(S, TRUE) \union {Call("adopt", l, p)} : TypedFrame(c)
      BY <3>1, LoopTyped
    <3>. QED  BY <2>2, <2>4, <3>2, TypeMoved
  <2>. QED  BY <2>1, <2>3, <2>4
<1>. QED  BY <1>1, <1>2, <1>3, <1>4, <1>5

LEMMA CloseTyped ==
  ASSUME IType, NEW t \in Thread,
         \/ CloseNext(t) \/ Adopt(t) \/ TearDownLink(t) \/ Closed(t) \/ ClosedFallBack(t)
         \/ ClosedEnd(t)
  PROVE  IType'
<1>0. TypeOK  BY DEF IType
<1>1. CASE CloseNext(t)
  <2>1. Fields'
    BY <1>0, <1>1, CloseNextForm DEF Fields, TypeOK, CloseNext, registry, chosen, noted, parted
  <2>2. PICK l \in Link : \/ Moved(t, Loop(Frm(t).todo \ {l}, Frm(t).promote))
                         \/ Moved(t, Heard(l) \union Loop(Frm(t).todo \ {l}, Frm(t).promote))
    BY <1>1, CloseNextForm
  <2>3. \A c \in Heard(l) \union Loop(Frm(t).todo \ {l}, Frm(t).promote) : TypedFrame(c)
    BY LoopTyped
  <2>. QED  BY <2>1, <2>2, <2>3, TypeMoved
<1>2. CASE Adopt(t)
  <2>. DEFINE l == Frm(t).link   p == Frm(t).peer
  <2>1. /\ l \in Link /\ p \in Peer \union {NoPeer} /\ Moved(t, {})
        /\ Taken(l, p) \/ Added(l, p)
        /\ UNCHANGED <<rns, links, handoff, off, commands, guessed, silent, parted>>
    BY <1>2, AdoptForm
  <2>. HIDE DEF l, p
  <2>2. CASE Taken(l, p)
    <3>1. Fields'  BY <1>0, <2>1, <2>2, LinkAssumption DEF Fields, TypeOK, Taken, rns, parted
    <3>. QED  BY <2>1, <3>1, TypeMoved
  <2>3. CASE Added(l, p)
    <3>1. cached' \in [Link -> Peer \union {NoPeer}] /\ peerLinks' \in [Key -> Link \union {NoLink}]
      BY <1>0, <2>1, <2>3, RegisterFields DEF Added
    <3>2. Fields'
      BY <1>0, <2>1, <2>3, <3>1 DEF Fields, TypeOK, Added, rns, parted, chosen
    <3>. QED  BY <2>1, <3>2, TypeMoved
  <2>. QED  BY <2>1, <2>2, <2>3
<1>3. CASE TearDownLink(t)
  <2>1. Fields'
    BY <1>0, <1>3, TearDownForm DEF Fields, TypeOK, TearDownLink, registry, chosen, noted, parted
  <2>2. PICK l \in Link : Moved(t, Heard(l))  BY <1>3, TearDownForm
  <2>. QED  BY <2>1, <2>2, LoopTyped, TypeMoved
<1>4. CASE Closed(t)
  <2>. DEFINE l == Frm(t).link   p == Ascribed(l)
              c == Made("closedMid", l, p, OtherActive(p, l), FALSE)
  <2>1. l \in Link /\ p \in Peer \union {NoPeer} /\ Moved(t, {c})  BY <1>4, ClosedForm
  <2>2. Fields'
    <3>1. /\ links' = links \ {l} /\ cached' = [cached EXCEPT ![l] = NoPeer] /\ Guess(l, p)
          /\ UNCHANGED <<rns, peerLinks, chosen, handoff, off, commands, silent, dead, parted>>
      BY <1>4 DEF Closed
    <3>2. guessed' \subseteq Peer \union {NoPeer}  BY <3>1, <2>1, <1>0, LinkAssumption DEF Guess, TypeOK
    <3>. QED  BY <3>1, <3>2, <2>1, <1>0 DEF Fields, TypeOK, rns, chosen, parted
  <2>3. c.op = "closedMid" /\ c.link = l  BY DEF Made
  <2>. HIDE DEF l, c
  <2>4. \A d \in {c} : TypedFrame(d)  BY <2>1, <2>3 DEF TypedFrame
  <2>. QED  BY <2>1, <2>2, <2>4, TypeMoved
<1>5. CASE ClosedFallBack(t)
  <2>. DEFINE l == Frm(t).link   p == Frm(t).peer
  <2>1. In(t, "closedMid")  BY <1>5 DEF ClosedFallBack
  <2>2. l \in Link /\ p \in Peer \union {NoPeer} /\ Frm(t).todo \subseteq Link
    BY <2>1, AtTop DEF TypedFrame
  <2>3. UNCHANGED <<rns, links, cached, handoff, off, commands, guessed, silent, parted>>
    BY <1>5 DEF ClosedFallBack
  <2>4. CASE Frm(t).todo = {}
    <3>1. Moved(t, {}) /\ Release(l) /\ peerLinks' = Unlinked(p, TRUE, {})
      BY <1>5, <2>4, ClosedFallBackForm
    <3>2. Fields'
      BY <3>1, <2>2, <2>3, <1>0, ReleaseFields, EndFields DEF Fields, TypeOK, rns, parted
    <3>. QED  BY <3>1, <3>2, TypeMoved
  <2>5. CASE Frm(t).todo # {}
    <3>1. PICK next \in Link :
            /\ peerLinks' = [peerLinks EXCEPT ![<<p, "bare">>] = next]
            /\ \/ /\ active = l /\ ~handoff /\ UNCHANGED <<chosen, dead>>
                  /\ Moved(t, {Made("notify", next, p, {}, TRUE), Call("closedEnd", l, p)})
               \/ ~(active = l /\ ~handoff) /\ Moved(t, {}) /\ Release(l)
      BY <1>5, <2>5, ClosedFallBackForm
    <3>2. peerLinks' \in [Key -> Link \union {NoLink}]  BY <3>1, <1>0 DEF TypeOK
    <3>3. CASE UNCHANGED <<chosen, dead>>
               /\ Moved(t, {Made("notify", next, p, {}, TRUE), Call("closedEnd", l, p)})
      <4>1. Fields'  BY <3>2, <3>3, <2>3, <1>0 DEF Fields, TypeOK, rns, parted, chosen
      <4>. HIDE DEF l, p
      <4>2. \A c \in {Made("notify", next, p, {}, TRUE), Call("closedEnd", l, p)} : TypedFrame(c)
        BY <2>2 DEF TypedFrame, Call, Made
      <4>. QED  BY <3>3, <4>1, <4>2, TypeMoved
    <3>4. CASE Moved(t, {}) /\ Release(l)
      <4>1. Fields'
        BY <3>2, <3>4, <2>2, <2>3, <1>0, ReleaseFields DEF Fields, TypeOK, rns, parted
      <4>. QED  BY <3>4, <4>1, TypeMoved
    <3>. QED  BY <3>1, <3>3, <3>4
  <2>. QED  BY <2>4, <2>5
<1>6. CASE ClosedEnd(t)
  <2>1. Frm(t).link \in Link /\ Moved(t, {}) /\ Release(Frm(t).link)  BY <1>6, ClosedEndForm
  <2>2. UNCHANGED <<rns, registry, handoff, off, commands, guessed, silent, parted>>
    BY <1>6 DEF ClosedEnd
  <2>3. Fields'
    BY <2>1, <2>2, <1>0, ReleaseFields DEF Fields, TypeOK, rns, registry, parted
  <2>. QED  BY <2>1, <2>3, TypeMoved
<1>. QED  BY <1>1, <1>2, <1>3, <1>4, <1>5, <1>6

LEMMA EndTyped ==
  ASSUME IType, NEW t \in Thread, DisconnectEnd(t) \/ ResetEnd(t) \/ Unlink(t)
  PROVE  IType'
<1>0. TypeOK /\ Moved(t, {})  BY EndForm DEF IType
<1>1. ASSUME DisconnectEnd(t) PROVE Fields'
  <2>1. In(t, "disconnectEnd")  BY <1>1 DEF DisconnectEnd
  <2>2. Frm(t).peer \in Peer  BY <2>1, AtTop DEF TypedFrame
  <2>3. peerLinks' \in [Key -> Link \union {NoLink}]
    BY <1>0, <1>1, EndFields DEF DisconnectEnd
  <2>. QED  BY <1>0, <1>1, <2>2, <2>3 DEF Fields, TypeOK, DisconnectEnd, rns, Family
<1>2. ASSUME ResetEnd(t) PROVE Fields'
  BY <1>0, <1>2 DEF Fields, TypeOK, ResetEnd, rns, noted, parted, Family
<1>3. ASSUME Unlink(t) PROVE Fields'
  <2>1. In(t, "unlink")  BY <1>3 DEF Unlink
  <2>2. Frm(t).peer \in Peer  BY <2>1, AtTop DEF TypedFrame
  <2>3. peerLinks' \in [Key -> Link \union {NoLink}]
    BY <1>0, <1>3, EndFields DEF Unlink
  <2>. QED  BY <1>0, <1>3, <2>2, <2>3 DEF Fields, TypeOK, Unlink, rns, chosen
<1>. QED  BY <1>0, <1>1, <1>2, <1>3, TypeMoved

LEMMA DialTyped ==
  ASSUME IType, NEW t \in Thread,
         \/ Evict(t) \/ Reuse(t) \/ Open(t) \/ InboundInstead(t) \/ Established(t)
         \/ ConnectFails(t) \/ Finish(t)
  PROVE  IType'
<1>0. TypeOK  BY DEF IType
<1>1. CASE Evict(t)
  <2>2. TypedFrame(Frm(t)) /\ Frm(t).op = "evict" /\ Frm(t) \in Frame  BY <1>1, AtTop DEF Evict
  <2>1. ASSUME activePeer' \in {activePeer, Frm(t).peer} PROVE Fields'
    <3>1. UNCHANGED <<rns, registry, active, session, sessionFamily, handoff, off, commands, noted>>
      BY <1>1 DEF Evict
    <3>2. activePeer' \in Peer \union {NoPeer}  BY <2>1, <2>2, <1>0 DEF TypeOK, TypedFrame, Frame
    <3>. QED  BY <3>1, <3>2, <1>0 DEF Fields, TypeOK, rns, registry, noted, parted
  <2>3. CASE /\ activePeer' \in {activePeer, Frm(t).peer}
             /\ Moved(t, Loop(Others(Frm(t).peer), FALSE))
    BY <2>1, <2>3, LoopTyped, TypeMoved
  <2>4. CASE \E k \in Key :
              /\ UNCHANGED activePeer /\ peerLinks[k] \in Link
              /\ Moved(t, {Call("teardown", peerLinks[k], NoPeer),
                           Made("unlink", NoLink, k[1], {l \in Link : FamilyOf[l] = k[2]}, k[2] = "bare"),
                           Frm(t)})
    <3>1. PICK k \in Key :
              /\ UNCHANGED activePeer /\ peerLinks[k] \in Link
              /\ Moved(t, {Call("teardown", peerLinks[k], NoPeer),
                           Made("unlink", NoLink, k[1], {l \in Link : FamilyOf[l] = k[2]}, k[2] = "bare"),
                           Frm(t)})
      BY <2>4
    <3>. DEFINE a == Call("teardown", peerLinks[k], NoPeer)
                b == Made("unlink", NoLink, k[1], {l \in Link : FamilyOf[l] = k[2]}, k[2] = "bare")
    <3>2. a.op = "teardown" /\ a.link = peerLinks[k]  BY DEF Call, Made
    <3>3. b.op = "unlink" /\ b.peer = k[1]  BY DEF Made
    <3>4. Moved(t, {a, b, Frm(t)})  BY <3>1
    <3>. HIDE DEF a, b
    <3>5. TypedFrame(a)  BY <3>1, <3>2 DEF TypedFrame
    <3>6. TypedFrame(b)  BY <3>3 DEF TypedFrame, Key
    <3>7. Fields'  BY <3>1, <2>1
    <3>. QED  BY <2>2, <3>4, <3>5, <3>6, <3>7, TypeMoved
  <2>. QED  BY <2>3, <2>4, <1>1, EvictForm
<1>2. CASE Reuse(t)
  <2>. DEFINE p == Frm(t).peer   a == Again(t, "outbound", NoLink)   b == Again(t, "reuse", NoLink)
  <2>1. p \in Peer /\ TypedFrame(a) /\ TypedFrame(b)
    <3>1. p \in Peer  BY <1>2, ReuseForm
    <3>. QED  BY <3>1 DEF TypedFrame, Again, Made
  <2>2. ASSUME NEW l \in Link
        PROVE  /\ TypedFrame(Call("finish", l, p)) /\ TypedFrame(Made("notify", l, p, {}, TRUE))
               /\ TypedFrame(Call("teardown", l, NoPeer))
    BY <2>1 DEF TypedFrame, Call, Made
  <2>3. UNCHANGED <<rns, registry, activePeer, session, sessionFamily, off, commands, noted>>
    BY <1>2 DEF Reuse
  <2>4. (active' = active \/ active' = NoLink) /\ (handoff' = handoff \/ handoff' = TRUE)
    BY <1>2, ReuseForm
  <2>5. Fields'  BY <2>3, <2>4, <1>0 DEF Fields, TypeOK, rns, registry, noted, parted
  <2>6. links \subseteq Link /\ active \in Link \union {NoLink}
        /\ FoundActive(p) \union (LinkFor(p) \ {NoLink}) \subseteq Link
    BY <1>0, LookupType DEF TypeOK
  <2>. HIDE DEF p, a, b
  <2>a. \/ active \in Link /\ Moved(t, {Call("finish", active, p)})
        \/ Moved(t, {a})
        \/ active \in Link /\ Moved(t, {Call("teardown", active, NoPeer), Unflag, a})
        \/ \E l \in Link : \/ Moved(t, {Call("finish", l, p)})
                           \/ Moved(t, {Made("notify", l, p, {}, TRUE), Call("finish", l, p)})
        \/ \E l \in Link : Moved(t, {Call("teardown", l, NoPeer), Unflag, b})
    BY <1>2, <2>6, ReuseForm DEF p, a, b
  <2>7. CASE active \in Link /\ Moved(t, {Call("finish", active, p)})
    BY <2>2, <2>5, <2>7, TypeMoved
  <2>8. CASE Moved(t, {a})  BY <2>1, <2>5, <2>8, TypeMoved
  <2>9. CASE active \in Link /\ Moved(t, {Call("teardown", active, NoPeer), Unflag, a})
    BY <2>1, <2>2, <2>5, <2>9, LoopTyped, TypeMoved
  <2>10. ASSUME NEW l \in Link, Moved(t, {Call("finish", l, p)}) PROVE IType'
    BY <2>2, <2>5, <2>10, TypeMoved
  <2>11. ASSUME NEW l \in Link, Moved(t, {Made("notify", l, p, {}, TRUE), Call("finish", l, p)})
         PROVE  IType'
    BY <2>2, <2>5, <2>11, TypeMoved
  <2>12. ASSUME NEW l \in Link, Moved(t, {Call("teardown", l, NoPeer), Unflag, b}) PROVE IType'
    BY <2>1, <2>2, <2>5, <2>12, LoopTyped, TypeMoved
  <2>. QED  BY <2>a, <2>7, <2>8, <2>9, <2>10, <2>11, <2>12
<1>3. CASE Open(t)
  <2>1. PICK l \in Link : /\ status' = [status EXCEPT ![l] = "pending"]
                          /\ Moved(t, {Again(t, "outbound", l)})
    BY <1>3, OpenForm
  <2>2. Fields'
    BY <2>1, <1>0, <1>3 DEF Fields, TypeOK, Open, registry, chosen, noted, parted
  <2>3. Frm(t).peer \in Peer  BY <1>3, OpenForm
  <2>4. TypedFrame(Again(t, "outbound", l))  BY <2>3 DEF TypedFrame, Again, Made
  <2>. QED  BY <2>1, <2>2, <2>4, TypeMoved
<1>4. CASE InboundInstead(t)
  <2>1. Fields'
    BY <1>0, <1>4 DEF Fields, TypeOK, InboundInstead, rns, registry, chosen, noted, parted
  <2>2. PICK l \in Link :
          Moved(t, ({Made("notify", l, Frm(t).peer, {}, TRUE)} \union Dropped(Frm(t).link))
                   \union {Call("finish", l, Frm(t).peer)})
    BY <1>4, InboundInsteadForm
  <2>3. Frm(t).peer \in Peer /\ Frm(t).link \in Link \union {NoLink}
    BY <1>4, AtTop, InboundInsteadForm DEF InboundInstead
  <2>4. /\ TypedFrame(Made("notify", l, Frm(t).peer, {}, TRUE))
        /\ TypedFrame(Call("finish", l, Frm(t).peer))
    BY <2>3 DEF TypedFrame, Call, Made
  <2>5. \A c \in Dropped(Frm(t).link) : TypedFrame(c)  BY <2>3, LoopTyped
  <2>. QED  BY <2>1, <2>2, <2>4, <2>5, TypeMoved
<1>5. CASE Established(t)
  <2>. DEFINE l == Frm(t).link   n == Made("notify", l, Frm(t).peer, {}, Wanted(t))
              f == Call("finish", l, Frm(t).peer)
  <2>1. l \in Link /\ Frm(t).peer \in Peer /\ Setup(l) /\ Moved(t, {n, f})
    BY <1>5, EstablishedForm
  <2>2. UNCHANGED <<status, identified, cached, peerLinks, chosen, handoff, off, commands, guessed,
                    dead, parted>>
    BY <1>5 DEF Established
  <2>3. Fields'  BY <2>1, <2>2, <1>0 DEF Fields, TypeOK, Setup, chosen, parted
  <2>4. n.op = "notify" /\ n.link = l /\ f.op = "finish" /\ f.peer = Frm(t).peer
    BY DEF Made, Call
  <2>. HIDE DEF n, f, l
  <2>5. TypedFrame(n) /\ TypedFrame(f)  BY <2>1, <2>4 DEF TypedFrame
  <2>. QED  BY <2>1, <2>3, <2>5, TypeMoved
<1>6. CASE ConnectFails(t)
  <2>1. Fields'
    BY <1>0, <1>6 DEF Fields, TypeOK, ConnectFails, rns, registry, chosen, noted, parted
  <2>2. Moved(t, Dropped(Frm(t).link))  BY <1>6, ConnectFailsForm
  <2>3. Frm(t).link \in Link \union {NoLink}  BY <1>6, AtTop DEF ConnectFails
  <2>. QED  BY <2>1, <2>2, <2>3, LoopTyped, TypeMoved
<1>7. CASE Finish(t)
  <2>1. Fields'
    BY <1>0, <1>7 DEF Fields, TypeOK, Finish, rns, registry, chosen, noted, parted
  <2>2. PICK S \in SUBSET Link : Moved(t, Loop(S, TRUE))  BY <1>7, FinishForm
  <2>. QED  BY <2>1, <2>2, LoopTyped, TypeMoved
<1>. QED  BY <1>1, <1>2, <1>3, <1>4, <1>5, <1>6, <1>7

LEMMA StutterTyped ==
  ASSUME IType, UNCHANGED vars
  PROVE  IType'
BY DEF IType, TypeOK, Shape, Typed, Calls, vars, rns, registry, chosen, noted, parted

LEMMA StepTyped ==
  ASSUME IType, [Next]_vars
  PROVE  IType'
<1>1. CASE UNCHANGED vars  BY <1>1, StutterTyped
<1>2. ASSUME NEW t \in Thread, Step(t) PROVE IType'
  BY <1>2, CallbackTyped, CloseTyped, EndTyped, DialTyped DEF Step
<1>. QED  BY <1>1, <1>2, EnvironmentTyped, CommandTyped DEF Next

LEMMA InitTyped ==
  ASSUME Init
  PROVE  IType
<1>1. stack = [t \in Thread |-> <<>>] /\ \A t \in Thread : stack[t] = <<>>  BY DEF Init
<1>2. stack \in [Thread -> Seq(Frame)]  BY <1>1, TupleSeq
<1>3. Fields
  <2>1. commands \in 0 .. MaxCommands  BY CommandAssumption DEF Init
  <2>2. /\ status \in [Link -> {"none", "pending", "active", "closed"}]
        /\ cached \in [Link -> Peer \union {NoPeer}] /\ peerLinks \in [Key -> Link \union {NoLink}]
    BY DEF Init
  <2>. QED  BY <2>1, <2>2 DEF Init, Fields
<1>4. TypeOK
  <2>1. crossed \subseteq Peer  BY DEF Init
  <2>. QED  BY <1>2, <1>3, <2>1, TypeParts
<1>5. Shape  BY <1>1 DEF Shape, Shaped
<1>6. Typed  BY <1>1, ElemsTuple DEF Typed, Calls
<1>. QED  BY <1>4, <1>5, <1>6 DEF IType

(* The registry, the session and every thread's calls keep their types, whatever *)
(* callbacks and commands run in between (MessagingBackend and its mixins).       *)
THEOREM TypeInvariant == Spec => []TypeOK
<1>1. Init => IType  BY InitTyped
<1>2. IType /\ [Next]_vars => IType'  BY StepTyped
<1>3. IType => TypeOK  BY DEF IType
<1>. QED  BY <1>1, <1>2, <1>3, PTL DEF Spec

-----------------------------------------------------------------------------
(* What the calls and the registry rest on.                                      *)

(* Taken for p, a link leads to p, or both peers are known to be guesses.        *)
Sure(l, p) == p = PeerOf[l] \/ {PeerOf[l], p} \subseteq guessed
Vouched(l) == l \in identified \/ PeerOf[l] \in guessed

FrameOK(c) ==
    /\ c.op \in {"inbound", "welcome"} => status[c.link] \in {"active", "closed"}
    /\ c.op \in {"closed", "closedMid", "closedEnd"} => status[c.link] = "closed"
    /\ c.op \in {"welcome", "closedMid", "adopt"} => Sure(c.link, c.peer)
    /\ c.op \in {"notify", "adopt"} => c.link \in hooked
    /\ c.op = "adopt" => c.peer \in Peer /\ Vouched(c.link)
    /\ c.op = "closedMid" => \A x \in c.todo : x \in hooked /\ Sure(x, c.peer) /\ Vouched(x)
    /\ c.op = "outbound" /\ c.link # NoLink => PeerOf[c.link] = c.peer
    /\ c.op = "disconnectEnd" =>
         /\ c.promote => c.todo = Link
         /\ \A x \in c.todo, y \in Link : FamilyOf[x] = FamilyOf[y] => y \in c.todo
Placed(t, c) ==
    /\ c.op \in {"inbound", "welcome"} => t \in Rns
    /\ c.op \in {"disconnectEnd", "resetEnd"} => t = Ui
    /\ c.op \in {"evict", "reuse", "outbound"} => t = Conn
Frames == \A t \in Thread : \A c \in Calls(t) : FrameOK(c) /\ Placed(t, c)

Hooks ==
    /\ \A l \in hooked : status[l] \in {"active", "closed"}
    /\ \A l \in hooked \ links : status[l] = "closed"
    /\ active \in hooked \union {NoLink}
    /\ \A k \in Key : peerLinks[k] \in hooked \union {NoLink}
Known == \A l \in Link :
    cached[l] # NoPeer \/ l = active \/ (\E k \in Key : peerLinks[k] = l) => Vouched(l)
Filing == \A l \in Link : /\ cached[l] # NoPeer => Sure(l, cached[l])
                          /\ \A k \in Key : peerLinks[k] = l => Sure(l, k[1])
IKnown == IType /\ Cross /\ Frames /\ Hooks /\ Known /\ Filing

(* Nothing a call rests on is taken back.                                        *)
Grows ==
    /\ identified \subseteq identified' /\ hooked \subseteq hooked' /\ guessed \subseteq guessed'
    /\ \A l \in Link : /\ status[l] = "closed" => status'[l] = "closed"
                       /\ status[l] \in {"active", "closed"} => status'[l] \in {"active", "closed"}

(* What a step may do to the registry.                                           *)
RegistryStep ==
    /\ \A l \in hooked' \ hooked : status'[l] \in {"active", "closed"}
    /\ \A l \in hooked' \ links' : l \in hooked \ links \/ status'[l] = "closed"
    /\ \A a \in Link : a = active' => a = active \/ (a \in hooked /\ Vouched(a)')
    /\ \A k \in Key, a \in Link : peerLinks'[k] = a =>
         peerLinks[k] = a \/ (a \in hooked /\ Vouched(a)' /\ Sure(a, k[1])')
    /\ \A l \in Link : \A p : cached'[l] = p =>
         p \in {cached[l], NoPeer} \/ (Sure(l, p)' /\ Vouched(l)')

LEMMA SureGrows ==
  ASSUME Grows
  PROVE  /\ \A l \in Link : Vouched(l) => Vouched(l)'
         /\ \A l \in Link : \A p : Sure(l, p) => Sure(l, p)'
BY DEF Grows, Vouched, Sure

LEMMA RegistryKept ==
  ASSUME IType, IType', Hooks, Known, Filing, Grows, RegistryStep
  PROVE  Hooks' /\ Known' /\ Filing'
<1>1. TypeOK /\ TypeOK' /\ NoLink \notin Link  BY NoneAssumption DEF IType
<1>2. /\ \A l \in Link : Vouched(l) => Vouched(l)'
      /\ \A l \in Link : \A p : Sure(l, p) => Sure(l, p)'
  BY SureGrows
<1>3. hooked \subseteq Link /\ hooked' \subseteq Link /\ links \subseteq hooked  BY <1>1 DEF TypeOK
<1>4. Hooks'
  <2>1. \A l \in hooked' : status'[l] \in {"active", "closed"}
    BY <1>3 DEF Hooks, RegistryStep, Grows
  <2>2. \A l \in hooked' \ links' : status'[l] = "closed"
    BY <1>3 DEF Hooks, RegistryStep, Grows
  <2>3. active' \in hooked' \union {NoLink}
    <3>1. active' \in Link \union {NoLink}  BY <1>1 DEF TypeOK
    <3>. QED  BY <3>1, <1>1 DEF Hooks, RegistryStep, Grows
  <2>4. \A k \in Key : peerLinks'[k] \in hooked' \union {NoLink}
    <3>1. \A k \in Key : peerLinks'[k] \in Link \union {NoLink}  BY <1>1 DEF TypeOK
    <3>. QED  BY <3>1, <1>1 DEF Hooks, RegistryStep, Grows
  <2>. QED  BY <2>1, <2>2, <2>3, <2>4 DEF Hooks
<1>5. ASSUME NEW l \in Link,
             cached'[l] # NoPeer \/ l = active' \/ (\E k \in Key : peerLinks'[k] = l)
      PROVE  Vouched(l)'
  <2>1. CASE cached'[l] # NoPeer  BY <2>1, <1>2 DEF RegistryStep, Known
  <2>2. CASE l = active'  BY <2>2, <1>1, <1>2 DEF RegistryStep, Known
  <2>3. CASE \E k \in Key : peerLinks'[k] = l  BY <2>3, <1>1, <1>2 DEF RegistryStep, Known
  <2>. QED  BY <2>1, <2>2, <2>3, <1>5
<1>6. Known'  BY <1>5 DEF Known
<1>7. ASSUME NEW l \in Link, NEW p, p = cached'[l], p # NoPeer PROVE Sure(l, p)'
  BY <1>7, <1>2 DEF RegistryStep, Filing
<1>8. ASSUME NEW l \in Link, NEW k \in Key, peerLinks'[k] = l PROVE Sure(l, k[1])'
  BY <1>8, <1>1, <1>2 DEF RegistryStep, Filing
<1>9. Filing'
  <2>1. \A l \in Link : \A p : p = cached'[l] /\ p # NoPeer => Sure(l, p)'  BY <1>7
  <2>. QED  BY <2>1, <1>8 DEF Filing, Sure
<1>. QED  BY <1>4, <1>6, <1>9

LEMMA RegistrySame ==
  ASSUME UNCHANGED <<hooked, links, cached, peerLinks>>, active' \in {active, NoLink}
  PROVE  RegistryStep
BY NoneAssumption DEF RegistryStep

LEMMA FrameStable ==
  ASSUME Grows, NEW c \in Frame, TypedFrame(c), FrameOK(c)
  PROVE  FrameOK(c)'
<1>1. /\ \A l \in Link : Vouched(l) => Vouched(l)'
      /\ \A l \in Link : \A p : Sure(l, p) => Sure(l, p)'
  BY SureGrows
<1>2. c.todo \subseteq Link  BY DEF Frame
<1>3. c.op \in {"inbound", "welcome"} => status'[c.link] \in {"active", "closed"}
  BY DEF FrameOK, TypedFrame, Grows
<1>4. c.op \in {"closed", "closedMid", "closedEnd"} => status'[c.link] = "closed"
  BY DEF FrameOK, TypedFrame, Grows
<1>5. c.op \in {"welcome", "closedMid", "adopt"} => Sure(c.link, c.peer)'
  BY <1>1 DEF FrameOK, TypedFrame
<1>6. c.op \in {"notify", "adopt"} => c.link \in hooked'  BY DEF FrameOK, Grows
<1>7. c.op = "adopt" => c.peer \in Peer /\ Vouched(c.link)'  BY <1>1 DEF FrameOK, TypedFrame
<1>8. c.op = "closedMid" => \A x \in c.todo : x \in hooked' /\ Sure(x, c.peer)' /\ Vouched(x)'
  BY <1>1, <1>2 DEF FrameOK, Grows
<1>. QED  BY <1>3, <1>4, <1>5, <1>6, <1>7, <1>8 DEF FrameOK

LEMMA FramesMoved ==
  ASSUME IType, Frames, Grows, NEW t \in Thread, NEW new, Moved(t, new) \/ Begun(t, new),
         \A c \in new : FrameOK(c)' /\ Placed(t, c)
  PROVE  Frames'
<1>1. ASSUME NEW u \in Thread, NEW c \in Calls(u) PROVE FrameOK(c)' /\ Placed(u, c)
  <2>1. c \in Frame
    <3>1. stack[u] \in Seq(Frame)  BY DEF IType, TypeOK
    <3>2. DOMAIN stack[u] = 1 .. Len(stack[u])  BY <3>1, LenProperties
    <3>. QED  BY <3>1, <3>2, ElementOfSeq DEF Calls, Elems
  <2>2. TypedFrame(c) /\ FrameOK(c) /\ Placed(u, c)  BY DEF Frames, IType, Typed
  <2>. QED  BY <2>1, <2>2, FrameStable
<1>2. \A c \in Calls(t)' : c \in new \/ c \in Calls(t)  BY DEF Moved, Begun
<1>3. \A u \in Thread \ {t} : Calls(u)' = Calls(u)  BY DEF Moved, Begun
<1>4. ASSUME NEW u \in Thread, NEW c \in Calls(u)' PROVE FrameOK(c)' /\ Placed(u, c)
  <2>1. CASE u = t /\ c \in new  BY <2>1
  <2>2. CASE c \in Calls(u)  BY <2>2, <1>1
  <2>. QED  BY <2>1, <2>2, <1>2, <1>3
<1>. QED  BY <1>4 DEF Frames

LEMMA FramesSame ==
  ASSUME IType, Frames, Grows, UNCHANGED stack
  PROVE  Frames'
<1>1. ASSUME NEW u \in Thread, NEW c \in Calls(u) PROVE FrameOK(c)' /\ Placed(u, c)
  <2>1. c \in Frame
    <3>1. stack[u] \in Seq(Frame)  BY DEF IType, TypeOK
    <3>2. DOMAIN stack[u] = 1 .. Len(stack[u])  BY <3>1, LenProperties
    <3>. QED  BY <3>1, <3>2, ElementOfSeq DEF Calls, Elems
  <2>2. TypedFrame(c) /\ FrameOK(c) /\ Placed(u, c)  BY DEF Frames, IType, Typed
  <2>. QED  BY <2>1, <2>2, FrameStable
<1>2. \A u \in Thread : Calls(u)' = Calls(u)  BY DEF Calls
<1>. QED  BY <1>1, <1>2 DEF Frames

LEMMA KnownMoved ==
  ASSUME IKnown, IType', Grows, RegistryStep, NEW t \in Thread, NEW new,
         Moved(t, new) \/ Begun(t, new), \A c \in new : FrameOK(c)' /\ Placed(t, c)
  PROVE  IKnown'
<1>1. Frames'  BY FramesMoved DEF IKnown
<1>2. Hooks' /\ Known' /\ Filing'  BY RegistryKept DEF IKnown
<1>3. Cross'  BY DEF IKnown, Moved, Begun
<1>. QED  BY <1>1, <1>2, <1>3 DEF IKnown

LEMMA KnownSame ==
  ASSUME IKnown, IType', Grows, RegistryStep, UNCHANGED <<stack, crossed>>
  PROVE  IKnown'
<1>1. Frames'  BY FramesSame DEF IKnown
<1>2. Hooks' /\ Known' /\ Filing'  BY RegistryKept DEF IKnown
<1>3. Cross'  BY DEF IKnown, Cross
<1>. QED  BY <1>1, <1>2, <1>3 DEF IKnown

(* Calls that rest on nothing.                                                   *)
Free == {"teardown", "handoffEnd", "closeAll", "unlink", "finish"}

LEMMA FreeOK ==
  ASSUME NEW t, NEW c, c.op \in Free
  PROVE  FrameOK(c)' /\ Placed(t, c)
BY DEF Free, FrameOK, Placed

LEMMA LoopOK ==
  ASSUME NEW t \in Thread
  PROVE  /\ \A S, b : \A c \in Loop(S, b) : FrameOK(c)' /\ Placed(t, c)
         /\ \A l : \A c \in Dropped(l) : FrameOK(c)' /\ Placed(t, c)
         /\ \A l, p : FrameOK(Call("teardown", l, p))' /\ Placed(t, Call("teardown", l, p))
         /\ \A l, p : FrameOK(Call("finish", l, p))' /\ Placed(t, Call("finish", l, p))
         /\ FrameOK(Unflag)' /\ Placed(t, Unflag)
<1>1. \A S, b : \A c \in Loop(S, b) : c.op \in Free  BY DEF Loop, Made, Free
<1>2. \A l : \A c \in Dropped(l) : c.op \in Free  BY DEF Dropped, Call, Made, Free
<1>3. \A l, p : Call("teardown", l, p).op \in Free /\ Call("finish", l, p).op \in Free
  BY DEF Call, Made, Free
<1>4. Unflag.op \in Free  BY DEF Unflag, Call, Made, Free
<1>. QED  BY <1>1, <1>2, <1>3, <1>4, FreeOK

LEMMA HeardOK ==
  ASSUME NEW t \in Thread, NEW l \in Link, status'[l] = "closed"
  PROVE  \A c \in Heard(l) : FrameOK(c)' /\ Placed(t, c)
<1>1. \A c \in Heard(l) : c.op = "closed" /\ c.link = l  BY DEF Heard, Call, Made
<1>. QED  BY <1>1 DEF FrameOK, Placed

LEMMA QuietKnown ==
  ASSUME TypeOK, UNCHANGED <<identified, hooked, links, cached, peerLinks, guessed>>,
         active' \in {active, NoLink},
         status' = status \/ \E l \in Link : status' = [status EXCEPT ![l] = "closed"]
  PROVE  Grows /\ RegistryStep
<1>1. RegistryStep  BY RegistrySame
<1>2. Grows  BY DEF Grows, TypeOK
<1>. QED  BY <1>1, <1>2

LEMMA EnvironmentKnown ==
  ASSUME IKnown, \/ \E l \in Link, t \in Rns : LinkArrives(l, t) \/ LinkLost(l, t)
                 \/ \E l \in Link : Identify(l) \/ LinkAccepted(l)
  PROVE  IKnown'
<1>0. IType /\ TypeOK /\ IType'  BY EnvironmentTyped DEF IKnown, IType
<1>1. ASSUME NEW l \in Link, NEW t \in Rns, LinkArrives(l, t) PROVE IKnown'
  <2>1. status[l] = "none" /\ status' = [status EXCEPT ![l] = "active"]
        /\ UNCHANGED <<identified, hooked, registry, chosen, noted>>
    BY <1>1 DEF LinkArrives
  <2>2. Grows  BY <2>1, <1>0 DEF Grows, TypeOK, noted
  <2>3. RegistryStep  BY <2>1, RegistrySame DEF registry, chosen
  <2>. DEFINE c == Call("inbound", l, NoPeer)
  <2>4. Begun(t, {c})  BY <1>1, <1>0, ArrivesForm
  <2>5. c.op = "inbound" /\ c.link = l  BY DEF Call, Made
  <2>6. status'[l] = "active"  BY <2>1, <1>0 DEF TypeOK
  <2>. HIDE DEF c
  <2>7. FrameOK(c)' /\ Placed(t, c)  BY <2>5, <2>6 DEF FrameOK, Placed
  <2>. QED  BY <2>2, <2>3, <2>4, <2>7, <1>0, KnownMoved DEF Thread
<1>2. ASSUME NEW l \in Link, NEW t \in Rns, LinkLost(l, t) PROVE IKnown'
  <2>1. status' = [status EXCEPT ![l] = "closed"]
        /\ UNCHANGED <<identified, hooked, registry, chosen, noted>>
    BY <1>2 DEF LinkLost
  <2>2. Grows /\ RegistryStep  BY <2>1, <1>0, QuietKnown DEF registry, chosen, noted
  <2>. DEFINE c == Call("closed", l, NoPeer)
  <2>3. c.op = "closed" /\ c.link = l  BY DEF Call, Made
  <2>4. status'[l] = "closed"  BY <2>1, <1>0 DEF TypeOK
  <2>5. Begun(t, {c}) \/ UNCHANGED <<stack, crossed>>  BY <1>2, <1>0, LostForm
  <2>. HIDE DEF c
  <2>6. FrameOK(c)' /\ Placed(t, c)  BY <2>3, <2>4 DEF FrameOK, Placed
  <2>7. CASE Begun(t, {c})  BY <2>2, <2>6, <2>7, <1>0, KnownMoved DEF Thread
  <2>8. CASE UNCHANGED <<stack, crossed>>  BY <2>2, <2>8, <1>0, KnownSame
  <2>. QED  BY <2>5, <2>7, <2>8
<1>3. ASSUME NEW l \in Link, Identify(l) \/ LinkAccepted(l) PROVE IKnown'
  <2>1. /\ UNCHANGED <<hooked, registry, chosen, stack, noted, crossed>>
        /\ identified' = identified \union {l}
        /\ status' = status \/ (status[l] = "pending" /\ status' = [status EXCEPT ![l] = "active"])
    BY <1>3 DEF Identify, LinkAccepted
  <2>2. Grows  BY <2>1, <1>0 DEF Grows, TypeOK, noted
  <2>3. RegistryStep  BY <2>1, RegistrySame DEF registry, chosen
  <2>. QED  BY <2>1, <2>2, <2>3, <1>0, KnownSame
<1>. QED  BY <1>1, <1>2, <1>3

LEMMA CommandKnown ==
  ASSUME IKnown, Command
  PROVE  IKnown'
<1>0. IType /\ TypeOK /\ IType' /\ Ui \in Thread /\ Conn \in Thread
  BY CommandTyped DEF IKnown, IType, Thread
<1>1. ASSUME NEW p \in Peer, NEW f, f \in {"bare"} \union {FamilyOf[l] : l \in Link}, Disconnect(p, f)
      PROVE  IKnown'
  <2>1. UNCHANGED <<rns, registry, active, noted>>  BY <1>1 DEF Disconnect
  <2>2. Grows /\ RegistryStep  BY <2>1, <1>0, QuietKnown DEF rns, registry, noted
  <2>. DEFINE c == LeaveCall(p, f)
  <2>3. /\ c.op = "disconnectEnd" /\ c.promote = (f = "bare")
        /\ c.todo = {l \in Link : f \in {"bare", FamilyOf[l]}}
    BY DEF LeaveCall, Made
  <2>. HIDE DEF c
  <2>4. c.promote => c.todo = Link  BY <2>3
  <2>5. \A x \in c.todo, y \in Link : FamilyOf[x] = FamilyOf[y] => y \in c.todo
    BY <2>3
  <2>6. FrameOK(c)' /\ Placed(Ui, c)  BY <2>3, <2>4, <2>5 DEF FrameOK, Placed
  <2>7. Begun(Ui, Loop(Leaf(p, f), FALSE) \union {c})  BY <1>0, <1>1, DisconnectForm DEF c
  <2>8. \A d \in Loop(Leaf(p, f), FALSE) \union {c} : FrameOK(d)' /\ Placed(Ui, d)
    BY <2>6, <1>0, LoopOK
  <2>. QED  BY <2>2, <2>7, <2>8, <1>0, KnownMoved
<1>2. ASSUME NEW b \in BOOLEAN, Reset(b) PROVE IKnown'
  <2>1. UNCHANGED <<rns, registry, chosen, noted>>  BY <1>2 DEF Reset
  <2>2. Grows /\ RegistryStep  BY <2>1, <1>0, QuietKnown DEF rns, registry, chosen, noted
  <2>. DEFINE c == Made("resetEnd", NoLink, NoPeer, {}, b)
  <2>3. c.op = "resetEnd"  BY DEF Made
  <2>. HIDE DEF c
  <2>4. FrameOK(c)' /\ Placed(Ui, c)  BY <2>3 DEF FrameOK, Placed
  <2>5. Begun(Ui, Loop(links, FALSE) \union {c})  BY <1>0, <1>2, ResetForm DEF c
  <2>6. \A d \in Loop(links, FALSE) \union {c} : FrameOK(d)' /\ Placed(Ui, d)
    BY <2>4, <1>0, LoopOK
  <2>. QED  BY <2>2, <2>5, <2>6, <1>0, KnownMoved
<1>3. ASSUME NEW p \in Peer, NEW f, ConnectByUser(p, f) PROVE IKnown'
  <2>1. UNCHANGED <<rns, registry, active, noted>>  BY <1>3 DEF ConnectByUser
  <2>2. Grows /\ RegistryStep  BY <2>1, <1>0, QuietKnown DEF rns, registry, noted
  <2>. DEFINE c == Made("reuse", NoLink, p, {}, TRUE)   e(S) == Made("evict", NoLink, p, S, FALSE)
  <2>3. c.op = "reuse" /\ \A S : e(S).op = "evict"  BY DEF Made
  <2>4. PICK S \in SUBSET Link : Begun(Conn, {e(S), c})  BY <1>0, <1>3, ConnectByUserForm
  <2>. HIDE DEF c, e
  <2>5. FrameOK(c)' /\ Placed(Conn, c) /\ FrameOK(e(S))' /\ Placed(Conn, e(S))
    BY <2>3 DEF FrameOK, Placed
  <2>. QED  BY <2>2, <2>4, <2>5, <1>0, KnownMoved
<1>4. ASSUME NEW p \in Peer, ConnectForPeer(p) PROVE IKnown'
  <2>1. UNCHANGED <<rns, registry, chosen, noted>>  BY <1>4 DEF ConnectForPeer
  <2>2. Grows /\ RegistryStep  BY <2>1, <1>0, QuietKnown DEF rns, registry, chosen, noted
  <2>3. CASE Begun(Conn, {Call("reuse", NoLink, p)})
    <3>1. Call("reuse", NoLink, p).op = "reuse"  BY DEF Call, Made
    <3>2. FrameOK(Call("reuse", NoLink, p))' /\ Placed(Conn, Call("reuse", NoLink, p))
      BY <3>1 DEF FrameOK, Placed
    <3>. QED  BY <2>2, <2>3, <3>2, <1>0, KnownMoved
  <2>4. CASE \E l \in FoundActive(p) : l \in Link /\ Begun(Conn, {Made("notify", l, p, {}, FALSE)})
    <3>1. PICK l \in FoundActive(p) : l \in Link /\ Begun(Conn, {Made("notify", l, p, {}, FALSE)})
      BY <2>4
    <3>. DEFINE c == Made("notify", l, p, {}, FALSE)
    <3>2. c.op = "notify" /\ c.link = l  BY DEF Made
    <3>3. l \in hooked'  BY <1>0, <2>1 DEF FoundActive, TypeOK, rns
    <3>4. Begun(Conn, {c})  BY <3>1
    <3>. HIDE DEF c
    <3>5. FrameOK(c)' /\ Placed(Conn, c)  BY <3>2, <3>3 DEF FrameOK, Placed
    <3>. QED  BY <2>2, <3>4, <3>5, <1>0, KnownMoved
  <2>. QED  BY <2>3, <2>4, <1>0, <1>4, ConnectForPeerForm
<1>. QED  BY <1>1, <1>2, <1>3, <1>4 DEF Command

(* Every link a look-up finds for a peer is one whose callbacks are set, and it   *)
(* leads to the peer unless that was guessed.                                    *)
LEMMA FoundSure ==
  ASSUME IKnown, NEW p \in Peer \union {NoPeer}
  PROVE  /\ \A l \in LinkFor(p) : l # NoLink => l \in hooked /\ Vouched(l) /\ Sure(l, p)
         /\ p \in Peer => \A l \in FoundActive(p) : l \in hooked /\ Vouched(l) /\ Sure(l, p)
         /\ \A x : \A l \in OtherActive(p, x) : l \in hooked /\ Vouched(l) /\ Sure(l, p)
<1>0. /\ Hooks /\ Known /\ Filing /\ NoLink \notin Link /\ NoPeer \notin Peer
      /\ links \subseteq hooked /\ hooked \subseteq Link
  BY NoneAssumption DEF IKnown, IType, TypeOK
<1>1. ASSUME NEW l \in links, cached[l] = p, p # NoPeer
      PROVE  l \in hooked /\ Vouched(l) /\ Sure(l, p)
  BY <1>0, <1>1 DEF Known, Filing
<1>2. ASSUME NEW l \in Link, NEW f \in Family \union {"bare"}, peerLinks[<<p, f>>] = l, p \in Peer
      PROVE  l \in hooked /\ Vouched(l) /\ Sure(l, p)
  <2>1. <<p, f>> \in Key /\ <<p, f>>[1] = p  BY <1>2 DEF Key
  <2>2. PICK k \in Key : k[1] = p /\ peerLinks[k] = l  BY <2>1, <1>2
  <2>3. l \in hooked  BY <2>2, <1>0 DEF Hooks
  <2>4. Vouched(l)  BY <2>2, <1>0 DEF Known
  <2>5. Sure(l, p)  BY <2>2, <1>0 DEF Filing
  <2>. QED  BY <2>3, <2>4, <2>5
<1>3. ASSUME NEW l \in LinkFor(p), l # NoLink PROVE l \in hooked /\ Vouched(l) /\ Sure(l, p)
  <2>1. p # NoPeer  BY <1>3 DEF LinkFor
  <2>2. \/ l \in Link /\ peerLinks[<<p, "bare">>] = l
        \/ l \in Link /\ \E f \in Family : peerLinks[<<p, f>>] = l
        \/ l \in links /\ cached[l] = p
    BY <1>3 DEF LinkFor
  <2>3. CASE l \in links /\ cached[l] = p  BY <2>1, <2>3, <1>1
  <2>4. CASE l \in Link /\ \E f \in Family \union {"bare"} : peerLinks[<<p, f>>] = l
    BY <2>1, <2>4, <1>2
  <2>. QED  BY <2>2, <2>3, <2>4
<1>4. ASSUME p \in Peer, NEW l \in FoundActive(p) PROVE l \in hooked /\ Vouched(l) /\ Sure(l, p)
  <2>1. l \in links /\ (IF l \in identified THEN PeerOf[l] = p ELSE cached[l] = p)
    BY <1>4 DEF FoundActive, Remote
  <2>2. CASE l \in identified  BY <2>1, <2>2, <1>0 DEF Vouched, Sure
  <2>3. CASE l \notin identified  BY <2>1, <2>3, <1>0, <1>1, <1>4
  <2>. QED  BY <2>2, <2>3
<1>5. ASSUME NEW x, NEW l \in OtherActive(p, x) PROVE l \in hooked /\ Vouched(l) /\ Sure(l, p)
  BY <1>1, <1>5 DEF OtherActive
<1>. QED  BY <1>3, <1>4, <1>5

(* The frame of the call a step runs.                                            *)
LEMMA TopKnown ==
  ASSUME IKnown, NEW t \in Thread, NEW op, In(t, op)
  PROVE  FrameOK(Frm(t)) /\ Placed(t, Frm(t)) /\ Frm(t).op = op
BY AtTop DEF IKnown, Frames

LEMMA GuessSure ==
  ASSUME TypeOK, NEW l \in Link, NEW p, Guess(l, p), UNCHANGED identified,
         l \in identified => p = PeerOf[l]
  PROVE  Sure(l, p)' /\ Vouched(l)' /\ guessed \subseteq guessed'
BY DEF Guess, Sure, Vouched

LEMMA AscribedSure ==
  ASSUME TypeOK, NEW l \in Link
  PROVE  l \in identified => Ascribed(l) = PeerOf[l] /\ Remote(l) = PeerOf[l]
BY LinkAssumption, NoneAssumption DEF Ascribed, Remote

LEMMA CallbackKnown ==
  ASSUME IKnown, NEW t \in Thread,
         \/ InboundSamePeer(t) \/ InboundOther(t) \/ Welcome(t) \/ HandoffEnd(t) \/ Notify(t)
  PROVE  IKnown'
<1>0. IType /\ TypeOK /\ IType' /\ NoLink \notin Link
  BY CallbackTyped, NoneAssumption DEF IKnown, IType
<1>1. CASE InboundSamePeer(t)
  <2>0. PICK l, p, x : l = Frm(t).link /\ p = Ascribed(l) /\ x = active  OBVIOUS
  <2>. DEFINE n == Made("notify", l, p, {}, TRUE)   h == Made("handoffEnd", x, p, {}, TRUE)
  <2>1. /\ l \in Link /\ p \in Peer
        /\ \/ /\ Moved(t, {Call("teardown", l, NoPeer)})
              /\ UNCHANGED <<hooked, links, handoff, silent>>
           \/ /\ Setup(l) /\ handoff' = TRUE
              /\ Moved(t, {n, h})
    BY <2>0, <1>0, <1>1, InboundSamePeerForm
  <2>2. cached' = [cached EXCEPT ![l] = p] /\ Guess(l, p)
        /\ UNCHANGED <<status, identified, peerLinks, chosen, off, commands, dead, parted>>
    BY <2>0, <1>1 DEF InboundSamePeer
  <2>3. status[l] \in {"active", "closed"}  BY <2>0, <1>1, TopKnown DEF InboundSamePeer, FrameOK
  <2>4. Sure(l, p)' /\ Vouched(l)' /\ guessed \subseteq guessed'
    BY <2>0, <2>1, <2>2, <1>0, AscribedSure, GuessSure
  <2>5. hooked \subseteq hooked' /\ hooked' \subseteq hooked \union {l}
        /\ hooked' \ links' \subseteq hooked \ links
    BY <2>1 DEF Setup
  <2>6. Grows  BY <2>2, <2>4, <2>5 DEF Grows
  <2>7. RegistryStep
    BY <2>1, <2>2, <2>3, <2>4, <2>5, <1>0 DEF RegistryStep, TypeOK, chosen
  <2>8. CASE Moved(t, {Call("teardown", l, NoPeer)})
    <3>1. \A c \in {Call("teardown", l, NoPeer)} : FrameOK(c)' /\ Placed(t, c)  BY LoopOK
    <3>. QED  BY <2>6, <2>7, <2>8, <3>1, <1>0, KnownMoved
  <2>9. CASE Setup(l) /\ Moved(t, {n, h})
    <3>1. n.op = "notify" /\ n.link = l /\ h.op = "handoffEnd"  BY DEF Made
    <3>2. l \in hooked' /\ Moved(t, {n, h})  BY <2>9 DEF Setup
    <3>. HIDE DEF n, h
    <3>3. FrameOK(n)' /\ Placed(t, n)  BY <3>1, <3>2 DEF FrameOK, Placed
    <3>4. FrameOK(h)' /\ Placed(t, h)  BY <3>1, FreeOK DEF Free
    <3>. QED  BY <2>6, <2>7, <3>2, <3>3, <3>4, <1>0, KnownMoved
  <2>. QED  BY <2>1, <2>8, <2>9
<1>2. CASE InboundOther(t)
  <2>0. PICK l, p : l = Frm(t).link /\ p = Ascribed(l)  OBVIOUS
  <2>. DEFINE w == Call("welcome", l, p)
  <2>1. /\ l \in Link /\ p \in Peer \union {NoPeer}
        /\ \/ Moved(t, {Call("teardown", l, NoPeer)})
           \/ Moved(t, {w})
           \/ \E old \in Link : Moved(t, {Call("teardown", old, NoPeer), w})
    BY <2>0, <1>0, <1>2, InboundOtherForm
  <2>2. cached' = [cached EXCEPT ![l] = p] /\ Guess(l, p)
        /\ UNCHANGED <<rns, links, peerLinks, chosen, handoff, off, commands, silent, dead, parted>>
    BY <2>0, <1>2 DEF InboundOther
  <2>3. status[l] \in {"active", "closed"} /\ t \in Rns
    BY <2>0, <1>2, TopKnown DEF InboundOther, FrameOK, Placed
  <2>4. Sure(l, p)' /\ Vouched(l)' /\ guessed \subseteq guessed'
    BY <2>0, <2>1, <2>2, <1>0, AscribedSure, GuessSure DEF rns
  <2>5. w.op = "welcome" /\ w.link = l /\ w.peer = p  BY DEF Call, Made
  <2>. HIDE DEF w
  <2>6. Grows  BY <2>2, <2>4 DEF Grows, rns
  <2>7. RegistryStep  BY <2>1, <2>2, <2>4, <1>0 DEF RegistryStep, TypeOK, chosen, rns
  <2>8. FrameOK(w)' /\ Placed(t, w)  BY <2>2, <2>3, <2>4, <2>5 DEF FrameOK, Placed, rns
  <2>9. \A x \in Link : FrameOK(Call("teardown", x, NoPeer))' /\ Placed(t, Call("teardown", x, NoPeer))
    BY LoopOK
  <2>10. CASE Moved(t, {Call("teardown", l, NoPeer)})
    BY <2>1, <2>6, <2>7, <2>9, <2>10, <1>0, KnownMoved
  <2>11. CASE Moved(t, {w})  BY <2>6, <2>7, <2>8, <2>11, <1>0, KnownMoved
  <2>12. ASSUME NEW old \in Link, Moved(t, {Call("teardown", old, NoPeer), w}) PROVE IKnown'
    BY <2>6, <2>7, <2>8, <2>9, <2>12, <1>0, KnownMoved
  <2>. QED  BY <2>1, <2>10, <2>11, <2>12
<1>3. CASE Welcome(t)
  <2>0. PICK l, p, b : /\ l = Frm(t).link /\ b = Promotes(p)
                       /\ p = IF Frm(t).peer # NoPeer THEN Frm(t).peer ELSE Remote(l)
    OBVIOUS
  <2>. DEFINE n == Made("notify", l, p, {}, b)
  <2>1. l \in Link /\ Setup(l) /\ Moved(t, {n})  BY <2>0, <1>0, <1>3, WelcomeForm
  <2>2. UNCHANGED <<status, identified, cached, peerLinks, chosen, handoff, off, commands, guessed,
                    dead, parted>>
    BY <1>3 DEF Welcome
  <2>3. status[l] \in {"active", "closed"}  BY <2>0, <1>3, TopKnown DEF Welcome, FrameOK
  <2>4. n.op = "notify" /\ n.link = l  BY DEF Made
  <2>. HIDE DEF n
  <2>5. Grows  BY <2>1, <2>2 DEF Grows, Setup
  <2>6. RegistryStep  BY <2>1, <2>2, <2>3 DEF RegistryStep, Setup, chosen
  <2>7. FrameOK(n)' /\ Placed(t, n)  BY <2>1, <2>4 DEF FrameOK, Placed, Setup
  <2>. QED  BY <2>1, <2>5, <2>6, <2>7, <1>0, KnownMoved
<1>4. CASE HandoffEnd(t)
  <2>1. UNCHANGED <<rns, registry, chosen, off, commands, noted>>  BY <1>4 DEF HandoffEnd
  <2>2. Grows /\ RegistryStep  BY <2>1, <1>0, QuietKnown DEF rns, registry, chosen, noted
  <2>3. CASE Moved(t, {Call("teardown", Frm(t).link, NoPeer), Unflag})
    <3>1. \A c \in {Call("teardown", Frm(t).link, NoPeer), Unflag} : FrameOK(c)' /\ Placed(t, c)
      BY LoopOK
    <3>. QED  BY <2>2, <2>3, <3>1, <1>0, KnownMoved
  <2>4. CASE Moved(t, {})  BY <2>2, <2>4, <1>0, KnownMoved
  <2>. QED  BY <2>3, <2>4, <1>0, <1>4, HandoffEndForm
<1>5. CASE Notify(t)
  <2>0. PICK l, p, S : l = Frm(t).link /\ p = Notified(t) /\ S = Surplus(l, p)  OBVIOUS
  <2>. DEFINE a == Call("adopt", l, p)
  <2>1. /\ l \in Link /\ p \in Peer \union {NoPeer}
        /\ \/ p = NoPeer /\ Moved(t, {}) /\ UNCHANGED <<cached, peerLinks, guessed>>
           \/ /\ p \in Peer /\ Register(l, p) /\ Guess(l, p)
              /\ \/ ~Frm(t).promote /\ Moved(t, {})
                 \/ Frm(t).promote /\ Moved(t, Loop(S, TRUE) \union {a})
    <3>0. IType /\ l = Frm(t).link /\ p = Notified(t)  BY <2>0, <1>0
    <3>1. \A x, y : x = Frm(t).link /\ y = Notified(t) =>
            /\ x \in Link /\ y \in Peer \union {NoPeer}
            /\ \/ y = NoPeer /\ Moved(t, {}) /\ UNCHANGED <<cached, peerLinks, guessed>>
               \/ /\ y \in Peer /\ Register(x, y) /\ Guess(x, y)
                  /\ \/ ~Frm(t).promote /\ Moved(t, {})
                     \/ Frm(t).promote
                        /\ Moved(t, Loop(Surplus(x, y), TRUE) \union {Call("adopt", x, y)})
      BY <1>0, <1>5, NotifyForm
    <3>2. Surplus(l, p) = S  BY <2>0
    <3>. QED  BY <2>0, <3>0, <3>1, <3>2, Zenon
  <2>2. UNCHANGED <<rns, links, chosen, handoff, off, commands, silent, dead, parted>>
    BY <1>5 DEF Notify
  <2>3. l \in hooked  BY <2>0, <1>5, TopKnown DEF Notify, FrameOK
  <2>4. a.op = "adopt" /\ a.link = l /\ a.peer = p  BY DEF Call, Made
  <2>5. p # NoPeer => Target(l, p) = p
    <3>1. p = IF Remote(l) # NoPeer THEN Remote(l)
              ELSE IF Frm(t).peer # NoPeer THEN Frm(t).peer ELSE session
      BY <2>0 DEF Notified
    <3>. QED  BY <3>1 DEF Target
  <2>6. l \in identified => p = PeerOf[l]
    <3>1. p = IF Remote(l) # NoPeer THEN Remote(l)
              ELSE IF Frm(t).peer # NoPeer THEN Frm(t).peer ELSE session
      BY <2>0 DEF Notified
    <3>. QED  BY <3>1, <2>1, <1>0, AscribedSure, LinkAssumption, NoneAssumption
  <2>. HIDE DEF a
  <2>7. CASE p = NoPeer /\ Moved(t, {}) /\ UNCHANGED <<cached, peerLinks, guessed>>
    <3>1. Grows /\ RegistryStep  BY <2>2, <2>7, <1>0, QuietKnown DEF rns, chosen
    <3>. QED  BY <2>7, <3>1, <1>0, KnownMoved
  <2>8. CASE p \in Peer /\ Register(l, p) /\ Guess(l, p)
    <3>1. Sure(l, p)' /\ Vouched(l)' /\ guessed \subseteq guessed'
      BY <2>1, <2>2, <2>6, <2>8, <1>0, GuessSure DEF rns
    <3>2. Grows  BY <2>2, <3>1 DEF Grows, rns
    <3>3. Target(l, p) = p  BY <2>5, <2>8, NoneAssumption
    <3>4. \A k \in Key, x \in Link : peerLinks'[k] = x =>
            peerLinks[k] = x \/ (x = l /\ k[1] = p)
      BY <3>3, <2>8, <1>0 DEF Register, Key
    <3>5. cached' = [cached EXCEPT ![l] = p]  BY <3>3, <2>8 DEF Register
    <3>6. RegistryStep
      BY <2>1, <2>2, <2>3, <3>1, <3>4, <3>5, <1>0 DEF RegistryStep, TypeOK, chosen, rns
    <3>7. CASE Moved(t, {})  BY <3>2, <3>6, <3>7, <1>0, KnownMoved
    <3>8. CASE Moved(t, Loop(S, TRUE) \union {a})
      <4>1. FrameOK(a)' /\ Placed(t, a)
        BY <2>2, <2>3, <2>4, <2>8, <3>1 DEF FrameOK, Placed, rns
      <4>2. \A c \in Loop(S, TRUE) \union {a} : FrameOK(c)' /\ Placed(t, c)  BY <4>1, LoopOK
      <4>. QED  BY <3>2, <3>6, <3>8, <4>2, <1>0, KnownMoved
    <3>. QED  BY <2>1, <2>8, <3>7, <3>8, NoneAssumption
  <2>. QED  BY <2>1, <2>7, <2>8
<1>. QED  BY <1>1, <1>2, <1>3, <1>4, <1>5

(* The link the session falls back on is one a look-up finds.                    *)
LEMMA ReleaseKnown ==
  ASSUME IKnown, NEW l \in Link, Release(l)
  PROVE  \A a \in Link : a = active' => a = active \/ (a \in hooked /\ Vouched(a))
<1>0. TypeOK /\ NoLink \notin Link  BY NoneAssumption DEF IKnown, IType
<1>1. CASE active # l \/ handoff
  BY <1>1 DEF Release, chosen
<1>2. CASE ~(active # l \/ handoff)
  <2>1. PICK s, next : /\ s = IF activePeer \notin off \union {NoPeer} THEN activePeer ELSE session
                       /\ next \in IF s \in off THEN {NoLink} ELSE LinkFor(s)
                       /\ active' = IF next = l THEN NoLink ELSE next
    BY <1>2 DEF Release
  <2>2. s \in Peer \union {NoPeer}  BY <2>1, <1>0 DEF TypeOK
  <2>3. next # NoLink => next \in LinkFor(s)  BY <2>1
  <2>. QED  BY <2>1, <2>2, <2>3, <1>0, FoundSure
<1>. QED  BY <1>1, <1>2

LEMMA CloseKnown ==
  ASSUME IKnown, NEW t \in Thread,
         \/ CloseNext(t) \/ Adopt(t) \/ TearDownLink(t) \/ Closed(t) \/ ClosedFallBack(t)
         \/ ClosedEnd(t)
  PROVE  IKnown'
<1>0. IType /\ TypeOK /\ IType' /\ NoLink \notin Link /\ NoPeer \notin Peer
  BY CloseTyped, NoneAssumption DEF IKnown, IType
<1>1. CASE CloseNext(t)
  <2>0. UNCHANGED <<identified, hooked, registry, chosen, noted>>  BY <1>1 DEF CloseNext
  <2>1. PICK l \in Link : /\ status' = [status EXCEPT ![l] = "closed"]
                          /\ \/ Moved(t, Loop(Frm(t).todo \ {l}, Frm(t).promote))
                             \/ Moved(t, Heard(l) \union Loop(Frm(t).todo \ {l}, Frm(t).promote))
    BY <1>0, <1>1, CloseNextForm
  <2>2. Grows /\ RegistryStep  BY <2>0, <2>1, <1>0, QuietKnown DEF registry, chosen, noted
  <2>3. status'[l] = "closed"  BY <2>1, <1>0 DEF TypeOK
  <2>4. \A c \in Heard(l) \union Loop(Frm(t).todo \ {l}, Frm(t).promote) : FrameOK(c)' /\ Placed(t, c)
    BY <2>3, LoopOK, HeardOK
  <2>. QED  BY <2>1, <2>2, <2>4, <1>0, KnownMoved
<1>2. CASE Adopt(t)
  <2>0. PICK l, p : l = Frm(t).link /\ p = Frm(t).peer  OBVIOUS
  <2>1. In(t, "adopt")  BY <1>2 DEF Adopt
  <2>2. FrameOK(Frm(t)) /\ Frm(t).op = "adopt"  BY <2>1, TopKnown
  <2>3. /\ l \in Link /\ Moved(t, {}) /\ (Taken(l, p) \/ Added(l, p))
        /\ UNCHANGED <<rns, links, handoff, off, commands, guessed, silent, parted>>
    BY <2>0, <1>0, <1>2, AdoptForm
  <2>4. l \in hooked /\ Vouched(l) /\ Sure(l, p) /\ p \in Peer  BY <2>0, <2>2 DEF FrameOK
  <2>5. Grows  BY <2>3 DEF Grows, rns
  <2>6. Vouched(l)' /\ Sure(l, p)'  BY <2>3, <2>4 DEF Vouched, Sure, rns
  <2>7. CASE Taken(l, p)
    <3>1. RegistryStep
      BY <2>3, <2>4, <2>6, <2>7 DEF RegistryStep, Taken, rns
    <3>. QED  BY <2>3, <2>5, <3>1, <1>0, KnownMoved
  <2>8. CASE Added(l, p)
    <3>1. PICK q : q = Target(l, p)  OBVIOUS
    <3>2. Sure(l, q)
      <4>1. CASE l \in identified
        <5>1. Remote(l) = PeerOf[l]  BY <4>1 DEF Remote
        <5>2. q = PeerOf[l]  BY <3>1, <5>1, <2>3, <1>0, LinkAssumption DEF Target
        <5>. QED  BY <5>2 DEF Sure
      <4>2. CASE l \notin identified
        <5>1. Remote(l) = cached[l]  BY <4>2 DEF Remote
        <5>2. CASE cached[l] = NoPeer  BY <5>1, <5>2, <3>1, <2>4 DEF Target
        <5>3. CASE cached[l] # NoPeer
          BY <5>1, <5>3, <3>1, <2>3 DEF Target, IKnown, Filing
        <5>. QED  BY <5>2, <5>3
      <4>. QED  BY <4>1, <4>2
    <3>3. Sure(l, q)'  BY <3>2, <2>3 DEF Sure
    <3>4. /\ \A k \in Key, x \in Link : peerLinks'[k] = x => peerLinks[k] = x \/ (x = l /\ k[1] = q)
          /\ cached' = [cached EXCEPT ![l] = q] /\ UNCHANGED chosen
      BY <3>1, <2>8, <1>0 DEF Added, Register, Key
    <3>5. RegistryStep
      BY <2>3, <2>4, <2>6, <3>3, <3>4, <1>0 DEF RegistryStep, TypeOK, chosen, rns
    <3>. QED  BY <2>3, <2>5, <3>5, <1>0, KnownMoved
  <2>. QED  BY <2>3, <2>7, <2>8
<1>3. CASE TearDownLink(t)
  <2>0. UNCHANGED <<identified, hooked, registry, chosen, noted>>  BY <1>3 DEF TearDownLink
  <2>1. PICK l \in Link : Moved(t, Heard(l)) /\ status' = [status EXCEPT ![l] = "closed"]
    BY <1>0, <1>3, TearDownForm
  <2>2. Grows /\ RegistryStep  BY <2>0, <2>1, <1>0, QuietKnown DEF registry, chosen, noted
  <2>3. status'[l] = "closed"  BY <2>1, <1>0 DEF TypeOK
  <2>4. \A c \in Heard(l) : FrameOK(c)' /\ Placed(t, c)  BY <2>3, HeardOK
  <2>. QED  BY <2>1, <2>2, <2>4, <1>0, KnownMoved
<1>4. CASE Closed(t)
  <2>0. PICK l, p, S : l = Frm(t).link /\ p = Ascribed(l) /\ S = OtherActive(p, l)  OBVIOUS
  <2>. DEFINE c == Made("closedMid", l, p, S, FALSE)
  <2>1. l \in Link /\ p \in Peer \union {NoPeer} /\ Moved(t, {c})
    BY <2>0, <1>0, <1>4, ClosedForm
  <2>2. c.op = "closedMid" /\ c.link = l /\ c.peer = p /\ c.todo = S  BY DEF Made
  <2>. HIDE DEF c
  <2>3. /\ links' = links \ {l} /\ cached' = [cached EXCEPT ![l] = NoPeer] /\ Guess(l, p)
        /\ UNCHANGED <<rns, peerLinks, chosen, handoff, off, commands, silent, dead, parted>>
    BY <2>0, <1>4 DEF Closed
  <2>4. status[l] = "closed"  BY <2>0, <1>4, TopKnown DEF Closed, FrameOK
  <2>5. Sure(l, p)' /\ Vouched(l)' /\ guessed \subseteq guessed'
    BY <2>0, <2>1, <2>3, <1>0, AscribedSure, GuessSure DEF rns
  <2>6. Grows  BY <2>3, <2>5 DEF Grows, rns
  <2>7. RegistryStep  BY <2>1, <2>3, <2>4, <1>0 DEF RegistryStep, TypeOK, chosen, rns
  <2>8. \A x \in S : x \in Link /\ x \in hooked /\ Vouched(x) /\ Sure(x, p)
    BY <2>0, <2>1, <1>0, FoundSure DEF TypeOK
  <2>9. \A x \in S : x \in hooked' /\ Vouched(x)' /\ Sure(x, p)'
    BY <2>6, <2>8, SureGrows DEF Grows
  <2>10. FrameOK(c)' /\ Placed(t, c)
    BY <2>2, <2>3, <2>4, <2>5, <2>9 DEF FrameOK, Placed, rns
  <2>. QED  BY <2>1, <2>6, <2>7, <2>10, <1>0, KnownMoved
<1>5. CASE ClosedFallBack(t)
  <2>0. PICK l, p : l = Frm(t).link /\ p = Frm(t).peer  OBVIOUS
  <2>1. In(t, "closedMid")
        /\ UNCHANGED <<rns, links, cached, handoff, off, commands, guessed, silent, parted>>
    BY <1>5 DEF ClosedFallBack
  <2>2. FrameOK(Frm(t)) /\ Frm(t).op = "closedMid"  BY <2>1, TopKnown
  <2>3. Grows  BY <2>1 DEF Grows, rns
  <2>4. l \in Link /\ status[l] = "closed"  BY <2>0, <2>2, <1>0, <1>5, ClosedFallBackForm DEF FrameOK
  <2>5. \A x \in Link : Vouched(x) => Vouched(x)'  BY <2>3, SureGrows
  <2>6. CASE Frm(t).todo = {} /\ Moved(t, {}) /\ Release(l) /\ peerLinks' = Unlinked(p, TRUE, {})
    <3>1. \A a \in Link : a = active' => a = active \/ (a \in hooked /\ Vouched(a))
      BY <2>4, <2>6, ReleaseKnown
    <3>2. \A k \in Key, x \in Link : peerLinks'[k] = x => peerLinks[k] = x
      BY <2>6, <1>0 DEF Unlinked
    <3>3. RegistryStep  BY <2>1, <2>5, <3>1, <3>2 DEF RegistryStep, rns
    <3>. QED  BY <2>3, <2>6, <3>3, <1>0, KnownMoved
  <2>7. CASE \E next \in Frm(t).todo :
               /\ next \in Link /\ peerLinks' = [peerLinks EXCEPT ![<<p, "bare">>] = next]
               /\ \/ /\ active = l /\ ~handoff /\ UNCHANGED <<chosen, dead>>
                     /\ Moved(t, {Made("notify", next, p, {}, TRUE), Call("closedEnd", l, p)})
                  \/ ~(active = l /\ ~handoff) /\ Moved(t, {}) /\ Release(l)
    <3>1. PICK next \in Frm(t).todo :
               /\ next \in Link /\ peerLinks' = [peerLinks EXCEPT ![<<p, "bare">>] = next]
               /\ \/ /\ active = l /\ ~handoff /\ UNCHANGED <<chosen, dead>>
                     /\ Moved(t, {Made("notify", next, p, {}, TRUE), Call("closedEnd", l, p)})
                  \/ ~(active = l /\ ~handoff) /\ Moved(t, {}) /\ Release(l)
      BY <2>7
    <3>2. next \in hooked /\ Vouched(next) /\ Sure(next, p)  BY <2>0, <2>2, <3>1 DEF FrameOK
    <3>3. Vouched(next)' /\ Sure(next, p)'  BY <2>1, <3>2 DEF Vouched, Sure, rns
    <3>4. \A k \in Key, x \in Link : peerLinks'[k] = x => peerLinks[k] = x \/ (x = next /\ k[1] = p)
      BY <3>1, <1>0 DEF TypeOK, Key
    <3>5. ASSUME \A a \in Link : a = active' => a = active \/ (a \in hooked /\ Vouched(a)')
          PROVE  RegistryStep
      BY <2>1, <3>2, <3>3, <3>4, <3>5 DEF RegistryStep, rns
    <3>6. CASE UNCHANGED <<chosen, dead>>
               /\ Moved(t, {Made("notify", next, p, {}, TRUE), Call("closedEnd", l, p)})
      <4>. DEFINE n == Made("notify", next, p, {}, TRUE)   e == Call("closedEnd", l, p)
      <4>1. n.op = "notify" /\ n.link = next /\ e.op = "closedEnd" /\ e.link = l
        BY DEF Made, Call
      <4>2. Moved(t, {n, e})  BY <3>6
      <4>3. RegistryStep  BY <3>5, <3>6 DEF chosen
      <4>. HIDE DEF n, e
      <4>4. FrameOK(n)' /\ Placed(t, n) /\ FrameOK(e)' /\ Placed(t, e)
        BY <2>1, <2>4, <3>2, <4>1 DEF FrameOK, Placed, rns
      <4>. QED  BY <2>3, <4>2, <4>3, <4>4, <1>0, KnownMoved
    <3>7. CASE Moved(t, {}) /\ Release(l)
      <4>1. \A a \in Link : a = active' => a = active \/ (a \in hooked /\ Vouched(a))
        BY <2>4, <3>7, ReleaseKnown
      <4>2. RegistryStep  BY <2>5, <3>5, <4>1
      <4>. QED  BY <2>3, <3>7, <4>2, <1>0, KnownMoved
    <3>. QED  BY <3>1, <3>6, <3>7
  <2>8. CASE Frm(t).todo = {}
    <3>1. /\ Frm(t).todo = {} /\ Moved(t, {}) /\ Release(Frm(t).link)
          /\ peerLinks' = Unlinked(Frm(t).peer, TRUE, {})
      BY <2>8, <1>0, <1>5, ClosedFallBackForm
    <3>. QED  BY <2>0, <2>6, <3>1, Zenon
  <2>9. CASE Frm(t).todo # {}
    <3>1. \E next \in Frm(t).todo :
            /\ next \in Link /\ peerLinks' = [peerLinks EXCEPT ![<<Frm(t).peer, "bare">>] = next]
            /\ \/ /\ active = Frm(t).link /\ ~handoff /\ UNCHANGED <<chosen, dead>>
                  /\ Moved(t, {Made("notify", next, Frm(t).peer, {}, TRUE),
                               Call("closedEnd", Frm(t).link, Frm(t).peer)})
               \/ ~(active = Frm(t).link /\ ~handoff) /\ Moved(t, {}) /\ Release(Frm(t).link)
      BY <2>9, <1>0, <1>5, ClosedFallBackForm
    <3>. QED  BY <2>0, <2>7, <3>1, Zenon
  <2>. QED  BY <2>8, <2>9
<1>6. CASE ClosedEnd(t)
  <2>0. PICK l : l = Frm(t).link  OBVIOUS
  <2>1. l \in Link /\ Moved(t, {}) /\ Release(l)  BY <2>0, <1>0, <1>6, ClosedEndForm
  <2>2. UNCHANGED <<rns, registry, handoff, off, commands, guessed, silent, parted>>
    BY <1>6 DEF ClosedEnd
  <2>3. Grows  BY <2>2 DEF Grows, rns
  <2>4. \A a \in Link : a = active' => a = active \/ (a \in hooked /\ Vouched(a))
    BY <2>1, ReleaseKnown
  <2>5. \A x \in Link : Vouched(x) => Vouched(x)'  BY <2>3, SureGrows
  <2>6. RegistryStep  BY <2>2, <2>4, <2>5 DEF RegistryStep, rns, registry
  <2>. QED  BY <2>1, <2>3, <2>6, <1>0, KnownMoved
<1>. QED  BY <1>1, <1>2, <1>3, <1>4, <1>5, <1>6

LEMMA EndKnown ==
  ASSUME IKnown, NEW t \in Thread, DisconnectEnd(t) \/ ResetEnd(t) \/ Unlink(t)
  PROVE  IKnown'
<1>0. IType /\ TypeOK /\ IType' /\ NoLink \notin Link /\ NoPeer \notin Peer
  BY EndTyped, NoneAssumption DEF IKnown, IType
<1>1. Moved(t, {})  BY <1>0, EndForm
<1>2. UNCHANGED <<rns, links, guessed>>  BY DEF DisconnectEnd, ResetEnd, Unlink, noted
<1>3. active' \in {active, NoLink}  BY DEF DisconnectEnd, ResetEnd, Unlink, chosen
<1>4. \A k \in Key, x \in Link : peerLinks'[k] = x => peerLinks[k] = x
  BY <1>0 DEF DisconnectEnd, ResetEnd, Unlink, Unlinked
<1>5. \A l \in Link : cached'[l] \in {cached[l], NoPeer}  BY DEF DisconnectEnd, ResetEnd, Unlink
<1>6. Grows  BY <1>2 DEF Grows, rns
<1>7. RegistryStep  BY <1>0, <1>2, <1>3, <1>4, <1>5 DEF RegistryStep, rns
<1>. QED  BY <1>0, <1>1, <1>6, <1>7, KnownMoved

(* The calls of the dial.                                                        *)
LEMMA DialOK ==
  ASSUME NEW t \in Thread
  PROVE  /\ \A c : c.op \in {"evict", "reuse"} /\ t = Conn => FrameOK(c)' /\ Placed(t, c)
         /\ \A c : c.op = "outbound" /\ t = Conn /\ (c.link # NoLink => PeerOf[c.link] = c.peer)
                     => FrameOK(c)' /\ Placed(t, c)
         /\ \A c : c.op = "notify" /\ c.link \in hooked' => FrameOK(c)' /\ Placed(t, c)
BY DEF FrameOK, Placed

LEMMA DialKnown ==
  ASSUME IKnown, NEW t \in Thread,
         \/ Evict(t) \/ Reuse(t) \/ Open(t) \/ InboundInstead(t) \/ Established(t)
         \/ ConnectFails(t) \/ Finish(t)
  PROVE  IKnown'
<1>0. IType /\ TypeOK /\ IType' /\ NoLink \notin Link /\ NoPeer \notin Peer
  BY DialTyped, NoneAssumption DEF IKnown, IType
<1>1. CASE Evict(t)
  <2>1. UNCHANGED <<rns, registry, active, noted>>  BY <1>1 DEF Evict
  <2>2. Grows /\ RegistryStep  BY <2>1, <1>0, QuietKnown DEF rns, registry, noted
  <2>3. PICK c : c = Frm(t)  OBVIOUS
  <2>4. c.op = "evict" /\ t = Conn  BY <2>3, <1>1, TopKnown DEF Evict, Placed
  <2>5. CASE Moved(t, Loop(Others(Frm(t).peer), FALSE))
    <3>1. \A d \in Loop(Others(Frm(t).peer), FALSE) : FrameOK(d)' /\ Placed(t, d)  BY LoopOK
    <3>. QED  BY <2>2, <2>5, <3>1, <1>0, KnownMoved
  <2>6. ASSUME NEW k \in Key,
               Moved(t, {Call("teardown", peerLinks[k], NoPeer),
                         Made("unlink", NoLink, k[1], {l \in Link : FamilyOf[l] = k[2]}, k[2] = "bare"),
                         Frm(t)})
        PROVE  IKnown'
    <3>0. PICK x : x = peerLinks[k]  OBVIOUS
    <3>. DEFINE a == Call("teardown", x, NoPeer)
                b == Made("unlink", NoLink, k[1], {l \in Link : FamilyOf[l] = k[2]}, k[2] = "bare")
    <3>1. b.op \in Free  BY DEF Made, Free
    <3>2. Moved(t, {a, b, c})  BY <3>0, <2>6, <2>3, Zenon
    <3>3. FrameOK(a)' /\ Placed(t, a)  BY LoopOK
    <3>. HIDE DEF a, b
    <3>4. FrameOK(b)' /\ Placed(t, b)  BY <3>1, FreeOK
    <3>5. FrameOK(c)' /\ Placed(t, c)  BY <2>4, DialOK
    <3>7. \A d \in {a, b, c} : FrameOK(d)' /\ Placed(t, d)  BY <3>3, <3>4, <3>5
    <3>. QED  BY <2>2, <3>2, <3>7, <1>0, KnownMoved
  <2>. QED  BY <2>5, <2>6, <1>0, <1>1, EvictForm
<1>2. CASE Reuse(t)
  <2>0. PICK p, x, a, b : /\ p = Frm(t).peer /\ x = active
                          /\ a = Again(t, "outbound", NoLink) /\ b = Again(t, "reuse", NoLink)
    OBVIOUS
  <2>1. UNCHANGED <<rns, registry, noted>>  BY <1>2 DEF Reuse
  <2>2. p \in Peer /\ active' \in {active, NoLink}  BY <2>0, <1>0, <1>2, ReuseForm
  <2>3. Grows /\ RegistryStep  BY <2>1, <2>2, <1>0, QuietKnown DEF rns, registry, noted
  <2>4. t = Conn  BY <1>2, TopKnown DEF Reuse, Placed
  <2>5. a.op = "outbound" /\ a.link = NoLink /\ b.op = "reuse"  BY <2>0 DEF Again, Made
  <2>6. FrameOK(a)' /\ Placed(t, a) /\ FrameOK(b)' /\ Placed(t, b)  BY <2>4, <2>5, DialOK
  <2>7. \/ Moved(t, {Call("finish", x, p)})
        \/ Moved(t, {a})
        \/ Moved(t, {Call("teardown", x, NoPeer), Unflag, a})
        \/ \E l \in FoundActive(p) \union (LinkFor(p) \ {NoLink}) :
             \/ Moved(t, {Call("finish", l, p)})
             \/ Moved(t, {Made("notify", l, p, {}, TRUE), Call("finish", l, p)})
        \/ \E l \in links : Moved(t, {Call("teardown", l, NoPeer), Unflag, b})
    <3>1. \/ Moved(t, {Call("finish", active, Frm(t).peer)})
          \/ Moved(t, {Again(t, "outbound", NoLink)})
          \/ Moved(t, {Call("teardown", active, NoPeer), Unflag, Again(t, "outbound", NoLink)})
          \/ \E l \in FoundActive(Frm(t).peer) \union (LinkFor(Frm(t).peer) \ {NoLink}) :
               \/ Moved(t, {Call("finish", l, Frm(t).peer)})
               \/ Moved(t, {Made("notify", l, Frm(t).peer, {}, TRUE),
                            Call("finish", l, Frm(t).peer)})
          \/ \E l \in links :
               Moved(t, {Call("teardown", l, NoPeer), Unflag, Again(t, "reuse", NoLink)})
      BY <1>0, <1>2, ReuseForm
    <3>. QED  BY <2>0, <3>1, Zenon
  <2>8. ASSUME NEW l, Moved(t, {Call("finish", l, p)}) PROVE IKnown'
    <3>1. \A c \in {Call("finish", l, p)} : FrameOK(c)' /\ Placed(t, c)  BY LoopOK
    <3>. QED  BY <2>3, <2>8, <3>1, <1>0, KnownMoved
  <2>9. CASE Moved(t, {a})  BY <2>3, <2>6, <2>9, <1>0, KnownMoved
  <2>10. ASSUME NEW l, NEW c \in {a, b}, Moved(t, {Call("teardown", l, NoPeer), Unflag, c})
         PROVE  IKnown'
    <3>1. \A d \in {Call("teardown", l, NoPeer), Unflag, c} : FrameOK(d)' /\ Placed(t, d)
      BY <2>6, LoopOK
    <3>. QED  BY <2>3, <2>10, <3>1, <1>0, KnownMoved
  <2>11. ASSUME NEW l \in FoundActive(p) \union (LinkFor(p) \ {NoLink}),
                Moved(t, {Made("notify", l, p, {}, TRUE), Call("finish", l, p)})
         PROVE  IKnown'
    <3>. DEFINE n == Made("notify", l, p, {}, TRUE)   f == Call("finish", l, p)
    <3>1. l \in hooked'  BY <2>1, <2>2, FoundSure DEF rns
    <3>2. n.op = "notify" /\ n.link = l  BY DEF Made
    <3>3. FrameOK(f)' /\ Placed(t, f)  BY LoopOK
    <3>4. Moved(t, {n, f})  BY <2>11
    <3>. HIDE DEF n, f
    <3>5. FrameOK(n)' /\ Placed(t, n)  BY <3>1, <3>2, DialOK
    <3>. QED  BY <2>3, <3>3, <3>4, <3>5, <1>0, KnownMoved
  <2>. QED  BY <2>7, <2>8, <2>9, <2>10, <2>11
<1>3. CASE Open(t)
  <2>0. PICK p, b : p = Frm(t).peer /\ b = Frm(t).promote  OBVIOUS
  <2>1. PICK l \in Link \ Inbound : /\ PeerOf[l] = p /\ status[l] = "none"
                                    /\ status' = [status EXCEPT ![l] = "pending"]
                                    /\ Moved(t, {Again(t, "outbound", l)})
    BY <2>0, <1>0, <1>3, OpenForm
  <2>2. UNCHANGED <<identified, hooked, registry, chosen, noted>>  BY <1>3 DEF Open
  <2>3. Grows  BY <2>1, <2>2, <1>0 DEF Grows, TypeOK, noted
  <2>4. RegistryStep  BY <2>2, RegistrySame DEF registry, chosen
  <2>5. t = Conn  BY <1>3, TopKnown DEF Open, Placed
  <2>. DEFINE c == Made("outbound", l, p, {}, b)
  <2>6. Moved(t, {c})  BY <2>0, <2>1 DEF Again
  <2>7. c.op = "outbound" /\ c.link = l /\ c.peer = p  BY DEF Made
  <2>. HIDE DEF c
  <2>8. FrameOK(c)' /\ Placed(t, c)  BY <2>1, <2>5, <2>7, DialOK
  <2>. QED  BY <2>3, <2>4, <2>6, <2>8, <1>0, KnownMoved
<1>4. CASE InboundInstead(t)
  <2>0. PICK p, S : p = Frm(t).peer /\ S = Dropped(Frm(t).link)  OBVIOUS
  <2>1. UNCHANGED <<rns, registry, chosen, noted>>  BY <1>4 DEF InboundInstead
  <2>2. Grows /\ RegistryStep  BY <2>1, <1>0, QuietKnown DEF rns, registry, chosen, noted
  <2>3. PICK l \in Link :
          /\ l \in LinkFor(p) \union FoundActive(p) /\ p \in Peer
          /\ Moved(t, ({Made("notify", l, p, {}, TRUE)} \union S) \union {Call("finish", l, p)})
    BY <2>0, <1>0, <1>4, InboundInsteadForm
  <2>. DEFINE n == Made("notify", l, p, {}, TRUE)   f == Call("finish", l, p)
  <2>4. l \in hooked'  BY <2>1, <2>3, <1>0, FoundSure DEF rns
  <2>5. n.op = "notify" /\ n.link = l  BY DEF Made
  <2>6. FrameOK(f)' /\ Placed(t, f)  BY LoopOK
  <2>7. Moved(t, ({n} \union S) \union {f})  BY <2>3
  <2>. HIDE DEF n, f
  <2>8. FrameOK(n)' /\ Placed(t, n)  BY <2>4, <2>5, DialOK
  <2>9. \A c \in S : FrameOK(c)' /\ Placed(t, c)  BY <2>0, LoopOK
  <2>. QED  BY <2>2, <2>6, <2>7, <2>8, <2>9, <1>0, KnownMoved
<1>5. CASE Established(t)
  <2>0. PICK l, p, b : l = Frm(t).link /\ p = Frm(t).peer /\ b = Wanted(t)  OBVIOUS
  <2>. DEFINE n == Made("notify", l, p, {}, b)   f == Call("finish", l, p)
  <2>1. l \in Link /\ status[l] = "active" /\ Setup(l) /\ Moved(t, {n, f})
    BY <2>0, <1>0, <1>5, EstablishedForm
  <2>2. UNCHANGED <<status, identified, cached, peerLinks, chosen, handoff, off, commands, guessed,
                    dead, parted>>
    BY <1>5 DEF Established
  <2>3. Grows  BY <2>1, <2>2 DEF Grows, Setup
  <2>4. RegistryStep  BY <2>1, <2>2 DEF RegistryStep, Setup, chosen
  <2>5. n.op = "notify" /\ n.link = l  BY DEF Made
  <2>6. FrameOK(f)' /\ Placed(t, f)  BY LoopOK
  <2>. HIDE DEF n, f
  <2>7. FrameOK(n)' /\ Placed(t, n)  BY <2>1, <2>5, DialOK DEF Setup
  <2>. QED  BY <2>1, <2>3, <2>4, <2>6, <2>7, <1>0, KnownMoved
<1>6. CASE ConnectFails(t)
  <2>1. UNCHANGED <<rns, registry, chosen, noted>>  BY <1>6 DEF ConnectFails
  <2>2. Grows /\ RegistryStep  BY <2>1, <1>0, QuietKnown DEF rns, registry, chosen, noted
  <2>3. PICK S : S = Dropped(Frm(t).link)  OBVIOUS
  <2>4. Moved(t, S)  BY <2>3, <1>0, <1>6, ConnectFailsForm
  <2>5. \A c \in S : FrameOK(c)' /\ Placed(t, c)  BY <2>3, LoopOK
  <2>. QED  BY <2>2, <2>4, <2>5, <1>0, KnownMoved
<1>7. CASE Finish(t)
  <2>1. UNCHANGED <<rns, registry, chosen, noted>>  BY <1>7 DEF Finish
  <2>2. Grows /\ RegistryStep  BY <2>1, <1>0, QuietKnown DEF rns, registry, chosen, noted
  <2>3. PICK S \in SUBSET Link : Moved(t, Loop(S, TRUE))  BY <1>0, <1>7, FinishForm
  <2>4. \A c \in Loop(S, TRUE) : FrameOK(c)' /\ Placed(t, c)  BY LoopOK
  <2>. QED  BY <2>2, <2>3, <2>4, <1>0, KnownMoved
<1>. QED  BY <1>1, <1>2, <1>3, <1>4, <1>5, <1>6, <1>7

LEMMA StutterKnown ==
  ASSUME IKnown, UNCHANGED vars
  PROVE  IKnown'
<1>1. IType /\ IType'  BY StutterTyped DEF IKnown
<1>2. Grows  BY DEF Grows, vars, rns, noted
<1>3. RegistryStep  BY RegistrySame DEF vars, rns, registry, chosen
<1>4. UNCHANGED <<stack, crossed>>  BY DEF vars
<1>. QED  BY <1>1, <1>2, <1>3, <1>4, KnownSame

LEMMA StepKnown ==
  ASSUME IKnown, [Next]_vars
  PROVE  IKnown'
<1>1. ASSUME NEW t \in Thread, Step(t) PROVE IKnown'
  BY <1>1, CallbackKnown, CloseKnown, EndKnown, DialKnown DEF Step
<1>. QED  BY <1>1, StutterKnown, EnvironmentKnown, CommandKnown DEF Next

LEMMA InitKnown ==
  ASSUME Init
  PROVE  IKnown
<1>1. IType  BY InitTyped
<1>2. \A t \in Thread : stack[t] = <<>>  BY DEF Init
<1>3. \A t \in Thread : Calls(t) = {}  BY <1>2, ElemsTuple DEF Calls
<1>4. Frames  BY <1>3 DEF Frames
<1>5. Cross  BY <1>2 DEF Cross, Topics
<1>6. Hooks /\ Known /\ Filing
  BY NoneAssumption DEF Init, Hooks, Known, Filing
<1>. QED  BY <1>1, <1>4, <1>5, <1>6 DEF IKnown

-----------------------------------------------------------------------------
(* What a step does, whichever action it is: a thread t gives up its call f for   *)
(* the calls `new`.  A thread that was idle gives up Idle.                        *)

Idle == Call("none", NoLink, NoPeer)
Goes(t, f, new) ==
    /\ crossed \subseteq crossed'
    /\ \A u \in Thread \ {t} : Calls(u)' = Calls(u)
    /\ \A c \in Calls(t) : c = f \/ c \in Calls(t)'
    /\ \A c \in Calls(t)' : c \in new \/ c \in Calls(t)
    /\ new \subseteq Calls(t)' /\ new \subseteq Frame
    /\ f # Idle => /\ f \in Calls(t)
                   /\ f.op \in Bottoms => Calls(t) = {f}
                   /\ \A c \in Calls(t)' : c.op \in Tops => c \in new
                   /\ \A c \in Calls(t) : c.op \in Tops => c = f

(* It reads the registry.                                                        *)
Waits(t, f, new) ==
    /\ f.op \in {"none", "handoffEnd", "evict", "reuse", "outbound", "finish", "notify"}
    /\ UNCHANGED <<rns, registry, activePeer, off, noted>> /\ active' \in {active, NoLink}
    /\ f.op = "notify" => cached[f.link] = NoPeer
    /\ \A c \in new :
         \/ c.op \in {"teardown", "handoffEnd", "closeAll", "unlink", "finish", "resetEnd"}
         \/ c.op = "evict" /\ c = f
         \/ /\ c.op \in {"reuse", "outbound"} /\ t = Conn
            /\ c.peer \notin off \/ (f.op \in {"reuse", "outbound"} /\ c.peer = f.peer)
         \/ /\ c.op = "notify" /\ t = Conn
            /\ c.promote => f.op \in {"reuse", "outbound"} /\ Sure(c.link, f.peer)

(* The user connects to p.                                                       *)
Dials(t, f, new, p) ==
    /\ t = Conn /\ f = Idle /\ off' = off \ {p}
    /\ UNCHANGED <<rns, registry, active, activePeer, noted>>
    /\ \A c \in new : c.op \in {"evict", "reuse"} /\ c.peer = p

(* With room for it, p may become the session's, and the others are to close.     *)
Selects(t, f, new, p) ==
    /\ t = Conn /\ f.op = "evict" /\ f.peer = p /\ activePeer' \in {activePeer, p}
    /\ UNCHANGED <<rns, registry, active, off, noted>>
    /\ Loop(Others(p), FALSE) \subseteq new
    /\ \A c \in new : c.op = "closeAll"

(* The user disconnects from p.                                                  *)
Departs(t, f, new, p) ==
    /\ t = Ui /\ f = Idle
    /\ UNCHANGED <<rns, registry, active, activePeer, noted>>
    /\ \E c \in new :
         /\ c.op = "disconnectEnd" /\ c.peer = p
         /\ off' = off \/ (off' = off \union {p} /\ c.promote)
         /\ \A d \in new : d = c \/ d.op = "closeAll"
         /\ \A l \in links : l \in c.todo /\ Remote(l) = p
              => \E d \in new : d.op = "closeAll" /\ l \in d.todo

(* The link l closes.                                                            *)
Closes(t, f, new, l) ==
    /\ f.op \in {"none", "teardown", "closeAll"} /\ l \in Link
    /\ status' = [status EXCEPT ![l] = "closed"]
    /\ UNCHANGED <<identified, hooked, registry, active, activePeer, off, noted>>
    /\ f.op = "teardown" => f.link = l
    /\ f.op = "closeAll" => \A x \in f.todo \ {l} : \E d \in new : d.op = "closeAll" /\ x \in d.todo
    /\ status[l] # "closed" /\ l \in hooked => \E c \in new : c.op = "closed" /\ c.link = l
    /\ \A c \in new : c.op \in {"closed", "closeAll"}

(* A link comes up, or identifies itself.                                        *)
Opens(t, f, new) ==
    /\ f.op \in {"none", "outbound"}
    /\ UNCHANGED <<hooked, registry, active, activePeer, off, noted>>
    /\ \A x \in Link : status'[x] = status[x] \/ (x \notin hooked /\ status'[x] # "closed")
    /\ \A c \in new : \/ c.op = "inbound"
                      \/ c.op = "outbound" /\ f.op = "outbound" /\ c.peer = f.peer /\ t = Conn

(* The callbacks of l are set, or it is turned away.                             *)
SetsUp(t, f, new, l) ==
    /\ f.op \in {"inbound", "welcome", "outbound"} /\ f.link = l /\ l \in Link /\ t # Ui
    /\ UNCHANGED <<status, identified, peerLinks, active, activePeer, off, dead, parted>>
    /\ guessed \subseteq guessed' /\ silent \subseteq silent'
    /\ links \subseteq links' /\ links' \subseteq links \union {l}
    /\ l \in links' \ links /\ status[l] = "closed" => l \in silent'
    /\ \A x \in Link \ {l} : cached'[x] = cached[x]
    /\ cached'[l] \in {cached[l], PeerOf[l]} \/ PeerOf[l] \in guessed'
    /\ \E c \in new : c.op \in {"teardown", "welcome", "notify"} /\ c.link = l
    /\ \A c \in new :
         \/ c.op \in {"teardown", "welcome", "handoffEnd", "finish"}
         \/ /\ c.op = "notify" /\ c.link = l
            /\ c.promote => \/ PeerOf[l] \in guessed'
                            \/ PeerOf[l] = activePeer /\ active # NoLink
                            \/ PeerOf[l] \notin off
                            \/ t = Conn /\ f.op = "outbound" /\ f.peer = PeerOf[l]

(* The link l is registered.                                                     *)
Registers(t, f, new, l, q) ==
    /\ f.op \in {"notify", "adopt"} /\ f.link = l /\ l \in hooked
    /\ UNCHANGED <<rns, links, active, activePeer, off, silent, dead, parted>>
    /\ guessed \subseteq guessed'
    /\ cached' = [cached EXCEPT ![l] = q]
    /\ q = PeerOf[l] \/ PeerOf[l] \in guessed'
    /\ \A k \in Key : \/ peerLinks'[k] \in {peerLinks[k], l}
                      \/ k[2] = "bare" /\ peerLinks'[k] = NoLink
    /\ q = PeerOf[l] => peerLinks'[<<PeerOf[l], FamilyOf[l]>>] = l
    /\ \A c \in new : \/ c.op = "closeAll"
                      \/ c.op = "adopt" /\ c.link = l /\ f.op = "notify" /\ f.promote

(* It becomes the session's.                                                     *)
Takes(t, f, new, l, p) ==
    /\ f.op = "adopt" /\ f.link = l /\ l \in hooked /\ new = {}
    /\ active' = l /\ activePeer' = p /\ Sure(l, p)
    /\ dead \subseteq dead' /\ (status[l] = "closed" => l \in dead')
    /\ UNCHANGED <<rns, registry, off, guessed, silent, parted>>

(* It has closed and is forgotten.                                               *)
Forgets(t, f, new, l, p) ==
    /\ f.op = "closed" /\ f.link = l /\ l \in Link /\ status[l] = "closed"
    /\ links' = links \ {l} /\ cached' = [cached EXCEPT ![l] = NoPeer]
    /\ guessed \subseteq guessed'
    /\ UNCHANGED <<rns, peerLinks, active, activePeer, off, silent, dead, parted>>
    /\ \E c \in new : /\ new = {c} /\ c.op = "closedMid" /\ c.link = l /\ c.peer = p
                      /\ c.todo = OtherActive(p, l)

(* Another link of its peer takes over, ...                                      *)
FallsBack(t, f, new, l, next) ==
    /\ f.op = "closedMid" /\ f.link = l /\ l \in Link /\ active = l
    /\ next \in f.todo /\ next \in hooked
    /\ peerLinks' = [peerLinks EXCEPT ![<<f.peer, "bare">>] = next]
    /\ UNCHANGED <<rns, links, cached, active, activePeer, off, noted>>
    /\ \E c \in new : c.op = "closedEnd" /\ c.link = l
    /\ \A c \in new : (c.op = "closedEnd" /\ c.link = l) \/ (c.op = "notify" /\ c.link = next)

(* ... or the session is released.                                               *)
Releases(t, f, new, l) ==
    /\ f.op \in {"closedMid", "closedEnd"} /\ f.link = l /\ l \in Link /\ new = {}
    /\ UNCHANGED <<rns, links, cached, off, guessed, silent, parted>> /\ dead \subseteq dead'
    /\ \/ peerLinks' = peerLinks
       \/ f.op = "closedMid" /\ f.todo = {} /\ peerLinks' = Unlinked(f.peer, TRUE, {})
       \/ \E next \in f.todo : /\ f.op = "closedMid" /\ next \in hooked
                               /\ peerLinks' = [peerLinks EXCEPT ![<<f.peer, "bare">>] = next]
    /\ \/ active' = active /\ activePeer' = activePeer /\ (active = l => l \in dead')
       \/ active' = NoLink
       \/ \E n \in hooked :
            /\ active' = n /\ activePeer' \notin off
            /\ status[n] = "closed" => n \in dead'
            /\ activePeer' = PeerOf[n] \/ PeerOf[n] \in guessed
            /\ cached[n] = PeerOf[n] \/ PeerOf[n] \in guessed \/ \E k \in Key : peerLinks[k] = n

(* The user's disconnect, a reset and an eviction end.                           *)
Ends(t, f, new) ==
    /\ f.op = "disconnectEnd" /\ t = Ui /\ new = {}
    /\ LET release == active \in f.todo /\ activePeer = f.peer
           leave == f.promote \/ OtherActive(f.peer, NoLink) = {}
       IN /\ peerLinks' = Unlinked(f.peer, f.promote, f.todo)
          /\ active' = IF release THEN NoLink ELSE active
          /\ activePeer' = IF release THEN NoPeer ELSE activePeer
          /\ off' = IF leave THEN off \union {f.peer} ELSE off
          /\ kept' = IF leave /\ ~release /\ activePeer = f.peer /\ active # NoLink
                     THEN kept \union {f.peer} ELSE kept
    /\ UNCHANGED <<rns, links, cached, guessed, silent, dead, evicted>>
Resets(t, f, new) ==
    /\ f.op = "resetEnd" /\ t = Ui /\ new = {}
    /\ peerLinks' = [k \in Key |-> NoLink] /\ cached' = [l \in Link |-> NoPeer]
    /\ active' = NoLink
    /\ UNCHANGED <<rns, links, off, noted>>
Unlists(t, f, new) ==
    /\ f.op = "unlink" /\ new = {}
    /\ peerLinks' = Unlinked(f.peer, f.promote, f.todo) /\ evicted' = evicted \union {f.peer}
    /\ UNCHANGED <<rns, links, cached, active, activePeer, off, guessed, silent, dead, kept>>

Does(t, f, new) ==
    \/ Waits(t, f, new) \/ Opens(t, f, new)
    \/ \E p \in Peer : Dials(t, f, new, p) \/ Selects(t, f, new, p) \/ Departs(t, f, new, p)
    \/ \E l \in Link : \/ Closes(t, f, new, l) \/ SetsUp(t, f, new, l)
                       \/ \E p \in Peer \union {NoPeer} : \/ Registers(t, f, new, l, p)
                                                          \/ Takes(t, f, new, l, p)
                                                          \/ Forgets(t, f, new, l, p)
                       \/ \E next \in Link : FallsBack(t, f, new, l, next)
                       \/ Releases(t, f, new, l)
    \/ Ends(t, f, new) \/ Resets(t, f, new) \/ Unlists(t, f, new)
Done == \E t \in Thread : \E f, new : Goes(t, f, new) /\ Does(t, f, new)

LEMMA GoesMoved ==
  ASSUME NEW t \in Thread, NEW new, NEW f, Moved(t, new), f = Frm(t)
  PROVE  Goes(t, f, new)
BY DEF Moved, Goes, Bottoms

LEMMA GoesBegun ==
  ASSUME NEW t \in Thread, NEW new, Begun(t, new)
  PROVE  Goes(t, Idle, new)
BY DEF Begun, Goes

LEMMA GoesStill ==
  ASSUME NEW t \in Thread, UNCHANGED <<stack, crossed>>
  PROVE  Goes(t, Idle, {})
<1>1. \A u \in Thread : Calls(u)' = Calls(u)  BY DEF Calls
<1>. QED  BY <1>1 DEF Goes

(* The calls of loops, of closed links and of the dial, by what they are for.     *)
LEMMA CallOps ==
  /\ \A S, b : \A c \in Loop(S, b) : c.op = "closeAll" /\ c.todo = S
  /\ \A S, b : \A x \in S : \E d \in Loop(S, b) : d.op = "closeAll" /\ x \in d.todo
  /\ \A l : \A c \in Heard(l) : c.op = "closed" /\ c.link = l
  /\ \A l : l \in hooked => \E c \in Heard(l) : c.op = "closed" /\ c.link = l
  /\ \A l : \A c \in Dropped(l) : c.op = "teardown"
  /\ \A op, l, p : Call(op, l, p).op = op /\ Call(op, l, p).link = l /\ Call(op, l, p).peer = p
  /\ \A op, l, p, S, b : /\ Made(op, l, p, S, b).op = op /\ Made(op, l, p, S, b).link = l
                         /\ Made(op, l, p, S, b).peer = p /\ Made(op, l, p, S, b).todo = S
                         /\ Made(op, l, p, S, b).promote = b
  /\ Unflag.op = "handoffEnd" /\ Idle.op = "none"
<1>1. \A op, l, p, S, b : /\ Made(op, l, p, S, b).op = op /\ Made(op, l, p, S, b).link = l
                          /\ Made(op, l, p, S, b).peer = p /\ Made(op, l, p, S, b).todo = S
                          /\ Made(op, l, p, S, b).promote = b
  BY DEF Made
<1>2. \A op, l, p : Call(op, l, p).op = op /\ Call(op, l, p).link = l /\ Call(op, l, p).peer = p
  BY DEF Call, Made
<1>3. Unflag.op = "handoffEnd" /\ Idle.op = "none"  BY <1>2 DEF Unflag, Idle
<1>4. \A S, b : \A c \in Loop(S, b) : c.op = "closeAll" /\ c.todo = S  BY <1>1 DEF Loop
<1>5. \A S, b : \A x \in S : Made("closeAll", NoLink, NoPeer, S, b) \in Loop(S, b)  BY DEF Loop
<1>6. \A S, b : \A x \in S : \E d \in Loop(S, b) : d.op = "closeAll" /\ x \in d.todo
  BY <1>1, <1>5
<1>7. \A l : \A c \in Heard(l) : c.op = "closed" /\ c.link = l  BY <1>2 DEF Heard
<1>8. \A l : l \in hooked => \E c \in Heard(l) : c.op = "closed" /\ c.link = l
  BY <1>2 DEF Heard
<1>9. \A l : \A c \in Dropped(l) : c.op = "teardown"  BY <1>2 DEF Dropped
<1>. QED  BY <1>1, <1>2, <1>3, <1>4, <1>6, <1>7, <1>8, <1>9

LEMMA EnvironmentDone ==
  ASSUME IKnown, \/ \E l \in Link, t \in Rns : LinkArrives(l, t) \/ LinkLost(l, t)
                 \/ \E l \in Link : Identify(l) \/ LinkAccepted(l)
  PROVE  Done
<1>0. IType /\ TypeOK /\ Hooks /\ Rns \subseteq Thread /\ Ui \in Thread
  BY DEF IKnown, IType, Thread
<1>1. ASSUME NEW l \in Link, NEW t \in Rns, LinkArrives(l, t) PROVE Done
  <2>. DEFINE c == Call("inbound", l, NoPeer)
  <2>1. status[l] = "none" /\ status' = [status EXCEPT ![l] = "active"]
        /\ UNCHANGED <<identified, hooked, registry, chosen, handoff, off, commands, noted>>
    BY <1>1 DEF LinkArrives
  <2>2. Begun(t, {c})  BY <1>0, <1>1, ArrivesForm
  <2>3. Goes(t, Idle, {c})  BY <1>0, <2>2, GoesBegun
  <2>4. c.op = "inbound" /\ Idle.op = "none"  BY CallOps
  <2>5. l \notin hooked  BY <2>1, <1>0 DEF Hooks
  <2>. HIDE DEF c
  <2>6. Opens(t, Idle, {c})  BY <2>1, <2>4, <2>5, <1>0 DEF Opens, TypeOK, chosen
  <2>. QED  BY <1>0, <2>3, <2>6 DEF Done, Does
<1>2. ASSUME NEW l \in Link, NEW t \in Rns, LinkLost(l, t) PROVE Done
  <2>. DEFINE c == Call("closed", l, NoPeer)
  <2>1. status' = [status EXCEPT ![l] = "closed"]
        /\ UNCHANGED <<identified, hooked, registry, chosen, off, noted>>
    BY <1>2 DEF LinkLost
  <2>2. c.op = "closed" /\ c.link = l /\ Idle.op = "none"  BY CallOps
  <2>3. \/ l \in hooked /\ Begun(t, {c})
        \/ l \notin hooked /\ UNCHANGED <<stack, crossed>>
    BY <1>0, <1>2, LostForm
  <2>. HIDE DEF c
  <2>4. CASE l \in hooked /\ Begun(t, {c})
    <3>1. Closes(t, Idle, {c}, l)  BY <2>1, <2>2, <2>4 DEF Closes, chosen
    <3>. QED  BY <1>0, <2>4, <3>1, GoesBegun DEF Done, Does
  <2>5. CASE l \notin hooked /\ UNCHANGED <<stack, crossed>>
    <3>1. Closes(t, Idle, {}, l)  BY <2>1, <2>2, <2>5 DEF Closes, chosen
    <3>. QED  BY <1>0, <2>5, <3>1, GoesStill DEF Done, Does
  <2>. QED  BY <2>3, <2>4, <2>5
<1>3. ASSUME NEW l \in Link, Identify(l) \/ LinkAccepted(l) PROVE Done
  <2>1. /\ UNCHANGED <<hooked, registry, chosen, off, stack, noted, crossed>>
        /\ status' = status \/ (status[l] = "pending" /\ status' = [status EXCEPT ![l] = "active"])
    BY <1>3 DEF Identify, LinkAccepted
  <2>2. status[l] = "pending" => l \notin hooked  BY <1>0 DEF Hooks
  <2>3. Opens(Ui, Idle, {})
    BY <2>1, <2>2, <1>0, CallOps DEF Opens, TypeOK, chosen
  <2>. QED  BY <1>0, <2>1, <2>3, GoesStill DEF Done, Does
<1>. QED  BY <1>1, <1>2, <1>3

LEMMA CommandDone ==
  ASSUME IKnown, Command
  PROVE  Done
<1>0. IType /\ TypeOK /\ Ui \in Thread /\ Conn \in Thread /\ Idle.op = "none"
  BY CallOps DEF IKnown, IType, Thread
<1>1. ASSUME NEW p \in Peer, NEW f, f \in {"bare"} \union {FamilyOf[l] : l \in Link}, Disconnect(p, f)
      PROVE  Done
  <2>. DEFINE c == LeaveCall(p, f)
  <2>0. PICK S : S = Leaf(p, f)  OBVIOUS
  <2>1. Begun(Ui, Loop(S, FALSE) \union {c})  BY <2>0, <1>0, <1>1, DisconnectForm
  <2>2. /\ c.op = "disconnectEnd" /\ c.peer = p /\ c.promote = (f = "bare")
        /\ c.todo = {l \in Link : f \in {"bare", FamilyOf[l]}}
    BY DEF LeaveCall, Made
  <2>. HIDE DEF c
  <2>3. UNCHANGED <<rns, registry, active, activePeer, noted>>
        /\ off' = IF f = "bare" THEN off \union {p} ELSE off
    BY <1>1 DEF Disconnect
  <2>4. off' = off \/ (off' = off \union {p} /\ c.promote)  BY <2>2, <2>3
  <2>5. \A l \in links : l \in c.todo /\ Remote(l) = p => l \in S
    BY <2>0, <2>2 DEF Leaf
  <2>6. \A d \in Loop(S, FALSE) : d.op = "closeAll"  BY CallOps
  <2>7. \A l \in S : \E d \in Loop(S, FALSE) : d.op = "closeAll" /\ l \in d.todo  BY CallOps
  <2>8. Departs(Ui, Idle, Loop(S, FALSE) \union {c}, p)
    BY <2>2, <2>3, <2>4, <2>5, <2>6, <2>7 DEF Departs
  <2>. QED  BY <1>0, <2>1, <2>8, GoesBegun DEF Done, Does
<1>2. ASSUME NEW b \in BOOLEAN, Reset(b) PROVE Done
  <2>. DEFINE c == Made("resetEnd", NoLink, NoPeer, {}, b)
  <2>0. PICK S : S = links  OBVIOUS
  <2>1. Begun(Ui, Loop(S, FALSE) \union {c})  BY <2>0, <1>0, <1>2, ResetForm
  <2>2. c.op = "resetEnd"  BY DEF Made
  <2>. HIDE DEF c
  <2>3. UNCHANGED <<rns, registry, chosen, off, noted>>  BY <1>2 DEF Reset
  <2>4. \A d \in Loop(S, FALSE) : d.op = "closeAll"  BY CallOps
  <2>5. Waits(Ui, Idle, Loop(S, FALSE) \union {c})
    BY <2>2, <2>3, <2>4, <1>0 DEF Waits, chosen
  <2>. QED  BY <1>0, <2>1, <2>5, GoesBegun DEF Done, Does
<1>3. ASSUME NEW p \in Peer, NEW f, ConnectByUser(p, f) PROVE Done
  <2>. DEFINE c == Made("reuse", NoLink, p, {}, TRUE)   e(S) == Made("evict", NoLink, p, S, FALSE)
  <2>1. off' = off \ {p} /\ UNCHANGED <<rns, registry, active, activePeer, noted>>
    BY <1>3 DEF ConnectByUser
  <2>2. c.op = "reuse" /\ c.peer = p /\ \A S : e(S).op = "evict" /\ e(S).peer = p  BY DEF Made
  <2>3. PICK S \in SUBSET Link : Begun(Conn, {e(S), c})  BY <1>0, <1>3, ConnectByUserForm
  <2>. HIDE DEF c, e
  <2>4. Dials(Conn, Idle, {e(S), c}, p)  BY <2>1, <2>2 DEF Dials
  <2>. QED  BY <1>0, <2>3, <2>4, GoesBegun DEF Done, Does
<1>4. ASSUME NEW p \in Peer, ConnectForPeer(p) PROVE Done
  <2>1. UNCHANGED <<rns, registry, chosen, off, noted>>  BY <1>4 DEF ConnectForPeer
  <2>2. CASE p \notin off /\ Begun(Conn, {Call("reuse", NoLink, p)})
    <3>. DEFINE c == Call("reuse", NoLink, p)
    <3>1. c.op = "reuse" /\ c.peer = p /\ Begun(Conn, {c})  BY <2>2, CallOps
    <3>. HIDE DEF c
    <3>2. Waits(Conn, Idle, {c})  BY <1>0, <2>1, <2>2, <3>1 DEF Waits, chosen
    <3>. QED  BY <1>0, <3>1, <3>2, GoesBegun DEF Done, Does
  <2>3. ASSUME NEW l \in Link, Begun(Conn, {Made("notify", l, p, {}, FALSE)}) PROVE Done
    <3>. DEFINE c == Made("notify", l, p, {}, FALSE)
    <3>1. c.op = "notify" /\ c.promote = FALSE /\ Begun(Conn, {c})  BY <2>3 DEF Made
    <3>. HIDE DEF c
    <3>2. Waits(Conn, Idle, {c})  BY <1>0, <2>1, <3>1 DEF Waits, chosen
    <3>. QED  BY <1>0, <3>1, <3>2, GoesBegun DEF Done, Does
  <2>. QED  BY <2>2, <2>3, <1>0, <1>4, ConnectForPeerForm
<1>. QED  BY <1>1, <1>2, <1>3, <1>4 DEF Command

LEMMA CallbackDone ==
  ASSUME IKnown, NEW t \in Thread,
         \/ InboundSamePeer(t) \/ InboundOther(t) \/ Welcome(t) \/ HandoffEnd(t) \/ Notify(t)
  PROVE  Done
<1>0. IType /\ TypeOK /\ NoLink \notin Link /\ NoPeer \notin Peer /\ Ui \notin Rns
      /\ \A l \in Link : PeerOf[l] \in Peer
  BY NoneAssumption, ThreadAssumption, LinkAssumption DEF IKnown, IType
<1>1. CASE InboundSamePeer(t)
  <2>0. PICK l, p, x, f : l = Frm(t).link /\ p = Ascribed(l) /\ x = active /\ f = Frm(t)  OBVIOUS
  <2>. DEFINE n == Made("notify", l, p, {}, TRUE)   h == Made("handoffEnd", x, p, {}, TRUE)
              d == Call("teardown", l, NoPeer)
  <2>1. /\ l \in Link /\ p \in Peer
        /\ \/ Moved(t, {d}) /\ UNCHANGED <<hooked, links, handoff, silent>>
           \/ Setup(l) /\ handoff' = TRUE /\ Moved(t, {n, h})
    BY <2>0, <1>0, <1>1, InboundSamePeerForm
  <2>2. cached' = [cached EXCEPT ![l] = p] /\ Guess(l, p) /\ active # NoLink /\ p = activePeer
        /\ UNCHANGED <<status, identified, peerLinks, chosen, off, commands, dead, parted>>
    BY <2>0, <1>1 DEF InboundSamePeer
  <2>3. f.op = "inbound" /\ f.link = l /\ t # Ui
    BY <2>0, <1>0, <1>1, TopKnown DEF InboundSamePeer, Placed
  <2>4. (p = PeerOf[l] \/ PeerOf[l] \in guessed') /\ guessed \subseteq guessed'
    BY <2>0, <2>1, <2>2, <1>0, AscribedSure DEF Guess
  <2>5. /\ n.op = "notify" /\ n.link = l /\ h.op = "handoffEnd"
        /\ d.op = "teardown" /\ d.link = l
    BY DEF Made, Call
  <2>6. cached'[l] \in {cached[l], PeerOf[l]} \/ PeerOf[l] \in guessed'
    BY <2>1, <2>2, <2>4, <1>0 DEF TypeOK
  <2>7. \A y \in Link \ {l} : cached'[y] = cached[y]  BY <2>1, <2>2, <1>0 DEF TypeOK
  <2>. HIDE DEF n, h, d
  <2>8. CASE Moved(t, {d}) /\ UNCHANGED <<hooked, links, handoff, silent>>
    <3>1. SetsUp(t, f, {d}, l)
      BY <2>1, <2>2, <2>3, <2>4, <2>5, <2>6, <2>7, <2>8 DEF SetsUp, chosen
    <3>. QED  BY <2>0, <2>1, <2>8, <3>1, GoesMoved DEF Done, Does
  <2>9. CASE Setup(l) /\ Moved(t, {n, h})
    <3>1. SetsUp(t, f, {n, h}, l)
      BY <2>1, <2>2, <2>3, <2>4, <2>5, <2>6, <2>7, <2>9 DEF SetsUp, Setup, chosen
    <3>. QED  BY <2>0, <2>1, <2>9, <3>1, GoesMoved DEF Done, Does
  <2>. QED  BY <2>1, <2>8, <2>9
<1>2. CASE InboundOther(t)
  <2>0. PICK l, p, f : l = Frm(t).link /\ p = Ascribed(l) /\ f = Frm(t)  OBVIOUS
  <2>. DEFINE w == Call("welcome", l, p)   d(x) == Call("teardown", x, NoPeer)
  <2>1. /\ l \in Link
        /\ \/ Moved(t, {d(l)})
           \/ Moved(t, {w})
           \/ \E old \in Link : Moved(t, {d(old), w})
    BY <2>0, <1>0, <1>2, InboundOtherForm
  <2>2. cached' = [cached EXCEPT ![l] = p] /\ Guess(l, p)
        /\ UNCHANGED <<rns, links, peerLinks, chosen, handoff, off, commands, silent, dead, parted>>
    BY <2>0, <1>2 DEF InboundOther
  <2>3. f.op = "inbound" /\ f.link = l /\ t # Ui
    BY <2>0, <1>0, <1>2, TopKnown DEF InboundOther, Placed
  <2>4. (p = PeerOf[l] \/ PeerOf[l] \in guessed') /\ guessed \subseteq guessed'
    BY <2>0, <2>1, <2>2, <1>0, AscribedSure DEF Guess
  <2>5. /\ w.op = "welcome" /\ w.link = l
        /\ \A x : d(x).op = "teardown" /\ d(x).link = x
    BY DEF Call, Made
  <2>6. cached'[l] \in {cached[l], PeerOf[l]} \/ PeerOf[l] \in guessed'
    BY <2>1, <2>2, <2>4, <1>0 DEF TypeOK
  <2>7. \A y \in Link \ {l} : cached'[y] = cached[y]  BY <2>1, <2>2, <1>0 DEF TypeOK
  <2>. HIDE DEF w, d
  <2>8. ASSUME NEW new, \A c \in new : c.op \in {"teardown", "welcome"},
               \E c \in new : c.op \in {"teardown", "welcome"} /\ c.link = l
        PROVE  SetsUp(t, f, new, l)
    BY <2>1, <2>2, <2>3, <2>4, <2>6, <2>7, <2>8 DEF SetsUp, chosen, rns
  <2>9. ASSUME NEW new, \A c \in new : c.op \in {"teardown", "welcome"},
               \E c \in new : c.op \in {"teardown", "welcome"} /\ c.link = l, Moved(t, new)
        PROVE  Done
    <3>1. SetsUp(t, f, new, l)  BY <2>8, <2>9
    <3>. QED  BY <2>0, <2>1, <2>9, <3>1, GoesMoved DEF Done, Does
  <2>10. CASE Moved(t, {d(l)})  BY <2>5, <2>9, <2>10
  <2>11. CASE Moved(t, {w})  BY <2>5, <2>9, <2>11
  <2>12. ASSUME NEW old, Moved(t, {d(old), w}) PROVE Done  BY <2>5, <2>9, <2>12
  <2>. QED  BY <2>1, <2>10, <2>11, <2>12
<1>3. CASE Welcome(t)
  <2>0. PICK l, p, b, f : /\ l = Frm(t).link /\ b = Promotes(p) /\ f = Frm(t)
                          /\ p = IF Frm(t).peer # NoPeer THEN Frm(t).peer ELSE Remote(l)
    OBVIOUS
  <2>. DEFINE n == Made("notify", l, p, {}, b)
  <2>1. l \in Link /\ Setup(l) /\ Moved(t, {n})  BY <2>0, <1>0, <1>3, WelcomeForm
  <2>2. UNCHANGED <<status, identified, cached, peerLinks, chosen, handoff, off, commands, guessed,
                    dead, parted>>
    BY <1>3 DEF Welcome
  <2>3. f.op = "welcome" /\ f.link = l /\ t # Ui /\ Sure(l, f.peer)
    BY <2>0, <1>0, <1>3, TopKnown DEF Welcome, Placed, FrameOK
  <2>4. n.op = "notify" /\ n.link = l /\ n.promote = b  BY CallOps
  <2>5. b => PeerOf[l] \in guessed' \/ PeerOf[l] \notin off
    <3>1. CASE f.peer # NoPeer  BY <3>1, <2>0, <2>2, <2>3 DEF Sure, Promotes
    <3>2. CASE f.peer = NoPeer  BY <3>2, <2>1, <2>2, <2>3, <1>0 DEF Sure
    <3>. QED  BY <3>1, <3>2
  <2>. HIDE DEF n
  <2>6. SetsUp(t, f, {n}, l)
    BY <2>1, <2>2, <2>3, <2>4, <2>5 DEF SetsUp, Setup, chosen
  <2>. QED  BY <2>0, <2>1, <2>6, GoesMoved DEF Done, Does
<1>4. CASE HandoffEnd(t)
  <2>0. PICK f, d : f = Frm(t) /\ d = Call("teardown", f.link, NoPeer)  OBVIOUS
  <2>1. UNCHANGED <<rns, registry, chosen, off, noted>>  BY <1>4 DEF HandoffEnd
  <2>2. f.op = "handoffEnd"  BY <2>0, <1>4, TopKnown DEF HandoffEnd
  <2>3. d.op = "teardown" /\ Unflag.op = "handoffEnd"  BY <2>0, CallOps
  <2>4. Waits(t, f, {d, Unflag}) /\ Waits(t, f, {})  BY <2>1, <2>2, <2>3 DEF Waits, chosen
  <2>5. Moved(t, {d, Unflag}) \/ Moved(t, {})  BY <2>0, <1>0, <1>4, HandoffEndForm
  <2>. QED  BY <2>0, <2>4, <2>5, GoesMoved DEF Done, Does
<1>5. CASE Notify(t)
  <2>0. PICK l, p, S, f : l = Frm(t).link /\ p = Notified(t) /\ S = Surplus(l, p) /\ f = Frm(t)
    OBVIOUS
  <2>. DEFINE a == Call("adopt", l, p)
  <2>1. /\ l \in Link /\ p \in Peer \union {NoPeer}
        /\ \/ p = NoPeer /\ Moved(t, {}) /\ UNCHANGED <<cached, peerLinks, guessed>>
           \/ /\ p \in Peer /\ Register(l, p) /\ Guess(l, p)
              /\ \/ ~Frm(t).promote /\ Moved(t, {})
                 \/ Frm(t).promote /\ Moved(t, Loop(S, TRUE) \union {a})
    <3>0. l = Frm(t).link /\ p = Notified(t)  BY <2>0
    <3>1. \A x, y : x = Frm(t).link /\ y = Notified(t) =>
            /\ x \in Link /\ y \in Peer \union {NoPeer}
            /\ \/ y = NoPeer /\ Moved(t, {}) /\ UNCHANGED <<cached, peerLinks, guessed>>
               \/ /\ y \in Peer /\ Register(x, y) /\ Guess(x, y)
                  /\ \/ ~Frm(t).promote /\ Moved(t, {})
                     \/ Frm(t).promote
                        /\ Moved(t, Loop(Surplus(x, y), TRUE) \union {Call("adopt", x, y)})
      BY <1>0, <1>5, NotifyForm
    <3>2. Surplus(l, p) = S  BY <2>0
    <3>. QED  BY <2>0, <3>0, <3>1, <3>2, Zenon
  <2>2. UNCHANGED <<rns, links, chosen, handoff, off, commands, silent, dead, parted>>
    BY <1>5 DEF Notify
  <2>3. f.op = "notify" /\ f.link = l /\ l \in hooked
    BY <2>0, <1>5, TopKnown DEF Notify, FrameOK
  <2>4. a.op = "adopt" /\ a.link = l  BY CallOps
  <2>5. p = IF Remote(l) # NoPeer THEN Remote(l)
            ELSE IF Frm(t).peer # NoPeer THEN Frm(t).peer ELSE session
    BY <2>0 DEF Notified
  <2>. HIDE DEF a
  <2>6. CASE p = NoPeer /\ Moved(t, {}) /\ UNCHANGED <<cached, peerLinks, guessed>>
    <3>1. Remote(l) = NoPeer  BY <2>5, <2>6
    <3>2. cached[l] = NoPeer  BY <3>1, <2>1, <1>0 DEF Remote
    <3>3. Waits(t, f, {})
      BY <2>2, <2>3, <2>6, <3>2 DEF Waits, rns, registry, chosen, noted
    <3>. QED  BY <2>0, <2>6, <3>3, GoesMoved DEF Done, Does
  <2>7. CASE p \in Peer /\ Register(l, p) /\ Guess(l, p)
    <3>1. Target(l, p) = p  BY <2>5 DEF Target
    <3>2. l \in identified => p = PeerOf[l]  BY <2>1, <2>5, <1>0, AscribedSure
    <3>3. (p = PeerOf[l] \/ PeerOf[l] \in guessed') /\ guessed \subseteq guessed'
      BY <2>1, <2>7, <3>2 DEF Guess
    <3>4. /\ cached' = [cached EXCEPT ![l] = p]
          /\ peerLinks' = [k \in Key |-> IF k = <<p, FamilyOf[l]>> THEN l
                                         ELSE IF k = <<p, "bare">> THEN NoLink ELSE peerLinks[k]]
      BY <3>1, <2>7 DEF Register
    <3>5. /\ \A k \in Key : \/ peerLinks'[k] \in {peerLinks[k], l}
                            \/ k[2] = "bare" /\ peerLinks'[k] = NoLink
          /\ p = PeerOf[l] => peerLinks'[<<PeerOf[l], FamilyOf[l]>>] = l
      <4>1. <<p, FamilyOf[l]>> \in Key  BY <2>1, <2>7, LinkAssumption DEF Key
      <4>. QED  BY <3>4, <4>1
    <3>6. ASSUME NEW new, \A c \in new : c.op = "closeAll" \/ (c = a /\ f.promote)
          PROVE  Registers(t, f, new, l, p)
      BY <2>2, <2>3, <2>4, <3>3, <3>4, <3>5, <3>6 DEF Registers, chosen
    <3>7. CASE Moved(t, {})
      <4>1. Registers(t, f, {}, l, p)  BY <3>6
      <4>. QED  BY <2>0, <2>1, <3>7, <4>1, GoesMoved DEF Done, Does
    <3>8. CASE Frm(t).promote /\ Moved(t, Loop(S, TRUE) \union {a})
      <4>1. \A c \in Loop(S, TRUE) : c.op = "closeAll"  BY CallOps
      <4>2. f.promote  BY <3>8, <2>0
      <4>3. Registers(t, f, Loop(S, TRUE) \union {a}, l, p)  BY <3>6, <4>1, <4>2
      <4>. QED  BY <2>0, <2>1, <3>8, <4>3, GoesMoved DEF Done, Does
    <3>. QED  BY <2>1, <2>7, <3>7, <3>8, <1>0
  <2>. QED  BY <2>1, <2>6, <2>7
<1>. QED  BY <1>1, <1>2, <1>3, <1>4, <1>5

(* What the callback's end makes of the session.                                 *)
LEMMA ReleaseDone ==
  ASSUME IKnown, NEW l \in Link, Release(l)
  PROVE  /\ dead \subseteq dead'
         /\ \/ active' = active /\ activePeer' = activePeer /\ (active = l => l \in dead')
            \/ active' = NoLink
            \/ \E n \in hooked :
                 /\ active' = n /\ activePeer' \notin off
                 /\ status[n] = "closed" => n \in dead'
                 /\ activePeer' = PeerOf[n] \/ PeerOf[n] \in guessed
                 /\ cached[n] = PeerOf[n] \/ PeerOf[n] \in guessed \/ \E k \in Key : peerLinks[k] = n
<1>0. TypeOK /\ NoLink \notin Link /\ NoPeer \notin Peer  BY NoneAssumption DEF IKnown, IType
<1>1. CASE active # l \/ handoff
  BY <1>1 DEF Release, chosen
<1>2. CASE ~(active # l \/ handoff)
  <2>1. PICK s, next : /\ s = IF activePeer \notin off \union {NoPeer} THEN activePeer ELSE session
                       /\ next \in IF s \in off THEN {NoLink} ELSE LinkFor(s)
                       /\ active' = IF next = l THEN NoLink ELSE next
                       /\ activePeer' = IF next \in {NoLink, l} THEN NoPeer ELSE s
                       /\ dead' = IF next \notin {NoLink, l} /\ status[next] = "closed"
                                  THEN dead \union {next} ELSE dead
    BY <1>2 DEF Release
  <2>2. s \in Peer \union {NoPeer}  BY <2>1, <1>0 DEF TypeOK
  <2>3. CASE next \in {NoLink, l}  BY <2>1, <2>3
  <2>4. CASE next \notin {NoLink, l}
    <3>1. s \notin off /\ next \in LinkFor(s)  BY <2>1, <2>4
    <3>2. next \in hooked /\ Sure(next, s)  BY <3>1, <2>2, <2>4, FoundSure
    <3>3. active' = next /\ activePeer' = s /\ (status[next] = "closed" => next \in dead')
          /\ dead \subseteq dead'
      BY <2>1, <2>4
    <3>4. s # NoPeer  BY <3>1, <2>4 DEF LinkFor
    <3>5. \/ \E k \in Key : peerLinks[k] = next
          \/ cached[next] = s
      <4>1. \/ peerLinks[<<s, "bare">>] = next
            \/ \E f \in Family : peerLinks[<<s, f>>] = next
            \/ cached[next] = s
        BY <3>1, <2>4 DEF LinkFor
      <4>2. \A f \in Family \union {"bare"} : <<s, f>> \in Key  BY <2>2, <3>4 DEF Key
      <4>. QED  BY <4>1, <4>2
    <3>6. s = PeerOf[next] \/ PeerOf[next] \in guessed  BY <3>2 DEF Sure
    <3>. QED  BY <3>1, <3>2, <3>3, <3>5, <3>6
  <2>. QED  BY <2>3, <2>4
<1>. QED  BY <1>1, <1>2

LEMMA CloseDone ==
  ASSUME IKnown, NEW t \in Thread,
         \/ CloseNext(t) \/ Adopt(t) \/ TearDownLink(t) \/ Closed(t) \/ ClosedFallBack(t)
         \/ ClosedEnd(t)
  PROVE  Done
<1>0. IType /\ TypeOK /\ NoLink \notin Link /\ NoPeer \notin Peer /\ hooked \subseteq Link
  BY NoneAssumption DEF IKnown, IType, TypeOK
<1>1. CASE CloseNext(t)
  <2>0. PICK f, S, b : f = Frm(t) /\ S = Frm(t).todo /\ b = Frm(t).promote  OBVIOUS
  <2>1. f.op = "closeAll" /\ f.todo = S
        /\ UNCHANGED <<identified, hooked, registry, chosen, off, noted>>
    BY <2>0, <1>1, TopKnown DEF CloseNext
  <2>2. PICK l \in Link : /\ l \in S /\ status' = [status EXCEPT ![l] = "closed"]
                          /\ \/ status[l] = "closed" /\ Moved(t, Loop(S \ {l}, b))
                             \/ Moved(t, Heard(l) \union Loop(S \ {l}, b))
    BY <2>0, <1>0, <1>1, CloseNextForm
  <2>3. /\ \A x \in S \ {l} : \E d \in Loop(S \ {l}, b) : d.op = "closeAll" /\ x \in d.todo
        /\ \A c \in Loop(S \ {l}, b) : c.op = "closeAll"
        /\ \A c \in Heard(l) : c.op = "closed"
        /\ l \in hooked => \E c \in Heard(l) : c.op = "closed" /\ c.link = l
    BY CallOps
  <2>4. CASE status[l] = "closed" /\ Moved(t, Loop(S \ {l}, b))
    <3>1. Closes(t, f, Loop(S \ {l}, b), l)  BY <2>1, <2>2, <2>3, <2>4 DEF Closes, chosen
    <3>. QED  BY <2>0, <2>4, <3>1, GoesMoved DEF Done, Does
  <2>5. CASE Moved(t, Heard(l) \union Loop(S \ {l}, b))
    <3>1. Closes(t, f, Heard(l) \union Loop(S \ {l}, b), l)
      BY <2>1, <2>2, <2>3, <2>5 DEF Closes, chosen
    <3>. QED  BY <2>0, <2>5, <3>1, GoesMoved DEF Done, Does
  <2>. QED  BY <2>2, <2>4, <2>5
<1>2. CASE Adopt(t)
  <2>0. PICK l, p, f : l = Frm(t).link /\ p = Frm(t).peer /\ f = Frm(t)  OBVIOUS
  <2>1. In(t, "adopt")  BY <1>2 DEF Adopt
  <2>2. FrameOK(Frm(t)) /\ Frm(t).op = "adopt"  BY <2>1, TopKnown
  <2>3. /\ l \in Link /\ Moved(t, {}) /\ (Taken(l, p) \/ Added(l, p))
        /\ UNCHANGED <<rns, links, handoff, off, commands, guessed, silent, parted>>
    BY <2>0, <1>0, <1>2, AdoptForm
  <2>4. l \in hooked /\ Vouched(l) /\ Sure(l, p) /\ p \in Peer /\ f.op = "adopt" /\ f.link = l
    BY <2>0, <2>2 DEF FrameOK
  <2>5. Goes(t, f, {})  BY <2>0, <2>3, GoesMoved
  <2>6. CASE Taken(l, p)
    <3>1. Takes(t, f, {}, l, p)  BY <2>3, <2>4, <2>6 DEF Takes, Taken, registry
    <3>. QED  BY <2>3, <2>4, <2>5, <3>1 DEF Done, Does
  <2>7. CASE Added(l, p)
    <3>1. PICK q : q = Target(l, p)  OBVIOUS
    <3>2. Sure(l, q) /\ q \in Peer
      <4>1. CASE l \in identified
        <5>1. Remote(l) = PeerOf[l]  BY <4>1 DEF Remote
        <5>2. q = PeerOf[l] /\ q \in Peer  BY <3>1, <5>1, <2>3, <1>0, LinkAssumption DEF Target
        <5>. QED  BY <5>2 DEF Sure
      <4>2. CASE l \notin identified
        <5>1. Remote(l) = cached[l]  BY <4>2 DEF Remote
        <5>2. CASE cached[l] = NoPeer  BY <5>1, <5>2, <3>1, <2>4 DEF Target
        <5>3. CASE cached[l] # NoPeer
          BY <5>1, <5>3, <3>1, <2>3, <1>0 DEF Target, IKnown, Filing, TypeOK
        <5>. QED  BY <5>2, <5>3
      <4>. QED  BY <4>1, <4>2
    <3>3. q = PeerOf[l] \/ PeerOf[l] \in guessed'  BY <3>2, <2>3 DEF Sure
    <3>4. /\ peerLinks' = [k \in Key |-> IF k = <<q, FamilyOf[l]>> THEN l
                                         ELSE IF k = <<q, "bare">> THEN NoLink ELSE peerLinks[k]]
          /\ cached' = [cached EXCEPT ![l] = q] /\ UNCHANGED <<chosen, dead>>
      BY <3>1, <2>7 DEF Added, Register
    <3>5. \A k \in Key : \/ peerLinks'[k] \in {peerLinks[k], l}
                         \/ k[2] = "bare" /\ peerLinks'[k] = NoLink
      BY <3>4
    <3>6. <<q, FamilyOf[l]>> \in Key  BY <3>2, <2>3, LinkAssumption DEF Key
    <3>7. peerLinks'[<<q, FamilyOf[l]>>] = l  BY <3>4, <3>6
    <3>8. Registers(t, f, {}, l, q)
      BY <2>3, <2>4, <3>3, <3>4, <3>5, <3>7 DEF Registers, chosen
    <3>. QED  BY <2>3, <2>5, <3>2, <3>8 DEF Done, Does
  <2>. QED  BY <2>3, <2>6, <2>7
<1>3. CASE TearDownLink(t)
  <2>0. PICK f, x : f = Frm(t) /\ x = Frm(t).link  OBVIOUS
  <2>1. f.op = "teardown" /\ f.link = x
        /\ UNCHANGED <<identified, hooked, registry, chosen, off, noted>>
    BY <2>0, <1>3, TopKnown DEF TearDownLink
  <2>2. x \in Link /\ Moved(t, Heard(x)) /\ status' = [status EXCEPT ![x] = "closed"]
    BY <2>0, <1>0, <1>3, TearDownForm
  <2>3. /\ \A c \in Heard(x) : c.op = "closed"
        /\ x \in hooked => \E c \in Heard(x) : c.op = "closed" /\ c.link = x
    BY CallOps
  <2>4. Closes(t, f, Heard(x), x)  BY <2>1, <2>2, <2>3 DEF Closes, chosen
  <2>. QED  BY <2>0, <2>2, <2>4, GoesMoved DEF Done, Does
<1>4. CASE Closed(t)
  <2>0. PICK l, p, S, f : l = Frm(t).link /\ p = Ascribed(l) /\ S = OtherActive(p, l) /\ f = Frm(t)
    OBVIOUS
  <2>. DEFINE c == Made("closedMid", l, p, S, FALSE)
  <2>1. l \in Link /\ p \in Peer \union {NoPeer} /\ Moved(t, {c})
    BY <2>0, <1>0, <1>4, ClosedForm
  <2>2. c.op = "closedMid" /\ c.link = l /\ c.peer = p /\ c.todo = S  BY DEF Made
  <2>. HIDE DEF c
  <2>3. /\ links' = links \ {l} /\ cached' = [cached EXCEPT ![l] = NoPeer] /\ Guess(l, p)
        /\ UNCHANGED <<rns, peerLinks, chosen, handoff, off, commands, silent, dead, parted>>
    BY <2>0, <1>4 DEF Closed
  <2>4. status[l] = "closed" /\ f.op = "closed" /\ f.link = l
    BY <2>0, <1>4, TopKnown DEF Closed, FrameOK
  <2>5. guessed \subseteq guessed'  BY <2>3 DEF Guess
  <2>6. Forgets(t, f, {c}, l, p)
    BY <2>0, <2>1, <2>2, <2>3, <2>4, <2>5 DEF Forgets, chosen
  <2>. QED  BY <2>0, <2>1, <2>6, GoesMoved DEF Done, Does
<1>5. CASE ClosedFallBack(t)
  <2>0. PICK l, p, f, S : l = Frm(t).link /\ p = Frm(t).peer /\ f = Frm(t) /\ S = Frm(t).todo
    OBVIOUS
  <2>1. In(t, "closedMid")
        /\ UNCHANGED <<rns, links, cached, handoff, off, commands, guessed, silent, parted>>
    BY <1>5 DEF ClosedFallBack
  <2>2. FrameOK(Frm(t)) /\ Frm(t).op = "closedMid"  BY <2>1, TopKnown
  <2>3. f.op = "closedMid" /\ f.link = l /\ f.peer = p /\ f.todo = S  BY <2>0, <2>2
  <2>4. l \in Link  BY <2>0, <1>0, <1>5, ClosedFallBackForm
  <2>5. \A x \in S : x \in hooked  BY <2>0, <2>2 DEF FrameOK
  <2>6. CASE S = {} /\ Moved(t, {}) /\ Release(l) /\ peerLinks' = Unlinked(p, TRUE, {})
    <3>1. Releases(t, f, {}, l)
      BY <2>1, <2>3, <2>4, <2>6, ReleaseDone DEF Releases
    <3>. QED  BY <2>0, <2>4, <2>6, <3>1, GoesMoved DEF Done, Does
  <2>7. ASSUME NEW next \in S,
               /\ next \in Link /\ peerLinks' = [peerLinks EXCEPT ![<<p, "bare">>] = next]
               /\ \/ /\ active = l /\ ~handoff /\ UNCHANGED <<chosen, dead>>
                     /\ Moved(t, {Made("notify", next, p, {}, TRUE), Call("closedEnd", l, p)})
                  \/ ~(active = l /\ ~handoff) /\ Moved(t, {}) /\ Release(l)
        PROVE  Done
    <3>1. CASE /\ active = l /\ UNCHANGED <<chosen, dead>>
               /\ Moved(t, {Made("notify", next, p, {}, TRUE), Call("closedEnd", l, p)})
      <4>. DEFINE n == Made("notify", next, p, {}, TRUE)   e == Call("closedEnd", l, p)
      <4>1. n.op = "notify" /\ n.link = next /\ e.op = "closedEnd" /\ e.link = l
        BY DEF Made, Call
      <4>2. Moved(t, {n, e})  BY <3>1
      <4>. HIDE DEF n, e
      <4>3. FallsBack(t, f, {n, e}, l, next)
        BY <2>1, <2>3, <2>4, <2>5, <2>7, <3>1, <4>1 DEF FallsBack, chosen, noted
      <4>. QED  BY <2>0, <2>4, <2>7, <4>2, <4>3, GoesMoved DEF Done, Does
    <3>2. CASE Moved(t, {}) /\ Release(l)
      <4>1. Releases(t, f, {}, l)
        BY <2>1, <2>3, <2>4, <2>5, <2>7, <3>2, ReleaseDone DEF Releases
      <4>. QED  BY <2>0, <2>4, <3>2, <4>1, GoesMoved DEF Done, Does
    <3>. QED  BY <2>7, <3>1, <3>2
  <2>8. CASE S = {}
    <3>1. /\ Frm(t).todo = {} /\ Moved(t, {}) /\ Release(Frm(t).link)
          /\ peerLinks' = Unlinked(Frm(t).peer, TRUE, {})
      BY <2>0, <2>8, <1>0, <1>5, ClosedFallBackForm
    <3>. QED  BY <2>0, <2>6, <3>1, Zenon
  <2>9. CASE S # {}
    <3>1. \E next \in Frm(t).todo :
            /\ next \in Link /\ peerLinks' = [peerLinks EXCEPT ![<<Frm(t).peer, "bare">>] = next]
            /\ \/ /\ active = Frm(t).link /\ ~handoff /\ UNCHANGED <<chosen, dead>>
                  /\ Moved(t, {Made("notify", next, Frm(t).peer, {}, TRUE),
                               Call("closedEnd", Frm(t).link, Frm(t).peer)})
               \/ ~(active = Frm(t).link /\ ~handoff) /\ Moved(t, {}) /\ Release(Frm(t).link)
      BY <2>0, <2>9, <1>0, <1>5, ClosedFallBackForm
    <3>. QED  BY <2>0, <2>7, <3>1, Zenon
  <2>. QED  BY <2>8, <2>9
<1>6. CASE ClosedEnd(t)
  <2>0. PICK l, f : l = Frm(t).link /\ f = Frm(t)  OBVIOUS
  <2>1. l \in Link /\ Moved(t, {}) /\ Release(l)  BY <2>0, <1>0, <1>6, ClosedEndForm
  <2>2. UNCHANGED <<rns, registry, handoff, off, commands, guessed, silent, parted>>
    BY <1>6 DEF ClosedEnd
  <2>3. f.op = "closedEnd" /\ f.link = l  BY <2>0, <1>6, TopKnown DEF ClosedEnd
  <2>4. Releases(t, f, {}, l)  BY <2>1, <2>2, <2>3, ReleaseDone DEF Releases, registry
  <2>. QED  BY <2>0, <2>1, <2>4, GoesMoved DEF Done, Does
<1>. QED  BY <1>1, <1>2, <1>3, <1>4, <1>5, <1>6

LEMMA EndDone ==
  ASSUME IKnown, NEW t \in Thread, DisconnectEnd(t) \/ ResetEnd(t) \/ Unlink(t)
  PROVE  Done
<1>0. IType /\ TypeOK  BY DEF IKnown, IType
<1>1. PICK f : f = Frm(t)  OBVIOUS
<1>2. Goes(t, f, {})  BY <1>0, <1>1, EndForm, GoesMoved
<1>3. CASE DisconnectEnd(t)
  <2>1. f.op = "disconnectEnd" /\ t = Ui  BY <1>1, <1>3, TopKnown DEF DisconnectEnd, Placed
  <2>2. Ends(t, f, {})  BY <1>1, <1>3, <2>1 DEF DisconnectEnd, Ends
  <2>. QED  BY <1>2, <2>2 DEF Done, Does
<1>4. CASE ResetEnd(t)
  <2>1. f.op = "resetEnd" /\ t = Ui  BY <1>1, <1>4, TopKnown DEF ResetEnd, Placed
  <2>2. Resets(t, f, {})  BY <1>1, <1>4, <2>1 DEF ResetEnd, Resets
  <2>. QED  BY <1>2, <2>2 DEF Done, Does
<1>5. CASE Unlink(t)
  <2>1. f.op = "unlink"  BY <1>1, <1>5, TopKnown DEF Unlink
  <2>2. Unlists(t, f, {})  BY <1>1, <1>5, <2>1 DEF Unlink, Unlists, chosen
  <2>. QED  BY <1>2, <2>2 DEF Done, Does
<1>. QED  BY <1>3, <1>4, <1>5

LEMMA DialDone ==
  ASSUME IKnown, NEW t \in Thread,
         \/ Evict(t) \/ Reuse(t) \/ Open(t) \/ InboundInstead(t) \/ Established(t)
         \/ ConnectFails(t) \/ Finish(t)
  PROVE  Done
<1>0. IType /\ TypeOK /\ NoLink \notin Link /\ NoPeer \notin Peer
  BY NoneAssumption DEF IKnown, IType
<1>1. CASE Evict(t)
  <2>0. PICK f, p : f = Frm(t) /\ p = Frm(t).peer  OBVIOUS
  <2>1. UNCHANGED <<rns, registry, active, off, noted>> /\ f.op = "evict" /\ f.peer = p /\ t = Conn
        /\ p \in Peer
    BY <2>0, <1>0, <1>1, TopKnown, AtTop DEF Evict, Placed, TypedFrame
  <2>2. CASE /\ activePeer' \in {activePeer, Frm(t).peer}
             /\ Moved(t, Loop(Others(Frm(t).peer), FALSE))
    <3>0. PICK S : S = Loop(Others(p), FALSE)  OBVIOUS
    <3>1. \A c \in S : c.op = "closeAll"  BY <3>0, CallOps
    <3>2. Selects(t, f, S, p)  BY <2>0, <2>1, <2>2, <3>0, <3>1 DEF Selects
    <3>3. Moved(t, S)  BY <2>0, <2>2, <3>0, Zenon
    <3>. QED  BY <2>0, <2>1, <3>2, <3>3, GoesMoved DEF Done, Does
  <2>3. ASSUME NEW k \in Key, UNCHANGED activePeer,
               Moved(t, {Call("teardown", peerLinks[k], NoPeer),
                         Made("unlink", NoLink, k[1], {l \in Link : FamilyOf[l] = k[2]}, k[2] = "bare"),
                         Frm(t)})
        PROVE  Done
    <3>0. PICK x : x = peerLinks[k]  OBVIOUS
    <3>. DEFINE a == Call("teardown", x, NoPeer)
                b == Made("unlink", NoLink, k[1], {l \in Link : FamilyOf[l] = k[2]}, k[2] = "bare")
    <3>1. a.op = "teardown" /\ b.op = "unlink"  BY DEF Made, Call
    <3>2. Moved(t, {a, b, f})  BY <3>0, <2>0, <2>3, Zenon
    <3>. HIDE DEF a, b
    <3>3. Waits(t, f, {a, b, f})  BY <2>1, <2>3, <3>1 DEF Waits
    <3>. QED  BY <2>0, <3>2, <3>3, GoesMoved DEF Done, Does
  <2>. QED  BY <2>2, <2>3, <1>0, <1>1, EvictForm
<1>2. CASE Reuse(t)
  <2>0. PICK p, x, a, b, f : /\ p = Frm(t).peer /\ x = active /\ f = Frm(t)
                             /\ a = Again(t, "outbound", NoLink) /\ b = Again(t, "reuse", NoLink)
    OBVIOUS
  <2>1. UNCHANGED <<rns, registry, activePeer, off, noted>> /\ f.op = "reuse" /\ f.peer = p
    BY <2>0, <1>2, TopKnown DEF Reuse
  <2>2. p \in Peer /\ active' \in {active, NoLink}  BY <2>0, <1>0, <1>2, ReuseForm
  <2>4. t = Conn  BY <1>2, TopKnown DEF Reuse, Placed
  <2>5. a.op = "outbound" /\ a.peer = p /\ b.op = "reuse" /\ b.peer = p
    BY <2>0 DEF Again, Made
  <2>6. Unflag.op = "handoffEnd"
        /\ \A l : Call("finish", l, p).op = "finish" /\ Call("teardown", l, NoPeer).op = "teardown"
    BY CallOps
  <2>7. \/ Moved(t, {Call("finish", x, p)})
        \/ Moved(t, {a})
        \/ Moved(t, {Call("teardown", x, NoPeer), Unflag, a})
        \/ \E l \in FoundActive(p) \union (LinkFor(p) \ {NoLink}) :
             \/ Moved(t, {Call("finish", l, p)})
             \/ Moved(t, {Made("notify", l, p, {}, TRUE), Call("finish", l, p)})
        \/ \E l \in links : Moved(t, {Call("teardown", l, NoPeer), Unflag, b})
    <3>1. \/ Moved(t, {Call("finish", active, Frm(t).peer)})
          \/ Moved(t, {Again(t, "outbound", NoLink)})
          \/ Moved(t, {Call("teardown", active, NoPeer), Unflag, Again(t, "outbound", NoLink)})
          \/ \E l \in FoundActive(Frm(t).peer) \union (LinkFor(Frm(t).peer) \ {NoLink}) :
               \/ Moved(t, {Call("finish", l, Frm(t).peer)})
               \/ Moved(t, {Made("notify", l, Frm(t).peer, {}, TRUE),
                            Call("finish", l, Frm(t).peer)})
          \/ \E l \in links :
               Moved(t, {Call("teardown", l, NoPeer), Unflag, Again(t, "reuse", NoLink)})
      BY <1>0, <1>2, ReuseForm
    <3>. QED  BY <2>0, <3>1, Zenon
  <2>8. ASSUME NEW new, Moved(t, new),
               \A c \in new : c.op \in {"finish", "teardown", "handoffEnd"} \/ c \in {a, b}
        PROVE  Done
    <3>1. Waits(t, f, new)  BY <2>1, <2>2, <2>4, <2>5, <2>8 DEF Waits
    <3>. QED  BY <2>0, <2>8, <3>1, GoesMoved DEF Done, Does
  <2>9. ASSUME NEW l, Moved(t, {Call("finish", l, p)}) PROVE Done  BY <2>6, <2>8, <2>9
  <2>10. CASE Moved(t, {a})  BY <2>8, <2>10
  <2>11. ASSUME NEW l, NEW c \in {a, b}, Moved(t, {Call("teardown", l, NoPeer), Unflag, c})
         PROVE  Done
    BY <2>6, <2>8, <2>11
  <2>12. ASSUME NEW l \in FoundActive(p) \union (LinkFor(p) \ {NoLink}),
                Moved(t, {Made("notify", l, p, {}, TRUE), Call("finish", l, p)})
         PROVE  Done
    <3>. DEFINE n == Made("notify", l, p, {}, TRUE)   e == Call("finish", l, p)
    <3>1. Sure(l, p)  BY <2>2, FoundSure
    <3>2. n.op = "notify" /\ n.link = l /\ e.op = "finish"  BY DEF Made, Call
    <3>3. Moved(t, {n, e})  BY <2>12
    <3>. HIDE DEF n, e
    <3>4. Waits(t, f, {n, e})  BY <2>1, <2>2, <2>4, <3>1, <3>2 DEF Waits
    <3>. QED  BY <2>0, <3>3, <3>4, GoesMoved DEF Done, Does
  <2>. QED  BY <2>7, <2>9, <2>10, <2>11, <2>12
<1>3. CASE Open(t)
  <2>0. PICK p, b, f : p = Frm(t).peer /\ b = Frm(t).promote /\ f = Frm(t)  OBVIOUS
  <2>1. PICK l \in Link \ Inbound : /\ PeerOf[l] = p /\ status[l] = "none"
                                    /\ status' = [status EXCEPT ![l] = "pending"]
                                    /\ Moved(t, {Again(t, "outbound", l)})
    BY <2>0, <1>0, <1>3, OpenForm
  <2>2. UNCHANGED <<hooked, registry, active, activePeer, off, noted>>  BY <1>3 DEF Open, chosen
  <2>3. f.op = "outbound" /\ t = Conn /\ f.peer = p  BY <2>0, <1>3, TopKnown DEF Open, Placed
  <2>. DEFINE c == Made("outbound", l, p, {}, b)
  <2>4. Moved(t, {c})  BY <2>0, <2>1 DEF Again
  <2>5. c.op = "outbound" /\ c.peer = p  BY DEF Made
  <2>. HIDE DEF c
  <2>6. l \notin hooked  BY <2>1 DEF IKnown, Hooks
  <2>7. Opens(t, f, {c})  BY <2>1, <2>2, <2>3, <2>5, <2>6, <1>0 DEF Opens, TypeOK
  <2>. QED  BY <2>0, <2>4, <2>7, GoesMoved DEF Done, Does
<1>4. CASE InboundInstead(t)
  <2>0. PICK p, S, f : p = Frm(t).peer /\ S = Dropped(Frm(t).link) /\ f = Frm(t)  OBVIOUS
  <2>1. UNCHANGED <<rns, registry, active, activePeer, off, noted>>
    BY <1>4 DEF InboundInstead, chosen
  <2>2. f.op = "outbound" /\ t = Conn /\ f.peer = p
    BY <2>0, <1>4, TopKnown DEF InboundInstead, Placed
  <2>3. PICK l \in Link :
          /\ l \in LinkFor(p) \union FoundActive(p) /\ p \in Peer
          /\ Moved(t, ({Made("notify", l, p, {}, TRUE)} \union S) \union {Call("finish", l, p)})
    BY <2>0, <1>0, <1>4, InboundInsteadForm
  <2>. DEFINE n == Made("notify", l, p, {}, TRUE)   e == Call("finish", l, p)
  <2>4. Sure(l, p)  BY <2>3, <1>0, FoundSure
  <2>5. n.op = "notify" /\ n.link = l /\ e.op = "finish"  BY DEF Made, Call
  <2>6. \A c \in S : c.op = "teardown"  BY <2>0, CallOps
  <2>7. Moved(t, ({n} \union S) \union {e})  BY <2>3
  <2>. HIDE DEF n, e
  <2>8. Waits(t, f, ({n} \union S) \union {e})  BY <2>1, <2>2, <2>4, <2>5, <2>6 DEF Waits
  <2>. QED  BY <2>0, <2>7, <2>8, GoesMoved DEF Done, Does
<1>5. CASE Established(t)
  <2>0. PICK l, p, b, f : l = Frm(t).link /\ p = Frm(t).peer /\ b = Wanted(t) /\ f = Frm(t)  OBVIOUS
  <2>. DEFINE n == Made("notify", l, p, {}, b)   e == Call("finish", l, p)
  <2>1. l \in Link /\ status[l] = "active" /\ Setup(l) /\ Moved(t, {n, e})
    BY <2>0, <1>0, <1>5, EstablishedForm
  <2>2. UNCHANGED <<status, identified, cached, peerLinks, active, activePeer, off, guessed, dead,
                    parted>>
    BY <1>5 DEF Established, chosen
  <2>3. n.op = "notify" /\ n.link = l /\ e.op = "finish"  BY DEF Made, Call
  <2>4. f.op = "outbound" /\ f.link = l /\ t = Conn /\ f.peer = PeerOf[l]
    BY <2>0, <2>1, <1>0, <1>5, TopKnown DEF Established, Placed, FrameOK
  <2>5. t # Ui  BY <2>4, ThreadAssumption
  <2>. HIDE DEF n, e
  <2>6. SetsUp(t, f, {n, e}, l)
    BY <2>1, <2>2, <2>3, <2>4, <2>5 DEF SetsUp, Setup
  <2>. QED  BY <2>0, <2>1, <2>6, GoesMoved DEF Done, Does
<1>6. CASE ConnectFails(t)
  <2>0. PICK S, f : S = Dropped(Frm(t).link) /\ f = Frm(t)  OBVIOUS
  <2>1. UNCHANGED <<rns, registry, active, activePeer, off, noted>> /\ f.op = "outbound"
    BY <2>0, <1>6, TopKnown DEF ConnectFails, chosen
  <2>2. Moved(t, S)  BY <2>0, <1>0, <1>6, ConnectFailsForm
  <2>3. \A c \in S : c.op = "teardown"  BY <2>0, CallOps
  <2>4. Waits(t, f, S)  BY <2>1, <2>3 DEF Waits
  <2>. QED  BY <2>0, <2>2, <2>4, GoesMoved DEF Done, Does
<1>7. CASE Finish(t)
  <2>0. PICK f : f = Frm(t)  OBVIOUS
  <2>1. UNCHANGED <<rns, registry, active, activePeer, off, noted>> /\ f.op = "finish"
    BY <2>0, <1>7, TopKnown DEF Finish, chosen
  <2>2. PICK S \in SUBSET Link : Moved(t, Loop(S, TRUE))  BY <1>0, <1>7, FinishForm
  <2>3. \A c \in Loop(S, TRUE) : c.op = "closeAll"  BY CallOps
  <2>4. Waits(t, f, Loop(S, TRUE))  BY <2>1, <2>3 DEF Waits
  <2>. QED  BY <2>0, <2>2, <2>4, GoesMoved DEF Done, Does
<1>. QED  BY <1>1, <1>2, <1>3, <1>4, <1>5, <1>6, <1>7

LEMMA StepDone ==
  ASSUME IKnown, [Next]_vars
  PROVE  Done \/ UNCHANGED vars
<1>1. ASSUME NEW t \in Thread, Step(t) PROVE Done
  BY <1>1, CallbackDone, CloseDone, EndDone, DialDone DEF Step
<1>. QED  BY <1>1, EnvironmentDone, CommandDone DEF Next

-----------------------------------------------------------------------------
(* A link that closed is heard of: the close of the active link, and of a listed *)
(* one, has a callback on some stack.  The session's peer is that of its open     *)
(* link, but while a connect switches it over.                                    *)

Pending(ops, l) == \E t \in Thread : \E c \in Calls(t) : c.op \in ops /\ c.link = l
Closings == {"closed", "closedMid", "closedEnd"}
Switching(l) == \E d \in Calls(Conn) : d.op = "closeAll" /\ l \in d.todo

ActiveHeard == \A l \in Link :
    l = active /\ status[l] = "closed" => l \in dead \/ Pending(Closings, l)
ClosedHeard == \A l \in links : status[l] = "closed" => l \in silent \/ Pending({"closed"}, l)
Session == \A l \in Link :
    l = active /\ status[l] = "active" /\ PeerOf[l] \notin guessed
      => activePeer = PeerOf[l] \/ Switching(l)

LEMMA PendingKept ==
  ASSUME NEW t \in Thread, NEW f, NEW new, Goes(t, f, new), NEW ops, NEW l, Pending(ops, l),
         ~(f.op \in ops /\ f.link = l)
  PROVE  Pending(ops, l)'
<1>1. PICK u \in Thread : \E c \in Calls(u) : c.op \in ops /\ c.link = l  BY DEF Pending
<1>2. PICK c \in Calls(u) : c.op \in ops /\ c.link = l  BY <1>1
<1>3. c \in Calls(u)'  BY <1>2 DEF Goes
<1>. QED  BY <1>2, <1>3 DEF Pending

LEMMA PendingNew ==
  ASSUME NEW t \in Thread, NEW f, NEW new, Goes(t, f, new), NEW c \in new
  PROVE  \A ops : c.op \in ops => Pending(ops, c.link)'
BY DEF Goes, Pending

LEMMA SwitchKept ==
  ASSUME NEW t \in Thread, NEW f, NEW new, Goes(t, f, new), NEW l, Switching(l),
         f.op = "closeAll" /\ l \in f.todo => \E d \in new : d.op = "closeAll" /\ l \in d.todo
  PROVE  Switching(l)'
<1>1. PICK d \in Calls(Conn) : d.op = "closeAll" /\ l \in d.todo  BY DEF Switching
<1>2. CASE t # Conn
  <2>1. Calls(Conn)' = Calls(Conn)  BY <1>2 DEF Goes, Thread
  <2>. QED  BY <1>1, <2>1 DEF Switching
<1>3. CASE t = Conn /\ d # f  BY <1>1, <1>3 DEF Goes, Switching
<1>4. CASE t = Conn /\ d = f  BY <1>1, <1>4 DEF Goes, Switching
<1>. QED  BY <1>2, <1>3, <1>4

LEMMA ActiveHeardStep ==
  ASSUME IKnown, ActiveHeard, NEW t \in Thread, NEW f, NEW new, Goes(t, f, new), Does(t, f, new)
  PROVE  ActiveHeard'
<1>0. TypeOK /\ Hooks /\ NoLink \notin Link /\ Idle.op = "none"
  BY NoneAssumption, CallOps DEF IKnown, IType
<1>. SUFFICES ASSUME NEW l \in Link, l = active', status'[l] = "closed", l \notin dead'
              PROVE  Pending(Closings, l)'
  BY DEF ActiveHeard
<1>1. ASSUME l = active, status[l] = "closed", l \notin dead, ~(f.op \in Closings /\ f.link = l)
      PROVE  Pending(Closings, l)'
  <2>1. Pending(Closings, l)  BY <1>1 DEF ActiveHeard
  <2>. QED  BY <2>1, <1>1, PendingKept
<1>2. ASSUME NEW c \in new, c.op \in Closings, c.link = l PROVE Pending(Closings, l)'
  BY <1>2, PendingNew
<1>3. CASE Waits(t, f, new)
  BY <1>0, <1>1, <1>3 DEF Waits, Closings, rns, noted
<1>4. CASE Opens(t, f, new)
  BY <1>0, <1>1, <1>4 DEF Opens, Closings, noted
<1>5. ASSUME NEW p \in Peer, Dials(t, f, new, p) \/ Selects(t, f, new, p) \/ Departs(t, f, new, p)
      PROVE  Pending(Closings, l)'
  BY <1>0, <1>1, <1>5 DEF Dials, Selects, Departs, Closings, rns, noted
<1>6. ASSUME NEW x \in Link, Closes(t, f, new, x) PROVE Pending(Closings, l)'
  <2>1. l = active /\ l \notin dead /\ f.op \notin Closings  BY <1>6 DEF Closes, Closings, noted
  <2>2. CASE status[l] = "closed"  BY <2>1, <2>2, <1>1
  <2>3. CASE status[l] # "closed"
    <3>1. l = x /\ l \in hooked  BY <2>1, <2>3, <1>0, <1>6 DEF Closes, TypeOK, Hooks
    <3>2. \E c \in new : c.op = "closed" /\ c.link = l  BY <3>1, <2>3, <1>6 DEF Closes
    <3>. QED  BY <3>2, <1>2 DEF Closings
  <2>. QED  BY <2>2, <2>3
<1>7. ASSUME NEW x \in Link, SetsUp(t, f, new, x) PROVE Pending(Closings, l)'
  BY <1>1, <1>7 DEF SetsUp, Closings
<1>8. ASSUME NEW x \in Link, NEW p, Registers(t, f, new, x, p) PROVE Pending(Closings, l)'
  BY <1>1, <1>8 DEF Registers, Closings, rns
<1>9. ASSUME NEW x \in Link, NEW p, Takes(t, f, new, x, p) PROVE Pending(Closings, l)'
  BY <1>9 DEF Takes, rns
<1>10. ASSUME NEW x \in Link, NEW p, Forgets(t, f, new, x, p) PROVE Pending(Closings, l)'
  <2>1. l = active /\ status[l] = "closed" /\ l \notin dead /\ f.link = x
    BY <1>10 DEF Forgets, rns
  <2>2. CASE l = x  BY <2>2, <1>2, <1>10 DEF Forgets, Closings
  <2>. QED  BY <2>1, <2>2, <1>1
<1>11. ASSUME NEW x \in Link, NEW next \in Link, FallsBack(t, f, new, x, next)
       PROVE  Pending(Closings, l)'
  <2>1. l = x /\ \E c \in new : c.op = "closedEnd" /\ c.link = x  BY <1>11 DEF FallsBack
  <2>. QED  BY <2>1, <1>2 DEF Closings
<1>12. ASSUME NEW x \in Link, Releases(t, f, new, x) PROVE Pending(Closings, l)'
  <2>1. UNCHANGED status /\ dead \subseteq dead' /\ f.link = x  BY <1>12 DEF Releases, rns
  <2>2. l = active /\ l # x  BY <2>1, <1>0, <1>12 DEF Releases
  <2>. QED  BY <2>1, <2>2, <1>1
<1>13. CASE Ends(t, f, new)
  BY <1>0, <1>1, <1>13 DEF Ends, Closings, rns
<1>14. CASE Resets(t, f, new)
  BY <1>0, <1>14 DEF Resets
<1>15. CASE Unlists(t, f, new)
  BY <1>1, <1>15 DEF Unlists, Closings, rns
<1>. QED  BY <1>3, <1>4, <1>5, <1>6, <1>7, <1>8, <1>9, <1>10, <1>11, <1>12, <1>13, <1>14, <1>15
          DEF Does

LEMMA ClosedHeardStep ==
  ASSUME IKnown, ClosedHeard, NEW t \in Thread, NEW f, NEW new, Goes(t, f, new), Does(t, f, new)
  PROVE  ClosedHeard'
<1>0. TypeOK /\ Hooks /\ NoLink \notin Link /\ Idle.op = "none"
  BY NoneAssumption, CallOps DEF IKnown, IType
<1>. SUFFICES ASSUME NEW l \in links', status'[l] = "closed", l \notin silent'
              PROVE  Pending({"closed"}, l)'
  BY DEF ClosedHeard
<1>1. ASSUME l \in links, status[l] = "closed", l \notin silent, ~(f.op = "closed" /\ f.link = l)
      PROVE  Pending({"closed"}, l)'
  <2>1. Pending({"closed"}, l)  BY <1>1 DEF ClosedHeard
  <2>. QED  BY <2>1, <1>1, PendingKept
<1>2. ASSUME NEW c \in new, c.op = "closed", c.link = l PROVE Pending({"closed"}, l)'
  BY <1>2, PendingNew
<1>3. CASE Waits(t, f, new)
  BY <1>1, <1>3 DEF Waits, rns, registry, noted
<1>4. CASE Opens(t, f, new)
  BY <1>0, <1>1, <1>4 DEF Opens, registry, noted, TypeOK
<1>5. ASSUME NEW p \in Peer, Dials(t, f, new, p) \/ Selects(t, f, new, p) \/ Departs(t, f, new, p)
      PROVE  Pending({"closed"}, l)'
  BY <1>0, <1>1, <1>5 DEF Dials, Selects, Departs, rns, registry, noted
<1>6. ASSUME NEW x \in Link, Closes(t, f, new, x) PROVE Pending({"closed"}, l)'
  <2>1. l \in links /\ l \in hooked /\ l \notin silent /\ f.op # "closed"
    BY <1>0, <1>6 DEF Closes, registry, noted, TypeOK
  <2>2. CASE status[l] = "closed"  BY <2>1, <2>2, <1>1
  <2>3. CASE status[l] # "closed"
    <3>1. l = x  BY <2>1, <2>3, <1>0, <1>6 DEF Closes, TypeOK
    <3>2. \E c \in new : c.op = "closed" /\ c.link = l  BY <3>1, <2>1, <2>3, <1>6 DEF Closes
    <3>. QED  BY <3>2, <1>2
  <2>. QED  BY <2>2, <2>3
<1>7. ASSUME NEW x \in Link, SetsUp(t, f, new, x) PROVE Pending({"closed"}, l)'
  <2>1. l \in links  BY <1>7 DEF SetsUp
  <2>. QED  BY <2>1, <1>1, <1>7 DEF SetsUp
<1>8. ASSUME NEW x \in Link, NEW p, Registers(t, f, new, x, p) PROVE Pending({"closed"}, l)'
  BY <1>1, <1>8 DEF Registers, rns
<1>9. ASSUME NEW x \in Link, NEW p, Takes(t, f, new, x, p) PROVE Pending({"closed"}, l)'
  BY <1>1, <1>9 DEF Takes, rns, registry
<1>10. ASSUME NEW x \in Link, NEW p, Forgets(t, f, new, x, p) PROVE Pending({"closed"}, l)'
  BY <1>1, <1>10 DEF Forgets, rns
<1>11. ASSUME NEW x \in Link, NEW next \in Link, FallsBack(t, f, new, x, next)
       PROVE  Pending({"closed"}, l)'
  BY <1>1, <1>11 DEF FallsBack, rns, noted
<1>12. ASSUME NEW x \in Link, Releases(t, f, new, x) PROVE Pending({"closed"}, l)'
  <2>1. UNCHANGED <<status, links, silent>> /\ f.op # "closed"  BY <1>12 DEF Releases, rns
  <2>. QED  BY <2>1, <1>1
<1>13. CASE Ends(t, f, new) \/ Resets(t, f, new) \/ Unlists(t, f, new)
  <2>1. UNCHANGED <<status, links, silent>> /\ f.op # "closed"
    BY <1>13 DEF Ends, Resets, Unlists, rns, noted
  <2>. QED  BY <2>1, <1>1
<1>. QED  BY <1>3, <1>4, <1>5, <1>6, <1>7, <1>8, <1>9, <1>10, <1>11, <1>12, <1>13 DEF Does

(* A connect to p closes what it finds open of another peer.                      *)
LEMMA OthersClosed ==
  ASSUME IKnown, NEW l \in Link, l = active, status[l] = "active", PeerOf[l] \notin guessed,
         NEW p, p # PeerOf[l], NEW new, Loop(Others(p), FALSE) \subseteq new
  PROVE  \E d \in new : d.op = "closeAll" /\ l \in d.todo
<1>1. l \in hooked /\ l \in links /\ l \in identified
  BY NoneAssumption DEF IKnown, Hooks, Known, Vouched
<1>2. l \in Others(p)  BY <1>1 DEF Others
<1>. QED  BY <1>2, CallOps

LEMMA SessionStep ==
  ASSUME IKnown, Session, NEW t \in Thread, NEW f, NEW new, Goes(t, f, new), Does(t, f, new)
  PROVE  Session'
<1>0. TypeOK /\ Hooks /\ NoLink \notin Link /\ NoPeer \notin Peer /\ Idle.op = "none"
      /\ \A x \in Link : PeerOf[x] \in Peer
  BY NoneAssumption, LinkAssumption, CallOps DEF IKnown, IType
<1>. SUFFICES ASSUME NEW l \in Link, l = active', status'[l] = "active", PeerOf[l] \notin guessed',
                     NEW p, p = activePeer', p # PeerOf[l]
              PROVE  Switching(l)'
  BY DEF Session
<1>1. ASSUME l = active, status[l] = "active", p = activePeer, PeerOf[l] \notin guessed,
             f.op # "closeAll"
      PROVE  Switching(l)'
  <2>1. Switching(l)  BY <1>1 DEF Session
  <2>. QED  BY <2>1, <1>1, SwitchKept
<1>3. CASE Waits(t, f, new)
  BY <1>0, <1>1, <1>3 DEF Waits, rns, noted
<1>4. CASE Opens(t, f, new)
  BY <1>0, <1>1, <1>4 DEF Opens, noted, Hooks
<1>5. ASSUME NEW q \in Peer, Dials(t, f, new, q) \/ Departs(t, f, new, q) PROVE Switching(l)'
  BY <1>0, <1>1, <1>5 DEF Dials, Departs, rns, noted
<1>6. ASSUME NEW q \in Peer, Selects(t, f, new, q) PROVE Switching(l)'
  <2>1. l = active /\ status[l] = "active" /\ PeerOf[l] \notin guessed /\ f.op = "evict"
        /\ t = Conn /\ p \in {activePeer, q}
    BY <1>0, <1>6 DEF Selects, rns, noted
  <2>2. CASE p = activePeer  BY <2>1, <2>2, <1>1
  <2>3. CASE p = q
    <3>1. \E d \in new : d.op = "closeAll" /\ l \in d.todo
      BY <2>1, <2>3, <1>6, OthersClosed DEF Selects
    <3>. QED  BY <3>1, <2>1 DEF Switching, Goes
  <2>. QED  BY <2>1, <2>2, <2>3
<1>7. ASSUME NEW x \in Link, Closes(t, f, new, x) PROVE Switching(l)'
  <2>1. l = active /\ status[l] = "active" /\ l # x /\ p = activePeer /\ PeerOf[l] \notin guessed
    BY <1>0, <1>7 DEF Closes, noted, TypeOK
  <2>2. Switching(l)  BY <2>1 DEF Session
  <2>3. f.op = "closeAll" /\ l \in f.todo => \E d \in new : d.op = "closeAll" /\ l \in d.todo
    BY <2>1, <1>7 DEF Closes
  <2>. QED  BY <2>2, <2>3, SwitchKept
<1>8. ASSUME NEW x \in Link, SetsUp(t, f, new, x) PROVE Switching(l)'
  BY <1>1, <1>8 DEF SetsUp
<1>9. ASSUME NEW x \in Link, NEW q, Registers(t, f, new, x, q) PROVE Switching(l)'
  BY <1>1, <1>9 DEF Registers, rns
<1>10. ASSUME NEW x \in Link, NEW q, Takes(t, f, new, x, q) PROVE Switching(l)'
  BY <1>10 DEF Takes, Sure
<1>11. ASSUME NEW x \in Link, NEW q, Forgets(t, f, new, x, q) PROVE Switching(l)'
  BY <1>1, <1>11 DEF Forgets, rns
<1>12. ASSUME NEW x \in Link, NEW next \in Link, FallsBack(t, f, new, x, next)
       PROVE  Switching(l)'
  BY <1>1, <1>12 DEF FallsBack, rns, noted
<1>13. ASSUME NEW x \in Link, Releases(t, f, new, x) PROVE Switching(l)'
  <2>1. UNCHANGED <<status, guessed>> /\ f.op # "closeAll"
    BY <1>13 DEF Releases, rns
  <2>2. l = active /\ p = activePeer  BY <2>1, <1>0, <1>13 DEF Releases
  <2>. QED  BY <2>1, <2>2, <1>1
<1>14. CASE Ends(t, f, new)
  BY <1>0, <1>1, <1>14 DEF Ends, rns
<1>15. CASE Resets(t, f, new)
  BY <1>0, <1>15 DEF Resets
<1>16. CASE Unlists(t, f, new)
  BY <1>1, <1>16 DEF Unlists, rns
<1>. QED  BY <1>3, <1>4, <1>5, <1>6, <1>7, <1>8, <1>9, <1>10, <1>11, <1>12, <1>13, <1>14, <1>15,
             <1>16 DEF Does

-----------------------------------------------------------------------------
(* An open link of a known peer, once it is registered, stays cached; a           *)
(* disconnect closes it before it ends, and the end of another link's callback    *)
(* finds it.                                                                      *)

Holds(t, c, l) ==
    \/ c.op = "adopt" /\ c.link = l
    \/ c.op = "closedMid" /\ l \in c.todo
    \/ c.op = "notify" /\ c.link = l /\ t = Ui
Reached(l) == \/ l = active \/ \E k \in Key : peerLinks[k] = l
              \/ \E t \in Thread : \E c \in Calls(t) : Holds(t, c, l)
CachedOpen == \A l \in Link :
    status[l] = "active" /\ PeerOf[l] \notin guessed \union crossed /\ Reached(l)
      => cached[l] = PeerOf[l]

Settled(l) == /\ l \in links /\ status[l] = "active" /\ cached[l] = PeerOf[l]
              /\ PeerOf[l] \notin guessed \union crossed
Leaves == \A c \in Calls(Ui) : c.op = "disconnectEnd" =>
    \A l \in c.todo : Settled(l) /\ PeerOf[l] = c.peer
      => \E d \in Calls(Ui) : d.op = "closeAll" /\ l \in d.todo
Mids == \A t \in Thread : \A c \in Calls(t) : c.op = "closedMid" =>
    \A l \in Link : Settled(l) /\ PeerOf[l] = c.peer => l \in c.todo
Listed == \A l \in Link : Settled(l) /\ PeerOf[l] \notin evicted =>
    \/ peerLinks[<<PeerOf[l], FamilyOf[l]>>] # NoLink
    \/ Pending({"welcome", "notify", "teardown"}, l)

(* Two threads with a peer between them are noted as crossing.                    *)
LEMMA CallsCross ==
  ASSUME IKnown, NEW t \in Thread, NEW u \in Thread, t # u, NEW c \in Calls(t), NEW d \in Calls(u)
  PROVE  About(c) \intersect About(d) \subseteq crossed
<1>1. About(c) \subseteq Topics(stack[t]) /\ About(d) \subseteq Topics(stack[u])
  BY TopicsElems DEF Calls
<1>. QED  BY <1>1 DEF IKnown, Cross

LEMMA AboutCall ==
  ASSUME NEW c, NEW p \in Peer
  PROVE  /\ c.peer = p => p \in About(c)
         /\ \A l \in Link : PeerOf[l] = p /\ l = c.link => p \in About(c)
         /\ \A l \in Link : PeerOf[l] = p /\ c.op = "closedMid" /\ l \in c.todo => p \in About(c)
         /\ c.op = "resetEnd" => p \in About(c)
BY NoneAssumption DEF About, Held

(* The histories only grow.                                                       *)
LEMMA HistoryGrows ==
  ASSUME NEW t \in Thread, NEW f, NEW new, Goes(t, f, new), Does(t, f, new)
  PROVE  /\ guessed \subseteq guessed' /\ crossed \subseteq crossed' /\ dead \subseteq dead'
         /\ kept \subseteq kept' /\ evicted \subseteq evicted'
<1>1. crossed \subseteq crossed'  BY DEF Goes
<1>2. CASE \/ Waits(t, f, new) \/ Opens(t, f, new)
           \/ \E p \in Peer : Dials(t, f, new, p) \/ Selects(t, f, new, p) \/ Departs(t, f, new, p)
  BY <1>1, <1>2 DEF Waits, Opens, Dials, Selects, Departs, noted, parted
<1>3. ASSUME NEW l \in Link, Closes(t, f, new, l) \/ SetsUp(t, f, new, l) \/ Releases(t, f, new, l)
      PROVE  /\ guessed \subseteq guessed' /\ dead \subseteq dead'
             /\ kept \subseteq kept' /\ evicted \subseteq evicted'
  BY <1>3 DEF Closes, SetsUp, Releases, noted, parted
<1>4. ASSUME NEW l, NEW p, \/ Registers(t, f, new, l, p) \/ Takes(t, f, new, l, p)
                           \/ Forgets(t, f, new, l, p) \/ FallsBack(t, f, new, l, p)
      PROVE  /\ guessed \subseteq guessed' /\ dead \subseteq dead'
             /\ kept \subseteq kept' /\ evicted \subseteq evicted'
  BY <1>4 DEF Registers, Takes, Forgets, FallsBack, noted, parted
<1>5. CASE Ends(t, f, new) \/ Resets(t, f, new) \/ Unlists(t, f, new)
  BY <1>1, <1>5 DEF Ends, Resets, Unlists, noted, parted
<1>. QED  BY <1>1, <1>2, <1>3, <1>4, <1>5 DEF Does

LEMMA ReachedHooked ==
  ASSUME IKnown, NEW l \in Link, Reached(l)
  PROVE  l \in hooked
<1>0. Hooks /\ NoLink \notin Link  BY NoneAssumption DEF IKnown
<1>1. CASE l = active \/ \E k \in Key : peerLinks[k] = l  BY <1>0, <1>1 DEF Hooks
<1>2. ASSUME NEW t \in Thread, NEW c \in Calls(t), Holds(t, c, l) PROVE l \in hooked
  <2>1. FrameOK(c)  BY DEF IKnown, Frames
  <2>. QED  BY <2>1, <1>2 DEF Holds, FrameOK
<1>. QED  BY <1>1, <1>2 DEF Reached

(* A link is reached by an earlier holder, or by what the step makes.             *)
LEMMA ReachedKept ==
  ASSUME NEW t \in Thread, NEW f, NEW new, Goes(t, f, new), NEW l \in Link, Reached(l)',
         l = active' => Reached(l),
         \A k \in Key : peerLinks'[k] = l => Reached(l),
         \A c \in new : Holds(t, c, l) => Reached(l)
  PROVE  Reached(l)
<1>1. CASE l = active' \/ \E k \in Key : peerLinks'[k] = l  BY <1>1
<1>2. ASSUME NEW u \in Thread, NEW c \in Calls(u)', Holds(u, c, l) PROVE Reached(l)
  <2>1. CASE u # t  BY <2>1, <1>2 DEF Goes, Reached
  <2>2. CASE u = t  BY <2>2, <1>2 DEF Goes, Reached
  <2>. QED  BY <2>1, <2>2
<1>3. \A u, c : Holds(u, c, l)' <=> Holds(u, c, l)  BY DEF Holds
<1>. QED  BY <1>1, <1>2, <1>3 DEF Reached

LEMMA CachedOpenStep ==
  ASSUME IKnown, CachedOpen, NEW t \in Thread, NEW f, NEW new, Goes(t, f, new), Does(t, f, new)
  PROVE  CachedOpen'
<1>0. TypeOK /\ Hooks /\ Filing /\ NoLink \notin Link /\ NoPeer \notin Peer /\ Idle.op = "none"
      /\ Ui \in Thread /\ Conn \in Thread /\ Ui # Conn /\ \A x \in Link : PeerOf[x] \in Peer
  BY NoneAssumption, LinkAssumption, ThreadAssumption, CallOps DEF IKnown, IType, Thread
<1>. SUFFICES ASSUME NEW l \in Link, status'[l] = "active", PeerOf[l] \notin guessed' \union crossed',
                     Reached(l)'
              PROVE  cached'[l] = PeerOf[l]
  BY DEF CachedOpen
<1>1. PeerOf[l] \notin guessed \union crossed  BY HistoryGrows
<1>2. ASSUME Reached(l), status[l] = "active" PROVE cached[l] = PeerOf[l]
  BY <1>1, <1>2 DEF CachedOpen
<1>3. CASE Waits(t, f, new)
  <2>1. UNCHANGED <<status, cached, peerLinks>>  BY <1>3 DEF Waits, rns, registry
  <2>2. l = active' => Reached(l)  BY <1>0, <1>3 DEF Waits, Reached
  <2>3. \A k \in Key : peerLinks'[k] = l => Reached(l)  BY <2>1 DEF Reached
  <2>4. \A c \in new : ~Holds(t, c, l)  BY <1>0, <1>3 DEF Waits, Holds
  <2>. QED  BY <2>1, <2>2, <2>3, <2>4, <1>2, ReachedKept
<1>4. CASE Opens(t, f, new)
  <2>1. UNCHANGED <<active, cached, peerLinks>>  BY <1>4 DEF Opens, registry
  <2>2. l = active' => Reached(l)  BY <2>1 DEF Reached
  <2>3. \A k \in Key : peerLinks'[k] = l => Reached(l)  BY <2>1 DEF Reached
  <2>4. \A c \in new : ~Holds(t, c, l)  BY <1>4 DEF Opens, Holds
  <2>5. Reached(l)  BY <2>2, <2>3, <2>4, ReachedKept
  <2>6. status[l] = "active"  BY <2>5, <1>4, ReachedHooked DEF Opens
  <2>. QED  BY <2>1, <2>5, <2>6, <1>2
<1>5. ASSUME NEW p \in Peer, Dials(t, f, new, p) \/ Selects(t, f, new, p) \/ Departs(t, f, new, p)
      PROVE  cached'[l] = PeerOf[l]
  <2>1. UNCHANGED <<status, active, cached, peerLinks>>
    BY <1>5 DEF Dials, Selects, Departs, rns, registry
  <2>2. l = active' => Reached(l)  BY <2>1 DEF Reached
  <2>3. \A k \in Key : peerLinks'[k] = l => Reached(l)  BY <2>1 DEF Reached
  <2>4. \A c \in new : ~Holds(t, c, l)
    <3>1. \A c \in new : c.op \in {"evict", "closeAll", "reuse", "disconnectEnd"}
      BY <1>5 DEF Dials, Selects, Departs
    <3>. QED  BY <3>1 DEF Holds
  <2>. QED  BY <2>1, <2>2, <2>3, <2>4, <1>2, ReachedKept
<1>6. ASSUME NEW x \in Link, Closes(t, f, new, x) PROVE cached'[l] = PeerOf[l]
  <2>1. UNCHANGED <<active, cached, peerLinks>>  BY <1>6 DEF Closes, registry
  <2>2. l = active' => Reached(l)  BY <2>1 DEF Reached
  <2>3. \A k \in Key : peerLinks'[k] = l => Reached(l)  BY <2>1 DEF Reached
  <2>4. \A c \in new : ~Holds(t, c, l)  BY <1>6 DEF Closes, Holds
  <2>5. status[l] = "active"  BY <1>0, <1>6 DEF Closes, TypeOK
  <2>. QED  BY <2>1, <2>2, <2>3, <2>4, <2>5, <1>2, ReachedKept
<1>7. ASSUME NEW x \in Link, SetsUp(t, f, new, x) PROVE cached'[l] = PeerOf[l]
  <2>1. UNCHANGED <<status, active, peerLinks>>  BY <1>7 DEF SetsUp
  <2>2. l = active' => Reached(l)  BY <2>1 DEF Reached
  <2>3. \A k \in Key : peerLinks'[k] = l => Reached(l)  BY <2>1 DEF Reached
  <2>4. \A c \in new : ~Holds(t, c, l)  BY <1>7 DEF SetsUp, Holds
  <2>5. cached[l] = PeerOf[l]  BY <2>1, <2>2, <2>3, <2>4, <1>2, ReachedKept
  <2>. QED  BY <2>5, <1>7 DEF SetsUp
<1>8. ASSUME NEW x \in Link, NEW q, Registers(t, f, new, x, q) PROVE cached'[l] = PeerOf[l]
  <2>1. CASE l = x  BY <2>1, <1>0, <1>8 DEF Registers, TypeOK
  <2>2. CASE l # x
    <3>1. UNCHANGED <<status, active>> /\ cached'[l] = cached[l]
      BY <2>2, <1>0, <1>8 DEF Registers, TypeOK, rns
    <3>2. l = active' => Reached(l)  BY <3>1 DEF Reached
    <3>3. \A k \in Key : peerLinks'[k] = l => Reached(l)  BY <2>2, <1>0, <1>8 DEF Registers, Reached
    <3>4. \A c \in new : ~Holds(t, c, l)  BY <2>2, <1>8 DEF Registers, Holds
    <3>. QED  BY <3>1, <3>2, <3>3, <3>4, <1>2, ReachedKept
  <2>. QED  BY <2>1, <2>2
<1>9. ASSUME NEW x \in Link, NEW q, Takes(t, f, new, x, q) PROVE cached'[l] = PeerOf[l]
  <2>1. UNCHANGED <<status, cached, peerLinks>> /\ new = {} /\ active' = x
    BY <1>9 DEF Takes, rns, registry
  <2>2. f \in Calls(t) /\ Holds(t, f, x)  BY <1>0, <1>9 DEF Takes, Goes, Holds
  <2>3. l = active' => Reached(l)  BY <2>1, <2>2 DEF Reached
  <2>4. \A k \in Key : peerLinks'[k] = l => Reached(l)  BY <2>1 DEF Reached
  <2>. QED  BY <2>1, <2>3, <2>4, <1>2, ReachedKept
<1>10. ASSUME NEW x \in Link, NEW q, Forgets(t, f, new, x, q) PROVE cached'[l] = PeerOf[l]
  <2>1. UNCHANGED <<status, active, peerLinks>> /\ l # x /\ cached'[l] = cached[l]
    BY <1>0, <1>10 DEF Forgets, TypeOK, rns
  <2>2. l = active' => Reached(l)  BY <2>1 DEF Reached
  <2>3. \A k \in Key : peerLinks'[k] = l => Reached(l)  BY <2>1 DEF Reached
  <2>4. SUFFICES ASSUME cached[l] # PeerOf[l] PROVE FALSE  BY <2>1
  <2>5. \A c \in new : ~Holds(t, c, l)
    <3>1. SUFFICES ASSUME l \in OtherActive(q, x) PROVE FALSE  BY <1>10 DEF Forgets, Holds
    <3>2. cached[l] # NoPeer  BY <3>1 DEF OtherActive
    <3>. QED  BY <3>2, <2>4, <1>0, <1>1 DEF Filing, Sure
  <2>. QED  BY <2>1, <2>2, <2>3, <2>4, <2>5, <1>2, ReachedKept
<1>11. ASSUME NEW x \in Link, NEW next \in Link, FallsBack(t, f, new, x, next)
       PROVE  cached'[l] = PeerOf[l]
  <2>1. UNCHANGED <<status, active, cached>>  BY <1>11 DEF FallsBack, rns
  <2>2. f \in Calls(t) /\ Holds(t, f, next)  BY <1>0, <1>11 DEF FallsBack, Goes, Holds
  <2>3. l = active' => Reached(l)  BY <2>1 DEF Reached
  <2>4. Reached(next)  BY <2>2 DEF Reached
  <2>5. \A k \in Key : peerLinks'[k] = l => Reached(l)
    <3>1. \A k \in Key : peerLinks'[k] \in {peerLinks[k], next}  BY <1>0, <1>11 DEF FallsBack, TypeOK
    <3>. QED  BY <3>1, <2>4 DEF Reached
  <2>6. \A c \in new : Holds(t, c, l) => l = next  BY <1>11 DEF FallsBack, Holds
  <2>. QED  BY <2>1, <2>3, <2>4, <2>5, <2>6, <1>2, ReachedKept
<1>12. ASSUME NEW x \in Link, Releases(t, f, new, x) PROVE cached'[l] = PeerOf[l]
  <2>1. UNCHANGED <<status, cached>> /\ new = {}  BY <1>12 DEF Releases, rns
  <2>2. f \in Calls(t)  BY <1>0, <1>12 DEF Releases, Goes
  <2>3. SUFFICES ASSUME cached[l] # PeerOf[l] PROVE FALSE  BY <2>1
  <2>4. l = active' => Reached(l)  BY <2>3, <1>0, <1>1, <1>12 DEF Releases, Reached
  <2>5. \A k \in Key : peerLinks'[k] = l => Reached(l)
    <3>1. CASE peerLinks' = peerLinks  BY <3>1 DEF Reached
    <3>2. CASE peerLinks' = Unlinked(f.peer, TRUE, {})  BY <3>2, <1>0 DEF Unlinked, Reached
    <3>3. ASSUME NEW next \in f.todo, f.op = "closedMid",
                 peerLinks' = [peerLinks EXCEPT ![<<f.peer, "bare">>] = next]
          PROVE  \A k \in Key : peerLinks'[k] = l => Reached(l)
      <4>1. Holds(t, f, next)  BY <3>3 DEF Holds
      <4>2. Reached(next)  BY <4>1, <2>2 DEF Reached
      <4>3. \A k \in Key : peerLinks'[k] \in {peerLinks[k], next}  BY <3>3, <1>0 DEF TypeOK
      <4>. QED  BY <4>2, <4>3 DEF Reached
    <3>. QED  BY <3>1, <3>2, <3>3, <1>12 DEF Releases
  <2>. QED  BY <2>1, <2>3, <2>4, <2>5, <1>2, ReachedKept
<1>13. CASE Ends(t, f, new) \/ Unlists(t, f, new)
  <2>1. UNCHANGED <<status, cached>> /\ new = {} /\ active' \in {active, NoLink}
    BY <1>13 DEF Ends, Unlists, rns
  <2>2. l = active' => Reached(l)  BY <2>1, <1>0 DEF Reached
  <2>3. \A k \in Key : peerLinks'[k] = l => Reached(l)
    BY <1>0, <1>13 DEF Ends, Unlists, Unlinked, Reached
  <2>. QED  BY <2>1, <2>2, <2>3, <1>2, ReachedKept
<1>14. CASE Resets(t, f, new)
  <2>1. active' # l /\ \A k \in Key : peerLinks'[k] # l  BY <1>0, <1>14 DEF Resets
  <2>2. PICK u \in Thread : \E c \in Calls(u)' : Holds(u, c, l)'  BY <2>1 DEF Reached
  <2>3. PICK c \in Calls(u)' : Holds(u, c, l)  BY <2>2 DEF Holds
  <2>4. f \in Calls(t) /\ Calls(t) = {f} /\ f.op = "resetEnd" /\ t = Ui
    BY <1>0, <1>14 DEF Resets, Goes, Bottoms
  <2>5. u # t
    <3>1. SUFFICES ASSUME u = t PROVE FALSE  OBVIOUS
    <3>2. c = f  BY <3>1, <2>3, <2>4, <1>14 DEF Goes, Resets
    <3>. QED  BY <3>2, <2>3, <2>4 DEF Holds
  <2>6. c \in Calls(u)  BY <2>3, <2>5 DEF Goes
  <2>7. PeerOf[l] \in About(c)  BY <2>3, <2>4, <2>5, <1>0, AboutCall DEF Holds
  <2>8. PeerOf[l] \in About(f)  BY <2>4, <1>0, AboutCall
  <2>9. PeerOf[l] \in crossed  BY <2>4, <2>5, <2>6, <2>7, <2>8, CallsCross
  <2>. QED  BY <2>9, <1>1
<1>. QED  BY <1>3, <1>4, <1>5, <1>6, <1>7, <1>8, <1>9, <1>10, <1>11, <1>12, <1>13, <1>14 DEF Does

(* A link settles, off the event loop, when its callbacks are set or when a        *)
(* notification registers it.                                                     *)
LEMMA Settles ==
  ASSUME IKnown, CachedOpen, NEW t \in Thread, NEW f, NEW new, Goes(t, f, new), Does(t, f, new),
         NEW l \in Link, Settled(l)'
  PROVE  \/ Settled(l)
         \/ /\ t # Ui /\ f \in Calls(t) /\ f.link = l
            /\ \/ SetsUp(t, f, new, l)
               \/ f.op = "notify" /\ \E q : Registers(t, f, new, l, q)
<1>0. TypeOK /\ Hooks /\ NoLink \notin Link /\ NoPeer \notin Peer /\ Idle.op = "none"
      /\ \A x \in Link : PeerOf[x] \in Peer
  BY NoneAssumption, LinkAssumption, CallOps DEF IKnown, IType
<1>1. l \in links' /\ status'[l] = "active" /\ cached'[l] = PeerOf[l]
      /\ PeerOf[l] \notin guessed \union crossed /\ PeerOf[l] \notin guessed'
  BY HistoryGrows DEF Settled
<1>2. ASSUME status[l] = "active", l \in links, cached[l] = PeerOf[l] PROVE Settled(l)
  BY <1>1, <1>2 DEF Settled
<1>3. CASE Waits(t, f, new)
  BY <1>1, <1>2, <1>3 DEF Waits, rns, registry
<1>4. CASE Opens(t, f, new)
  BY <1>0, <1>1, <1>2, <1>4 DEF Opens, registry, TypeOK
<1>5. ASSUME NEW p \in Peer, Dials(t, f, new, p) \/ Selects(t, f, new, p) \/ Departs(t, f, new, p) PROVE Settled(l)
  BY <1>1, <1>2, <1>5 DEF Dials, Selects, Departs, rns, registry
<1>6. ASSUME NEW x \in Link, Closes(t, f, new, x) PROVE Settled(l)
  BY <1>0, <1>1, <1>2, <1>6 DEF Closes, registry, TypeOK
<1>7. ASSUME NEW x \in Link, SetsUp(t, f, new, x) PROVE Settled(l) \/ l = x
  BY <1>1, <1>2, <1>7 DEF SetsUp
<1>8. ASSUME NEW x \in Link, NEW q, Registers(t, f, new, x, q)
      PROVE  Settled(l) \/ (l = x /\ f.op = "notify" /\ t # Ui)
  <2>1. UNCHANGED <<status, links>>  BY <1>8 DEF Registers, rns
  <2>2. CASE l # x
    <3>1. cached'[l] = cached[l]  BY <2>2, <1>0, <1>8 DEF Registers, TypeOK
    <3>. QED  BY <2>1, <3>1, <1>1, <1>2
  <2>3. CASE f.op = "adopt" \/ t = Ui
    <3>1. CASE l = x
      <4>1. f \in Calls(t) /\ Holds(t, f, l)
        BY <2>3, <3>1, <1>0, <1>8 DEF Registers, Goes, Holds
      <4>2. cached[l] = PeerOf[l]  BY <4>1, <2>1, <1>1 DEF CachedOpen, Reached
      <4>. QED  BY <4>2, <2>1, <1>1, <1>2
    <3>. QED  BY <3>1, <2>2
  <2>. QED  BY <2>2, <2>3, <1>8 DEF Registers
<1>9. ASSUME NEW x \in Link, NEW q, Takes(t, f, new, x, q) PROVE Settled(l)
  BY <1>1, <1>2, <1>9 DEF Takes, rns, registry
<1>10. ASSUME NEW x \in Link, NEW q, Forgets(t, f, new, x, q) PROVE Settled(l)
  BY <1>0, <1>1, <1>2, <1>10 DEF Forgets, rns, TypeOK
<1>11. ASSUME NEW x \in Link, NEW next \in Link, FallsBack(t, f, new, x, next) PROVE Settled(l)
  BY <1>1, <1>2, <1>11 DEF FallsBack, rns
<1>12. ASSUME NEW x \in Link, Releases(t, f, new, x) PROVE Settled(l)
  <2>1. UNCHANGED <<status, links, cached>>  BY <1>12 DEF Releases, rns
  <2>. QED  BY <2>1, <1>1, <1>2
<1>13. CASE Ends(t, f, new) \/ Unlists(t, f, new)
  <2>1. UNCHANGED <<status, links, cached>>  BY <1>13 DEF Ends, Unlists, rns
  <2>. QED  BY <2>1, <1>1, <1>2
<1>14. CASE Resets(t, f, new)
  BY <1>0, <1>1, <1>14 DEF Resets
<1>15. ASSUME SetsUp(t, f, new, l) \/ \E q : Registers(t, f, new, l, q)
       PROVE  f \in Calls(t) /\ f.link = l /\ (SetsUp(t, f, new, l) => t # Ui)
  BY <1>0, <1>15 DEF SetsUp, Registers, Goes
<1>. QED  BY <1>3, <1>4, <1>5, <1>6, <1>7, <1>8, <1>9, <1>10, <1>11, <1>12, <1>13, <1>14, <1>15
          DEF Does

(* It meets no call about its peer on another thread.                             *)
LEMMA SettlesAlone ==
  ASSUME IKnown, CachedOpen, NEW t \in Thread, NEW f, NEW new, Goes(t, f, new), Does(t, f, new),
         NEW l \in Link, Settled(l)', ~Settled(l), NEW u \in Thread, u = Ui \/ u # t,
         NEW c \in Calls(u)
  PROVE  PeerOf[l] \notin About(c)
<1>1. PeerOf[l] \in Peer /\ PeerOf[l] \notin crossed  BY HistoryGrows, LinkAssumption DEF Settled
<1>2. t # Ui /\ f \in Calls(t) /\ f.link = l  BY Settles
<1>3. PeerOf[l] \in About(f)  BY <1>1, <1>2, AboutCall
<1>4. t # u  BY <1>2
<1>. QED  BY <1>1, <1>2, <1>3, <1>4, CallsCross

(* Where the calls that end a disconnect, a reset and a close come from.          *)
LEMMA NewCalls ==
  ASSUME NEW t \in Thread, NEW f, NEW new, Does(t, f, new), NEW c \in new
  PROVE  /\ c.op = "disconnectEnd" => \E p \in Peer : Departs(t, f, new, p)
         /\ c.op = "closedMid" => \E l \in Link, p \in Peer \union {NoPeer} : Forgets(t, f, new, l, p)
         /\ c.op = "adopt" => \E l \in Link : \E p : Registers(t, f, new, l, p)
<1>. DEFINE P == c.op \notin {"disconnectEnd", "closedMid", "adopt"}
<1>1. CASE Waits(t, f, new) \/ Opens(t, f, new)
  <2>1. P  BY <1>1 DEF Waits, Opens
  <2>. QED  BY <2>1
<1>2. ASSUME NEW p \in Peer, Dials(t, f, new, p) \/ Selects(t, f, new, p) PROVE P
  BY <1>2 DEF Dials, Selects
<1>3. ASSUME NEW p \in Peer, Departs(t, f, new, p) PROVE c.op \notin {"closedMid", "adopt"}
  BY <1>3 DEF Departs
<1>4. ASSUME NEW l \in Link, Closes(t, f, new, l) \/ SetsUp(t, f, new, l) \/ Releases(t, f, new, l)
      PROVE  P
  BY <1>4 DEF Closes, SetsUp, Releases
<1>5. ASSUME NEW l \in Link, NEW p, Registers(t, f, new, l, p)
      PROVE  c.op \notin {"disconnectEnd", "closedMid"}
  BY <1>5 DEF Registers
<1>6. ASSUME NEW l \in Link, NEW p, Takes(t, f, new, l, p) \/ FallsBack(t, f, new, l, p) PROVE P
  BY <1>6 DEF Takes, FallsBack
<1>7. ASSUME NEW l \in Link, NEW p, Forgets(t, f, new, l, p)
      PROVE  c.op \notin {"disconnectEnd", "adopt"}
  BY <1>7 DEF Forgets
<1>8. CASE Ends(t, f, new) \/ Resets(t, f, new) \/ Unlists(t, f, new)
  <2>1. P  BY <1>8 DEF Ends, Resets, Unlists
  <2>. QED  BY <2>1
<1>. QED  BY <1>1, <1>2, <1>3, <1>4, <1>5, <1>6, <1>7, <1>8 DEF Does

LEMMA LoopEnds ==
  ASSUME NEW t \in Thread, NEW f, NEW new, Does(t, f, new), f.op = "closeAll"
  PROVE  \E l \in Link : Closes(t, f, new, l)
<1>1. CASE Waits(t, f, new) \/ Opens(t, f, new)  BY <1>1 DEF Waits, Opens
<1>2. ASSUME NEW p \in Peer, Dials(t, f, new, p) \/ Selects(t, f, new, p) \/ Departs(t, f, new, p) PROVE FALSE
  BY <1>2, CallOps DEF Dials, Selects, Departs
<1>3. ASSUME NEW l \in Link, SetsUp(t, f, new, l) \/ Releases(t, f, new, l) PROVE FALSE
  BY <1>3 DEF SetsUp, Releases
<1>4. ASSUME NEW l \in Link, NEW p, \/ Registers(t, f, new, l, p) \/ Takes(t, f, new, l, p)
                                    \/ Forgets(t, f, new, l, p) \/ FallsBack(t, f, new, l, p)
      PROVE  FALSE
  BY <1>4 DEF Registers, Takes, Forgets, FallsBack
<1>5. CASE Ends(t, f, new) \/ Resets(t, f, new) \/ Unlists(t, f, new)
  BY <1>5 DEF Ends, Resets, Unlists
<1>. QED  BY <1>1, <1>2, <1>3, <1>4, <1>5 DEF Does

LEMMA LeavesStep ==
  ASSUME IKnown, IKnown', CachedOpen, Leaves,
         NEW t \in Thread, NEW f, NEW new, Goes(t, f, new), Does(t, f, new)
  PROVE  Leaves'
<1>0. TypeOK /\ Ui \in Thread /\ \A x \in Link : PeerOf[x] \in Peer
  BY LinkAssumption DEF IKnown, IType, Thread
<1>. SUFFICES ASSUME NEW c \in Calls(Ui)', c.op = "disconnectEnd", NEW l \in c.todo, l \in Link,
                     Settled(l)', PeerOf[l] = c.peer
              PROVE  \E d \in Calls(Ui)' : d.op = "closeAll" /\ l \in d.todo
  <2>1. \A l : Settled(l)' => l \in links'  BY DEF Settled
  <2>2. links' \subseteq Link  BY DEF IKnown, IType, TypeOK
  <2>. QED  BY <2>1, <2>2 DEF Leaves
<1>1. ASSUME c \in Calls(Ui) PROVE Settled(l)
  <2>1. SUFFICES ASSUME ~Settled(l) PROVE FALSE  OBVIOUS
  <2>2. PeerOf[l] \notin About(c)  BY <2>1, <1>0, <1>1, SettlesAlone
  <2>. QED  BY <2>2, <1>0, AboutCall
<1>2. ASSUME c \in Calls(Ui) PROVE \E d \in Calls(Ui)' : d.op = "closeAll" /\ l \in d.todo
  <2>1. PICK d \in Calls(Ui) : d.op = "closeAll" /\ l \in d.todo  BY <1>1, <1>2 DEF Leaves
  <2>2. CASE t # Ui  BY <2>1, <2>2, <1>0 DEF Goes
  <2>3. CASE t = Ui /\ d # f  BY <2>1, <2>3 DEF Goes
  <2>4. CASE t = Ui /\ d = f
    <3>1. PICK x \in Link : Closes(t, f, new, x)  BY <2>1, <2>4, LoopEnds
    <3>2. l # x  BY <3>1, <1>0 DEF Closes, Settled, TypeOK
    <3>3. \E e \in new : e.op = "closeAll" /\ l \in e.todo  BY <2>1, <2>4, <3>1, <3>2 DEF Closes
    <3>. QED  BY <2>4, <3>3 DEF Goes
  <2>. QED  BY <2>2, <2>3, <2>4
<1>3. CASE c \notin Calls(Ui)
  <2>1. t = Ui /\ c \in new  BY <1>3, <1>0 DEF Goes
  <2>2. PICK p \in Peer : Departs(t, f, new, p)  BY <2>1, NewCalls
  <2>3. UNCHANGED <<identified, cached, links>>  BY <2>2 DEF Departs, rns, registry
  <2>4. l \in links /\ cached[l] = PeerOf[l]  BY <2>3 DEF Settled
  <2>5. Remote(l) = PeerOf[l]  BY <2>4 DEF Remote
  <2>6. \E d \in new : d.op = "closeAll" /\ l \in d.todo
    <3>1. PICK e \in new : /\ e.op = "disconnectEnd" /\ e.peer = p
                           /\ \A d \in new : d = e \/ d.op = "closeAll"
                           /\ \A x \in links : x \in e.todo /\ Remote(x) = p
                                => \E d \in new : d.op = "closeAll" /\ x \in d.todo
      BY <2>2 DEF Departs
    <3>2. c = e  BY <2>1, <3>1
    <3>. QED  BY <3>1, <3>2, <2>4, <2>5
  <2>. QED  BY <2>1, <2>6 DEF Goes
<1>. QED  BY <1>2, <1>3

LEMMA MidsStep ==
  ASSUME IKnown, CachedOpen, Mids,
         NEW t \in Thread, NEW f, NEW new, Goes(t, f, new), Does(t, f, new)
  PROVE  Mids'
<1>0. TypeOK /\ NoPeer \notin Peer /\ \A x \in Link : PeerOf[x] \in Peer
  BY LinkAssumption, NoneAssumption DEF IKnown, IType
<1>. SUFFICES ASSUME NEW u \in Thread, NEW c \in Calls(u)', c.op = "closedMid", NEW l \in Link,
                     Settled(l)', PeerOf[l] = c.peer
              PROVE  l \in c.todo
  BY DEF Mids
<1>1. CASE c \in Calls(u)
  <2>1. CASE Settled(l)  BY <2>1, <1>1 DEF Mids
  <2>2. CASE ~Settled(l)
    <3>1. f \in Calls(t) /\ f.op # "closedMid" /\ f.op # "none"
      BY <2>2, Settles DEF SetsUp
    <3>2. f # Idle  BY <3>1, CallOps
    <3>3. PeerOf[l] \in About(c)  BY <1>0, AboutCall
    <3>4. CASE u = t  BY <3>1, <3>2, <3>4, <1>1 DEF Goes, Tops
    <3>5. CASE u # t  BY <3>3, <3>5, <2>2, <1>1, SettlesAlone
    <3>. QED  BY <3>4, <3>5
  <2>. QED  BY <2>1, <2>2
<1>2. CASE c \notin Calls(u)
  <2>1. u = t /\ c \in new  BY <1>2 DEF Goes
  <2>2. PICK x \in Link, p \in Peer \union {NoPeer} : Forgets(t, f, new, x, p)  BY <2>1, NewCalls
  <2>3. c.peer = p /\ c.todo = OtherActive(p, x)  BY <2>1, <2>2 DEF Forgets
  <2>4. l # x /\ l \in links /\ status[l] = "active" /\ cached[l] = p /\ p # NoPeer
    BY <2>2, <2>3, <1>0 DEF Forgets, Settled, TypeOK, rns
  <2>. QED  BY <2>3, <2>4 DEF OtherActive
<1>. QED  BY <1>1, <1>2

LEMMA ListedStep ==
  ASSUME IKnown, CachedOpen, Leaves, Mids, Listed,
         NEW t \in Thread, NEW f, NEW new, Goes(t, f, new), Does(t, f, new)
  PROVE  Listed'
<1>0. TypeOK /\ NoLink \notin Link /\ Idle.op = "none" /\ "bare" \notin Family
      /\ \A x \in Link : PeerOf[x] \in Peer /\ FamilyOf[x] \in Family
  BY LinkAssumption, NoneAssumption, CallOps DEF IKnown, IType, Family
<1>. DEFINE Ops3 == {"welcome", "notify", "teardown"}
<1>. SUFFICES ASSUME NEW l \in Link, Settled(l)', PeerOf[l] \notin evicted',
                     NEW k, k = <<PeerOf[l], FamilyOf[l]>>, peerLinks'[k] = NoLink
              PROVE  Pending(Ops3, l)'
  BY DEF Listed
<1>1. k \in Key /\ k[1] = PeerOf[l] /\ k[2] = FamilyOf[l] /\ k[2] # "bare"
      /\ \A p : k # <<p, "bare">>
  BY <1>0 DEF Key
<1>2. PeerOf[l] \notin evicted /\ status'[l] = "active" /\ cached'[l] = PeerOf[l]
      /\ PeerOf[l] \notin guessed'
  BY HistoryGrows DEF Settled
<1>3. ASSUME NEW q, Registers(t, f, new, l, q) PROVE FALSE
  <2>1. q = PeerOf[l]  BY <1>0, <1>2, <1>3 DEF Registers, TypeOK
  <2>. QED  BY <2>1, <1>0, <1>3 DEF Registers
<1>4. ASSUME SetsUp(t, f, new, l) PROVE Pending(Ops3, l)'
  BY <1>4, PendingNew DEF SetsUp
<1>5. CASE ~Settled(l)  BY <1>3, <1>4, <1>5, Settles
<1>6. ASSUME Settled(l), ~(f.op \in Ops3 /\ f.link = l), peerLinks[k] = NoLink
      PROVE  Pending(Ops3, l)'
  <2>1. Pending(Ops3, l)  BY <1>2, <1>6 DEF Listed
  <2>. QED  BY <2>1, <1>6, PendingKept
<1>7. CASE Settled(l)
  <2>1. CASE Waits(t, f, new)
    <3>1. UNCHANGED peerLinks  BY <2>1 DEF Waits, registry
    <3>2. cached[l] # NoPeer  BY <1>0, <1>7, NoneAssumption DEF Settled
    <3>3. ~(f.op \in Ops3 /\ f.link = l)  BY <2>1, <3>2 DEF Waits
    <3>. QED  BY <3>1, <3>3, <1>6, <1>7
  <2>2. CASE Opens(t, f, new)
    BY <2>2, <1>6, <1>7 DEF Opens, registry
  <2>3. ASSUME NEW p \in Peer, Dials(t, f, new, p) \/ Selects(t, f, new, p) \/ Departs(t, f, new, p)
        PROVE  Pending(Ops3, l)'
    BY <2>3, <1>0, <1>6, <1>7 DEF Dials, Selects, Departs, registry
  <2>4. ASSUME NEW x \in Link, Closes(t, f, new, x) PROVE Pending(Ops3, l)'
    <3>1. l # x /\ UNCHANGED peerLinks  BY <2>4, <1>0, <1>2 DEF Closes, TypeOK, registry
    <3>2. ~(f.op \in Ops3 /\ f.link = l)  BY <2>4, <3>1 DEF Closes
    <3>. QED  BY <3>1, <3>2, <1>6, <1>7
  <2>5. ASSUME NEW x \in Link, SetsUp(t, f, new, x) PROVE Pending(Ops3, l)'
    <3>1. CASE x = l  BY <3>1, <2>5, <1>4
    <3>2. CASE x # l
      <4>1. f.link # l /\ UNCHANGED peerLinks  BY <2>5, <3>2 DEF SetsUp
      <4>. QED  BY <4>1, <1>6, <1>7
    <3>. QED  BY <3>1, <3>2
  <2>6. ASSUME NEW x \in Link, NEW q, Registers(t, f, new, x, q) PROVE Pending(Ops3, l)'
    <3>1. CASE x = l  BY <3>1, <2>6, <1>3
    <3>2. CASE x # l
      <4>1. f.link # l /\ peerLinks'[k] \in {peerLinks[k], x}  BY <2>6, <3>2, <1>1 DEF Registers
      <4>. QED  BY <4>1, <1>0, <1>6, <1>7
    <3>. QED  BY <3>1, <3>2
  <2>7. ASSUME NEW x \in Link, NEW q, Takes(t, f, new, x, q) PROVE Pending(Ops3, l)'
    BY <2>7, <1>6, <1>7 DEF Takes, registry
  <2>8. ASSUME NEW x \in Link, NEW q, Forgets(t, f, new, x, q) PROVE Pending(Ops3, l)'
    BY <2>8, <1>6, <1>7 DEF Forgets
  <2>9. ASSUME NEW x \in Link, NEW next \in Link, FallsBack(t, f, new, x, next)
        PROVE  Pending(Ops3, l)'
    <3>1. peerLinks'[k] = peerLinks[k]  BY <2>9, <1>0, <1>1 DEF FallsBack, TypeOK
    <3>2. f.op \notin Ops3  BY <2>9 DEF FallsBack
    <3>. QED  BY <3>1, <3>2, <1>6, <1>7
  <2>10. ASSUME NEW x \in Link, Releases(t, f, new, x) PROVE Pending(Ops3, l)'
    <3>0. f.op \notin Ops3 /\ f \in Calls(t)  BY <2>10, <1>0 DEF Releases, Goes
    <3>1. peerLinks'[k] = peerLinks[k]
      <4>1. CASE peerLinks' = peerLinks  BY <4>1
      <4>2. CASE f.op = "closedMid" /\ f.todo = {} /\ peerLinks' = Unlinked(f.peer, TRUE, {})
        <5>1. PeerOf[l] # f.peer  BY <4>2, <3>0, <1>7 DEF Mids
        <5>. QED  BY <5>1, <4>2, <1>1 DEF Unlinked
      <4>3. ASSUME NEW next \in f.todo, peerLinks' = [peerLinks EXCEPT ![<<f.peer, "bare">>] = next]
            PROVE  peerLinks'[k] = peerLinks[k]
        BY <4>3, <1>0, <1>1 DEF TypeOK
      <4>. QED  BY <4>1, <4>2, <4>3, <2>10 DEF Releases
    <3>. QED  BY <3>0, <3>1, <1>6, <1>7
  <2>11. CASE Ends(t, f, new)
    <3>1. f \in Calls(t) /\ Calls(t) = {f} /\ t = Ui /\ f.op = "disconnectEnd"
          /\ peerLinks' = Unlinked(f.peer, f.promote, f.todo)
      BY <2>11, <1>0 DEF Ends, Goes, Bottoms
    <3>2. FrameOK(f)  BY <3>1 DEF IKnown, Frames
    <3>3. CASE PeerOf[l] = f.peer /\ l \in f.todo
      <4>1. PICK d \in Calls(Ui) : d.op = "closeAll"  BY <3>1, <3>3, <1>7 DEF Leaves
      <4>. QED  BY <4>1, <3>1
    <3>4. CASE PeerOf[l] # f.peer \/ l \notin f.todo
      <4>1. PeerOf[l] = f.peer =>
              f.promote # TRUE /\ FamilyOf[l] \notin {FamilyOf[x] : x \in f.todo}
        BY <3>1, <3>2, <3>4 DEF FrameOK
      <4>2. peerLinks'[k] = peerLinks[k]  BY <4>1, <3>1, <1>1 DEF Unlinked
      <4>. QED  BY <3>1, <4>2, <1>6, <1>7
    <3>. QED  BY <3>3, <3>4
  <2>12. CASE Resets(t, f, new)
    BY <2>12, <1>0, <1>2, NoneAssumption DEF Resets
  <2>13. CASE Unlists(t, f, new)
    <3>1. PeerOf[l] # f.peer  BY <2>13 DEF Unlists
    <3>2. peerLinks'[k] = peerLinks[k]  BY <3>1, <2>13, <1>1 DEF Unlists, Unlinked
    <3>3. f.op \notin Ops3  BY <2>13 DEF Unlists
    <3>. QED  BY <3>2, <3>3, <1>6, <1>7
  <2>. QED  BY <2>1, <2>2, <2>3, <2>4, <2>5, <2>6, <2>7, <2>8, <2>9, <2>10, <2>11, <2>12, <2>13
            DEF Does
<1>. QED  BY <1>5, <1>7

-----------------------------------------------------------------------------
(* The user's word: a peer that was left is not the session's, and no call that    *)
(* may make it so is under way, but on the event loop that is leaving it.          *)

Clean(p) == p \notin guessed \union crossed \union kept \union {PeerOf[l] : l \in dead}
Leaving(p) == \E c \in Calls(Ui) : c.op = "disconnectEnd" /\ c.peer = p /\ c.promote
LeftIsLeft == \A p \in off, a \in Link :
    a = active /\ (p = activePeer \/ p = PeerOf[a]) /\ Clean(p) => Leaving(p)
Promoting(c) == c.op = "adopt" \/ (c.op = "notify" /\ c.promote)
Promoted == \A t \in Thread : \A c \in Calls(t) :
    Promoting(c) /\ PeerOf[c.link] \in off /\ Clean(PeerOf[c.link])
      => t = Ui /\ Leaving(PeerOf[c.link])
Dialled == \A c \in Calls(Conn) :
    c.op \in {"evict", "reuse", "outbound"} => c.peer \notin off \/ c.peer \in crossed

LEMMA CallsCrossNext ==
  ASSUME IKnown', NEW t \in Thread, NEW u \in Thread, t # u,
         NEW c \in Calls(t)', NEW d \in Calls(u)'
  PROVE  About(c) \intersect About(d) \subseteq crossed'
<1>1. PICK s, r : s = stack'[t] /\ r = stack'[u]  OBVIOUS
<1>2. c \in Elems(s) /\ d \in Elems(r)  BY <1>1 DEF Calls
<1>3. About(c) \subseteq Topics(s) /\ About(d) \subseteq Topics(r)  BY <1>2, TopicsElems
<1>4. Topics(s) \intersect Topics(r) \subseteq crossed'
  <2>1. Cross'  BY DEF IKnown
  <2>2. Topics(stack'[t]) \intersect Topics(stack'[u]) \subseteq crossed'
    BY <2>1 DEF Cross, Topics
  <2>. QED  BY <2>2, <1>1, Zenon
<1>. QED  BY <1>3, <1>4

LEMMA CleanBefore ==
  ASSUME NEW t \in Thread, NEW f, NEW new, Goes(t, f, new), Does(t, f, new), NEW p, Clean(p)'
  PROVE  Clean(p) /\ p \notin guessed \union crossed /\ p \notin guessed' \union crossed'
BY HistoryGrows DEF Clean

LEMMA LeavingKept ==
  ASSUME NEW t \in Thread, NEW f, NEW new, Goes(t, f, new), NEW p, Leaving(p),
         f.op # "disconnectEnd", Ui \in Thread
  PROVE  Leaving(p)'
<1>1. PICK c \in Calls(Ui) : c.op = "disconnectEnd" /\ c.peer = p /\ c.promote  BY DEF Leaving
<1>2. c \in Calls(Ui)'  BY <1>1 DEF Goes
<1>. QED  BY <1>1, <1>2 DEF Leaving

(* What is done to the peers that were left.                                      *)
LEMMA OffSteps ==
  ASSUME NEW t \in Thread, NEW f, NEW new, Does(t, f, new)
  PROVE  \/ off' = off /\ f.op # "disconnectEnd"
         \/ \E p \in Peer : Dials(t, f, new, p) \/ Departs(t, f, new, p)
         \/ Ends(t, f, new)
<1>1. CASE Waits(t, f, new) \/ Opens(t, f, new)  BY <1>1 DEF Waits, Opens
<1>2. ASSUME NEW l \in Link, Closes(t, f, new, l) \/ SetsUp(t, f, new, l) \/ Releases(t, f, new, l)
      PROVE  off' = off /\ f.op # "disconnectEnd"
  BY <1>2 DEF Closes, SetsUp, Releases
<1>3. ASSUME NEW l \in Link, NEW p, \/ Registers(t, f, new, l, p) \/ Takes(t, f, new, l, p)
                                    \/ Forgets(t, f, new, l, p) \/ FallsBack(t, f, new, l, p)
      PROVE  off' = off /\ f.op # "disconnectEnd"
  BY <1>3 DEF Registers, Takes, Forgets, FallsBack
<1>4. CASE Resets(t, f, new) \/ Unlists(t, f, new)  BY <1>4 DEF Resets, Unlists
<1>5. ASSUME NEW p \in Peer, Selects(t, f, new, p) PROVE off' = off /\ f.op # "disconnectEnd"
  BY <1>5 DEF Selects
<1>. QED  BY <1>1, <1>2, <1>3, <1>4, <1>5 DEF Does

LEMMA DialledStep ==
  ASSUME IKnown, IKnown', Dialled,
         NEW t \in Thread, NEW f, NEW new, Goes(t, f, new), Does(t, f, new)
  PROVE  Dialled'
<1>0. /\ TypeOK /\ Ui \in Thread /\ Conn \in Thread /\ Ui # Conn /\ Idle.op = "none"
      /\ crossed \subseteq crossed'
  BY ThreadAssumption, CallOps, HistoryGrows DEF IKnown, IType, Thread
<1>. SUFFICES ASSUME NEW c \in Calls(Conn)', c.op \in {"evict", "reuse", "outbound"},
                     c.peer \in off', c.peer \notin crossed'
              PROVE  FALSE
  BY DEF Dialled
<1>1. ASSUME NEW d \in Calls(Conn), d.op \in {"evict", "reuse", "outbound"}, d.peer = c.peer
      PROVE  c.peer \notin off
  BY <1>0, <1>1 DEF Dialled
<1>2. CASE off' = off
  <2>1. c \notin Calls(Conn)  BY <1>1, <1>2
  <2>2. t = Conn /\ c \in new  BY <2>1, <1>0 DEF Goes
  <2>3. ~(f.op \in {"evict", "reuse", "outbound"} /\ f.peer = c.peer)
    BY <1>0, <1>1, <1>2, <2>2 DEF Goes
  <2>4. ~Waits(t, f, new) /\ ~Opens(t, f, new)
    BY <2>2, <2>3, <1>2 DEF Waits, Opens
  <2>5. ASSUME NEW p \in Peer PROVE ~Dials(t, f, new, p) /\ ~Selects(t, f, new, p) /\ ~Departs(t, f, new, p)
    BY <2>2, <1>0, <1>2 DEF Dials, Selects, Departs
  <2>6. ASSUME NEW l \in Link
        PROVE  /\ ~Closes(t, f, new, l) /\ ~SetsUp(t, f, new, l) /\ ~Releases(t, f, new, l)
               /\ \A p : /\ ~Registers(t, f, new, l, p) /\ ~Takes(t, f, new, l, p)
                         /\ ~Forgets(t, f, new, l, p) /\ ~FallsBack(t, f, new, l, p)
    BY <2>2 DEF Closes, SetsUp, Releases, Registers, Takes, Forgets, FallsBack
  <2>7. ~Ends(t, f, new) /\ ~Resets(t, f, new) /\ ~Unlists(t, f, new)
    BY <2>2 DEF Ends, Resets, Unlists
  <2>. QED  BY <2>4, <2>5, <2>6, <2>7 DEF Does
<1>3. ASSUME NEW p \in Peer, Dials(t, f, new, p) PROVE FALSE
  <2>1. c.peer \in off /\ c.peer # p /\ t = Conn  BY <1>3 DEF Dials
  <2>2. c \in new  BY <2>1, <1>1 DEF Goes
  <2>. QED  BY <2>1, <2>2, <1>3 DEF Dials
<1>4. ASSUME NEW p \in Peer, Departs(t, f, new, p) PROVE FALSE
  <2>1. t = Ui /\ c \in Calls(Conn)  BY <1>0, <1>4 DEF Departs, Goes
  <2>2. c.peer = p  BY <2>1, <1>1, <1>4 DEF Departs
  <2>3. PICK d \in Calls(Ui)' : d.peer = p  BY <2>1, <1>4 DEF Departs, Goes
  <2>4. p \in About(c) /\ p \in About(d)  BY <2>2, <2>3, AboutCall
  <2>. QED  BY <2>2, <2>4, <1>0, CallsCrossNext
<1>5. CASE Ends(t, f, new)
  <2>1. t = Ui /\ c \in Calls(Conn) /\ f \in Calls(Ui)  BY <1>0, <1>5 DEF Ends, Goes
  <2>2. c.peer = f.peer  BY <2>1, <1>1, <1>5 DEF Ends
  <2>3. c.peer \in Peer  BY <2>1, <1>0 DEF IKnown, IType, Typed, TypedFrame
  <2>4. c.peer \in About(c) /\ c.peer \in About(f)  BY <2>2, <2>3, AboutCall
  <2>. QED  BY <2>1, <2>4, <1>0, CallsCross
<1>. QED  BY <1>2, <1>3, <1>4, <1>5, OffSteps

(* The calls that may make a link the session's.                                  *)
LEMMA NewPromoting ==
  ASSUME NEW t \in Thread, NEW f, NEW new, Does(t, f, new), NEW c \in new, Promoting(c)
  PROVE  /\ off' = off /\ f.op \notin {"none", "disconnectEnd"}
         /\ \/ Waits(t, f, new)
            \/ \E l \in Link : \/ SetsUp(t, f, new, l)
                               \/ \E p : Registers(t, f, new, l, p)
                               \/ \E next \in Link : FallsBack(t, f, new, l, next)
<1>0. c.op \in {"adopt", "notify"} /\ (c.op = "notify" => c.promote)  BY DEF Promoting
<1>1. CASE Waits(t, f, new)  BY <1>0, <1>1 DEF Waits
<1>2. ~Opens(t, f, new)  BY <1>0 DEF Opens
<1>3. ASSUME NEW p \in Peer PROVE ~Dials(t, f, new, p) /\ ~Selects(t, f, new, p) /\ ~Departs(t, f, new, p)
  BY <1>0 DEF Dials, Selects, Departs
<1>4. ASSUME NEW l \in Link
      PROVE  /\ ~Closes(t, f, new, l) /\ ~Releases(t, f, new, l)
             /\ \A p : ~Takes(t, f, new, l, p) /\ ~Forgets(t, f, new, l, p)
  BY <1>0 DEF Closes, Releases, Takes, Forgets
<1>5. ~Ends(t, f, new) /\ ~Resets(t, f, new) /\ ~Unlists(t, f, new)
  BY DEF Ends, Resets, Unlists
<1>6. ASSUME NEW l \in Link, SetsUp(t, f, new, l)
      PROVE  off' = off /\ f.op \notin {"none", "disconnectEnd"}
  BY <1>6 DEF SetsUp
<1>7. ASSUME NEW l \in Link, NEW p, Registers(t, f, new, l, p) \/ FallsBack(t, f, new, l, p)
      PROVE  off' = off /\ f.op \notin {"none", "disconnectEnd"}
  BY <1>7 DEF Registers, FallsBack
<1>. QED  BY <1>1, <1>2, <1>3, <1>4, <1>5, <1>6, <1>7 DEF Does

LEMMA PromotedStep ==
  ASSUME IKnown, IKnown', LeftIsLeft, Promoted, Dialled,
         NEW t \in Thread, NEW f, NEW new, Goes(t, f, new), Does(t, f, new)
  PROVE  Promoted'
<1>0. /\ TypeOK /\ Ui \in Thread /\ Conn \in Thread /\ Ui # Conn /\ Idle.op = "none"
      /\ NoLink \notin Link /\ \A x \in Link : PeerOf[x] \in Peer
      /\ hooked \subseteq Link
  BY ThreadAssumption, NoneAssumption, LinkAssumption, CallOps DEF IKnown, IType, TypeOK, Thread
<1>. SUFFICES ASSUME NEW u \in Thread, NEW c \in Calls(u)', Promoting(c),
                     NEW l, l = c.link, NEW q, q = PeerOf[l], q \in off', Clean(q)'
              PROVE  u = Ui /\ Leaving(q)'
  BY DEF Promoted, Promoting
<1>1. Clean(q) /\ q \notin guessed \union crossed /\ q \notin guessed' \union crossed'
  BY CleanBefore
<1>2. ASSUME q \in off, NEW v \in Thread, NEW d \in Calls(v), Promoting(d), d.link = l
      PROVE  v = Ui /\ Leaving(q)
  BY <1>1, <1>2 DEF Promoted
<1>3. CASE c \in Calls(u)
  <2>1. l \in Link /\ q \in Peer /\ q \in About(c)
    <3>1. FrameOK(c)  BY <1>3 DEF IKnown, Frames
    <3>2. l \in Link  BY <3>1, <1>0 DEF FrameOK, Promoting
    <3>. QED  BY <3>2, <1>0, AboutCall
  <2>2. CASE Ends(t, f, new)
    <3>1. f \in Calls(Ui) /\ Calls(Ui) = {f} /\ f.op = "disconnectEnd" /\ t = Ui
      BY <2>2, <1>0 DEF Ends, Goes, Bottoms
    <3>2. u # Ui  BY <3>1, <1>3 DEF Promoting
    <3>3. q \notin off  BY <3>2, <1>2, <1>3
    <3>4. q = f.peer  BY <3>3, <2>2 DEF Ends
    <3>5. q \in About(f)  BY <3>4, <2>1, AboutCall
    <3>. QED  BY <3>1, <3>2, <3>5, <2>1, <1>0, <1>1, <1>3, CallsCross
  <2>3. ASSUME NEW p \in Peer, Departs(t, f, new, p) PROVE u = Ui /\ Leaving(q)'
    <3>1. CASE q \in off
      <4>1. u = Ui /\ Leaving(q)  BY <3>1, <1>2, <1>3
      <4>2. f.op # "disconnectEnd"  BY <2>3, <1>0 DEF Departs
      <4>. QED  BY <4>1, <4>2, <1>0, LeavingKept
    <3>2. CASE q \notin off
      <4>1. PICK d \in new : d.op = "disconnectEnd" /\ d.peer = q /\ d.promote
        BY <3>2, <2>3 DEF Departs
      <4>2. d \in Calls(Ui)'  BY <2>3 DEF Departs, Goes
      <4>3. q \in About(d)  BY <4>1, <2>1, AboutCall
      <4>4. u = Ui  BY <4>2, <4>3, <2>1, <1>0, <1>1, CallsCrossNext
      <4>. QED  BY <4>1, <4>2, <4>4 DEF Leaving
    <3>. QED  BY <3>1, <3>2
  <2>4. CASE \/ off' = off /\ f.op # "disconnectEnd"
             \/ \E p \in Peer : Dials(t, f, new, p)
    <3>1. q \in off /\ f.op # "disconnectEnd"  BY <2>4, <1>0 DEF Dials
    <3>2. u = Ui /\ Leaving(q)  BY <3>1, <1>2, <1>3
    <3>. QED  BY <3>1, <3>2, <1>0, LeavingKept
  <2>. QED  BY <2>2, <2>3, <2>4, OffSteps
<1>4. CASE c \notin Calls(u)
  <2>1. u = t /\ c \in new  BY <1>4 DEF Goes
  <2>2. q \in off /\ f.op \notin {"none", "disconnectEnd"}  BY <2>1, NewPromoting
  <2>3. f \in Calls(t) /\ FrameOK(f)  BY <2>2, <1>0 DEF Goes, IKnown, Frames
  <2>4. ASSUME t = Conn, f.op \in {"reuse", "outbound"}, f.peer = q PROVE FALSE
    BY <2>2, <2>3, <2>4, <1>1 DEF Dialled
  <2>5. ASSUME Leaving(q), q \in Peer, q \in About(f) PROVE t = Ui /\ Leaving(q)'
    <3>1. PICK d \in Calls(Ui) : d.peer = q  BY <2>5 DEF Leaving
    <3>2. q \in About(d)  BY <3>1, <2>5, AboutCall
    <3>3. t = Ui  BY <3>1, <3>2, <2>3, <2>5, <1>0, <1>1, CallsCross
    <3>. QED  BY <3>3, <2>2, <2>5, <1>0, LeavingKept
  <2>6. CASE Waits(t, f, new)
    <3>1. t = Conn /\ f.op \in {"reuse", "outbound"} /\ Sure(l, f.peer)
      BY <2>1, <2>6 DEF Waits, Promoting
    <3>. QED  BY <3>1, <2>4, <1>1 DEF Sure
  <2>7. ASSUME NEW x \in Link, SetsUp(t, f, new, x) PROVE t = Ui /\ Leaving(q)'
    <3>1. l = x /\ c.promote  BY <2>1, <2>7 DEF SetsUp, Promoting
    <3>2. q = activePeer /\ active # NoLink
      BY <2>1, <2>2, <2>4, <2>7, <3>1, <1>1 DEF SetsUp, Promoting
    <3>3. Leaving(q)  BY <3>2, <2>2, <1>0, <1>1 DEF LeftIsLeft, TypeOK
    <3>4. q \in Peer /\ q \in About(f)  BY <3>1, <2>7, <1>0, AboutCall DEF SetsUp
    <3>. QED  BY <3>3, <3>4, <2>5
  <2>8. ASSUME NEW x \in Link, NEW p, Registers(t, f, new, x, p) PROVE t = Ui /\ Leaving(q)'
    <3>1. l = x /\ f.op = "notify" /\ f.promote /\ f.link = x
      BY <2>1, <2>8 DEF Registers, Promoting
    <3>2. t = Ui /\ Leaving(q)  BY <3>1, <2>2, <2>3, <1>2 DEF Promoting
    <3>. QED  BY <3>2, <2>2, <1>0, LeavingKept
  <2>9. ASSUME NEW x \in Link, NEW next \in Link, FallsBack(t, f, new, x, next)
        PROVE  t = Ui /\ Leaving(q)'
    <3>1. l = next /\ next \in f.todo /\ f.op = "closedMid" /\ f.link = x /\ active = x
      BY <2>1, <2>9 DEF FallsBack, Promoting
    <3>2. Sure(next, f.peer) /\ Sure(x, f.peer)  BY <3>1, <2>3 DEF FrameOK
    <3>3. q = f.peer /\ q = PeerOf[x]  BY <3>1, <3>2, <1>1 DEF Sure
    <3>4. Leaving(q)  BY <3>1, <3>3, <2>2, <1>1 DEF LeftIsLeft
    <3>5. q \in Peer /\ q \in About(f)  BY <3>3, <1>0, AboutCall
    <3>. QED  BY <3>4, <3>5, <2>5
  <2>. QED  BY <2>1, <2>6, <2>7, <2>8, <2>9, NewPromoting
<1>. QED  BY <1>3, <1>4

LEMMA LeftStep ==
  ASSUME IKnown, IKnown', ActiveHeard, CachedOpen, Leaves, LeftIsLeft, Promoted, Dialled,
         NEW t \in Thread, NEW f, NEW new, Goes(t, f, new), Does(t, f, new)
  PROVE  LeftIsLeft'
<1>0. /\ TypeOK /\ Hooks /\ Ui \in Thread /\ Idle.op = "none" /\ NoLink \notin Link
      /\ \A x \in Link : PeerOf[x] \in Peer
  BY NoneAssumption, LinkAssumption, CallOps DEF IKnown, IType, Thread
<1>. SUFFICES ASSUME NEW p \in off', NEW a \in Link, a = active', p = activePeer' \/ p = PeerOf[a],
                     Clean(p)'
              PROVE  Leaving(p)'
  BY DEF LeftIsLeft
<1>1. Clean(p) /\ p \notin guessed \union crossed /\ p \notin guessed' \union crossed'
  BY CleanBefore
<1>2. ASSUME p \in off, active' \in {active, NoLink}, activePeer' = activePeer \/ p = PeerOf[a]
      PROVE  Leaving(p)
  BY <1>0, <1>1, <1>2 DEF LeftIsLeft
<1>3. ASSUME UNCHANGED off, active' \in {active, NoLink}, UNCHANGED activePeer,
             f.op # "disconnectEnd"
      PROVE  Leaving(p)'
  BY <1>0, <1>2, <1>3, LeavingKept
<1>4. CASE Waits(t, f, new) \/ Opens(t, f, new)
  BY <1>3, <1>4 DEF Waits, Opens
<1>5. ASSUME NEW q \in Peer, Dials(t, f, new, q) \/ Selects(t, f, new, q) PROVE Leaving(p)'
  <2>1. p \in off /\ active' = active /\ f.op \in {"none", "evict"}
    BY <1>0, <1>5 DEF Dials, Selects
  <2>2. activePeer' = activePeer \/ p = PeerOf[a]
    <3>1. SUFFICES ASSUME Selects(t, f, new, q), p = q PROVE FALSE
      BY <1>5 DEF Dials, Selects
    <3>2. t = Conn /\ f \in Calls(t) /\ f.op = "evict" /\ f.peer = p
      BY <3>1, <1>0 DEF Selects, Goes
    <3>. QED  BY <3>2, <2>1, <1>1 DEF Dialled
  <2>. QED  BY <2>1, <2>2, <1>0, <1>2, LeavingKept
<1>6. ASSUME NEW q \in Peer, Departs(t, f, new, q) PROVE Leaving(p)'
  <2>1. UNCHANGED <<active, activePeer>> /\ f.op = "none" /\ t = Ui  BY <1>0, <1>6 DEF Departs
  <2>2. CASE p \in off  BY <2>1, <2>2, <1>0, <1>2, LeavingKept
  <2>3. CASE p \notin off
    <3>1. PICK d \in new : d.op = "disconnectEnd" /\ d.peer = p /\ d.promote
      BY <2>3, <1>6 DEF Departs
    <3>. QED  BY <3>1, <2>1 DEF Leaving, Goes
  <2>. QED  BY <2>2, <2>3
<1>7. ASSUME NEW x \in Link, Closes(t, f, new, x) \/ SetsUp(t, f, new, x) PROVE Leaving(p)'
  BY <1>3, <1>7 DEF Closes, SetsUp
<1>8. ASSUME NEW x \in Link, NEW q, \/ Registers(t, f, new, x, q) \/ Forgets(t, f, new, x, q)
                                    \/ FallsBack(t, f, new, x, q)
      PROVE  Leaving(p)'
  BY <1>3, <1>8 DEF Registers, Forgets, FallsBack
<1>9. ASSUME NEW x \in Link, NEW q, Takes(t, f, new, x, q) PROVE Leaving(p)'
  <2>1. a = x /\ p \in {q, PeerOf[x]} /\ Sure(x, q) /\ p \in off /\ f.op = "adopt" /\ f.link = x
    BY <1>9 DEF Takes
  <2>2. p = PeerOf[x]  BY <2>1, <1>1 DEF Sure
  <2>3. f \in Calls(t)  BY <2>1, <1>0 DEF Goes
  <2>4. Leaving(p)  BY <2>1, <2>2, <2>3, <1>1 DEF Promoted, Promoting
  <2>. QED  BY <2>1, <2>4, <1>0, LeavingKept
<1>10. ASSUME NEW x \in Link, Releases(t, f, new, x) PROVE Leaving(p)'
  <2>1. off' = off /\ f.op # "disconnectEnd"  BY <1>10 DEF Releases
  <2>2. \/ active' = active /\ activePeer' = activePeer
        \/ active' = NoLink
        \/ activePeer' \notin off /\ (activePeer' = PeerOf[a] \/ PeerOf[a] \in guessed)
    BY <1>10 DEF Releases
  <2>. QED  BY <2>1, <2>2, <1>0, <1>1, <1>3
<1>11. CASE Resets(t, f, new)
  BY <1>0, <1>11 DEF Resets
<1>12. CASE Unlists(t, f, new)
  BY <1>3, <1>12 DEF Unlists
<1>13. CASE Ends(t, f, new)
  <2>1. f \in Calls(Ui) /\ Calls(Ui) = {f} /\ f.op = "disconnectEnd" /\ t = Ui
    BY <1>13, <1>0 DEF Ends, Goes, Bottoms
  <2>2. /\ a = active /\ activePeer' = activePeer /\ ~(active \in f.todo /\ activePeer = f.peer)
        /\ \/ p \in off
           \/ p = f.peer
        /\ (f.promote \/ OtherActive(f.peer, NoLink) = {}) /\ p = f.peer
             => activePeer # f.peer \/ p \in kept'
    BY <1>13, <1>0 DEF Ends
  <2>3. Leaving(p) => p = f.peer /\ f.promote  BY <2>1 DEF Leaving
  <2>4. p = f.peer  BY <2>2, <2>3, <1>2
  <2>5. f.promote \/ OtherActive(f.peer, NoLink) = {}
    <3>1. CASE p \in off  BY <3>1, <2>2, <2>3, <1>2
    <3>2. CASE p \notin off  BY <3>2, <1>13 DEF Ends
    <3>. QED  BY <3>1, <3>2
  <2>6. p = PeerOf[a]
    <3>1. p \notin kept'  BY DEF Clean
    <3>2. activePeer # p  BY <3>1, <2>2, <2>4, <2>5
    <3>. QED  BY <3>2, <2>2
  <2>7. p \in About(f)  BY <2>4, <2>6, <1>0, AboutCall
  <2>8. a \in hooked  BY <2>2, <1>0 DEF Hooks
  <2>9. CASE status[a] = "active"
    <3>1. a \in links  BY <2>8, <2>9, <1>0 DEF Hooks
    <3>2. cached[a] = p  BY <2>2, <2>6, <2>9, <1>1 DEF CachedOpen, Reached
    <3>3. Settled(a)  BY <3>1, <3>2, <2>6, <2>9, <1>1 DEF Settled
    <3>4. FrameOK(f)  BY <2>1, <1>0 DEF IKnown, Frames
    <3>5. CASE f.promote
      <4>1. a \in f.todo  BY <3>4, <3>5, <2>1 DEF FrameOK
      <4>2. PICK d \in Calls(Ui) : d.op = "closeAll"  BY <4>1, <3>3, <2>1, <2>4, <2>6 DEF Leaves
      <4>. QED  BY <4>2, <2>1
    <3>6. CASE OtherActive(f.peer, NoLink) = {}
      <4>1. p # NoPeer /\ a # NoLink  BY <2>6, <1>0, NoneAssumption
      <4>2. a \in OtherActive(p, NoLink)  BY <4>1, <3>1, <3>2, <2>9 DEF OtherActive
      <4>. QED  BY <4>2, <3>6, <2>4
    <3>. QED  BY <3>5, <3>6, <2>5
  <2>10. CASE status[a] = "closed"
    <3>1. a \notin dead  BY <2>6, <1>1 DEF Clean
    <3>2. PICK u \in Thread : \E c \in Calls(u) : c.op \in Closings /\ c.link = a
      BY <3>1, <2>2, <2>10 DEF ActiveHeard, Pending
    <3>3. PICK c \in Calls(u) : c.op \in Closings /\ c.link = a  BY <3>2
    <3>4. u # Ui  BY <3>3, <2>1 DEF Closings
    <3>5. p \in About(c)  BY <3>3, <2>6, <1>0, AboutCall
    <3>. QED  BY <3>3, <3>4, <3>5, <2>1, <2>6, <2>7, <1>0, <1>1, CallsCross
  <2>. QED  BY <2>8, <2>9, <2>10, <1>0 DEF Hooks
<1>. QED  BY <1>4, <1>5, <1>6, <1>7, <1>8, <1>9, <1>10, <1>11, <1>12, <1>13 DEF Does

-----------------------------------------------------------------------------
(* The inductive invariant, and what it says once every call has returned.        *)

ILinks == IKnown /\ ActiveHeard /\ ClosedHeard /\ Session /\ CachedOpen /\ Leaves /\ Mids /\ Listed
ILeft  == LeftIsLeft /\ Promoted /\ Dialled
IInv   == ILinks /\ ILeft

LEMMA InvInit ==
  ASSUME Init
  PROVE  IInv
<1>1. IKnown  BY InitKnown
<1>2. \A t \in Thread : Calls(t) = {}  BY ElemsTuple DEF Init, Calls
<1>3. /\ active = NoLink /\ NoLink \notin Link /\ links = {} /\ off = {}
      /\ \A l \in Link : status[l] = "none"
  BY NoneAssumption DEF Init
<1>4. Ui \in Thread /\ Conn \in Thread  BY DEF Thread
<1>5. ActiveHeard /\ ClosedHeard /\ Session
  BY <1>3 DEF ActiveHeard, ClosedHeard, Session
<1>6. CachedOpen /\ Leaves /\ Mids /\ Listed
  BY <1>2, <1>3, <1>4 DEF CachedOpen, Leaves, Mids, Listed, Settled
<1>7. LeftIsLeft /\ Promoted /\ Dialled
  BY <1>2, <1>3, <1>4 DEF LeftIsLeft, Promoted, Dialled
<1>. QED  BY <1>1, <1>5, <1>6, <1>7 DEF IInv, ILinks, ILeft

LEMMA InvStutter ==
  ASSUME IInv, UNCHANGED vars
  PROVE  IInv'
<1>1. IKnown'  BY StutterKnown DEF IInv, ILinks
<1>2. \A t : Calls(t)' = Calls(t)  BY DEF vars, Calls
<1>3. UNCHANGED <<status, identified, hooked, links, cached, peerLinks, active, activePeer, off>>
  BY DEF vars, rns, registry, chosen
<1>4. UNCHANGED <<guessed, silent, dead, kept, evicted, crossed>>  BY DEF vars, noted, parted
<1>5. \A ops, l : Pending(ops, l)' <=> Pending(ops, l)  BY <1>2 DEF Pending
<1>6. \A l : Switching(l)' <=> Switching(l)  BY <1>2 DEF Switching
<1>7. \A l : (Reached(l)' <=> Reached(l)) /\ (Settled(l)' <=> Settled(l))
  BY <1>2, <1>3, <1>4 DEF Reached, Settled, Holds
<1>8. \A p : (Clean(p)' <=> Clean(p)) /\ (Leaving(p)' <=> Leaving(p))
  BY <1>2, <1>4 DEF Clean, Leaving
<1>9. ActiveHeard' /\ ClosedHeard'
  BY <1>3, <1>4, <1>5 DEF IInv, ILinks, ActiveHeard, ClosedHeard
<1>10. Session'  BY <1>3, <1>4, <1>6 DEF IInv, ILinks, Session
<1>11. CachedOpen'  BY <1>3, <1>4, <1>7 DEF IInv, ILinks, CachedOpen
<1>12. Leaves' /\ Mids'  BY <1>2, <1>7 DEF IInv, ILinks, Leaves, Mids
<1>13. Listed'  BY <1>3, <1>4, <1>5, <1>7 DEF IInv, ILinks, Listed
<1>14. LeftIsLeft'  BY <1>3, <1>8 DEF IInv, ILeft, LeftIsLeft
<1>15. Promoted'  BY <1>2, <1>3, <1>8 DEF IInv, ILeft, Promoted, Promoting
<1>16. Dialled'  BY <1>2, <1>3, <1>4 DEF IInv, ILeft, Dialled
<1>. QED  BY <1>1, <1>9, <1>10, <1>11, <1>12, <1>13, <1>14, <1>15, <1>16 DEF IInv, ILinks, ILeft

LEMMA InvStep ==
  ASSUME IInv, [Next]_vars
  PROVE  IInv'
<1>0. IKnown /\ IKnown'  BY StepKnown DEF IInv, ILinks
<1>1. CASE UNCHANGED vars  BY <1>1, InvStutter
<1>2. ASSUME NEW t \in Thread, NEW f, NEW new, Goes(t, f, new), Does(t, f, new)
      PROVE  IInv'
  <2>1. ActiveHeard' /\ ClosedHeard' /\ Session'
    BY <1>0, <1>2, ActiveHeardStep, ClosedHeardStep, SessionStep DEF IInv, ILinks
  <2>2. CachedOpen'  BY <1>0, <1>2, CachedOpenStep DEF IInv, ILinks
  <2>3. Leaves'  BY <1>0, <1>2, LeavesStep DEF IInv, ILinks
  <2>4. Mids'  BY <1>0, <1>2, MidsStep DEF IInv, ILinks
  <2>5. Listed'  BY <1>0, <1>2, ListedStep DEF IInv, ILinks
  <2>6. LeftIsLeft'  BY <1>0, <1>2, LeftStep DEF IInv, ILinks, ILeft
  <2>7. Promoted'  BY <1>0, <1>2, PromotedStep DEF IInv, ILeft
  <2>8. Dialled'  BY <1>0, <1>2, DialledStep DEF IInv, ILeft
  <2>. QED  BY <1>0, <2>1, <2>2, <2>3, <2>4, <2>5, <2>6, <2>7, <2>8 DEF IInv, ILinks, ILeft
<1>. QED  BY <1>0, <1>1, <1>2, StepDone DEF Done

LEMMA RestingCalls ==
  ASSUME AtRest
  PROVE  /\ \A t \in Thread : Calls(t) = {}
         /\ \A ops, l : ~Pending(ops, l)
         /\ \A l : ~Switching(l)
         /\ \A p : ~Leaving(p)
<1>1. \A t \in Thread : Calls(t) = {}  BY ElemsTuple DEF AtRest, Calls
<1>2. Ui \in Thread /\ Conn \in Thread  BY DEF Thread
<1>. QED  BY <1>1, <1>2 DEF Pending, Switching, Leaving

LEMMA InvLinks ==
  ASSUME ILinks
  PROVE  LinksAtRest
<1>0. TypeOK /\ Filing /\ NoLink \notin Link /\ NoPeer \notin Peer
  BY NoneAssumption DEF ILinks, IKnown, IType
<1>1. ActiveIsOpen
  BY <1>0, RestingCalls DEF ActiveIsOpen, ILinks, ActiveHeard, TypeOK
<1>2. SessionIsPeers
  BY <1>0, RestingCalls DEF SessionIsPeers, ILinks, Session, TypeOK
<1>3. FiledByIdentity
  BY <1>0 DEF FiledByIdentity, Filing, Sure, TypeOK
<1>4. ClosedForgotten
  BY RestingCalls DEF ClosedForgotten, ILinks, ClosedHeard
<1>5. OpenLinkListed
  <2>1. SUFFICES ASSUME AtRest, NEW l \in links, status[l] = "active", cached[l] = PeerOf[l],
                        PeerOf[l] \notin guessed \union crossed \union evicted
                 PROVE  peerLinks[<<PeerOf[l], FamilyOf[l]>>] # NoLink
    BY DEF OpenLinkListed
  <2>2. l \in Link /\ Settled(l)  BY <2>1, <1>0 DEF Settled, TypeOK
  <2>. QED  BY <2>1, <2>2, RestingCalls DEF ILinks, Listed
<1>. QED  BY <1>0, <1>1, <1>2, <1>3, <1>4, <1>5 DEF LinksAtRest

LEMMA InvLeft ==
  ASSUME IInv
  PROVE  DisconnectHolds
<1>0. TypeOK /\ NoLink \notin Link  BY NoneAssumption DEF IInv, ILinks, IKnown, IType
<1>1. SUFFICES ASSUME AtRest, active # NoLink, NEW p \in {activePeer, PeerOf[active]}, p \in off, Clean(p)
               PROVE  FALSE
  BY DEF DisconnectHolds, Clean
<1>2. active \in Link  BY <1>0, <1>1 DEF TypeOK
<1>3. Leaving(p)  BY <1>1, <1>2 DEF IInv, ILeft, LeftIsLeft
<1>. QED  BY <1>1, <1>3, RestingCalls

(* Once every callback and command about the links has returned, the registry      *)
(* tells the truth: the active link is open and the session's peer is at its end,  *)
(* links are filed under the peer they lead to, closed ones are forgotten and     *)
(* open ones listed (links.py, _link_closed, _notify_link_established).            *)
THEOREM LinksTellTheTruth == Spec => []LinksAtRest
<1>1. Init => IInv  BY InvInit
<1>2. IInv /\ [Next]_vars => IInv'  BY InvStep
<1>3. IInv => LinksAtRest  BY InvLinks DEF IInv
<1>. QED  BY <1>1, <1>2, <1>3, PTL DEF Spec

(* A peer the user has disconnected is not the session's afterwards, whichever     *)
(* callback or connect was under way (disconnect_peer, set_active_link).           *)
THEOREM LeftPeersAreLeft == Spec => []DisconnectHolds
<1>1. Init => IInv  BY InvInit
<1>2. IInv /\ [Next]_vars => IInv'  BY InvStep
<1>3. IInv => DisconnectHolds  BY InvLeft
<1>. QED  BY <1>1, <1>2, <1>3, PTL DEF Spec

=============================================================================
