------------------------ MODULE ExchangeFileProofs ------------------------
(* Files between nodes.  Files over HTTP (LanOffer), for any number of         *)
(* transfers, offers and faults: what is complete was served, what is saved is *)
(* whole, and the send slot is watched.  Shared folders (ShareSession), for    *)
(* any number of sessions, listings, uploads and downloads: the list the       *)
(* dialog shows, and what overlapping accesses leave of a file.                *)
EXTENDS Exchange, Sequences, FiniteSetTheorems, TLAPS

\* A step between nodes is a step of each component, or leaves it alone.
LEMMA OfferSteps == [Next]_vars => [Offer!Next]_(Offer!vars)
  BY DEF Next, vars, HubMoves, OfferMoves, DialMoves, ShareMoves, LifeMoves,
     OfferVars, Offer!vars

\* Both modules count with the same operator.
LEMMA OfferCounts ==
  ASSUME NEW S
  PROVE  Offer!Cardinality(S) = Cardinality(S)
  BY Zenon DEF Offer!Cardinality, Cardinality

-----------------------------------------------------------------------------
(* Files over HTTP (LanOffer)                                                  *)

Ending == {"expired", "cut", "missing"}

OffersTyped ==
  /\ \E n \in 0..MaxTokens : Offer!Made = 1..n
  /\ of \in [Offer!Made -> Transfer]
  /\ offer_offers \in [Transfer -> Nat]
  /\ watch \in [Offer!Token -> {"off", "look", "gone"}]
  /\ fetch \in [Offer!Token -> {"off", "ask", "read", "eof", "fail"}]
  /\ serve \in [Offer!Token -> {"off", "send"}]
  /\ got \in [Offer!Token -> Nat] /\ sent \in [Offer!Token -> Nat]
  /\ cancelled \in [Offer!Side -> SUBSET Transfer]
  /\ file \in [{NameOf[t] : t \in Transfer} -> [Offer!Chunk -> Transfer \cup {None}]]
  /\ offer_shown \in [Offer!Side -> [Transfer -> {None, "failed", "cancelled", "complete"}]]
  /\ saved \in [Transfer -> {None, "whole", "torn"}]

-----------------------------------------------------------------------------
(* Why an offer may have vanished.                                              *)

Reason(t) ==
  \/ \E f \in Ending : <<t, f>> \in broken
  \/ \E k \in Offer!Made : of[k] = t /\ sent[k] = 2

\* An entry of the table holds a token of its own transfer.
TableOwn == \A t \in Transfer : offer_offers[t] # 0 => offer_offers[t] \in Offer!Made /\ of[offer_offers[t]] = t

Marked ==
  /\ \A k \in expired : k \in Offer!Made /\ <<of[k], "expired">> \in broken
  /\ \A t \in missing : <<t, "missing">> \in broken

\* An offer that is gone was served, was cancelled or met a fault.
Vanished == \A k \in Offer!Made :
  offer_offers[of[k]] = 0 => Reason(of[k]) \/ of[k] \in cancelled["sender"]

GoneServed == \A k \in Offer!Token : watch[k] = "gone" => k \in Offer!Made /\ Reason(of[k])

ServedInv == OffersTyped /\ TableOwn /\ Marked /\ Vanished /\ GoneServed /\ Offer!CompleteWasServed

-----------------------------------------------------------------------------
(* What a download has written.                                                 *)

Writing == {"read", "eof"}
NotStarted(k) == got[k] = 0 /\ sent[k] = 0 /\ serve[k] = "off"

\* A download begins once, with nothing read.
Fresh ==
  /\ \A k \in Offer!Token \ Offer!Made : k \notin offer_wire /\ fetch[k] = "off" /\ NotStarted(k)
  /\ \A k \in Offer!Token :
       /\ k \in offer_wire => fetch[k] = "off" /\ NotStarted(k)
       /\ fetch[k] = "ask" => NotStarted(k)
       /\ fetch[k] = "read" => serve[k] = "send" \/ sent[k] = 2
       /\ fetch[k] = "eof" => got[k] = 2 \/ <<of[k], "cut">> \in broken

\* What was read stands in the file, unless another download wrote it.
Written == \A k \in Offer!Made :
  fetch[k] \in Writing =>
    Offer!Name(k) \in shared \/ \A i \in Offer!Chunk : i <= got[k] => file[Offer!Name(k)][i] = of[k]

\* Two downloads that write one name have met.
Met == \A j, k \in Offer!Made :
  (j # k /\ Offer!Name(j) = Offer!Name(k) /\ fetch[j] \in Writing /\ fetch[k] \in Writing)
    => Offer!Name(k) \in shared

SavedInv == OffersTyped /\ Fresh /\ Written /\ Met /\ Offer!SavedWhole

-----------------------------------------------------------------------------
(* OfferTypes                                                                        *)

LEMMA Names == \A t \in Transfer : NameOf[t] \in {NameOf[u] : u \in Transfer}
  OBVIOUS

\* The next token is one that was not made, and the tokens stay an interval.
LEMMA NextToken ==
  ASSUME MaxTokens \in Nat, OffersTyped, NEW t \in Transfer, NEW k \in Offer!Token, Offer!Register(t, k)
  PROVE  /\ k \notin Offer!Made /\ Offer!Made' = Offer!Made \cup {k} /\ Offer!Made \subseteq Offer!Token
         /\ of' \in [Offer!Made' -> Transfer]
         /\ \E n \in 0..MaxTokens : Offer!Made' = 1..n
         /\ of'[k] = t /\ \A j \in Offer!Made : of'[j] = of[j]
<1>1. PICK n \in 0..MaxTokens : Offer!Made = 1..n
  BY DEF OffersTyped
<1>2. Cardinality(1..n) = n
  BY <1>1, FS_Interval
<1>3. k = n + 1
  BY <1>1, <1>2, OfferCounts DEF Offer!Register
<1>4. k \notin Offer!Made /\ Offer!Made \cup {k} = 1..(n + 1) /\ n + 1 \in 0..MaxTokens /\ Offer!Made \subseteq Offer!Token
  BY <1>1, <1>3 DEF Offer!Token
<1>5. of' = [i \in Offer!Made \cup {k} |-> IF i = k THEN t ELSE of[i]]
  BY DEF Offer!Register
<1>6. Offer!Made' = Offer!Made \cup {k}
  BY <1>5 DEF Offer!Made
<1>7. \A i \in Offer!Made : of[i] \in Transfer
  BY DEF OffersTyped
<1> QED
  BY <1>3, <1>4, <1>5, <1>6, <1>7

LEMMA MadeTyped ==
  ASSUME MaxTokens \in Nat, OffersTyped
  PROVE  Offer!Made \subseteq Offer!Token /\ \A k \in Offer!Made : of[k] \in Transfer
  BY DEF OffersTyped, Offer!Token

LEMMA OfferTypes == MaxTokens \in Nat /\ OffersTyped /\ [Offer!Next]_(Offer!vars) => OffersTyped'
<1> SUFFICES ASSUME MaxTokens \in Nat, OffersTyped, [Offer!Next]_(Offer!vars) PROVE OffersTyped'
  OBVIOUS
<1> USE MadeTyped
<1>1. ASSUME NEW t \in Transfer, Offer!Offer(t) PROVE OffersTyped'
  <2>1. PICK k \in Offer!Token : Offer!Register(t, k) /\ watch' \in {watch, [watch EXCEPT ![k] = "look"]}
    BY <1>1 DEF Offer!Offer
  <2>2. k \in Nat
    BY DEF Offer!Token
  <2>3. offer_offers' \in [Transfer -> Nat] /\ watch' \in [Offer!Token -> {"off", "look", "gone"}]
    BY <2>1, <2>2 DEF Offer!Register, OffersTyped
  <2>4. offer_shown' \in [Offer!Side -> [Transfer -> {None, "failed", "cancelled", "complete"}]]
    BY <1>1 DEF OffersTyped, Offer!Offer, Offer!Show, Offer!Side
  <2>5. UNCHANGED <<fetch, serve, got, sent, cancelled, file, saved>>
    BY <1>1 DEF Offer!Offer
  <2> QED
    BY <2>1, <2>3, <2>4, <2>5, NextToken DEF OffersTyped
<1>2. ASSUME NEW t \in Transfer, Offer!OfferFails(t) PROVE OffersTyped'
  <2>1. PICK k \in Offer!Token : Offer!Register(t, k) /\ watch' \in {watch, [watch EXCEPT ![k] = "look"]}
    BY <1>2 DEF Offer!OfferFails
  <2>2. k \in Nat
    BY DEF Offer!Token
  <2>3. offer_offers' \in [Transfer -> Nat] /\ watch' \in [Offer!Token -> {"off", "look", "gone"}]
    BY <2>1, <2>2 DEF Offer!Register, OffersTyped
  <2>4. offer_shown' \in [Offer!Side -> [Transfer -> {None, "failed", "cancelled", "complete"}]]
    BY <1>2 DEF OffersTyped, Offer!OfferFails, Offer!Show, Offer!Side
  <2>5. UNCHANGED <<fetch, serve, got, sent, cancelled, file, saved>>
    BY <1>2 DEF Offer!OfferFails
  <2> QED
    BY <2>1, <2>3, <2>4, <2>5, NextToken DEF OffersTyped
<1>3. ASSUME NEW t \in Transfer, Offer!Cancel(t) PROVE OffersTyped'
  BY <1>3 DEF OffersTyped, Offer!Made, Offer!Cancel, Offer!Show, Offer!Cleared, Offer!Side
<1>4. ASSUME NEW t \in Transfer, Offer!NoticeArrives(t) PROVE OffersTyped'
  BY <1>4 DEF OffersTyped, Offer!Made, Offer!NoticeArrives, Offer!Side
<1>5. ASSUME NEW t \in Transfer, Offer!RemoveSource(t) PROVE OffersTyped'
  BY <1>5 DEF OffersTyped, Offer!Made, Offer!RemoveSource, Offer!Fault
<1>6. ASSUME NEW k \in Offer!Made, Offer!WatchCancelled(k) PROVE OffersTyped'
  BY <1>6 DEF OffersTyped, Offer!Made, Offer!WatchCancelled, Offer!Show, Offer!Cleared, Offer!Side
<1>7. ASSUME NEW k \in Offer!Made, Offer!WatchSeesNone(k) PROVE OffersTyped'
  BY <1>7 DEF OffersTyped, Offer!Made, Offer!WatchSeesNone
<1>8. ASSUME NEW k \in Offer!Made, Offer!WatchReports(k) PROVE OffersTyped'
  BY <1>8 DEF OffersTyped, Offer!Made, Offer!WatchReports, Offer!Show, Offer!Cleared, Offer!Side
<1>9. ASSUME NEW k \in Offer!Made, Offer!WatchQuits(k) PROVE OffersTyped'
  BY <1>9 DEF OffersTyped, Offer!Made, Offer!WatchQuits
<1>10. ASSUME NEW k \in Offer!Made, Offer!OfferArrives(k) PROVE OffersTyped'
  BY <1>10 DEF OffersTyped, Offer!Made, Offer!OfferArrives
<1>11. ASSUME NEW k \in Offer!Made, Offer!AskAccepted(k) PROVE OffersTyped'
  BY <1>11 DEF OffersTyped, Offer!Made, Offer!AskAccepted, Offer!Peeked, Offer!Name, Offer!Empty, Offer!Chunk
<1>12. ASSUME NEW k \in Offer!Made, Offer!AskRefused(k) PROVE OffersTyped'
  BY <1>12 DEF OffersTyped, Offer!Made, Offer!AskRefused, Offer!Popped
<1>13. ASSUME NEW k \in Offer!Made, Offer!ServeChunk(k) PROVE OffersTyped'
  <2>1. sent' = [sent EXCEPT ![k] = sent[k] + 1] /\ sent[k] \in Nat
    BY <1>13 DEF Offer!ServeChunk, OffersTyped
  <2>2. sent' \in [Offer!Token -> Nat]
    <3>1. sent[k] + 1 \in Nat /\ sent \in [Offer!Token -> Nat]
      BY <2>1 DEF OffersTyped
    <3> QED
      BY <2>1, <3>1
  <2> QED
    BY <1>13, <2>2 DEF OffersTyped, Offer!Made, Offer!ServeChunk
<1>14. ASSUME NEW k \in Offer!Made, Offer!ServeEnd(k) PROVE OffersTyped'
  BY <1>14 DEF OffersTyped, Offer!Made, Offer!ServeEnd, Offer!Popped
<1>15. ASSUME NEW k \in Offer!Made, Offer!ReadChunk(k) PROVE OffersTyped'
  <2>1. got' = [got EXCEPT ![k] = got[k] + 1] /\ got[k] \in Nat
    BY <1>15 DEF Offer!ReadChunk, OffersTyped
  <2>2. got' \in [Offer!Token -> Nat]
    <3>1. got[k] + 1 \in Nat /\ got \in [Offer!Token -> Nat]
      BY <2>1 DEF OffersTyped
    <3> QED
      BY <2>1, <3>1
  <2>3. file' \in [{NameOf[t] : t \in Transfer} -> [Offer!Chunk -> Transfer \cup {None}]]
    <3>1. [file[Offer!Name(k)] EXCEPT ![got[k] + 1] = of[k]] \in [Offer!Chunk -> Transfer \cup {None}]
      BY DEF OffersTyped, Offer!Name
    <3>2. file' = [file EXCEPT ![Offer!Name(k)] = [file[Offer!Name(k)] EXCEPT ![got[k] + 1] = of[k]]]
      BY <1>15 DEF Offer!ReadChunk
    <3> QED
      BY <3>1, <3>2 DEF OffersTyped
  <2> QED
    BY <1>15, <2>2, <2>3 DEF OffersTyped, Offer!Made, Offer!ReadChunk
<1>16. ASSUME NEW k \in Offer!Made, Offer!ReadEnd(k) PROVE OffersTyped'
  BY <1>16 DEF OffersTyped, Offer!Made, Offer!ReadEnd, Offer!Finished
<1>17. ASSUME NEW k \in Offer!Made, Offer!Save(k) PROVE OffersTyped'
  BY <1>17 DEF OffersTyped, Offer!Made, Offer!Save, Offer!Show, Offer!Side
<1>18. ASSUME NEW k \in Offer!Made, Offer!Fail(k) PROVE OffersTyped'
  BY <1>18 DEF OffersTyped, Offer!Made, Offer!Fail, Offer!Show, Offer!Side
<1>19. ASSUME NEW k \in Offer!Made, Offer!Expire(k) PROVE OffersTyped'
  BY <1>19 DEF OffersTyped, Offer!Made, Offer!Expire, Offer!Fault
<1>20. ASSUME NEW k \in Offer!Made, Offer!Cut(k) PROVE OffersTyped'
  BY <1>20 DEF OffersTyped, Offer!Made, Offer!Cut, Offer!Fault, Offer!Popped
<1>21. ASSUME NEW k \in Offer!Made, Offer!LosePacket(k) PROVE OffersTyped'
  BY <1>21 DEF OffersTyped, Offer!Made, Offer!LosePacket, Offer!Fault
<1>22. ASSUME UNCHANGED Offer!vars PROVE OffersTyped'
  BY <1>22 DEF OffersTyped, Offer!vars, Offer!Made
<1> QED
  BY <1>1, <1>2, <1>3, <1>4, <1>5, <1>6, <1>7, <1>8, <1>9, <1>10, <1>11, <1>12, <1>13, <1>14, <1>15, <1>16, <1>17, <1>18, <1>19, <1>20, <1>21, <1>22 DEF Offer!Next

-----------------------------------------------------------------------------
(* What is complete was served                                                  *)

\* Tokens keep their transfer; bytes served, faults and cancels stay.
Onward ==
  /\ Offer!Made \subseteq Offer!Made' /\ \A k \in Offer!Made : of'[k] = of[k] /\ (sent[k] = 2 => sent'[k] = 2)
  /\ broken \subseteq broken' /\ cancelled["sender"] \subseteq cancelled'["sender"]

LEMMA GoesOnward == MaxTokens \in Nat /\ OffersTyped /\ [Offer!Next]_(Offer!vars) => Onward
<1> SUFFICES ASSUME MaxTokens \in Nat, OffersTyped, [Offer!Next]_(Offer!vars) PROVE Onward
  OBVIOUS
<1> USE MadeTyped
<1>1. ASSUME NEW t \in Transfer, Offer!Offer(t) PROVE Onward
  <2>1. PICK k \in Offer!Token : Offer!Register(t, k)
    BY <1>1 DEF Offer!Offer
  <2>2. UNCHANGED <<sent, broken, cancelled>>
    BY <1>1 DEF Offer!Offer
  <2> QED
    BY <2>1, <2>2, NextToken DEF Onward
<1>2. ASSUME NEW t \in Transfer, Offer!OfferFails(t) PROVE Onward
  <2>1. PICK k \in Offer!Token : Offer!Register(t, k)
    BY <1>2 DEF Offer!OfferFails
  <2>2. UNCHANGED <<sent, broken, cancelled>>
    BY <1>2 DEF Offer!OfferFails
  <2> QED
    BY <2>1, <2>2, NextToken DEF Onward
<1>3. ASSUME NEW t \in Transfer, Offer!Cancel(t) PROVE Onward
  BY <1>3 DEF Onward, Offer!Made, Offer!Cancel, OffersTyped, Offer!Side
<1>4. ASSUME NEW t \in Transfer, Offer!NoticeArrives(t) PROVE Onward
  BY <1>4 DEF Onward, Offer!Made, Offer!NoticeArrives, OffersTyped, Offer!Side
<1>5. ASSUME NEW t \in Transfer, Offer!RemoveSource(t) PROVE Onward
  BY <1>5 DEF Onward, Offer!Made, Offer!RemoveSource, Offer!Fault
<1>6. ASSUME NEW k \in Offer!Made, Offer!WatchCancelled(k) PROVE Onward
  BY <1>6 DEF Onward, Offer!Made, Offer!WatchCancelled
<1>7. ASSUME NEW k \in Offer!Made, Offer!WatchSeesNone(k) PROVE Onward
  BY <1>7 DEF Onward, Offer!Made, Offer!WatchSeesNone
<1>8. ASSUME NEW k \in Offer!Made, Offer!WatchReports(k) PROVE Onward
  BY <1>8 DEF Onward, Offer!Made, Offer!WatchReports
<1>9. ASSUME NEW k \in Offer!Made, Offer!WatchQuits(k) PROVE Onward
  BY <1>9 DEF Onward, Offer!Made, Offer!WatchQuits
<1>10. ASSUME NEW k \in Offer!Made, Offer!OfferArrives(k) PROVE Onward
  BY <1>10 DEF Onward, Offer!Made, Offer!OfferArrives
<1>11. ASSUME NEW k \in Offer!Made, Offer!AskAccepted(k) PROVE Onward
  BY <1>11 DEF Onward, Offer!Made, Offer!AskAccepted
<1>12. ASSUME NEW k \in Offer!Made, Offer!AskRefused(k) PROVE Onward
  BY <1>12 DEF Onward, Offer!Made, Offer!AskRefused
<1>13. ASSUME NEW k \in Offer!Made, Offer!ServeChunk(k) PROVE Onward
  <2>1. sent' = [sent EXCEPT ![k] = sent[k] + 1] /\ sent[k] \in Nat /\ sent[k] < 2
    BY <1>13 DEF Offer!ServeChunk, OffersTyped
  <2>2. \A j \in Offer!Token \ {k} : sent'[j] = sent[j]
    BY <2>1 DEF OffersTyped
  <2> QED
    BY <1>13, <2>1, <2>2 DEF Onward, Offer!Made, Offer!ServeChunk
<1>14. ASSUME NEW k \in Offer!Made, Offer!ServeEnd(k) PROVE Onward
  BY <1>14 DEF Onward, Offer!Made, Offer!ServeEnd
<1>15. ASSUME NEW k \in Offer!Made, Offer!ReadChunk(k) PROVE Onward
  BY <1>15 DEF Onward, Offer!Made, Offer!ReadChunk
<1>16. ASSUME NEW k \in Offer!Made, Offer!ReadEnd(k) PROVE Onward
  BY <1>16 DEF Onward, Offer!Made, Offer!ReadEnd
<1>17. ASSUME NEW k \in Offer!Made, Offer!Save(k) PROVE Onward
  BY <1>17 DEF Onward, Offer!Made, Offer!Save
<1>18. ASSUME NEW k \in Offer!Made, Offer!Fail(k) PROVE Onward
  BY <1>18 DEF Onward, Offer!Made, Offer!Fail
<1>19. ASSUME NEW k \in Offer!Made, Offer!Expire(k) PROVE Onward
  BY <1>19 DEF Onward, Offer!Made, Offer!Expire, Offer!Fault
<1>20. ASSUME NEW k \in Offer!Made, Offer!Cut(k) PROVE Onward
  BY <1>20 DEF Onward, Offer!Made, Offer!Cut, Offer!Fault
<1>21. ASSUME NEW k \in Offer!Made, Offer!LosePacket(k) PROVE Onward
  BY <1>21 DEF Onward, Offer!Made, Offer!LosePacket, Offer!Fault
<1>22. ASSUME UNCHANGED Offer!vars PROVE Onward
  BY <1>22 DEF Onward, Offer!vars, Offer!Made
<1> QED
  BY <1>1, <1>2, <1>3, <1>4, <1>5, <1>6, <1>7, <1>8, <1>9, <1>10, <1>11, <1>12, <1>13, <1>14, <1>15, <1>16, <1>17, <1>18, <1>19, <1>20, <1>21, <1>22 DEF Offer!Next

LEMMA ReasonStays ==
  ASSUME Onward, NEW t, Reason(t)
  PROVE  Reason(t)'
<1>1. CASE \E f \in Ending : <<t, f>> \in broken
  BY <1>1 DEF Onward, Reason
<1>2. CASE \E k \in Offer!Made : of[k] = t /\ sent[k] = 2
  BY <1>2 DEF Onward, Reason
<1> QED
  BY <1>1, <1>2 DEF Reason

LEMMA CompleteReason ==
  Offer!CompleteWasServed <=> \A t \in Transfer : offer_shown["sender"][t] = "complete" => Reason(t)
  BY DEF Offer!CompleteWasServed, Reason, Ending

\* What a step owes that makes no token.
LEMMA ServedStays ==
  ASSUME MaxTokens \in Nat, ServedInv, OffersTyped', Onward, UNCHANGED of,
         \A t \in Transfer : offer_offers'[t] \in {offer_offers[t], 0},
         \A k \in Offer!Made : (offer_offers[of[k]] # 0 /\ offer_offers'[of[k]] = 0) =>
                           Reason(of[k])' \/ of[k] \in cancelled'["sender"],
         \A k \in Offer!Token : watch'[k] = "gone" =>
                           watch[k] = "gone" \/ (k \in Offer!Made /\ Reason(of[k])'),
         \A t \in Transfer : offer_shown'["sender"][t] = "complete" =>
                           offer_shown["sender"][t] = "complete" \/ Reason(t)',
         \A k \in expired' : k \in expired \/ (k \in Offer!Made /\ <<of[k], "expired">> \in broken'),
         \A t \in missing' : t \in missing \/ <<t, "missing">> \in broken'
  PROVE  ServedInv'
<1>0. Offer!Made' = Offer!Made /\ \A k \in Offer!Made : of[k] \in Transfer
  BY MadeTyped DEF Offer!Made, ServedInv
<1>1. TableOwn'
  BY <1>0 DEF ServedInv, TableOwn
<1>2. Marked'
  BY <1>0 DEF ServedInv, Marked, Onward
<1>3. Vanished'
  <2> SUFFICES ASSUME NEW k \in Offer!Made, offer_offers'[of[k]] = 0
               PROVE  Reason(of[k])' \/ of[k] \in cancelled'["sender"]
    BY <1>0 DEF Vanished
  <2>1. CASE offer_offers[of[k]] = 0
    BY <2>1, ReasonStays DEF ServedInv, Vanished, Onward
  <2> QED
    BY <2>1
<1>4. GoneServed'
  <2> SUFFICES ASSUME NEW k \in Offer!Token, watch'[k] = "gone" PROVE k \in Offer!Made /\ Reason(of[k])'
    BY <1>0 DEF GoneServed
  <2>1. CASE watch[k] = "gone"
    BY <2>1, ReasonStays DEF ServedInv, GoneServed
  <2> QED
    BY <2>1
<1>5. Offer!CompleteWasServed'
  <2>1. \A t \in Transfer : offer_shown'["sender"][t] = "complete" => Reason(t)'
    <3> SUFFICES ASSUME NEW t \in Transfer, offer_shown'["sender"][t] = "complete" PROVE Reason(t)'
      OBVIOUS
    <3>1. CASE offer_shown["sender"][t] = "complete"
      BY <3>1, ReasonStays, CompleteReason DEF ServedInv
    <3> QED
      BY <3>1
  <2> QED
    BY <2>1 DEF Offer!CompleteWasServed, Reason, Ending
<1> QED
  BY <1>1, <1>2, <1>3, <1>4, <1>5 DEF ServedInv

\* A new offer of a transfer is in the table, whether or not its packet went.
LEMMA ServedRegistered ==
  ASSUME MaxTokens \in Nat, ServedInv, OffersTyped', Onward, NEW t \in Transfer, NEW k \in Offer!Token,
         Offer!Register(t, k), watch' \in {watch, [watch EXCEPT ![k] = "look"]},
         offer_shown'["sender"] \in {offer_shown["sender"], [offer_shown["sender"] EXCEPT ![t] = "failed"]},
         UNCHANGED <<expired, missing, broken, cancelled, sent>>,
         watch[k] # "gone"
  PROVE  ServedInv'
<1>0. /\ k \notin Offer!Made /\ Offer!Made' = Offer!Made \cup {k} /\ Offer!Made \subseteq Offer!Token
      /\ of'[k] = t /\ (\A j \in Offer!Made : of'[j] = of[j]) /\ \A j \in Offer!Made : of[j] \in Transfer
  BY NextToken, MadeTyped DEF ServedInv
<1>1. offer_offers' = [offer_offers EXCEPT ![t] = k] /\ k # 0
  BY DEF Offer!Register, Offer!Token
<1>2. TableOwn'
  <2>1. offer_offers \in [Transfer -> Nat]
    BY DEF ServedInv, OffersTyped
  <2> QED
    BY <1>0, <1>1, <2>1 DEF ServedInv, TableOwn
<1>3. Marked'
  BY <1>0 DEF ServedInv, Marked
<1>4. Vanished'
  <2> SUFFICES ASSUME NEW j \in Offer!Made', offer_offers'[of'[j]] = 0
               PROVE  Reason(of[j])' \/ of'[j] \in cancelled'["sender"]
    BY DEF Vanished
  <2>1. offer_offers \in [Transfer -> Nat]
    BY DEF ServedInv, OffersTyped
  <2>2. of'[j] # t /\ j \in Offer!Made /\ of'[j] = of[j] /\ offer_offers[of[j]] = 0
    BY <1>0, <1>1, <2>1
  <2> QED
    BY <2>2, ReasonStays DEF ServedInv, Vanished, Onward
<1>5. GoneServed'
  <2> SUFFICES ASSUME NEW j \in Offer!Token, watch'[j] = "gone" PROVE j \in Offer!Made /\ Reason(of[j])'
    BY <1>0 DEF GoneServed
  <2>1. watch \in [Offer!Token -> {"off", "look", "gone"}]
    BY DEF ServedInv, OffersTyped
  <2>2. watch[j] = "gone"
    BY <2>1
  <2>3. j \in Offer!Made /\ Reason(of[j])
    BY <2>2 DEF ServedInv, GoneServed
  <2>4. PICK w : w = of[j]
    OBVIOUS
  <2>5. Reason(w)' /\ of'[j] = w
    BY <1>0, <2>3, <2>4, ReasonStays
  <2> QED
    BY <2>3, <2>5
<1>6. Offer!CompleteWasServed'
  <2>1. \A u \in Transfer : offer_shown'["sender"][u] = "complete" => Reason(u)'
    <3> SUFFICES ASSUME NEW u \in Transfer, offer_shown'["sender"][u] = "complete" PROVE Reason(u)'
      OBVIOUS
    <3>0. offer_shown["sender"] \in [Transfer -> {None, "failed", "cancelled", "complete"}]
      BY DEF ServedInv, OffersTyped, Offer!Side
    <3>1. offer_shown["sender"][u] = "complete"
      BY <3>0
    <3> QED
      BY <3>1, ReasonStays, CompleteReason DEF ServedInv
  <2> QED
    BY <2>1 DEF Offer!CompleteWasServed, Reason, Ending
<1> QED
  BY <1>2, <1>3, <1>4, <1>5, <1>6 DEF ServedInv

LEMMA ServedStep == MaxTokens \in Nat /\ ServedInv /\ [Offer!Next]_(Offer!vars) => ServedInv'
<1> SUFFICES ASSUME MaxTokens \in Nat, ServedInv, [Offer!Next]_(Offer!vars) PROVE ServedInv'
  OBVIOUS
<1>a. OffersTyped' /\ Onward
  BY OfferTypes, GoesOnward DEF ServedInv
<1>b. Offer!Made \subseteq Offer!Token /\ \A j \in Offer!Made : of[j] \in Transfer
  BY MadeTyped DEF ServedInv
<1>c. /\ offer_offers \in [Transfer -> Nat] /\ watch \in [Offer!Token -> {"off", "look", "gone"}]
      /\ offer_shown \in [Offer!Side -> [Transfer -> {None, "failed", "cancelled", "complete"}]]
      /\ "sender" \in Offer!Side /\ "receiver" \in Offer!Side
  BY DEF ServedInv, OffersTyped, Offer!Side
<1>d. TableOwn /\ Marked /\ Vanished /\ GoneServed
  BY DEF ServedInv
<1>1. ASSUME NEW t \in Transfer, Offer!Offer(t) PROVE ServedInv'
  <2>1. PICK k \in Offer!Token : Offer!Register(t, k) /\ watch' \in {watch, [watch EXCEPT ![k] = "look"]}
    BY <1>1 DEF Offer!Offer
  <2>2. UNCHANGED <<expired, missing, broken, cancelled, sent>> /\ offer_shown'["sender"] \in
          {offer_shown["sender"], [offer_shown["sender"] EXCEPT ![t] = "failed"]}
    BY <1>1, <1>c DEF Offer!Offer, Offer!Show
  <2>3. k \notin Offer!Made
    BY <2>1, NextToken DEF ServedInv
  <2>4. watch[k] # "gone"
    BY <2>3, <1>d DEF GoneServed
  <2> QED
    BY <1>a, <2>1, <2>2, <2>4, ServedRegistered
<1>2. ASSUME NEW t \in Transfer, Offer!OfferFails(t) PROVE ServedInv'
  <2>1. PICK k \in Offer!Token : Offer!Register(t, k) /\ watch' \in {watch, [watch EXCEPT ![k] = "look"]}
    BY <1>2 DEF Offer!OfferFails
  <2>2. UNCHANGED <<expired, missing, broken, cancelled, sent>> /\ offer_shown'["sender"] \in
          {offer_shown["sender"], [offer_shown["sender"] EXCEPT ![t] = "failed"]}
    BY <1>2, <1>c DEF Offer!OfferFails, Offer!Show
  <2>3. k \notin Offer!Made
    BY <2>1, NextToken DEF ServedInv
  <2>4. watch[k] # "gone"
    BY <2>3, <1>d DEF GoneServed
  <2> QED
    BY <1>a, <2>1, <2>2, <2>4, ServedRegistered
<1>3. ASSUME NEW t \in Transfer, Offer!Cancel(t) PROVE ServedInv'
  <2>1. UNCHANGED of
    BY <1>3 DEF Offer!Cancel
  <2>2. \A u \in Transfer : offer_offers'[u] \in {offer_offers[u], 0}
    BY <1>3, <1>b, <1>c DEF Offer!Cancel
  <2>4. \A j \in Offer!Made : (offer_offers[of[j]] # 0 /\ offer_offers'[of[j]] = 0) =>
                      Reason(of[j])' \/ of[j] \in cancelled'["sender"]
    BY <1>3, <1>b DEF Offer!Cancel
  <2>5. \A j \in Offer!Token : watch'[j] = "gone" =>
                      watch[j] = "gone" \/ (j \in Offer!Made /\ Reason(of[j])')
    BY <1>3, <1>b, <1>c DEF Offer!Cancel
  <2>6. \A u \in Transfer : offer_shown'["sender"][u] = "complete" =>
                      offer_shown["sender"][u] = "complete" \/ Reason(u)'
    BY <1>3, <1>b, <1>c DEF Offer!Cancel, Offer!Show
  <2>7. \A j \in expired' : j \in expired \/ (j \in Offer!Made /\ <<of[j], "expired">> \in broken')
    BY <1>3 DEF Offer!Cancel
  <2>8. \A u \in missing' : u \in missing \/ <<u, "missing">> \in broken'
    BY <1>3 DEF Offer!Cancel
  <2> QED
    BY <1>a, <2>1, <2>2, <2>4, <2>5, <2>6, <2>7, <2>8, ServedStays
<1>4. ASSUME NEW t \in Transfer, Offer!NoticeArrives(t) PROVE ServedInv'
  <2>1. UNCHANGED of
    BY <1>4 DEF Offer!NoticeArrives
  <2>2. \A u \in Transfer : offer_offers'[u] \in {offer_offers[u], 0}
    BY <1>4, <1>b, <1>c DEF Offer!NoticeArrives
  <2>4. \A j \in Offer!Made : (offer_offers[of[j]] # 0 /\ offer_offers'[of[j]] = 0) =>
                      Reason(of[j])' \/ of[j] \in cancelled'["sender"]
    BY <1>4, <1>b DEF Offer!NoticeArrives
  <2>5. \A j \in Offer!Token : watch'[j] = "gone" =>
                      watch[j] = "gone" \/ (j \in Offer!Made /\ Reason(of[j])')
    BY <1>4, <1>b, <1>c DEF Offer!NoticeArrives
  <2>6. \A u \in Transfer : offer_shown'["sender"][u] = "complete" =>
                      offer_shown["sender"][u] = "complete" \/ Reason(u)'
    BY <1>4, <1>b, <1>c DEF Offer!NoticeArrives
  <2>7. \A j \in expired' : j \in expired \/ (j \in Offer!Made /\ <<of[j], "expired">> \in broken')
    BY <1>4 DEF Offer!NoticeArrives
  <2>8. \A u \in missing' : u \in missing \/ <<u, "missing">> \in broken'
    BY <1>4 DEF Offer!NoticeArrives
  <2> QED
    BY <1>a, <2>1, <2>2, <2>4, <2>5, <2>6, <2>7, <2>8, ServedStays
<1>5. ASSUME NEW t \in Transfer, Offer!RemoveSource(t) PROVE ServedInv'
  <2>1. UNCHANGED of
    BY <1>5 DEF Offer!RemoveSource
  <2>2. \A u \in Transfer : offer_offers'[u] \in {offer_offers[u], 0}
    BY <1>5, <1>b, <1>c DEF Offer!RemoveSource
  <2>4. \A j \in Offer!Made : (offer_offers[of[j]] # 0 /\ offer_offers'[of[j]] = 0) =>
                      Reason(of[j])' \/ of[j] \in cancelled'["sender"]
    BY <1>5, <1>b DEF Offer!RemoveSource
  <2>5. \A j \in Offer!Token : watch'[j] = "gone" =>
                      watch[j] = "gone" \/ (j \in Offer!Made /\ Reason(of[j])')
    BY <1>5, <1>b, <1>c DEF Offer!RemoveSource
  <2>6. \A u \in Transfer : offer_shown'["sender"][u] = "complete" =>
                      offer_shown["sender"][u] = "complete" \/ Reason(u)'
    BY <1>5, <1>b, <1>c DEF Offer!RemoveSource
  <2>7. \A j \in expired' : j \in expired \/ (j \in Offer!Made /\ <<of[j], "expired">> \in broken')
    BY <1>5 DEF Offer!RemoveSource, Offer!Fault
  <2>8. \A u \in missing' : u \in missing \/ <<u, "missing">> \in broken'
    BY <1>5 DEF Offer!RemoveSource, Offer!Fault
  <2> QED
    BY <1>a, <2>1, <2>2, <2>4, <2>5, <2>6, <2>7, <2>8, ServedStays
<1>6. ASSUME NEW k \in Offer!Made, Offer!WatchCancelled(k) PROVE ServedInv'
  <2>1. UNCHANGED of
    BY <1>6 DEF Offer!WatchCancelled
  <2>2. \A u \in Transfer : offer_offers'[u] \in {offer_offers[u], 0}
    BY <1>6, <1>b, <1>c DEF Offer!WatchCancelled
  <2>3. of[k] \in cancelled'["sender"]
    BY <1>6 DEF Offer!WatchCancelled
  <2>4. \A j \in Offer!Made : (offer_offers[of[j]] # 0 /\ offer_offers'[of[j]] = 0) =>
                      Reason(of[j])' \/ of[j] \in cancelled'["sender"]
    <3> SUFFICES ASSUME NEW j \in Offer!Made, offer_offers[of[j]] # 0, offer_offers'[of[j]] = 0
                 PROVE  Reason(of[j])' \/ of[j] \in cancelled'["sender"]
      OBVIOUS
    <3>1. of[j] = of[k]
      BY <1>6, <1>b, <1>c DEF Offer!WatchCancelled
    <3> QED
      BY <2>3, <3>1, <2>1
  <2>5. \A j \in Offer!Token : watch'[j] = "gone" =>
                      watch[j] = "gone" \/ (j \in Offer!Made /\ Reason(of[j])')
    BY <1>6, <1>b, <1>c DEF Offer!WatchCancelled
  <2>6. \A u \in Transfer : offer_shown'["sender"][u] = "complete" =>
                      offer_shown["sender"][u] = "complete" \/ Reason(u)'
    BY <1>6, <1>b, <1>c DEF Offer!WatchCancelled, Offer!Show
  <2>7. \A j \in expired' : j \in expired \/ (j \in Offer!Made /\ <<of[j], "expired">> \in broken')
    BY <1>6 DEF Offer!WatchCancelled
  <2>8. \A u \in missing' : u \in missing \/ <<u, "missing">> \in broken'
    BY <1>6 DEF Offer!WatchCancelled
  <2> QED
    BY <1>a, <2>1, <2>2, <2>4, <2>5, <2>6, <2>7, <2>8, ServedStays
<1>7. ASSUME NEW k \in Offer!Made, Offer!WatchSeesNone(k) PROVE ServedInv'
  <2>1. UNCHANGED of
    BY <1>7 DEF Offer!WatchSeesNone
  <2>2. \A u \in Transfer : offer_offers'[u] \in {offer_offers[u], 0}
    BY <1>7, <1>b, <1>c DEF Offer!WatchSeesNone
  <2>3. offer_offers[of[k]] # 0 => Reason(of[k])'
    <3>1. offer_offers[of[k]] # 0 => <<of[k], "expired">> \in broken'
      BY <1>7, <1>b, <1>d DEF Offer!WatchSeesNone, Marked, TableOwn
    <3> QED
      BY <3>1, <2>1 DEF Reason, Ending
  <2>4. \A j \in Offer!Made : (offer_offers[of[j]] # 0 /\ offer_offers'[of[j]] = 0) =>
                      Reason(of[j])' \/ of[j] \in cancelled'["sender"]
    <3> SUFFICES ASSUME NEW j \in Offer!Made, offer_offers[of[j]] # 0, offer_offers'[of[j]] = 0
                 PROVE  Reason(of[j])' \/ of[j] \in cancelled'["sender"]
      OBVIOUS
    <3>1. of[j] = of[k]
      BY <1>7, <1>b, <1>c DEF Offer!WatchSeesNone
    <3> QED
      BY <2>3, <3>1, <2>1
  <2>5. \A j \in Offer!Token : watch'[j] = "gone" =>
                      watch[j] = "gone" \/ (j \in Offer!Made /\ Reason(of[j])')
    <3>1. offer_offers[of[k]] = 0 => Reason(of[k])
      BY <1>7, <1>d DEF Offer!WatchSeesNone, Vanished
    <3>2. Reason(of[k]) => Reason(of[k])'
      BY <1>a, <2>1, ReasonStays
    <3>3. \A j \in Offer!Token \ {k} : watch'[j] = watch[j]
      BY <1>7, <1>b, <1>c DEF Offer!WatchSeesNone
    <3> QED
      BY <2>3, <3>1, <3>2, <3>3
  <2>6. \A u \in Transfer : offer_shown'["sender"][u] = "complete" =>
                      offer_shown["sender"][u] = "complete" \/ Reason(u)'
    BY <1>7, <1>b, <1>c DEF Offer!WatchSeesNone
  <2>7. \A j \in expired' : j \in expired \/ (j \in Offer!Made /\ <<of[j], "expired">> \in broken')
    BY <1>7 DEF Offer!WatchSeesNone
  <2>8. \A u \in missing' : u \in missing \/ <<u, "missing">> \in broken'
    BY <1>7 DEF Offer!WatchSeesNone
  <2> QED
    BY <1>a, <2>1, <2>2, <2>4, <2>5, <2>6, <2>7, <2>8, ServedStays
<1>8. ASSUME NEW k \in Offer!Made, Offer!WatchReports(k) PROVE ServedInv'
  <2>1. UNCHANGED of
    BY <1>8 DEF Offer!WatchReports
  <2>2. \A u \in Transfer : offer_offers'[u] \in {offer_offers[u], 0}
    BY <1>8, <1>b, <1>c DEF Offer!WatchReports
  <2>4. \A j \in Offer!Made : (offer_offers[of[j]] # 0 /\ offer_offers'[of[j]] = 0) =>
                      Reason(of[j])' \/ of[j] \in cancelled'["sender"]
    BY <1>8, <1>b DEF Offer!WatchReports
  <2>5. \A j \in Offer!Token : watch'[j] = "gone" =>
                      watch[j] = "gone" \/ (j \in Offer!Made /\ Reason(of[j])')
    BY <1>8, <1>b, <1>c DEF Offer!WatchReports
  <2>6. \A u \in Transfer : offer_shown'["sender"][u] = "complete" =>
                      offer_shown["sender"][u] = "complete" \/ Reason(u)'
    <3>1. Reason(of[k])
      BY <1>8, <1>b, <1>d DEF Offer!WatchReports, GoneServed
    <3>2. PICK w \in Transfer : w = of[k]
      BY <1>b
    <3>3. Reason(w)'
      BY <1>a, <3>1, <3>2, ReasonStays
    <3>4. \A u \in Transfer \ {w} : offer_shown'["sender"][u] = offer_shown["sender"][u]
      BY <1>8, <1>c, <3>2 DEF Offer!WatchReports, Offer!Show
    <3> QED
      BY <3>3, <3>4
  <2>7. \A j \in expired' : j \in expired \/ (j \in Offer!Made /\ <<of[j], "expired">> \in broken')
    BY <1>8 DEF Offer!WatchReports
  <2>8. \A u \in missing' : u \in missing \/ <<u, "missing">> \in broken'
    BY <1>8 DEF Offer!WatchReports
  <2> QED
    BY <1>a, <2>1, <2>2, <2>4, <2>5, <2>6, <2>7, <2>8, ServedStays
<1>9. ASSUME NEW k \in Offer!Made, Offer!WatchQuits(k) PROVE ServedInv'
  <2>1. UNCHANGED of
    BY <1>9 DEF Offer!WatchQuits
  <2>2. \A u \in Transfer : offer_offers'[u] \in {offer_offers[u], 0}
    BY <1>9, <1>b, <1>c DEF Offer!WatchQuits
  <2>4. \A j \in Offer!Made : (offer_offers[of[j]] # 0 /\ offer_offers'[of[j]] = 0) =>
                      Reason(of[j])' \/ of[j] \in cancelled'["sender"]
    BY <1>9, <1>b DEF Offer!WatchQuits
  <2>5. \A j \in Offer!Token : watch'[j] = "gone" =>
                      watch[j] = "gone" \/ (j \in Offer!Made /\ Reason(of[j])')
    BY <1>9, <1>b, <1>c DEF Offer!WatchQuits
  <2>6. \A u \in Transfer : offer_shown'["sender"][u] = "complete" =>
                      offer_shown["sender"][u] = "complete" \/ Reason(u)'
    BY <1>9, <1>b, <1>c DEF Offer!WatchQuits
  <2>7. \A j \in expired' : j \in expired \/ (j \in Offer!Made /\ <<of[j], "expired">> \in broken')
    BY <1>9 DEF Offer!WatchQuits
  <2>8. \A u \in missing' : u \in missing \/ <<u, "missing">> \in broken'
    BY <1>9 DEF Offer!WatchQuits
  <2> QED
    BY <1>a, <2>1, <2>2, <2>4, <2>5, <2>6, <2>7, <2>8, ServedStays
<1>10. ASSUME NEW k \in Offer!Made, Offer!OfferArrives(k) PROVE ServedInv'
  <2>1. UNCHANGED of
    BY <1>10 DEF Offer!OfferArrives
  <2>2. \A u \in Transfer : offer_offers'[u] \in {offer_offers[u], 0}
    BY <1>10, <1>b, <1>c DEF Offer!OfferArrives
  <2>4. \A j \in Offer!Made : (offer_offers[of[j]] # 0 /\ offer_offers'[of[j]] = 0) =>
                      Reason(of[j])' \/ of[j] \in cancelled'["sender"]
    BY <1>10, <1>b DEF Offer!OfferArrives
  <2>5. \A j \in Offer!Token : watch'[j] = "gone" =>
                      watch[j] = "gone" \/ (j \in Offer!Made /\ Reason(of[j])')
    BY <1>10, <1>b, <1>c DEF Offer!OfferArrives
  <2>6. \A u \in Transfer : offer_shown'["sender"][u] = "complete" =>
                      offer_shown["sender"][u] = "complete" \/ Reason(u)'
    BY <1>10, <1>b, <1>c DEF Offer!OfferArrives
  <2>7. \A j \in expired' : j \in expired \/ (j \in Offer!Made /\ <<of[j], "expired">> \in broken')
    BY <1>10 DEF Offer!OfferArrives
  <2>8. \A u \in missing' : u \in missing \/ <<u, "missing">> \in broken'
    BY <1>10 DEF Offer!OfferArrives
  <2> QED
    BY <1>a, <2>1, <2>2, <2>4, <2>5, <2>6, <2>7, <2>8, ServedStays
<1>11. ASSUME NEW k \in Offer!Made, Offer!AskAccepted(k) PROVE ServedInv'
  <2>1. UNCHANGED of
    BY <1>11 DEF Offer!AskAccepted
  <2>2. \A u \in Transfer : offer_offers'[u] \in {offer_offers[u], 0}
    BY <1>11, <1>b, <1>c DEF Offer!AskAccepted, Offer!Peeked
  <2>4. \A j \in Offer!Made : (offer_offers[of[j]] # 0 /\ offer_offers'[of[j]] = 0) =>
                      Reason(of[j])' \/ of[j] \in cancelled'["sender"]
    BY <1>11, <1>b DEF Offer!AskAccepted, Offer!Peeked
  <2>5. \A j \in Offer!Token : watch'[j] = "gone" =>
                      watch[j] = "gone" \/ (j \in Offer!Made /\ Reason(of[j])')
    BY <1>11, <1>b, <1>c DEF Offer!AskAccepted
  <2>6. \A u \in Transfer : offer_shown'["sender"][u] = "complete" =>
                      offer_shown["sender"][u] = "complete" \/ Reason(u)'
    BY <1>11, <1>b, <1>c DEF Offer!AskAccepted
  <2>7. \A j \in expired' : j \in expired \/ (j \in Offer!Made /\ <<of[j], "expired">> \in broken')
    BY <1>11 DEF Offer!AskAccepted
  <2>8. \A u \in missing' : u \in missing \/ <<u, "missing">> \in broken'
    BY <1>11 DEF Offer!AskAccepted
  <2> QED
    BY <1>a, <2>1, <2>2, <2>4, <2>5, <2>6, <2>7, <2>8, ServedStays
<1>12. ASSUME NEW k \in Offer!Made, Offer!AskRefused(k) PROVE ServedInv'
  <2>1. UNCHANGED of
    BY <1>12 DEF Offer!AskRefused
  <2>2. \A u \in Transfer : offer_offers'[u] \in {offer_offers[u], 0}
    BY <1>12, <1>b, <1>c DEF Offer!AskRefused, Offer!Popped
  <2>3. Offer!Current(k) => Reason(of[k])'
    <3>1. Offer!Current(k) => <<of[k], "expired">> \in broken' \/ <<of[k], "missing">> \in broken'
      BY <1>12, <1>b, <1>d DEF Offer!AskRefused, Marked, Offer!Current
    <3> QED
      BY <3>1, <2>1 DEF Reason, Ending
  <2>4. \A j \in Offer!Made : (offer_offers[of[j]] # 0 /\ offer_offers'[of[j]] = 0) =>
                      Reason(of[j])' \/ of[j] \in cancelled'["sender"]
    <3> SUFFICES ASSUME NEW j \in Offer!Made, offer_offers[of[j]] # 0, offer_offers'[of[j]] = 0
                 PROVE  Reason(of[j])' \/ of[j] \in cancelled'["sender"]
      OBVIOUS
    <3>1. of[j] = of[k] /\ Offer!Current(k)
      BY <1>12, <1>b, <1>c DEF Offer!AskRefused, Offer!Popped
    <3> QED
      BY <2>3, <3>1, <2>1
  <2>5. \A j \in Offer!Token : watch'[j] = "gone" =>
                      watch[j] = "gone" \/ (j \in Offer!Made /\ Reason(of[j])')
    BY <1>12, <1>b, <1>c DEF Offer!AskRefused
  <2>6. \A u \in Transfer : offer_shown'["sender"][u] = "complete" =>
                      offer_shown["sender"][u] = "complete" \/ Reason(u)'
    BY <1>12, <1>b, <1>c DEF Offer!AskRefused
  <2>7. \A j \in expired' : j \in expired \/ (j \in Offer!Made /\ <<of[j], "expired">> \in broken')
    BY <1>12 DEF Offer!AskRefused
  <2>8. \A u \in missing' : u \in missing \/ <<u, "missing">> \in broken'
    BY <1>12 DEF Offer!AskRefused
  <2> QED
    BY <1>a, <2>1, <2>2, <2>4, <2>5, <2>6, <2>7, <2>8, ServedStays
<1>13. ASSUME NEW k \in Offer!Made, Offer!ServeChunk(k) PROVE ServedInv'
  <2>1. UNCHANGED of
    BY <1>13 DEF Offer!ServeChunk
  <2>2. \A u \in Transfer : offer_offers'[u] \in {offer_offers[u], 0}
    BY <1>13, <1>b, <1>c DEF Offer!ServeChunk
  <2>4. \A j \in Offer!Made : (offer_offers[of[j]] # 0 /\ offer_offers'[of[j]] = 0) =>
                      Reason(of[j])' \/ of[j] \in cancelled'["sender"]
    BY <1>13, <1>b DEF Offer!ServeChunk
  <2>5. \A j \in Offer!Token : watch'[j] = "gone" =>
                      watch[j] = "gone" \/ (j \in Offer!Made /\ Reason(of[j])')
    BY <1>13, <1>b, <1>c DEF Offer!ServeChunk
  <2>6. \A u \in Transfer : offer_shown'["sender"][u] = "complete" =>
                      offer_shown["sender"][u] = "complete" \/ Reason(u)'
    BY <1>13, <1>b, <1>c DEF Offer!ServeChunk
  <2>7. \A j \in expired' : j \in expired \/ (j \in Offer!Made /\ <<of[j], "expired">> \in broken')
    BY <1>13 DEF Offer!ServeChunk
  <2>8. \A u \in missing' : u \in missing \/ <<u, "missing">> \in broken'
    BY <1>13 DEF Offer!ServeChunk
  <2> QED
    BY <1>a, <2>1, <2>2, <2>4, <2>5, <2>6, <2>7, <2>8, ServedStays
<1>14. ASSUME NEW k \in Offer!Made, Offer!ServeEnd(k) PROVE ServedInv'
  <2>1. UNCHANGED of
    BY <1>14 DEF Offer!ServeEnd
  <2>2. \A u \in Transfer : offer_offers'[u] \in {offer_offers[u], 0}
    BY <1>14, <1>b, <1>c DEF Offer!ServeEnd, Offer!Popped
  <2>3. Reason(of[k])'
    BY <1>14, <2>1 DEF Offer!ServeEnd, Reason, Offer!Made
  <2>4. \A j \in Offer!Made : (offer_offers[of[j]] # 0 /\ offer_offers'[of[j]] = 0) =>
                      Reason(of[j])' \/ of[j] \in cancelled'["sender"]
    <3> SUFFICES ASSUME NEW j \in Offer!Made, offer_offers[of[j]] # 0, offer_offers'[of[j]] = 0
                 PROVE  Reason(of[j])' \/ of[j] \in cancelled'["sender"]
      OBVIOUS
    <3>1. of[j] = of[k]
      BY <1>14, <1>b, <1>c DEF Offer!ServeEnd, Offer!Popped
    <3> QED
      BY <2>3, <3>1, <2>1
  <2>5. \A j \in Offer!Token : watch'[j] = "gone" =>
                      watch[j] = "gone" \/ (j \in Offer!Made /\ Reason(of[j])')
    BY <1>14, <1>b, <1>c DEF Offer!ServeEnd
  <2>6. \A u \in Transfer : offer_shown'["sender"][u] = "complete" =>
                      offer_shown["sender"][u] = "complete" \/ Reason(u)'
    BY <1>14, <1>b, <1>c DEF Offer!ServeEnd
  <2>7. \A j \in expired' : j \in expired \/ (j \in Offer!Made /\ <<of[j], "expired">> \in broken')
    BY <1>14 DEF Offer!ServeEnd
  <2>8. \A u \in missing' : u \in missing \/ <<u, "missing">> \in broken'
    BY <1>14 DEF Offer!ServeEnd
  <2> QED
    BY <1>a, <2>1, <2>2, <2>4, <2>5, <2>6, <2>7, <2>8, ServedStays
<1>15. ASSUME NEW k \in Offer!Made, Offer!ReadChunk(k) PROVE ServedInv'
  <2>1. UNCHANGED of
    BY <1>15 DEF Offer!ReadChunk
  <2>2. \A u \in Transfer : offer_offers'[u] \in {offer_offers[u], 0}
    BY <1>15, <1>b, <1>c DEF Offer!ReadChunk
  <2>4. \A j \in Offer!Made : (offer_offers[of[j]] # 0 /\ offer_offers'[of[j]] = 0) =>
                      Reason(of[j])' \/ of[j] \in cancelled'["sender"]
    BY <1>15, <1>b DEF Offer!ReadChunk
  <2>5. \A j \in Offer!Token : watch'[j] = "gone" =>
                      watch[j] = "gone" \/ (j \in Offer!Made /\ Reason(of[j])')
    BY <1>15, <1>b, <1>c DEF Offer!ReadChunk
  <2>6. \A u \in Transfer : offer_shown'["sender"][u] = "complete" =>
                      offer_shown["sender"][u] = "complete" \/ Reason(u)'
    BY <1>15, <1>b, <1>c DEF Offer!ReadChunk
  <2>7. \A j \in expired' : j \in expired \/ (j \in Offer!Made /\ <<of[j], "expired">> \in broken')
    BY <1>15 DEF Offer!ReadChunk
  <2>8. \A u \in missing' : u \in missing \/ <<u, "missing">> \in broken'
    BY <1>15 DEF Offer!ReadChunk
  <2> QED
    BY <1>a, <2>1, <2>2, <2>4, <2>5, <2>6, <2>7, <2>8, ServedStays
<1>16. ASSUME NEW k \in Offer!Made, Offer!ReadEnd(k) PROVE ServedInv'
  <2>1. UNCHANGED of
    BY <1>16 DEF Offer!ReadEnd
  <2>2. \A u \in Transfer : offer_offers'[u] \in {offer_offers[u], 0}
    BY <1>16, <1>b, <1>c DEF Offer!ReadEnd
  <2>4. \A j \in Offer!Made : (offer_offers[of[j]] # 0 /\ offer_offers'[of[j]] = 0) =>
                      Reason(of[j])' \/ of[j] \in cancelled'["sender"]
    BY <1>16, <1>b DEF Offer!ReadEnd
  <2>5. \A j \in Offer!Token : watch'[j] = "gone" =>
                      watch[j] = "gone" \/ (j \in Offer!Made /\ Reason(of[j])')
    BY <1>16, <1>b, <1>c DEF Offer!ReadEnd
  <2>6. \A u \in Transfer : offer_shown'["sender"][u] = "complete" =>
                      offer_shown["sender"][u] = "complete" \/ Reason(u)'
    BY <1>16, <1>b, <1>c DEF Offer!ReadEnd
  <2>7. \A j \in expired' : j \in expired \/ (j \in Offer!Made /\ <<of[j], "expired">> \in broken')
    BY <1>16 DEF Offer!ReadEnd
  <2>8. \A u \in missing' : u \in missing \/ <<u, "missing">> \in broken'
    BY <1>16 DEF Offer!ReadEnd
  <2> QED
    BY <1>a, <2>1, <2>2, <2>4, <2>5, <2>6, <2>7, <2>8, ServedStays
<1>17. ASSUME NEW k \in Offer!Made, Offer!Save(k) PROVE ServedInv'
  <2>1. UNCHANGED of
    BY <1>17 DEF Offer!Save
  <2>2. \A u \in Transfer : offer_offers'[u] \in {offer_offers[u], 0}
    BY <1>17, <1>b, <1>c DEF Offer!Save
  <2>4. \A j \in Offer!Made : (offer_offers[of[j]] # 0 /\ offer_offers'[of[j]] = 0) =>
                      Reason(of[j])' \/ of[j] \in cancelled'["sender"]
    BY <1>17, <1>b DEF Offer!Save
  <2>5. \A j \in Offer!Token : watch'[j] = "gone" =>
                      watch[j] = "gone" \/ (j \in Offer!Made /\ Reason(of[j])')
    BY <1>17, <1>b, <1>c DEF Offer!Save
  <2>6. \A u \in Transfer : offer_shown'["sender"][u] = "complete" =>
                      offer_shown["sender"][u] = "complete" \/ Reason(u)'
    BY <1>17, <1>b, <1>c DEF Offer!Save, Offer!Show
  <2>7. \A j \in expired' : j \in expired \/ (j \in Offer!Made /\ <<of[j], "expired">> \in broken')
    BY <1>17 DEF Offer!Save
  <2>8. \A u \in missing' : u \in missing \/ <<u, "missing">> \in broken'
    BY <1>17 DEF Offer!Save
  <2> QED
    BY <1>a, <2>1, <2>2, <2>4, <2>5, <2>6, <2>7, <2>8, ServedStays
<1>18. ASSUME NEW k \in Offer!Made, Offer!Fail(k) PROVE ServedInv'
  <2>1. UNCHANGED of
    BY <1>18 DEF Offer!Fail
  <2>2. \A u \in Transfer : offer_offers'[u] \in {offer_offers[u], 0}
    BY <1>18, <1>b, <1>c DEF Offer!Fail
  <2>4. \A j \in Offer!Made : (offer_offers[of[j]] # 0 /\ offer_offers'[of[j]] = 0) =>
                      Reason(of[j])' \/ of[j] \in cancelled'["sender"]
    BY <1>18, <1>b DEF Offer!Fail
  <2>5. \A j \in Offer!Token : watch'[j] = "gone" =>
                      watch[j] = "gone" \/ (j \in Offer!Made /\ Reason(of[j])')
    BY <1>18, <1>b, <1>c DEF Offer!Fail
  <2>6. \A u \in Transfer : offer_shown'["sender"][u] = "complete" =>
                      offer_shown["sender"][u] = "complete" \/ Reason(u)'
    BY <1>18, <1>b, <1>c DEF Offer!Fail, Offer!Show
  <2>7. \A j \in expired' : j \in expired \/ (j \in Offer!Made /\ <<of[j], "expired">> \in broken')
    BY <1>18 DEF Offer!Fail
  <2>8. \A u \in missing' : u \in missing \/ <<u, "missing">> \in broken'
    BY <1>18 DEF Offer!Fail
  <2> QED
    BY <1>a, <2>1, <2>2, <2>4, <2>5, <2>6, <2>7, <2>8, ServedStays
<1>19. ASSUME NEW k \in Offer!Made, Offer!Expire(k) PROVE ServedInv'
  <2>1. UNCHANGED of
    BY <1>19 DEF Offer!Expire
  <2>2. \A u \in Transfer : offer_offers'[u] \in {offer_offers[u], 0}
    BY <1>19, <1>b, <1>c DEF Offer!Expire
  <2>4. \A j \in Offer!Made : (offer_offers[of[j]] # 0 /\ offer_offers'[of[j]] = 0) =>
                      Reason(of[j])' \/ of[j] \in cancelled'["sender"]
    BY <1>19, <1>b DEF Offer!Expire
  <2>5. \A j \in Offer!Token : watch'[j] = "gone" =>
                      watch[j] = "gone" \/ (j \in Offer!Made /\ Reason(of[j])')
    BY <1>19, <1>b, <1>c DEF Offer!Expire
  <2>6. \A u \in Transfer : offer_shown'["sender"][u] = "complete" =>
                      offer_shown["sender"][u] = "complete" \/ Reason(u)'
    BY <1>19, <1>b, <1>c DEF Offer!Expire
  <2>7. \A j \in expired' : j \in expired \/ (j \in Offer!Made /\ <<of[j], "expired">> \in broken')
    BY <1>19 DEF Offer!Expire, Offer!Fault
  <2>8. \A u \in missing' : u \in missing \/ <<u, "missing">> \in broken'
    BY <1>19 DEF Offer!Expire, Offer!Fault
  <2> QED
    BY <1>a, <2>1, <2>2, <2>4, <2>5, <2>6, <2>7, <2>8, ServedStays
<1>20. ASSUME NEW k \in Offer!Made, Offer!Cut(k) PROVE ServedInv'
  <2>1. UNCHANGED of
    BY <1>20 DEF Offer!Cut
  <2>2. \A u \in Transfer : offer_offers'[u] \in {offer_offers[u], 0}
    BY <1>20, <1>b, <1>c DEF Offer!Cut, Offer!Popped
  <2>3. Reason(of[k])'
    BY <1>20, <2>1 DEF Offer!Cut, Offer!Fault, Reason, Ending
  <2>4. \A j \in Offer!Made : (offer_offers[of[j]] # 0 /\ offer_offers'[of[j]] = 0) =>
                      Reason(of[j])' \/ of[j] \in cancelled'["sender"]
    <3> SUFFICES ASSUME NEW j \in Offer!Made, offer_offers[of[j]] # 0, offer_offers'[of[j]] = 0
                 PROVE  Reason(of[j])' \/ of[j] \in cancelled'["sender"]
      OBVIOUS
    <3>1. of[j] = of[k]
      BY <1>20, <1>b, <1>c DEF Offer!Cut, Offer!Popped
    <3> QED
      BY <2>3, <3>1, <2>1
  <2>5. \A j \in Offer!Token : watch'[j] = "gone" =>
                      watch[j] = "gone" \/ (j \in Offer!Made /\ Reason(of[j])')
    BY <1>20, <1>b, <1>c DEF Offer!Cut
  <2>6. \A u \in Transfer : offer_shown'["sender"][u] = "complete" =>
                      offer_shown["sender"][u] = "complete" \/ Reason(u)'
    BY <1>20, <1>b, <1>c DEF Offer!Cut
  <2>7. \A j \in expired' : j \in expired \/ (j \in Offer!Made /\ <<of[j], "expired">> \in broken')
    BY <1>20 DEF Offer!Cut, Offer!Fault
  <2>8. \A u \in missing' : u \in missing \/ <<u, "missing">> \in broken'
    BY <1>20 DEF Offer!Cut, Offer!Fault
  <2> QED
    BY <1>a, <2>1, <2>2, <2>4, <2>5, <2>6, <2>7, <2>8, ServedStays
<1>21. ASSUME NEW k \in Offer!Made, Offer!LosePacket(k) PROVE ServedInv'
  <2>1. UNCHANGED of
    BY <1>21 DEF Offer!LosePacket
  <2>2. \A u \in Transfer : offer_offers'[u] \in {offer_offers[u], 0}
    BY <1>21, <1>b, <1>c DEF Offer!LosePacket
  <2>4. \A j \in Offer!Made : (offer_offers[of[j]] # 0 /\ offer_offers'[of[j]] = 0) =>
                      Reason(of[j])' \/ of[j] \in cancelled'["sender"]
    BY <1>21, <1>b DEF Offer!LosePacket
  <2>5. \A j \in Offer!Token : watch'[j] = "gone" =>
                      watch[j] = "gone" \/ (j \in Offer!Made /\ Reason(of[j])')
    BY <1>21, <1>b, <1>c DEF Offer!LosePacket
  <2>6. \A u \in Transfer : offer_shown'["sender"][u] = "complete" =>
                      offer_shown["sender"][u] = "complete" \/ Reason(u)'
    BY <1>21, <1>b, <1>c DEF Offer!LosePacket
  <2>7. \A j \in expired' : j \in expired \/ (j \in Offer!Made /\ <<of[j], "expired">> \in broken')
    BY <1>21 DEF Offer!LosePacket, Offer!Fault
  <2>8. \A u \in missing' : u \in missing \/ <<u, "missing">> \in broken'
    BY <1>21 DEF Offer!LosePacket, Offer!Fault
  <2> QED
    BY <1>a, <2>1, <2>2, <2>4, <2>5, <2>6, <2>7, <2>8, ServedStays
<1>22. ASSUME UNCHANGED Offer!vars PROVE ServedInv'
  <2>1. UNCHANGED of
    BY <1>22 DEF Offer!vars
  <2>2. \A u \in Transfer : offer_offers'[u] \in {offer_offers[u], 0}
    BY <1>22, <1>b, <1>c DEF Offer!vars
  <2>4. \A j \in Offer!Made : (offer_offers[of[j]] # 0 /\ offer_offers'[of[j]] = 0) =>
                      Reason(of[j])' \/ of[j] \in cancelled'["sender"]
    BY <1>22, <1>b DEF Offer!vars
  <2>5. \A j \in Offer!Token : watch'[j] = "gone" =>
                      watch[j] = "gone" \/ (j \in Offer!Made /\ Reason(of[j])')
    BY <1>22, <1>b, <1>c DEF Offer!vars
  <2>6. \A u \in Transfer : offer_shown'["sender"][u] = "complete" =>
                      offer_shown["sender"][u] = "complete" \/ Reason(u)'
    BY <1>22, <1>b, <1>c DEF Offer!vars
  <2>7. \A j \in expired' : j \in expired \/ (j \in Offer!Made /\ <<of[j], "expired">> \in broken')
    BY <1>22 DEF Offer!vars
  <2>8. \A u \in missing' : u \in missing \/ <<u, "missing">> \in broken'
    BY <1>22 DEF Offer!vars
  <2> QED
    BY <1>a, <2>1, <2>2, <2>4, <2>5, <2>6, <2>7, <2>8, ServedStays
<1> QED
  BY <1>1, <1>2, <1>3, <1>4, <1>5, <1>6, <1>7, <1>8, <1>9, <1>10, <1>11, <1>12, <1>13, <1>14, <1>15, <1>16, <1>17, <1>18, <1>19, <1>20, <1>21, <1>22 DEF Offer!Next

LEMMA InitTyped == MaxTokens \in Nat /\ Offer!Init => OffersTyped
<1> SUFFICES ASSUME MaxTokens \in Nat, Offer!Init PROVE OffersTyped
  OBVIOUS
<1>1. Offer!Made = {} /\ of \in [Offer!Made -> Transfer] /\ Offer!Made = 1..0 /\ 0 \in 0..MaxTokens
  BY DEF Offer!Init, Offer!Made
<1>2. /\ offer_offers \in [Transfer -> Nat] /\ watch \in [Offer!Token -> {"off", "look", "gone"}]
      /\ fetch \in [Offer!Token -> {"off", "ask", "read", "eof", "fail"}]
      /\ serve \in [Offer!Token -> {"off", "send"}]
      /\ got \in [Offer!Token -> Nat] /\ sent \in [Offer!Token -> Nat]
  BY DEF Offer!Init
<1>3. cancelled \in [Offer!Side -> SUBSET Transfer] /\ saved \in [Transfer -> {None, "whole", "torn"}]
  BY DEF Offer!Init
<1>4. offer_shown \in [Offer!Side -> [Transfer -> {None, "failed", "cancelled", "complete"}]]
  BY DEF Offer!Init
<1>5. file \in [{NameOf[t] : t \in Transfer} -> [Offer!Chunk -> Transfer \cup {None}]]
  BY DEF Offer!Init, Offer!Empty
<1> QED
  BY <1>1, <1>2, <1>3, <1>4, <1>5 DEF OffersTyped

LEMMA ServedInit == None # "complete" /\ MaxTokens \in Nat /\ Offer!Init => ServedInv
<1> SUFFICES ASSUME None # "complete", MaxTokens \in Nat, Offer!Init PROVE ServedInv
  OBVIOUS
<1>1. OffersTyped
  BY InitTyped
<1>2. Offer!Made = {}
  BY DEF Offer!Init, Offer!Made
<1>3. Offer!CompleteWasServed
  <2>1. \A t \in Transfer : offer_shown["sender"][t] = None
    BY DEF Offer!Init, Offer!Side
  <2> QED
    BY <2>1 DEF Offer!CompleteWasServed
<1>4. GoneServed
  BY DEF Offer!Init, GoneServed
<1> QED
  BY <1>1, <1>2, <1>3, <1>4 DEF Offer!Init, ServedInv, TableOwn, Marked, Vanished

-----------------------------------------------------------------------------
(* What is saved is whole                                                       *)

LEMMA SavedInit == None # "torn" /\ MaxTokens \in Nat /\ Offer!Init => SavedInv
<1> SUFFICES ASSUME None # "torn", MaxTokens \in Nat, Offer!Init PROVE SavedInv
  OBVIOUS
<1>1. OffersTyped
  BY InitTyped
<1>2. Offer!Made = {}
  BY DEF Offer!Init, Offer!Made
<1>3. Fresh
  BY DEF Offer!Init, Fresh, NotStarted
<1>4. Offer!SavedWhole
  BY DEF Offer!Init, Offer!SavedWhole
<1> QED
  BY <1>1, <1>2, <1>3, <1>4 DEF SavedInv, Written, Met

\* The downloads and the web handlers are where they were.
Downloads == <<of, fetch, serve, got, sent, file, shared, saved>>

LEMMA SavedFramed ==
  ASSUME SavedInv, OffersTyped', UNCHANGED Downloads, offer_wire' \subseteq offer_wire, broken \subseteq broken'
  PROVE  SavedInv'
<1>1. Offer!Made' = Offer!Made /\ UNCHANGED <<of, fetch, serve, got, sent, file, shared, saved>>
  BY DEF Offer!Made, Downloads
<1>2. Fresh'
  BY <1>1 DEF SavedInv, Fresh, NotStarted
<1>3. Written'
  BY <1>1 DEF SavedInv, Written, Offer!Name
<1>4. Met'
  BY <1>1 DEF SavedInv, Met, Offer!Name
<1>5. Offer!SavedWhole'
  BY <1>1 DEF SavedInv, Offer!SavedWhole
<1> QED
  BY <1>2, <1>3, <1>4, <1>5 DEF SavedInv

LEMMA SavedRegistered ==
  ASSUME MaxTokens \in Nat, SavedInv, OffersTyped', NEW t \in Transfer, NEW k \in Offer!Token,
         Offer!Register(t, k), offer_wire' \in {offer_wire, offer_wire \cup {k}},
         UNCHANGED <<fetch, serve, got, sent, file, shared, saved, broken>>
  PROVE  SavedInv'
<1>0. /\ k \notin Offer!Made /\ Offer!Made' = Offer!Made \cup {k} /\ Offer!Made \subseteq Offer!Token
      /\ of'[k] = t /\ (\A j \in Offer!Made : of'[j] = of[j])
  BY NextToken DEF SavedInv
<1>1. fetch[k] = "off" /\ NotStarted(k)
  BY <1>0 DEF SavedInv, Fresh
<1>2. Fresh'
  BY <1>0, <1>1 DEF SavedInv, Fresh, NotStarted
<1>3. Written'
  BY <1>0, <1>1 DEF SavedInv, Written, Offer!Name, Writing
<1>4. Met'
  BY <1>0, <1>1 DEF SavedInv, Met, Offer!Name, Writing
<1>5. Offer!SavedWhole'
  BY DEF SavedInv, Offer!SavedWhole
<1> QED
  BY <1>2, <1>3, <1>4, <1>5 DEF SavedInv

FreshAt(k) ==
  /\ k \in offer_wire => fetch[k] = "off" /\ NotStarted(k)
  /\ fetch[k] = "ask" => NotStarted(k)
  /\ fetch[k] = "read" => serve[k] = "send" \/ sent[k] = 2
  /\ fetch[k] = "eof" => got[k] = 2 \/ <<of[k], "cut">> \in broken

WrittenAt(k) ==
  fetch[k] \in Writing =>
    Offer!Name(k) \in shared \/ \A i \in Offer!Chunk : i <= got[k] => file[Offer!Name(k)][i] = of[k]

\* One token moves: its download, or the handler that serves it.
LEMMA SavedMoves ==
  ASSUME MaxTokens \in Nat, SavedInv, OffersTyped', UNCHANGED of, NEW k \in Offer!Made,
         offer_wire' \subseteq offer_wire, shared \subseteq shared', broken \subseteq broken',
         \A j \in Offer!Token \ {k} : /\ fetch'[j] = fetch[j] /\ serve'[j] = serve[j]
                                /\ got'[j] = got[j] /\ sent'[j] = sent[j],
         FreshAt(k)', WrittenAt(k)',
         \A n \in {NameOf[t] : t \in Transfer} : n # Offer!Name(k) => file'[n] = file[n],
         file' = file \/ fetch'[k] \in Writing,
         (fetch'[k] \in Writing /\ fetch[k] \notin Writing) =>
           \A j \in Offer!Made \ {k} : Offer!Name(j) = Offer!Name(k) /\ fetch[j] \in Writing => Offer!Name(k) \in shared',
         \A t \in Transfer : saved'[t] = "torn" =>
           saved[t] = "torn" \/ <<t, "cut">> \in broken' \/ NameOf[t] \in shared'
  PROVE  SavedInv'
<1>0. /\ Offer!Made' = Offer!Made /\ Offer!Made \subseteq Offer!Token /\ \A j \in Offer!Made : of[j] \in Transfer
      /\ \A j \in Offer!Made : Offer!Name(j)' = Offer!Name(j)
  BY MadeTyped DEF Offer!Made, Offer!Name, SavedInv
<1>1. Fresh'
  BY <1>0 DEF SavedInv, Fresh, FreshAt, NotStarted
<1>2. Met'
  <2> SUFFICES ASSUME NEW i \in Offer!Made, NEW j \in Offer!Made, i # j, Offer!Name(i) = Offer!Name(j),
                      fetch'[i] \in Writing, fetch'[j] \in Writing
               PROVE  Offer!Name(j) \in shared'
    BY <1>0 DEF Met, Writing
  <2>1. CASE fetch[i] \in Writing /\ fetch[j] \in Writing
    BY <2>1 DEF SavedInv, Met
  <2>2. CASE ~(fetch[i] \in Writing /\ fetch[j] \in Writing)
    <3>1. \A q \in Offer!Made \ {k} : fetch'[q] = fetch[q]
      BY <1>0
    <3>2. i = k \/ j = k
      BY <2>2, <3>1
    <3> QED
      BY <2>2, <3>1, <3>2
  <2> QED
    BY <2>1, <2>2
<1>3. Written'
  <2> SUFFICES ASSUME NEW j \in Offer!Made PROVE WrittenAt(j)'
    BY <1>0 DEF Written, WrittenAt, Writing
  <2>1. CASE j = k
    BY <2>1
  <2>2. CASE j # k
    <3>0. fetch'[j] = fetch[j] /\ got'[j] = got[j] /\ of'[j] = of[j] /\ Offer!Name(j)' = Offer!Name(j)
      BY <1>0, <2>2
    <3>1. WrittenAt(j)
      BY DEF SavedInv, Written, WrittenAt
    <3>2. CASE Offer!Name(j) # Offer!Name(k) \/ file' = file
      <4>1. Offer!Name(j) \in {NameOf[t] : t \in Transfer}
        BY <1>0 DEF Offer!Name
      <4>2. file'[Offer!Name(j)] = file[Offer!Name(j)]
        BY <3>2, <4>1
      <4> QED
        BY <3>0, <3>1, <4>2 DEF WrittenAt, Writing
    <3>3. CASE Offer!Name(j) = Offer!Name(k) /\ fetch'[k] \in Writing
      <4>1. fetch[j] \in Writing => Offer!Name(j) \in shared'
        BY <1>0, <1>2, <2>2, <3>0, <3>3 DEF Met, Writing
      <4> QED
        BY <3>0, <4>1 DEF WrittenAt, Writing
    <3> QED
      BY <3>2, <3>3
  <2> QED
    BY <2>1, <2>2
<1>4. Offer!SavedWhole'
  BY DEF SavedInv, Offer!SavedWhole
<1> QED
  BY <1>1, <1>2, <1>3, <1>4 DEF SavedInv

LEMMA SavedStep == None # "torn" /\ MaxTokens \in Nat /\ SavedInv /\ [Offer!Next]_(Offer!vars) => SavedInv'
<1> SUFFICES ASSUME None # "torn", MaxTokens \in Nat, SavedInv, [Offer!Next]_(Offer!vars) PROVE SavedInv'
  OBVIOUS
<1>a. OffersTyped'
  BY OfferTypes DEF SavedInv
<1>b. Offer!Made \subseteq Offer!Token /\ \A j \in Offer!Made : of[j] \in Transfer
  BY MadeTyped DEF SavedInv
<1>c. /\ fetch \in [Offer!Token -> {"off", "ask", "read", "eof", "fail"}] /\ serve \in [Offer!Token -> {"off", "send"}]
      /\ got \in [Offer!Token -> Nat] /\ sent \in [Offer!Token -> Nat]
      /\ file \in [{NameOf[t] : t \in Transfer} -> [Offer!Chunk -> Transfer \cup {None}]]
      /\ saved \in [Transfer -> {None, "whole", "torn"}]
  BY DEF SavedInv, OffersTyped
<1>d. \A j \in Offer!Made : FreshAt(j) /\ WrittenAt(j)
  BY <1>b DEF SavedInv, Fresh, FreshAt, Written, WrittenAt
<1>1. ASSUME NEW t \in Transfer, Offer!Offer(t) PROVE SavedInv'
  <2>1. PICK k \in Offer!Token : Offer!Register(t, k) /\ offer_wire' \in {offer_wire, offer_wire \cup {k}}
    BY <1>1 DEF Offer!Offer
  <2>2. UNCHANGED <<fetch, serve, got, sent, file, shared, saved, broken>>
    BY <1>1 DEF Offer!Offer
  <2> QED
    BY <1>a, <2>1, <2>2, SavedRegistered
<1>2. ASSUME NEW t \in Transfer, Offer!OfferFails(t) PROVE SavedInv'
  <2>1. PICK k \in Offer!Token : Offer!Register(t, k) /\ offer_wire' \in {offer_wire, offer_wire \cup {k}}
    BY <1>2 DEF Offer!OfferFails
  <2>2. UNCHANGED <<fetch, serve, got, sent, file, shared, saved, broken>>
    BY <1>2 DEF Offer!OfferFails
  <2> QED
    BY <1>a, <2>1, <2>2, SavedRegistered
<1>3. ASSUME NEW t \in Transfer, Offer!Cancel(t) PROVE SavedInv'
  <2>1. UNCHANGED Downloads /\ offer_wire' \subseteq offer_wire /\ broken \subseteq broken'
    BY <1>3 DEF Offer!Cancel, Downloads
  <2> QED
    BY <1>a, <2>1, SavedFramed
<1>4. ASSUME NEW t \in Transfer, Offer!NoticeArrives(t) PROVE SavedInv'
  <2>1. UNCHANGED Downloads /\ offer_wire' \subseteq offer_wire /\ broken \subseteq broken'
    BY <1>4 DEF Offer!NoticeArrives, Downloads
  <2> QED
    BY <1>a, <2>1, SavedFramed
<1>5. ASSUME NEW t \in Transfer, Offer!RemoveSource(t) PROVE SavedInv'
  <2>1. UNCHANGED Downloads /\ offer_wire' \subseteq offer_wire /\ broken \subseteq broken'
    BY <1>5 DEF Offer!RemoveSource, Offer!Fault, Downloads
  <2> QED
    BY <1>a, <2>1, SavedFramed
<1>6. ASSUME NEW k \in Offer!Made, Offer!WatchCancelled(k) PROVE SavedInv'
  <2>1. UNCHANGED Downloads /\ offer_wire' \subseteq offer_wire /\ broken \subseteq broken'
    BY <1>6 DEF Offer!WatchCancelled, Downloads
  <2> QED
    BY <1>a, <2>1, SavedFramed
<1>7. ASSUME NEW k \in Offer!Made, Offer!WatchSeesNone(k) PROVE SavedInv'
  <2>1. UNCHANGED Downloads /\ offer_wire' \subseteq offer_wire /\ broken \subseteq broken'
    BY <1>7 DEF Offer!WatchSeesNone, Downloads
  <2> QED
    BY <1>a, <2>1, SavedFramed
<1>8. ASSUME NEW k \in Offer!Made, Offer!WatchReports(k) PROVE SavedInv'
  <2>1. UNCHANGED Downloads /\ offer_wire' \subseteq offer_wire /\ broken \subseteq broken'
    BY <1>8 DEF Offer!WatchReports, Downloads
  <2> QED
    BY <1>a, <2>1, SavedFramed
<1>9. ASSUME NEW k \in Offer!Made, Offer!WatchQuits(k) PROVE SavedInv'
  <2>1. UNCHANGED Downloads /\ offer_wire' \subseteq offer_wire /\ broken \subseteq broken'
    BY <1>9 DEF Offer!WatchQuits, Downloads
  <2> QED
    BY <1>a, <2>1, SavedFramed
<1>10. ASSUME NEW k \in Offer!Made, Offer!OfferArrives(k) PROVE SavedInv'
  <2>1. UNCHANGED of /\ offer_wire' \subseteq offer_wire /\ shared \subseteq shared' /\ broken \subseteq broken'
    BY <1>10 DEF Offer!OfferArrives
  <2>2. \A j \in Offer!Token \ {k} : /\ fetch'[j] = fetch[j] /\ serve'[j] = serve[j]
                                  /\ got'[j] = got[j] /\ sent'[j] = sent[j]
    BY <1>10, <1>c DEF Offer!OfferArrives
  <2>3. FreshAt(k)'
    BY <1>10, <1>b, <1>c, <1>d DEF Offer!OfferArrives, FreshAt, NotStarted
  <2>4. WrittenAt(k)'
    BY <1>10, <1>b, <1>c, <1>d DEF Offer!OfferArrives, WrittenAt, Writing, Offer!Name
  <2>5. \A n \in {NameOf[t] : t \in Transfer} : n # Offer!Name(k) => file'[n] = file[n]
    BY <1>10, <1>c DEF Offer!OfferArrives
  <2>6. file' = file \/ fetch'[k] \in Writing
    BY <1>10, <1>b, <1>c DEF Offer!OfferArrives, Writing
  <2>7. (fetch'[k] \in Writing /\ fetch[k] \notin Writing) =>
          \A j \in Offer!Made \ {k} : Offer!Name(j) = Offer!Name(k) /\ fetch[j] \in Writing => Offer!Name(k) \in shared'
    BY <1>10, <1>b, <1>c DEF Offer!OfferArrives, Writing
  <2>8. \A t \in Transfer : saved'[t] = "torn" =>
          saved[t] = "torn" \/ <<t, "cut">> \in broken' \/ NameOf[t] \in shared'
    BY <1>10, <1>b, <1>c, <1>d DEF Offer!OfferArrives
  <2> QED
    BY <1>a, <2>1, <2>2, <2>3, <2>4, <2>5, <2>6, <2>7, <2>8, SavedMoves
<1>11. ASSUME NEW k \in Offer!Made, Offer!AskAccepted(k) PROVE SavedInv'
  <2>1. UNCHANGED of /\ offer_wire' \subseteq offer_wire /\ shared \subseteq shared' /\ broken \subseteq broken'
    BY <1>11 DEF Offer!AskAccepted
  <2>2. \A j \in Offer!Token \ {k} : /\ fetch'[j] = fetch[j] /\ serve'[j] = serve[j]
                                  /\ got'[j] = got[j] /\ sent'[j] = sent[j]
    BY <1>11, <1>c DEF Offer!AskAccepted
  <2>3. FreshAt(k)'
    BY <1>11, <1>b, <1>c, <1>d DEF Offer!AskAccepted, FreshAt, NotStarted
  <2>4. WrittenAt(k)'
    <3>1. got'[k] = 0
      BY <1>11, <1>d DEF Offer!AskAccepted, FreshAt, NotStarted
    <3> QED
      BY <3>1 DEF WrittenAt, Offer!Chunk
  <2>5. \A n \in {NameOf[t] : t \in Transfer} : n # Offer!Name(k) => file'[n] = file[n]
    BY <1>11, <1>c DEF Offer!AskAccepted
  <2>6. file' = file \/ fetch'[k] \in Writing
    BY <1>11, <1>b, <1>c DEF Offer!AskAccepted, Writing
  <2>7. (fetch'[k] \in Writing /\ fetch[k] \notin Writing) =>
          \A j \in Offer!Made \ {k} : Offer!Name(j) = Offer!Name(k) /\ fetch[j] \in Writing => Offer!Name(k) \in shared'
    BY <1>11, <1>b, <1>c DEF Offer!AskAccepted, Writing
  <2>8. \A t \in Transfer : saved'[t] = "torn" =>
          saved[t] = "torn" \/ <<t, "cut">> \in broken' \/ NameOf[t] \in shared'
    BY <1>11, <1>b, <1>c, <1>d DEF Offer!AskAccepted
  <2> QED
    BY <1>a, <2>1, <2>2, <2>3, <2>4, <2>5, <2>6, <2>7, <2>8, SavedMoves
<1>12. ASSUME NEW k \in Offer!Made, Offer!AskRefused(k) PROVE SavedInv'
  <2>1. UNCHANGED of /\ offer_wire' \subseteq offer_wire /\ shared \subseteq shared' /\ broken \subseteq broken'
    BY <1>12 DEF Offer!AskRefused
  <2>2. \A j \in Offer!Token \ {k} : /\ fetch'[j] = fetch[j] /\ serve'[j] = serve[j]
                                  /\ got'[j] = got[j] /\ sent'[j] = sent[j]
    BY <1>12, <1>c DEF Offer!AskRefused
  <2>3. FreshAt(k)'
    BY <1>12, <1>b, <1>c, <1>d DEF Offer!AskRefused, FreshAt, NotStarted
  <2>4. WrittenAt(k)'
    BY <1>12, <1>b, <1>c, <1>d DEF Offer!AskRefused, WrittenAt, Writing, Offer!Name
  <2>5. \A n \in {NameOf[t] : t \in Transfer} : n # Offer!Name(k) => file'[n] = file[n]
    BY <1>12, <1>c DEF Offer!AskRefused
  <2>6. file' = file \/ fetch'[k] \in Writing
    BY <1>12, <1>b, <1>c DEF Offer!AskRefused, Writing
  <2>7. (fetch'[k] \in Writing /\ fetch[k] \notin Writing) =>
          \A j \in Offer!Made \ {k} : Offer!Name(j) = Offer!Name(k) /\ fetch[j] \in Writing => Offer!Name(k) \in shared'
    BY <1>12, <1>b, <1>c DEF Offer!AskRefused, Writing
  <2>8. \A t \in Transfer : saved'[t] = "torn" =>
          saved[t] = "torn" \/ <<t, "cut">> \in broken' \/ NameOf[t] \in shared'
    BY <1>12, <1>b, <1>c, <1>d DEF Offer!AskRefused
  <2> QED
    BY <1>a, <2>1, <2>2, <2>3, <2>4, <2>5, <2>6, <2>7, <2>8, SavedMoves
<1>13. ASSUME NEW k \in Offer!Made, Offer!ServeChunk(k) PROVE SavedInv'
  <2>1. UNCHANGED of /\ offer_wire' \subseteq offer_wire /\ shared \subseteq shared' /\ broken \subseteq broken'
    BY <1>13 DEF Offer!ServeChunk
  <2>2. \A j \in Offer!Token \ {k} : /\ fetch'[j] = fetch[j] /\ serve'[j] = serve[j]
                                  /\ got'[j] = got[j] /\ sent'[j] = sent[j]
    BY <1>13, <1>c DEF Offer!ServeChunk
  <2>3. FreshAt(k)'
    BY <1>13, <1>b, <1>c, <1>d DEF Offer!ServeChunk, FreshAt, NotStarted
  <2>4. WrittenAt(k)'
    BY <1>13, <1>b, <1>c, <1>d DEF Offer!ServeChunk, WrittenAt, Writing, Offer!Name
  <2>5. \A n \in {NameOf[t] : t \in Transfer} : n # Offer!Name(k) => file'[n] = file[n]
    BY <1>13, <1>c DEF Offer!ServeChunk
  <2>6. file' = file \/ fetch'[k] \in Writing
    BY <1>13, <1>b, <1>c DEF Offer!ServeChunk, Writing
  <2>7. (fetch'[k] \in Writing /\ fetch[k] \notin Writing) =>
          \A j \in Offer!Made \ {k} : Offer!Name(j) = Offer!Name(k) /\ fetch[j] \in Writing => Offer!Name(k) \in shared'
    BY <1>13, <1>b, <1>c DEF Offer!ServeChunk, Writing
  <2>8. \A t \in Transfer : saved'[t] = "torn" =>
          saved[t] = "torn" \/ <<t, "cut">> \in broken' \/ NameOf[t] \in shared'
    BY <1>13, <1>b, <1>c, <1>d DEF Offer!ServeChunk
  <2> QED
    BY <1>a, <2>1, <2>2, <2>3, <2>4, <2>5, <2>6, <2>7, <2>8, SavedMoves
<1>14. ASSUME NEW k \in Offer!Made, Offer!ServeEnd(k) PROVE SavedInv'
  <2>1. UNCHANGED of /\ offer_wire' \subseteq offer_wire /\ shared \subseteq shared' /\ broken \subseteq broken'
    BY <1>14 DEF Offer!ServeEnd
  <2>2. \A j \in Offer!Token \ {k} : /\ fetch'[j] = fetch[j] /\ serve'[j] = serve[j]
                                  /\ got'[j] = got[j] /\ sent'[j] = sent[j]
    BY <1>14, <1>c DEF Offer!ServeEnd
  <2>3. FreshAt(k)'
    BY <1>14, <1>b, <1>c, <1>d DEF Offer!ServeEnd, FreshAt, NotStarted
  <2>4. WrittenAt(k)'
    BY <1>14, <1>b, <1>c, <1>d DEF Offer!ServeEnd, WrittenAt, Writing, Offer!Name
  <2>5. \A n \in {NameOf[t] : t \in Transfer} : n # Offer!Name(k) => file'[n] = file[n]
    BY <1>14, <1>c DEF Offer!ServeEnd
  <2>6. file' = file \/ fetch'[k] \in Writing
    BY <1>14, <1>b, <1>c DEF Offer!ServeEnd, Writing
  <2>7. (fetch'[k] \in Writing /\ fetch[k] \notin Writing) =>
          \A j \in Offer!Made \ {k} : Offer!Name(j) = Offer!Name(k) /\ fetch[j] \in Writing => Offer!Name(k) \in shared'
    BY <1>14, <1>b, <1>c DEF Offer!ServeEnd, Writing
  <2>8. \A t \in Transfer : saved'[t] = "torn" =>
          saved[t] = "torn" \/ <<t, "cut">> \in broken' \/ NameOf[t] \in shared'
    BY <1>14, <1>b, <1>c, <1>d DEF Offer!ServeEnd
  <2> QED
    BY <1>a, <2>1, <2>2, <2>3, <2>4, <2>5, <2>6, <2>7, <2>8, SavedMoves
<1>15. ASSUME NEW k \in Offer!Made, Offer!ReadChunk(k) PROVE SavedInv'
  <2>1. UNCHANGED of /\ offer_wire' \subseteq offer_wire /\ shared \subseteq shared' /\ broken \subseteq broken'
    BY <1>15 DEF Offer!ReadChunk
  <2>2. \A j \in Offer!Token \ {k} : /\ fetch'[j] = fetch[j] /\ serve'[j] = serve[j]
                                  /\ got'[j] = got[j] /\ sent'[j] = sent[j]
    BY <1>15, <1>c DEF Offer!ReadChunk
  <2>3. FreshAt(k)'
    BY <1>15, <1>b, <1>c, <1>d DEF Offer!ReadChunk, FreshAt, NotStarted
  <2>4. WrittenAt(k)'
    <3> DEFINE n == Offer!Name(k)
               new == [file[n] EXCEPT ![got[k] + 1] = of[k]]
    <3>1. n \in {NameOf[t] : t \in Transfer} /\ file[n] \in [Offer!Chunk -> Transfer \cup {None}]
          /\ got[k] \in Nat
      BY <1>b, <1>c DEF Offer!Name
    <3>2. file' = [file EXCEPT ![n] = new] /\ got' = [got EXCEPT ![k] = got[k] + 1]
          /\ UNCHANGED <<of, shared>> /\ fetch[k] = "read"
      BY <1>15 DEF Offer!ReadChunk
    <3>3. file'[n] = new /\ got'[k] = got[k] + 1 /\ Offer!Name(k)' = n
      BY <1>b, <1>c, <3>1, <3>2 DEF Offer!Name
    <3>4. n \in shared \/ \A i \in Offer!Chunk : i <= got[k] => file[n][i] = of[k]
      BY <1>d, <3>2 DEF WrittenAt, Writing
    <3>5. ASSUME n \notin shared, NEW i \in Offer!Chunk, i <= got[k] + 1 PROVE new[i] = of[k]
      <4>1. CASE i = got[k] + 1
        BY <3>1, <4>1
      <4>2. CASE i # got[k] + 1
        <5>1. i <= got[k]
          BY <3>1, <3>5, <4>2 DEF Offer!Chunk
        <5> QED
          BY <3>1, <3>4, <3>5, <4>2, <5>1
      <4> QED
        BY <4>1, <4>2
    <3> HIDE DEF n, new
    <3> QED
      BY <3>2, <3>3, <3>5 DEF WrittenAt
  <2>5. \A n \in {NameOf[t] : t \in Transfer} : n # Offer!Name(k) => file'[n] = file[n]
    BY <1>15, <1>c DEF Offer!ReadChunk
  <2>6. file' = file \/ fetch'[k] \in Writing
    BY <1>15, <1>b, <1>c DEF Offer!ReadChunk, Writing
  <2>7. (fetch'[k] \in Writing /\ fetch[k] \notin Writing) =>
          \A j \in Offer!Made \ {k} : Offer!Name(j) = Offer!Name(k) /\ fetch[j] \in Writing => Offer!Name(k) \in shared'
    BY <1>15, <1>b, <1>c DEF Offer!ReadChunk, Writing
  <2>8. \A t \in Transfer : saved'[t] = "torn" =>
          saved[t] = "torn" \/ <<t, "cut">> \in broken' \/ NameOf[t] \in shared'
    BY <1>15, <1>b, <1>c, <1>d DEF Offer!ReadChunk
  <2> QED
    BY <1>a, <2>1, <2>2, <2>3, <2>4, <2>5, <2>6, <2>7, <2>8, SavedMoves
<1>16. ASSUME NEW k \in Offer!Made, Offer!ReadEnd(k) PROVE SavedInv'
  <2>1. UNCHANGED of /\ offer_wire' \subseteq offer_wire /\ shared \subseteq shared' /\ broken \subseteq broken'
    BY <1>16 DEF Offer!ReadEnd
  <2>2. \A j \in Offer!Token \ {k} : /\ fetch'[j] = fetch[j] /\ serve'[j] = serve[j]
                                  /\ got'[j] = got[j] /\ sent'[j] = sent[j]
    BY <1>16, <1>c DEF Offer!ReadEnd
  <2>3. FreshAt(k)'
    BY <1>16, <1>b, <1>c, <1>d DEF Offer!ReadEnd, Offer!Finished, FreshAt, NotStarted
  <2>4. WrittenAt(k)'
    BY <1>16, <1>b, <1>c, <1>d DEF Offer!ReadEnd, Offer!Finished, WrittenAt, Writing, Offer!Name
  <2>5. \A n \in {NameOf[t] : t \in Transfer} : n # Offer!Name(k) => file'[n] = file[n]
    BY <1>16, <1>c DEF Offer!ReadEnd
  <2>6. file' = file \/ fetch'[k] \in Writing
    BY <1>16, <1>b, <1>c DEF Offer!ReadEnd, Writing
  <2>7. (fetch'[k] \in Writing /\ fetch[k] \notin Writing) =>
          \A j \in Offer!Made \ {k} : Offer!Name(j) = Offer!Name(k) /\ fetch[j] \in Writing => Offer!Name(k) \in shared'
    BY <1>16, <1>b, <1>c DEF Offer!ReadEnd, Writing
  <2>8. \A t \in Transfer : saved'[t] = "torn" =>
          saved[t] = "torn" \/ <<t, "cut">> \in broken' \/ NameOf[t] \in shared'
    BY <1>16, <1>b, <1>c, <1>d DEF Offer!ReadEnd
  <2> QED
    BY <1>a, <2>1, <2>2, <2>3, <2>4, <2>5, <2>6, <2>7, <2>8, SavedMoves
<1>17. ASSUME NEW k \in Offer!Made, Offer!Save(k) PROVE SavedInv'
  <2>1. UNCHANGED of /\ offer_wire' \subseteq offer_wire /\ shared \subseteq shared' /\ broken \subseteq broken'
    BY <1>17 DEF Offer!Save
  <2>2. \A j \in Offer!Token \ {k} : /\ fetch'[j] = fetch[j] /\ serve'[j] = serve[j]
                                  /\ got'[j] = got[j] /\ sent'[j] = sent[j]
    BY <1>17, <1>c DEF Offer!Save
  <2>3. FreshAt(k)'
    BY <1>17, <1>b, <1>c, <1>d DEF Offer!Save, FreshAt, NotStarted
  <2>4. WrittenAt(k)'
    BY <1>17, <1>b, <1>c, <1>d DEF Offer!Save, WrittenAt, Writing, Offer!Name
  <2>5. \A n \in {NameOf[t] : t \in Transfer} : n # Offer!Name(k) => file'[n] = file[n]
    BY <1>17, <1>c DEF Offer!Save
  <2>6. file' = file \/ fetch'[k] \in Writing
    BY <1>17, <1>b, <1>c DEF Offer!Save, Writing
  <2>7. (fetch'[k] \in Writing /\ fetch[k] \notin Writing) =>
          \A j \in Offer!Made \ {k} : Offer!Name(j) = Offer!Name(k) /\ fetch[j] \in Writing => Offer!Name(k) \in shared'
    BY <1>17, <1>b, <1>c DEF Offer!Save, Writing
  <2>8. \A t \in Transfer : saved'[t] = "torn" =>
          saved[t] = "torn" \/ <<t, "cut">> \in broken' \/ NameOf[t] \in shared'
    <3>1. \A t \in Transfer \ {of[k]} : saved'[t] = saved[t]
      BY <1>17, <1>c DEF Offer!Save
    <3>2. saved'[of[k]] = "torn" => ~\A i \in Offer!Chunk : file[Offer!Name(k)][i] = of[k]
      BY <1>17, <1>b, <1>c DEF Offer!Save
    <3>3. fetch[k] = "eof" /\ UNCHANGED <<broken, shared>>
      BY <1>17 DEF Offer!Save
    <3>4. (got[k] = 2 \/ <<of[k], "cut">> \in broken) /\
          (Offer!Name(k) \in shared \/ \A i \in Offer!Chunk : i <= got[k] => file[Offer!Name(k)][i] = of[k])
      BY <1>d, <3>3 DEF FreshAt, WrittenAt, Writing
    <3>5. saved'[of[k]] = "torn" => <<of[k], "cut">> \in broken \/ Offer!Name(k) \in shared
      BY <3>2, <3>4 DEF Offer!Chunk
    <3> QED
      BY <3>1, <3>3, <3>5 DEF Offer!Name
  <2> QED
    BY <1>a, <2>1, <2>2, <2>3, <2>4, <2>5, <2>6, <2>7, <2>8, SavedMoves
<1>18. ASSUME NEW k \in Offer!Made, Offer!Fail(k) PROVE SavedInv'
  <2>1. UNCHANGED of /\ offer_wire' \subseteq offer_wire /\ shared \subseteq shared' /\ broken \subseteq broken'
    BY <1>18 DEF Offer!Fail
  <2>2. \A j \in Offer!Token \ {k} : /\ fetch'[j] = fetch[j] /\ serve'[j] = serve[j]
                                  /\ got'[j] = got[j] /\ sent'[j] = sent[j]
    BY <1>18, <1>c DEF Offer!Fail
  <2>3. FreshAt(k)'
    BY <1>18, <1>b, <1>c, <1>d DEF Offer!Fail, FreshAt, NotStarted
  <2>4. WrittenAt(k)'
    BY <1>18, <1>b, <1>c, <1>d DEF Offer!Fail, WrittenAt, Writing, Offer!Name
  <2>5. \A n \in {NameOf[t] : t \in Transfer} : n # Offer!Name(k) => file'[n] = file[n]
    BY <1>18, <1>c DEF Offer!Fail
  <2>6. file' = file \/ fetch'[k] \in Writing
    BY <1>18, <1>b, <1>c DEF Offer!Fail, Writing
  <2>7. (fetch'[k] \in Writing /\ fetch[k] \notin Writing) =>
          \A j \in Offer!Made \ {k} : Offer!Name(j) = Offer!Name(k) /\ fetch[j] \in Writing => Offer!Name(k) \in shared'
    BY <1>18, <1>b, <1>c DEF Offer!Fail, Writing
  <2>8. \A t \in Transfer : saved'[t] = "torn" =>
          saved[t] = "torn" \/ <<t, "cut">> \in broken' \/ NameOf[t] \in shared'
    BY <1>18, <1>b, <1>c, <1>d DEF Offer!Fail
  <2> QED
    BY <1>a, <2>1, <2>2, <2>3, <2>4, <2>5, <2>6, <2>7, <2>8, SavedMoves
<1>19. ASSUME NEW k \in Offer!Made, Offer!Expire(k) PROVE SavedInv'
  <2>1. UNCHANGED Downloads /\ offer_wire' \subseteq offer_wire /\ broken \subseteq broken'
    BY <1>19 DEF Offer!Expire, Offer!Fault, Downloads
  <2> QED
    BY <1>a, <2>1, SavedFramed
<1>20. ASSUME NEW k \in Offer!Made, Offer!Cut(k) PROVE SavedInv'
  <2>1. UNCHANGED of /\ offer_wire' \subseteq offer_wire /\ shared \subseteq shared' /\ broken \subseteq broken'
    BY <1>20 DEF Offer!Cut, Offer!Fault
  <2>2. \A j \in Offer!Token \ {k} : /\ fetch'[j] = fetch[j] /\ serve'[j] = serve[j]
                                  /\ got'[j] = got[j] /\ sent'[j] = sent[j]
    BY <1>20, <1>c DEF Offer!Cut
  <2>3. FreshAt(k)'
    BY <1>20, <1>b, <1>c, <1>d DEF Offer!Cut, Offer!Fault, FreshAt, NotStarted
  <2>4. WrittenAt(k)'
    BY <1>20, <1>b, <1>c, <1>d DEF Offer!Cut, Offer!Fault, WrittenAt, Writing, Offer!Name
  <2>5. \A n \in {NameOf[t] : t \in Transfer} : n # Offer!Name(k) => file'[n] = file[n]
    BY <1>20, <1>c DEF Offer!Cut
  <2>6. file' = file \/ fetch'[k] \in Writing
    BY <1>20, <1>b, <1>c DEF Offer!Cut, Writing
  <2>7. (fetch'[k] \in Writing /\ fetch[k] \notin Writing) =>
          \A j \in Offer!Made \ {k} : Offer!Name(j) = Offer!Name(k) /\ fetch[j] \in Writing => Offer!Name(k) \in shared'
    BY <1>20, <1>b, <1>c DEF Offer!Cut, Writing
  <2>8. \A t \in Transfer : saved'[t] = "torn" =>
          saved[t] = "torn" \/ <<t, "cut">> \in broken' \/ NameOf[t] \in shared'
    BY <1>20, <1>b, <1>c, <1>d DEF Offer!Cut
  <2> QED
    BY <1>a, <2>1, <2>2, <2>3, <2>4, <2>5, <2>6, <2>7, <2>8, SavedMoves
<1>21. ASSUME NEW k \in Offer!Made, Offer!LosePacket(k) PROVE SavedInv'
  <2>1. UNCHANGED Downloads /\ offer_wire' \subseteq offer_wire /\ broken \subseteq broken'
    BY <1>21 DEF Offer!LosePacket, Offer!Fault, Downloads
  <2> QED
    BY <1>a, <2>1, SavedFramed
<1>22. ASSUME UNCHANGED Offer!vars PROVE SavedInv'
  <2>1. UNCHANGED Downloads /\ offer_wire' \subseteq offer_wire /\ broken \subseteq broken'
    BY <1>22 DEF Offer!vars, Downloads
  <2> QED
    BY <1>a, <2>1, SavedFramed
<1> QED
  BY <1>1, <1>2, <1>3, <1>4, <1>5, <1>6, <1>7, <1>8, <1>9, <1>10, <1>11, <1>12, <1>13, <1>14, <1>15, <1>16, <1>17, <1>18, <1>19, <1>20, <1>21, <1>22 DEF Offer!Next

(* ServedIsSaved for any number of transfers, offers and faults: what the       *)
(* watcher reports complete was handed to a connection and what the download    *)
(* gives to the chat is the whole file, except after the faults it names.       *)
THEOREM ServedSaved == Spec => []ServedIsSaved
<1>1. ServedInv /\ SavedInv => ServedIsSaved
  BY DEF ServedInv, SavedInv, ServedIsSaved, Offer!ServedIsSaved
<1>2. None # "complete" /\ None # "torn"
  BY ShownAssumption
<1>3. Init => ServedInv /\ SavedInv
  BY <1>2, ServedInit, SavedInit, TokenAssumption DEF Init
<1>4. ServedInv /\ SavedInv /\ [Next]_vars => ServedInv' /\ SavedInv'
  BY <1>2, ServedStep, SavedStep, OfferSteps, TokenAssumption
<1> QED
  BY <1>1, <1>3, <1>4, PTL DEF Spec

-----------------------------------------------------------------------------
(* The send slot                                                                *)

LEMMA SlotStep == MaxTokens \in Nat /\ OffersTyped /\ Offer!SlotWatched /\ [Offer!Next]_(Offer!vars) => Offer!SlotWatched'
<1> SUFFICES ASSUME MaxTokens \in Nat, OffersTyped, Offer!SlotWatched, [Offer!Next]_(Offer!vars) PROVE Offer!SlotWatched'
  OBVIOUS
<1>b. Offer!Made \subseteq Offer!Token /\ watch \in [Offer!Token -> {"off", "look", "gone"}]
  BY MadeTyped DEF OffersTyped
<1>c. ASSUME NEW k \in Offer!Made, UNCHANGED <<of, stuck>>, slot' = Offer!Cleared(of[k]),
             \A j \in Offer!Made \ {k} : watch'[j] = watch[j]
      PROVE  Offer!SlotWatched'
  <2>1. slot' # None => slot' = slot /\ slot # of[k]
    BY <1>c DEF Offer!Cleared
  <2>2. \A j \in Offer!Made : of[j] = slot /\ slot # of[k] => watch'[j] = watch[j]
    BY <1>c
  <2> QED
    BY <1>c, <2>1, <2>2 DEF Offer!SlotWatched, Offer!Made
<1>d. ASSUME UNCHANGED <<of, stuck, slot, watch>> PROVE Offer!SlotWatched'
  BY <1>d DEF Offer!SlotWatched, Offer!Made
<1>1. ASSUME NEW t \in Transfer, Offer!Offer(t) PROVE Offer!SlotWatched'
  <2>1. PICK k \in Offer!Token : Offer!Register(t, k) /\ watch' = [watch EXCEPT ![k] = "look"]
    BY <1>1 DEF Offer!Offer
  <2>2. slot' = t /\ k \in Offer!Made' /\ of'[k] = t /\ watch'[k] = "look"
    BY <1>b, <2>1, NextToken DEF Offer!Register
  <2> QED
    BY <2>2 DEF Offer!SlotWatched
<1>2. ASSUME NEW t \in Transfer, Offer!OfferFails(t) PROVE Offer!SlotWatched'
  <2>1. slot' = t /\ t \in stuck'
    BY <1>2 DEF Offer!OfferFails, Offer!Register
  <2> QED
    BY <2>1 DEF Offer!SlotWatched
<1>3. ASSUME NEW t \in Transfer, Offer!Cancel(t) PROVE Offer!SlotWatched'
  <2>1. UNCHANGED <<of, stuck, watch>> /\ (slot' # None => slot' = slot)
    BY <1>3 DEF Offer!Cancel, Offer!Cleared
  <2> QED
    BY <2>1 DEF Offer!SlotWatched, Offer!Made
<1>4. ASSUME NEW t \in Transfer, Offer!NoticeArrives(t) PROVE Offer!SlotWatched'
  BY <1>4, <1>d DEF Offer!NoticeArrives
<1>5. ASSUME NEW t \in Transfer, Offer!RemoveSource(t) PROVE Offer!SlotWatched'
  BY <1>5, <1>d DEF Offer!RemoveSource
<1>6. ASSUME NEW k \in Offer!Made, Offer!WatchCancelled(k) PROVE Offer!SlotWatched'
  <2>1. UNCHANGED <<of, stuck>> /\ slot' = Offer!Cleared(of[k]) /\ \A j \in Offer!Made \ {k} : watch'[j] = watch[j]
    BY <1>6, <1>b DEF Offer!WatchCancelled
  <2> QED
    BY <1>c, <2>1
<1>7. ASSUME NEW k \in Offer!Made, Offer!WatchSeesNone(k) PROVE Offer!SlotWatched'
  <2>1. UNCHANGED <<of, stuck, slot>> /\ \A j \in Offer!Made : watch[j] # "off" => watch'[j] # "off"
    BY <1>7, <1>b DEF Offer!WatchSeesNone
  <2> QED
    BY <2>1 DEF Offer!SlotWatched, Offer!Made
<1>8. ASSUME NEW k \in Offer!Made, Offer!WatchReports(k) PROVE Offer!SlotWatched'
  <2>1. UNCHANGED <<of, stuck>> /\ slot' = Offer!Cleared(of[k]) /\ \A j \in Offer!Made \ {k} : watch'[j] = watch[j]
    BY <1>8, <1>b DEF Offer!WatchReports
  <2> QED
    BY <1>c, <2>1
<1>9. ASSUME NEW k \in Offer!Made, Offer!WatchQuits(k) PROVE Offer!SlotWatched'
  <2>1. /\ UNCHANGED <<of, slot>> /\ stuck' = stuck \cup {of[k]}
        /\ \A j \in Offer!Made \ {k} : watch'[j] = watch[j]
    BY <1>9, <1>b DEF Offer!WatchQuits
  <2> QED
    BY <2>1 DEF Offer!SlotWatched, Offer!Made
<1>10. ASSUME NEW k \in Offer!Made, Offer!OfferArrives(k) PROVE Offer!SlotWatched'
  BY <1>10, <1>d DEF Offer!OfferArrives
<1>11. ASSUME NEW k \in Offer!Made, Offer!AskAccepted(k) PROVE Offer!SlotWatched'
  BY <1>11, <1>d DEF Offer!AskAccepted
<1>12. ASSUME NEW k \in Offer!Made, Offer!AskRefused(k) PROVE Offer!SlotWatched'
  BY <1>12, <1>d DEF Offer!AskRefused
<1>13. ASSUME NEW k \in Offer!Made, Offer!ServeChunk(k) PROVE Offer!SlotWatched'
  BY <1>13, <1>d DEF Offer!ServeChunk
<1>14. ASSUME NEW k \in Offer!Made, Offer!ServeEnd(k) PROVE Offer!SlotWatched'
  BY <1>14, <1>d DEF Offer!ServeEnd
<1>15. ASSUME NEW k \in Offer!Made, Offer!ReadChunk(k) PROVE Offer!SlotWatched'
  BY <1>15, <1>d DEF Offer!ReadChunk
<1>16. ASSUME NEW k \in Offer!Made, Offer!ReadEnd(k) PROVE Offer!SlotWatched'
  BY <1>16, <1>d DEF Offer!ReadEnd
<1>17. ASSUME NEW k \in Offer!Made, Offer!Save(k) PROVE Offer!SlotWatched'
  BY <1>17, <1>d DEF Offer!Save
<1>18. ASSUME NEW k \in Offer!Made, Offer!Fail(k) PROVE Offer!SlotWatched'
  BY <1>18, <1>d DEF Offer!Fail
<1>19. ASSUME NEW k \in Offer!Made, Offer!Expire(k) PROVE Offer!SlotWatched'
  BY <1>19, <1>d DEF Offer!Expire
<1>20. ASSUME NEW k \in Offer!Made, Offer!Cut(k) PROVE Offer!SlotWatched'
  BY <1>20, <1>d DEF Offer!Cut
<1>21. ASSUME NEW k \in Offer!Made, Offer!LosePacket(k) PROVE Offer!SlotWatched'
  BY <1>21, <1>d DEF Offer!LosePacket
<1>22. ASSUME UNCHANGED Offer!vars PROVE Offer!SlotWatched'
  BY <1>22, <1>d DEF Offer!vars
<1> QED
  BY <1>1, <1>2, <1>3, <1>4, <1>5, <1>6, <1>7, <1>8, <1>9, <1>10, <1>11, <1>12, <1>13, <1>14, <1>15, <1>16, <1>17, <1>18, <1>19, <1>20, <1>21, <1>22 DEF Offer!Next

(* SlotWatched for any number of transfers, offers and faults: the send slot    *)
(* belongs to a transfer whose watcher runs, or one whose packet could not be   *)
(* sent or whose watcher met its deadline.                                      *)
THEOREM SlotIsWatched == Spec => []SlotWatched
<1>1. Init => OffersTyped /\ Offer!SlotWatched
  <2>1. Offer!Init => Offer!SlotWatched
    BY DEF Offer!Init, Offer!SlotWatched
  <2> QED
    BY <2>1, InitTyped, TokenAssumption DEF Init
<1>2. OffersTyped /\ Offer!SlotWatched /\ [Next]_vars => OffersTyped' /\ Offer!SlotWatched'
  BY OfferTypes, SlotStep, OfferSteps, TokenAssumption
<1>3. Offer!SlotWatched => SlotWatched
  BY DEF SlotWatched
<1> QED
  BY <1>1, <1>2, <1>3, PTL DEF Spec

-----------------------------------------------------------------------------
LEMMA ShareSteps == [Next]_vars => [Share!Next]_(Share!vars)
  BY DEF Next, vars, HubMoves, OfferMoves, DialMoves, ShareMoves, LifeMoves,
     ShareVars, Share!vars

-----------------------------------------------------------------------------
(* The dialog of a shared folder (ShareSession)                                *)

Objects == [sess: Session, path: Share!Dir]
Asks == [n: Nat, obj: Nat, path: Share!Dir, pc: {"asked", "listed", "failed"}]
ListTyped ==
  /\ objects \in Seq(Objects) /\ dialog \in 0 .. Len(objects) /\ share_asked \in Nat
  /\ asks \subseteq Asks /\ \A a \in asks : a.n <= share_asked
  /\ \/ share_shown = Share!Text
     \/ share_shown \in [obj: 1 .. Len(objects), path: Share!Dir]

\* The youngest listing is one of the folder that is open, and so is the one shown,
\* unless it was overtaken.
Target == [obj |-> dialog, path |-> objects[dialog].path]
ListInv ==
  /\ ListTyped
  /\ \A a \in asks : a.n = share_asked /\ dialog # 0 => [obj |-> a.obj, path |-> a.path] = Target
  /\ \A a \in asks : a.obj \in 1 .. Len(objects)
  /\ ~overtaken /\ dialog # 0 => share_shown \in {Share!Text, Target}

LEMMA ListStart == Share!Init => ListInv
  BY DEF Share!Init, ListInv, ListTyped, Share!Text

\* A new listing is asked for.
LEMMA LoadsList ==
  ASSUME ListInv, objects' \in Seq(Objects), Len(objects) <= Len(objects'), dialog' \in 1 .. Len(objects'),
         Share!Loads(dialog'), UNCHANGED overtaken
  PROVE  ListInv'
<1> DEFINE new == [n |-> share_asked + 1, obj |-> dialog', path |-> objects'[dialog'].path, pc |-> "asked"]
<1>1. asks' = asks \union {new} /\ share_asked' = share_asked + 1 /\ share_shown' = Share!Text
  BY DEF Share!Loads
<1>2. new \in Asks /\ new.n = share_asked' /\ [obj |-> new.obj, path |-> new.path] = Target'
      /\ new.obj = dialog'
  <2>1. objects'[dialog'] \in Objects /\ dialog' \in Nat /\ share_asked + 1 \in Nat
    BY DEF ListInv, ListTyped
  <2>2. objects'[dialog'].path \in Share!Dir
    BY <2>1 DEF Objects
  <2> QED
    BY <1>1, <2>1, <2>2 DEF Asks, Target
<1> HIDE DEF new
<1>3. \A a \in asks : a.n \in Nat /\ a.n <= share_asked /\ share_asked \in Nat
  BY DEF ListInv, ListTyped, Asks
<1>4. ListTyped'
  BY <1>1, <1>2, <1>3 DEF ListInv, ListTyped
<1>5. \A a \in asks' : a.n = share_asked' /\ dialog' # 0 => [obj |-> a.obj, path |-> a.path] = Target'
  BY <1>1, <1>2, <1>3
<1>6. \A a \in asks' : a.obj \in 1 .. Len(objects')
  BY <1>1, <1>2 DEF ListInv, ListTyped
<1> QED
  BY <1>1, <1>4, <1>5, <1>6 DEF ListInv

LEMMA OpensList ==
  ASSUME ListInv, NEW s \in Session, Share!Opens(s)
  PROVE  ListInv'
<1>1. /\ objects' = Append(objects, [sess |-> s, path |-> "top"]) /\ dialog' = Len(objects')
      /\ Share!Loads(dialog') /\ UNCHANGED overtaken
  BY DEF Share!Opens
<1>2. /\ objects' \in Seq(Objects) /\ Len(objects) <= Len(objects') /\ dialog' \in 1 .. Len(objects')
  BY <1>1 DEF ListInv, ListTyped, Objects, Share!Dir
<1> QED
  BY <1>1, <1>2, LoadsList

LEMMA MovesList ==
  ASSUME ListInv, Share!Enters \/ Share!GoesUp
  PROVE  ListInv'
<1>1. PICK i \in Nat, p \in Share!Dir :
        /\ i \in 1 .. Len(objects) /\ objects' = [objects EXCEPT ![i].path = p]
  BY DEF Share!Enters, Share!GoesUp, ListInv, ListTyped, Share!Dir, Share!Text
<1>2. dialog # 0 /\ Share!Loads(dialog) /\ UNCHANGED <<dialog, overtaken>>
  BY DEF Share!Enters, Share!GoesUp
<1>3. objects[i] \in Objects
  BY <1>1 DEF ListInv, ListTyped
<1>4. objects' = [objects EXCEPT ![i] = [objects[i] EXCEPT !.path = p]] /\ [objects[i] EXCEPT !.path = p] \in Objects
  BY <1>1, <1>3 DEF Objects
<1>5. objects' \in Seq(Objects) /\ Len(objects') = Len(objects)
  BY <1>1, <1>4 DEF ListInv, ListTyped
<1>6. dialog' \in 1 .. Len(objects') /\ Share!Loads(dialog')
  BY <1>2, <1>5 DEF ListInv, ListTyped
<1> QED
  BY <1>2, <1>5, <1>6, LoadsList

LEMMA EndsList ==
  ASSUME ListInv, NEW u \in Upload, Share!UploadEnds(u)
  PROVE  ListInv'
<1>1. UNCHANGED <<objects, dialog, overtaken>>
  BY DEF Share!UploadEnds
<1>2. CASE dialog # 0
  <2>1. Share!Loads(dialog')
    BY <1>1, <1>2 DEF Share!UploadEnds
  <2> QED
    BY <1>1, <1>2, <2>1, LoadsList DEF ListInv, ListTyped
<1>3. CASE dialog = 0
  BY <1>1, <1>3 DEF Share!UploadEnds, ListInv, ListTyped, Target
<1> QED
  BY <1>2, <1>3

LEMMA ClosesList ==
  ASSUME ListInv, Share!Closes
  PROVE  ListInv'
  BY DEF ListInv, ListTyped, Share!Closes

\* An answer: the request is replaced by one that differs in its state only.
LEMMA AnswersList ==
  ASSUME ListInv, UNCHANGED <<objects, dialog, share_shown, share_asked, overtaken>>,
         \A b \in asks' : b \in Asks /\ \E a \in asks : b.n = a.n /\ b.obj = a.obj /\ b.path = a.path
  PROVE  ListInv'
  BY DEF ListInv, ListTyped, Target

LEMMA ListsList ==
  ASSUME ListInv, NEW a \in asks, Share!Lists(a) \/ Share!FetchFails(a)
  PROVE  ListInv'
<1>1. UNCHANGED <<objects, dialog, share_shown, share_asked, overtaken>>
  BY DEF Share!Lists, Share!FetchFails
<1>2. PICK q \in {"listed", "failed"} : asks' = (asks \ {a}) \union {[a EXCEPT !.pc = q]}
  BY DEF Share!Lists, Share!FetchFails
<1>3. a \in Asks /\ asks \subseteq Asks
  BY DEF ListInv, ListTyped
<1>4. LET b == [a EXCEPT !.pc = q] IN b \in Asks /\ b.n = a.n /\ b.obj = a.obj /\ b.path = a.path
  BY <1>3 DEF Asks
<1> QED
  BY <1>1, <1>2, <1>3, <1>4, AnswersList

LEMMA RestartsList ==
  ASSUME ListInv, Share!OwnerRestarts
  PROVE  ListInv'
<1>1. UNCHANGED <<objects, dialog, share_shown, share_asked, overtaken>>
  BY DEF Share!OwnerRestarts
<1>2. asks' = {IF a.pc = "asked" THEN [a EXCEPT !.pc = "failed"] ELSE a : a \in asks}
  BY DEF Share!OwnerRestarts
<1>3. ASSUME NEW a \in asks
      PROVE  LET b == IF a.pc = "asked" THEN [a EXCEPT !.pc = "failed"] ELSE a
             IN  b \in Asks /\ b.n = a.n /\ b.obj = a.obj /\ b.path = a.path
  BY DEF ListInv, ListTyped, Asks
<1> QED
  BY <1>1, <1>2, <1>3, AnswersList

LEMMA ShowsList ==
  ASSUME ListInv, NEW a \in asks, Share!ShowsListing(a)
  PROVE  ListInv'
<1>1. /\ asks' = asks \ {a} /\ overtaken' = (overtaken \/ a.n < share_asked)
      /\ share_shown' = IF a.pc = "listed" THEN [obj |-> a.obj, path |-> a.path] ELSE Share!Text
      /\ UNCHANGED <<objects, dialog, share_asked>>
  BY DEF Share!ShowsListing
<1>2. a \in Asks /\ a.n <= share_asked /\ a.obj \in 1 .. Len(objects) /\ share_asked \in Nat
  BY DEF ListInv, ListTyped
<1>3. ListTyped'
  BY <1>1, <1>2 DEF ListInv, ListTyped, Asks
<1>4. ~overtaken' /\ dialog' # 0 => share_shown' \in {Share!Text, Target'}
  <2>1. a.n \in Nat
    BY <1>2 DEF Asks
  <2>2. Target' = Target
    BY <1>1 DEF Target
  <2>3. ~(a.n < share_asked) => a.n = share_asked
    BY <1>2, <2>1
  <2> QED
    BY <1>1, <2>2, <2>3 DEF ListInv
<1> QED
  BY <1>1, <1>3, <1>4 DEF ListInv, Target

LEMMA ListKept ==
  ASSUME ListInv, [Share!Next]_(Share!vars)
  PROVE  ListInv'
<1>1. ASSUME UNCHANGED <<objects, dialog, share_shown, asks, share_asked, overtaken>> PROVE ListInv'
  BY <1>1 DEF ListInv, ListTyped, Target
<1>2. ASSUME NEW s \in Session, Share!ShareStart(s) \/ Share!OfferArrives(s) PROVE ListInv'
  BY <1>1, <1>2 DEF Share!ShareStart, Share!OfferArrives, Share!Viewer
<1>3. CASE Share!Tick \/ UNCHANGED Share!vars
  BY <1>1, <1>3 DEF Share!Tick, Share!Viewer, Share!vars
<1>4. ASSUME NEW u \in Upload, \/ Share!UploadStarts(u) \/ Share!UploadTaken(u) \/ Share!UploadOpens(u)
                               \/ Share!UploadWrites(u) \/ Share!UploadBreaks(u)
      PROVE ListInv'
  BY <1>1, <1>4 DEF Share!UploadStarts, Share!UploadTaken, Share!UploadOpens, Share!UploadWrites,
     Share!UploadBreaks, Share!Viewer
<1>5. ASSUME NEW g \in Download, Share!DownloadStarts(g) \/ Share!DownloadOpens(g) \/ Share!DownloadReads(g)
      PROVE ListInv'
  BY <1>1, <1>5 DEF Share!DownloadStarts, Share!DownloadOpens, Share!DownloadReads, Share!Viewer
<1> QED
  BY <1>2, <1>3, <1>4, <1>5, OpensList, MovesList, EndsList, ClosesList, ListsList, RestartsList, ShowsList
     DEF Share!Next

\* Once no answer is on its way, the folder that the dialog lists is the one an upload goes
\* to, unless an older answer came back after a younger listing was asked for
\* (loadShareListing and uploadShareFile of the share dialog).
THEOREM ListedTarget == Spec => []ListedIsTarget
<1>1. Init => ListInv
  BY ListStart DEF Init
<1>2. ListInv /\ [Next]_vars => ListInv'
  BY ShareSteps, ListKept
<1>3. ListInv => ListedIsTarget
  BY DEF ListInv, ListedIsTarget, Share!ListedIsTarget, Target
<1> QED
  BY <1>1, <1>2, <1>3, PTL DEF Spec

-----------------------------------------------------------------------------
(* Files that are uploaded and downloaded (ShareSession)                       *)

Uploading == [pc: {"idle", "sent", "taken", "writing", "done", "failed"}, sess: Session \union {None},
            dir: Share!Dir, written: Nat]
Downloading == [pc: {"idle", "sent", "reading", "done", "failed"}, sess: Session \union {None},
              dir: Share!Dir, size: Nat, got: Seq(Share!Chunk)]
FilesTyped ==
  /\ files \in [Share!Dir -> Seq(Share!Chunk) \union {None}]
  /\ share_up \in [Upload -> Uploading] /\ down \in [Download -> Downloading]
  /\ \A u \in Upload : share_up[u].pc = "writing" => files[share_up[u].dir] \in Seq(Share!Chunk)
  /\ \A u \in Upload : share_up[u].pc \in {"sent", "taken"} => share_up[u].written = 0
  /\ \A g \in Download : down[g].pc = "sent" => down[g].got = <<>>
  /\ \A g \in Download : down[g].pc = "reading" => files[down[g].dir] \in Seq(Share!Chunk)
  /\ objects \in Seq(Objects) /\ dialog \in 0 .. Len(objects)
  /\ share_shown.path \in Share!Dir \union {"text"}

\* While no upload met another access to its file: a file that is being written has one
\* writer and holds what it wrote; every other is the whole of an upload, and a download
\* under way has a prefix of it.
Writer(u, d) == share_up[u].pc = "writing" /\ share_up[u].dir = d
Repeated(u, n) == [i \in 1 .. n |-> u]
OneWriter == \A u, v \in Upload : \A d \in Share!Dir : Writer(u, d) /\ Writer(v, d) => u = v
HoldsWritten(u) == share_up[u].pc = "writing" => files[share_up[u].dir] = Repeated(u, share_up[u].written)
WholeOrWritten(d) == (files[d] # None /\ \A u \in Upload : ~Writer(u, d)) => Share!Whole(files[d])
ReadsPrefix(g) ==
  down[g].pc = "reading" =>
    /\ \A u \in Upload : ~Writer(u, down[g].dir)
    /\ files[down[g].dir] \in Seq(Share!Chunk) /\ Share!Whole(files[down[g].dir])
    /\ down[g].size = Len(files[down[g].dir]) /\ Len(down[g].got) <= down[g].size
    /\ \A i \in 1 .. Len(down[g].got) : down[g].got[i] = files[down[g].dir][i]
ReadWhole(g) == down[g].pc = "done" => Share!Whole(down[g].got)
Apart ==
  /\ OneWriter
  /\ \A u \in Upload : HoldsWritten(u)
  /\ \A d \in Share!Dir : WholeOrWritten(d)
  /\ \A g \in Download : ReadsPrefix(g) /\ ReadWhole(g)
FilesInv == FilesTyped /\ (~disturbed => Apart)

LEMMA RepeatedIsWritten ==
  ASSUME NEW u \in Upload, NEW n \in Nat
  PROVE  Repeated(u, n) \in Seq(Share!Chunk) /\ Len(Repeated(u, n)) = n
  BY DEF Repeated, Share!Chunk

LEMMA FilesStart == Share!Init => FilesInv
  BY DEF Share!Init, FilesInv, FilesTyped, Uploading, Downloading, Share!IdleUp, Share!IdleDown, Share!Dir,
     Share!Text, Apart, OneWriter, HoldsWritten, WholeOrWritten, ReadsPrefix, ReadWhole, Writer

\* The writers stay as they are, no file changes, and downloads start or fail at most.
LEMMA QuietFiles ==
  ASSUME FilesInv, FilesTyped', files' = files, disturbed => disturbed',
         \A u \in Upload : /\ share_up'[u].pc = "writing" <=> share_up[u].pc = "writing"
                           /\ share_up[u].pc = "writing" => share_up'[u] = share_up[u],
         \A g \in Download : down'[g].pc \in {"failed", "sent"} \/ down'[g] = down[g]
  PROVE  FilesInv'
<1> SUFFICES ASSUME Apart PROVE Apart'
  BY DEF FilesInv
<1>1. \A u \in Upload : \A d : Writer(u, d)' <=> Writer(u, d)
  BY DEF Writer
<1>2. (OneWriter /\ \A u \in Upload : HoldsWritten(u))'
  BY <1>1 DEF Apart, OneWriter, HoldsWritten
<1>3. (\A d \in Share!Dir : WholeOrWritten(d))'
  BY <1>1 DEF Apart, WholeOrWritten
<1>4. (\A g \in Download : ReadsPrefix(g) /\ ReadWhole(g))'
  BY <1>1 DEF Apart, ReadsPrefix, ReadWhole
<1> QED
  BY <1>2, <1>3, <1>4 DEF Apart

\* The viewer's own steps.
LEMMA ViewerFiles ==
  ASSUME FilesInv, objects' \in Seq(Objects), dialog' \in 0 .. Len(objects'),
         share_shown'.path \in Share!Dir \union {"text"}, UNCHANGED <<files, share_up, down, disturbed>>
  PROVE  FilesInv'
<1>1. FilesTyped'
  BY DEF FilesInv, FilesTyped
<1> QED
  BY <1>1, QuietFiles

LEMMA UploadStartsFiles ==
  ASSUME FilesInv, NEW u \in Upload, Share!UploadStarts(u)
  PROVE  FilesInv'
<1> DEFINE new == [Share!IdleUp EXCEPT !.pc = "sent", !.sess = objects[dialog].sess, !.dir = objects[dialog].path]
<1>1. /\ share_up' = [share_up EXCEPT ![u] = new] /\ share_up[u].pc = "idle"
      /\ dialog # 0 /\ UNCHANGED <<files, down, disturbed, objects, dialog, share_shown>>
  BY DEF Share!UploadStarts, Share!Viewer
<1>2. objects[dialog] \in Objects
  BY <1>1 DEF FilesInv, FilesTyped
<1>3. new \in Uploading /\ new.pc = "sent" /\ new.written = 0
  BY <1>2 DEF Objects, Uploading, Share!IdleUp
<1> HIDE DEF new
<1>4. FilesTyped'
  BY <1>1, <1>3 DEF FilesInv, FilesTyped
<1>5. \A v \in Upload : /\ share_up'[v].pc = "writing" <=> share_up[v].pc = "writing"
                        /\ share_up[v].pc = "writing" => share_up'[v] = share_up[v]
  BY <1>1, <1>3 DEF FilesInv, FilesTyped
<1> QED
  BY <1>1, <1>4, <1>5, QuietFiles

LEMMA UploadFailsFiles ==
  ASSUME FilesInv, NEW u \in Upload, Share!UploadTaken(u) \/ Share!UploadBreaks(u)
  PROVE  FilesInv'
<1>1. PICK q \in {"taken", "failed"} :
        /\ share_up' = [share_up EXCEPT ![u] = [share_up[u] EXCEPT !.pc = q]]
        /\ \/ share_up[u].pc = "sent"
           \/ share_up[u].pc \in {"sent", "taken", "writing"} /\ q = "failed"
  BY DEF Share!UploadTaken, Share!UploadBreaks, Share!Broken
<1>2. UNCHANGED <<files, down, objects, dialog, share_shown>>
  BY DEF Share!UploadTaken, Share!UploadBreaks, Share!Viewer
<1>3. (disturbed => disturbed') /\ (share_up[u].pc = "writing" => disturbed')
  <2>1. CASE Share!UploadTaken(u)
    BY <2>1 DEF Share!UploadTaken
  <2>2. CASE Share!UploadBreaks(u)
    BY <2>2, Zenon DEF Share!UploadBreaks
  <2> QED
    BY <2>1, <2>2
<1> DEFINE new == [share_up[u] EXCEPT !.pc = q]
<1>4. share_up[u] \in Uploading
  BY DEF FilesInv, FilesTyped
<1>5. new \in Uploading /\ new.pc = q /\ new.written = share_up[u].written /\ new.dir = share_up[u].dir
  BY <1>4 DEF Uploading
<1> HIDE DEF new
<1>6. share_up'[u] = new /\ \A v \in Upload \ {u} : share_up'[v] = share_up[v]
  BY <1>1 DEF FilesInv, FilesTyped, new
<1>7. FilesTyped'
  <2>1. share_up' \in [Upload -> Uploading]
    BY <1>1, <1>5 DEF FilesInv, FilesTyped, new
  <2> QED
    BY <1>1, <1>2, <1>5, <1>6, <2>1 DEF FilesInv, FilesTyped
<1>8. CASE disturbed'
  BY <1>7, <1>8 DEF FilesInv
<1>9. CASE share_up[u].pc # "writing"
  BY <1>2, <1>3, <1>5, <1>6, <1>7, <1>9, QuietFiles
<1> QED
  BY <1>3, <1>8, <1>9

LEMMA RestartsFiles ==
  ASSUME FilesInv, Share!OwnerRestarts
  PROVE  FilesInv'
<1>1. /\ share_up' = [u \in Upload |-> IF Share!Broken(u) THEN [share_up[u] EXCEPT !.pc = "failed"] ELSE share_up[u]]
      /\ down' = [g \in Download |-> IF down[g].pc \in {"sent", "reading"}
                                     THEN [down[g] EXCEPT !.pc = "failed"] ELSE down[g]]
      /\ disturbed' = (disturbed \/ \E u \in Upload : Share!Broken(u))
      /\ UNCHANGED <<files, objects, dialog, share_shown>>
  BY DEF Share!OwnerRestarts
<1>2. \A u \in Upload : /\ share_up'[u] \in Uploading
                        /\ share_up'[u] = share_up[u] \/ (share_up'[u].pc = "failed" /\ disturbed')
  BY <1>1 DEF FilesInv, FilesTyped, Uploading, Share!Broken
<1>3. \A g \in Download : down'[g] \in Downloading /\ (down'[g].pc = "failed" \/ down'[g] = down[g])
  BY <1>1 DEF FilesInv, FilesTyped, Downloading
<1>4. FilesTyped'
  BY <1>1, <1>2, <1>3 DEF FilesInv, FilesTyped
<1>5. CASE disturbed'
  BY <1>4, <1>5 DEF FilesInv
<1>6. CASE ~disturbed'
  BY <1>1, <1>2, <1>3, <1>4, <1>6, QuietFiles
<1> QED
  BY <1>5, <1>6

LEMMA UploadOpensFiles ==
  ASSUME FilesInv, NEW u \in Upload, Share!UploadOpens(u)
  PROVE  FilesInv'
<1> DEFINE new == [share_up[u] EXCEPT !.pc = "writing"]
           e == share_up[u].dir
<1>1. /\ share_up' = [share_up EXCEPT ![u] = new] /\ files' = [files EXCEPT ![e] = <<>>]
      /\ share_up[u].pc = "taken" /\ disturbed' = (disturbed \/ Share!Meets(e))
      /\ UNCHANGED <<down, objects, dialog, share_shown>>
  BY DEF Share!UploadOpens, Share!Truncated, Share!Viewer
<1>2. share_up[u] \in Uploading /\ e \in Share!Dir
  BY DEF FilesInv, FilesTyped, Uploading
<1>3. new \in Uploading /\ new.pc = "writing" /\ new.written = 0 /\ new.dir = e
  BY <1>1, <1>2 DEF FilesInv, FilesTyped, Uploading
<1> HIDE DEF new, e
<1>4. /\ share_up'[u] = new /\ \A v \in Upload \ {u} : share_up'[v] = share_up[v]
      /\ files'[e] = <<>> /\ \A d \in Share!Dir \ {e} : files'[d] = files[d]
      /\ <<>> \in Seq(Share!Chunk)
  BY <1>1, <1>2 DEF FilesInv, FilesTyped
<1>5. FilesTyped'
  BY <1>1, <1>2, <1>3, <1>4 DEF FilesInv, FilesTyped
<1>6. ASSUME ~disturbed' PROVE Apart'
  <2>1. Apart /\ ~Share!Meets(e)
    BY <1>1, <1>6 DEF FilesInv
  <2>2. /\ \A v \in Upload : ~Writer(v, e)
        /\ \A g \in Download : down[g].pc = "reading" => down[g].dir # e
    BY <2>1 DEF Share!Meets, Writer
  <2>3. \A v \in Upload : \A d \in Share!Dir :
          Writer(v, d)' <=> (IF v = u THEN d = e ELSE Writer(v, d))
    BY <1>3, <1>4 DEF Writer
  <2>4. OneWriter'
    BY <2>1, <2>2, <2>3 DEF Apart, OneWriter
  <2>5. <<>> = Repeated(u, 0)
    BY DEF Repeated
  <2>6. ASSUME NEW v \in Upload PROVE HoldsWritten(v)'
    BY <1>3, <1>4, <2>1, <2>2, <2>5 DEF Apart, HoldsWritten, Writer, FilesInv, FilesTyped, Uploading
  <2>7. ASSUME NEW d \in Share!Dir PROVE WholeOrWritten(d)'
    <3>1. CASE d = e
      BY <2>3, <3>1 DEF WholeOrWritten
    <3>2. CASE d # e
      BY <1>1, <1>4, <2>1, <2>3, <3>2 DEF Apart, WholeOrWritten, Writer
    <3> QED
      BY <3>1, <3>2
  <2>8. ASSUME NEW g \in Download PROVE (ReadsPrefix(g) /\ ReadWhole(g))'
    <3>1. down[g].dir \in Share!Dir
      BY DEF FilesInv, FilesTyped, Downloading
    <3>2. ReadsPrefix(g)'
      BY <1>1, <1>4, <2>1, <2>2, <2>3, <3>1 DEF Apart, ReadsPrefix
    <3> QED
      BY <1>1, <2>1, <3>2 DEF Apart, ReadWhole
  <2> QED
    BY <2>4, <2>6, <2>7, <2>8 DEF Apart
<1> QED
  BY <1>5, <1>6 DEF FilesInv

\* A chunk is appended to what a lone writer has written.
LEMMA WritesOne ==
  ASSUME NEW u \in Upload, NEW n \in Nat
  PROVE  Share!Written(Repeated(u, n), n + 1, u) = Repeated(u, n + 1)
<1>1. Len(Repeated(u, n)) = n
  BY RepeatedIsWritten
<1> QED
  BY <1>1 DEF Share!Written, Repeated

LEMMA WrittenIsChunks ==
  ASSUME NEW f \in Seq(Share!Chunk), NEW i \in Nat, NEW u \in Upload
  PROVE  Share!Written(f, i, u) \in Seq(Share!Chunk)
<1> DEFINE n == IF i > Len(f) THEN i ELSE Len(f)
<1>1. n \in Nat
  OBVIOUS
<1>2. \A k \in 1 .. n : (IF k = i THEN u ELSE IF k <= Len(f) THEN f[k] ELSE "hole") \in Share!Chunk
  BY DEF Share!Chunk
<1> QED
  BY <1>1, <1>2 DEF Share!Written

LEMMA UploadWritesFiles ==
  ASSUME FilesInv, NEW u \in Upload, Share!UploadWrites(u)
  PROVE  FilesInv'
<1> DEFINE n == share_up[u].written
           new == [share_up[u] EXCEPT !.written = n + 1]
           e == share_up[u].dir
           f == Share!Written(files[e], n + 1, u)
<1>1. /\ share_up' = [share_up EXCEPT ![u] = new] /\ files' = [files EXCEPT ![e] = f]
      /\ share_up[u].pc = "writing" /\ UNCHANGED <<down, disturbed, objects, dialog, share_shown>>
  BY DEF Share!UploadWrites, Share!Viewer
<1>2. share_up[u] \in Uploading /\ e \in Share!Dir /\ n \in Nat
  BY DEF FilesInv, FilesTyped, Uploading
<1>3. new \in Uploading /\ new.pc = "writing" /\ new.written = n + 1 /\ new.dir = e
  BY <1>1, <1>2 DEF Uploading
<1>4. f \in Seq(Share!Chunk)
  <2>1. files[e] \in Seq(Share!Chunk) /\ n + 1 \in Nat
    BY <1>1, <1>2 DEF FilesInv, FilesTyped
  <2> QED
    BY <2>1, WrittenIsChunks
<1>5. ~disturbed => f = Repeated(u, n + 1)
  BY <1>1, <1>2, WritesOne DEF FilesInv, Apart, HoldsWritten
<1> HIDE DEF new, e, f, n
<1>6. /\ share_up'[u] = new /\ \A v \in Upload \ {u} : share_up'[v] = share_up[v]
      /\ files'[e] = f /\ \A d \in Share!Dir \ {e} : files'[d] = files[d]
  BY <1>1, <1>2 DEF FilesInv, FilesTyped
<1>7. FilesTyped'
  BY <1>1, <1>2, <1>3, <1>4, <1>6 DEF FilesInv, FilesTyped
<1>8. ASSUME ~disturbed' PROVE Apart'
  <2>1. Apart /\ f = Repeated(u, n + 1)
    BY <1>1, <1>5, <1>8 DEF FilesInv
  <2>2. \A v \in Upload : \A d \in Share!Dir : Writer(v, d)' <=> Writer(v, d)
    BY <1>1, <1>3, <1>6 DEF Writer, e
  <2>3. Writer(u, e)
    BY <1>1 DEF Writer, e
  <2>4. OneWriter'
    BY <2>1, <2>2 DEF Apart, OneWriter
  <2>5. ASSUME NEW v \in Upload, v # u, share_up[v].pc = "writing" PROVE share_up[v].dir # e
    BY <1>2, <2>1, <2>3, <2>5 DEF Apart, OneWriter, Writer
  <2>6. ASSUME NEW v \in Upload PROVE HoldsWritten(v)'
    <3>1. share_up[v].dir \in Share!Dir
      BY DEF FilesInv, FilesTyped, Uploading
    <3> QED
      BY <1>3, <1>6, <2>1, <2>5, <3>1 DEF Apart, HoldsWritten
  <2>7. ASSUME NEW d \in Share!Dir PROVE WholeOrWritten(d)'
    BY <1>6, <2>1, <2>2, <2>3 DEF Apart, WholeOrWritten
  <2>8. ASSUME NEW g \in Download PROVE (ReadsPrefix(g) /\ ReadWhole(g))'
    <3>1. down[g].dir \in Share!Dir
      BY DEF FilesInv, FilesTyped, Downloading
    <3>2. ReadsPrefix(g)'
      BY <1>1, <1>6, <2>1, <2>2, <2>3, <3>1 DEF Apart, ReadsPrefix
    <3> QED
      BY <1>1, <2>1, <3>2 DEF Apart, ReadWhole
  <2> QED
    BY <2>4, <2>6, <2>7, <2>8 DEF Apart
<1> QED
  BY <1>7, <1>8 DEF FilesInv

LEMMA UploadEndsFiles ==
  ASSUME FilesInv, NEW u \in Upload, Share!UploadEnds(u)
  PROVE  FilesInv'
<1> DEFINE new == [share_up[u] EXCEPT !.pc = "done"]
           e == share_up[u].dir
<1>1. /\ share_up' = [share_up EXCEPT ![u] = new]
      /\ share_up[u].pc = "writing" /\ share_up[u].written = SizeOf[u]
      /\ UNCHANGED <<files, down, disturbed, objects, dialog>>
      /\ share_shown' \in {share_shown, Share!Text}
  BY DEF Share!UploadEnds, Share!Loads
<1>2. share_up[u] \in Uploading /\ e \in Share!Dir
  BY DEF FilesInv, FilesTyped, Uploading
<1>3. new \in Uploading /\ new.pc = "done"
  BY <1>1, <1>2 DEF Uploading
<1> HIDE DEF new, e
<1>4. share_up'[u] = new /\ \A v \in Upload \ {u} : share_up'[v] = share_up[v]
  BY <1>1, <1>2 DEF FilesInv, FilesTyped
<1>5. FilesTyped'
  BY <1>1, <1>2, <1>3, <1>4 DEF FilesInv, FilesTyped, Share!Text
<1>6. ASSUME ~disturbed' PROVE Apart'
  <2>1. Apart
    BY <1>1, <1>6 DEF FilesInv
  <2>2. \A v \in Upload : \A d \in Share!Dir : Writer(v, d)' <=> (v # u /\ Writer(v, d))
    BY <1>3, <1>4 DEF Writer
  <2>3. OneWriter' /\ \A v \in Upload : HoldsWritten(v)'
    BY <1>1, <1>3, <1>4, <2>1, <2>2 DEF Apart, OneWriter, HoldsWritten
  <2>4. ASSUME NEW d \in Share!Dir PROVE WholeOrWritten(d)'
    <3>1. CASE d = e
      <4>1. files[e] = [i \in 1 .. SizeOf[u] |-> u]
        BY <1>1, <2>1 DEF Apart, HoldsWritten, Repeated, e
      <4> QED
        BY <1>1, <3>1, <4>1 DEF WholeOrWritten, Share!Whole
    <3>2. CASE d # e
      <4>1. \A v \in Upload : Writer(v, d)' <=> Writer(v, d)
        BY <2>2, <3>2 DEF Writer, e
      <4> QED
        BY <1>1, <2>1, <4>1 DEF Apart, WholeOrWritten
    <3> QED
      BY <3>1, <3>2
  <2>5. ASSUME NEW g \in Download PROVE (ReadsPrefix(g) /\ ReadWhole(g))'
    <3>1. down[g].dir \in Share!Dir
      BY DEF FilesInv, FilesTyped, Downloading
    <3> QED
      BY <1>1, <2>1, <2>2, <3>1 DEF Apart, ReadsPrefix, ReadWhole
  <2> QED
    BY <2>3, <2>4, <2>5 DEF Apart
<1> QED
  BY <1>5, <1>6 DEF FilesInv

LEMMA DownloadStartsFiles ==
  ASSUME FilesInv, NEW g \in Download, Share!DownloadStarts(g)
  PROVE  FilesInv'
<1> DEFINE new == [Share!IdleDown EXCEPT !.pc = "sent", !.sess = objects[dialog].sess, !.dir = share_shown.path]
<1>1. /\ down' = [down EXCEPT ![g] = new] /\ dialog # 0 /\ share_shown.path # "text"
      /\ UNCHANGED <<files, share_up, disturbed, objects, dialog, share_shown>>
  BY DEF Share!DownloadStarts, Share!Viewer
<1>2. objects[dialog] \in Objects /\ share_shown.path \in Share!Dir
  BY <1>1 DEF FilesInv, FilesTyped
<1>3. new \in Downloading /\ new.pc = "sent" /\ new.got = <<>>
  <2>1. Share!IdleDown \in Downloading /\ Share!IdleDown.got = <<>>
    BY DEF Share!IdleDown, Downloading, Share!Dir
  <2>2. objects[dialog].sess \in Session
    BY <1>2 DEF Objects
  <2> QED
    BY <1>2, <2>1, <2>2 DEF Downloading
<1> HIDE DEF new
<1>4. FilesTyped'
  BY <1>1, <1>3 DEF FilesInv, FilesTyped
<1>5. \A h \in Download : down'[h].pc \in {"failed", "sent"} \/ down'[h] = down[h]
  BY <1>1, <1>3 DEF FilesInv, FilesTyped
<1> QED
  BY <1>1, <1>4, <1>5, QuietFiles

LEMMA DownloadOpensFiles ==
  ASSUME FilesInv, NEW g \in Download, Share!DownloadOpens(g)
  PROVE  FilesInv'
<1> DEFINE e == down[g].dir
           f == files[e]
           failed == [down[g] EXCEPT !.pc = "failed"]
           opened == [down[g] EXCEPT !.pc = "reading", !.size = Len(f)]
<1>1. /\ down[g].pc = "sent" /\ UNCHANGED <<files, share_up, objects, dialog, share_shown>>
      /\ \/ down' = [down EXCEPT ![g] = failed] /\ UNCHANGED disturbed
         \/ /\ f # None /\ down' = [down EXCEPT ![g] = opened]
            /\ disturbed' = (disturbed \/ Share!Meets(e))
  BY DEF Share!DownloadOpens, Share!Viewer
<1>2. down[g] \in Downloading /\ e \in Share!Dir /\ down[g].got = <<>>
  BY <1>1 DEF FilesInv, FilesTyped, Downloading
<1>3. CASE down' = [down EXCEPT ![g] = failed] /\ UNCHANGED disturbed
  <2>1. failed \in Downloading /\ failed.pc = "failed"
    BY <1>2 DEF Downloading
  <2> HIDE DEF failed
  <2>2. FilesTyped' /\ \A h \in Download : down'[h].pc \in {"failed", "sent"} \/ down'[h] = down[h]
    BY <1>1, <1>3, <2>1 DEF FilesInv, FilesTyped
  <2> QED
    BY <1>1, <1>3, <2>2, QuietFiles
<1>4. CASE f # None /\ down' = [down EXCEPT ![g] = opened] /\ disturbed' = (disturbed \/ Share!Meets(e))
  <2>1. f \in Seq(Share!Chunk)
    BY <1>2, <1>4 DEF FilesInv, FilesTyped
  <2>2. /\ opened \in Downloading /\ opened.pc = "reading" /\ opened.size = Len(f)
        /\ opened.dir = e /\ opened.got = <<>>
    <3>1. Len(f) \in Nat
      BY <2>1
    <3> HIDE DEF f
    <3> QED
      BY <1>2, <3>1 DEF Downloading
  <2> HIDE DEF opened
  <2>3. down'[g] = opened /\ \A h \in Download \ {g} : down'[h] = down[h]
    BY <1>4 DEF FilesInv, FilesTyped
  <2>4. FilesTyped'
    BY <1>1, <1>4, <2>1, <2>2, <2>3 DEF FilesInv, FilesTyped
  <2>5. ASSUME ~disturbed' PROVE Apart'
    <3>1. Apart /\ ~Share!Meets(e)
      BY <1>4, <2>5 DEF FilesInv
    <3>2. \A u \in Upload : ~Writer(u, e)
      BY <3>1 DEF Share!Meets, Writer
    <3>3. Share!Whole(f)
      BY <1>2, <1>4, <3>1, <3>2 DEF Apart, WholeOrWritten
    <3>4. \A u \in Upload : \A d : Writer(u, d)' <=> Writer(u, d)
      BY <1>1 DEF Writer
    <3>5. (ReadsPrefix(g) /\ ReadWhole(g))'
      BY <1>1, <1>2, <2>1, <2>2, <2>3, <3>2, <3>3, <3>4 DEF ReadsPrefix, ReadWhole
    <3>6. ASSUME NEW h \in Download \ {g} PROVE (ReadsPrefix(h) /\ ReadWhole(h))'
      BY <1>1, <2>3, <3>1, <3>4 DEF Apart, ReadsPrefix, ReadWhole
    <3> QED
      BY <1>1, <3>1, <3>4, <3>5, <3>6 DEF Apart, OneWriter, HoldsWritten, WholeOrWritten
  <2> QED
    BY <2>4, <2>5 DEF FilesInv
<1> QED
  BY <1>1, <1>3, <1>4

\* A sequence of the length of a whole file that agrees with it is that file.
LEMMA SameWhole ==
  ASSUME NEW f \in Seq(Share!Chunk), NEW s \in Seq(Share!Chunk), Share!Whole(f), Len(s) = Len(f),
         \A i \in 1 .. Len(s) : s[i] = f[i]
  PROVE  Share!Whole(s)
<1>1. s = f
  OBVIOUS
<1> QED
  BY <1>1

LEMMA DownloadReadsFiles ==
  ASSUME FilesInv, NEW g \in Download, Share!DownloadReads(g)
  PROVE  FilesInv'
<1> DEFINE e == down[g].dir
           f == files[e]
           s == down[g].got
           k == Len(s) + 1
           finished == [down[g] EXCEPT !.pc = "done"]
           failed == [down[g] EXCEPT !.pc = "failed"]
           longer == [down[g] EXCEPT !.got = Append(s, f[k])]
<1>1. /\ down[g].pc = "reading" /\ UNCHANGED <<files, share_up, disturbed, objects, dialog, share_shown>>
      /\ \/ k > down[g].size /\ down' = [down EXCEPT ![g] = finished]
         \/ ~(k > Len(f)) /\ down' = [down EXCEPT ![g] = longer] /\ ~(k > down[g].size)
         \/ down' = [down EXCEPT ![g] = failed]
  BY DEF Share!DownloadReads, Share!Viewer
<1>2. down[g] \in Downloading /\ e \in Share!Dir /\ s \in Seq(Share!Chunk) /\ down[g].size \in Nat
  BY DEF FilesInv, FilesTyped, Downloading
<1>3. CASE k > down[g].size /\ down' = [down EXCEPT ![g] = finished]
  <2>1. finished \in Downloading /\ finished.pc = "done" /\ finished.got = s
    BY <1>2 DEF Downloading
  <2> HIDE DEF finished
  <2>2. down'[g] = finished /\ \A h \in Download \ {g} : down'[h] = down[h]
    BY <1>3 DEF FilesInv, FilesTyped
  <2>3. FilesTyped'
    BY <1>1, <1>3, <2>1, <2>2 DEF FilesInv, FilesTyped
  <2>4. ASSUME ~disturbed' PROVE Apart'
    <3>1. Apart
      BY <1>1, <2>4 DEF FilesInv
    <3>2. /\ f \in Seq(Share!Chunk) /\ Share!Whole(f) /\ down[g].size = Len(f)
          /\ Len(s) <= Len(f) /\ \A i \in 1 .. Len(s) : s[i] = f[i]
      BY <1>1, <3>1 DEF Apart, ReadsPrefix
    <3>3. Len(s) = Len(f)
      BY <1>2, <1>3, <3>2
    <3>4. Share!Whole(s)
      BY <1>2, <3>2, <3>3, SameWhole
    <3>5. (ReadsPrefix(g) /\ ReadWhole(g))'
      BY <2>1, <2>2, <3>4 DEF ReadsPrefix, ReadWhole
    <3>6. \A u \in Upload : \A d : Writer(u, d)' <=> Writer(u, d)
      BY <1>1 DEF Writer
    <3>7. ASSUME NEW h \in Download \ {g} PROVE (ReadsPrefix(h) /\ ReadWhole(h))'
      BY <1>1, <2>2, <3>1, <3>6 DEF Apart, ReadsPrefix, ReadWhole
    <3> QED
      BY <1>1, <3>1, <3>5, <3>6, <3>7 DEF Apart, OneWriter, HoldsWritten, WholeOrWritten
  <2> QED
    BY <2>3, <2>4 DEF FilesInv
<1>4. CASE ~(k > Len(f)) /\ down' = [down EXCEPT ![g] = longer] /\ ~(k > down[g].size)
  <2>1. f \in Seq(Share!Chunk)
    BY <1>1 DEF FilesInv, FilesTyped
  <2>2. /\ Append(s, f[k]) \in Seq(Share!Chunk) /\ Len(Append(s, f[k])) = k /\ k \in Nat
        /\ \A i \in 1 .. Len(s) : Append(s, f[k])[i] = s[i]
        /\ Append(s, f[k])[k] = f[k]
    BY <1>2, <1>4, <2>1
  <2>3. longer \in Downloading /\ longer.pc = "reading" /\ longer.dir = e /\ longer.size = down[g].size
        /\ longer.got = Append(s, f[k])
    <3> DEFINE t == Append(s, f[k])
    <3>1. t \in Seq(Share!Chunk)
      BY <2>2
    <3> HIDE DEF t
    <3> QED
      BY <1>1, <1>2, <3>1 DEF Downloading, t
  <2> HIDE DEF longer
  <2>4. down'[g] = longer /\ \A h \in Download \ {g} : down'[h] = down[h]
    BY <1>4 DEF FilesInv, FilesTyped
  <2>5. FilesTyped'
    BY <1>1, <1>4, <2>1, <2>3, <2>4 DEF FilesInv, FilesTyped
  <2>6. ASSUME ~disturbed' PROVE Apart'
    <3>1. Apart
      BY <1>1, <2>6 DEF FilesInv
    <3>2. /\ Share!Whole(f) /\ down[g].size = Len(f) /\ \A u \in Upload : ~Writer(u, e)
          /\ \A i \in 1 .. Len(s) : s[i] = f[i]
      BY <1>1, <3>1 DEF Apart, ReadsPrefix
    <3>3. \A i \in 1 .. k : Append(s, f[k])[i] = f[i]
      <4>1. \A i \in 1 .. k : i \in 1 .. Len(s) \/ i = k
        BY <1>2
      <4> QED
        BY <2>2, <3>2, <4>1
    <3>4. k <= down[g].size
      BY <1>2, <1>4
    <3>5. \A u \in Upload : \A d : Writer(u, d)' <=> Writer(u, d)
      BY <1>1 DEF Writer
    <3>6. (ReadsPrefix(g) /\ ReadWhole(g))'
      BY <1>1, <2>1, <2>2, <2>3, <2>4, <3>2, <3>3, <3>4, <3>5 DEF ReadsPrefix, ReadWhole
    <3>7. ASSUME NEW h \in Download \ {g} PROVE (ReadsPrefix(h) /\ ReadWhole(h))'
      BY <1>1, <2>4, <3>1, <3>5 DEF Apart, ReadsPrefix, ReadWhole
    <3> QED
      BY <1>1, <3>1, <3>5, <3>6, <3>7 DEF Apart, OneWriter, HoldsWritten, WholeOrWritten
  <2> QED
    BY <2>5, <2>6 DEF FilesInv
<1>5. CASE down' = [down EXCEPT ![g] = failed]
  <2>1. failed \in Downloading /\ failed.pc = "failed"
    BY <1>2 DEF Downloading
  <2> HIDE DEF failed
  <2>2. FilesTyped' /\ \A h \in Download : down'[h].pc \in {"failed", "sent"} \/ down'[h] = down[h]
    BY <1>1, <1>5, <2>1 DEF FilesInv, FilesTyped
  <2> QED
    BY <1>1, <2>2, QuietFiles
<1> QED
  BY <1>1, <1>3, <1>4, <1>5

\* A download that completes, and a file nobody writes, is the whole of one upload, unless
\* an upload broke off or met another access to the file: handle_share_upload and
\* handle_share_download take no lock on it.
THEOREM MixOnlyOverlapped == Spec => []MixNeedsOverlap
<1>1. Init => ListInv /\ FilesInv
  BY ListStart, FilesStart DEF Init
<1>2. ListInv /\ FilesInv /\ [Next]_vars => (ListInv /\ FilesInv)'
  <2> SUFFICES ASSUME ListInv, FilesInv, [Share!Next]_(Share!vars) PROVE (ListInv /\ FilesInv)'
    BY ShareSteps
  <2>1. ListInv'
    BY ListKept
  <2>2. /\ objects' \in Seq(Objects) /\ dialog' \in 0 .. Len(objects')
        /\ share_shown'.path \in Share!Dir \union {"text"}
    BY <2>1 DEF ListInv, ListTyped, Share!Text
  <2>3. ASSUME UNCHANGED <<files, share_up, down, disturbed>> PROVE FilesInv'
    BY <2>2, <2>3, ViewerFiles
  <2>4. ASSUME NEW s \in Session, Share!ShareStart(s) \/ Share!OfferArrives(s) \/ Share!Opens(s)
        PROVE  FilesInv'
    <3>1. Share!Disk' = Share!Disk
      BY <2>4 DEF Share!ShareStart, Share!OfferArrives, Share!Opens
    <3> QED
      BY <2>3, <3>1 DEF Share!Disk
  <2>5. CASE Share!Tick \/ Share!Closes \/ Share!Enters \/ Share!GoesUp \/ UNCHANGED Share!vars
    <3>1. CASE Share!Enters \/ Share!GoesUp
      BY <2>1, <2>3, <3>1 DEF Share!Enters, Share!GoesUp, Share!Disk
    <3>2. CASE Share!Tick \/ Share!Closes
      BY <2>1, <2>3, <3>2 DEF Share!Tick, Share!Closes, Share!Disk
    <3>3. CASE UNCHANGED Share!vars
      BY <2>1, <2>3, <3>3 DEF Share!vars
    <3> QED
      BY <2>5, <3>1, <3>2, <3>3
  <2>6. ASSUME NEW a \in asks, Share!Lists(a) \/ Share!FetchFails(a) \/ Share!ShowsListing(a)
        PROVE  FilesInv'
    BY <2>3, <2>6 DEF Share!Lists, Share!FetchFails, Share!ShowsListing, Share!Disk
  <2> QED
    BY <2>1, <2>4, <2>5, <2>6, UploadStartsFiles, UploadFailsFiles, RestartsFiles, UploadOpensFiles,
       UploadWritesFiles, UploadEndsFiles, DownloadStartsFiles, DownloadOpensFiles, DownloadReadsFiles
       DEF Share!Next
<1>3. FilesInv => MixNeedsOverlap
  BY DEF FilesInv, Apart, WholeOrWritten, ReadWhole, Writer, MixNeedsOverlap, Share!MixNeedsOverlap
<1> QED
  BY <1>1, <1>2, <1>3, PTL DEF Spec
=============================================================================
