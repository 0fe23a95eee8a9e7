------------------------- MODULE FileTransferProofs -------------------------
(* FileTransfer for any number of files, long texts, faults and concurrent      *)
(* receives: type correctness; the pairing of resources with metadata at the    *)
(* receiver (without a skew, at most one announced transfer is open, and what   *)
(* waits in _pending_files is its metadata); and the send slot (two files are   *)
(* on the wire at once only after a cancel was asked for).                      *)
EXTENDS FileTransfer, SequenceTheorems, FiniteSetTheorems, TLAPS

USE XferAssumption, LongTextAssumption, NoneAssumption, BoundAssumption

-----------------------------------------------------------------------------
LEMMA SubSeqTyped ==
  ASSUME NEW S, NEW s \in Seq(S), NEW m \in Nat \ {0}, NEW n \in Nat, n <= Len(s)
  PROVE  /\ SubSeq(s, m, n) \in Seq(S)
         /\ Len(SubSeq(s, m, n)) = IF m <= n THEN n - m + 1 ELSE 0
         /\ \A i \in 1 .. Len(SubSeq(s, m, n)) : SubSeq(s, m, n)[i] = s[m + i - 1]
<1>1. Len(s) \in Nat /\ \A i \in 1 .. Len(s) : s[i] \in S
  BY LenProperties
<1>2. m \in Int /\ n \in Int /\ \A i \in m .. n : s[i] \in S
  BY <1>1
<1> QED
  BY <1>2, SubSeqProperties

(* Dropping the metadata of one transfer leaves metadata that was there.        *)
LEMMA WithoutTyped ==
  ASSUME NEW S, NEW s \in Seq(S), NEW x
  PROVE  /\ Without(x, s) \in Seq(S)
         /\ Len(Without(x, s)) \in Nat /\ Len(Without(x, s)) <= Len(s)
         /\ \A i \in 1 .. Len(Without(x, s)) :
               \E j \in 1 .. Len(s) : Without(x, s)[i] = s[j]
<1>1. Len(s) \in Nat /\ DOMAIN s = 1 .. Len(s)
  BY LenProperties
<1>2. CASE ~ \E i \in DOMAIN s : s[i] = x
  BY <1>1, <1>2 DEF Without
<1>3. CASE \E i \in DOMAIN s : s[i] = x
  <2>1. PICK k \in 1 .. Len(s) :
             Without(x, s) = SubSeq(s, 1, k - 1) \o SubSeq(s, k + 1, Len(s))
    BY <1>1, <1>3 DEF Without
  <2>a. PICK a : a = SubSeq(s, 1, k - 1)
    OBVIOUS
  <2>b. PICK b : b = SubSeq(s, k + 1, Len(s))
    OBVIOUS
  <2>2. Len(s) \in Nat /\ k \in 1 .. Len(s)
    BY <1>1, <2>1
  <2>3. /\ a \in Seq(S) /\ Len(a) = k - 1
        /\ \A i \in 1 .. Len(a) : a[i] = s[1 + i - 1]
    <3>1. k - 1 \in Nat /\ k - 1 <= Len(s) /\ 1 \in Nat \ {0}
      BY <2>2
    <3>2. /\ SubSeq(s, 1, k - 1) \in Seq(S)
          /\ Len(SubSeq(s, 1, k - 1)) = IF 1 <= k - 1 THEN k - 1 - 1 + 1 ELSE 0
          /\ \A i \in 1 .. Len(SubSeq(s, 1, k - 1)) :
                SubSeq(s, 1, k - 1)[i] = s[1 + i - 1]
      BY <3>1, SubSeqTyped
    <3>3. (IF 1 <= k - 1 THEN k - 1 - 1 + 1 ELSE 0) = k - 1
      BY <2>2
    <3> QED
      BY <2>a, <2>b, <3>2, <3>3, Zenon
  <2>4. /\ b \in Seq(S) /\ Len(b) = Len(s) - k
        /\ \A i \in 1 .. Len(b) : b[i] = s[k + 1 + i - 1]
    <3>1. k + 1 \in Nat \ {0} /\ Len(s) \in Nat /\ Len(s) <= Len(s)
      BY <2>2
    <3>2. /\ SubSeq(s, k + 1, Len(s)) \in Seq(S)
          /\ Len(SubSeq(s, k + 1, Len(s)))
               = IF k + 1 <= Len(s) THEN Len(s) - (k + 1) + 1 ELSE 0
          /\ \A i \in 1 .. Len(SubSeq(s, k + 1, Len(s))) :
                SubSeq(s, k + 1, Len(s))[i] = s[k + 1 + i - 1]
      BY <3>1, SubSeqTyped
    <3>3. (IF k + 1 <= Len(s) THEN Len(s) - (k + 1) + 1 ELSE 0) = Len(s) - k
      BY <2>2
    <3> QED
      BY <2>a, <2>b, <3>2, <3>3, Zenon
  <2>5. /\ a \o b \in Seq(S) /\ Len(a \o b) = Len(a) + Len(b)
        /\ \A i \in 1 .. Len(a) + Len(b) :
             (a \o b)[i] = IF i <= Len(a) THEN a[i] ELSE b[i - Len(a)]
    <3>1. a \in Seq(S) /\ b \in Seq(S)
      BY <2>3, <2>4
    <3> QED
      BY ONLY <3>1, ConcatProperties, Zenon
  <2>6. Len(a) + Len(b) = Len(s) - 1
    BY <2>2, <2>3, <2>4
  <2>7. ASSUME NEW i \in 1 .. Len(a \o b)
        PROVE  \E j \in 1 .. Len(s) : (a \o b)[i] = s[j]
    <3>1. CASE i <= Len(a)
      <4>1. /\ i \in 1 .. Len(a) /\ i \in 1 .. Len(s) /\ 1 + i - 1 = i
            /\ i \in 1 .. Len(a) + Len(b)
        BY <2>2, <2>3, <2>4, <2>5, <3>1
      <4>2. (a \o b)[i] = a[i] /\ a[i] = s[1 + i - 1]
        BY <2>3, <2>5, <3>1, <4>1, Zenon
      <4> QED
        BY <4>1, <4>2
    <3>2. CASE ~(i <= Len(a))
      <4> DEFINE h == i - Len(a)
      <4>1. /\ h \in 1 .. Len(b) /\ k + 1 + h - 1 \in 1 .. Len(s)
            /\ i \in 1 .. Len(a) + Len(b)
        BY <2>2, <2>3, <2>4, <2>5, <3>2
      <4>2. (a \o b)[i] = b[h] /\ b[h] = s[k + 1 + h - 1]
        BY <2>4, <2>5, <3>2, <4>1, Zenon
      <4> QED
        BY <4>1, <4>2
    <3> QED
      BY <3>1, <3>2
  <2>8. Without(x, s) = a \o b
    BY <2>1, <2>a, <2>b, Zenon
  <2>9. Len(s) - 1 \in Nat /\ Len(s) - 1 <= Len(s)
    BY <2>2
  <2>10. /\ a \o b \in Seq(S) /\ Len(a \o b) = Len(s) - 1
        /\ \A i \in 1 .. Len(a \o b) : \E j \in 1 .. Len(s) : (a \o b)[i] = s[j]
    BY <2>5, <2>6, <2>7, Zenon
  <2> QED
    BY ONLY <2>8, <2>9, <2>10, Zenon
<1> QED
  BY <1>2, <1>3

LEMMA ReceivingCount == IsFiniteSet(Receiving) /\ Cardinality(Receiving) \in Nat
<1>1. Receiving \subseteq Xfer
  BY DEF Receiving
<1> QED
  BY <1>1, FS_Subset, FS_CardinalityType

-----------------------------------------------------------------------------
(* Every variable keeps its type in every step of both nodes.                  *)
THEOREM FileTypes == Spec => []TypeOK
<1>1. Init => TypeOK
  <2>1. <<>> \in Seq(Xfer)
    OBVIOUS
  <2>2. 0 \in 0 .. MaxFaults
    BY BoundAssumption
  <2>3. [x \in Xfer |-> None] \in [Xfer -> Xfer \union {None, Unnamed}]
    OBVIOUS
  <2>4. Init => pending \in Seq(Xfer) /\ saved \in [Xfer -> Xfer \union {None, Unnamed}]
    BY <2>1, <2>3 DEF Init
  <2>5. Init => /\ phase \in [Xfer -> {"idle", "waiting", "won", "claimed", "announced",
                                      "built", "returned", "failed"}]
                /\ outgoing \in [Xfer -> {"none", "running", "complete", "failed",
                                         "concluding", "over"}]
                /\ verdict \in [Xfer -> {"none", "complete", "failed", "cancelled"}]
                /\ incoming \in [Xfer -> {"none", "incoming", "complete", "failed",
                                         "over", "lost"}]
    BY DEF Init
  <2>6. Init => /\ lock \in Xfer \union {None} /\ current \in Xfer \union {None}
                /\ active \subseteq Xfer /\ cancelled \subseteq Xfer /\ canceling \subseteq Xfer
                /\ cancelledHere \subseteq Xfer /\ asked \subseteq Xfer
                /\ announced \subseteq Xfer
                /\ wire \in [meta : SUBSET Xfer, cancel : SUBSET Xfer, revoke : SUBSET Xfer]
    BY DEF Init
  <2>8. Init => skewed \in BOOLEAN
    BY Zenon DEF Init
  <2>7. Init => faults \in 0 .. MaxFaults
    BY <2>2 DEF Init
  <2> QED
    BY <2>4, <2>5, <2>6, <2>7, <2>8 DEF TypeOK
<1>2. TypeOK /\ [Next]_vars => TypeOK'
  <2> SUFFICES ASSUME TypeOK, [Next]_vars PROVE TypeOK'
    OBVIOUS
  <2> USE DEF TypeOK, sender, receiver, resource, history
  <2>1. CASE UNCHANGED vars
    BY <2>1 DEF vars
  <2>2. ASSUME NEW x \in Xfer, FileBegin(x) \/ SendStep(x) PROVE TypeOK'
    <3>1. CASE FileBegin(x)
      BY <3>1 DEF FileBegin
    <3>2. CASE TextBegin(x)
      BY <3>2 DEF TextBegin, SendMetadata
    <3>3. CASE SlotFree(x)
      BY <3>3 DEF SlotFree
    <3>4. CASE SlotTimeout(x)
      BY <3>4 DEF SlotTimeout, Released
    <3>5. CASE Claim(x)
      BY <3>5 DEF Claim
    <3>6. CASE Announce(x)
      BY <3>6 DEF Announce, SendMetadata
    <3>7. CASE Build(x)
      BY <3>7 DEF Build
    <3>8. CASE Register(x)
      BY <3>8 DEF Register, Released
    <3>9. CASE SendFails(x)
      BY <3>9 DEF SendFails, Released
    <3> QED
      BY <2>2, <3>1, <3>2, <3>3, <3>4, <3>5, <3>6, <3>7, <3>8, <3>9 DEF SendStep
  <2>3. ASSUME NEW x \in Xfer, ResourceStep(x) \/ Break(x) PROVE TypeOK'
    <3>1. CASE Conclude(x)
      BY <3>1 DEF Conclude
    <3>2. CASE Report(x)
      BY <3>2 DEF Report, Cleared
    <3>3. CASE ProgressCancel(x)
      BY <3>3 DEF ProgressCancel, Abandon, Cleared
    <3>4. CASE Accept(x) \/ Refuse(x) \/ Received(x) \/ ReceiverHears(x)
      BY <3>4 DEF Accept, Refuse, Received, ReceiverHears
    <3>5. CASE Proved(x) \/ SenderHears(x) \/ Break(x)
      BY <3>5 DEF Proved, SenderHears, Break
    <3> QED
      BY <2>3, <3>1, <3>2, <3>3, <3>4, <3>5 DEF ResourceStep
  <2>4. ASSUME NEW x \in Xfer,
               ReceiveStep(x) \/ MetadataLost(x) \/ UserCancel(x) \/ ReceiverCancel(x)
        PROVE  TypeOK'
    <3>1. CASE MetadataArrives(x)
      <4>1. pending' \in Seq(Xfer)
        BY <3>1, AppendProperties DEF MetadataArrives
      <4> QED
        BY <3>1, <4>1 DEF MetadataArrives
    <3>2. CASE MetadataLost(x)
      BY <3>2 DEF MetadataLost
    <3>3. CASE ReceiveConcluded(x)
      <4>1. Head(pending) \in Xfer /\ Tail(pending) \in Seq(Xfer)
        BY <3>3, HeadTailProperties DEF ReceiveConcluded
      <4>2. saved' \in [Xfer -> Xfer \union {None, Unnamed}]
        BY <3>3, <4>1 DEF ReceiveConcluded
      <4> QED
        BY <3>3, <4>1, <4>2 DEF ReceiveConcluded, Popped, Done
    <3>4. CASE ReceiveUnnamed(x)
      BY <3>4 DEF ReceiveUnnamed, Done
    <3>5. CASE CancelNotice(x)
      <4> DEFINE n == Cardinality(Receiving)
                 rest == SubSeq(pending, n + 1, Len(pending))
      <4>1. n \in Nat /\ Len(pending) \in Nat
        BY ReceivingCount, LenProperties
      <4>2. n + 1 \in Nat \ {0} /\ Len(pending) <= Len(pending)
        BY <4>1
      <4>3. rest \in Seq(Xfer)
        BY <4>1, <4>2, SubSeqTyped
      <4> HIDE DEF rest
      <4>4. Without(x, rest) \in Seq(Xfer)
        BY <4>3, WithoutTyped
      <4>5. pending' \in Seq(Xfer)
        BY <3>5, <4>4 DEF CancelNotice, rest
      <4>6. skewed' \in BOOLEAN
        BY <3>5, <4>1 DEF CancelNotice
      <4> QED
        BY <3>5, <4>5, <4>6 DEF CancelNotice, Receiving
    <3>6. CASE Revoked(x)
      BY <3>6 DEF Revoked, Abandon, Cleared
    <3>7. CASE CancelEnd(x)
      BY <3>7 DEF CancelEnd, Cleared
    <3>8. CASE UserCancel(x)
      BY <3>8 DEF UserCancel, CancelTransfer, Abandon, Cleared
    <3>9. CASE ReceiverCancel(x)
      BY <3>9 DEF ReceiverCancel
    <3> QED
      BY <2>4, <3>1, <3>2, <3>3, <3>4, <3>5, <3>6, <3>7, <3>8, <3>9 DEF ReceiveStep
  <2> QED
    BY <2>1, <2>2, <2>3, <2>4 DEF Next
<1> QED
  BY <1>1, <1>2, PTL DEF Spec

-----------------------------------------------------------------------------
(* The pairing                                                                 *)

\* A transfer is announced once, before its resource exists.
AnnouncedOnce ==
    \A x \in Xfer :
      /\ phase[x] = "idle" => x \notin announced
      /\ x \notin LongText /\ phase[x] \in {"waiting", "won", "claimed"}
           => x \notin announced
      /\ x \in LongText /\ phase[x] \in {"waiting", "won", "claimed"}
           => x \in announced
      /\ phase[x] = "announced" => x \in announced
      /\ outgoing[x] # "none" => x \in announced
      /\ incoming[x] # "none" => outgoing[x] # "none"

\* Announced, and the receiver is not through with it.
Open(x) == x \in announced /\ incoming[x] \notin {"over", "lost"}

OneOpen == \A x, y \in Xfer : Open(x) /\ Open(y) => x = y
WaitingIsOpen ==
    /\ Len(pending) <= 1
    /\ \A i \in 1 .. Len(pending) : Open(pending[i]) /\ pending[i] \notin wire.meta
    /\ \A x \in wire.meta : Open(x)
SavedPaired == \A x \in Xfer : saved[x] \in {None, x}
Paired == ~skewed => OneOpen /\ WaitingIsOpen /\ SavedPaired

PairInv == AnnouncedOnce /\ Paired

LEMMA OnceStep == TypeOK /\ AnnouncedOnce /\ [Next]_vars => AnnouncedOnce'
<1> SUFFICES ASSUME TypeOK, AnnouncedOnce, [Next]_vars PROVE AnnouncedOnce'
  OBVIOUS
<1>t. /\ phase \in [Xfer -> {"idle", "waiting", "won", "claimed", "announced", "built",
                             "returned", "failed"}]
      /\ outgoing \in [Xfer -> {"none", "running", "complete", "failed", "concluding",
                                "over"}]
      /\ incoming \in [Xfer -> {"none", "incoming", "complete", "failed", "over", "lost"}]
  BY DEF TypeOK
<1> USE <1>t DEF AnnouncedOnce, sender, receiver, resource, history
<1>1. CASE UNCHANGED vars
  BY <1>1 DEF vars
<1>2. ASSUME NEW x \in Xfer, FileBegin(x) \/ SendStep(x) PROVE AnnouncedOnce'
  <2>1. CASE FileBegin(x)
    BY <2>1 DEF FileBegin
  <2>2. CASE TextBegin(x)
    BY <2>2 DEF TextBegin, SendMetadata
  <2>3. CASE SlotFree(x)
    BY <2>3 DEF SlotFree
  <2>4. CASE SlotTimeout(x)
    BY <2>4 DEF SlotTimeout
  <2>5. CASE Claim(x)
    BY <2>5 DEF Claim
  <2>6. CASE Announce(x)
    BY <2>6 DEF Announce, SendMetadata
  <2>7. CASE Build(x)
    BY <2>7 DEF Build, Ready
  <2>8. CASE Register(x)
    BY <2>8 DEF Register
  <2>9. CASE SendFails(x)
    BY <2>9 DEF SendFails
  <2> QED
    BY <1>2, <2>1, <2>2, <2>3, <2>4, <2>5, <2>6, <2>7, <2>8, <2>9 DEF SendStep
<1>3. ASSUME NEW x \in Xfer, ResourceStep(x) \/ Break(x) PROVE AnnouncedOnce'
  <2>1. CASE Conclude(x) \/ Report(x)
    BY <2>1 DEF Conclude, Report
  <2>2. CASE ProgressCancel(x)
    BY <2>2 DEF ProgressCancel, Abandon
  <2>3. CASE Accept(x) \/ Refuse(x) \/ Received(x) \/ ReceiverHears(x)
    BY <2>3 DEF Accept, Refuse, Received, ReceiverHears
  <2>4. CASE Proved(x) \/ SenderHears(x) \/ Break(x)
    BY <2>4 DEF Proved, SenderHears, Break
  <2> QED
    BY <1>3, <2>1, <2>2, <2>3, <2>4 DEF ResourceStep
<1>4. ASSUME NEW x \in Xfer,
             ReceiveStep(x) \/ MetadataLost(x) \/ UserCancel(x) \/ ReceiverCancel(x)
      PROVE  AnnouncedOnce'
  <2>1. CASE MetadataArrives(x) \/ MetadataLost(x) \/ CancelEnd(x) \/ ReceiverCancel(x)
    BY <2>1 DEF MetadataArrives, MetadataLost, CancelEnd, ReceiverCancel
  <2>2. CASE ReceiveConcluded(x)
    BY <2>2 DEF ReceiveConcluded, Done
  <2>3. CASE ReceiveUnnamed(x)
    BY <2>3 DEF ReceiveUnnamed, Done
  <2>4. CASE CancelNotice(x)
    BY <2>4 DEF CancelNotice, Receiving
  <2>5. CASE Revoked(x)
    BY <2>5 DEF Revoked, Abandon
  <2>6. CASE UserCancel(x)
    BY <2>6 DEF UserCancel, CancelTransfer, Abandon
  <2> QED
    BY <1>4, <2>1, <2>2, <2>3, <2>4, <2>5, <2>6 DEF ReceiveStep
<1> QED
  BY <1>1, <1>2, <1>3, <1>4 DEF Next

(* A step that opens and closes no transfer and announces none.                *)
LEMMA PairedFramed ==
  ASSUME TypeOK, Paired, UNCHANGED <<pending, saved, skewed>>,
         wire'.meta \subseteq wire.meta,
         \A z \in Xfer : Open(z)' <=> Open(z)
  PROVE  Paired'
<1> SUFFICES ASSUME ~skewed PROVE (OneOpen /\ WaitingIsOpen /\ SavedPaired)'
  BY DEF Paired
<1>1. OneOpen /\ WaitingIsOpen /\ SavedPaired
  BY DEF Paired
<1>2. /\ Len(pending) \in Nat /\ \A i \in 1 .. Len(pending) : pending[i] \in Xfer
      /\ wire.meta \subseteq Xfer
  BY LenProperties DEF TypeOK
<1>3. OneOpen' /\ SavedPaired'
  BY <1>1 DEF OneOpen, SavedPaired
<1>4. WaitingIsOpen'
  BY <1>1, <1>2 DEF WaitingIsOpen
<1> QED
  BY <1>3, <1>4

(* A transfer is announced: without a skew no other one is open.               *)
LEMMA PairedAnnounce ==
  ASSUME TypeOK, Paired, NEW x \in Xfer, x \notin announced, SendMetadata(x),
         incoming[x] = "none", UNCHANGED <<incoming, pending, saved>>
  PROVE  Paired'
<1> SUFFICES ASSUME ~skewed' PROVE (OneOpen /\ WaitingIsOpen /\ SavedPaired)'
  BY DEF Paired
<1>1. /\ ~skewed /\ \A z \in Xfer : ~Open(z)
      /\ announced' = announced \union {x} /\ wire'.meta = wire.meta \union {x}
  BY DEF SendMetadata, Open, TypeOK
<1>2. OneOpen /\ WaitingIsOpen /\ SavedPaired
  BY <1>1 DEF Paired
<1>3. \A z \in Xfer : Open(z)' <=> z = x
  BY <1>1 DEF Open
<1>4. Len(pending) = 0 /\ wire.meta = {}
  <2>1. Len(pending) \in Nat /\ \A i \in 1 .. Len(pending) : pending[i] \in Xfer
    BY LenProperties DEF TypeOK
  <2>2. wire.meta \subseteq Xfer
    BY DEF TypeOK
  <2>3. \A i \in 1 .. Len(pending) : FALSE
    BY <1>1, <1>2, <2>1 DEF WaitingIsOpen
  <2> QED
    BY <1>1, <1>2, <2>1, <2>2, <2>3 DEF WaitingIsOpen
<1>5. WaitingIsOpen'
  BY <1>1, <1>3, <1>4 DEF WaitingIsOpen
<1> QED
  BY <1>2, <1>3, <1>5 DEF OneOpen, SavedPaired

(* The steps of a sending thread.                                              *)
LEMMA PairedSend ==
  ASSUME TypeOK, AnnouncedOnce, Paired, NEW x \in Xfer, FileBegin(x) \/ SendStep(x)
  PROVE  Paired'
<1>1. CASE TextBegin(x) \/ Announce(x)
  <2>1. x \notin announced /\ SendMetadata(x) /\ UNCHANGED <<incoming, pending, saved>>
    BY <1>1 DEF TextBegin, Announce, AnnouncedOnce, receiver, resource
  <2>2. incoming[x] = "none"
    BY <2>1 DEF AnnouncedOnce
  <2> QED
    BY <2>1, <2>2, PairedAnnounce
<1>2. CASE ~(TextBegin(x) \/ Announce(x))
  <2>1. /\ UNCHANGED <<pending, saved, skewed, announced, incoming, wire>>
    BY <1>2 DEF SendStep, FileBegin, SlotFree, SlotTimeout, Claim, Build, Register,
                SendFails, receiver, resource, history
  <2>2. \A z \in Xfer : Open(z)' <=> Open(z)
    BY <2>1 DEF Open
  <2> QED
    BY <2>1, <2>2, PairedFramed
<1> QED
  BY <1>1, <1>2

(* The steps of RNS.  A resource is not refused while its transfer is the only  *)
(* open one: MAX_CONCURRENT_RECEIVES would have to be used up by another.       *)
LEMMA PairedResource ==
  ASSUME TypeOK, AnnouncedOnce, Paired, NEW x \in Xfer, ResourceStep(x) \/ Break(x)
  PROVE  Paired'
<1>t. incoming \in [Xfer -> {"none", "incoming", "complete", "failed", "over", "lost"}]
  BY DEF TypeOK
<1>1. CASE Refuse(x)
  <2>1. UNCHANGED <<pending, saved, skewed, announced, wire>>
    BY <1>1 DEF Refuse, receiver, history
  <2>2. CASE skewed
    BY <2>1, <2>2 DEF Paired
  <2>3. CASE ~skewed
    <3>1. Receiving # {}
      <4>1. Cardinality(Receiving) >= MaxReceives /\ MaxReceives \in Nat \ {0}
        BY <1>1, BoundAssumption DEF Refuse
      <4>2. Cardinality({}) = 0
        BY FS_EmptySet
      <4> QED
        BY <4>1, <4>2, ReceivingCount
    <3>2. PICK z \in Xfer : incoming[z] = "incoming"
      BY <3>1 DEF Receiving
    <3>3. Open(z) /\ Open(x) /\ z # x
      BY <1>1, <3>2 DEF Refuse, AnnouncedOnce, Open
    <3> QED
      BY <2>3, <3>3 DEF Paired, OneOpen
  <2> QED
    BY <2>2, <2>3
<1>2. CASE Accept(x) \/ Received(x) \/ ReceiverHears(x)
  <2>1. UNCHANGED <<pending, saved, skewed, announced, wire>>
    BY <1>2 DEF Accept, Received, ReceiverHears, receiver, history
  <2>2. \A z \in Xfer : Open(z)' <=> Open(z)
    BY <1>2, <1>t, <2>1 DEF Open, Accept, Received, ReceiverHears
  <2> QED
    BY <2>1, <2>2, PairedFramed
<1>3. CASE \/ Conclude(x) \/ Report(x) \/ ProgressCancel(x) \/ Proved(x)
           \/ SenderHears(x) \/ Break(x)
  <2>1. UNCHANGED <<pending, saved, skewed, announced, wire, incoming>>
    BY <1>3 DEF Conclude, Report, ProgressCancel, Proved, SenderHears, Break, receiver,
                history
  <2>2. \A z \in Xfer : Open(z)' <=> Open(z)
    BY <2>1 DEF Open
  <2> QED
    BY <2>1, <2>2, PairedFramed
<1> QED
  BY <1>1, <1>2, <1>3 DEF ResourceStep

(* Without a skew, `pending` is empty or holds the metadata of the open one.    *)
LEMMA PendingShape ==
  ASSUME TypeOK, OneOpen, WaitingIsOpen, pending # <<>>
  PROVE  /\ Len(pending) = 1 /\ Head(pending) \in Xfer /\ Head(pending) = pending[1]
         /\ Open(Head(pending)) /\ wire.meta = {}
<1>1. Len(pending) = 1 /\ Head(pending) \in Xfer /\ Head(pending) = pending[1]
  <2>1. pending \in Seq(Xfer)
    BY DEF TypeOK
  <2>2. Len(pending) \in Nat /\ Len(pending) # 0
    BY <2>1
  <2>3. Len(pending) = 1
    <3>1. PICK n : n = Len(pending)
      OBVIOUS
    <3>2. n \in Nat /\ n # 0
      BY <2>2, <3>1, Zenon
    <3>3. n <= 1
      BY <3>1, Zenon DEF WaitingIsOpen
    <3>4. n = 1
      BY ONLY <3>2, <3>3
    <3> QED
      BY <3>1, <3>4, Zenon
  <2> QED
    BY <2>1, <2>3
<1>2. Open(pending[1]) /\ pending[1] \notin wire.meta /\ wire.meta \subseteq Xfer
  BY <1>1 DEF WaitingIsOpen, TypeOK
<1>3. wire.meta = {}
  BY <1>1, <1>2 DEF WaitingIsOpen, OneOpen
<1> QED
  BY <1>1, <1>2, <1>3

(* A metadata packet arrives: it is the open transfer's, and nothing waits yet. *)
LEMMA PairedMetadata ==
  ASSUME TypeOK, Paired, NEW x \in Xfer, MetadataArrives(x)
  PROVE  Paired'
<1> SUFFICES ASSUME ~skewed' PROVE (OneOpen /\ WaitingIsOpen /\ SavedPaired)'
  BY DEF Paired
<1>1. /\ ~skewed /\ UNCHANGED <<announced, incoming, saved>>
      /\ x \in wire.meta /\ wire'.meta = wire.meta \ {x} /\ pending' = Append(pending, x)
  BY DEF MetadataArrives, TypeOK, sender, resource, history
<1>2. OneOpen /\ WaitingIsOpen /\ SavedPaired
  BY <1>1 DEF Paired
<1>3. \A z : Open(z)' <=> Open(z)
  BY <1>1 DEF Open
<1>4. pending = <<>>
  BY <1>1, <1>2, PendingShape
<1>5. pending' = <<x>>
  BY <1>1, <1>4
<1>6. Len(pending') = 1 /\ pending'[1] = x
  BY <1>5
<1>7. Open(x) /\ wire.meta \subseteq Xfer
  BY <1>1, <1>2 DEF WaitingIsOpen, TypeOK
<1>8. WaitingIsOpen'
  BY <1>1, <1>2, <1>3, <1>6, <1>7 DEF WaitingIsOpen
<1> QED
  BY <1>1, <1>2, <1>3, <1>8 DEF OneOpen, SavedPaired

(* A resource is concluded: the metadata it takes is its own.                   *)
LEMMA PairedConclude ==
  ASSUME TypeOK, AnnouncedOnce, Paired, NEW x \in Xfer, ReceiveConcluded(x)
  PROVE  Paired'
<1> SUFFICES ASSUME ~skewed' PROVE (OneOpen /\ WaitingIsOpen /\ SavedPaired)'
  BY DEF Paired
<1>1. /\ ~skewed /\ UNCHANGED <<announced, wire>> /\ pending # <<>>
      /\ pending' = Tail(pending) /\ incoming[x] \in {"complete", "failed"}
      /\ incoming' = [incoming EXCEPT ![x] = Done(x)]
  BY DEF ReceiveConcluded, Popped, sender, history
<1>2. OneOpen /\ WaitingIsOpen /\ SavedPaired
  BY <1>1 DEF Paired
<1>t. /\ incoming \in [Xfer -> {"none", "incoming", "complete", "failed", "over", "lost"}]
      /\ saved \in [Xfer -> Xfer \union {None, Unnamed}]
  BY DEF TypeOK
<1>3. Open(x)
  BY <1>1 DEF AnnouncedOnce, Open
<1>4. Head(pending) = x /\ wire.meta = {} /\ Len(pending) = 1
  BY <1>1, <1>2, <1>3, PendingShape DEF OneOpen
<1>5. Len(pending') = 0
  BY <1>1, <1>4, HeadTailProperties DEF TypeOK
<1>6. \A z \in Xfer : ~Open(z)'
  BY <1>1, <1>2, <1>3, <1>t DEF Open, OneOpen, Done
<1>7. saved' \in {saved, [saved EXCEPT ![x] = x]}
  BY <1>4 DEF ReceiveConcluded
<1>8. SavedPaired'
  BY <1>2, <1>7, <1>t DEF SavedPaired
<1>9. WaitingIsOpen'
  <2>1. Len(pending') <= 1 /\ 1 .. Len(pending') = {} /\ wire'.meta = {}
    <3>1. Len(pending') <= 1 /\ 1 .. Len(pending') = {}
      BY ONLY <1>5
    <3>2. wire'.meta = {}
      BY <1>1, <1>4
    <3> QED
      BY <3>1, <3>2
  <2> QED
    BY ONLY <2>1 DEF WaitingIsOpen
<1> QED
  BY <1>6, <1>8, <1>9 DEF OneOpen

(* The sender's cancel notice closes what is being received and takes one       *)
(* metadata for each, or it drops the metadata of the cancelled transfer.       *)
LEMMA PairedNotice ==
  ASSUME TypeOK, AnnouncedOnce, Paired, NEW x \in Xfer, CancelNotice(x)
  PROVE  Paired'
<1> SUFFICES ASSUME ~skewed' PROVE (OneOpen /\ WaitingIsOpen /\ SavedPaired)'
  BY DEF Paired
<1> DEFINE n == Cardinality(Receiving)
           rest == SubSeq(pending, n + 1, Len(pending))
<1>n. n \in Nat /\ Len(pending) \in Nat /\ pending \in Seq(Xfer)
  BY ReceivingCount, LenProperties DEF TypeOK
<1>t. /\ incoming \in [Xfer -> {"none", "incoming", "complete", "failed", "over", "lost"}]
      /\ wire \in [meta : SUBSET Xfer, cancel : SUBSET Xfer, revoke : SUBSET Xfer]
  BY DEF TypeOK
<1>1. /\ ~skewed /\ UNCHANGED <<announced, saved>> /\ wire'.meta = wire.meta
      /\ n <= Len(pending) /\ pending' = Without(x, rest)
      /\ \A z \in Xfer : incoming'[z] = IF z \in Receiving THEN "lost" ELSE incoming[z]
  <2>1. skewed' = (skewed \/ n > Len(pending))
    BY DEF CancelNotice
  <2>2. ~skewed /\ ~(n > Len(pending))
    BY <2>1, Zenon
  <2>3. n <= Len(pending)
    BY <1>n, <2>2
  <2> QED
    BY <2>2, <2>3, <1>t DEF CancelNotice, sender
<1>2. OneOpen /\ WaitingIsOpen /\ SavedPaired
  BY <1>1 DEF Paired
<1>3. \A z \in Xfer : Open(z)' => Open(z)
  BY <1>1 DEF Open
<1>4. OneOpen' /\ SavedPaired'
  BY <1>1, <1>2, <1>3 DEF OneOpen, SavedPaired
<1>5. CASE Receiving = {}
  <2>1. n = 0
    BY <1>5, FS_EmptySet
  <2>2. \A z \in Xfer : Open(z)' <=> Open(z)
    BY <1>1, <1>5 DEF Open
  <2>3. rest \in Seq(Xfer) /\ Len(rest) = Len(pending)
        /\ \A i \in 1 .. Len(rest) : rest[i] = pending[i]
    <3>1. n + 1 \in Nat \ {0} /\ Len(pending) <= Len(pending)
      BY <1>n
    <3>2. /\ rest \in Seq(Xfer)
          /\ Len(rest) = IF n + 1 <= Len(pending) THEN Len(pending) - (n + 1) + 1 ELSE 0
          /\ \A i \in 1 .. Len(rest) : rest[i] = pending[n + 1 + i - 1]
      BY <1>n, <3>1, SubSeqTyped
    <3> HIDE DEF rest
    <3>3. Len(rest) = Len(pending)
      BY <1>n, <2>1, <3>2
    <3>4. \A i \in 1 .. Len(rest) : n + 1 + i - 1 = i
      BY <1>n, <2>1, <3>3
    <3> QED
      BY <3>2, <3>3, <3>4
  <2> HIDE DEF rest
  <2>4. /\ Len(pending') \in Nat /\ Len(pending') <= Len(pending)
        /\ \A i \in 1 .. Len(pending') : \E j \in 1 .. Len(pending) : pending'[i] = pending[j]
    <3>1. /\ Len(Without(x, rest)) \in Nat /\ Len(Without(x, rest)) <= Len(rest)
          /\ \A i \in 1 .. Len(Without(x, rest)) :
                \E j \in 1 .. Len(rest) : Without(x, rest)[i] = rest[j]
      BY <2>3, WithoutTyped
    <3> QED
      BY <1>1, <2>3, <3>1
  <2>5. \A j \in 1 .. Len(pending) : pending[j] \in Xfer
    BY <1>n, LenProperties
  <2>6. Len(pending') <= 1
    BY <1>2, <1>n, <2>4 DEF WaitingIsOpen
  <2> HIDE DEF n
  <2>7. ASSUME NEW i \in 1 .. Len(pending')
        PROVE  (Open(pending[i]) /\ pending[i] \notin wire.meta)'
    <3>1. PICK j \in 1 .. Len(pending) : pending'[i] = pending[j]
      BY <2>4
    <3>2. pending[j] \in Xfer /\ Open(pending[j]) /\ pending[j] \notin wire.meta
      BY <1>2, <2>5, <3>1 DEF WaitingIsOpen
    <3>3. incoming'[pending[j]] = incoming[pending[j]]
      BY <1>1, <1>5, <3>2
    <3> QED
      BY <1>1, <3>1, <3>2, <3>3 DEF Open
  <2>8. \A z \in wire'.meta : Open(z)'
    BY <1>1, <1>2, <1>t, <2>2 DEF WaitingIsOpen
  <2>9. WaitingIsOpen'
    BY <2>6, <2>7, <2>8 DEF WaitingIsOpen
  <2> QED
    BY <1>4, <2>9
<1>6. CASE Receiving # {}
  <2>1. PICK z \in Xfer : incoming[z] = "incoming"
    BY <1>6 DEF Receiving
  <2>2. Open(z)
    BY <2>1 DEF AnnouncedOnce, Open
  <2>3. Receiving = {z}
    BY <1>2, <2>1, <2>2 DEF Receiving, AnnouncedOnce, Open, OneOpen
  <2>4. n = 1
    BY <2>3, FS_Singleton
  <2>5. pending # <<>>
    BY <1>1, <1>n, <2>4
  <2>6. Len(pending) = 1 /\ wire.meta = {}
    BY <1>2, <2>5, PendingShape
  <2>7. rest = <<>>
    <3>1. n + 1 \in Int /\ Len(pending) \in Int /\ Len(pending) < n + 1
      BY <1>n, <2>4, <2>6
    <3> QED
      BY <3>1, SubSeqEmpty
  <2>8. pending' = <<>>
    BY <1>1, <2>7 DEF Without
  <2>9. Len(pending') = 0
    BY <2>8
  <2>10. WaitingIsOpen'
    BY <1>1, <2>6, <2>9 DEF WaitingIsOpen
  <2> QED
    BY <1>4, <2>10
<1> QED
  BY <1>5, <1>6

(* The steps of the receiver and of the two users.                             *)
LEMMA PairedReceive ==
  ASSUME TypeOK, AnnouncedOnce, Paired, NEW x \in Xfer,
         ReceiveStep(x) \/ MetadataLost(x) \/ UserCancel(x) \/ ReceiverCancel(x)
  PROVE  Paired'
<1>1. CASE ReceiveUnnamed(x)
  BY <1>1 DEF ReceiveUnnamed, Paired
<1>2. CASE \/ MetadataLost(x) \/ UserCancel(x) \/ ReceiverCancel(x) \/ Revoked(x)
           \/ CancelEnd(x)
  <2>1. UNCHANGED <<pending, saved, skewed, announced, incoming>>
    BY <1>2 DEF MetadataLost, UserCancel, ReceiverCancel, Revoked, CancelEnd, receiver,
                resource, history
  <2>2. wire'.meta \subseteq wire.meta
    BY <1>2 DEF MetadataLost, UserCancel, ReceiverCancel, Revoked, CancelEnd, TypeOK
  <2>3. \A z \in Xfer : Open(z)' <=> Open(z)
    BY <2>1 DEF Open
  <2> QED
    BY <2>1, <2>2, <2>3, PairedFramed
<1> QED
  BY <1>1, <1>2, PairedMetadata, PairedConclude, PairedNotice DEF ReceiveStep

(* MisfiledNeedsSkew for every instance: the bytes of a resource are handed to  *)
(* the chat under another transfer's name only after a skew                     *)
(* (_resource_concluded, _dequeue_pending_file, _cancel_incoming_resources).    *)
THEOREM PairedUnlessSkewed == Spec => []MisfiledNeedsSkew
<1>1. Init => PairInv
  <2>1. Init => AnnouncedOnce
    BY DEF Init, AnnouncedOnce
  <2>2. Init => OneOpen /\ SavedPaired
    BY DEF Init, Open, OneOpen, SavedPaired
  <2>3. Init => WaitingIsOpen
    BY DEF Init, WaitingIsOpen
  <2> QED
    BY <2>1, <2>2, <2>3 DEF PairInv, Paired
<1>2. TypeOK /\ PairInv /\ [Next]_vars => PairInv'
  <2> SUFFICES ASSUME TypeOK, PairInv, [Next]_vars PROVE PairInv'
    OBVIOUS
  <2>1. AnnouncedOnce' /\ AnnouncedOnce /\ Paired
    BY OnceStep DEF PairInv
  <2>2. CASE UNCHANGED vars
    <3>1. \A z \in Xfer : Open(z)' <=> Open(z)
      BY <2>2 DEF vars, resource, history, Open
    <3>2. UNCHANGED <<pending, saved, skewed>> /\ wire'.meta \subseteq wire.meta
      BY <2>2 DEF vars, receiver, history
    <3> QED
      BY <2>1, <3>1, <3>2, PairedFramed DEF PairInv
  <2>3. CASE Next
    <3>1. PICK x \in Xfer : \/ FileBegin(x) \/ SendStep(x)
                            \/ ResourceStep(x) \/ Break(x)
                            \/ ReceiveStep(x) \/ MetadataLost(x)
                            \/ UserCancel(x) \/ ReceiverCancel(x)
      BY <2>3 DEF Next
    <3> QED
      BY <2>1, <3>1, PairedSend, PairedResource, PairedReceive DEF PairInv
  <2> QED
    BY <2>2, <2>3
<1>3. PairInv => MisfiledNeedsSkew
  BY DEF PairInv, Paired, SavedPaired, MisfiledNeedsSkew
<1> QED
  BY <1>1, <1>2, <1>3, FileTypes, PTL DEF Spec

-----------------------------------------------------------------------------
(* The send slot                                                               *)

\* The part of TypeOK the argument rests on.
SlotTypeOK ==
    /\ phase \in [Xfer -> {"idle", "waiting", "won", "claimed", "announced", "built",
                           "returned", "failed"}]
    /\ outgoing \in [Xfer -> {"none", "running", "complete", "failed", "concluding",
                              "over"}]
    /\ wire \in [meta : SUBSET Xfer, cancel : SUBSET Xfer, revoke : SUBSET Xfer]

File == Xfer \ LongText
InLock == {"waiting", "won", "claimed", "announced", "built"}
Won == {"won", "claimed", "announced", "built"}

\* A file goes through send_file holding _file_send_lock.
LockHeld == \A x \in File : phase[x] \in InLock => lock = x

\* Nothing is on the wire that was not built.
RunningWasBuilt ==
    \A x \in Xfer : outgoing[x] # "none" => phase[x] \in {"built", "returned"}

\* A file on the wire that nobody asked to cancel is registered, or about to be.
RunningRegistered ==
    \A x \in File : outgoing[x] = "running" /\ x \notin asked
                    => phase[x] = "built" \/ x \in active

\* Whoever has won the slot is the only file on its way.
WonAlone ==
    \A x, y \in File : x # y /\ phase[y] \in Won /\ outgoing[x] = "running"
                       => x \in asked

\* The receiver revokes only what its user asked to cancel.
RevokeAsked == wire.revoke \subseteq asked

SlotInv ==
    /\ SlotTypeOK /\ LockHeld /\ RunningWasBuilt /\ RunningRegistered
    /\ WonAlone /\ RevokeAsked /\ OneFileAtATime

-----------------------------------------------------------------------------
LEMMA SlotInit == Init => SlotInv
  BY DEF Init, SlotInv, SlotTypeOK, LockHeld, RunningWasBuilt, RunningRegistered,
         WonAlone, RevokeAsked, OneFileAtATime, File, InLock, Won

(* What the steps that leave the slot's variables alone preserve.              *)
LEMMA SlotFramed ==
  ASSUME SlotInv, SlotTypeOK', wire'.revoke \subseteq wire.revoke \union asked',
         UNCHANGED <<phase, lock>>, asked \subseteq asked',
         \A x \in Xfer : /\ outgoing'[x] = "running" => outgoing[x] = "running"
                         /\ outgoing[x] = "none" => outgoing'[x] = "none",
         \A x \in Xfer : x \in active \ active' /\ outgoing'[x] = "running"
                         => x \in asked'
  PROVE  SlotInv'
  BY DEF SlotInv, SlotTypeOK, LockHeld, RunningWasBuilt, RunningRegistered,
         WonAlone, RevokeAsked, OneFileAtATime, File, InLock, Won

(* The steps of a sending thread.                                              *)
LEMMA SlotSend ==
  ASSUME SlotInv, NEW x \in Xfer, FileBegin(x) \/ SendStep(x)
  PROVE  SlotInv'
<1> USE DEF SlotInv, SlotTypeOK, LockHeld, RunningWasBuilt, RunningRegistered,
            WonAlone, RevokeAsked, OneFileAtATime, File, InLock, Won
<1>1. CASE FileBegin(x)
  BY <1>1 DEF FileBegin, resource, history
<1>2. CASE TextBegin(x)
  BY <1>2 DEF TextBegin, SendMetadata, resource
<1>3. CASE SlotFree(x)
  BY <1>3 DEF SlotFree, SlotBusy, resource, history
<1>4. CASE SlotTimeout(x)
  BY <1>4 DEF SlotTimeout, Released, resource, history
<1>5. CASE Claim(x)
  BY <1>5 DEF Claim, resource, history
<1>6. CASE Announce(x)
  BY <1>6 DEF Announce, SendMetadata, resource
<1>7. CASE Build(x)
  BY <1>7 DEF Build, Ready, history
<1>8. CASE Register(x)
  BY <1>8 DEF Register, Released, resource, history
<1>9. CASE SendFails(x)
  BY <1>9 DEF SendFails, Released, resource, history
<1> QED
  BY <1>1, <1>2, <1>3, <1>4, <1>5, <1>6, <1>7, <1>8, <1>9 DEF SendStep

(* Everything else: the resource, its callbacks, cancellation, the receiver.   *)
LEMMA SlotOther ==
  ASSUME SlotInv, NEW x \in Xfer,
         \/ ResourceStep(x) \/ Break(x) \/ ReceiveStep(x) \/ MetadataLost(x)
         \/ UserCancel(x) \/ ReceiverCancel(x)
  PROVE  SlotInv'
<1> DEFINE Framed ==
      /\ SlotTypeOK'
      /\ wire'.revoke \subseteq wire.revoke \union asked'
      /\ UNCHANGED <<phase, lock>> /\ asked \subseteq asked'
      /\ \A z \in Xfer : /\ outgoing'[z] = "running" => outgoing[z] = "running"
                         /\ outgoing[z] = "none" => outgoing'[z] = "none"
      /\ \A z \in Xfer : z \in active \ active' /\ outgoing'[z] = "running"
                         => z \in asked'
<1> SUFFICES Framed
  BY SlotFramed
<1>t. SlotTypeOK /\ RevokeAsked
  BY DEF SlotInv
<1> USE <1>t DEF SlotTypeOK, RevokeAsked, sender, receiver, resource, history
<1>1. CASE Conclude(x)
  BY <1>1 DEF Conclude
<1>2. CASE Report(x)
  BY <1>2 DEF Report
<1>3. CASE ProgressCancel(x)
  BY <1>3 DEF ProgressCancel, Abandon
<1>4. CASE Accept(x) \/ Refuse(x) \/ Received(x) \/ ReceiverHears(x)
  BY <1>4 DEF Accept, Refuse, Received, ReceiverHears
<1>5. CASE Proved(x) \/ SenderHears(x) \/ Break(x)
  BY <1>5 DEF Proved, SenderHears, Break
<1>6. CASE MetadataArrives(x) \/ MetadataLost(x)
  BY <1>6 DEF MetadataArrives, MetadataLost
<1>7. CASE ReceiveConcluded(x)
  BY <1>7 DEF ReceiveConcluded
<1>8. CASE ReceiveUnnamed(x)
  BY <1>8 DEF ReceiveUnnamed
<1>9. CASE CancelNotice(x)
  BY <1>9 DEF CancelNotice
<1>10. CASE Revoked(x)
  BY <1>10 DEF Revoked, Abandon
<1>11. CASE CancelEnd(x)
  BY <1>11 DEF CancelEnd
<1>12. CASE UserCancel(x)
  BY <1>12 DEF UserCancel, CancelTransfer, Abandon
<1>13. CASE ReceiverCancel(x)
  BY <1>13 DEF ReceiverCancel
<1> QED
  BY <1>1, <1>2, <1>3, <1>4, <1>5, <1>6, <1>7, <1>8, <1>9, <1>10, <1>11, <1>12, <1>13
     DEF ResourceStep, ReceiveStep

LEMMA SlotStep == SlotInv /\ [Next]_vars => SlotInv'
<1> SUFFICES ASSUME SlotInv, [Next]_vars PROVE SlotInv'
  OBVIOUS
<1>1. CASE UNCHANGED vars
  BY <1>1 DEF vars, sender, receiver, resource, history, SlotInv, SlotTypeOK, LockHeld,
              RunningWasBuilt, RunningRegistered, WonAlone, RevokeAsked, OneFileAtATime
<1>2. CASE Next
  <2>1. PICK x \in Xfer : \/ FileBegin(x) \/ SendStep(x)
                          \/ ResourceStep(x) \/ Break(x)
                          \/ ReceiveStep(x) \/ MetadataLost(x)
                          \/ UserCancel(x) \/ ReceiverCancel(x)
    BY <1>2 DEF Next
  <2> QED
    BY <2>1, SlotSend, SlotOther
<1> QED
  BY <1>1, <1>2

(* Two files are on the wire at once only after somebody asked to cancel one of *)
(* them (send_file, _wait_for_send_slot, _active_resources).                    *)
THEOREM OneFile == Spec => []OneFileAtATime
<1>1. SlotInv => OneFileAtATime
  BY DEF SlotInv
<1> QED
  BY SlotInit, SlotStep, <1>1, PTL DEF Spec
=============================================================================
